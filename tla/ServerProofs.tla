---------------------------- MODULE ServerProofs ----------------------------
(***************************************************************************)
(* Proofs about the server as a process: its life cycle, the configuration *)
(* it starts with, and the metrics its request threads share.              *)
(*                                                                         *)
(* The properties of ServerLifecycle hold for any number of requests, with *)
(* or without a rate limiter, whether or not listen() is prompt and stop() *)
(* is called by others.  None of them is inductive: they rest on which     *)
(* threads and objects exist at each point of the main thread, which       *)
(* Phases states.                                                          *)
(*                                                                         *)
(* Those of Configuration hold for any contents of the files, any options  *)
(* and any sequence of starts and crashes, with edits at any time: options *)
(* win, a saved configuration is the one loaded back, and the server never *)
(* overwrites a file that has content, if it could look at the file and    *)
(* nobody has touched it since.                                            *)
(*                                                                         *)
(* Those of Metrics hold for any number of threads and requests and any    *)
(* size of the ring.                                                       *)
(*                                                                         *)
(* The three parts share no variables; each has a specification of its own. *)
(***************************************************************************)
EXTENDS ServerLifecycle, Configuration, Metrics, DataProofs

(* The main thread is inside start_server_and_wait, after the spawn.       *)
Serving == main \in {"grace", "wait", "stop", "join"}

(* The main thread has left start_server_and_wait and destroys the server. *)
Leaving == main \in {"request_stop", "destroy_thread", "destroy_server"}

(* The server thread exists only while the main thread is in               *)
(* start_server_and_wait, requests only while listen() is running, and     *)
(* server_running turns false only when listen() returns.                  *)
ListenerPhase ==
    /\ listener \notin {"none", "joined"} => Serving
    /\ Serving => listener \notin {"none", "joined"}
    /\ Leaving => listener \in {"none", "joined"}
    /\ requests > 0 => listener \in {"accepting", "closing", "failing"}
    /\ ~ running => listener \in {"returned", "joined"}

(* The cleanup thread exists only between start() and its join.            *)
CleanerPhase ==
    /\ cleaner \notin {"none", "joined"} =>
          /\ EnableRateLimiter
          /\ main = "listen" \/ Serving \/ main \in {"request_stop", "destroy_thread"}

(* What the threads use exists as long as they do, a statement has its     *)
(* connection, each destructor finds only what it and the later ones       *)
(* close, and nothing is left when the process has ended.                  *)
ObjectsPhase ==
    /\ main \in {"listen", "destroy_thread", "request_stop", "reset", "sigaction", "start"} \/ Serving =>
          Databases \subseteq objects /\ (EnableRateLimiter => "rate_limiter" \in objects)
    /\ "stmt" \in objects => "oui" \in objects
    /\ main \in {"construct", "destroy_mac"} => objects \subseteq Databases
    /\ main = "destroy_services" => objects \subseteq {"city", "asn"}
    /\ main = "exit" => result = "killed" \/ objects = {}

(* The flag is set by the handler only, and the handler is installed once. *)
SignalPhase ==
    /\ signals = "handler" => main \notin {"construct", "reset", "sigaction"}
    /\ Serving \/ Leaving \/ main \in {"start", "listen"} => signals = "handler"
    /\ handled => signals = "handler"
    /\ handled <=> shutdown

(* Why the main thread left its wait, and the status it will return.       *)
ResultPhase ==
    /\ main \in {"stop", "join"} => shutdown \/ ~ running
    /\ result = "success" => handled /\ running /\ (Leaving \/ main \in {"destroy_mac", "destroy_services", "exit"})

Phases == ListenerPhase /\ CleanerPhase /\ ObjectsPhase /\ SignalPhase /\ ResultPhase

LInv == TypeOK /\ Phases

(* The definitions that a step of the proof expands beside the action.     *)
USE DEF MainStates, ListenerStates, CleanerStates, Serving, Leaving, signalling, listening,
    cleaning, Boot, Prior, Databases, Closes

-----------------------------------------------------------------------------
(* Init establishes the invariant.                                         *)
LEMMA InitLInv == Init => LInv
<1> SUFFICES ASSUME Init PROVE LInv
  OBVIOUS
<1> USE FlagsAssumption DEF Init
<1>1. TypeOK
  <2>1. {shutdown, handled, socket, running, stop_token} \subseteq BOOLEAN
    BY Zenon
  <2>2. requests \in 0..MaxRequests
    BY SMT
  <2> QED
    BY <2>1, <2>2, Zenon DEF TypeOK
<1>2. ListenerPhase /\ CleanerPhase /\ ObjectsPhase
  BY DEF ListenerPhase, CleanerPhase, ObjectsPhase
<1>3. SignalPhase /\ ResultPhase
  BY DEF SignalPhase, ResultPhase
<1> QED
  BY <1>1, <1>2, <1>3 DEF LInv, Phases

(* Every step of the main thread preserves the invariant.                  *)
LEMMA MainLInv ==
    ASSUME LInv, Main
    PROVE  LInv'
<1> USE FlagsAssumption DEF LInv, TypeOK, Phases, ListenerPhase, CleanerPhase,
        ObjectsPhase, SignalPhase, ResultPhase
<1>1. CASE ConstructServer
  <2>1. TypeOK'
    BY <1>1 DEF ConstructServer
  <2>2. ListenerPhase'
    BY <1>1 DEF ConstructServer
  <2>3. CleanerPhase'
    BY <1>1 DEF ConstructServer
  <2>4. ObjectsPhase'
    BY <1>1 DEF ConstructServer
  <2>5. SignalPhase'
    BY <1>1 DEF ConstructServer
  <2>6. ResultPhase'
    BY <1>1 DEF ConstructServer
  <2> QED
    BY <2>1, <2>2, <2>3, <2>4, <2>5, <2>6
<1>2. CASE ResetShutdown
  BY <1>2 DEF ResetShutdown
<1>3. CASE InstallHandlers
  BY <1>3 DEF InstallHandlers
<1>4. CASE Start
  <2>1. TypeOK'
    BY <1>4 DEF Start
  <2>2. ListenerPhase'
    BY <1>4 DEF Start
  <2>3. CleanerPhase'
    BY <1>4 DEF Start
  <2>4. ObjectsPhase'
    BY <1>4 DEF Start
  <2>5. SignalPhase'
    BY <1>4 DEF Start
  <2>6. ResultPhase'
    BY <1>4 DEF Start
  <2> QED
    BY <2>1, <2>2, <2>3, <2>4, <2>5, <2>6
<1>5. CASE SpawnListener
  <2>1. TypeOK'
    BY <1>5 DEF SpawnListener
  <2>2. ListenerPhase'
    BY <1>5 DEF SpawnListener
  <2>3. CleanerPhase'
    BY <1>5 DEF SpawnListener
  <2>4. ObjectsPhase'
    BY <1>5 DEF SpawnListener
  <2>5. SignalPhase'
    BY <1>5 DEF SpawnListener
  <2>6. ResultPhase'
    BY <1>5 DEF SpawnListener
  <2> QED
    BY <2>1, <2>2, <2>3, <2>4, <2>5, <2>6
<1>6. CASE GraceFails
  BY <1>6 DEF GraceFails
<1>7. CASE GraceEnds
  BY <1>7 DEF GraceEnds
<1>8. CASE WaitEnds
  BY <1>8 DEF WaitEnds, Woken
<1>9. CASE StopServer
  <2>1. TypeOK'
    BY <1>9 DEF StopServer, http_stop
  <2>2. ListenerPhase'
    BY <1>9 DEF StopServer, http_stop
  <2>3. CleanerPhase'
    BY <1>9 DEF StopServer, http_stop
  <2>4. ObjectsPhase'
    BY <1>9 DEF StopServer, http_stop
  <2>5. SignalPhase'
    BY <1>9 DEF StopServer, http_stop
  <2>6. ResultPhase'
    BY <1>9 DEF StopServer, http_stop
  <2> QED
    BY <2>1, <2>2, <2>3, <2>4, <2>5, <2>6
<1>10. CASE Join
  <2>1. TypeOK'
    BY <1>10 DEF Join, ExitStatus
  <2>2. ListenerPhase'
    BY <1>10 DEF Join, ExitStatus
  <2>3. CleanerPhase'
    BY <1>10 DEF Join, ExitStatus
  <2>4. ObjectsPhase'
    BY <1>10 DEF Join, ExitStatus
  <2>5. SignalPhase'
    BY <1>10 DEF Join, ExitStatus
  <2>6. ResultPhase'
    BY <1>10 DEF Join, ExitStatus
  <2> QED
    BY <2>1, <2>2, <2>3, <2>4, <2>5, <2>6
<1>11. CASE RequestStop
  <2>1. TypeOK'
    BY <1>11 DEF RequestStop
  <2>2. ListenerPhase'
    BY <1>11 DEF RequestStop
  <2>3. CleanerPhase'
    BY <1>11 DEF RequestStop
  <2>4. ObjectsPhase'
    BY <1>11 DEF RequestStop
  <2>5. SignalPhase'
    BY <1>11 DEF RequestStop
  <2>6. ResultPhase'
    BY <1>11 DEF RequestStop
  <2> QED
    BY <2>1, <2>2, <2>3, <2>4, <2>5, <2>6
<1>12. CASE DestroyThread
  <2>1. TypeOK'
    BY <1>12 DEF DestroyThread, Joinable
  <2>2. ListenerPhase'
    BY <1>12 DEF DestroyThread, Joinable
  <2>3. CleanerPhase'
    BY <1>12 DEF DestroyThread, Joinable
  <2>4. ObjectsPhase'
    BY <1>12 DEF DestroyThread, Joinable
  <2>5. SignalPhase'
    BY <1>12 DEF DestroyThread, Joinable
  <2>6. ResultPhase'
    BY <1>12 DEF DestroyThread, Joinable
  <2> QED
    BY <2>1, <2>2, <2>3, <2>4, <2>5, <2>6
<1>13. CASE DestroyServer
  <2>1. TypeOK'
    BY <1>13 DEF DestroyServer
  <2>2. ListenerPhase'
    BY <1>13 DEF DestroyServer
  <2>3. CleanerPhase'
    BY <1>13 DEF DestroyServer
  <2>4. ObjectsPhase'
    BY <1>13 DEF DestroyServer
  <2>5. SignalPhase'
    BY <1>13 DEF DestroyServer
  <2>6. ResultPhase'
    BY <1>13 DEF DestroyServer
  <2> QED
    BY <2>1, <2>2, <2>3, <2>4, <2>5, <2>6
<1>14. CASE MACServiceDestroyed
  <2>1. objects \subseteq {"city", "asn"}
    BY <1>14 DEF MACServiceDestroyed
  <2> QED
    BY <1>14, <2>1 DEF MACServiceDestroyed
<1>15. CASE ProcessEnds
  <2>1. objects = {}
    BY <1>15 DEF ProcessEnds
  <2> QED
    BY <1>15, <2>1 DEF ProcessEnds
<1>16. ASSUME NEW o \in Databases, OpenDatabase(o)
       PROVE  LInv'
  <2>1. TypeOK'
    BY <1>16 DEF OpenDatabase, OpenFails, Handles, ClosedOnFailure
  <2>2. ListenerPhase'
    BY <1>16 DEF OpenDatabase, OpenFails, Handles, ClosedOnFailure
  <2>3. CleanerPhase'
    BY <1>16 DEF OpenDatabase, OpenFails, Handles, ClosedOnFailure
  <2>4. ObjectsPhase'
    BY <1>16 DEF OpenDatabase, OpenFails, Handles, ClosedOnFailure
  <2>5. SignalPhase'
    BY <1>16 DEF OpenDatabase, OpenFails, Handles, ClosedOnFailure
  <2>6. ResultPhase'
    BY <1>16 DEF OpenDatabase, OpenFails, Handles, ClosedOnFailure
  <2> QED
    BY <2>1, <2>2, <2>3, <2>4, <2>5, <2>6
<1>17. ASSUME NEW o \in Databases, CloseDatabase(o)
       PROVE  LInv'
  <2>1. TypeOK'
    BY <1>17 DEF CloseDatabase
  <2>2. ListenerPhase'
    BY <1>17 DEF CloseDatabase
  <2>3. CleanerPhase'
    BY <1>17 DEF CloseDatabase
  <2>4. ObjectsPhase'
    BY <1>17 DEF CloseDatabase
  <2>5. SignalPhase'
    BY <1>17 DEF CloseDatabase
  <2>6. ResultPhase'
    BY <1>17 DEF CloseDatabase
  <2> QED
    BY <2>1, <2>2, <2>3, <2>4, <2>5, <2>6
<1> QED
  BY <1>1, <1>2, <1>3, <1>4, <1>5, <1>6, <1>7, <1>8, <1>9, <1>10, <1>11, <1>12, <1>13, <1>14, <1>15, <1>16, <1>17 DEF Main

(* So does every step of the server thread and of the request threads.     *)
LEMMA ListenerLInv ==
    ASSUME LInv, (Bind \/ BeginAccepting \/ SocketClosed \/ AcceptFails \/ ListenReturns
                              \/ Accept \/ AnswerRequest)
    PROVE  LInv'
<1> USE FlagsAssumption DEF LInv, TypeOK, Phases, ListenerPhase, CleanerPhase,
        ObjectsPhase, SignalPhase, ResultPhase
<1>1. CASE Bind
  <2>1. TypeOK'
    BY <1>1 DEF Bind
  <2>2. ListenerPhase'
    BY <1>1 DEF Bind
  <2>3. CleanerPhase'
    BY <1>1 DEF Bind
  <2>4. ObjectsPhase'
    BY <1>1 DEF Bind
  <2>5. SignalPhase'
    BY <1>1 DEF Bind
  <2>6. ResultPhase'
    BY <1>1 DEF Bind
  <2> QED
    BY <2>1, <2>2, <2>3, <2>4, <2>5, <2>6
<1>2. CASE BeginAccepting
  BY <1>2 DEF BeginAccepting
<1>3. CASE SocketClosed
  BY <1>3 DEF SocketClosed
<1>4. CASE AcceptFails
  <2>1. TypeOK'
    BY <1>4 DEF AcceptFails
  <2>2. ListenerPhase'
    BY <1>4 DEF AcceptFails
  <2>3. CleanerPhase'
    BY <1>4 DEF AcceptFails
  <2>4. ObjectsPhase'
    BY <1>4 DEF AcceptFails
  <2>5. SignalPhase'
    BY <1>4 DEF AcceptFails
  <2>6. ResultPhase'
    BY <1>4 DEF AcceptFails
  <2> QED
    BY <2>1, <2>2, <2>3, <2>4, <2>5, <2>6
<1>5. CASE ListenReturns
  BY <1>5 DEF ListenReturns
<1>6. CASE Accept
  BY <1>6 DEF Accept
<1>7. CASE AnswerRequest
  BY <1>7 DEF AnswerRequest
<1> QED
  BY <1>1, <1>2, <1>3, <1>4, <1>5, <1>6, <1>7

(* So does every step of the cleanup thread.                               *)
LEMMA CleanerLInv ==
    ASSUME LInv, Cleaner
    PROVE  LInv'
<1> USE FlagsAssumption DEF LInv, TypeOK, Phases, ListenerPhase, CleanerPhase,
        ObjectsPhase, SignalPhase, ResultPhase
<1>1. CASE CleanerLoop
  BY <1>1 DEF CleanerLoop
<1>2. CASE CleanerWakes
  BY <1>2 DEF CleanerWakes
<1>3. CASE CleanerChecks
  BY <1>3 DEF CleanerChecks
<1>4. CASE CleanupDone
  BY <1>4 DEF CleanupDone
<1> QED
  BY <1>1, <1>2, <1>3, <1>4 DEF Cleaner

(* So do signals, stop() and the stuttering of the ended process.          *)
LEMMA RestLInv ==
    ASSUME LInv, (Signal \/ stop \/ Ended)
    PROVE  LInv'
<1> USE FlagsAssumption DEF LInv, TypeOK, Phases, ListenerPhase, CleanerPhase,
        ObjectsPhase, SignalPhase, ResultPhase
<1>1. CASE Signal
  <2>1. TypeOK'
    <3>1. shutdown' \in BOOLEAN /\ handled' \in BOOLEAN
      BY <1>1, Zenon DEF Signal
    <3> QED
      BY <1>1, <3>1 DEF Signal
  <2>2. ListenerPhase'
    BY <1>1 DEF Signal
  <2>3. CleanerPhase'
    BY <1>1 DEF Signal
  <2>4. ObjectsPhase'
    BY <1>1 DEF Signal
  <2>5. SignalPhase'
    BY <1>1 DEF Signal
  <2>6. ResultPhase'
    BY <1>1 DEF Signal
  <2> QED
    BY <2>1, <2>2, <2>3, <2>4, <2>5, <2>6
<1>2. CASE stop
  <2>1. socket' \in BOOLEAN
    BY <1>2 DEF stop, http_stop
  <2> QED
    BY <1>2, <2>1 DEF stop
<1>3. CASE Ended
  BY <1>3 DEF Ended, vars
<1> QED
  BY <1>1, <1>2, <1>3

(* A step of the specification, or a stutter, preserves the invariant.     *)
LEMMA StepLInv == LInv /\ [Next]_vars => LInv'
<1> SUFFICES ASSUME LInv, [Next]_vars PROVE LInv'
  OBVIOUS
<1>1. CASE Next
  BY <1>1, MainLInv, ListenerLInv, CleanerLInv, RestLInv DEF Next
<1>2. CASE UNCHANGED vars
  BY <1>2 DEF vars, LInv, TypeOK, Phases, ListenerPhase, CleanerPhase, ObjectsPhase,
     SignalPhase, ResultPhase
<1> QED
  BY <1>1, <1>2

(* The phases hold in every reachable state.                               *)
THEOREM LifecycleInvariance == Spec => []LInv
BY InitLInv, StepLInv, PTL DEF Spec

(* No thread outlives what it uses, services and rate limiter: the order   *)
(* of the destructors and of the joins.                                    *)
THEOREM DestructionSafe == Spec => []NoUseAfterDestruction
<1>1. LInv => NoUseAfterDestruction
  BY FlagsAssumption DEF LInv, TypeOK, Phases, ListenerPhase, CleanerPhase, ObjectsPhase, NoUseAfterDestruction
<1> QED
  BY <1>1, LifecycleInvariance, PTL

(* Nothing is left when the process ends: threads are joined and databases *)
(* closed, also after a constructor or the creation of a thread has thrown. *)
THEOREM AllReleased == Spec => []NothingLeftBehind
<1>1. LInv => NothingLeftBehind
  BY DEF LInv, TypeOK, Phases, ListenerPhase, CleanerPhase, ObjectsPhase, NothingLeftBehind
<1> QED
  BY <1>1, LifecycleInvariance, PTL

(* A handled signal is never forgotten: the flag is cleared only before    *)
(* the handler is installed.                                               *)
THEOREM SignalsKept == Spec => []SignalRemembered
<1>1. LInv => SignalRemembered
  BY DEF LInv, Phases, SignalPhase, SignalRemembered
<1> QED
  BY <1>1, LifecycleInvariance, PTL

(* Success is reported only after a handled signal, and only when listen() *)
(* did not fail.                                                           *)
THEOREM StatusTruthful == Spec => []ExitStatusTruthful
<1>1. LInv => ExitStatusTruthful
  BY DEF LInv, Phases, ResultPhase, ExitStatusTruthful
<1> QED
  BY <1>1, LifecycleInvariance, PTL

-----------------------------------------------------------------------------
LEMMA ModRange ==
    ASSUME NEW n \in Int, NEW m \in Nat, m > 0
    PROVE  n % m \in Nat /\ n % m < m
  BY SMT

LEMMA ModSmall == ASSUME NEW m \in Nat, NEW n \in Nat, n < m PROVE n % m = n
  BY SMT

(* A stored integer is one of the type of its field: it is stored again as *)
(* itself.                                                                 *)
LEMMA StoredTwice ==
    ASSUME NEW f, NEW n \in Int
    PROVE  Stored(f, n) \in Int /\ Stored(f, Stored(f, n)) = Stored(f, n)
<1> DEFINE h == WideModulus \div 2
<1>1. WideModulus \in Nat /\ WideModulus > 0 /\ h \in Int
  BY WideAssumption
<1>2. CASE f = "port"
  <2>1. n % 65536 \in Nat /\ n % 65536 < 65536
    BY ModRange
  <2> QED BY <1>2, <2>1, ModSmall DEF Stored
<1>3. CASE f = "log_max_file_size"
  <2>1. n % WideModulus \in Nat /\ (n % WideModulus) % WideModulus = n % WideModulus
    BY <1>1, ModRange, ModSmall
  <2> QED BY <1>3, <2>1 DEF Stored
<1>4. CASE f \notin {"port", "log_max_file_size"}
  <2> DEFINE x == (n + h) % WideModulus
  <2>1. x \in Nat /\ x % WideModulus = x
    BY <1>1, ModRange, ModSmall
  <2>2. Stored(f, n) = x - h /\ Stored(f, x - h) = ((x - h + h) % WideModulus) - h
    BY <1>4 DEF Stored
  <2> HIDE DEF x, h
  <2>3. x - h + h = x /\ x - h \in Int
    BY <1>1, <2>1
  <2> QED BY <2>1, <2>2, <2>3
<1> QED BY <1>2, <1>3, <1>4

(* Small integers fit every field.                                         *)
LEMMA SmallStored == ASSUME NEW f, NEW n \in Nat, n < 65536 PROVE Stored(f, n) = n
<1> DEFINE h == WideModulus \div 2
<1>1. WideModulus \in Nat /\ h \in Nat /\ n + h < WideModulus /\ n < WideModulus
  BY WideAssumption, SMT
<1>2. CASE f = "port"
  BY <1>2, ModSmall DEF Stored
<1>3. CASE f = "log_max_file_size"
  BY <1>1, <1>3, ModSmall DEF Stored
<1>4. CASE f \notin {"port", "log_max_file_size"}
  <2>1. (n + h) % WideModulus = n + h
    BY <1>1, ModSmall
  <2>2. Stored(f, n) = ((n + h) % WideModulus) - h
    BY <1>4 DEF Stored
  <2> HIDE DEF h
  <2> QED BY <1>1, <2>1, <2>2
<1> QED BY <1>2, <1>3, <1>4

-----------------------------------------------------------------------------
(* A configuration has every member, with a value of the member's type.    *)
Typed(c) ==
    /\ c = [f \in Fields |-> c[f]]
    /\ \A f \in IntFields : c[f] \in Int /\ Stored(f, c[f]) = c[f]
    /\ \A f \in BoolFields : c[f] \in BOOLEAN

LEMMA FieldsDisjoint ==
    /\ IntFields \subseteq Fields /\ BoolFields \subseteq Fields /\ TextFields \subseteq Fields
    /\ DbFields \subseteq TextFields
    /\ \A f \in IntFields : f \notin BoolFields /\ f \notin TextFields
    /\ \A f \in BoolFields : f \notin TextFields
    /\ \A f \in Fields : f \in IntFields \/ f \in BoolFields \/ f \in TextFields
    /\ "log_max_file_size" \in IntFields /\ "default_api_key" \in TextFields
    /\ "log_file" \in TextFields /\ "enable_file_logging" \in BoolFields
  BY SMT DEF Fields, IntFields, BoolFields, TextFields, DbFields

(* The built-in configuration, member by member.                           *)
LEMMA InitialIntegers ==
    /\ Initial["port"] = 8080 /\ Initial["threads"] = 4
    /\ Initial["max_requests_per_minute"] = 100 /\ Initial["max_batch_size"] = 100
    /\ Initial["log_max_file_size"] = 10 /\ Initial["log_max_backup_files"] = 5
  BY SMT DEF Initial

LEMMA InitialBooleans ==
    /\ Initial["enable_rate_limiter"] = TRUE /\ Initial["enable_api_auth"] = FALSE
    /\ Initial["enable_file_logging"] = FALSE /\ Initial["log_enable_stdout"] = TRUE
  BY SMT DEF Initial

LEMMA InitialTexts ==
    Initial["default_api_key"] = "" /\ Initial["log_rotation"] = "size"
  BY SMT DEF Initial

LEMMA DefaultsTyped == Typed(ServerConfig)
<1>1. /\ ServerConfig = [f \in Fields |-> ServerConfig[f]]
      /\ \A f \in Fields : ServerConfig[f] = Initial[f]
  BY DEF ServerConfig
<1>2. ASSUME NEW f \in IntFields
      PROVE  ServerConfig[f] \in Int /\ Stored(f, ServerConfig[f]) = ServerConfig[f]
  <2>1. Initial[f] \in Nat /\ Initial[f] < 65536
    BY InitialIntegers, SMT DEF IntFields
  <2>2. ServerConfig[f] \in Nat /\ ServerConfig[f] < 65536
    BY <1>1, <2>1, FieldsDisjoint
  <2> QED BY <2>2, SmallStored
<1>3. ASSUME NEW f \in BoolFields PROVE ServerConfig[f] \in BOOLEAN
  <2>1. Initial[f] \in BOOLEAN
    BY InitialBooleans, Zenon DEF BoolFields
  <2> QED BY <1>1, <2>1, FieldsDisjoint
<1> QED BY <1>1, <1>2, <1>3 DEF Typed

LEMMA PathsTyped ==
    ASSUME NEW c, Typed(c)
    PROVE  Typed(applyDefaultPaths(c))
<1>1. DOMAIN base_dir = {"city_db", "asn_db", "oui_db", "log_file"}
  BY DEF base_dir
<1>2. DOMAIN base_dir \subseteq TextFields
  BY <1>1 DEF TextFields, DbFields
<1> QED BY <1>2, FieldsDisjoint DEF Typed, applyDefaultPaths

(* What a member takes of a value is of its type, and the same when it is  *)
(* taken again.                                                            *)
LEMMA TakenTyped ==
    ASSUME NEW f \in Fields, NEW v, OfItsKind(v), NEW old,
           f \in IntFields => old \in Int /\ Stored(f, old) = old,
           f \in BoolFields => old \in BOOLEAN
    PROVE  LET x == Taken(f, v, old)
           IN  /\ f \in IntFields => x \in Int /\ Stored(f, x) = x
               /\ f \in BoolFields => x \in BOOLEAN
               /\ Taken(f, v, x) = x
<1>1. CASE f \in TextFields
  BY <1>1, FieldsDisjoint DEF Taken
<1>2. CASE f \in BoolFields
  <2>1. parseBoolString(v) \in BOOLEAN
    BY DEF parseBoolString
  <2> QED BY <1>2, <2>1, FieldsDisjoint DEF Taken, OfItsKind, Strings
<1>3. CASE f \in IntFields
  <2>1. CASE v.kind \in {"int", "numeral", "prefix"}
    <3>1. v.val \in Int /\ \A x : Taken(f, v, x) = Stored(f, v.val)
      BY <1>3, <2>1, FieldsDisjoint DEF Taken, OfItsKind
    <3> QED BY <1>3, <3>1, StoredTwice, FieldsDisjoint
  <2>2. CASE f = "log_max_file_size" /\ v.kind \in {"bool", "null"}
    <3>1. \A x : Taken(f, v, x) = 0
      BY <1>3, <2>2, FieldsDisjoint DEF Taken
    <3>2. Stored(f, 0) = 0
      BY SmallStored
    <3> QED BY <1>3, <3>1, <3>2, FieldsDisjoint
  <2>3. CASE /\ ~ (v.kind \in {"int", "numeral", "prefix"})
             /\ ~ (f = "log_max_file_size" /\ v.kind \in {"bool", "null"})
    <3>1. \A x : Taken(f, v, x) = x
      BY <1>3, <2>3, FieldsDisjoint DEF Taken
    <3> QED BY <1>3, <3>1, FieldsDisjoint
  <2> QED BY <2>1, <2>2, <2>3
<1> QED BY <1>1, <1>2, <1>3, FieldsDisjoint

LEMMA MergeTyped ==
    ASSUME NEW c, Typed(c), NEW j, \A f \in DOMAIN j : OfItsKind(j[f])
    PROVE  /\ Typed(Merge(c, j))
           /\ \A f \in DOMAIN j \cap Fields : Merge(c, j)[f] = Taken(f, j[f], Merge(c, j)[f])
<1> DEFINE m == Merge(c, j)
<1>1. m = [f \in Fields |-> m[f]] /\ \A f \in Fields : m[f] = IF f \in DOMAIN j THEN Taken(f, j[f], c[f]) ELSE c[f]
  BY DEF Merge
<1> HIDE DEF m
<1>2. ASSUME NEW f \in Fields
      PROVE  /\ f \in IntFields => m[f] \in Int /\ Stored(f, m[f]) = m[f]
             /\ f \in BoolFields => m[f] \in BOOLEAN
             /\ f \in DOMAIN j => m[f] = Taken(f, j[f], m[f])
  <2>1. /\ f \in IntFields => c[f] \in Int /\ Stored(f, c[f]) = c[f]
        /\ f \in BoolFields => c[f] \in BOOLEAN
    BY DEF Typed
  <2>2. CASE f \in DOMAIN j
    BY <1>1, <2>1, <2>2, TakenTyped
  <2>3. CASE f \notin DOMAIN j
    BY <1>1, <2>1, <2>3
  <2> QED BY <2>2, <2>3
<1>3. Typed(m)
  BY <1>1, <1>2, FieldsDisjoint DEF Typed
<1> QED BY <1>2, <1>3 DEF m

LEMMA LoadTyped ==
    ASSUME NEW file, file.state = "json" => \A f \in DOMAIN file.json : OfItsKind(file.json[f])
    PROVE  Typed(load_from_file(file))
  BY DefaultsTyped, MergeTyped DEF load_from_file, Loads, from_json

LEMMA OverridesTyped ==
    ASSUME NEW c, Typed(c), NEW o \in Options
    PROVE  LET m == apply_cli_overrides(c, o)
           IN  /\ Typed(m)
               /\ \A f \in DOMAIN o :
                     (f = "enable_file_logging" => "log_file" \notin DOMAIN o) =>
                        m[f] = Taken(f, o[f], m[f])
               /\ "log_file" \in DOMAIN o => m.enable_file_logging
               /\ DOMAIN o = {} => m = c
               /\ \A f \in TextFields : m[f] = IF f \in DOMAIN o THEN o[f].val ELSE c[f]
<1> DEFINE g == Merge(c, o)
           m == apply_cli_overrides(c, o)
<1>1. /\ Typed(g) /\ DOMAIN o \subseteq Fields
      /\ \A f \in DOMAIN o : g[f] = Taken(f, o[f], g[f])
  BY MergeTyped, OptionsAssumption
<1>2. /\ g = [f \in Fields |-> g[f]]
      /\ \A f \in Fields : g[f] = IF f \in DOMAIN o THEN Taken(f, o[f], c[f]) ELSE c[f]
  BY DEF Merge
<1>3. m = IF "log_file" \in DOMAIN o THEN [g EXCEPT !.enable_file_logging = TRUE] ELSE g
  BY DEF apply_cli_overrides
<1> HIDE DEF g, m
<1>4. /\ m = [f \in Fields |-> m[f]]
      /\ \A f \in Fields \ {"enable_file_logging"} : m[f] = g[f]
      /\ "log_file" \in DOMAIN o => m["enable_file_logging"] = TRUE
      /\ "log_file" \notin DOMAIN o => m = g
  BY <1>2, <1>3, FieldsDisjoint
<1>5. Typed(m)
  <2>1. m["enable_file_logging"] \in BOOLEAN
    BY <1>1, <1>4, FieldsDisjoint DEF Typed
  <2> QED BY <1>1, <1>4, <2>1, FieldsDisjoint DEF Typed
<1>6. DOMAIN o = {} => m = c
  BY <1>2, <1>4 DEF Typed
<1>7. \A f \in TextFields : m[f] = IF f \in DOMAIN o THEN o[f].val ELSE c[f]
  BY <1>2, <1>4, FieldsDisjoint DEF Taken
<1> QED BY <1>1, <1>4, <1>5, <1>6, <1>7 DEF m

-----------------------------------------------------------------------------
(* What save_to_file writes is loaded back as it was, member by member.    *)
THEOREM SavedLoadsBack ==
    ASSUME NEW c, Typed(c)
    PROVE  load_from_file(JsonFile(Saved(c))) = c
<1> DEFINE j == Saved(c)
<1>1. /\ \A f : f \in DOMAIN j <=> f \in Fields /\ (f = "default_api_key" => c[f] # "")
      /\ \A f \in DOMAIN j : j[f].kind = KindOf(f) /\ j[f].val = c[f]
  BY DEF Saved
<1> HIDE DEF j
<1>2. ASSUME NEW f \in DOMAIN j
      PROVE  ~ Throws(f, j[f]) /\ Taken(f, j[f], ServerConfig[f]) = c[f]
  <2>1. f \in Fields /\ j[f].kind = KindOf(f) /\ j[f].val = c[f]
    BY <1>1
  <2>2. CASE f \in IntFields
    BY <2>1, <2>2, FieldsDisjoint DEF Throws, Taken, KindOf, Typed
  <2>3. CASE f \in BoolFields
    BY <2>1, <2>3, FieldsDisjoint DEF Throws, Taken, KindOf, Typed, Strings
  <2>4. CASE f \in TextFields
    BY <2>1, <2>4, FieldsDisjoint DEF Throws, Taken, KindOf, Strings
  <2> QED BY <2>1, <2>2, <2>3, <2>4, FieldsDisjoint
<1>3. \A f \in Fields \ DOMAIN j : ServerConfig[f] = c[f]
  BY <1>1, InitialTexts DEF ServerConfig
<1>4. from_json(j) = [f \in Fields |-> c[f]]
  BY <1>1, <1>2, <1>3 DEF from_json, Merge
<1>5. JsonFile(j).state = "json" /\ JsonFile(j).json = j
  BY DEF JsonFile
<1> QED BY <1>2, <1>4, <1>5 DEF load_from_file, Loads, Typed, j

-----------------------------------------------------------------------------
(* The configuration a process starts from if there is no file.            *)
Fresh == applyDefaultPaths(ServerConfig)

LEMMA FreshOK == Typed(Fresh) /\ validate(Fresh) /\ \A f \in DbFields : Fresh[f] # ""
<1>1. DOMAIN base_dir = {"city_db", "asn_db", "oui_db", "log_file"}
  BY SMT DEF base_dir
<1>2. /\ \A f \in IntFields \cup BoolFields \cup {"log_rotation"} : Fresh[f] = Initial[f]
      /\ \A f \in DbFields : Fresh[f] = base_dir[f]
  <2>1. ASSUME NEW f \in Fields
        PROVE  Fresh[f] = IF f \in DOMAIN base_dir THEN base_dir[f] ELSE Initial[f]
    BY DEF Fresh, applyDefaultPaths, ServerConfig
  <2>2. /\ \A f \in IntFields \cup BoolFields \cup {"log_rotation"} : f \in Fields /\ f \notin DOMAIN base_dir
        /\ \A f \in DbFields : f \in Fields /\ f \in DOMAIN base_dir
    BY <1>1, SMT DEF IntFields, BoolFields, TextFields, DbFields, Fields
  <2> QED BY <2>1, <2>2
<1>3. \A f \in DbFields : Fresh[f] # ""
  <2>1. base_dir["city_db"] # "" /\ base_dir["asn_db"] # "" /\ base_dir["oui_db"] # ""
    BY SMT DEF base_dir
  <2> QED BY <1>2, <2>1, Zenon DEF DbFields
<1>4. validate(Fresh)
  <2>1. /\ Initial["port"] \in Limits["port"] /\ Initial["threads"] \in Limits["threads"]
        /\ Initial["max_batch_size"] \in Limits["max_batch_size"]
        /\ Initial["max_requests_per_minute"] \in Limits["max_requests_per_minute"]
        /\ Initial["log_max_file_size"] \in Limits["log_max_file_size"]
        /\ Initial["log_max_backup_files"] \in Limits["log_max_backup_files"]
    BY InitialIntegers, SMT DEF Limits
  <2>2. Initial["log_rotation"] \in {"none", "size"}
    BY InitialTexts, Zenon
  <2>3. /\ Fresh["port"] = Initial["port"] /\ Fresh["threads"] = Initial["threads"]
        /\ Fresh["max_requests_per_minute"] = Initial["max_requests_per_minute"]
        /\ Fresh["max_batch_size"] = Initial["max_batch_size"]
        /\ Fresh["log_max_file_size"] = Initial["log_max_file_size"]
        /\ Fresh["log_max_backup_files"] = Initial["log_max_backup_files"]
        /\ Fresh["log_rotation"] = Initial["log_rotation"]
    BY <1>2, SMT DEF IntFields
  <2> QED BY <2>1, <2>2, <2>3, SMT DEF validate
<1> QED BY <1>3, <1>4, DefaultsTyped, PathsTyped DEF Fresh

-----------------------------------------------------------------------------
Steps == {"off", "peek", "load", "opening", "writing", "override", "prepare", "start", "running"}

(* A file the server wrote holds a configuration that it accepts again.    *)
CreatedOK ==
    \A p \in Paths : created[p] # {} =>
        \E c : created[p] = {c} /\ files[p] = JsonFile(Saved(c)) /\ Typed(c) /\ validate(c)

(* The file that is about to be written is still absent or empty, if it    *)
(* could be looked at and nobody has touched it, and what is written into  *)
(* it is the default or has passed validation.                             *)
WriterOK ==
    pc \in {"opening", "writing"} =>
        /\ informed => files[path].state \in {"absent", "empty"}
        /\ pc = "writing" => created[path] = {}
        /\ config_file = path
        /\ validate(config)
        /\ saver = "parse" => config = Fresh

FilesOK ==
    \A p \in Paths :
        /\ files[p].state \in {"absent", "empty", "json", "other"}
        /\ files[p].state = "json" => \A f \in DOMAIN files[p].json : OfItsKind(files[p].json[f])

ProcessOK ==
    /\ pc \in Steps
    /\ informed \in BOOLEAN
    /\ saver \in {"parse", "main"}
    /\ pc # "off" =>
          /\ path \in Paths
          /\ opts \in Options /\ OptionsParse(opts)
          /\ config_file \in {NoPath, path}
          /\ Typed(config)
    /\ pc \in {"peek", "load"} => config = Fresh /\ config_file = path
    /\ pc \in {"peek", "load", "override", "prepare"} => saver = "parse"
    /\ pc \in {"start", "running"} => saver = "main"

ConfInv ==
    /\ files = [p \in Paths |-> files[p]] /\ created = [p \in Paths |-> created[p]]
    /\ FilesOK /\ ProcessOK /\ CreatedOK /\ WriterOK
    /\ Accepted => validate(config)
    /\ OptionsWin
    /\ RestartKeepsConfig

LEMMA InitConfInv == ConfigInit => ConfInv
<1> SUFFICES ASSUME ConfigInit PROVE ConfInv
  OBVIOUS
<1>1. FilesOK /\ CreatedOK
  BY DEF ConfigInit, FilesOK, CreatedOK, NoFile
<1>2. ProcessOK /\ WriterOK
  BY DEF ConfigInit, ProcessOK, WriterOK, Steps
<1>3. ~ Accepted /\ pc = "off"
  BY DEF ConfigInit, Accepted
<1> QED BY <1>1, <1>2, <1>3 DEF ConfigInit, ConfInv, OptionsWin, RestartKeepsConfig

(* The kinds of what save_to_file writes.                                  *)
LEMMA SavedKinds == ASSUME NEW c, Typed(c), NEW f \in DOMAIN Saved(c) PROVE OfItsKind(Saved(c)[f])
<1>1. f \in Fields /\ Saved(c)[f].kind = KindOf(f) /\ Saved(c)[f].val = c[f]
  BY DEF Saved
<1> QED BY <1>1, FieldsDisjoint DEF OfItsKind, KindOf, Typed

LEMMA LaunchKeeps ==
    ASSUME ConfInv, NEW p \in Paths, NEW o \in Options, Launch(p, o) PROVE ConfInv'
<1>1. /\ path' = p /\ opts' = o /\ saver' = "parse" /\ OptionsParse(o)
      /\ config' = Fresh /\ config_file' = p /\ informed' = TRUE
      /\ UNCHANGED <<files, created, foreign>>
      /\ pc' = IF files[p].state = "absent" THEN "override" ELSE "peek"
  BY DEF Launch, Fresh
<1>2. pc' \in {"peek", "override"} /\ ~ Accepted'
  BY <1>1 DEF Accepted
<1>3. pc' = "override" => created[p] = {}
  BY <1>1 DEF ConfInv, CreatedOK, JsonFile
<1>4. ProcessOK' /\ WriterOK'
  BY <1>1, <1>2, FreshOK DEF ProcessOK, WriterOK, Steps, Fresh
<1> QED BY <1>1, <1>2, <1>3, <1>4 DEF ConfInv, FilesOK, CreatedOK, OptionsWin, RestartKeepsConfig

LEMMA PeekKeeps == ASSUME ConfInv, Peek PROVE ConfInv'
<1>1. /\ pc = "peek" /\ pc' \in {"opening", "load"} /\ informed' \in BOOLEAN
      /\ UNCHANGED <<files, path, opts, saver, config, config_file, created>>
      /\ pc' = "opening" /\ informed' => files[path].state = "empty"
  BY DEF Peek
<1>2. saver = "parse" /\ config = Fresh /\ config_file = path
  BY <1>1 DEF ConfInv, ProcessOK
<1>3. ProcessOK' /\ WriterOK' /\ ~ Accepted'
  BY <1>1, <1>2, FreshOK DEF ConfInv, ProcessOK, WriterOK, Steps, Accepted, Fresh
<1> QED BY <1>1, <1>3 DEF ConfInv, FilesOK, CreatedOK, OptionsWin, RestartKeepsConfig

LEMMA LoadKeeps == ASSUME ConfInv, Load PROVE ConfInv'
<1>1. /\ pc = "load" /\ pc' = "override" /\ config_file' = NoPath
      /\ UNCHANGED <<files, path, opts, saver, created>>
      /\ \/ config' = load_from_file(files[path]) /\ informed' = TRUE
         \/ config' = ServerConfig /\ informed' = FALSE
  BY DEF Load
<1>2. path \in Paths /\ saver = "parse" /\ ~ Accepted'
  BY <1>1 DEF ConfInv, ProcessOK, Accepted
<1>3. Typed(config')
  BY <1>1, <1>2, LoadTyped, DefaultsTyped DEF ConfInv, FilesOK
<1>4. ProcessOK' /\ WriterOK'
  BY <1>1, <1>2, <1>3 DEF ConfInv, ProcessOK, WriterOK, Steps
<1>5. created[path] # {} /\ informed' => created[path] = {config'} /\ validate(config')
  BY <1>1, <1>2, SavedLoadsBack DEF ConfInv, CreatedOK
<1> QED BY <1>1, <1>2, <1>4, <1>5 DEF ConfInv, FilesOK, CreatedOK, OptionsWin, RestartKeepsConfig

(* The end of save_to_file: back to parse, or on to run_application.       *)
LEMMA SaveReturnsOK ==
    ASSUME ConfInv, pc \in {"opening", "writing"}, NEW ok \in BOOLEAN, SaveReturns(ok),
           UNCHANGED <<path, opts, saver, informed>>
    PROVE  /\ ProcessOK' /\ WriterOK' /\ OptionsWin' /\ (Accepted => validate(config))'
           /\ (Accepted => validate(config) /\ UNCHANGED config)
           /\ saver = "main" => pc' = "start" /\ config' = config
           /\ saver = "parse" => pc' = "override" /\ ~ Accepted'
           /\ ok => config' = config
           /\ config' = config \/ (config' = ServerConfig /\ config_file' = NoPath)
<1>1. CASE saver = "parse"
  <2>1. /\ pc' = "override" /\ ~ Accepted' /\ ~ Accepted
        /\ config' \in {config, ServerConfig} /\ config_file' \in {NoPath, config_file}
    BY <1>1 DEF SaveReturns, Accepted
  <2>2. ProcessOK'
    BY <1>1, <2>1, DefaultsTyped DEF ConfInv, ProcessOK, Steps
  <2> QED BY <1>1, <2>1, <2>2 DEF WriterOK, OptionsWin, SaveReturns
<1>2. CASE saver = "main"
  <2>1. pc' = "start" /\ UNCHANGED <<config, config_file>> /\ Accepted /\ Accepted'
    BY <1>2 DEF SaveReturns, Accepted
  <2>2. ProcessOK'
    BY <1>2, <2>1 DEF ConfInv, ProcessOK, Steps
  <2> QED BY <1>2, <2>1, <2>2 DEF WriterOK, OptionsWin, ConfInv
<1> QED BY <1>1, <1>2 DEF ConfInv, ProcessOK

LEMMA OpenFileKeeps == ASSUME ConfInv, OpenFile PROVE ConfInv'
<1>1. pc = "opening" /\ UNCHANGED <<path, opts, saver, informed>> /\ path \in Paths
  BY DEF ConfInv, ProcessOK, OpenFile
<1>2. CASE /\ files' = [files EXCEPT ![path] = EmptyFile]
           /\ created' = [created EXCEPT ![path] = {}]
           /\ pc' = "writing" /\ UNCHANGED <<config, config_file, foreign>>
  <2>1. /\ files' = [p \in Paths |-> files'[p]] /\ files'[path] = EmptyFile
        /\ created' = [p \in Paths |-> created'[p]] /\ created'[path] = {}
        /\ \A p \in Paths \ {path} : files'[p] = files[p] /\ created'[p] = created[p]
    BY <1>1, <1>2 DEF ConfInv
  <2>2. ProcessOK' /\ WriterOK' /\ FilesOK'
    BY <1>1, <1>2, <2>1 DEF ConfInv, ProcessOK, WriterOK, FilesOK, Steps, EmptyFile
  <2>3. CreatedOK'
    BY <1>1, <2>1 DEF ConfInv, CreatedOK
  <2>4. Accepted' <=> Accepted
    BY <1>1, <1>2 DEF Accepted
  <2>5. OptionsWin' /\ RestartKeepsConfig'
    BY <1>1, <1>2, <2>1, <2>4 DEF ConfInv, OptionsWin, RestartKeepsConfig
  <2> QED BY <1>1, <1>2, <2>1, <2>2, <2>3, <2>4, <2>5 DEF ConfInv
<1>3. CASE SaveReturns(FALSE) /\ UNCHANGED <<files, created>>
  <2>1. ProcessOK' /\ WriterOK' /\ OptionsWin' /\ (Accepted => validate(config))'
    BY <1>1, <1>3, SaveReturnsOK
  <2>2. informed' => created'[path'] = {}
    BY <1>1, <1>3 DEF ConfInv, WriterOK, CreatedOK, JsonFile
  <2> QED BY <1>1, <1>3, <2>1, <2>2 DEF ConfInv, FilesOK, CreatedOK, RestartKeepsConfig
<1> QED BY <1>2, <1>3 DEF OpenFile

LEMMA WriteFileKeeps == ASSUME ConfInv, WriteFile PROVE ConfInv'
<1>1. /\ pc = "writing" /\ UNCHANGED <<path, opts, saver, informed>> /\ path \in Paths
      /\ Typed(config) /\ validate(config) /\ created[path] = {}
  BY DEF ConfInv, ProcessOK, WriterOK, WriteFile
<1>2. CASE /\ files' = [files EXCEPT ![path] = JsonFile(Saved(config))]
           /\ created' = [created EXCEPT ![path] = {config}]
           /\ SaveReturns(TRUE)
  <2>1. /\ files' = [p \in Paths |-> files'[p]] /\ files'[path] = JsonFile(Saved(config))
        /\ created' = [p \in Paths |-> created'[p]] /\ created'[path] = {config}
        /\ \A p \in Paths \ {path} : files'[p] = files[p] /\ created'[p] = created[p]
    BY <1>1, <1>2 DEF ConfInv
  <2>2. /\ ProcessOK' /\ WriterOK' /\ OptionsWin' /\ (Accepted => validate(config))'
        /\ config' = config
    BY <1>1, <1>2, SaveReturnsOK
  <2>3. JsonFile(Saved(config)).state = "json" /\ JsonFile(Saved(config)).json = Saved(config)
    BY DEF JsonFile
  <2>4. FilesOK'
    BY <1>1, <2>1, <2>3, SavedKinds DEF ConfInv, FilesOK
  <2>5. CreatedOK'
    BY <1>1, <2>1 DEF ConfInv, CreatedOK
  <2>6. RestartKeepsConfig'
    BY <1>1, <2>1, <2>2 DEF RestartKeepsConfig
  <2> QED BY <2>1, <2>2, <2>4, <2>5, <2>6 DEF ConfInv
<1>3. CASE (\E ok \in BOOLEAN : SaveReturns(ok)) /\ UNCHANGED <<files, created>>
  <2>1. ProcessOK' /\ WriterOK' /\ OptionsWin' /\ (Accepted => validate(config))'
    BY <1>1, <1>3, SaveReturnsOK
  <2> QED BY <1>1, <1>3, <2>1 DEF ConfInv, FilesOK, CreatedOK, RestartKeepsConfig
<1>4. CASE /\ \E rest \in {files[path], OtherFile} : files' = [files EXCEPT ![path] = rest]
           /\ SaveReturns(TRUE) /\ UNCHANGED created
  <2>1. PICK rest \in {files[path], OtherFile} : files' = [files EXCEPT ![path] = rest]
    BY <1>4
  <2>2. /\ files' = [p \in Paths |-> files'[p]] /\ files'[path] = rest
        /\ \A p \in Paths \ {path} : files'[p] = files[p]
        /\ rest = files[path] \/ rest.state = "other"
    BY <1>1, <2>1 DEF ConfInv, OtherFile
  <2>3. ProcessOK' /\ WriterOK' /\ OptionsWin' /\ (Accepted => validate(config))'
    BY <1>1, <1>4, SaveReturnsOK
  <2>4. FilesOK' /\ CreatedOK'
    BY <1>1, <1>4, <2>2 DEF ConfInv, FilesOK, CreatedOK
  <2> QED BY <1>1, <1>4, <2>2, <2>3, <2>4 DEF ConfInv, RestartKeepsConfig
<1> QED BY <1>2, <1>3, <1>4 DEF WriteFile

LEMMA OverrideKeeps == ASSUME ConfInv, Override PROVE ConfInv'
<1> DEFINE c == apply_cli_overrides(config, opts)
<1>1. /\ pc = "override" /\ config' = c /\ pc' = (IF validate(c) THEN "prepare" ELSE "off")
      /\ UNCHANGED <<files, path, opts, saver, config_file, created, informed>>
  BY DEF Override
<1>2. /\ Typed(c)
      /\ \A f \in DOMAIN opts : (f = "enable_file_logging" => "log_file" \notin DOMAIN opts) =>
            c[f] = Taken(f, opts[f], c[f])
      /\ "log_file" \in DOMAIN opts => c.enable_file_logging
      /\ DOMAIN opts = {} => c = config
  BY <1>1, OverridesTyped DEF ConfInv, ProcessOK
<1> HIDE DEF c
<1>3. ProcessOK' /\ WriterOK'
  BY <1>1, <1>2 DEF ConfInv, ProcessOK, WriterOK, Steps
<1>4. Accepted' => pc' = "prepare" /\ validate(c)
  BY <1>1 DEF Accepted
<1>5. OptionsWin'
  BY <1>1, <1>2 DEF OptionsWin
<1>6. RestartKeepsConfig'
  BY <1>1, <1>2, <1>4 DEF ConfInv, RestartKeepsConfig
<1> QED BY <1>1, <1>3, <1>4, <1>5, <1>6 DEF ConfInv, FilesOK, CreatedOK

LEMMA PrepareKeeps == ASSUME ConfInv, Prepare PROVE ConfInv'
<1>1. /\ pc = "prepare" /\ saver' = "main"
      /\ UNCHANGED <<files, path, opts, config, config_file, created>>
      /\ informed' = (NeedsFile \/ informed)
      /\ pc' = "off" \/ (pc' = "start" /\ ~ NeedsFile) \/ (pc' = "opening" /\ NeedsFile)
  BY DEF Prepare
<1>2. Accepted /\ validate(config)
  BY <1>1 DEF ConfInv, Accepted
<1>3. NeedsFile => config_file = path /\ files[path].state = "absent" /\ created[path] = {}
  BY <1>1 DEF NeedsFile, ConfInv, ProcessOK, CreatedOK, JsonFile
<1>4. ProcessOK' /\ WriterOK'
  BY <1>1, <1>2, <1>3 DEF ConfInv, ProcessOK, WriterOK, Steps
<1>5. OptionsWin' /\ RestartKeepsConfig'
  BY <1>1, <1>2, <1>3 DEF ConfInv, OptionsWin, RestartKeepsConfig, Accepted
<1> QED BY <1>1, <1>2, <1>4, <1>5 DEF ConfInv, FilesOK, CreatedOK

LEMMA RunApplicationKeeps == ASSUME ConfInv, RunApplication PROVE ConfInv'
<1>1. /\ pc = "start" /\ pc' \in {"running", "off"}
      /\ UNCHANGED <<files, path, opts, saver, config, config_file, created, informed>>
  BY DEF RunApplication
<1>2. Accepted /\ validate(config)
  BY <1>1 DEF ConfInv, Accepted
<1>3. ProcessOK' /\ WriterOK'
  BY <1>1, <1>2 DEF ConfInv, ProcessOK, WriterOK, Steps
<1>4. OptionsWin' /\ RestartKeepsConfig'
  BY <1>1, <1>2 DEF ConfInv, OptionsWin, RestartKeepsConfig, Accepted
<1> QED BY <1>1, <1>2, <1>3, <1>4 DEF ConfInv, FilesOK, CreatedOK

LEMMA ExitKeeps == ASSUME ConfInv, Exit PROVE ConfInv'
<1>1. /\ pc' = "off"
      /\ UNCHANGED <<files, path, opts, saver, config, config_file, created, informed>>
  BY DEF Exit
<1>2. ProcessOK' /\ WriterOK' /\ ~ Accepted'
  BY <1>1 DEF ConfInv, ProcessOK, WriterOK, Steps, Accepted
<1>3. OptionsWin' /\ RestartKeepsConfig'
  BY <1>1, <1>2 DEF OptionsWin, RestartKeepsConfig
<1> QED BY <1>1, <1>2, <1>3 DEF ConfInv, FilesOK, CreatedOK

LEMMA EditKeeps ==
    ASSUME ConfInv, NEW p \in Paths, NEW file \in Edits, Edit(p, file) PROVE ConfInv'
<1>1. /\ UNCHANGED <<pc, path, opts, saver, config, config_file>>
      /\ informed' = (informed /\ p # path)
  BY DEF Edit, process
<1>2. /\ files' = [q \in Paths |-> files'[q]] /\ files'[p] = file
      /\ created' = [q \in Paths |-> created'[q]] /\ created'[p] = {}
      /\ \A q \in Paths \ {p} : files'[q] = files[q] /\ created'[q] = created[q]
  BY DEF Edit, ConfInv
<1>3. /\ file.state \in {"absent", "empty", "json", "other"}
      /\ file.state = "json" => \A f \in DOMAIN file.json : OfItsKind(file.json[f])
  BY ContentsAssumption DEF Edits, NoFile, EmptyFile, OtherFile, JsonFile
<1>4. FilesOK'
  BY <1>2, <1>3 DEF ConfInv, FilesOK
<1>5. CreatedOK'
  BY <1>2 DEF ConfInv, CreatedOK
<1>6. ProcessOK' /\ (Accepted' <=> Accepted)
  BY <1>1 DEF ConfInv, ProcessOK, Accepted
<1>7. WriterOK'
  <2> SUFFICES ASSUME pc \in {"opening", "writing"} PROVE WriterOK'
    BY <1>1 DEF WriterOK
  <2>1. path \in Paths
    BY DEF ConfInv, ProcessOK
  <2> QED BY <1>1, <1>2, <2>1 DEF ConfInv, WriterOK
<1>8. OptionsWin'
  BY <1>1, <1>6 DEF ConfInv, OptionsWin
<1>9. RestartKeepsConfig'
  <2>1. CASE path = p
    BY <1>1, <2>1 DEF RestartKeepsConfig
  <2>2. CASE path \in Paths /\ path # p
    BY <1>1, <1>2, <1>6, <2>2 DEF ConfInv, RestartKeepsConfig
  <2>3. CASE pc = "off"
    BY <1>1, <1>6, <2>3 DEF RestartKeepsConfig, Accepted
  <2> QED BY <1>1, <1>2, <2>1, <2>2, <2>3 DEF ConfInv, ProcessOK
<1> QED BY <1>1, <1>2, <1>4, <1>5, <1>6, <1>7, <1>8, <1>9 DEF ConfInv

LEMMA StepConfInv == ConfInv /\ [ConfigNext]_configVars => ConfInv'
<1> SUFFICES ASSUME ConfInv, [ConfigNext]_configVars PROVE ConfInv'
  OBVIOUS
<1>1. ASSUME NEW p \in Paths, NEW o \in Options, Launch(p, o) PROVE ConfInv'
  BY <1>1, LaunchKeeps
<1>2. ASSUME NEW p \in Paths, NEW file \in Edits, Edit(p, file) PROVE ConfInv'
  BY <1>2, EditKeeps
<1>3. CASE \/ Peek \/ Load \/ OpenFile \/ WriteFile
           \/ Override \/ Prepare \/ RunApplication \/ Exit
  BY <1>3, PeekKeeps, LoadKeeps, OpenFileKeeps, WriteFileKeeps, OverrideKeeps, PrepareKeeps,
     RunApplicationKeeps, ExitKeeps
<1>4. CASE UNCHANGED configVars
  BY <1>4 DEF configVars, process, ConfInv, FilesOK, ProcessOK, CreatedOK, WriterOK, Accepted,
              OptionsWin, RestartKeepsConfig
<1> QED BY <1>1, <1>2, <1>3, <1>4 DEF ConfigNext

(* The inductive invariant of the configuration: what files and processes  *)
(* hold at each step of a start, through crashes and edits.                *)
THEOREM ConfigurationInvariance == ConfigSpec => []ConfInv
BY InitConfInv, StepConfInv, PTL DEF ConfigSpec

(* Options given on the command line hold, whatever the file says and      *)
(* whether or not it could be read or written (apply_cli_overrides is the  *)
(* last to touch the configuration).                                       *)
THEOREM OptionsAlwaysWin == ConfigSpec => []OptionsWin
<1>1. ConfInv => OptionsWin
  BY DEF ConfInv
<1> QED BY <1>1, ConfigurationInvariance, PTL

(* A restart on the file the server wrote, if it can read it, reproduces   *)
(* the saved configuration, and passes validation again.                   *)
THEOREM RestartsAgree == ConfigSpec => []RestartKeepsConfig
<1>1. ConfInv => RestartKeepsConfig
  BY DEF ConfInv
<1> QED BY <1>1, ConfigurationInvariance, PTL

(* A file whose content a process could look at, and that nobody has       *)
(* touched since, is not changed by it: what it then truncates and writes  *)
(* is absent or empty, through both calls of save_to_file and any crashes. *)
THEOREM ContentKept == ConfigSpec => FilesKept
<1>1. ASSUME ConfInv, [ConfigNext]_configVars
      PROVE  [\A p \in Paths : files[p].state \in {"json", "other"} =>
                 \/ files'[p] = files[p]
                 \/ \E file \in Edits : Edit(p, file)
                 \/ p = path /\ ~ informed]_configVars
  <2> SUFFICES ASSUME ConfigNext, NEW p \in Paths, files[p].state \in {"json", "other"},
                      \A file \in Edits : ~ Edit(p, file), p # path \/ informed
               PROVE  files'[p] = files[p]
    BY <1>1
  <2>1. CASE OpenFile \/ WriteFile
    <3>1. p # path /\ path \in Paths
      BY <1>1, <2>1 DEF OpenFile, WriteFile, ConfInv, WriterOK, ProcessOK
    <3>2. files' = files \/ \E file : files' = [files EXCEPT ![path] = file]
      BY <2>1 DEF OpenFile, WriteFile
    <3> QED BY <1>1, <3>1, <3>2 DEF ConfInv
  <2>2. ASSUME NEW q \in Paths, NEW file \in Edits, Edit(q, file) PROVE files'[p] = files[p]
    BY <1>1, <2>2 DEF Edit, ConfInv
  <2>3. ASSUME NEW q \in Paths, NEW o \in Options, Launch(q, o) PROVE files'[p] = files[p]
    BY <2>3 DEF Launch
  <2>4. CASE Peek \/ Load \/ Override \/ Prepare \/ RunApplication \/ Exit
    BY <2>4 DEF Peek, Load, Override, Prepare, RunApplication, Exit
  <2> QED BY <2>1, <2>2, <2>3, <2>4 DEF ConfigNext
<1> QED BY <1>1, ConfigurationInvariance, PTL DEF ConfigSpec, FilesKept

-----------------------------------------------------------------------------
Named(c) == \A f \in DbFields : c[f] # ""

(* No option gives a database the empty path.                              *)
NamedOptions == \A o \in Options : \A f \in DbFields \cap DOMAIN o : o[f].val # ""

(* A file nobody else touched is absent, empty or one the server wrote     *)
(* with its databases named; and a process that may still write a file, or *)
(* has read such a one, names its databases.                               *)
NamedInv ==
    /\ \A p \in Paths : \A c \in created[p] : Named(c)
    /\ \A p \in Paths \ foreign : files[p].state \in {"absent", "empty"} \/ created[p] # {}
    /\ pc \in {"override", "opening", "writing", "prepare", "start"} /\
       ((path \notin foreign /\ informed) \/ config_file # NoPath) => Named(config)
    /\ pc = "running" => Named(config)
    /\ pc = "load" /\ path \notin foreign => files[path].state = "absent" \/ created[path] # {}

LEMMA InitNamed == ConfigInit => NamedInv
  BY DEF ConfigInit, NamedInv, NoFile

LEMMA LaunchNamed ==
    ASSUME ConfInv, NamedInv, NEW p \in Paths, NEW o \in Options, Launch(p, o)
    PROVE  NamedInv'
<1>1. /\ path' = p /\ UNCHANGED <<files, created, foreign>> /\ pc' \in {"peek", "override"}
      /\ config' = Fresh
  BY DEF Launch, Fresh
<1> QED BY <1>1, FreshOK DEF NamedInv, Named

LEMMA PeekNamed == ASSUME ConfInv, NamedInv, Peek PROVE NamedInv'
<1>1. /\ UNCHANGED <<files, path, config, config_file, created, foreign>>
      /\ path \in Paths /\ Named(config)
  BY FreshOK DEF Peek, ConfInv, ProcessOK, Named
<1>2. pc' \in {"opening", "load"} /\ (pc' = "load" => files[path].state \notin {"absent", "empty"})
  BY DEF Peek
<1> QED BY <1>1, <1>2 DEF NamedInv

LEMMA LoadNamed == ASSUME ConfInv, NamedInv, Load PROVE NamedInv'
<1>1. /\ pc = "load" /\ pc' = "override" /\ config_file' = NoPath
      /\ UNCHANGED <<files, path, created, foreign>> /\ path \in Paths
  BY DEF Load, ConfInv, ProcessOK
<1>2. ASSUME path \notin foreign, informed' PROVE Named(config')
  <2>1. config' = load_from_file(files[path]) /\ files[path].state # "absent"
    BY <1>2 DEF Load
  <2>2. PICK c : created[path] = {c} /\ files[path] = JsonFile(Saved(c)) /\ Typed(c)
    BY <1>1, <1>2, <2>1 DEF ConfInv, CreatedOK, NamedInv
  <2> QED BY <1>1, <2>1, <2>2, SavedLoadsBack DEF NamedInv
<1> QED BY <1>1, <1>2 DEF NamedInv

LEMMA SaveNamed ==
    ASSUME ConfInv, NamedInv, OpenFile \/ WriteFile PROVE NamedInv'
<1>1. /\ pc \in {"opening", "writing"} /\ UNCHANGED <<path, saver, informed>> /\ path \in Paths
      /\ config_file = path /\ Named(config)
  BY PathAssumption DEF OpenFile, WriteFile, ConfInv, ProcessOK, WriterOK, NamedInv
<1>2. ASSUME NEW ok \in BOOLEAN, SaveReturns(ok)
      PROVE  /\ pc' \in {"override", "start"}
             /\ ok => config' = config
             /\ config' = config \/ config_file' = NoPath
  BY <1>2 DEF SaveReturns
<1>3. CASE /\ files' = [files EXCEPT ![path] = EmptyFile] /\ pc' = "writing"
           /\ created' = [created EXCEPT ![path] = {}]
           /\ UNCHANGED <<config, config_file, foreign>>
  BY <1>1, <1>3 DEF ConfInv, NamedInv, EmptyFile
<1>4. CASE SaveReturns(FALSE) /\ foreign' = foreign \cup {path} /\ UNCHANGED <<files, created>>
  BY <1>1, <1>2, <1>4 DEF NamedInv
<1>5. CASE /\ files' = [files EXCEPT ![path] = JsonFile(Saved(config))]
           /\ created' = [created EXCEPT ![path] = {config}]
           /\ SaveReturns(TRUE) /\ UNCHANGED foreign
  BY <1>1, <1>2, <1>5 DEF ConfInv, NamedInv
<1>6. CASE /\ \E rest \in {files[path], OtherFile} : files' = [files EXCEPT ![path] = rest]
           /\ SaveReturns(TRUE) /\ foreign' = foreign \cup {path} /\ UNCHANGED created
  BY <1>1, <1>2, <1>6 DEF ConfInv, NamedInv
<1>7. CASE SaveReturns(TRUE) /\ UNCHANGED <<files, created, foreign>>
  BY <1>1, <1>2, <1>7 DEF NamedInv
<1> QED BY <1>3, <1>4, <1>5, <1>6, <1>7 DEF OpenFile, WriteFile

LEMMA OverrideNamed ==
    ASSUME NamedOptions, ConfInv, NamedInv, Override PROVE NamedInv'
<1> DEFINE c == apply_cli_overrides(config, opts)
<1>1. /\ pc = "override" /\ config' = c /\ pc' \in {"prepare", "off"}
      /\ UNCHANGED <<files, path, config_file, created, foreign, informed>>
  BY DEF Override
<1>2. opts \in Options /\ \A f \in TextFields : c[f] = IF f \in DOMAIN opts THEN opts[f].val ELSE config[f]
  BY <1>1, OverridesTyped DEF ConfInv, ProcessOK
<1> HIDE DEF c
<1>3. Named(config) => Named(c)
  BY <1>2, FieldsDisjoint DEF Named, NamedOptions
<1> QED BY <1>1, <1>3 DEF NamedInv

LEMMA StepNamed ==
    ASSUME NamedOptions PROVE ConfInv /\ NamedInv /\ [ConfigNext]_configVars => NamedInv'
<1> SUFFICES ASSUME ConfInv, NamedInv, [ConfigNext]_configVars PROVE NamedInv'
  OBVIOUS
<1>1. ASSUME NEW p \in Paths, NEW o \in Options, Launch(p, o) PROVE NamedInv'
  BY <1>1, LaunchNamed
<1>2. ASSUME NEW p \in Paths, NEW file \in Edits, Edit(p, file) PROVE NamedInv'
  <2>1. /\ UNCHANGED <<pc, path, config, config_file>> /\ informed' = (informed /\ p # path)
        /\ files'[p] = file /\ created'[p] = {}
        /\ \A q \in Paths \ {p} : files'[q] = files[q] /\ created'[q] = created[q]
        /\ foreign' = IF file = NoFile THEN foreign \ {p} ELSE foreign \cup {p}
    BY <1>2 DEF Edit, process, ConfInv
  <2>2. pc = "load" => path \in Paths
    BY DEF ConfInv, ProcessOK
  <2>3. \A q \in Paths : \A c \in created'[q] : Named(c)
    BY <2>1 DEF NamedInv
  <2>4. \A q \in Paths \ foreign' : files'[q].state \in {"absent", "empty"} \/ created'[q] # {}
    BY <2>1 DEF NamedInv, NoFile
  <2>5. informed' \/ path \notin foreign' =>
            (path \notin foreign' <=> path \notin foreign) \/ path = p
    BY <2>1
  <2>6. /\ pc \in {"override", "opening", "writing", "prepare", "start"} /\
           ((path \notin foreign' /\ informed') \/ config_file # NoPath) => Named(config)
        /\ pc = "running" => Named(config)
    BY <2>1, <2>5 DEF NamedInv
  <2>7. pc = "load" /\ path \notin foreign' =>
            files'[path].state = "absent" \/ created'[path] # {}
    BY <2>1, <2>2, <2>5 DEF NamedInv, NoFile
  <2> QED BY <2>1, <2>3, <2>4, <2>6, <2>7 DEF NamedInv, Named
<1>3. CASE Peek \/ Load \/ OpenFile \/ WriteFile
  BY <1>3, PeekNamed, LoadNamed, SaveNamed
<1>4. CASE Override
  BY <1>4, OverrideNamed
<1>5. CASE Prepare
  BY <1>5 DEF Prepare, NeedsFile, NamedInv
<1>6. CASE RunApplication
  BY <1>6, DatabasesAssumption DEF RunApplication, NamedInv, Named
<1>7. CASE Exit
  BY <1>7 DEF Exit, NamedInv
<1>8. CASE UNCHANGED configVars
  BY <1>8 DEF configVars, process, NamedInv
<1> QED BY <1>1, <1>2, <1>3, <1>4, <1>5, <1>6, <1>7, <1>8 DEF ConfigNext

(* Unless an option blanks a path, a server on a file that only it has     *)
(* touched and that it can read starts with its databases named, after any *)
(* crashes.                                                                *)
THEOREM DatabasesStayNamed == ASSUME NamedOptions PROVE ConfigSpec => []DatabasesNamed
<1>1. ConfInv /\ NamedInv => DatabasesNamed
  BY DEF ConfInv, ProcessOK, Steps, NamedInv, DatabasesNamed, Accepted, Named
<1>2. ConfInv /\ NamedInv /\ [ConfigNext]_configVars => NamedInv'
  BY StepNamed
<1> QED BY <1>1, <1>2, InitNamed, ConfigurationInvariance, PTL DEF ConfigSpec

-----------------------------------------------------------------------------
(* The sorted sequence that calculate_percentile reads from.               *)
LEMMA SortedSorts ==
    ASSUME NEW s \in Seq(Nat)
    PROVE  \E p : Sorts(p, s, Len(s)) /\ Sorted(s) = [i \in 1..Len(s) |-> s[p[i]]]
<1> DEFINE B == Bijection(DOMAIN s, DOMAIN s)
<1>1. DOMAIN s = 1..Len(s) /\ Len(s) \in Nat /\ s \in [1..Len(s) -> Nat]
  OBVIOUS
<1>2. \A p \in B : IsAscending(Arranged(s, p)) => Sorts(p, s, Len(s))
  BY <1>1 DEF Sorts, Bijection, Injection, Surjection, IsInjective,
              IsAscending, Arranged
<1>3. \A p : Sorts(p, s, Len(s)) => p \in B /\ IsAscending(Arranged(s, p))
  BY <1>1 DEF Sorts, Bijection, Injection, Surjection, IsInjective,
              IsAscending, Arranged
<1> DEFINE c == CHOOSE p \in B : IsAscending(Arranged(s, p))
<1>4. Sorts(c, s, Len(s))
  <2>1. \E p \in B : IsAscending(Arranged(s, p))
    BY <1>1, <1>3, SortExists
  <2>2. c \in B /\ IsAscending(Arranged(s, c))
    <3> HIDE DEF B
    <3> QED BY <2>1
  <2> QED BY <1>2, <2>2
<1>5. Sorted(s) = [i \in 1..Len(s) |-> s[c[i]]]
  BY <1>1 DEF Sorted, Arranged
<1> QED BY <1>4, <1>5

LEMMA SortedRank ==
    ASSUME NEW s \in Seq(Nat), NEW j \in 1..Len(s)
    PROVE  /\ Cardinality(UpTo(s, Len(s), Sorted(s)[j])) >= j
           /\ Cardinality(FromOn(s, Len(s), Sorted(s)[j])) >= Len(s) - j + 1
<1>1. PICK p : Sorts(p, s, Len(s)) /\ Sorted(s) = [i \in 1..Len(s) |-> s[p[i]]]
  BY SortedSorts
<1>2. Sorted(s)[j] = s[p[j]]
  BY <1>1
<1>3. Len(s) \in Nat /\ s \in [1..Len(s) -> Nat]
  OBVIOUS
<1> QED BY <1>1, <1>2, <1>3, RankBounds

(* The index of calculate_percentile has the rank that is asked for.       *)
LEMMA PercentileRank ==
    ASSUME NEW s \in Seq(Nat), s # <<>>, NEW p \in {50, 95, 99}
    PROVE  LET n == Len(s)
               v == calculate_percentile(s, p)
           IN  /\ 100 * Cardinality({i \in 1..n : s[i] <= v}) > p * (n - 1)
               /\ 100 * Cardinality({i \in 1..n : s[i] >= v}) >= (100 - p) * (n - 1) + 100
<1> DEFINE n == Len(s)
           d == (p * (n - 1)) \div 100
           v == Sorted(s)[d + 1]
           A == Cardinality(UpTo(s, n, v))
           B == Cardinality(FromOn(s, n, v))
<1>1. n \in Nat \ {0}
  OBVIOUS
<1>2. d \in Nat /\ 100 * d <= p * (n - 1) /\ p * (n - 1) < 100 * d + 100
  <2>1. CASE p = 50
    BY <1>1, <2>1
  <2>2. CASE p = 95
    BY <1>1, <2>2
  <2>3. CASE p = 99
    BY <1>1, <2>3
  <2> QED BY <2>1, <2>2, <2>3
<1> HIDE DEF d
<1>3. d + 1 \in 1..n
  BY <1>1, <1>2
<1>4. A >= d + 1 /\ B >= n - (d + 1) + 1
  BY <1>3, SortedRank
<1>5. A \in Nat /\ B \in Nat
  <2>1. IsFiniteSet(1..n)
    BY <1>1, FS_Interval
  <2>2. \A T \in SUBSET (1..n) : Cardinality(T) \in Nat
    BY <2>1, FS_Subset, FS_CardinalityType
  <2> QED BY <2>2 DEF UpTo, FromOn
<1> HIDE DEF A, B, n
<1>6. 100 * A > p * (n - 1) /\ 100 * B >= (100 - p) * (n - 1) + 100
  BY <1>1, <1>2, <1>4, <1>5
<1>7. calculate_percentile(s, p) = v
  BY DEF calculate_percentile, d, n
<1> QED BY <1>6, <1>7 DEF A, B, n, UpTo, FromOn

-----------------------------------------------------------------------------
Recording == {t \in Threads : pending[t] # {}}

MetricsTyped ==
    /\ total_requests \in Nat
    /\ latencies \in Seq(Latencies)
    /\ request_timestamps \in Seq(Nat)
    /\ log \in Seq([latency : Latencies, time : Nat])
    /\ pending \in [Threads -> SUBSET Latencies]
    /\ now \in Nat

(* Requests are recorded in the order of time, none in the future.         *)
Chronological ==
    /\ \A i \in 1..Len(log) : log[i].time <= now
    /\ \A i \in 1..Len(log) : \A j \in 1..Len(log) : i <= j => log[i].time <= log[j].time

(* The times that are kept are the last ones of the log, and it is exactly *)
(* those that are in the window of the last record.                        *)
WindowKept ==
    LET n == Len(request_timestamps)
        m == Len(log) - n
    IN  /\ m \in Nat
        /\ \A i \in 1..n : request_timestamps[i] = log[m + i].time
        /\ \A i \in 1..Len(log) : log[Len(log)].time - log[i].time <= Window <=> m < i

HealthShaped ==
    /\ health = [at |-> health.at, stats |-> health.stats]
    /\ health.stats = [requests |-> health.stats.requests, errors |-> health.stats.errors,
                       percentiles |-> health.stats.percentiles, qps |-> health.stats.qps,
                       seen |-> health.stats.seen]

MetricsInv ==
    /\ MetricsTyped
    /\ IsFiniteSet(Recording) /\ CountsEveryRequest
    /\ LatenciesAreLatest
    /\ Chronological /\ WindowKept
    /\ HealthShaped /\ PercentilesHaveRank

LEMMA InitMetricsInv == ASSUME MetricsInit PROVE MetricsInv
<1>1. MetricsTyped
  BY DEF MetricsInit, MetricsTyped
<1>2. Recording = {} /\ InFlight = 0 /\ IsFiniteSet(Recording)
  <2>1. Recording = {}
    BY DEF MetricsInit, Recording
  <2> QED BY <2>1, FS_EmptySet DEF InFlight, Recording
<1>3. CountsEveryRequest
  BY <1>2 DEF MetricsInit, CountsEveryRequest
<1>4. LatenciesAreLatest
  BY MetricsAssumption DEF MetricsInit, LatenciesAreLatest
<1>5. Chronological /\ WindowKept
  BY DEF MetricsInit, Chronological, WindowKept
<1>6. HealthShaped /\ PercentilesHaveRank
  BY DEF MetricsInit, NoStats, HealthShaped, PercentilesHaveRank
<1> QED BY <1>1, <1>2, <1>3, <1>4, <1>5, <1>6 DEF MetricsInv

-----------------------------------------------------------------------------
(* Between its two steps, and only then, a request is ahead in the counter. *)
LEMMA CountKeeps ==
    ASSUME MetricsInv, NEW t \in Threads, NEW l \in Latencies, CountRequest(t, l)
    PROVE  MetricsInv'
<1>1. /\ pending[t] = {} /\ total_requests' = total_requests + 1
      /\ pending' = [pending EXCEPT ![t] = {l}]
      /\ UNCHANGED <<total_errors, latencies, request_timestamps, log, health, now>>
  BY DEF CountRequest, Counted, deques
<1>2. MetricsTyped'
  BY <1>1 DEF MetricsInv, MetricsTyped
<1>3. Recording' = Recording \cup {t} /\ t \notin Recording
  BY <1>1 DEF MetricsInv, MetricsTyped, Recording
<1>4. IsFiniteSet(Recording') /\ Cardinality(Recording') = Cardinality(Recording) + 1
  BY <1>3, FS_AddElement DEF MetricsInv
<1>5. CountsEveryRequest'
  <2>1. Cardinality(Recording) \in Nat /\ Len(log) \in Nat
    BY FS_CardinalityType DEF MetricsInv, MetricsTyped
  <2> QED BY <1>1, <1>4, <2>1 DEF MetricsInv, CountsEveryRequest, InFlight, Recording
<1> QED BY <1>1, <1>2, <1>4, <1>5
    DEF MetricsInv, LatenciesAreLatest, Chronological, WindowKept, HealthShaped,
        PercentilesHaveRank

(* The ring keeps the latest latencies.                                    *)
LEMMA RingKeeps ==
    ASSUME MetricsTyped, LatenciesAreLatest, NEW l \in Latencies, NEW r,
           r.latency = l,
           latencies' = Capped(Append(latencies, l)), log' = Append(log, r)
    PROVE  latencies' \in Seq(Latencies) /\ LatenciesAreLatest'
<1> DEFINE s == Append(latencies, l)
           n == Len(latencies)
           k == Len(log)
<1>1. /\ s \in Seq(Latencies) /\ Len(s) = n + 1 /\ n \in Nat /\ k \in Nat
      /\ s[n + 1] = l /\ \A i \in 1..n : s[i] = latencies[i]
  BY DEF MetricsTyped
<1>2. /\ Len(log') = k + 1 /\ log'[k + 1] = r
      /\ \A i \in 1..k : log'[i] = log[i]
  BY DEF MetricsTyped
<1>3. /\ n = IF k <= MaxLatencies THEN k ELSE MaxLatencies
      /\ \A i \in 1..n : latencies[i] = log[k - n + i].latency
  BY DEF LatenciesAreLatest
<1>4. MaxLatencies \in Nat
  BY MetricsAssumption
<1>5. CASE n + 1 > MaxLatencies
  <2>1. latencies' = Tail(s)
    BY <1>1, <1>5 DEF Capped
  <2>2. /\ latencies' \in Seq(Latencies) /\ Len(latencies') = n
        /\ \A i \in 1..n : latencies'[i] = s[i + 1]
    BY <1>1, <2>1
  <2>3. n = MaxLatencies /\ k >= MaxLatencies
    BY <1>1, <1>3, <1>4, <1>5
  <2>4. ASSUME NEW i \in 1..n PROVE latencies'[i] = log'[k + 1 - n + i].latency
    <3>1. CASE i = n
      BY <1>1, <1>2, <2>2, <3>1
    <3>2. CASE i # n
      <4>1. i + 1 \in 1..n /\ k - n + (i + 1) \in 1..k /\ k + 1 - n + i = k - n + (i + 1)
        BY <1>1, <1>4, <2>3, <3>2
      <4>2. latencies'[i] = latencies[i + 1] /\ latencies[i + 1] = log[k - n + (i + 1)].latency
        BY <1>1, <1>3, <2>2, <4>1
      <4>3. log'[k - n + (i + 1)] = log[k - n + (i + 1)]
        BY <1>2, <4>1
      <4> QED BY <4>1, <4>2, <4>3
    <3> QED BY <3>1, <3>2
  <2>5. Len(latencies') = IF Len(log') <= MaxLatencies THEN Len(log') ELSE MaxLatencies
    BY <1>1, <1>2, <1>4, <2>2, <2>3
  <2>6. ASSUME NEW i \in 1..Len(latencies')
        PROVE  latencies'[i] = log'[Len(log') - Len(latencies') + i].latency
    <3>1. i \in 1..n /\ Len(log') - Len(latencies') + i = k + 1 - n + i
      BY <1>2, <2>2
    <3> QED BY <2>4, <3>1
  <2> QED BY <2>2, <2>5, <2>6 DEF LatenciesAreLatest
<1>6. CASE ~ (n + 1 > MaxLatencies)
  <2>1. latencies' = s
    BY <1>1, <1>6 DEF Capped
  <2>2. n = k /\ k + 1 <= MaxLatencies
    BY <1>1, <1>3, <1>4, <1>6
  <2>3. ASSUME NEW i \in 1..n + 1 PROVE s[i] = log'[k + 1 - (n + 1) + i].latency
    <3>1. k + 1 - (n + 1) + i = i
      BY <1>1, <2>2
    <3>2. CASE i = n + 1
      BY <1>1, <1>2, <2>2, <3>1, <3>2
    <3>3. CASE i # n + 1
      <4>1. i \in 1..n /\ i \in 1..k /\ k - n + i = i
        BY <1>1, <2>2, <3>3
      <4> QED BY <1>1, <1>2, <1>3, <3>1, <4>1
    <3> QED BY <3>2, <3>3
  <2>4. Len(latencies') = IF Len(log') <= MaxLatencies THEN Len(log') ELSE MaxLatencies
    BY <1>1, <1>2, <1>4, <2>1, <2>2
  <2>5. ASSUME NEW i \in 1..Len(latencies')
        PROVE  latencies'[i] = log'[Len(log') - Len(latencies') + i].latency
    <3>1. i \in 1..n + 1 /\ Len(log') - Len(latencies') + i = k + 1 - (n + 1) + i
      BY <1>1, <1>2, <2>1
    <3> QED BY <2>1, <2>3, <3>1
  <2> QED BY <1>1, <2>1, <2>4, <2>5 DEF LatenciesAreLatest
<1> QED BY <1>5, <1>6

LEMMA LogTimes ==
    ASSUME MetricsTyped
    PROVE  \A i \in 1..Len(log) : log[i].time \in Nat
<1>1. \A i \in 1..Len(log) : log[i] \in [latency : Latencies, time : Nat]
  BY ElementsOf DEF MetricsTyped
<1> QED BY <1>1

LEMMA StaysOlder ==
    ASSUME NEW x \in Nat, NEW y \in Nat, NEW z \in Nat, NEW w \in Nat, ~ (x - y <= w), x <= z
    PROVE  ~ (z - y <= w)
  OBVIOUS

(* Times leave from the front exactly when they leave the window: the log  *)
(* is in order of time, so what is kept is a suffix of it.                 *)
LEMMA WindowKeeps ==
    ASSUME MetricsTyped, Chronological, WindowKept,
           NEW r, r.time = now, UNCHANGED now,
           request_timestamps' = Recent(Append(request_timestamps, now), now),
           log' = Append(log, r)
    PROVE  request_timestamps' \in Seq(Nat) /\ Chronological' /\ WindowKept'
<1> DEFINE s == Append(request_timestamps, now)
           n == Len(request_timestamps)
           k == Len(log)
           m == k - n
<1>1. /\ s \in Seq(Nat) /\ Len(s) = n + 1 /\ n \in Nat /\ k \in Nat /\ m \in Nat /\ now \in Nat
      /\ s[n + 1] = now /\ \A i \in 1..n : s[i] = log[m + i].time
  BY DEF MetricsTyped, WindowKept
<1>2. /\ Len(log') = k + 1 /\ log'[k + 1].time = now
      /\ \A i \in 1..k : log'[i] = log[i] /\ log[i].time \in Nat
  <2>1. Len(log') = k + 1 /\ log'[k + 1] = r /\ \A i \in 1..k : log'[i] = log[i]
    BY DEF MetricsTyped
  <2> QED BY <2>1, LogTimes
<1>3. /\ \A i \in 1..k : log[i].time <= now
      /\ \A i \in 1..k : \A j \in 1..k : i <= j => log[i].time <= log[j].time
      /\ \A i \in 1..k : log[k].time - log[i].time <= Window <=> m < i
  BY DEF Chronological, WindowKept
<1>4. Window \in Nat
  BY MetricsAssumption
<1> HIDE DEF s, n, k, m
<1>m. k = m + n
  BY <1>1 DEF m
<1>5. ASSUME NEW i \in 1..k + 1
      PROVE  log'[i].time \in Nat /\ log'[i].time <= now /\ (i \in 1..k \/ i = k + 1)
  BY <1>1, <1>2, <1>3
<1>6. ASSUME NEW i \in 1..k + 1, NEW j \in 1..k + 1, i <= j
      PROVE  log'[i].time <= log'[j].time
  <2>1. CASE j = k + 1
    BY <1>2, <1>5, <2>1
  <2>2. CASE j # k + 1
    <3>1. i \in 1..k /\ j \in 1..k
      BY <1>1, <1>6, <2>2
    <3> QED BY <1>2, <1>3, <1>6, <3>1
  <2> QED BY <2>1, <2>2
<1>7. Chronological'
  <2>1. now' = now /\ Len(log') = k + 1
    BY <1>2
  <2> QED BY <1>5, <1>6, <2>1 DEF Chronological
<1>8. ASSUME NEW i \in 1..n + 1
      PROVE  m + i \in 1..k + 1 /\ s[i] = log'[m + i].time
  <2>1. m + i \in 1..k + 1
    BY <1>1, <1>m
  <2>2. CASE i = n + 1
    <3>1. m + i = k + 1
      BY <1>1, <1>m, <2>2
    <3> QED BY <1>1, <1>2, <2>1, <2>2, <3>1
  <2>3. CASE i # n + 1
    <3>1. i \in 1..n /\ m + i \in 1..k
      BY <1>1, <1>m, <2>3
    <3> QED BY <1>1, <1>2, <2>1, <3>1
  <2> QED BY <2>2, <2>3
<1> DEFINE recent == {i \in DOMAIN s : InWindow(now - s[i])}
           a == CHOOSE i \in recent : \A j \in recent : i <= j
<1>9. /\ \A i : i \in recent <=> i \in 1..n + 1 /\ now - s[i] <= Window
      /\ n + 1 \in recent /\ recent \subseteq Nat
  <2>1. DOMAIN s = 1..n + 1
    BY <1>1
  <2>2. n + 1 \in 1..n + 1 /\ now - s[n + 1] <= Window
    BY <1>1, <1>4
  <2>3. \A i : i \in recent <=> i \in 1..n + 1 /\ now - s[i] <= Window
    BY <2>1 DEF InWindow
  <2> HIDE DEF recent
  <2>4. n + 1 \in recent
    BY <2>2, <2>3
  <2>5. recent \subseteq Nat
    BY <1>1, <2>3
  <2> QED BY <2>3, <2>4, <2>5
<1>10. a \in recent /\ \A j \in recent : a <= j
  <2> HIDE DEF recent
  <2>1. \E i \in recent : \A j \in recent : i <= j
    BY <1>9, LeastNatural
  <2> QED BY <2>1
<1>11. request_timestamps' = SubSeq(s, a, n + 1)
  BY <1>1, <1>9 DEF Recent, s
<1> HIDE DEF recent, a
<1>12. a \in 1..n + 1
  BY <1>9, <1>10
<1>13. ASSUME NEW x \in 1..n + 1 PROVE now - s[x] <= Window <=> a <= x
  <2>1. ASSUME a <= x PROVE now - s[x] <= Window
    <3>1. s[a] <= s[x] /\ s[a] \in Nat /\ s[x] \in Nat
      <4>1. m + a <= m + x
        BY <1>1, <1>12, <2>1
      <4> QED BY <1>5, <1>6, <1>8, <1>12, <4>1
    <3>2. now - s[a] <= Window
      BY <1>9, <1>10
    <3> QED BY <1>1, <1>4, <3>1, <3>2
  <2>2. ASSUME now - s[x] <= Window PROVE a <= x
    BY <1>9, <1>10, <2>2
  <2> QED BY <2>1, <2>2
<1> DEFINE c == Len(request_timestamps')
<1>14. /\ request_timestamps' \in Seq(Nat) /\ c = n + 2 - a
       /\ \A i \in 1..c : request_timestamps'[i] = s[a + i - 1]
  <2>1. SubSeq(s, a, n + 1) \in Seq(Nat)
    BY <1>1, <1>12
  <2>2. Len(SubSeq(s, a, n + 1)) = n + 2 - a
    BY <1>1, <1>12
  <2>3. \A i \in 1..n + 2 - a : SubSeq(s, a, n + 1)[i] = s[a + i - 1]
    BY <1>1, <1>12
  <2> QED BY <1>11, <2>1, <2>2, <2>3
<1> DEFINE u == Len(log') - c
<1>15. u = m + a - 1 /\ u \in Nat
  BY <1>1, <1>2, <1>m, <1>12, <1>14
<1>c. c \in Nat
  BY <1>1, <1>12, <1>14
<1> HIDE DEF c, u
<1>16. ASSUME NEW i \in 1..c PROVE request_timestamps'[i] = log'[u + i].time
  <2>1. a + i - 1 \in 1..n + 1 /\ m + (a + i - 1) = u + i
    BY <1>1, <1>12, <1>14, <1>15, <1>c
  <2> QED BY <1>8, <1>14, <2>1
<1>17. ASSUME NEW i \in 1..Len(log')
       PROVE  log'[Len(log')].time - log'[i].time <= Window <=> u < i
  <2>1. log'[Len(log')].time = now /\ i \in 1..k + 1
    BY <1>2
  <2>2. CASE m < i
    <3>1. i - m \in 1..n + 1 /\ m + (i - m) = i
      BY <1>1, <1>m, <2>1, <2>2
    <3>2. log'[i].time = s[i - m]
      BY <1>8, <3>1
    <3>3. now - s[i - m] <= Window <=> a <= i - m
      BY <1>13, <3>1
    <3>4. a <= i - m <=> u < i
      BY <1>1, <1>12, <1>15, <2>1
    <3> QED BY <2>1, <3>2, <3>3, <3>4
  <2>3. CASE ~ (m < i)
    <3>1. i \in 1..k /\ k \in 1..k
      BY <1>1, <1>m, <2>1, <2>3
    <3>2. ~ (log[k].time - log[i].time <= Window) /\ log[k].time <= now /\ log'[i] = log[i]
          /\ log[k].time \in Nat /\ log[i].time \in Nat
      BY <1>2, <1>3, <2>3, <3>1
    <3>3. ~ (now - log'[i].time <= Window)
      BY <1>1, <1>4, <3>2, StaysOlder
    <3>4. ~ (u < i)
      BY <1>1, <1>12, <1>15, <2>1, <2>3
    <3> QED BY <2>1, <3>3, <3>4
  <2> QED BY <2>2, <2>3
<1> QED BY <1>7, <1>14, <1>15, <1>16, <1>17 DEF WindowKept, c, u

-----------------------------------------------------------------------------
LEMMA StoreKeeps ==
    ASSUME MetricsInv, NEW t \in Threads, StoreRequest(t)
    PROVE  MetricsInv'
<1>1. PICK l \in pending[t] :
        /\ latencies' = Capped(Append(latencies, l))
        /\ request_timestamps' = Recent(Append(request_timestamps, now), now)
        /\ log' = Append(log, [latency |-> l, time |-> now])
        /\ pending' = [pending EXCEPT ![t] = {}]
        /\ UNCHANGED <<total_requests, total_errors, health, now>>
  BY DEF StoreRequest, counters
<1>2. l \in Latencies /\ MetricsTyped
  BY DEF MetricsInv, MetricsTyped
<1> DEFINE r == [latency |-> l, time |-> now]
<1>3. r \in [latency : Latencies, time : Nat] /\ r.latency = l /\ r.time = now
  BY <1>2 DEF MetricsTyped
<1> HIDE DEF r
<1>4. log' = Append(log, r)
  BY <1>1 DEF r
<1>5. latencies' \in Seq(Latencies) /\ LatenciesAreLatest'
  BY <1>1, <1>2, <1>3, <1>4, RingKeeps DEF MetricsInv
<1>6. request_timestamps' \in Seq(Nat) /\ Chronological' /\ WindowKept'
  BY <1>1, <1>2, <1>3, <1>4, WindowKeeps DEF MetricsInv
<1>7. MetricsTyped'
  <2>1. log' \in Seq([latency : Latencies, time : Nat])
    BY <1>2, <1>3, <1>4 DEF MetricsTyped
  <2>2. pending' \in [Threads -> SUBSET Latencies]
    BY <1>1, <1>2 DEF MetricsTyped
  <2> QED BY <1>1, <1>2, <1>5, <1>6, <2>1, <2>2 DEF MetricsTyped
<1>8. Recording' = Recording \ {t} /\ t \in Recording
  BY <1>1, <1>2 DEF MetricsTyped, Recording
<1>9. IsFiniteSet(Recording') /\ Cardinality(Recording') = Cardinality(Recording) - 1
  BY <1>8, FS_RemoveElement DEF MetricsInv
<1>10. CountsEveryRequest'
  <2>1. Cardinality(Recording) \in Nat
    BY FS_CardinalityType DEF MetricsInv
  <2>2. Len(log') = Len(log) + 1 /\ Len(log) \in Nat
    BY <1>2, <1>4 DEF MetricsTyped
  <2>3. total_requests' = total_requests /\ total_requests = Len(log) + Cardinality(Recording)
    BY <1>1 DEF MetricsInv, CountsEveryRequest, InFlight, Recording
  <2>4. total_requests' = Len(log') + Cardinality(Recording')
    BY <1>9, <2>1, <2>2, <2>3
  <2> QED BY <2>4 DEF CountsEveryRequest, InFlight, Recording
<1>11. HealthShaped' /\ PercentilesHaveRank'
  BY <1>1 DEF MetricsInv, HealthShaped, PercentilesHaveRank
<1> QED BY <1>5, <1>6, <1>7, <1>9, <1>10, <1>11 DEF MetricsInv

(* The reader: what it has seen and what it says of it come from one       *)
(* section under the mutex.                                                *)
LEMMA ReadKeeps ==
    ASSUME MetricsInv, ReadLatencies
    PROVE  HealthShaped' /\ PercentilesHaveRank'
<1> DEFINE c(p) == calculate_percentile(latencies, p)
<1>1. /\ health'.stats.seen = latencies /\ HealthShaped'
      /\ latencies # <<>> => health'.stats.percentiles = <<c(50), c(95), c(99)>>
  BY DEF ReadLatencies, MetricsInv, HealthShaped
<1>2. latencies \in Seq(Nat)
  <2>1. latencies \in Seq(Latencies) /\ Len(latencies) \in Nat
    BY DEF MetricsInv, MetricsTyped
  <2>2. \A i \in 1..Len(latencies) : latencies[i] \in Nat
    BY <2>1, ElementsOf, MetricsAssumption
  <2>3. latencies \in [1..Len(latencies) -> Latencies]
    BY <2>1
  <2>4. latencies \in [1..Len(latencies) -> Nat]
    BY <2>2, <2>3
  <2> QED BY <2>1, <2>4
<1> DEFINE Has(v, p) ==
             /\ 100 * Cardinality({i \in 1..Len(latencies) : latencies[i] <= v}) > p * (Len(latencies) - 1)
             /\ 100 * Cardinality({i \in 1..Len(latencies) : latencies[i] >= v})
                    >= (100 - p) * (Len(latencies) - 1) + 100
<1>3. ASSUME latencies # <<>> PROVE Has(c(50), 50) /\ Has(c(95), 95) /\ Has(c(99), 99)
  BY <1>2, <1>3, PercentileRank
<1>4. ASSUME latencies # <<>>
      PROVE  /\ Has(health'.stats.percentiles[1], 50)
             /\ Has(health'.stats.percentiles[2], 95)
             /\ Has(health'.stats.percentiles[3], 99)
  <2>1. /\ health'.stats.percentiles[1] = c(50)
        /\ health'.stats.percentiles[2] = c(95)
        /\ health'.stats.percentiles[3] = c(99)
    BY <1>1, <1>4
  <2> HIDE DEF Has, c
  <2> QED BY <1>3, <1>4, <2>1
<1>5. PercentilesHaveRank'
  <2> HIDE DEF c
  <2>1. CASE latencies = <<>>
    BY <1>1, <2>1 DEF PercentilesHaveRank
  <2>2. CASE latencies # <<>>
    BY <1>1, <1>4, <2>2 DEF PercentilesHaveRank
  <2> QED BY <2>1, <2>2
<1> QED BY <1>1, <1>5

LEMMA StepMetricsInv ==
    ASSUME MetricsInv, [MetricsNext]_metricsVars
    PROVE  MetricsInv'
<1>1. ASSUME UNCHANGED <<total_requests, latencies, request_timestamps, log, pending>>,
             now' \in Nat, now <= now', HealthShaped' /\ PercentilesHaveRank'
      PROVE  MetricsInv'
  <2>1. MetricsTyped' /\ Recording' = Recording
    BY <1>1 DEF MetricsInv, MetricsTyped, Recording
  <2>2. CountsEveryRequest' /\ LatenciesAreLatest' /\ WindowKept'
    BY <1>1 DEF MetricsInv, CountsEveryRequest, InFlight, LatenciesAreLatest, WindowKept
  <2>3. Chronological'
    <3>1. \A i \in 1..Len(log) : log[i].time \in Nat
      BY LogTimes DEF MetricsInv
    <3> QED BY <1>1, <3>1 DEF MetricsInv, MetricsTyped, Chronological
  <2> QED BY <1>1, <2>1, <2>2, <2>3 DEF MetricsInv
<1>2. now \in Nat /\ now <= now
  BY DEF MetricsInv, MetricsTyped
<1>3. UNCHANGED health => HealthShaped' /\ PercentilesHaveRank'
  BY DEF MetricsInv, HealthShaped, PercentilesHaveRank
<1>4. CASE \E t \in Threads : StoreRequest(t) \/ \E l \in Latencies : CountRequest(t, l)
  BY <1>4, StoreKeeps, CountKeeps
<1>5. CASE Tick \/ record_error \/ UNCHANGED metricsVars
  BY <1>1, <1>2, <1>3, <1>5 DEF Tick, record_error, metricsVars, counters, deques
<1>6. CASE ReadLatencies
  BY <1>1, <1>2, <1>6, ReadKeeps DEF ReadLatencies, counters, deques
<1>7. CASE LoadRequests \/ LoadErrors \/ ReadQps
  <2>1. HealthShaped' /\ PercentilesHaveRank'
    <3>1. CASE LoadRequests
      BY <3>1 DEF LoadRequests, NoStats, HealthShaped, PercentilesHaveRank
    <3>2. CASE LoadErrors \/ ReadQps
      <4>1. /\ HealthShaped' /\ health'.stats.seen = health.stats.seen
            /\ health'.stats.percentiles = health.stats.percentiles
        <5>1. PICK a, e, q : health' = [at |-> a, stats |->
                [requests |-> health.stats.requests, errors |-> e,
                 percentiles |-> health.stats.percentiles, qps |-> q,
                 seen |-> health.stats.seen]]
          <6>1. CASE LoadErrors
            BY <6>1 DEF MetricsInv, LoadErrors, HealthShaped
          <6>2. CASE ReadQps
            BY <6>2 DEF MetricsInv, ReadQps, HealthShaped
          <6> QED BY <3>2, <6>1, <6>2
        <5> QED BY <5>1 DEF HealthShaped
      <4> QED BY <4>1 DEF MetricsInv, PercentilesHaveRank
    <3> QED BY <1>7, <3>1, <3>2
  <2> QED BY <1>1, <1>2, <1>7, <2>1
      DEF LoadRequests, LoadErrors, ReadQps, counters, deques
<1> QED BY <1>4, <1>5, <1>6, <1>7 DEF MetricsNext

(* The inductive invariant of the metrics.                                 *)
THEOREM MetricsInvariance == MetricsSpec => []MetricsInv
<1>1. MetricsInit => MetricsInv
  BY InitMetricsInv
<1>2. MetricsInv /\ [MetricsNext]_metricsVars => MetricsInv'
  BY StepMetricsInv
<1> QED BY <1>1, <1>2, PTL DEF MetricsSpec

(* total_requests_ is ahead of what is recorded by the requests between    *)
(* the two steps of record_request, and by no other.                       *)
THEOREM RequestsCounted == MetricsSpec => []CountsEveryRequest
<1>1. MetricsInv => CountsEveryRequest
  BY DEF MetricsInv
<1> QED BY <1>1, MetricsInvariance, PTL

(* latencies_ holds the latest latencies, as many as it may.               *)
THEOREM RingHoldsLatest == MetricsSpec => []LatenciesAreLatest
<1>1. MetricsInv => LatenciesAreLatest
  BY DEF MetricsInv
<1> QED BY <1>1, MetricsInvariance, PTL

(* request_timestamps_ holds exactly the requests of the last window.      *)
THEOREM WindowExact == MetricsSpec => []TimestampsSpanWindow
<1>1. ASSUME MetricsInv PROVE TimestampsSpanWindow
  <2> DEFINE n == Len(request_timestamps)
             k == Len(log)
             m == k - n
             W == {i \in DOMAIN log : log[k].time - log[i].time <= Window}
  <2>1. /\ n \in Nat /\ k \in Nat /\ m \in Nat /\ DOMAIN log = 1..k
        /\ \A i \in 1..n : request_timestamps[i] = log[m + i].time
        /\ \A i \in 1..k : log[k].time - log[i].time <= Window <=> m < i
        /\ \A i \in 1..k : \A j \in 1..k : i <= j => log[i].time <= log[j].time
    BY <1>1 DEF MetricsInv, MetricsTyped, WindowKept, Chronological
  <2>2. W = m + 1..k
    BY <2>1
  <2>3. Cardinality(W) = n
    <3>1. Cardinality(m + 1..k) = IF m + 1 > k THEN 0 ELSE k - (m + 1) + 1
      <4> HIDE DEF n, k, m
      <4>1. m + 1 \in Int /\ k \in Int
        BY <2>1
      <4> QED BY <4>1, FS_Interval
    <3>2. k - (m + 1) + 1 = n /\ (m + 1 > k => n = 0)
      BY <2>1
    <3> HIDE DEF W, n, k, m
    <3> QED BY <2>2, <3>1, <3>2
  <2>4. ASSUME NEW i \in 1..n, NEW j \in i..n PROVE request_timestamps[i] <= request_timestamps[j]
    <3>1. j \in 1..n /\ m + i \in 1..k /\ m + j \in 1..k /\ m + i <= m + j
      BY <2>1
    <3> QED BY <2>1, <3>1
  <2>5. Cardinality(W) = n
    BY <2>3
  <2> QED BY <2>1, <2>4, <2>5 DEF TimestampsSpanWindow
<1> QED BY <1>1, MetricsInvariance, PTL

(* Each percentile of a report has the rank its name says among the        *)
(* latencies that were read in one section under the mutex.                *)
THEOREM PercentilesRanked == MetricsSpec => []PercentilesHaveRank
<1>1. MetricsInv => PercentilesHaveRank
  BY DEF MetricsInv
<1> QED BY <1>1, MetricsInvariance, PTL
=============================================================================
