--------------------------- MODULE ServerLifecycle ---------------------------
(***************************************************************************)
(* From run_application (main.cpp) to the end of the process: the main     *)
(* thread, the thread that runs httplib's listen(), the request threads,   *)
(* the cleanup thread of the rate limiter, the signal handler, and the     *)
(* destructors that run when start() has returned                          *)
(* (http_server.cpp: start, start_server_and_wait, stop,                   *)
(* cleanup_thread_func).                                                   *)
(*                                                                         *)
(* Both condition variables are waited on with a timeout, so a waiting     *)
(* thread sees its condition sooner or later whether or not the            *)
(* notification reaches it: a wait is an action guarded by its condition.  *)
(***************************************************************************)
EXTENDS Naturals

CONSTANTS
    EnableRateLimiter,  \* enable_rate_limiter_
    PromptListen,       \* TRUE: listen() is accepting, or has returned, when
                        \* the grace period of 500 ms ends
    OthersStop,         \* TRUE: the owner of the server may call stop()
    MaxRequests         \* bound on requests being served at a time

ASSUME FlagsAssumption ==
    /\ EnableRateLimiter \in BOOLEAN
    /\ PromptListen \in BOOLEAN
    /\ OthersStop \in BOOLEAN
    /\ MaxRequests \in Nat

VARIABLES
    main,           \* where the main thread is
    signals,        \* disposition of SIGINT and SIGTERM: "default" or "handler"
    shutdown,       \* g_shutdown_requested
    handled,        \* history: handle_signal has run
    listener,       \* where the server thread is in httplib's listen()
    socket,         \* the listening socket is open (svr_sock_)
    running,        \* server_running, written when listen() returns
    requests,       \* requests accepted and not yet answered
    cleaner,        \* where the cleanup thread is
    stop_token,     \* a stop of the cleanup thread was requested
    objects,        \* what has been constructed and not yet destroyed
    result          \* the exit status the process ends with

signalling == <<signals, shutdown, handled>>
listening  == <<listener, socket, running>>
cleaning   == <<cleaner, stop_token>>
vars       == <<main, signalling, listening, requests, cleaning, objects, result>>

MainStates ==
    {"construct", "reset", "sigaction", "start", "listen", "grace", "wait", "stop",
     "join", "request_stop", "destroy_thread", "destroy_server", "destroy_mac",
     "destroy_services", "exit"}

ListenerStates ==
    {"none", "binding", "bound", "accepting", "closing", "failing", "returned", "joined"}

CleanerStates == {"none", "loop", "waiting", "woken", "cleanup", "ended", "joined"}

(* What is opened before: the two MaxMind files of geo_service in the      *)
(* order of its members, then the OUI database of mac_service and the      *)
(* statement prepared on it.                                               *)
Prior == [city |-> {}, asn |-> {"city"}, oui |-> {"city", "asn"},
          stmt |-> {"city", "asn", "oui"}]

Databases == {"city", "asn", "oui", "stmt"}

TypeOK ==
    /\ main \in MainStates
    /\ signals \in {"default", "handler"}
    /\ shutdown \in BOOLEAN
    /\ handled \in BOOLEAN
    /\ listener \in ListenerStates
    /\ socket \in BOOLEAN
    /\ running \in BOOLEAN
    /\ requests \in 0..MaxRequests
    /\ cleaner \in CleanerStates
    /\ stop_token \in BOOLEAN
    /\ objects \subseteq Databases \cup {"rate_limiter"}
    /\ result \in {"none", "success", "failure", "killed"}

Init ==
    /\ main = "construct"
    /\ signals = "default"
    /\ shutdown = FALSE
    /\ handled = FALSE
    /\ listener = "none"
    /\ socket = FALSE
    /\ running = TRUE
    /\ requests = 0
    /\ cleaner = "none"
    /\ stop_token = FALSE
    /\ objects = {}
    /\ result = "none"

-----------------------------------------------------------------------------
(* The main thread: run_application.                                       *)

(* Seeded error: the handler is installed before the flag is cleared.      *)
HandlerFirst == [construct |-> "sigaction", sigaction |-> "reset", reset |-> "start"]

(* The order of the steps of run_application before start().               *)
Boot == [construct |-> "reset", reset |-> "sigaction", sigaction |-> "start"]

(* Seeded error: OUIDatabase does not close its connection before it       *)
(* throws.                                                                 *)
LeftToDestructor == [o \in Databases |-> {}]

(* What the constructor that fails to open o closes itself: the destructor *)
(* of an object that was never constructed does not run.  OUIDatabase has  *)
(* a connection when its open or its statement fails.                      *)
ClosedOnFailure == [city |-> {}, asn |-> {}, oui |-> {"oui"}, stmt |-> {"oui"}]

(* sqlite3_open_v2 hands out a connection even if it fails.                *)
Handles == {"oui"}

(* A database constructor throws.  Unwinding destroys the members and      *)
(* services constructed before it, and main returns 1.                     *)
OpenFails(o) ==
    /\ objects' = (objects \cup ({o} \cap Handles)) \ ClosedOnFailure[o]
    /\ main' = "destroy_services"
    /\ result' = "failure"

OpenDatabase(o) ==
    /\ main = "construct"
    /\ objects = Prior[o]
    /\ \/ objects' = objects \cup {o} /\ UNCHANGED <<main, result>>
       \/ OpenFails(o)
    /\ UNCHANGED <<signalling, listening, requests, cleaning>>

(* The server reads its keys and creates the rate limiter; run_application *)
(* sets the handlers, which capture the services.                          *)
ConstructServer ==
    /\ main = "construct"
    /\ objects = Databases
    /\ \/ /\ main' = Boot.construct
          /\ objects' = Databases \cup IF EnableRateLimiter THEN {"rate_limiter"} ELSE {}
          /\ UNCHANGED result
       \/ main' = "destroy_mac" /\ result' = "failure" /\ UNCHANGED objects
    /\ UNCHANGED <<signalling, listening, requests, cleaning>>

ResetShutdown ==
    /\ main = "reset"
    /\ shutdown' = FALSE
    /\ main' = Boot.reset
    /\ UNCHANGED <<signals, handled, listening, requests, cleaning, objects, result>>

InstallHandlers ==
    /\ main = "sigaction"
    /\ signals' = "handler"
    /\ main' = Boot.sigaction
    /\ UNCHANGED <<shutdown, handled, listening, requests, cleaning, objects, result>>

(* start: the cleanup thread is created if the rate limiter is enabled.    *)
(* If the system has no thread left, the exception unwinds start().        *)
Start ==
    /\ main = "start"
    /\ \/ /\ cleaner' = IF EnableRateLimiter THEN "loop" ELSE "none"
          /\ main' = "listen"
          /\ UNCHANGED result
       \/ /\ EnableRateLimiter
          /\ main' = "destroy_thread"
          /\ result' = "failure"
          /\ UNCHANGED cleaner
    /\ UNCHANGED <<signalling, listening, requests, stop_token, objects>>

(* start_server_and_wait: server_running is true before listen() is called. *)
(* If the server thread cannot be created, start() is left without its     *)
(* request_stop(), which ~jthread then makes up for.                       *)
SpawnListener ==
    /\ main = "listen"
    /\ \/ /\ listener' = "binding"
          /\ running' = TRUE
          /\ main' = "grace"
          /\ UNCHANGED result
       \/ /\ main' = "request_stop"
          /\ result' = "failure"
          /\ UNCHANGED <<listener, running>>
    /\ UNCHANGED <<signalling, socket, requests, cleaning, objects>>

(* listen() failed within the grace period.                                *)
GraceFails ==
    /\ main = "grace"
    /\ ~ running
    /\ main' = "join"
    /\ UNCHANGED <<signalling, listening, requests, cleaning, objects, result>>

(* The grace period ends with server_running still true.                   *)
GraceEnds ==
    /\ main = "grace"
    /\ running
    /\ PromptListen => listener \notin {"binding", "bound"}
    /\ main' = "wait"
    /\ UNCHANGED <<signalling, listening, requests, cleaning, objects, result>>

(* Seeded errors: the loop looks at one of the two only.                   *)
WokenByListen == ~ running
WokenBySignal == shutdown

Woken == shutdown \/ ~ running

(* The loop that looks every 100 ms at shutdown_requested, server_running. *)
WaitEnds ==
    /\ main = "wait"
    /\ Woken
    /\ main' = "stop"
    /\ UNCHANGED <<signalling, listening, requests, cleaning, objects, result>>

(* httplib's Server::stop(): it closes the listening socket if listen() is *)
(* running its accept loop, and otherwise does nothing.                    *)
http_stop ==
    socket' = IF listener \in {"accepting", "closing", "failing"} THEN FALSE ELSE socket

StopServer ==
    /\ main = "stop"
    /\ http_stop
    /\ main' = "join"
    /\ UNCHANGED <<signalling, listener, running, requests, cleaning, objects, result>>

(* Seeded error: success is reported whenever a shutdown was requested.    *)
StatusOfShutdown == IF shutdown THEN "success" ELSE "failure"

ExitStatus == IF running THEN "success" ELSE "failure"

(* server_thread.join(), then the value of server_running is returned.     *)
Join ==
    /\ main = "join"
    /\ listener = "returned"
    /\ listener' = "joined"
    /\ result' = ExitStatus
    /\ main' = "request_stop"
    /\ UNCHANGED <<signalling, socket, running, requests, cleaning, objects>>

(* request_stop() on the cleanup thread: in start(), or in ~jthread.       *)
RequestStop ==
    /\ main = "request_stop"
    /\ stop_token' = IF EnableRateLimiter THEN TRUE ELSE stop_token
    /\ main' = "destroy_thread"
    /\ UNCHANGED <<signalling, listening, requests, cleaner, objects, result>>

(* Seeded error: the thread is detached instead of joined.                 *)
Detachable == TRUE

Joinable == cleaner \in {"none", "ended"}

(* ~IPGeoHTTPServer: cleanup_thread_ is its last member and joined first,  *)
(* then rate_limiter_ goes; the services are destroyed after the server.   *)
DestroyThread ==
    /\ main = "destroy_thread"
    /\ Joinable
    /\ cleaner' = IF cleaner = "ended" THEN "joined" ELSE cleaner
    /\ main' = "destroy_server"
    /\ UNCHANGED <<signalling, listening, requests, stop_token, objects, result>>

DestroyServer ==
    /\ main = "destroy_server"
    /\ objects' = objects \ {"rate_limiter"}
    /\ main' = "destroy_mac"
    /\ UNCHANGED <<signalling, listening, requests, cleaning, result>>

(* What each destructor closes: ~OUIDatabase, which runs only if the       *)
(* database was constructed, its statement and its connection; then the    *)
(* members of geo_service their files.                                     *)
Closes == [destroy_mac |-> {"oui", "stmt"}, destroy_services |-> {"city", "asn"}]

(* The destructors close in reverse: the statement is finalized before its *)
(* connection is closed.                                                   *)
CloseDatabase(o) ==
    /\ main \in DOMAIN Closes
    /\ o \in objects \cap Closes[main]
    /\ \A p \in objects \cap Closes[main] : o \notin Prior[p]
    /\ objects' = objects \ {o}
    /\ UNCHANGED <<main, signalling, listening, requests, cleaning, result>>

MACServiceDestroyed ==
    /\ main = "destroy_mac"
    /\ objects \cap Closes.destroy_mac = {}
    /\ main' = "destroy_services"
    /\ UNCHANGED <<signalling, listening, requests, cleaning, objects, result>>

ProcessEnds ==
    /\ main = "destroy_services"
    /\ objects \cap Closes.destroy_services = {}
    /\ main' = "exit"
    /\ UNCHANGED <<signalling, listening, requests, cleaning, objects, result>>

Main ==
    \/ \E o \in Databases : OpenDatabase(o) \/ CloseDatabase(o)
    \/ ConstructServer \/ ResetShutdown \/ InstallHandlers \/ Start \/ SpawnListener
    \/ GraceFails \/ GraceEnds \/ WaitEnds \/ StopServer \/ Join \/ RequestStop
    \/ DestroyThread \/ DestroyServer \/ MACServiceDestroyed \/ ProcessEnds

-----------------------------------------------------------------------------
(* The server thread: listen() binds, accepts until the socket is closed   *)
(* (true) or accept fails (false), drains its task queue and returns.      *)
Bind ==
    /\ listener = "binding"
    /\ \/ listener' = "bound" /\ socket' = TRUE /\ UNCHANGED running
       \/ listener' = "returned" /\ running' = FALSE /\ UNCHANGED socket
    /\ UNCHANGED <<main, signalling, requests, cleaning, objects, result>>

BeginAccepting ==
    /\ listener = "bound"
    /\ listener' = "accepting"
    /\ UNCHANGED <<main, signalling, socket, running, requests, cleaning, objects, result>>

SocketClosed ==
    /\ listener = "accepting"
    /\ ~ socket
    /\ listener' = "closing"
    /\ UNCHANGED <<main, signalling, socket, running, requests, cleaning, objects, result>>

AcceptFails ==
    /\ listener = "accepting"
    /\ socket
    /\ listener' = "failing"
    /\ socket' = FALSE
    /\ UNCHANGED <<main, signalling, running, requests, cleaning, objects, result>>

(* The task queue is shut down once its requests are answered; the value   *)
(* of listen() is stored in server_running.                                *)
ListenReturns ==
    /\ listener \in {"closing", "failing"}
    /\ requests = 0
    /\ listener' = "returned"
    /\ running' = (listener = "closing")
    /\ UNCHANGED <<main, signalling, socket, requests, cleaning, objects, result>>

(* The request threads.  A request uses the rate limiter and the services. *)
Accept ==
    /\ listener = "accepting"
    /\ socket
    /\ requests < MaxRequests
    /\ requests' = requests + 1
    /\ UNCHANGED <<main, signalling, listening, cleaning, objects, result>>

AnswerRequest ==
    /\ requests > 0
    /\ requests' = requests - 1
    /\ UNCHANGED <<main, signalling, listening, cleaning, objects, result>>

-----------------------------------------------------------------------------
(* The cleanup thread looks at its stop token, sleeps until 300 s have     *)
(* passed or a stop is requested, looks again, and calls cleanup().        *)
CleanerLoop ==
    /\ cleaner = "loop"
    /\ cleaner' = IF stop_token THEN "ended" ELSE "waiting"
    /\ UNCHANGED <<main, signalling, listening, requests, stop_token, objects, result>>

CleanerWakes ==
    /\ cleaner = "waiting"
    /\ cleaner' = "woken"
    /\ UNCHANGED <<main, signalling, listening, requests, stop_token, objects, result>>

CleanerChecks ==
    /\ cleaner = "woken"
    /\ cleaner' = IF stop_token THEN "loop" ELSE "cleanup"
    /\ UNCHANGED <<main, signalling, listening, requests, stop_token, objects, result>>

CleanupDone ==
    /\ cleaner = "cleanup"
    /\ cleaner' = "loop"
    /\ UNCHANGED <<main, signalling, listening, requests, stop_token, objects, result>>

Cleaner == CleanerLoop \/ CleanerWakes \/ CleanerChecks \/ CleanupDone

-----------------------------------------------------------------------------
(* SIGINT or SIGTERM: by default it ends the process, handle_signal sets   *)
(* the flag (and logs, the first time).                                    *)
Signal ==
    /\ main # "exit"
    /\ \/ /\ signals = "default"
          /\ main' = "exit"
          /\ result' = "killed"
          /\ UNCHANGED <<shutdown, handled>>
       \/ /\ signals = "handler"
          /\ shutdown' = TRUE
          /\ handled' = TRUE
          /\ UNCHANGED <<main, result>>
    /\ UNCHANGED <<signals, listening, requests, cleaning, objects>>

(* IPGeoHTTPServer::stop, called by an owner while start() has not ended.  *)
stop ==
    /\ OthersStop
    /\ main \in {"grace", "wait", "stop", "join"}
    /\ http_stop
    /\ UNCHANGED <<main, signalling, listener, running, requests, cleaning, objects, result>>

Ended ==
    /\ main = "exit"
    /\ UNCHANGED vars

Next ==
    \/ Main
    \/ Bind \/ BeginAccepting \/ SocketClosed \/ AcceptFails \/ ListenReturns
    \/ Accept \/ AnswerRequest
    \/ Cleaner
    \/ Signal \/ stop \/ Ended

(* Threads that can run are run, timed waits end, and a request that was   *)
(* accepted is answered.  Nothing has to arrive or to fail.                *)
Fairness ==
    /\ WF_vars(Main)
    /\ WF_vars(Bind) /\ WF_vars(BeginAccepting) /\ WF_vars(SocketClosed)
    /\ WF_vars(ListenReturns)
    /\ WF_vars(AnswerRequest)
    /\ WF_vars(Cleaner)

Spec == Init /\ [][Next]_vars /\ Fairness

-----------------------------------------------------------------------------
(* No thread touches what has been destroyed: the handlers run by request  *)
(* threads capture the services by reference and use the rate limiter, the *)
(* cleanup thread calls rate_limiter_->cleanup(); and a prepared statement *)
(* never outlives its connection.                                          *)
NoUseAfterDestruction ==
    /\ requests > 0 => Databases \subseteq objects
    /\ requests > 0 /\ EnableRateLimiter => "rate_limiter" \in objects
    /\ cleaner = "cleanup" => "rate_limiter" \in objects
    /\ "stmt" \in objects => "oui" \in objects

(* When the process ends, no thread is left unjoined (~thread would call   *)
(* std::terminate), and when it ends by itself no database is open and no  *)
(* rate limiter left, however far construction and start() had come: a     *)
(* constructor that throws has closed what its destructor would have.      *)
NothingLeftBehind ==
    /\ main = "exit" => listener \in {"none", "joined"} /\ cleaner \in {"none", "joined"}
    /\ main = "exit" /\ result # "killed" => objects = {}

(* A signal that reached handle_signal is never forgotten: run_application *)
(* clears the flag before it installs the handler, and nothing clears it   *)
(* afterwards.                                                             *)
SignalRemembered == handled => shutdown

(* The process ends with success only after a signal asked it to stop and  *)
(* listen() did not fail: start() returns the value of listen(), also when *)
(* it failed after the grace period.                                       *)
ExitStatusTruthful ==
    main = "exit" /\ result = "success" => handled /\ running

(* After a handled signal the process shuts down in good order: requests   *)
(* are answered, threads joined, and it ends (README: graceful shutdown).  *)
ShutdownCompletes == handled ~> main = "exit"

(* A listen() that failed, at once or after hours, ends the process with   *)
(* status 1.                                                               *)
FailureEnds == ~ running ~> main = "exit" /\ result = "failure"
==============================================================================
