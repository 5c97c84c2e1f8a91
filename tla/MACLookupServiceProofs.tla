----------------------- MODULE MACLookupServiceProofs -----------------------
(***************************************************************************)
(* The MAC lookup, for any registry, any addresses and any number of       *)
(* request threads: the cache holds only what the registry has, the shared *)
(* statement is used by one thread at a time, and the service implements   *)
(* the cacheless specification LookupSpec.                                 *)
(***************************************************************************)
EXTENDS MACLookupService, CacheShardProofs

Places == {"idle", "get", "lock", "bind", "step", "read", "put", "return"}

(* What a lookup of k may answer.                                          *)
AnswersTo(k) == {Truth(k)} \cup IF MayFail THEN {Error} ELSE {}

(* A thread has a key exactly while it is in a lookup, asks the database   *)
(* only for a well-formed address, and carries an answer to its own key.   *)
CallOK(c) ==
    /\ c = [pc |-> c.pc, key |-> c.key, result |-> c.result]
    /\ c.pc \in Places
    /\ c.pc = "idle" => c.key = NoText
    /\ c.pc # "idle" => c.key \in Keys
    /\ c.pc \in {"lock", "bind", "step", "read"} => ~ Malformed(c.key)
    /\ c.pc \in {"put", "return"} => c.result \in AnswersTo(c.key)

CallsOK ==
    /\ call = [t \in Threads |-> call[t]]
    /\ \A t \in Threads : CallOK(call[t])

MacInv ==
    /\ CallsOK
    /\ told = [t \in Threads |-> told[t]]
    /\ stmt = [bound |-> stmt.bound, row |-> stmt.row]
    /\ Shaped(shard, Keys)
    /\ CacheHoldsTruth
    /\ StatementExclusive

-----------------------------------------------------------------------------
LEMMA RecordNoError == ASSUME NEW k \in Keys, NEW m PROVE Record(k, m) # Error
<1>1. Record(k, m).mac = k /\ Error.mac = NoText
  BY DEF Record, Error, NoResult
<1> QED BY <1>1, FormatAssumption

LEMMA TruthOfKey ==
    ASSUME NEW k \in Keys
    PROVE  /\ Malformed(k) => Truth(k) = Error
           /\ ~ Malformed(k) => Truth(k) = Record(k, Registry[extract_oui(k)])
           /\ Malformed(k) <=> Truth(k) = Error
  BY RecordNoError DEF Truth

(* A step of thread t leaves the other threads where they are.             *)
OthersStay(t) ==
    /\ call' = [u \in Threads |-> call'[u]]
    /\ \A u \in Threads \ {t} : call'[u] = call[u]

(* A thread moves on, with a result or with the one it has.                *)
Moved(t, pc, r) ==
    /\ OthersStay(t)
    /\ call'[t] = [pc |-> pc, key |-> call[t].key, result |-> r]

LEMMA GotoMoves ==
    ASSUME CallsOK, NEW t \in Threads, NEW pc, Goto(t, pc)
    PROVE  Moved(t, pc, call[t].result)
  BY DEF CallsOK, CallOK, Goto, Moved, OthersStay

LEMMA GotoWithMoves ==
    ASSUME CallsOK, NEW t \in Threads, NEW pc, NEW r, GotoWith(t, pc, r)
    PROVE  Moved(t, pc, r)
<1>1. /\ call = [u \in Threads |-> call[u]]
      /\ call[t] = [pc |-> call[t].pc, key |-> call[t].key, result |-> call[t].result]
  BY DEF CallsOK, CallOK
<1> QED BY <1>1 DEF GotoWith, Moved, OthersStay

LEMMA InitMacInv == Init => MacInv
<1> SUFFICES ASSUME Init PROVE MacInv
  OBVIOUS
<1>1. CallsOK
  BY DEF Init, CallsOK, CallOK, NoCall, Places
<1>2. Shaped(shard, Keys) /\ DOMAIN shard.map = {}
  BY EmptyShaped DEF Init, EmptyShard
<1>3. CacheHoldsTruth
  BY <1>2 DEF CacheHoldsTruth
<1>4. StatementExclusive
  BY DEF Init, NoCall, StatementExclusive, Querying
<1> QED BY <1>1, <1>2, <1>3, <1>4 DEF MacInv, Init

-----------------------------------------------------------------------------
(* The calls and the statement, of any step of one thread.                 *)
LEMMA OthersQuery ==
    ASSUME MacInv, NEW t \in Threads, NEW u \in Threads, u # t, call'[u] = call[u],
           query_mutex = t \/ (stmt' = stmt /\ query_mutex' = query_mutex)
                           \/ (stmt' = stmt /\ query_mutex = Nothing)
    PROVE  Querying(u)' =>
             /\ query_mutex' = u
             /\ At(u, "step")' => stmt'.bound = {extract_oui(call'[u].key)}
             /\ At(u, "read")' => stmt'.row = Registry[extract_oui(call'[u].key)]
<1>1. ASSUME Querying(u)'
      PROVE  /\ query_mutex = u /\ stmt' = stmt /\ query_mutex' = u
             /\ At(u, "step") => stmt.bound = {extract_oui(call[u].key)}
             /\ At(u, "read") => stmt.row = Registry[extract_oui(call[u].key)]
  BY <1>1, ThreadsAssumption DEF MacInv, StatementExclusive, Querying
<1> QED BY <1>1 DEF At

(* The cache after a get: it forgets at most.                              *)
LEMMA GetHoldsTruth ==
    ASSUME Shaped(shard, Keys), CacheHoldsTruth, NEW k \in Keys,
           shard' = Uncounted(AfterGet(shard, k, now))
    PROVE  Shaped(shard', Keys) /\ CacheHoldsTruth'
<1> DEFINE n == AfterGet(shard, k, now)
<1>1. Shaped(n, Keys) /\ FewerEntries(n, shard)
  BY GetShaped
<1> HIDE DEF n
<1>2. Shaped(shard', Keys) /\ shard'.map = n.map
  BY <1>1, UncountedShaped DEF n
<1> QED BY <1>1, <1>2 DEF FewerEntries, CacheHoldsTruth

(* The cache after a put of the truth.                                     *)
LEMMA PutHoldsTruth ==
    ASSUME Shaped(shard, Keys), CacheHoldsTruth, NEW k \in Keys, Truth(k) # Error,
           shard' = Uncounted(AfterPut(shard, k, Truth(k), DataTypeOf(Truth(k)), now))
    PROVE  Shaped(shard', Keys) /\ CacheHoldsTruth'
<1> DEFINE e == NewEntry(Truth(k), DataTypeOf(Truth(k)), now)
           n == AfterPut(shard, k, Truth(k), DataTypeOf(Truth(k)), now)
<1>1. Shaped(n, Keys) /\ PutEntry(n, shard, k, e)
  BY PutShaped
<1>2. e.result = Truth(k) /\ e.type = DataTypeOf(Truth(k))
  BY DEF NewEntry
<1> HIDE DEF n, e
<1>3. Shaped(shard', Keys) /\ shard'.map = n.map
  BY <1>1, UncountedShaped DEF n
<1>4. ASSUME NEW x \in DOMAIN n.map
      PROVE  /\ n.map[x].result = Truth(x) /\ Truth(x) # Error
             /\ n.map[x].type = DataTypeOf(Truth(x))
  <2>1. CASE x = k
    BY <1>1, <1>2, <2>1 DEF PutEntry
  <2>2. CASE x # k
    BY <1>1, <1>4, <2>2 DEF PutEntry, CacheHoldsTruth, DataTypeOf
  <2> QED BY <2>1, <2>2
<1> QED BY <1>3, <1>4 DEF CacheHoldsTruth, DataTypeOf

-----------------------------------------------------------------------------
(* A step of thread t keeps the invariant, if it does so for the call of   *)
(* that thread, for the cache and for the statement as others see it.      *)
LEMMA ThreadMoves ==
    ASSUME MacInv, NEW t \in Threads,
           OthersStay(t), CallOK(call'[t]),
           told' = [u \in Threads |-> told'[u]],
           stmt' = [bound |-> stmt'.bound, row |-> stmt'.row],
           Shaped(shard', Keys), CacheHoldsTruth',
           query_mutex = t \/ (stmt' = stmt /\ query_mutex' = query_mutex)
                           \/ (stmt' = stmt /\ query_mutex = Nothing),
           Querying(t)' =>
             /\ query_mutex' = t
             /\ At(t, "step")' => stmt'.bound = {extract_oui(call'[t].key)}
             /\ At(t, "read")' => stmt'.row = Registry[extract_oui(call'[t].key)]
    PROVE  MacInv'
<1>1. CallsOK'
  BY DEF MacInv, CallsOK, OthersStay
<1>2. StatementExclusive'
  <2> SUFFICES ASSUME NEW u \in Threads, Querying(u)'
               PROVE  /\ query_mutex' = u
                      /\ At(u, "step")' => stmt'.bound = {extract_oui(call'[u].key)}
                      /\ At(u, "read")' => stmt'.row = Registry[extract_oui(call'[u].key)]
    BY DEF StatementExclusive, At
  <2>1. CASE u = t
    BY <2>1
  <2>2. CASE u # t
    BY <2>2, OthersQuery DEF OthersStay
  <2> QED BY <2>1, <2>2
<1> QED BY <1>1, <1>2 DEF MacInv

(* The parts of the invariant that most steps leave alone.                 *)
LEMMA Untouched ==
    ASSUME MacInv
    PROVE  /\ UNCHANGED told => told' = [u \in Threads |-> told'[u]]
           /\ UNCHANGED stmt => stmt' = [bound |-> stmt'.bound, row |-> stmt'.row]
           /\ UNCHANGED shard => Shaped(shard', Keys) /\ CacheHoldsTruth'
  BY DEF MacInv, CacheHoldsTruth

LEMMA CallKeeps == ASSUME MacInv, NEW t \in Threads, NEW k \in Keys, Call(t, k) PROVE MacInv'
<1>1. OthersStay(t) /\ call'[t] = [pc |-> "get", key |-> k, result |-> NoResult]
  BY DEF MacInv, CallsOK, Call, NoCall, OthersStay
<1>2. CallOK(call'[t]) /\ ~ Querying(t)'
  BY <1>1 DEF CallOK, Places, Querying
<1>3. told' = [u \in Threads |-> told'[u]]
  BY DEF MacInv, Call
<1>4. UNCHANGED <<shard, stmt, query_mutex>>
  BY DEF Call
<1> QED BY <1>1, <1>2, <1>3, <1>4, Untouched, ThreadMoves

LEMMA CacheGetKeeps == ASSUME MacInv, NEW t \in Threads, CacheGet(t) PROVE MacInv'
<1> DEFINE k == call[t].key
<1>1. k \in Keys /\ CallsOK
  BY DEF MacInv, CallsOK, CallOK, CacheGet, At
<1>2. Shaped(shard', Keys) /\ CacheHoldsTruth'
  BY <1>1, GetHoldsTruth DEF MacInv, CacheGet
<1>3. OthersStay(t) /\ CallOK(call'[t]) /\ ~ Querying(t)'
  <2>1. CASE IsHit(shard, k, now) /\ GotoWith(t, "return", shard.map[k].result)
    <3>1. shard.map[k].result = Truth(k)
      BY <2>1 DEF MacInv, CacheHoldsTruth, IsHit
    <3>2. Moved(t, "return", Truth(k))
      BY <1>1, <2>1, <3>1, GotoWithMoves
    <3> QED BY <1>1, <3>2 DEF Moved, CallOK, Places, Querying, AnswersTo
  <2>2. CASE Malformed(k) /\ GotoWith(t, "put", Error)
    <3>1. Moved(t, "put", Error)
      BY <1>1, <2>2, GotoWithMoves
    <3>2. Error \in AnswersTo(k)
      BY <1>1, <2>2, TruthOfKey DEF AnswersTo
    <3> QED BY <1>1, <3>1, <3>2 DEF Moved, CallOK, Places, Querying
  <2>3. CASE ~ Malformed(k) /\ Goto(t, "lock")
    <3>1. Moved(t, "lock", call[t].result)
      BY <1>1, <2>3, GotoMoves
    <3> QED BY <1>1, <2>3, <3>1 DEF Moved, CallOK, Places, Querying
  <2> QED BY <2>1, <2>2, <2>3 DEF CacheGet
<1>4. UNCHANGED <<stmt, query_mutex, told>>
  BY DEF CacheGet
<1> QED BY <1>2, <1>3, <1>4, Untouched, ThreadMoves

LEMMA LockKeeps == ASSUME MacInv, NEW t \in Threads, Lock(t) PROVE MacInv'
<1>1. CallOK(call[t]) /\ call[t].pc = "lock" /\ CallsOK
  BY DEF MacInv, CallsOK, Lock, At
<1>2. Moved(t, "bind", call[t].result)
  BY <1>1, GotoMoves DEF Lock
<1>3. OthersStay(t) /\ CallOK(call'[t]) /\ ~ At(t, "step")' /\ ~ At(t, "read")'
  BY <1>1, <1>2 DEF Moved, CallOK, Places, At
<1>4. UNCHANGED <<shard, stmt, told>> /\ query_mutex = Nothing /\ query_mutex' = t
  BY DEF Lock, MutexFree
<1> QED BY <1>3, <1>4, Untouched, ThreadMoves

(* A query that fails answers with an error and gives the mutex back.      *)
LEMMA Fails ==
    ASSUME MacInv, NEW t \in Threads, Querying(t), QueryFails(t)
    PROVE  OthersStay(t) /\ CallOK(call'[t]) /\ ~ Querying(t)'
<1>1. CallsOK /\ MayFail /\ GotoWith(t, "put", Error)
  BY DEF MacInv, QueryFails
<1>2. call[t].key \in Keys
  BY <1>1 DEF CallsOK, CallOK, Querying
<1>3. Moved(t, "put", Error)
  BY <1>1, GotoWithMoves
<1> QED BY <1>1, <1>2, <1>3 DEF Moved, CallOK, Places, AnswersTo, Querying

LEMMA BindKeeps == ASSUME MacInv, NEW t \in Threads, Bind(t) PROVE MacInv'
<1>1. CallOK(call[t]) /\ CallsOK /\ call[t].pc = "bind"
  BY DEF MacInv, CallsOK, Bind, At
<1>2. query_mutex = t /\ Querying(t)
  BY <1>1 DEF MacInv, StatementExclusive, Querying
<1>3. UNCHANGED <<shard, told>>
  BY DEF Bind
<1>4. CASE /\ stmt' = [bound |-> {extract_oui(call[t].key)}, row |-> Nothing]
           /\ Goto(t, "step") /\ UNCHANGED query_mutex
  <2>1. Moved(t, "step", call[t].result)
    BY <1>1, <1>4, GotoMoves
  <2>2. OthersStay(t) /\ CallOK(call'[t]) /\ ~ At(t, "read")'
    BY <1>1, <2>1 DEF Moved, CallOK, Places, At
  <2>3. /\ stmt' = [bound |-> stmt'.bound, row |-> stmt'.row] /\ query_mutex' = t
        /\ stmt'.bound = {extract_oui(call'[t].key)}
    BY <1>2, <1>4, <2>1 DEF Moved
  <2> QED BY <1>2, <1>3, <2>2, <2>3, Untouched, ThreadMoves
<1>5. CASE stmt' = [bound |-> Unbound, row |-> Nothing] /\ BindFails(t)
  <2>1. stmt' = [bound |-> stmt'.bound, row |-> stmt'.row] /\ QueryFails(t)
    BY <1>5 DEF BindFails
  <2> QED BY <1>2, <1>3, <2>1, Fails, Untouched, ThreadMoves
<1> QED BY <1>4, <1>5 DEF Bind

LEMMA StepKeeps == ASSUME MacInv, NEW t \in Threads, Step(t) PROVE MacInv'
<1>1. CallOK(call[t]) /\ CallsOK /\ call[t].pc = "step"
  BY DEF MacInv, CallsOK, Step, At
<1>2. query_mutex = t /\ Querying(t) /\ stmt.bound = {extract_oui(call[t].key)}
  BY <1>1 DEF MacInv, StatementExclusive, Querying, At
<1>3. UNCHANGED <<shard, told>>
  BY DEF Step
<1>4. CASE /\ \E row \in Selected : stmt' = [stmt EXCEPT !.row = row]
           /\ Goto(t, "read") /\ UNCHANGED query_mutex
  <2>1. Moved(t, "read", call[t].result)
    BY <1>1, <1>4, GotoMoves
  <2>2. stmt' = [bound |-> stmt.bound, row |-> Registry[extract_oui(call[t].key)]]
    <3>1. Selected = {Registry[extract_oui(call[t].key)]}
      BY <1>2 DEF Selected, Unbound
    <3> QED BY <1>4, <3>1 DEF MacInv
  <2>3. OthersStay(t) /\ CallOK(call'[t]) /\ ~ At(t, "step")'
    BY <1>1, <2>1 DEF Moved, CallOK, Places, At
  <2>4. /\ stmt' = [bound |-> stmt'.bound, row |-> stmt'.row]
        /\ stmt'.row = Registry[extract_oui(call'[t].key)]
    BY <2>1, <2>2 DEF Moved
  <2>5. query_mutex' = t
    BY <1>2, <1>4
  <2> QED BY <1>2, <1>3, <2>3, <2>4, <2>5, Untouched, ThreadMoves
<1>5. CASE QueryFails(t) /\ UNCHANGED stmt
  BY <1>2, <1>3, <1>5, Fails, Untouched, ThreadMoves
<1> QED BY <1>4, <1>5 DEF Step

LEMMA ReadKeeps == ASSUME MacInv, NEW t \in Threads, Read(t) PROVE MacInv'
<1> DEFINE k == call[t].key
<1>1. CallOK(call[t]) /\ CallsOK /\ call[t].pc = "read"
  BY DEF MacInv, CallsOK, Read, At
<1>2. query_mutex = t /\ stmt.row = Registry[extract_oui(k)]
  BY <1>1 DEF MacInv, StatementExclusive, Querying, At
<1>3. k \in Keys /\ Record(k, stmt.row) = Truth(k)
  BY <1>1, <1>2, TruthOfKey DEF CallOK
<1>4. Moved(t, "put", Truth(k))
  BY <1>1, <1>3, GotoWithMoves DEF Read
<1>5. OthersStay(t) /\ CallOK(call'[t]) /\ ~ Querying(t)'
  BY <1>3, <1>4 DEF Moved, CallOK, Places, AnswersTo, Querying
<1>6. UNCHANGED <<shard, stmt, told>>
  BY DEF Read
<1> QED BY <1>2, <1>5, <1>6, Untouched, ThreadMoves

LEMMA CachePutKeeps == ASSUME MacInv, NEW t \in Threads, CachePut(t) PROVE MacInv'
<1> DEFINE k == call[t].key
           r == call[t].result
<1>1. CallsOK /\ k \in Keys /\ r \in AnswersTo(k)
  BY DEF MacInv, CallsOK, CallOK, CachePut, At
<1>2. Shaped(shard', Keys) /\ CacheHoldsTruth'
  <2>1. CASE UNCHANGED shard
    BY <2>1, Untouched
  <2>2. CASE r # Error /\ shard' = Uncounted(AfterPut(shard, k, r, DataTypeOf(r), now))
    <3>1. r = Truth(k)
      BY <1>1, <2>2 DEF AnswersTo
    <3> QED BY <1>1, <2>2, <3>1, PutHoldsTruth DEF MacInv
  <2> QED BY <2>1, <2>2 DEF CachePut
<1>3. OthersStay(t) /\ CallOK(call'[t]) /\ ~ Querying(t)'
  <2>1. CASE Goto(t, "return")
    <3>1. Moved(t, "return", r)
      BY <1>1, <2>1, GotoMoves
    <3> QED BY <1>1, <3>1 DEF Moved, CallOK, Places, Querying
  <2>2. CASE MayFail /\ GotoWith(t, "return", Error)
    <3>1. Moved(t, "return", Error)
      BY <1>1, <2>2, GotoWithMoves
    <3> QED BY <1>1, <2>2, <3>1 DEF Moved, CallOK, Places, Querying, AnswersTo
  <2> QED BY <2>1, <2>2 DEF CachePut
<1>4. UNCHANGED <<stmt, query_mutex, told>>
  BY DEF CachePut
<1> QED BY <1>2, <1>3, <1>4, Untouched, ThreadMoves

LEMMA ReturnKeeps == ASSUME MacInv, NEW t \in Threads, Return(t) PROVE MacInv'
<1>1. OthersStay(t) /\ call'[t] = NoCall
  BY DEF MacInv, CallsOK, Return, OthersStay
<1>2. CallOK(call'[t]) /\ ~ Querying(t)'
  BY <1>1 DEF CallOK, Places, Querying, NoCall
<1>3. told' = [u \in Threads |-> told'[u]] /\ UNCHANGED <<shard, stmt, query_mutex>>
  BY DEF MacInv, Return
<1> QED BY <1>1, <1>2, <1>3, Untouched, ThreadMoves

LEMMA StutterKeeps ==
    ASSUME MacInv, UNCHANGED <<call, shard, stmt, query_mutex, told>> PROVE MacInv'
  BY DEF MacInv, CallsOK, CacheHoldsTruth, StatementExclusive, Querying, At

LEMMA StepMacInv == MacInv /\ [Next]_vars => MacInv'
<1> SUFFICES ASSUME MacInv, [Next]_vars PROVE MacInv'
  OBVIOUS
<1>1. ASSUME NEW t \in Threads, Work(t) PROVE MacInv'
  BY <1>1, CacheGetKeeps, LockKeeps, BindKeeps, StepKeeps, ReadKeeps, CachePutKeeps,
     ReturnKeeps DEF Work
<1>2. ASSUME NEW t \in Threads, NEW k \in Keys, Call(t, k) PROVE MacInv'
  BY <1>2, CallKeeps
<1>3. CASE Tick \/ UNCHANGED vars
  BY <1>3, StutterKeeps DEF Tick, vars
<1> QED BY <1>1, <1>2, <1>3 DEF Next

(* The inductive invariant of the MAC service: where each lookup is and    *)
(* what it carries, who holds the statement, and what the cache holds.     *)
THEOREM MacInvariance == Spec => []MacInv
BY InitMacInv, StepMacInv, PTL DEF Spec

-----------------------------------------------------------------------------
(* The threads take turns at the prepared statement: query_mutex_ is held  *)
(* from the reset to the last column (OUIDatabase::lookup).                *)
THEOREM OneQueryAtATime == Spec => []StatementExclusive
<1>1. MacInv => StatementExclusive
  BY DEF MacInv
<1> QED BY <1>1, MacInvariance, PTL

(* Whatever was evicted, expired or raced, a cached answer is the one the  *)
(* registry gives, under its own key, and never an error.                  *)
THEOREM CacheTruthful == Spec => []CacheHoldsTruth
<1>1. MacInv => CacheHoldsTruth
  BY DEF MacInv
<1> QED BY <1>1, MacInvariance, PTL

(* The service with its cache, its shared statement and its errors shows   *)
(* its callers what the cacheless, sequential specification shows: every   *)
(* answer is one the database has for the key that was asked.              *)
THEOREM RefinesLookup == Spec => Abstract!Safety
<1>1. Init => Abstract!Init
  BY DEF Init, Abstract!Init, NoCall
<1>2. ASSUME MacInv, [Next]_vars PROVE [Abstract!Next]_(Abstract!vars)
  <2>1. ASSUME NEW t \in Threads, NEW k \in Keys, Call(t, k) PROVE Abstract!Next
    <3>1. Abstract!Ask(t, k)
      BY <1>2, <2>1 DEF Abstract!Ask, Call, MacInv, CallsOK, CallOK, At, NoCall
    <3> QED BY <3>1 DEF Abstract!Next
  <2>2. ASSUME NEW t \in Threads, Return(t) PROVE Abstract!Next
    <3> DEFINE k == call[t].key
    <3>1. k \in Keys /\ call[t].result \in AnswersTo(k)
      BY <1>2, <2>2 DEF Return, At, MacInv, CallsOK, CallOK
    <3>2. Abstract!Answer(t)
      BY <1>2, <2>2, <3>1, FormatAssumption
      DEF Abstract!Answer, Return, MacInv, CallsOK, NoCall, AnswersTo
    <3> QED BY <3>2 DEF Abstract!Next
  <2>3. ASSUME NEW t \in Threads, NEW pc, NEW r,
               Goto(t, pc) \/ GotoWith(t, pc, r), UNCHANGED told
        PROVE  UNCHANGED Abstract!vars
    <3>1. Moved(t, pc, call[t].result) \/ Moved(t, pc, r)
      BY <1>2, <2>3, GotoMoves, GotoWithMoves DEF MacInv
    <3>2. \A u \in Threads : call'[u].key = call[u].key
      BY <3>1 DEF Moved, OthersStay
    <3> QED BY <2>3, <3>2 DEF Abstract!vars
  <2>4. CASE UNCHANGED <<call, told>>
    BY <2>4 DEF Abstract!vars
  <2>5. ASSUME NEW t \in Threads, Work(t), ~ Return(t)
        PROVE  UNCHANGED told /\ \E pc, r : Goto(t, pc) \/ GotoWith(t, pc, r)
    BY <2>5 DEF Work, CacheGet, Lock, Bind, BindFails, Step, QueryFails, Read, CachePut
  <2> QED BY <1>2, <2>1, <2>2, <2>3, <2>4, <2>5 DEF Next, Tick, vars
<1> QED BY <1>1, <1>2, MacInvariance, PTL DEF Spec, Abstract!Safety
=============================================================================
