-------------------------- MODULE MACLookupService --------------------------
(***************************************************************************)
(* MACLookupService (service/mac_lookup_service.cpp) over OUIDatabase      *)
(* (mac_database.cpp): request threads look up MAC addresses in a cache    *)
(* and, on a miss, in a read-only SQLite table, through ONE prepared       *)
(* statement that all threads share.  query_mutex_ is held from the reset  *)
(* of the statement until its columns have been copied.                    *)
(*                                                                         *)
(* The shards of the cache are one here: get and put touch one shard, and  *)
(* IPCache covers their interplay.                                         *)
(***************************************************************************)
EXTENDS CacheShard

CONSTANTS
    Threads,
    Upper,          \* toupper on the hexadecimal digits, its domain (isxdigit)
    MacDigits,      \* digits of an address (12) ...
    OuiDigits,      \* ... the first of which name the maker (6)
    Registry,       \* [OUIs -> manufacturers or Absent]: the table oui_registry
    MayFail,        \* TRUE: SQLite or the JSON library may report errors
    MaxTime         \* bound on the clock

Absent    == "absent"
Nothing   == "nothing"      \* no row, no owner, no answer
NoText    == <<>>           \* no key
Unbound   == {}             \* what an SQL NULL equals

ASSUME MayFailAssumption == MayFail \in BOOLEAN
ASSUME TablesAssumption  == Keys \subseteq Seq(STRING) /\ MaxTime \in Nat
ASSUME FormatAssumption  == NoText \notin Keys     \* the handlers check isValidMacFormat
ASSUME ThreadsAssumption == Nothing \notin Threads
ASSUME DigitsAssumption  == MacDigits \in Nat /\ OuiDigits \in 1..MacDigits

VARIABLES
    call,           \* thread -> its call of lookup: where it is, mac_address, result
    shard,          \* cache_
    stmt,           \* lookup_stmt_: what its parameter equals, and the current row
    query_mutex,    \* the thread that holds query_mutex_, or Nothing
    now,            \* system_clock::now()
    told            \* thread -> data of the LookupResult it returned last

vars == <<call, shard, stmt, query_mutex, now, told>>

(* An address is a sequence of characters; its digits in upper case.       *)
normalize_mac_address(k) ==
    LET digits == SelectSeq(k, LAMBDA c : c \in DOMAIN Upper)
    IN  [i \in DOMAIN digits |-> Upper[digits[i]]]

(* The colons that join the pairs of digits are left out, here and in the  *)
(* table.                                                                  *)
extract_oui(k) == SubSeq(normalize_mac_address(k), 1, OuiDigits)

Malformed(k) == Len(normalize_mac_address(k)) # MacDigits

Record(k, maker) == [mac |-> k, oui |-> extract_oui(k), manufacturer |-> maker]

NoResult == [mac |-> NoText, oui |-> NoText, manufacturer |-> Nothing]

Error == [NoResult EXCEPT !.manufacturer = "error"]   \* a result with an "error" member

NoCall == [pc |-> "idle", key |-> NoText, result |-> NoResult]

Init ==
    /\ call = [t \in Threads |-> NoCall]
    /\ shard = EmptyShard
    /\ stmt = [bound |-> Unbound, row |-> Nothing]
    /\ query_mutex = Nothing
    /\ now = 0
    /\ told = [t \in Threads |-> NoResult]

-----------------------------------------------------------------------------
At(t, pc) == call[t].pc = pc

Goto(t, pc) == call' = [call EXCEPT ![t].pc = pc]

GotoWith(t, pc, r) == call' = [call EXCEPT ![t].pc = pc, ![t].result = r]

(* A handler calls lookup(k).                                              *)
Call(t, k) ==
    /\ At(t, "idle")
    /\ call' = [call EXCEPT ![t] = [NoCall EXCEPT !.pc = "get", !.key = k]]
    /\ told' = [told EXCEPT ![t] = NoResult]
    /\ UNCHANGED <<shard, stmt, query_mutex, now>>

(* cache_.get: on a hit the cached value is the answer, on a miss the      *)
(* database is asked; a malformed address is an error before any query.    *)
CacheGet(t) ==
    LET k == call[t].key
    IN  /\ At(t, "get")
        /\ shard' = Uncounted(AfterGet(shard, k, now))
        /\ \/ IsHit(shard, k, now) /\ GotoWith(t, "return", shard.map[k].result)
           \/ ~ IsHit(shard, k, now) /\ Malformed(k) /\ GotoWith(t, "put", Error)
           \/ ~ IsHit(shard, k, now) /\ ~ Malformed(k) /\ Goto(t, "lock")
        /\ UNCHANGED <<stmt, query_mutex, now, told>>

(* Seeded error: the statement is used without the mutex.                  *)
NotAwaited == TRUE

MutexFree == query_mutex = Nothing

(* OUIDatabase::lookup: scoped_lock lock(query_mutex_)                     *)
Lock(t) ==
    /\ At(t, "lock")
    /\ MutexFree
    /\ query_mutex' = t
    /\ Goto(t, "bind")
    /\ UNCHANGED <<shard, stmt, now, told>>

Unlock(t) == query_mutex' = Nothing

(* The database call ends with an error result and releases the mutex.     *)
QueryFails(t) == MayFail /\ GotoWith(t, "put", Error) /\ Unlock(t)

(* Seeded error: the status of the bind is not looked at.                  *)
BindIgnored(t) == MayFail /\ Goto(t, "step") /\ UNCHANGED query_mutex

BindFails(t) == QueryFails(t)

(* sqlite3_reset, sqlite3_clear_bindings, sqlite3_bind_text.  A failed     *)
(* bind leaves the statement reset and unbound.                            *)
Bind(t) ==
    /\ At(t, "bind")
    /\ \/ /\ stmt' = [bound |-> {extract_oui(call[t].key)}, row |-> Nothing]
          /\ Goto(t, "step")
          /\ UNCHANGED query_mutex
       \/ /\ stmt' = [bound |-> Unbound, row |-> Nothing]
          /\ BindFails(t)
    /\ UNCHANGED <<shard, now, told>>

(* SELECT ... WHERE oui = ?: the row of the bound OUI, if there is one.    *)
Selected == IF stmt.bound = Unbound THEN {Absent} ELSE {Registry[oui] : oui \in stmt.bound}

(* sqlite3_step                                                            *)
Step(t) ==
    /\ At(t, "step")
    /\ \/ /\ \E row \in Selected : stmt' = [stmt EXCEPT !.row = row]
          /\ Goto(t, "read")
          /\ UNCHANGED query_mutex
       \/ QueryFails(t) /\ UNCHANGED stmt
    /\ UNCHANGED <<shard, now, told>>

(* sqlite3_column_text of the current row (SQLITE_ROW), or a result that   *)
(* says not found (SQLITE_DONE); then the mutex is released.               *)
Read(t) ==
    /\ At(t, "read")
    /\ GotoWith(t, "put", Record(call[t].key, stmt.row))
    /\ Unlock(t)
    /\ UNCHANGED <<shard, stmt, now, told>>

(* Seeded error: a negative answer is kept as long as a record.            *)
AlwaysRecord(r) == "MAC_OUI"

DataTypeOf(r) == IF r.manufacturer = Absent THEN "NEGATIVE" ELSE "MAC_OUI"

(* Back in MACLookupService::lookup: errors are not cached, a record and a *)
(* negative answer are, each with its own time to live.  cache_.put may    *)
(* throw before it changes anything (the result does not serialise).       *)
CachePut(t) ==
    LET r == call[t].result
    IN  /\ At(t, "put")
        /\ \/ r = Error /\ Goto(t, "return") /\ UNCHANGED shard
           \/ /\ r # Error
              /\ shard' = Uncounted(AfterPut(shard, call[t].key, r, DataTypeOf(r), now))
              /\ Goto(t, "return")
           \/ r # Error /\ MayFail /\ GotoWith(t, "return", Error) /\ UNCHANGED shard
        /\ UNCHANGED <<stmt, query_mutex, now, told>>

Return(t) ==
    /\ At(t, "return")
    /\ told' = [told EXCEPT ![t] = call[t].result]
    /\ call' = [call EXCEPT ![t] = NoCall]
    /\ UNCHANGED <<shard, stmt, query_mutex, now>>

Tick ==
    /\ now < MaxTime
    /\ now' = now + 1
    /\ UNCHANGED <<call, shard, stmt, query_mutex, told>>

Work(t) ==
    CacheGet(t) \/ Lock(t) \/ Bind(t) \/ Step(t) \/ Read(t) \/ CachePut(t) \/ Return(t)

Next ==
    \/ \E t \in Threads : Work(t) \/ \E k \in Keys : Call(t, k)
    \/ Tick

(* A thread that can run is run; a mutex that is released again and again  *)
(* is not withheld from one waiter for ever.                               *)
Fairness == \A t \in Threads : WF_vars(Work(t)) /\ SF_vars(Lock(t))

Spec == Init /\ [][Next]_vars /\ Fairness

-----------------------------------------------------------------------------
Truth(k) == IF Malformed(k) THEN Error ELSE Record(k, Registry[extract_oui(k)])

(* What is cached under a key is what the registry has for that key, never *)
(* an error ("Don't cache errors as negatives"), and only a negative       *)
(* answer gets the short time to live.                                     *)
CacheHoldsTruth ==
    \A k \in DOMAIN shard.map :
        /\ shard.map[k].result = Truth(k)
        /\ Truth(k) # Error
        /\ shard.map[k].type = IF Truth(k).manufacturer = Absent THEN "NEGATIVE" ELSE "MAC_OUI"

(* The threads between Lock and Read are at most one, and it holds         *)
(* query_mutex_: no thread rebinds the shared statement under another.     *)
Querying(t) == call[t].pc \in {"bind", "step", "read"}

StatementExclusive ==
    \A t \in Threads : Querying(t) =>
        /\ query_mutex = t
        /\ At(t, "step") => stmt.bound = {extract_oui(call[t].key)}
        /\ At(t, "read") => stmt.row = Registry[extract_oui(call[t].key)]

(* The service implements the cacheless, sequential specification: every   *)
(* lookup answers, with the record on file for its own key or with an      *)
(* error the database is allowed to report.                                *)
Abstract == INSTANCE LookupSpec WITH
    Answers  <- [k \in Keys |-> {Truth(k)} \cup IF MayFail THEN {Error} ELSE {}],
    NoKey    <- NoText,
    NoAnswer <- NoResult,
    asked    <- [t \in Threads |-> call[t].key]

ImplementsLookup == Abstract!Spec
=============================================================================
