---------------------------- MODULE IPGeoService ----------------------------
(***************************************************************************)
(* IPGeoService (service/ip_geo_service.cpp) over CityDatabase and         *)
(* ASNDatabase (database/): request threads look up IP addresses in a      *)
(* cache and, on a miss, in two memory-mapped MaxMind files whose answers  *)
(* are merged.                                                             *)
(*                                                                         *)
(* The files are read only and no lock guards them, so the two reads of a  *)
(* lookup are one step.  Between the miss and the put other threads get,   *)
(* put and evict.  The cache is one shard here; IPCache has many.          *)
(***************************************************************************)
EXTENDS CacheShard

CONSTANTS
    Threads,
    CityDB,         \* [Keys -> Lookups]: what libmaxminddb says of an address
    ASNDB,          \* the same, of the other file
    MayThrow,       \* TRUE: the JSON library may throw (text that is not UTF-8)
    MaxTime         \* bound on the clock

(* MMDB_lookup_string: getaddrinfo failed, the tree could not be read (an  *)
(* IPv6 address in an IPv4 file, say), no entry, an entry.                 *)
Lookups == {"gai_error", "mmdb_error", "no entry", "entry"}

NoKey == "no key"

ASSUME FilesAssumption ==
    /\ NoKey \notin Keys      \* the handlers check isValidIpFormat
    /\ CityDB \in [Keys -> Lookups]
    /\ ASNDB \in [Keys -> Lookups]
    /\ MayThrow \in BOOLEAN
    /\ MaxTime \in Nat

VARIABLES
    call,           \* thread -> its call of lookup: where it is, ip_address, result
    shard,          \* cache_
    now,            \* system_clock::now()
    told            \* thread -> data of the LookupResult it returned last

vars == <<call, shard, now, told>>

(* A result: the members the city file and the AS file contributed, and    *)
(* whether it has an "error" member.                                       *)
Result(k, city, asn) == [ip |-> k, city |-> city, asn |-> asn, error |-> FALSE]

NoResult == Result(NoKey, FALSE, FALSE)

Failed(k) == [Result(k, FALSE, FALSE) EXCEPT !.error = TRUE]

Found(r) == r.city \/ r.asn

NoCall == [pc |-> "idle", key |-> NoKey, result |-> NoResult]

Init ==
    /\ call = [t \in Threads |-> NoCall]
    /\ shard = EmptyShard
    /\ now = 0
    /\ told = [t \in Threads |-> NoResult]

-----------------------------------------------------------------------------
(* Seeded error: a file that cannot be read has no entry.                  *)
GaiErrors == {"gai_error"}

LookupErrors == {"gai_error", "mmdb_error"}

(* MaxMindDatabase::perform_lookup and the lookup of the derived classes,  *)
(* which add their members to a result that was found.                     *)
perform_lookup(db, k) ==
    IF db[k] \in LookupErrors THEN "error" ELSE IF db[k] = "entry" THEN "found" ELSE "absent"

CityLookup(k) == perform_lookup(CityDB, k)
ASNLookup(k)  == perform_lookup(ASNDB, k)

Advance(t, pc, r) == call' = [call EXCEPT ![t].pc = pc, ![t].result = r]

Call(t, k) ==
    /\ call[t].pc = "idle"
    /\ call' = [call EXCEPT ![t] = [NoCall EXCEPT !.pc = "get", !.key = k]]
    /\ told' = [told EXCEPT ![t] = NoResult]
    /\ UNCHANGED <<shard, now>>

CacheGet(t) ==
    LET k == call[t].key
    IN  /\ call[t].pc = "get"
        /\ shard' = Uncounted(AfterGet(shard, k, now))
        /\ \/ IsHit(shard, k, now) /\ Advance(t, "return", shard.map[k].result)
           \/ ~ IsHit(shard, k, now) /\ Advance(t, "query", NoResult)
        /\ UNCHANGED <<now, told>>

(* Seeded error: no early return for an error of the city file.            *)
NeverFatal(city) == FALSE

IsFatal(city) == city = "error"

(* Both files are read.  An error of the city file ends the lookup; an     *)
(* error of the AS file counts as not found.                               *)
Query(t) ==
    LET k    == call[t].key
        city == CityLookup(k)
        asn  == ASNLookup(k)
    IN  /\ call[t].pc = "query"
        /\ \/ IsFatal(city) /\ Advance(t, "return", Failed(k))
           \/ ~ IsFatal(city) /\ Advance(t, "put", Result(k, city = "found", asn = "found"))
        /\ UNCHANGED <<shard, now, told>>

DataTypeOf(r) == IF Found(r) THEN "IP_GEOLOCATION" ELSE "NEGATIVE"

(* cache_.put; it throws, if at all, before it changes the shard.          *)
CachePut(t) ==
    LET r == call[t].result
    IN  /\ call[t].pc = "put"
        /\ \/ /\ shard' = Uncounted(AfterPut(shard, call[t].key, r, DataTypeOf(r), now))
              /\ Advance(t, "return", r)
           \/ MayThrow /\ Advance(t, "return", [r EXCEPT !.error = TRUE]) /\ UNCHANGED shard
        /\ UNCHANGED <<now, told>>

Return(t) ==
    /\ call[t].pc = "return"
    /\ told' = [told EXCEPT ![t] = call[t].result]
    /\ call' = [call EXCEPT ![t] = NoCall]
    /\ UNCHANGED <<shard, now>>

Tick ==
    /\ now < MaxTime
    /\ now' = now + 1
    /\ UNCHANGED <<call, shard, told>>

Work(t) == CacheGet(t) \/ Query(t) \/ CachePut(t) \/ Return(t)

Next ==
    \/ \E t \in Threads : Work(t) \/ \E k \in Keys : Call(t, k)
    \/ Tick

(* A thread that can run is run; the shard's mutex is free between steps.  *)
Fairness == \A t \in Threads : WF_vars(Work(t))

Spec == Init /\ [][Next]_vars /\ Fairness

-----------------------------------------------------------------------------
(* What the two files together say of an address.                          *)
OnFile(k) ==
    IF CityDB[k] \in {"gai_error", "mmdb_error"} THEN Failed(k)
    ELSE Result(k, CityDB[k] = "entry", ASNDB[k] = "entry")

(* What is cached under an address is what the files have on it, never an  *)
(* error, and exactly the answers without any member have the short time   *)
(* to live (lookup caches NEGATIVE and IP_GEOLOCATION results apart).      *)
CacheHoldsFileRecords ==
    \A k \in DOMAIN shard.map :
        /\ shard.map[k].result = OnFile(k)
        /\ ~ OnFile(k).error
        /\ shard.map[k].type = "NEGATIVE" <=> CityDB[k] # "entry" /\ ASNDB[k] # "entry"

(* The service implements the cacheless, sequential specification: every   *)
(* lookup answers, with what the files have on its own address or with an  *)
(* error.                                                                  *)
Abstract == INSTANCE LookupSpec WITH
    Answers  <- [k \in Keys |-> {OnFile(k)} \cup
                    IF MayThrow THEN {[OnFile(k) EXCEPT !.error = TRUE]} ELSE {}],
    NoAnswer <- NoResult,
    asked    <- [t \in Threads |-> call[t].key]

ImplementsLookup == Abstract!Spec
=============================================================================
