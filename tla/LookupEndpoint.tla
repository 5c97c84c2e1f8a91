---------------------------- MODULE LookupEndpoint ----------------------------
(***************************************************************************)
(* GET and POST /lookup of IPGeoHTTPServer (http_server.cpp) with the      *)
(* middleware in front of them (prepare_request, authenticate_request,     *)
(* auth.cpp): request threads admit or refuse a request, check its         *)
(* queries, look them up one after another or, in a large batch, in tasks  *)
(* of their own, count them, and reply.                                    *)
(*                                                                         *)
(* The lookup handlers are the services (IPGeoService, MACLookupService),  *)
(* here a step that answers or throws.  The rate limiter is here its       *)
(* verdict; RequestGate composes it with the requests.                     *)
(***************************************************************************)
EXTENDS Integers, Sequences, SequencesExt, FiniteSets

CONSTANTS
    Threads,            \* the threads of httplib's pool
    Requests,           \* what clients send, see Request below
    Keys, NoKey,        \* API keys; the empty key
    KeyFile,            \* keys in api_keys_file_
    DefaultKey,         \* default_api_key_, or NoKey
    Queries, NoQuery,   \* address strings; the empty string
    Valid,              \* ["IP" and "MAC" -> SUBSET Queries]: isValid...Format
    Handlers,           \* which of "IP", "MAC" have a handler
    EnableApiAuth, EnableRateLimiter,
    MaxBatchSize,       \* max_batch_size_
    SequentialMax,      \* the 10 of handle_lookup_post
    MayThrow,           \* TRUE: lookups, std::async, generators and dump() may throw
    MaxServed           \* bound on the requests served

(* A request: its Authorization header, the addresses of X-Forwarded-For,  *)
(* X-Real-IP and the connection, the members it gives (query parameters,   *)
(* or arrays of the body), its queries, and its body: one that parses, one *)
(* with an error, or one whose error quotes bytes that are not UTF-8.      *)
Address == Queries \cup {NoQuery}
Request == [route : {"lookup"}, method : {"GET", "POST"},
            header : {"none", "other", "bearer"}, key : Keys \cup {NoKey},
            forwarded : Seq(Address), real_ip : Address, remote_addr : Address,
            members : SUBSET {"IP", "MAC"}, queries : Seq(Queries),
            body : {"parses", "error", "unprintable"}]

ASSUME EndpointAssumption ==
    /\ Requests # {} /\ IsFiniteSet(Threads)
    /\ \A r \in Requests : r.route = "lookup" => r \in Request /\ r.forwarded # <<NoQuery>>
    /\ Valid \in [{"IP", "MAC"} -> SUBSET Queries]
    /\ KeyFile \subseteq Keys
    /\ DefaultKey \in Keys \cup {NoKey}
    /\ NoKey \notin Keys /\ NoQuery \notin Queries
    /\ {MaxBatchSize, SequentialMax, MaxServed} \subseteq Nat
    /\ {EnableApiAuth, EnableRateLimiter, MayThrow} \subseteq BOOLEAN

VARIABLES
    api_keys,       \* api_key_hashes_ of APIAuth
    conn,           \* thread -> the request it serves or served last, see Fresh
    metrics,        \* total_requests_ and total_errors_
    history         \* answers delivered, requests failed, requests served

vars == <<api_keys, conn, metrics, history>>

(* The locals of a handler: where it is, its request, what the rate limiter *)
(* said, "IP" or "MAC", the queries that passed validation, the states of  *)
(* its futures in order, the answers so far and the status to send.        *)
Fresh(pc, r) == [pc |-> pc, req |-> r, verdict |-> "none", type |-> "IP",
                 query_list |-> <<>>, tasks |-> <<>>, results |-> <<>>, status |-> 200]

Step(t, c) == conn' = [conn EXCEPT ![t] = c]

-----------------------------------------------------------------------------
(* APIAuth: a key file that opens replaces the keys, one that does not     *)
(* leaves them; the default key is added to them.                          *)
load_keys_from_file(keys, opens) == IF opens THEN KeyFile ELSE keys

add_key(keys, k) == IF k = NoKey THEN keys ELSE keys \cup {k}

is_valid(k) == k # NoKey /\ k \in api_keys

(* The constructor of IPGeoHTTPServer fills APIAuth before any request.    *)
Init ==
    /\ \E opens \in BOOLEAN :
           api_keys = IF EnableApiAuth
                      THEN add_key(load_keys_from_file({}, opens), DefaultKey) ELSE {}
    /\ conn = [t \in Threads |-> Fresh("idle", CHOOSE r \in Requests : TRUE)]
    /\ metrics = [requests |-> 0, errors |-> 0]
    /\ history = [delivered |-> 0, failed |-> 0, served |-> 0]

(* setup_routes: the handler a request is given to.                        *)
Entry == [lookup |-> "prepare", password |-> "parse"]

Serve(t, r) ==
    /\ conn[t].pc = "idle"
    /\ history.served < MaxServed
    /\ history' = [history EXCEPT !.served = @ + 1]
    /\ Step(t, Fresh(Entry[r.route], r))
    /\ UNCHANGED <<api_keys, metrics>>

-----------------------------------------------------------------------------
Finished(c, code) == [c EXCEPT !.status = code, !.pc = "reply"]

(* Seeded error: the key of another scheme is accepted unchecked.          *)
AcceptsOtherScheme(r) == EnableApiAuth /\ r.header = "bearer" => r.key # NoKey

authenticate_request(r) == EnableApiAuth => r.header = "bearer" /\ is_valid(r.key)

(* The first address of a list, which may be empty, or the whole header;   *)
(* an empty header counts as none.                                         *)
get_real_client_ip(r) ==
    IF r.forwarded # <<>> THEN Head(r.forwarded)
    ELSE IF r.real_ip # NoQuery THEN r.real_ip ELSE r.remote_addr

(* The first failing check of prepare_request decides: the key, then the   *)
(* source address, then the rate limiter.                                  *)
prepare_request(t) ==
    LET c     == conn[t]
        known == get_real_client_ip(c.req) # NoQuery
    IN  /\ c.pc = "prepare"
        /\ \/ /\ ~ authenticate_request(c.req)
              /\ Step(t, Finished(c, 401))
           \/ /\ authenticate_request(c.req) /\ ~ known
              /\ Step(t, Finished(c, 400))
           \/ /\ authenticate_request(c.req) /\ known /\ EnableRateLimiter
              /\ Step(t, Finished([c EXCEPT !.verdict = "refused"], 429))
           \/ /\ authenticate_request(c.req) /\ known
              /\ Step(t, [c EXCEPT !.verdict = IF EnableRateLimiter THEN "allowed" ELSE "none",
                                   !.pc = "check"])
        /\ UNCHANGED <<api_keys, metrics, history>>

(* The query of a GET: mac=, ip=, or the source address of the client.     *)
GetQuery(r) == IF r.members = {} THEN get_real_client_ip(r) ELSE r.queries[1]

Type(r) ==
    IF r.method = "GET" THEN IF "MAC" \in r.members THEN "MAC" ELSE "IP"
    ELSE IF "IP" \in r.members THEN "IP" ELSE "MAC"

(* The early returns of a GET, in the order of the code; 200 if none.      *)
GetCode(r) ==
    IF r.members = {"IP", "MAC"} \/ GetQuery(r) \notin Valid[Type(r)] THEN 400
    ELSE IF Type(r) \notin Handlers THEN 500 ELSE 200

(* The catch clause of a parse error sends what() in a JSON object.  If    *)
(* that is not UTF-8, dump() throws out of the catch clause and httplib    *)
(* answers 500; nothing is counted.                                        *)
Escaped(r) == r.method = "POST" /\ r.body = "unprintable"

(* The early returns of a POST, and the parse error.                       *)
PostCode(r) ==
    IF Escaped(r) THEN 500
    ELSE IF r.body = "error" \/ Cardinality(r.members) # 1 THEN 400
    ELSE IF Type(r) \notin Handlers THEN 500
    ELSE IF Len(r.queries) > MaxBatchSize THEN 400 ELSE 200

(* The loop of process_batch: query_list after each number of items.  The  *)
(* items that pass the validator are kept, in their order.                 *)
Kept(items, valid) ==
    LET kept[n \in 0..Len(items)] ==
            IF n = 0 THEN <<>>
            ELSE IF items[n] \in valid THEN Append(kept[n - 1], items[n]) ELSE kept[n - 1]
    IN  kept

Checked(r) ==
    IF r.method = "GET" THEN <<GetQuery(r)>>
    ELSE Kept(r.queries, Valid[Type(r)])[Len(r.queries)]

Check(t) ==
    LET c    == conn[t]
        code == IF c.req.method = "GET" THEN GetCode(c.req) ELSE PostCode(c.req)
    IN  /\ c.pc = "check"
        /\ \/ /\ code # 200
              /\ Step(t, Finished(c, code))
           \/ /\ code = 200
              /\ Step(t, [c EXCEPT
                    !.type = Type(c.req),
                    !.query_list = Checked(c.req),
                    !.pc = IF Len(Checked(c.req)) <= SequentialMax THEN "sequential" ELSE "launch"])
        /\ UNCHANGED <<api_keys, metrics, history>>

-----------------------------------------------------------------------------
(* Seeded error: an exception is answered and not counted.                 *)
Uncounted(counted) == "reply"

AfterCatch(counted) == IF counted THEN "record_error" ELSE "reply"

(* The catch clauses.  A POST answers 400 to an exception of the JSON      *)
(* library and does not count it; all other exceptions are counted.        *)
Caught(c, exception) ==
    LET counted == c.req.method = "GET" \/ exception # "json"
    IN  [c EXCEPT !.status = IF counted THEN 500 ELSE 400, !.pc = AfterCatch(counted)]

(* metrics_->record_request and results.push_back of the answer to query i. *)
Collected(t, i) ==
    /\ Step(t, [conn[t] EXCEPT !.results = Append(@, <<conn[t].type, conn[t].query_list[i]>>)])
    /\ metrics' = [metrics EXCEPT !.requests = @ + 1]

AllCollected(c) == Len(c.results) = Len(c.query_list)

LookupNext(t) ==
    LET c == conn[t]
    IN  /\ c.pc = "sequential"
        /\ ~ AllCollected(c)
        /\ \/ Collected(t, Len(c.results) + 1)
           \/ MayThrow /\ Step(t, Caught(c, "std")) /\ UNCHANGED metrics
        /\ UNCHANGED <<api_keys, history>>

(* std::async(std::launch::async, ...) for the next query; it throws when  *)
(* no thread can be created.                                               *)
Launch(t) ==
    LET c    == conn[t]
        more == Len(c.tasks) < Len(c.query_list)
    IN  /\ c.pc = "launch"
        /\ \/ more /\ Step(t, [c EXCEPT !.tasks = Append(@, "running")])
           \/ more /\ MayThrow /\ Step(t, [c EXCEPT !.pc = "unwind"])
           \/ ~ more /\ Step(t, [c EXCEPT !.pc = "collect"])
        /\ UNCHANGED <<api_keys, metrics, history>>

(* A task ends with an answer or with an exception, which its future keeps. *)
TaskEnds(t, i) ==
    /\ conn[t].tasks[i] = "running"
    /\ \E outcome \in {"answer"} \cup IF MayThrow THEN {"exception"} ELSE {} :
           Step(t, [conn[t] EXCEPT !.tasks[i] = outcome])
    /\ UNCHANGED <<api_keys, metrics, history>>

(* Seeded error: answers are taken as the tasks end.                       *)
EndedFirst(c) == {i \in DOMAIN c.tasks : c.tasks[i] # "running"}

(* The future that is waited for: that of the next query.                  *)
Due(c) == {Len(c.results) + 1}

(* Seeded error: the exception of a task is not passed on.                 *)
NeverRethrows(c, i) == FALSE

Rethrows(c, i) == c.tasks[i] = "exception"

(* future.get().                                                           *)
Collect(t) ==
    LET c == conn[t]
    IN  /\ c.pc = "collect"
        /\ ~ AllCollected(c)
        /\ \E i \in Due(c) :
              \/ c.tasks[i] = "answer" /\ Collected(t, i)
              \/ Rethrows(c, i) /\ Step(t, [c EXCEPT !.pc = "unwind"]) /\ UNCHANGED metrics
        /\ UNCHANGED <<api_keys, history>>

(* Seeded error: the tasks are detached.                                   *)
Detached(c) == TRUE

(* Unwinding destroys the vector of futures: the destructor of a future    *)
(* made by std::async waits for its task.                                  *)
Joined(c) == \A i \in DOMAIN c.tasks : c.tasks[i] # "running"

Unwind(t) ==
    LET c == conn[t]
    IN  /\ c.pc = "unwind"
        /\ Joined(c)
        /\ Step(t, Caught(c, "std"))
        /\ UNCHANGED <<api_keys, metrics, history>>

(* The results are serialised; dump() throws on text that is not UTF-8.    *)
Dump(t) ==
    LET c == conn[t]
    IN  /\ c.pc \in {"sequential", "collect"}
        /\ AllCollected(c)
        /\ \/ Step(t, Finished(c, 200))
           \/ MayThrow /\ c.results # <<>> /\ Step(t, Caught(c, "json"))
        /\ UNCHANGED <<api_keys, metrics, history>>

record_error(t) ==
    /\ conn[t].pc = "record_error"
    /\ metrics' = [metrics EXCEPT !.errors = @ + 1]
    /\ Step(t, [conn[t] EXCEPT !.pc = "reply"])
    /\ UNCHANGED <<api_keys, history>>

(* The response tells of an exception of a lookup, a task or a generator,  *)
(* or of a parameter of a password that no int holds.                      *)
Excepted(c) ==
    c.status = 500 /\ (c.query_list # <<>> \/ (c.req.route = "password" /\ ~ Escaped(c.req)))

(* What a 200 response counts for: its answers, or one batch of passwords. *)
Delivered(c) ==
    IF c.status # 200 THEN 0 ELSE IF c.req.route = "password" THEN 1 ELSE Len(c.results)

(* The handler returns and httplib sends the response.                     *)
Reply(t) ==
    LET c == conn[t]
    IN  /\ c.pc = "reply"
        /\ Step(t, [c EXCEPT !.pc = "idle"])
        /\ history' = [history EXCEPT !.delivered = @ + Delivered(c),
                                      !.failed = @ + IF Excepted(c) THEN 1 ELSE 0]
        /\ UNCHANGED <<api_keys, metrics>>

Handle(t) ==
    \/ prepare_request(t) \/ Check(t) \/ LookupNext(t) \/ Launch(t) \/ Collect(t)
    \/ Unwind(t) \/ Dump(t) \/ record_error(t) \/ Reply(t)

Task(t) == \E i \in DOMAIN conn[t].tasks : TaskEnds(t, i)

Next == \E t \in Threads : (\E r \in Requests : Serve(t, r)) \/ Handle(t) \/ Task(t)

(* Request threads and tasks that can run are run.                         *)
Fairness == \A t \in Threads : WF_vars(Handle(t)) /\ WF_vars(Task(t))

Spec == Init /\ [][Next]_vars /\ Fairness

-----------------------------------------------------------------------------
(* A 200 response to a batch holds one answer for each item that passes    *)
(* the validator, in the order of the request, however the tasks were      *)
(* scheduled; items that do not pass are left out.                         *)
AnswersInOrder ==
    \A t \in Threads :
        LET c    == conn[t]
            r    == c.req
            kept == {i \in DOMAIN r.queries : r.queries[i] \in Valid[c.type]}
        IN  r.route = "lookup" /\ r.method = "POST" /\ c.pc = "reply" /\ c.status = 200 =>
                /\ Len(c.results) = Cardinality(kept)
                /\ \A i \in kept :
                       c.results[Cardinality({j \in kept : j <= i})] = <<c.type, r.queries[i]>>

(* No task of a batch is still running when its request has left the       *)
(* block that launched it, also when a lookup or std::async threw.         *)
NoTaskOutlivesBatch ==
    \A t \in Threads : conn[t].pc \notin {"launch", "collect", "unwind"} =>
        \A i \in DOMAIN conn[t].tasks : conn[t].tasks[i] # "running"

(* With authentication a lookup is made only for a request that carried a  *)
(* configured key, and with a rate limiter only after its consent; the     *)
(* consent is asked for authenticated requests only, so that others cannot *)
(* use up the quota of an address (prepare_request).                       *)
OnlyAdmittedLookUp ==
    \A t \in {t \in Threads : conn[t].req.route = "lookup"} :
        LET c       == conn[t]
            looking == c.tasks # <<>> \/ c.results # <<>>
            keyed   == c.req.header = "bearer" /\ c.req.key \in KeyFile \cup ({DefaultKey} \ {NoKey})
        IN  /\ looking /\ EnableRateLimiter => c.verdict = "allowed"
            /\ (looking \/ c.verdict # "none") /\ EnableApiAuth => keyed

(* Every answer a client got was counted in total_requests_, and           *)
(* total_errors_ counts each exception of a lookup, a task, the creation   *)
(* of a thread, a generator or std::stoi once, on both routes, and nothing *)
(* else: not a handler that is not configured, and not the 500 of httplib  *)
(* for a catch clause that throws (record_request, record_error).          *)
CountsMatchReplies ==
    /\ history.delivered <= metrics.requests
    /\ metrics.errors = history.failed
            + Cardinality({t \in Threads : conn[t].pc = "reply" /\ Excepted(conn[t])})

(* Every request is answered: no exception and no order of task endings    *)
(* leaves a handler waiting for ever.                                      *)
EveryRequestAnswered == \A t \in Threads : conn[t].pc # "idle" ~> conn[t].pc = "idle"
===============================================================================
