--------------------------- MODULE EndpointProofs ---------------------------
(***************************************************************************)
(* Proofs about the two routes of the HTTP server on their common threads  *)
(* and metrics (ServerSpec).                                               *)
(*                                                                         *)
(* Each action is a step of one handler: the lemmas ...Steps show that it  *)
(* keeps the invariant of that handler, ThreadOK, and which of four things *)
(* it does to the counts.  StepsKeepCounts then sums over the threads, and *)
(* the properties of the runs follow from the invariant.                   *)
(***************************************************************************)
EXTENDS PasswordHandler, DataProofs

-----------------------------------------------------------------------------
(* g is the loop of process_batch over the first n items.                  *)
IsLoop(items, valid, n, g) ==
    /\ g = [i \in 0..n |-> g[i]]
    /\ g[0] = <<>>
    /\ \A i \in 1..n : g[i] = IF items[i] \in valid THEN Append(g[i - 1], items[i]) ELSE g[i - 1]

LEMMA LoopExists ==
    ASSUME NEW s, NEW V
    PROVE  \A n \in Nat : \E g : IsLoop(s, V, n, g)
<1> DEFINE G == {n \in Nat : \E g : IsLoop(s, V, n, g)}
<1>1. 0 \in G
  <2> DEFINE g == [i \in 0..0 |-> <<>>]
  <2>1. IsLoop(s, V, 0, g)
    BY DEF IsLoop
  <2> QED BY <2>1
<1>2. ASSUME NEW n \in Nat, n \in G PROVE n + 1 \in G
  <2>1. PICK g : IsLoop(s, V, n, g)
    BY <1>2
  <2> DEFINE h == [i \in 0..n + 1 |-> IF i <= n THEN g[i]
                    ELSE IF s[i] \in V THEN Append(g[n], s[i]) ELSE g[n]]
  <2>2. IsLoop(s, V, n + 1, h)
    <3>1. h[0] = <<>>
      BY <2>1 DEF IsLoop
    <3>2. ASSUME NEW i \in 1..n + 1
          PROVE  h[i] = IF s[i] \in V THEN Append(h[i - 1], s[i]) ELSE h[i - 1]
      <4>1. CASE i <= n
        <5>1. i \in 1..n /\ i \in 0..n + 1 /\ i - 1 \in 0..n + 1 /\ i - 1 <= n
          BY <4>1
        <5>2. h[i] = g[i] /\ h[i - 1] = g[i - 1]
          BY <4>1, <5>1
        <5> HIDE DEF h
        <5> QED BY <2>1, <5>1, <5>2 DEF IsLoop
      <4>2. CASE i = n + 1
        <5>1. i \in 0..n + 1 /\ n \in 0..n + 1 /\ i - 1 = n /\ ~ (i <= n) /\ n <= n
          BY <4>2
        <5>2. h[n] = g[n] /\ h[i] = IF s[i] \in V THEN Append(g[n], s[i]) ELSE g[n]
          BY <5>1
        <5> HIDE DEF h
        <5> QED BY <5>1, <5>2
      <4> QED BY <4>1, <4>2
    <3>3. h = [i \in 0..n + 1 |-> h[i]]
      OBVIOUS
    <3> HIDE DEF h
    <3> QED BY <3>1, <3>2, <3>3, Zenon DEF IsLoop
  <2> QED BY <2>2
<1> HIDE DEF G
<1>3. \A n \in Nat : n \in G
  BY <1>1, <1>2, SetInduction
<1> QED BY <1>3 DEF G

(* The equation that defines Kept has a solution.                          *)
LEMMA KeptIsLoop ==
    ASSUME NEW S, NEW s \in Seq(S), NEW V
    PROVE  IsLoop(s, V, Len(s), Kept(s, V))
<1> DEFINE Solves(g) == g = [n \in 0..Len(s) |->
                    IF n = 0 THEN <<>>
                    ELSE IF s[n] \in V THEN Append(g[n - 1], s[n]) ELSE g[n - 1]]
<1>1. Len(s) \in Nat
  OBVIOUS
<1>2. PICK g : IsLoop(s, V, Len(s), g)
  BY <1>1, LoopExists
<1>3. Solves(g)
  <2>1. \A n \in 0..Len(s) : n # 0 => n \in 1..Len(s)
    BY <1>1
  <2>2. \A n \in 0..Len(s) : g[n] = IF n = 0 THEN <<>>
                    ELSE IF s[n] \in V THEN Append(g[n - 1], s[n]) ELSE g[n - 1]
    BY <1>2, <2>1, Zenon DEF IsLoop
  <2> QED BY <1>2, <2>2, Zenon DEF IsLoop
<1>4. Kept(s, V) = CHOOSE h : Solves(h)
  BY DEF Kept
<1>5. Solves(Kept(s, V))
  <2> HIDE DEF Solves
  <2> QED BY <1>3, <1>4
<1> DEFINE k == Kept(s, V)
<1>6. k = [n \in 0..Len(s) |->
                    IF n = 0 THEN <<>>
                    ELSE IF s[n] \in V THEN Append(k[n - 1], s[n]) ELSE k[n - 1]]
  BY <1>5
<1> HIDE DEF k, Solves
<1>7. k[0] = <<>> /\ k = [n \in 0..Len(s) |-> k[n]]
  BY <1>1, <1>6
<1>8. ASSUME NEW n \in 1..Len(s)
      PROVE  k[n] = IF s[n] \in V THEN Append(k[n - 1], s[n]) ELSE k[n - 1]
  <2>1. n \in 0..Len(s) /\ n # 0
    BY <1>1
  <2> QED BY <1>6, <2>1, Zenon
<1> QED BY <1>7, <1>8, Zenon DEF IsLoop, k

(* The items of a request that pass the validator, and the place of one    *)
(* among them.                                                             *)
Passing(items, valid, n) == {i \in 1..n : items[i] \in valid}
Place(items, valid, n, i) == Cardinality({j \in Passing(items, valid, n) : j <= i})

(* The list that is kept holds the items that pass, in order.              *)
KeepsInOrder(items, valid, n, l) ==
    /\ Len(l) = Cardinality(Passing(items, valid, n))
    /\ \A i \in Passing(items, valid, n) :
          Place(items, valid, n, i) \in 1..Len(l) /\ l[Place(items, valid, n, i)] = items[i]

LEMMA PassingFinite ==
    ASSUME NEW s, NEW V, NEW n \in Nat
    PROVE  /\ IsFiniteSet(Passing(s, V, n)) /\ Cardinality(Passing(s, V, n)) \in Nat
           /\ \A i \in Passing(s, V, n) :
                 Place(s, V, n, i) \in 1..Cardinality(Passing(s, V, n))
<1>1. IsFiniteSet(1..n)
  BY FS_Interval
<1>2. IsFiniteSet(Passing(s, V, n))
  BY <1>1, FS_Subset DEF Passing
<1>3. ASSUME NEW i \in Passing(s, V, n)
      PROVE  Place(s, V, n, i) \in 1..Cardinality(Passing(s, V, n))
  <2> DEFINE P == Passing(s, V, n)
             B == {j \in P : j <= i}
  <2>1. B \subseteq P /\ i \in B /\ IsFiniteSet(P)
    BY <1>2, <1>3 DEF Passing
  <2>2. Place(s, V, n, i) = Cardinality(B)
    BY DEF Place
  <2> HIDE DEF B, P
  <2>3. IsFiniteSet(B) /\ Cardinality(B) <= Cardinality(P) /\ Cardinality(P) \in Nat
    BY <2>1, FS_Subset, FS_CardinalityType
  <2>4. Cardinality(B) # 0 /\ Cardinality(B) \in Nat
    BY <2>1, <2>3, FS_EmptySet, FS_CardinalityType
  <2> QED BY <2>2, <2>3, <2>4 DEF P
<1> QED BY <1>2, <1>3, FS_CardinalityType

LEMMA KeptInOrder ==
    ASSUME NEW S, NEW s \in Seq(S), NEW V
    PROVE  LET l == Kept(s, V)[Len(s)]
           IN  l \in Seq(S) /\ KeepsInOrder(s, V, Len(s), l)
<1> DEFINE k == Kept(s, V)
           G == {n \in Nat : n <= Len(s) => k[n] \in Seq(S) /\ KeepsInOrder(s, V, n, k[n])}
<1>1. IsLoop(s, V, Len(s), k) /\ Len(s) \in Nat
  BY KeptIsLoop
<1> HIDE DEF k
<1>2. 0 \in G
  <2>1. Passing(s, V, 0) = {} /\ k[0] = <<>>
    BY <1>1 DEF Passing, IsLoop
  <2>2. Cardinality({}) = 0
    BY FS_EmptySet
  <2>3. <<>> \in Seq(S) /\ Len(<<>>) = 0
    OBVIOUS
  <2>4. k[0] \in Seq(S) /\ KeepsInOrder(s, V, 0, k[0])
    BY <2>1, <2>2, <2>3, Zenon DEF KeepsInOrder
  <2> QED BY <2>4
<1>3. ASSUME NEW n \in Nat, n \in G PROVE n + 1 \in G
  <2> SUFFICES ASSUME n + 1 <= Len(s)
               PROVE  k[n + 1] \in Seq(S) /\ KeepsInOrder(s, V, n + 1, k[n + 1])
    OBVIOUS
  <2> DEFINE P == Passing(s, V, n)
             Q == Passing(s, V, n + 1)
  <2>1. n + 1 \in 1..Len(s) /\ (n + 1) - 1 = n /\ s[n + 1] \in S
    BY <1>1
  <2>2. k[n] \in Seq(S) /\ KeepsInOrder(s, V, n, k[n]) /\ Len(k[n]) \in Nat
    BY <1>1, <1>3
  <2>3. IsFiniteSet(P) /\ Cardinality(P) \in Nat
    BY PassingFinite
  <2>4. ASSUME NEW i \in P PROVE i \in Q /\ Place(s, V, n + 1, i) = Place(s, V, n, i)
    <3>1. {j \in Q : j <= i} = {j \in P : j <= i}
      BY <2>4 DEF Passing
    <3>2. i \in Q
      BY <2>4 DEF Passing
    <3> QED BY <3>1, <3>2, Zenon DEF Place
  <2>5. CASE s[n + 1] \in V
    <3>1. k[n + 1] = Append(k[n], s[n + 1])
      BY <1>1, <2>1, <2>5 DEF IsLoop
    <3>2. Q = P \cup {n + 1} /\ n + 1 \notin P
      BY <2>5 DEF Passing
    <3>3. Cardinality(Q) = Cardinality(P) + 1
      BY <2>3, <3>2, FS_AddElement
    <3>4. Place(s, V, n + 1, n + 1) = Cardinality(Q)
      <4>1. {j \in Q : j <= n + 1} = Q
        BY DEF Passing
      <4> QED BY <4>1 DEF Place
    <3>5. /\ k[n + 1] \in Seq(S) /\ Len(k[n + 1]) = Len(k[n]) + 1
          /\ k[n + 1][Len(k[n]) + 1] = s[n + 1]
          /\ \A p \in 1..Len(k[n]) : k[n + 1][p] = k[n][p]
      BY <2>1, <2>2, <3>1
    <3>6. Len(k[n]) = Cardinality(P)
      BY <2>2 DEF KeepsInOrder
    <3>7. ASSUME NEW i \in Q
          PROVE  /\ Place(s, V, n + 1, i) \in 1..Len(k[n + 1])
                 /\ k[n + 1][Place(s, V, n + 1, i)] = s[i]
      <4>1. CASE i = n + 1
        BY <2>2, <3>3, <3>4, <3>5, <3>6, <4>1
      <4>2. CASE i \in P
        <5>1. Place(s, V, n, i) \in 1..Len(k[n]) /\ k[n][Place(s, V, n, i)] = s[i]
          BY <2>2, <4>2 DEF KeepsInOrder
        <5>2. Place(s, V, n + 1, i) = Place(s, V, n, i)
          BY <2>4, <4>2
        <5> HIDE DEF P, Q
        <5> QED BY <2>2, <3>5, <5>1, <5>2
      <4> QED BY <3>2, <4>1, <4>2
    <3> QED BY <3>3, <3>5, <3>6, <3>7 DEF KeepsInOrder
  <2>6. CASE s[n + 1] \notin V
    <3>1. k[n + 1] = k[n]
      BY <1>1, <2>1, <2>6 DEF IsLoop
    <3>2. Q = P
      BY <2>6 DEF Passing
    <3> QED BY <2>2, <2>4, <3>1, <3>2 DEF KeepsInOrder
  <2> QED BY <2>5, <2>6
<1> HIDE DEF G
<1>4. \A n \in Nat : n \in G
  BY <1>2, <1>3, SetInduction
<1> QED BY <1>1, <1>4 DEF G, k

-----------------------------------------------------------------------------
PCs == {"idle", "prepare", "check", "sequential", "launch", "collect", "unwind",
        "record_error", "reply", "parse", "generate"}
Statuses == {200, 400, 401, 429, 500}
Outcomes == {"running", "answer", "exception"}
Answers == ({"IP", "MAC"} \X Queries) \cup UNION {generate(PasswordConfig(r)) : r \in Requests}

Conn == [pc : PCs, req : Requests, verdict : {"none", "refused", "allowed"},
         type : {"IP", "MAC"}, query_list : Seq(Queries), tasks : Seq(Outcomes),
         results : Seq(Answers), status : Statuses]

(* d has the request, the queries, the tasks and the answers of c.         *)
Keeps(d, c) == d.req = c.req /\ d.verdict = c.verdict /\ d.type = c.type
               /\ d.query_list = c.query_list /\ d.tasks = c.tasks /\ d.results = c.results

LEMMA Constants ==
    /\ "idle" \in PCs /\ "prepare" \in PCs /\ "check" \in PCs /\ "sequential" \in PCs
    /\ "launch" \in PCs /\ "collect" \in PCs /\ "unwind" \in PCs /\ "record_error" \in PCs
    /\ "reply" \in PCs /\ "parse" \in PCs /\ "generate" \in PCs
    /\ 200 \in Statuses /\ 400 \in Statuses /\ 401 \in Statuses
    /\ 429 \in Statuses /\ 500 \in Statuses
    /\ "running" \in Outcomes /\ "answer" \in Outcomes /\ "exception" \in Outcomes
  BY DEF PCs, Statuses, Outcomes

(* The steps of a handler as changes of the fields of its locals.          *)
LEMMA GoesFields ==
    ASSUME NEW c \in Conn, NEW pc \in PCs
    PROVE  LET d == [c EXCEPT !.pc = pc]
           IN  d \in Conn /\ d.pc = pc /\ d.status = c.status /\ Keeps(d, c)
  BY DEF Conn, Keeps

LEMMA EndsFields ==
    ASSUME NEW c \in Conn, NEW code \in Statuses, NEW pc \in PCs
    PROVE  LET d == [c EXCEPT !.status = code, !.pc = pc]
           IN  d \in Conn /\ d.pc = pc /\ d.status = code /\ Keeps(d, c)
  BY DEF Conn, Keeps

LEMMA FinishedFields ==
    ASSUME NEW c \in Conn, NEW code \in Statuses
    PROVE  LET d == Finished(c, code)
           IN  d \in Conn /\ d.pc = "reply" /\ d.status = code /\ Keeps(d, c)
  BY EndsFields, Constants DEF Finished

LEMMA CaughtFields ==
    ASSUME NEW c \in Conn, NEW exception
    PROVE  LET d == Caught(c, exception)
           IN  /\ d \in Conn /\ Keeps(d, c)
               /\ \/ d.pc = "record_error" /\ d.status = 500
                  \/ d.pc = "reply" /\ d.status = 400 /\ exception = "json"
<1> DEFINE counted == c.req.method = "GET" \/ exception # "json"
           code == IF counted THEN 500 ELSE 400
           pc == AfterCatch(counted)
<1>1. code \in Statuses /\ pc \in PCs
  BY Constants DEF AfterCatch
<1>2. Caught(c, exception) = [c EXCEPT !.status = code, !.pc = pc]
  BY DEF Caught
<1>3. \/ pc = "record_error" /\ code = 500
      \/ pc = "reply" /\ code = 400 /\ exception = "json"
  BY DEF AfterCatch
<1> HIDE DEF code, pc
<1>4. LET d == [c EXCEPT !.status = code, !.pc = pc]
      IN  d \in Conn /\ d.pc = pc /\ d.status = code /\ Keeps(d, c)
  BY <1>1, EndsFields
<1> QED BY <1>2, <1>3, <1>4, Zenon

Ruled(c, v, pc) == [c EXCEPT !.verdict = v, !.pc = pc]

LEMMA RuledFields ==
    ASSUME NEW c \in Conn, NEW v \in {"none", "refused", "allowed"}, NEW pc \in PCs
    PROVE  LET d == Ruled(c, v, pc)
           IN  /\ d \in Conn /\ d.pc = pc /\ d.status = c.status /\ d.verdict = v
               /\ d.req = c.req /\ d.type = c.type /\ d.query_list = c.query_list
               /\ d.tasks = c.tasks /\ d.results = c.results
  BY DEF Conn, Ruled

LEMMA RefusedFields ==
    ASSUME NEW c \in Conn
    PROVE  LET d == Finished([c EXCEPT !.verdict = "refused"], 429)
           IN  /\ d \in Conn /\ d.pc = "reply" /\ d.status = 429 /\ d.verdict = "refused"
               /\ d.req = c.req /\ d.type = c.type /\ d.query_list = c.query_list
               /\ d.tasks = c.tasks /\ d.results = c.results
<1> DEFINE b == [c EXCEPT !.verdict = "refused"]
<1>1. /\ b \in Conn /\ b.verdict = "refused"
      /\ b.req = c.req /\ b.type = c.type /\ b.query_list = c.query_list
      /\ b.tasks = c.tasks /\ b.results = c.results
  BY DEF Conn
<1> HIDE DEF b
<1>2. LET d == Finished(b, 429)
      IN  d \in Conn /\ d.pc = "reply" /\ d.status = 429 /\ Keeps(d, b)
  BY <1>1, FinishedFields, Constants
<1> QED BY <1>1, <1>2 DEF Keeps, b

Looked(c, ty, l, pc) == [c EXCEPT !.type = ty, !.query_list = l, !.pc = pc]

LEMMA CheckedFields ==
    ASSUME NEW c \in Conn, NEW ty \in {"IP", "MAC"}, NEW l \in Seq(Queries), NEW pc \in PCs
    PROVE  LET d == Looked(c, ty, l, pc)
           IN  /\ d \in Conn /\ d.pc = pc /\ d.status = c.status /\ d.verdict = c.verdict
               /\ d.req = c.req /\ d.type = ty /\ d.query_list = l
               /\ d.tasks = c.tasks /\ d.results = c.results
  BY DEF Conn, Looked

LEMMA TasksFields ==
    ASSUME NEW c \in Conn, NEW l \in Seq(Outcomes)
    PROVE  LET d == [c EXCEPT !.tasks = l]
           IN  /\ d \in Conn /\ d.pc = c.pc /\ d.status = c.status /\ d.verdict = c.verdict
               /\ d.req = c.req /\ d.type = c.type /\ d.query_list = c.query_list
               /\ d.tasks = l /\ d.results = c.results
  BY DEF Conn

LEMMA ResultsFields ==
    ASSUME NEW c \in Conn, NEW l \in Seq(Answers)
    PROVE  LET d == [c EXCEPT !.results = l]
           IN  /\ d \in Conn /\ d.pc = c.pc /\ d.status = c.status /\ d.verdict = c.verdict
               /\ d.req = c.req /\ d.type = c.type /\ d.query_list = c.query_list
               /\ d.tasks = c.tasks /\ d.results = l
  BY DEF Conn

-----------------------------------------------------------------------------
(* The invariant of a handler.  Its route fixes where it may be, and a     *)
(* password request never has queries, tasks or a verdict.                 *)
Looking == {"sequential", "launch", "collect", "unwind"}

Routed(c) ==
    /\ c.pc \in {"prepare", "check"} \cup Looking => c.req.route = "lookup"
    /\ c.pc \in {"parse", "generate"} => c.req.route = "password"
    /\ c.req.route = "password" => c.verdict = "none" /\ c.query_list = <<>> /\ c.tasks = <<>>

(* Nothing is left of the request served before.                           *)
Unstarted(c) ==
    /\ c.pc \in {"prepare", "check", "parse"} =>
           c.query_list = <<>> /\ c.tasks = <<>> /\ c.results = <<>>
    /\ c.pc = "prepare" => c.verdict = "none"

(* The tasks that are not waited for have ended.                           *)
TasksInStep(c) ==
    /\ c.pc \notin {"launch", "collect", "unwind"} =>
           \A i \in DOMAIN c.tasks : c.tasks[i] # "running"
    /\ c.pc = "launch" => c.results = <<>> /\ Len(c.tasks) <= Len(c.query_list)
    /\ c.pc = "collect" => /\ Len(c.tasks) = Len(c.query_list)
                           /\ \A i \in 1..Len(c.results) : c.tasks[i] # "running"
    /\ c.pc = "unwind" => c.query_list # <<>>

(* The answers so far are those to the first queries that passed.          *)
Answering(c) ==
    c.pc \in Looking \/ (c.pc = "reply" /\ c.status = 200 /\ c.req.route = "lookup")
InStep(c) ==
    /\ Answering(c) => /\ c.type = Type(c.req) /\ c.query_list = Checked(c.req)
                       /\ Len(c.results) <= Len(c.query_list)
                       /\ \A i \in 1..Len(c.results) : c.results[i] = <<c.type, c.query_list[i]>>
    /\ Answering(c) /\ c.pc = "reply" => AllCollected(c)

(* What has been admitted was admitted for a reason.                       *)
Keyed(r) == r.header = "bearer" /\ r.key \in KeyFile \cup ({DefaultKey} \ {NoKey})
Begun(c) == c.tasks # <<>> \/ c.results # <<>> \/ c.pc \in {"check"} \cup Looking
Admitted(c) ==
    c.req.route = "lookup" =>
        /\ Begun(c) /\ EnableRateLimiter => c.verdict = "allowed"
        /\ (Begun(c) \/ c.verdict # "none") /\ EnableApiAuth => Keyed(c.req)

(* An error that will be counted is one that the response will tell of.    *)
Counting(c) == c.pc = "record_error" => Excepted(c)

(* A password request that is being answered passed validation, and its    *)
(* passwords come from the generator.                                      *)
Making(c) == c.pc = "generate" \/ (c.pc = "reply" /\ c.status = 200 /\ c.req.route = "password")
Generated(c) ==
    /\ Making(c) => /\ ParseCode(c.req) = 200
                    /\ \A i \in 1..Len(c.results) : c.results[i] \in generate(PasswordConfig(c.req))
    /\ Making(c) /\ c.pc = "reply" => Len(c.results) = Count(c.req)

ThreadOK(c) ==
    c \in Conn /\ Routed(c) /\ Unstarted(c) /\ TasksInStep(c) /\ InStep(c)
    /\ Admitted(c) /\ Counting(c) /\ Generated(c)

-----------------------------------------------------------------------------
(* Answers counted and not yet delivered, and errors counted and not yet   *)
(* told.                                                                   *)
Pending(c) ==
    IF c.pc = "idle" THEN 0
    ELSE IF c.req.route = "password" THEN IF c.pc = "reply" /\ c.status = 200 THEN 1 ELSE 0
    ELSE Len(c.results)
Failing(c) == c.pc = "reply" /\ Excepted(c)

(* The four things a step may do to the counts.                            *)
Quiet(c, d) ==
    /\ UNCHANGED metrics /\ Pending(d) <= Pending(c) /\ ~ Failing(c) /\ ~ Failing(d)
    /\ history'.delivered = history.delivered /\ history'.failed = history.failed
CountsRequest(c, d) ==
    /\ metrics' = [metrics EXCEPT !.requests = @ + 1] /\ UNCHANGED history
    /\ Pending(d) <= Pending(c) + 1 /\ ~ Failing(c) /\ ~ Failing(d)
CountsError(c, d) ==
    /\ metrics' = [metrics EXCEPT !.errors = @ + 1] /\ UNCHANGED history
    /\ Pending(d) <= Pending(c) /\ ~ Failing(c) /\ Failing(d)
Tells(c, d) ==
    /\ UNCHANGED metrics /\ Pending(d) = 0 /\ Delivered(c) <= Pending(c) /\ ~ Failing(d)
    /\ history'.delivered = history.delivered + Delivered(c)
    /\ history'.failed = history.failed + IF Failing(c) THEN 1 ELSE 0

Steps(t, d) ==
    /\ Step(t, d) /\ ThreadOK(d) /\ UNCHANGED api_keys
    /\ Quiet(conn[t], d) \/ CountsRequest(conn[t], d) \/ CountsError(conn[t], d) \/ Tells(conn[t], d)

KeysOK == api_keys \subseteq KeyFile \cup ({DefaultKey} \ {NoKey})

Typed == /\ conn \in [Threads -> Conn]
         /\ metrics \in [requests : Nat, errors : Nat]
         /\ history \in [delivered : Nat, failed : Nat, served : Nat]

Parts == Typed /\ KeysOK /\ \A t \in Threads : ThreadOK(conn[t])

LEMMA Refuse ==
    ASSUME NEW c, ThreadOK(c), c.pc \in {"prepare", "check", "parse"},
           NEW code \in {400, 401, 429, 500}, c.pc = "check" \/ code # 500 \/ Escaped(c.req)
    PROVE  LET d == Finished(c, code)
           IN  ThreadOK(d) /\ Pending(d) <= Pending(c) /\ ~ Failing(d)
<1> DEFINE d == Finished(c, code)
<1>1. d \in Conn /\ d.pc = "reply" /\ d.status = code /\ Keeps(d, c)
  <2>1. c \in Conn /\ code \in Statuses
    BY DEF ThreadOK, Statuses
  <2> QED BY <2>1, FinishedFields
<1> HIDE DEF d
<1>2. /\ c.query_list = <<>> /\ c.tasks = <<>> /\ c.results = <<>>
      /\ c.pc = "prepare" => c.verdict = "none"
  BY DEF ThreadOK, Unstarted
<1>3. /\ d.query_list = <<>> /\ d.tasks = <<>> /\ d.results = <<>> /\ d.verdict = c.verdict
      /\ d.req = c.req
  BY <1>1, <1>2 DEF Keeps
<1>4. Routed(d)
  BY <1>1, <1>3 DEF ThreadOK, Routed, Looking
<1>5. Unstarted(d) /\ TasksInStep(d) /\ InStep(d) /\ Counting(d) /\ Generated(d)
  BY <1>1, <1>3 DEF Generated, Making, Unstarted, TasksInStep, InStep, Counting, Answering, Looking
<1>6. Admitted(d)
  BY <1>1, <1>2, <1>3 DEF ThreadOK, Admitted, Begun, Looking
<1>7. Pending(d) <= Pending(c)
  BY <1>1, <1>2, <1>3 DEF Pending
<1>8. ~ Failing(d)
  BY <1>1, <1>3 DEF Failing, Excepted, ThreadOK, Routed
<1> QED BY <1>1, <1>4, <1>5, <1>6, <1>7, <1>8 DEF ThreadOK, d

(* An exception is answered when no task is left and, if it is counted,    *)
(* the response tells of it.                                               *)
LEMMA Catch ==
    ASSUME NEW c, ThreadOK(c), NEW exception,
           c.pc \in {"sequential", "collect", "unwind", "parse", "generate"},
           \A i \in DOMAIN c.tasks : c.tasks[i] # "running",
           c.query_list # <<>> \/ (c.pc \in {"parse", "generate"} /\ ~ Escaped(c.req))
    PROVE  LET d == Caught(c, exception)
           IN  ThreadOK(d) /\ Pending(d) <= Pending(c) /\ ~ Failing(d)
<1> DEFINE d == Caught(c, exception)
<1>1. /\ d \in Conn /\ Keeps(d, c)
      /\ \/ d.pc = "record_error" /\ d.status = 500
         \/ d.pc = "reply" /\ d.status = 400
  BY CaughtFields DEF ThreadOK
<1> HIDE DEF d
<1>2. d.pc \in {"record_error", "reply"} /\ d.status # 200
  BY <1>1
<1>3. Routed(d)
  BY <1>1, <1>2 DEF ThreadOK, Routed, Looking, Keeps
<1>4. Unstarted(d) /\ TasksInStep(d) /\ InStep(d)
  BY <1>1, <1>2 DEF Keeps, Unstarted, TasksInStep, InStep, Answering, Looking
<1>5. Counting(d) /\ Generated(d)
  BY <1>1, <1>2 DEF Generated, Making, Keeps, Counting, Excepted, ThreadOK, Routed
<1>6. Admitted(d)
  BY <1>1, <1>2 DEF Keeps, ThreadOK, Routed, Admitted, Begun, Looking
<1>7. Pending(d) <= Pending(c)
  <2>1. Len(c.results) \in Nat
    BY DEF ThreadOK, Conn
  <2> QED BY <1>1, <1>2, <2>1 DEF Keeps, Pending
<1>8. ~ Failing(d)
  BY <1>1 DEF Failing, Excepted
<1> QED BY <1>1, <1>3, <1>4, <1>5, <1>6, <1>7, <1>8 DEF ThreadOK, d

(* The next answer is pushed.                                              *)
LEMMA Push ==
    ASSUME NEW c, ThreadOK(c), c.pc \in {"sequential", "collect"}, ~ AllCollected(c),
           NEW i, i = Len(c.results) + 1, c.pc = "collect" => c.tasks[i] # "running"
    PROVE  LET d == [c EXCEPT !.results = Append(@, <<c.type, c.query_list[i]>>)]
           IN  ThreadOK(d) /\ Pending(d) <= Pending(c) + 1 /\ ~ Failing(d)
<1> DEFINE a == <<c.type, c.query_list[i]>>
           l == Append(c.results, a)
           d == [c EXCEPT !.results = l]
<1>1. /\ c.results \in Seq(Answers) /\ c.query_list \in Seq(Queries) /\ c.tasks \in Seq(Outcomes)
      /\ c \in Conn /\ c.type \in {"IP", "MAC"}
  BY DEF ThreadOK, Conn
<1>2. Answering(c) /\ i \in 1..Len(c.query_list) /\ Len(c.results) \in Nat
  BY <1>1 DEF ThreadOK, InStep, Answering, Looking, AllCollected
<1>3. a \in Answers
  <2>1. c.query_list[i] \in Queries
    BY <1>1, <1>2
  <2>2. a \in {"IP", "MAC"} \X Queries
    BY <1>1, <2>1
  <2> QED BY <2>2, Zenon DEF Answers
<1> HIDE DEF a
<1>4. /\ l \in Seq(Answers) /\ Len(l) = Len(c.results) + 1 /\ l[i] = a
      /\ \A j \in 1..Len(c.results) : l[j] = c.results[j]
  BY <1>1, <1>3
<1> HIDE DEF l
<1>5. /\ d \in Conn /\ d.pc = c.pc /\ d.status = c.status /\ d.verdict = c.verdict
      /\ d.req = c.req /\ d.type = c.type /\ d.query_list = c.query_list
      /\ d.tasks = c.tasks /\ d.results = l
  BY <1>1, <1>4, ResultsFields
<1> HIDE DEF d
<1>6. Routed(d) /\ Unstarted(d) /\ Counting(d) /\ Generated(d)
  BY <1>5 DEF Generated, Making, ThreadOK, Routed, Unstarted, Counting
<1>7. TasksInStep(d)
  BY <1>1, <1>2, <1>4, <1>5 DEF ThreadOK, TasksInStep
<1>8. InStep(d)
  <2>1. /\ c.type = Type(c.req) /\ c.query_list = Checked(c.req)
        /\ \A j \in 1..Len(c.results) : c.results[j] = <<c.type, c.query_list[j]>>
    BY <1>2 DEF ThreadOK, InStep
  <2>2. ASSUME NEW j \in 1..Len(l) PROVE l[j] = <<c.type, c.query_list[j]>>
    <3>1. CASE j = i
      BY <1>4, <3>1 DEF a
    <3>2. CASE j \in 1..Len(c.results)
      BY <1>4, <2>1, <3>2
    <3> QED BY <1>2, <1>4, <3>1, <3>2
  <2>3. Len(l) <= Len(c.query_list)
    BY <1>1, <1>2, <1>4
  <2>4. d.pc # "reply"
    BY <1>5
  <2> QED BY <1>5, <2>1, <2>2, <2>3, <2>4 DEF InStep
<1>9. Admitted(d)
  BY <1>5 DEF ThreadOK, Admitted, Begun, Looking
<1>10. Pending(d) <= Pending(c) + 1 /\ ~ Failing(d)
  BY <1>2, <1>4, <1>5 DEF ThreadOK, Routed, Pending, Failing, Looking
<1>11. [c EXCEPT !.results = Append(@, <<c.type, c.query_list[i]>>)] = d
  BY DEF d, l, a
<1> QED BY <1>5, <1>6, <1>7, <1>8, <1>9, <1>10, <1>11 DEF ThreadOK

(* A handler moves on to the futures, to their destruction or to its end.  *)
LEMMA Go ==
    ASSUME NEW c, ThreadOK(c), NEW pc,
           \/ c.pc = "launch" /\ pc = "collect" /\ Len(c.tasks) = Len(c.query_list)
           \/ c.pc \in {"launch", "collect"} /\ pc = "unwind" /\ c.query_list # <<>>
           \/ c.pc = "record_error" /\ pc = "reply"
           \/ c.pc = "reply" /\ pc = "idle"
    PROVE  LET d == [c EXCEPT !.pc = pc]
           IN  ThreadOK(d) /\ d.pc = pc /\ d.status = c.status /\ Keeps(d, c)
<1> DEFINE d == [c EXCEPT !.pc = pc]
<1>1. d \in Conn /\ d.pc = pc /\ d.status = c.status /\ Keeps(d, c)
  <2>1. c \in Conn /\ pc \in PCs
    BY Constants DEF ThreadOK
  <2> QED BY <2>1, GoesFields
<1> HIDE DEF d
<1>2. Routed(d) /\ Unstarted(d) /\ Counting(d)
  BY <1>1 DEF Keeps, ThreadOK, Routed, Unstarted, Counting, Looking
<1>6. c.pc = "record_error" => c.status = 500
  BY DEF ThreadOK, Counting, Excepted
<1>7. Generated(d)
  BY <1>1, <1>6 DEF Generated, Making
<1>3. TasksInStep(d)
  BY <1>1 DEF Keeps, ThreadOK, TasksInStep
<1>4. InStep(d)
  BY <1>1, <1>6 DEF Keeps, ThreadOK, InStep, Answering, Looking
<1>5. Admitted(d)
  BY <1>1 DEF Keeps, ThreadOK, Admitted, Begun, Looking
<1> QED BY <1>1, <1>2, <1>3, <1>4, <1>5, <1>7 DEF ThreadOK, d

-----------------------------------------------------------------------------
(* What each action does to the handler of its thread.                     *)
LEMMA ServeSteps ==
    ASSUME Parts, NEW t \in Threads, NEW r \in Requests, Serve(t, r)
    PROVE  \E d : Steps(t, d)
<1> DEFINE pc == Entry[r.route]
           d == Fresh(pc, r)
<1>1. /\ r.route = "lookup" => pc = "prepare"
      /\ r.route = "password" => pc = "parse"
      /\ r.route \in {"lookup", "password"}
  BY PasswordAssumption DEF Entry
<1>2. pc \in PCs
  BY <1>1, Constants
<1> HIDE DEF pc
<1>3. /\ d.pc = pc /\ d.req = r /\ d.verdict = "none" /\ d.type = "IP"
      /\ d.query_list = <<>> /\ d.tasks = <<>> /\ d.results = <<>> /\ d.status = 200
  BY DEF Fresh
<1>4. d \in Conn
  <2>1. /\ <<>> \in Seq(Queries) /\ <<>> \in Seq(Outcomes) /\ <<>> \in Seq(Answers)
        /\ 200 \in Statuses
    BY Constants
  <2> QED BY <1>2, <2>1 DEF Fresh, Conn
<1>5. Step(t, d) /\ conn[t].pc = "idle" /\ UNCHANGED <<api_keys, metrics>>
  BY DEF Serve, pc
<1>6. history'.delivered = history.delivered /\ history'.failed = history.failed
  BY DEF Serve, Parts, Typed
<1> HIDE DEF d
<1>7. ThreadOK(d)
  <2>1. Routed(d) /\ Unstarted(d)
    BY <1>1, <1>3 DEF Routed, Unstarted, Looking
  <2>2. TasksInStep(d) /\ InStep(d) /\ Counting(d) /\ Generated(d)
    BY <1>1, <1>3 DEF Generated, Making, TasksInStep, InStep, Counting, Answering, Looking
  <2>3. Admitted(d)
    BY <1>1, <1>3 DEF Admitted, Begun, Looking
  <2> QED BY <1>4, <2>1, <2>2, <2>3 DEF ThreadOK
<1>8. Quiet(conn[t], d)
  <2>1. Pending(d) = 0 /\ Pending(conn[t]) = 0
    BY <1>1, <1>3, <1>5 DEF Pending
  <2>2. ~ Failing(d) /\ ~ Failing(conn[t])
    BY <1>1, <1>3, <1>5 DEF Failing
  <2> QED BY <1>5, <1>6, <2>1, <2>2 DEF Quiet
<1> QED BY <1>5, <1>7, <1>8 DEF Steps

(* A step that leaves the counters alone.                                  *)
LEMMA QuietSteps ==
    ASSUME NEW t \in Threads, NEW d, Step(t, d), UNCHANGED <<api_keys, metrics, history>>,
           ThreadOK(d), Pending(d) <= Pending(conn[t]), ~ Failing(d), conn[t].pc # "reply"
    PROVE  \E e : Steps(t, e)
<1>1. Quiet(conn[t], d)
  BY DEF Quiet, Failing
<1> QED BY <1>1 DEF Steps

LEMMA PrepareSteps ==
    ASSUME Parts, NEW t \in Threads, prepare_request(t)
    PROVE  \E d : Steps(t, d)
<1> DEFINE c == conn[t]
<1>1. ThreadOK(c) /\ c.pc = "prepare" /\ UNCHANGED <<api_keys, metrics, history>> /\ KeysOK
  BY DEF Parts, prepare_request
<1>2. /\ c \in Conn /\ c.req.route = "lookup" /\ c.verdict = "none"
      /\ c.query_list = <<>> /\ c.tasks = <<>> /\ c.results = <<>>
  BY <1>1 DEF ThreadOK, Routed, Unstarted
<1>3. \/ Step(t, Finished(c, 401))
      \/ Step(t, Finished(c, 400))
      \/ /\ authenticate_request(c.req) /\ EnableRateLimiter
         /\ Step(t, Finished([c EXCEPT !.verdict = "refused"], 429))
      \/ /\ authenticate_request(c.req)
         /\ Step(t, [c EXCEPT !.verdict = IF EnableRateLimiter THEN "allowed" ELSE "none",
                              !.pc = "check"])
  BY DEF prepare_request
<1> HIDE DEF c
<1>4. ASSUME NEW code \in {400, 401}, Step(t, Finished(c, code)) PROVE \E d : Steps(t, d)
  <2> DEFINE d == Finished(c, code)
  <2>1. ThreadOK(d) /\ Pending(d) <= Pending(c) /\ ~ Failing(d)
    BY <1>1, <1>4, Refuse
  <2> HIDE DEF d
  <2>2. Step(t, d)
    BY <1>4 DEF d
  <2> QED BY <1>1, <2>1, <2>2, QuietSteps DEF c
<1>5. authenticate_request(c.req) /\ EnableApiAuth => Keyed(c.req)
  BY <1>1 DEF authenticate_request, is_valid, KeysOK, Keyed
<1>6. ASSUME NEW d, d \in Conn, d.verdict # "none" \/ d.pc = "check", authenticate_request(c.req),
             \/ d.pc = "reply" /\ d.status = 429
             \/ d.pc = "check" /\ (EnableRateLimiter => d.verdict = "allowed"),
             d.req = c.req, d.query_list = <<>>, d.tasks = <<>>, d.results = <<>>, Step(t, d)
      PROVE  \E e : Steps(t, e)
  <2>1. Routed(d) /\ Unstarted(d)
    BY <1>2, <1>6 DEF Routed, Unstarted, Looking
  <2>2. TasksInStep(d) /\ InStep(d) /\ Counting(d) /\ Generated(d)
    BY <1>6 DEF Generated, Making, TasksInStep, InStep, Counting, Answering, Looking
  <2>3. Admitted(d)
    BY <1>5, <1>6 DEF Admitted, Begun, Looking
  <2>4. ThreadOK(d)
    BY <1>6, <2>1, <2>2, <2>3 DEF ThreadOK
  <2>5. Pending(d) <= Pending(c) /\ ~ Failing(d)
    BY <1>1, <1>2, <1>6 DEF Pending, Failing, Excepted
  <2> QED BY <1>1, <1>6, <2>4, <2>5, QuietSteps DEF c
<1>7. CASE /\ authenticate_request(c.req) /\ EnableRateLimiter
           /\ Step(t, Finished([c EXCEPT !.verdict = "refused"], 429))
  <2> DEFINE d == Finished([c EXCEPT !.verdict = "refused"], 429)
  <2>1. /\ d \in Conn /\ d.pc = "reply" /\ d.status = 429 /\ d.verdict = "refused"
        /\ d.req = c.req /\ d.query_list = c.query_list
        /\ d.tasks = c.tasks /\ d.results = c.results
    BY <1>2, RefusedFields
  <2>2. Step(t, d)
    BY <1>7
  <2> HIDE DEF d
  <2> QED BY <1>2, <1>6, <1>7, <2>1, <2>2
<1>8. CASE /\ authenticate_request(c.req)
           /\ Step(t, [c EXCEPT !.verdict = IF EnableRateLimiter THEN "allowed" ELSE "none",
                                !.pc = "check"])
  <2> DEFINE v == IF EnableRateLimiter THEN "allowed" ELSE "none"
             pc == "check"
             d == Ruled(c, v, pc)
  <2>1. pc = "check" /\ (EnableRateLimiter => v = "allowed")
    OBVIOUS
  <2>4. v \in {"none", "refused", "allowed"} /\ pc \in PCs
    BY Constants
  <2>2. Step(t, d)
    BY <1>8 DEF Ruled
  <2> HIDE DEF v, pc
  <2>3. /\ d \in Conn /\ d.pc = pc /\ d.verdict = v
        /\ d.req = c.req /\ d.query_list = c.query_list
        /\ d.tasks = c.tasks /\ d.results = c.results
    BY <1>2, <2>4, RuledFields
  <2> HIDE DEF d
  <2> QED BY <1>2, <1>6, <1>8, <2>1, <2>2, <2>3
<1> QED BY <1>3, <1>4, <1>7, <1>8

(* The list that is looked up is one of queries.                           *)
LEMMA CheckedType ==
    ASSUME NEW r \in Requests, r.route = "lookup", r.method = "GET" => GetCode(r) = 200
    PROVE  Checked(r) \in Seq(Queries) /\ Type(r) \in {"IP", "MAC"}
<1>1. Type(r) \in {"IP", "MAC"}
  BY DEF Type
<1>2. r.queries \in Seq(Queries)
  BY EndpointAssumption DEF Request
<1>3. CASE r.method = "GET"
  <2>1. GetQuery(r) \in Valid[Type(r)]
    BY <1>3 DEF GetCode
  <2>2. GetQuery(r) \in Queries
    BY <1>1, <2>1, EndpointAssumption
  <2> QED BY <1>1, <1>3, <2>2 DEF Checked
<1>4. CASE r.method # "GET"
  <2>1. Kept(r.queries, Valid[Type(r)])[Len(r.queries)] \in Seq(Queries)
    BY <1>2, KeptInOrder
  <2> QED BY <1>1, <1>4, <2>1 DEF Checked
<1> QED BY <1>3, <1>4

LEMMA CheckSteps ==
    ASSUME Parts, NEW t \in Threads, Check(t)
    PROVE  \E d : Steps(t, d)
<1> DEFINE c == conn[t]
           code == IF c.req.method = "GET" THEN GetCode(c.req) ELSE PostCode(c.req)
           pc == IF Len(Checked(c.req)) <= SequentialMax THEN "sequential" ELSE "launch"
           d == Looked(c, Type(c.req), Checked(c.req), pc)
<1>1. ThreadOK(c) /\ c.pc = "check" /\ UNCHANGED <<api_keys, metrics, history>>
  BY DEF Parts, Check
<1>2. /\ c \in Conn /\ c.req \in Requests /\ c.req.route = "lookup"
      /\ c.query_list = <<>> /\ c.tasks = <<>> /\ c.results = <<>>
  BY <1>1 DEF ThreadOK, Routed, Unstarted, Conn
<1>3. (code # 200 /\ Step(t, Finished(c, code))) \/ (code = 200 /\ Step(t, d))
  BY Zenon DEF Check, Looked
<1>4. code \in {200, 400, 500} /\ (c.req.method = "GET" => GetCode(c.req) = code)
  BY DEF GetCode, PostCode
<1>5. pc \in PCs /\ pc \in {"sequential", "launch"}
  BY Constants
<1> HIDE DEF code, pc, c
<1>6. CASE code # 200 /\ Step(t, Finished(c, code))
  <2> DEFINE e == Finished(c, code)
  <2>1. ThreadOK(e) /\ Pending(e) <= Pending(c) /\ ~ Failing(e)
    BY <1>1, <1>4, <1>6, Refuse
  <2> HIDE DEF e
  <2>2. Step(t, e)
    BY <1>6 DEF e
  <2> QED BY <1>1, <2>1, <2>2, QuietSteps DEF c
<1>7. CASE code = 200 /\ Step(t, d)
  <2>1. Checked(c.req) \in Seq(Queries) /\ Type(c.req) \in {"IP", "MAC"}
    BY <1>2, <1>4, <1>7, CheckedType
  <2>2. /\ d \in Conn /\ d.pc = pc /\ d.status = c.status /\ d.verdict = c.verdict
        /\ d.req = c.req /\ d.type = Type(c.req) /\ d.query_list = Checked(c.req)
        /\ d.tasks = c.tasks /\ d.results = c.results
    BY <1>2, <1>5, <2>1, CheckedFields
  <2> HIDE DEF d
  <2>3. Routed(d) /\ Unstarted(d) /\ Counting(d) /\ Generated(d)
    BY <1>2, <1>5, <2>2 DEF Generated, Making, Routed, Unstarted, Looking, Counting
  <2>4. TasksInStep(d)
    BY <1>2, <1>5, <2>1, <2>2 DEF TasksInStep
  <2>5. InStep(d)
    BY <1>2, <1>5, <2>1, <2>2 DEF InStep
  <2>6. Admitted(d)
    BY <1>1, <1>2, <1>5, <2>2 DEF ThreadOK, Admitted, Begun, Looking
  <2>7. Pending(d) <= Pending(c) /\ ~ Failing(d)
    BY <1>1, <1>2, <1>5, <2>2 DEF Pending, Failing
  <2>8. ThreadOK(d)
    BY <2>2, <2>3, <2>4, <2>5, <2>6 DEF ThreadOK
  <2> QED BY <1>1, <1>7, <2>7, <2>8, QuietSteps DEF c
<1> QED BY <1>3, <1>6, <1>7

(* What Collected and Caught come to.                                      *)
LEMMA CollectedSteps ==
    ASSUME Parts, NEW t \in Threads, NEW i, Collected(t, i), UNCHANGED <<api_keys, history>>,
           conn[t].pc \in {"sequential", "collect"}, ~ AllCollected(conn[t]),
           i = Len(conn[t].results) + 1, conn[t].pc = "collect" => conn[t].tasks[i] # "running"
    PROVE  \E d : Steps(t, d)
<1> DEFINE c == conn[t]
           d == [c EXCEPT !.results = Append(@, <<c.type, c.query_list[i]>>)]
<1>1. ThreadOK(c)
  BY DEF Parts
<1>2. ThreadOK(d) /\ Pending(d) <= Pending(c) + 1 /\ ~ Failing(d)
  BY <1>1, Push
<1>3. Step(t, d) /\ metrics' = [metrics EXCEPT !.requests = @ + 1]
  BY DEF Collected
<1> HIDE DEF d
<1>4. CountsRequest(c, d)
  BY <1>2, <1>3 DEF CountsRequest, Failing
<1> QED BY <1>2, <1>3, <1>4 DEF Steps

LEMMA CaughtSteps ==
    ASSUME Parts, NEW t \in Threads, NEW exception, Step(t, Caught(conn[t], exception)),
           UNCHANGED <<api_keys, metrics, history>>,
           conn[t].pc \in {"sequential", "collect", "unwind", "parse", "generate"},
           \A i \in DOMAIN conn[t].tasks : conn[t].tasks[i] # "running",
           \/ conn[t].query_list # <<>>
           \/ conn[t].pc \in {"parse", "generate"} /\ ~ Escaped(conn[t].req)
    PROVE  \E d : Steps(t, d)
<1> DEFINE d == Caught(conn[t], exception)
<1>1. ThreadOK(conn[t])
  BY DEF Parts
<1>2. ThreadOK(d) /\ Pending(d) <= Pending(conn[t]) /\ ~ Failing(d)
  BY <1>1, Catch
<1>3. Step(t, d)
  OBVIOUS
<1> HIDE DEF d
<1> QED BY <1>2, <1>3, QuietSteps

LEMMA LookupNextSteps ==
    ASSUME Parts, NEW t \in Threads, LookupNext(t)
    PROVE  \E d : Steps(t, d)
<1> DEFINE c == conn[t]
<1>1. ThreadOK(c) /\ c.pc = "sequential" /\ ~ AllCollected(c) /\ UNCHANGED <<api_keys, history>>
  BY DEF Parts, LookupNext
<1>2. CASE Collected(t, Len(c.results) + 1)
  BY <1>1, <1>2, CollectedSteps
<1>3. CASE Step(t, Caught(c, "std")) /\ UNCHANGED metrics
  <2>1. \A i \in DOMAIN c.tasks : c.tasks[i] # "running"
    BY <1>1 DEF ThreadOK, TasksInStep
  <2>2. c.query_list # <<>>
    <3>1. c.query_list \in Seq(Queries) /\ c.results \in Seq(Answers)
      BY <1>1 DEF ThreadOK, Conn
    <3>2. Len(c.results) <= Len(c.query_list)
      BY <1>1 DEF ThreadOK, InStep, Answering, Looking
    <3> QED BY <1>1, <3>1, <3>2 DEF AllCollected
  <2> QED BY <1>1, <1>3, <2>1, <2>2, CaughtSteps
<1> QED BY <1>2, <1>3 DEF LookupNext

(* The step that moves the program counter alone.                          *)
LEMMA GoSteps ==
    ASSUME Parts, NEW t \in Threads, NEW pc, Step(t, [conn[t] EXCEPT !.pc = pc]),
           UNCHANGED <<api_keys, metrics, history>>,
           \/ conn[t].pc = "launch" /\ pc = "collect" /\ Len(conn[t].tasks) = Len(conn[t].query_list)
           \/ conn[t].pc \in {"launch", "collect"} /\ pc = "unwind" /\ conn[t].query_list # <<>>
    PROVE  \E d : Steps(t, d)
<1> DEFINE c == conn[t]
           d == [c EXCEPT !.pc = pc]
<1>1. ThreadOK(c)
  BY DEF Parts
<1>2. ThreadOK(d) /\ d.pc = pc /\ d.status = c.status /\ Keeps(d, c)
  BY <1>1, Go
<1>3. Step(t, d)
  OBVIOUS
<1> HIDE DEF d
<1>4. Pending(d) <= Pending(c) /\ ~ Failing(d)
  <2>1. Len(c.results) \in Nat
    BY <1>1 DEF ThreadOK, Conn
  <2> QED BY <1>2, <2>1 DEF Keeps, Pending, Failing
<1> QED BY <1>2, <1>3, <1>4, QuietSteps

(* A change to the tasks, of which no handler has seen the end.            *)
LEMMA TasksStep ==
    ASSUME Parts, NEW t \in Threads, NEW l \in Seq(Outcomes), Step(t, [conn[t] EXCEPT !.tasks = l]),
           UNCHANGED <<api_keys, metrics, history>>,
           conn[t].pc \in {"launch", "collect", "unwind"},
           conn[t].pc = "launch" => Len(l) <= Len(conn[t].query_list),
           conn[t].pc # "launch" => Len(l) = Len(conn[t].tasks),
           \A i \in DOMAIN conn[t].tasks : conn[t].tasks[i] # "running" => l[i] # "running"
    PROVE  \E d : Steps(t, d)
<1> DEFINE c == conn[t]
           d == [c EXCEPT !.tasks = l]
<1>1. ThreadOK(c)
  BY DEF Parts
<1>2. /\ c \in Conn /\ c.results \in Seq(Answers) /\ c.query_list \in Seq(Queries)
      /\ c.tasks \in Seq(Outcomes)
  BY <1>1 DEF ThreadOK, Conn
<1>3. /\ d \in Conn /\ d.pc = c.pc /\ d.status = c.status /\ d.verdict = c.verdict
      /\ d.req = c.req /\ d.type = c.type /\ d.query_list = c.query_list
      /\ d.tasks = l /\ d.results = c.results
  BY <1>2, TasksFields
<1>4. Step(t, d)
  OBVIOUS
<1> HIDE DEF d
<1>5. c.req.route = "lookup"
  BY <1>1 DEF ThreadOK, Routed, Looking
<1>6. Routed(d) /\ Unstarted(d) /\ Counting(d) /\ Generated(d)
  BY <1>3, <1>5 DEF Generated, Making, Routed, Unstarted, Counting
<1>7. TasksInStep(d)
  <2>1. c.pc = "collect" => Len(c.results) <= Len(c.query_list) /\ Len(c.tasks) = Len(c.query_list)
    BY <1>1 DEF ThreadOK, TasksInStep, InStep, Answering, Looking
  <2>2. c.pc = "collect" => \A i \in 1..Len(c.results) : l[i] # "running"
    BY <1>1, <1>2, <2>1 DEF ThreadOK, TasksInStep
  <2> QED BY <1>1, <1>3, <2>1, <2>2 DEF ThreadOK, TasksInStep
<1>8. InStep(d)
  BY <1>1, <1>3 DEF ThreadOK, InStep, Answering, AllCollected
<1>9. Admitted(d)
  BY <1>1, <1>3 DEF ThreadOK, Admitted, Begun, Looking
<1>10. Pending(d) <= Pending(c) /\ ~ Failing(d)
  BY <1>2, <1>3, <1>5 DEF Pending, Failing
<1> QED BY <1>3, <1>4, <1>6, <1>7, <1>8, <1>9, <1>10, QuietSteps DEF ThreadOK

LEMMA LaunchSteps ==
    ASSUME Parts, NEW t \in Threads, Launch(t)
    PROVE  \E d : Steps(t, d)
<1> DEFINE c == conn[t]
           more == Len(c.tasks) < Len(c.query_list)
<1>1. ThreadOK(c) /\ c.pc = "launch" /\ UNCHANGED <<api_keys, metrics, history>>
  BY DEF Parts, Launch
<1>2. /\ c.tasks \in Seq(Outcomes) /\ c.query_list \in Seq(Queries)
      /\ Len(c.tasks) <= Len(c.query_list)
  BY <1>1 DEF ThreadOK, Conn, TasksInStep
<1>3. CASE more /\ Step(t, [c EXCEPT !.tasks = Append(@, "running")])
  <2> DEFINE l == Append(c.tasks, "running")
  <2>1. /\ l \in Seq(Outcomes) /\ Len(l) = Len(c.tasks) + 1
        /\ \A i \in DOMAIN c.tasks : l[i] = c.tasks[i]
    BY <1>2, Constants
  <2>2. Step(t, [c EXCEPT !.tasks = l])
    BY <1>3
  <2> HIDE DEF l
  <2>3. Len(l) <= Len(c.query_list)
    BY <1>2, <1>3, <2>1
  <2> QED BY <1>1, <2>1, <2>2, <2>3, TasksStep
<1>4. CASE more /\ Step(t, [c EXCEPT !.pc = "unwind"])
  <2>1. c.query_list # <<>>
    BY <1>2, <1>4
  <2> QED BY <1>1, <1>4, <2>1, GoSteps
<1>5. CASE ~ more /\ Step(t, [c EXCEPT !.pc = "collect"])
  <2>1. Len(c.tasks) = Len(c.query_list)
    BY <1>2, <1>5
  <2> QED BY <1>1, <1>5, <2>1, GoSteps
<1> QED BY <1>3, <1>4, <1>5 DEF Launch

LEMMA TaskSteps ==
    ASSUME Parts, NEW t \in Threads, Task(t)
    PROVE  \E d : Steps(t, d)
<1> DEFINE c == conn[t]
<1>1. PICK i \in DOMAIN c.tasks : TaskEnds(t, i)
  BY DEF Task
<1>2. PICK outcome \in {"answer", "exception"} : Step(t, [c EXCEPT !.tasks[i] = outcome])
  BY <1>1 DEF TaskEnds
<1>3. c.tasks[i] = "running" /\ UNCHANGED <<api_keys, metrics, history>>
  BY <1>1 DEF TaskEnds
<1>4. ThreadOK(c) /\ c.tasks \in Seq(Outcomes) /\ c.query_list \in Seq(Queries)
  BY DEF Parts, ThreadOK, Conn
<1>5. c.pc \in {"launch", "collect", "unwind"}
  BY <1>3, <1>4 DEF ThreadOK, TasksInStep
<1> DEFINE l == [c.tasks EXCEPT ![i] = outcome]
<1>6. l \in Seq(Outcomes) /\ Len(l) = Len(c.tasks)
  BY <1>4, Constants
<1>7. \A j \in DOMAIN c.tasks : c.tasks[j] # "running" => l[j] # "running"
  BY <1>4
<1>8. Step(t, [c EXCEPT !.tasks = l])
  BY <1>2
<1> HIDE DEF l
<1>9. c.pc = "launch" => Len(l) <= Len(c.query_list)
  BY <1>4, <1>6 DEF ThreadOK, TasksInStep
<1> QED BY <1>3, <1>5, <1>6, <1>7, <1>8, <1>9, TasksStep

LEMMA CollectSteps ==
    ASSUME Parts, NEW t \in Threads, Collect(t)
    PROVE  \E d : Steps(t, d)
<1> DEFINE c == conn[t]
           i == Len(c.results) + 1
<1>1. ThreadOK(c) /\ c.pc = "collect" /\ ~ AllCollected(c) /\ UNCHANGED <<api_keys, history>>
  BY DEF Parts, Collect
<1>2. \/ c.tasks[i] = "answer" /\ Collected(t, i)
      \/ Step(t, [c EXCEPT !.pc = "unwind"]) /\ UNCHANGED metrics
  BY DEF Collect, Due
<1>3. CASE c.tasks[i] = "answer" /\ Collected(t, i)
  BY <1>1, <1>3, CollectedSteps
<1>4. CASE Step(t, [c EXCEPT !.pc = "unwind"]) /\ UNCHANGED metrics
  <2>1. c.query_list \in Seq(Queries) /\ c.results \in Seq(Answers)
    BY <1>1 DEF ThreadOK, Conn
  <2>2. Len(c.results) <= Len(c.query_list)
    BY <1>1 DEF ThreadOK, InStep, Answering, Looking
  <2>3. c.query_list # <<>>
    BY <1>1, <2>1, <2>2 DEF AllCollected
  <2> QED BY <1>1, <1>4, <2>3, GoSteps
<1> QED BY <1>2, <1>3, <1>4

LEMMA UnwindSteps ==
    ASSUME Parts, NEW t \in Threads, Unwind(t)
    PROVE  \E d : Steps(t, d)
<1>1. /\ conn[t].pc = "unwind" /\ Joined(conn[t]) /\ Step(t, Caught(conn[t], "std"))
      /\ UNCHANGED <<api_keys, metrics, history>>
  BY DEF Unwind
<1>2. conn[t].query_list # <<>>
  BY <1>1 DEF Parts, ThreadOK, TasksInStep
<1> QED BY <1>1, <1>2, CaughtSteps DEF Joined

LEMMA DumpSteps ==
    ASSUME Parts, NEW t \in Threads, Dump(t)
    PROVE  \E d : Steps(t, d)
<1> DEFINE c == conn[t]
<1>1. /\ ThreadOK(c) /\ c.pc \in {"sequential", "collect"} /\ AllCollected(c)
      /\ UNCHANGED <<api_keys, metrics, history>>
  BY DEF Parts, Dump
<1>2. c \in Conn /\ c.query_list \in Seq(Queries) /\ c.results \in Seq(Answers)
      /\ c.tasks \in Seq(Outcomes) /\ Len(c.results) = Len(c.query_list)
  BY <1>1 DEF ThreadOK, Conn, AllCollected
<1>3. \A i \in DOMAIN c.tasks : c.tasks[i] # "running"
  <2>1. c.pc = "collect" => /\ Len(c.tasks) = Len(c.results)
                           /\ \A i \in 1..Len(c.results) : c.tasks[i] # "running"
    BY <1>1, <1>2 DEF ThreadOK, TasksInStep
  <2>2. c.pc = "sequential" => \A i \in DOMAIN c.tasks : c.tasks[i] # "running"
    BY <1>1 DEF ThreadOK, TasksInStep
  <2> QED BY <1>1, <1>2, <2>1, <2>2
<1>4. CASE Step(t, Finished(c, 200))
  <2> DEFINE code == 200
             d == Finished(c, code)
  <2>1. code \in Statuses /\ Step(t, d) /\ code = 200
    BY <1>4, Constants
  <2> HIDE DEF code
  <2>2. d \in Conn /\ d.pc = "reply" /\ d.status = code /\ Keeps(d, c)
    BY <1>2, <2>1, FinishedFields
  <2> HIDE DEF d
  <2>3. Routed(d) /\ Unstarted(d) /\ Counting(d) /\ Generated(d)
    BY <1>1, <2>2 DEF Generated, Making, Keeps, ThreadOK, Routed, Unstarted, Counting, Looking
  <2>4. TasksInStep(d)
    BY <1>3, <2>2 DEF Keeps, TasksInStep
  <2>5. InStep(d)
    <3>1. Answering(c)
      BY <1>1 DEF Answering, Looking
    <3> QED BY <1>1, <2>2, <3>1 DEF Keeps, ThreadOK, InStep, AllCollected
  <2>6. Admitted(d)
    BY <1>1, <2>2 DEF Keeps, ThreadOK, Admitted, Begun, Looking
  <2>7. Pending(d) <= Pending(c)
    <3>1. c.req.route = "lookup" /\ Len(c.results) \in Nat
      BY <1>1, <1>2 DEF ThreadOK, Routed, Looking
    <3> QED BY <1>1, <2>2, <3>1 DEF Keeps, Pending
  <2>8. ~ Failing(d)
    BY <2>2, <2>1 DEF Failing, Excepted
  <2>9. ThreadOK(d)
    BY <2>2, <2>3, <2>4, <2>5, <2>6 DEF ThreadOK
  <2> QED BY <1>1, <2>1, <2>7, <2>8, <2>9, QuietSteps
<1>5. CASE c.results # <<>> /\ Step(t, Caught(c, "json"))
  <2>1. c.query_list # <<>>
    BY <1>2, <1>5
  <2> QED BY <1>1, <1>3, <1>5, <2>1, CaughtSteps
<1> QED BY <1>4, <1>5 DEF Dump

LEMMA ErrorSteps ==
    ASSUME Parts, NEW t \in Threads, record_error(t)
    PROVE  \E d : Steps(t, d)
<1> DEFINE c == conn[t]
           d == [c EXCEPT !.pc = "reply"]
<1>1. /\ ThreadOK(c) /\ c.pc = "record_error" /\ Excepted(c) /\ Step(t, d)
      /\ metrics' = [metrics EXCEPT !.errors = @ + 1] /\ UNCHANGED <<api_keys, history>>
  BY DEF Parts, record_error, ThreadOK, Counting
<1>2. ThreadOK(d) /\ d.pc = "reply" /\ d.status = c.status /\ Keeps(d, c)
  BY <1>1, Go
<1> HIDE DEF d
<1>3. Failing(d) /\ ~ Failing(c)
  BY <1>1, <1>2 DEF Keeps, Failing, Excepted
<1>4. Pending(d) <= Pending(c)
  <2>1. Len(c.results) \in Nat /\ c.status = 500
    BY <1>1 DEF ThreadOK, Conn, Excepted
  <2> QED BY <1>1, <1>2, <2>1 DEF Keeps, Pending
<1>5. CountsError(c, d)
  BY <1>1, <1>3, <1>4 DEF CountsError
<1> QED BY <1>1, <1>2, <1>5 DEF Steps

LEMMA ReplySteps ==
    ASSUME Parts, NEW t \in Threads, Reply(t)
    PROVE  \E d : Steps(t, d)
<1> DEFINE c == conn[t]
           d == [c EXCEPT !.pc = "idle"]
<1>1. /\ ThreadOK(c) /\ c.pc = "reply" /\ Step(t, d)
      /\ UNCHANGED <<api_keys, metrics>>
      /\ history' = [history EXCEPT !.delivered = @ + Delivered(c),
                                    !.failed = @ + IF Excepted(c) THEN 1 ELSE 0]
  BY DEF Parts, Reply
<1>2. ThreadOK(d) /\ d.pc = "idle"
  BY <1>1, Go
<1> HIDE DEF d
<1>3. Pending(d) = 0 /\ ~ Failing(d) /\ (Failing(c) <=> Excepted(c))
  BY <1>1, <1>2 DEF Pending, Failing
<1>4. Delivered(c) <= Pending(c)
  <2>1. Len(c.results) \in Nat
    BY <1>1 DEF ThreadOK, Conn
  <2> QED BY <1>1, <2>1 DEF Delivered, Pending
<1>5. /\ history'.delivered = history.delivered + Delivered(c)
      /\ history'.failed = history.failed + IF Failing(c) THEN 1 ELSE 0
  BY <1>1, <1>3 DEF Parts, Typed
<1>6. Tells(c, d)
  BY <1>1, <1>3, <1>4, <1>5 DEF Tells
<1> QED BY <1>1, <1>2, <1>6 DEF Steps

-----------------------------------------------------------------------------
LEMMA ParseSteps ==
    ASSUME Parts, NEW t \in Threads, ParsePassword(t)
    PROVE  \E d : Steps(t, d)
<1> DEFINE c == conn[t]
<1>1. /\ ThreadOK(c) /\ c.pc = "parse" /\ UNCHANGED <<api_keys, metrics, history>>
  BY DEF Parts, ParsePassword
<1>2. /\ c \in Conn /\ c.req.route = "password" /\ c.verdict = "none" /\ c.query_list = <<>>
      /\ c.tasks = <<>> /\ c.results = <<>>
  BY <1>1 DEF ThreadOK, Routed, Unstarted
<1>3. CASE ParseCode(c.req) = 200 /\ Step(t, [c EXCEPT !.pc = "generate"])
  <2> DEFINE pc == "generate"
             d == [c EXCEPT !.pc = pc]
  <2>1. pc \in PCs /\ pc = "generate" /\ Step(t, d)
    BY <1>3, Constants
  <2> HIDE DEF pc
  <2>2. d \in Conn /\ d.pc = pc /\ d.status = c.status /\ Keeps(d, c)
    BY <1>2, <2>1, GoesFields
  <2> HIDE DEF d, c
  <2>3. /\ d.req = c.req /\ d.verdict = "none" /\ d.query_list = <<>> /\ d.tasks = <<>>
        /\ d.results = <<>> /\ d.pc = "generate"
    BY <1>2, <2>1, <2>2 DEF Keeps
  <2>4. Routed(d) /\ Unstarted(d) /\ TasksInStep(d)
    BY <1>2, <2>3 DEF Routed, Unstarted, TasksInStep, Looking
  <2>5. InStep(d) /\ Counting(d) /\ Admitted(d)
    BY <1>2, <2>3 DEF InStep, Answering, Counting, Admitted, Looking
  <2>6. Generated(d)
    BY <1>3, <2>3 DEF Generated, Making
  <2>7. ThreadOK(d) /\ Pending(d) <= Pending(c) /\ ~ Failing(d)
    BY <1>1, <1>2, <2>2, <2>3, <2>4, <2>5, <2>6 DEF ThreadOK, Pending, Failing
  <2> QED BY <1>1, <2>1, <2>7, QuietSteps DEF c
<1>4. CASE /\ ParseCode(c.req) = 400 \/ Escaped(c.req)
           /\ Step(t, Finished(c, ParseCode(c.req)))
  <2> DEFINE code == ParseCode(c.req)
             d == Finished(c, code)
  <2>1. code \in {400, 401, 429, 500} /\ (code # 500 \/ Escaped(c.req)) /\ Step(t, d)
    BY <1>4 DEF ParseCode
  <2> HIDE DEF code
  <2>2. ThreadOK(d) /\ Pending(d) <= Pending(c) /\ ~ Failing(d)
    BY <1>1, <2>1, Refuse
  <2> HIDE DEF d
  <2> QED BY <1>1, <2>1, <2>2, QuietSteps
<1>5. CASE ~ Escaped(c.req) /\ Step(t, Caught(c, "std"))
  <2>1. \A i \in DOMAIN c.tasks : c.tasks[i] # "running"
    BY <1>2
  <2> QED BY <1>1, <1>5, <2>1, CaughtSteps
<1> QED BY <1>3, <1>4, <1>5, Zenon DEF ParsePassword

(* A generator answers or throws; it is only run for a request that        *)
(* passed, so that its exception is counted and told.                      *)
LEMMA GeneratedSteps ==
    ASSUME Parts, NEW t \in Threads, conn[t].pc = "generate",
           UNCHANGED <<api_keys, metrics, history>>, NEW w \in generate(PasswordConfig(conn[t].req)),
           Step(t, [conn[t] EXCEPT !.results = Append(@, w)])
    PROVE  \E d : Steps(t, d)
<1> DEFINE c == conn[t]
<1>1. /\ ThreadOK(c) /\ c.pc = "generate" /\ UNCHANGED <<api_keys, metrics, history>>
  BY DEF Parts
<1>3. /\ c \in Conn /\ c.req \in Requests /\ c.results \in Seq(Answers) /\ c.req.route = "password"
      /\ c.query_list = <<>> /\ c.tasks = <<>> /\ c.verdict = "none"
  BY <1>1 DEF ThreadOK, Routed, Conn
<1>4. w \in Answers
  BY <1>3, Zenon DEF Answers
<1> DEFINE l == Append(c.results, w)
           d == [c EXCEPT !.results = l]
<1>5. /\ l \in Seq(Answers) /\ Len(l) = Len(c.results) + 1 /\ l[Len(l)] = w
      /\ \A j \in 1..Len(c.results) : l[j] = c.results[j]
  BY <1>3, <1>4
<1>6. Step(t, d)
  OBVIOUS
<1> HIDE DEF l
<1>7. /\ d \in Conn /\ d.pc = c.pc /\ d.status = c.status /\ d.verdict = c.verdict
      /\ d.req = c.req /\ d.type = c.type /\ d.query_list = c.query_list
      /\ d.tasks = c.tasks /\ d.results = l
  BY <1>3, <1>5, ResultsFields
<1> HIDE DEF d
<1>8. Routed(d) /\ Unstarted(d) /\ TasksInStep(d)
  BY <1>1, <1>3, <1>7 DEF Routed, Unstarted, TasksInStep, Looking
<1>9. InStep(d) /\ Counting(d) /\ Admitted(d)
  BY <1>1, <1>3, <1>7 DEF InStep, Answering, Counting, Admitted, Looking
<1>10. Generated(d)
  <2>1. /\ ParseCode(c.req) = 200
        /\ \A i \in 1..Len(c.results) : c.results[i] \in generate(PasswordConfig(c.req))
    BY <1>1 DEF ThreadOK, Generated, Making
  <2>2. ASSUME NEW i \in 1..Len(l) PROVE l[i] \in generate(PasswordConfig(c.req))
    <3>1. i \in 1..Len(c.results) \/ i = Len(l)
      BY <1>3, <1>5
    <3> QED BY <1>5, <2>1, <3>1
  <2> QED BY <1>1, <1>7, <2>1, <2>2 DEF Generated
<1>11. ThreadOK(d) /\ Pending(d) <= Pending(c) /\ ~ Failing(d)
  BY <1>1, <1>3, <1>7, <1>8, <1>9, <1>10 DEF ThreadOK, Pending, Failing
<1> QED BY <1>1, <1>6, <1>11, QuietSteps

LEMMA GenerateSteps ==
    ASSUME Parts, NEW t \in Threads, GenerateNext(t)
    PROVE  \E d : Steps(t, d)
<1> DEFINE c == conn[t]
<1>1. /\ ThreadOK(c) /\ c.pc = "generate" /\ UNCHANGED <<api_keys, metrics, history>>
  BY DEF Parts, GenerateNext
<1>2. CASE \E w \in generate(PasswordConfig(c.req)) : Step(t, [c EXCEPT !.results = Append(@, w)])
  BY <1>1, <1>2, GeneratedSteps
<1>3. CASE Step(t, Caught(c, "std"))
  <2>1. ParseCode(c.req) = 200 /\ c.tasks = <<>>
    BY <1>1 DEF ThreadOK, Generated, Making, Routed
  <2>2. ~ Escaped(c.req)
    BY <2>1 DEF ParseCode
  <2>3. \A i \in DOMAIN c.tasks : c.tasks[i] # "running"
    BY <2>1
  <2> QED BY <1>1, <1>3, <2>2, <2>3, CaughtSteps
<1> QED BY <1>2, <1>3, Zenon DEF GenerateNext

LEMMA RecordSteps ==
    ASSUME Parts, NEW t \in Threads, RecordPasswords(t)
    PROVE  \E d : Steps(t, d)
<1> DEFINE c == conn[t]
           code == 200
           d == Finished(c, code)
<1>1. /\ ThreadOK(c) /\ c.pc = "generate" /\ UNCHANGED <<api_keys, history>>
      /\ Len(c.results) = Count(c.req) /\ metrics' = [metrics EXCEPT !.requests = @ + 1]
      /\ Step(t, d)
  BY DEF Parts, RecordPasswords
<1>2. /\ c \in Conn /\ c.req.route = "password" /\ c.verdict = "none" /\ c.query_list = <<>>
      /\ c.tasks = <<>>
  BY <1>1 DEF ThreadOK, Routed
<1>3. code \in Statuses /\ code = 200
  BY Constants
<1> HIDE DEF code
<1>4. d \in Conn /\ d.pc = "reply" /\ d.status = code /\ Keeps(d, c)
  BY <1>2, <1>3, FinishedFields
<1> HIDE DEF d
<1>5. /\ d.req = c.req /\ d.verdict = "none" /\ d.query_list = <<>> /\ d.tasks = <<>>
      /\ d.results = c.results
  BY <1>2, <1>4 DEF Keeps
<1>6. Routed(d) /\ Unstarted(d) /\ TasksInStep(d)
  BY <1>2, <1>4, <1>5 DEF Routed, Unstarted, TasksInStep, Looking
<1>7. InStep(d) /\ Counting(d) /\ Admitted(d)
  BY <1>2, <1>4, <1>5 DEF InStep, Answering, Counting, Admitted, Looking
<1>8. Generated(d)
  BY <1>1, <1>4, <1>5 DEF ThreadOK, Generated, Making
<1>9. ThreadOK(d)
  BY <1>4, <1>6, <1>7, <1>8 DEF ThreadOK
<1>10. Pending(d) = 1 /\ Pending(c) = 0 /\ ~ Failing(c) /\ ~ Failing(d)
  BY <1>1, <1>2, <1>3, <1>4, <1>5 DEF Pending, Failing, Excepted
<1>11. CountsRequest(c, d)
  BY <1>1, <1>10 DEF CountsRequest
<1> QED BY <1>1, <1>9, <1>11 DEF Steps

(* A step of either route is a step of one handler.                        *)
LEMMA NextSteps ==
    ASSUME Parts, ServerNext
    PROVE  \E t \in Threads : \E d : Steps(t, d)
<1>1. CASE Next
  <2>1. PICK t \in Threads : (\E r \in Requests : Serve(t, r)) \/ Handle(t) \/ Task(t)
    BY <1>1 DEF Next
  <2>2. CASE \E r \in Requests : Serve(t, r)
    BY <2>2, ServeSteps
  <2>3. CASE Handle(t)
    BY <2>3, PrepareSteps, CheckSteps, LookupNextSteps, LaunchSteps, CollectSteps, UnwindSteps,
       DumpSteps, ErrorSteps, ReplySteps DEF Handle
  <2>4. CASE Task(t)
    BY <2>4, TaskSteps
  <2> QED BY <2>1, <2>2, <2>3, <2>4
<1>2. CASE \E t \in Threads : HandlePassword(t)
  BY <1>2, ParseSteps, GenerateSteps, RecordSteps DEF HandlePassword
<1> QED BY <1>1, <1>2 DEF ServerNext

LEMMA HistoryTyped ==
    ASSUME Parts, ServerNext
    PROVE  history' \in [delivered : Nat, failed : Nat, served : Nat]
<1>1. history \in [delivered : Nat, failed : Nat, served : Nat]
  BY DEF Parts, Typed
<1>2. ASSUME NEW t \in Threads, NEW r \in Requests, Serve(t, r)
      PROVE  history' \in [delivered : Nat, failed : Nat, served : Nat]
  BY <1>1, <1>2 DEF Serve
<1>3. ASSUME NEW t \in Threads, Reply(t)
      PROVE  history' \in [delivered : Nat, failed : Nat, served : Nat]
  <2> DEFINE n == Delivered(conn[t])
             k == IF Excepted(conn[t]) THEN 1 ELSE 0
  <2>1. Len(conn[t].results) \in Nat
    BY DEF Parts, ThreadOK, Conn
  <2>2. n \in Nat /\ k \in Nat
    BY <2>1 DEF Delivered
  <2> DEFINE a == history.delivered + n
             b == history.failed + k
  <2>3. history' = [history EXCEPT !.delivered = a, !.failed = b]
    BY <1>3 DEF Reply
  <2> HIDE DEF n, k
  <2>4. a \in Nat /\ b \in Nat
    BY <1>1, <2>2
  <2> HIDE DEF a, b
  <2> QED BY <1>1, <2>3, <2>4
<1>4. CASE UNCHANGED history
  BY <1>1, <1>4
<1>5. ASSUME NEW t \in Threads, Handle(t), ~ Reply(t) PROVE UNCHANGED history
  BY <1>5 DEF Handle, prepare_request, Check, LookupNext, Launch, Collect, Unwind, Dump, record_error
<1>6. ASSUME NEW t \in Threads, Task(t) \/ HandlePassword(t) PROVE UNCHANGED history
  BY <1>6 DEF Task, TaskEnds, HandlePassword, ParsePassword, GenerateNext, RecordPasswords
<1> QED BY <1>2, <1>3, <1>4, <1>5, <1>6 DEF ServerNext, Next

-----------------------------------------------------------------------------
(* The inductive invariant: every handler is in step; the answers counted  *)
(* cover those delivered and those still to be delivered, and the errors   *)
(* counted are those told and those still to be told.                      *)
Owed == Total([t \in Threads |-> Pending(conn[t])], Threads)
AnswersCounted == history.delivered + Owed <= metrics.requests
ErrorsCounted ==
    metrics.errors = history.failed + Cardinality({t \in Threads : Failing(conn[t])})
EndpointInv == Parts /\ AnswersCounted /\ ErrorsCounted

LEMMA PendingNat == ASSUME NEW c, ThreadOK(c) PROVE Pending(c) \in Nat
  BY DEF ThreadOK, Conn, Pending

LEMMA OwedChanged ==
    ASSUME Parts, NEW t \in Threads, NEW d, Steps(t, d)
    PROVE  Owed' = Owed - Pending(conn[t]) + Pending(d) /\ Owed \in Int
<1> DEFINE f == [s \in Threads |-> Pending(conn[s])]
           g == [s \in Threads |-> Pending(conn'[s])]
<1>1. conn' = [conn EXCEPT ![t] = d] /\ ThreadOK(d) /\ conn \in [Threads -> Conn]
  BY DEF Parts, Typed, Steps, Step
<1>2. conn'[t] = d /\ \A s \in Threads : s # t => conn'[s] = conn[s]
  BY <1>1
<1>3. \A s \in Threads : Pending(conn[s]) \in Nat
  BY PendingNat DEF Parts
<1>4. Pending(d) \in Nat
  BY <1>1, PendingNat
<1>5. f[t] = Pending(conn[t]) /\ g[t] = Pending(d)
  BY <1>2
<1>6. \A s \in Threads : f[s] \in Int /\ (s # t => f[s] = g[s])
  BY <1>2, <1>3
<1>7. Owed = Total(f, Threads) /\ Owed' = Total(g, Threads)
  BY Zenon DEF Owed
<1> HIDE DEF f, g
<1>8. IsFiniteSet(Threads)
  BY EndpointAssumption
<1>9. Total(g, Threads) = Total(f, Threads) - f[t] + g[t]
  BY <1>4, <1>5, <1>6, <1>8, TotalChanged
<1>10. Total(f, Threads) \in Int
  BY <1>6, <1>8, TotalSplit
<1> QED BY <1>5, <1>7, <1>9, <1>10

(* What a step does to the set of handlers whose errors are still untold.  *)
LEMMA FailingChanged ==
    ASSUME Parts, NEW t \in Threads, NEW d, Steps(t, d)
    PROVE  LET F == {s \in Threads : Failing(conn[s])}
               G == {s \in Threads : Failing(conn'[s])}
           IN  /\ Cardinality(F) \in Nat
               /\ (Failing(conn[t]) <=> Failing(d)) => Cardinality(G) = Cardinality(F)
               /\ ~ Failing(conn[t]) /\ Failing(d) => Cardinality(G) = Cardinality(F) + 1
               /\ Failing(conn[t]) /\ ~ Failing(d) => Cardinality(G) = Cardinality(F) - 1
<1> DEFINE F == {s \in Threads : Failing(conn[s])}
           G == {s \in Threads : Failing(conn'[s])}
<1>1. conn' = [conn EXCEPT ![t] = d] /\ conn \in [Threads -> Conn]
  BY DEF Parts, Typed, Steps, Step
<1>2. conn'[t] = d /\ \A s \in Threads : s # t => conn'[s] = conn[s]
  BY <1>1
<1>3. IsFiniteSet(F)
  BY EndpointAssumption, FS_Subset
<1>4. Cardinality(F) \in Nat
  BY <1>3, FS_CardinalityType
<1>5. (Failing(conn[t]) <=> Failing(d)) => G = F
  BY <1>2
<1>6. ASSUME ~ Failing(conn[t]), Failing(d) PROVE G = F \cup {t} /\ t \notin F
  BY <1>2, <1>6
<1>7. ASSUME Failing(conn[t]), ~ Failing(d) PROVE G = F \ {t} /\ t \in F
  BY <1>2, <1>7
<1> HIDE DEF F, G
<1>8. ASSUME ~ Failing(conn[t]), Failing(d) PROVE Cardinality(G) = Cardinality(F) + 1
  BY <1>3, <1>6, <1>8, FS_AddElement
<1>9. ASSUME Failing(conn[t]), ~ Failing(d) PROVE Cardinality(G) = Cardinality(F) - 1
  BY <1>3, <1>7, <1>9, FS_RemoveElement
<1> QED BY <1>4, <1>5, <1>8, <1>9 DEF F, G

LEMMA StepsKeepCounts ==
    ASSUME EndpointInv, NEW t \in Threads, NEW d, Steps(t, d)
    PROVE  /\ AnswersCounted' /\ ErrorsCounted'
           /\ metrics' \in [requests : Nat, errors : Nat]
<1> DEFINE c == conn[t]
<1>1. /\ metrics \in [requests : Nat, errors : Nat]
      /\ history.delivered \in Nat /\ history.failed \in Nat
  BY DEF EndpointInv, Parts, Typed
<1>2. /\ metrics.requests \in Nat /\ metrics.errors \in Nat
      /\ history.delivered + Owed <= metrics.requests
  BY <1>1 DEF EndpointInv, AnswersCounted
<1>3. Parts /\ ThreadOK(c) /\ ThreadOK(d)
  BY DEF EndpointInv, Parts, Steps
<1>4. Pending(c) \in Nat /\ Pending(d) \in Nat
  BY <1>3, PendingNat
<1>5. Owed' = Owed - Pending(c) + Pending(d) /\ Owed \in Int
  BY <1>3, OwedChanged
<1> DEFINE n == Cardinality({s \in Threads : Failing(conn[s])})
           m == Cardinality({s \in Threads : Failing(conn'[s])})
<1>6. /\ n \in Nat
      /\ (Failing(c) <=> Failing(d)) => m = n
      /\ ~ Failing(c) /\ Failing(d) => m = n + 1
      /\ Failing(c) /\ ~ Failing(d) => m = n - 1
  BY <1>3, FailingChanged
<1>7. metrics.errors = history.failed + n
  BY Zenon DEF EndpointInv, ErrorsCounted
<1>8. ASSUME history'.delivered + Owed' <= metrics'.requests,
             metrics'.errors = history'.failed + m
      PROVE  AnswersCounted' /\ ErrorsCounted'
  BY <1>8, Zenon DEF AnswersCounted, ErrorsCounted
<1> HIDE DEF n, m, c
<1>9. CASE Quiet(c, d)
  BY <1>1, <1>2, <1>4, <1>5, <1>6, <1>7, <1>8, <1>9 DEF Quiet
<1>10. CASE CountsRequest(c, d)
  <2>1. /\ metrics'.requests = metrics.requests + 1 /\ metrics'.errors = metrics.errors
        /\ metrics' \in [requests : Nat, errors : Nat]
    BY <1>1, <1>10 DEF CountsRequest
  <2> QED BY <1>1, <1>2, <1>4, <1>5, <1>6, <1>7, <1>8, <1>10, <2>1 DEF CountsRequest
<1>11. CASE CountsError(c, d)
  <2>1. /\ metrics'.requests = metrics.requests /\ metrics'.errors = metrics.errors + 1
        /\ metrics' \in [requests : Nat, errors : Nat]
    BY <1>1, <1>11 DEF CountsError
  <2> QED BY <1>1, <1>2, <1>4, <1>5, <1>6, <1>7, <1>8, <1>11, <2>1 DEF CountsError
<1>12. CASE Tells(c, d)
  <2>1. Delivered(c) \in Nat
    BY <1>3 DEF ThreadOK, Conn, Delivered
  <2> QED BY <1>1, <1>2, <1>4, <1>5, <1>6, <1>7, <1>8, <1>12, <2>1 DEF Tells
<1> QED BY <1>9, <1>10, <1>11, <1>12 DEF Steps, c

LEMMA EndpointInit == ASSUME Init PROVE EndpointInv
<1> DEFINE r == CHOOSE r \in Requests : TRUE
<1>1. r \in Requests
  BY EndpointAssumption
<1>2. /\ conn = [t \in Threads |-> Fresh("idle", r)]
      /\ metrics = [requests |-> 0, errors |-> 0]
      /\ history = [delivered |-> 0, failed |-> 0, served |-> 0]
  BY DEF Init
<1> HIDE DEF r
<1> DEFINE c == Fresh("idle", r)
<1>3. /\ c.pc = "idle" /\ c.req = r /\ c.verdict = "none" /\ c.type = "IP"
      /\ c.query_list = <<>> /\ c.tasks = <<>> /\ c.results = <<>> /\ c.status = 200
  BY DEF Fresh
<1>4. c \in Conn
  <2>1. /\ <<>> \in Seq(Queries) /\ <<>> \in Seq(Outcomes) /\ <<>> \in Seq(Answers)
        /\ 200 \in Statuses /\ "idle" \in PCs
    BY Constants
  <2> QED BY <1>1, <2>1 DEF Fresh, Conn
<1>5. \A t \in Threads : conn[t] = c
  BY <1>2
<1>6. conn \in [Threads -> Conn]
  BY <1>2, <1>4
<1> HIDE DEF c
<1>7. ThreadOK(c)
  <2>1. Routed(c) /\ Unstarted(c) /\ TasksInStep(c)
    BY <1>3 DEF Routed, Unstarted, TasksInStep, Looking
  <2>2. InStep(c) /\ Admitted(c) /\ Counting(c) /\ Generated(c)
    BY <1>3 DEF InStep, Answering, Admitted, Begun, Counting, Generated, Making, Looking
  <2> QED BY <1>4, <2>1, <2>2 DEF ThreadOK
<1>8. KeysOK
  BY EndpointAssumption DEF Init, KeysOK, add_key, load_keys_from_file
<1>9. Parts
  BY <1>2, <1>5, <1>6, <1>7, <1>8 DEF Parts, Typed
<1>10. AnswersCounted
  <2> DEFINE f == [t \in Threads |-> Pending(conn[t])]
  <2>1. \A t \in Threads : f[t] = 0
    BY <1>3, <1>5 DEF Pending
  <2> HIDE DEF f
  <2>2. Total(f, Threads) = 0
    BY <2>1, EndpointAssumption, TotalZero
  <2>3. Owed = 0
    BY <2>2 DEF Owed, f
  <2> QED BY <1>2, <2>3 DEF AnswersCounted
<1>11. ErrorsCounted
  <2>1. {t \in Threads : Failing(conn[t])} = {}
    BY <1>3, <1>5 DEF Failing
  <2>2. Cardinality({}) = 0
    BY FS_EmptySet
  <2> QED BY <1>2, <2>1, <2>2 DEF ErrorsCounted
<1> QED BY <1>9, <1>10, <1>11 DEF EndpointInv

LEMMA EndpointStep == ASSUME EndpointInv, [ServerNext]_vars PROVE EndpointInv'
<1>1. CASE ServerNext
  <2>1. PICK t \in Threads : \E d : Steps(t, d)
    BY <1>1, NextSteps DEF EndpointInv
  <2>2. PICK d : Steps(t, d)
    BY <2>1
  <2>3. conn' = [conn EXCEPT ![t] = d] /\ ThreadOK(d) /\ UNCHANGED api_keys
    BY <2>2 DEF Steps, Step
  <2>4. conn \in [Threads -> Conn] /\ d \in Conn
    BY <2>3 DEF EndpointInv, Parts, Typed, ThreadOK
  <2>5. conn' \in [Threads -> Conn] /\ KeysOK'
    BY <2>3, <2>4 DEF EndpointInv, Parts, KeysOK
  <2>6. \A s \in Threads : conn'[s] = IF s = t THEN d ELSE conn[s]
    BY <2>3, <2>4
  <2>7. \A s \in Threads : ThreadOK(conn'[s])
    BY <2>3, <2>6 DEF EndpointInv, Parts
  <2>8. (\A s \in Threads : ThreadOK(conn[s]))'
    BY <2>7
  <2>9. AnswersCounted' /\ ErrorsCounted' /\ metrics' \in [requests : Nat, errors : Nat]
    BY <2>2, StepsKeepCounts
  <2>10. history' \in [delivered : Nat, failed : Nat, served : Nat]
    BY <1>1, HistoryTyped DEF EndpointInv
  <2>11. Parts'
    BY <2>5, <2>8, <2>9, <2>10 DEF Parts, Typed
  <2> QED BY <2>9, <2>11 DEF EndpointInv
<1>2. CASE UNCHANGED vars
  <2>1. UNCHANGED <<api_keys, conn, metrics, history>>
    BY <1>2 DEF vars
  <2>2. Parts' /\ AnswersCounted' /\ ErrorsCounted'
    BY <2>1 DEF EndpointInv, Parts, Typed, KeysOK, AnswersCounted, ErrorsCounted, Owed
  <2> QED BY <2>2 DEF EndpointInv
<1> QED BY <1>1, <1>2

(* The invariant of the requests, their tasks and the counts holds in      *)
(* every state of both routes.                                             *)
THEOREM EndpointInvariance == ServerSpec => []EndpointInv
  BY EndpointInit, EndpointStep, PTL DEF ServerSpec

(* No task is still running when its request has left the block that       *)
(* launched it, whichever lookup, task or thread creation threw: the       *)
(* futures of handle_lookup_post are all waited for.                       *)
THEOREM TasksJoined == ServerSpec => []NoTaskOutlivesBatch
<1>1. EndpointInv => NoTaskOutlivesBatch
  BY DEF EndpointInv, Parts, ThreadOK, TasksInStep, NoTaskOutlivesBatch
<1> QED BY <1>1, EndpointInvariance, PTL

(* Lookups are made only for requests that prepare_request admitted, and   *)
(* the rate limiter is asked only about authenticated ones.                *)
THEOREM LookupsAdmitted == ServerSpec => []OnlyAdmittedLookUp
<1>1. ASSUME EndpointInv PROVE OnlyAdmittedLookUp
  <2>1. \A t \in Threads : Admitted(conn[t])
    BY <1>1 DEF EndpointInv, Parts, ThreadOK
  <2> QED BY <2>1 DEF Admitted, Begun, Keyed, OnlyAdmittedLookUp
<1> QED BY <1>1, EndpointInvariance, PTL

(* total_requests_ covers every answer delivered, and total_errors_ counts *)
(* every exception of a lookup, a task, a generator or std::stoi once,     *)
(* whatever the threads do, and no 500 response of httplib itself.         *)
THEOREM CountersMatch == ServerSpec => []CountsMatchReplies
<1>1. ASSUME EndpointInv PROVE CountsMatchReplies
  <2>1. history.delivered <= metrics.requests
    <3> DEFINE f == [t \in Threads |-> Pending(conn[t])]
               z == [t \in Threads |-> 0]
    <3>1. IsFiniteSet(Threads) /\ \A t \in Threads : Pending(conn[t]) \in Nat
      BY <1>1, EndpointAssumption, PendingNat DEF EndpointInv, Parts
    <3>2. \A t \in Threads : z[t] = 0 /\ z[t] \in Int /\ f[t] \in Int /\ z[t] <= f[t]
      BY <3>1
    <3>3. Owed = Total(f, Threads)
      BY DEF Owed
    <3> HIDE DEF f, z
    <3>4. Total(z, Threads) <= Total(f, Threads)
      BY <3>1, <3>2, TotalMonotone
    <3>5. Total(z, Threads) = 0
      BY <3>1, <3>2, TotalZero
    <3>6. Total(f, Threads) \in Int
      BY <3>1, <3>2, TotalSplit
    <3>7. history.delivered \in Nat /\ metrics.requests \in Nat
      BY <1>1 DEF EndpointInv, Parts, Typed
    <3>8. history.delivered + Owed <= metrics.requests
      BY <1>1 DEF EndpointInv, AnswersCounted
    <3> QED BY <3>3, <3>4, <3>5, <3>6, <3>7, <3>8
  <2>2. metrics.errors = history.failed
            + Cardinality({t \in Threads : conn[t].pc = "reply" /\ Excepted(conn[t])})
    BY <1>1, Zenon DEF EndpointInv, ErrorsCounted, Failing
  <2> QED BY <2>1, <2>2, Zenon DEF CountsMatchReplies
<1> QED BY <1>1, EndpointInvariance, PTL

(* A 200 response to a batch answers the items that pass the validator, in *)
(* their order, for every order in which its tasks end.                    *)
THEOREM BatchAnsweredInOrder == ServerSpec => []AnswersInOrder
<1>1. ASSUME EndpointInv, NEW t \in Threads,
             conn[t].req.route = "lookup", conn[t].req.method = "POST",
             conn[t].pc = "reply", conn[t].status = 200
      PROVE  LET c    == conn[t]
                 r    == c.req
                 kept == {i \in DOMAIN r.queries : r.queries[i] \in Valid[c.type]}
             IN  /\ Len(c.results) = Cardinality(kept)
                 /\ \A i \in kept :
                       c.results[Cardinality({j \in kept : j <= i})] = <<c.type, r.queries[i]>>
  <2> DEFINE c == conn[t]
             q == c.req.queries
             V == Valid[c.type]
             kept == {i \in DOMAIN q : q[i] \in V}
  <2>1. /\ c.type = Type(c.req) /\ c.query_list = Checked(c.req)
        /\ Len(c.results) = Len(c.query_list)
        /\ \A i \in 1..Len(c.results) : c.results[i] = <<c.type, c.query_list[i]>>
    BY <1>1 DEF EndpointInv, Parts, ThreadOK, InStep, Answering, AllCollected
  <2>2. q \in Seq(Queries)
    BY <1>1, EndpointAssumption DEF EndpointInv, Parts, ThreadOK, Conn, Request
  <2>3. c.query_list = Kept(q, V)[Len(q)]
    BY <1>1, <2>1 DEF Checked
  <2>4. KeepsInOrder(q, V, Len(q), c.query_list)
    BY <2>2, <2>3, KeptInOrder
  <2>5. kept = Passing(q, V, Len(q))
    BY <2>2 DEF Passing
  <2> HIDE DEF c, q, V, kept
  <2>6. Len(c.results) = Cardinality(kept)
    BY <2>1, <2>4, <2>5 DEF KeepsInOrder
  <2>7. ASSUME NEW i \in kept
        PROVE  c.results[Cardinality({j \in kept : j <= i})] = <<c.type, q[i]>>
    <3> DEFINE p == Place(q, V, Len(q), i)
    <3>1. p \in 1..Len(c.query_list) /\ c.query_list[p] = q[i]
      BY <2>4, <2>5 DEF KeepsInOrder
    <3>2. p = Cardinality({j \in kept : j <= i})
      BY <2>5 DEF Place
    <3> HIDE DEF p
    <3> QED BY <2>1, <3>1, <3>2
  <2> QED BY <2>6, <2>7 DEF c, q, V, kept
<1>2. EndpointInv => AnswersInOrder
  BY <1>1, Zenon DEF AnswersInOrder
<1> QED BY <1>2, EndpointInvariance, PTL

-----------------------------------------------------------------------------
(* What readInt returns is the number asked for, if an int can hold it.    *)
LEMMA ReadAsAsked ==
    ASSUME NEW v, NEW default
    PROVE  AsAsked(ReadInt(v, default), v, default)
  BY Zenon DEF AsAsked, ReadInt

(* Placing and shuffling keep the length and the characters; what is       *)
(* placed last is still there after the shuffle.                           *)
LEMMA PlacedWords ==
    ASSUME NEW n \in Nat, NEW P, NEW words, words \subseteq [1..n -> P], NEW set, set \subseteq P
    PROVE  /\ Placed(words, set) \subseteq [1..n -> P]
           /\ set # {} => \A w \in Placed(words, set) : \E i \in 1..n : w[i] \in set
<1>1. CASE set = {}
  BY <1>1 DEF Placed
<1>2. ASSUME set # {}, NEW w \in Placed(words, set)
      PROVE  w \in [1..n -> P] /\ \E i \in 1..n : w[i] \in set
  <2>1. PICK v \in words : w \in {[v EXCEPT ![pos] = ch] : pos \in DOMAIN v, ch \in set}
    BY <1>2 DEF Placed
  <2>2. PICK pos \in DOMAIN v, ch \in set : w = [v EXCEPT ![pos] = ch]
    BY <2>1
  <2>3. v \in [1..n -> P] /\ pos \in 1..n /\ ch \in P
    BY <2>2
  <2>4. w \in [1..n -> P] /\ w[pos] = ch
    BY <2>2, <2>3
  <2> QED BY <2>3, <2>4
<1> QED BY <1>1, <1>2

LEMMA PlacedNone == ASSUME NEW words, NEW set, set = {} PROVE Placed(words, set) = words
  BY DEF Placed

LEMMA ShuffledWords ==
    ASSUME NEW n \in Nat, NEW P, NEW words, words \subseteq [1..n -> P], NEW set,
           NEW w \in Shuffled(words, n)
    PROVE  /\ w \in [1..n -> P]
           /\ (\A v \in words : \E i \in 1..n : v[i] \in set) => \E i \in 1..n : w[i] \in set
<1>1. PICK v \in words : w \in {[i \in 1..n |-> v[order[i]]] : order \in Bijection(1..n, 1..n)}
  BY DEF Shuffled
<1>2. PICK order \in Bijection(1..n, 1..n) : w = [i \in 1..n |-> v[order[i]]]
  BY <1>1
<1>3. /\ order \in [1..n -> 1..n] /\ v \in [1..n -> P]
      /\ \A j \in 1..n : \E i \in 1..n : order[i] = j
  BY <1>2 DEF Bijection, Injection, Surjection
<1>4. w \in [1..n -> P] /\ \A i \in 1..n : w[i] = v[order[i]]
  BY <1>2, <1>3
<1>5. ASSUME NEW j \in 1..n, v[j] \in set PROVE \E i \in 1..n : w[i] \in set
  <2>1. PICK i \in 1..n : order[i] = j
    BY <1>3
  <2> QED BY <1>4, <1>5, <2>1
<1> QED BY <1>4, <1>5

(* What generate returns: the length asked for, characters of the pool     *)
(* only, and one of the last class placed.                                 *)
LEMMA GeneratedWords ==
    ASSUME NEW config, config.length \in Nat, NEW w \in generate(config),
           NEW class \in CharClasses
    PROVE  /\ w \in [1..config.length -> Pool(config)]
           /\ /\ RequiredChars(config, class) # {}
              /\ \A later \in Later[class] : RequiredChars(config, later) = {}
              => \E i \in 1..config.length : w[i] \in RequiredChars(config, class)
<1> DEFINE n == config.length
           P == Pool(config)
           R(cl) == RequiredChars(config, cl)
           w0 == [1..n -> P]
           w1 == Placed(w0, R("uppercase"))
           w2 == Placed(w1, R("lowercase"))
           w3 == Placed(w2, R("digits"))
           w4 == Placed(w3, R("symbols"))
           Has(words) == \A v \in words : \E i \in 1..n : v[i] \in R(class)
<1>1. \A cl \in CharClasses : R(cl) \subseteq P
  BY DEF Pool
<1>2. R("uppercase") \subseteq P /\ R("lowercase") \subseteq P /\ R("digits") \subseteq P
      /\ R("symbols") \subseteq P
  BY <1>1 DEF CharClasses
<1>3. w \in Shuffled(w4, n)
  BY DEF generate
<1> HIDE DEF P, R, w0, w1, w2, w3, w4, n
<1>4. w0 \subseteq [1..n -> P] /\ n \in Nat
  BY DEF w0, n
<1>5. /\ w1 \subseteq [1..n -> P]
      /\ class = "uppercase" /\ R(class) # {} => Has(w1)
  BY <1>2, <1>4, PlacedWords DEF w1
<1>6. /\ w2 \subseteq [1..n -> P]
      /\ class = "lowercase" /\ R(class) # {} => Has(w2)
  BY <1>2, <1>4, <1>5, PlacedWords DEF w2
<1>7. /\ w3 \subseteq [1..n -> P]
      /\ class = "digits" /\ R(class) # {} => Has(w3)
  BY <1>2, <1>4, <1>6, PlacedWords DEF w3
<1>8. /\ w4 \subseteq [1..n -> P]
      /\ class = "symbols" /\ R(class) # {} => Has(w4)
  BY <1>2, <1>4, <1>7, PlacedWords DEF w4
<1>9. R("lowercase") = {} => w2 = w1
  BY PlacedNone DEF w2
<1>10. R("digits") = {} => w3 = w2
  BY PlacedNone DEF w3
<1>11. R("symbols") = {} => w4 = w3
  BY PlacedNone DEF w4
<1>12. ASSUME R(class) # {}, \A later \in Later[class] : R(later) = {} PROVE Has(w4)
  <2>1. CASE class = "uppercase"
    <3>1. R("lowercase") = {} /\ R("digits") = {} /\ R("symbols") = {}
      BY <1>12, <2>1 DEF Later
    <3> QED BY <1>5, <1>12, <1>9, <1>10, <1>11, <2>1, <3>1
  <2>2. CASE class = "lowercase"
    <3>1. R("digits") = {} /\ R("symbols") = {}
      BY <1>12, <2>2 DEF Later
    <3> QED BY <1>6, <1>12, <1>10, <1>11, <2>2, <3>1
  <2>3. CASE class = "digits"
    <3>1. R("symbols") = {}
      BY <1>12, <2>3 DEF Later
    <3> QED BY <1>7, <1>12, <1>11, <2>3, <3>1
  <2>4. CASE class = "symbols"
    BY <1>8, <1>12, <2>4
  <2> QED BY <2>1, <2>2, <2>3, <2>4 DEF CharClasses
<1>13. /\ w \in [1..n -> P]
       /\ Has(w4) => \E i \in 1..n : w[i] \in R(class)
  BY <1>3, <1>4, <1>8, ShuffledWords
<1> QED BY <1>12, <1>13 DEF n, P, R

(* A password request that is answered gets what it asked for, if an int   *)
(* can hold it, and in any case within the limits: the number of           *)
(* passwords, their length and their characters, the class placed last     *)
(* among them.                                                             *)
THEOREM PasswordsFulfilled == ServerSpec => []PasswordsAsAsked
<1>1. ASSUME EndpointInv, NEW t \in Fulfilled
      PROVE  LET r == conn[t].req
             IN  /\ Len(conn[t].results) \in 1..MaxBatchSize
                 /\ r.method = "POST" => AsAsked(Len(conn[t].results), r.count, 1)
                 /\ \A w \in Range(conn[t].results) :
                    /\ Len(w) \in MinLength..MaxLength /\ AsAsked(Len(w), r.length, DefaultLength)
                    /\ \A i \in DOMAIN w : /\ w[i][1] \in Classes(t)
                                           /\ w[i][2] => ~ ReadBool(r, "exclude_similar")
                    /\ \A class \in Classes(t) : Later[class] \cap Classes(t) = {} =>
                           \E i \in DOMAIN w : w[i][1] = class
  <2> DEFINE c == conn[t]
             r == c.req
             config == PasswordConfig(r)
  <2>1. /\ t \in Threads /\ c.pc = "reply" /\ c.status = 200 /\ r.route = "password"
        /\ ThreadOK(c)
    BY <1>1 DEF Fulfilled, EndpointInv, Parts
  <2>2. /\ ParseCode(r) = 200 /\ Len(c.results) = Count(r)
        /\ \A i \in 1..Len(c.results) : c.results[i] \in generate(config)
    BY <2>1 DEF ThreadOK, Generated, Making
  <2>3. r \in PasswordRequest /\ c.results \in Seq(Answers)
    BY <2>1, PasswordAssumption DEF ThreadOK, Conn
  <2>4. Count(r) \in 1..MaxBatchSize /\ validate_config(config)
    BY <2>2 DEF ParseCode
  <2>5. r.method = "POST" => AsAsked(Len(c.results), r.count, 1)
    <3>1. AsAsked(ReadInt(r.count, 1), r.count, 1)
      BY ReadAsAsked
    <3> QED BY <2>2, <3>1 DEF Count
  <2>6. ASSUME NEW w \in Range(c.results)
        PROVE  /\ Len(w) \in MinLength..MaxLength /\ AsAsked(Len(w), r.length, DefaultLength)
               /\ \A i \in DOMAIN w : /\ w[i][1] \in Classes(t)
                                      /\ w[i][2] => ~ ReadBool(r, "exclude_similar")
               /\ \A class \in Classes(t) : Later[class] \cap Classes(t) = {} =>
                      \E i \in DOMAIN w : w[i][1] = class
    <3> DEFINE n == config.length
    <3>1. w \in generate(config)
      BY <2>2, <2>3, <2>6 DEF Range
    <3>2. n = ReadInt(r.length, DefaultLength) /\ config.exclude_similar = ReadBool(r, "exclude_similar")
      BY DEF PasswordConfig
    <3>3. \A class \in CharClasses : config[class] = ReadBool(r, class)
      BY DEF PasswordConfig, CharClasses
    <3>4. n \in MinLength..MaxLength /\ n \in Nat
      BY <2>4, PasswordAssumption DEF validate_config
    <3>5. ASSUME NEW class \in CharClasses
          PROVE  /\ w \in [1..n -> Pool(config)]
                 /\ /\ RequiredChars(config, class) # {}
                    /\ \A later \in Later[class] : RequiredChars(config, later) = {}
                    => \E i \in 1..n : w[i] \in RequiredChars(config, class)
      BY <3>1, <3>4, GeneratedWords
    <3>6. w \in [1..n -> Pool(config)]
      <4>1. "digits" \in CharClasses
        BY DEF CharClasses
      <4> QED BY <3>5, <4>1
    <3>7. AsAsked(n, r.length, DefaultLength)
      BY <3>2, ReadAsAsked
    <3> HIDE DEF config, n, r, c
    <3>8. Len(w) = n /\ DOMAIN w = 1..n
      BY <3>4, <3>6
    <3>9. ASSUME NEW class \in CharClasses, NEW x \in RequiredChars(config, class)
          PROVE  /\ x[1] = class /\ ReadBool(r, class)
                 /\ x[2] => ~ ReadBool(r, "exclude_similar")
      <4>1. config[class] /\ x \in CharSet(config, class)
        BY <3>9 DEF RequiredChars
      <4>2. PICK similar \in IF config.exclude_similar \/ class = "symbols" THEN {FALSE} ELSE BOOLEAN :
                x = <<class, similar>>
        BY <4>1 DEF CharSet
      <4>3. x[1] = class /\ x[2] = similar
        BY <4>2
      <4>4. similar => ~ config.exclude_similar
        BY <4>2, Zenon
      <4> QED BY <3>2, <3>3, <4>1, <4>3, <4>4, Zenon
    <3>10. ASSUME NEW i \in 1..n
          PROVE  w[i][1] \in Classes(t) /\ (w[i][2] => ~ ReadBool(r, "exclude_similar"))
      <4>1. PICK class \in CharClasses : w[i] \in RequiredChars(config, class)
        BY <3>6 DEF Pool
      <4> QED BY <3>9, <4>1 DEF Classes, r, c
    <3>11. ASSUME NEW class \in Classes(t), Later[class] \cap Classes(t) = {}
           PROVE  \E i \in 1..n : w[i][1] = class
      <4>1. class \in CharClasses /\ config[class]
        BY <3>3, <3>11 DEF Classes, r, c
      <4>2. <<class, FALSE>> \in RequiredChars(config, class)
        BY <4>1, Zenon DEF RequiredChars, CharSet
      <4>3. \A later \in Later[class] : later \in CharClasses
        BY <4>1 DEF CharClasses, Later
      <4>4. \A later \in Later[class] : ~ config[later]
        BY <3>3, <3>11, <4>3, Zenon DEF Classes, r, c
      <4>5. \A later \in Later[class] : RequiredChars(config, later) = {}
        BY <4>4, Zenon DEF RequiredChars
      <4>6. PICK i \in 1..n : w[i] \in RequiredChars(config, class)
        BY <3>5, <4>1, <4>2, <4>5
      <4> QED BY <3>9, <4>1, <4>6
    <3> QED BY <3>4, <3>7, <3>8, <3>10, <3>11
  <2> HIDE DEF config
  <2> QED BY <2>2, <2>4, <2>5, <2>6
<1>2. EndpointInv => PasswordsAsAsked
  BY <1>1, Zenon DEF PasswordsAsAsked
<1> QED BY <1>2, EndpointInvariance, PTL
=============================================================================
