--------------------------- MODULE MCPasswordHandler ---------------------------
(***************************************************************************)
(* TLC instance of the endpoints: requests of every kind the handlers tell *)
(* apart, among them batches with an invalid item, a repeated item and     *)
(* more items than are looked up sequentially, password requests whose     *)
(* numbers are left out, no numbers, out of range or cut to the width of   *)
(* int, and bodies with errors of both kinds.                              *)
(***************************************************************************)
EXTENDS PasswordHandler

CONSTANTS k1, k2, q1, q2, bad

Plain == [route |-> "lookup", method |-> "GET", header |-> "bearer", key |-> k1,
          forwarded |-> <<>>, real_ip |-> NoQuery, remote_addr |-> q1,
          members |-> {"IP"}, queries |-> <<q2>>, body |-> "parses"]

Batch(items) == [Plain EXCEPT !.method = "POST", !.queries = items]

MCValid == "IP" :> {q1, q2} @@ "MAC" :> {q2}

LookupRequests ==
    {Plain,
     [Plain EXCEPT !.header = "none", !.key = NoKey],
     [Plain EXCEPT !.key = k2],
     [Plain EXCEPT !.forwarded = <<NoQuery, q1>>],
     [Plain EXCEPT !.members = {}, !.queries = <<>>, !.real_ip = bad],
     [Plain EXCEPT !.members = {"MAC"}],
     Batch(<<q1, bad, q2>>),
     Batch(<<q2, q1, q2>>),
     Batch(<<bad>>),
     [Batch(<<q2>>) EXCEPT !.body = "error"],
     [Batch(<<q2>>) EXCEPT !.body = "unprintable"],
     [Batch(<<q2>>) EXCEPT !.members = {"IP", "MAC"}],
     Batch(<<q1, q1, q2, q2, q1>>)}

Absent   == [kind |-> "absent", val |-> 0]
Other    == [kind |-> "other", val |-> 0]
Whole(n) == [kind |-> "int", val |-> n]

On(classes) == [f \in Flags |-> IF f \in classes THEN "absent" ELSE "false"]

Secret == [route |-> "password", method |-> "POST", body |-> "parses", length |-> Whole(2),
           count |-> Absent, flags |-> On({"digits", "symbols", "exclude_similar"})]

PasswordRequests ==
    {[Secret EXCEPT !.count = Whole(2)],
     [Secret EXCEPT !.count = Whole(17)],
     [Secret EXCEPT !.count = Whole(8)],
     [Secret EXCEPT !.length = Whole(18), !.flags = On({"lowercase"})],
     [Secret EXCEPT !.length = Other, !.flags["lowercase"] = "other"],
     [Secret EXCEPT !.body = "error"],
     [Secret EXCEPT !.body = "unprintable"],
     [Secret EXCEPT !.method = "GET", !.length = Whole(18)],
     [Secret EXCEPT !.method = "GET", !.length = Other],
     [Secret EXCEPT !.method = "GET", !.length = Whole(5)],
     [Secret EXCEPT !.method = "GET", !.flags = On({})],
     [Secret EXCEPT !.method = "GET", !.flags["digits"] = "other"]}

MCRequests == LookupRequests \cup PasswordRequests

MixedRequests == {[Secret EXCEPT !.length = Whole(4), !.flags = On(Flags)]}
===============================================================================
