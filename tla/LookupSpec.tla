----------------------------- MODULE LookupSpec -----------------------------
(***************************************************************************)
(* What a lookup service promises its callers: a lookup answers with one   *)
(* of the values the database can give for the key (the record on file, or *)
(* an error where the database can fail), as if there were no cache and no *)
(* other caller, and it does answer.                                       *)
(***************************************************************************)
CONSTANTS
    Threads,        \* request threads
    Keys,           \* addresses that can be looked up
    Answers,        \* [Keys -> sets of answers]
    NoKey,          \* not a key
    NoAnswer        \* not an answer

VARIABLES
    asked,          \* thread -> the key it is looking up, or NoKey
    told            \* thread -> the last answer it was given, or NoAnswer

vars == <<asked, told>>

Init ==
    /\ asked = [t \in Threads |-> NoKey]
    /\ told = [t \in Threads |-> NoAnswer]

Ask(t, k) ==
    /\ asked[t] = NoKey
    /\ asked' = [asked EXCEPT ![t] = k]
    /\ told' = [told EXCEPT ![t] = NoAnswer]

Answer(t) ==
    /\ asked[t] # NoKey
    /\ \E a \in Answers[asked[t]] : told' = [told EXCEPT ![t] = a]
    /\ asked' = [asked EXCEPT ![t] = NoKey]

Next == \E t \in Threads : Answer(t) \/ \E k \in Keys : Ask(t, k)

(* Only answers of the database ...                                        *)
Safety == Init /\ [][Next]_vars

(* ... and one to every lookup.                                            *)
Spec == Safety /\ \A t \in Threads : WF_vars(Answer(t))
=============================================================================
