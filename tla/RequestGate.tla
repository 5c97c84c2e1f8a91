---------------------------- MODULE RequestGate ----------------------------
(***************************************************************************)
(* The rate limiter as prepare_request (http_server.cpp) uses it: a        *)
(* request thread asks is_allowed, and if the answer is no it asks         *)
(* get_remaining for the body of the 429 response.  The two calls take the *)
(* limiter's mutex separately, so that time passes and other threads, and  *)
(* the cleanup thread, use the limiter in between.                         *)
(***************************************************************************)
EXTENDS RateLimiter

CONSTANT Threads        \* request threads

VARIABLE refused        \* thread -> its refusal that awaits get_remaining, if any

gate == <<vars, refused>>

NoRefusal == [ip |-> "none", at |-> 0]

GateInit ==
    /\ Init
    /\ refused = [t \in Threads |-> NoRefusal]

(* prepare_request up to the verdict of is_allowed.                        *)
Ask(t, ip) ==
    /\ refused[t] = NoRefusal
    /\ is_allowed(ip)
    /\ refused' = IF answer'.op = "allowed" THEN refused
                  ELSE [refused EXCEPT ![t] = [ip |-> ip, at |-> answer'.at]]

(* error["remaining"] = rate_limiter_->get_remaining(client_ip)            *)
TellRemaining(t) ==
    /\ refused[t] # NoRefusal
    /\ get_remaining(refused[t].ip)
    /\ refused' = [refused EXCEPT ![t] = NoRefusal]

GateNext ==
    \/ \E t \in Threads : TellRemaining(t) \/ \E ip \in IPs : Ask(t, ip)
    \/ (CleanupPrune \/ Tick \/ \E ip \in IPs : CleanupErase(ip)) /\ UNCHANGED refused

GateSpec == GateInit /\ [][GateNext]_gate

-----------------------------------------------------------------------------
(* The requests of an IP that counted at the time of a refusal and have    *)
(* left the window since.                                                  *)
Freed(r) ==
    {i \in DOMAIN granted[r.ip] :
        r.at - granted[r.ip][i] <= Window /\ now - granted[r.ip][i] > Window}

(* A 429 response never promises more than time has given back since the   *)
(* refusal: whatever other threads and the cleanup did between the two     *)
(* critical sections, remaining is at most the number of requests that     *)
(* left the window in between, and so zero if no time has passed (for an   *)
(* IP that was never evicted).                                             *)
RemainingIsFreed ==
    [][\A t \in Threads : TellRemaining(t) /\ refused[t].ip \notin evicted =>
           answer'.left <= Cardinality(Freed(refused[t]))]_gate
=============================================================================
