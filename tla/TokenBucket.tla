----------------------------- MODULE TokenBucket -----------------------------
(***************************************************************************)
(* What the rate limit promises each client address                        *)
(* (backend/internal/middleware/ratelimit.go, "Per-IP token bucket"): a    *)
(* bucket of Burst tokens that gains one each Period and gives one away    *)
(* per request, for as long as the process runs.                           *)
(***************************************************************************)
EXTENDS Naturals

CONSTANTS
    IPs,
    Burst,      \* b: the tokens a bucket holds
    Period,     \* 1/r: the ticks in which it gains one
    None        \* no request yet

(* A token is worth Period ticks.                                          *)
Cap == Burst * Period

VARIABLES level, answer

Init ==
    /\ level = [ip \in IPs |-> Cap]
    /\ answer = None

Answer(ip, ok) == answer' = [ip |-> ip, ok |-> ok]

Fill ==
    /\ level' = [ip \in IPs |-> IF level[ip] < Cap THEN level[ip] + 1 ELSE Cap]
    /\ UNCHANGED answer

Grant(ip) ==
    /\ level[ip] >= Period
    /\ level' = [level EXCEPT ![ip] = @ - Period]
    /\ Answer(ip, TRUE)

Refuse(ip) ==
    /\ level[ip] < Period
    /\ Answer(ip, FALSE)
    /\ UNCHANGED level

Next == Fill \/ \E ip \in IPs : Grant(ip) \/ Refuse(ip)

Spec == Init /\ [][Next]_<<level, answer>>
=============================================================================
