----------------------------- MODULE RateLimiter -----------------------------
(***************************************************************************)
(* middleware/ratelimit.go: one limiter (golang.org/x/time/rate) for each  *)
(* address that has asked, in a map that forgets idle addresses once it    *)
(* has grown.  A limiter computes what it has gained when it is asked.     *)
(*                                                                         *)
(* Time is counted in ticks.  get runs under the mutex of the map and      *)
(* Allow under that of the limiter; that a whole staleVisitorNs does not   *)
(* pass between the two makes them one step.                               *)
(***************************************************************************)
EXTENDS Integers, Sequences, FiniteSets

CONSTANTS
    IPs,
    Client,         \* the address whose history is kept
    Burst, Period,  \* b and 1/r of RateLimit
    Stale,          \* staleVisitorNs
    MaxVisitors,    \* maxVisitors
    MaxTime,        \* bound: the last tick
    None            \* no visitor, no answer yet

(* rate.Limiter: what was left, in ticks, after the last request that was  *)
(* let through.                                                            *)
Cap == Burst * Period
Visitor == [credit : 0..Cap, last : Nat, seen : Nat]

(* router.go: bursts of 5 at 6 s and of 40 at 1 s, staleness of an hour.   *)
ASSUME LimiterAssumption ==
    /\ Burst \in Nat \ {0} /\ Period \in Nat \ {0}
    /\ Stale \in Nat /\ Burst * Period <= Stale
    /\ MaxVisitors \in Nat
    /\ None \notin Visitor
    /\ IsFiniteSet(IPs) /\ Client \in IPs

VARIABLES
    now,
    visitors,   \* the map: the limiter of each address, and when it was seen
    answer,     \* what the last request was told
    granted     \* history: when Client was let through

vars == <<now, visitors, answer, granted>>

NewVisitor == [credit |-> Cap, last |-> now, seen |-> now]

Least(a, b) == IF a < b THEN a ELSE b
Credit(v) == Least(Cap, v.credit + (now - v.last))

Known == {ip \in IPs : visitors[ip] # None}

Init ==
    /\ now = 0
    /\ visitors = [ip \in IPs |-> None]
    /\ answer = None
    /\ granted = <<>>

(* Mutation: an address is idle as soon as it has gained a token.          *)
IdlePeriod(v) == now - v.seen > Period
Idle(v) == now - v.seen > Stale

(* Mutation: the map is cleared of one address only.                       *)
KeptButOne ==
    LET old == {ip \in Known : Idle(visitors[ip])}
    IN  IF Cardinality(Known) > MaxVisitors /\ old # {}
        THEN [visitors EXCEPT ![CHOOSE ip \in old : TRUE] = None]
        ELSE visitors

(* get: a map that is too large loses its idle addresses.                  *)
Kept ==
    IF Cardinality(Known) > MaxVisitors
    THEN [ip \in IPs |-> IF visitors[ip] # None /\ Idle(visitors[ip])
                         THEN None ELSE visitors[ip]]
    ELSE visitors

Get(ip) == IF Kept[ip] = None THEN NewVisitor ELSE Kept[ip]

(* RateLimit: get, then Allow.  A limiter that refuses does not change.    *)
Allowed(ip) == Credit(Get(ip)) >= Period

Allow(ip) ==
    /\ Allowed(ip)
    /\ visitors' = [Kept EXCEPT ![ip] =
                       [credit |-> Credit(Get(ip)) - Period,
                        last |-> now, seen |-> now]]
    /\ answer' = [ip |-> ip, ok |-> TRUE]
    /\ granted' = IF ip = Client THEN Append(granted, now) ELSE granted
    /\ UNCHANGED now

TooManyRequests(ip) ==
    /\ ~Allowed(ip)
    /\ visitors' = [Kept EXCEPT ![ip] = [Get(ip) EXCEPT !.seen = now]]
    /\ answer' = [ip |-> ip, ok |-> FALSE]
    /\ UNCHANGED <<now, granted>>

Tick ==
    /\ now < MaxTime
    /\ now' = now + 1
    /\ UNCHANGED <<visitors, answer, granted>>

Next == Tick \/ \E ip \in IPs : Allow(ip) \/ TooManyRequests(ip)

Spec == Init /\ [][Next]_vars

-----------------------------------------------------------------------------
(* Types; a limiter was used before its address was last seen.             *)
TypeOK ==
    /\ now \in Nat
    /\ visitors \in [IPs -> Visitor \cup {None}]
    /\ answer \in [ip : IPs, ok : BOOLEAN] \cup {None}
    /\ granted \in Seq(Nat)
    /\ \A ip \in Known : visitors[ip].last <= visitors[ip].seen
                         /\ visitors[ip].seen <= now

(* The tokens an address has: a full bucket while it is not in the map.    *)
Level(ip) == IF visitors[ip] = None THEN Cap ELSE Credit(visitors[ip])

(* From any request of his that was let through to this moment, a client   *)
(* got no more than the burst and one token each Period; forgetting him,   *)
(* and giving him a full bucket when he comes back, buys him nothing (get).*)
Since(i) == Len(granted) - i + 1
WithinRate ==
    \A i \in DOMAIN granted : Since(i) * Period <= Cap + (now - granted[i])

(* What he got and what he may still ask for together: the invariant that  *)
(* makes WithinRate inductive.                                             *)
Balance ==
    \A i \in DOMAIN granted :
        /\ granted[i] \in 0..now
        /\ Since(i) * Period + Level(Client) <= Cap + (now - granted[i])

(* The map is larger than maxVisitors and the newcomer only by addresses   *)
(* seen within staleVisitorNs of the last request.                         *)
OnlyFreshBeyondLimit ==
    Cardinality(Known) > MaxVisitors + 1 =>
        \A a, b \in Known : visitors[a].seen - visitors[b].seen <= Stale

(* The map with its idle addresses forgotten answers every request as a    *)
(* bucket for each address that is never forgotten would.                  *)
Bucket == INSTANCE TokenBucket WITH level <- [ip \in IPs |-> Level(ip)]
ImplementsBucket == Bucket!Spec
=============================================================================
