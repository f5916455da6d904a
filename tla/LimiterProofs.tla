---------------------------- MODULE LimiterProofs ----------------------------
(* The rate limiter keeps its promise for any addresses, rate, burst,      *)
(* staleness and size of the map that meet LimiterAssumption.              *)
EXTENDS RateLimiter, FiniteSetTheorems, TLAPS

(* What a full bucket is worth.                                            *)
LEMMA CapBounds == Cap \in Nat /\ Period \in Nat /\ 0 < Period
                   /\ Period <= Cap /\ Cap <= Stale /\ Stale \in Nat
<1>1. Burst \in Nat /\ Burst >= 1 /\ Period \in Nat /\ Period >= 1
  BY LimiterAssumption
<1>2. Burst * Period >= Period
  BY <1>1
<1> QED BY <1>1, <1>2, LimiterAssumption DEF Cap

(* One token more is worth one Period more.                                *)
LEMMA OneMore ==
    ASSUME NEW n \in Nat PROVE (n + 1) * Period = n * Period + Period
BY CapBounds

(* What the map keeps of a visitor is what it had.                         *)
LEMMA KeptVisitors ==
    ASSUME TypeOK
    PROVE  /\ Kept \in [IPs -> Visitor \cup {None}]
           /\ \A a \in IPs : Kept[a] = visitors[a] \/ Kept[a] = None
           /\ \A a \in IPs : Kept[a] = None /\ visitors[a] # None =>
                                now - visitors[a].seen > Stale
BY DEF Kept, TypeOK, Idle

(* The credit of a visitor is some part of a full bucket.                  *)
LEMMA CreditRange ==
    ASSUME TypeOK, NEW v \in Visitor, v.last <= now
    PROVE  Credit(v) \in 0..Cap
BY CapBounds DEF TypeOK, Credit, Least, Visitor

(* The visitor get answers with has the level its address has had: an idle *)
(* address has a full bucket by the time it is forgotten.                  *)
LEMMA GetLevel ==
    ASSUME TypeOK, NEW ip \in IPs
    PROVE  /\ Get(ip) \in Visitor
           /\ Get(ip).last <= now /\ Get(ip).seen <= now
           /\ Get(ip).last <= Get(ip).seen
           /\ Credit(Get(ip)) = Level(ip)
           /\ Level(ip) \in 0..Cap
<1>1. CASE Kept[ip] # None
  <2>1. /\ Get(ip) = visitors[ip]
        /\ visitors[ip] \in Visitor
        /\ ip \in Known
    BY <1>1, KeptVisitors DEF Get, TypeOK, Known
  <2>2. visitors[ip].last <= visitors[ip].seen /\ visitors[ip].seen <= now
    BY <2>1 DEF TypeOK
  <2>3. visitors[ip].last <= now
    BY <2>1, <2>2 DEF TypeOK, Visitor
  <2> QED BY <2>1, <2>2, <2>3, CreditRange DEF Level, Known
<1>2. CASE Kept[ip] = None
  <2>1. Get(ip) = NewVisitor
    BY <1>2 DEF Get
  <2>2. NewVisitor \in Visitor
    BY CapBounds DEF NewVisitor, Visitor, TypeOK
  <2>3. Credit(NewVisitor) = Cap
    BY CapBounds DEF NewVisitor, Credit, Least, TypeOK
  <2>4. Level(ip) = Cap
    <3>1. CASE visitors[ip] = None
      BY <3>1 DEF Level
    <3>2. CASE visitors[ip] # None
      <4>1. /\ visitors[ip] \in Visitor
            /\ visitors[ip].last <= visitors[ip].seen
            /\ now - visitors[ip].seen > Stale
        BY <1>2, <3>2, KeptVisitors DEF TypeOK, Known
      <4>2. now - visitors[ip].last > Cap
        BY <4>1, CapBounds DEF TypeOK, Visitor
      <4> QED BY <3>2, <4>1, <4>2, CapBounds
              DEF Level, Credit, Least, TypeOK, Visitor
    <3> QED BY <3>1, <3>2
  <2>5. NewVisitor.last <= now /\ NewVisitor.seen <= now
        /\ NewVisitor.last <= NewVisitor.seen
    BY DEF NewVisitor, TypeOK
  <2> QED BY <2>1, <2>2, <2>3, <2>4, <2>5, CapBounds
<1> QED BY <1>1, <1>2

(* What a request does to the levels: its own loses a token if it is       *)
(* let through, and no other changes.                                      *)
LEMMA RequestLevels ==
    ASSUME TypeOK, NEW ip \in IPs, NEW ok \in BOOLEAN, now' = now,
           ok <=> Allowed(ip),
           visitors' = [Kept EXCEPT ![ip] =
               IF ok THEN [credit |-> Credit(Get(ip)) - Period,
                           last |-> now, seen |-> now]
               ELSE [Get(ip) EXCEPT !.seen = now]]
    PROVE  /\ visitors' \in [IPs -> Visitor \cup {None}]
           /\ \A a \in Known' : visitors'[a].last <= visitors'[a].seen
                                /\ visitors'[a].seen <= now
           /\ Level(ip)' = IF ok THEN Level(ip) - Period ELSE Level(ip)
           /\ \A a \in IPs \ {ip} : Level(a)' = Level(a)
<1> DEFINE v == visitors'[ip]
<1>0. now \in Nat
  BY DEF TypeOK
<1>1. /\ v \in Visitor /\ v.last <= v.seen /\ v.seen = now
      /\ Credit(v) = IF ok THEN Level(ip) - Period ELSE Level(ip)
  <2>1. CASE ok
    <3>1. v = [credit |-> Level(ip) - Period, last |-> now, seen |-> now]
      BY <2>1, GetLevel, KeptVisitors
    <3>2. Level(ip) - Period \in 0..Cap
      BY <2>1, GetLevel, CapBounds DEF Allowed
    <3> QED BY <1>0, <2>1, <3>1, <3>2, CapBounds DEF Visitor, Credit, Least
  <2>2. CASE ~ok
    <3>1. v = [Get(ip) EXCEPT !.seen = now]
      BY <2>2, KeptVisitors
    <3>2. /\ v \in Visitor /\ v.last = Get(ip).last /\ v.seen = now
          /\ v.credit = Get(ip).credit
      BY <1>0, <3>1, GetLevel DEF Visitor
    <3> QED BY <2>2, <3>2, GetLevel DEF Credit
  <2> QED BY <2>1, <2>2
<1>2. v # None
  BY <1>1, LimiterAssumption
<1>3. Level(ip)' = Credit(v)
  BY <1>2 DEF Level, Credit
<1>4. \A a \in IPs \ {ip} : visitors'[a] = Kept[a]
  BY KeptVisitors
<1>5. visitors' \in [IPs -> Visitor \cup {None}]
  <2>1. visitors' \in [IPs -> Visitor \cup {None}] <=>
          \A a \in IPs : visitors'[a] \in Visitor \cup {None}
    BY KeptVisitors
  <2>2. \A a \in IPs \ {ip} : Kept[a] \in Visitor \cup {None}
    BY KeptVisitors
  <2> QED BY <1>1, <1>4, <2>1, <2>2
<1>6. ASSUME NEW a \in Known', a # ip
      PROVE  visitors'[a].last <= visitors'[a].seen /\ visitors'[a].seen <= now
  <2>1. visitors'[a] = visitors[a] /\ a \in Known
    BY <1>4, <1>6, KeptVisitors DEF Known
  <2> QED BY <2>1 DEF TypeOK
<1>7. ASSUME NEW a \in IPs \ {ip} PROVE Level(a)' = Level(a)
  <2>1. CASE Kept[a] = visitors[a]
    BY <1>4, <2>1 DEF Level, Credit
  <2>2. CASE Kept[a] = None /\ visitors[a] # None
    <3>1. Get(a) = NewVisitor /\ Level(a)' = Cap
      BY <1>4, <2>2 DEF Get, Level
    <3>2. Credit(NewVisitor) = Cap
      BY <1>0, CapBounds DEF NewVisitor, Credit, Least
    <3> QED BY <3>1, <3>2, GetLevel
  <2> QED BY <2>1, <2>2, KeptVisitors
<1> QED BY <1>0, <1>1, <1>3, <1>5, <1>6, <1>7 DEF Known

(* The two outcomes of a request, as RequestLevels wants them.             *)
LEMMA RequestCases ==
    ASSUME TypeOK, NEW ip \in IPs, Allow(ip) \/ TooManyRequests(ip)
    PROVE  /\ now' = now
           /\ Level(ip)' = IF Allowed(ip) THEN Level(ip) - Period ELSE Level(ip)
           /\ \A a \in IPs \ {ip} : Level(a)' = Level(a)
           /\ visitors' \in [IPs -> Visitor \cup {None}]
           /\ \A a \in Known' : visitors'[a].last <= visitors'[a].seen
                                /\ visitors'[a].seen <= now
           /\ answer' = [ip |-> ip, ok |-> Allowed(ip)]
           /\ granted' = IF Allowed(ip) /\ ip = Client
                         THEN Append(granted, now) ELSE granted
<1> DEFINE ok == Allowed(ip)
<1>1. ok \in BOOLEAN
  BY DEF Allowed
<1>2. now' = now
  BY DEF Allow, TooManyRequests
<1>3. visitors' = [Kept EXCEPT ![ip] =
               IF ok THEN [credit |-> Credit(Get(ip)) - Period,
                           last |-> now, seen |-> now]
               ELSE [Get(ip) EXCEPT !.seen = now]]
  <2>1. CASE Allow(ip)
    BY <2>1 DEF Allow
  <2>2. CASE TooManyRequests(ip)
    BY <2>2 DEF TooManyRequests
  <2> QED BY <2>1, <2>2
<1>4. /\ answer' = [ip |-> ip, ok |-> ok]
      /\ granted' = IF ok /\ ip = Client THEN Append(granted, now) ELSE granted
  <2>1. CASE Allow(ip)
    <3>1. ok = TRUE
      BY <2>1 DEF Allow, Allowed
    <3> QED BY <2>1, <3>1 DEF Allow
  <2>2. CASE TooManyRequests(ip)
    <3>1. ok = FALSE
      BY <2>2 DEF TooManyRequests, Allowed
    <3> QED BY <2>2, <3>1 DEF TooManyRequests
  <2> QED BY <2>1, <2>2
<1> HIDE DEF ok
<1>5. ok <=> Allowed(ip)
  BY DEF ok
<1>6. /\ visitors' \in [IPs -> Visitor \cup {None}]
      /\ \A a \in Known' : visitors'[a].last <= visitors'[a].seen
                           /\ visitors'[a].seen <= now
      /\ Level(ip)' = IF ok THEN Level(ip) - Period ELSE Level(ip)
      /\ \A a \in IPs \ {ip} : Level(a)' = Level(a)
  BY <1>1, <1>2, <1>3, <1>5, RequestLevels
<1> QED BY <1>2, <1>4, <1>6 DEF ok

-----------------------------------------------------------------------------
(* Type correctness.                                                       *)

(* Every step keeps the types: no bucket holds more than the burst.        *)
LEMMA TypeNext == TypeOK /\ [Next]_vars => TypeOK'
<1> SUFFICES ASSUME TypeOK, [Next]_vars PROVE TypeOK'
  OBVIOUS
<1>1. ASSUME NEW ip \in IPs, Allow(ip) \/ TooManyRequests(ip) PROVE TypeOK'
  <2>1. granted' \in Seq(Nat)
    BY <1>1, RequestCases DEF TypeOK
  <2>2. answer' \in [ip : IPs, ok : BOOLEAN] \cup {None}
    <3>1. Allowed(ip) \in BOOLEAN
      BY DEF Allowed
    <3> QED BY <1>1, <3>1, RequestCases
  <2> QED BY <1>1, <2>1, <2>2, RequestCases DEF TypeOK
<1>2. CASE Tick
  <2>1. now' = now + 1 /\ UNCHANGED <<visitors, answer, granted>> /\ now \in Nat
    BY <1>2 DEF Tick, TypeOK
  <2>2. \A a \in Known : visitors[a] \in Visitor
    BY DEF Known, TypeOK
  <2>3. \A a \in Known' : visitors'[a].last <= visitors'[a].seen
                           /\ visitors'[a].seen <= now'
    BY <2>1, <2>2 DEF Known, TypeOK, Visitor
  <2> QED BY <2>1, <2>3 DEF TypeOK
<1>3. CASE UNCHANGED vars
  BY <1>3 DEF vars, TypeOK, Known
<1> QED BY <1>1, <1>2, <1>3 DEF Next

(* Every variable keeps its type, and no address is seen after now.        *)
THEOREM LimiterTypeCorrect == Spec => []TypeOK
<1>1. Init => TypeOK
  BY DEF Init, TypeOK, Known
<1> QED BY <1>1, TypeNext, PTL DEF Spec

-----------------------------------------------------------------------------
(* The rate.                                                               *)

(* Time fills a bucket by a tick, or leaves it full.                       *)
LEMMA TickLevels ==
    ASSUME TypeOK, Tick, NEW ip \in IPs
    PROVE  Level(ip)' = IF Level(ip) < Cap THEN Level(ip) + 1 ELSE Cap
<1>1. now' = now + 1 /\ visitors' = visitors /\ now \in Nat
  BY DEF Tick, TypeOK
<1>2. CASE visitors[ip] = None
  BY <1>1, <1>2, CapBounds DEF Level
<1>3. CASE visitors[ip] # None
  <2>1. visitors[ip] \in Visitor /\ visitors[ip].last <= now
    BY <1>3 DEF TypeOK, Known, Visitor
  <2> QED BY <1>1, <1>3, <2>1, CapBounds DEF Level, Credit, Least, Visitor
<1> QED BY <1>2, <1>3

(* Every step keeps the account of the client: what a request takes off,   *)
(* only ticks add again, and forgetting the client adds nothing.           *)
LEMMA BalanceNext == TypeOK /\ Balance /\ [Next]_vars => Balance'
<1> SUFFICES ASSUME TypeOK, Balance, [Next]_vars PROVE Balance'
  OBVIOUS
<1>0. now \in Nat /\ granted \in Seq(Nat) /\ Client \in IPs
  BY LimiterAssumption DEF TypeOK
<1>1. ASSUME NEW ip \in IPs, Allow(ip) \/ TooManyRequests(ip), ~Allowed(ip) \/ ip # Client
      PROVE  Balance'
  <2>1. now' = now /\ granted' = granted
    BY <1>1, RequestCases
  <2>2. Level(Client)' = Level(Client)
    BY <1>0, <1>1, RequestCases
  <2> QED BY <2>1, <2>2 DEF Balance, Since
<1>2. ASSUME Allow(Client) \/ TooManyRequests(Client), Allowed(Client)
      PROVE  Balance'
  <2>1. /\ now' = now /\ granted' = Append(granted, now)
        /\ Level(Client)' = Level(Client) - Period
        /\ Level(Client) \in 0..Cap
    BY <1>0, <1>2, RequestCases, GetLevel
  <2>2. /\ Len(granted') = Len(granted) + 1 /\ Len(granted) \in Nat
        /\ granted'[Len(granted) + 1] = now
        /\ DOMAIN granted' = 1..(Len(granted) + 1)
        /\ DOMAIN granted = 1..Len(granted)
        /\ \A i \in 1..Len(granted) : granted'[i] = granted[i]
    BY <1>0, <2>1
  <2>3. ASSUME NEW i \in 1..Len(granted)
        PROVE  /\ granted'[i] \in 0..now'
               /\ Since(i)' * Period + Level(Client)' <= Cap + (now' - granted'[i])
    <3>1. Since(i) \in Nat /\ Since(i)' = Since(i) + 1
      BY <2>2 DEF Since
    <3>2. Since(i)' * Period = Since(i) * Period + Period /\ Since(i) * Period \in Nat
      BY <3>1, OneMore, CapBounds
    <3>3. /\ granted[i] \in 0..now
          /\ Since(i) * Period + Level(Client) <= Cap + (now - granted[i])
      BY <2>2 DEF Balance
    <3> QED BY <1>0, <2>1, <2>2, <3>2, <3>3, CapBounds
  <2>4. ASSUME NEW i \in Nat, i = Len(granted) + 1
        PROVE  /\ granted'[i] \in 0..now'
               /\ Since(i)' * Period + Level(Client)' <= Cap + (now' - granted'[i])
    <3>1. Since(i)' = 1
      BY <2>2, <2>4 DEF Since
    <3> QED BY <1>0, <2>1, <2>2, <2>4, <3>1, CapBounds
  <2>5. \A i \in DOMAIN granted' : i \in 1..Len(granted) \/ i = Len(granted) + 1
    BY <2>2
  <2> QED BY <2>2, <2>3, <2>4, <2>5 DEF Balance
<1>3. CASE Tick
  <2>1. now' = now + 1 /\ granted' = granted
    BY <1>3 DEF Tick
  <2>2. Level(Client)' <= Level(Client) + 1 /\ Level(Client) \in 0..Cap
        /\ Level(Client)' \in 0..Cap
    BY <1>0, <1>3, TickLevels, GetLevel, CapBounds
  <2>3. ASSUME NEW i \in DOMAIN granted
        PROVE  /\ granted'[i] \in 0..now'
               /\ Since(i)' * Period + Level(Client)' <= Cap + (now' - granted'[i])
    <3>1. Since(i)' = Since(i) /\ Since(i) \in Nat
      BY <1>0, <2>1 DEF Since
    <3>2. Since(i) * Period \in Nat
      BY <3>1, CapBounds
    <3>3. /\ granted[i] \in 0..now
          /\ Since(i) * Period + Level(Client) <= Cap + (now - granted[i])
      BY DEF Balance
    <3>4. Since(i)' * Period = Since(i) * Period
      BY <3>1
    <3>5. granted'[i] = granted[i] /\ granted[i] \in Nat /\ granted[i] <= now
      BY <1>0, <2>1, <3>3
    <3>6. Since(i) * Period + Level(Client)' <= Cap + (now + 1 - granted[i])
      BY <1>0, <2>2, <3>2, <3>3, <3>5, CapBounds
    <3> QED BY <1>0, <2>1, <3>4, <3>5, <3>6
  <2> QED BY <2>1, <2>3 DEF Balance
<1>4. CASE UNCHANGED vars
  BY <1>4 DEF vars, Balance, Since, Level, Credit
<1>5. ASSUME NEW ip \in IPs, Allow(ip) \/ TooManyRequests(ip) PROVE Balance'
  BY <1>1, <1>2, <1>5
<1> QED BY <1>3, <1>4, <1>5 DEF Next

(* No client is ever let through faster than the burst and the rate allow, *)
(* whatever the map forgets.                                               *)
THEOREM ClientsKeepTheRate == Spec => []WithinRate
<1>1. Init => TypeOK /\ Balance
  BY DEF Init, TypeOK, Known, Balance
<1>2. TypeOK /\ Balance /\ [Next]_vars => (TypeOK /\ Balance)'
  BY TypeNext, BalanceNext
<1>3. TypeOK /\ Balance => WithinRate
  <2> SUFFICES ASSUME TypeOK, Balance, NEW i \in DOMAIN granted
               PROVE  Since(i) * Period <= Cap + (now - granted[i])
    BY DEF WithinRate
  <2>1. Level(Client) \in 0..Cap
    BY LimiterAssumption, GetLevel
  <2>2. granted[i] \in 0..now /\ now \in Nat
        /\ Since(i) * Period + Level(Client) <= Cap + (now - granted[i])
    BY DEF Balance, TypeOK
  <2>3. Since(i) * Period \in Nat
    <3>1. Since(i) \in Nat
      BY DEF Since, TypeOK
    <3> QED BY <3>1, CapBounds
  <2> QED BY <2>1, <2>2, <2>3, CapBounds
<1> QED BY <1>1, <1>2, <1>3, PTL DEF Spec

-----------------------------------------------------------------------------
(* The refinement.                                                         *)

(* Forgetting an address changes no answer, now or later: the limiter      *)
(* implements one bucket for each address.                                 *)
THEOREM LimiterImplementsBucket == Spec => ImplementsBucket
<1>1. Init => Bucket!Init
  BY DEF Init, Bucket!Init, Bucket!Cap, Cap, Level
<1>2. ASSUME TypeOK, [Next]_vars
      PROVE  [Bucket!Next]_<<[ip \in IPs |-> Level(ip)], answer>>
  <2> DEFINE L == [ip \in IPs |-> Level(ip)]
  <2>1. ASSUME NEW ip \in IPs, Allow(ip) \/ TooManyRequests(ip)
        PROVE  Bucket!Grant(ip) \/ Bucket!Refuse(ip)
    <3>1. CASE Allowed(ip)
      <4>1. Level(ip) >= Period /\ Level(ip)' = Level(ip) - Period
        BY <1>2, <2>1, <3>1, RequestCases, GetLevel DEF Allowed
      <4>2. L' = [L EXCEPT ![ip] = @ - Period]
        BY <1>2, <2>1, <4>1, RequestCases
      <4>3. answer' = [ip |-> ip, ok |-> TRUE]
        BY <1>2, <2>1, <3>1, RequestCases
      <4> QED BY <4>1, <4>2, <4>3 DEF Bucket!Grant, Bucket!Answer
    <3>2. CASE ~Allowed(ip)
      <4>1. Level(ip) < Period
        BY <1>2, <3>2, GetLevel, CapBounds DEF Allowed
      <4>2. L' = L
        BY <1>2, <2>1, <3>2, RequestCases
      <4>3. answer' = [ip |-> ip, ok |-> FALSE]
        <5>1. Allowed(ip) = FALSE
          BY <3>2 DEF Allowed
        <5> QED BY <1>2, <2>1, <5>1, RequestCases
      <4> QED BY <4>1, <4>2, <4>3 DEF Bucket!Refuse, Bucket!Answer
    <3> QED BY <3>1, <3>2
  <2>2. CASE Tick
    <3>1. L' = [ip \in IPs |-> IF L[ip] < Cap THEN L[ip] + 1 ELSE Cap]
      BY <1>2, <2>2, TickLevels
    <3>2. answer' = answer /\ Bucket!Cap = Cap
      BY <2>2 DEF Tick, Bucket!Cap, Cap
    <3>3. Bucket!Fill
      BY <3>1, <3>2 DEF Bucket!Fill
    <3> QED BY <3>3 DEF Bucket!Next
  <2>3. CASE UNCHANGED vars
    BY <2>3 DEF vars, Level, Credit
  <2> QED BY <1>2, <2>1, <2>2, <2>3 DEF Next, Bucket!Next
<1> QED BY <1>1, <1>2, LimiterTypeCorrect, PTL
        DEF Spec, ImplementsBucket, Bucket!Spec

-----------------------------------------------------------------------------
(* The size of the map.                                                    *)

(* A request leaves in a map beyond its limit only who came lately.        *)
LEMMA FreshRequest ==
    ASSUME TypeOK, NEW ip \in IPs, Allow(ip) \/ TooManyRequests(ip)
    PROVE  OnlyFreshBeyondLimit'
<1>1. now \in Nat /\ Known \subseteq IPs /\ IsFiniteSet(Known)
      /\ Cardinality(Known) \in Nat
  BY LimiterAssumption, FS_Subset, FS_CardinalityType DEF Known, TypeOK
<1>2. /\ \A a \in IPs \ {ip} : visitors'[a] = Kept[a]
      /\ visitors'[ip].seen = now
  <2>1. CASE Allow(ip)
    BY <2>1, KeptVisitors DEF Allow
  <2>2. CASE TooManyRequests(ip)
    <3>1. visitors'[ip] = [Get(ip) EXCEPT !.seen = now]
      BY <2>2, KeptVisitors DEF TooManyRequests
    <3> QED BY <2>2, <3>1, GetLevel, KeptVisitors DEF TooManyRequests, Visitor
  <2> QED BY <2>1, <2>2
<1>3. CASE Cardinality(Known) > MaxVisitors
  <2>1. ASSUME NEW a \in Known'
        PROVE  visitors'[a].seen \in Nat /\ visitors'[a].seen <= now
               /\ now - visitors'[a].seen <= Stale
    <3>1. CASE a = ip
      BY <1>1, <1>2, <3>1, CapBounds
    <3>2. CASE a # ip
      <4>1. Kept[a] = visitors[a] /\ a \in Known
        BY <1>2, <2>1, <3>2, KeptVisitors DEF Known
      <4>2. ~Idle(visitors[a])
        BY <1>3, <4>1 DEF Kept, Known
      <4>3. visitors[a] \in Visitor /\ visitors[a].seen <= now
        BY <4>1 DEF Known, TypeOK
      <4> QED BY <1>1, <1>2, <2>1, <3>2, <4>1, <4>2, <4>3, CapBounds
              DEF Idle, Visitor, Known
    <3> QED BY <3>1, <3>2
  <2>2. ASSUME NEW a \in Known', NEW b \in Known'
        PROVE  visitors'[a].seen - visitors'[b].seen <= Stale
    <3>1. /\ visitors'[a].seen \in Nat /\ visitors'[a].seen <= now
          /\ visitors'[b].seen \in Nat /\ now - visitors'[b].seen <= Stale
      BY <2>1, <2>2
    <3> QED BY <1>1, <3>1, CapBounds
  <2> QED BY <2>2 DEF OnlyFreshBeyondLimit
<1>4. CASE ~(Cardinality(Known) > MaxVisitors)
  <2>1. Known' \subseteq Known \cup {ip}
    BY <1>2, KeptVisitors DEF Known
  <2>2. /\ IsFiniteSet(Known \cup {ip})
        /\ Cardinality(Known \cup {ip}) <= Cardinality(Known) + 1
        /\ Cardinality(Known \cup {ip}) \in Nat
    <3>1. /\ IsFiniteSet(Known \cup {ip})
          /\ \/ Cardinality(Known \cup {ip}) = Cardinality(Known)
             \/ Cardinality(Known \cup {ip}) = Cardinality(Known) + 1
      BY <1>1, FS_AddElement
    <3>2. Cardinality(Known) \in Nat /\ Cardinality(Known \cup {ip}) \in Nat
      BY <1>1, <3>1, FS_CardinalityType
    <3> QED BY <3>1, <3>2
  <2>3. Cardinality(Known') <= Cardinality(Known \cup {ip})
        /\ Cardinality(Known') \in Nat
    BY <2>1, <2>2, FS_Subset, FS_CardinalityType
  <2>4. ~(Cardinality(Known') > MaxVisitors + 1)
    BY <1>1, <1>4, <2>2, <2>3, LimiterAssumption
  <2> QED BY <2>4 DEF OnlyFreshBeyondLimit
<1> QED BY <1>3, <1>4

(* The map outgrows its limit by one, unless all it holds is fresh.        *)
THEOREM MapStaysSmall == Spec => []OnlyFreshBeyondLimit
<1>1. Init => OnlyFreshBeyondLimit
  BY FS_EmptySet, LimiterAssumption DEF Init, OnlyFreshBeyondLimit, Known
<1>2. TypeOK /\ OnlyFreshBeyondLimit /\ [Next]_vars => OnlyFreshBeyondLimit'
  <2> SUFFICES ASSUME TypeOK, OnlyFreshBeyondLimit, [Next]_vars
               PROVE  OnlyFreshBeyondLimit'
    OBVIOUS
  <2>1. CASE Tick
    BY <2>1 DEF Tick, OnlyFreshBeyondLimit, Known
  <2>2. CASE UNCHANGED vars
    BY <2>2 DEF vars, OnlyFreshBeyondLimit, Known
  <2> QED BY <2>1, <2>2, FreshRequest DEF Next
<1> QED BY <1>1, <1>2, LimiterTypeCorrect, PTL DEF Spec
=============================================================================
