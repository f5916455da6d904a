---------------------------- MODULE SessionProofs ----------------------------
(***************************************************************************)
(* The refresh-token sessions proved for every number of tabs, families    *)
(* and tokens, with and without failures.                                  *)
(***************************************************************************)
EXTENDS RefreshSessions, TLAPS

(* Init gives every variable its type.                                     *)
LEMMA InitType == Init => TypeOK
BY DEF Init, TypeOK, Idle, Request, Phases

(* The token of a request that has one is a token with a family.           *)
LEMMA Carried ==
    ASSUME TypeOK, TokensAreIssued, NEW t \in Tabs,
           req[t].phase \notin {"idle", "keep"}
    PROVE  /\ req[t].token \in Tokens
           /\ family[req[t].token] \in Families
           /\ req[t] \in Request
<1>1. req[t] \in Request
  BY DEF TypeOK
<1>2. req[t].token \in Tokens
  BY <1>1 DEF Request, TokensAreIssued
<1>3. family[req[t].token] \in Families
  BY <1>2 DEF TypeOK, TokensAreIssued
<1> QED BY <1>1, <1>2, <1>3

(* Every step keeps the types.                                             *)
LEMMA NextType ==
    ASSUME TypeOK, TokensAreIssued, [Next]_vars
    PROVE  TypeOK'
<1> USE SessionAssumption DEF history
<1>1. ASSUME NEW t \in Tabs, NEW f \in Families, NEW j \in Tokens,
             Login(t, f, j)
      PROVE  TypeOK'
  <2>1. [Idle EXCEPT !.op = "login", !.phase = "keep", !.fresh = j] \in Request
    BY DEF Request, Idle, Phases
  <2>2. req' \in [Tabs -> Request]
    BY <1>1, <2>1 DEF Login, TypeOK
  <2> QED BY <1>1, <2>2 DEF Login, Issue, TypeOK
<1>2. ASSUME NEW t \in Tabs, SendRefresh(t) PROVE TypeOK'
  <2>1. [Idle EXCEPT !.op = "refresh", !.phase = "consume", !.token = cookie]
          \in Request
    BY DEF Request, Idle, Phases, TypeOK
  <2> QED BY <1>2, <2>1 DEF SendRefresh, TypeOK, issued, browser
<1>3. ASSUME NEW t \in Tabs, Consume(t) PROVE TypeOK'
  <2>1. req[t] \in Request /\ req[t].token \in Tokens
    BY <1>3, Carried DEF Consume
  <2>2. \A phase \in Phases : [req[t] EXCEPT !.phase = phase] \in Request
    BY <2>1 DEF Request
  <2>3. req' \in [Tabs -> Request]
    BY <1>3, <2>2 DEF Consume, Goto, TypeOK, Phases
  <2>4. entry' \in [Tokens -> {"unused", "live", "gone"}]
    BY <1>3, <2>1 DEF Consume, TypeOK
  <2> QED BY <1>3, <2>3, <2>4 DEF Consume, TypeOK, issued, browser
<1>4. ASSUME NEW t \in Tabs, NEW j \in Tokens, Rotate(t, j) PROVE TypeOK'
  <2>1. /\ req[t] \in Request
        /\ req[t].token \in Tokens
        /\ family[req[t].token] \in Families
    BY <1>4, Carried DEF Rotate
  <2>2. [req[t] EXCEPT !.phase = "account", !.fresh = j] \in Request
    BY <2>1 DEF Request, Phases
  <2>3. req' \in [Tabs -> Request]
    BY <1>4, <2>2 DEF Rotate, TypeOK
  <2>4. members' \in [Families -> SUBSET Tokens]
    BY <1>4, <2>1 DEF Rotate, TypeOK
  <2> QED BY <1>4, <2>1, <2>3, <2>4 DEF Rotate, TypeOK, browser
<1>5. ASSUME NEW t \in Tabs, CheckAccount(t) PROVE TypeOK'
  <2>1. \A phase \in Phases : [req[t] EXCEPT !.phase = phase] \in Request
    BY DEF Request, TypeOK
  <2>2. req' \in [Tabs -> Request]
    BY <1>5, <2>1 DEF CheckAccount, Goto, TypeOK, Phases
  <2> QED BY <1>5, <2>2 DEF CheckAccount, TypeOK, issued, browser
<1>6. ASSUME NEW t \in Tabs, ListMembers(t) PROVE TypeOK'
  <2>1. req[t] \in Request /\ family[req[t].token] \in Families
    BY <1>6, Carried DEF ListMembers
  <2>2. \A seen \in SUBSET Tokens :
          [req[t] EXCEPT !.phase = "delete", !.seen = seen] \in Request
    BY <2>1 DEF Request, Phases
  <2>3. PICK seen \in SUBSET Tokens :
          req' = [req EXCEPT ![t] = [@ EXCEPT !.phase = "delete", !.seen = seen]]
    BY <1>6, <2>1 DEF ListMembers, TypeOK
  <2>4. req' \in [Tabs -> Request]
    BY <2>2, <2>3 DEF TypeOK
  <2> QED BY <1>6, <2>4 DEF ListMembers, TypeOK, issued, browser
<1>7. ASSUME NEW t \in Tabs, DeleteMembers(t) PROVE TypeOK'
  <2>1. req[t] \in Request /\ family[req[t].token] \in Families
    BY <1>7, Carried DEF DeleteMembers
  <2>2. [req[t] EXCEPT !.phase = "drop"] \in Request
    BY <2>1 DEF Request, Phases
  <2>3. req' \in [Tabs -> Request]
    BY <1>7, <2>2 DEF DeleteMembers, Goto, TypeOK
  <2>4. entry' \in [Tokens -> {"unused", "live", "gone"}]
    BY <1>7 DEF DeleteMembers, TypeOK
  <2>5. members' \in [Families -> SUBSET Tokens]
    BY <1>7, <2>1 DEF DeleteMembers, TypeOK
  <2> QED BY <1>7, <2>1, <2>3, <2>4, <2>5
          DEF DeleteMembers, TypeOK, issued, browser
<1>8. ASSUME NEW t \in Tabs,
             KeepSession(t) \/ DropSession(t) \/ NoticeLogout(t) \/ Fail(t)
      PROVE  TypeOK'
  <2>1. Idle \in Request
    BY DEF Request, Idle, Phases
  <2>2. req' \in [Tabs -> Request]
    BY <1>8, <2>1 DEF KeepSession, DropSession, NoticeLogout, Fail, TypeOK
  <2>3. req[t].fresh \in Tokens \cup {None}
    BY DEF TypeOK, Request
  <2>4. cookie' \in Tokens \cup {None}
    BY <1>8, <2>3 DEF KeepSession, DropSession, NoticeLogout, Fail, TypeOK
  <2> QED BY <1>8, <2>2, <2>4
          DEF KeepSession, DropSession, NoticeLogout, Fail, TypeOK, issued, browser
<1>9. ASSUME NEW t \in Tabs, SendLogout(t) PROVE TypeOK'
  <2>1. [Idle EXCEPT !.op = "logout", !.phase = "list", !.token = cookie]
          \in Request
    BY DEF Request, Idle, Phases, TypeOK
  <2> QED BY <1>9, <2>1 DEF SendLogout, TypeOK, issued
<1>10. CASE ToggleAccount
  BY <1>10 DEF ToggleAccount, TypeOK, issued
<1>11. ASSUME NEW f \in Families, Expire(f) PROVE TypeOK'
  <2>1. entry' \in [Tokens -> {"unused", "live", "gone"}]
    BY <1>11 DEF Expire, TypeOK
  <2> QED BY <1>11, <2>1 DEF Expire, TypeOK, issued, browser
<1>12. CASE UNCHANGED vars
  BY <1>12 DEF vars, TypeOK
<1> QED
  BY <1>1, <1>2, <1>3, <1>4, <1>5, <1>6, <1>7, <1>8, <1>9, <1>10, <1>11, <1>12
  DEF Next

(* A step that only lets tokens die and starts no rotation disturbs none   *)
(* of the four parts below, provided what is left of a family is named.    *)
LEMMA DyingStep ==
    ASSUME TypeOK, SessionInv,
           UNCHANGED <<family, parent>>,
           \A j \in Tokens : entry'[j] = "live" => entry[j] = "live",
           \A j \in Tokens : entry[j] = "gone" => entry'[j] = "gone",
           \A t \in Tabs : req'[t].phase = "rotate" =>
               req[t].phase = "rotate" /\ req'[t].token = req[t].token,
           \A f \in Families \ revoked' :
               (f \notin revoked /\ members'[f] = members[f]) \/ Live(f)' = {}
    PROVE  OneWayOn' /\ SingleUse' /\ FamilyNamesItsToken' /\ RotatedTokenIsSpent'
<1>1. \A f \in Families : Live(f)' \subseteq Live(f)
  BY DEF Live
<1>2. \A f \in Families : Rotating(f)' \subseteq Rotating(f)
  BY DEF Rotating
<1>3. OneWayOn'
  <2> SUFFICES ASSUME NEW f \in Families
               PROVE  /\ \A i, j \in Live(f)' : i = j
                      /\ \A t, u \in Rotating(f)' : t = u
                      /\ Live(f)' = {} \/ Rotating(f)' = {}
    BY DEF OneWayOn
  <2>1. /\ \A i, j \in Live(f) : i = j
        /\ \A t, u \in Rotating(f) : t = u
        /\ Live(f) = {} \/ Rotating(f) = {}
    BY DEF SessionInv, OneWayOn
  <2> QED BY <1>1, <1>2, <2>1
<1>4. SingleUse'
  BY DEF SessionInv, SingleUse, TypeOK
<1>5. FamilyNamesItsToken'
  BY <1>1 DEF SessionInv, FamilyNamesItsToken
<1>6. RotatedTokenIsSpent'
  <2> SUFFICES ASSUME NEW t \in Tabs, req'[t].phase = "rotate"
               PROVE  /\ entry'[req'[t].token] = "gone"
                      /\ \A j \in Tokens : parent'[j] # req'[t].token
    BY DEF RotatedTokenIsSpent
  <2>1. /\ req[t].phase = "rotate"
        /\ req'[t].token = req[t].token
        /\ req[t].token \in Tokens
    BY Carried DEF SessionInv
  <2> QED BY <2>1 DEF SessionInv, RotatedTokenIsSpent
<1> QED BY <1>3, <1>4, <1>5, <1>6

(* The entries, families and cookie that a step leaves issued.             *)
LEMMA NextIssued ==
    ASSUME TypeOK, SessionInv, [Next]_vars
    PROVE  TokensAreIssued'
<1> USE SessionAssumption
<1>0. TokensAreIssued
  BY DEF SessionInv
<1>1. ASSUME NEW t \in Tabs, NEW f \in Families, NEW j \in Tokens,
             Login(t, f, j)
      PROVE  TokensAreIssued'
  BY <1>0, <1>1 DEF Login, Issue, TokensAreIssued, TypeOK, Idle, Request
<1>2. ASSUME NEW t \in Tabs, SendRefresh(t) \/ SendLogout(t)
      PROVE  TokensAreIssued'
  <2>1. /\ req'[t].token = cookie
        /\ cookie # None
        /\ req'[t].seen = {}
        /\ req'[t].phase \in {"consume", "list"}
    <3>1. CASE SendRefresh(t)
      <4>1. req'[t] = [Idle EXCEPT !.op = "refresh", !.phase = "consume",
                                   !.token = cookie]
        BY <3>1 DEF SendRefresh, TypeOK
      <4> QED BY <3>1, <4>1 DEF SendRefresh, Idle
    <3>2. CASE SendLogout(t)
      <4>1. req'[t] = [Idle EXCEPT !.op = "logout", !.phase = "list",
                                   !.token = cookie]
        BY <3>2 DEF SendLogout, TypeOK
      <4> QED BY <3>2, <4>1 DEF SendLogout, Idle
    <3> QED BY <1>2, <3>1, <3>2
  <2>2. \A s \in Tabs : s # t => req'[s] = req[s]
    BY <1>2 DEF SendRefresh, SendLogout, TypeOK
  <2>3. UNCHANGED <<entry, family, members, cookie>>
    BY <1>2 DEF SendRefresh, SendLogout, issued, browser
  <2> QED BY <1>0, <2>1, <2>2, <2>3 DEF TokensAreIssued
<1>3. ASSUME NEW t \in Tabs, Consume(t) PROVE TokensAreIssued'
  <2>1. req[t].token \in Tokens /\ family[req[t].token] # None
    BY <1>0, <1>3, Carried DEF Consume
  <2>2. \A j \in Tokens : entry[j] = "unused" <=> entry'[j] = "unused"
    BY <1>0, <1>3, <2>1 DEF Consume, TypeOK, TokensAreIssued
  <2>3. \A s \in Tabs : /\ req'[s].token = req[s].token
                         /\ req'[s].seen = req[s].seen
                         /\ req'[s].fresh = req[s].fresh
    BY <1>3 DEF Consume, Goto, TypeOK, Request
  <2>4. \A s \in Tabs : s # t => req'[s] = req[s]
    BY <1>3 DEF Consume, Goto, TypeOK
  <2>5. req[t].phase = "consume" /\ req'[t].phase \in {"rotate", "list"}
    BY <1>3 DEF Consume, Goto, TypeOK, Request
  <2>6. UNCHANGED <<family, members, cookie>>
    BY <1>3 DEF Consume, issued, browser
  <2>7. cookie # None => cookie \in Tokens
    BY DEF TypeOK
  <2>8. \A s \in Tabs : req[s] \in Request
    BY DEF TypeOK
  <2> QED BY <1>0, <2>1, <2>2, <2>3, <2>4, <2>5, <2>6, <2>7, <2>8
          DEF TokensAreIssued, TypeOK, Request
<1>4. ASSUME NEW t \in Tabs, NEW j \in Tokens, Rotate(t, j)
      PROVE  TokensAreIssued'
  <2>1. req[t].token \in Tokens /\ family[req[t].token] \in Families
    BY <1>0, <1>4, Carried DEF Rotate
  <2>2. \A i \in Tokens : entry'[i] = "unused" <=> i # j /\ entry[i] = "unused"
    BY <1>4 DEF Rotate, TypeOK
  <2>3. \A s \in Tabs : /\ req'[s].token = req[s].token
                         /\ req'[s].seen = req[s].seen
    BY <1>4 DEF Rotate, TypeOK, Request
  <2>4. \A s \in Tabs : s # t => req'[s] = req[s]
    BY <1>4 DEF Rotate, TypeOK
  <2>5. /\ req[t].phase = "rotate"
        /\ req'[t].phase = "account"
        /\ req'[t].fresh = j
    BY <1>4 DEF Rotate, TypeOK, Request
  <2>6. \A i \in Tokens : family'[i] = None <=> i # j /\ family[i] = None
    BY <1>4, <2>1 DEF Rotate, TypeOK
  <2>7. \A f \in Families : members'[f] \subseteq members[f] \cup {j}
    BY <1>4, <2>1 DEF Rotate, TypeOK
  <2>8. cookie' = cookie
    BY <1>4 DEF Rotate, browser
  <2> QED BY <1>0, <2>1, <2>2, <2>3, <2>4, <2>5, <2>6, <2>7, <2>8
          DEF TokensAreIssued, TypeOK, Request
<1>5. ASSUME NEW t \in Tabs, CheckAccount(t) PROVE TokensAreIssued'
  <2>1. /\ req[t].phase = "account"
        /\ req'[t].phase \in {"keep", "list"}
    BY <1>5 DEF CheckAccount, Goto, TypeOK, Request
  <2>2. \A s \in Tabs : /\ req'[s].token = req[s].token
                         /\ req'[s].seen = req[s].seen
                         /\ req'[s].fresh = req[s].fresh
    BY <1>5 DEF CheckAccount, Goto, TypeOK, Request
  <2>3. \A s \in Tabs : s # t => req'[s] = req[s]
    BY <1>5 DEF CheckAccount, Goto, TypeOK
  <2>4. UNCHANGED <<entry, family, members, cookie>>
    BY <1>5 DEF CheckAccount, issued, browser
  <2> QED BY <1>0, <2>1, <2>2, <2>3, <2>4 DEF TokensAreIssued
<1>6. ASSUME NEW t \in Tabs, ListMembers(t) PROVE TokensAreIssued'
  <2>1. req[t].phase = "list" /\ family[req[t].token] \in Families
    BY <1>0, <1>6, Carried DEF ListMembers
  <2>2. PICK seen \in SUBSET Tokens :
          /\ req' = [req EXCEPT ![t] = [@ EXCEPT !.phase = "delete", !.seen = seen]]
          /\ seen \subseteq members[family[req[t].token]]
    BY <1>6, <2>1 DEF ListMembers, TypeOK
  <2> QED BY <1>0, <1>6, <2>1, <2>2
          DEF ListMembers, TokensAreIssued, TypeOK, Request, issued, browser
<1>7. ASSUME NEW t \in Tabs, DeleteMembers(t) PROVE TokensAreIssued'
  <2>1. req[t].phase = "delete" /\ family[req[t].token] \in Families
    BY <1>0, <1>7, Carried DEF DeleteMembers
  <2>2. \A j \in Tokens : entry[j] = "unused" <=> entry'[j] = "unused"
    BY <1>0, <1>7 DEF DeleteMembers, TypeOK, TokensAreIssued
  <2>3. \A s \in Tabs : /\ req'[s].token = req[s].token
                         /\ req'[s].seen = req[s].seen
                         /\ req'[s].fresh = req[s].fresh
    BY <1>7 DEF DeleteMembers, Goto, TypeOK, Request
  <2>4. \A s \in Tabs : s # t => req'[s] = req[s]
    BY <1>7 DEF DeleteMembers, Goto, TypeOK
  <2>5. req'[t].phase = "drop"
    BY <1>7 DEF DeleteMembers, Goto, TypeOK, Request
  <2>6. \A f \in Families : members'[f] \subseteq members[f]
    BY <1>7, <2>1 DEF DeleteMembers, TypeOK
  <2>7. cookie' = cookie /\ family' = family
    BY <1>7 DEF DeleteMembers, browser, issued
  <2> QED BY <1>0, <2>1, <2>2, <2>3, <2>4, <2>5, <2>6, <2>7
          DEF TokensAreIssued, TypeOK, Request
<1>8. ASSUME NEW t \in Tabs,
             KeepSession(t) \/ DropSession(t) \/ NoticeLogout(t) \/ Fail(t)
      PROVE  TokensAreIssued'
  BY <1>0, <1>8 DEF KeepSession, DropSession, NoticeLogout, Fail,
     TokensAreIssued, TypeOK, Idle, issued, browser
<1>9. CASE ToggleAccount
  BY <1>0, <1>9 DEF ToggleAccount, TokensAreIssued, issued
<1>10. ASSUME NEW f \in Families, Expire(f) PROVE TokensAreIssued'
  <2>1. \A j \in Tokens : entry[j] = "unused" <=> entry'[j] = "unused"
    BY <1>10 DEF Expire, Live, TypeOK
  <2>2. \A g \in Families : members'[g] \subseteq members[g]
    BY <1>10 DEF Expire, TypeOK
  <2> QED BY <1>0, <1>10, <2>1, <2>2
          DEF Expire, TokensAreIssued, TypeOK, Request, issued, browser
<1>11. CASE UNCHANGED vars
  BY <1>0, <1>11 DEF vars, TokensAreIssued
<1> QED
  BY <1>1, <1>2, <1>3, <1>4, <1>5, <1>6, <1>7, <1>8, <1>9, <1>10, <1>11 DEF Next

(* A login opens a family nobody has used with a token nobody has held.    *)
LEMMA LoginKeeps ==
    ASSUME TypeOK, SessionInv, TypeOK',
           NEW t \in Tabs, NEW f \in Families, NEW j \in Tokens, Login(t, f, j)
    PROVE  OneWayOn' /\ SingleUse' /\ FamilyNamesItsToken' /\ RotatedTokenIsSpent'
<1> USE SessionAssumption
<1>1. /\ entry[j] = "unused"
      /\ \A i \in Tokens : family[i] # f
      /\ entry' = [entry EXCEPT ![j] = "live"]
      /\ family' = [family EXCEPT ![j] = f]
      /\ members' = [members EXCEPT ![f] = @ \cup {j}]
      /\ UNCHANGED <<parent, revoked>>
  BY DEF Login, Issue
<1>2. \A s \in Tabs : req'[s].phase = "rotate" =>
          /\ req[s].phase = "rotate"
          /\ req'[s] = req[s]
          /\ req[s].token \in Tokens \ {j}
          /\ family[req[s].token] \in Families
          /\ entry[req[s].token] = "gone"
  <2>1. req'[t].phase = "keep"
    <3>1. req'[t] = [Idle EXCEPT !.op = "login", !.phase = "keep", !.fresh = j]
      BY DEF Login, TypeOK
    <3> QED BY <3>1 DEF Idle
  <2>2. \A s \in Tabs : s # t => req'[s] = req[s]
    BY DEF Login, TypeOK
  <2> QED BY <1>1, <2>1, <2>2, Carried DEF SessionInv, RotatedTokenIsSpent
<1>3. \A g \in Families : Live(g)' = IF g = f THEN {j} ELSE Live(g)
  BY <1>1 DEF Live, TypeOK, SessionInv, TokensAreIssued
<1>4. \A g \in Families : Rotating(g)' \subseteq Rotating(g) /\ Rotating(f)' = {}
  BY <1>1, <1>2 DEF Rotating, TypeOK
<1>5. OneWayOn'
  <2> SUFFICES ASSUME NEW g \in Families
               PROVE  /\ \A i, k \in Live(g)' : i = k
                      /\ \A s, u \in Rotating(g)' : s = u
                      /\ Live(g)' = {} \/ Rotating(g)' = {}
    BY DEF OneWayOn
  <2>1. /\ \A i, k \in Live(g) : i = k
        /\ \A s, u \in Rotating(g) : s = u
        /\ Live(g) = {} \/ Rotating(g) = {}
    BY DEF SessionInv, OneWayOn
  <2> QED BY <1>3, <1>4, <2>1
<1>6. SingleUse'
  BY <1>1 DEF SessionInv, SingleUse, TypeOK
<1>7. FamilyNamesItsToken'
  BY <1>1, <1>3 DEF SessionInv, FamilyNamesItsToken, TypeOK
<1>8. RotatedTokenIsSpent'
  BY <1>1, <1>2 DEF SessionInv, RotatedTokenIsSpent, TypeOK
<1> QED BY <1>5, <1>6, <1>7, <1>8

(* The GETDEL that finds the live token of a family is the one way on.     *)
LEMMA ConsumeKeeps ==
    ASSUME TypeOK, SessionInv, NEW t \in Tabs, Consume(t),
           entry[req[t].token] = "live"
    PROVE  OneWayOn' /\ SingleUse' /\ FamilyNamesItsToken' /\ RotatedTokenIsSpent'
<1>1. PICK j \in Tokens, f \in Families : j = req[t].token /\ f = family[j]
  BY Carried DEF Consume, SessionInv
<1>2. /\ UNCHANGED <<family, parent, members, revoked>>
      /\ entry' = [entry EXCEPT ![j] = "gone"] \/ entry' = entry
      /\ req'[t].token = j
      /\ req'[t].phase \in {"rotate", "list"}
      /\ req'[t].phase = "rotate" => entry'[j] = "gone"
      /\ \A s \in Tabs : s # t => req'[s] = req[s]
  <2>1. req[t] \in Request
    BY DEF TypeOK
  <2> QED BY <1>1, <2>1 DEF Consume, Goto, TypeOK, Request, issued
<1>3. \A g \in Families : Live(g)' \subseteq Live(g)
  BY <1>2 DEF Live, TypeOK
<1>4. Live(f) = {j} /\ Rotating(f) = {}
  BY <1>1 DEF Live, SessionInv, OneWayOn
<1>5. \A g \in Families : g # f => Rotating(g)' \subseteq Rotating(g)
  BY <1>1, <1>2 DEF Rotating
<1>6. Rotating(f)' \subseteq {t}
  BY <1>2, <1>4 DEF Rotating
<1>7. t \in Rotating(f)' => Live(f)' = {}
  BY <1>2, <1>3, <1>4 DEF Rotating, Live
<1>8. OneWayOn'
  <2> SUFFICES ASSUME NEW g \in Families
               PROVE  /\ \A i, k \in Live(g)' : i = k
                      /\ \A s, u \in Rotating(g)' : s = u
                      /\ Live(g)' = {} \/ Rotating(g)' = {}
    BY DEF OneWayOn
  <2>1. /\ \A i, k \in Live(g) : i = k
        /\ \A s, u \in Rotating(g) : s = u
        /\ Live(g) = {} \/ Rotating(g) = {}
    BY DEF SessionInv, OneWayOn
  <2> QED BY <1>3, <1>5, <1>6, <1>7, <2>1
<1>9. SingleUse'
  BY <1>1, <1>2 DEF SessionInv, SingleUse, TypeOK
<1>10. FamilyNamesItsToken'
  BY <1>2, <1>3 DEF SessionInv, FamilyNamesItsToken
<1>11. RotatedTokenIsSpent'
  <2>1. \A i \in Tokens : parent[i] # j
    BY <1>1, SessionAssumption DEF SessionInv, SingleUse, TypeOK
  <2>2. \A s \in Tabs : req[s].phase = "rotate" => req[s].token \in Tokens
    BY Carried DEF SessionInv
  <2> QED BY <1>1, <1>2, <2>1, <2>2 DEF SessionInv, RotatedTokenIsSpent, TypeOK
<1> QED BY <1>8, <1>9, <1>10, <1>11

(* The rotation in flight hands its family over to the successor.          *)
LEMMA RotateKeeps ==
    ASSUME TypeOK, SessionInv, NEW t \in Tabs, NEW j \in Tokens, Rotate(t, j)
    PROVE  OneWayOn' /\ SingleUse' /\ FamilyNamesItsToken' /\ RotatedTokenIsSpent'
<1> USE SessionAssumption
<1>1. PICK old \in Tokens, f \in Families :
          old = req[t].token /\ f = family[old] /\ req[t].phase = "rotate"
  BY Carried DEF Rotate, SessionInv
<1>2. /\ entry[j] = "unused"
      /\ entry[old] = "gone"
      /\ entry' = [entry EXCEPT ![j] = "live"]
      /\ family' = [family EXCEPT ![j] = f]
      /\ parent' = [parent EXCEPT ![j] = old]
      /\ members' = [members EXCEPT ![f] = (@ \ {old}) \cup {j}]
      /\ revoked' = revoked
      /\ \A i \in Tokens : parent[i] # old
  BY <1>1 DEF Rotate, SessionInv, RotatedTokenIsSpent
<1>3. Live(f) = {} /\ Rotating(f) = {t}
  BY <1>1 DEF Rotating, SessionInv, OneWayOn
<1>4. \A s \in Tabs : req'[s].phase = "rotate" =>
          /\ s # t
          /\ req'[s] = req[s]
          /\ req[s].token \in Tokens \ {j}
          /\ family[req[s].token] # f
  <2>1. req'[t].phase = "account"
    BY DEF Rotate, TypeOK, Request
  <2>2. \A s \in Tabs : s # t => req'[s] = req[s]
    BY DEF Rotate, TypeOK
  <2>3. \A s \in Tabs : req[s].phase = "rotate" =>
           req[s].token \in Tokens /\ entry[req[s].token] = "gone"
    BY Carried DEF SessionInv, RotatedTokenIsSpent
  <2> QED BY <1>2, <1>3, <2>1, <2>2, <2>3 DEF Rotating
<1>5. \A g \in Families : Live(g)' = IF g = f THEN {j} ELSE Live(g)
  BY <1>1, <1>2, <1>3 DEF Live, TypeOK, SessionInv, TokensAreIssued
<1>6. \A g \in Families : Rotating(g)' \subseteq Rotating(g) /\ Rotating(f)' = {}
  BY <1>1, <1>2, <1>4 DEF Rotating, TypeOK
<1>7. OneWayOn'
  <2> SUFFICES ASSUME NEW g \in Families
               PROVE  /\ \A i, k \in Live(g)' : i = k
                      /\ \A s, u \in Rotating(g)' : s = u
                      /\ Live(g)' = {} \/ Rotating(g)' = {}
    BY DEF OneWayOn
  <2>1. /\ \A i, k \in Live(g) : i = k
        /\ \A s, u \in Rotating(g) : s = u
        /\ Live(g) = {} \/ Rotating(g) = {}
    BY DEF SessionInv, OneWayOn
  <2> QED BY <1>5, <1>6, <2>1
<1>8. SingleUse'
  <2>1. \A i, k \in Tokens :
           parent[k] # None =>
             /\ parent[i] = parent[k] => i = k
             /\ entry[parent[k]] = "gone"
    BY DEF SessionInv, SingleUse
  <2>2. \A i \in Tokens : parent'[i] = IF i = j THEN old ELSE parent[i]
    BY <1>1, <1>2 DEF TypeOK
  <2>3. \A i \in Tokens : entry[i] = "gone" => entry'[i] = "gone"
    BY <1>2 DEF TypeOK
  <2>4. \A i \in Tokens : parent[i] \in Tokens \cup {None}
    BY DEF TypeOK
  <2> QED BY <1>1, <1>2, <2>1, <2>2, <2>3, <2>4 DEF SingleUse
<1>9. FamilyNamesItsToken'
  <2>1. \A g \in Families \ revoked : Live(g) \subseteq members[g]
    BY DEF SessionInv, FamilyNamesItsToken
  <2>2. \A g \in Families : g # f => members'[g] = members[g]
    BY <1>2 DEF TypeOK
  <2>3. j \in members'[f]
    BY <1>1, <1>2 DEF TypeOK
  <2> QED BY <1>2, <1>5, <2>1, <2>2, <2>3 DEF FamilyNamesItsToken
<1>10. RotatedTokenIsSpent'
  <2> SUFFICES ASSUME NEW s \in Tabs, req'[s].phase = "rotate"
               PROVE  /\ entry'[req'[s].token] = "gone"
                      /\ \A i \in Tokens : parent'[i] # req'[s].token
    BY DEF RotatedTokenIsSpent
  <2>1. /\ entry[req[s].token] = "gone"
        /\ \A i \in Tokens : parent[i] # req[s].token
        /\ req[s].token # old
    BY <1>1, <1>4 DEF SessionInv, RotatedTokenIsSpent
  <2> QED BY <1>1, <1>2, <1>4, <2>1 DEF TypeOK
<1> QED BY <1>7, <1>8, <1>9, <1>10

-----------------------------------------------------------------------------
(* What a revocation without an overlap ends.                              *)

Ends == LogoutEndsTheLogin /\ ListsAreComplete

(* A step that lets nothing live or rotate that did not before, and leaves *)
(* the revocations under way as they are.                                  *)
LEMMA EndedFrame ==
    ASSUME TypeOK, SessionInv, family' = family, ended' = ended,
           \A j \in Tokens : entry'[j] = "live" => entry[j] = "live",
           complete' \subseteq complete,
           \A t \in complete' : req'[t] = req[t],
           \A t \in Tabs : req'[t].phase = "rotate" => req'[t] = req[t]
    PROVE  Ends'
<1>1. \A f : Live(f)' \subseteq Live(f)
  BY DEF Live
<1>2. \A f : Rotating(f)' \subseteq Rotating(f)
  BY DEF Rotating
<1>3. LogoutEndsTheLogin'
  BY <1>1, <1>2 DEF SessionInv, LogoutEndsTheLogin
<1>4. ListsAreComplete'
  BY <1>1 DEF SessionInv, ListsAreComplete
<1> QED BY <1>3, <1>4 DEF Ends

(* A request whose list is complete goes on to the pipeline.               *)
LEMMA CompleteRequest ==
    ASSUME TypeOK, SessionInv, NEW t \in complete
    PROVE  /\ t \in Tabs /\ req[t].phase = "delete"
           /\ req[t].token \in Tokens /\ family[req[t].token] \in Families
           /\ Live(family[req[t].token]) \subseteq req[t].seen
<1>1. t \in Tabs /\ req[t].phase = "delete"
      /\ Live(family[req[t].token]) \subseteq req[t].seen
  BY DEF TypeOK, SessionInv, ListsAreComplete
<1> QED BY <1>1, Carried DEF SessionInv

(* A login opens a family that was not ended, as nobody has opened it.     *)
LEMMA LoginEnds ==
    ASSUME TypeOK, SessionInv,
           NEW t \in Tabs, NEW f \in Families, NEW j \in Tokens, Login(t, f, j)
    PROVE  Ends'
<1> USE SessionAssumption
<1>1. /\ \A i \in Tokens : family[i] # f
      /\ entry[j] = "unused" /\ entry' = [entry EXCEPT ![j] = "live"]
      /\ family' = [family EXCEPT ![j] = f]
      /\ UNCHANGED <<complete, ended>> /\ req[t].phase = "idle"
  BY DEF Login, Issue, history
<1>2. family[j] = None
  BY <1>1 DEF SessionInv, TokensAreIssued
<1>3. req'[t].phase = "keep" /\ \A s \in Tabs : s # t => req'[s] = req[s]
  <2>1. req'[t] = [Idle EXCEPT !.op = "login", !.phase = "keep", !.fresh = j]
    BY DEF Login, TypeOK
  <2> QED BY <2>1 DEF Login, TypeOK, Idle
<1>4. \A g \in Families : g # f => Live(g)' = Live(g)
  BY <1>1, <1>2 DEF Live, TypeOK
<1>5. \A s \in Tabs : req'[s].phase = "rotate" =>
          req'[s] = req[s] /\ req[s].token \in Tokens \ {j}
  BY <1>1, <1>3, Carried DEF SessionInv, TokensAreIssued
<1>6. \A g \in Families : Rotating(g)' \subseteq Rotating(g)
  BY <1>1, <1>5 DEF Rotating, TypeOK
<1>7. f \notin ended
  BY <1>1 DEF SessionInv, ListsAreComplete
<1>8. LogoutEndsTheLogin'
  BY <1>1, <1>4, <1>6, <1>7 DEF SessionInv, LogoutEndsTheLogin, TypeOK
<1>9. ListsAreComplete'
  <2>1. ASSUME NEW s \in complete
        PROVE  req'[s].phase = "delete" /\ Live(family[req[s].token])' \subseteq req'[s].seen
    <3>1. /\ s \in Tabs /\ req[s].phase = "delete"
          /\ req[s].token \in Tokens /\ family[req[s].token] \in Families
          /\ Live(family[req[s].token]) \subseteq req[s].seen
      BY CompleteRequest
    <3>2. req'[s] = req[s] /\ req[s].token # j
      BY <1>1, <1>2, <1>3, <3>1
    <3>3. family'[req'[s].token] = family[req[s].token] /\ family[req[s].token] # f
      BY <1>1, <3>1, <3>2 DEF TypeOK
    <3> QED BY <1>4, <3>1, <3>2, <3>3
  <2>2. \A g \in ended : \E i \in Tokens : family'[i] = g
    <3>1. SUFFICES ASSUME NEW g \in ended PROVE \E i \in Tokens : family'[i] = g
      OBVIOUS
    <3>2. PICK i \in Tokens : family[i] = g
      BY DEF SessionInv, ListsAreComplete
    <3>3. g # None
      BY DEF TypeOK
    <3> QED BY <1>1, <1>2, <3>2, <3>3 DEF TypeOK
  <2> QED BY <1>1, <2>1, <2>2 DEF ListsAreComplete
<1> QED BY <1>8, <1>9 DEF Ends

(* A GETDEL that finds its token is of a family that was not ended.        *)
LEMMA ConsumeEnds ==
    ASSUME TypeOK, SessionInv, NEW t \in Tabs, Consume(t)
    PROVE  Ends'
<1>1. PICK j \in Tokens, f \in Families : j = req[t].token /\ f = family[j]
  BY Carried DEF Consume, SessionInv
<1>2. /\ UNCHANGED <<family, complete, ended>>
      /\ \A i \in Tokens : entry'[i] = "live" => entry[i] = "live"
      /\ req[t].phase = "consume"
      /\ req'[t].token = j /\ (req'[t].phase = "rotate" => entry[j] = "live")
      /\ \A s \in Tabs : s # t => req'[s] = req[s]
  <2>1. req[t] \in Request
    BY DEF TypeOK
  <2> QED BY <1>1, <2>1 DEF Consume, Goto, TypeOK, Request, issued, history
<1>3. \A g : Live(g)' \subseteq Live(g)
  BY <1>2 DEF Live
<1>4. \A g : Rotating(g)' \subseteq Rotating(g) \/ (g = f /\ j \in Live(f))
  BY <1>1, <1>2 DEF Rotating, Live
<1>5. LogoutEndsTheLogin'
  BY <1>2, <1>3, <1>4 DEF SessionInv, LogoutEndsTheLogin
<1>6. ListsAreComplete'
  <2>1. \A s \in complete : s \in Tabs /\ s # t
    BY <1>2, CompleteRequest
  <2> QED BY <1>2, <1>3, <2>1 DEF SessionInv, ListsAreComplete
<1> QED BY <1>5, <1>6 DEF Ends

(* A rotation that ends leaves no list of its family complete.             *)
LEMMA RotateEnds ==
    ASSUME TypeOK, SessionInv, NEW t \in Tabs, NEW j \in Tokens, Rotate(t, j)
    PROVE  Ends'
<1> USE SessionAssumption
<1>1. PICK old \in Tokens, f \in Families :
          old = req[t].token /\ f = family[old] /\ req[t].phase = "rotate"
  BY Carried DEF Rotate, SessionInv
<1>2. /\ entry[j] = "unused" /\ entry' = [entry EXCEPT ![j] = "live"]
      /\ family' = [family EXCEPT ![j] = f]
      /\ complete' = {u \in complete : family[req[u].token] # f}
      /\ ended' = ended
  BY <1>1 DEF Rotate
<1>3. family[j] = None
  BY <1>2 DEF SessionInv, TokensAreIssued
<1>4. req'[t].phase = "account" /\ \A s \in Tabs : s # t => req'[s] = req[s]
  BY DEF Rotate, TypeOK, Request
<1>5. t \in Rotating(f) /\ f \notin ended
  BY <1>1 DEF Rotating, SessionInv, LogoutEndsTheLogin
<1>6. \A g \in Families : g # f => Live(g)' = Live(g)
  BY <1>2, <1>3 DEF Live, TypeOK
<1>7. \A s \in Tabs : req'[s].phase = "rotate" =>
          req'[s] = req[s] /\ req[s].token \in Tokens \ {j}
  BY <1>2, <1>4, Carried DEF SessionInv, TokensAreIssued
<1>8. \A g \in Families : Rotating(g)' \subseteq Rotating(g)
  BY <1>2, <1>7 DEF Rotating, TypeOK
<1>9. LogoutEndsTheLogin'
  BY <1>2, <1>5, <1>6, <1>8 DEF SessionInv, LogoutEndsTheLogin, TypeOK
<1>10. ListsAreComplete'
  <2>1. ASSUME NEW s \in complete'
        PROVE  req'[s].phase = "delete" /\ Live(family[req[s].token])' \subseteq req'[s].seen
    <3>1. s \in complete /\ family[req[s].token] # f
      BY <1>2
    <3>2. /\ s \in Tabs /\ req[s].phase = "delete"
          /\ req[s].token \in Tokens /\ family[req[s].token] \in Families
          /\ Live(family[req[s].token]) \subseteq req[s].seen
      BY <3>1, CompleteRequest
    <3>3. req'[s] = req[s] /\ req[s].token # j
      BY <1>1, <1>3, <1>4, <3>2
    <3>4. family'[req'[s].token] = family[req[s].token]
      BY <1>2, <3>2, <3>3 DEF TypeOK
    <3> QED BY <1>6, <3>1, <3>2, <3>3, <3>4
  <2>2. \A g \in ended : \E i \in Tokens : family'[i] = g
    <3>1. SUFFICES ASSUME NEW g \in ended PROVE \E i \in Tokens : family'[i] = g
      OBVIOUS
    <3>2. PICK i \in Tokens : family[i] = g
      BY DEF SessionInv, ListsAreComplete
    <3>3. g # None
      BY DEF TypeOK
    <3> QED BY <1>2, <1>3, <3>2, <3>3 DEF TypeOK
  <2> QED BY <1>2, <2>1, <2>2 DEF ListsAreComplete
<1> QED BY <1>9, <1>10 DEF Ends

(* The list of a family that was never revoked is complete.                *)
LEMMA ListEnds ==
    ASSUME TypeOK, SessionInv, NEW t \in Tabs, ListMembers(t)
    PROVE  Ends'
<1>1. PICK f \in Families : f = family[req[t].token] /\ req[t].phase = "list"
  BY Carried DEF ListMembers, SessionInv
<1>2. PICK seen \in SUBSET Tokens :
          /\ req' = [req EXCEPT ![t] = [@ EXCEPT !.phase = "delete", !.seen = seen]]
          /\ complete' = IF seen = members[f] /\ f \notin revoked
                         THEN complete \cup {t} ELSE complete
  <2>1. PICK seen \in {members[f]} \cup (IF Faults THEN {{}} ELSE {}) :
          /\ req' = [req EXCEPT ![t] = [@ EXCEPT !.phase = "delete", !.seen = seen]]
          /\ complete' = IF seen = members[f] /\ f \notin revoked
                         THEN complete \cup {t} ELSE complete
    BY <1>1 DEF ListMembers
  <2>2. seen \in SUBSET Tokens
    BY <2>1 DEF TypeOK
  <2> QED BY <2>1, <2>2
<1>3. UNCHANGED <<entry, family, ended>>
  BY DEF ListMembers, issued
<1>4. /\ req'[t].phase = "delete" /\ req'[t].seen = seen /\ req'[t].token = req[t].token
      /\ \A s \in Tabs : s # t => req'[s] = req[s]
  BY <1>2 DEF TypeOK, Request
<1>5. LogoutEndsTheLogin'
  BY <1>3, <1>4 DEF SessionInv, LogoutEndsTheLogin, Live, Rotating
<1>6. ListsAreComplete'
  <2>1. \A g : Live(g)' = Live(g)
    BY <1>3 DEF Live
  <2>2. ASSUME NEW s \in complete'
        PROVE  req'[s].phase = "delete" /\ Live(family[req'[s].token]) \subseteq req'[s].seen
    <3>1. CASE s = t
      <4>1. t \notin complete
        BY <1>1, CompleteRequest
      <4>2. seen = members[f] /\ f \notin revoked
        BY <1>2, <2>2, <3>1, <4>1
      <4>3. Live(f) \subseteq seen
        BY <4>2 DEF SessionInv, FamilyNamesItsToken
      <4> QED BY <1>1, <1>4, <3>1, <4>3
    <3>2. CASE s # t
      <4>1. s \in complete
        BY <1>2, <2>2, <3>2
      <4> QED BY <1>4, <3>2, <4>1, CompleteRequest
    <3> QED BY <3>1, <3>2
  <2> QED BY <1>3, <2>1, <2>2 DEF SessionInv, ListsAreComplete
<1> QED BY <1>5, <1>6 DEF Ends

(* A revocation whose list is complete leaves nothing of the family.       *)
LEMMA DeleteEnds ==
    ASSUME TypeOK, SessionInv, NEW t \in Tabs, DeleteMembers(t)
    PROVE  Ends'
<1>1. PICK f \in Families : f = family[req[t].token]
                          /\ req[t].token \in Tokens /\ req[t].phase = "delete"
  BY Carried DEF DeleteMembers, SessionInv
<1>2. /\ entry' = [j \in Tokens |-> IF j \in req[t].seen THEN "gone" ELSE entry[j]]
      /\ complete' = complete \ {t} /\ family' = family
      /\ ended' = IF t \in complete /\ Rotating(f) = {} THEN ended \cup {f} ELSE ended
      /\ Goto(t, "drop")
  BY <1>1 DEF DeleteMembers, issued
<1>3. req'[t].phase = "drop" /\ \A s \in Tabs : s # t => req'[s] = req[s]
  BY <1>2 DEF Goto, TypeOK, Request
<1>4. \A g : Live(g)' = Live(g) \ req[t].seen
  BY <1>2 DEF Live
<1>5. \A g : Rotating(g)' \subseteq Rotating(g)
  BY <1>2, <1>3 DEF Rotating
<1>6. t \in complete => Live(f)' = {}
  BY <1>1, <1>4, CompleteRequest
<1>7. LogoutEndsTheLogin'
  BY <1>2, <1>4, <1>5, <1>6 DEF SessionInv, LogoutEndsTheLogin
<1>8. ListsAreComplete'
  <2>1. ASSUME NEW s \in complete'
        PROVE  req'[s].phase = "delete" /\ Live(family[req[s].token])' \subseteq req'[s].seen
    <3>1. s \in complete /\ s # t
      BY <1>2, <2>1
    <3>2. /\ req'[s] = req[s] /\ req[s].phase = "delete"
          /\ Live(family[req[s].token]) \subseteq req[s].seen
      BY <1>3, <3>1, CompleteRequest
    <3>3. family'[req'[s].token] = family[req[s].token]
      BY <1>2, <3>2
    <3>4. Live(family[req[s].token])' = Live(family[req[s].token]) \ req[t].seen
      BY <1>2, <3>2 DEF Live
    <3> QED BY <3>2, <3>3, <3>4
  <2>2. \A g \in ended' : \E i \in Tokens : family'[i] = g
    BY <1>1, <1>2 DEF SessionInv, ListsAreComplete
  <2> QED BY <2>1, <2>2 DEF ListsAreComplete
<1> QED BY <1>7, <1>8 DEF Ends

(* Every step keeps it.                                                    *)
LEMMA NextEnds ==
    ASSUME TypeOK, SessionInv, [Next]_vars
    PROVE  Ends'
<1>0. \A s \in complete : s \in Tabs /\ req[s].phase = "delete"
  BY CompleteRequest
<1>1. ASSUME NEW t \in Tabs,
             \/ SendRefresh(t) \/ SendLogout(t) \/ CheckAccount(t)
             \/ KeepSession(t) \/ DropSession(t) \/ NoticeLogout(t) \/ Fail(t)
      PROVE  Ends'
  <2>1. UNCHANGED <<entry, family, ended>> /\ complete' \subseteq complete
    BY <1>1 DEF SendRefresh, SendLogout, CheckAccount, KeepSession, DropSession,
       NoticeLogout, Fail, issued, history
  <2>2. \A s \in Tabs : s # t => req'[s] = req[s]
    BY <1>1 DEF SendRefresh, SendLogout, CheckAccount, KeepSession, DropSession,
       NoticeLogout, Fail, Goto, TypeOK
  <2>3. t \notin complete'
    BY <1>0, <1>1 DEF SendRefresh, SendLogout, CheckAccount, KeepSession, DropSession,
       NoticeLogout, Fail, history
  <2>4. req'[t].phase # "rotate"
    <3>1. CASE SendRefresh(t)
      BY <3>1 DEF SendRefresh, TypeOK, Idle
    <3>2. CASE SendLogout(t)
      BY <3>2 DEF SendLogout, TypeOK, Idle
    <3>3. CASE CheckAccount(t)
      BY <3>3 DEF CheckAccount, Goto, TypeOK, Request
    <3>4. CASE KeepSession(t) \/ DropSession(t) \/ Fail(t)
      BY <3>4 DEF KeepSession, DropSession, Fail, TypeOK, Idle
    <3>5. CASE NoticeLogout(t)
      BY <3>5 DEF NoticeLogout
    <3> QED BY <1>1, <3>1, <3>2, <3>3, <3>4, <3>5
  <2>5. \A s \in complete' : req'[s] = req[s]
    BY <1>0, <2>1, <2>2, <2>3
  <2> QED BY <2>1, <2>2, <2>4, <2>5, EndedFrame
<1>2. ASSUME NEW f \in Families, Expire(f) PROVE Ends'
  <2>1. /\ \A j \in Tokens : entry'[j] = "live" => entry[j] = "live"
        /\ UNCHANGED <<family, req, complete, ended>>
    BY <1>2 DEF Expire, issued, history
  <2> QED BY <2>1, EndedFrame
<1>3. ASSUME ToggleAccount \/ UNCHANGED vars PROVE Ends'
  <2>1. UNCHANGED <<entry, family, req, complete, ended>>
    BY <1>3 DEF ToggleAccount, vars, issued, history
  <2> QED BY <2>1, EndedFrame
<1> QED BY <1>1, <1>2, <1>3, LoginEnds, ConsumeEnds, RotateEnds, ListEnds, DeleteEnds
        DEF Next

(* Every step keeps the invariant.                                         *)
LEMMA NextSession ==
    ASSUME TypeOK, SessionInv, [Next]_vars
    PROVE  SessionInv'
<1> DEFINE Parts == OneWayOn /\ SingleUse /\ FamilyNamesItsToken /\ RotatedTokenIsSpent
<1>0. TokensAreIssued' /\ TypeOK'
  BY NextIssued, NextType DEF SessionInv
<1>1. ASSUME NEW t \in Tabs, NEW f \in Families, NEW j \in Tokens,
             Login(t, f, j)
      PROVE  Parts'
  BY <1>0, <1>1, LoginKeeps
<1>2. ASSUME NEW t \in Tabs, Consume(t) PROVE Parts'
  <2>1. CASE entry[req[t].token] = "live"
    BY <1>2, <2>1, ConsumeKeeps
  <2>2. CASE entry[req[t].token] # "live"
    <3>1. req[t].token \in Tokens /\ entry[req[t].token] = "gone"
      BY <1>2, <2>2, Carried DEF Consume, SessionInv, TokensAreIssued, TypeOK
    <3>2. entry' = entry /\ Goto(t, "list")
      BY <1>2, <2>2, <3>1 DEF Consume, TypeOK
    <3>3. \A s \in Tabs : req'[s].phase = "rotate" => req'[s] = req[s]
      BY <3>2 DEF Goto, TypeOK, Request
    <3> QED BY <1>2, <3>2, <3>3, DyingStep DEF Consume, issued
  <2> QED BY <2>1, <2>2
<1>3. ASSUME NEW t \in Tabs, NEW j \in Tokens, Rotate(t, j) PROVE Parts'
  BY <1>3, RotateKeeps
<1>4. ASSUME NEW t \in Tabs,
             \/ SendRefresh(t) \/ SendLogout(t) \/ CheckAccount(t) \/ ListMembers(t)
             \/ KeepSession(t) \/ DropSession(t) \/ NoticeLogout(t) \/ Fail(t)
      PROVE  Parts'
  <2>1. UNCHANGED <<entry, family, parent, members, revoked>>
    BY <1>4 DEF SendRefresh, SendLogout, CheckAccount, ListMembers, KeepSession,
       DropSession, NoticeLogout, Fail, issued
  <2>2. \A s \in Tabs : req'[s].phase = "rotate" => req'[s] = req[s]
    <3>1. \A s \in Tabs : s # t => req'[s] = req[s]
      BY <1>4 DEF SendRefresh, SendLogout, CheckAccount, ListMembers, KeepSession,
         DropSession, NoticeLogout, Fail, Goto, TypeOK
    <3>2. req'[t].phase # "rotate" \/ req'[t] = req[t]
      <4>1. CASE SendRefresh(t)
        BY <4>1 DEF SendRefresh, TypeOK, Idle
      <4>2. CASE SendLogout(t)
        BY <4>2 DEF SendLogout, TypeOK, Idle
      <4>3. CASE CheckAccount(t)
        BY <4>3 DEF CheckAccount, Goto, TypeOK, Request
      <4>4. CASE ListMembers(t)
        BY <4>4 DEF ListMembers, TypeOK, Request
      <4>5. CASE KeepSession(t) \/ DropSession(t) \/ NoticeLogout(t) \/ Fail(t)
        BY <4>5 DEF KeepSession, DropSession, NoticeLogout, Fail, TypeOK, Idle
      <4> QED BY <1>4, <4>1, <4>2, <4>3, <4>4, <4>5
    <3> QED BY <3>1, <3>2
  <2> QED BY <2>1, <2>2, DyingStep
<1>5. ASSUME NEW t \in Tabs, DeleteMembers(t) PROVE Parts'
  <2>1. PICK f \in Families : f = family[req[t].token]
    BY <1>5, Carried DEF DeleteMembers, SessionInv
  <2>2. /\ entry' = [j \in Tokens |-> IF j \in req[t].seen THEN "gone"
                                                            ELSE entry[j]]
        /\ members' = [members EXCEPT ![f] = {}]
        /\ revoked' = revoked \cup {f}
        /\ UNCHANGED <<family, parent>>
        /\ Goto(t, "drop")
    BY <1>5, <2>1 DEF DeleteMembers, issued
  <2>3. \A s \in Tabs : req'[s].phase = "rotate" => req'[s] = req[s]
    BY <2>2 DEF Goto, TypeOK, Request
  <2>4. \A g \in Families \ revoked' : g \notin revoked /\ members'[g] = members[g]
    BY <2>2 DEF TypeOK
  <2>5. \A j \in Tokens : /\ entry'[j] = "live" => entry[j] = "live"
                          /\ entry[j] = "gone" => entry'[j] = "gone"
    BY <2>2 DEF TypeOK
  <2> QED BY <2>2, <2>3, <2>4, <2>5, DyingStep
<1>6. ASSUME ToggleAccount PROVE Parts'
  <2>1. UNCHANGED <<entry, family, parent, members, revoked, req>>
    BY <1>6 DEF ToggleAccount, issued
  <2> QED BY <2>1, DyingStep
<1>7. ASSUME NEW f \in Families, Expire(f) PROVE Parts'
  <2>1. /\ entry' = [j \in Tokens |-> IF j \in Live(f) THEN "gone" ELSE entry[j]]
        /\ members' = [members EXCEPT ![f] = {}]
        /\ UNCHANGED <<family, parent, revoked, req>>
    BY <1>7 DEF Expire, issued
  <2>2. Live(f)' = {}
    BY <2>1 DEF Live, TypeOK
  <2>3. \A g \in Families \ revoked' :
           (g \notin revoked /\ members'[g] = members[g]) \/ Live(g)' = {}
    BY <2>1, <2>2 DEF TypeOK
  <2>4. \A j \in Tokens : /\ entry'[j] = "live" => entry[j] = "live"
                          /\ entry[j] = "gone" => entry'[j] = "gone"
    BY <2>1 DEF TypeOK
  <2> QED BY <2>1, <2>3, <2>4, DyingStep
<1>8. ASSUME UNCHANGED vars PROVE Parts'
  <2>1. UNCHANGED <<entry, family, parent, members, revoked, req>>
    BY <1>8 DEF vars
  <2> QED BY <2>1, DyingStep
<1>9. Parts'
  BY <1>1, <1>2, <1>3, <1>4, <1>5, <1>6, <1>7, <1>8 DEF Next
<1> QED BY <1>0, <1>9, NextEnds DEF SessionInv, Ends

-----------------------------------------------------------------------------
(* A browser that has never logged in has nothing to lose.                 *)
LEMMA InitSession == Init => SessionInv
BY SessionAssumption DEF Init, SessionInv, OneWayOn, SingleUse,
   FamilyNamesItsToken, TokensAreIssued, RotatedTokenIsSpent, LogoutEndsTheLogin,
   ListsAreComplete, Live, Rotating, Idle

(* The sessions keep their types and their invariant                       *)
(* (auth/repository.go, auth/service.go).                                  *)
THEOREM SessionInvariant == Spec => [](TypeOK /\ SessionInv)
<1>1. Init => TypeOK /\ SessionInv
  BY InitType, InitSession
<1>2. TypeOK /\ SessionInv /\ [Next]_vars => (TypeOK /\ SessionInv)'
  BY NextType, NextSession DEF SessionInv
<1> QED BY <1>1, <1>2, PTL DEF Spec

(* At most one token of a family is live or being exchanged, whatever      *)
(* interleaves with the GETDEL of Rotate and whatever fails.               *)
THEOREM OneTokenPerFamily == Spec => []OneWayOn
<1>1. SessionInv => OneWayOn
  BY DEF SessionInv
<1> QED BY <1>1, SessionInvariant, PTL

(* No refresh token is ever exchanged twice (Rotate).                      *)
THEOREM TokensAreSingleUse == Spec => []SingleUse
<1>1. SessionInv => SingleUse
  BY DEF SessionInv
<1> QED BY <1>1, SessionInvariant, PTL

(* A logout, or a replay, of a family that has not been revoked finds its  *)
(* live token listed (Issue, Rotate, RevokeFamily).                        *)
THEOREM RevocationFindsTheToken == Spec => []FamilyNamesItsToken
<1>1. SessionInv => FamilyNamesItsToken
  BY DEF SessionInv
<1> QED BY <1>1, SessionInvariant, PTL

(* A login whose family was revoked with no rotation of it in between is   *)
(* over for good: none of its tokens is good, or being exchanged, whoever  *)
(* else refreshes, logs out or fails (Service.Logout, RevokeFamily).       *)
THEOREM LogoutEnds == Spec => []LogoutEndsTheLogin
<1>1. SessionInv => LogoutEndsTheLogin
  BY DEF SessionInv
<1> QED BY <1>1, SessionInvariant, PTL
=============================================================================
