--------------------------- MODULE RefreshSessions ---------------------------
(***************************************************************************)
(* The refresh-token sessions of one user's browser: the entries and       *)
(* families kept in Redis (backend/internal/modules/auth/repository.go),   *)
(* the login, refresh and logout handlers over them, and the cookie that   *)
(* the tabs of the browser share (frontend/src/lib/api.ts).                *)
(*                                                                         *)
(* A Redis command, or a MULTI pipeline, is one step; everything between   *)
(* two commands of a handler may be interleaved with other handlers.  A    *)
(* tab shares one refresh call among its requests (refreshPromise), so it  *)
(* has at most one in flight; two tabs know nothing of each other.         *)
(***************************************************************************)
EXTENDS FiniteSets

CONSTANTS
    Tabs,
    Families,   \* bound: logins
    Tokens,     \* bound: refresh tokens issued
    None,
    Faults      \* whether commands, processes and the network may fail, and
                \* tokens run out

ASSUME SessionAssumption ==
    None \notin Tokens /\ None \notin Families /\ Faults \in BOOLEAN

VARIABLES
    entry,      \* refresh:jti:<token>: "unused" before it is issued
    family,     \* the family a token names
    parent,     \* the token it was rotated from, None after a login
    members,    \* refresh:fam:<family>, empty when the key is missing
    cookie,     \* the refresh cookie of the browser
    session,    \* "open" from a login to the logout, as the user sees it
    isActive,   \* users.is_active
    revoked,    \* the families a RevokeFamily has been through
    req,        \* the request of each tab
    complete,   \* history: the revocations under way, by tab, whose SMEMBERS
                \* told all, with no rotation of the family ending since
    ended       \* history: the families that such a revocation went through,
                \* with no rotation of them under way at its end

history == <<complete, ended>>
vars == <<entry, family, parent, members, cookie, session, isActive, revoked, req,
          history>>
issued == <<family, parent>>
browser == <<cookie, session>>

(* op is the endpoint, token what the request carries, fresh what it has   *)
(* been given, seen the answer to SMEMBERS.                                *)
Phases == {"idle", "consume", "rotate", "account", "list", "delete", "keep",
           "drop"}
Request == [op : {"none", "login", "refresh", "logout"}, phase : Phases,
            token : Tokens \cup {None}, fresh : Tokens \cup {None},
            seen : SUBSET Tokens]
Idle == [op |-> "none", phase |-> "idle", token |-> None, fresh |-> None,
         seen |-> {}]

Live(f) == {j \in Tokens : entry[j] = "live" /\ family[j] = f}
Rotating(f) == {t \in Tabs : req[t].phase = "rotate" /\ family[req[t].token] = f}
Goto(t, phase) == req' = [req EXCEPT ![t].phase = phase]

Init ==
    /\ entry = [j \in Tokens |-> "unused"]
    /\ family = [j \in Tokens |-> None]
    /\ parent = [j \in Tokens |-> None]
    /\ members = [f \in Families |-> {}]
    /\ cookie = None
    /\ session = "closed"
    /\ isActive = TRUE
    /\ revoked = {}
    /\ req = [t \in Tabs |-> Idle]
    /\ complete = {} /\ ended = {}

-----------------------------------------------------------------------------
(* Issue: a pipeline stores the entry and the family that names it.        *)
Issue(f, j) ==
    /\ \A i \in Tokens : family[i] # f
    /\ entry[j] = "unused"
    /\ entry' = [entry EXCEPT ![j] = "live"]
    /\ family' = [family EXCEPT ![j] = f]
    /\ members' = [members EXCEPT ![f] = @ \cup {j}]

(* Login: the answer sets the cookie.                                      *)
Login(t, f, j) ==
    /\ req[t].phase = "idle"
    /\ isActive
    /\ session = "closed"
    /\ Issue(f, j)
    /\ session' = "open"
    /\ req' = [req EXCEPT ![t] = [Idle EXCEPT !.op = "login", !.phase = "keep",
                                              !.fresh = j]]
    /\ UNCHANGED <<parent, cookie, isActive, revoked, history>>

-----------------------------------------------------------------------------
(* Refresh.                                                                *)

(* The tab answers a 401 with POST /auth/refresh, carrying the cookie.     *)
SendRefresh(t) ==
    /\ req[t].phase = "idle"
    /\ cookie # None
    /\ req' = [req EXCEPT ![t] = [Idle EXCEPT !.op = "refresh",
                                              !.phase = "consume",
                                              !.token = cookie]]
    /\ UNCHANGED <<entry, issued, members, browser, isActive, revoked, history>>

(* Mutant: the entry is read and left in place.                            *)
ConsumeWithGet(t) ==
    LET j == req[t].token
    IN  /\ req[t].phase = "consume"
        /\ Goto(t, IF entry[j] = "live" THEN "rotate" ELSE "list")
        /\ UNCHANGED <<entry, issued, members, browser, isActive, revoked, history>>

(* Rotate, GETDEL.  Whoever finds the entry gone revokes the family, and   *)
(* any error of the command counts as an entry that is gone.               *)
Consume(t) ==
    LET j == req[t].token
    IN  /\ req[t].phase = "consume"
        /\ \/ /\ entry' = [entry EXCEPT ![j] = "gone"]
              /\ Goto(t, IF entry[j] = "live" THEN "rotate" ELSE "list")
           \/ /\ Faults
              /\ Goto(t, "list")
              /\ UNCHANGED entry
        /\ UNCHANGED <<issued, members, browser, isActive, revoked, history>>

(* Mutation: the successor is not added to the family.                     *)
RotateOutsideFamily(t, j) ==
    LET old == req[t].token
        f == family[old]
    IN  /\ req[t].phase = "rotate"
        /\ entry[j] = "unused"
        /\ entry' = [entry EXCEPT ![j] = "live"]
        /\ family' = [family EXCEPT ![j] = f]
        /\ parent' = [parent EXCEPT ![j] = old]
        /\ members' = [members EXCEPT ![f] = @ \ {old}]
        /\ req' = [req EXCEPT ![t] = [@ EXCEPT !.phase = "account", !.fresh = j]]
        /\ complete' = {u \in complete : family[req[u].token] # f}
        /\ UNCHANGED <<browser, isActive, revoked, ended>>

(* Rotate, the pipeline: the successor joins the family.                   *)
Rotate(t, j) ==
    LET old == req[t].token
        f == family[old]
    IN  /\ req[t].phase = "rotate"
        /\ entry[j] = "unused"
        /\ entry' = [entry EXCEPT ![j] = "live"]
        /\ family' = [family EXCEPT ![j] = f]
        /\ parent' = [parent EXCEPT ![j] = old]
        /\ members' = [members EXCEPT ![f] = (@ \ {old}) \cup {j}]
        /\ req' = [req EXCEPT ![t] = [@ EXCEPT !.phase = "account", !.fresh = j]]
        /\ complete' = {u \in complete : family[req[u].token] # f}
        /\ UNCHANGED <<browser, isActive, revoked, ended>>

(* Refresh looks the user up, and turns away an account that is disabled   *)
(* or that it cannot read.                                                 *)
CheckAccount(t) ==
    /\ req[t].phase = "account"
    /\ \/ isActive /\ Goto(t, "keep")
       \/ (~isActive \/ Faults) /\ Goto(t, "list")
    /\ UNCHANGED <<entry, issued, members, browser, isActive, revoked, history>>

(* Mutation: only the token of the request is looked for.                  *)
ListTokenOnly(t) ==
    LET f == family[req[t].token]
    IN  /\ req[t].phase = "list"
        /\ req' = [req EXCEPT ![t] = [@ EXCEPT !.phase = "delete",
                                             !.seen = {req[t].token}]]
        /\ complete' = IF f \notin revoked THEN complete \cup {t} ELSE complete
        /\ UNCHANGED <<entry, issued, members, browser, isActive, revoked, ended>>

(* RevokeFamily: SMEMBERS, whose error is ignored, then a pipeline that    *)
(* deletes what it listed and the family.                                  *)
ListMembers(t) ==
    LET f == family[req[t].token]
    IN  /\ req[t].phase = "list"
        /\ \E seen \in {members[f]} \cup (IF Faults THEN {{}} ELSE {}) :
             /\ req' = [req EXCEPT ![t] = [@ EXCEPT !.phase = "delete",
                                                  !.seen = seen]]
             /\ complete' = IF seen = members[f] /\ f \notin revoked
                            THEN complete \cup {t} ELSE complete
        /\ UNCHANGED <<entry, issued, members, browser, isActive, revoked, ended>>
DeleteMembers(t) ==
    LET f == family[req[t].token]
    IN  /\ req[t].phase = "delete"
        /\ entry' = [j \in Tokens |-> IF j \in req[t].seen THEN "gone"
                                                           ELSE entry[j]]
        /\ members' = [members EXCEPT ![f] = {}]
        /\ revoked' = revoked \cup {f}
        /\ Goto(t, "drop")
        /\ complete' = complete \ {t}
        /\ ended' = IF t \in complete /\ Rotating(f) = {} THEN ended \cup {f} ELSE ended
        /\ UNCHANGED <<issued, browser, isActive>>

(* The answer reaches the browser: setSessionCookies, clearSessionCookies. *)
KeepSession(t) ==
    /\ req[t].phase = "keep"
    /\ cookie' = req[t].fresh
    /\ req' = [req EXCEPT ![t] = Idle]
    /\ UNCHANGED <<entry, issued, members, session, isActive, revoked, history>>
DropSession(t) ==
    /\ req[t].phase = "drop"
    /\ cookie' = None
    /\ req' = [req EXCEPT ![t] = Idle]
    /\ UNCHANGED <<entry, issued, members, session, isActive, revoked, history>>

-----------------------------------------------------------------------------
(* Logout revokes the family named by the cookie and clears the cookies.   *)
SendLogout(t) ==
    /\ req[t].phase = "idle"
    /\ cookie # None
    /\ session' = "closed"
    /\ req' = [req EXCEPT ![t] = [Idle EXCEPT !.op = "logout",
                                              !.phase = "list",
                                              !.token = cookie]]
    /\ UNCHANGED <<entry, issued, members, cookie, isActive, revoked, history>>

(* Without a cookie there is nothing left to revoke, or to refresh with:   *)
(* the application sends the user to the login page.                       *)
NoticeLogout(t) ==
    /\ req[t].phase = "idle"
    /\ cookie = None
    /\ session = "open"
    /\ session' = "closed"
    /\ UNCHANGED <<entry, issued, members, cookie, isActive, revoked, req, history>>

-----------------------------------------------------------------------------
(* The environment.                                                        *)

(* An administrator disables the account, which is not to be logged in any *)
(* more, or enables it again.                                              *)
ToggleAccount ==
    /\ isActive' = ~isActive
    /\ session' = IF isActive THEN "closed" ELSE session
    /\ UNCHANGED <<entry, issued, members, cookie, revoked, req, history>>

(* A token and its family get the same lifetime, and run out together.     *)
Expire(f) ==
    /\ Faults
    /\ Live(f) # {}
    /\ entry' = [j \in Tokens |-> IF j \in Live(f) THEN "gone" ELSE entry[j]]
    /\ members' = [members EXCEPT ![f] = {}]
    /\ UNCHANGED <<issued, browser, isActive, revoked, req, history>>

(* A command fails, the process dies or the answer is lost: the handler    *)
(* stops where it is.  An error that Refresh answers drops the cookie.     *)
Fail(t) ==
    /\ Faults
    /\ req[t].phase # "idle"
    /\ req' = [req EXCEPT ![t] = Idle]
    /\ \/ UNCHANGED cookie
       \/ req[t].op = "refresh" /\ cookie' = None
    /\ complete' = complete \ {t}
    /\ UNCHANGED <<entry, issued, members, session, isActive, revoked, ended>>

Next ==
    \/ \E t \in Tabs :
         \/ \E j \in Tokens : Rotate(t, j) \/ \E f \in Families : Login(t, f, j)
         \/ SendRefresh(t) \/ Consume(t) \/ CheckAccount(t)
         \/ ListMembers(t) \/ DeleteMembers(t)
         \/ KeepSession(t) \/ DropSession(t)
         \/ SendLogout(t) \/ NoticeLogout(t) \/ Fail(t)
    \/ \E f \in Families : Expire(f)
    \/ ToggleAccount

Spec == Init /\ [][Next]_vars

-----------------------------------------------------------------------------
TypeOK ==
    /\ entry \in [Tokens -> {"unused", "live", "gone"}]
    /\ family \in [Tokens -> Families \cup {None}]
    /\ parent \in [Tokens -> Tokens \cup {None}]
    /\ members \in [Families -> SUBSET Tokens]
    /\ cookie \in Tokens \cup {None}
    /\ session \in {"open", "closed"}
    /\ isActive \in BOOLEAN
    /\ revoked \in SUBSET Families
    /\ req \in [Tabs -> Request]
    /\ complete \in SUBSET Tabs
    /\ ended \in SUBSET Families

(* A family has one way on: a live token or one rotation in flight, never  *)
(* both and never two, however refreshes, logouts, failures and expiry     *)
(* interleave (GETDEL in Rotate).                                          *)
OneWayOn ==
    \A f \in Families :
        /\ \A i, j \in Live(f) : i = j
        /\ \A t, u \in Rotating(f) : t = u
        /\ Live(f) = {} \/ Rotating(f) = {}

(* A refresh token buys at most one successor, and none while it is still  *)
(* good: the tokens of a login form a line whose last token alone can live.*)
SingleUse ==
    \A i, j \in Tokens :
        parent[j] # None =>
            /\ parent[i] = parent[j] => i = j
            /\ entry[parent[j]] = "gone"

(* The set of a family names its live token as long as nobody has revoked  *)
(* the family, so that a logout or a replay finds what it has to delete.   *)
FamilyNamesItsToken ==
    \A f \in Families \ revoked : Live(f) \subseteq members[f]

(* A login stays ended once its family is revoked for the first time, by a *)
(* logout or a replay, unless a rotation of it overlaps the revocation or  *)
(* SMEMBERS fails: nothing of it is live, or on its way to be              *)
(* (RevokeFamily).  RevokeKillsTheChain, below, is what the code says.     *)
LogoutEndsTheLogin ==
    \A f \in ended : Live(f) = {} /\ Rotating(f) = {}

(* What the above rests on: every token a request, a family or the cookie  *)
(* names has been issued.                                                  *)
TokensAreIssued ==
    /\ \A j \in Tokens : entry[j] = "unused" <=> family[j] = None
    /\ \A t \in Tabs :
         /\ req[t].phase \notin {"idle", "keep"} =>
              req[t].token # None /\ entry[req[t].token] # "unused"
         /\ req[t].phase \in {"account", "keep"} =>
              req[t].fresh # None /\ entry[req[t].fresh] # "unused"
         /\ \A j \in req[t].seen : entry[j] # "unused"
    /\ cookie # None => entry[cookie] # "unused"
    /\ \A f \in Families : \A j \in members[f] : entry[j] # "unused"

(* The token a rotation is about to replace is gone and has no successor.  *)
RotatedTokenIsSpent ==
    \A t \in Tabs : req[t].phase = "rotate" =>
        /\ entry[req[t].token] = "gone"
        /\ \A j \in Tokens : parent[j] # req[t].token

(* A complete list has whatever is left of the family; what was ended had  *)
(* been opened.                                                            *)
ListsAreComplete ==
    /\ \A t \in complete :
         /\ req[t].phase = "delete"
         /\ Live(family[req[t].token]) \subseteq req[t].seen
    /\ \A f \in ended : \E j \in Tokens : family[j] = f

(* The inductive invariant of the sessions (auth/repository.go).           *)
SessionInv ==
    /\ OneWayOn
    /\ SingleUse
    /\ FamilyNamesItsToken
    /\ TokensAreIssued
    /\ RotatedTokenIsSpent
    /\ LogoutEndsTheLogin
    /\ ListsAreComplete

(* The comment of RevokeFamily: it kills every live token in a chain.      *)
RevokeKillsTheChain ==
    [][\A f \in Families : f \in revoked' \ revoked => Live(f)' = {}]_vars
=============================================================================
