------------------------------ MODULE ApiClient ------------------------------
(***************************************************************************)
(* The HTTP client of one browser tab (frontend/src/lib/api.ts), the three *)
(* cookies it works with, and what stands before every handler of the API: *)
(* the CSRF check, the access token, and the refresh of the session        *)
(* (backend/internal/middleware, .../modules/auth).  RefreshSessions looks *)
(* into the refresh and the logout, command by command and for several     *)
(* tabs; here the calls that wait for a refresh are many, the commands of  *)
(* a handler are one step, and what overlapping commands may leave behind  *)
(* is an outcome of that step (Revoked, RefreshLose).                      *)
(*                                                                         *)
(* The cookies access_token, refresh_token and csrf_token are set and      *)
(* cleared together, so the jar holds the id of the answer that set them:  *)
(* Start, or the call that logged in or whose 401 started the refresh.     *)
(***************************************************************************)
EXTENDS FiniteSets, Naturals

CONSTANTS
    Calls,      \* what the pages ask of the API, each once
    Kind,       \* of each call
    Start,      \* the session the tab may have when it is opened
    None

Sessions == Calls \cup {Start}
Jar == Sessions \cup {None}
Keep == "keep"      \* an answer without Set-Cookie

ASSUME ClientAssumption ==
    /\ Kind \in [Calls -> {"read", "write", "login", "logout"}]
    /\ Start \notin Calls /\ None \notin Sessions /\ Keep \notin Jar

VARIABLES
    call,       \* each call on its way to the API and back
    refresh,    \* the POST /auth/refresh its 401 started
    promise,    \* refreshPromise: the call whose refresh is awaited
    jar,        \* the cookies
    live,       \* the refresh tokens Redis still has
    family,     \* the login each refresh token descends from
    expired,    \* the access tokens past AccessTTL
    mishap      \* history: an answer to a refresh was lost, the rate limit
                \* refused one, or the session was ended from outside

server == <<live, family, expired>>
vars == <<call, refresh, promise, jar, server, mishap>>

Statuses == {"none", "ok", "unauthorized", "forbidden", "lost"}
Call == [phase : {"idle", "prepared", "sent", "answered", "lost", "waiting",
                  "again", "settled"},
         tries : 0..2,      \* how often it was sent
         runs : 0..2,       \* how often its handler ran
         retried : BOOLEAN, \* original._retried
         header : Jar,      \* X-CSRF-Token
         carried : Jar,     \* the cookies the request left with
         status : Statuses, \* of the last answer, and what the page is told
         cookies : Jar \cup {Keep},     \* what the answer sets
         on : Calls \cup {None}]        \* the refresh it awaits
Refresh == [phase : {"none", "started", "sent", "answered", "ended"},
            carried : Jar, ok : BOOLEAN, cookies : Jar \cup {Keep}]

Init ==
    /\ call = [c \in Calls |->
                 [phase |-> "idle", tries |-> 0, runs |-> 0, retried |-> FALSE,
                  header |-> None, carried |-> None, status |-> "none",
                  cookies |-> Keep, on |-> None]]
    /\ refresh = [c \in Calls |->
                    [phase |-> "none", carried |-> None, ok |-> FALSE,
                     cookies |-> Keep]]
    /\ promise = None
    /\ jar \in {Start, None}
    /\ live = {Start}
    /\ family = [s \in Sessions |-> IF s = Start THEN Start ELSE None]
    /\ expired = {}
    /\ mishap = FALSE

Is(c, phase) == call[c].phase = phase
Mutating(c) == Kind[c] # "read"
Received(cookies) == IF cookies = Keep THEN jar ELSE cookies

-----------------------------------------------------------------------------
(* The request interceptor: the token of document.cookie goes into the     *)
(* header; without one, a header from before would stay, as wrong as none. *)
Prepare(c) ==
    /\ Is(c, "idle") \/ Is(c, "again")
    /\ call' = [call EXCEPT ![c].phase = "prepared",
                            ![c].header = IF Mutating(c) THEN jar ELSE @]
    /\ UNCHANGED <<refresh, promise, jar, server, mishap>>

(* The browser adds the cookies it has by now.                             *)
Transmit(c) ==
    /\ Is(c, "prepared")
    /\ call' = [call EXCEPT ![c].phase = "sent", ![c].carried = jar, ![c].tries = @ + 1]
    /\ UNCHANGED <<refresh, promise, jar, server, mishap>>

-----------------------------------------------------------------------------
(* The API.                                                                *)

(* The header shows the token of the cookie; no page forges one.           *)
Verify(c) == call[c].carried # None /\ call[c].header = call[c].carried

(* CSRF: login and refresh are exempt.                                     *)
CsrfOk(c) == Mutating(c) /\ Kind[c] # "login" => Verify(c)

(* AuthN: an access token that has not expired; login needs none.          *)
AuthOk(c) ==
    Kind[c] # "login" => call[c].carried # None /\ call[c].carried \notin expired

Answer(c, status, cookies) ==
    call' = [call EXCEPT ![c].phase = "answered", ![c].status = status,
                         ![c].cookies = cookies,
                         ![c].runs = IF CsrfOk(c) /\ AuthOk(c) THEN @ + 1 ELSE @]

(* The CSRF check comes before the handlers, and before AuthN.             *)
Refused(c) ==
    /\ Is(c, "sent")
    /\ \/ ~CsrfOk(c) /\ Answer(c, "forbidden", Keep)
       \/ CsrfOk(c) /\ ~AuthOk(c) /\ Answer(c, "unauthorized", Keep)
    /\ UNCHANGED <<refresh, promise, jar, server, mishap>>

Admitted(c, kinds) == Is(c, "sent") /\ Kind[c] \in kinds /\ CsrfOk(c) /\ AuthOk(c)

(* Any handler that has nothing to do with the session.                    *)
Handle(c) ==
    /\ Admitted(c, {"read", "write"})
    /\ Answer(c, "ok", Keep)
    /\ UNCHANGED <<refresh, promise, jar, server, mishap>>

LoginOk(c) ==
    /\ Admitted(c, {"login"})
    /\ ~call[c].retried
    /\ Answer(c, "ok", c)
    /\ live' = live \cup {c}
    /\ family' = [family EXCEPT ![c] = c]
    /\ UNCHANGED <<refresh, promise, jar, expired, mishap>>

(* A wrong password is a 401 of the handler; it is as wrong when replayed. *)
LoginWrong(c) ==
    /\ Admitted(c, {"login"})
    /\ Answer(c, "unauthorized", Keep)
    /\ UNCHANGED <<refresh, promise, jar, server, mishap>>

Relatives(s) == {r \in Sessions : family[r] = family[s]}

(* RevokeFamily finds what is left of the family, or misses it: the error  *)
(* of SMEMBERS is ignored, and a rotation between its commands, or around  *)
(* them, leaves a successor behind (RefreshSessions, RevokeKillsTheChain). *)
(* Such a rotation comes after the revocation here.                        *)
Revoked(s) == {live \ Relatives(s), live}

(* Logout: the family of the cookie is revoked, the cookies are cleared.   *)
Logout(c) ==
    /\ Admitted(c, {"logout"})
    /\ Answer(c, "ok", None)
    /\ live' \in Revoked(call[c].carried)
    /\ UNCHANGED <<refresh, promise, jar, family, expired, mishap>>

RefreshAnswer(c, ok, cookies) ==
    /\ refresh[c].phase = "sent"
    /\ refresh' = [refresh EXCEPT ![c].phase = "answered", ![c].ok = ok,
                                  ![c].cookies = cookies]
    /\ UNCHANGED <<call, promise, jar, expired>>

(* Refresh: the token is used up and buys a successor.                     *)
Rotate(c) ==
    /\ refresh[c].carried \in live
    /\ RefreshAnswer(c, TRUE, c)
    /\ live' = (live \ {refresh[c].carried}) \cup {c}
    /\ family' = [family EXCEPT ![c] = family[refresh[c].carried]]
    /\ UNCHANGED mishap

(* A token that was used before, or revoked, ends its family.  So does a   *)
(* token that has run out, or one of an account that was disabled.         *)
RefreshRefused(c) ==
    /\ refresh[c].carried # None
    /\ RefreshAnswer(c, FALSE, None)
    /\ live' \in Revoked(refresh[c].carried)
    /\ mishap' = (mishap \/ refresh[c].carried \in live)
    /\ UNCHANGED family

(* No cookie: a 401, and nothing to clear.                                 *)
RefreshMissing(c) ==
    /\ refresh[c].carried = None
    /\ RefreshAnswer(c, FALSE, Keep)
    /\ UNCHANGED <<live, family, mishap>>

(* The rate limit of /auth turns the refresh away.                         *)
RefreshLimited(c) ==
    /\ RefreshAnswer(c, FALSE, Keep)
    /\ mishap' = TRUE
    /\ UNCHANGED <<live, family>>

-----------------------------------------------------------------------------
(* The response interceptor.                                               *)

(* What a request left with is of no interest once it is over.             *)
Over(r, phase) == [r EXCEPT !.phase = phase, !.header = None, !.carried = None,
                            !.cookies = Keep, !.on = None]

(* Mutation: every 401 starts a refresh of its own.                        *)
JoinNobody(c) == c
(* A 401 joins the refresh that is under way, or starts one.               *)
Join(c) == IF promise = None THEN c ELSE promise

(* Mutations: a call that was replayed is replayed again; an answer that   *)
(* was lost is a reason to ask again.                                      *)
RetriableForever(c) == call[c].status = "unauthorized"
RetriableLost(c) == call[c].status \in {"unauthorized", "lost"} /\ ~call[c].retried
Retriable(c) == call[c].status = "unauthorized" /\ ~call[c].retried

Receive(c) ==
    /\ Is(c, "answered") \/ Is(c, "lost")
    /\ jar' = Received(call[c].cookies)
    /\ IF Retriable(c)
       THEN /\ promise' = Join(c)
            /\ call' = [call EXCEPT ![c] = [Over(@, "waiting") EXCEPT !.on = Join(c)]]
            /\ refresh' = IF Join(c) = c
                          THEN [refresh EXCEPT ![c].phase = "started"]
                          ELSE refresh
       ELSE /\ call' = [call EXCEPT ![c] = Over(@, "settled")]
            /\ UNCHANGED <<promise, refresh>>
    /\ UNCHANGED <<server, mishap>>

RefreshTransmit(c) ==
    /\ refresh[c].phase = "started"
    /\ refresh' = [refresh EXCEPT ![c].phase = "sent", ![c].carried = jar]
    /\ UNCHANGED <<call, promise, jar, server, mishap>>

(* finally: the promise is forgotten, and whoever awaited it is replayed,  *)
(* or told the answer he already had.                                      *)
Awake(c, ok) ==
    /\ promise' = None
    /\ refresh' = [refresh EXCEPT ![c].phase = "ended", ![c].ok = ok,
                                  ![c].cookies = Keep]
    /\ call' = [d \in Calls |->
         IF ~Is(d, "waiting") \/ call[d].on # c THEN call[d]
         ELSE IF ok THEN [Over(call[d], "again") EXCEPT !.retried = TRUE]
         ELSE Over(call[d], "settled")]

(* Mutation: the 401 of the refresh awaits the refresh.                    *)
RefreshReceiveAwaits(c) ==
    /\ refresh[c].phase = "answered"
    /\ jar' = Received(refresh[c].cookies)
    /\ IF refresh[c].ok
       THEN Awake(c, TRUE)
       ELSE refresh' = [refresh EXCEPT ![c].phase = "ended"] /\ UNCHANGED <<call, promise>>
    /\ UNCHANGED <<server, mishap>>

(* isRefreshCall: the answer to the refresh itself is never waited for.    *)
RefreshReceive(c) ==
    /\ refresh[c].phase = "answered"
    /\ jar' = Received(refresh[c].cookies)
    /\ Awake(c, refresh[c].ok)
    /\ UNCHANGED <<server, mishap>>

-----------------------------------------------------------------------------
(* The environment.                                                        *)

(* The request or its answer is lost, or answered with an error that is    *)
(* neither 401 nor 403: the interceptor hands all of them to the page.     *)
Lose(c) ==
    /\ Is(c, "sent") \/ Is(c, "answered")
    /\ call' = [call EXCEPT ![c].phase = "lost", ![c].status = "lost",
                            ![c].cookies = Keep]
    /\ UNCHANGED <<refresh, promise, jar, server, mishap>>

(* The handler of a refresh may have got as far as the GETDEL.             *)
RefreshLose(c) ==
    /\ refresh[c].phase \in {"sent", "answered"}
    /\ Awake(c, FALSE)
    /\ mishap' = TRUE
    /\ \/ UNCHANGED live
       \/ refresh[c].phase = "sent" /\ live' = live \ {refresh[c].carried}
    /\ UNCHANGED <<jar, family, expired>>

ExpireAccess(s) ==
    /\ s \notin expired
    /\ s = jar \/ \E c \in Calls : Is(c, "sent") /\ call[c].carried = s
    /\ expired' = expired \cup {s}
    /\ UNCHANGED <<call, refresh, promise, jar, live, family, mishap>>

OnItsWay(c) ==
    \/ Transmit(c) \/ Refused(c) \/ Handle(c) \/ LoginOk(c) \/ LoginWrong(c)
    \/ Logout(c) \/ Receive(c) \/ Lose(c)
    \/ Is(c, "again") /\ Prepare(c)

Refreshing(c) ==
    \/ RefreshTransmit(c)
    \/ Rotate(c) \/ RefreshRefused(c) \/ RefreshMissing(c) \/ RefreshLimited(c)
    \/ RefreshReceive(c) \/ RefreshLose(c)

Next ==
    \/ \E c \in Calls : Prepare(c) \/ OnItsWay(c) \/ Refreshing(c)
    \/ \E s \in Sessions : ExpireAccess(s)

(* As long as anything is under way, something of it goes on: requests are *)
(* answered or given up.  No page has to make one.                         *)
Spec ==
    /\ Init /\ [][Next]_vars
    /\ WF_vars(\E c \in Calls : OnItsWay(c) \/ Refreshing(c))

-----------------------------------------------------------------------------
(* Types; above all, no call is sent, or handled, more than twice          *)
(* (api.ts: replayed exactly once).                                        *)
TypeOK ==
    /\ call \in [Calls -> Call]
    /\ refresh \in [Calls -> Refresh]
    /\ promise \in Calls \cup {None}
    /\ jar \in Jar
    /\ live \subseteq Sessions
    /\ family \in [Sessions -> Sessions \cup {None}]
    /\ expired \subseteq Sessions
    /\ mishap \in BOOLEAN

(* A tab has one refresh in flight, whichever calls found their token      *)
(* expired (api.ts, refreshPromise); RefreshSessions takes that of a tab   *)
(* for granted.                                                            *)
InFlight == {c \in Calls : refresh[c].phase \in {"started", "sent", "answered"}}
SingleFlight ==
    /\ Cardinality(InFlight) <= 1
    /\ \A c \in Calls : Is(c, "waiting") => call[c].on \in InFlight

(* What a page is told of a change is true: it happened once if the page   *)
(* is told so, not at all if it is told 401 or 403, and never twice, in    *)
(* spite of the replay (the handler runs after CSRF and AuthN only).       *)
ChangesHappenOnce ==
    \A c \in Calls : Kind[c] \in {"write", "logout"} =>
        /\ call[c].runs <= 1
        /\ Is(c, "settled") =>
             /\ call[c].status = "ok" => call[c].runs = 1
             /\ call[c].status \in {"unauthorized", "forbidden"} => call[c].runs = 0

(* A refresh fails only if something happened to the session: the tab had  *)
(* none or logged out, an answer was lost, the limit was reached, or the   *)
(* session was ended from outside.  A tab alone never uses a token twice.  *)
OnlyEndedSessionsFail ==
    \A c \in Calls :
        refresh[c].phase = "ended" /\ ~refresh[c].ok =>
            \/ mishap
            \/ refresh[c].carried = None
            \/ \E d \in Calls : Kind[d] = "logout" /\ call[d].runs > 0

(* Every call that is made comes to its end, with a result or an error:    *)
(* none waits for good for a refresh (api.ts: no infinite retry).          *)
EveryCallSettles ==
    <>[](\A c \in Calls : Is(c, "idle") \/ Is(c, "settled"))
=============================================================================
