---------------------------- MODULE ClientProofs ----------------------------
(***************************************************************************)
(* The HTTP client of a tab proved for any number of calls of any kind.    *)
(***************************************************************************)
EXTENDS ApiClient, FiniteSetTheorems, TLAPS

-----------------------------------------------------------------------------
(* The life of a call: how often it was sent and handled in each phase.    *)

StageOf(r) ==
    /\ r.phase = "idle" => r.tries = 0 /\ ~r.retried
    /\ r.phase = "prepared" => r.tries = IF r.retried THEN 1 ELSE 0
    /\ r.phase = "again" => r.tries = 1 /\ r.retried
    /\ r.phase = "waiting" =>
         r.tries = 1 /\ ~r.retried /\ r.status = "unauthorized"
    /\ r.phase \in {"sent", "answered", "lost"} =>
         r.tries = IF r.retried THEN 2 ELSE 1
    /\ r.runs <= r.tries
    /\ r.phase = "sent" => r.runs < r.tries
    /\ r.phase = "lost" => r.status = "lost"

(* The handler of a change ran if the last answer says so, and not before  *)
(* that answer.                                                            *)
RunsOf(kind, r) ==
    kind \in {"write", "logout"} =>
        /\ r.phase \in {"idle", "prepared", "sent", "waiting", "again"} => r.runs = 0
        /\ r.phase \in {"answered", "lost", "settled"} =>
             /\ r.runs <= 1
             /\ r.status = "ok" => r.runs = 1
             /\ r.status \in {"unauthorized", "forbidden"} => r.runs = 0

(* Cookies are set by a login that is no replay, and cleared by a logout.  *)
CookiesOf(c, r) ==
    /\ r.cookies \in {Keep, None, c}
    /\ r.cookies # Keep => r.phase = "answered" /\ r.status = "ok"
    /\ r.cookies = c => ~r.retried
    /\ r.cookies = None => Kind[c] = "logout" /\ r.runs > 0

Lives(c, r) == StageOf(r) /\ RunsOf(Kind[c], r) /\ CookiesOf(c, r)
Stages == \A c \in Calls : Lives(c, call[c])

(* A call that a step leaves alone, and a step of one call.                *)
Others(c) == \A d \in Calls \ {c} : call'[d] = call[d]

(* What each step does to its call.                                        *)
LEMMA PrepareDoes ==
    ASSUME TypeOK, NEW c \in Calls, Prepare(c)
    PROVE  /\ call' \in [Calls -> Call] /\ Others(c)
           /\ call[c].phase \in {"idle", "again"} /\ call'[c].phase = "prepared"
           /\ call'[c].tries = call[c].tries /\ call'[c].runs = call[c].runs
           /\ call'[c].retried = call[c].retried
           /\ call'[c].carried = call[c].carried
           /\ call'[c].status = call[c].status
           /\ call'[c].cookies = call[c].cookies
<1> DEFINE h == IF Mutating(c) THEN jar ELSE call[c].header
           r == [call[c] EXCEPT !.phase = "prepared", !.header = h]
<1>1. call[c] \in Call /\ call \in [Calls -> Call] /\ jar \in Jar
  BY DEF TypeOK
<1>2. h \in Jar
  BY <1>1 DEF Call
<1>3. call' = [call EXCEPT ![c] = r]
  BY <1>1 DEF Prepare
<1> HIDE DEF h
<1>4. r \in Call
  BY <1>1, <1>2 DEF Call
<1>5. /\ r.phase = "prepared" /\ r.tries = call[c].tries /\ r.runs = call[c].runs
      /\ r.retried = call[c].retried /\ r.carried = call[c].carried
      /\ r.status = call[c].status /\ r.cookies = call[c].cookies
  BY <1>1 DEF Call
<1> HIDE DEF r
<1> QED BY <1>1, <1>3, <1>4, <1>5 DEF Others, Prepare, Is

(* The same of sending.                                                    *)
LEMMA TransmitDoes ==
    ASSUME TypeOK, Stages, NEW c \in Calls, Transmit(c)
    PROVE  /\ call' \in [Calls -> Call] /\ Others(c)
           /\ call[c].phase = "prepared" /\ call'[c].phase = "sent"
           /\ call'[c].tries = call[c].tries + 1 /\ call'[c].runs = call[c].runs
           /\ call'[c].retried = call[c].retried
           /\ call'[c].carried = jar
           /\ call'[c].status = call[c].status
           /\ call'[c].cookies = call[c].cookies
<1> DEFINE r == [call[c] EXCEPT !.phase = "sent", !.carried = jar,
                                !.tries = call[c].tries + 1]
<1>1. call[c] \in Call /\ call \in [Calls -> Call] /\ jar \in Jar
  BY DEF TypeOK
<1>2. call[c].tries + 1 \in 0..2
  BY DEF Stages, Lives, StageOf, Transmit, Is
<1>3. call' = [call EXCEPT ![c] = r]
  BY <1>1 DEF Transmit
<1>4. r \in Call
  BY <1>1, <1>2 DEF Call
<1>5. /\ r.phase = "sent" /\ r.tries = call[c].tries + 1 /\ r.runs = call[c].runs
      /\ r.retried = call[c].retried /\ r.carried = jar
      /\ r.status = call[c].status /\ r.cookies = call[c].cookies
  BY <1>1 DEF Call
<1> HIDE DEF r
<1> QED BY <1>1, <1>3, <1>4, <1>5 DEF Others, Transmit, Is

(* The same of an answer, whatever it says.                                *)
LEMMA AnswerDoes ==
    ASSUME TypeOK, Stages, NEW c \in Calls, Is(c, "sent"),
           NEW status \in Statuses, NEW cookies \in Jar \cup {Keep},
           Answer(c, status, cookies)
    PROVE  /\ call' \in [Calls -> Call] /\ Others(c)
           /\ call[c].phase = "sent" /\ call'[c].phase = "answered"
           /\ call'[c].tries = call[c].tries
           /\ call'[c].runs = IF CsrfOk(c) /\ AuthOk(c) THEN call[c].runs + 1
                                                        ELSE call[c].runs
           /\ call'[c].retried = call[c].retried
           /\ call'[c].carried = call[c].carried
           /\ call'[c].status = status
           /\ call'[c].cookies = cookies
<1> DEFINE n == IF CsrfOk(c) /\ AuthOk(c) THEN call[c].runs + 1 ELSE call[c].runs
           r == [call[c] EXCEPT !.phase = "answered", !.status = status,
                                !.cookies = cookies, !.runs = n]
<1>1. call[c] \in Call /\ call \in [Calls -> Call]
  BY DEF TypeOK
<1>2. n \in 0..2
  <2>1. call[c].runs < call[c].tries
    BY DEF Stages, Lives, StageOf, Is
  <2>2. call[c].runs \in 0..2 /\ call[c].tries \in 0..2
    BY <1>1 DEF Call
  <2> QED BY <2>1, <2>2
<1>3. call' = [call EXCEPT ![c] = r]
  BY <1>1 DEF Answer
<1> HIDE DEF n
<1>4. r \in Call
  BY <1>1, <1>2 DEF Call
<1>5. /\ r.phase = "answered" /\ r.tries = call[c].tries /\ r.runs = n
      /\ r.retried = call[c].retried /\ r.carried = call[c].carried
      /\ r.status = status /\ r.cookies = cookies
  BY <1>1 DEF Call
<1> HIDE DEF r
<1> QED BY <1>1, <1>3, <1>4, <1>5 DEF Others, Is, n

(* The same of an answer, or a request, that is lost.                      *)
LEMMA LoseDoes ==
    ASSUME TypeOK, NEW c \in Calls, Lose(c)
    PROVE  /\ call' \in [Calls -> Call] /\ Others(c)
           /\ call[c].phase \in {"sent", "answered"} /\ call'[c].phase = "lost"
           /\ call'[c].tries = call[c].tries /\ call'[c].runs = call[c].runs
           /\ call'[c].retried = call[c].retried
           /\ call'[c].carried = call[c].carried
           /\ call'[c].status = "lost"
           /\ call'[c].cookies = Keep
<1> DEFINE r == [call[c] EXCEPT !.phase = "lost", !.status = "lost",
                                !.cookies = Keep]
<1>1. call[c] \in Call /\ call \in [Calls -> Call]
  BY DEF TypeOK
<1>3. call' = [call EXCEPT ![c] = r]
  BY <1>1 DEF Lose
<1>4. r \in Call
  BY <1>1 DEF Call, Statuses
<1>5. /\ r.phase = "lost" /\ r.tries = call[c].tries /\ r.runs = call[c].runs
      /\ r.retried = call[c].retried /\ r.carried = call[c].carried
      /\ r.status = "lost" /\ r.cookies = Keep
  BY <1>1 DEF Call
<1> HIDE DEF r
<1> QED BY <1>1, <1>3, <1>4, <1>5 DEF Others, Lose, Is

(* A call whose answer is over.                                            *)
LEMMA OverDoes ==
    ASSUME NEW r \in Call,
           NEW phase \in {"again", "settled", "waiting"}
    PROVE  /\ Over(r, phase) \in Call
           /\ Over(r, phase).phase = phase
           /\ Over(r, phase).tries = r.tries /\ Over(r, phase).runs = r.runs
           /\ Over(r, phase).retried = r.retried
           /\ Over(r, phase).carried = None
           /\ Over(r, phase).status = r.status
           /\ Over(r, phase).cookies = Keep
BY DEF Over, Call, Jar

(* The same of what the interceptor makes of an answer.                    *)
LEMMA ReceiveDoes ==
    ASSUME TypeOK, NEW c \in Calls, Receive(c)
    PROVE  /\ call' \in [Calls -> Call] /\ Others(c)
           /\ call[c].phase \in {"answered", "lost"}
           /\ call'[c].tries = call[c].tries /\ call'[c].runs = call[c].runs
           /\ call'[c].retried = call[c].retried
           /\ call'[c].status = call[c].status
           /\ call'[c].cookies = Keep /\ call'[c].carried = None
           /\ Retriable(c) => /\ call'[c].phase = "waiting"
                              /\ call'[c].on = Join(c)
           /\ ~Retriable(c) => call'[c].phase = "settled"
<1>1. call[c] \in Call /\ call \in [Calls -> Call] /\ promise \in Calls \cup {None}
  BY DEF TypeOK
<1>2. CASE Retriable(c)
  <2> DEFINE o == Over(call[c], "waiting")
             r == [o EXCEPT !.on = Join(c)]
  <2>1. call' = [call EXCEPT ![c] = r]
    BY <1>1, <1>2 DEF Receive
  <2>2. /\ o \in Call /\ o.phase = "waiting" /\ o.tries = call[c].tries
        /\ o.runs = call[c].runs /\ o.retried = call[c].retried
        /\ o.status = call[c].status /\ o.cookies = Keep /\ o.carried = None
    BY <1>1, OverDoes
  <2> HIDE DEF o
  <2>3. Join(c) \in Calls
    BY <1>1 DEF Join
  <2>4. r \in Call
    BY <2>2, <2>3 DEF Call, Jar
  <2>5. /\ r.phase = "waiting" /\ r.tries = call[c].tries
        /\ r.runs = call[c].runs /\ r.retried = call[c].retried
        /\ r.status = call[c].status /\ r.cookies = Keep
        /\ r.on = Join(c) /\ r.carried = None
    BY <2>2 DEF Call
  <2> HIDE DEF r
  <2> QED BY <1>1, <1>2, <2>1, <2>4, <2>5 DEF Others, Receive, Is
<1>3. CASE ~Retriable(c)
  <2> DEFINE r == Over(call[c], "settled")
  <2>1. call' = [call EXCEPT ![c] = r]
    BY <1>1, <1>3 DEF Receive
  <2>2. /\ r \in Call /\ r.phase = "settled" /\ r.tries = call[c].tries
        /\ r.runs = call[c].runs /\ r.retried = call[c].retried
        /\ r.status = call[c].status /\ r.cookies = Keep
        /\ r.carried = None
    BY <1>1, OverDoes
  <2> HIDE DEF r
  <2> QED BY <1>1, <1>3, <2>1, <2>2 DEF Others, Receive, Is
<1> QED BY <1>2, <1>3

(* Whoever awaits a refresh that ends goes on.                             *)
Awaits(d, c) == Is(d, "waiting") /\ call[d].on = c
(* Nobody else is touched.                                                 *)
LEMMA AwakeDoes ==
    ASSUME TypeOK, NEW c, NEW ok \in BOOLEAN, Awake(c, ok)
    PROVE  /\ call' \in [Calls -> Call]
           /\ \A d \in Calls : ~Awaits(d, c) => call'[d] = call[d]
           /\ \A d \in Calls : Awaits(d, c) =>
                /\ call'[d].tries = call[d].tries /\ call'[d].runs = call[d].runs
                /\ call'[d].carried = None
                /\ call'[d].status = call[d].status /\ call'[d].cookies = Keep
                /\ ok => call'[d].phase = "again" /\ call'[d].retried
                /\ ~ok => /\ call'[d].phase = "settled"
                          /\ call'[d].retried = call[d].retried
<1> DEFINE After(d) == IF ~Is(d, "waiting") \/ call[d].on # c THEN call[d]
                      ELSE IF ok THEN [Over(call[d], "again") EXCEPT !.retried = TRUE]
                      ELSE Over(call[d], "settled")
<1>1. call' = [d \in Calls |-> After(d)]
  BY DEF Awake
<1>2. ASSUME NEW d \in Calls, ~Awaits(d, c) PROVE After(d) = call[d] /\ After(d) \in Call
  BY <1>2 DEF Awaits, TypeOK
<1>3. ASSUME NEW d \in Calls, Awaits(d, c)
      PROVE  /\ After(d) \in Call
             /\ After(d).tries = call[d].tries /\ After(d).runs = call[d].runs
             /\ After(d).carried = None
             /\ After(d).status = call[d].status /\ After(d).cookies = Keep
             /\ ok => After(d).phase = "again" /\ After(d).retried
             /\ ~ok => After(d).phase = "settled" /\ After(d).retried = call[d].retried
  <2>1. call[d] \in Call
    BY DEF TypeOK
  <2>2. CASE ok
    <3> DEFINE o == Over(call[d], "again")
    <3>1. After(d) = [o EXCEPT !.retried = TRUE]
      BY <1>3, <2>2 DEF Awaits
    <3>2. /\ o \in Call /\ o.phase = "again" /\ o.tries = call[d].tries
          /\ o.runs = call[d].runs /\ o.carried = None
          /\ o.status = call[d].status /\ o.cookies = Keep
      BY <2>1, OverDoes
    <3> HIDE DEF o, After
    <3> QED BY <2>2, <3>1, <3>2 DEF Call
  <2>3. CASE ~ok
    <3> DEFINE o == Over(call[d], "settled")
    <3>1. After(d) = o
      BY <1>3, <2>3 DEF Awaits
    <3>2. /\ o \in Call /\ o.phase = "settled" /\ o.tries = call[d].tries
          /\ o.runs = call[d].runs /\ o.carried = None
          /\ o.status = call[d].status /\ o.cookies = Keep
          /\ o.retried = call[d].retried
      BY <2>1, OverDoes
    <3> HIDE DEF o, After
    <3> QED BY <2>3, <3>1, <3>2
  <2> QED BY <2>2, <2>3
<1> HIDE DEF After
<1>4. \A d \in Calls : call'[d] = After(d)
  BY <1>1
<1> QED BY <1>1, <1>2, <1>3, <1>4

(* One call goes on in its life and the others stay.                       *)
LEMMA OneLives ==
    ASSUME Stages, NEW c \in Calls, Others(c), Lives(c, call'[c])
    PROVE  Stages'
<1> SUFFICES ASSUME NEW d \in Calls PROVE Lives(d, call'[d])
  BY DEF Stages, Lives, StageOf, RunsOf, CookiesOf
<1> QED BY DEF Others, Stages

(* A step that leaves the calls alone keeps their stages.                  *)
LEMMA StagesFrame == Stages /\ call' = call => Stages'
BY DEF Stages, Lives, StageOf, RunsOf, CookiesOf

(* A call without an answer to take in sets nothing.                       *)
LEMMA NoCookies ==
    ASSUME NEW c \in Calls, NEW r, r.cookies = Keep
    PROVE  CookiesOf(c, r)
BY ClientAssumption DEF CookiesOf, Jar, Sessions

(* Every step keeps the calls within their lives.                          *)
LEMMA StagesNext ==
    TypeOK /\ Stages /\ [Next]_vars => Stages' /\ call' \in [Calls -> Call]
<1> SUFFICES ASSUME TypeOK, Stages, [Next]_vars
             PROVE  Stages' /\ call' \in [Calls -> Call]
  OBVIOUS
<1>0. call \in [Calls -> Call]
  BY DEF TypeOK
<1>1. ASSUME NEW c \in Calls PROVE Lives(c, call[c]) /\ call[c].runs \in 0..2
                                   /\ call[c].tries \in 0..2
                                   /\ call[c].retried \in BOOLEAN
  BY <1>0 DEF Stages, Call
<1>2. ASSUME NEW c \in Calls, Prepare(c) PROVE Stages' /\ call' \in [Calls -> Call]
  <2>1. Lives(c, call'[c])
    BY <1>1, <1>2, PrepareDoes DEF Lives, StageOf, RunsOf, CookiesOf
  <2> QED BY <1>2, <2>1, PrepareDoes, OneLives
<1>3. ASSUME NEW c \in Calls, Transmit(c) PROVE Stages' /\ call' \in [Calls -> Call]
  <2>1. Lives(c, call'[c])
    BY <1>1, <1>3, TransmitDoes DEF Lives, StageOf, RunsOf, CookiesOf
  <2> QED BY <1>3, <2>1, TransmitDoes, OneLives
<1>4. ASSUME NEW c \in Calls, NEW status \in Statuses,
             NEW cookies \in Jar \cup {Keep},
             Is(c, "sent"), Answer(c, status, cookies),
             status = "ok" => CsrfOk(c) /\ AuthOk(c),
             status \in {"forbidden", "unauthorized"} =>
               ~(CsrfOk(c) /\ AuthOk(c)) \/ Kind[c] = "login",
             cookies = Keep \/ status = "ok",
             \/ cookies = Keep
             \/ cookies = c /\ ~call[c].retried
             \/ cookies = None /\ Kind[c] = "logout"
      PROVE  Stages' /\ call' \in [Calls -> Call]
  <2>1. StageOf(call'[c])
    BY <1>1, <1>4, AnswerDoes DEF Lives, StageOf
  <2>2. RunsOf(Kind[c], call'[c])
    BY <1>1, <1>4, AnswerDoes DEF Lives, RunsOf
  <2>3. CookiesOf(c, call'[c])
    BY <1>1, <1>4, AnswerDoes, ClientAssumption DEF Lives, CookiesOf, Jar, Sessions
  <2> QED BY <1>4, <2>1, <2>2, <2>3, AnswerDoes, OneLives DEF Lives
<1>5. ASSUME NEW c \in Calls, Refused(c) PROVE Stages' /\ call' \in [Calls -> Call]
  BY <1>4, <1>5 DEF Refused, Statuses
<1>6. ASSUME NEW c \in Calls, Handle(c) \/ LoginWrong(c)
      PROVE  Stages' /\ call' \in [Calls -> Call]
  BY <1>4, <1>6 DEF Handle, LoginWrong, Admitted, Statuses
<1>7. ASSUME NEW c \in Calls, LoginOk(c) \/ Logout(c)
      PROVE  Stages' /\ call' \in [Calls -> Call]
  BY <1>4, <1>7 DEF LoginOk, Logout, Admitted, Statuses, Jar, Sessions
<1>8. ASSUME NEW c \in Calls, Lose(c) PROVE Stages' /\ call' \in [Calls -> Call]
  <2>1. Lives(c, call'[c])
    <3>1. StageOf(call'[c]) /\ RunsOf(Kind[c], call'[c])
      BY <1>1, <1>8, LoseDoes DEF Lives, StageOf, RunsOf
    <3> QED BY <1>8, <3>1, NoCookies, LoseDoes DEF Lives
  <2> QED BY <1>8, <2>1, LoseDoes, OneLives
<1>9. ASSUME NEW c \in Calls, Receive(c) PROVE Stages' /\ call' \in [Calls -> Call]
  <2>1. Lives(c, call'[c])
    <3>1. StageOf(call'[c]) /\ RunsOf(Kind[c], call'[c])
      BY <1>1, <1>9, ReceiveDoes DEF Lives, StageOf, RunsOf, Retriable
    <3> QED BY <1>9, <3>1, NoCookies, ReceiveDoes DEF Lives
  <2> QED BY <1>9, <2>1, ReceiveDoes, OneLives
<1>10. ASSUME NEW c \in Calls, NEW ok \in BOOLEAN, Awake(c, ok)
       PROVE  Stages' /\ call' \in [Calls -> Call]
  <2>1. ASSUME NEW d \in Calls PROVE Lives(d, call'[d])
    <3>1. CASE Awaits(d, c)
      <4>1. StageOf(call'[d]) /\ RunsOf(Kind[d], call'[d])
        BY <1>1, <1>10, <3>1, AwakeDoes DEF Lives, StageOf, RunsOf, Awaits, Is
      <4> QED BY <1>10, <3>1, <4>1, NoCookies, AwakeDoes DEF Lives
    <3>2. CASE ~Awaits(d, c)
      BY <1>1, <1>10, <3>2, AwakeDoes
    <3> QED BY <3>1, <3>2
  <2>2. Stages'
    BY <2>1 DEF Stages, Lives, StageOf, RunsOf, CookiesOf
  <2> QED BY <1>10, <2>2, AwakeDoes
<1>11. ASSUME NEW c \in Calls, Refreshing(c)
       PROVE  Stages' /\ call' \in [Calls -> Call]
  <2>1. CASE RefreshReceive(c) \/ RefreshLose(c)
    <3>1. refresh[c].ok \in BOOLEAN
      BY DEF TypeOK, Refresh
    <3> QED BY <1>10, <2>1, <3>1 DEF RefreshReceive, RefreshLose
  <2>2. CASE \/ RefreshTransmit(c) \/ Rotate(c) \/ RefreshRefused(c)
             \/ RefreshMissing(c) \/ RefreshLimited(c)
    <3>1. call' = call
      BY <2>2 DEF RefreshTransmit, Rotate, RefreshRefused, RefreshMissing,
                  RefreshLimited, RefreshAnswer
    <3> QED BY <1>0, <3>1, StagesFrame
  <2> QED BY <1>11, <2>1, <2>2 DEF Refreshing
<1>12. CASE (\E s \in Sessions : ExpireAccess(s)) \/ UNCHANGED vars
  <2>1. call' = call
    BY <1>12 DEF ExpireAccess, vars
  <2> QED BY <1>0, <2>1, StagesFrame
<1> QED BY <1>2, <1>3, <1>5, <1>6, <1>7, <1>8, <1>9, <1>11, <1>12
        DEF Next, OnItsWay

(* The rest of the types.                                                  *)
LEMMA TypeNext == TypeOK /\ Stages /\ [Next]_vars => TypeOK'
<1> SUFFICES ASSUME TypeOK, Stages, [Next]_vars PROVE TypeOK'
  OBVIOUS
<1> USE DEF server
<1>0. call' \in [Calls -> Call]
  BY StagesNext
<1>1. \A c \in Calls : /\ refresh[c] \in Refresh /\ call[c] \in Call
  BY DEF TypeOK
<1>2. ASSUME NEW c \in Calls, Prepare(c) \/ Transmit(c) \/ Refused(c) \/ Handle(c)
                              \/ LoginWrong(c) \/ Lose(c)
      PROVE  TypeOK'
  BY <1>0, <1>2 DEF TypeOK, Prepare, Transmit, Refused, Handle, LoginWrong, Lose
<1>3. ASSUME NEW c \in Calls, LoginOk(c) \/ Logout(c) PROVE TypeOK'
  BY <1>0, <1>3 DEF TypeOK, LoginOk, Logout, Revoked, Sessions
<1>4. ASSUME NEW c \in Calls, Receive(c) PROVE TypeOK'
  <2>1. Received(call[c].cookies) \in Jar
    BY <1>1 DEF TypeOK, Received, Call
  <2>2. Join(c) \in Calls
    BY DEF TypeOK, Join
  <2>3. refresh' \in [Calls -> Refresh] /\ promise' \in Calls \cup {None}
    <3>1. [refresh[c] EXCEPT !.phase = "started"] \in Refresh
      BY <1>1 DEF Refresh
    <3> QED BY <1>4, <2>2, <3>1 DEF Receive, TypeOK
  <2> QED BY <1>0, <1>4, <2>1, <2>3 DEF TypeOK, Receive
<1>5. ASSUME NEW c \in Calls, RefreshTransmit(c) PROVE TypeOK'
  <2>1. [refresh[c] EXCEPT !.phase = "sent", !.carried = jar] \in Refresh
    BY <1>1 DEF Refresh, TypeOK
  <2> QED BY <1>5, <2>1 DEF TypeOK, RefreshTransmit
<1>6. ASSUME NEW c \in Calls, NEW ok \in BOOLEAN, NEW cookies \in Jar \cup {Keep},
             RefreshAnswer(c, ok, cookies)
      PROVE  refresh' \in [Calls -> Refresh]
  <2>1. [refresh[c] EXCEPT !.phase = "answered", !.ok = ok, !.cookies = cookies]
          \in Refresh
    BY <1>1 DEF Refresh
  <2> QED BY <1>6, <2>1 DEF RefreshAnswer, TypeOK
<1>7. ASSUME NEW c \in Calls, Rotate(c) PROVE TypeOK'
  <2>1. refresh' \in [Calls -> Refresh]
    BY <1>6, <1>7 DEF Rotate, Jar, Sessions
  <2> QED BY <1>0, <1>7, <2>1 DEF TypeOK, Rotate, RefreshAnswer, Sessions
<1>8. ASSUME NEW c \in Calls, RefreshRefused(c) \/ RefreshMissing(c) \/ RefreshLimited(c)
      PROVE  TypeOK'
  <2>1. refresh' \in [Calls -> Refresh]
    BY <1>6, <1>8 DEF RefreshRefused, RefreshMissing, RefreshLimited, Jar
  <2>2. mishap' \in BOOLEAN
    BY <1>8 DEF RefreshRefused, RefreshMissing, RefreshLimited, TypeOK
  <2> QED BY <1>0, <1>8, <2>1, <2>2
          DEF TypeOK, RefreshRefused, RefreshMissing, RefreshLimited, RefreshAnswer, Revoked
<1>9. ASSUME NEW c \in Calls, NEW ok \in BOOLEAN, Awake(c, ok)
      PROVE  refresh' \in [Calls -> Refresh] /\ promise' \in Calls \cup {None}
  <2>1. [refresh[c] EXCEPT !.phase = "ended", !.ok = ok, !.cookies = Keep]
          \in Refresh
    BY <1>1 DEF Refresh
  <2> QED BY <1>9, <2>1 DEF Awake, TypeOK
<1>10. ASSUME NEW c \in Calls, RefreshReceive(c) PROVE TypeOK'
  <2>1. refresh[c].ok \in BOOLEAN /\ Received(refresh[c].cookies) \in Jar
    BY <1>1 DEF Refresh, Received, TypeOK
  <2>2. refresh' \in [Calls -> Refresh] /\ promise' \in Calls \cup {None}
    BY <1>9, <1>10, <2>1 DEF RefreshReceive
  <2> QED BY <1>0, <1>10, <2>1, <2>2 DEF TypeOK, RefreshReceive
<1>11. ASSUME NEW c \in Calls, RefreshLose(c) PROVE TypeOK'
  <2>1. refresh' \in [Calls -> Refresh] /\ promise' \in Calls \cup {None}
    BY <1>9, <1>11 DEF RefreshLose
  <2> QED BY <1>0, <1>11, <2>1 DEF TypeOK, RefreshLose
<1>12. CASE (\E s \in Sessions : ExpireAccess(s)) \/ UNCHANGED vars
  BY <1>12 DEF ExpireAccess, vars, TypeOK
<1> QED BY <1>2, <1>3, <1>4, <1>5, <1>7, <1>8, <1>10, <1>11, <1>12
        DEF Next, OnItsWay, Refreshing

-----------------------------------------------------------------------------
(* One refresh at a time.                                                  *)

(* The refresh under way is the one the tab awaits, its call waits too, and *)
(* so does nobody for any other.                                           *)
Flying == {"started", "sent", "answered"}
Flight ==
    /\ \A c \in Calls : refresh[c].phase \in Flying <=> c = promise
    /\ \A c \in Calls : Is(c, "waiting") => call[c].on = promise /\ promise # None
    /\ \A c \in Calls : c = promise => Is(c, "waiting")
    /\ \A c \in Calls : refresh[c].phase = "answered" =>
         refresh[c].cookies \in IF refresh[c].ok THEN {c} ELSE {None, Keep}

(* What each step does to its refresh.                                     *)
LEMMA RefreshTransmitDoes ==
    ASSUME TypeOK, NEW c \in Calls, RefreshTransmit(c)
    PROVE  /\ refresh[c].phase = "started" /\ refresh'[c].phase = "sent"
           /\ refresh'[c].carried = jar
           /\ refresh'[c].ok = refresh[c].ok
           /\ refresh'[c].cookies = refresh[c].cookies
           /\ \A d \in Calls \ {c} : refresh'[d] = refresh[d]
<1> DEFINE r == [refresh[c] EXCEPT !.phase = "sent", !.carried = jar]
<1>1. refresh[c] \in Refresh /\ refresh \in [Calls -> Refresh]
  BY DEF TypeOK
<1>2. refresh' = [refresh EXCEPT ![c] = r] /\ refresh[c].phase = "started"
  BY <1>1 DEF RefreshTransmit
<1>3. /\ r.phase = "sent" /\ r.carried = jar /\ r.ok = refresh[c].ok
      /\ r.cookies = refresh[c].cookies
  BY <1>1 DEF Refresh
<1> HIDE DEF r
<1> QED BY <1>1, <1>2, <1>3

(* The same of its answer.                                                 *)
LEMMA RefreshAnswerDoes ==
    ASSUME TypeOK, NEW c \in Calls, NEW ok, NEW cookies,
           RefreshAnswer(c, ok, cookies)
    PROVE  /\ refresh[c].phase = "sent" /\ refresh'[c].phase = "answered"
           /\ refresh'[c].carried = refresh[c].carried
           /\ refresh'[c].ok = ok /\ refresh'[c].cookies = cookies
           /\ \A d \in Calls \ {c} : refresh'[d] = refresh[d]
<1> DEFINE r == [refresh[c] EXCEPT !.phase = "answered", !.ok = ok,
                                   !.cookies = cookies]
<1>1. refresh[c] \in Refresh /\ refresh \in [Calls -> Refresh]
  BY DEF TypeOK
<1>2. refresh' = [refresh EXCEPT ![c] = r] /\ refresh[c].phase = "sent"
  BY <1>1 DEF RefreshAnswer
<1>3. /\ r.phase = "answered" /\ r.carried = refresh[c].carried /\ r.ok = ok
      /\ r.cookies = cookies
  BY <1>1 DEF Refresh
<1> HIDE DEF r
<1> QED BY <1>1, <1>2, <1>3

(* The same of its end.                                                    *)
LEMMA AwakeEnds ==
    ASSUME TypeOK, NEW c \in Calls, NEW ok, Awake(c, ok)
    PROVE  /\ promise' = None
           /\ refresh'[c].phase = "ended" /\ refresh'[c].ok = ok
           /\ refresh'[c].carried = refresh[c].carried
           /\ \A d \in Calls \ {c} : refresh'[d] = refresh[d]
<1> DEFINE r == [refresh[c] EXCEPT !.phase = "ended", !.ok = ok,
                                   !.cookies = Keep]
<1>1. refresh[c] \in Refresh /\ refresh \in [Calls -> Refresh]
  BY DEF TypeOK
<1>2. refresh' = [refresh EXCEPT ![c] = r] /\ promise' = None
  BY <1>1 DEF Awake
<1>3. /\ r.phase = "ended" /\ r.ok = ok /\ r.carried = refresh[c].carried
  BY <1>1 DEF Refresh
<1> HIDE DEF r
<1> QED BY <1>1, <1>2, <1>3

(* The same of its beginning, when a call is the first to be told 401.     *)
LEMMA ReceiveStarts ==
    ASSUME TypeOK, NEW c \in Calls, Receive(c)
    PROVE  /\ ~Retriable(c) => promise' = promise /\ refresh' = refresh
           /\ Retriable(c) =>
                /\ promise' = Join(c)
                /\ Join(c) # c => refresh' = refresh
                /\ Join(c) = c =>
                     /\ refresh'[c].phase = "started"
                     /\ refresh'[c].carried = refresh[c].carried
                     /\ \A d \in Calls \ {c} : refresh'[d] = refresh[d]
<1> DEFINE r == [refresh[c] EXCEPT !.phase = "started"]
<1>1. refresh[c] \in Refresh /\ refresh \in [Calls -> Refresh]
  BY DEF TypeOK
<1>2. r.phase = "started" /\ r.carried = refresh[c].carried
  BY <1>1 DEF Refresh
<1>3. CASE ~Retriable(c)
  BY <1>3 DEF Receive
<1>4. CASE Retriable(c) /\ Join(c) # c
  BY <1>4 DEF Receive
<1>5. CASE Retriable(c) /\ Join(c) = c
  <2>1. refresh' = [refresh EXCEPT ![c] = r] /\ promise' = Join(c)
    BY <1>1, <1>5 DEF Receive
  <2> HIDE DEF r
  <2> QED BY <1>1, <1>2, <1>5, <2>1
<1> QED BY <1>3, <1>4, <1>5

(* A call on its way, or coming back, has nothing to do with the refresh.  *)
LEMMA OneFlies ==
    ASSUME Flight, NEW c \in Calls, Others(c), ~Is(c, "waiting"), ~Is(c, "waiting")',
           refresh' = refresh, promise' = promise
    PROVE  Flight'
BY DEF Flight, Others, Is

(* Every step keeps to one refresh.                                        *)
LEMMA FlightNext == TypeOK /\ Stages /\ Flight /\ [Next]_vars => Flight'
<1> SUFFICES ASSUME TypeOK, Stages, Flight, [Next]_vars PROVE Flight'
  OBVIOUS
<1> USE DEF server
<1>0. None \notin Calls
  BY ClientAssumption DEF Sessions
<1>1. ASSUME NEW c \in Calls, Prepare(c) PROVE Flight'
  BY <1>1, PrepareDoes, OneFlies DEF Prepare, Is
<1>2. ASSUME NEW c \in Calls, Transmit(c) PROVE Flight'
  BY <1>2, TransmitDoes, OneFlies DEF Transmit, Is
<1>3. ASSUME NEW c \in Calls, NEW status \in Statuses, NEW cookies \in Jar \cup {Keep},
             Is(c, "sent"), Answer(c, status, cookies),
             refresh' = refresh, promise' = promise
      PROVE  Flight'
  BY <1>3, AnswerDoes, OneFlies DEF Is
<1>4. ASSUME NEW c \in Calls, Refused(c) \/ Handle(c) \/ LoginWrong(c)
      PROVE  Flight'
  BY <1>3, <1>4 DEF Refused, Handle, LoginWrong, Admitted, Statuses
<1>5. ASSUME NEW c \in Calls, LoginOk(c) \/ Logout(c) PROVE Flight'
  BY <1>3, <1>5 DEF LoginOk, Logout, Admitted, Statuses, Jar, Sessions
<1>6. ASSUME NEW c \in Calls, Lose(c) PROVE Flight'
  BY <1>6, LoseDoes, OneFlies DEF Lose, Is
<1>7. ASSUME NEW c \in Calls, Receive(c) PROVE Flight'
  <2>1. call[c].phase \in {"answered", "lost"} /\ Others(c) /\ c # promise
    BY <1>7, ReceiveDoes DEF Flight, Is
  <2>2. CASE ~Retriable(c)
    <3>1. ~Is(c, "waiting") /\ ~Is(c, "waiting")'
      BY <1>7, <2>2, ReceiveDoes DEF Is
    <3> QED BY <1>7, <2>1, <2>2, <3>1, ReceiveStarts, OneFlies
  <2>3. CASE Retriable(c) /\ promise # None
    <3>1. Join(c) = promise /\ promise' = promise /\ refresh' = refresh
      BY <1>7, <2>1, <2>3, ReceiveStarts DEF Join
    <3>2. call'[c].phase = "waiting" /\ call'[c].on = promise
      BY <1>7, <2>3, <3>1, ReceiveDoes
    <3> QED BY <2>1, <2>3, <3>1, <3>2 DEF Flight, Others, Is
  <2>4. CASE Retriable(c) /\ promise = None
    <3>1. /\ promise' = c /\ refresh'[c].phase = "started"
          /\ \A d \in Calls \ {c} : refresh'[d] = refresh[d]
      BY <1>7, <2>4, ReceiveStarts DEF Join
    <3>2. call'[c].phase = "waiting" /\ call'[c].on = c
      BY <1>7, <2>4, ReceiveDoes DEF Join
    <3> QED BY <1>0, <2>1, <2>4, <3>1, <3>2 DEF Flight, Others, Is, Flying
  <2> QED BY <2>2, <2>3, <2>4
<1>8. ASSUME NEW c \in Calls, RefreshTransmit(c) PROVE Flight'
  <2>1. call' = call /\ promise' = promise
    BY <1>8 DEF RefreshTransmit
  <2> QED BY <1>8, <2>1, RefreshTransmitDoes DEF Flight, Is, Flying
<1>9. ASSUME NEW c \in Calls, NEW ok, NEW cookies, RefreshAnswer(c, ok, cookies),
             cookies \in IF ok THEN {c} ELSE {None, Keep}
      PROVE  Flight'
  <2>1. call' = call /\ promise' = promise
    BY <1>9 DEF RefreshAnswer
  <2> QED BY <1>9, <2>1, RefreshAnswerDoes DEF Flight, Is, Flying
<1>10. ASSUME NEW c \in Calls, \/ Rotate(c) \/ RefreshRefused(c)
                               \/ RefreshMissing(c) \/ RefreshLimited(c)
       PROVE  Flight'
  BY <1>9, <1>10 DEF Rotate, RefreshRefused, RefreshMissing, RefreshLimited
<1>11. ASSUME NEW c \in Calls, RefreshReceive(c) \/ RefreshLose(c) PROVE Flight'
  <2>1. PICK ok \in BOOLEAN : Awake(c, ok)
    BY <1>11 DEF RefreshReceive, RefreshLose, TypeOK, Refresh
  <2>2. promise = c
    BY <1>11 DEF RefreshReceive, RefreshLose, Flight, Flying
  <2>3. /\ promise' = None /\ refresh'[c].phase = "ended"
        /\ \A d \in Calls \ {c} : refresh'[d] = refresh[d]
    BY <2>1, AwakeEnds
  <2>4. ASSUME NEW d \in Calls PROVE ~Is(d, "waiting")'
    <3>1. CASE Awaits(d, c)
      BY <2>1, <3>1, AwakeDoes DEF Is
    <3>2. CASE ~Awaits(d, c)
      BY <2>1, <2>2, <3>2, AwakeDoes DEF Is, Awaits, Flight
    <3> QED BY <3>1, <3>2
  <2> QED BY <1>0, <2>2, <2>3, <2>4 DEF Flight, Flying
<1>12. CASE (\E s \in Sessions : ExpireAccess(s)) \/ UNCHANGED vars
  BY <1>12 DEF ExpireAccess, vars, Flight, Is
<1> QED BY <1>1, <1>2, <1>4, <1>5, <1>6, <1>7, <1>8, <1>10, <1>11, <1>12
        DEF Next, OnItsWay, Refreshing

(* So the refreshes in flight are that one, or none.                       *)
LEMMA OneFlight == TypeOK /\ Flight => SingleFlight
<1> SUFFICES ASSUME TypeOK, Flight PROVE SingleFlight
  OBVIOUS
<1>1. InFlight = IF promise = None THEN {} ELSE {promise}
  BY ClientAssumption DEF InFlight, Flight, Flying, TypeOK, Sessions
<1>2. Cardinality(InFlight) <= 1
  BY <1>1, FS_EmptySet, FS_Singleton
<1>3. ASSUME NEW c \in Calls, Is(c, "waiting") PROVE call[c].on \in InFlight
  BY <1>1, <1>3 DEF Flight
<1> QED BY <1>2, <1>3 DEF SingleFlight

-----------------------------------------------------------------------------
(* Where tokens come from.                                                 *)

(* Nobody holds the token a call has not got yet.                          *)
Unset(c) ==
    /\ jar # c
    /\ \A d \in Calls : refresh[d].carried # c /\ call[d].carried # c
Young(c) == ~call[c].retried /\ ~Is(c, "settled")
FreshTokens == \A c \in Calls : Young(c) => Unset(c)

(* No call is younger after a step, and what it carries it has from the    *)
(* jar.                                                                    *)
Grows(c) ==
    /\ Young(c)' => Young(c)
    /\ call'[c].carried \in {call[c].carried, jar, None}
    /\ call'[c].runs >= call[c].runs
(* So it is after every step.                                              *)
LEMMA CallsGrow ==
    ASSUME TypeOK, Stages, [Next]_vars
    PROVE  \A c \in Calls : Grows(c)
<1> USE DEF server
<1> DEFINE Runs(c) == call[c].runs \in 0..2
<1>a. ASSUME NEW c \in Calls PROVE Runs(c)
  <2>1. call[c] \in Call
    BY DEF TypeOK
  <2> QED BY <2>1 DEF Call
<1>0. ASSUME NEW c \in Calls, call'[c] = call[c] PROVE Grows(c)
  BY <1>0, <1>a DEF Grows, Young, Is
<1>1. ASSUME NEW c \in Calls, Others(c), Grows(c)
      PROVE  \A d \in Calls : Grows(d)
  BY <1>0, <1>1 DEF Others
<1>2. ASSUME NEW c \in Calls, Prepare(c) PROVE \A d \in Calls : Grows(d)
  <2>1. call[c].phase = "again" => call[c].retried
    BY DEF Stages, Lives, StageOf
  <2>2. Grows(c)
    BY <1>a, <1>2, <2>1, PrepareDoes DEF Grows, Young, Is
  <2> QED BY <1>1, <1>2, <2>2, PrepareDoes
<1>3. ASSUME NEW c \in Calls, Transmit(c) PROVE \A d \in Calls : Grows(d)
  <2>1. Grows(c)
    BY <1>a, <1>3, TransmitDoes DEF Grows, Young, Is
  <2> QED BY <1>1, <1>3, <2>1, TransmitDoes
<1>4. ASSUME NEW c \in Calls, NEW status \in Statuses, NEW cookies \in Jar \cup {Keep},
             Is(c, "sent"), Answer(c, status, cookies)
      PROVE  \A d \in Calls : Grows(d)
  <2>1. Grows(c)
    BY <1>a, <1>4, AnswerDoes DEF Grows, Young, Is
  <2> QED BY <1>1, <1>4, <2>1, AnswerDoes
<1>5. ASSUME NEW c \in Calls, Refused(c) \/ Handle(c) \/ LoginWrong(c)
      PROVE  \A d \in Calls : Grows(d)
  BY <1>4, <1>5 DEF Refused, Handle, LoginWrong, Admitted, Statuses
<1>6. ASSUME NEW c \in Calls, LoginOk(c) \/ Logout(c)
      PROVE  \A d \in Calls : Grows(d)
  BY <1>4, <1>6 DEF LoginOk, Logout, Admitted, Statuses, Jar, Sessions
<1>7. ASSUME NEW c \in Calls, Lose(c) PROVE \A d \in Calls : Grows(d)
  <2>1. Grows(c)
    BY <1>a, <1>7, LoseDoes DEF Grows, Young, Is
  <2> QED BY <1>1, <1>7, <2>1, LoseDoes
<1>8. ASSUME NEW c \in Calls, Receive(c) PROVE \A d \in Calls : Grows(d)
  <2>1. Grows(c)
    BY <1>a, <1>8, ReceiveDoes DEF Grows, Young, Is
  <2> QED BY <1>1, <1>8, <2>1, ReceiveDoes
<1>9. ASSUME NEW c \in Calls, NEW ok \in BOOLEAN, Awake(c, ok), NEW d \in Calls
      PROVE  Grows(d)
  <2>1. CASE Awaits(d, c)
    BY <1>a, <1>9, <2>1, AwakeDoes DEF Grows, Young, Is, Awaits
  <2>2. CASE ~Awaits(d, c)
    BY <1>0, <1>9, <2>2, AwakeDoes
  <2> QED BY <2>1, <2>2
<1>10. ASSUME NEW c \in Calls, RefreshReceive(c) \/ RefreshLose(c)
       PROVE  \A d \in Calls : Grows(d)
  BY <1>9, <1>10 DEF RefreshReceive, RefreshLose, TypeOK, Refresh
<1>11. ASSUME \/ \E c \in Calls : \/ RefreshTransmit(c) \/ Rotate(c)
                                  \/ RefreshRefused(c) \/ RefreshMissing(c)
                                  \/ RefreshLimited(c)
              \/ \E s \in Sessions : ExpireAccess(s)
              \/ UNCHANGED vars
       PROVE  \A d \in Calls : Grows(d)
  BY <1>0, <1>11 DEF RefreshTransmit, Rotate, RefreshRefused, RefreshMissing,
     RefreshLimited, RefreshAnswer, ExpireAccess, vars
<1> QED BY <1>2, <1>3, <1>5, <1>6, <1>7, <1>8, <1>10, <1>11
        DEF Next, OnItsWay, Refreshing

(* The jar takes in what an answer sets.                                   *)
LEMMA JarMoves ==
    ASSUME TypeOK, Stages, [Next]_vars, jar' # jar
    PROVE  \/ \E c \in Calls : Receive(c) /\ jar' = call[c].cookies
                                          /\ call[c].cookies # Keep
           \/ \E c \in Calls : RefreshReceive(c) /\ jar' = refresh[c].cookies
                                                 /\ refresh[c].cookies # Keep
<1>1. ASSUME NEW c \in Calls, Receive(c)
      PROVE  jar' = call[c].cookies /\ call[c].cookies # Keep
  BY <1>1 DEF Receive, Received
<1>2. ASSUME NEW c \in Calls, RefreshReceive(c)
      PROVE  jar' = refresh[c].cookies /\ refresh[c].cookies # Keep
  BY <1>2 DEF RefreshReceive, Received
<1>3. ASSUME NEW c \in Calls, \/ Prepare(c) \/ Transmit(c) \/ Refused(c)
                              \/ Handle(c) \/ LoginOk(c) \/ LoginWrong(c)
                              \/ Logout(c) \/ Lose(c)
      PROVE  FALSE
  BY <1>3 DEF Prepare, Transmit, Refused, Handle, LoginOk, LoginWrong, Logout, Lose
<1>4. ASSUME NEW c \in Calls, \/ RefreshTransmit(c) \/ Rotate(c)
                              \/ RefreshRefused(c) \/ RefreshMissing(c)
                              \/ RefreshLimited(c) \/ RefreshLose(c)
      PROVE  FALSE
  BY <1>4 DEF RefreshTransmit, Rotate, RefreshRefused, RefreshMissing,
     RefreshLimited, RefreshLose, RefreshAnswer
<1>5. ASSUME (\E s \in Sessions : ExpireAccess(s)) \/ UNCHANGED vars
      PROVE  FALSE
  BY <1>5 DEF ExpireAccess, vars
<1> QED BY <1>1, <1>2, <1>3, <1>4, <1>5 DEF Next, OnItsWay, Refreshing

(* What a refresh carries it has from the jar.                             *)
LEMMA RefreshCarries ==
    ASSUME TypeOK, [Next]_vars, NEW d \in Calls
    PROVE  refresh'[d].carried \in {refresh[d].carried, jar}
<1>1. ASSUME NEW c \in Calls, RefreshTransmit(c)
      PROVE  refresh'[d].carried \in {refresh[d].carried, jar}
  BY <1>1, RefreshTransmitDoes
<1>2. ASSUME NEW c \in Calls, NEW ok, NEW cookies, RefreshAnswer(c, ok, cookies)
      PROVE  refresh'[d].carried = refresh[d].carried
  BY <1>2, RefreshAnswerDoes
<1>3. ASSUME NEW c \in Calls, \/ Rotate(c) \/ RefreshRefused(c)
                              \/ RefreshMissing(c) \/ RefreshLimited(c)
      PROVE  refresh'[d].carried = refresh[d].carried
  BY <1>2, <1>3 DEF Rotate, RefreshRefused, RefreshMissing, RefreshLimited
<1>4. ASSUME NEW c \in Calls, RefreshReceive(c) \/ RefreshLose(c)
      PROVE  refresh'[d].carried = refresh[d].carried
  <2>1. PICK ok : Awake(c, ok)
    BY <1>4 DEF RefreshReceive, RefreshLose
  <2> QED BY <2>1, AwakeEnds
<1>5. ASSUME NEW c \in Calls, Receive(c)
      PROVE  refresh'[d].carried = refresh[d].carried
  BY <1>5, ReceiveStarts
<1>6. ASSUME NEW c \in Calls, \/ Prepare(c) \/ Transmit(c) \/ Refused(c)
                              \/ Handle(c) \/ LoginOk(c) \/ LoginWrong(c)
                              \/ Logout(c) \/ Lose(c)
      PROVE  refresh' = refresh
  BY <1>6 DEF Prepare, Transmit, Refused, Handle, LoginOk, LoginWrong, Logout, Lose
<1>7. ASSUME (\E s \in Sessions : ExpireAccess(s)) \/ UNCHANGED vars
      PROVE  refresh' = refresh
  BY <1>7 DEF ExpireAccess, vars
<1> QED BY <1>1, <1>3, <1>4, <1>5, <1>6, <1>7 DEF Next, OnItsWay, Refreshing

(* Every step keeps new tokens new.                                        *)
LEMMA FreshNext ==
    TypeOK /\ Stages /\ Flight /\ FreshTokens /\ [Next]_vars => FreshTokens'
<1> SUFFICES ASSUME TypeOK, Stages, Flight, FreshTokens, [Next]_vars,
                    NEW c \in Calls, Young(c)'
             PROVE  Unset(c)'
  BY DEF FreshTokens
<1>0. None \notin Calls /\ Keep \notin Calls
  BY ClientAssumption DEF Jar, Sessions
<1>1. Young(c) /\ Unset(c)
  BY CallsGrow DEF Grows, FreshTokens
<1>2. ASSUME NEW e \in Calls, Receive(e), jar' = call[e].cookies,
             call[e].cookies # Keep
      PROVE  jar' # c
  <2>1. call[e].cookies \in {None, e} /\ call[e].status = "ok"
    BY <1>2 DEF Stages, Lives, CookiesOf
  <2>2. e = c => call'[c].phase = "settled"
    BY <1>2, <2>1, ReceiveDoes DEF Retriable
  <2> QED BY <1>0, <1>2, <2>1, <2>2 DEF Young, Is
<1>3. ASSUME NEW e \in Calls, RefreshReceive(e), jar' = refresh[e].cookies
      PROVE  jar' # c
  <2>1. Awake(e, refresh[e].ok) /\ refresh[e].phase = "answered"
        /\ refresh[e].ok \in BOOLEAN
    BY <1>3 DEF RefreshReceive, TypeOK, Refresh
  <2>2. refresh[e].cookies \in IF refresh[e].ok THEN {e} ELSE {None, Keep}
    BY <2>1 DEF Flight
  <2>3. e = c /\ refresh[e].ok => call'[c].retried
    <3>1. Awaits(e, e)
      BY <2>1 DEF Flight, Flying, Awaits
    <3> QED BY <2>1, <3>1, AwakeDoes
  <2> QED BY <1>0, <1>3, <2>2, <2>3 DEF Young
<1>4. jar' # c
  BY <1>1, <1>2, <1>3, JarMoves DEF Unset
<1>5. ASSUME NEW d \in Calls
      PROVE  refresh'[d].carried # c /\ call'[d].carried # c
  <2>1. refresh'[d].carried \in {refresh[d].carried, jar}
    BY RefreshCarries
  <2>2. call'[d].carried \in {call[d].carried, jar, None}
    BY CallsGrow DEF Grows
  <2> QED BY <1>0, <1>1, <2>1, <2>2 DEF Unset
<1> QED BY <1>4, <1>5 DEF Unset

-----------------------------------------------------------------------------
(* While nothing happens to the session, the tab's token is live.          *)

Calm == ~mishap /\ \A d \in Calls : Kind[d] = "logout" => call[d].runs = 0
(* A token is live as long as the tab may still come with it: in the jar,  *)
(* unless the refresh it bought is about to replace it, and on its way.    *)
TokensLive ==
    /\ \/ jar \in live \cup {None}
       \/ \E c \in Calls : /\ refresh[c].phase = "answered" /\ refresh[c].ok
                           /\ refresh[c].carried = jar
    /\ \A c \in Calls :
         /\ refresh[c].phase = "sent" => refresh[c].carried \in live \cup {None}
         /\ refresh[c].phase = "answered" /\ refresh[c].ok => c \in live
         /\ call[c].cookies = c => c \in live
         /\ refresh[c].phase \in {"answered", "ended"} /\ ~refresh[c].ok =>
              refresh[c].carried = None
CalmTokens == Calm => TokensLive

(* Calm does not come back.                                                *)
LEMMA CalmBefore == TypeOK /\ Stages /\ [Next]_vars /\ Calm' => Calm
<1> SUFFICES ASSUME TypeOK, Stages, [Next]_vars, Calm' PROVE Calm
  OBVIOUS
<1>1. ~mishap' /\ mishap \in BOOLEAN
  BY DEF Calm, TypeOK
<1>2. ASSUME mishap PROVE mishap'
  <2>1. ASSUME NEW c \in Calls, OnItsWay(c) \/ Prepare(c) PROVE mishap' = mishap
    BY <2>1 DEF OnItsWay, Prepare, Transmit, Refused, Handle, LoginOk,
       LoginWrong, Logout, Receive, Lose
  <2>2. ASSUME NEW c \in Calls, Refreshing(c) PROVE mishap'
    BY <1>2, <2>2 DEF Refreshing, RefreshTransmit, Rotate, RefreshRefused,
       RefreshMissing, RefreshLimited, RefreshReceive, RefreshLose
  <2>3. ASSUME (\E s \in Sessions : ExpireAccess(s)) \/ UNCHANGED vars
        PROVE  mishap' = mishap
    BY <2>3 DEF ExpireAccess, vars
  <2> QED BY <1>2, <2>1, <2>2, <2>3 DEF Next
<1>3. ASSUME NEW d \in Calls, Kind[d] = "logout" PROVE call[d].runs = 0
  <2>1. call'[d].runs = 0
    BY <1>3 DEF Calm
  <2>2. call'[d].runs >= call[d].runs
    BY CallsGrow DEF Grows
  <2>3. call[d].runs \in 0..2
    <3>1. call[d] \in Call
      BY DEF TypeOK
    <3> QED BY <3>1 DEF Call
  <2> QED BY <2>1, <2>2, <2>3
<1> QED BY <1>1, <1>2, <1>3 DEF Calm

(* A step of calls that takes no token away.                               *)
LEMMA TokensFrame ==
    ASSUME TokensLive, jar' = jar, refresh' = refresh, live \subseteq live',
           \A d \in Calls : call'[d].cookies \in {call[d].cookies, Keep} \/ d \in live'
    PROVE  TokensLive'
<1>1. \A d \in Calls : d # Keep
  BY ClientAssumption DEF Jar, Sessions
<1>2. ASSUME NEW d \in Calls, call'[d].cookies = d PROVE d \in live'
  BY <1>1, <1>2 DEF TokensLive
<1> QED BY <1>2 DEF TokensLive

(* A refresh uses the token it carries up, and nobody else comes with it.  *)
LEMMA RotateKeepsTokens ==
    ASSUME TypeOK, Stages, Flight, FreshTokens, TokensLive,
           NEW c \in Calls, Rotate(c)
    PROVE  TokensLive'
<1>1. /\ refresh[c].phase = "sent" /\ refresh'[c].phase = "answered"
      /\ refresh'[c].carried = refresh[c].carried
      /\ refresh'[c].ok = TRUE /\ refresh'[c].cookies = c
      /\ \A d \in Calls \ {c} : refresh'[d] = refresh[d]
  BY RefreshAnswerDoes DEF Rotate
<1>2. call' = call /\ jar' = jar /\ live' = (live \ {refresh[c].carried}) \cup {c}
  BY DEF Rotate, RefreshAnswer
<1>3. c = promise
  BY <1>1 DEF Flight, Flying
<1>4. \/ jar' \in live' \cup {None}
      \/ /\ refresh'[c].phase = "answered" /\ refresh'[c].ok
         /\ refresh'[c].carried = jar'
  <2>1. \A d \in Calls : refresh[d].phase = "answered" => d = c
    BY <1>3 DEF Flight, Flying
  <2>2. jar \in live \cup {None}
    BY <1>1, <2>1 DEF TokensLive
  <2> QED BY <1>1, <1>2, <2>2
<1>5. ASSUME NEW d \in Calls
      PROVE  /\ refresh'[d].phase = "sent" => refresh'[d].carried \in live' \cup {None}
             /\ refresh'[d].phase = "answered" /\ refresh'[d].ok => d \in live'
             /\ refresh'[d].phase \in {"answered", "ended"} /\ ~refresh'[d].ok =>
                  refresh'[d].carried = None
  <2>1. CASE d = c
    BY <1>1, <1>2, <2>1
  <2>2. CASE d # c
    BY <1>1, <1>3, <2>2 DEF TokensLive, Flight, Flying
  <2> QED BY <2>1, <2>2
<1>6. ASSUME NEW d \in Calls, call[d].cookies = d PROVE d \in live'
  <2>1. d \in live
    BY <1>6 DEF TokensLive
  <2>2. Young(d)
    BY <1>6, ClientAssumption
       DEF Stages, Lives, CookiesOf, Young, Is, Jar, Sessions
  <2>3. refresh[c].carried # d
    BY <2>2 DEF FreshTokens, Unset
  <2> QED BY <1>2, <2>1, <2>3
<1> QED BY <1>2, <1>4, <1>5, <1>6 DEF TokensLive

(* What the interceptor takes in is live, and the refresh it may start is  *)
(* the only one.                                                           *)
LEMMA ReceiveKeepsTokens ==
    ASSUME TypeOK, Stages, Flight, Calm, TokensLive, NEW c \in Calls, Receive(c)
    PROVE  TokensLive'
<1>0. /\ \A d \in Calls : d # Keep /\ d # None
      /\ None # Keep
  BY ClientAssumption DEF Jar, Sessions
<1>1. live' = live /\ jar' = Received(call[c].cookies)
  BY DEF Receive, server
<1>2. call'[c].cookies = Keep /\ Others(c)
  BY ReceiveDoes
<1>3. ASSUME NEW d \in Calls, refresh'[d] # refresh[d]
      PROVE  refresh'[d].phase = "started" /\ promise = None
  <2>1. Retriable(c) /\ Join(c) = c /\ d = c
    BY <1>3, ReceiveStarts
  <2>2. call[c].phase # "waiting"
    BY ReceiveDoes
  <2>3. c # promise
    BY <2>2 DEF Flight, Is
  <2> QED BY <1>3, <2>1, <2>3, ReceiveStarts DEF Join
<1>4. \/ jar' \in live' \cup {None}
      \/ \E e \in Calls : /\ refresh'[e].phase = "answered" /\ refresh'[e].ok
                           /\ refresh'[e].carried = jar'
  <2>1. CASE call[c].cookies = Keep
    <3>1. jar' = jar
      BY <1>1, <2>1 DEF Received
    <3>2. ASSUME NEW e \in Calls, refresh[e].phase = "answered"
          PROVE  refresh'[e] = refresh[e]
      <4>1. e = promise
        BY <3>2 DEF Flight, Flying
      <4> QED BY <1>0, <1>3, <4>1
    <3> QED BY <1>1, <3>1, <3>2 DEF TokensLive
  <2>2. CASE call[c].cookies # Keep
    <3>1. call[c].cookies \in {None, c} /\ jar' = call[c].cookies
      BY <1>1, <2>2 DEF Stages, Lives, CookiesOf, Received
    <3> QED BY <1>1, <3>1 DEF TokensLive
  <2> QED BY <2>1, <2>2
<1>5. ASSUME NEW d \in Calls
      PROVE  /\ refresh'[d].phase = "sent" => refresh'[d].carried \in live' \cup {None}
             /\ refresh'[d].phase = "answered" /\ refresh'[d].ok => d \in live'
             /\ refresh'[d].phase \in {"answered", "ended"} /\ ~refresh'[d].ok =>
                  refresh'[d].carried = None
             /\ call'[d].cookies = d => d \in live'
  <2>1. CASE refresh'[d] = refresh[d]
    BY <1>0, <1>1, <1>2, <2>1 DEF TokensLive, Others
  <2>2. CASE refresh'[d] # refresh[d]
    BY <1>0, <1>1, <1>2, <1>3, <2>2 DEF TokensLive, Others
  <2> QED BY <2>1, <2>2
<1> QED BY <1>4, <1>5 DEF TokensLive

(* The refresh leaves with what is in the jar, which is live.              *)
LEMMA TransmitKeepsTokens ==
    ASSUME TypeOK, Flight, TokensLive, NEW c \in Calls, RefreshTransmit(c)
    PROVE  TokensLive'
<1>1. /\ refresh[c].phase = "started" /\ refresh'[c].phase = "sent"
      /\ refresh'[c].carried = jar
      /\ \A d \in Calls \ {c} : refresh'[d] = refresh[d]
  BY RefreshTransmitDoes
<1>2. call' = call /\ live' = live /\ jar' = jar
  BY DEF RefreshTransmit, server
<1>3. \A d \in Calls : refresh[d].phase # "answered"
  BY <1>1 DEF Flight, Flying
<1>4. jar \in live \cup {None}
  BY <1>3 DEF TokensLive
<1>5. ASSUME NEW d \in Calls
      PROVE  /\ refresh'[d].phase = "sent" => refresh'[d].carried \in live' \cup {None}
             /\ refresh'[d].phase = "answered" /\ refresh'[d].ok => d \in live'
             /\ refresh'[d].phase \in {"answered", "ended"} /\ ~refresh'[d].ok =>
                  refresh'[d].carried = None
             /\ call'[d].cookies = d => d \in live'
  BY <1>1, <1>2, <1>4 DEF TokensLive
<1> QED BY <1>2, <1>4, <1>5 DEF TokensLive

(* The refresh is refused only if it came without a token.                 *)
LEMMA AnswerKeepsTokens ==
    ASSUME TypeOK, Flight, TokensLive, NEW c \in Calls, RefreshMissing(c)
    PROVE  TokensLive'
<1>1. /\ refresh[c].phase = "sent" /\ refresh'[c].phase = "answered"
      /\ refresh'[c].carried = refresh[c].carried /\ refresh'[c].ok = FALSE
      /\ \A d \in Calls \ {c} : refresh'[d] = refresh[d]
      /\ refresh[c].carried = None
  BY RefreshAnswerDoes DEF RefreshMissing
<1>2. call' = call /\ live' = live /\ jar' = jar
  BY DEF RefreshMissing, RefreshAnswer
<1>3. \A d \in Calls : refresh[d].phase # "answered"
  BY <1>1 DEF Flight, Flying
<1>4. jar \in live \cup {None}
  BY <1>3 DEF TokensLive
<1>5. ASSUME NEW d \in Calls
      PROVE  /\ refresh'[d].phase = "sent" => refresh'[d].carried \in live' \cup {None}
             /\ refresh'[d].phase = "answered" /\ refresh'[d].ok => d \in live'
             /\ refresh'[d].phase \in {"answered", "ended"} /\ ~refresh'[d].ok =>
                  refresh'[d].carried = None
             /\ call'[d].cookies = d => d \in live'
  BY <1>1, <1>2 DEF TokensLive
<1> QED BY <1>2, <1>4, <1>5 DEF TokensLive

(* The answer to the refresh is taken in while its token is live.          *)
LEMMA EndKeepsTokens ==
    ASSUME TypeOK, Stages, Flight, TokensLive, NEW c \in Calls, RefreshReceive(c)
    PROVE  TokensLive'
<1>0. /\ \A d \in Calls : d # Keep /\ d # None
      /\ None # Keep
  BY ClientAssumption DEF Jar, Sessions
<1> DEFINE ok == refresh[c].ok
<1>1. /\ refresh[c].phase = "answered" /\ live' = live
      /\ jar' = Received(refresh[c].cookies)
      /\ Awake(c, ok) /\ ok \in BOOLEAN
  BY DEF RefreshReceive, server, TypeOK, Refresh
<1>2. /\ refresh'[c].phase = "ended" /\ refresh'[c].ok = ok
      /\ refresh'[c].carried = refresh[c].carried
      /\ \A d \in Calls \ {c} : refresh'[d] = refresh[d]
  BY <1>1, AwakeEnds
<1>3. \A d \in Calls : refresh[d].phase = "answered" => d = c
  BY <1>1 DEF Flight, Flying
<1>4. jar' \in live' \cup {None}
  <2>1. CASE ok
    <3>1. refresh[c].cookies = c /\ c \in live
      BY <1>1, <2>1 DEF Flight, TokensLive
    <3> QED BY <1>0, <1>1, <3>1 DEF Received
  <2>2. CASE ~ok
    <3>1. refresh[c].cookies \in {None, Keep} /\ jar \in live \cup {None}
      BY <1>1, <1>3, <2>2 DEF Flight, TokensLive
    <3> QED BY <1>1, <3>1 DEF Received
  <2> QED BY <2>1, <2>2
<1>5. ASSUME NEW d \in Calls
      PROVE  /\ refresh'[d].phase = "sent" => refresh'[d].carried \in live' \cup {None}
             /\ refresh'[d].phase = "answered" /\ refresh'[d].ok => d \in live'
             /\ refresh'[d].phase \in {"answered", "ended"} /\ ~refresh'[d].ok =>
                  refresh'[d].carried = None
  BY <1>1, <1>2 DEF TokensLive
<1>6. ASSUME NEW d \in Calls, call'[d].cookies = d PROVE d \in live'
  <2>1. call'[d] = call[d]
    BY <1>0, <1>1, <1>6, AwakeDoes
  <2> QED BY <1>1, <1>6, <2>1 DEF TokensLive
<1> QED BY <1>4, <1>5, <1>6 DEF TokensLive

(* Every step keeps a calm tab's tokens live.                              *)
LEMMA CalmNext ==
    /\ TypeOK /\ Stages /\ Flight /\ FreshTokens /\ CalmTokens
    /\ [Next]_vars
    => CalmTokens'
<1> SUFFICES ASSUME TypeOK, Stages, Flight, FreshTokens, CalmTokens, [Next]_vars,
                    Calm'
             PROVE  TokensLive'
  BY DEF CalmTokens
<1> USE DEF server
<1>0. Calm /\ TokensLive
  BY CalmBefore DEF CalmTokens
<1>1. ASSUME NEW c \in Calls, NEW status \in Statuses, NEW cookies \in {Keep, c},
             Is(c, "sent"), Answer(c, status, cookies),
             jar' = jar, refresh' = refresh, live \subseteq live',
             cookies = c => c \in live'
      PROVE  TokensLive'
  <2>1. Others(c) /\ call'[c].cookies = cookies
    BY <1>1, AnswerDoes DEF Jar, Sessions
  <2>2. \A d \in Calls : call'[d].cookies \in {call[d].cookies, Keep} \/ d \in live'
    BY <1>1, <2>1 DEF Others
  <2> QED BY <1>0, <1>1, <2>2, TokensFrame
<1>2. ASSUME NEW c \in Calls, Refused(c) \/ Handle(c) \/ LoginWrong(c) \/ LoginOk(c)
      PROVE  TokensLive'
  <2>0. Keep # c
    BY ClientAssumption DEF Jar, Sessions
  <2>1. CASE Refused(c)
    BY <1>1, <2>0, <2>1 DEF Refused, Statuses
  <2>2. CASE Handle(c) \/ LoginWrong(c)
    BY <1>1, <2>0, <2>2 DEF Handle, LoginWrong, Admitted, Statuses
  <2>3. CASE LoginOk(c)
    BY <1>1, <2>3 DEF LoginOk, Admitted, Statuses
  <2> QED BY <1>2, <2>1, <2>2, <2>3
<1>3. ASSUME NEW c \in Calls, Prepare(c) \/ Transmit(c) \/ Lose(c) PROVE TokensLive'
  <2>1. Others(c) /\ call'[c].cookies \in {call[c].cookies, Keep}
    BY <1>3, PrepareDoes, TransmitDoes, LoseDoes
  <2>2. jar' = jar /\ refresh' = refresh /\ live' = live
    BY <1>3 DEF Prepare, Transmit, Lose
  <2>3. \A d \in Calls : call'[d].cookies \in {call[d].cookies, Keep}
    BY <2>1 DEF Others
  <2> QED BY <1>0, <2>2, <2>3, TokensFrame
<1>4. ASSUME NEW c \in Calls, Logout(c) PROVE FALSE
  <2>1. call'[c].runs = call[c].runs + 1
    BY <1>4, AnswerDoes DEF Logout, Admitted, Statuses, Jar, Sessions
  <2>2. Kind[c] = "logout" /\ call[c].runs = 0
    BY <1>0, <1>4 DEF Logout, Admitted, Calm
  <2>3. call'[c].runs = 0
    BY <2>2 DEF Calm
  <2> QED BY <2>1, <2>2, <2>3
<1>5. ASSUME NEW c \in Calls, Receive(c) PROVE TokensLive'
  BY <1>0, <1>5, ReceiveKeepsTokens
<1>6. ASSUME NEW c \in Calls, RefreshTransmit(c) PROVE TokensLive'
  BY <1>0, <1>6, TransmitKeepsTokens
<1>7. ASSUME NEW c \in Calls, Rotate(c) PROVE TokensLive'
  BY <1>0, <1>7, RotateKeepsTokens
<1>8. ASSUME NEW c \in Calls, RefreshMissing(c) PROVE TokensLive'
  BY <1>0, <1>8, AnswerKeepsTokens
<1>9. ASSUME NEW c \in Calls, RefreshReceive(c) PROVE TokensLive'
  BY <1>0, <1>9, EndKeepsTokens
<1>10. ASSUME NEW c \in Calls, \/ RefreshRefused(c) \/ RefreshLimited(c)
                               \/ RefreshLose(c)
       PROVE  FALSE
  <2>1. ~mishap'
    BY DEF Calm
  <2>2. CASE RefreshRefused(c)
    <3>1. refresh[c].carried # None /\ refresh[c].phase = "sent"
          /\ (mishap' <=> mishap \/ refresh[c].carried \in live)
      BY <2>2 DEF RefreshRefused, RefreshAnswer
    <3> QED BY <1>0, <2>1, <3>1 DEF TokensLive
  <2> QED BY <1>10, <2>1, <2>2 DEF RefreshLimited, RefreshLose
<1>11. CASE (\E s \in Sessions : ExpireAccess(s)) \/ UNCHANGED vars
  BY <1>0, <1>11, TokensFrame DEF ExpireAccess, vars
<1> QED BY <1>2, <1>3, <1>4, <1>5, <1>6, <1>7, <1>8, <1>9, <1>10, <1>11
        DEF Next, OnItsWay, Refreshing

(* So no refresh of a calm tab fails.                                      *)
LEMMA CalmSucceeds == TypeOK /\ CalmTokens => OnlyEndedSessionsFail
<1> SUFFICES ASSUME TypeOK, CalmTokens, NEW c \in Calls,
                    refresh[c].phase = "ended", ~refresh[c].ok,
                    ~mishap, refresh[c].carried # None
             PROVE  \E d \in Calls : Kind[d] = "logout" /\ call[d].runs > 0
  BY DEF OnlyEndedSessionsFail
<1>1. PICK d \in Calls : Kind[d] = "logout" /\ call[d].runs # 0
  BY DEF CalmTokens, TokensLive, Calm
<1>2. call[d].runs \in 0..2
  <2>1. call[d] \in Call
    BY DEF TypeOK
  <2> QED BY <2>1 DEF Call
<1> QED BY <1>1, <1>2

-----------------------------------------------------------------------------
(* The inductive invariant of the client.                                  *)
ClientInv ==
    /\ TypeOK /\ Stages /\ Flight
    /\ FreshTokens /\ CalmTokens

(* It holds when the tab is opened.                                        *)
LEMMA ClientInit == Init => ClientInv
<1> SUFFICES ASSUME Init PROVE ClientInv
  OBVIOUS
<1>0. /\ Start \notin Calls /\ None \notin Sessions /\ Keep \notin Jar
      /\ Calls \subseteq Sessions /\ Start \in Sessions
  BY ClientAssumption DEF Sessions
<1>1. ASSUME NEW c \in Calls
      PROVE  /\ call[c].phase = "idle" /\ call[c].tries = 0 /\ call[c].runs = 0
             /\ ~call[c].retried /\ call[c].carried = None
             /\ call[c].status = "none" /\ call[c].cookies = Keep
             /\ refresh[c].phase = "none" /\ refresh[c].carried = None
             /\ refresh[c].cookies = Keep
  BY DEF Init
<1>2. TypeOK
  <2>1. call \in [Calls -> Call]
    BY DEF Init, Call, Statuses, Jar
  <2>2. refresh \in [Calls -> Refresh]
    BY DEF Init, Refresh, Jar
  <2>3. jar \in Jar /\ promise = None /\ live \subseteq Sessions /\ expired = {}
        /\ mishap = FALSE
    BY <1>0 DEF Init, Jar
  <2>4. family \in [Sessions -> Sessions \cup {None}]
    BY <1>0 DEF Init
  <2> QED BY <2>1, <2>2, <2>3, <2>4 DEF TypeOK
<1>3. Stages
  <2> SUFFICES ASSUME NEW c \in Calls PROVE Lives(c, call[c])
    BY DEF Stages
  <2>1. StageOf(call[c])
    BY <1>1 DEF StageOf
  <2>2. RunsOf(Kind[c], call[c])
    BY <1>1 DEF RunsOf
  <2> QED BY <1>1, <2>1, <2>2, NoCookies DEF Lives
<1>4. Flight
  <2>1. promise = None /\ \A c \in Calls : c # None
    BY <1>0 DEF Init
  <2> QED BY <1>1, <2>1 DEF Flight, Flying, Is
<1>5. FreshTokens
  <2>1. jar \in {Start, None} /\ \A s \in Sessions : family[s] \in {Start, None}
    BY DEF Init
  <2>2. \A c \in Calls : c # Start /\ c # None
    BY <1>0
  <2> QED BY <1>1, <2>1, <2>2 DEF FreshTokens, Unset
<1>6. CalmTokens
  <2>1. jar \in live \cup {None}
    BY DEF Init
  <2>2. \A c \in Calls : c # Keep
    BY <1>0 DEF Jar
  <2> QED BY <1>1, <2>1, <2>2 DEF CalmTokens, TokensLive
<1> QED BY <1>2, <1>3, <1>4, <1>5, <1>6 DEF ClientInv

(* Every step keeps it.                                                    *)
LEMMA ClientNext == ClientInv /\ [Next]_vars => ClientInv'
BY TypeNext, StagesNext, FlightNext, FreshNext, CalmNext DEF ClientInv

(* So it always holds.                                                     *)
LEMMA ClientAlways == Spec => []ClientInv
BY ClientInit, ClientNext, PTL DEF Spec

(* The client's state has its types; above all, however many calls of a    *)
(* tab find their access token expired, none is sent, or handled, more     *)
(* than twice (api.ts: a call is replayed exactly once).                   *)
THEOREM ClientTypes == Spec => []TypeOK
<1>1. ClientInv => TypeOK
  BY DEF ClientInv
<1> QED BY <1>1, ClientAlways, PTL

(* Of a tab with any number of calls at most one refresh is in flight, and *)
(* every call that waits waits for that one (api.ts, refreshPromise).      *)
THEOREM OneRefresh == Spec => []SingleFlight
<1>1. ClientInv => SingleFlight
  BY OneFlight DEF ClientInv
<1> QED BY <1>1, ClientAlways, PTL

(* A change is made once if the page is told so, not at all if it is told  *)
(* 401 or 403, and never twice, whatever is replayed.                      *)
THEOREM ChangesOnce == Spec => []ChangesHappenOnce
<1>1. ClientInv => ChangesHappenOnce
  <2> SUFFICES ASSUME TypeOK, Stages, NEW c \in Calls, Kind[c] \in {"write", "logout"}
               PROVE  /\ call[c].runs <= 1
                      /\ Is(c, "settled") =>
                           /\ call[c].status = "ok" => call[c].runs = 1
                           /\ call[c].status \in {"unauthorized", "forbidden"} =>
                                call[c].runs = 0
    BY DEF ClientInv, ChangesHappenOnce
  <2>1. call[c] \in Call /\ RunsOf(Kind[c], call[c])
    BY DEF TypeOK, Stages, Lives
  <2> QED BY <2>1 DEF Call, RunsOf, Is
<1> QED BY <1>1, ClientAlways, PTL

(* A tab that has not logged out, and met no lost answer, no rate limit    *)
(* and nobody who ended its session, never fails to refresh it.            *)
THEOREM RefreshesFail == Spec => []OnlyEndedSessionsFail
<1>1. ClientInv => OnlyEndedSessionsFail
  BY CalmSucceeds DEF ClientInv
<1> QED BY <1>1, ClientAlways, PTL
=============================================================================
