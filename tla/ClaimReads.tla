------------------------------ MODULE ClaimReads ------------------------------
(***************************************************************************)
(* What users read of the claims: the dashboard's figures                  *)
(* (backend/internal/modules/dashboard), kept in Redis for cacheTTL under  *)
(* a key of the kind of figures, the role and the user; and the list and   *)
(* the detail of claims (.../reimbursements), kept nowhere.  Each answer   *)
(* is put together from up to three statements without a transaction.      *)
(*                                                                         *)
(* The claims change meanwhile as ClaimLifecycle says.  The role of a      *)
(* request is the one in its access token, so that one user may ask under  *)
(* different roles.  A count or a sum is represented by the set of claims  *)
(* it is taken over, all of one month; Redis and the database may fail at  *)
(* any command.                                                            *)
(***************************************************************************)
EXTENDS Naturals, Sequences

CONSTANTS
    Claims, Paths,      \* see ClaimLifecycle
    Owner,              \* the employee each claim belongs to
    Users,
    Requests,           \* the requests made: an endpoint, a role and a user,
                        \* and the claim a detail is asked of
    Slots               \* the requests that may be in flight

Roles == {"employee", "manager", "finance", "admin"}
Cached == {"summary", "series"}

ASSUME ReadsAssumption ==
    /\ Requests \subseteq
         [kind : Cached \cup {"list"}, role : Roles, user : Users]
         \cup [kind : {"detail"}, role : Roles, user : Users, claim : Claims]
    /\ Owner \in [Claims -> Users]

VARIABLES
    status, path, approved,     \* the claims
    cache,      \* Redis: the figures kept under each key, and whether they expire
    load        \* the request each slot is serving, or its answer

claimVars == <<status, path, approved>>
vars == <<status, path, approved, cache, load>>

Life == INSTANCE ClaimLifecycle

NoFigures == [f \in {} |-> {}]
Idle == [phase |-> "idle"]

Init ==
    /\ Life!Init
    /\ cache = [k \in {} |-> NoFigures]
    /\ load = [s \in Slots |-> Idle]

-----------------------------------------------------------------------------

(* Mutation: one key for all the roles a user may have had.                *)
KeyOfUser(q) == <<q.kind, "any", q.user>>

Key(q) == <<q.kind, q.role, q.user>>

(* The claims a role may see, and the statuses each figure counts.         *)
Scope(r, u) == {c \in Claims : r = "employee" => Owner[c] = u}

Written == {"DRAFT", "SUBMITTED", "APPROVED", "REJECTED", "PAID", "CANCELLED"}
Counted ==
    [pending  |-> {"SUBMITTED"},
     total    |-> {"SUBMITTED", "APPROVED", "PAID"},
     approved |-> {"APPROVED"},
     rejected |-> {"REJECTED"},
     count    |-> Written,
     rows     |-> Written]

(* The statements each load runs, and the figures each of them reads.      *)

(* Mutation: each count of the approval rate by a statement of its own.    *)
SummaryOneByOne == <<{"pending"}, {"total"}, {"rejected"}, {"approved"}>>
SummaryQueries == <<{"pending"}, {"total"}, {"approved", "rejected"}>>

(* The trend and the breakdown: a sum over the active claims.              *)
SeriesQueries == <<{"total"}>>

ListQueries == <<{"count"}, {"rows"}>>

(* Mutation: the detail reads the steps before the row.                    *)
DetailStepsFirst == <<{"steps"}, {"row"}>>
(* The items and receipts of a detail are left out.                        *)
DetailQueries == <<{"row"}, {"steps"}>>

Queries ==
    [summary |-> SummaryQueries, series |-> SeriesQueries,
     list |-> ListQueries, detail |-> DetailQueries]

Read(figures, r, u) == [f \in figures |-> {c \in Scope(r, u) : status[c] \in Counted[f]}]

ReadDetail(figures, c) ==
    [f \in figures |-> IF f = "row" THEN status[c]
                       ELSE [path |-> path[c], approved |-> approved[c]]]

(* One function beside another.                                            *)
Beside(f, g) ==
    [x \in DOMAIN f \cup DOMAIN g |-> IF x \in DOMAIN f THEN f[x] ELSE g[x]]

(* GetDetail finds the claim only in the scope; the steps are read by the  *)
(* id of the claim alone.                                                  *)
Found(q) == q.claim \in Scope(q.role, q.user) /\ status[q.claim] \in Written

Answered(s) == load[s].phase \in {"idle", "done"}
Answer(q, figures) == [phase |-> "done", ask |-> q, figures |-> figures]

(* A hit is answered with what Redis holds.                                *)
AskCached(s, q) ==
    /\ Answered(s)
    /\ q.kind \in Cached
    /\ Key(q) \in DOMAIN cache
    /\ load' = [load EXCEPT ![s] = Answer(q, cache[Key(q)].figures)]
    /\ UNCHANGED <<claimVars, cache>>

Begin(s, q) ==
    /\ Answered(s)
    /\ load' = [load EXCEPT ![s] =
                  [phase |-> "load", ask |-> q, figures |-> NoFigures, next |-> 1]]
    /\ UNCHANGED <<claimVars, cache>>

(* A miss, or an error of GET.                                             *)
AskLoad(s, q) == q.kind \in Cached /\ Begin(s, q)

(* Nothing is kept for the list and the detail.                            *)
AskList(s, q) == q.kind = "list" /\ Begin(s, q)
AskDetail(s, q) == q.kind = "detail" /\ Begin(s, q)

Loading(s) == load[s].phase = "load"
Loaded(s) == load[s].next > Len(Queries[load[s].ask.kind])

(* The next statement of the load.                                         *)
Query(s) ==
    LET l == load[s]
        figures == Queries[l.ask.kind][l.next]
    IN  /\ Loading(s) /\ ~Loaded(s)
        /\ "row" \in figures => Found(l.ask)
        /\ load' = [load EXCEPT
             ![s].figures = Beside(@, IF l.ask.kind = "detail"
                                      THEN ReadDetail(figures, l.ask.claim)
                                      ELSE Read(figures, l.ask.role, l.ask.user)),
             ![s].next = @ + 1]
        /\ UNCHANGED <<claimVars, cache>>

(* An error of a statement is the answer, and so is a claim that is not    *)
(* found; nothing is kept.                                                 *)
QueryFails(s) ==
    /\ Loading(s) /\ ~Loaded(s)
    /\ load' = [load EXCEPT ![s] = Idle]
    /\ UNCHANGED <<claimVars, cache>>

Finished(s) == Loading(s) /\ Loaded(s)

(* Redis with the figures of a slot kept, which an error of SET prevents.  *)
Kept(l, ttl) ==
    IF l.ask.kind \in Cached
    THEN {cache,
          Beside([k \in {Key(l.ask)} |-> [figures |-> l.figures, ttl |-> ttl]], cache)}
    ELSE {cache}

(* Mutation: the figures are kept for good.                                *)
StoreForever(s) ==
    /\ Finished(s)
    /\ cache' \in Kept(load[s], FALSE)
    /\ load' = [load EXCEPT ![s] = Answer(@.ask, @.figures)]
    /\ UNCHANGED claimVars

(* Mutation: the figures are kept and answered before the last statement.  *)
StoreEarly(s) ==
    /\ Loading(s) /\ load[s].next > 1
    /\ cache' \in Kept(load[s], TRUE)
    /\ load' = [load EXCEPT ![s] = Answer(@.ask, @.figures)]
    /\ UNCHANGED claimVars

(* The request is answered, the figures of the dashboard are kept for      *)
(* cacheTTL.                                                               *)
Store(s) ==
    /\ Finished(s)
    /\ cache' \in Kept(load[s], TRUE)
    /\ load' = [load EXCEPT ![s] = Answer(@.ask, @.figures)]
    /\ UNCHANGED claimVars

(* Redis drops an entry whose time is over.                                *)
ExpireEntry(k) ==
    /\ k \in DOMAIN cache
    /\ cache[k].ttl
    /\ cache' = [j \in DOMAIN cache \ {k} |-> cache[j]]
    /\ UNCHANGED <<claimVars, load>>

ChangeClaim == Life!Next /\ UNCHANGED <<cache, load>>

Next ==
    \/ ChangeClaim
    \/ \E s \in Slots :
         \/ \E q \in Requests :
              AskCached(s, q) \/ AskLoad(s, q) \/ AskList(s, q) \/ AskDetail(s, q)
         \/ Query(s) \/ QueryFails(s) \/ Store(s)
    \/ \E k \in DOMAIN cache : ExpireEntry(k)

Keys == {Key(q) : q \in {r \in Requests : r.kind \in Cached}}

(* A handler that is running goes on, and Redis expires what it was told   *)
(* to; nobody has to ask, and no claim has to move.                        *)
Fairness ==
    /\ \A s \in Slots : WF_vars(Query(s) \/ QueryFails(s) \/ Store(s))
    /\ \A k \in Keys : WF_vars(ExpireEntry(k))

Spec == Init /\ [][Next]_vars /\ Fairness

-----------------------------------------------------------------------------

Figures(kind) == UNION {Queries[kind][i] : i \in DOMAIN Queries[kind]}
Complete(figures, kind) ==
    /\ DOMAIN figures = Figures(kind)
    /\ kind # "detail" => \A f \in DOMAIN figures : figures[f] \subseteq Claims

(* Types; above all, what is kept or answered has all the figures of its   *)
(* kind (cached, service.go: nothing is stored before load returned).      *)
TypeOK ==
    /\ DOMAIN cache \subseteq Keys
    /\ \A k \in DOMAIN cache : Complete(cache[k].figures, k[1])
    /\ \A s \in Slots : load[s] # Idle =>
         /\ load[s].ask \in Requests
         /\ load[s].phase = "done" => Complete(load[s].figures, load[s].ask.kind)

Done(s, kinds) == load[s].phase = "done" /\ load[s].ask.kind \in kinds

(* An employee is answered with claims of his own and figures about them   *)
(* only, also when other figures of the same user were kept while the user *)
(* had another role (scopeFilter, and the keys of dashboard/service.go).   *)
OwnClaimsOnly ==
    \A s \in Slots : load[s].phase = "done" =>
        LET q == load[s].ask
            shown == IF q.kind = "detail" THEN {q.claim}
                     ELSE UNION {load[s].figures[f] : f \in DOMAIN load[s].figures}
        IN  q.role = "employee" => \A c \in shown : Owner[c] = q.user

(* No claim is counted both as approved and as rejected, however the       *)
(* statements of a load and the decisions interleave, so that the approval *)
(* rate is a share of claims (ApprovalCounts, repository.go).              *)
DecidedOnce ==
    \A s \in Slots : Done(s, {"summary"}) =>
        load[s].figures.approved \cap load[s].figures.rejected = {}

(* A detail that says APPROVED or PAID shows a path whose every step has   *)
(* approved, and one that says CANCELLED shows no step that has, though    *)
(* the row and the steps are read one after the other while the claim      *)
(* moves (GetDetail, service.go: the row first).                           *)
DetailAgrees ==
    \A s \in Slots : Done(s, {"detail"}) =>
        LET row == load[s].figures.row
            steps == load[s].figures.steps
        IN  /\ row \in {"APPROVED", "PAID"} =>
                  steps.path # <<>> /\ steps.approved = DOMAIN steps.path
            /\ row = "CANCELLED" => steps.approved = {}

Truth(k) == Read(Figures(k[1]), k[2], k[3])

(* Once the claims stop changing, what Redis keeps is, from some time on,  *)
(* what the table says: neither a figure read before the last change nor   *)
(* a slow load that stores old figures late stays (cacheTTL, service.go).  *)
Converges ==
    <>[][FALSE]_claimVars =>
        <>[](\A k \in DOMAIN cache : cache[k].figures = Truth(k))
=============================================================================
