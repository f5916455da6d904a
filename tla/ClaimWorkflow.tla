---------------------------- MODULE ClaimWorkflow ----------------------------
(***************************************************************************)
(* The reimbursement claims of the backend: the rows of reimbursements,    *)
(* approvals and audit_logs in PostgreSQL, the receipt objects in MinIO,   *)
(* the notifications handed to the task queue, and the HTTP handlers that  *)
(* move them (backend/internal/modules/reimbursements).                    *)
(*                                                                         *)
(* A handler runs on one of the request slots Slots.  A transaction that   *)
(* starts with SELECT ... FOR UPDATE, or with an UPDATE of the claim row,  *)
(* holds the row until it commits, so it is one atomic step.  Everything   *)
(* a handler does before or after its transaction is a step of its own,    *)
(* and the other slots may take theirs in between.                         *)
(***************************************************************************)
EXTENDS SubmitPolicy, FiniteSets

CONSTANTS
    Users, Claims, Slots,
    NoUser, NoClaim,
    MayHold,        \* the roles an administrator may give to each user
    CategoryLimit,  \* monthly limit per employee of each category
    MayDeactivate,  \* the categories an administrator may deactivate
    Categories, Dates, Amounts,     \* what the clients may send
    Uploads,        \* bound: receipts uploaded per claim
    MaxSubmits,     \* bound: submissions per claim
    Losses          \* bound: notifications per claim that are lost

ASSUME UserAssumption ==
    /\ NoUser \notin Users
    /\ NoClaim \notin Claims
    /\ MayHold \in [Users -> SUBSET Roles]
    /\ \A u \in Users : MayHold[u] # {}
    /\ Uploads \in Nat /\ MaxSubmits \in Nat /\ Losses \in Nat

(* A process serves finitely many requests at a time.                      *)
ASSUME SlotsAssumption == IsFiniteSet(Slots)

ASSUME DetailsAssumption ==
    /\ Categories # {} /\ Dates # {} /\ Amounts # {}
    /\ Dates \subseteq Int /\ Amounts \subseteq Nat
    /\ MayDeactivate \subseteq Categories

(* A limit is an amount (dto.go and the CHECK of the column).              *)
ASSUME LimitAssumption ==
    \A k \in Categories : CategoryLimit[k] # NoLimit => CategoryLimit[k] \in Nat

VARIABLES
    claim,      \* reimbursements: [Claims -> row], status "NONE" when unused
    approvals,  \* approvals: the steps of each claim, ordered by step_number
    audit,      \* audit_logs: the rows about each claim, in order
    receipts,   \* attachments: how many rows each claim has
    objects,    \* MinIO: how many receipt objects each claim has
    mails,      \* email tasks enqueued, per claim and subject
    role,       \* users.role
    tokens,     \* roles carried by the unexpired access tokens of each user
    active,     \* categories.is_active
    req         \* the request each slot is serving

vars == <<claim, approvals, audit, receipts, objects, mails, role, tokens,
          active, req>>
tables == <<claim, approvals, audit>>
storage == <<receipts, objects>>
directory == <<role, tokens, active>>

-----------------------------------------------------------------------------
(* Rows and requests.                                                      *)

Actions == {"SUBMIT_CLAIM", "APPROVE_CLAIM", "REJECT_CLAIM", "CANCEL_CLAIM",
            "PAY_CLAIM"}
Subjects == {"SUBMITTED", "APPROVED", "REJECTED", "CANCELLED", "PAID"}
Phases == {"idle", "policy", "duplicate", "submit", "update", "delete",
           "putObject", "attach", "notify"}

Details == [cat : Categories, date : Dates, amount : Amounts]
NoDetails == CHOOSE d \in Details : TRUE    \* fills fields not in use

Steps == [role : ApproverRoles, status : {"pending", "approved", "rejected"},
          approver : Users \cup {NoUser}]
Row == [status : Statuses \cup {"NONE"}, owner : Users \cup {NoUser},
        cat : Categories, date : Dates, amount : Amounts,
        step : Nat, deleted : BOOLEAN]
AuditRow == [actor : Users, action : Actions]
Unused == [status |-> "NONE", owner |-> NoUser, cat |-> NoDetails.cat,
           date |-> NoDetails.date, amount |-> NoDetails.amount,
           step |-> 0, deleted |-> FALSE]
Idle == [phase |-> "idle", user |-> NoUser, claim |-> NoClaim,
         seen |-> NoDetails, chain |-> <<>>, subject |-> ""]

(* What a slot is serving: nothing, or a request of a user about a claim.  *)
Active == [phase : Phases \ {"idle"}, user : Users, claim : Claims,
           seen : Details, chain : Seq(ApproverRoles),
           subject : Subjects \cup {""}]
Request == {Idle} \cup Active

Task(phase, u, c, seen, chain, subject) ==
    [phase |-> phase, user |-> u, claim |-> c, seen |-> seen, chain |-> chain,
     subject |-> subject]

Init ==
    /\ claim = [c \in Claims |-> Unused]
    /\ approvals = [c \in Claims |-> <<>>]
    /\ audit = [c \in Claims |-> <<>>]
    /\ receipts = [c \in Claims |-> 0]
    /\ objects = [c \in Claims |-> 0]
    /\ mails = [c \in Claims |-> [s \in Subjects |-> 0]]
    /\ role \in [Users -> Roles]
    /\ \A u \in Users : role[u] \in MayHold[u]
    /\ tokens = [u \in Users |-> {role[u]}]
    /\ active = Categories
    /\ req = [p \in Slots |-> Idle]

(* The joined row GetDetail returns, deleted claims left out.              *)
Visible(c) == claim[c].status # "NONE" /\ ~claim[c].deleted
DetailsOf(c) ==
    [cat |-> claim[c].cat, date |-> claim[c].date, amount |-> claim[c].amount]
Audited(c, action) == Cardinality({i \in DOMAIN audit[c] :
                                      audit[c][i].action = action})

(* audit.Write, inside the transaction of the change it records.           *)
Write(actor, action, c) ==
    audit' = [audit EXCEPT ![c] = Append(@, [actor |-> actor, action |-> action])]

(* The step of a transaction that committed: notifyEmployee comes next.    *)
ThenNotify(p, u, c, subject) ==
    req' = [req EXCEPT ![p] = Task("notify", u, c, NoDetails, <<>>, subject)]

-----------------------------------------------------------------------------
(* Drafts: Create, Update, Delete.                                         *)

EditableStatus(status) == status \in {"DRAFT", "REJECTED"}
DeletableStatus(status) == status = "DRAFT"

EnsureActiveCategory(cat) == cat \in active

(* CreateClaim: one transaction inserts the header, the items and the      *)
(* amount, which the database sums up from the items.                      *)
NewClaim(u, d) ==
    [status |-> "DRAFT", owner |-> u, cat |-> d.cat, date |-> d.date,
     amount |-> d.amount, step |-> 0, deleted |-> FALSE]

(* The category may be deactivated between its check and the transaction,  *)
(* which is the same as right after the transaction.                       *)
Create(p, u, c, d) ==
    /\ req[p].phase = "idle"
    /\ claim[c] = Unused
    /\ EnsureActiveCategory(d.cat)
    /\ claim' = [claim EXCEPT ![c] = NewClaim(u, d)]
    /\ UNCHANGED <<approvals, audit, storage, mails, directory, req>>

(* Update reads the claim, checks owner, status and category ...           *)
UpdateCheck(p, u, c, d) ==
    /\ req[p].phase = "idle"
    /\ Visible(c)
    /\ claim[c].owner = u
    /\ EditableStatus(claim[c].status)
    /\ EnsureActiveCategory(d.cat)
    /\ req' = [req EXCEPT ![p] = Task("update", u, c, d, <<>>, "")]
    /\ UNCHANGED <<tables, storage, mails, directory>>

(* ... then UpdateClaim replaces items, amount, category and date of the   *)
(* row with that id, whatever has become of it.                            *)
UpdateWrite(p) ==
    LET c == req[p].claim
        d == req[p].seen
    IN  /\ req[p].phase = "update"
        /\ claim' = [claim EXCEPT ![c] =
                        [@ EXCEPT !.cat = d.cat, !.date = d.date,
                                  !.amount = d.amount]]
        /\ req' = [req EXCEPT ![p] = Idle]
        /\ UNCHANGED <<approvals, audit, storage, mails, directory>>

DeleteCheck(p, u, c) ==
    /\ req[p].phase = "idle"
    /\ Visible(c)
    /\ claim[c].owner = u
    /\ DeletableStatus(claim[c].status)
    /\ req' = [req EXCEPT ![p] = Task("delete", u, c, NoDetails, <<>>, "")]
    /\ UNCHANGED <<tables, storage, mails, directory>>

(* SoftDelete marks the row with that id, whatever its status is by now.   *)
DeleteWrite(p) ==
    LET c == req[p].claim
    IN  /\ req[p].phase = "delete"
        /\ claim' = [claim EXCEPT ![c] = [@ EXCEPT !.deleted = TRUE]]
        /\ req' = [req EXCEPT ![p] = Idle]
        /\ UNCHANGED <<approvals, audit, storage, mails, directory>>

-----------------------------------------------------------------------------
(* Receipts: AddAttachment.                                                *)

(* Mutation: only a paid or cancelled claim takes no more receipts.        *)
UploadApproved(status) == status \notin {"PAID", "CANCELLED"}

UploadStatus(status) == status \in {"DRAFT", "REJECTED", "SUBMITTED"}

(* Mutation: the attachments row is inserted before the object is stored.  *)
AttachCheckRowFirst(p, u, c) ==
    /\ req[p].phase = "idle"
    /\ Visible(c)
    /\ claim[c].owner = u
    /\ UploadStatus(claim[c].status)
    /\ objects[c] < Uploads
    /\ req' = [req EXCEPT ![p] = Task("attach", u, c, NoDetails, <<>>, "")]
    /\ UNCHANGED <<tables, storage, mails, directory>>

(* GetDetail, owner and status, before anything is stored.                 *)
AttachCheck(p, u, c) ==
    /\ req[p].phase = "idle"
    /\ Visible(c)
    /\ claim[c].owner = u
    /\ UploadStatus(claim[c].status)
    /\ objects[c] < Uploads
    /\ req' = [req EXCEPT ![p] = Task("putObject", u, c, NoDetails, <<>>, "")]
    /\ UNCHANGED <<tables, storage, mails, directory>>

AttachPutObject(p) ==
    LET c == req[p].claim
    IN  /\ req[p].phase = "putObject"
        /\ objects[c] < Uploads
        /\ objects' = [objects EXCEPT ![c] = @ + 1]
        /\ req' = [req EXCEPT ![p].phase = "attach"]
        /\ UNCHANGED <<tables, receipts, mails, directory>>

AttachInsert(p) ==
    LET c == req[p].claim
    IN  /\ req[p].phase = "attach"
        /\ receipts' = [receipts EXCEPT ![c] = @ + 1]
        /\ req' = [req EXCEPT ![p] = Idle]
        /\ UNCHANGED <<tables, objects, mails, directory>>

-----------------------------------------------------------------------------
(* Submit: the reads and the policy checks, each a query of its own, then  *)
(* the transaction.                                                        *)

(* GetDetail, owner and status.  The chain depends on this read only.      *)
SubmitRead(p, u, c) ==
    /\ req[p].phase = "idle"
    /\ Visible(c)
    /\ claim[c].owner = u
    /\ CanTransition(claim[c].status, "submit")
    /\ Audited(c, "SUBMIT_CLAIM") < MaxSubmits
    /\ req' = [req EXCEPT ![p] =
                 Task("policy", u, c, DetailsOf(c),
                      ExcludeSubmitter(ApprovalChain(claim[c].amount), role[u]),
                      "")]
    /\ UNCHANGED <<tables, storage, mails, directory>>

(* CategoryMonthlyLimit sees active categories only.                       *)
LimitInForce(cat) == IF cat \in active THEN CategoryLimit[cat] ELSE NoLimit

(* Mutation: receipts are not counted.                                     *)
SubmitPolicyCheckNoReceipts(p) ==
    LET d == req[p].seen
    IN  /\ req[p].phase = "policy"
        /\ ~OverMonthlyLimit(claim, LimitInForce(d.cat), req[p].user, d.cat,
                              d.date, d.amount, req[p].claim)
        /\ req' = [req EXCEPT ![p].phase = "duplicate"]
        /\ UNCHANGED <<tables, storage, mails, directory>>

(* Rules 3 and 2: CountAttachments, CategoryMonthlyLimit, and              *)
(* MonthlyCategorySpend.  Receipts are only ever added, so counting them   *)
(* in the same step as the spend refuses no more and no less.              *)
SubmitPolicyCheck(p) ==
    LET c == req[p].claim
        d == req[p].seen
    IN  /\ req[p].phase = "policy"
        /\ ~ReceiptMissing(d.amount, receipts[c])
        /\ ~OverMonthlyLimit(claim, LimitInForce(d.cat), req[p].user, d.cat,
                              d.date, d.amount, c)
        /\ req' = [req EXCEPT ![p].phase = "duplicate"]
        /\ UNCHANGED <<tables, storage, mails, directory>>

(* Mutation: an empty chain is not refused.                                *)
SubmitDuplicateCheckAnyChain(p) ==
    LET c == req[p].claim
        d == req[p].seen
    IN  /\ req[p].phase = "duplicate"
        /\ ~HasDuplicate(claim, req[p].user, d.amount, d.date, c)
        /\ req' = [req EXCEPT ![p].phase = "submit"]
        /\ UNCHANGED <<tables, storage, mails, directory>>

(* Rule 4, and the refusal of an empty chain.                              *)
SubmitDuplicateCheck(p) ==
    LET c == req[p].claim
        d == req[p].seen
    IN  /\ req[p].phase = "duplicate"
        /\ ~HasDuplicate(claim, req[p].user, d.amount, d.date, c)
        /\ req[p].chain # <<>>
        /\ req' = [req EXCEPT ![p].phase = "submit"]
        /\ UNCHANGED <<tables, storage, mails, directory>>

Pending(r) == [role |-> r, status |-> "pending", approver |-> NoUser]

(* Mutation: the steps take the status of the claim.                       *)
SnapshotSubmitted(chain) ==
    [i \in 1..Len(chain) |-> [Pending(chain[i]) EXCEPT !.status = "SUBMITTED"]]

(* The snapshot INSERTed for a chain, step_number following the order.     *)
Snapshot(chain) == [i \in 1..Len(chain) |-> Pending(chain[i])]

(* Mutation: the steps of the round before are not deleted.                *)
SubmitCommitKeepsSteps(p) ==
    LET c == req[p].claim
        u == req[p].user
    IN  /\ req[p].phase = "submit"
        /\ Visible(c)
        /\ CanTransition(claim[c].status, "submit")
        /\ approvals' = [approvals EXCEPT ![c] = @ \o Snapshot(req[p].chain)]
        /\ claim' = [claim EXCEPT ![c] =
                        [@ EXCEPT !.status = "SUBMITTED", !.step = 1]]
        /\ Write(u, "SUBMIT_CLAIM", c)
        /\ ThenNotify(p, u, c, "SUBMITTED")
        /\ UNCHANGED <<storage, mails, directory>>

(* Mutation: the locked status is not checked again.                       *)
SubmitCommitUnchecked(p) ==
    LET c == req[p].claim
        u == req[p].user
    IN  /\ req[p].phase = "submit"
        /\ Visible(c)
        /\ approvals' = [approvals EXCEPT ![c] = Snapshot(req[p].chain)]
        /\ claim' = [claim EXCEPT ![c] =
                        [@ EXCEPT !.status = "SUBMITTED", !.step = 1]]
        /\ Write(u, "SUBMIT_CLAIM", c)
        /\ ThenNotify(p, u, c, "SUBMITTED")
        /\ UNCHANGED <<storage, mails, directory>>

(* The transaction locks the row, checks the status once more, and writes. *)
SubmitCommit(p) ==
    LET c == req[p].claim
        u == req[p].user
    IN  /\ req[p].phase = "submit"
        /\ Visible(c)
        /\ CanTransition(claim[c].status, "submit")
        /\ approvals' = [approvals EXCEPT ![c] = Snapshot(req[p].chain)]
        /\ claim' = [claim EXCEPT ![c] =
                        [@ EXCEPT !.status = "SUBMITTED", !.step = 1]]
        /\ Write(u, "SUBMIT_CLAIM", c)
        /\ ThenNotify(p, u, c, "SUBMITTED")
        /\ UNCHANGED <<storage, mails, directory>>

-----------------------------------------------------------------------------
(* Decisions.  r is the role in the caller's access token.                 *)

(* Mutation: the owner may decide.                                         *)
MayDecideOwn(u, r, c) ==
    LET i == NextPending(approvals[c])
    IN  /\ Visible(c)
        /\ claim[c].status = "SUBMITTED"
        /\ i # 0
        /\ approvals[c][i].role = r

(* The checks of decide, made with the row locked.                         *)
MayDecide(u, r, c) ==
    LET i == NextPending(approvals[c])
    IN  /\ Visible(c)
        /\ claim[c].status = "SUBMITTED"
        /\ i # 0
        /\ approvals[c][i].role = r
        /\ u # claim[c].owner

(* The steps after u has acted on step i.                                  *)
Decided(steps, i, status, u) ==
    [steps EXCEPT ![i] = [role |-> steps[i].role, status |-> status,
                          approver |-> u]]

(* The row after an approval of step i of n.                               *)
AfterApproval(row, i, n) ==
    IF i = n THEN [row EXCEPT !.status = "APPROVED"]
             ELSE [row EXCEPT !.step = i + 1]

Approve(p, u, r, c) ==
    LET i == NextPending(approvals[c])
    IN  /\ req[p].phase = "idle"
        /\ r \in tokens[u]
        /\ MayDecide(u, r, c)
        /\ approvals' = [approvals EXCEPT ![c] = Decided(@, i, "approved", u)]
        /\ claim' = [claim EXCEPT ![c] =
                        AfterApproval(claim[c], i, Len(approvals[c]))]
        /\ Write(u, "APPROVE_CLAIM", c)
        /\ ThenNotify(p, u, c, "APPROVED")
        /\ UNCHANGED <<storage, mails, directory>>

Reject(p, u, r, c) ==
    LET i == NextPending(approvals[c])
    IN  /\ req[p].phase = "idle"
        /\ r \in tokens[u]
        /\ MayDecide(u, r, c)
        /\ approvals' = [approvals EXCEPT ![c] = Decided(@, i, "rejected", u)]
        /\ claim' = [claim EXCEPT ![c] = [@ EXCEPT !.status = "REJECTED"]]
        /\ Write(u, "REJECT_CLAIM", c)
        /\ ThenNotify(p, u, c, "REJECTED")
        /\ UNCHANGED <<storage, mails, directory>>

NoStepActed(c) == \A i \in DOMAIN approvals[c] : approvals[c][i].status = "pending"

(* Mutation: Cancel does not look at the steps.                            *)
CancelLate(p, u, c) ==
    /\ req[p].phase = "idle"
    /\ Visible(c)
    /\ claim[c].owner = u
    /\ CanTransition(claim[c].status, "cancel")
    /\ claim' = [claim EXCEPT ![c] = [@ EXCEPT !.status = "CANCELLED"]]
    /\ Write(u, "CANCEL_CLAIM", c)
    /\ ThenNotify(p, u, c, "CANCELLED")
    /\ UNCHANGED <<approvals, storage, mails, directory>>

(* Owner only, and before any step has been acted on (rule 6).             *)
Cancel(p, u, c) ==
    /\ req[p].phase = "idle"
    /\ Visible(c)
    /\ claim[c].owner = u
    /\ CanTransition(claim[c].status, "cancel")
    /\ NoStepActed(c)
    /\ claim' = [claim EXCEPT ![c] = [@ EXCEPT !.status = "CANCELLED"]]
    /\ Write(u, "CANCEL_CLAIM", c)
    /\ ThenNotify(p, u, c, "CANCELLED")
    /\ UNCHANGED <<approvals, storage, mails, directory>>

Pay(p, u, c) ==
    /\ req[p].phase = "idle"
    /\ "finance" \in tokens[u]
    /\ Visible(c)
    /\ CanTransition(claim[c].status, "pay")
    /\ claim' = [claim EXCEPT ![c] = [@ EXCEPT !.status = "PAID"]]
    /\ Write(u, "PAY_CLAIM", c)
    /\ ThenNotify(p, u, c, "PAID")
    /\ UNCHANGED <<approvals, storage, mails, directory>>

-----------------------------------------------------------------------------
(* After the commit, and on the way out.                                   *)

(* Mutation: the enqueue is repeated after it succeeded.                   *)
NotifyEmployeeAgain(p) ==
    /\ req[p].phase = "notify"
    /\ mails' = [mails EXCEPT ![req[p].claim][req[p].subject] = @ + 1]
    /\ UNCHANGED <<tables, storage, directory, req>>

(* notifyEmployee found the claim and handed the task to the queue.        *)
NotifyEmployee(p) ==
    LET c == req[p].claim
    IN  /\ req[p].phase = "notify"
        /\ mails' = [mails EXCEPT ![c][req[p].subject] = @ + 1]
        /\ req' = [req EXCEPT ![p] = Idle]
        /\ UNCHANGED <<tables, storage, directory>>

(* Every commit writes one audit row and is due one notification.          *)
Unmailed(c) == Len(audit[c]) - SumFunction(mails[c])

(* A check refuses, a query or a transaction fails and is rolled back, the *)
(* enqueue fails, the client goes away or the process crashes: the request *)
(* ends and leaves what it has committed so far.                           *)
Abort(p) ==
    /\ req[p].phase # "idle"
    /\ req[p].phase = "notify" => Unmailed(req[p].claim) <= Losses
    /\ req' = [req EXCEPT ![p] = Idle]
    /\ UNCHANGED <<tables, storage, mails, directory>>

(* An administrator gives a user another role (PATCH /users).  The user    *)
(* may get a token for it at any time, by a login or a refresh, and older  *)
(* tokens stay valid until they expire.                                    *)
ChangeRole(u, r) ==
    /\ r \in MayHold[u] \ {role[u]}
    /\ role' = [role EXCEPT ![u] = r]
    /\ tokens' = [tokens EXCEPT ![u] = @ \cup {r}]
    /\ UNCHANGED <<tables, storage, mails, active, req>>

ExpireTokens(u) ==
    /\ tokens[u] # {role[u]}
    /\ tokens' = [tokens EXCEPT ![u] = {role[u]}]
    /\ UNCHANGED <<tables, storage, mails, role, active, req>>

(* An administrator switches a category off or on (PATCH /categories).     *)
SwitchCategory(k) ==
    /\ active' = IF k \in active THEN active \ {k} ELSE active \cup {k}
    /\ UNCHANGED <<tables, storage, mails, role, tokens, req>>

-----------------------------------------------------------------------------

(* The routes that change a claim and may be refused by a check of their   *)
(* own before anything is stored ...                                       *)
EditRequest(p, u, c) ==
    \/ \E d \in Details : UpdateCheck(p, u, c, d)
    \/ DeleteCheck(p, u, c)
    \/ AttachCheck(p, u, c)

(* ... and those of the workflow.                                          *)
WorkflowRequest(p, u, c) ==
    \/ SubmitRead(p, u, c)
    \/ \E r \in Roles : Approve(p, u, r, c) \/ Reject(p, u, r, c)
    \/ Cancel(p, u, c)
    \/ Pay(p, u, c)

Start(p, u, c) ==
    \/ \E d \in Details : Create(p, u, c, d)
    \/ EditRequest(p, u, c)
    \/ WorkflowRequest(p, u, c)

Continue(p) ==
    \/ UpdateWrite(p)
    \/ DeleteWrite(p)
    \/ AttachPutObject(p)
    \/ AttachInsert(p)
    \/ SubmitPolicyCheck(p)
    \/ SubmitDuplicateCheck(p)
    \/ SubmitCommit(p)
    \/ NotifyEmployee(p)
    \/ Abort(p)

Next ==
    \/ \E p \in Slots, u \in Users, c \in Claims : Start(p, u, c)
    \/ \E p \in Slots : Continue(p)
    \/ \E u \in Users : ExpireTokens(u) \/ \E r \in Roles : ChangeRole(u, r)
    \/ \E k \in MayDeactivate : SwitchCategory(k)

Spec == Init /\ [][Next]_vars
=============================================================================
