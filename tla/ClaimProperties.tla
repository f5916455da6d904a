--------------------------- MODULE ClaimProperties ---------------------------
(***************************************************************************)
(* What the claim workflow promises.  The first group holds however the    *)
(* requests interleave; the second group holds when one request is served  *)
(* at a time, and states the business rules of docs/02 the handlers check  *)
(* outside their transactions.                                             *)
(***************************************************************************)
EXTENDS ClaimWorkflow

(* Every variable stays within its tables' column types; the phases of a   *)
(* request are those of the handlers.                                      *)
TypeOK ==
    /\ claim \in [Claims -> Row]
    /\ approvals \in [Claims -> Seq(Steps)]
    /\ audit \in [Claims -> Seq(AuditRow)]
    /\ receipts \in [Claims -> Nat]
    /\ objects \in [Claims -> Nat]
    /\ mails \in [Claims -> [Subjects -> Nat]]
    /\ role \in [Users -> Roles]
    /\ tokens \in [Users -> SUBSET Roles]
    /\ active \subseteq Categories
    /\ req \in [Slots -> Request]

-----------------------------------------------------------------------------
(* Under any interleaving.                                                 *)

(* Step i is the one the claim waits for, or the one that rejected it: all *)
(* before it approved, all after it still pending.                         *)
StandsAt(c, i, status) ==
    /\ i \in DOMAIN approvals[c]
    /\ approvals[c][i].status = status
    /\ \A j \in DOMAIN approvals[c] :
         /\ j < i => approvals[c][j].status = "approved"
         /\ j > i => approvals[c][j].status = "pending"

(* A claim's status, its current_step and its approval steps tell one      *)
(* story: a submitted claim waits for exactly the step current_step points *)
(* at, an approved or paid one has every step approved, a rejected one one *)
(* rejected step and nothing decided behind it, a cancelled one no step    *)
(* acted on (decide, Cancel, Pay and Submit of workflow.go).               *)
StoryOf(c) ==
    /\ claim[c].status \in {"NONE", "DRAFT"} => approvals[c] = <<>>
    /\ claim[c].status = "SUBMITTED" => StandsAt(c, claim[c].step, "pending")
    /\ claim[c].status = "REJECTED" => StandsAt(c, claim[c].step, "rejected")
    /\ claim[c].status \in {"APPROVED", "PAID"} =>
         /\ approvals[c] # <<>>
         /\ \A i \in DOMAIN approvals[c] : approvals[c][i].status = "approved"
    /\ claim[c].status = "CANCELLED" => approvals[c] # <<>> /\ NoStepActed(c)
(* Every claim's status and steps tell one story.                          *)
StatusMatchesSteps == \A c \in Claims : StoryOf(c)

(* Nobody decides on a claim of their own, whatever roles they have held   *)
(* since it was submitted, and a step names its approver exactly when it   *)
(* has been acted on (rule 7; decide, workflow.go:222-229).                *)
ApproversOf(c) ==
    \A i \in DOMAIN approvals[c] :
        /\ approvals[c][i].approver # claim[c].owner
        /\ (approvals[c][i].approver = NoUser)
             <=> (approvals[c][i].status = "pending")
(* No owner is an approver of their own claim.                             *)
NoSelfApproval == \A c \in Claims : ApproversOf(c)

(* A claim in use has an owner, and a Submit that reached its transaction  *)
(* carries a chain: what the two invariants above need to be inductive.    *)
OwnedClaims == \A c \in Claims : claim[c].status # "NONE" => claim[c].owner \in Users
ChainReady == \A p \in Slots : req[p].phase = "submit" => req[p].chain # <<>>
(* The paths of the approval matrix, with one role or none left out.       *)
MatrixPaths ==
    {ExcludeSubmitter(ApprovalChain(a), r) : a \in Amounts, r \in Roles}

(* A Submit carries a path of the matrix to its transaction.               *)
ChainFromMatrix ==
    \A p \in Slots : req[p].phase \in {"policy", "duplicate", "submit"} =>
                        req[p].chain \in MatrixPaths

(* A request that is past its checks is the owner's, about a claim that    *)
(* exists: nothing changes the owner of a row.                             *)
RequesterOwns ==
    \A p \in Slots : req[p].phase \in Phases \ {"idle", "notify"} =>
        /\ claim[req[p].claim].status # "NONE"
        /\ claim[req[p].claim].owner = req[p].user

(* The inductive invariant of the claim workflow.                          *)
WorkflowInv ==
    /\ TypeOK
    /\ StatusMatchesSteps
    /\ NoSelfApproval
    /\ OwnedClaims
    /\ ChainReady
    /\ ChainFromMatrix

(* A paid, cancelled or deleted claim never changes status, approvals or   *)
(* audit trail again: a second Pay, a late decision or a submit that       *)
(* passed its checks earlier must bounce off the locked row.               *)
FinalStep(c) ==
    (claim[c].status \in {"PAID", "CANCELLED"} \/ claim[c].deleted) =>
       /\ claim'[c].status = claim[c].status
       /\ approvals'[c] = approvals[c]
       /\ audit'[c] = audit[c]
(* No step changes the status, steps or audit trail of a final claim.      *)
FinalIsFinal == [][\A c \in Claims : FinalStep(c)]_vars

(* A step is decided by a holder of its role once all before it are        *)
(* approved, and a decided step is never overwritten: only resubmitting a  *)
(* rejected claim replaces its steps (rule 7).                             *)
StepStands(c, i) ==
    /\ i \in DOMAIN approvals'[c]
    /\ approvals'[c][i] # approvals[c][i] =>
         /\ approvals[c][i].status = "pending"
         /\ \A j \in 1..(i - 1) : approvals[c][j].status = "approved"
         /\ \E u \in Users \ {claim[c].owner} :
               /\ approvals'[c][i].approver = u
               /\ approvals[c][i].role \in tokens[u]
DecisionStep(c) ==
    \A i \in DOMAIN approvals[c] :
        \/ approvals'[c] # approvals[c] =>
             claim[c].status = "REJECTED" /\ claim'[c].status = "SUBMITTED"
        \/ StepStands(c, i)
(* Decisions are taken in order by the right people and never overwritten. *)
DecisionsStand == [][\A c \in Claims : DecisionStep(c)]_vars

(* The audit row a decided step leaves, and the steps decided so far.      *)
Decision(s) ==
    [actor |-> s.approver,
     action |-> IF s.status = "approved" THEN "APPROVE_CLAIM" ELSE "REJECT_CLAIM"]
Acted(steps) == {i \in DOMAIN steps : steps[i].status # "pending"}

(* What a log says since its last submission, which is at 0 if there is    *)
(* none.                                                                   *)
LastSubmission(log) == SelectLastInSeq(log, LAMBDA e : e.action = "SUBMIT_CLAIM")
LastRound(log) == SubSeq(log, LastSubmission(log) + 1, Len(log))

(* Submissions are the owner's, and each but the first answers a rejection. *)
Rounds(owner, log) ==
    \A i \in DOMAIN log : log[i].action = "SUBMIT_CLAIM" =>
        /\ log[i].actor = owner
        /\ i > 1 => log[i - 1].action = "REJECT_CLAIM"

(* The last round is the decided steps in order, then how the claim ended. *)
RoundOf(row, steps, round) ==
    /\ \A i \in Acted(steps) : i \in DOMAIN round /\ round[i] = Decision(steps[i])
    /\ row.status \in {"SUBMITTED", "APPROVED", "REJECTED"} =>
         DOMAIN round = Acted(steps)
    /\ row.status = "PAID" =>
         /\ Len(round) = Len(steps) + 1
         /\ round[Len(round)].action = "PAY_CLAIM"
    /\ row.status = "CANCELLED" =>
         round = <<[actor |-> row.owner, action |-> "CANCEL_CLAIM"]>>

TrailOf(row, steps, log) ==
    /\ row.status \in {"NONE", "DRAFT"} => log = <<>>
    /\ row.status \notin {"NONE", "DRAFT"} =>
         /\ LastSubmission(log) # 0
         /\ RoundOf(row, steps, LastRound(log))
    /\ Rounds(row.owner, log)

(* The audit trail explains the claim: it is a series of rounds, each      *)
(* opened by a submission of the owner and closed by a rejection before    *)
(* the next; since the last submission it lists the decided steps in order *)
(* with their approvers, then the cancellation by the owner or the one     *)
(* payment (audit.Write in every transaction, workflow.go).                *)
AuditExplainsClaim ==
    \A c \in Claims : TrailOf(claim[c], approvals[c], audit[c])

ActionOf == [SUBMITTED |-> "SUBMIT_CLAIM", APPROVED |-> "APPROVE_CLAIM",
             REJECTED |-> "REJECT_CLAIM", CANCELLED |-> "CANCEL_CLAIM",
             PAID |-> "PAY_CLAIM"]
Notifying(c, s) ==
    {p \in Slots : req[p].phase = "notify" /\ req[p].claim = c
                                           /\ req[p].subject = s}

(* The owner is mailed about a change at most as often as that change was  *)
(* committed: a transaction that is refused or rolled back never reaches   *)
(* the queue (notifyEmployee runs after the commit).                       *)
MailOnlyAfterCommit ==
    \A c \in Claims, s \in Subjects :
        mails[c][s] + Cardinality(Notifying(c, s)) <= Audited(c, ActionOf[s])

Attaching(c) == {p \in Slots : req[p].phase = "attach" /\ req[p].claim = c}

(* Every attachments row points at an object that was stored before it; a  *)
(* failure in between leaves an object without a row, never the reverse.   *)
ReceiptsAreStored ==
    \A c \in Claims :
        receipts[c] + Cardinality(Attaching(c)) <= objects[c]

-----------------------------------------------------------------------------
(* The abstract lifecycle.                                                 *)

(* The refinement mapping: the roles of the approvals rows are the path,   *)
(* those rows that say "approved" the positions walked.                    *)
RolesOf(steps) == [i \in DOMAIN steps |-> steps[i].role]
Walked(steps) == {i \in DOMAIN steps : steps[i].status = "approved"}
StatusMap == [c \in Claims |-> claim[c].status]
PathMap == [c \in Claims |-> RolesOf(approvals[c])]
ApprovedMap == [c \in Claims |-> Walked(approvals[c])]
Lifecycle == INSTANCE ClaimLifecycle WITH
    Paths <- MatrixPaths \ {<<>>}, status <- StatusMap,
    path <- PathMap, approved <- ApprovedMap

(* Whatever requests interleave, fail or arrive late, every claim lives    *)
(* the life of ClaimLifecycle: the locks of SubmitCommit, decide, Cancel   *)
(* and Pay let no request see, or leave, anything in between.              *)
ImplementsLifecycle == Lifecycle!Spec

-----------------------------------------------------------------------------
(* The business rules of docs/02.                                          *)

Live(c) == claim[c].status \in {"SUBMITTED", "APPROVED", "PAID"}

(* Rule 5: amount, category and date change only while a claim is a draft  *)
(* or rejected, and only a draft is ever deleted.                          *)
DetailsStep(c) ==
    /\ DetailsOf(c)' # DetailsOf(c) =>
         claim[c].status \in {"NONE", "DRAFT", "REJECTED"}
    /\ claim'[c].deleted # claim[c].deleted => claim[c].status = "DRAFT"
(* The refusal of attachments.go:40: a decided claim gets no more receipts.*)
ReceiptStep(c) ==
    receipts'[c] # receipts[c] =>
        claim[c].status \in {"DRAFT", "REJECTED", "SUBMITTED"}
(* No step edits or deletes a claim outside its window.                    *)
DetailsWindow == [][\A c \in Claims : DetailsStep(c)]_vars
(* Nor does any add a receipt.  Nothing locks the claim from the check to  *)
(* the write, so two requests can: edit_race, for the details.             *)
EditWindow == [][\A c \in Claims : DetailsStep(c) /\ ReceiptStep(c)]_vars

(* The approval matrix of docs/02, by value: who has to approve an amount, *)
(* the submitter's own role left out.                                      *)
Rank == [manager |-> 1, finance |-> 2, admin |-> 3]
RequiredRoles(amount, submitter) ==
    {r \in ApproverRoles \ {submitter} : /\ r = "finance" => amount > T1
                                         /\ r = "admin" => amount > T2}
FollowsMatrix(path, amount, submitter) ==
    /\ {path[i] : i \in DOMAIN path} = RequiredRoles(amount, submitter)
    /\ \A i, j \in DOMAIN path : i < j => Rank[path[i]] < Rank[path[j]]

(* The approval matrix: a live claim carries one step for each role its    *)
(* present amount calls for, to the cent, in the order of the matrix.      *)
ChainCoversAmount ==
    \A c \in Claims : Live(c) =>
        FollowsMatrix(RolesOf(approvals[c]), claim[c].amount,
                      role[claim[c].owner])

(* Rule 2: an employee's live claims of a category and month stay within   *)
(* the limit of the category, to the cent.                                 *)
MonthlyLimitHolds ==
    \A c \in Claims : Live(c) /\ ~claim[c].deleted =>
        LET limit == CategoryLimit[claim[c].cat]
            others == MonthlyCategorySpend(claim, claim[c].owner, claim[c].cat,
                                           claim[c].date, c)
        IN  limit # NoLimit => others + claim[c].amount <= limit

(* Rule 3: a live claim above the threshold has a receipt.                 *)
LargeClaimsHaveReceipt ==
    \A c \in Claims :
        Live(c) /\ claim[c].amount > ReceiptThreshold => receipts[c] > 0

Twins(c, e) ==
    /\ c # e
    /\ ~claim[c].deleted /\ ~claim[e].deleted
    /\ claim[c].owner = claim[e].owner
    /\ claim[c].amount = claim[e].amount
    /\ claim[c].date \in
         (claim[e].date - DuplicateWindow)..(claim[e].date + DuplicateWindow)

(* Rule 4: no two live claims of an employee have the same amount and      *)
(* expense dates within the window.                                        *)
NoLiveDuplicates ==
    \A c, e \in Claims : Live(c) /\ Live(e) => ~Twins(c, e)
=============================================================================
