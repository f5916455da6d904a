---------------------------- MODULE SubmitPolicy ----------------------------
(***************************************************************************)
(* The pure rules of the claim workflow: the lifecycle table, the approval *)
(* matrix and the checks Submit runs before it opens its transaction       *)
(* (backend/internal/modules/reimbursements/statemachine.go and the policy *)
(* queries of repository.go).  Amounts are natural numbers of cents,       *)
(* compared and added with the decimal arithmetic of the code (Decimals).  *)
(***************************************************************************)
EXTENDS Integers, Sequences, SequencesExt, Decimals

CONSTANTS
    T1,                 \* APPROVAL_TIER_1: manager alone up to here
    T2,                 \* APPROVAL_TIER_2: manager and finance up to here
    ReceiptThreshold,   \* RECEIPT_THRESHOLD: above it a receipt is needed
    NoLimit,            \* a category's limit where the column is NULL
    MonthOf,            \* the calendar month of an expense date
    DuplicateWindow     \* days around an expense date, 7 in the code

ASSUME TierAssumption == T1 \in Nat /\ T2 \in Nat /\ ReceiptThreshold \in Nat
ASSUME WindowAssumption == DuplicateWindow \in Nat

Roles == {"employee", "manager", "finance", "admin"}
ApproverRoles == {"manager", "finance", "admin"}

Statuses ==
    {"DRAFT", "SUBMITTED", "APPROVED", "REJECTED", "PAID", "CANCELLED"}

-----------------------------------------------------------------------------
(* The state machine.                                                      *)

(* Mutation: a paid claim may be paid again.                               *)
CanTransitionPaidTwice(from, action) ==
    \/ action = "submit" /\ from \in {"DRAFT", "REJECTED"}
    \/ action \in {"approve", "reject", "cancel"} /\ from = "SUBMITTED"
    \/ action = "pay" /\ from \in {"APPROVED", "PAID"}

(* canTransition.                                                          *)
CanTransition(from, action) ==
    \/ action = "submit" /\ from \in {"DRAFT", "REJECTED"}
    \/ action \in {"approve", "reject", "cancel"} /\ from = "SUBMITTED"
    \/ action = "pay" /\ from = "APPROVED"

(* The one comparison made of two amounts.                                 *)
Above(a, b) == CompareNumeric(SplitDecimal(a), SplitDecimal(b)) > 0

(* The approval path of an amount, before the submitter is taken out.      *)
ApprovalChain(amount) ==
    CASE ~Above(amount, T1) -> <<"manager">>
      [] Above(amount, T1) /\ ~Above(amount, T2) -> <<"manager", "finance">>
      [] OTHER -> <<"manager", "finance", "admin">>

(* A role occurs at most once in an approval path, so dropping every       *)
(* occurrence and dropping the first one are the same thing.               *)
ExcludeSubmitter(chain, submitterRole) == RemoveFirst(chain, submitterRole)

(* Mutation: the last pending step.                                        *)
NextPendingLast(steps) ==
    SelectLastInSeq(steps, LAMBDA s : s.status = "pending")

(* One-based index of the first pending step, 0 where the code returns -1. *)
NextPending(steps) ==
    SelectInSeq(steps, LAMBDA s : s.status = "pending")

-----------------------------------------------------------------------------
(* Rules 2, 3 and 4 of docs/02.  "rows" is the reimbursements table.       *)

(* Rule 3, CountAttachments = 0 on an amount above the threshold.          *)
ReceiptMissing(amount, attached) == Above(amount, ReceiptThreshold) /\ attached = 0

(* The claims counted by MonthlyCategorySpend, the claim itself excluded.  *)
SpendRows(rows, employee, cat, date, self) ==
    {c \in DOMAIN rows \ {self} :
        /\ rows[c].owner = employee
        /\ rows[c].cat = cat
        /\ rows[c].status \in {"SUBMITTED", "APPROVED", "PAID"}
        /\ MonthOf[rows[c].date] = MonthOf[date]
        /\ ~rows[c].deleted}

MonthlyCategorySpend(rows, employee, cat, date, self) ==
    SumFunctionOnSet([c \in DOMAIN rows |-> rows[c].amount],
                     SpendRows(rows, employee, cat, date, self))

(* Rule 2: with this claim the month's spend would pass the limit.         *)
OverMonthlyLimit(rows, limit, employee, cat, date, amount, self) ==
    LET spent == MonthlyCategorySpend(rows, employee, cat, date, self)
    IN  /\ limit # NoLimit
        /\ CompareNumeric(AddNumeric(SplitDecimal(spent), SplitDecimal(amount)),
                          SplitDecimal(limit)) > 0

(* Mutation: a claim on the last day of the window is not found.           *)
HasDuplicateWithin(rows, employee, amount, date, self) ==
    \E c \in DOMAIN rows \ {self} :
        /\ rows[c].owner = employee
        /\ rows[c].amount = amount
        /\ rows[c].status \in Statuses \ {"REJECTED", "CANCELLED"}
        /\ rows[c].date > date - DuplicateWindow
        /\ rows[c].date < date + DuplicateWindow
        /\ ~rows[c].deleted

(* Rule 4, FindDuplicate: drafts count, rejected and cancelled do not.     *)
HasDuplicate(rows, employee, amount, date, self) ==
    \E c \in DOMAIN rows \ {self} :
        /\ rows[c].owner = employee
        /\ rows[c].amount = amount
        /\ rows[c].status \in Statuses \ {"REJECTED", "CANCELLED"}
        /\ rows[c].date \in (date - DuplicateWindow)..(date + DuplicateWindow)
        /\ ~rows[c].deleted
=============================================================================
