--------------------------- MODULE ClaimLifecycle ---------------------------
(***************************************************************************)
(* What the approval workflow promises about a claim, without requests,    *)
(* locks, users or tables: the life of a claim is a walk through the       *)
(* status table of docs/02 in which an approval path is fixed when the     *)
(* claim is submitted, walked in order, and walked to its end before the   *)
(* claim is paid.  ClaimProperties shows that ClaimWorkflow implements it. *)
(***************************************************************************)
EXTENDS Naturals

CONSTANTS
    Claims,
    Paths       \* the approval paths a submission may fix, none of them empty

VARIABLES
    status,     \* the status of each claim, "NONE" before it is created
    path,       \* the roles that have to approve it, in order
    approved    \* the positions of the path that have approved

vars == <<status, path, approved>>

Init ==
    /\ status = [c \in Claims |-> "NONE"]
    /\ path = [c \in Claims |-> <<>>]
    /\ approved = [c \in Claims |-> {}]

(* The step of a claim from one status to another, its approvals as they   *)
(* are.                                                                    *)
Move(c, from, to) ==
    /\ status[c] = from
    /\ status' = [status EXCEPT ![c] = to]
    /\ UNCHANGED <<path, approved>>

(* A first submission, or one more after a rejection, starts a new path.   *)
Submit(c) ==
    /\ status[c] \in {"DRAFT", "REJECTED"}
    /\ status' = [status EXCEPT ![c] = "SUBMITTED"]
    /\ \E p \in Paths : path' = [path EXCEPT ![c] = p]
    /\ approved' = [approved EXCEPT ![c] = {}]

(* The next role approves, and the last one approves the claim.            *)
Approve(c, i) ==
    /\ status[c] = "SUBMITTED"
    /\ i \in DOMAIN path[c]
    /\ approved[c] = 1..(i - 1)
    /\ approved' = [approved EXCEPT ![c] = 1..i]
    /\ status' = [status EXCEPT ![c] =
                    IF 1..i = DOMAIN path[c] THEN "APPROVED" ELSE "SUBMITTED"]
    /\ UNCHANGED path

(* The owner may withdraw until the first role has approved.               *)
Cancel(c) == approved[c] = {} /\ Move(c, "SUBMITTED", "CANCELLED")

Next ==
    \E c \in Claims :
        \/ Move(c, "NONE", "DRAFT")
        \/ Submit(c)
        \/ \E i \in DOMAIN path[c] : Approve(c, i)
        \/ Move(c, "SUBMITTED", "REJECTED")
        \/ Cancel(c)
        \/ Move(c, "APPROVED", "PAID")

Spec == Init /\ [][Next]_vars
=============================================================================
