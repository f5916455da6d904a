---------------------------- MODULE RulesProofs -----------------------------
(***************************************************************************)
(* What the claim workflow leaves behind, receipts, mails and the audit    *)
(* trail, and the business rules of docs/02, proved for every set of       *)
(* users, claims and request slots.                                        *)
(***************************************************************************)
EXTENDS ClaimProofs, FiniteSetTheorems

-----------------------------------------------------------------------------
(* What is left behind: a receipt has its object, a mail follows a commit, *)
(* and the audit trail explains every claim.                               *)

(* A set that a request enters, leaves or is indifferent to.               *)
LEMMA CountSlots ==
    ASSUME NEW p \in Slots, NEW A \in SUBSET Slots, NEW B \in SUBSET Slots,
           A \ {p} = B \ {p}
    PROVE  /\ Cardinality(A) \in Nat /\ Cardinality(B) \in Nat
           /\ p \notin A /\ p \in B => Cardinality(B) = Cardinality(A) + 1
           /\ p \in A /\ p \notin B => Cardinality(B) = Cardinality(A) - 1
           /\ (p \in A <=> p \in B) => Cardinality(B) = Cardinality(A)
<1>1. IsFiniteSet(A) /\ IsFiniteSet(B)
  BY SlotsAssumption, FS_Subset
<1>2. Cardinality(A) \in Nat /\ Cardinality(B) \in Nat
  BY <1>1, FS_CardinalityType
<1>3. ASSUME p \notin A, p \in B PROVE Cardinality(B) = Cardinality(A) + 1
  <2>1. B = A \cup {p}
    BY <1>3
  <2> QED BY <1>1, <1>3, <2>1, FS_AddElement
<1>4. ASSUME p \in A, p \notin B PROVE Cardinality(B) = Cardinality(A) - 1
  <2>1. B = A \ {p}
    BY <1>4
  <2> QED BY <1>1, <1>4, <2>1, FS_RemoveElement
<1>5. ASSUME p \in A <=> p \in B PROVE Cardinality(B) = Cardinality(A)
  <2>1. A = B
    BY <1>5
  <2> QED BY <2>1
<1> QED BY <1>2, <1>3, <1>4, <1>5

(* Fewer requests than before count for no more.                           *)
LEMMA FewerSlots ==
    ASSUME NEW A \in SUBSET Slots, NEW B \in SUBSET A
    PROVE  /\ Cardinality(A) \in Nat /\ Cardinality(B) \in Nat
           /\ Cardinality(B) <= Cardinality(A)
<1>1. IsFiniteSet(A) /\ IsFiniteSet(B)
  BY SlotsAssumption, FS_Subset
<1> QED BY <1>1, FS_Subset, FS_CardinalityType

-----------------------------------------------------------------------------
(* Receipts.                                                               *)

(* A step that writes neither rows nor objects, and lets no upload into    *)
(* its last phase, keeps the count.                                        *)
LEMMA ReceiptsFrame ==
    ASSUME TypeOK, ReceiptsAreStored, NEW c \in Claims,
           receipts'[c] = receipts[c], objects'[c] = objects[c],
           Attaching(c)' \subseteq Attaching(c)
    PROVE  receipts'[c] + Cardinality(Attaching(c)') <= objects'[c]
<1> DEFINE A == Attaching(c)
           B == Attaching(c)'
<1>1. /\ Cardinality(A) \in Nat /\ Cardinality(B) \in Nat
      /\ Cardinality(B) <= Cardinality(A)
  <2>1. A \in SUBSET Slots /\ B \in SUBSET A
    BY DEF Attaching
  <2> HIDE DEF A, B
  <2> QED BY <2>1, FewerSlots
<1>2. receipts[c] + Cardinality(A) <= objects[c]
  BY DEF ReceiptsAreStored
<1>3. receipts[c] \in Nat /\ objects[c] \in Nat
  BY DEF TypeOK
<1> HIDE DEF A
<1>4. Cardinality(B) = Cardinality(Attaching(c)')
  OBVIOUS
<1> HIDE DEF B
<1> QED BY <1>1, <1>2, <1>3, <1>4

(* Replacing one request by one that is not about to insert a row.         *)
LEMMA NotAttaching ==
    ASSUME TypeOK, NEW p \in Slots, NEW t, t.phase # "attach",
           req' = [req EXCEPT ![p] = t], NEW c \in Claims
    PROVE  Attaching(c)' \subseteq Attaching(c)
BY DEF TypeOK, Attaching

(* Only an upload touches receipts, objects and the requests that count.   *)
LEMMA UploadsOnly ==
    ASSUME TypeOK, [Next]_vars, NEW c \in Claims
    PROVE  \/ /\ receipts'[c] = receipts[c] /\ objects'[c] = objects[c]
              /\ Attaching(c)' \subseteq Attaching(c)
           \/ \E p \in Slots : AttachPutObject(p) \/ AttachInsert(p)
<1> USE DEF storage
<1> DEFINE Quiet == /\ receipts'[c] = receipts[c] /\ objects'[c] = objects[c]
                    /\ Attaching(c)' \subseteq Attaching(c)
<1>1. ASSUME NEW p \in Slots, NEW u \in Users, NEW e \in Claims, Start(p, u, e)
      PROVE  Quiet
  <2>1. ASSUME NEW d \in Details, Create(p, u, e, d) PROVE Quiet
    BY <2>1 DEF Create, Attaching
  <2>2. ASSUME NEW d \in Details, UpdateCheck(p, u, e, d) PROVE Quiet
    BY <2>2, NotAttaching DEF UpdateCheck, Task
  <2>3. CASE DeleteCheck(p, u, e)
    BY <2>3, NotAttaching DEF DeleteCheck, Task
  <2>4. CASE AttachCheck(p, u, e)
    BY <2>4, NotAttaching DEF AttachCheck, Task
  <2>5. CASE SubmitRead(p, u, e)
    BY <2>5, NotAttaching DEF SubmitRead, Task
  <2>6. ASSUME NEW r \in Roles, Approve(p, u, r, e) PROVE Quiet
    BY <2>6, NotAttaching DEF Approve, ThenNotify, Task
  <2>7. ASSUME NEW r \in Roles, Reject(p, u, r, e) PROVE Quiet
    BY <2>7, NotAttaching DEF Reject, ThenNotify, Task
  <2>8. CASE Cancel(p, u, e)
    BY <2>8, NotAttaching DEF Cancel, ThenNotify, Task
  <2>9. CASE Pay(p, u, e)
    BY <2>9, NotAttaching DEF Pay, ThenNotify, Task
  <2> HIDE DEF Quiet
  <2> QED BY <1>1, <2>1, <2>2, <2>3, <2>4, <2>5, <2>6, <2>7, <2>8, <2>9
         DEF Start, EditRequest, WorkflowRequest
<1>2. ASSUME NEW p \in Slots, Continue(p),
             ~AttachPutObject(p), ~AttachInsert(p)
      PROVE  Quiet
  <2>1. CASE UpdateWrite(p) \/ DeleteWrite(p) \/ NotifyEmployee(p) \/ Abort(p)
    BY <2>1, NotAttaching DEF UpdateWrite, DeleteWrite, NotifyEmployee, Abort, Idle
  <2>2. CASE SubmitPolicyCheck(p)
    <3>1. [req[p] EXCEPT !.phase = "duplicate"].phase = "duplicate"
      BY <2>2, Serving DEF SubmitPolicyCheck, Active
    <3> QED BY <2>2, <3>1, NotAttaching DEF SubmitPolicyCheck
  <2>3. CASE SubmitDuplicateCheck(p)
    <3>1. [req[p] EXCEPT !.phase = "submit"].phase = "submit"
      BY <2>3, Serving DEF SubmitDuplicateCheck, Active
    <3> QED BY <2>3, <3>1, NotAttaching DEF SubmitDuplicateCheck
  <2>4. CASE SubmitCommit(p)
    BY <2>4, NotAttaching DEF SubmitCommit, ThenNotify, Task
  <2> HIDE DEF Quiet
  <2> QED BY <1>2, <2>1, <2>2, <2>3, <2>4 DEF Continue
<1>3. ASSUME \/ \E u \in Users : \/ ExpireTokens(u)
                                 \/ \E r \in Roles : ChangeRole(u, r)
             \/ \E k \in MayDeactivate : SwitchCategory(k)
             \/ UNCHANGED vars
      PROVE  Quiet
  BY <1>3 DEF ExpireTokens, ChangeRole, SwitchCategory, vars, Attaching
<1> QED BY <1>1, <1>2, <1>3 DEF Next

(* An upload stores its object, and only then inserts its row.             *)
LEMMA ReceiptsNext == TypeOK /\ ReceiptsAreStored /\ [Next]_vars => ReceiptsAreStored'
<1> SUFFICES ASSUME TypeOK, ReceiptsAreStored, [Next]_vars, NEW c \in Claims
             PROVE  receipts'[c] + Cardinality(Attaching(c)') <= objects'[c]
  BY DEF ReceiptsAreStored
<1>1. CASE /\ receipts'[c] = receipts[c] /\ objects'[c] = objects[c]
           /\ Attaching(c)' \subseteq Attaching(c)
  BY <1>1, ReceiptsFrame
<1> DEFINE A == Attaching(c)
           B == Attaching(c)'
<1>2. /\ A \in SUBSET Slots /\ B \in SUBSET Slots
      /\ receipts[c] + Cardinality(A) <= objects[c]
      /\ receipts[c] \in Nat /\ objects[c] \in Nat
  BY DEF Attaching, ReceiptsAreStored, TypeOK
<1>3. ASSUME NEW p \in Slots, AttachPutObject(p)
      PROVE  receipts'[c] + Cardinality(B) <= objects'[c]
  <2> DEFINE e == req[p].claim
  <2>1. /\ req[p] \in Active /\ e \in Claims /\ req[p].phase = "putObject"
    BY <1>3, Serving DEF AttachPutObject, Active
  <2>2. /\ [req[p] EXCEPT !.phase = "attach"].phase = "attach"
        /\ [req[p] EXCEPT !.phase = "attach"].claim = e
    BY <2>1 DEF Active
  <2>3. /\ A \ {p} = B \ {p} /\ p \notin A /\ (p \in B <=> e = c)
    BY <1>3, <2>1, <2>2 DEF AttachPutObject, Attaching, TypeOK
  <2>4. /\ receipts'[c] = receipts[c]
        /\ objects'[c] = IF e = c THEN objects[c] + 1 ELSE objects[c]
    BY <1>3, <2>1 DEF AttachPutObject, TypeOK
  <2> HIDE DEF A, B, e
  <2>5. /\ Cardinality(A) \in Nat /\ Cardinality(B) \in Nat
        /\ p \notin A /\ p \in B => Cardinality(B) = Cardinality(A) + 1
        /\ (p \in A <=> p \in B) => Cardinality(B) = Cardinality(A)
    BY <1>2, <2>3, CountSlots
  <2> QED BY <1>2, <2>3, <2>4, <2>5
<1>4. ASSUME NEW p \in Slots, AttachInsert(p)
      PROVE  receipts'[c] + Cardinality(B) <= objects'[c]
  <2> DEFINE e == req[p].claim
  <2>1. /\ e \in Claims /\ req[p].phase = "attach"
    BY <1>4, Serving DEF AttachInsert, Active
  <2>2. /\ A \ {p} = B \ {p} /\ p \notin B /\ (p \in A <=> e = c)
    BY <1>4, <2>1 DEF AttachInsert, Attaching, TypeOK, Idle
  <2>3. /\ objects'[c] = objects[c]
        /\ receipts'[c] = IF e = c THEN receipts[c] + 1 ELSE receipts[c]
    BY <1>4, <2>1 DEF AttachInsert, TypeOK
  <2> HIDE DEF A, B, e
  <2>4. /\ Cardinality(A) \in Nat /\ Cardinality(B) \in Nat
        /\ p \in A /\ p \notin B => Cardinality(B) = Cardinality(A) - 1
        /\ (p \in A <=> p \in B) => Cardinality(B) = Cardinality(A)
    BY <1>2, <2>2, CountSlots
  <2> QED BY <1>2, <2>2, <2>3, <2>4
<1> QED BY <1>1, <1>3, <1>4, UploadsOnly

(* No attachments row is without its object, however uploads interleave    *)
(* and break off (AddAttachment, attachments.go).                          *)
THEOREM ReceiptRowsHaveObjects == Spec => []ReceiptsAreStored
<1>1. Init => ReceiptsAreStored
  <2> SUFFICES ASSUME Init, NEW c \in Claims
               PROVE  receipts[c] + Cardinality(Attaching(c)) <= objects[c]
    BY DEF ReceiptsAreStored
  <2>1. Attaching(c) = {}
    BY DEF Init, Idle, Attaching
  <2> QED BY <2>1, FS_EmptySet DEF Init
<1>2. TypeOK /\ ReceiptsAreStored /\ [Next]_vars => ReceiptsAreStored'
  BY ReceiptsNext
<1> QED BY <1>1, <1>2, TypeCorrect, PTL DEF Spec

-----------------------------------------------------------------------------
(* Mails.                                                                  *)

(* How many rows of a log are about an action.                             *)
RowsAbout(log, action) == {i \in DOMAIN log : log[i].action = action}

(* A row more counts for its own action.                                   *)
LEMMA AppendCounts ==
    ASSUME NEW log \in Seq(AuditRow), NEW e \in AuditRow, NEW action
    PROVE  /\ Cardinality(RowsAbout(log, action)) \in Nat
           /\ Cardinality(RowsAbout(Append(log, e), action)) =
                IF e.action = action THEN Cardinality(RowsAbout(log, action)) + 1
                                     ELSE Cardinality(RowsAbout(log, action))
<1> DEFINE I == RowsAbout(log, action)
           n == Len(log)
<1>1. n \in Nat /\ DOMAIN log = 1..n
  BY LenProperties
<1>2. IsFiniteSet(I) /\ n + 1 \notin I
  <2>1. IsFiniteSet(1..n)
    BY <1>1, FS_Interval
  <2> QED BY <1>1, <2>1, FS_Subset DEF RowsAbout
<1>3. RowsAbout(Append(log, e), action) = IF e.action = action THEN I \cup {n + 1} ELSE I
  <2>1. /\ DOMAIN Append(log, e) = 1..(n + 1)
        /\ Append(log, e)[n + 1] = e
        /\ \A i \in 1..n : Append(log, e)[i] = log[i]
    BY <1>1
  <2>2. 1..(n + 1) = (1..n) \cup {n + 1} /\ n + 1 \notin 1..n
    BY <1>1
  <2> HIDE DEF n
  <2> QED BY <1>1, <2>1, <2>2 DEF RowsAbout
<1> HIDE DEF I, n
<1> QED BY <1>2, <1>3, FS_AddElement, FS_CardinalityType DEF I

(* The commit of a change s of claim c: its audit row, and the request     *)
(* that goes on to mail the owner about it.                                *)
Commits(p, u, c, s) ==
    /\ Write(u, ActionOf[s], c)
    /\ ThenNotify(p, u, c, s)
    /\ mails' = mails

(* Replacing one request by one that has nothing to notify.                *)
LEMMA NotNotifying ==
    ASSUME TypeOK, NEW p \in Slots, NEW t, t.phase # "notify",
           req' = [req EXCEPT ![p] = t], NEW c \in Claims, NEW s
    PROVE  Notifying(c, s)' \subseteq Notifying(c, s)
BY DEF TypeOK, Notifying

(* A step commits a change, mails, or does neither.                        *)
LEMMA CommitOrMail ==
    ASSUME TypeOK, [Next]_vars, NEW c \in Claims, NEW s \in Subjects
    PROVE  \/ /\ audit' = audit /\ mails' = mails
              /\ Notifying(c, s)' \subseteq Notifying(c, s)
           \/ \E p \in Slots : NotifyEmployee(p)
           \/ \E p \in Slots, u \in Users, e \in Claims, k \in Subjects :
                Commits(p, u, e, k)
<1> USE DEF tables
<1> DEFINE Quiet == /\ audit' = audit /\ mails' = mails
                    /\ Notifying(c, s)' \subseteq Notifying(c, s)
           Commit(p) == \E u \in Users, e \in Claims, k \in Subjects :
                           Commits(p, u, e, k)
<1>1. ASSUME NEW p \in Slots, NEW u \in Users, NEW e \in Claims, Start(p, u, e)
      PROVE  Quiet \/ Commit(p)
  <2>1. ASSUME NEW d \in Details, Create(p, u, e, d) PROVE Quiet
    BY <2>1 DEF Create, Notifying
  <2>2. ASSUME NEW d \in Details, UpdateCheck(p, u, e, d) PROVE Quiet
    BY <2>2, NotNotifying DEF UpdateCheck, Task
  <2>3. CASE DeleteCheck(p, u, e)
    BY <2>3, NotNotifying DEF DeleteCheck, Task
  <2>4. CASE AttachCheck(p, u, e)
    BY <2>4, NotNotifying DEF AttachCheck, Task
  <2>5. CASE SubmitRead(p, u, e)
    BY <2>5, NotNotifying DEF SubmitRead, Task
  <2>6. ASSUME NEW r \in Roles, Approve(p, u, r, e) PROVE Commits(p, u, e, "APPROVED")
    BY <2>6 DEF Approve, Commits, ActionOf
  <2>7. ASSUME NEW r \in Roles, Reject(p, u, r, e) PROVE Commits(p, u, e, "REJECTED")
    BY <2>7 DEF Reject, Commits, ActionOf
  <2>8. ASSUME Cancel(p, u, e) PROVE Commits(p, u, e, "CANCELLED")
    BY <2>8 DEF Cancel, Commits, ActionOf
  <2>9. ASSUME Pay(p, u, e) PROVE Commits(p, u, e, "PAID")
    BY <2>9 DEF Pay, Commits, ActionOf
  <2>10. {"SUBMITTED", "APPROVED", "REJECTED", "CANCELLED", "PAID"} = Subjects
    BY DEF Subjects
  <2> HIDE DEF Quiet
  <2> QED BY <1>1, <2>1, <2>2, <2>3, <2>4, <2>5, <2>6, <2>7, <2>8, <2>9, <2>10
         DEF Start, EditRequest, WorkflowRequest
<1>2. ASSUME NEW p \in Slots, Continue(p), ~NotifyEmployee(p)
      PROVE  Quiet \/ Commit(p)
  <2>1. CASE UpdateWrite(p) \/ DeleteWrite(p) \/ AttachInsert(p) \/ Abort(p)
    BY <2>1, NotNotifying DEF UpdateWrite, DeleteWrite, AttachInsert, Abort, Idle
  <2>2. CASE SubmitPolicyCheck(p)
    <3>1. [req[p] EXCEPT !.phase = "duplicate"].phase = "duplicate"
      BY <2>2, Serving DEF SubmitPolicyCheck, Active
    <3> QED BY <2>2, <3>1, NotNotifying DEF SubmitPolicyCheck
  <2>3. CASE SubmitDuplicateCheck(p)
    <3>1. [req[p] EXCEPT !.phase = "submit"].phase = "submit"
      BY <2>3, Serving DEF SubmitDuplicateCheck, Active
    <3> QED BY <2>3, <3>1, NotNotifying DEF SubmitDuplicateCheck
  <2>4. CASE AttachPutObject(p)
    <3>1. [req[p] EXCEPT !.phase = "attach"].phase = "attach"
      BY <2>4, Serving DEF AttachPutObject, Active
    <3> QED BY <2>4, <3>1, NotNotifying DEF AttachPutObject
  <2>5. ASSUME SubmitCommit(p) PROVE Commit(p)
    <3>1. req[p].user \in Users /\ req[p].claim \in Claims
      BY <2>5, Serving DEF SubmitCommit, Active
    <3>2. Commits(p, req[p].user, req[p].claim, "SUBMITTED")
      BY <2>5 DEF SubmitCommit, Commits, ActionOf
    <3> QED BY <3>1, <3>2 DEF Subjects
  <2> HIDE DEF Quiet
  <2> QED BY <1>2, <2>1, <2>2, <2>3, <2>4, <2>5 DEF Continue
<1>3. ASSUME \/ \E u \in Users : \/ ExpireTokens(u)
                                 \/ \E r \in Roles : ChangeRole(u, r)
             \/ \E k \in MayDeactivate : SwitchCategory(k)
             \/ UNCHANGED vars
      PROVE  Quiet
  BY <1>3 DEF ExpireTokens, ChangeRole, SwitchCategory, vars, Notifying
<1> QED BY <1>1, <1>2, <1>3 DEF Next

(* Different subjects stand for different actions.                         *)
LEMMA ActionTells ==
    ASSUME NEW s \in Subjects, NEW k \in Subjects
    PROVE  ActionOf[s] \in Actions /\ (ActionOf[s] = ActionOf[k] <=> s = k)
BY DEF Subjects, Actions, ActionOf

(* A mail takes the place of the request that sends it; a commit makes     *)
(* room for one before it adds such a request.                             *)
LEMMA MailNext ==
    TypeOK /\ MailOnlyAfterCommit /\ [Next]_vars => MailOnlyAfterCommit'
<1> SUFFICES ASSUME TypeOK, MailOnlyAfterCommit, [Next]_vars,
                    NEW c \in Claims, NEW s \in Subjects
             PROVE  mails'[c][s] + Cardinality(Notifying(c, s)')
                      <= Cardinality(RowsAbout(audit'[c], ActionOf[s]))
  BY DEF MailOnlyAfterCommit, Audited, RowsAbout
<1> DEFINE A == Notifying(c, s)
           B == Notifying(c, s)'
           K == Cardinality(RowsAbout(audit[c], ActionOf[s]))
<1>1. /\ A \in SUBSET Slots /\ B \in SUBSET Slots
      /\ mails[c][s] + Cardinality(A) <= K
      /\ mails[c][s] \in Nat
  <2>1. mails[c][s] + Cardinality(A) <= Audited(c, ActionOf[s])
    BY DEF MailOnlyAfterCommit
  <2> QED BY <2>1 DEF Notifying, Audited, RowsAbout, TypeOK
<1>2. K \in Nat
  <2>1. audit[c] \in Seq(AuditRow)
    BY DEF TypeOK
  <2>2. IsFiniteSet(RowsAbout(audit[c], ActionOf[s]))
    <3>1. DOMAIN audit[c] = 1..Len(audit[c]) /\ Len(audit[c]) \in Nat
      BY <2>1, LenProperties
    <3>2. IsFiniteSet(1..Len(audit[c]))
      BY <3>1, FS_Interval
    <3> QED BY <3>1, <3>2, FS_Subset DEF RowsAbout
  <2> QED BY <2>2, FS_CardinalityType
<1>3. CASE audit' = audit /\ mails' = mails /\ B \subseteq A
  <2> HIDE DEF A, B, K
  <2>1. /\ Cardinality(A) \in Nat /\ Cardinality(B) \in Nat
        /\ Cardinality(B) <= Cardinality(A)
    BY <1>1, <1>3, FewerSlots
  <2>2. mails'[c][s] + Cardinality(B) <= K
    BY <1>1, <1>2, <1>3, <2>1
  <2> QED BY <1>3, <2>2 DEF B, K
<1>4. ASSUME NEW p \in Slots, NotifyEmployee(p)
      PROVE  mails'[c][s] + Cardinality(B) <= Cardinality(RowsAbout(audit'[c], ActionOf[s]))
  <2> DEFINE e == req[p].claim
             k == req[p].subject
  <2>1. e \in Claims /\ req[p].phase = "notify" /\ audit' = audit
    BY <1>4, Serving DEF NotifyEmployee, Active, tables
  <2>2. A \ {p} = B \ {p} /\ p \notin B /\ (p \in A <=> e = c /\ k = s)
    BY <1>4, <2>1 DEF NotifyEmployee, Notifying, TypeOK, Idle
  <2>3. mails'[c][s] = IF e = c /\ k = s THEN mails[c][s] + 1 ELSE mails[c][s]
    BY <1>4, <2>1 DEF NotifyEmployee, TypeOK
  <2> HIDE DEF A, B, K, e, k
  <2>4. /\ Cardinality(A) \in Nat /\ Cardinality(B) \in Nat
        /\ p \in A /\ p \notin B => Cardinality(B) = Cardinality(A) - 1
        /\ (p \in A <=> p \in B) => Cardinality(B) = Cardinality(A)
    BY <1>1, <2>2, CountSlots
  <2>5. mails'[c][s] + Cardinality(B) <= K
    BY <1>1, <1>2, <2>2, <2>3, <2>4
  <2> QED BY <2>1, <2>5 DEF K, B
<1>5. ASSUME NEW p \in Slots, NEW u \in Users, NEW e \in Claims, NEW k \in Subjects,
             Commits(p, u, e, k)
      PROVE  mails'[c][s] + Cardinality(B) <= Cardinality(RowsAbout(audit'[c], ActionOf[s]))
  <2> DEFINE row == [actor |-> u, action |-> ActionOf[k]]
             L == Cardinality(RowsAbout(audit'[c], ActionOf[s]))
  <2>1. row \in AuditRow /\ row.action = ActionOf[k]
    BY ActionTells DEF AuditRow
  <2>2. audit'[c] = IF e = c THEN Append(audit[c], row) ELSE audit[c]
    BY <1>5 DEF Commits, Write, TypeOK
  <2>3. L = IF e = c /\ k = s THEN K + 1 ELSE K
    <3> HIDE DEF row
    <3>1. audit[c] \in Seq(AuditRow)
      BY DEF TypeOK
    <3>2. Cardinality(RowsAbout(Append(audit[c], row), ActionOf[s])) =
             IF k = s THEN K + 1 ELSE K
      BY <2>1, <3>1, AppendCounts, ActionTells
    <3> QED BY <2>2, <3>2
  <2>4. A \ {p} = B \ {p} /\ (p \in B <=> e = c /\ k = s)
    BY <1>5 DEF Commits, ThenNotify, Task, Notifying, TypeOK
  <2>5. mails'[c][s] = mails[c][s]
    BY <1>5 DEF Commits
  <2> HIDE DEF A, B, K, L
  <2>6. /\ Cardinality(A) \in Nat /\ Cardinality(B) \in Nat
        /\ p \notin A /\ p \in B => Cardinality(B) = Cardinality(A) + 1
        /\ p \in A /\ p \notin B => Cardinality(B) = Cardinality(A) - 1
        /\ (p \in A <=> p \in B) => Cardinality(B) = Cardinality(A)
    BY <1>1, <2>4, CountSlots
  <2>7. mails'[c][s] + Cardinality(B) <= L
    BY <1>1, <1>2, <2>3, <2>4, <2>5, <2>6
  <2> QED BY <2>7 DEF L, B
<1> QED BY <1>3, <1>4, <1>5, CommitOrMail

(* The owner gets no mail about a change that was not committed, and no    *)
(* second one about a change that was (notifyEmployee, workflow.go).       *)
THEOREM MailsFollowCommits == Spec => []MailOnlyAfterCommit
<1>1. Init => MailOnlyAfterCommit
  <2> SUFFICES ASSUME Init, NEW c \in Claims, NEW s \in Subjects
               PROVE  mails[c][s] + Cardinality(Notifying(c, s))
                        <= Audited(c, ActionOf[s])
    BY DEF MailOnlyAfterCommit
  <2>1. Notifying(c, s) = {}
    BY DEF Init, Idle, Notifying
  <2>2. {i \in DOMAIN audit[c] : audit[c][i].action = ActionOf[s]} = {}
    BY DEF Init
  <2>3. Audited(c, ActionOf[s]) = 0
    BY <2>2, FS_EmptySet DEF Audited
  <2>4. mails[c][s] = 0
    BY DEF Init
  <2> QED BY <2>1, <2>3, <2>4, FS_EmptySet
<1>2. TypeOK /\ MailOnlyAfterCommit /\ [Next]_vars => MailOnlyAfterCommit'
  BY MailNext
<1> QED BY <1>1, <1>2, TypeCorrect, PTL DEF Spec

-----------------------------------------------------------------------------
(* Logs and their rounds.                                                  *)

(* A non-empty set of numbers up to n has a greatest element.              *)
LEMMA GreatestElement ==
    ASSUME NEW n \in Nat, NEW I \in SUBSET (0..n), I # {}
    PROVE  \E m \in I : \A k \in I : k <= m
<1> DEFINE J == {n - k : k \in I}
<1>1. J \subseteq Nat /\ J # {}
  <2>1. ASSUME NEW k \in I PROVE n - k \in Nat
    <3>1. k \in 0..n
      OBVIOUS
    <3> QED BY <3>1
  <2>2. PICK k \in I : TRUE
    OBVIOUS
  <2> QED BY <2>1, <2>2, Zenon
<1>2. PICK j \in J : \A k \in J : j <= k
  BY <1>1, LeastElement
<1>3. PICK m \in I : j = n - m
  OBVIOUS
<1>4. ASSUME NEW k \in I PROVE k <= m
  <2>1. n - k \in J
    OBVIOUS
  <2>2. n - m <= n - k
    BY <1>2, <1>3, <2>1
  <2>3. n \in Int /\ m \in Int /\ k \in Int
    <3>1. m \in 0..n /\ k \in 0..n
      BY Zenon
    <3> QED BY <3>1
  <2> HIDE DEF J
  <2> QED BY <2>2, <2>3
<1> QED BY <1>4

(* The last submission is one, and none comes after it.                    *)
LEMMA LastSubmissionIs ==
    ASSUME NEW S, NEW log \in Seq(S)
    PROVE  /\ LastSubmission(log) \in 0..Len(log)
           /\ LastSubmission(log) = 0 =>
                \A i \in 1..Len(log) : log[i].action # "SUBMIT_CLAIM"
           /\ LastSubmission(log) # 0 =>
                /\ LastSubmission(log) \in 1..Len(log)
                /\ log[LastSubmission(log)].action = "SUBMIT_CLAIM"
                /\ \A i \in 1..Len(log) :
                     i > LastSubmission(log) => log[i].action # "SUBMIT_CLAIM"
<1> DEFINE I == {i \in 1..Len(log) : log[i].action = "SUBMIT_CLAIM"}
<1>1. LastSubmission(log) = IF I # {} THEN Max(I) ELSE 0
  BY DEF LastSubmission, SelectLastInSeq
<1>2. Len(log) \in Nat
  OBVIOUS
<1>3. CASE I = {}
  BY <1>1, <1>2, <1>3
<1>4. CASE I # {}
  <2>1. \E m \in I : \A k \in I : k <= m
    <3>1. I \in SUBSET (0..Len(log))
      OBVIOUS
    <3> HIDE DEF I
    <3> QED BY <1>2, <1>4, <3>1, GreatestElement
  <2>2. Max(I) \in I /\ \A k \in I : k <= Max(I)
    <3>1. \E m \in I : \A k \in I : m >= k
      <4>1. I \subseteq Int
        OBVIOUS
      <4> HIDE DEF I
      <4> QED BY <2>1, <4>1
    <3>2. Max(I) \in I /\ \A k \in I : Max(I) >= k
      BY <3>1 DEF Max
    <3>3. I \subseteq Int
      OBVIOUS
    <3> HIDE DEF I
    <3> QED BY <3>2, <3>3
  <2>3. LastSubmission(log) \in I /\ \A k \in I : k <= LastSubmission(log)
    BY <1>1, <1>4, <2>2
  <2>4. ASSUME NEW i \in 1..Len(log), i > LastSubmission(log)
        PROVE  log[i].action # "SUBMIT_CLAIM"
    <3>1. i \notin I
      BY <2>3, <2>4
    <3> QED BY <3>1
  <2> QED BY <1>2, <2>3, <2>4
<1> QED BY <1>3, <1>4

(* The last submission is where these two facts say it is.                 *)
LEMMA LastSubmissionAt ==
    ASSUME NEW S, NEW log \in Seq(S), NEW k \in 1..Len(log),
           log[k].action = "SUBMIT_CLAIM",
           \A i \in 1..Len(log) : i > k => log[i].action # "SUBMIT_CLAIM"
    PROVE  LastSubmission(log) = k
<1> DEFINE n == LastSubmission(log)
<1>1. /\ n = 0 => \A i \in 1..Len(log) : log[i].action # "SUBMIT_CLAIM"
      /\ n # 0 =>
           /\ n \in 1..Len(log)
           /\ log[n].action = "SUBMIT_CLAIM"
           /\ \A i \in 1..Len(log) : i > n => log[i].action # "SUBMIT_CLAIM"
  BY LastSubmissionIs
<1> HIDE DEF n
<1>2. n # 0
  BY <1>1
<1>3. ~(n > k) /\ ~(k > n)
  BY <1>1, <1>2
<1>4. n = k
  BY <1>1, <1>2, <1>3
<1> QED BY <1>4 DEF n

(* What the last round is.                                                 *)
LEMMA RoundIs ==
    ASSUME NEW log \in Seq(AuditRow)
    PROVE  /\ LastRound(log) \in Seq(AuditRow)
           /\ Len(LastRound(log)) = Len(log) - LastSubmission(log)
           /\ \A i \in 1..(Len(log) - LastSubmission(log)) :
                LastRound(log)[i] = log[LastSubmission(log) + i]
<1> DEFINE k == LastSubmission(log)
           n == Len(log)
<1>1. k \in 0..n /\ n \in Nat
  BY LastSubmissionIs
<1>2. \A i \in (k + 1)..n : log[i] \in AuditRow
  BY <1>1
<1> HIDE DEF k
<1>3. k + 1 \in Int /\ n \in Int
  BY <1>1
<1>4. /\ SubSeq(log, k + 1, n) \in Seq(AuditRow)
      /\ Len(SubSeq(log, k + 1, n)) = IF k + 1 <= n THEN n - (k + 1) + 1 ELSE 0
      /\ \A i \in 1..(n - (k + 1) + 1) : SubSeq(log, k + 1, n)[i] = log[k + 1 + i - 1]
  BY <1>2, <1>3, SubSeqProperties
<1>5. n - (k + 1) + 1 = n - k /\ \A i \in 1..(n - k) : k + 1 + i - 1 = k + i
  BY <1>1
<1>6. Len(SubSeq(log, k + 1, n)) = n - k
  BY <1>1, <1>4
<1> QED BY <1>4, <1>5, <1>6 DEF LastRound, k

(* A submission opens an empty round.                                      *)
LEMMA SubmissionOpens ==
    ASSUME NEW log \in Seq(AuditRow), NEW e \in AuditRow, e.action = "SUBMIT_CLAIM"
    PROVE  /\ LastSubmission(Append(log, e)) = Len(log) + 1
           /\ LastRound(Append(log, e)) = <<>>
<1> DEFINE l == Append(log, e)
           n == Len(log)
<1>1. l \in Seq(AuditRow) /\ Len(l) = n + 1 /\ l[n + 1] = e /\ n \in Nat
  OBVIOUS
<1> HIDE DEF l
<1>2. LastSubmission(l) = n + 1
  <2>1. n + 1 \in 1..Len(l) /\ \A i \in 1..Len(l) : ~(i > n + 1)
    BY <1>1
  <2> QED BY <1>1, <2>1, LastSubmissionAt
<1>3. LastRound(l) \in Seq(AuditRow) /\ Len(LastRound(l)) = 0
  BY <1>1, <1>2, RoundIs
<1> QED BY <1>2, <1>3, EmptySeq DEF l

(* Any other row goes to the end of the round that is open.                *)
LEMMA OthersAppend ==
    ASSUME NEW log \in Seq(AuditRow), NEW e \in AuditRow,
           e.action # "SUBMIT_CLAIM", LastSubmission(log) # 0
    PROVE  /\ LastSubmission(Append(log, e)) = LastSubmission(log)
           /\ LastRound(Append(log, e)) = Append(LastRound(log), e)
<1> DEFINE l == Append(log, e)
           n == Len(log)
           k == LastSubmission(log)
<1>1. /\ l \in Seq(AuditRow) /\ Len(l) = n + 1 /\ l[n + 1] = e /\ n \in Nat
      /\ \A i \in 1..n : l[i] = log[i]
  OBVIOUS
<1>2. /\ k \in 1..n /\ log[k].action = "SUBMIT_CLAIM"
      /\ \A i \in 1..n : i > k => log[i].action # "SUBMIT_CLAIM"
  BY LastSubmissionIs
<1>3. /\ LastRound(log) \in Seq(AuditRow) /\ Len(LastRound(log)) = n - k
      /\ \A i \in 1..(n - k) : LastRound(log)[i] = log[k + i]
  BY RoundIs
<1> HIDE DEF l, k, n
<1>4. LastSubmission(l) = k
  <2>1. k \in 1..Len(l) /\ l[k].action = "SUBMIT_CLAIM"
    BY <1>1, <1>2
  <2>2. \A i \in 1..Len(l) : i > k => l[i].action # "SUBMIT_CLAIM"
    <3> SUFFICES ASSUME NEW i \in 1..Len(l), i > k
                 PROVE  l[i].action # "SUBMIT_CLAIM"
      OBVIOUS
    <3>1. i \in 1..n \/ i = n + 1
      BY <1>1
    <3> QED BY <1>1, <1>2, <3>1
  <2> QED BY <1>1, <2>1, <2>2, LastSubmissionAt
<1>5. /\ LastRound(l) \in Seq(AuditRow) /\ Len(LastRound(l)) = Len(l) - k
      /\ \A i \in 1..(Len(l) - k) : LastRound(l)[i] = l[k + i]
  BY <1>1, <1>4, RoundIs, Zenon
<1> DEFINE r == LastRound(log)
           m == n - k
<1>6. m \in Nat /\ Len(l) - k = m + 1 /\ k + (m + 1) = n + 1
  BY <1>1, <1>2
<1>7. /\ Append(r, e) \in Seq(AuditRow) /\ Len(Append(r, e)) = m + 1
      /\ Append(r, e)[m + 1] = e /\ \A i \in 1..m : Append(r, e)[i] = r[i]
  BY <1>3
<1>8. \A i \in 1..(m + 1) : LastRound(l)[i] = Append(r, e)[i]
  <2> SUFFICES ASSUME NEW i \in 1..(m + 1) PROVE LastRound(l)[i] = Append(r, e)[i]
    OBVIOUS
  <2>1. CASE i = m + 1
    BY <1>1, <1>5, <1>6, <1>7, <2>1
  <2>2. CASE i # m + 1
    <3>1. i \in 1..m /\ k + i \in 1..n
      BY <1>1, <1>2, <1>6, <2>2
    <3> QED BY <1>1, <1>3, <1>5, <1>6, <1>7, <3>1
  <2> QED BY <2>1, <2>2
<1>9. LastRound(l) = Append(r, e)
  <2> HIDE DEF r, m
  <2> QED BY <1>5, <1>6, <1>7, <1>8, SeqEqual
<1> QED BY <1>4, <1>9 DEF l, k

-----------------------------------------------------------------------------
(* Owners.                                                                 *)

(* A claim in use stays in use and keeps its owner.                        *)
Owned(c) ==
    claim[c].status # "NONE" => /\ claim'[c].status # "NONE"
                                /\ claim'[c].owner = claim[c].owner

(* Every step keeps owners: the only one set is that of an unused row.     *)
LEMMA OwnersStay ==
    ASSUME TypeOK, [Next]_vars, NEW c \in Claims
    PROVE  Owned(c)
<1> USE DEF tables
<1>0. claim[c] \in Row
  BY DEF TypeOK
<1>1. ASSUME NEW p \in Slots, NEW u \in Users, NEW e \in Claims, Start(p, u, e)
      PROVE  Owned(c)
  <2>1. ASSUME NEW d \in Details, Create(p, u, e, d) PROVE Owned(c)
    BY <2>1 DEF Create, NewClaim, Unused, Owned, TypeOK
  <2>2. ASSUME NEW d \in Details, UpdateCheck(p, u, e, d) PROVE Owned(c)
    BY <2>2 DEF UpdateCheck, Owned
  <2>3. CASE DeleteCheck(p, u, e) \/ AttachCheck(p, u, e) \/ SubmitRead(p, u, e)
    BY <2>3 DEF DeleteCheck, AttachCheck, SubmitRead, Owned
  <2>4. ASSUME NEW r \in Roles, Approve(p, u, r, e) PROVE Owned(c)
    <3> DEFINE i == NextPending(approvals[e])
               n == Len(approvals[e])
    <3>1. CASE c = e
      <4>1. claim'[c] = AfterApproval(claim[c], i, n)
        BY <2>4, <3>1 DEF Approve, TypeOK
      <4> HIDE DEF i, n
      <4> QED BY <1>0, <4>1 DEF AfterApproval, Owned, Row
    <3>2. CASE c # e
      BY <2>4, <3>2 DEF Approve, Owned, TypeOK
    <3> QED BY <3>1, <3>2
  <2>5. ASSUME NEW r \in Roles, Reject(p, u, r, e) PROVE Owned(c)
    BY <1>0, <2>5 DEF Reject, Owned, TypeOK, Row
  <2>6. CASE Cancel(p, u, e)
    BY <1>0, <2>6 DEF Cancel, Owned, TypeOK, Row
  <2>7. CASE Pay(p, u, e)
    BY <1>0, <2>7 DEF Pay, Owned, TypeOK, Row
  <2> QED BY <1>1, <2>1, <2>2, <2>3, <2>4, <2>5, <2>6, <2>7
          DEF Start, EditRequest, WorkflowRequest
<1>2. ASSUME NEW p \in Slots, Continue(p)
      PROVE  Owned(c)
  <2>1. CASE UpdateWrite(p)
    BY <1>0, <2>1 DEF UpdateWrite, Owned, TypeOK, Row
  <2>2. CASE DeleteWrite(p)
    BY <1>0, <2>2 DEF DeleteWrite, Owned, TypeOK, Row
  <2>3. CASE SubmitCommit(p)
    BY <1>0, <2>3 DEF SubmitCommit, Owned, TypeOK, Row
  <2>4. CASE \/ AttachPutObject(p) \/ AttachInsert(p) \/ SubmitPolicyCheck(p)
             \/ SubmitDuplicateCheck(p) \/ NotifyEmployee(p) \/ Abort(p)
    BY <2>4 DEF AttachPutObject, AttachInsert, SubmitPolicyCheck,
                SubmitDuplicateCheck, NotifyEmployee, Abort, Owned
  <2> QED BY <1>2, <2>1, <2>2, <2>3, <2>4 DEF Continue
<1>3. ASSUME \/ \E u \in Users : \/ ExpireTokens(u)
                                 \/ \E r \in Roles : ChangeRole(u, r)
             \/ \E k \in MayDeactivate : SwitchCategory(k)
             \/ UNCHANGED vars
      PROVE  Owned(c)
  BY <1>3 DEF ExpireTokens, ChangeRole, SwitchCategory, vars, Owned
<1> QED BY <1>1, <1>2, <1>3 DEF Next

(* The phases between the checks of a request and its commit.              *)
Underway == Phases \ {"idle", "notify"}

(* Replacing one request by one whose user owns its claim, if it is        *)
(* underway.                                                               *)
LEMMA OwnsRequest ==
    ASSUME TypeOK, RequesterOwns, \A c \in Claims : Owned(c),
           NEW p \in Slots, NEW t, req' = [req EXCEPT ![p] = t],
           t.phase \in Underway => /\ t.claim \in Claims
                                   /\ claim[t.claim].status # "NONE"
                                   /\ claim[t.claim].owner = t.user
    PROVE  RequesterOwns'
<1> SUFFICES ASSUME NEW q \in Slots, req'[q].phase \in Underway
             PROVE  /\ claim'[req'[q].claim].status # "NONE"
                    /\ claim'[req'[q].claim].owner = req'[q].user
  BY DEF RequesterOwns, Underway, Phases
<1>1. CASE q = p
  BY <1>1 DEF TypeOK, Owned
<1>2. CASE q # p
  <2>1. req'[q] = req[q]
    BY <1>2 DEF TypeOK
  <2>2. req[q].claim \in Claims
    BY <2>1, Serving DEF Underway, Active
  <2> QED BY <2>1, <2>2 DEF RequesterOwns, Underway, Owned
<1> QED BY <1>1, <1>2

(* Requests that go on keep their user and their claim.                    *)
LEMMA NextPhaseOwns ==
    ASSUME TypeOK, RequesterOwns, \A c \in Claims : Owned(c),
           NEW p \in Slots, req[p].phase \in Underway, NEW phase \in Underway,
           req' = [req EXCEPT ![p].phase = phase]
    PROVE  RequesterOwns'
<1> DEFINE t == [req[p] EXCEPT !.phase = phase]
<1>1. req[p] \in Active /\ req[p].claim \in Claims
  BY Serving DEF Underway, Active
<1>2. t.claim = req[p].claim /\ t.user = req[p].user
  BY <1>1 DEF Active
<1>3. claim[req[p].claim].status # "NONE" /\ claim[req[p].claim].owner = req[p].user
  BY DEF RequesterOwns, Underway
<1>4. req' = [req EXCEPT ![p] = t]
  OBVIOUS
<1> HIDE DEF t
<1> QED BY <1>1, <1>2, <1>3, <1>4, OwnsRequest

(* A request passes its checks for the owner of a claim in use only.       *)
LEMMA RequesterNext == TypeOK /\ RequesterOwns /\ [Next]_vars => RequesterOwns'
<1> SUFFICES ASSUME TypeOK, RequesterOwns, [Next]_vars PROVE RequesterOwns'
  OBVIOUS
<1> USE DEF tables
<1>0. \A c \in Claims : Owned(c)
  BY OwnersStay
<1>1. CASE req' = req
  <2> SUFFICES ASSUME NEW q \in Slots, req[q].phase \in Underway
               PROVE  /\ claim'[req[q].claim].status # "NONE"
                      /\ claim'[req[q].claim].owner = req[q].user
    BY <1>1 DEF RequesterOwns, Underway, Phases
  <2>1. req[q].claim \in Claims
    BY Serving DEF Underway, Active
  <2> QED BY <1>0, <2>1 DEF RequesterOwns, Underway, Owned
<1>2. ASSUME NEW p \in Slots, NEW u \in Users, NEW c \in Claims, Start(p, u, c)
      PROVE  RequesterOwns'
  <2>1. ASSUME NEW d \in Details, Create(p, u, c, d) PROVE RequesterOwns'
    BY <1>1, <2>1 DEF Create
  <2>2. ASSUME NEW d \in Details, UpdateCheck(p, u, c, d) PROVE RequesterOwns'
    BY <1>0, <2>2, OwnsRequest DEF UpdateCheck, Visible, Task
  <2>3. CASE DeleteCheck(p, u, c)
    BY <1>0, <2>3, OwnsRequest DEF DeleteCheck, Visible, Task
  <2>4. CASE AttachCheck(p, u, c)
    BY <1>0, <2>4, OwnsRequest DEF AttachCheck, Visible, Task
  <2>5. CASE SubmitRead(p, u, c)
    BY <1>0, <2>5, OwnsRequest DEF SubmitRead, Visible, Task
  <2>6. ASSUME NEW r \in Roles, Approve(p, u, r, c) PROVE RequesterOwns'
    BY <1>0, <2>6, OwnsRequest DEF Approve, ThenNotify, Task, Underway
  <2>7. ASSUME NEW r \in Roles, Reject(p, u, r, c) PROVE RequesterOwns'
    BY <1>0, <2>7, OwnsRequest DEF Reject, ThenNotify, Task, Underway
  <2>8. CASE Cancel(p, u, c)
    BY <1>0, <2>8, OwnsRequest DEF Cancel, ThenNotify, Task, Underway
  <2>9. CASE Pay(p, u, c)
    BY <1>0, <2>9, OwnsRequest DEF Pay, ThenNotify, Task, Underway
  <2> QED BY <1>2, <2>1, <2>2, <2>3, <2>4, <2>5, <2>6, <2>7, <2>8, <2>9
          DEF Start, EditRequest, WorkflowRequest
<1>3. ASSUME NEW p \in Slots, Continue(p)
      PROVE  RequesterOwns'
  <2>1. CASE UpdateWrite(p) \/ DeleteWrite(p) \/ AttachInsert(p)
              \/ NotifyEmployee(p) \/ Abort(p)
    BY <1>0, <2>1, OwnsRequest
    DEF UpdateWrite, DeleteWrite, AttachInsert, NotifyEmployee, Abort, Idle, Underway
  <2>2. CASE AttachPutObject(p)
    BY <1>0, <2>2, NextPhaseOwns DEF AttachPutObject, Underway, Phases
  <2>3. CASE SubmitPolicyCheck(p)
    BY <1>0, <2>3, NextPhaseOwns DEF SubmitPolicyCheck, Underway, Phases
  <2>4. CASE SubmitDuplicateCheck(p)
    BY <1>0, <2>4, NextPhaseOwns DEF SubmitDuplicateCheck, Underway, Phases
  <2>5. CASE SubmitCommit(p)
    BY <1>0, <2>5, OwnsRequest DEF SubmitCommit, ThenNotify, Task, Underway
  <2> QED BY <1>3, <2>1, <2>2, <2>3, <2>4, <2>5 DEF Continue
<1>4. ASSUME \/ \E u \in Users : \/ ExpireTokens(u)
                                 \/ \E r \in Roles : ChangeRole(u, r)
             \/ \E k \in MayDeactivate : SwitchCategory(k)
             \/ UNCHANGED vars
      PROVE  RequesterOwns'
  BY <1>1, <1>4 DEF ExpireTokens, ChangeRole, SwitchCategory, vars
<1> QED BY <1>2, <1>3, <1>4 DEF Next

-----------------------------------------------------------------------------
(* The audit trail.                                                        *)

(* What makes AuditExplainsClaim inductive.                                *)
HistoryInv == WorkflowInv /\ RequesterOwns /\ AuditExplainsClaim

(* A claim whose status, owner, steps and log stay keeps its trail.        *)
LEMMA TrailFrame ==
    ASSUME AuditExplainsClaim, NEW c \in Claims,
           audit'[c] = audit[c], approvals'[c] = approvals[c],
           claim'[c].status = claim[c].status, claim'[c].owner = claim[c].owner
    PROVE  TrailOf(claim'[c], approvals'[c], audit'[c])
<1>1. TrailOf(claim[c], approvals[c], audit[c])
  BY DEF AuditExplainsClaim
<1> QED BY <1>1 DEF TrailOf, RoundOf

(* A step that writes the row, the steps and the log of one claim only has *)
(* to be looked at there.                                                  *)
LEMMA OneTrail ==
    ASSUME HistoryInv, NEW c \in Claims, NEW row, NEW steps, NEW log,
           claim' = [claim EXCEPT ![c] = row],
           approvals' = [approvals EXCEPT ![c] = steps],
           audit' = [audit EXCEPT ![c] = log],
           TrailOf(row, steps, log)
    PROVE  AuditExplainsClaim'
<1> SUFFICES ASSUME NEW e \in Claims
             PROVE  TrailOf(claim'[e], approvals'[e], audit'[e])
  BY DEF AuditExplainsClaim
<1>1. CASE e = c
  BY <1>1 DEF HistoryInv, WorkflowInv, TypeOK
<1>2. CASE e # c
  <2>1. claim'[e] = claim[e] /\ approvals'[e] = approvals[e] /\ audit'[e] = audit[e]
    BY <1>2 DEF HistoryInv, WorkflowInv, TypeOK
  <2> QED BY <2>1, TrailFrame DEF HistoryInv
<1> QED BY <1>1, <1>2

(* A row of the owner's, or one that does not open a round, keeps the log  *)
(* a series of rounds.                                                     *)
LEMMA AppendRounds ==
    ASSUME NEW owner, NEW log \in Seq(AuditRow), NEW e \in AuditRow,
           Rounds(owner, log),
           e.action = "SUBMIT_CLAIM" =>
             /\ e.actor = owner
             /\ Len(log) # 0 => log[Len(log)].action = "REJECT_CLAIM"
    PROVE  Rounds(owner, Append(log, e))
<1> DEFINE n == Len(log)
           l == Append(log, e)
<1>1. /\ DOMAIN l = 1..(n + 1) /\ l[n + 1] = e /\ n \in Nat /\ DOMAIN log = 1..n
      /\ \A i \in 1..n : l[i] = log[i]
  OBVIOUS
<1> HIDE DEF n, l
<1>2. SUFFICES ASSUME NEW i \in 1..(n + 1), l[i].action = "SUBMIT_CLAIM"
               PROVE  /\ l[i].actor = owner
                      /\ i > 1 => l[i - 1].action = "REJECT_CLAIM"
  BY <1>1 DEF Rounds, l
<1>3. CASE i = n + 1
  <2>1. e.actor = owner
    BY <1>1, <1>2, <1>3
  <2>2. ASSUME i > 1 PROVE l[i - 1].action = "REJECT_CLAIM"
    <3>1. i - 1 = n /\ n # 0 /\ n \in 1..n
      BY <1>1, <1>3, <2>2
    <3> QED BY <1>1, <1>2, <1>3, <3>1 DEF n
  <2> QED BY <1>1, <1>3, <2>1, <2>2
<1>4. CASE i # n + 1
  <2>1. i \in 1..n /\ (i > 1 => i - 1 \in 1..n)
    BY <1>1, <1>4
  <2> QED BY <1>1, <1>2, <2>1 DEF Rounds
<1> QED BY <1>3, <1>4

(* What a claim's trail says of a claim that was submitted.                *)
LEMMA OpenRound ==
    ASSUME HistoryInv, NEW c \in Claims, claim[c].status \notin {"NONE", "DRAFT"}
    PROVE  /\ audit[c] \in Seq(AuditRow) /\ LastSubmission(audit[c]) # 0
           /\ LastRound(audit[c]) \in Seq(AuditRow)
           /\ RoundOf(claim[c], approvals[c], LastRound(audit[c]))
           /\ Rounds(claim[c].owner, audit[c])
<1>1. audit[c] \in Seq(AuditRow)
  BY DEF HistoryInv, WorkflowInv, TypeOK
<1> QED BY <1>1, RoundIs DEF HistoryInv, AuditExplainsClaim, TrailOf

(* A submission opens a round, after a rejection unless it is the first.   *)
LEMMA SubmitTrail ==
    ASSUME HistoryInv, NEW p \in Slots, SubmitCommit(p)
    PROVE  AuditExplainsClaim'
<1>1. req[p].claim \in Claims /\ req[p].user \in Users
      /\ req[p].chain \in Seq(ApproverRoles)
  BY Serving DEF SubmitCommit, Active, HistoryInv, WorkflowInv
<1>2. PICK c \in Claims, u \in Users : c = req[p].claim /\ u = req[p].user
  BY <1>1
<1> DEFINE t == Snapshot(req[p].chain)
           row == [claim[c] EXCEPT !.status = "SUBMITTED", !.step = 1]
           e == [actor |-> u, action |-> "SUBMIT_CLAIM"]
           log == audit[c]
<1>3. /\ claim' = [claim EXCEPT ![c] = row]
      /\ approvals' = [approvals EXCEPT ![c] = t]
      /\ audit' = [audit EXCEPT ![c] = Append(log, e)]
      /\ claim[c].status \in {"DRAFT", "REJECTED"}
  BY <1>2 DEF SubmitCommit, Write, CanTransition
<1>4. claim[c].owner = u
  BY <1>2 DEF SubmitCommit, HistoryInv, RequesterOwns, Phases
<1>5. /\ log \in Seq(AuditRow) /\ Rounds(claim[c].owner, log)
      /\ claim[c] \in Row /\ e \in AuditRow /\ e.action = "SUBMIT_CLAIM"
  BY DEF HistoryInv, WorkflowInv, TypeOK, AuditExplainsClaim, TrailOf, AuditRow,
         Actions
<1>6. row.owner = u /\ row.status = "SUBMITTED"
  BY <1>4, <1>5 DEF Row
<1>7. \A i \in DOMAIN t : t[i].status = "pending"
  BY DEF Snapshot, Pending
<1>9. Len(log) # 0 => log[Len(log)].action = "REJECT_CLAIM"
  <2>1. CASE claim[c].status = "DRAFT"
    <3>1. log = <<>>
      BY <2>1 DEF HistoryInv, AuditExplainsClaim, TrailOf
    <3> QED BY <3>1
  <2>2. CASE claim[c].status = "REJECTED"
    <3> DEFINE k == LastSubmission(log)
               r == LastRound(log)
               i == claim[c].step
    <3>1. RoundOf(claim[c], approvals[c], r) /\ r \in Seq(AuditRow)
      BY <2>2, OpenRound
    <3>2. /\ i \in DOMAIN approvals[c] /\ approvals[c][i].status = "rejected"
          /\ \A j \in DOMAIN approvals[c] : j > i => approvals[c][j].status = "pending"
      BY <2>2 DEF HistoryInv, WorkflowInv, StatusMatchesSteps, StoryOf, StandsAt
    <3>3. approvals[c] \in Seq(Steps) /\ DOMAIN approvals[c] = 1..Len(approvals[c])
      BY DEF HistoryInv, WorkflowInv, TypeOK
    <3>4. /\ i \in DOMAIN r /\ r[i].action = "REJECT_CLAIM"
          /\ \A j \in DOMAIN r : j \in DOMAIN approvals[c] /\ ~(j > i)
      <4>1. /\ DOMAIN r = Acted(approvals[c])
            /\ \A j \in Acted(approvals[c]) : r[j] = Decision(approvals[c][j])
        BY <2>2, <3>1 DEF RoundOf
      <4>2. i \in Acted(approvals[c])
        BY <3>2 DEF Acted
      <4> HIDE DEF r, i
      <4>3. r[i].action = "REJECT_CLAIM"
        BY <3>2, <4>1, <4>2 DEF Decision
      <4>4. \A j \in Acted(approvals[c]) : j \in DOMAIN approvals[c] /\ ~(j > i)
        BY <3>2 DEF Acted
      <4> QED BY <4>1, <4>2, <4>3, <4>4
    <3>5. Len(r) = i
      <4>1. DOMAIN r = 1..Len(r) /\ Len(r) \in Nat
        BY <3>1, LenProperties
      <4> HIDE DEF r, i
      <4>2. i \in 1..Len(r)
        BY <3>4, <4>1
      <4>3. Len(r) \in 1..Len(r)
        BY <4>1, <4>2
      <4> QED BY <3>4, <4>1, <4>2, <4>3
    <3>6. /\ Len(r) = Len(log) - k /\ k \in 0..Len(log)
          /\ \A j \in 1..(Len(log) - k) : r[j] = log[k + j]
      BY <1>5, RoundIs, LastSubmissionIs
    <3>7. i \in Nat /\ i # 0
      BY <3>2, <3>3
    <3> HIDE DEF r, k, i, log
    <3>8. i \in 1..(Len(log) - k) /\ k + i = Len(log)
      <4>1. Len(log) \in Nat
        BY <1>5
      <4> QED BY <3>5, <3>6, <3>7, <4>1
    <3> QED BY <3>4, <3>6, <3>8
  <2> QED BY <1>3, <2>1, <2>2
<1> HIDE DEF t, row, e, log
<1>10. Rounds(row.owner, Append(log, e))
  <2>1. e.actor = u
    BY DEF e
  <2> QED BY <1>4, <1>5, <1>6, <1>9, <2>1, AppendRounds
<1>11. /\ LastSubmission(Append(log, e)) # 0
       /\ LastRound(Append(log, e)) = <<>>
  <2>1. Len(log) + 1 # 0
    BY <1>5
  <2> QED BY <1>5, <2>1, SubmissionOpens
<1>12. RoundOf(row, t, <<>>)
  BY <1>6, <1>7 DEF RoundOf, Acted
<1>13. TrailOf(row, t, Append(log, e))
  BY <1>6, <1>10, <1>11, <1>12 DEF TrailOf
<1> QED BY <1>3, <1>13, OneTrail

(* A decision adds its row to the round.                                   *)
LEMMA DecisionTrail ==
    ASSUME HistoryInv, NEW u \in Users, NEW r, NEW c \in Claims, MayDecide(u, r, c),
           NEW status \in {"approved", "rejected"}, NEW action, NEW row,
           action = IF status = "approved" THEN "APPROVE_CLAIM" ELSE "REJECT_CLAIM",
           approvals' = [approvals EXCEPT ![c] =
                           Decided(@, NextPending(approvals[c]), status, u)],
           claim' = [claim EXCEPT ![c] = row],
           row.owner = claim[c].owner,
           row.status \in {"SUBMITTED", "APPROVED", "REJECTED"},
           Write(u, action, c)
    PROVE  AuditExplainsClaim'
<1> DEFINE s == approvals[c]
           i == claim[c].step
           t == Decided(s, i, status, u)
           e == [actor |-> u, action |-> action]
           log == audit[c]
           d == LastRound(log)
<1>1. claim[c].status = "SUBMITTED"
  BY DEF MayDecide
<1>2. /\ s \in Seq(Steps) /\ NextPending(s) = i /\ i \in 1..Len(s)
      /\ StandsAt(c, i, "pending")
  BY <1>1, PendingIsCurrent DEF HistoryInv
<1>3. /\ log \in Seq(AuditRow) /\ LastSubmission(log) # 0 /\ d \in Seq(AuditRow)
      /\ RoundOf(claim[c], approvals[c], d) /\ Rounds(claim[c].owner, log)
  BY <1>1, OpenRound
<1>4. /\ approvals' = [approvals EXCEPT ![c] = t]
      /\ audit' = [audit EXCEPT ![c] = Append(log, e)]
  BY <1>2 DEF Write
<1>6. e \in AuditRow /\ e.action # "SUBMIT_CLAIM" /\ e = Decision(t[i])
  <2>1. t[i].status = status /\ t[i].approver = u
    BY <1>2, DecidedSteps
  <2> HIDE DEF t
  <2> QED BY <2>1 DEF AuditRow, Actions, Decision
<1>7. /\ DOMAIN t = 1..Len(s) /\ t[i].status = status
      /\ \A j \in 1..Len(s) : j # i => t[j] = s[j]
  BY <1>2, DecidedSteps
<1>8. DOMAIN d = 1..(i - 1) /\ Len(d) = i - 1
      /\ \A j \in 1..(i - 1) : d[j] = Decision(s[j])
  <2>1. DOMAIN d = Acted(approvals[c]) /\ \A j \in Acted(approvals[c]) : d[j] = Decision(s[j])
    BY <1>1, <1>3 DEF RoundOf
  <2>2. DOMAIN s = 1..Len(s) /\ Len(s) \in Nat
    BY <1>2, LenProperties
  <2>3. Acted(s) = 1..(i - 1)
    <3>1. ASSUME NEW j \in 1..Len(s) PROVE s[j].status # "pending" <=> j < i
      BY <1>2, <2>2, <3>1 DEF StandsAt
    <3> HIDE DEF i, s
    <3>2. 1..(i - 1) = {j \in 1..Len(s) : j < i}
      BY <1>2, <2>2
    <3> QED BY <2>2, <3>1, <3>2 DEF Acted, s
  <2>4. Len(d) = i - 1
    <3>1. DOMAIN d = 1..Len(d) /\ Len(d) \in Nat
      BY <1>3, LenProperties
    <3>2. 1..Len(d) = 1..(i - 1)
      BY <2>1, <2>3, <3>1
    <3>3. i - 1 \in Nat
      BY <1>2
    <3> HIDE DEF d, i
    <3> QED BY <3>1, <3>2, <3>3
  <2> QED BY <2>1, <2>3, <2>4
<1> HIDE DEF s, t, e, log, d, i
<1>9. /\ LastSubmission(Append(log, e)) # 0
      /\ LastRound(Append(log, e)) = Append(d, e)
  BY <1>3, <1>6, OthersAppend DEF d
<1>10. DOMAIN Append(d, e) = 1..i /\ Append(d, e)[i] = e
       /\ \A j \in 1..(i - 1) : Append(d, e)[j] = Decision(s[j])
  <2>1. i - 1 + 1 = i
    BY <1>2
  <2>2. DOMAIN Append(d, e) = 1..(Len(d) + 1) /\ Append(d, e)[Len(d) + 1] = e
        /\ \A j \in 1..Len(d) : Append(d, e)[j] = d[j]
    BY <1>3
  <2> QED BY <1>8, <2>1, <2>2
<1>11. Acted(t) = 1..i
  <2>1. ASSUME NEW j \in 1..Len(s) PROVE t[j].status # "pending" <=> j <= i
    <3>1. CASE j = i
      BY <1>2, <1>7, <3>1
    <3>2. CASE j # i
      BY <1>2, <1>7, <2>1, <3>2 DEF StandsAt, s
    <3> QED BY <3>1, <3>2
  <2>2. 1..i = {j \in 1..Len(s) : j <= i}
    BY <1>2
  <2> QED BY <1>7, <2>1, <2>2 DEF Acted
<1>12. RoundOf(row, t, Append(d, e))
  <2>1. ASSUME NEW j \in 1..i PROVE Append(d, e)[j] = Decision(t[j])
    <3>1. CASE j = i
      BY <1>6, <1>10, <3>1
    <3>2. CASE j # i
      <4>1. j \in 1..(i - 1) /\ j \in 1..Len(s)
        BY <1>2, <3>2
      <4> QED BY <1>7, <1>10, <3>2, <4>1
    <3> QED BY <3>1, <3>2
  <2> QED BY <1>10, <1>11, <2>1 DEF RoundOf
<1>13. Rounds(row.owner, Append(log, e))
  BY <1>3, <1>6, AppendRounds
<1>14. TrailOf(row, t, Append(log, e))
  BY <1>9, <1>12, <1>13 DEF TrailOf
<1> QED BY <1>4, <1>14, OneTrail

(* Cancelling ends a round nobody decided in.                              *)
LEMMA CancelTrail ==
    ASSUME HistoryInv, NEW p \in Slots, NEW u \in Users, NEW c \in Claims,
           Cancel(p, u, c)
    PROVE  AuditExplainsClaim'
<1> DEFINE row == [claim[c] EXCEPT !.status = "CANCELLED"]
           e == [actor |-> u, action |-> "CANCEL_CLAIM"]
           log == audit[c]
           d == LastRound(log)
<1>1. /\ claim' = [claim EXCEPT ![c] = row] /\ approvals' = approvals
      /\ audit' = [audit EXCEPT ![c] = Append(log, e)]
      /\ claim[c].status = "SUBMITTED" /\ claim[c].owner = u /\ NoStepActed(c)
  BY DEF Cancel, CanTransition, Write
<1>2. claim[c] \in Row /\ approvals' = [approvals EXCEPT ![c] = approvals[c]]
  BY <1>1 DEF HistoryInv, WorkflowInv, TypeOK
<1>3. row.owner = u /\ row.status = "CANCELLED"
  BY <1>1, <1>2 DEF Row
<1>5. /\ log \in Seq(AuditRow) /\ LastSubmission(log) # 0 /\ d \in Seq(AuditRow)
      /\ RoundOf(claim[c], approvals[c], d) /\ Rounds(claim[c].owner, log)
  BY <1>1, OpenRound
<1>6. e \in AuditRow /\ e.action # "SUBMIT_CLAIM"
  BY DEF AuditRow, Actions
<1>7. Acted(approvals[c]) = {} /\ d = <<>>
  <2>1. Acted(approvals[c]) = {}
    BY <1>1 DEF NoStepActed, Acted
  <2>2. DOMAIN d = {}
    BY <1>1, <1>5, <2>1 DEF RoundOf
  <2>3. Len(d) = 0
    <3>1. DOMAIN d = 1..Len(d) /\ Len(d) \in Nat
      BY <1>5, LenProperties
    <3> HIDE DEF d
    <3> QED BY <2>2, <3>1
  <2> QED BY <1>5, <2>1, <2>3, EmptySeq
<1>8. /\ LastSubmission(Append(log, e)) # 0
      /\ LastRound(Append(log, e)) = Append(d, e)
  BY <1>5, <1>6, OthersAppend
<1>9. Append(d, e) = <<[actor |-> u, action |-> "CANCEL_CLAIM"]>>
  BY <1>7
<1> HIDE DEF row, e, log, d
<1>10. RoundOf(row, approvals[c], <<[actor |-> u, action |-> "CANCEL_CLAIM"]>>)
  BY <1>3, <1>7 DEF RoundOf
<1>11. Rounds(row.owner, Append(log, e))
  BY <1>1, <1>3, <1>5, <1>6, AppendRounds
<1>12. TrailOf(row, approvals[c], Append(log, e))
  BY <1>3, <1>8, <1>9, <1>10, <1>11 DEF TrailOf
<1> QED BY <1>1, <1>2, <1>12, OneTrail

(* The payment is the last row of a round that approved every step.        *)
LEMMA PayTrail ==
    ASSUME HistoryInv, NEW p \in Slots, NEW u \in Users, NEW c \in Claims,
           Pay(p, u, c)
    PROVE  AuditExplainsClaim'
<1> DEFINE row == [claim[c] EXCEPT !.status = "PAID"]
           e == [actor |-> u, action |-> "PAY_CLAIM"]
           log == audit[c]
           d == LastRound(log)
           n == Len(approvals[c])
<1>1. /\ claim' = [claim EXCEPT ![c] = row] /\ approvals' = approvals
      /\ audit' = [audit EXCEPT ![c] = Append(log, e)]
      /\ claim[c].status = "APPROVED"
  BY DEF Pay, CanTransition, Write
<1>2. /\ claim[c] \in Row /\ approvals' = [approvals EXCEPT ![c] = approvals[c]]
      /\ approvals[c] \in Seq(Steps)
  BY <1>1 DEF HistoryInv, WorkflowInv, TypeOK
<1>3. row.owner = claim[c].owner /\ row.status = "PAID"
  BY <1>2 DEF Row
<1>5. /\ log \in Seq(AuditRow) /\ LastSubmission(log) # 0 /\ d \in Seq(AuditRow)
      /\ RoundOf(claim[c], approvals[c], d) /\ Rounds(claim[c].owner, log)
  BY <1>1, OpenRound
<1>6. e \in AuditRow /\ e.action # "SUBMIT_CLAIM"
  BY DEF AuditRow, Actions
<1>7. n \in Nat /\ Acted(approvals[c]) = 1..n /\ DOMAIN d = 1..n /\ Len(d) = n
  <2>1. n \in Nat /\ DOMAIN approvals[c] = 1..n
    BY <1>2, LenProperties
  <2>2. Acted(approvals[c]) = 1..n
    BY <1>1, <2>1 DEF Acted, HistoryInv, WorkflowInv, StatusMatchesSteps, StoryOf
  <2>3. DOMAIN d = 1..n
    BY <1>1, <1>5, <2>2 DEF RoundOf
  <2>4. DOMAIN d = 1..Len(d) /\ Len(d) \in Nat
    BY <1>5, LenProperties
  <2> HIDE DEF d, n
  <2>5. Len(d) = n
    BY <2>1, <2>3, <2>4
  <2> QED BY <2>1, <2>2, <2>3, <2>5
<1>8. /\ LastSubmission(Append(log, e)) # 0
      /\ LastRound(Append(log, e)) = Append(d, e)
  BY <1>5, <1>6, OthersAppend
<1>9. /\ Len(Append(d, e)) = n + 1 /\ DOMAIN Append(d, e) = 1..(n + 1)
      /\ Append(d, e)[n + 1] = e
      /\ \A j \in 1..n : Append(d, e)[j] = d[j] /\ j \in 1..(n + 1)
  BY <1>5, <1>7
<1>10. e.action = "PAY_CLAIM"
  OBVIOUS
<1>11. \A j \in 1..n : d[j] = Decision(approvals[c][j])
  BY <1>5, <1>7 DEF RoundOf
<1> HIDE DEF row, e, log, d
<1>12. RoundOf(row, approvals[c], Append(d, e))
  BY <1>3, <1>7, <1>9, <1>10, <1>11 DEF RoundOf
<1>13. Rounds(row.owner, Append(log, e))
  BY <1>3, <1>5, <1>6, AppendRounds
<1>14. TrailOf(row, approvals[c], Append(log, e))
  BY <1>3, <1>8, <1>12, <1>13 DEF TrailOf
<1> QED BY <1>1, <1>2, <1>14, OneTrail


(* A new claim has no trail yet.                                           *)
LEMMA CreateTrail ==
    ASSUME HistoryInv, NEW p \in Slots, NEW u \in Users, NEW c \in Claims,
           NEW d \in Details, Create(p, u, c, d)
    PROVE  AuditExplainsClaim'
<1> DEFINE row == NewClaim(u, d)
<1>1. /\ claim' = [claim EXCEPT ![c] = row] /\ approvals' = approvals
      /\ audit' = audit /\ claim[c].status = "NONE"
  BY DEF Create, Unused, tables
<1>2. /\ approvals' = [approvals EXCEPT ![c] = approvals[c]]
      /\ audit' = [audit EXCEPT ![c] = audit[c]]
  BY <1>1 DEF HistoryInv, WorkflowInv, TypeOK
<1>3. audit[c] = <<>>
  BY <1>1 DEF HistoryInv, AuditExplainsClaim, TrailOf
<1>4. row.status = "DRAFT"
  BY DEF NewClaim
<1> HIDE DEF row
<1>5. TrailOf(row, approvals[c], audit[c])
  BY <1>3, <1>4 DEF TrailOf, Rounds
<1> QED BY <1>1, <1>2, <1>5, OneTrail

(* Every step keeps the trail of every claim.                              *)
LEMMA TrailNext == HistoryInv /\ [Next]_vars => AuditExplainsClaim'
<1> SUFFICES ASSUME HistoryInv, [Next]_vars PROVE AuditExplainsClaim'
  OBVIOUS
<1> USE DEF tables
<1> DEFINE Quiet == /\ audit' = audit /\ approvals' = approvals
                    /\ \A c \in Claims : /\ claim'[c].status = claim[c].status
                                         /\ claim'[c].owner = claim[c].owner
<1>0. TypeOK /\ AuditExplainsClaim
  BY DEF HistoryInv, WorkflowInv
<1>1. ASSUME NEW p \in Slots, NEW u \in Users, NEW c \in Claims, Start(p, u, c)
      PROVE  Quiet \/ AuditExplainsClaim'
  <2>1. ASSUME NEW d \in Details, Create(p, u, c, d) PROVE AuditExplainsClaim'
    BY <2>1, CreateTrail
  <2>2. ASSUME NEW d \in Details, UpdateCheck(p, u, c, d) PROVE Quiet
    BY <2>2 DEF UpdateCheck
  <2>3. CASE DeleteCheck(p, u, c) \/ AttachCheck(p, u, c) \/ SubmitRead(p, u, c)
    BY <2>3 DEF DeleteCheck, AttachCheck, SubmitRead
  <2>4. ASSUME NEW r \in Roles, Approve(p, u, r, c) PROVE AuditExplainsClaim'
    <3> DEFINE row == AfterApproval(claim[c], NextPending(approvals[c]),
                                    Len(approvals[c]))
    <3>1. /\ MayDecide(u, r, c) /\ claim' = [claim EXCEPT ![c] = row]
          /\ approvals' = [approvals EXCEPT ![c] =
                             Decided(@, NextPending(approvals[c]), "approved", u)]
          /\ Write(u, "APPROVE_CLAIM", c)
      BY <2>4 DEF Approve
    <3>2. claim[c] \in Row /\ claim[c].status = "SUBMITTED"
      BY <1>0, <3>1 DEF TypeOK, MayDecide
    <3>3. row.owner = claim[c].owner /\ row.status \in {"SUBMITTED", "APPROVED", "REJECTED"}
      BY <3>2 DEF AfterApproval, Row
    <3> HIDE DEF row
    <3> QED BY <3>1, <3>3, DecisionTrail
  <2>5. ASSUME NEW r \in Roles, Reject(p, u, r, c) PROVE AuditExplainsClaim'
    <3> DEFINE row == [claim[c] EXCEPT !.status = "REJECTED"]
    <3>1. /\ MayDecide(u, r, c) /\ claim' = [claim EXCEPT ![c] = row]
          /\ approvals' = [approvals EXCEPT ![c] =
                             Decided(@, NextPending(approvals[c]), "rejected", u)]
          /\ Write(u, "REJECT_CLAIM", c)
      BY <2>5 DEF Reject
    <3>2. claim[c] \in Row
      BY <1>0 DEF TypeOK
    <3>3. row.owner = claim[c].owner /\ row.status \in {"SUBMITTED", "APPROVED", "REJECTED"}
      BY <3>2 DEF Row
    <3> HIDE DEF row
    <3> QED BY <3>1, <3>3, DecisionTrail
  <2>6. CASE Cancel(p, u, c)
    BY <2>6, CancelTrail
  <2>7. CASE Pay(p, u, c)
    BY <2>7, PayTrail
  <2> HIDE DEF Quiet
  <2> QED BY <1>1, <2>1, <2>2, <2>3, <2>4, <2>5, <2>6, <2>7
          DEF Start, EditRequest, WorkflowRequest
<1>2. ASSUME NEW p \in Slots, Continue(p)
      PROVE  Quiet \/ AuditExplainsClaim'
  <2>1. CASE UpdateWrite(p)
    BY <1>0, <2>1 DEF UpdateWrite, TypeOK, Row
  <2>2. CASE DeleteWrite(p)
    BY <1>0, <2>2 DEF DeleteWrite, TypeOK, Row
  <2>3. CASE SubmitCommit(p)
    BY <2>3, SubmitTrail
  <2>4. CASE \/ AttachPutObject(p) \/ AttachInsert(p) \/ SubmitPolicyCheck(p)
             \/ SubmitDuplicateCheck(p) \/ NotifyEmployee(p) \/ Abort(p)
    BY <2>4 DEF AttachPutObject, AttachInsert, SubmitPolicyCheck,
                SubmitDuplicateCheck, NotifyEmployee, Abort
  <2> HIDE DEF Quiet
  <2> QED BY <1>2, <2>1, <2>2, <2>3, <2>4 DEF Continue
<1>3. ASSUME \/ \E u \in Users : \/ ExpireTokens(u)
                                 \/ \E r \in Roles : ChangeRole(u, r)
             \/ \E k \in MayDeactivate : SwitchCategory(k)
             \/ UNCHANGED vars
      PROVE  Quiet
  BY <1>3 DEF ExpireTokens, ChangeRole, SwitchCategory, vars
<1>4. ASSUME Quiet PROVE AuditExplainsClaim'
  <2> SUFFICES ASSUME NEW c \in Claims
               PROVE  TrailOf(claim'[c], approvals'[c], audit'[c])
    BY DEF AuditExplainsClaim
  <2> QED BY <1>0, <1>4, TrailFrame
<1> HIDE DEF Quiet
<1> QED BY <1>1, <1>2, <1>3, <1>4 DEF Next

(* Both hold of the initial state and are kept.                            *)
LEMMA HistoryInit == Init => HistoryInv
<1> SUFFICES ASSUME Init PROVE RequesterOwns /\ AuditExplainsClaim
  BY WorkflowInit DEF HistoryInv
<1>1. RequesterOwns
  BY DEF Init, Idle, RequesterOwns
<1>2. \A c \in Claims : claim[c].status = "NONE" /\ audit[c] = <<>>
  BY DEF Init, Unused
<1> QED BY <1>1, <1>2 DEF AuditExplainsClaim, TrailOf, Rounds

(* Every step keeps the history invariant.                                 *)
LEMMA HistoryNext == HistoryInv /\ [Next]_vars => HistoryInv'
BY WorkflowNext, RequesterNext, TrailNext DEF HistoryInv, WorkflowInv

(* In every reachable state the audit trail of a claim tells its           *)
(* submissions, its decisions with who took them, and its end.             *)
THEOREM AuditTrailExplains == Spec => []AuditExplainsClaim
<1>1. HistoryInv => AuditExplainsClaim
  BY DEF HistoryInv
<1> QED BY <1>1, HistoryInit, HistoryNext, PTL DEF Spec

-----------------------------------------------------------------------------
(* The business rules of docs/02.                                          *)

(* No user has two requests between their checks and their writes.         *)
OneRequestPerUser ==
    \A p, q \in Slots :
        (/\ req[p].phase \in Underway /\ req[q].phase \in Underway
         /\ req[p].user = req[q].user) => p = q

(* What a request relied on still holds when it comes to its write: p is   *)
(* its phase, c its claim and d what it read of it.                        *)
Holds(p, c, d) ==
    /\ p = "update" => EditableStatus(claim[c].status)
    /\ p = "delete" => DeletableStatus(claim[c].status)
    /\ p \in {"policy", "duplicate", "submit"} =>
         EditableStatus(claim[c].status) /\ d = DetailsOf(c)
    /\ p \in {"duplicate", "submit"} => ~ReceiptMissing(d.amount, receipts[c])
    /\ p = "submit" => \A e \in Claims : Live(e) => ~Twins(c, e)
ChecksHold ==
    \A q \in Slots : Holds(req[q].phase, req[q].claim, req[q].seen)

(* What a step may do to a claim's row: nothing, take it into use, or one  *)
(* of the writes, of which the decisions keep everything but the status    *)
(* and the current step.                                                   *)
DetailsKept(c) ==
    /\ claim'[c].cat = claim[c].cat
    /\ claim'[c].date = claim[c].date
    /\ claim'[c].amount = claim[c].amount
Moved(c) ==
    /\ claim[c].status \in {"SUBMITTED", "APPROVED"}
    /\ claim'[c].status \in {"SUBMITTED", "APPROVED", "REJECTED", "CANCELLED", "PAID"}
    /\ DetailsKept(c)
    /\ claim'[c].owner = claim[c].owner /\ claim'[c].deleted = claim[c].deleted
By(p, c) ==
    /\ req[p].claim = c
    /\ claim'[c].owner = claim[c].owner
    /\ \/ /\ UpdateWrite(p)
          /\ claim'[c].status = claim[c].status
          /\ claim'[c].deleted = claim[c].deleted
       \/ /\ DeleteWrite(p)
          /\ claim'[c].status = claim[c].status
          /\ claim'[c].deleted
          /\ DetailsKept(c)
       \/ /\ SubmitCommit(p)
          /\ claim'[c].status = "SUBMITTED"
          /\ claim'[c].deleted = claim[c].deleted
          /\ DetailsKept(c)
Touched(c) ==
    \/ claim'[c] = claim[c]
    \/ /\ claim[c].status = "NONE" /\ claim'[c].status = "DRAFT"
       /\ claim'[c].deleted = claim[c].deleted
    \/ Moved(c)
    \/ \E p \in Slots : By(p, c)

(* Every step does one of these to a row.                                  *)
LEMMA RowWrites ==
    ASSUME TypeOK, [Next]_vars, NEW c \in Claims
    PROVE  Touched(c)
<1> USE DEF tables
<1>0. claim[c] \in Row
  BY DEF TypeOK
<1>1. ASSUME NEW p \in Slots, NEW u \in Users, NEW e \in Claims, Start(p, u, e)
      PROVE  Touched(c)
  <2>1. ASSUME NEW d \in Details, Create(p, u, e, d) PROVE Touched(c)
    <3>1. claim[e] = Unused /\ claim' = [claim EXCEPT ![e] = NewClaim(u, d)]
      BY <2>1 DEF Create
    <3>2. CASE c = e
      <4>1. claim'[c] = NewClaim(u, d) /\ claim[c] = Unused
        BY <3>1, <3>2 DEF TypeOK
      <4>2. Unused.status = "NONE" /\ ~Unused.deleted
        BY DEF Unused
      <4>3. NewClaim(u, d).status = "DRAFT" /\ ~NewClaim(u, d).deleted
        BY DEF NewClaim
      <4>4. claim[c].deleted \in BOOLEAN /\ claim'[c].deleted = FALSE
        BY <1>0, <4>1, <4>3 DEF Row, NewClaim
      <4>5. claim'[c].deleted = claim[c].deleted
        BY <4>1, <4>2, <4>4
      <4> QED BY <4>1, <4>2, <4>3, <4>5 DEF Touched
    <3>3. CASE c # e
      BY <3>1, <3>3 DEF Touched, TypeOK
    <3> QED BY <3>2, <3>3
  <2>2. ASSUME NEW d \in Details, UpdateCheck(p, u, e, d) PROVE Touched(c)
    BY <2>2 DEF UpdateCheck, Touched
  <2>3. CASE DeleteCheck(p, u, e) \/ AttachCheck(p, u, e) \/ SubmitRead(p, u, e)
    BY <2>3 DEF DeleteCheck, AttachCheck, SubmitRead, Touched
  <2>4. ASSUME NEW r \in Roles, Approve(p, u, r, e) PROVE Touched(c)
    <3> DEFINE i == NextPending(approvals[e])
               n == Len(approvals[e])
    <3>1. CASE c = e
      <4>1. claim'[c] = AfterApproval(claim[c], i, n) /\ claim[c].status = "SUBMITTED"
        BY <2>4, <3>1 DEF Approve, MayDecide, TypeOK
      <4> HIDE DEF i, n
      <4>2. Moved(c)
        BY <1>0, <4>1 DEF AfterApproval, Moved, DetailsKept, Row
      <4> QED BY <4>2 DEF Touched
    <3>2. CASE c # e
      BY <2>4, <3>2 DEF Approve, Touched, TypeOK
    <3> QED BY <3>1, <3>2
  <2>5. ASSUME NEW r \in Roles, Reject(p, u, r, e) PROVE Touched(c)
    BY <1>0, <2>5 DEF Reject, MayDecide, Touched, Moved, DetailsKept, TypeOK, Row
  <2>6. CASE Cancel(p, u, e)
    BY <1>0, <2>6 DEF Cancel, CanTransition, Touched, Moved, DetailsKept, TypeOK, Row
  <2>7. CASE Pay(p, u, e)
    BY <1>0, <2>7 DEF Pay, CanTransition, Touched, Moved, DetailsKept, TypeOK, Row
  <2> QED BY <1>1, <2>1, <2>2, <2>3, <2>4, <2>5, <2>6, <2>7
          DEF Start, EditRequest, WorkflowRequest
<1>2. ASSUME NEW p \in Slots, Continue(p)
      PROVE  Touched(c)
  <2>1. CASE UpdateWrite(p)
    <3>1. CASE req[p].claim = c
      <4>1. By(p, c)
        BY <1>0, <2>1, <3>1 DEF UpdateWrite, By, TypeOK, Row
      <4> QED BY <4>1 DEF Touched
    <3>2. CASE req[p].claim # c
      BY <2>1, <3>2 DEF UpdateWrite, Touched, TypeOK
    <3> QED BY <3>1, <3>2
  <2>2. CASE DeleteWrite(p)
    <3>1. CASE req[p].claim = c
      <4>1. By(p, c)
        BY <1>0, <2>2, <3>1 DEF DeleteWrite, By, DetailsKept, TypeOK, Row
      <4> QED BY <4>1 DEF Touched
    <3>2. CASE req[p].claim # c
      BY <2>2, <3>2 DEF DeleteWrite, Touched, TypeOK
    <3> QED BY <3>1, <3>2
  <2>3. CASE SubmitCommit(p)
    <3>1. CASE req[p].claim = c
      <4>1. claim'[c] = [claim[c] EXCEPT !.status = "SUBMITTED", !.step = 1]
        BY <2>3, <3>1 DEF SubmitCommit, TypeOK
      <4>2. By(p, c)
        BY <1>0, <2>3, <3>1, <4>1 DEF By, DetailsKept, Row
      <4> QED BY <4>2 DEF Touched
    <3>2. CASE req[p].claim # c
      BY <2>3, <3>2 DEF SubmitCommit, Touched, TypeOK
    <3> QED BY <3>1, <3>2
  <2>4. CASE \/ AttachPutObject(p) \/ AttachInsert(p) \/ SubmitPolicyCheck(p)
             \/ SubmitDuplicateCheck(p) \/ NotifyEmployee(p) \/ Abort(p)
    BY <2>4 DEF AttachPutObject, AttachInsert, SubmitPolicyCheck,
                SubmitDuplicateCheck, NotifyEmployee, Abort, Touched
  <2> QED BY <1>2, <2>1, <2>2, <2>3, <2>4 DEF Continue
<1>3. ASSUME \/ \E u \in Users : \/ ExpireTokens(u)
                                 \/ \E r \in Roles : ChangeRole(u, r)
             \/ \E k \in MayDeactivate : SwitchCategory(k)
             \/ UNCHANGED vars
      PROVE  Touched(c)
  BY <1>3 DEF ExpireTokens, ChangeRole, SwitchCategory, vars, Touched
<1> QED BY <1>1, <1>2, <1>3 DEF Next

(* Receipts are only ever added.                                           *)
LEMMA ReceiptsGrow ==
    ASSUME TypeOK, [Next]_vars, NEW c \in Claims
    PROVE  /\ receipts[c] \in Nat /\ receipts'[c] \in Nat
           /\ receipts'[c] >= receipts[c]
<1>1. receipts[c] \in Nat
  BY DEF TypeOK
<1>2. CASE receipts'[c] = receipts[c]
  BY <1>1, <1>2
<1>3. ASSUME NEW p \in Slots, AttachPutObject(p) \/ AttachInsert(p)
      PROVE  receipts'[c] = receipts[c] \/ receipts'[c] = receipts[c] + 1
  BY <1>3 DEF AttachPutObject, AttachInsert, TypeOK
<1>4. receipts'[c] = receipts[c] \/ receipts'[c] = receipts[c] + 1
  BY <1>2, <1>3, UploadsOnly
<1> QED BY <1>1, <1>4

(* What a step may do to a slot.                                           *)
Acts(q) ==
    \/ \E u \in Users, c \in Claims :
         \/ \E d \in Details : UpdateCheck(q, u, c, d)
         \/ DeleteCheck(q, u, c)
         \/ AttachCheck(q, u, c)
         \/ SubmitRead(q, u, c)
    \/ AttachPutObject(q)
    \/ SubmitPolicyCheck(q)
    \/ SubmitDuplicateCheck(q)
    \/ req'[q].phase \in {"idle", "notify"}

(* A request that writes, ends or aborts is idle next or has only to       *)
(* notify, and leaves the other slots alone.                               *)
LEMMA RequestEnds ==
    ASSUME TypeOK, NEW p \in Slots,
           \/ UpdateWrite(p) \/ DeleteWrite(p) \/ AttachInsert(p)
           \/ NotifyEmployee(p) \/ Abort(p) \/ SubmitCommit(p)
    PROVE  /\ req'[p].phase \in {"idle", "notify"}
           /\ \A q \in Slots \ {p} : req'[q] = req[q]
<1>0. req \in [Slots -> Request]
  BY DEF TypeOK
<1>1. CASE \/ UpdateWrite(p) \/ DeleteWrite(p) \/ AttachInsert(p)
           \/ NotifyEmployee(p) \/ Abort(p)
  <2>1. req' = [req EXCEPT ![p] = Idle]
    BY <1>1 DEF UpdateWrite, DeleteWrite, AttachInsert, NotifyEmployee, Abort
  <2>2. Idle.phase = "idle"
    BY DEF Idle
  <2> QED BY <1>0, <2>1, <2>2
<1>2. CASE SubmitCommit(p)
  <2> DEFINE t == Task("notify", req[p].user, req[p].claim, NoDetails, <<>>,
                       "SUBMITTED")
  <2>1. req' = [req EXCEPT ![p] = t] /\ t.phase = "notify"
    BY <1>2 DEF SubmitCommit, ThenNotify, Task
  <2> HIDE DEF t
  <2> QED BY <1>0, <2>1
<1> QED BY <1>1, <1>2

(* One request is served per step.                                         *)
LEMMA SlotSteps ==
    ASSUME TypeOK, [Next]_vars, NEW q \in Slots
    PROVE  req'[q] = req[q] \/ Acts(q)
<1> DEFINE Stays == req'[q] = req[q]
<1>1. ASSUME NEW p \in Slots, NEW u \in Users, NEW c \in Claims, Start(p, u, c)
      PROVE  Stays \/ Acts(q)
  <2>1. ASSUME NEW d \in Details, Create(p, u, c, d) PROVE Stays
    BY <2>1 DEF Create
  <2>2. ASSUME NEW d \in Details, UpdateCheck(p, u, c, d), p # q PROVE Stays
    BY <2>2 DEF UpdateCheck, TypeOK
  <2>3. ASSUME DeleteCheck(p, u, c) \/ AttachCheck(p, u, c) \/ SubmitRead(p, u, c),
               p # q
        PROVE  Stays
    BY <2>3 DEF DeleteCheck, AttachCheck, SubmitRead, TypeOK
  <2>4. ASSUME \/ \E r \in Roles : Approve(p, u, r, c) \/ Reject(p, u, r, c)
               \/ Cancel(p, u, c) \/ Pay(p, u, c)
        PROVE  Stays \/ req'[q].phase = "notify"
    BY <2>4 DEF Approve, Reject, Cancel, Pay, ThenNotify, Task, TypeOK
  <2>5. CASE p = q
    BY <1>1, <2>1, <2>4, <2>5 DEF Start, EditRequest, WorkflowRequest, Acts
  <2>6. CASE p # q
    <3> HIDE DEF Stays
    <3> QED BY <1>1, <2>1, <2>2, <2>3, <2>4, <2>6
            DEF Start, EditRequest, WorkflowRequest, Acts
  <2> QED BY <2>5, <2>6
<1>2. ASSUME NEW p \in Slots, Continue(p)
      PROVE  Stays \/ Acts(q)
  <2>1. CASE \/ UpdateWrite(p) \/ DeleteWrite(p) \/ AttachInsert(p)
             \/ NotifyEmployee(p) \/ Abort(p) \/ SubmitCommit(p)
    BY <2>1, RequestEnds DEF Acts
  <2>2. ASSUME AttachPutObject(p) \/ SubmitPolicyCheck(p) \/ SubmitDuplicateCheck(p),
               p # q
        PROVE  Stays
    BY <2>2 DEF AttachPutObject, SubmitPolicyCheck, SubmitDuplicateCheck, TypeOK
  <2> HIDE DEF Stays
  <2> QED BY <1>2, <2>1, <2>2 DEF Continue, Acts
<1>3. ASSUME \/ \E u \in Users : \/ ExpireTokens(u)
                                 \/ \E r \in Roles : ChangeRole(u, r)
             \/ \E k \in MayDeactivate : SwitchCategory(k)
             \/ UNCHANGED vars
      PROVE  Stays
  BY <1>3 DEF ExpireTokens, ChangeRole, SwitchCategory, vars
<1> QED BY <1>1, <1>2, <1>3 DEF Next

(* A live claim keeps its owner, category, date and amount: an update or a *)
(* deletion under way is of a claim that is not live.                      *)
LEMMA LiveKeeps ==
    ASSUME TypeOK, ChecksHold, [Next]_vars, NEW c \in Claims, Live(c)
    PROVE  /\ DetailsKept(c) /\ claim'[c].owner = claim[c].owner
           /\ claim'[c].deleted = claim[c].deleted
<1>1. Touched(c)
  BY RowWrites
<1>2. ASSUME NEW p \in Slots, By(p, c)
      PROVE  SubmitCommit(p)
  <2>1. Holds(req[p].phase, req[p].claim, req[p].seen)
    BY DEF ChecksHold
  <2> QED BY <1>2, <2>1 DEF By, Holds, EditableStatus, DeletableStatus, Live,
                            UpdateWrite, DeleteWrite
<1> QED BY <1>1, <1>2 DEF Touched, Moved, DetailsKept, By, Live,
        UpdateWrite, DeleteWrite, SubmitCommit

(* A claim becomes live by being submitted.                                *)
LEMMA LiveIsSubmitted ==
    ASSUME TypeOK, [Next]_vars, NEW c \in Claims, ~Live(c), Live(c)'
    PROVE  \E p \in Slots : SubmitCommit(p) /\ By(p, c)
<1>1. Touched(c)
  BY RowWrites
<1> QED BY <1>1 DEF Touched, Moved, By, Live

(* Nobody else writes the row of a claim whose owner has a request of his  *)
(* own under way.                                                          *)
LEMMA Undisturbed ==
    ASSUME TypeOK, RequesterOwns, OneRequestPerUser, [Next]_vars,
           NEW q \in Slots, req[q].phase \in Underway, req'[q] = req[q],
           NEW c \in Claims, c = req[q].claim,
           EditableStatus(claim[c].status)
    PROVE  claim'[c] = claim[c]
<1>1. ASSUME NEW p \in Slots, By(p, c) PROVE FALSE
  <2>1. req[p].phase \in {"update", "delete", "submit"}
    BY <1>1 DEF By, UpdateWrite, DeleteWrite, SubmitCommit
  <2>2. req[p].phase \in Underway
    BY <2>1 DEF Underway, Phases
  <2>3. req[p].user = req[q].user
    BY <1>1, <2>2 DEF By, RequesterOwns, Underway
  <2>4. p = q
    BY <2>2, <2>3 DEF OneRequestPerUser
  <2>5. req'[p].phase \in {"idle", "notify"}
    BY <1>1, RequestEnds DEF By
  <2> QED BY <2>4, <2>5 DEF Underway
<1>2. Touched(c)
  BY RowWrites
<1> QED BY <1>1, <1>2 DEF Touched, Moved, EditableStatus

(* FindDuplicate finds every twin that is live.                            *)
LEMMA NoTwinFound ==
    ASSUME TypeOK, NEW c \in Claims,
           ~HasDuplicate(claim, claim[c].owner, claim[c].amount, claim[c].date, c),
           NEW e \in Claims, Live(e)
    PROVE  ~Twins(c, e)
<1> SUFFICES ASSUME Twins(c, e) PROVE FALSE
  OBVIOUS
<1>1. claim[c] \in Row /\ claim[e] \in Row
  BY DEF TypeOK
<1>2. claim[c].date \in Int /\ claim[e].date \in Int
  BY <1>1, DetailsAssumption DEF Row
<1>3. claim[e].date \in (claim[c].date - DuplicateWindow)..(claim[c].date + DuplicateWindow)
  <2>1. claim[c].date \in
          (claim[e].date - DuplicateWindow)..(claim[e].date + DuplicateWindow)
    BY DEF Twins
  <2> QED BY <1>2, <2>1, WindowAssumption
<1>4. DOMAIN claim = Claims
  BY DEF TypeOK
<1> QED BY <1>3, <1>4 DEF HasDuplicate, Twins, Live, Statuses

(* Being twins is symmetric.                                               *)
LEMMA TwinsBothWays ==
    ASSUME TypeOK, NEW c \in Claims, NEW e \in Claims, Twins(c, e)
    PROVE  Twins(e, c)
<1>1. claim[c] \in Row /\ claim[e] \in Row
  BY DEF TypeOK
<1>2. claim[c].date \in Int /\ claim[e].date \in Int
  BY <1>1, DetailsAssumption DEF Row
<1>3. claim[e].date \in (claim[c].date - DuplicateWindow)..(claim[c].date + DuplicateWindow)
  <2>1. claim[c].date \in
          (claim[e].date - DuplicateWindow)..(claim[e].date + DuplicateWindow)
    BY DEF Twins
  <2> QED BY <1>2, <2>1, WindowAssumption
<1> QED BY <1>3 DEF Twins

(* Claims that keep what the rule looks at were twins before if they are   *)
(* now.                                                                    *)
LEMMA TwinsBefore ==
    ASSUME NEW c \in Claims, NEW e \in Claims, Twins(c, e)',
           DetailsKept(c), claim'[c].owner = claim[c].owner,
           claim'[c].deleted = claim[c].deleted,
           DetailsKept(e), claim'[e].owner = claim[e].owner,
           claim'[e].deleted = claim[e].deleted
    PROVE  Twins(c, e)
BY DEF Twins, DetailsKept

(* A request that waits relies on what nobody takes from it.               *)
LEMMA WaitingHolds ==
    ASSUME HistoryInv, ChecksHold, OneRequestPerUser, [Next]_vars,
           NEW q \in Slots, req'[q] = req[q],
           NEW c, NEW d, NEW p, c = req[q].claim, d = req[q].seen, p = req[q].phase
    PROVE  Holds(p, c, d)'
<1>1. /\ TypeOK /\ RequesterOwns /\ Holds(p, c, d)
  BY DEF HistoryInv, WorkflowInv, ChecksHold
<1>2. CASE p \notin {"update", "delete", "policy", "duplicate", "submit"}
  BY <1>2 DEF Holds
<1>3. CASE p \in {"update", "delete", "policy", "duplicate", "submit"}
  <2>1. p \in Underway /\ c \in Claims
    BY <1>1, <1>3, Serving DEF Underway, Phases, Active
  <2>2. EditableStatus(claim[c].status)
    BY <1>1, <1>3 DEF Holds, DeletableStatus, EditableStatus
  <2>3. claim'[c] = claim[c]
    BY <1>1, <2>1, <2>2, Undisturbed
  <2>4. p \in {"duplicate", "submit"} => ~ReceiptMissing(d.amount, receipts'[c])
    <3>1. receipts[c] \in Nat /\ receipts'[c] \in Nat /\ receipts'[c] >= receipts[c]
      BY <1>1, <2>1, ReceiptsGrow
    <3> QED BY <1>1, <3>1 DEF Holds, ReceiptMissing
  <2>5. ASSUME p = "submit", NEW e \in Claims, Live(e)', Twins(c, e)'
        PROVE  FALSE
    <3>1. CASE Live(e)
      <4>1. /\ DetailsKept(e) /\ claim'[e].owner = claim[e].owner
            /\ claim'[e].deleted = claim[e].deleted
        BY <1>1, <3>1, LiveKeeps
      <4>2. Twins(c, e)
        BY <2>1, <2>3, <2>5, <4>1, TwinsBefore DEF DetailsKept
      <4> QED BY <1>1, <2>5, <3>1, <4>2 DEF Holds
    <3>2. CASE ~Live(e)
      <4>1. PICK s \in Slots : SubmitCommit(s) /\ By(s, e)
        BY <1>1, <2>5, <3>2, LiveIsSubmitted
      <4>2. req[s].phase \in Underway
        BY <4>1 DEF SubmitCommit, Underway, Phases
      <4>3. claim'[c].owner = req[q].user /\ claim'[e].owner = req[s].user
        BY <1>1, <2>1, <2>3, <4>1, <4>2 DEF RequesterOwns, Underway, By
      <4>4. c # e /\ claim'[c].owner = claim'[e].owner
        BY <2>5 DEF Twins
      <4>5. s = q
        BY <2>1, <4>2, <4>3, <4>4 DEF OneRequestPerUser
      <4> QED BY <4>1, <4>4, <4>5 DEF By
    <3> QED BY <3>1, <3>2
  <2> QED BY <1>1, <2>3, <2>4, <2>5 DEF Holds, DetailsOf
<1> QED BY <1>2, <1>3

(* Where neither the claims nor the receipts change, nothing relied on     *)
(* does.                                                                   *)
LEMMA HoldsFrame ==
    ASSUME claim' = claim, receipts' = receipts, NEW p, NEW c, NEW d,
           Holds(p, c, d)
    PROVE  Holds(p, c, d)'
BY DEF Holds, DetailsOf, Live, Twins

(* The step of a request finds out what it will rely on next.              *)
LEMMA ActingHolds ==
    ASSUME HistoryInv, ChecksHold, NEW q \in Slots, Acts(q),
           NEW c, NEW d, NEW p, c = req'[q].claim, d = req'[q].seen,
           p = req'[q].phase
    PROVE  Holds(p, c, d)'
<1> USE DEF tables, storage
<1>0. TypeOK /\ RequesterOwns /\ req \in [Slots -> Request]
  BY DEF HistoryInv, WorkflowInv, TypeOK
<1>1. ASSUME NEW u \in Users, NEW e \in Claims, NEW x \in Details,
             UpdateCheck(q, u, e, x)
      PROVE  Holds(p, c, d)'
  <2>1. p = "update" /\ c = e /\ d = x
    BY <1>0, <1>1 DEF UpdateCheck, Task
  <2>2. Holds(p, c, d)
    BY <1>1, <2>1 DEF UpdateCheck, Holds
  <2> QED BY <1>1, <2>2, HoldsFrame DEF UpdateCheck
<1>2. ASSUME NEW u \in Users, NEW e \in Claims, DeleteCheck(q, u, e)
      PROVE  Holds(p, c, d)'
  <2>1. p = "delete" /\ c = e
    BY <1>0, <1>2 DEF DeleteCheck, Task
  <2>2. Holds(p, c, d)
    BY <1>2, <2>1 DEF DeleteCheck, Holds
  <2> QED BY <1>2, <2>2, HoldsFrame DEF DeleteCheck
<1>3. ASSUME NEW u \in Users, NEW e \in Claims, AttachCheck(q, u, e)
      PROVE  Holds(p, c, d)'
  <2>1. p = "putObject"
    BY <1>0, <1>3 DEF AttachCheck, Task
  <2> QED BY <2>1 DEF Holds
<1>4. CASE AttachPutObject(q)
  <2>1. p = "attach"
    BY <1>0, <1>4, Serving DEF AttachPutObject, Active
  <2> QED BY <2>1 DEF Holds
<1>5. ASSUME NEW u \in Users, NEW e \in Claims, SubmitRead(q, u, e)
      PROVE  Holds(p, c, d)'
  <2>1. p = "policy" /\ c = e /\ d = DetailsOf(e)
    BY <1>0, <1>5 DEF SubmitRead, Task
  <2>2. Holds(p, c, d)
    BY <1>5, <2>1 DEF SubmitRead, Holds, CanTransition, EditableStatus
  <2> QED BY <1>5, <2>2, HoldsFrame DEF SubmitRead
<1>6. CASE SubmitPolicyCheck(q)
  <2>1. req[q].phase = "policy" /\ req' = [req EXCEPT ![q].phase = "duplicate"]
    BY <1>6 DEF SubmitPolicyCheck
  <2>2. req[q] \in Active
    BY <1>0, <2>1, Serving
  <2>3. p = "duplicate" /\ c = req[q].claim /\ d = req[q].seen
    BY <1>0, <2>1, <2>2 DEF Active
  <2>4. Holds("policy", c, d)
    BY <2>1, <2>3 DEF ChecksHold
  <2>5. Holds(p, c, d)
    BY <1>6, <2>3, <2>4 DEF SubmitPolicyCheck, Holds
  <2> QED BY <1>6, <2>5, HoldsFrame DEF SubmitPolicyCheck
<1>7. CASE SubmitDuplicateCheck(q)
  <2>1. req[q].phase = "duplicate" /\ req' = [req EXCEPT ![q].phase = "submit"]
    BY <1>7 DEF SubmitDuplicateCheck
  <2>2. req[q] \in Active
    BY <1>0, <2>1, Serving
  <2>3. p = "submit" /\ c = req[q].claim /\ d = req[q].seen /\ c \in Claims
    BY <1>0, <2>1, <2>2 DEF Active
  <2>4. Holds("duplicate", c, d)
    BY <2>1, <2>3 DEF ChecksHold
  <2>5. d = DetailsOf(c) /\ claim[c].owner = req[q].user
    BY <1>0, <2>1, <2>3, <2>4 DEF Holds, RequesterOwns, Phases
  <2>6. ~HasDuplicate(claim, claim[c].owner, claim[c].amount, claim[c].date, c)
    BY <1>7, <2>3, <2>5 DEF SubmitDuplicateCheck, DetailsOf
  <2>7. \A e \in Claims : Live(e) => ~Twins(c, e)
    BY <1>0, <2>3, <2>6, NoTwinFound
  <2>8. Holds(p, c, d)
    BY <2>3, <2>4, <2>7 DEF Holds
  <2> QED BY <1>7, <2>8, HoldsFrame DEF SubmitDuplicateCheck
<1>8. CASE req'[q].phase \in {"idle", "notify"}
  BY <1>8 DEF Holds
<1> QED BY <1>1, <1>2, <1>3, <1>4, <1>5, <1>6, <1>7, <1>8 DEF Acts

(* While no user has two requests under way, every request may rely on     *)
(* what it has checked until it writes.                                    *)
LEMMA ChecksNext ==
    HistoryInv /\ ChecksHold /\ OneRequestPerUser /\ [Next]_vars => ChecksHold'
<1> SUFFICES ASSUME HistoryInv, ChecksHold, OneRequestPerUser, [Next]_vars,
                    NEW q \in Slots, NEW p, NEW c, NEW d,
                    p = req'[q].phase, c = req'[q].claim, d = req'[q].seen
             PROVE  Holds(p, c, d)'
  BY DEF ChecksHold
<1>1. TypeOK
  BY DEF HistoryInv, WorkflowInv
<1>2. CASE req'[q] = req[q]
  BY <1>2, WaitingHolds
<1>3. CASE Acts(q)
  BY <1>3, ActingHolds
<1> QED BY <1>1, <1>2, <1>3, SlotSteps


-----------------------------------------------------------------------------
(* Rules 3 and 4.                                                          *)

(* The decimal comparison is the comparison of the amounts.                *)
LEMMA AboveIsGreater ==
    ASSUME NEW a \in Nat, NEW b \in Nat
    PROVE  Above(a, b) <=> a > b
<1> DEFINE x == SplitDecimal(a)
           y == SplitDecimal(b)
<1>1. x \in Decimal /\ y \in Decimal /\ Value(x) = a /\ Value(y) = b
  BY SplitKeepsValue
<1> HIDE DEF x, y
<1>2. CompareNumeric(x, y) > 0 <=> Value(x) > Value(y)
  BY <1>1, CompareOrders
<1> QED BY <1>1, <1>2 DEF Above, x, y

(* A claim that becomes live has what its Submit relied on.                *)
LEMMA NewlyLive ==
    ASSUME HistoryInv, ChecksHold, [Next]_vars, NEW c \in Claims,
           ~Live(c), Live(c)'
    PROVE  \E p \in Slots :
             /\ SubmitCommit(p) /\ req[p].claim = c
             /\ req[p].seen = DetailsOf(c)
             /\ claim[c].owner = req[p].user /\ req[p].user \in Users
             /\ DetailsKept(c) /\ claim'[c].owner = claim[c].owner
             /\ claim'[c].deleted = claim[c].deleted
             /\ ~ReceiptMissing(claim[c].amount, receipts[c])
             /\ \A e \in Claims : Live(e) => ~Twins(c, e)
             /\ \A e \in Claims \ {c} : claim'[e] = claim[e]
<1>1. TypeOK /\ RequesterOwns
  BY DEF HistoryInv, WorkflowInv
<1>2. PICK p \in Slots : SubmitCommit(p) /\ By(p, c)
  BY <1>1, LiveIsSubmitted
<1>3. req[p].phase = "submit" /\ req[p].claim = c
  BY <1>2 DEF SubmitCommit, By
<1>4. Holds("submit", c, req[p].seen)
  BY <1>3 DEF ChecksHold
<1>5. req[p].seen = DetailsOf(c) /\ ~ReceiptMissing(claim[c].amount, receipts[c])
  BY <1>4 DEF Holds, DetailsOf
<1>6. claim[c].owner = req[p].user /\ req[p].user \in Users
  BY <1>1, <1>3, Serving DEF RequesterOwns, Phases, Active
<1>7. \A e \in Claims \ {c} : claim'[e] = claim[e]
  BY <1>1, <1>2, <1>3 DEF SubmitCommit, TypeOK
<1>8. DetailsKept(c) /\ claim'[c].owner = claim[c].owner
      /\ claim'[c].deleted = claim[c].deleted
  BY <1>2, <1>3 DEF By, SubmitCommit, UpdateWrite, DeleteWrite
<1>9. \A e \in Claims : Live(e) => ~Twins(c, e)
  BY <1>4 DEF Holds
<1> QED BY <1>2, <1>3, <1>5, <1>6, <1>7, <1>8, <1>9

(* Every step keeps rule 3.                                                *)
LEMMA ReceiptRuleNext ==
    HistoryInv /\ ChecksHold /\ LargeClaimsHaveReceipt /\ [Next]_vars
      => LargeClaimsHaveReceipt'
<1> SUFFICES ASSUME HistoryInv, ChecksHold, LargeClaimsHaveReceipt, [Next]_vars,
                    NEW c \in Claims, Live(c)', claim'[c].amount > ReceiptThreshold
             PROVE  receipts'[c] > 0
  BY DEF LargeClaimsHaveReceipt
<1>1. TypeOK
  BY DEF HistoryInv, WorkflowInv
<1>2. receipts[c] \in Nat /\ receipts'[c] \in Nat /\ receipts'[c] >= receipts[c]
  BY <1>1, ReceiptsGrow
<1>3. CASE Live(c)
  <2>1. claim'[c].amount = claim[c].amount
    BY <1>1, <1>3, LiveKeeps DEF DetailsKept
  <2>2. receipts[c] > 0
    BY <1>3, <2>1 DEF LargeClaimsHaveReceipt
  <2> QED BY <1>2, <2>2
<1>4. CASE ~Live(c)
  <2>1. claim'[c].amount = claim[c].amount
        /\ ~ReceiptMissing(claim[c].amount, receipts[c])
    BY <1>4, NewlyLive DEF DetailsKept
  <2>2. claim[c].amount \in Nat /\ ReceiptThreshold \in Nat
    <3>1. claim[c] \in Row
      BY <1>1 DEF TypeOK
    <3> QED BY <3>1, DetailsAssumption, TierAssumption DEF Row
  <2>3. Above(claim[c].amount, ReceiptThreshold)
    BY <2>1, <2>2, AboveIsGreater
  <2>4. receipts[c] # 0
    BY <2>1, <2>3 DEF ReceiptMissing
  <2> QED BY <1>2, <2>4
<1> QED BY <1>3, <1>4

(* Every step keeps rule 4.                                                *)
LEMMA DuplicateRuleNext ==
    HistoryInv /\ ChecksHold /\ NoLiveDuplicates /\ [Next]_vars
      => NoLiveDuplicates'
<1> SUFFICES ASSUME HistoryInv, ChecksHold, NoLiveDuplicates, [Next]_vars,
                    NEW c \in Claims, NEW e \in Claims,
                    Live(c)', Live(e)', Twins(c, e)'
             PROVE  FALSE
  BY DEF NoLiveDuplicates
<1>0. TypeOK /\ c # e
  BY DEF HistoryInv, WorkflowInv, Twins
<1>1. CASE Live(c) /\ Live(e)
  <2>1. /\ DetailsKept(c) /\ claim'[c].owner = claim[c].owner
        /\ claim'[c].deleted = claim[c].deleted
        /\ DetailsKept(e) /\ claim'[e].owner = claim[e].owner
        /\ claim'[e].deleted = claim[e].deleted
    BY <1>0, <1>1, LiveKeeps
  <2>2. Twins(c, e)
    BY <2>1, TwinsBefore
  <2> QED BY <1>1, <2>2 DEF NoLiveDuplicates
<1>2. CASE ~Live(c)
  <2>1. /\ DetailsKept(c) /\ claim'[c].owner = claim[c].owner
        /\ claim'[c].deleted = claim[c].deleted
        /\ \A f \in Claims : Live(f) => ~Twins(c, f)
        /\ claim'[e] = claim[e]
    BY <1>0, <1>2, NewlyLive
  <2>2. Twins(c, e)
    BY <2>1, TwinsBefore DEF DetailsKept
  <2>3. Live(e)
    BY <2>1 DEF Live
  <2> QED BY <2>1, <2>2, <2>3
<1>3. CASE ~Live(e)
  <2>1. /\ DetailsKept(e) /\ claim'[e].owner = claim[e].owner
        /\ claim'[e].deleted = claim[e].deleted
        /\ \A f \in Claims : Live(f) => ~Twins(e, f)
        /\ claim'[c] = claim[c]
    BY <1>0, <1>3, NewlyLive
  <2>2. Twins(c, e)
    BY <2>1, TwinsBefore DEF DetailsKept
  <2>3. Live(c)
    BY <2>1 DEF Live
  <2> QED BY <1>0, <2>1, <2>2, <2>3, TwinsBothWays
<1> QED BY <1>1, <1>2, <1>3

-----------------------------------------------------------------------------
(* Rule 2.                                                                 *)

(* The claims that count against the limit of a category: those an         *)
(* employee has live in a month.                                           *)
Counted(u, k, m) ==
    {c \in Claims : /\ Live(c) /\ ~claim[c].deleted
                    /\ claim[c].owner = u /\ claim[c].cat = k
                    /\ MonthOf[claim[c].date] = m}
AmountOf == [c \in Claims |-> claim[c].amount]
Spent(cs) == Total(AmountOf, cs)

Limited(k) == CategoryLimit[k] # NoLimit

(* No category with a limit is switched off, which would lift the limit.   *)
LimitsInForce == \A k \in Categories : Limited(k) => k \in active

(* The claims of a Submit's user and the one it is about stay within the   *)
(* limit, once it has been checked: p is the phase, c the claim, d what    *)
(* was read of it.                                                         *)
Within(p, u, c, d) ==
    p \in {"duplicate", "submit"} /\ Limited(d.cat) =>
      Spent(Counted(u, d.cat, MonthOf[d.date]) \ {c}) + d.amount
        <= CategoryLimit[d.cat]
LimitsChecked ==
    \A q \in Slots : Within(req[q].phase, req[q].user, req[q].claim, req[q].seen)

(* What is live stays within the limits, and is finite.                    *)
LimitsKept ==
    \A u \in Users, k \in Categories, d \in Dates :
        Limited(k) => Spent(Counted(u, k, MonthOf[d])) <= CategoryLimit[k]
LiveClaims == {c \in Claims : Live(c)}
LimitInv == IsFiniteSet(LiveClaims) /\ LimitsKept /\ LimitsChecked

(* The claims counted are live, finitely many, and have amounts.           *)
LEMMA CountedFinite ==
    ASSUME TypeOK, IsFiniteSet(LiveClaims), NEW u, NEW k, NEW m,
           NEW cs \in SUBSET Counted(u, k, m)
    PROVE  /\ IsFiniteSet(cs) /\ cs \subseteq LiveClaims
           /\ \A c \in cs : AmountOf[c] \in Nat
           /\ Spent(cs) \in Nat
<1>1. cs \in SUBSET LiveClaims
  BY DEF Counted, LiveClaims
<1>2. IsFiniteSet(cs)
  BY <1>1, FS_Subset
<1>3. ASSUME NEW c \in cs PROVE AmountOf[c] \in Nat
  <2>1. claim[c] \in Row /\ c \in Claims
    BY DEF TypeOK, Counted
  <2> QED BY <2>1, DetailsAssumption DEF Row, AmountOf
<1>4. Spent(cs) \in Nat
  <2> HIDE DEF AmountOf
  <2> QED BY <1>2, <1>3, SumNat DEF Spent
<1> QED BY <1>1, <1>2, <1>3, <1>4

(* MonthlyCategorySpend sums the claims counted, but for the one submitted. *)
LEMMA SpendIs ==
    ASSUME TypeOK, NEW u, NEW k, NEW d, NEW c
    PROVE  MonthlyCategorySpend(claim, u, k, d, c)
             = Spent(Counted(u, k, MonthOf[d]) \ {c})
<1>1. DOMAIN claim = Claims
  BY DEF TypeOK
<1>2. SpendRows(claim, u, k, d, c) = Counted(u, k, MonthOf[d]) \ {c}
  BY <1>1 DEF SpendRows, Counted, Live
<1> QED BY <1>1, <1>2 DEF MonthlyCategorySpend, Spent, AmountOf, Total

(* The check of the limit is the comparison of the sum with the limit.     *)
LEMMA NotOverLimit ==
    ASSUME TypeOK, IsFiniteSet(LiveClaims), NEW u, NEW k, NEW d, NEW c,
           NEW amount \in Nat, NEW limit \in Nat, limit # NoLimit,
           ~OverMonthlyLimit(claim, limit, u, k, d, amount, c)
    PROVE  Spent(Counted(u, k, MonthOf[d]) \ {c}) + amount <= limit
<1> DEFINE spent == Spent(Counted(u, k, MonthOf[d]) \ {c})
           x == SplitDecimal(spent)
           y == SplitDecimal(amount)
           z == SplitDecimal(limit)
           sum == AddNumeric(x, y)
<1>1. spent \in Nat
  BY CountedFinite
<1>2. ~(CompareNumeric(sum, z) > 0)
  BY SpendIs DEF OverMonthlyLimit
<1> HIDE DEF spent
<1>3. /\ x \in Decimal /\ y \in Decimal /\ z \in Decimal
      /\ Value(x) = spent /\ Value(y) = amount /\ Value(z) = limit
  BY <1>1, SplitKeepsValue
<1> HIDE DEF x, y, z
<1>4. sum \in Decimal /\ Value(sum) = spent + amount
  BY <1>3, AddIsSum
<1> HIDE DEF sum
<1>5. ~(Value(sum) > Value(z))
  BY <1>2, <1>3, <1>4, CompareOrders
<1>6. spent + amount <= limit
  BY <1>1, <1>3, <1>4, <1>5
<1> QED BY <1>6 DEF spent

(* At most one claim becomes live in a step.                               *)
LEMMA FewLive ==
    ASSUME HistoryInv, ChecksHold, [Next]_vars, IsFiniteSet(LiveClaims)
    PROVE  IsFiniteSet(LiveClaims')
<1>1. CASE \A c \in Claims : Live(c)' => Live(c)
  <2>1. LiveClaims' \in SUBSET LiveClaims
    BY <1>1 DEF LiveClaims
  <2> QED BY <2>1, FS_Subset
<1>2. ASSUME NEW c \in Claims, ~Live(c), Live(c)' PROVE IsFiniteSet(LiveClaims')
  <2>1. \A e \in Claims \ {c} : claim'[e] = claim[e]
    BY <1>2, NewlyLive
  <2>2. LiveClaims' \in SUBSET (LiveClaims \cup {c})
    BY <2>1 DEF LiveClaims, Live
  <2>3. IsFiniteSet(LiveClaims \cup {c})
    BY FS_AddElement
  <2> QED BY <2>2, <2>3, FS_Subset
<1> QED BY <1>1, <1>2

(* A claim that counts and was live before counted before, for as much.    *)
LEMMA CountedBefore ==
    ASSUME HistoryInv, ChecksHold, [Next]_vars, NEW u, NEW k, NEW m,
           NEW c \in Counted(u, k, m)', Live(c)
    PROVE  c \in Counted(u, k, m) /\ AmountOf'[c] = AmountOf[c]
<1>1. c \in Claims /\ TypeOK
  BY DEF Counted, HistoryInv, WorkflowInv
<1>2. /\ DetailsKept(c) /\ claim'[c].owner = claim[c].owner
      /\ claim'[c].deleted = claim[c].deleted
  BY <1>1, LiveKeeps
<1> QED BY <1>1, <1>2 DEF Counted, DetailsKept, AmountOf

(* And so they are after a step.                                           *)
LEMMA CountedFiniteNext ==
    ASSUME TypeOK', IsFiniteSet(LiveClaims'), NEW u, NEW k, NEW m
    PROVE  /\ IsFiniteSet(Counted(u, k, m)')
           /\ \A c \in Counted(u, k, m)' : AmountOf'[c] \in Nat
           /\ \A cs \in SUBSET (Counted(u, k, m)') : Total(AmountOf', cs) \in Nat
<1>1. Counted(u, k, m)' \in SUBSET LiveClaims'
  BY DEF Counted, LiveClaims
<1>2. IsFiniteSet(Counted(u, k, m)')
  BY <1>1, FS_Subset
<1>3. ASSUME NEW c \in Counted(u, k, m)' PROVE AmountOf'[c] \in Nat
  <2>1. claim'[c] \in Row /\ c \in Claims
    BY DEF TypeOK, Counted
  <2> QED BY <2>1, DetailsAssumption DEF Row, AmountOf
<1>4. ASSUME NEW cs \in SUBSET (Counted(u, k, m)')
      PROVE  Total(AmountOf', cs) \in Nat
  <2>1. IsFiniteSet(cs) /\ \A c \in cs : AmountOf'[c] \in Nat
    BY <1>2, <1>3, FS_Subset
  <2> HIDE DEF AmountOf
  <2> QED BY <2>1, SumNat
<1> QED BY <1>2, <1>3, <1>4

(* Where nothing new counts, no more is spent.                             *)
LEMMA SpendsNoMore ==
    ASSUME HistoryInv, ChecksHold, [Next]_vars, IsFiniteSet(LiveClaims),
           NEW u, NEW k, NEW m, NEW cs \in SUBSET (Counted(u, k, m)'),
           \A e \in cs : Live(e), NEW ds \in SUBSET Counted(u, k, m),
           cs \subseteq ds
    PROVE  Total(AmountOf', cs) <= Spent(ds)
<1>1. TypeOK
  BY DEF HistoryInv, WorkflowInv
<1>2. \A e \in cs : AmountOf'[e] = AmountOf[e]
  BY CountedBefore
<1>3. IsFiniteSet(ds) /\ \A e \in ds : AmountOf[e] \in Nat
  BY <1>1, CountedFinite
<1>4. IsFiniteSet(cs)
  BY <1>3, FS_Subset
<1> HIDE DEF AmountOf
<1>5. Total(AmountOf', cs) = Total(AmountOf, cs)
  BY <1>2, <1>4, SumSame
<1>6. Total(AmountOf, cs) <= Total(AmountOf, ds)
  BY <1>3, SumGrows
<1> QED BY <1>5, <1>6 DEF Spent

(* Every step keeps what is live within the limits: the Submit that adds a *)
(* claim has had it counted.                                               *)
LEMMA LimitsNext ==
    HistoryInv /\ ChecksHold /\ LimitInv /\ [Next]_vars
      => LimitsKept'
<1> SUFFICES ASSUME HistoryInv, ChecksHold, LimitInv,
                    [Next]_vars, NEW u \in Users, NEW k \in Categories,
                    NEW d \in Dates, Limited(k)
             PROVE  Total(AmountOf', Counted(u, k, MonthOf[d])') <= CategoryLimit[k]
  BY DEF LimitsKept, Limited, Spent
<1> DEFINE m == MonthOf[d]
           before == Counted(u, k, m)
           after == Counted(u, k, m)'
<1>1. TypeOK /\ IsFiniteSet(LiveClaims) /\ CategoryLimit[k] \in Nat
  BY LimitAssumption DEF HistoryInv, WorkflowInv, LimitInv, Limited
<1>2. TypeOK' /\ IsFiniteSet(LiveClaims')
  BY <1>1, FewLive, TypeNext
<1>3. Spent(before) \in Nat /\ Spent(before) <= CategoryLimit[k]
  BY <1>1, CountedFinite DEF LimitInv, LimitsKept
<1>4. Total(AmountOf', after) \in Nat
  BY <1>2, CountedFiniteNext
<1>5. CASE \A e \in after : Live(e)
  <2>1. after \subseteq before
    BY <1>5, CountedBefore
  <2>2. Total(AmountOf', after) <= Spent(before)
    BY <1>1, <1>5, <2>1, SpendsNoMore
  <2> QED BY <1>1, <1>3, <1>4, <2>2
<1>6. ASSUME NEW c \in after, ~Live(c)
      PROVE  Total(AmountOf', after) <= CategoryLimit[k]
  <2>1. c \in Claims /\ Live(c)'
    BY <1>6 DEF Counted
  <2>2. PICK p \in Slots :
          /\ SubmitCommit(p) /\ req[p].claim = c /\ req[p].seen = DetailsOf(c)
          /\ claim[c].owner = req[p].user
          /\ DetailsKept(c) /\ claim'[c].owner = claim[c].owner
          /\ \A e \in Claims \ {c} : claim'[e] = claim[e]
    BY <1>6, <2>1, NewlyLive
  <2>3. /\ claim'[c].owner = u /\ claim'[c].cat = k
        /\ MonthOf[claim'[c].date] = m
    BY <1>6 DEF Counted
  <2>4. /\ req[p].user = u /\ req[p].seen.cat = k
        /\ MonthOf[req[p].seen.date] = m /\ req[p].seen.amount = claim[c].amount
        /\ req[p].phase = "submit"
    BY <2>2, <2>3 DEF DetailsKept, DetailsOf, SubmitCommit
  <2>5. Spent(before \ {c}) + claim[c].amount <= CategoryLimit[k]
    <3>1. Within(req[p].phase, req[p].user, req[p].claim, req[p].seen)
      BY DEF LimitInv, LimitsChecked
    <3> QED BY <2>2, <2>4, <3>1 DEF Within
  <2>6. Total(AmountOf', after \ {c}) <= Spent(before \ {c})
    <3>1. \A e \in after \ {c} : Live(e)
      BY <2>2 DEF Counted, Live
    <3>2. after \ {c} \subseteq before \ {c}
      BY <3>1, CountedBefore
    <3> QED BY <1>1, <3>1, <3>2, SpendsNoMore
  <2>7. Total(AmountOf', after) = claim'[c].amount + Total(AmountOf', after \ {c})
    <3>1. IsFiniteSet(after) /\ \A e \in after : AmountOf'[e] \in Nat
      BY <1>2, CountedFiniteNext
    <3>2. AmountOf'[c] = claim'[c].amount
      BY <2>1 DEF AmountOf
    <3> HIDE DEF AmountOf, after
    <3> QED BY <1>6, <3>1, <3>2, SumTakes
  <2>8. /\ claim'[c].amount = claim[c].amount /\ claim[c].amount \in Nat
        /\ Total(AmountOf', after \ {c}) \in Nat /\ Spent(before \ {c}) \in Nat
    <3>1. claim[c] \in Row
      BY <1>1, <2>1 DEF TypeOK
    <3> QED BY <1>1, <1>2, <2>2, <3>1, CountedFinite, CountedFiniteNext,
           DetailsAssumption
            DEF Row, DetailsKept
  <2> QED BY <1>1, <2>5, <2>6, <2>7, <2>8
<1> QED BY <1>5, <1>6

(* A request that waits stays within the limit: nobody else submits for    *)
(* its user.                                                               *)
LEMMA WaitingWithin ==
    ASSUME HistoryInv, ChecksHold, OneRequestPerUser, LimitInv,
           [Next]_vars, NEW q \in Slots, req'[q] = req[q],
           NEW p, NEW u, NEW c, NEW d, p = req[q].phase, u = req[q].user,
           c = req[q].claim, d = req[q].seen
    PROVE  Within(p, u, c, d)'
<1> SUFFICES ASSUME p \in {"duplicate", "submit"}, Limited(d.cat)
             PROVE  Total(AmountOf', Counted(u, d.cat, MonthOf[d.date])' \ {c})
                      + d.amount <= CategoryLimit[d.cat]
  BY DEF Within, Limited, Spent
<1> DEFINE k == d.cat
           m == MonthOf[d.date]
           before == Counted(u, k, m)
           after == Counted(u, k, m)'
<1>1. TypeOK /\ IsFiniteSet(LiveClaims)
  BY DEF HistoryInv, WorkflowInv, LimitInv
<1>2. p \in Underway /\ d \in Details
  BY <1>1, Serving DEF Underway, Phases, Active
<1>3. CategoryLimit[k] \in Nat /\ d.amount \in Nat
  BY <1>2, DetailsAssumption, LimitAssumption DEF Details, Limited
<1>4. ASSUME NEW e \in after, ~Live(e) PROVE FALSE
  <2>1. e \in Claims /\ Live(e)' /\ claim'[e].owner = u
    BY <1>4 DEF Counted
  <2>2. PICK s \in Slots : /\ SubmitCommit(s) /\ claim[e].owner = req[s].user
                           /\ claim'[e].owner = claim[e].owner
    BY <1>4, <2>1, NewlyLive
  <2>3. req[s].phase \in Underway
    BY <2>2 DEF SubmitCommit, Underway, Phases
  <2>4. s = q
    BY <1>2, <2>1, <2>2, <2>3 DEF OneRequestPerUser
  <2>5. req'[s].phase \in {"idle", "notify"}
    BY <1>1, <2>2, RequestEnds
  <2> QED BY <1>2, <2>4, <2>5
<1>5. after \ {c} \subseteq before \ {c}
  BY <1>4, CountedBefore
<1>6. Total(AmountOf', after \ {c}) <= Spent(before \ {c})
  BY <1>1, <1>4, <1>5, SpendsNoMore
<1>7. Total(AmountOf', after \ {c}) \in Nat /\ Spent(before \ {c}) \in Nat
  <2>1. TypeOK' /\ IsFiniteSet(LiveClaims')
    BY <1>1, FewLive, TypeNext
  <2> QED BY <1>1, <2>1, CountedFinite, CountedFiniteNext
<1>8. Spent(before \ {c}) + d.amount <= CategoryLimit[k]
  BY DEF LimitInv, LimitsChecked, Within
<1> QED BY <1>3, <1>6, <1>7, <1>8

(* Where the claims do not change, nor does what is spent.                 *)
LEMMA WithinFrame ==
    ASSUME claim' = claim, NEW p, NEW u, NEW c, NEW d, Within(p, u, c, d)
    PROVE  Within(p, u, c, d)'
BY DEF Within, Counted, Spent, AmountOf, Live, Limited

(* The step of a request finds out whether it is within the limit.         *)
LEMMA ActingWithin ==
    ASSUME HistoryInv, LimitsInForce, LimitInv,
           NEW q \in Slots, Acts(q), NEW p, NEW u, NEW c, NEW d,
           p = req'[q].phase, u = req'[q].user, c = req'[q].claim, d = req'[q].seen
    PROVE  Within(p, u, c, d)'
<1> USE DEF tables
<1>0. /\ TypeOK /\ req \in [Slots -> Request]
      /\ IsFiniteSet(LiveClaims) /\ LimitsChecked
  BY DEF HistoryInv, WorkflowInv, TypeOK, LimitInv
<1>1. ASSUME NEW v \in Users, NEW e \in Claims,
             \/ \E x \in Details : UpdateCheck(q, v, e, x)
             \/ DeleteCheck(q, v, e) \/ AttachCheck(q, v, e)
             \/ SubmitRead(q, v, e)
      PROVE  p \in {"update", "delete", "putObject", "policy"}
  <2>1. ASSUME NEW x \in Details, UpdateCheck(q, v, e, x) PROVE p = "update"
    BY <1>0, <2>1 DEF UpdateCheck, Task
  <2>2. ASSUME DeleteCheck(q, v, e) PROVE p = "delete"
    BY <1>0, <2>2 DEF DeleteCheck, Task
  <2>3. ASSUME AttachCheck(q, v, e) PROVE p = "putObject"
    BY <1>0, <2>3 DEF AttachCheck, Task
  <2>4. ASSUME SubmitRead(q, v, e) PROVE p = "policy"
    BY <1>0, <2>4 DEF SubmitRead, Task
  <2> QED BY <1>1, <2>1, <2>2, <2>3, <2>4
<1>2. CASE AttachPutObject(q)
  BY <1>0, <1>2, Serving DEF AttachPutObject, Active, Within
<1>3. CASE SubmitPolicyCheck(q)
  <2>1. req[q].phase = "policy" /\ req' = [req EXCEPT ![q].phase = "duplicate"]
    BY <1>3 DEF SubmitPolicyCheck
  <2>2. req[q] \in Active
    BY <1>0, <2>1, Serving
  <2>3. /\ u = req[q].user /\ c = req[q].claim /\ d = req[q].seen
        /\ d \in Details
    BY <1>0, <2>1, <2>2 DEF Active
  <2>4. ASSUME Limited(d.cat)
        PROVE  Spent(Counted(u, d.cat, MonthOf[d.date]) \ {c}) + d.amount
                 <= CategoryLimit[d.cat]
    <3>1. /\ d.cat \in Categories /\ d.amount \in Nat
          /\ CategoryLimit[d.cat] \in Nat /\ CategoryLimit[d.cat] # NoLimit
          /\ LimitInForce(d.cat) = CategoryLimit[d.cat]
      BY <2>3, <2>4, DetailsAssumption, LimitAssumption
         DEF Details, LimitsInForce, LimitInForce, Limited
    <3>2. ~OverMonthlyLimit(claim, CategoryLimit[d.cat], u, d.cat, d.date,
                            d.amount, c)
      BY <1>3, <2>3, <3>1 DEF SubmitPolicyCheck
    <3> QED BY <1>0, <3>1, <3>2, NotOverLimit
  <2>5. Within(p, u, c, d)
    BY <2>4 DEF Within
  <2> QED BY <1>3, <2>5, WithinFrame DEF SubmitPolicyCheck
<1>4. CASE SubmitDuplicateCheck(q)
  <2>1. req[q].phase = "duplicate" /\ req' = [req EXCEPT ![q].phase = "submit"]
    BY <1>4 DEF SubmitDuplicateCheck
  <2>2. req[q] \in Active
    BY <1>0, <2>1, Serving
  <2>3. u = req[q].user /\ c = req[q].claim /\ d = req[q].seen
    BY <1>0, <2>1, <2>2 DEF Active
  <2>4. Within("duplicate", u, c, d)
    BY <1>0, <2>1, <2>3 DEF LimitsChecked
  <2>5. Within(p, u, c, d)
    BY <2>4 DEF Within
  <2> QED BY <1>4, <2>5, WithinFrame DEF SubmitDuplicateCheck
<1>5. CASE p \notin {"duplicate", "submit"}
  BY <1>5 DEF Within
<1> QED BY <1>1, <1>2, <1>3, <1>4, <1>5 DEF Acts

(* Every step keeps the limits and what was checked of them, while no user *)
(* has two requests under way and no limit is lifted.                      *)
LEMMA LimitInvNext ==
    (/\ HistoryInv /\ ChecksHold /\ OneRequestPerUser
     /\ LimitsInForce /\ LimitInv /\ [Next]_vars)
      => LimitInv'
<1> SUFFICES ASSUME HistoryInv, ChecksHold, OneRequestPerUser,
                    LimitsInForce, LimitInv, [Next]_vars
             PROVE  LimitInv'
  OBVIOUS
<1>1. TypeOK
  BY DEF HistoryInv, WorkflowInv
<1>2. IsFiniteSet(LiveClaims)'
  BY FewLive DEF LimitInv
<1>3. LimitsKept'
  BY LimitsNext
<1>4. ASSUME NEW q \in Slots
      PROVE  Within(req[q].phase, req[q].user, req[q].claim, req[q].seen)'
  <2>1. CASE req'[q] = req[q]
    BY <2>1, WaitingWithin
  <2>2. CASE Acts(q)
    BY <2>2, ActingWithin
  <2> QED BY <1>1, <2>1, <2>2, SlotSteps
<1> QED BY <1>2, <1>3, <1>4 DEF LimitInv, LimitsChecked

-----------------------------------------------------------------------------
(* The approval matrix.                                                    *)

(* Nobody's role leaves the roles an administrator may give them.          *)
RolesHeld == \A u \in Users : role[u] \in MayHold[u]

(* The path a Submit carries is that of the amount it read, for a role of  *)
(* its user.                                                               *)
PathOfAmount ==
    \A p \in Slots : req[p].phase \in {"policy", "duplicate", "submit"} =>
        \E r \in MayHold[req[p].user] :
           req[p].chain = ExcludeSubmitter(ApprovalChain(req[p].seen.amount), r)

(* The steps of a live claim are the path of its amount, for a role of its *)
(* owner.                                                                  *)
PathTaken(c) ==
    \E r \in MayHold[claim[c].owner] :
        RolesOf(approvals[c]) = ExcludeSubmitter(ApprovalChain(claim[c].amount), r)
PathsTaken == \A c \in Claims : Live(c) => PathTaken(c)

(* Only ChangeRole writes roles.                                           *)
LEMMA RolesNext == TypeOK /\ RolesHeld /\ [Next]_vars => RolesHeld'
<1> SUFFICES ASSUME TypeOK, RolesHeld, [Next]_vars PROVE RolesHeld'
  OBVIOUS
<1> USE DEF directory
<1>1. ASSUME NEW p \in Slots, NEW u \in Users, NEW c \in Claims, Start(p, u, c)
      PROVE  role' = role
  BY <1>1 DEF Start, EditRequest, WorkflowRequest, Create, UpdateCheck,
     DeleteCheck, AttachCheck, SubmitRead, Approve, Reject, Cancel, Pay
<1>2. ASSUME NEW p \in Slots, Continue(p)
      PROVE  role' = role
  BY <1>2 DEF Continue, UpdateWrite, DeleteWrite, AttachPutObject, AttachInsert,
     SubmitPolicyCheck, SubmitDuplicateCheck, SubmitCommit, NotifyEmployee, Abort
<1>3. ASSUME NEW u \in Users, NEW r \in Roles, ChangeRole(u, r)
      PROVE  RolesHeld'
  BY <1>3 DEF ChangeRole, RolesHeld, TypeOK
<1>4. ASSUME \/ \E u \in Users : ExpireTokens(u)
             \/ \E k \in MayDeactivate : SwitchCategory(k)
             \/ UNCHANGED vars
      PROVE  role' = role
  BY <1>4 DEF ExpireTokens, SwitchCategory, vars
<1>5. role' = role => RolesHeld'
  BY DEF RolesHeld
<1> QED BY <1>1, <1>2, <1>3, <1>4, <1>5 DEF Next

(* The path is computed by SubmitRead and carried along.                   *)
LEMMA PathNext ==
    TypeOK /\ RolesHeld /\ PathOfAmount /\ [Next]_vars => PathOfAmount'
<1> SUFFICES ASSUME TypeOK, RolesHeld, PathOfAmount, [Next]_vars,
                    NEW q \in Slots,
                    req'[q].phase \in {"policy", "duplicate", "submit"}
             PROVE  \E r \in MayHold[req'[q].user] :
                      req'[q].chain = ExcludeSubmitter(
                                        ApprovalChain(req'[q].seen.amount), r)
  BY DEF PathOfAmount
<1>0. req \in [Slots -> Request]
  BY DEF TypeOK
<1>1. CASE req'[q] = req[q]
  BY <1>1 DEF PathOfAmount
<1>2. ASSUME NEW u \in Users, NEW c \in Claims, SubmitRead(q, u, c)
      PROVE  /\ req'[q].user = u
             /\ req'[q].chain = ExcludeSubmitter(
                                  ApprovalChain(req'[q].seen.amount), role[u])
  BY <1>0, <1>2 DEF SubmitRead, Task, DetailsOf
<1>3. CASE SubmitPolicyCheck(q) \/ SubmitDuplicateCheck(q)
  <2>1. /\ req[q].phase \in {"policy", "duplicate"}
        /\ \/ req' = [req EXCEPT ![q].phase = "duplicate"]
           \/ req' = [req EXCEPT ![q].phase = "submit"]
    BY <1>3 DEF SubmitPolicyCheck, SubmitDuplicateCheck
  <2>2. req[q] \in Active
    BY <2>1, Serving
  <2>3. /\ req'[q].user = req[q].user /\ req'[q].chain = req[q].chain
        /\ req'[q].seen = req[q].seen
    <3>1. CASE req' = [req EXCEPT ![q].phase = "duplicate"]
      BY <1>0, <2>2, <3>1 DEF Active
    <3>2. CASE req' = [req EXCEPT ![q].phase = "submit"]
      BY <1>0, <2>2, <3>2 DEF Active
    <3> QED BY <2>1, <3>1, <3>2
  <2> QED BY <2>1, <2>3 DEF PathOfAmount
<1>4. ASSUME NEW u \in Users, NEW c \in Claims, NEW d \in Details,
             \/ UpdateCheck(q, u, c, d) \/ DeleteCheck(q, u, c)
             \/ AttachCheck(q, u, c)
      PROVE  FALSE
  <2>1. PICK phase \in {"update", "delete", "putObject"} : \E seen, subject :
           req' = [req EXCEPT ![q] = Task(phase, u, c, seen, <<>>, subject)]
    BY <1>4 DEF UpdateCheck, DeleteCheck, AttachCheck
  <2>2. req'[q].phase = phase
    BY <1>0, <2>1 DEF Task
  <2> QED BY <2>1, <2>2
<1>5. ASSUME AttachPutObject(q) PROVE FALSE
  BY <1>0, <1>5, Serving DEF AttachPutObject, Active
<1>6. req'[q] = req[q] \/ Acts(q)
  BY SlotSteps
<1>7. \E d \in Details : TRUE
  BY NoDetailsType
<1> QED BY <1>1, <1>2, <1>3, <1>4, <1>5, <1>6, <1>7 DEF Acts, RolesHeld

(* A decision keeps the roles of the steps.                                *)
LEMMA DecidedRoles ==
    ASSUME NEW steps \in Seq(Steps), NEW i \in 1..Len(steps), NEW u, NEW status
    PROVE  RolesOf(Decided(steps, i, status, u)) = RolesOf(steps)
<1> DEFINE t == Decided(steps, i, status, u)
<1>1. DOMAIN t = DOMAIN steps
  BY DEF Decided
<1>2. ASSUME NEW j \in DOMAIN steps PROVE t[j].role = steps[j].role
  BY DEF Decided
<1> HIDE DEF t
<1> QED BY <1>1, <1>2 DEF RolesOf, t

(* Only a submission gives a claim other roles to pass.                    *)
LEMMA StepRolesStay ==
    ASSUME TypeOK, [Next]_vars, NEW c \in Claims
    PROVE  \/ RolesOf(approvals'[c]) = RolesOf(approvals[c])
           \/ \E p \in Slots : SubmitCommit(p) /\ req[p].claim = c
<1> DEFINE Stays == RolesOf(approvals'[c]) = RolesOf(approvals[c])
<1> USE DEF tables
<1>1. ASSUME NEW p \in Slots, NEW u \in Users, NEW e \in Claims, Start(p, u, e)
      PROVE  Stays
  <2> DEFINE i == NextPending(approvals[e])
  <2>1. ASSUME NEW d \in Details, Create(p, u, e, d) PROVE Stays
    BY <2>1 DEF Create
  <2>2. ASSUME NEW d \in Details, UpdateCheck(p, u, e, d) PROVE Stays
    BY <2>2 DEF UpdateCheck
  <2>3. CASE \/ DeleteCheck(p, u, e) \/ AttachCheck(p, u, e)
             \/ SubmitRead(p, u, e) \/ Cancel(p, u, e) \/ Pay(p, u, e)
    BY <2>3 DEF DeleteCheck, AttachCheck, SubmitRead, Cancel, Pay
  <2>4. ASSUME NEW r \in Roles, Approve(p, u, r, e) \/ Reject(p, u, r, e)
        PROVE  Stays
    <3>1. PICK status :
            approvals' = [approvals EXCEPT ![e] = Decided(@, i, status, u)]
      BY <2>4 DEF Approve, Reject
    <3>2. approvals[e] \in Seq(Steps) /\ i \in 1..Len(approvals[e])
      BY <2>4, FirstPending DEF Approve, Reject, MayDecide, TypeOK
    <3> HIDE DEF i
    <3>3. CASE c = e
      <4>1. approvals'[c] = Decided(approvals[c], i, status, u)
        BY <3>1, <3>3 DEF TypeOK
      <4> QED BY <3>2, <3>3, <4>1, DecidedRoles
    <3>4. CASE c # e
      BY <3>1, <3>4 DEF TypeOK
    <3> QED BY <3>3, <3>4
  <2> HIDE DEF Stays
  <2> QED BY <1>1, <2>1, <2>2, <2>3, <2>4 DEF Start, EditRequest, WorkflowRequest
<1>2. ASSUME NEW p \in Slots, Continue(p)
      PROVE  Stays \/ (SubmitCommit(p) /\ req[p].claim = c)
  <2>1. CASE SubmitCommit(p) /\ req[p].claim # c
    BY <2>1 DEF SubmitCommit, TypeOK
  <2>2. CASE \/ UpdateWrite(p) \/ DeleteWrite(p) \/ AttachPutObject(p)
             \/ AttachInsert(p) \/ SubmitPolicyCheck(p) \/ SubmitDuplicateCheck(p)
             \/ NotifyEmployee(p) \/ Abort(p)
    BY <2>2 DEF UpdateWrite, DeleteWrite, AttachPutObject, AttachInsert,
       SubmitPolicyCheck, SubmitDuplicateCheck, NotifyEmployee, Abort
  <2> QED BY <1>2, <2>1, <2>2 DEF Continue
<1>3. ASSUME \/ \E u \in Users : \/ ExpireTokens(u)
                                 \/ \E r \in Roles : ChangeRole(u, r)
             \/ \E k \in MayDeactivate : SwitchCategory(k)
             \/ UNCHANGED vars
      PROVE  Stays
  BY <1>3 DEF ExpireTokens, ChangeRole, SwitchCategory, vars
<1> HIDE DEF Stays
<1> QED BY <1>1, <1>2, <1>3 DEF Next, Stays

(* Every step keeps the paths of the live claims.                          *)
LEMMA TakenNext ==
    HistoryInv /\ ChecksHold /\ PathOfAmount /\ PathsTaken /\ [Next]_vars
      => PathsTaken'
<1> SUFFICES ASSUME HistoryInv, ChecksHold, PathOfAmount, PathsTaken,
                    [Next]_vars, NEW c \in Claims, Live(c)'
             PROVE  PathTaken(c)'
  BY DEF PathsTaken
<1>0. TypeOK
  BY DEF HistoryInv, WorkflowInv
<1>1. CASE Live(c)
  <2>1. claim'[c].amount = claim[c].amount /\ claim'[c].owner = claim[c].owner
    BY <1>0, <1>1, LiveKeeps DEF DetailsKept
  <2>2. RolesOf(approvals'[c]) = RolesOf(approvals[c])
    <3>1. ASSUME NEW p \in Slots, SubmitCommit(p), req[p].claim = c PROVE FALSE
      BY <1>1, <3>1 DEF SubmitCommit, CanTransition, Live
    <3> QED BY <1>0, <3>1, StepRolesStay
  <2> QED BY <1>1, <2>1, <2>2 DEF PathsTaken, PathTaken
<1>2. CASE ~Live(c)
  <2>1. PICK p \in Slots :
          /\ SubmitCommit(p) /\ req[p].claim = c /\ req[p].seen = DetailsOf(c)
          /\ claim[c].owner = req[p].user
          /\ claim'[c].amount = claim[c].amount
          /\ claim'[c].owner = claim[c].owner
    BY <1>2, NewlyLive DEF DetailsKept
  <2>2. PICK r \in MayHold[req[p].user] :
          req[p].chain = ExcludeSubmitter(ApprovalChain(req[p].seen.amount), r)
    BY <2>1 DEF SubmitCommit, PathOfAmount
  <2>3. req[p].chain = ExcludeSubmitter(ApprovalChain(claim'[c].amount), r)
        /\ r \in MayHold[claim'[c].owner]
    BY <2>1, <2>2 DEF DetailsOf
  <2>4. RolesOf(approvals'[c]) = req[p].chain
    <3>1. approvals'[c] = Snapshot(req[p].chain)
      BY <1>0, <2>1 DEF SubmitCommit, TypeOK
    <3>2. req[p].chain \in Seq(ApproverRoles)
      BY <1>0, <2>1, Serving DEF SubmitCommit, Active
    <3>3. /\ DOMAIN Snapshot(req[p].chain) = 1..Len(req[p].chain)
          /\ \A i \in 1..Len(req[p].chain) :
               Snapshot(req[p].chain)[i].role = req[p].chain[i]
      BY DEF Snapshot, Pending
    <3>4. req[p].chain = [i \in 1..Len(req[p].chain) |-> req[p].chain[i]]
      BY <3>2
    <3> QED BY <3>1, <3>3, <3>4 DEF RolesOf
  <2> QED BY <2>3, <2>4 DEF PathTaken
<1> QED BY <1>1, <1>2

(* Leaving a role out of a path drops one element, or none.                *)
LEMMA ExcludeIs ==
    ASSUME NEW S, NEW chain \in Seq(S), NEW r,
           NEW path, path = ExcludeSubmitter(chain, r)
    PROVE  \/ path = chain /\ \A i \in 1..Len(chain) : chain[i] # r
           \/ \E k \in 1..Len(chain) :
                /\ chain[k] = r
                /\ DOMAIN path = 1..(Len(chain) - 1)
                /\ \A j \in 1..(k - 1) : path[j] = chain[j]
                /\ \A j \in k..(Len(chain) - 1) : path[j] = chain[j + 1]
<1> DEFINE I == {i \in 1..Len(chain) : chain[i] = r}
<1>1. CASE \E i \in 1..Len(chain) : chain[i] = r
  <2>1. I # {} /\ I \subseteq Nat
    BY <1>1
  <2>2. \E m \in I : \A n \in I : m <= n
    BY <2>1, LeastElement
  <2>3. Min(I) \in I
    BY <2>2 DEF Min
  <2>4. SelectInSeq(chain, LAMBDA v : v = r) = Min(I)
    BY <2>1 DEF SelectInSeq
  <2>5. PICK k \in 1..Len(chain) : k = Min(I) /\ chain[k] = r
    BY <2>3
  <2> HIDE DEF I
  <2> DEFINE a == SubSeq(chain, 1, k - 1)
             b == SubSeq(chain, k + 1, Len(chain))
  <2>6. path = a \o b
    BY <1>1, <2>4, <2>5 DEF ExcludeSubmitter, RemoveFirst, RemoveAt
  <2>7. /\ a \in Seq(S) /\ Len(a) = k - 1
        /\ \A j \in 1..(k - 1) : a[j] = chain[j]
    OBVIOUS
  <2>8. /\ b \in Seq(S) /\ Len(b) = Len(chain) - k
        /\ \A j \in 1..(Len(chain) - k) : b[j] = chain[k + j]
    OBVIOUS
  <2> HIDE DEF a, b
  <2>9. /\ DOMAIN path = 1..(Len(chain) - 1)
        /\ \A j \in 1..(k - 1) : path[j] = chain[j]
    BY <2>6, <2>7, <2>8
  <2>10. ASSUME NEW j \in k..(Len(chain) - 1) PROVE path[j] = chain[j + 1]
    <3>1. path[j] = b[j - (k - 1)]
      BY <2>6, <2>7, <2>8
    <3>2. j - (k - 1) \in 1..(Len(chain) - k) /\ k + (j - (k - 1)) = j + 1
      OBVIOUS
    <3> QED BY <2>8, <3>1, <3>2
  <2> QED BY <2>5, <2>9, <2>10
<1>2. CASE ~ \E i \in 1..Len(chain) : chain[i] = r
  BY <1>2 DEF ExcludeSubmitter, RemoveFirst
<1> QED BY <1>1, <1>2

(* A path in the order of the matrix, and the roles on it.                 *)
Rising(path) ==
    \A i, j \in DOMAIN path : i < j => Rank[path[i]] < Rank[path[j]]
OnPath(path) == {path[i] : i \in DOMAIN path}

(* The matrix ranks the roles it knows.                                    *)
LEMMA RankType == \A r \in ApproverRoles : Rank[r] \in Nat
BY DEF Rank, ApproverRoles

(* Leaving the submitter out of an ordered path takes that role away and   *)
(* nothing else.                                                           *)
LEMMA ExcludeKeepsOrder ==
    ASSUME NEW chain \in Seq(ApproverRoles), Rising(chain), NEW r,
           NEW path, path = ExcludeSubmitter(chain, r)
    PROVE  Rising(path) /\ OnPath(path) = OnPath(chain) \ {r}
<1>0. DOMAIN chain = 1..Len(chain) /\ Len(chain) \in Nat
      /\ \A i \in 1..Len(chain) : chain[i] \in ApproverRoles
  BY LenProperties
<1>1. CASE path = chain /\ \A i \in 1..Len(chain) : chain[i] # r
  BY <1>0, <1>1 DEF OnPath
<1>2. ASSUME NEW k \in 1..Len(chain), chain[k] = r,
             DOMAIN path = 1..(Len(chain) - 1),
             \A j \in 1..(k - 1) : path[j] = chain[j],
             \A j \in k..(Len(chain) - 1) : path[j] = chain[j + 1]
      PROVE  Rising(path) /\ OnPath(path) = OnPath(chain) \ {r}
  <2> DEFINE At(j) == IF j < k THEN j ELSE j + 1
  <2>1. ASSUME NEW j \in 1..(Len(chain) - 1)
        PROVE  /\ path[j] = chain[At(j)] /\ At(j) \in 1..Len(chain)
               /\ At(j) # k
    <3>1. j < k => j \in 1..(k - 1)
      BY <1>0
    <3>2. ~(j < k) => j \in k..(Len(chain) - 1)
      BY <1>0
    <3> QED BY <1>0, <1>2, <3>1, <3>2
  <2>2. ASSUME NEW i \in 1..(Len(chain) - 1), NEW j \in 1..(Len(chain) - 1), i < j
        PROVE  At(i) < At(j)
    BY <1>0, <2>2
  <2>3. ASSUME NEW i \in 1..Len(chain), i # k
        PROVE  /\ chain[i] # r
               /\ \E j \in 1..(Len(chain) - 1) : At(j) = i
    <3>1. i < k \/ k < i
      BY <1>0, <2>3
    <3>2. Rank[chain[i]] < Rank[chain[k]] \/ Rank[chain[k]] < Rank[chain[i]]
      BY <1>0, <3>1 DEF Rising
    <3>3. chain[i] # r
      BY <1>0, <1>2, <3>2, RankType
    <3>4. CASE i < k
      <4>1. i \in 1..(Len(chain) - 1) /\ At(i) = i
        BY <1>0, <3>4
      <4> QED BY <3>3, <4>1
    <3>5. CASE k < i
      <4>1. i - 1 \in 1..(Len(chain) - 1) /\ At(i - 1) = i
        BY <1>0, <3>5
      <4> QED BY <3>3, <4>1
    <3> QED BY <3>1, <3>4, <3>5
  <2> HIDE DEF At
  <2>4. Rising(path)
    BY <1>0, <1>2, <2>1, <2>2 DEF Rising
  <2>5. OnPath(path) \subseteq OnPath(chain) \ {r}
    BY <1>0, <1>2, <2>1, <2>3 DEF OnPath
  <2>6. ASSUME NEW x \in OnPath(chain), x # r PROVE x \in OnPath(path)
    <3>1. PICK i \in 1..Len(chain) : chain[i] = x
      BY <1>0 DEF OnPath
    <3>2. PICK j \in 1..(Len(chain) - 1) : At(j) = i
      BY <1>2, <2>3, <2>6, <3>1
    <3> QED BY <1>2, <2>1, <3>1, <3>2 DEF OnPath
  <2> QED BY <2>4, <2>5, <2>6
<1> QED BY <1>1, <1>2, ExcludeIs

(* The path of an amount names the roles the amount calls for, in order.   *)
LEMMA ChainOfAmount ==
    ASSUME NEW amount \in Nat, T1 <= T2,
           NEW chain, chain = ApprovalChain(amount)
    PROVE  /\ chain \in Seq(ApproverRoles) /\ Rising(chain)
           /\ OnPath(chain) = RequiredRoles(amount, "employee")
<1>0. T1 \in Nat /\ T2 \in Nat
  BY TierAssumption
<1>1. (Above(amount, T1) <=> amount > T1) /\ (Above(amount, T2) <=> amount > T2)
  BY <1>0, AboveIsGreater
<1>2. Rank["manager"] = 1 /\ Rank["finance"] = 2 /\ Rank["admin"] = 3
  BY DEF Rank
<1>3. CASE ~(amount > T1)
  <2>1. chain = <<"manager">> /\ ~(amount > T2)
    BY <1>0, <1>1, <1>3 DEF ApprovalChain
  <2>2. chain \in Seq(ApproverRoles) /\ Rising(chain) /\ OnPath(chain) = {"manager"}
    BY <2>1 DEF ApproverRoles, Rising, OnPath
  <2>3. RequiredRoles(amount, "employee") = {"manager"}
    BY <1>3, <2>1 DEF RequiredRoles, ApproverRoles
  <2> QED BY <2>2, <2>3
<1>4. CASE amount > T1 /\ ~(amount > T2)
  <2>1. chain = <<"manager", "finance">>
    BY <1>1, <1>4 DEF ApprovalChain
  <2>2. /\ chain \in Seq(ApproverRoles) /\ Rising(chain)
        /\ OnPath(chain) = {"manager", "finance"}
    BY <1>2, <2>1 DEF ApproverRoles, Rising, OnPath
  <2>3. RequiredRoles(amount, "employee") = {"manager", "finance"}
    BY <1>4 DEF RequiredRoles, ApproverRoles
  <2> QED BY <2>2, <2>3
<1>5. CASE amount > T1 /\ amount > T2
  <2>1. chain = <<"manager", "finance", "admin">>
    BY <1>1, <1>5 DEF ApprovalChain
  <2>2. /\ chain \in Seq(ApproverRoles) /\ Rising(chain)
        /\ OnPath(chain) = {"manager", "finance", "admin"}
    <3>1. DOMAIN chain = {1, 2, 3} /\ chain[1] = "manager"
          /\ chain[2] = "finance" /\ chain[3] = "admin"
      BY <2>1
    <3> QED BY <1>2, <2>1, <3>1 DEF ApproverRoles, Rising, OnPath
  <2>3. RequiredRoles(amount, "employee") = {"manager", "finance", "admin"}
    BY <1>5 DEF RequiredRoles, ApproverRoles
  <2> QED BY <2>2, <2>3
<1> QED BY <1>3, <1>4, <1>5

(* So a path taken follows the matrix.                                     *)
LEMMA PathFollowsMatrix ==
    ASSUME NEW amount \in Nat, T1 <= T2, NEW r, NEW path,
           path = ExcludeSubmitter(ApprovalChain(amount), r)
    PROVE  FollowsMatrix(path, amount, r)
<1>1. /\ ApprovalChain(amount) \in Seq(ApproverRoles)
      /\ Rising(ApprovalChain(amount))
      /\ OnPath(ApprovalChain(amount)) = RequiredRoles(amount, "employee")
  BY ChainOfAmount
<1>2. Rising(path) /\ OnPath(path) = RequiredRoles(amount, "employee") \ {r}
  BY <1>1, ExcludeKeepsOrder
<1>3. RequiredRoles(amount, "employee") \ {r} = RequiredRoles(amount, r)
  BY DEF RequiredRoles, ApproverRoles
<1> QED BY <1>2, <1>3 DEF FollowsMatrix, Rising, OnPath

-----------------------------------------------------------------------------
(* What changes when.                                                      *)

(* No step edits or deletes a claim outside its window, as long as what an *)
(* edit or a deletion has checked still holds when it writes.              *)
LEMMA EditNext ==
    TypeOK /\ ChecksHold /\ [Next]_vars => \A c \in Claims : DetailsStep(c)
<1> SUFFICES ASSUME TypeOK, ChecksHold, [Next]_vars, NEW c \in Claims
             PROVE  DetailsStep(c)
  OBVIOUS
<1>1. ASSUME NEW p \in Slots, By(p, c)
      PROVE  /\ DetailsOf(c)' # DetailsOf(c) => EditableStatus(claim[c].status)
             /\ claim'[c].deleted # claim[c].deleted => claim[c].status = "DRAFT"
  <2>1. Holds(req[p].phase, c, req[p].seen)
    BY <1>1 DEF ChecksHold, By
  <2>2. CASE UpdateWrite(p) /\ claim'[c].deleted = claim[c].deleted
    BY <2>1, <2>2 DEF UpdateWrite, Holds
  <2>3. CASE DeleteWrite(p) /\ DetailsKept(c)
    BY <2>1, <2>3 DEF DeleteWrite, Holds, DeletableStatus, DetailsKept, DetailsOf
  <2>4. CASE SubmitCommit(p) /\ claim'[c].deleted = claim[c].deleted /\ DetailsKept(c)
    BY <2>4 DEF DetailsKept, DetailsOf
  <2> QED BY <1>1, <2>2, <2>3, <2>4 DEF By
<1>2. CASE Moved(c)
  BY <1>2 DEF Moved, DetailsKept, DetailsOf, DetailsStep
<1>3. CASE claim'[c] = claim[c]
  BY <1>3 DEF DetailsOf, DetailsStep
<1>4. Touched(c)
  BY RowWrites
<1> QED BY <1>1, <1>2, <1>3, <1>4 DEF Touched, EditableStatus, DetailsStep

-----------------------------------------------------------------------------
(* The theorems.                                                           *)

(* What the rules rest on, and the rules it is enough for.                 *)
RulesInv ==
    /\ HistoryInv /\ ChecksHold
    /\ RolesHeld /\ PathOfAmount /\ PathsTaken
    /\ LargeClaimsHaveReceipt /\ NoLiveDuplicates

(* Nothing is under way and nothing is live in the beginning.              *)
LEMMA RulesInit == Init => RulesInv
<1> SUFFICES ASSUME Init PROVE RulesInv
  OBVIOUS
<1>1. HistoryInv
  BY HistoryInit
<1>2. \A q \in Slots : req[q].phase = "idle"
  BY DEF Init, Idle
<1>3. \A c \in Claims : ~Live(c)
  BY DEF Init, Unused, Live
<1>4. RolesHeld
  BY DEF Init, RolesHeld
<1> QED BY <1>1, <1>2, <1>3, <1>4 DEF RulesInv, ChecksHold, Holds,
        PathOfAmount, PathsTaken, LargeClaimsHaveReceipt, NoLiveDuplicates

(* While no user has two requests under way, every step keeps the rules.   *)
LEMMA RulesNext == RulesInv /\ OneRequestPerUser /\ [Next]_vars => RulesInv'
<1>1. RulesInv => TypeOK
  BY DEF RulesInv, HistoryInv, WorkflowInv
<1> QED BY <1>1, HistoryNext, ChecksNext, RolesNext, PathNext, TakenNext,
        ReceiptRuleNext, DuplicateRuleNext DEF RulesInv

(* Rule 3 holds in every run in which no user has two requests under way:  *)
(* the receipt counted before the transaction is still there after it, and *)
(* the amount it was counted for is the one submitted.                     *)
THEOREM ReceiptRule == Spec /\ []OneRequestPerUser => []LargeClaimsHaveReceipt
<1>1. RulesInv => LargeClaimsHaveReceipt
  BY DEF RulesInv
<1> QED BY <1>1, RulesInit, RulesNext, PTL DEF Spec

(* And so does rule 4: what FindDuplicate did not find before the          *)
(* transaction is not live when it commits.                                *)
THEOREM DuplicateRule == Spec /\ []OneRequestPerUser => []NoLiveDuplicates
<1>1. RulesInv => NoLiveDuplicates
  BY DEF RulesInv
<1> QED BY <1>1, RulesInit, RulesNext, PTL DEF Spec

(* Nothing is live in the beginning, and nothing spent.                    *)
LEMMA LimitInit == Init => LimitInv
<1> SUFFICES ASSUME Init PROVE LimitInv
  OBVIOUS
<1>1. \A c \in Claims : ~Live(c)
  BY DEF Init, Unused, Live
<1>2. LiveClaims = {} /\ \A u, k, m : Counted(u, k, m) = {}
  BY <1>1 DEF LiveClaims, Counted
<1>3. IsFiniteSet({}) /\ Spent({}) = 0
  BY FS_EmptySet, SumStep DEF Spent
<1>4. \A q \in Slots : req[q].phase = "idle"
  BY DEF Init, Idle
<1>5. LimitsKept
  BY <1>2, <1>3, LimitAssumption DEF LimitsKept, Limited
<1> QED BY <1>2, <1>3, <1>4, <1>5 DEF LimitInv, LimitsChecked, Within

(* Rule 2 holds in every run in which no user has two requests under way   *)
(* and no category with a limit is switched off: the live claims of an     *)
(* employee in a category and month sum up to no more than its limit, as   *)
(* Submit found before its transaction.                                    *)
THEOREM LimitRule ==
    Spec /\ []OneRequestPerUser /\ []LimitsInForce => []MonthlyLimitHolds
<1> DEFINE Inv == RulesInv /\ LimitInv
<1>1. Init => Inv
  BY RulesInit, LimitInit
<1>2. Inv /\ OneRequestPerUser /\ LimitsInForce /\ [Next]_vars => Inv'
  BY RulesNext, LimitInvNext DEF RulesInv
<1>3. Inv => MonthlyLimitHolds
  <2> SUFFICES ASSUME RulesInv, LimitInv, NEW c \in Claims, Live(c),
                      ~claim[c].deleted, Limited(claim[c].cat)
               PROVE  MonthlyCategorySpend(claim, claim[c].owner, claim[c].cat,
                                           claim[c].date, c) + claim[c].amount
                        <= CategoryLimit[claim[c].cat]
    BY DEF MonthlyLimitHolds, Limited
  <2> DEFINE T == Counted(claim[c].owner, claim[c].cat, MonthOf[claim[c].date])
  <2>1. /\ TypeOK /\ OwnedClaims /\ IsFiniteSet(LiveClaims) /\ LimitsKept
    BY DEF RulesInv, HistoryInv, WorkflowInv, LimitInv
  <2>2. /\ claim[c].owner \in Users /\ claim[c].cat \in Categories
        /\ claim[c].date \in Dates /\ claim[c].amount \in Nat
    <3>1. claim[c] \in Row
      BY <2>1 DEF TypeOK
    <3> QED BY <2>1, <3>1, DetailsAssumption DEF Row, OwnedClaims, Live
  <2>3. Spent(T) <= CategoryLimit[claim[c].cat]
    BY <2>1, <2>2 DEF LimitsKept
  <2>4. /\ c \in T /\ IsFiniteSet(T) /\ AmountOf[c] = claim[c].amount
        /\ \A e \in T : AmountOf[e] \in Nat
    <3>1. c \in T /\ AmountOf[c] = claim[c].amount
      BY DEF Counted, AmountOf
    <3> HIDE DEF AmountOf
    <3>2. IsFiniteSet(T) /\ \A e \in T : AmountOf[e] \in Nat
      BY <2>1, CountedFinite
    <3> QED BY <3>1, <3>2
  <2>5. Spent(T) = claim[c].amount + Spent(T \ {c})
    <3> HIDE DEF T, AmountOf
    <3> QED BY <2>4, SumTakes DEF Spent
  <2>6. Spent(T \ {c}) \in Nat
    BY <2>1, CountedFinite
  <2>7. MonthlyCategorySpend(claim, claim[c].owner, claim[c].cat,
                             claim[c].date, c) = Spent(T \ {c})
    BY <2>1, SpendIs
  <2> QED BY <2>2, <2>3, <2>5, <2>6, <2>7
<1> HIDE DEF Inv
<1> QED BY <1>1, <1>2, <1>3, PTL DEF Spec

(* The approval matrix, while no user has two requests under way: a live   *)
(* claim carries the steps its amount calls for, one of the roles its      *)
(* owner may have had left out.  The tiers have to be in order, which      *)
(* config.go does not check.                                               *)
MatrixOfSomeRole ==
    \A c \in Claims : Live(c) =>
        \E r \in MayHold[claim[c].owner] :
           FollowsMatrix(RolesOf(approvals[c]), claim[c].amount, r)
(* Whatever roles are given to whom.                                       *)
THEOREM MatrixRule ==
    ASSUME T1 <= T2
    PROVE  Spec /\ []OneRequestPerUser => []MatrixOfSomeRole
<1>1. RulesInv => MatrixOfSomeRole
  <2> SUFFICES ASSUME RulesInv, NEW c \in Claims, Live(c)
               PROVE  \E r \in MayHold[claim[c].owner] :
                        FollowsMatrix(RolesOf(approvals[c]), claim[c].amount, r)
    BY DEF MatrixOfSomeRole
  <2>1. claim[c].amount \in Nat
    <3>1. claim[c] \in Row
      BY DEF RulesInv, HistoryInv, WorkflowInv, TypeOK
    <3> QED BY <3>1, DetailsAssumption DEF Row
  <2>2. PathTaken(c)
    BY DEF RulesInv, PathsTaken
  <2> QED BY <2>1, <2>2, PathFollowsMatrix DEF PathTaken
<1> QED BY <1>1, RulesInit, RulesNext, PTL DEF Spec

(* Where nobody changes role, the role left out is the one the owner has.  *)
THEOREM MatrixOfOwnRole ==
    ASSUME T1 <= T2, \A u \in Users : \A r, s \in MayHold[u] : r = s
    PROVE  Spec /\ []OneRequestPerUser => []ChainCoversAmount
<1>1. RulesInv /\ MatrixOfSomeRole => ChainCoversAmount
  <2> SUFFICES ASSUME RulesInv, MatrixOfSomeRole, NEW c \in Claims, Live(c)
               PROVE  FollowsMatrix(RolesOf(approvals[c]), claim[c].amount,
                                    role[claim[c].owner])
    BY DEF ChainCoversAmount
  <2>1. claim[c].owner \in Users
    BY DEF RulesInv, HistoryInv, WorkflowInv, OwnedClaims, Live
  <2>2. role[claim[c].owner] \in MayHold[claim[c].owner]
    BY <2>1 DEF RulesInv, RolesHeld
  <2> QED BY <2>1, <2>2 DEF MatrixOfSomeRole
<1>2. Spec /\ []OneRequestPerUser => []MatrixOfSomeRole
  BY MatrixRule
<1> QED BY <1>1, <1>2, RulesInit, RulesNext, PTL DEF Spec

(* Rule 5, while no user has two requests under way and however those of   *)
(* different users overlap: amount, category and date change while a claim *)
(* is a draft or rejected, and only a draft is deleted.                    *)
THEOREM EditsInTheirWindow == Spec /\ []OneRequestPerUser => DetailsWindow
<1>1. RulesInv => TypeOK /\ ChecksHold
  BY DEF RulesInv, HistoryInv, WorkflowInv
<1>2. RulesInv /\ [Next]_vars => [\A c \in Claims : DetailsStep(c)]_vars
  BY <1>1, EditNext
<1> QED BY <1>2, RulesInit, RulesNext, PTL DEF Spec, DetailsWindow
=============================================================================
