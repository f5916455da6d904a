------------------------- MODULE AdministrationProofs -------------------------
(* What holds of accounts and categories for any users, categories, claims *)
(* and number of requests in flight that meet AdministrationAssumption.    *)
EXTENDS Administration, TLAPS

(* Accounts and categories are told from the marks of a missing row.       *)
LEMMA RowsAreNotMarks ==
    /\ \A a \in Account : a # None
    /\ \A b \in BOOLEAN : b # None /\ b # Gone
    /\ None # Gone
BY AdministrationAssumption

(* What a slot holds is told by its operation.                             *)
LEMMA RequestOfOp ==
    ASSUME TypeOK, NEW p \in Slots
    PROVE  /\ Is(p, "patchUser") =>
                /\ req[p].user \in Users /\ req[p].row \in Account
                /\ users[req[p].user] # None
           /\ Is(p, "sign") =>
                /\ req[p].user \in Users /\ req[p].role \in Roles
                /\ users[req[p].user] # None
           /\ Is(p, "patchCategory") =>
                /\ req[p].category \in Categories /\ req[p].row \in BOOLEAN
                /\ categories[req[p].category] # None
           /\ Is(p, "deleteCategory") => req[p].category \in Categories
           /\ Is(p, "claim") =>
                req[p].claim \in Claims /\ req[p].category \in Categories
<1>1. req[p] \in Requests
  BY DEF TypeOK
<1> QED BY <1>1 DEF TypeOK, Requests, Idle, Is

(* What a handler reads is a request of its kind.                          *)
LEMMA PatchedRow ==
    ASSUME NEW u \in Users, NEW a \in Account, NEW patch \in UserPatch(u)
    PROVE  [a EXCEPT !.role = Given(patch.role, @),
                     !.active = Given(patch.active, @)] \in Account
<1>1. MayHold[u] \subseteq Roles
  BY DEF Roles
<1>2. Given(patch.role, a.role) \in Roles /\ Given(patch.active, a.active) \in BOOLEAN
  BY <1>1 DEF UserPatch, Given, Account
<1> QED BY <1>2 DEF Account

(* Rows that are read stay, so a request that relies on them still may.    *)
LEMMA RequestsStayTyped ==
    ASSUME TypeOK,
           users' \in [Users -> Account \cup {None}],
           \A u \in Users : users'[u] = None => users[u] = None,
           \A k \in Categories : categories'[k] = None => categories[k] = None,
           NEW p \in Slots, NEW r \in Requests,
           req' = [req EXCEPT ![p] = r],
           r.op \in {"patchUser", "sign"} => users'[r.user] # None,
           r.op = "patchCategory" => categories'[r.category] # None
    PROVE  /\ req' \in [Slots -> Requests]
           /\ \A q \in Slots :
                /\ Is(q, "patchUser")' \/ Is(q, "sign")' => users'[req'[q].user] # None
                /\ Is(q, "patchCategory")' => categories'[req'[q].category] # None
<1>1. req' \in [Slots -> Requests] /\ req'[p] = r
  BY DEF TypeOK
<1>2. ASSUME NEW q \in Slots
      PROVE  /\ Is(q, "patchUser")' \/ Is(q, "sign")' => users'[req'[q].user] # None
             /\ Is(q, "patchCategory")' => categories'[req'[q].category] # None
  <2>1. CASE q = p
    BY <1>1, <2>1 DEF Is
  <2>2. CASE q # p
    <3>1. req'[q] = req[q]
      BY <2>2 DEF TypeOK
    <3> QED BY <3>1, RequestOfOp DEF Is
  <2> QED BY <2>1, <2>2
<1> QED BY <1>1, <1>2

(* A slot that is done holds nothing any more.                             *)
LEMMA EndingIsTyped ==
    ASSUME TypeOK,
           users' \in [Users -> Account \cup {None}],
           \A u \in Users : users'[u] = None => users[u] = None,
           \A k \in Categories : categories'[k] = None => categories[k] = None,
           NEW p \in Slots, End(p)
    PROVE  /\ req' \in [Slots -> Requests]
           /\ \A q \in Slots :
                /\ Is(q, "patchUser")' \/ Is(q, "sign")' => users'[req'[q].user] # None
                /\ Is(q, "patchCategory")' => categories'[req'[q].category] # None
<1>1. Idle \in Requests /\ Idle.op = "idle"
  BY DEF Idle, Requests
<1> HIDE DEF Idle
<1> QED BY <1>1, RequestsStayTyped DEF End

(* ------------------------------------------------------------------------ *)
(* Type correctness, action by action.                                     *)

(* The seeded administrator, and nothing else, is well typed.              *)
LEMMA InitTyped == Init => TypeOK
<1> SUFFICES ASSUME Init PROVE TypeOK
  OBVIOUS
<1>1. "admin" \in Roles
  BY AdministrationAssumption DEF Roles
<1>2. [role |-> "admin", active |-> TRUE, hash |-> 0] \in Account
  BY <1>1 DEF Account
<1>3. users \in [Users -> Account \cup {None}]
  BY <1>2 DEF Init
<1>4. Idle \in Requests /\ Idle.op = "idle"
  BY DEF Idle, Requests
<1>5. \A p \in Slots : req[p] = Idle
  BY DEF Init
<1>6. /\ req \in [Slots -> Requests]
      /\ \A p \in Slots : ~Is(p, "patchUser") /\ ~Is(p, "sign") /\ ~Is(p, "patchCategory")
  BY <1>4, <1>5 DEF Init, Is
<1> QED BY <1>3, <1>6 DEF Init, TypeOK

(* The requests about accounts: a row is made or changed, never taken away. *)
LEMMA UserRequestTyped ==
    ASSUME TypeOK, NEW u \in Users, UserRequest(u) PROVE TypeOK'
<1>1. ASSUME NEW r \in MayHold[u], CreateUser(u, r) PROVE TypeOK'
  <2>1. [role |-> r, active |-> TRUE, hash |-> 0] \in Account
    BY DEF Account, Roles
  <2>2. /\ users' \in [Users -> Account \cup {None}]
        /\ \A v \in Users : users'[v] = None => users[v] = None
    BY <1>1, <2>1, RowsAreNotMarks DEF CreateUser, TypeOK
  <2> QED BY <1>1, <2>2, RequestOfOp DEF CreateUser, TypeOK, Is
<1>2. ASSUME ResetPassword(u) PROVE TypeOK'
  <2>1. users[u] \in Account
    BY <1>2 DEF ResetPassword, TypeOK
  <2>2. [users[u] EXCEPT !.hash = @ + 1] \in Account
    BY <2>1 DEF Account
  <2>3. users' = [users EXCEPT ![u] = [users[u] EXCEPT !.hash = @ + 1]]
    BY <1>2 DEF ResetPassword
  <2>4. /\ users' \in [Users -> Account \cup {None}]
        /\ \A v \in Users : users'[v] = None => users[v] = None
    BY <2>2, <2>3, RowsAreNotMarks DEF TypeOK
  <2> QED BY <1>2, <2>4, RequestOfOp DEF ResetPassword, TypeOK, Is
<1>3. ASSUME NEW p \in Slots, NEW patch \in UserPatch(u), UpdateUserRead(p, u, patch)
      PROVE  TypeOK'
  <2> DEFINE row == [users[u] EXCEPT !.role = Given(patch.role, @),
                                     !.active = Given(patch.active, @)]
             r == [op |-> "patchUser", user |-> u, row |-> row]
  <2>1. row \in Account
    BY <1>3, PatchedRow DEF UpdateUserRead, TypeOK
  <2> HIDE DEF row
  <2>2. r \in Requests
    BY <2>1 DEF Requests
  <2>3. users' = users /\ categories' = categories /\ req' = [req EXCEPT ![p] = r]
    BY <1>3 DEF UpdateUserRead, Begin, row
  <2>4. r.op = "patchUser" /\ r.user = u /\ users[u] # None
    BY <1>3 DEF UpdateUserRead
  <2> HIDE DEF r
  <2>5. /\ req' \in [Slots -> Requests]
        /\ \A q \in Slots :
             /\ Is(q, "patchUser")' \/ Is(q, "sign")' => users'[req'[q].user] # None
             /\ Is(q, "patchCategory")' => categories'[req'[q].category] # None
    BY <2>2, <2>3, <2>4, RequestsStayTyped DEF TypeOK
  <2> QED BY <1>3, <2>5 DEF UpdateUserRead, TypeOK
<1> QED BY <1>1, <1>2, <1>3 DEF UserRequest

(* The requests about sessions, and the end of a token: no row changes.    *)
LEMMA AuthRequestTyped ==
    ASSUME TypeOK, NEW u \in Users, AuthRequest(u) \/ ExpireToken(u) PROVE TypeOK'
<1> DEFINE r == [op |-> "sign", user |-> u, role |-> users[u].role]
<1>1. ASSUME NEW p \in Slots, Usable(u), Begin(p, r),
             UNCHANGED <<users, categories, claims, token, session>>
      PROVE  TypeOK'
  <2>1. r \in Requests /\ r.op = "sign" /\ r.user = u /\ users[u] # None
    BY <1>1 DEF Usable, TypeOK, Account, Requests
  <2> HIDE DEF r
  <2>2. /\ req' \in [Slots -> Requests]
        /\ \A q \in Slots :
             /\ Is(q, "patchUser")' \/ Is(q, "sign")' => users'[req'[q].user] # None
             /\ Is(q, "patchCategory")' => categories'[req'[q].category] # None
    BY <1>1, <2>1, RequestsStayTyped DEF TypeOK, Begin
  <2> QED BY <1>1, <2>2 DEF TypeOK
<1>2. ASSUME UNCHANGED <<users, categories, claims, req>>,
             session' \subseteq session,
             token' = [token EXCEPT ![u] = None]
      PROVE  TypeOK'
  BY <1>2, RequestOfOp DEF TypeOK, Is
<1>3. ASSUME NEW p \in Slots, LoginRead(p, u) PROVE TypeOK'
  BY <1>1, <1>3 DEF LoginRead
<1>4. ASSUME NEW p \in Slots, RefreshRead(p, u) PROVE TypeOK'
  BY <1>1, <1>2, <1>4 DEF RefreshRead
<1>5. ASSUME Logout(u) \/ ExpireToken(u) PROVE TypeOK'
  BY <1>2, <1>5 DEF Logout, ExpireToken
<1> QED BY <1>3, <1>4, <1>5 DEF AuthRequest

(* The requests about categories and claims.                               *)
LEMMA CategoryRequestTyped ==
    ASSUME TypeOK, NEW k \in Categories, CategoryRequest(k) \/ ClaimRequest(k)
    PROVE  TypeOK'
<1>1. ASSUME CreateCategory(k) PROVE TypeOK'
  <2>1. /\ categories' \in [Categories -> BOOLEAN \cup {None, Gone}]
        /\ \A j \in Categories : categories'[j] = None => categories[j] = None
    BY <1>1, RowsAreNotMarks DEF CreateCategory, TypeOK
  <2> QED BY <1>1, <2>1, RequestOfOp DEF CreateCategory, TypeOK, Is
<1>2. ASSUME NEW p \in Slots, NEW r \in Requests, Begin(p, r),
             r.op \notin {"patchUser", "sign"},
             r.op = "patchCategory" => categories[r.category] # None,
             UNCHANGED <<users, categories, claims, token, session>>
      PROVE  TypeOK'
  <2>1. /\ req' \in [Slots -> Requests]
        /\ \A q \in Slots :
             /\ Is(q, "patchUser")' \/ Is(q, "sign")' => users'[req'[q].user] # None
             /\ Is(q, "patchCategory")' => categories'[req'[q].category] # None
    BY <1>2, RequestsStayTyped DEF TypeOK, Begin
  <2> QED BY <1>2, <2>1 DEF TypeOK
<1>3. ASSUME NEW p \in Slots, NEW active \in BOOLEAN \cup {None},
             UpdateCategoryRead(p, k, active)
      PROVE  TypeOK'
  <2> DEFINE r == [op |-> "patchCategory", category |-> k,
                   row |-> Given(active, categories[k])]
  <2>1. r \in Requests /\ categories[k] # None
    BY <1>3 DEF UpdateCategoryRead, Row, Given, Requests, TypeOK
  <2> QED BY <1>2, <1>3, <2>1 DEF UpdateCategoryRead
<1>4. ASSUME NEW p \in Slots, DeleteCategoryCount(p, k) PROVE TypeOK'
  <2>1. [op |-> "deleteCategory", category |-> k] \in Requests
    BY DEF Requests
  <2> QED BY <1>2, <1>4, <2>1 DEF DeleteCategoryCount
<1>5. ASSUME NEW p \in Slots, NEW c \in Claims, ClaimCheck(p, c, k) PROVE TypeOK'
  <2>1. [op |-> "claim", claim |-> c, category |-> k] \in Requests
    BY DEF Requests
  <2> QED BY <1>2, <1>5, <2>1 DEF ClaimCheck
<1> QED BY <1>1, <1>3, <1>4, <1>5 DEF CategoryRequest, ClaimRequest

(* The second halves, which end the request.                               *)
LEMMA ContinueTyped ==
    ASSUME TypeOK, NEW p \in Slots, Continue(p) PROVE TypeOK'
<1> DEFINE Typed == /\ req' \in [Slots -> Requests]
                    /\ \A q \in Slots :
                         /\ Is(q, "patchUser")' \/ Is(q, "sign")' => users'[req'[q].user] # None
                         /\ Is(q, "patchCategory")' => categories'[req'[q].category] # None
<1>1. ASSUME UpdateUserWrite(p) PROVE TypeOK'
  <2> DEFINE u == req[p].user
             row == [users[u] EXCEPT !.role = req[p].row.role,
                                     !.active = req[p].row.active]
  <2>1. u \in Users /\ req[p].row \in Account /\ users[u] \in Account
    BY <1>1, RequestOfOp DEF UpdateUserWrite, TypeOK
  <2>2. row \in Account
    BY <2>1 DEF Account
  <2>3. users' = [users EXCEPT ![u] = row]
    BY <1>1 DEF UpdateUserWrite
  <2> HIDE DEF row, u
  <2>4. /\ users' \in [Users -> Account \cup {None}]
        /\ \A v \in Users : users'[v] = None => users[v] = None
    BY <2>1, <2>2, <2>3, RowsAreNotMarks DEF TypeOK
  <2>5. categories' = categories /\ End(p)
    BY <1>1 DEF UpdateUserWrite
  <2>6. Typed
    BY <2>4, <2>5, EndingIsTyped
  <2> QED BY <1>1, <2>4, <2>6 DEF UpdateUserWrite, TypeOK
<1>2. ASSUME SignToken(p) PROVE TypeOK'
  <2>1. Typed
    BY <1>2, EndingIsTyped DEF SignToken, TypeOK
  <2> QED BY <1>2, <2>1, RequestOfOp DEF SignToken, TypeOK
<1>3. ASSUME UpdateCategoryWrite(p) \/ DeleteCategoryRow(p) PROVE TypeOK'
  <2>1. /\ categories' \in [Categories -> BOOLEAN \cup {None, Gone}]
        /\ \A k \in Categories : categories'[k] = None => categories[k] = None
    BY <1>3, RequestOfOp, RowsAreNotMarks
    DEF UpdateCategoryWrite, DeleteCategoryRow, TypeOK
  <2>2. End(p) /\ UNCHANGED <<users, claims, token, session>>
    BY <1>3 DEF UpdateCategoryWrite, DeleteCategoryRow
  <2>3. Typed
    BY <2>1, <2>2, EndingIsTyped DEF TypeOK
  <2> QED BY <2>1, <2>2, <2>3 DEF TypeOK
<1>4. ASSUME ClaimInsert(p) PROVE TypeOK'
  <2>1. Typed
    BY <1>4, EndingIsTyped DEF ClaimInsert, TypeOK
  <2>2. claims' \in [Claims -> Categories \cup {None}]
    BY <1>4, RequestOfOp DEF ClaimInsert, TypeOK
  <2> QED BY <1>4, <2>1, <2>2 DEF ClaimInsert, TypeOK
<1>5. ASSUME Abort(p) PROVE TypeOK'
  <2>1. Typed
    BY <1>5, EndingIsTyped DEF Abort, TypeOK
  <2> QED BY <1>5, <2>1 DEF Abort, TypeOK
<1> QED BY <1>1, <1>2, <1>3, <1>4, <1>5 DEF Continue

(* Every step keeps the types.                                             *)
LEMMA NextTyped == TypeOK /\ [Next]_vars => TypeOK'
<1> SUFFICES ASSUME TypeOK, [Next]_vars PROVE TypeOK'
  OBVIOUS
<1>1. CASE UNCHANGED vars
  BY <1>1 DEF vars, TypeOK, Is
<1>2. CASE Next
  BY <1>2, UserRequestTyped, AuthRequestTyped, CategoryRequestTyped, ContinueTyped
  DEF Next
<1> QED BY <1>1, <1>2

(* The tables, the cookies and what the handlers have read keep their      *)
(* types, and a handler relies on a row only where there has been one.     *)
THEOREM AdministrationTypeCorrect == Spec => []TypeOK
<1>1. Init => TypeOK
  BY InitTyped
<1>2. TypeOK /\ [Next]_vars => TypeOK'
  BY NextTyped
<1> QED BY <1>1, <1>2, PTL DEF Spec

(* ------------------------------------------------------------------------ *)
(* What a step does to the categories: a row is made where there never was *)
(* one, changed where there is one, or deleted where no claim refers.      *)
LEMMA CategorySteps ==
    ASSUME TypeOK, [Next]_vars, NEW k \in Categories
    PROVE  \/ categories'[k] = categories[k]
           \/ categories[k] = None /\ categories'[k] \in BOOLEAN
           \/ Row(k) /\ categories'[k] \in BOOLEAN
           \/ Row(k) /\ categories'[k] = Gone /\ ~Referenced(k) /\ claims' = claims
<1>1. CASE UNCHANGED vars
  BY <1>1 DEF vars
<1>2. ASSUME NEW u \in Users, UserRequest(u) \/ AuthRequest(u) \/ ExpireToken(u)
      PROVE  categories' = categories
  BY <1>2 DEF UserRequest, AuthRequest, ExpireToken, CreateUser, ResetPassword,
              UpdateUserRead, LoginRead, RefreshRead, Logout
<1>3. ASSUME NEW j \in Categories, ClaimRequest(j) PROVE categories' = categories
  BY <1>3 DEF ClaimRequest, ClaimCheck
<1>4. ASSUME NEW j \in Categories, CategoryRequest(j)
      PROVE  \/ categories'[k] = categories[k]
             \/ categories[k] = None /\ categories'[k] \in BOOLEAN
  BY <1>4 DEF CategoryRequest, CreateCategory, UpdateCategoryRead,
              DeleteCategoryCount, TypeOK
<1>5. ASSUME NEW p \in Slots, UpdateCategoryWrite(p)
      PROVE  \/ categories'[k] = categories[k]
             \/ Row(k) /\ categories'[k] \in BOOLEAN
  <2>1. CASE k = req[p].category /\ Row(k)
    <3>1. categories'[k] = req[p].row
      BY <1>5, <2>1 DEF UpdateCategoryWrite, TypeOK
    <3>2. req[p].row \in BOOLEAN
      BY <1>5, RequestOfOp DEF UpdateCategoryWrite
    <3> QED BY <2>1, <3>1, <3>2
  <2>2. CASE k = req[p].category /\ ~Row(k)
    BY <1>5, <2>2 DEF UpdateCategoryWrite, TypeOK
  <2>3. CASE k # req[p].category
    BY <1>5, <2>3 DEF UpdateCategoryWrite, TypeOK
  <2> QED BY <2>1, <2>2, <2>3
<1>6. ASSUME NEW p \in Slots, DeleteCategoryRow(p)
      PROVE  \/ categories'[k] = categories[k]
             \/ Row(k) /\ categories'[k] = Gone /\ ~Referenced(k) /\ claims' = claims
  BY <1>6 DEF DeleteCategoryRow, ForeignKey, TypeOK
<1>7. ASSUME NEW p \in Slots,
             UpdateUserWrite(p) \/ SignToken(p) \/ ClaimInsert(p) \/ Abort(p)
      PROVE  categories' = categories
  BY <1>7 DEF UpdateUserWrite, SignToken, ClaimInsert, Abort
<1> QED BY <1>1, <1>2, <1>3, <1>4, <1>5, <1>6, <1>7 DEF Next, Continue

(* What a step does to the claims: nothing, or one gets a category that    *)
(* has its row in the same step.                                           *)
LEMMA ClaimSteps ==
    ASSUME TypeOK, [Next]_vars, NEW c \in Claims
    PROVE  \/ claims'[c] = claims[c]
           \/ claims'[c] \in Categories /\ Row(claims'[c])
              /\ categories' = categories
<1>1. CASE UNCHANGED vars
  BY <1>1 DEF vars
<1>2. ASSUME NEW u \in Users, UserRequest(u) \/ AuthRequest(u) \/ ExpireToken(u)
      PROVE  claims' = claims
  BY <1>2 DEF UserRequest, AuthRequest, ExpireToken, CreateUser, ResetPassword,
              UpdateUserRead, LoginRead, RefreshRead, Logout
<1>3. ASSUME NEW j \in Categories, CategoryRequest(j) \/ ClaimRequest(j)
      PROVE  claims' = claims
  BY <1>3 DEF CategoryRequest, CreateCategory, UpdateCategoryRead,
              DeleteCategoryCount, ClaimRequest, ClaimCheck
<1>4. ASSUME NEW p \in Slots, ClaimInsert(p)
      PROVE  \/ claims'[c] = claims[c]
             \/ claims'[c] \in Categories /\ Row(claims'[c])
                /\ categories' = categories
  BY <1>4, RequestOfOp DEF ClaimInsert, TypeOK
<1>5. ASSUME NEW p \in Slots,
             \/ UpdateUserWrite(p) \/ SignToken(p) \/ UpdateCategoryWrite(p)
             \/ DeleteCategoryRow(p) \/ Abort(p)
      PROVE  claims' = claims
  BY <1>5 DEF UpdateUserWrite, SignToken, UpdateCategoryWrite, DeleteCategoryRow, Abort
<1> QED BY <1>1, <1>2, <1>3, <1>4, <1>5 DEF Next, Continue

(* No claim loses its category, for any number of deletions and of claims  *)
(* that are made meanwhile: the foreign key is looked at by the DELETE and *)
(* by the INSERT, and what was read before them does not matter.           *)
THEOREM ClaimsKeepTheirCategory == Spec => []NoOrphans
<1>1. Init => NoOrphans
  BY DEF Init, NoOrphans
<1>2. ASSUME TypeOK, NoOrphans, [Next]_vars PROVE NoOrphans'
  <2>1. SUFFICES ASSUME NEW c \in Claims, claims'[c] # None
                 PROVE  categories'[claims'[c]] \notin {None, Gone}
    BY DEF NoOrphans, Row
  <2>2. CASE claims'[c] # claims[c]
    BY <1>2, <2>2, ClaimSteps DEF Row
  <2>3. CASE claims'[c] = claims[c]
    <3>1. claims[c] \in Categories /\ Row(claims[c]) /\ Referenced(claims[c])
      BY <1>2, <2>1, <2>3 DEF NoOrphans, TypeOK, Referenced
    <3> QED BY <1>2, <2>3, <3>1, CategorySteps, RowsAreNotMarks DEF Row
  <2> QED BY <2>2, <2>3
<1> QED BY <1>1, <1>2, AdministrationTypeCorrect, PTL DEF Spec

(* A PATCH that read a category before its deletion writes nothing after.  *)
THEOREM DeletionsAreFinal == Spec => DeletedStaysDeleted
<1>1. ASSUME TypeOK, [Next]_vars
      PROVE  [\A k \in Categories : categories[k] = Gone => categories'[k] = Gone]_vars
  BY <1>1, CategorySteps, RowsAreNotMarks DEF Row
<1> QED BY <1>1, AdministrationTypeCorrect, PTL DEF Spec, DeletedStaysDeleted

(* A PATCH that read an account before its password was reset writes the   *)
(* role and is_active it read, and leaves the new password alone.          *)
THEOREM ResetsAreFinal == Spec => ResetSticks
<1> DEFINE Kept(u) == users[u] # None => /\ users'[u] # None
                                         /\ users'[u].hash >= users[u].hash
<1>1. ASSUME TypeOK, [Next]_vars, NEW u \in Users PROVE Kept(u)
  <2>0. users[u] # None => users[u] \in Account
    BY <1>1 DEF TypeOK
  <2>1. CASE users' = users
    BY <2>0, <2>1 DEF Account
  <2>2. ASSUME NEW v \in Users, NEW r \in MayHold[v], CreateUser(v, r) PROVE Kept(u)
    BY <1>1, <2>0, <2>2 DEF CreateUser, TypeOK, Account
  <2>3. ASSUME NEW v \in Users, ResetPassword(v) PROVE Kept(u)
    <3>1. CASE v = u
      <4>1. users[u] \in Account /\ users'[u] = [users[u] EXCEPT !.hash = @ + 1]
        BY <1>1, <2>0, <2>3, <3>1 DEF ResetPassword, TypeOK
      <4>2. users'[u] \in Account /\ users'[u].hash = users[u].hash + 1
        BY <4>1 DEF Account
      <4>3. users[u].hash \in Nat
        BY <4>1 DEF Account
      <4> QED BY <4>2, <4>3, RowsAreNotMarks
    <3>2. CASE v # u
      BY <1>1, <2>0, <2>3, <3>2 DEF ResetPassword, TypeOK, Account
    <3> QED BY <3>1, <3>2
  <2>4. ASSUME NEW p \in Slots, UpdateUserWrite(p) PROVE Kept(u)
    <3>1. CASE req[p].user = u
      <4>1. /\ users[u] \in Account /\ req[p].row \in Account
            /\ users'[u] = [users[u] EXCEPT !.role = req[p].row.role,
                                            !.active = req[p].row.active]
        BY <1>1, <2>0, <2>4, <3>1, RequestOfOp DEF UpdateUserWrite, TypeOK
      <4>2. users'[u] \in Account /\ users'[u].hash = users[u].hash
        BY <4>1 DEF Account
      <4>3. users[u].hash \in Nat
        BY <4>1 DEF Account
      <4> QED BY <4>2, <4>3, RowsAreNotMarks
    <3>2. CASE req[p].user # u
      BY <1>1, <2>0, <2>4, <3>2 DEF UpdateUserWrite, TypeOK, Account
    <3> QED BY <3>1, <3>2
  <2>5. CASE UNCHANGED vars
    BY <2>1, <2>5 DEF vars
  <2>6. ASSUME NEW v \in Users, AuthRequest(v) \/ ExpireToken(v) PROVE users' = users
    BY <2>6 DEF AuthRequest, ExpireToken, LoginRead, RefreshRead, Logout
  <2>7. ASSUME NEW v \in Users, UserRequest(v) PROVE Kept(u)
    <3>1. ASSUME NEW p \in Slots, NEW patch \in UserPatch(v),
                 UpdateUserRead(p, v, patch)
          PROVE  users' = users
      BY <3>1 DEF UpdateUserRead
    <3> QED BY <2>1, <2>2, <2>3, <2>7, <3>1 DEF UserRequest
  <2>8. ASSUME NEW k \in Categories, CategoryRequest(k) \/ ClaimRequest(k)
        PROVE  users' = users
    BY <2>8 DEF CategoryRequest, CreateCategory, UpdateCategoryRead,
                DeleteCategoryCount, ClaimRequest, ClaimCheck
  <2>9. ASSUME NEW p \in Slots, Continue(p), ~UpdateUserWrite(p) PROVE users' = users
    BY <2>9 DEF Continue, SignToken, UpdateCategoryWrite, DeleteCategoryRow,
                ClaimInsert, Abort
  <2> QED BY <1>1, <2>1, <2>4, <2>5, <2>6, <2>7, <2>8, <2>9 DEF Next
<1>2. TypeOK /\ [Next]_vars => [\A u \in Users : Kept(u)]_vars
  BY <1>1
<1> QED BY <1>2, AdministrationTypeCorrect, PTL DEF Spec, ResetSticks
=============================================================================
