---------------------------- MODULE Administration ----------------------------
(***************************************************************************)
(* What administrators keep: accounts (backend/internal/modules/users) and *)
(* categories (.../categories), with what depends on them: the access      *)
(* tokens and sessions of an account (.../auth, middleware/auth.go) and    *)
(* the claims that refer to a category (.../reimbursements).               *)
(*                                                                         *)
(* A PATCH reads the row, changes it in memory and writes it back; the     *)
(* deletion of a category counts its claims first; a claim is inserted     *)
(* after its category was found active; a token is signed after its        *)
(* account was read.  Each pair is two steps on a slot of Slots.           *)
(***************************************************************************)
EXTENDS Naturals

CONSTANTS
    Users,      \* the accounts there may be, one for each email address
    Root,       \* the administrator the seeds put into the table
    MayHold,    \* the roles each account may be given
    Categories, \* the ids categories get; an id is never given twice
    Claims, Slots, None, Gone,
    Bodies,     \* bound: the sets of fields the body of a PATCH names
    MaxResets   \* bound: the passwords set for each account

Roles == UNION {MayHold[u] : u \in Users}
Account == [role : Roles, active : BOOLEAN, hash : Nat]

ASSUME AdministrationAssumption ==
    /\ Root \in Users
    /\ MayHold \in [Users -> SUBSET {"employee", "manager", "finance", "admin"}]
    /\ "admin" \in MayHold[Root]
    /\ None \notin Users \cup Categories \cup Claims \cup Account \cup BOOLEAN \cup {Gone}
    /\ Gone \notin BOOLEAN
    /\ Bodies \subseteq SUBSET {"role", "active"}
    /\ MaxResets \in [Users -> Nat]

VARIABLES
    users,      \* the table users, None where there is no row
    categories, \* is_active in the table; None before the row, Gone after it
    claims,     \* the category_id of each claim, None before it is created
    token,      \* the role in the access cookie of each user, None without one
    session,    \* the users with a refresh session
    req         \* what each slot has read and is about to write

vars == <<users, categories, claims, token, session, req>>

(* The body of a PATCH of an account: None for a field it does not name.   *)
UserPatch(u) ==
    {b \in [role : MayHold[u] \cup {None}, active : BOOLEAN \cup {None}] :
       {f \in {"role", "active"} : b[f] # None} \in Bodies}

Idle == [op |-> "idle"]
Is(p, op) == req[p].op = op
Begin(p, r) == req' = [req EXCEPT ![p] = r]
End(p) == req' = [req EXCEPT ![p] = Idle]
Given(value, default) == IF value = None THEN default ELSE value

Row(k) == categories[k] \notin {None, Gone}
Referenced(k) == \E c \in Claims : claims[c] = k

Init ==
    /\ users = [u \in Users |->
                  IF u = Root THEN [role |-> "admin", active |-> TRUE, hash |-> 0]
                              ELSE None]
    /\ categories = [k \in Categories |-> None]
    /\ claims = [c \in Claims |-> None]
    /\ token = [u \in Users |-> None]
    /\ session = {}
    /\ req = [p \in Slots |-> Idle]

(* AuthN and RequireRole look at the token, never at the table.            *)
Admin == \E a \in Users : token[a] = "admin"

-----------------------------------------------------------------------------
(* Accounts.                                                               *)

(* Create: one INSERT; a second row with the email is a conflict.          *)
CreateUser(u, r) ==
    /\ Admin
    /\ users[u] = None
    /\ users' = [users EXCEPT ![u] = [role |-> r, active |-> TRUE, hash |-> 0]]
    /\ UNCHANGED <<categories, claims, token, session, req>>

(* Mutation: a field the body does not name is taken for an empty one.     *)
UpdateUserReadBlank(p, u, patch) ==
    /\ Is(p, "idle")
    /\ Admin
    /\ users[u] # None
    /\ Begin(p, [op |-> "patchUser", user |-> u,
                 row |-> [users[u] EXCEPT !.role = patch.role,
                                          !.active = patch.active]])
    /\ UNCHANGED <<users, categories, claims, token, session>>

(* Update, GetByID: the row with the fields the body names replaced.       *)
UpdateUserRead(p, u, patch) ==
    /\ Is(p, "idle")
    /\ Admin
    /\ users[u] # None
    /\ Begin(p, [op |-> "patchUser", user |-> u,
                 row |-> [users[u] EXCEPT !.role = Given(patch.role, @),
                                          !.active = Given(patch.active, @)]])
    /\ UNCHANGED <<users, categories, claims, token, session>>

(* Mutation: the whole row is saved, with the password hash that was read. *)
UpdateUserWriteSave(p) ==
    /\ Is(p, "patchUser")
    /\ users' = [users EXCEPT ![req[p].user] = req[p].row]
    /\ End(p)
    /\ UNCHANGED <<categories, claims, token, session>>

(* Update, UPDATE: role and is_active as they were in memory, the password *)
(* as it is in the table.                                                  *)
UpdateUserWrite(p) ==
    LET row == req[p].row
    IN  /\ Is(p, "patchUser")
        /\ users' = [users EXCEPT ![req[p].user] =
                        [@ EXCEPT !.role = row.role, !.active = row.active]]
        /\ End(p)
        /\ UNCHANGED <<categories, claims, token, session>>

(* A password is known by how often it was set.  No session ends.          *)
ResetPassword(u) ==
    /\ Admin
    /\ users[u] # None
    /\ users[u].hash < MaxResets[u]
    /\ users' = [users EXCEPT ![u].hash = @ + 1]
    /\ UNCHANGED <<categories, claims, token, session, req>>

-----------------------------------------------------------------------------
(* Sessions.                                                               *)

Usable(u) == users[u] # None /\ users[u].active

(* Login reads the account, and a disabled one is turned away ...          *)
LoginRead(p, u) ==
    /\ Is(p, "idle")
    /\ Usable(u)
    /\ Begin(p, [op |-> "sign", user |-> u, role |-> users[u].role])
    /\ UNCHANGED <<users, categories, claims, token, session>>

(* Mutation: a refresh does not ask whether the account is active.         *)
RefreshReadAnyone(p, u) ==
    /\ Is(p, "idle")
    /\ u \in session
    /\ Begin(p, [op |-> "sign", user |-> u, role |-> users[u].role])
    /\ UNCHANGED <<users, categories, claims, token, session>>

(* ... and so does Refresh, which ends the session of a disabled account   *)
(* and clears its cookies.                                                 *)
RefreshRead(p, u) ==
    /\ Is(p, "idle")
    /\ u \in session
    /\ IF Usable(u)
       THEN /\ Begin(p, [op |-> "sign", user |-> u, role |-> users[u].role])
            /\ UNCHANGED <<token, session>>
       ELSE /\ session' = session \ {u}
            /\ token' = [token EXCEPT ![u] = None]
            /\ UNCHANGED req
    /\ UNCHANGED <<users, categories, claims>>

(* The token carries the role that was read, whatever it is by now.        *)
SignToken(p) ==
    /\ Is(p, "sign")
    /\ token' = [token EXCEPT ![req[p].user] = req[p].role]
    /\ session' = session \cup {req[p].user}
    /\ End(p)
    /\ UNCHANGED <<users, categories, claims>>

(* An access token is good for AccessTTL.                                  *)
ExpireToken(u) ==
    /\ token[u] # None
    /\ token' = [token EXCEPT ![u] = None]
    /\ UNCHANGED <<users, categories, claims, session, req>>

Logout(u) ==
    /\ token[u] # None
    /\ token' = [token EXCEPT ![u] = None]
    /\ session' = session \ {u}
    /\ UNCHANGED <<users, categories, claims, req>>

-----------------------------------------------------------------------------
(* Categories.                                                             *)

(* One INSERT.  A code or name that is taken is a conflict, and no step.   *)
CreateCategory(k) ==
    /\ Admin
    /\ categories[k] = None
    /\ categories' = [categories EXCEPT ![k] = TRUE]
    /\ UNCHANGED <<users, claims, token, session, req>>

(* Update, GetByID: active is what the body says of is_active, None when   *)
(* it does not name it.                                                    *)
UpdateCategoryRead(p, k, active) ==
    /\ Is(p, "idle")
    /\ Admin
    /\ Row(k)
    /\ Begin(p, [op |-> "patchCategory", category |-> k,
                 row |-> Given(active, categories[k])])
    /\ UNCHANGED <<users, categories, claims, token, session>>

(* Mutation: the row is saved, and so inserted where there is none.        *)
UpdateCategoryWriteSave(p) ==
    /\ Is(p, "patchCategory")
    /\ categories' = [categories EXCEPT ![req[p].category] = req[p].row]
    /\ End(p)
    /\ UNCHANGED <<users, claims, token, session>>

(* Update, UPDATE ... WHERE id: nothing happens, and nobody is told, when  *)
(* the row is gone.                                                        *)
UpdateCategoryWrite(p) ==
    LET k == req[p].category
    IN  /\ Is(p, "patchCategory")
        /\ categories' = [categories EXCEPT ![k] = IF Row(k) THEN req[p].row ELSE @]
        /\ End(p)
        /\ UNCHANGED <<users, claims, token, session>>

(* Delete, COUNT: all claims count, the deleted ones too.                  *)
DeleteCategoryCount(p, k) ==
    /\ Is(p, "idle")
    /\ Admin
    /\ ~Referenced(k)
    /\ Begin(p, [op |-> "deleteCategory", category |-> k])
    /\ UNCHANGED <<users, categories, claims, token, session>>

(* Mutation: what was counted is relied on.                                *)
ForeignKeyMissing(k) == TRUE
(* reimbursements.category_id REFERENCES categories(id).                   *)
ForeignKey(k) == ~Referenced(k)

(* Delete, DELETE: refused by the foreign key if a claim came in between;  *)
(* "not found" if another deletion did.                                    *)
DeleteCategoryRow(p) ==
    LET k == req[p].category
    IN  /\ Is(p, "deleteCategory")
        /\ categories' = [categories EXCEPT ![k] =
                             IF Row(k) /\ ForeignKey(k) THEN Gone ELSE @]
        /\ End(p)
        /\ UNCHANGED <<users, claims, token, session>>

-----------------------------------------------------------------------------
(* Claims that refer to a category.                                        *)

(* Create, EnsureActiveCategory; the claim gets an id no other has.        *)
ClaimCheck(p, c, k) ==
    /\ Is(p, "idle")
    /\ claims[c] = None
    /\ \A q \in Slots : Is(q, "claim") => req[q].claim # c
    /\ Row(k) /\ categories[k]
    /\ Begin(p, [op |-> "claim", claim |-> c, category |-> k])
    /\ UNCHANGED <<users, categories, claims, token, session>>

(* Create, INSERT: the foreign key wants the category to be there, active  *)
(* or not.                                                                 *)
ClaimInsert(p) ==
    /\ Is(p, "claim")
    /\ claims' = [claims EXCEPT ![req[p].claim] =
                     IF Row(req[p].category) THEN req[p].category ELSE @]
    /\ End(p)
    /\ UNCHANGED <<users, categories, token, session>>

-----------------------------------------------------------------------------

(* An error, a closed connection or a dying process between two steps.     *)
Abort(p) ==
    /\ ~Is(p, "idle")
    /\ End(p)
    /\ UNCHANGED <<users, categories, claims, token, session>>

Continue(p) ==
    \/ UpdateUserWrite(p) \/ SignToken(p) \/ UpdateCategoryWrite(p)
    \/ DeleteCategoryRow(p) \/ ClaimInsert(p) \/ Abort(p)

(* The routes of /users, of /auth and of /categories, and what their       *)
(* bodies may say; POST /reimbursements as far as the category goes.       *)
UserRequest(u) ==
    \/ \E r \in MayHold[u] : CreateUser(u, r)
    \/ ResetPassword(u)
    \/ \E p \in Slots, patch \in UserPatch(u) : UpdateUserRead(p, u, patch)

AuthRequest(u) ==
    \/ \E p \in Slots : LoginRead(p, u) \/ RefreshRead(p, u)
    \/ Logout(u)

CategoryRequest(k) ==
    \/ CreateCategory(k)
    \/ \E p \in Slots :
         \/ \E active \in BOOLEAN \cup {None} : UpdateCategoryRead(p, k, active)
         \/ DeleteCategoryCount(p, k)

ClaimRequest(k) == \E p \in Slots, c \in Claims : ClaimCheck(p, c, k)

Next ==
    \/ \E u \in Users : UserRequest(u) \/ AuthRequest(u) \/ ExpireToken(u)
    \/ \E k \in Categories : CategoryRequest(k) \/ ClaimRequest(k)
    \/ \E p \in Slots : Continue(p)

(* A handler that is running ends, and a token runs out.  Nobody has to    *)
(* log in, and no administrator has to do anything.                        *)
Spec ==
    /\ Init /\ [][Next]_vars
    /\ \A p \in Slots : WF_vars(Continue(p))
    /\ \A u \in Users : WF_vars(ExpireToken(u))

-----------------------------------------------------------------------------
(* Properties.                                                             *)

Requests ==
    {Idle}
    \cup [op : {"patchUser"}, user : Users, row : Account]
    \cup [op : {"sign"}, user : Users, role : Roles]
    \cup [op : {"patchCategory"}, category : Categories, row : BOOLEAN]
    \cup [op : {"deleteCategory"}, category : Categories]
    \cup [op : {"claim"}, claim : Claims, category : Categories]

(* The tables, the cookies and what a handler has read have their types;   *)
(* a category is patched, counted or claimed from only once it had a row,  *)
(* and an account patched or logged in only once it had one.               *)
TypeOK ==
    /\ users \in [Users -> Account \cup {None}]
    /\ categories \in [Categories -> BOOLEAN \cup {None, Gone}]
    /\ claims \in [Claims -> Categories \cup {None}]
    /\ token \in [Users -> Roles \cup {None}]
    /\ session \subseteq Users
    /\ req \in [Slots -> Requests]
    /\ \A p \in Slots :
         /\ Is(p, "patchUser") \/ Is(p, "sign") => users[req[p].user] # None
         /\ Is(p, "patchCategory") => categories[req[p].category] # None
    /\ \A u \in Users : users[u] = None => token[u] = None /\ u \notin session

(* Every claim has a category: the count in Delete can miss a claim, and   *)
(* EnsureActiveCategory can find a category that is deleted before the     *)
(* INSERT, but not both ways around the foreign key (000004 up.sql).       *)
NoOrphans ==
    \A c \in Claims : claims[c] # None => Row(claims[c])

(* A deleted category stays deleted, whoever had read it to change it      *)
(* (categories Update writes with UPDATE, and no row is a success).        *)
DeletedStaysDeleted ==
    [][\A k \in Categories : categories[k] = Gone => categories'[k] = Gone]_vars

(* A new password is never undone by a PATCH that read the row before it   *)
(* (users Update "touches name/role/is_active -- never password").         *)
ResetSticks ==
    [][\A u \in Users : users[u] # None =>
          /\ users'[u] # None
          /\ users'[u].hash >= users[u].hash]_vars

(* Once administrators stop changing accounts, nobody holds an access      *)
(* token for a role that is no longer his, and no disabled account holds   *)
(* any (Login and Refresh read the row, and AccessTTL ends what they gave  *)
(* out before; no request checks the row itself).                          *)
AccessFollowsTheAccount ==
    <>[][FALSE]_users =>
        <>[](\A u \in Users : token[u] # None => Usable(u) /\ token[u] = users[u].role)
=============================================================================
