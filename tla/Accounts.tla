------------------------------ MODULE Accounts ------------------------------
(***************************************************************************)
(* Users, their sessions and the requests of Google accounts for access.   *)
(* Who may change users is looked up when a request arrives; its body is   *)
(* awaited after that, and then the change is made in the name of the user *)
(* that was found, who may be somebody else by now, or nobody.             *)
(***************************************************************************)
EXTENDS Naturals

CONSTANTS
  MaxUsers, \* bound: users ever created
  Roles,    \* "admin" and others
  Emails,   \* Google accounts, which have an e-mail address each
  Requests  \* requests of administrators that may overlap

ASSUME AccountAssumption == MaxUsers \in Nat \ {0} /\ "admin" \in Roles

VARIABLES
  users,    \* ids of the rows of users
  lastUser, \* the highest id so far
  account,  \* account[u]: the row of u
  signedIn, \* users with a session; bound: one each
  requested,    \* requested[e]: status of the row of access_requests for e
  acting,   \* acting[r]: the user on whose behalf r awaits its body
  overtaken \* history: a change by a key, by an administrator who was none any
            \* more, by an approval, or by an empty role sent for oneself has
            \* taken the role from an administrator

accountVars == <<users, lastUser, account, signedIn, requested, acting, overtaken>>

UserIds == 1..MaxUsers
Key     == 0              \* an API key has an id that no user has
Nobody  == MaxUsers + 1
NoRole  == ""             \* what a request may send for a role

\* sub is Google's id of the account, which stands for its address here.
AccountRows == [role : Roles \cup {NoRole}, google : BOOLEAN, sub : Emails \cup {"none"},
                email : Emails \cup {"none"}, approved : BOOLEAN]
Local(role, e) == [role |-> role, google |-> FALSE, sub |-> "none", email |-> e, approved |-> TRUE]

AccountsTypeOK ==
  /\ users \subseteq 1..lastUser /\ lastUser \in UserIds
  /\ account \in [UserIds -> AccountRows]
  /\ signedIn \subseteq users
  /\ requested \in [Emails -> {"none", "pending", "approved", "rejected"}]
  /\ acting \in [Requests -> UserIds \cup {Key, Nobody}]
  /\ overtaken \in BOOLEAN

\* The first start has seeded an administrator.
AccountsInit ==
  /\ users = {1} /\ lastUser = 1
  /\ account = [u \in UserIds |-> Local("admin", "none")]
  /\ signedIn = {}
  /\ requested = [e \in Emails |-> "none"]
  /\ acting = [r \in Requests |-> Nobody]
  /\ overtaken = FALSE

Admins == {u \in users : account[u].role = "admin"}

-----------------------------------------------------------------------------
(* Signing in and out *)

Login(u) ==
  /\ u \in users /\ ~account[u].google /\ account[u].approved
  /\ signedIn' = signedIn \cup {u}
  /\ UNCHANGED <<users, lastUser, account, requested, acting, overtaken>>

Known(e) == {u \in users : account[u].email = e \/ (account[u].google /\ account[u].sub = e)}
Found(u, e) == u \in Known(e) /\ \A v \in Known(e) : u <= v

Connected(row, e) == [row EXCEPT !.google = TRUE, !.sub = e, !.email = e]

\* Who is unknown, or not approved, asks for access, once more if need be.
GoogleLogin(e) ==
  \/ \E u \in users :
       /\ Found(u, e) /\ account[u].approved
       /\ account' = [account EXCEPT ![u] = Connected(@, e)]
       /\ signedIn' = signedIn \cup {u}
       /\ UNCHANGED <<users, lastUser, requested, acting, overtaken>>
  \/ /\ \A u \in users : Found(u, e) => ~account[u].approved
     /\ requested' = [requested EXCEPT ![e] = "pending"]
     /\ UNCHANGED <<users, lastUser, account, signedIn, acting, overtaken>>

DisconnectGoogle(u) ==
  /\ u \in signedIn /\ account[u].google
  /\ account' = [account EXCEPT ![u].google = FALSE, ![u].sub = "none"]
  /\ UNCHANGED <<users, lastUser, signedIn, requested, acting, overtaken>>

\* Logout, or the session expires.
SessionEnds(u) ==
  /\ u \in signedIn
  /\ signedIn' = signedIn \ {u}
  /\ UNCHANGED <<users, lastUser, account, requested, acting, overtaken>>

-----------------------------------------------------------------------------
(* Requests of administrators *)

\* getUserFromRequest and the look at the role; the body is awaited next.
Authenticate(r, u) ==
  /\ acting[r] = Nobody
  /\ u = Key \/ u \in signedIn \cap Admins
  /\ acting' = [acting EXCEPT ![r] = u]
  /\ UNCHANGED <<users, lastUser, account, signedIn, requested, overtaken>>

\* The request ends; rows are the new rows.  An approval or an empty role of
\* one's own is unguarded: nothing refuses it although it may take the role from
\* the administrator who acts.
Ends(r, rows, left, unguarded) ==
  /\ acting[r] # Nobody
  /\ acting' = [acting EXCEPT ![r] = Nobody]
  /\ account' = rows /\ users' = left
  /\ overtaken' = \/ overtaken
                  \/ /\ unguarded \/ acting[r] \notin Admins
                     /\ \E u \in Admins : u \notin left \/ rows[u].role # "admin"

\* The body cannot be read, or is refused.
Refused(r) == Ends(r, account, users, FALSE) /\ UNCHANGED <<lastUser, signedIn, requested>>

CreateUserAs(r, role, google, e) ==
  /\ lastUser < MaxUsers /\ lastUser' = lastUser + 1
  /\ Ends(r, [account EXCEPT ![lastUser'] = [Local(role, e) EXCEPT !.google = google]],
          users \cup {lastUser'}, FALSE)
  /\ UNCHANGED <<signedIn, requested>>

\* The role may not be changed by a user whose role it is; but an empty role is
\* looked at by neither of the checks, and is written.
UpdateUserAs(r, u, role, e, approved) ==
  /\ u \in users
  /\ u = acting[r] => role \in {"admin", account[u].role, NoRole}
  /\ Ends(r, [account EXCEPT ![u].role = role, ![u].email = e, ![u].approved = approved], users,
          role = NoRole /\ u = acting[r])
  /\ UNCHANGED <<lastUser, signedIn, requested>>

\* Mutant: users may delete themselves.
DeleteAnybodyAs(r, u) ==
  /\ u \in users
  /\ signedIn' = signedIn \ {u}
  /\ Ends(r, account, users \ {u}, FALSE)
  /\ UNCHANGED <<lastUser, requested>>

DeleteUserAs(r, u) ==
  /\ u \in users \ {acting[r]}
  /\ signedIn' = signedIn \ {u}
  /\ Ends(r, [account EXCEPT ![u] = Local("admin", "none")], users \ {u}, FALSE)
  /\ UNCHANGED <<lastUser, requested>>

Reject(r, e) ==
  /\ requested[e] # "none"
  /\ requested' = [requested EXCEPT ![e] = "rejected"]
  /\ Ends(r, account, users, FALSE)
  /\ UNCHANGED <<lastUser, signedIn>>

\* Whoever has asked, whenever it was, gets the role; a user that is known gets
\* it instead of the present one, even if the administrator is that user.
Approve(r, e, role) ==
  /\ requested[e] # "none"
  /\ requested' = [requested EXCEPT ![e] = "approved"]
  /\ UNCHANGED signedIn
  /\ \/ \E u \in users :
          /\ Found(u, e) /\ UNCHANGED lastUser
          /\ Ends(r, [account EXCEPT ![u] = [Connected(@, e) EXCEPT !.role = role, !.approved = TRUE]],
                  users, TRUE)
     \/ /\ Known(e) = {} /\ lastUser < MaxUsers /\ lastUser' = lastUser + 1
        /\ Ends(r, [account EXCEPT ![lastUser'] = Connected(Local(role, e), e)],
                users \cup {lastUser'}, TRUE)

\* Requests are lost; an administrator is seeded if there is no user at all.
Restart ==
  /\ users # {} => \E r \in Requests : acting[r] # Nobody
  /\ acting' = [r \in Requests |-> Nobody]
  /\ IF users = {} /\ lastUser < MaxUsers
     THEN /\ lastUser' = lastUser + 1 /\ users' = {lastUser'}
          /\ account' = [account EXCEPT ![lastUser'] = Local("admin", "none")]
     ELSE UNCHANGED <<users, lastUser, account>>
  /\ UNCHANGED <<signedIn, requested, overtaken>>

AccountsNext ==
  \/ \E u \in UserIds : Login(u) \/ DisconnectGoogle(u) \/ SessionEnds(u)
  \/ \E e \in Emails : GoogleLogin(e)
  \/ \E r \in Requests, u \in UserIds \cup {Key} : Authenticate(r, u)
  \/ \E r \in Requests, role \in Roles, e \in Emails \cup {"none"}, b \in BOOLEAN :
       CreateUserAs(r, role, b, e)
  \/ \E r \in Requests, u \in UserIds, role \in Roles \cup {NoRole}, e \in Emails \cup {"none"},
        b \in BOOLEAN : UpdateUserAs(r, u, role, e, b)
  \/ \E r \in Requests, u \in UserIds : DeleteUserAs(r, u)
  \/ \E r \in Requests, e \in Emails : Reject(r, e) \/ \E role \in Roles : Approve(r, e, role)
  \/ \E r \in Requests : Refused(r)
  \/ Restart

AccountsSpec == AccountsInit /\ [][AccountsNext]_accountVars

-----------------------------------------------------------------------------
(* Properties *)

\* There is always somebody who can administer users, through any sequence of
\* deletions, changes of roles and approvals and whatever administrators do to
\* each other: the one who acts remains one.  Excepted are the cases that the
\* handlers let through: a key, an administrator who has lost the role while the
\* body was awaited, an approval, and an empty role sent for oneself.
AnAdminRemains == ~overtaken => Admins # {}
=============================================================================
