------------------------------ MODULE Accounts ------------------------------
(***************************************************************************)
(* Users and their refresh tokens: UserService (create, update,            *)
(* updatePassword), AuthenticationService (register, login, refresh,       *)
(* logout) and the TokenService they call.                                 *)
(*                                                                         *)
(* Every query is a step, so calls interleave between any two of them.     *)
(* save() of a row that exists is two: it loads the row, and then writes   *)
(* the columns in which the entity it was given differs from it.           *)
(*                                                                         *)
(* Abstracted: names, which are columns like any other; the roles of a     *)
(* user, of which one is kept; access tokens, which are signed and stored  *)
(* nowhere; encryption; the expiry of refresh tokens, which refuses a call *)
(* as a failing query does (the expiresAt column is written and never      *)
(* read). Nothing in the program sets deletedAt of a user, so there are no *)
(* deleted users.                                                          *)
(***************************************************************************)
EXTENDS Naturals, FiniteSets

CONSTANTS
    UserIds,    \* ids users get (bound on their number)
    TokenIds,   \* ids of refresh tokens (bound on their number)
    Emails,
    Passwords,
    GivenRoles, \* roles users are created with (bound)
    Requests,   \* calls that may be served at the same time
    Calls,      \* the calls clients make, a subset of CallKinds
    None        \* null, undefined, no row

CallKinds == {"register", "create", "update", "password", "login", "refresh", "logout"}
Roles == {"ROOT", "ADMIN", "USER"}

User  == [email : Emails, password : Passwords, role : Roles, active : BOOLEAN]
Token == [user : UserIds, revoked : BOOLEAN]

\* A user read by a query: the hash column is not selected.
Entity == [email : Emails, password : Passwords \cup {None}, role : Roles, active : BOOLEAN]

ASSUME NoneAssumption ==
    \A S \in {UserIds, TokenIds, Emails, Passwords, Roles, BOOLEAN, CallKinds,
              User, Token, Entity} : None \notin S
ASSUME CallsAssumption == Calls \subseteq CallKinds
ASSUME RolesAssumption == GivenRoles \subseteq Roles

VARIABLES
    users,      \* table users
    tokens,     \* table refresh_tokens
    pc,         \* the step each request is about to take
    call,       \* its kind, and the user and the token it is about
    sent,       \* the columns of a user it was sent
    held,       \* the user it is about to save
    loaded,     \* the row save() compares it with
    loggedOut,  \* history: tokens a logout was answered for
    late,       \* history: requests that came with such a token
    overtaken   \* history: the columns a request was not sent that other calls
                \* changed between its read of the user and the load of its save

tables == <<users, tokens>>
vars == <<users, tokens, pc, call, sent, held, loaded, loggedOut, late, overtaken>>

Call   == [kind : CallKinds \cup {None}, user : UserIds \cup {None}, token : TokenIds \cup {None}]
Fields == [email : Emails \cup {None}, password : Passwords \cup {None},
           role : Roles \cup {None}, active : BOOLEAN \cup {None}]

About(kind, user, token) == [kind |-> kind, user |-> user, token |-> token]
Columns(email, password, role, active) ==
    [email |-> email, password |-> password, role |-> role, active |-> active]

NoCall == About(None, None, None)
Unsent == Columns(None, None, None, None)

Steps == {"count", "checkEmail", "insert", "issue", "readUser", "load", "write",
          "findCredentials", "findToken", "findUser", "grant", "revoke"}

Registered == {u \in UserIds : users[u] # None}
Issued     == {t \in TokenIds : tokens[t] # None}

Init ==
    /\ users = [u \in UserIds |-> None]
    /\ tokens = [t \in TokenIds |-> None]
    /\ pc = [r \in Requests |-> "idle"]
    /\ call = [r \in Requests |-> NoCall]
    /\ sent = [r \in Requests |-> Unsent]
    /\ held = [r \in Requests |-> None]
    /\ loaded = [r \in Requests |-> None]
    /\ loggedOut = {}
    /\ late = {}
    /\ overtaken = [r \in Requests |-> {}]

(***************************************************************************)
(* Requests                                                                *)
(***************************************************************************)
Begin(r, step, about, columns) ==
    /\ pc[r] = "idle"
    /\ pc' = [pc EXCEPT ![r] = step]
    /\ call' = [call EXCEPT ![r] = about]
    /\ sent' = [sent EXCEPT ![r] = columns]
    /\ late' = IF about.token \in loggedOut THEN late \cup {r} ELSE late
    /\ UNCHANGED <<tables, held, loaded, loggedOut>>

Continue(r, step) == pc' = [pc EXCEPT ![r] = step] /\ UNCHANGED late

\* The request is answered, with success or with an error.
Answer(r) ==
    /\ pc' = [pc EXCEPT ![r] = "idle"]
    /\ call' = [call EXCEPT ![r] = NoCall]
    /\ sent' = [sent EXCEPT ![r] = Unsent]
    /\ held' = [held EXCEPT ![r] = None]
    /\ loaded' = [loaded EXCEPT ![r] = None]
    /\ late' = late \ {r}

Refuse(r) == Answer(r) /\ UNCHANGED <<tables, loggedOut>>

Busy(kinds) == {r \in Requests : call[r].kind \in kinds}

\* A user id is left for every request in progress (bound). A request that comes
\* to issue a token when no token id is left can only fail.
RoomForUser == Cardinality(Busy({"register", "create"})) < Cardinality(UserIds \ Registered)

\* Creating and changing users takes somebody whose role is ROOT, changing a
\* password the user (guards of UserController); the rest anybody may call.
Administered == \E u \in Registered : users[u].role = "ROOT"

Receive(r, kind) ==
    \/ /\ kind = "register" /\ RoomForUser
       /\ \E e \in Emails, p \in Passwords :
            Begin(r, "count", About(kind, None, None), Columns(e, p, None, TRUE))
    \/ /\ kind = "create" /\ RoomForUser /\ Administered
       /\ \E e \in Emails, p \in Passwords, o \in GivenRoles, a \in BOOLEAN :
            Begin(r, "checkEmail", About(kind, None, None), Columns(e, p, o, a))
    \/ /\ kind = "update" /\ Administered
       /\ \E u \in Registered, e \in Emails \cup {None}, a \in BOOLEAN \cup {None} :
            Begin(r, "readUser", About(kind, u, None), Columns(e, None, None, a))
    \/ /\ kind = "password"
       /\ \E u \in Registered, p \in Passwords :
            Begin(r, "readUser", About(kind, u, None), Columns(None, p, None, None))
    \/ /\ kind = "login"
       /\ \E e \in Emails, p \in Passwords :
            Begin(r, "findCredentials", About(kind, None, None), Columns(e, p, None, None))
    \/ /\ kind \in {"refresh", "logout"}
       /\ \E t \in Issued : Begin(r, "findToken", About(kind, None, t), Unsent)

Arrive(r) == \E kind \in Calls : Receive(r, kind)

(***************************************************************************)
(* UserService.create, and register, which counts the users first          *)
(***************************************************************************)

\* Mutant: everybody but the first user is a ROOT.
FirstRoleSwapped == IF Registered = {} THEN "USER" ELSE "ROOT"

FirstRole == IF Registered = {} THEN "ROOT" ELSE "USER"

Count(r) ==
    /\ pc[r] = "count"
    /\ sent' = [sent EXCEPT ![r].role = FirstRole]
    /\ Continue(r, "checkEmail")
    /\ UNCHANGED <<tables, call, held, loaded, loggedOut>>

EmailInUse(e) == \E u \in Registered : users[u].email = e

\* Asked by create, and by update when the email changes.
CheckEmail(r) ==
    /\ pc[r] = "checkEmail"
    /\ \/ EmailInUse(sent[r].email) /\ Refuse(r)
       \/ /\ ~EmailInUse(sent[r].email)
          /\ Continue(r, IF call[r].kind = "update" THEN "load" ELSE "insert")
          /\ UNCHANGED <<tables, call, sent, held, loaded, loggedOut>>

\* Mutant: the email column is not unique.
EmailFreeAlways(e, u) == TRUE

\* The unique constraint of the email column lets user u have it.
EmailFree(e, u) == \A v \in Registered \ {u} : users[v].email # e

Insert(r) ==
    /\ pc[r] = "insert"
    /\ \E u \in UserIds \ Registered :
         /\ EmailFree(sent[r].email, u)
         /\ users' = [users EXCEPT ![u] = sent[r]]
         /\ \/ call[r].kind = "create" /\ Answer(r)
            \/ /\ call[r].kind = "register"
               /\ call' = [call EXCEPT ![r].user = u]
               /\ Continue(r, "issue")
               /\ UNCHANGED <<sent, held, loaded>>
    /\ UNCHANGED <<tokens, loggedOut>>

InsertRefused(r) ==
    /\ pc[r] = "insert"
    /\ EmailInUse(sent[r].email)
    /\ Refuse(r)

(***************************************************************************)
(* UserService.update and updatePassword                                   *)
(***************************************************************************)

\* Mutant: what was not sent is written too.
EditedBlindly(user, columns) == [columns EXCEPT !.role = user.role]

\* Mutant: a call without `active' deactivates the user.
EditedActive(user, columns) ==
    LET Column(c) == IF columns[c] # None THEN columns[c] ELSE user[c]
    IN  Columns(Column("email"), Column("password"), user.role, columns.active = TRUE)

\* What the call was sent is set on the entity; there is no way to send a role.
Edited(user, columns) ==
    LET Column(c) == IF columns[c] # None THEN columns[c] ELSE user[c]
    IN  Columns(Column("email"), Column("password"), user.role, Column("active"))

\* Mutant: the hash column is selected too, and an entity keeps it.
SelectedAll(row) == row

Selected(row) == [row EXCEPT !.password = None]

ReadUser(r) ==
    /\ pc[r] = "readUser"
    /\ LET row == users[call[r].user]
           newEmail == sent[r].email \notin {None, row.email}
       IN  /\ held' = [held EXCEPT ![r] = Edited(Selected(row), sent[r])]
           /\ Continue(r, IF newEmail THEN "checkEmail" ELSE "load")
    /\ UNCHANGED <<tables, call, sent, loaded, loggedOut>>

LoadRow(r) ==
    /\ pc[r] = "load"
    /\ loaded' = [loaded EXCEPT ![r] = Selected(users[call[r].user])]
    /\ Continue(r, "write")
    /\ UNCHANGED <<tables, call, sent, held, loggedOut>>

Merged(row, mine, base) ==
    LET Column(c) == IF mine[c] # base[c] THEN mine[c] ELSE row[c]
    IN  Columns(Column("email"), Column("password"), Column("role"), Column("active"))

WriteRow(r) ==
    /\ pc[r] = "write"
    /\ LET u == call[r].user
           row == Merged(users[u], held[r], loaded[r])
       IN  /\ EmailFree(row.email, u)
           /\ users' = [users EXCEPT ![u] = row]
    /\ Answer(r)
    /\ UNCHANGED <<tokens, loggedOut>>

WriteRefused(r) ==
    /\ pc[r] = "write"
    /\ ~EmailFree(Merged(users[call[r].user], held[r], loaded[r]).email, call[r].user)
    /\ Refuse(r)

(***************************************************************************)
(* login, refresh and logout                                               *)
(***************************************************************************)

\* The user whose email and password these are, in one query.
FindCredentials(r) ==
    /\ pc[r] = "findCredentials"
    /\ LET matching == {u \in Registered : /\ users[u].email = sent[r].email
                                           /\ users[u].password = sent[r].password
                                           /\ users[u].active}
       IN  \/ matching = {} /\ Refuse(r)
           \/ \E u \in matching :
                /\ call' = [call EXCEPT ![r].user = u]
                /\ Continue(r, "issue")
                /\ UNCHANGED <<tables, sent, held, loaded, loggedOut>>

\* createRefreshToken: the last step of register and login.
IssueToken(r) ==
    /\ pc[r] = "issue"
    /\ \E t \in TokenIds \ Issued :
         tokens' = [tokens EXCEPT ![t] = [user |-> call[r].user, revoked |-> FALSE]]
    /\ Answer(r)
    /\ UNCHANGED <<users, loggedOut>>

\* resolveRefreshToken: first the row of the token ...
FindToken(r) ==
    /\ pc[r] = "findToken"
    /\ LET token == tokens[call[r].token]
       IN  \/ token.revoked /\ Refuse(r)
           \/ /\ ~token.revoked
              /\ call' = [call EXCEPT ![r].user = token.user]
              /\ Continue(r, "findUser")
              /\ UNCHANGED <<tables, sent, held, loaded, loggedOut>>

\* ... then its user, who must be active.
FindUser(r) ==
    /\ pc[r] = "findUser"
    /\ LET active == users[call[r].user].active
       IN  \/ ~active /\ Refuse(r)
           \/ /\ active
              /\ Continue(r, IF call[r].kind = "logout" THEN "revoke" ELSE "grant")
              /\ UNCHANGED <<tables, call, sent, held, loaded, loggedOut>>

\* refresh answers with a new access token.
Grant(r) ==
    /\ pc[r] = "grant"
    /\ Answer(r)
    /\ UNCHANGED <<tables, loggedOut>>

\* Mutant: the token is not saved.
RevokeUnsaved(r) ==
    /\ pc[r] = "revoke"
    /\ loggedOut' = loggedOut \cup {call[r].token}
    /\ Answer(r)
    /\ UNCHANGED tables

\* save() of the token; `revoked' is the only column that ever differs.
Revoke(r) ==
    /\ pc[r] = "revoke"
    /\ tokens' = [tokens EXCEPT ![call[r].token].revoked = TRUE]
    /\ loggedOut' = loggedOut \cup {call[r].token}
    /\ Answer(r)
    /\ UNCHANGED users

\* A query fails, the refresh token has expired, or the process stops.
Fail(r) == pc[r] # "idle" /\ Refuse(r)

-----------------------------------------------------------------------------
(***************************************************************************)
(* Specification                                                           *)
(***************************************************************************)
Serve(r) ==
    \/ Count(r) \/ CheckEmail(r) \/ Insert(r) \/ InsertRefused(r)
    \/ ReadUser(r) \/ LoadRow(r) \/ WriteRow(r) \/ WriteRefused(r)
    \/ FindCredentials(r) \/ IssueToken(r)
    \/ FindToken(r) \/ FindUser(r) \/ Grant(r) \/ Revoke(r)

\* What the step changes of the users that requests have read and not yet loaded
\* again.
Note ==
    overtaken' =
      [q \in Requests |->
         IF held[q] = None \/ held'[q] = None THEN {}
         ELSE IF loaded[q] # None THEN overtaken[q]
         ELSE overtaken[q] \cup
                {c \in {"email", "active"} :
                   sent[q][c] = None /\ users'[call[q].user][c] # users[call[q].user][c]}]

Next == \E r \in Requests : (Arrive(r) \/ Serve(r) \/ Fail(r)) /\ Note
Spec == Init /\ [][Next]_vars

-----------------------------------------------------------------------------
(***************************************************************************)
(* Properties                                                              *)
(***************************************************************************)

\* The calls that change a user.
Editing == {"update", "password"}

\* What a request has found out, or was sent, by the step that uses it.
Prepared(r) ==
    LET c == call[r]
    IN  /\ pc[r] = "idle" => c.kind = None
        /\ pc[r] = "count" =>
             /\ c.kind = "register"
             /\ sent[r].email \in Emails /\ sent[r].password \in Passwords
             /\ sent[r].active \in BOOLEAN
        /\ pc[r] = "checkEmail" =>
             c.kind \in {"register", "create", "update"} /\ sent[r].email \in Emails
        /\ pc[r] \in {"checkEmail", "insert"} /\ c.kind # "update" => sent[r] \in User
        /\ pc[r] = "insert" => c.kind \in {"register", "create"}
        /\ c.kind = "password" => sent[r].email = None
        /\ c.kind \in Editing => pc[r] \in {"readUser", "checkEmail", "load", "write"}
        /\ pc[r] \in {"readUser", "load", "write"} => c.kind \in Editing
        /\ c.kind \in Editing \/ pc[r] \in {"issue", "findUser"} => c.user \in Registered
        /\ c.kind \in Editing /\ pc[r] # "readUser" => held[r] \in Entity
        /\ pc[r] = "write" => loaded[r] \in Entity /\ loaded[r].password = None
        /\ pc[r] \in {"findToken", "findUser", "revoke"} => c.token \in Issued

\* The type of every variable, and of what a request holds when it uses it.
TypeOK ==
    /\ users \in [UserIds -> User \cup {None}]
    /\ tokens \in [TokenIds -> Token \cup {None}]
    /\ pc \in [Requests -> Steps \cup {"idle"}]
    /\ call \in [Requests -> Call]
    /\ sent \in [Requests -> Fields]
    /\ held \in [Requests -> Entity \cup {None}]
    /\ loaded \in [Requests -> Entity \cup {None}]
    /\ loggedOut \subseteq Issued
    /\ late \subseteq Requests
    /\ \A t \in Issued : tokens[t].user \in Registered
    /\ \A r \in Requests : Prepared(r)

\* No two users have the same email, though create, register and update only
\* look for it before they save.
EmailsUnique ==
    \A u, v \in Registered : users[u].email = users[v].email => u = v

\* From the first registration on there is a ROOT, however many users register
\* at the same time (register makes the first user ROOT).
SomeRoot == Registered # {} => Administered

\* Nobody is let in by a token a logout was answered for before the call came:
\* refresh and logout do not get past the look-up of the token, whatever else
\* is registered, changed or revoked meanwhile.
LoggedOutStaysOut == \A r \in late : pc[r] = "findToken"

\* The call being carried out asked for this value.
Asked(u, column, value) ==
    \E r \in Requests : /\ pc[r] = "write"
                        /\ call[r].user = u
                        /\ sent[r][column] = value

\* Roles never change, and a password only to what a call of updatePassword was
\* sent: update() does not put an old one back, however calls interleave (tests
\* "should not update password" and "should not update roles").
PasswordsAndRolesKept ==
    [][\A u \in Registered :
         /\ users[u].role' = users[u].role
         /\ users[u].password' # users[u].password => Asked(u, "password", users[u].password')]_vars

\* The call being carried out puts this value back: it read the user before
\* another call changed the column, and saves after it.
PutBack(u, column, value) ==
    \E r \in Requests : /\ pc[r] = "write"
                        /\ call[r].user = u
                        /\ column \in overtaken[r] /\ held[r][column] = value

\* Every change of a column is one that the call being carried out asked for, or
\* undoes a change another call made between its read of the user and the load
\* of its save: there is no other way in which calls that interleave lose one.
ChangesAreAsked ==
    [][\A u \in Registered : \A c \in {"email", "active"} :
         LET new == users[u][c]'
         IN  new # users[u][c] => Asked(u, c, new) \/ PutBack(u, c, new)]_vars
=============================================================================
