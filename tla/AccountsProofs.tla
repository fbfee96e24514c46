--------------------------- MODULE AccountsProofs ---------------------------
(***************************************************************************)
(* Theorems about Accounts, for any number of users, tokens, values and    *)
(* requests.                                                               *)
(***************************************************************************)
EXTENDS Accounts, TLAPS

(***************************************************************************)
(* What the operators return                                               *)
(***************************************************************************)
LEMMA Distinct ==
    /\ None \notin UserIds /\ None \notin TokenIds /\ None \notin Emails
    /\ None \notin Passwords /\ None \notin Roles /\ None \notin BOOLEAN /\ None \notin CallKinds
    /\ None \notin User /\ None \notin Token /\ None \notin Entity
BY NoneAssumption, SMT

LEMMA SelectedType ==
    ASSUME NEW row \in User
    PROVE  /\ Selected(row) \in Entity
           /\ Selected(row).password = None
           /\ Selected(row).role = row.role
BY DEF Selected, User, Entity

LEMMA EditedType ==
    ASSUME NEW user \in Entity, NEW columns \in Fields
    PROVE  /\ Edited(user, columns) \in Entity /\ Edited(user, columns).role = user.role
           /\ user.password = None => Edited(user, columns).password = columns.password
BY Distinct DEF Edited, Columns, Entity, Fields

LEMMA MergedType ==
    ASSUME NEW row \in User, NEW mine \in Entity, NEW base \in Entity, base.password = None
    PROVE  /\ Merged(row, mine, base) \in User
           /\ mine.role = base.role => Merged(row, mine, base).role = row.role
           /\ Merged(row, mine, base).password \in {row.password, mine.password}
BY Distinct DEF Merged, Columns, User, Entity

LEMMA AboutType ==
    ASSUME NEW kind, NEW u \in UserIds \cup {None}, NEW t \in TokenIds \cup {None}
    PROVE  /\ About(kind, u, t).kind = kind /\ About(kind, u, t).user = u
           /\ About(kind, u, t).token = t
           /\ kind \in CallKinds \cup {None} => About(kind, u, t) \in Call
BY DEF About, Call

LEMMA ColumnsType ==
    ASSUME NEW e, NEW p, NEW o, NEW a
    PROVE  /\ Columns(e, p, o, a).email = e /\ Columns(e, p, o, a).password = p
           /\ Columns(e, p, o, a).role = o /\ Columns(e, p, o, a).active = a
           /\ /\ e \in Emails \cup {None} /\ p \in Passwords \cup {None}
              /\ o \in Roles \cup {None} /\ a \in BOOLEAN \cup {None}
              => Columns(e, p, o, a) \in Fields
           /\ e \in Emails /\ p \in Passwords /\ o \in Roles /\ a \in BOOLEAN
              => Columns(e, p, o, a) \in User
BY DEF Columns, Fields, User

(***************************************************************************)
(* What steps do to requests                                               *)
(***************************************************************************)

\* A request that does not step stays prepared, as no row is ever removed.
LEMMA PreparedKept ==
    ASSUME NEW q \in Requests, Prepared(q),
           pc'[q] = pc[q], call'[q] = call[q], sent'[q] = sent[q],
           held'[q] = held[q], loaded'[q] = loaded[q],
           Registered \subseteq Registered', Issued \subseteq Issued'
    PROVE  Prepared(q)'
BY DEF Prepared

LEMMA PreparedAfterAnswer ==
    ASSUME NEW q \in Requests, pc'[q] = "idle", call'[q] = NoCall
    PROVE  Prepared(q)'
BY AboutType, Distinct DEF Prepared, NoCall, Editing, CallKinds

\* Rows are only added.
RowsStay == Registered \subseteq Registered' /\ Issued \subseteq Issued'

LEMMA AnswerTypes ==
    ASSUME TypeOK, NEW r \in Requests, Answer(r), RowsStay,
           users' \in [UserIds -> User \cup {None}],
           tokens' \in [TokenIds -> Token \cup {None}],
           loggedOut' \subseteq Issued',
           \A t \in Issued' : tokens'[t].user \in Registered'
    PROVE  TypeOK'
<1>1. NoCall \in Call /\ Unsent \in Fields
  BY AboutType, ColumnsType DEF NoCall, Unsent
<1>2. /\ pc' \in [Requests -> Steps \cup {"idle"}]
      /\ call' \in [Requests -> Call]
      /\ sent' \in [Requests -> Fields]
      /\ held' \in [Requests -> Entity \cup {None}]
      /\ loaded' \in [Requests -> Entity \cup {None}]
      /\ late' \subseteq Requests
  BY <1>1 DEF Answer, TypeOK
<1>3. ASSUME NEW q \in Requests PROVE Prepared(q)'
  <2>1. CASE q = r
    <3>1. pc'[q] = "idle" /\ call'[q] = NoCall
      BY <2>1 DEF Answer, TypeOK
    <3> QED BY <3>1, PreparedAfterAnswer
  <2>2. CASE q # r
    <3>1. Prepared(q) /\ pc'[q] = pc[q] /\ call'[q] = call[q] /\ sent'[q] = sent[q]
            /\ held'[q] = held[q] /\ loaded'[q] = loaded[q]
      BY <2>2 DEF Answer, TypeOK
    <3> QED BY <3>1, PreparedKept DEF RowsStay
  <2> QED BY <2>1, <2>2
<1> QED
  BY <1>2, <1>3 DEF TypeOK

LEMMA RefuseTypes ==
    ASSUME TypeOK, NEW r \in Requests, Refuse(r)
    PROVE  TypeOK' /\ RowsStay
<1>1. RowsStay
  BY DEF Refuse, RowsStay, Registered, Issued, tables
<1> QED
  BY <1>1, AnswerTypes DEF Refuse, TypeOK, tables, Registered, Issued

\* A step of r that does not answer and leaves the tokens alone.
LEMMA OnwardTypes ==
    ASSUME TypeOK, NEW r \in Requests, RowsStay,
           users' \in [UserIds -> User \cup {None}], tokens' = tokens,
           NEW step \in Steps, pc' = [pc EXCEPT ![r] = step],
           NEW c \in Call, call' = [call EXCEPT ![r] = c],
           NEW s \in Fields, sent' = [sent EXCEPT ![r] = s],
           NEW h \in Entity \cup {None}, held' = [held EXCEPT ![r] = h],
           NEW l \in Entity \cup {None}, loaded' = [loaded EXCEPT ![r] = l],
           loggedOut' = loggedOut, late' \subseteq Requests,
           Prepared(r)'
    PROVE  TypeOK'
<1>1. /\ pc' \in [Requests -> Steps \cup {"idle"}]
      /\ call' \in [Requests -> Call]
      /\ sent' \in [Requests -> Fields]
      /\ held' \in [Requests -> Entity \cup {None}]
      /\ loaded' \in [Requests -> Entity \cup {None}]
  BY DEF TypeOK
<1>2. ASSUME NEW q \in Requests PROVE Prepared(q)'
  <2>1. CASE q = r BY <2>1
  <2>2. CASE q # r
    <3>1. Prepared(q) /\ pc'[q] = pc[q] /\ call'[q] = call[q] /\ sent'[q] = sent[q]
            /\ held'[q] = held[q] /\ loaded'[q] = loaded[q]
      BY <2>2 DEF TypeOK
    <3> QED BY <3>1, PreparedKept DEF RowsStay
  <2> QED BY <2>1, <2>2
<1>3. loggedOut' \subseteq Issued' /\ \A t \in Issued' : tokens'[t].user \in Registered'
  BY DEF TypeOK, RowsStay, Issued
<1> QED
  BY <1>1, <1>2, <1>3 DEF TypeOK

(***************************************************************************)
(* Types                                                                   *)
(***************************************************************************)

\* What a call that arrives is prepared with.
Arrived(kind, step, about, columns) ==
    /\ about.kind = kind
    /\ step # "findToken" => about.token = None
    /\ \/ /\ step = "count" /\ kind = "register"
          /\ columns.email \in Emails /\ columns.password \in Passwords
          /\ columns.active \in BOOLEAN
       \/ step = "checkEmail" /\ kind = "create" /\ columns \in User /\ Administered
       \/ /\ step = "readUser" /\ kind \in Editing /\ about.user \in Registered
          /\ kind = "password" => columns.email = None
       \/ step = "findCredentials" /\ kind = "login"
       \/ step = "findToken" /\ kind \in {"refresh", "logout"} /\ about.token \in Issued

LEMMA ReceiveBegins ==
    ASSUME TypeOK, NEW r \in Requests, NEW kind \in Calls, Receive(r, kind)
    PROVE  \E step \in Steps, about \in Call, columns \in Fields :
             Begin(r, step, about, columns) /\ Arrived(kind, step, about, columns)
<1>0. kind \in CallKinds
  BY CallsAssumption
<1>1. CASE kind = "register"
  <2>1. PICK e \in Emails, p \in Passwords :
          Begin(r, "count", About(kind, None, None), Columns(e, p, None, TRUE))
    BY <1>1 DEF Receive
  <2>2. About(kind, None, None) \in Call /\ Columns(e, p, None, TRUE) \in Fields
    BY <1>0, AboutType, ColumnsType
  <2>3. Arrived(kind, "count", About(kind, None, None), Columns(e, p, None, TRUE))
    BY <1>1 DEF Arrived, About, Columns, User, Editing, Registered, Issued
  <2>4. "count" \in Steps
    BY DEF Steps
  <2> QED BY <2>1, <2>2, <2>3, <2>4
<1>2. CASE kind = "create"
  <2>0. GivenRoles \subseteq Roles
    BY RolesAssumption
  <2>1. PICK e \in Emails, p \in Passwords, o \in GivenRoles, a \in BOOLEAN :
          Begin(r, "checkEmail", About(kind, None, None), Columns(e, p, o, a))
    BY <1>2 DEF Receive
  <2>2. About(kind, None, None) \in Call /\ Columns(e, p, o, a) \in Fields
    BY <1>0, <2>0, AboutType, ColumnsType
  <2>3. Arrived(kind, "checkEmail", About(kind, None, None), Columns(e, p, o, a))
    BY <1>2, <2>0 DEF Receive, Arrived, About, Columns, User, Editing, Registered, Issued
  <2>4. "checkEmail" \in Steps
    BY DEF Steps
  <2> QED BY <2>1, <2>2, <2>3, <2>4
<1>3. CASE kind = "update"
  <2>1. PICK u \in Registered, e \in Emails \cup {None}, a \in BOOLEAN \cup {None} :
          Begin(r, "readUser", About(kind, u, None), Columns(e, None, None, a))
    BY <1>3 DEF Receive
  <2>2. About(kind, u, None) \in Call /\ Columns(e, None, None, a) \in Fields
    BY <1>0, AboutType, ColumnsType DEF Registered
  <2>3. Arrived(kind, "readUser", About(kind, u, None), Columns(e, None, None, a))
    BY <1>3 DEF Arrived, About, Columns, User, Editing, Registered, Issued
  <2>4. "readUser" \in Steps
    BY DEF Steps
  <2> QED BY <2>1, <2>2, <2>3, <2>4
<1>4. CASE kind = "password"
  <2>1. PICK u \in Registered, p \in Passwords :
          Begin(r, "readUser", About(kind, u, None), Columns(None, p, None, None))
    BY <1>4 DEF Receive
  <2>2. About(kind, u, None) \in Call /\ Columns(None, p, None, None) \in Fields
    BY <1>0, AboutType, ColumnsType DEF Registered
  <2>3. Arrived(kind, "readUser", About(kind, u, None), Columns(None, p, None, None))
    BY <1>4 DEF Arrived, About, Columns, User, Editing, Registered, Issued
  <2>4. "readUser" \in Steps
    BY DEF Steps
  <2> QED BY <2>1, <2>2, <2>3, <2>4
<1>5. CASE kind = "login"
  <2>1. PICK e \in Emails, p \in Passwords :
          Begin(r, "findCredentials", About(kind, None, None), Columns(e, p, None, None))
    BY <1>5 DEF Receive
  <2>2. About(kind, None, None) \in Call /\ Columns(e, p, None, None) \in Fields
    BY <1>0, AboutType, ColumnsType
  <2>3. Arrived(kind, "findCredentials", About(kind, None, None), Columns(e, p, None, None))
    BY <1>5 DEF Arrived, About, Columns, User, Editing, Registered, Issued
  <2>4. "findCredentials" \in Steps
    BY DEF Steps
  <2> QED BY <2>1, <2>2, <2>3, <2>4
<1>6. CASE kind \in {"refresh", "logout"}
  <2>1. PICK t \in Issued :
          Begin(r, "findToken", About(kind, None, t), Unsent)
    BY <1>6 DEF Receive
  <2>2. About(kind, None, t) \in Call /\ Unsent \in Fields
    BY <1>0, AboutType, ColumnsType DEF Issued, Unsent
  <2>3. Arrived(kind, "findToken", About(kind, None, t), Unsent)
    BY <1>6 DEF Arrived, About, Columns, User, Editing, Registered, Issued
  <2>4. "findToken" \in Steps
    BY DEF Steps
  <2> QED BY <2>1, <2>2, <2>3, <2>4
<1> QED
  BY <1>0, <1>1, <1>2, <1>3, <1>4, <1>5, <1>6 DEF CallKinds

LEMMA ReceiveTypes ==
    ASSUME TypeOK, NEW r \in Requests, NEW kind \in Calls, Receive(r, kind)
    PROVE  TypeOK' /\ RowsStay
<1>1. PICK step \in Steps, about \in Call, columns \in Fields :
        Begin(r, step, about, columns) /\ Arrived(kind, step, about, columns)
  BY ReceiveBegins
<1>2. RowsStay /\ users' = users /\ Registered' = Registered /\ Issued' = Issued
  BY <1>1 DEF Begin, tables, RowsStay, Registered, Issued
<1>3. pc'[r] = step /\ call'[r] = about /\ sent'[r] = columns
  BY <1>1 DEF Begin, TypeOK
<1>4. columns \in User => columns.email \in Emails
  BY DEF User
<1>5. Prepared(r)'
  BY <1>1, <1>2, <1>3, <1>4, Distinct DEF Prepared, Arrived, Editing
<1>6. held[r] \in Entity \cup {None} /\ loaded[r] \in Entity \cup {None} /\ late' \subseteq Requests
      /\ held' = [held EXCEPT ![r] = held[r]] /\ loaded' = [loaded EXCEPT ![r] = loaded[r]]
  BY <1>1 DEF Begin, TypeOK
<1> QED
  BY <1>1, <1>2, <1>5, <1>6, OnwardTypes DEF Begin, tables, TypeOK

\* The parts of the type invariant the steps below use.
LEMMA TypeParts ==
    ASSUME TypeOK, NEW r \in Requests
    PROVE  /\ Prepared(r)
           /\ pc[r] \in Steps \cup {"idle"} /\ call[r] \in Call /\ sent[r] \in Fields
           /\ held[r] \in Entity \cup {None} /\ loaded[r] \in Entity \cup {None}
           /\ held = [held EXCEPT ![r] = held[r]] /\ loaded = [loaded EXCEPT ![r] = loaded[r]]
           /\ call = [call EXCEPT ![r] = call[r]] /\ sent = [sent EXCEPT ![r] = sent[r]]
           /\ \A u \in Registered : users[u] \in User
           /\ \A t \in Issued : tokens[t] \in Token /\ tokens[t].user \in Registered
           /\ users \in [UserIds -> User \cup {None}]
           /\ tokens \in [TokenIds -> Token \cup {None}]
BY DEF TypeOK, Registered, Issued

\* A step of r that only changes what r is about to do.
LEMMA ContinueTypes ==
    ASSUME TypeOK, NEW r \in Requests, NEW step \in Steps, Continue(r, step),
           UNCHANGED <<tables, call, sent, held, loaded, loggedOut>>,
           Prepared(r)'
    PROVE  TypeOK' /\ RowsStay
<1>1. RowsStay /\ users' = users /\ tokens' = tokens
  BY DEF RowsStay, Registered, Issued, tables
<1>2. late' \subseteq Requests
  BY DEF Continue, TypeOK
<1> QED
  BY <1>1, <1>2, TypeParts, OnwardTypes DEF Continue

LEMMA CountTypes ==
    ASSUME TypeOK, NEW r \in Requests, Count(r)
    PROVE  TypeOK' /\ RowsStay
<1>1. FirstRole \in Roles
  BY DEF FirstRole, Roles
<1>2. PICK s \in Fields : s = [sent[r] EXCEPT !.role = FirstRole] /\ s \in User
  <2>1. sent[r] \in Fields /\ sent[r].email \in Emails /\ sent[r].password \in Passwords
          /\ sent[r].active \in BOOLEAN
    BY TypeParts DEF Count, Prepared
  <2>2. /\ [sent[r] EXCEPT !.role = FirstRole] \in Fields
        /\ [sent[r] EXCEPT !.role = FirstRole] \in User
    BY <1>1, <2>1 DEF Fields, User
  <2> QED BY <2>2
<1>3. RowsStay /\ users' = users /\ tokens' = tokens
  BY DEF Count, RowsStay, Registered, Issued, tables
<1>4. sent' = [sent EXCEPT ![r] = s] /\ pc' = [pc EXCEPT ![r] = "checkEmail"]
  BY <1>2, TypeParts DEF Count, Continue
<1>5. pc'[r] = "checkEmail" /\ sent'[r] = s /\ call'[r] = call[r] /\ s.email \in Emails
  BY <1>2, <1>4 DEF Count, TypeOK, User
<1>6. call[r].kind = "register"
  BY TypeParts DEF Count, Prepared
<1>7. Prepared(r)'
  BY <1>2, <1>5, <1>6 DEF Prepared, Editing
<1>8. "checkEmail" \in Steps /\ late' \subseteq Requests
  BY DEF Steps, Count, Continue, TypeOK
<1> QED
  BY <1>2, <1>3, <1>4, <1>7, <1>8, TypeParts, OnwardTypes DEF Count, tables

LEMMA CheckEmailTypes ==
    ASSUME TypeOK, NEW r \in Requests, CheckEmail(r)
    PROVE  TypeOK' /\ RowsStay
<1>1. CASE Refuse(r) BY <1>1, RefuseTypes
<1>2. CASE ~Refuse(r)
  <2>1. PICK step \in {"load", "insert"} :
          /\ step = IF call[r].kind = "update" THEN "load" ELSE "insert"
          /\ Continue(r, step)
          /\ UNCHANGED <<tables, call, sent, held, loaded, loggedOut>>
    BY <1>2 DEF CheckEmail
  <2>2. pc'[r] = step /\ Registered' = Registered /\ Issued' = Issued
    BY <2>1 DEF Continue, TypeOK, Registered, Issued, tables
  <2>3. Prepared(r)'
    BY <2>1, <2>2, TypeParts DEF Prepared, CheckEmail, Editing
  <2> QED BY <2>1, <2>3, ContinueTypes DEF Steps
<1> QED BY <1>1, <1>2

LEMMA InsertTypes ==
    ASSUME TypeOK, NEW r \in Requests, Insert(r)
    PROVE  TypeOK' /\ RowsStay
<1>1. PICK u \in UserIds \ Registered :
        /\ users' = [users EXCEPT ![u] = sent[r]]
        /\ \/ call[r].kind = "create" /\ Answer(r)
           \/ /\ call[r].kind = "register"
              /\ call' = [call EXCEPT ![r].user = u]
              /\ Continue(r, "issue")
              /\ UNCHANGED <<sent, held, loaded>>
  BY DEF Insert
<1>2. sent[r] \in User /\ sent[r] # None
  <2>1. sent[r] \in User
    BY TypeParts DEF Insert, Prepared
  <2> QED BY <2>1, Distinct
<1>3. users' \in [UserIds -> User \cup {None}]
  BY <1>1, <1>2, TypeParts
<1>4. RowsStay /\ u \in Registered' /\ tokens' = tokens /\ Issued' = Issued
  BY <1>1, <1>2, <1>3, TypeParts DEF Insert, RowsStay, Registered, Issued
<1>5. CASE Answer(r)
  BY <1>3, <1>4, <1>5, AnswerTypes DEF Insert, TypeOK, RowsStay
<1>6. CASE ~Answer(r)
  <2>1. PICK c \in Call : c = [call[r] EXCEPT !.user = u]
    <3>1. call[r] \in Call /\ u \in UserIds
      BY TypeParts
    <3>2. [call[r] EXCEPT !.user = u] \in Call
      BY <3>1 DEF Call
    <3> QED BY <3>2
  <2>2. call' = [call EXCEPT ![r] = c] /\ pc' = [pc EXCEPT ![r] = "issue"]
    BY <1>1, <1>6, <2>1, TypeParts DEF Continue
  <2>3. call'[r] = c /\ pc'[r] = "issue" /\ c.user = u /\ c.kind = "register"
    BY <1>1, <1>6, <2>1, <2>2 DEF TypeOK, Call
  <2>4. Prepared(r)'
    BY <1>4, <2>3 DEF Prepared, Editing
  <2>5. "issue" \in Steps /\ late' \subseteq Requests
    BY <1>1, <1>6 DEF Steps, Continue, TypeOK
  <2> QED
    BY ZenonT(30), <1>1, <1>3, <1>4, <1>6, <2>1, <2>2, <2>4, <2>5, TypeParts, OnwardTypes DEF Insert
<1> QED BY <1>5, <1>6

\* A step of r that looks up the user its call is about.
LEMMA LookUpTypes ==
    ASSUME TypeOK, NEW r \in Requests, call[r].kind \notin Editing,
           NEW u \in Registered, call' = [call EXCEPT ![r].user = u],
           NEW step \in {"issue", "findUser"}, Continue(r, step),
           step = "findUser" => call[r].token \in Issued,
           UNCHANGED <<tables, sent, held, loaded, loggedOut>>
    PROVE  TypeOK' /\ RowsStay
<1>1. call[r] \in Call /\ u \in UserIds
  BY TypeParts DEF Registered
<1>2. PICK c \in Call : c = [call[r] EXCEPT !.user = u]
  BY <1>1 DEF Call
<1>3. c.user = u /\ c.kind = call[r].kind /\ c.token = call[r].token
  BY <1>1, <1>2 DEF Call
<1>4. call' = [call EXCEPT ![r] = c] /\ pc' = [pc EXCEPT ![r] = step]
  BY <1>2 DEF Continue
<1>5. RowsStay /\ users' = users /\ tokens' = tokens /\ Registered' = Registered /\ Issued' = Issued
  BY DEF RowsStay, Registered, Issued, tables
<1>6. Prepared(r)'
  BY <1>3, <1>4, <1>5 DEF Prepared, TypeOK
<1>7. step \in Steps /\ late' \subseteq Requests /\ loggedOut' = loggedOut
  BY DEF Continue, Steps, TypeOK
<1>8. /\ sent[r] \in Fields /\ sent' = [sent EXCEPT ![r] = sent[r]]
      /\ held[r] \in Entity \cup {None} /\ held' = [held EXCEPT ![r] = held[r]]
      /\ loaded[r] \in Entity \cup {None} /\ loaded' = [loaded EXCEPT ![r] = loaded[r]]
      /\ users' \in [UserIds -> User \cup {None}]
  BY <1>5, TypeParts
<1> QED
  BY <1>4, <1>5, <1>6, <1>7, <1>8, OnwardTypes

LEMMA ReadUserTypes ==
    ASSUME TypeOK, NEW r \in Requests, ReadUser(r)
    PROVE  TypeOK' /\ RowsStay
<1>1. call[r].kind \in Editing /\ call[r].user \in Registered
  BY TypeParts DEF ReadUser, Prepared
<1>2. PICK h \in Entity : h = Edited(Selected(users[call[r].user]), sent[r])
  BY <1>1, TypeParts, SelectedType, EditedType
<1>3. PICK step \in {"checkEmail", "load"} :
        /\ Continue(r, step)
        /\ step = IF sent[r].email \notin {None, users[call[r].user].email}
                  THEN "checkEmail" ELSE "load"
  BY DEF ReadUser
<1>4. held' = [held EXCEPT ![r] = h] /\ pc' = [pc EXCEPT ![r] = step]
  BY <1>2, <1>3 DEF ReadUser, Continue
<1>5. RowsStay /\ users' = users /\ tokens' = tokens /\ Registered' = Registered
  BY DEF ReadUser, RowsStay, Registered, Issued, tables
<1>6. step = "checkEmail" => sent[r].email \in Emails /\ call[r].kind = "update"
  <2>1. sent[r].email \in Emails \cup {None}
    BY TypeParts DEF Fields
  <2>2. call[r].kind = "password" => sent[r].email = None
    BY TypeParts DEF ReadUser, Prepared
  <2> QED BY <1>1, <1>3, <2>1, <2>2 DEF Editing
<1>7. Prepared(r)'
  BY <1>1, <1>2, <1>4, <1>5, <1>6 DEF Prepared, ReadUser, Editing, TypeOK
<1> QED
  BY <1>2, <1>3, <1>4, <1>5, <1>7, TypeParts, OnwardTypes DEF ReadUser, Continue, Steps, TypeOK

LEMMA LoadRowTypes ==
    ASSUME TypeOK, NEW r \in Requests, LoadRow(r)
    PROVE  TypeOK' /\ RowsStay
<1>1. call[r].kind \in Editing /\ call[r].user \in Registered /\ held[r] \in Entity
  BY TypeParts DEF LoadRow, Prepared
<1>2. PICK l \in Entity : l = Selected(users[call[r].user]) /\ l.password = None
  BY <1>1, TypeParts, SelectedType
<1>3. loaded' = [loaded EXCEPT ![r] = l] /\ pc' = [pc EXCEPT ![r] = "write"]
  BY <1>2 DEF LoadRow, Continue
<1>4. RowsStay /\ users' = users /\ tokens' = tokens /\ Registered' = Registered
  BY DEF LoadRow, RowsStay, Registered, Issued, tables
<1>5. Prepared(r)'
  BY <1>1, <1>2, <1>3, <1>4 DEF Prepared, LoadRow, Editing, TypeOK
<1> QED
  BY <1>2, <1>3, <1>4, <1>5, TypeParts, OnwardTypes DEF LoadRow, Continue, Steps, TypeOK

LEMMA WriteRowTypes ==
    ASSUME TypeOK, NEW r \in Requests, WriteRow(r)
    PROVE  TypeOK' /\ RowsStay
<1>1. /\ call[r].user \in Registered
      /\ held[r] \in Entity /\ loaded[r] \in Entity /\ loaded[r].password = None
  BY TypeParts DEF WriteRow, Prepared, Editing
<1>2. PICK row \in User : users' = [users EXCEPT ![call[r].user] = row]
  BY <1>1, TypeParts, MergedType DEF WriteRow
<1>3. users' \in [UserIds -> User \cup {None}] /\ Registered' = Registered
  BY <1>1, <1>2, TypeParts, Distinct DEF Registered
<1>4. RowsStay
  BY <1>3 DEF WriteRow, RowsStay, Issued
<1> QED
  BY <1>3, <1>4, AnswerTypes DEF WriteRow, TypeOK, Issued

LEMMA FindCredentialsTypes ==
    ASSUME TypeOK, NEW r \in Requests, FindCredentials(r)
    PROVE  TypeOK' /\ RowsStay
<1>1. CASE Refuse(r) BY <1>1, RefuseTypes
<1>2. CASE ~Refuse(r)
  <2>1. PICK u \in Registered :
          /\ call' = [call EXCEPT ![r].user = u]
          /\ Continue(r, "issue")
          /\ UNCHANGED <<tables, sent, held, loaded, loggedOut>>
    BY <1>2 DEF FindCredentials
  <2>2. call[r].kind \notin Editing
    BY TypeParts DEF FindCredentials, Prepared
  <2> QED BY <2>1, <2>2, LookUpTypes DEF Steps
<1> QED BY <1>1, <1>2

LEMMA IssueTokenTypes ==
    ASSUME TypeOK, NEW r \in Requests, IssueToken(r)
    PROVE  TypeOK' /\ RowsStay
<1>1. PICK t \in TokenIds \ Issued :
        tokens' = [tokens EXCEPT ![t] = [user |-> call[r].user, revoked |-> FALSE]]
  BY DEF IssueToken
<1>2. call[r].user \in Registered
  BY TypeParts DEF IssueToken, Prepared
<1>3. [user |-> call[r].user, revoked |-> FALSE] \in Token
  BY <1>2 DEF Token, Registered
<1>4. tokens' \in [TokenIds -> Token \cup {None}] /\ users' = users /\ Registered' = Registered
  BY <1>1, <1>3, TypeParts DEF IssueToken, Registered
<1>5. RowsStay
  BY <1>1, <1>3, <1>4, TypeParts, Distinct DEF RowsStay, Issued
<1>6. \A q \in Issued' : tokens'[q].user \in Registered'
  BY <1>1, <1>2, <1>4, TypeParts DEF Issued
<1>7. loggedOut' \subseteq Issued' /\ Answer(r)
  BY <1>5 DEF IssueToken, TypeOK, RowsStay
<1> QED
  BY <1>4, <1>5, <1>6, <1>7, TypeParts, AnswerTypes

LEMMA FindTokenTypes ==
    ASSUME TypeOK, NEW r \in Requests, FindToken(r)
    PROVE  TypeOK' /\ RowsStay
<1>1. CASE Refuse(r) BY <1>1, RefuseTypes
<1>2. CASE ~Refuse(r)
  <2>1. call[r].token \in Issued /\ call[r].kind \notin Editing
    BY TypeParts DEF FindToken, Prepared, Editing
  <2>2. PICK u \in Registered : u = tokens[call[r].token].user
    BY <2>1, TypeParts
  <2>3. /\ call' = [call EXCEPT ![r].user = u]
        /\ Continue(r, "findUser")
        /\ UNCHANGED <<tables, sent, held, loaded, loggedOut>>
    BY <1>2, <2>2 DEF FindToken
  <2> QED BY <2>1, <2>3, LookUpTypes DEF Steps
<1> QED BY <1>1, <1>2

LEMMA FindUserTypes ==
    ASSUME TypeOK, NEW r \in Requests, FindUser(r)
    PROVE  TypeOK' /\ RowsStay
<1>1. CASE Refuse(r) BY <1>1, RefuseTypes
<1>2. CASE ~Refuse(r)
  <2>1. PICK step \in {"revoke", "grant"} :
          /\ Continue(r, step)
          /\ UNCHANGED <<tables, call, sent, held, loaded, loggedOut>>
    BY <1>2 DEF FindUser
  <2>2. pc'[r] = step /\ Registered' = Registered /\ Issued' = Issued
    BY <2>1 DEF Continue, TypeOK, Registered, Issued, tables
  <2>3. Prepared(r)'
    BY <2>1, <2>2, TypeParts DEF Prepared, FindUser, Editing
  <2> QED BY <2>1, <2>3, ContinueTypes DEF Steps
<1> QED BY <1>1, <1>2

LEMMA RevokeTypes ==
    ASSUME TypeOK, NEW r \in Requests, Revoke(r)
    PROVE  TypeOK' /\ RowsStay
<1>1. call[r].token \in Issued
  BY TypeParts DEF Revoke, Prepared
<1>2. PICK token \in Token : /\ tokens' = [tokens EXCEPT ![call[r].token] = token]
                             /\ token.user = tokens[call[r].token].user
  <2>1. tokens[call[r].token] \in Token
    BY <1>1, TypeParts
  <2>2. [tokens[call[r].token] EXCEPT !.revoked = TRUE] \in Token
    BY <2>1 DEF Token
  <2>3. [tokens[call[r].token] EXCEPT !.revoked = TRUE].user = tokens[call[r].token].user
    BY <2>1 DEF Token
  <2> QED BY <2>2, <2>3 DEF Revoke
<1>3. tokens' \in [TokenIds -> Token \cup {None}] /\ users' = users /\ Registered' = Registered
  BY ZenonT(30), <1>2, TypeParts DEF Revoke, Registered
<1>4. Issued' = Issued
  BY <1>1, <1>2, <1>3, TypeParts, Distinct DEF Issued
<1>5. \A q \in Issued' : tokens'[q].user \in Registered'
  BY <1>1, <1>2, <1>3, <1>4, TypeParts DEF Issued
<1>6. loggedOut' \subseteq Issued' /\ Answer(r)
  BY <1>1, <1>4 DEF Revoke, TypeOK
<1>7. RowsStay
  BY <1>3, <1>4 DEF RowsStay
<1> QED
  BY <1>3, <1>5, <1>6, <1>7, TypeParts, AnswerTypes

LEMMA NextTypes ==
    ASSUME TypeOK, [Next]_vars
    PROVE  TypeOK' /\ RowsStay
<1>1. CASE UNCHANGED vars
  BY <1>1, PreparedKept DEF vars, TypeOK, RowsStay, Registered, Issued
<1>2. ASSUME NEW r \in Requests, Arrive(r) PROVE TypeOK' /\ RowsStay
  BY <1>2, ReceiveTypes DEF Arrive
<1>3. ASSUME NEW r \in Requests, Serve(r) PROVE TypeOK' /\ RowsStay
  <2>1. CASE Count(r) BY <2>1, CountTypes
  <2>2. CASE CheckEmail(r) BY <2>2, CheckEmailTypes
  <2>3. CASE Insert(r) BY <2>3, InsertTypes
  <2>4. CASE InsertRefused(r) \/ WriteRefused(r)
    BY <2>4, RefuseTypes DEF InsertRefused, WriteRefused
  <2>5. CASE ReadUser(r) BY <2>5, ReadUserTypes
  <2>6. CASE LoadRow(r) BY <2>6, LoadRowTypes
  <2>7. CASE WriteRow(r) BY <2>7, WriteRowTypes
  <2>8. CASE FindCredentials(r) BY <2>8, FindCredentialsTypes
  <2>9. CASE IssueToken(r) BY <2>9, IssueTokenTypes
  <2>10. CASE FindToken(r) BY <2>10, FindTokenTypes
  <2>11. CASE FindUser(r) BY <2>11, FindUserTypes
  <2>12. CASE Grant(r)
    BY <2>12, RefuseTypes DEF Grant, Refuse
  <2>13. CASE Revoke(r) BY <2>13, RevokeTypes
  <2> QED
    BY <1>3, <2>1, <2>2, <2>3, <2>4, <2>5, <2>6, <2>7, <2>8, <2>9, <2>10, <2>11, <2>12, <2>13
       DEF Serve
<1>4. ASSUME NEW r \in Requests, Fail(r) PROVE TypeOK' /\ RowsStay
  BY <1>4, RefuseTypes DEF Fail
<1> QED
  BY <1>1, <1>2, <1>3, <1>4 DEF Next

LEMMA InitTypes == Init => TypeOK
<1> SUFFICES ASSUME Init PROVE TypeOK
  OBVIOUS
<1>1. NoCall \in Call /\ NoCall.kind = None /\ Unsent \in Fields
  BY DEF NoCall, Unsent, About, Columns, Call, Fields
<1>2. \A r \in Requests : Prepared(r)
  BY <1>1, Distinct DEF Init, Prepared, Editing, CallKinds
<1> QED
  BY <1>1, <1>2 DEF Init, TypeOK, Issued

\* The type invariant: whatever calls interleave and fail, every variable keeps
\* its type, and a request has what its next step uses.
THEOREM TypeCorrect == Spec => []TypeOK
<1>1. TypeOK /\ [Next]_vars => TypeOK'
  BY NextTypes
<1> QED
  BY <1>1, InitTypes, PTL DEF Spec

(***************************************************************************)
(* Users change by two of the steps only                                   *)
(***************************************************************************)
LEMMA UserSteps ==
    ASSUME [Next]_vars
    PROVE  users' = users \/ \E r \in Requests : Insert(r) \/ WriteRow(r)
<1>1. ASSUME NEW r \in Requests, Arrive(r) PROVE users' = users
  BY <1>1 DEF Arrive, Receive, Begin, tables
<1>2. ASSUME NEW r \in Requests, Serve(r), ~Insert(r), ~WriteRow(r) PROVE users' = users
  <2>1. CASE Count(r) \/ CheckEmail(r) \/ InsertRefused(r) \/ ReadUser(r)
    BY <2>1 DEF Count, CheckEmail, InsertRefused, ReadUser, Refuse, tables
  <2>2. CASE LoadRow(r) \/ WriteRefused(r) \/ FindCredentials(r) \/ IssueToken(r)
    BY <2>2 DEF LoadRow, WriteRefused, FindCredentials, IssueToken, Refuse, tables
  <2>3. CASE FindToken(r) \/ FindUser(r) \/ Grant(r) \/ Revoke(r)
    BY <2>3 DEF FindToken, FindUser, Grant, Revoke, Refuse, tables
  <2> QED BY <1>2, <2>1, <2>2, <2>3 DEF Serve
<1>3. ASSUME NEW r \in Requests, Fail(r) PROVE users' = users
  BY <1>3 DEF Fail, Refuse, tables
<1> QED
  BY <1>1, <1>2, <1>3 DEF Next, vars

LEMMA InsertAdds ==
    ASSUME TypeOK, NEW r \in Requests, Insert(r)
    PROVE  \E u \in UserIds \ Registered :
             /\ users' = [users EXCEPT ![u] = sent[r]] /\ sent[r] \in User
             /\ Registered' = Registered \cup {u}
             /\ \A v \in Registered : users[v].email # sent[r].email
<1>1. PICK u \in UserIds \ Registered :
        EmailFree(sent[r].email, u) /\ users' = [users EXCEPT ![u] = sent[r]]
  BY DEF Insert
<1>2. sent[r] \in User
  BY TypeParts DEF Insert, Prepared
<1>3. Registered' = Registered \cup {u}
  BY <1>1, <1>2, TypeParts, Distinct DEF Registered
<1> QED
  BY <1>1, <1>2, <1>3 DEF EmailFree

LEMMA WriteChanges ==
    ASSUME TypeOK, NEW r \in Requests, WriteRow(r)
    PROVE  LET u   == call[r].user
               row == Merged(users[u], held[r], loaded[r])
           IN  /\ u \in Registered /\ Registered' = Registered
               /\ users[u] \in User /\ held[r] \in Entity /\ loaded[r] \in Entity
               /\ loaded[r].password = None
               /\ row \in User /\ users' = [users EXCEPT ![u] = row]
               /\ \A v \in Registered \ {u} : users[v].email # row.email
<1>1. /\ call[r].user \in Registered /\ users[call[r].user] \in User
      /\ held[r] \in Entity /\ loaded[r] \in Entity /\ loaded[r].password = None
  BY TypeParts DEF WriteRow, Prepared, Editing
<1>2. Merged(users[call[r].user], held[r], loaded[r]) \in User
  BY <1>1, MergedType
<1>3. Registered' = Registered
  BY <1>1, <1>2, TypeParts, Distinct DEF WriteRow, Registered
<1> QED
  BY <1>1, <1>2, <1>3 DEF WriteRow, EmailFree

(***************************************************************************)
(* Emails                                                                  *)
(***************************************************************************)
LEMMA NextEmails ==
    ASSUME TypeOK, EmailsUnique, [Next]_vars
    PROVE  EmailsUnique'
<1>1. CASE users' = users
  BY <1>1 DEF EmailsUnique, Registered
<1>2. ASSUME NEW r \in Requests, Insert(r) PROVE EmailsUnique'
  <2>1. PICK u \in UserIds \ Registered :
          /\ users' = [users EXCEPT ![u] = sent[r]]
          /\ Registered' = Registered \cup {u}
          /\ \A v \in Registered : users[v].email # sent[r].email
    BY <1>2, InsertAdds
  <2>2. users'[u] = sent[r] /\ \A v \in Registered : users'[v] = users[v]
    BY <2>1, TypeParts DEF Registered, TypeOK
  <2> QED BY <2>1, <2>2 DEF EmailsUnique
<1>3. ASSUME NEW r \in Requests, WriteRow(r) PROVE EmailsUnique'
  <2> DEFINE u == call[r].user
             row == Merged(users[u], held[r], loaded[r])
  <2>1. /\ u \in Registered /\ Registered' = Registered
        /\ users' = [users EXCEPT ![u] = row]
        /\ \A v \in Registered \ {u} : users[v].email # row.email
    BY <1>3, WriteChanges
  <2>2. users'[u] = row /\ \A v \in Registered \ {u} : users'[v] = users[v]
    BY <2>1 DEF Registered, TypeOK
  <2> HIDE DEF u, row
  <2> QED BY <2>1, <2>2 DEF EmailsUnique
<1> QED
  BY <1>1, <1>2, <1>3, UserSteps

\* No two users share an email: the unique column refuses what the checks of
\* create, register and update let through when they race.
THEOREM EmailsStayUnique == Spec => []EmailsUnique
<1>1. Init => EmailsUnique
  BY DEF Init, EmailsUnique, Registered
<1>2. TypeOK /\ EmailsUnique /\ [Next]_vars => EmailsUnique'
  BY NextEmails
<1> QED
  BY <1>1, <1>2, TypeCorrect, PTL DEF Spec

(***************************************************************************)
(* What a request holds of a user                                          *)
(***************************************************************************)

\* An entity a request holds has the role of its user, whatever happened since
\* it was read, and the password the call was sent.
HeldInv ==
    \A r \in Requests :
        /\ held[r] # None =>
             /\ call[r].kind \in Editing
             /\ held[r].role = users[call[r].user].role
             /\ held[r].password = sent[r].password
        /\ loaded[r] # None =>
             call[r].kind \in Editing /\ loaded[r].role = users[call[r].user].role

LEMMA RolesStay ==
    ASSUME TypeOK, HeldInv, [Next]_vars
    PROVE  \A u \in Registered : users'[u].role = users[u].role
<1>1. ASSUME NEW r \in Requests, Insert(r)
      PROVE  \A u \in Registered : users'[u].role = users[u].role
  <2>1. PICK u \in UserIds \ Registered : users' = [users EXCEPT ![u] = sent[r]]
    BY <1>1, InsertAdds
  <2> QED BY <2>1, TypeParts DEF Registered, TypeOK
<1>2. ASSUME NEW r \in Requests, WriteRow(r)
      PROVE  \A u \in Registered : users'[u].role = users[u].role
  <2> DEFINE u == call[r].user
             row == Merged(users[u], held[r], loaded[r])
  <2>1. /\ u \in Registered /\ users[u] \in User /\ held[r] \in Entity /\ loaded[r] \in Entity
        /\ loaded[r].password = None /\ users' = [users EXCEPT ![u] = row]
    BY <1>2, WriteChanges
  <2>2. held[r].role = loaded[r].role
    BY <2>1, Distinct DEF HeldInv
  <2>3. row.role = users[u].role
    BY <2>1, <2>2, MergedType
  <2> HIDE DEF u, row
  <2> QED BY <2>1, <2>3 DEF Registered, TypeOK
<1> QED
  BY <1>1, <1>2, UserSteps

\* What a step does to a request: it answers it, begins it, sets what it holds,
\* finds its user, or changes nothing of this.
LEMMA RequestSteps ==
    ASSUME TypeOK, [Next]_vars, NEW q \in Requests
    PROVE  \/ /\ held'[q] = None /\ loaded'[q] = None
           \/ /\ held'[q] = held[q] /\ loaded'[q] = loaded[q]
              /\ \/ call'[q] = call[q] /\ sent'[q] = sent[q]
                 \/ call[q].kind \notin Editing
           \/ ReadUser(q) \/ LoadRow(q)
<1> DEFINE Same(r) == /\ held'[r] = held[r] /\ loaded'[r] = loaded[r]
                      /\ call'[r] = call[r] /\ sent'[r] = sent[r]
<1> USE DEF TypeOK
<1>1. ASSUME NEW r \in Requests, Answer(r) PROVE IF q = r THEN held'[q] = None /\ loaded'[q] = None
                                                          ELSE Same(q)
  BY <1>1 DEF Answer
<1>2. CASE UNCHANGED vars
  BY <1>2 DEF vars
<1>3. ASSUME NEW r \in Requests, Arrive(r)
      PROVE  IF q = r THEN held'[q] = held[q] /\ loaded'[q] = loaded[q] /\ call[q].kind \notin Editing
                      ELSE Same(q)
  <2>1. PICK step \in Steps, about \in Call, columns \in Fields : Begin(r, step, about, columns)
    BY <1>3, ReceiveBegins DEF Arrive
  <2>2. pc[r] = "idle" => call[r].kind \notin Editing
    BY Distinct DEF Prepared, Editing, CallKinds
  <2> QED BY <2>1, <2>2 DEF Begin
<1>4. ASSUME NEW r \in Requests, ReadUser(r) \/ LoadRow(r) PROVE q = r \/ Same(q)
  BY <1>4 DEF ReadUser, LoadRow
<1>5. ASSUME NEW r \in Requests, Count(r) \/ CheckEmail(r) \/ FindUser(r)
      PROVE  \/ q = r /\ held'[q] = None /\ loaded'[q] = None
             \/ /\ held'[q] = held[q] /\ loaded'[q] = loaded[q]
                /\ call'[q] = call[q] /\ (sent'[q] = sent[q] \/ call[q].kind \notin Editing)
  BY <1>1, <1>5 DEF Count, CheckEmail, FindUser, Continue, Refuse, Prepared, Editing
<1>6. ASSUME NEW r \in Requests, Insert(r) \/ FindCredentials(r) \/ FindToken(r)
      PROVE  \/ q = r /\ held'[q] = None /\ loaded'[q] = None
             \/ Same(q)
             \/ held'[q] = held[q] /\ loaded'[q] = loaded[q] /\ call[q].kind \notin Editing
  BY <1>1, <1>6 DEF Insert, FindCredentials, FindToken, Refuse, Prepared, Editing
<1>7. ASSUME NEW r \in Requests,
             InsertRefused(r) \/ WriteRow(r) \/ WriteRefused(r) \/ IssueToken(r) \/ Grant(r)
             \/ Revoke(r) \/ Fail(r)
      PROVE  Answer(r)
  BY <1>7 DEF InsertRefused, WriteRow, WriteRefused, IssueToken, Grant, Revoke, Fail, Refuse
<1> QED
  BY <1>1, <1>2, <1>3, <1>4, <1>5, <1>6, <1>7 DEF Next, Serve

LEMMA NextHeld ==
    ASSUME TypeOK, HeldInv, [Next]_vars
    PROVE  HeldInv'
<1> SUFFICES ASSUME NEW q \in Requests
             PROVE  /\ held'[q] # None =>
                         /\ call'[q].kind \in Editing
                         /\ held'[q].role = users'[call'[q].user].role
                         /\ held'[q].password = sent'[q].password
                    /\ loaded'[q] # None =>
                         /\ call'[q].kind \in Editing
                         /\ loaded'[q].role = users'[call'[q].user].role
  BY DEF HeldInv
<1>1. CASE held'[q] = None /\ loaded'[q] = None
  BY <1>1
<1>2. CASE held'[q] = held[q] /\ loaded'[q] = loaded[q] /\ call[q].kind \notin Editing
  BY <1>2 DEF HeldInv
<1>3. CASE held'[q] = held[q] /\ loaded'[q] = loaded[q] /\ call'[q] = call[q] /\ sent'[q] = sent[q]
  <2>1. call[q].kind \in Editing => call[q].user \in Registered
    BY TypeParts DEF Prepared
  <2> QED BY <1>3, <2>1, RolesStay DEF HeldInv
<1>4. CASE ReadUser(q) \/ LoadRow(q)
  <2> DEFINE u == call[q].user
  <2>1. /\ u \in Registered /\ users[u] \in User /\ call[q].kind \in Editing
        /\ sent[q] \in Fields /\ users' = users /\ call' = call /\ sent' = sent
    BY <1>4, TypeParts DEF ReadUser, LoadRow, Prepared, tables
  <2>2. Selected(users[u]) \in Entity /\ Selected(users[u]).password = None
          /\ Selected(users[u]).role = users[u].role
    BY <2>1, SelectedType
  <2>3. CASE ReadUser(q)
    <3>1. held'[q] = Edited(Selected(users[u]), sent[q]) /\ loaded'[q] = loaded[q]
      BY <2>3 DEF ReadUser, TypeOK
    <3> QED BY <2>1, <2>2, <3>1, EditedType DEF HeldInv
  <2>4. CASE LoadRow(q)
    <3>1. loaded'[q] = Selected(users[u]) /\ held'[q] = held[q]
      BY <2>4 DEF LoadRow, TypeOK
    <3> QED BY <2>1, <2>2, <3>1 DEF HeldInv
  <2> QED BY <1>4, <2>3, <2>4
<1> QED
  BY <1>1, <1>2, <1>3, <1>4, RequestSteps

\* Roles never change, and a password only to what a call was sent: a save of a
\* user writes no role and no password it read before others changed them.
THEOREM PasswordsAndRolesStay == Spec => PasswordsAndRolesKept
<1> DEFINE Kept == \A u \in Registered :
                     /\ users[u].role' = users[u].role
                     /\ users[u].password' # users[u].password =>
                          Asked(u, "password", users[u].password')
<1>1. Init => HeldInv
  BY DEF Init, HeldInv
<1>2. TypeOK /\ HeldInv /\ [Next]_vars => HeldInv'
  BY NextHeld
<1>3. TypeOK /\ HeldInv /\ [Next]_vars => [Kept]_vars
  <2> SUFFICES ASSUME TypeOK, HeldInv, [Next]_vars, NEW u \in Registered,
                      users'[u].password # users[u].password
               PROVE  Asked(u, "password", users'[u].password)
    BY RolesStay
  <2>1. ASSUME NEW r \in Requests, Insert(r) PROVE FALSE
    <3>1. PICK v \in UserIds \ Registered : users' = [users EXCEPT ![v] = sent[r]]
      BY <2>1, InsertAdds
    <3> QED BY <3>1 DEF Registered, TypeOK
  <2>2. ASSUME NEW r \in Requests, WriteRow(r) PROVE Asked(u, "password", users'[u].password)
    <3> DEFINE v == call[r].user
               row == Merged(users[v], held[r], loaded[r])
    <3>1. /\ v \in Registered /\ users[v] \in User /\ held[r] \in Entity /\ loaded[r] \in Entity
          /\ loaded[r].password = None /\ users' = [users EXCEPT ![v] = row]
      BY <2>2, WriteChanges
    <3>2. row.password \in {users[v].password, held[r].password}
      BY <3>1, MergedType
    <3>3. held[r].password = sent[r].password
      BY <3>1, Distinct DEF HeldInv
    <3>4. u = v /\ users'[u] = row
      <4> HIDE DEF v, row
      <4> QED BY <3>1 DEF Registered, TypeOK
    <3>5. row.password = sent[r].password /\ pc[r] = "write"
      BY <2>2, <3>2, <3>3, <3>4 DEF WriteRow
    <3> QED BY <3>4, <3>5 DEF Asked
  <2> QED BY <2>1, <2>2, UserSteps
<1> QED
  BY <1>1, <1>2, <1>3, TypeCorrect, PTL DEF Spec, PasswordsAndRolesKept

(***************************************************************************)
(* The first user is a ROOT                                                *)
(***************************************************************************)

\* Until there is a user, all who are about to be inserted are ROOT.
FirstAreRoot ==
    Registered = {} =>
        \A r \in Requests : pc[r] \in {"checkEmail", "insert"} => sent[r].role = "ROOT"

\* How a request comes to be about to be inserted while there are no users.
LEMMA InsertingSteps ==
    ASSUME TypeOK, [Next]_vars, NEW q \in Requests, Registered = {},
           pc'[q] \in {"checkEmail", "insert"}
    PROVE  \/ pc[q] \in {"checkEmail", "insert"} /\ sent'[q] = sent[q]
           \/ Count(q)
<1> USE DEF TypeOK
<1>1. CASE UNCHANGED vars
  BY <1>1 DEF vars
<1>2. ASSUME NEW r \in Requests, Answer(r) PROVE q # r /\ pc'[q] = pc[q] /\ sent'[q] = sent[q]
  BY <1>2 DEF Answer
<1>3. ASSUME NEW r \in Requests, Arrive(r) PROVE pc'[q] = pc[q] /\ sent'[q] = sent[q]
  <2>1. PICK kind \in Calls : Receive(r, kind)
    BY <1>3 DEF Arrive
  <2>2. PICK step \in Steps, about \in Call, columns \in Fields :
          Begin(r, step, about, columns) /\ Arrived(kind, step, about, columns)
    BY <2>1, ReceiveBegins
  <2>3. step \notin {"checkEmail", "insert"}
    BY <2>2 DEF Arrived, Administered
  <2> QED BY <2>2, <2>3 DEF Begin
<1>4. ASSUME NEW r \in Requests, Serve(r), ~Answer(r), ~Count(r)
      PROVE  sent'[q] = sent[q] /\ (pc[q] = "checkEmail" \/ pc'[q] = pc[q])
  <2>1. pc[r] \notin {"readUser", "load"}
    BY TypeParts DEF Prepared
  <2>2. CASE CheckEmail(r)
    BY <1>4, <2>2 DEF CheckEmail, Continue, Refuse
  <2>3. CASE ReadUser(r) \/ LoadRow(r)
    BY <2>1, <2>3 DEF ReadUser, LoadRow
  <2>4. CASE Insert(r) \/ FindCredentials(r) \/ FindToken(r) \/ FindUser(r)
    BY <1>4, <2>4 DEF Insert, FindCredentials, FindToken, FindUser, Continue, Refuse
  <2>5. CASE InsertRefused(r) \/ WriteRow(r) \/ WriteRefused(r) \/ IssueToken(r) \/ Grant(r) \/ Revoke(r)
    BY <1>4, <2>5 DEF InsertRefused, WriteRow, WriteRefused, IssueToken, Grant, Revoke, Refuse
  <2> QED BY <1>4, <2>2, <2>3, <2>4, <2>5 DEF Serve
<1>5. ASSUME NEW r \in Requests, Count(r), q # r PROVE pc'[q] = pc[q] /\ sent'[q] = sent[q]
  BY <1>5 DEF Count, Continue
<1> QED
  BY <1>1, <1>2, <1>3, <1>4, <1>5 DEF Next, Fail, Refuse

LEMMA NextRoot ==
    ASSUME TypeOK, HeldInv, FirstAreRoot, SomeRoot, [Next]_vars
    PROVE  FirstAreRoot' /\ SomeRoot'
<1>1. TypeOK' /\ RowsStay
  BY NextTypes
<1>2. FirstAreRoot'
  <2> SUFFICES ASSUME Registered' = {}, NEW q \in Requests, pc'[q] \in {"checkEmail", "insert"}
               PROVE  sent'[q].role = "ROOT"
    BY DEF FirstAreRoot
  <2>1. Registered = {}
    BY <1>1 DEF RowsStay
  <2>2. CASE Count(q)
    <3>1. sent'[q] = [sent[q] EXCEPT !.role = FirstRole] /\ sent[q] \in Fields
      BY <2>2 DEF Count, TypeOK
    <3> QED BY <2>1, <3>1 DEF FirstRole, Fields
  <2> QED BY <2>1, <2>2, InsertingSteps DEF FirstAreRoot
<1>3. SomeRoot'
  <2>1. CASE Registered # {}
    <3>1. PICK u \in Registered : users[u].role = "ROOT"
      BY <2>1 DEF SomeRoot, Administered
    <3> QED BY <1>1, <3>1, RolesStay DEF SomeRoot, Administered, RowsStay
  <2>2. ASSUME Registered = {}, NEW r \in Requests, Insert(r) PROVE SomeRoot'
    <3>1. PICK u \in UserIds \ Registered :
            users' = [users EXCEPT ![u] = sent[r]] /\ Registered' = Registered \cup {u}
      BY <2>2, InsertAdds
    <3>2. sent[r].role = "ROOT"
      BY <2>2 DEF Insert, FirstAreRoot
    <3>3. users'[u].role = "ROOT" /\ u \in Registered'
      BY <3>1, <3>2 DEF TypeOK
    <3> QED BY <3>3 DEF SomeRoot, Administered
  <2>3. ASSUME Registered = {}, NEW r \in Requests, WriteRow(r) PROVE FALSE
    BY <2>3, WriteChanges
  <2>4. CASE Registered = {} /\ users' = users
    BY <2>4 DEF SomeRoot, Registered
  <2> QED BY <2>1, <2>2, <2>3, <2>4, UserSteps
<1> QED
  BY <1>2, <1>3

\* As soon as there are users, one of them is a ROOT, however many register as
\* the first at the same time.
THEOREM RootFromTheFirst == Spec => []SomeRoot
<1>1. Init => HeldInv /\ FirstAreRoot /\ SomeRoot
  BY DEF Init, HeldInv, FirstAreRoot, SomeRoot, Registered
<1>2. TypeOK /\ HeldInv /\ FirstAreRoot /\ SomeRoot /\ [Next]_vars
        => HeldInv' /\ FirstAreRoot' /\ SomeRoot'
  BY NextHeld, NextRoot
<1> QED
  BY <1>1, <1>2, TypeCorrect, PTL DEF Spec

(***************************************************************************)
(* Logging out                                                             *)
(***************************************************************************)

\* Tokens logged out are revoked, and the calls that came with one of them are
\* about to look it up.
OutInv ==
    /\ \A t \in loggedOut : tokens[t].revoked
    /\ \A r \in late : pc[r] = "findToken" /\ call[r].token \in loggedOut

LEMMA OutAnswered ==
    ASSUME TypeOK, OutInv, NEW r \in Requests, Answer(r),
           loggedOut \subseteq loggedOut', \A t \in loggedOut' : tokens'[t].revoked
    PROVE  OutInv'
BY DEF OutInv, Answer, TypeOK

\* Steps of requests that came with no such token, and answer none.
LEMMA OutKept ==
    ASSUME TypeOK, OutInv, NEW r \in Requests, pc[r] # "findToken",
           \A q \in Requests \ {r} : pc'[q] = pc[q] /\ call'[q] = call[q],
           late' = late, tokens' = tokens, loggedOut' = loggedOut
    PROVE  OutInv'
BY DEF OutInv, TypeOK

LEMMA NextOut ==
    ASSUME TypeOK, OutInv, [Next]_vars
    PROVE  OutInv'
<1>1. CASE UNCHANGED vars
  BY <1>1 DEF vars, OutInv
<1>2. ASSUME NEW r \in Requests, Refuse(r) PROVE OutInv'
  BY <1>2, OutAnswered DEF Refuse, OutInv, tables
<1>3. ASSUME NEW r \in Requests, Arrive(r) PROVE OutInv'
  <2>1. PICK kind \in Calls : Receive(r, kind)
    BY <1>3 DEF Arrive
  <2>2. PICK step \in Steps, about \in Call, columns \in Fields :
          Begin(r, step, about, columns) /\ Arrived(kind, step, about, columns)
    BY <2>1, ReceiveBegins
  <2>3. about.token \in loggedOut => step = "findToken"
    BY <2>2, Distinct DEF Arrived, TypeOK, Issued
  <2>4. /\ tokens' = tokens /\ loggedOut' = loggedOut /\ r \notin late
        /\ late' = IF about.token \in loggedOut THEN late \cup {r} ELSE late
        /\ pc'[r] = step /\ call'[r] = about
        /\ \A q \in Requests \ {r} : pc'[q] = pc[q] /\ call'[q] = call[q]
    BY <2>2 DEF Begin, TypeOK, OutInv, tables
  <2> QED BY <2>3, <2>4 DEF OutInv, TypeOK
<1>4. ASSUME NEW r \in Requests, Serve(r) PROVE OutInv'
  <2>1. CASE Count(r) \/ CheckEmail(r) \/ ReadUser(r) \/ LoadRow(r)
    BY <1>2, <2>1, OutKept
       DEF Count, CheckEmail, ReadUser, LoadRow, Continue, tables, TypeOK
  <2>2. CASE FindCredentials(r) \/ FindUser(r)
    BY <1>2, <2>2, OutKept DEF FindCredentials, FindUser, Continue, tables, TypeOK
  <2>3. CASE FindToken(r)
    <3>1. CASE Refuse(r) BY <1>2, <3>1
    <3>2. CASE ~Refuse(r)
      <4>1. r \notin late
        BY <2>3, <3>2 DEF FindToken, OutInv
      <4> QED BY <2>3, <3>2, <4>1 DEF FindToken, Continue, tables, OutInv, TypeOK
    <3> QED BY <3>1, <3>2
  <2>4. CASE Insert(r)
    BY <2>4, OutKept, OutAnswered DEF Insert, Continue, TypeOK, OutInv
  <2>5. CASE InsertRefused(r) \/ WriteRefused(r)
    BY <1>2, <2>5 DEF InsertRefused, WriteRefused
  <2>6. CASE WriteRow(r) \/ Grant(r)
    BY <2>6, OutAnswered DEF WriteRow, Grant, OutInv, tables
  <2>7. CASE IssueToken(r)
    BY <2>7, OutAnswered DEF IssueToken, OutInv, TypeOK
  <2>8. CASE Revoke(r)
    <3>1. call[r].token \in Issued
      BY <2>8, TypeParts DEF Revoke, Prepared
    <3>2. [tokens[call[r].token] EXCEPT !.revoked = TRUE].revoked
      BY <3>1, TypeParts DEF Token
    <3> QED BY <2>8, <3>1, <3>2, OutAnswered DEF Revoke, OutInv, TypeOK, Issued
  <2> QED
    BY <1>4, <2>1, <2>2, <2>3, <2>4, <2>5, <2>6, <2>7, <2>8 DEF Serve
<1> QED
  BY <1>1, <1>2, <1>3, <1>4 DEF Next, Fail

\* No refresh and no logout gets past the look-up of a token that was logged out
\* before the call came.
THEOREM LoggedOutIsOut == Spec => []LoggedOutStaysOut
<1>1. Init => OutInv
  BY DEF Init, OutInv
<1>2. TypeOK /\ OutInv /\ [Next]_vars => OutInv'
  BY NextOut
<1>3. OutInv => LoggedOutStaysOut
  BY DEF OutInv, LoggedOutStaysOut
<1> QED
  BY <1>1, <1>2, <1>3, TypeCorrect, PTL DEF Spec

(***************************************************************************)
(* Changes other calls made                                                *)
(***************************************************************************)
Shared == {"email", "active"}

\* The row a save of r compares its user with: the one loaded, once it is.
Base(r) == IF loaded[r] = None THEN users[call[r].user] ELSE loaded[r]

\* A user that was read differs from that row in the columns the call was sent,
\* and in those other calls changed before the row was loaded.
EditsInv ==
    \A r \in Requests :
        IF call[r].kind \notin Editing THEN held[r] = None /\ loaded[r] = None
        ELSE /\ pc[r] # "write" => loaded[r] = None
             /\ held[r] # None =>
                  \A c \in Shared :
                     /\ sent[r][c] # None => held[r][c] = sent[r][c]
                     /\ sent[r][c] = None /\ c \notin overtaken[r] => held[r][c] = Base(r)[c]

\* A request holds no loaded row before it is about to write one, or afterwards.
LEMMA LoadedToWrite ==
    ASSUME TypeOK, [Next]_vars, NEW q \in Requests, pc[q] = "write", pc'[q] # "write"
    PROVE  loaded'[q] = None
<1> USE DEF TypeOK
<1>1. CASE UNCHANGED vars
  BY <1>1 DEF vars
<1>2. ASSUME NEW r \in Requests, Answer(r) PROVE loaded'[q] = None
  BY <1>2 DEF Answer
<1>3. ASSUME NEW r \in Requests, Arrive(r) PROVE FALSE
  <2>1. PICK step \in Steps, about \in Call, columns \in Fields : Begin(r, step, about, columns)
    BY <1>3, ReceiveBegins DEF Arrive
  <2> QED BY <2>1 DEF Begin
<1>4. ASSUME NEW r \in Requests, Serve(r), ~Answer(r) PROVE FALSE
  <2>1. CASE Count(r) \/ CheckEmail(r) \/ ReadUser(r) \/ LoadRow(r) \/ FindUser(r)
    BY <1>4, <2>1 DEF Count, CheckEmail, ReadUser, LoadRow, FindUser, Continue, Refuse
  <2>2. CASE Insert(r) \/ FindCredentials(r) \/ FindToken(r)
    BY <1>4, <2>2 DEF Insert, FindCredentials, FindToken, Continue, Refuse
  <2>3. CASE InsertRefused(r) \/ WriteRow(r) \/ WriteRefused(r) \/ IssueToken(r) \/ Grant(r) \/ Revoke(r)
    BY <1>4, <2>3 DEF InsertRefused, WriteRow, WriteRefused, IssueToken, Grant, Revoke, Refuse
  <2> QED BY <1>4, <2>1, <2>2, <2>3 DEF Serve
<1> QED
  BY <1>1, <1>2, <1>3, <1>4 DEF Next, Fail, Refuse

\* What a step notes of a request that has read its user.
LEMMA Noted ==
    ASSUME [Next]_vars, NEW r \in Requests, held[r] # None, held'[r] # None,
           NEW c \in Shared, sent[r][c] = None, c \notin overtaken'[r]
    PROVE  /\ c \notin overtaken[r]
           /\ loaded[r] = None =>
                users'[call[r].user][c] = users[call[r].user][c]
<1>1. CASE UNCHANGED vars
  BY <1>1 DEF vars
<1>2. CASE Note
  BY <1>2 DEF Note, Shared
<1> QED
  BY <1>1, <1>2 DEF Next

LEMMA SelectedShared ==
    ASSUME NEW row \in User, NEW columns \in Fields, NEW c \in Shared
    PROVE  /\ Selected(row)[c] = row[c]
           /\ columns[c] # None => Edited(Selected(row), columns)[c] = columns[c]
           /\ columns[c] = None => Edited(Selected(row), columns)[c] = row[c]
BY DEF Selected, Edited, Columns, User, Fields, Shared

LEMMA NextEdits ==
    ASSUME TypeOK, EditsInv, [Next]_vars
    PROVE  EditsInv'
<1> SUFFICES ASSUME NEW r \in Requests
             PROVE  IF call'[r].kind \notin Editing THEN held'[r] = None /\ loaded'[r] = None
                    ELSE /\ pc'[r] # "write" => loaded'[r] = None
                         /\ held'[r] # None =>
                              \A c \in Shared :
                                 /\ sent'[r][c] # None => held'[r][c] = sent'[r][c]
                                 /\ sent'[r][c] = None /\ c \notin overtaken'[r] =>
                                      held'[r][c] = Base(r)'[c]
  BY DEF EditsInv
<1>1. CASE held'[r] = None /\ loaded'[r] = None
  BY <1>1
<1>2. CASE held'[r] = held[r] /\ loaded'[r] = loaded[r] /\ call[r].kind \notin Editing
  BY <1>2 DEF EditsInv
<1>3. CASE /\ held'[r] = held[r] /\ loaded'[r] = loaded[r]
           /\ call'[r] = call[r] /\ sent'[r] = sent[r] /\ call[r].kind \in Editing
  <2>0. pc'[r] # "write" => loaded'[r] = None
    BY <1>3, LoadedToWrite DEF EditsInv
  <2> SUFFICES ASSUME held[r] # None, NEW c \in Shared
               PROVE  /\ sent[r][c] # None => held[r][c] = sent[r][c]
                      /\ sent[r][c] = None /\ c \notin overtaken'[r] => held[r][c] = Base(r)'[c]
    BY <1>3, <2>0
  <2>1. sent[r][c] # None => held[r][c] = sent[r][c]
    BY <1>3 DEF EditsInv
  <2>2. ASSUME sent[r][c] = None, c \notin overtaken'[r]
        PROVE  held[r][c] = Base(r)'[c]
    <3>1. /\ c \notin overtaken[r]
          /\ loaded[r] = None => users'[call[r].user][c] = users[call[r].user][c]
      BY <1>3, <2>2, Noted
    <3>2. held[r][c] = Base(r)[c]
      BY <1>3, <2>2, <3>1 DEF EditsInv
    <3> QED BY <1>3, <3>1, <3>2 DEF Base
  <2> QED BY <2>1, <2>2
<1>4. CASE ReadUser(r)
  <2>1. /\ call'[r] = call[r] /\ call[r].kind \in Editing /\ sent'[r] = sent[r] /\ users' = users
        /\ held'[r] = Edited(Selected(users[call[r].user]), sent[r]) /\ loaded'[r] = loaded[r]
        /\ sent[r] \in Fields /\ users[call[r].user] \in User
    BY <1>4, TypeParts DEF ReadUser, Prepared, tables, TypeOK
  <2>2. loaded'[r] = None
    BY <1>4, <2>1 DEF ReadUser, EditsInv
  <2> QED BY <2>1, <2>2, SelectedShared DEF Base
<1>5. CASE LoadRow(r)
  <2>1. /\ call'[r] = call[r] /\ call[r].kind \in Editing /\ sent'[r] = sent[r] /\ users' = users
        /\ held'[r] = held[r] /\ loaded'[r] = Selected(users[call[r].user])
        /\ sent[r] \in Fields /\ users[call[r].user] \in User
        /\ pc'[r] = "write" /\ pc[r] = "load" /\ Selected(users[call[r].user]) \in Entity
    BY <1>5, TypeParts, SelectedType DEF LoadRow, Prepared, Continue, tables, TypeOK
  <2>2. Base(r)' = Selected(users[call[r].user])
    BY <2>1, Distinct DEF Base
  <2> SUFFICES ASSUME held[r] # None, NEW c \in Shared
               PROVE  /\ sent[r][c] # None => held[r][c] = sent[r][c]
                      /\ sent[r][c] = None /\ c \notin overtaken'[r] => held[r][c] = Base(r)'[c]
    BY <2>1
  <2>3. sent[r][c] # None => held[r][c] = sent[r][c]
    BY <2>1 DEF EditsInv
  <2>4. ASSUME sent[r][c] = None, c \notin overtaken'[r]
        PROVE  held[r][c] = Base(r)'[c]
    <3>1. c \notin overtaken[r]
      BY <2>1, <2>4, Noted
    <3>2. held[r][c] = Base(r)[c]
      BY <2>1, <2>4, <3>1 DEF EditsInv
    <3>3. Base(r) = users[call[r].user]
      BY <2>1 DEF Base, EditsInv
    <3> QED BY <2>1, <2>2, <3>2, <3>3, SelectedShared
  <2> QED BY <2>3, <2>4
<1> QED
  BY <1>1, <1>2, <1>3, <1>4, <1>5, RequestSteps

\* What a save writes in a column is what its user has there, what the call was
\* sent, or what another call changed before the save loaded it.
LEMMA MergedShared ==
    ASSUME NEW row \in User, NEW mine \in Entity, NEW base \in Entity, NEW c \in Shared,
           Merged(row, mine, base)[c] # row[c]
    PROVE  mine[c] # base[c] /\ Merged(row, mine, base)[c] = mine[c]
BY DEF Merged, Columns, User, Entity, Shared

\* However calls interleave, a user changes only as the call being carried out
\* asks, or back to what that call had read before another changed it.
THEOREM ChangesAsked == Spec => ChangesAreAsked
<1> DEFINE AsAsked == \A u \in Registered : \A c \in {"email", "active"} :
             LET new == users[u][c]'
             IN  new # users[u][c] => Asked(u, c, new) \/ PutBack(u, c, new)
           EInv == TypeOK /\ EditsInv
<1>1. Init => EInv
  <2>1. NoCall.kind \notin Editing
    BY AboutType, Distinct DEF NoCall, Editing, CallKinds
  <2> QED BY <2>1, InitTypes DEF Init, EditsInv
<1>2. EInv /\ [Next]_vars => EInv'
  BY NextTypes, NextEdits
<1>3. EInv /\ [Next]_vars => [AsAsked]_vars
  <2> SUFFICES ASSUME EInv, [Next]_vars, NEW u \in Registered, NEW c \in Shared,
                      users'[u][c] # users[u][c]
               PROVE  Asked(u, c, users'[u][c]) \/ PutBack(u, c, users'[u][c])
    BY DEF Shared
  <2>1. ASSUME NEW r \in Requests, Insert(r) PROVE FALSE
    <3>1. PICK v \in UserIds \ Registered : users' = [users EXCEPT ![v] = sent[r]]
      BY <2>1, InsertAdds
    <3> QED BY <3>1 DEF Registered, TypeOK
  <2>2. PICK r \in Requests : WriteRow(r)
    BY <2>1, UserSteps
  <2> DEFINE v == call[r].user
             row == Merged(users[v], held[r], loaded[r])
  <2>3. /\ v \in Registered /\ users[v] \in User /\ held[r] \in Entity /\ loaded[r] \in Entity
        /\ users' = [users EXCEPT ![v] = row] /\ sent[r] \in Fields
    BY <2>2, WriteChanges, TypeParts
  <2>4. u = v /\ users'[u] = row
    <3> HIDE DEF v, row
    <3> QED BY <2>3 DEF Registered, TypeOK
  <2>5. held[r][c] # loaded[r][c] /\ users'[u][c] = held[r][c]
    BY <2>3, <2>4, MergedShared
  <2>6. call[r].kind \in Editing /\ pc[r] = "write"
    BY <2>2, TypeParts DEF WriteRow, Prepared
  <2>7. /\ sent[r][c] # None => held[r][c] = sent[r][c]
        /\ sent[r][c] = None => c \in overtaken[r]
    <3>1. held[r] # None /\ Base(r) = loaded[r]
      BY <2>3, Distinct DEF Base
    <3> QED BY <2>5, <2>6, <3>1 DEF EditsInv
  <2> QED
    <3> HIDE DEF row
    <3> QED BY <2>4, <2>5, <2>6, <2>7 DEF Asked, PutBack
<1> QED
  BY <1>1, <1>2, <1>3, PTL DEF Spec, ChangesAreAsked
=============================================================================
