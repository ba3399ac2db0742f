--------------------------- MODULE AccountsProofs ---------------------------
(***************************************************************************)
(* Accounts and administration, for any number of users, names, tokens and *)
(* worker threads: the tables keep their keys, no login name is given      *)
(* twice, no token outlives the password or the account it was given for   *)
(* except behind an overlapping request, and the last administrator is     *)
(* lost to an out-of-date check only.                                      *)
(***************************************************************************)
EXTENDS Accounts, FiniteSetTheorems, TLAPS

----------------------------------------------------------------------------
(* The inductive invariant *)

TablesOK ==
    /\ users \in [Users -> User \cup {None}]
    /\ cred \in [Users -> Credential \cup {None}]
    /\ tokens \in [Tokens -> Token \cup {None}]
    /\ requests \in Nat /\ restarts \in Nat
    /\ torn \subseteq Users
    /\ Credentialed \subseteq Accounts
    /\ \A t \in Tokens : tokens[t] # None => tokens[t].user \in Credentialed

\* A request that takes the role or the account from an administrator.
Removes(c) == c.op = "disable" \/ (c.op = "role" /\ c.role = "user")

\* Which requests come to which registry call.
OpsAt(at) ==
    CASE at = "idle" -> {"none"}
      [] at = "name" -> {"register", "create"}
      [] at = "cred" -> {"register", "create", "change", "reset"}
      [] at = "role" -> {"register", "create", "role"}
      [] at = "must" -> {"create", "change", "reset"}
      [] at = "tokens" -> {"change", "reset", "disable"}
      [] at = "count" -> {"role", "disable"}
      [] at = "disabled" -> {"disable", "enable"}
      [] OTHER -> {"login"}

\* What holds of a call by itself: it is at a registry call of its route, it
\* is about a user who exists, one who removes an administrator has counted
\* two of them.
CallOK(c, accounts, logins) ==
    /\ c \in Call
    /\ c.op \in OpsAt(c.at)
    /\ c.at \notin {"idle", "name"} => c.user \in accounts
    /\ c.at \in {"name", "cred"} => c.name \in Names
    /\ c.op \in {"change", "reset", "login"} => c.user \in logins
    /\ c.op \in {"register", "create"} => ~c.admin
    /\ (c.at \in {"role", "disabled"} /\ c.admin /\ Removes(c)) => c.seen >= 2

CallsOK ==
    /\ call \in [Handlers -> Call]
    /\ \A h \in Handlers : CallOK(call[h], Accounts, Credentialed)

\* A call that is about to give a new account its login.
IsFresh(c) == c.at = "cred" /\ c.op \in {"register", "create"}

\* That account has none yet, and nobody else is about to give it one.
FreshInv ==
    \A h \in Handlers : IsFresh(call[h]) =>
        /\ cred[call[h].user] = None
        /\ \A g \in Handlers \ {h} : IsFresh(call[g]) => call[g].user # call[h].user

\* A password that its user has just chosen is not a temporary one.
ChosenInv ==
    \A h \in Handlers : (call[h].op = "change" /\ call[h].at = "must") =>
        ~cred[call[h].user].temp \/ call[h].user \in torn

IInv ==
    /\ TablesOK /\ CallsOK /\ FreshInv /\ ChosenInv
    /\ UsernamesUnique /\ TokensAreCurrent /\ TempMustBeChanged

\* The type invariant of the runs is a part of it.
LEMMA IInvType == IInv => TypeOK
BY DEF IInv, TablesOK, CallsOK, CallOK, TypeOK

----------------------------------------------------------------------------
(* Lemmas on the helpers *)

\* Accounts and administrators are finitely many.
LEMMA Counting ==
    /\ IsFiniteSet(Admins) /\ AdminCount \in Nat
    /\ Cardinality(Accounts) \in Nat
    /\ Admins = {} <=> AdminCount = 0
<1>1. IsFiniteSet(Accounts)
  BY UsersAssumption, FS_Subset DEF Accounts
<1>2. IsFiniteSet(Admins)
  <2>1. Admins \subseteq Accounts
    BY DEF Admins
  <2>2. QED
    BY <1>1, <2>1, FS_Subset
<1>3. QED
  BY <1>1, <1>2, FS_CardinalityType, FS_EmptySet DEF AdminCount

\* None is neither a user nor a name, nor a row of any table.
LEMMA NoneIsNoRow ==
    /\ None \notin Users /\ None \notin Names
    /\ None \notin User /\ None \notin Credential /\ None \notin Token
BY NoneAssumption

\* A call is not harmed by new accounts and logins.
LEMMA CallOKGrows ==
    ASSUME NEW c, NEW A, NEW B, NEW C, NEW D, A \subseteq B, C \subseteq D,
           CallOK(c, A, C)
    PROVE  CallOK(c, B, D)
BY DEF CallOK

\* Nor is a thread without one.
LEMMA IdleOK ==
    ASSUME NEW A, NEW C
    PROVE  CallOK(Idle, A, C) /\ ~IsFresh(Idle) /\ Idle.at = "idle" /\ Idle.op = "none"
BY DEF CallOK, Idle, Call, Roles, OpsAt, Removes, IsFresh

\* One thread changes what it does, and no account or login goes.
LEMMA CallsStep ==
    ASSUME CallsOK, NEW h \in Handlers, NEW d, CallOK(d, Accounts', Credentialed'),
           call' = [call EXCEPT ![h] = d],
           Accounts \subseteq Accounts', Credentialed \subseteq Credentialed'
    PROVE  CallsOK'
<1>1. call' \in [Handlers -> Call]
  BY DEF CallsOK, CallOK
<1>2. ASSUME NEW g \in Handlers
      PROVE  CallOK(call'[g], Accounts', Credentialed')
  <2>1. CASE g = h
    BY <2>1 DEF CallsOK
  <2>2. CASE g # h
    <3>1. call'[g] = call[g] /\ CallOK(call[g], Accounts, Credentialed)
      BY <2>2 DEF CallsOK
    <3>2. QED
      BY <3>1, CallOKGrows
  <2>3. QED
    BY <2>1, <2>2
<1>3. QED
  BY <1>1, <1>2 DEF CallsOK

\* A thread goes on, or accepts a request, and nobody relied on where it was.
LEMMA QuietStep ==
    ASSUME IInv, NEW h \in Handlers, NEW d, CallOK(d, Accounts, Credentialed),
           ~IsFresh(d), d.at # "must", call[h].at \in {"idle", "name", "cred", "count", "check"},
           call' = [call EXCEPT ![h] = d], requests' \in Nat,
           UNCHANGED <<users, cred, tokens, restarts, torn>>
    PROVE  IInv'
<1>1. Accounts' = Accounts /\ Credentialed' = Credentialed
  BY DEF Accounts, Credentialed
<1>2. TablesOK'
  BY <1>1 DEF IInv, TablesOK
<1>3. CallsOK'
  BY <1>1, CallsStep DEF IInv
<1>4. call'[h] = d /\ \A g \in Handlers \ {h} : call'[g] = call[g]
  BY DEF IInv, CallsOK
<1>5. FreshInv'
  BY <1>4 DEF IInv, FreshInv
<1>6. ChosenInv'
  BY <1>4 DEF IInv, ChosenInv
<1>7. UsernamesUnique'
  BY <1>1 DEF IInv, UsernamesUnique
<1>8. TokensAreCurrent'
  BY <1>4 DEF IInv, TokensAreCurrent
<1>9. TempMustBeChanged'
  BY <1>1, <1>4 DEF IInv, TempMustBeChanged
<1>10. QED
  BY <1>2, <1>3, <1>5, <1>6, <1>7, <1>8, <1>9 DEF IInv

----------------------------------------------------------------------------
(* Requests *)

LEMMA AcceptStep ==
    ASSUME IInv, NEW h \in Handlers, NEW c, CallOK(c, Accounts, Credentialed),
           ~IsFresh(c), c.at # "must", Accept(h, c)
    PROVE  IInv'
<1>1. call[h].at = "idle" /\ requests' \in Nat
  BY IdleOK DEF Accept, IInv, TablesOK
<1>2. QED
  BY <1>1, QuietStep DEF Accept

\* What a route asks the registry about is in its tables.
LEMMA RowTypes ==
    ASSUME IInv
    PROVE  /\ Credentialed \subseteq Accounts /\ Accounts \subseteq Users
           /\ \A u \in Accounts : users[u] \in User
           /\ \A u \in Credentialed : cred[u] \in Credential
           /\ \A t \in Tokens : Identified(t) \subseteq Credentialed
BY DEF IInv, TablesOK, Accounts, Credentialed, Identified

LEMMA RequestStep ==
    ASSUME IInv, NEW h \in Handlers, Request(h)
    PROVE  IInv'
<1> USE DEF CallOK, Idle, Call, Roles, OpsAt, Removes, IsFresh
<1>1. CASE Register(h)
  BY <1>1, AcceptStep DEF Register
<1>2. CASE AdminCreate(h)
  BY <1>2, AcceptStep DEF AdminCreate
<1>3. CASE Login(h)
  BY <1>3, AcceptStep, RowTypes DEF Login, Credential
<1>4. CASE ChangePassword(h)
  BY <1>4, AcceptStep, RowTypes DEF ChangePassword, Credential
<1>5. CASE ResetPassword(h)
  BY <1>5, AcceptStep, RowTypes DEF ResetPassword, Credential
<1>6. CASE ChangeRole(h)
  BY <1>6, AcceptStep, RowTypes, ZenonT(60) DEF ChangeRole
<1>7. CASE Disable(h)
  BY <1>7, AcceptStep, RowTypes DEF Disable
<1>8. CASE Enable(h)
  BY <1>8, AcceptStep, RowTypes DEF Enable
<1>9. QED
  BY <1>1, <1>2, <1>3, <1>4, <1>5, <1>6, <1>7, <1>8 DEF Request

----------------------------------------------------------------------------
(* Registry calls *)

LEMMA CountAdminsStep ==
    ASSUME IInv, NEW h \in Handlers, CountAdmins(h)
    PROVE  IInv'
<1> DEFINE c == call[h]
           write == IF c.op = "role" THEN "role" ELSE "disabled"
<1>1. /\ CallOK(c, Accounts, Credentialed) /\ c.at = "count" /\ c.op \in {"role", "disable"}
      /\ AdminCount \in Nat /\ c \in Call
  BY Counting DEF CountAdmins, IInv, CallsOK, CallOK, OpsAt
<1>2. requests' \in Nat /\ UNCHANGED <<users, cred, tokens, restarts, torn>>
  BY DEF CountAdmins, GoTo, Finish, Become, IInv, TablesOK
<1>3. CASE ~c.admin \/ (c.op = "role" /\ c.role = "admin")
  <2>1. call' = [call EXCEPT ![h] = [c EXCEPT !.at = write]]
    BY <1>3 DEF CountAdmins, GoTo, Become
  <2>2. /\ CallOK([c EXCEPT !.at = write], Accounts, Credentialed)
        /\ ~IsFresh([c EXCEPT !.at = write]) /\ [c EXCEPT !.at = write].at # "must"
    BY <1>1, <1>3 DEF CallOK, Call, OpsAt, Removes, IsFresh, Roles
  <2>3. QED
    BY <1>1, <1>2, <2>1, <2>2, QuietStep
<1>4. CASE ~(~c.admin \/ (c.op = "role" /\ c.role = "admin")) /\ LastOne
  <2>1. call' = [call EXCEPT ![h] = Idle]
    BY <1>4 DEF CountAdmins, Finish, Become
  <2>2. QED
    BY <1>1, <1>2, <2>1, IdleOK, QuietStep
<1>5. CASE ~(~c.admin \/ (c.op = "role" /\ c.role = "admin")) /\ ~LastOne
  <2> DEFINE d == [c EXCEPT !.at = write, !.seen = AdminCount]
  <2>1. call' = [call EXCEPT ![h] = d]
    BY <1>5 DEF CountAdmins, Become
  <2>2. AdminCount >= 2
    BY <1>1, <1>5 DEF LastOne
  <2>3. /\ d \in Call /\ d.at = write /\ d.seen = AdminCount
        /\ d.op = c.op /\ d.user = c.user
    BY <1>1 DEF Call
  <2>4. c.op \in OpsAt(write) /\ write \in {"role", "disabled"} /\ c.user \in Accounts
    BY <1>1 DEF OpsAt, CallOK
  <2>5. CallOK(d, Accounts, Credentialed) /\ ~IsFresh(d) /\ d.at # "must"
    BY <1>1, <2>2, <2>3, <2>4 DEF CallOK, IsFresh
  <2>6. QED
    BY <1>1, <1>2, <2>1, <2>5, QuietStep
<1>6. QED
  BY <1>3, <1>4, <1>5

LEMMA CheckDisabledStep ==
    ASSUME IInv, NEW h \in Handlers, CheckDisabled(h)
    PROVE  IInv'
<1> DEFINE d == [call[h] EXCEPT !.at = "store"]
<1>1. /\ CallOK(call[h], Accounts, Credentialed) /\ call[h].at = "check"
      /\ requests' \in Nat /\ UNCHANGED <<users, cred, tokens, restarts, torn>>
  BY DEF CheckDisabled, GoTo, Finish, Become, IInv, TablesOK, CallsOK
<1>2. CASE call' = [call EXCEPT ![h] = Idle]
  BY <1>1, <1>2, IdleOK, QuietStep
<1>3. CASE call' = [call EXCEPT ![h] = d]
  <2>1. CallOK(d, Accounts, Credentialed) /\ ~IsFresh(d) /\ d.at # "must"
    BY <1>1 DEF CallOK, Call, OpsAt, Removes, IsFresh
  <2>2. QED
    BY <1>1, <1>3, <2>1, QuietStep
<1>4. QED
  BY <1>2, <1>3 DEF CheckDisabled, GoTo, Finish, Become

\* set_role, set_must_change_pw and set_disabled change a field of one row.
LEMMA RowStep ==
    ASSUME IInv, NEW h \in Handlers, NEW row \in User,
           call[h].user \in Accounts, users' = [users EXCEPT ![call[h].user] = row],
           UNCHANGED <<cred, tokens, torn, requests, restarts>>
    PROVE  /\ TablesOK' /\ UsernamesUnique'
           /\ Accounts' = Accounts /\ Credentialed' = Credentialed
           /\ users'[call[h].user] = row
           /\ \A u \in Users \ {call[h].user} : users'[u] = users[u]
<1>1. row # None /\ call[h].user \in Users
  BY NoneAssumption DEF Accounts
<1>2. /\ users' \in [Users -> User \cup {None}]
      /\ users'[call[h].user] = row
      /\ \A u \in Users \ {call[h].user} : users'[u] = users[u]
  BY <1>1 DEF IInv, TablesOK
<1>3. Accounts' = Accounts /\ Credentialed' = Credentialed
  BY <1>1, <1>2 DEF Accounts, Credentialed
<1>4. QED
  BY <1>2, <1>3 DEF IInv, TablesOK, UsernamesUnique

\* A thread whose call[h] becomes d, with "others" left alone.
LEMMA OneCall ==
    ASSUME IInv, NEW h \in Handlers, NEW d, call' = [call EXCEPT ![h] = d]
    PROVE  call'[h] = d /\ \A g \in Handlers \ {h} : call'[g] = call[g]
BY DEF IInv, CallsOK

\* The call goes on to another registry call of its route.
LEMMA GoesOn ==
    ASSUME NEW c, NEW A, NEW C, CallOK(c, A, C), NEW at,
           at \in {"role", "must", "tokens"}, c.at \notin {"idle", "name", "count"},
           c.op \in OpsAt(at), c.op = "role" => at # "role"
    PROVE  LET d == [c EXCEPT !.at = at]
           IN  /\ CallOK(d, A, C) /\ d.at = at /\ d.op = c.op /\ d.user = c.user
               /\ ~IsFresh(d)
BY DEF CallOK, Call, OpsAt, Removes, IsFresh

LEMMA WriteRoleStep ==
    ASSUME IInv, NEW h \in Handlers, WriteRole(h)
    PROVE  IInv'
<1> DEFINE c == call[h]
           d == IF c.op = "create" THEN [c EXCEPT !.at = "must"] ELSE Idle
           row == [users[c.user] EXCEPT !.role = IF c.op = "register" THEN "admin" ELSE c.role]
<1>1. /\ CallOK(c, Accounts, Credentialed) /\ c.at = "role"
      /\ c.op \in {"register", "create", "role"} /\ c.user \in Accounts /\ c \in Call
  BY DEF WriteRole, IInv, CallsOK, CallOK, OpsAt
<1>2. row \in User /\ row.disabled = users[c.user].disabled
      /\ row.mustChange = users[c.user].mustChange
  BY <1>1, RowTypes DEF User, Roles, Call
<1>3. /\ users' = [users EXCEPT ![c.user] = row]
      /\ call' = [call EXCEPT ![h] = d]
      /\ UNCHANGED <<cred, tokens, torn, requests, restarts>>
  BY DEF WriteRole, GoTo, Finish, Become
<1>4. /\ TablesOK' /\ UsernamesUnique'
      /\ Accounts' = Accounts /\ Credentialed' = Credentialed
      /\ users'[c.user] = row /\ \A u \in Users \ {c.user} : users'[u] = users[u]
  BY <1>1, <1>2, <1>3, RowStep
<1>5. /\ CallOK(d, Accounts, Credentialed) /\ ~IsFresh(d)
      /\ c.op = "create" => d.at = "must" /\ d.op = "create" /\ d.user = c.user
      /\ ~(d.op = "change" /\ d.at = "must")
  BY <1>1, GoesOn, IdleOK DEF OpsAt
<1>6. call'[h] = d /\ \A g \in Handlers \ {h} : call'[g] = call[g]
  BY <1>3, OneCall
<1>7. CallsOK'
  BY <1>3, <1>4, <1>5, CallsStep DEF IInv
<1>8. FreshInv' /\ ChosenInv'
  BY <1>3, <1>5, <1>6 DEF IInv, FreshInv, ChosenInv
<1>9. \A u \in Accounts : /\ users'[u].disabled = users[u].disabled
                          /\ users'[u].mustChange = users[u].mustChange
  BY <1>2, <1>4, RowTypes
<1>10. TokensAreCurrent'
  BY <1>1, <1>3, <1>6, <1>9 DEF IInv, TablesOK, TokensAreCurrent
<1>11. TempMustBeChanged'
  BY <1>1, <1>3, <1>4, <1>5, <1>6, <1>9, RowTypes DEF IInv, TempMustBeChanged
<1>12. QED
  BY <1>4, <1>7, <1>8, <1>10, <1>11 DEF IInv

LEMMA WriteMustStep ==
    ASSUME IInv, NEW h \in Handlers, WriteMust(h)
    PROVE  IInv'
<1> DEFINE c == call[h]
           d == IF c.op = "create" THEN Idle ELSE [c EXCEPT !.at = "tokens"]
           row == [users[c.user] EXCEPT !.mustChange = c.op # "change"]
<1>1. /\ CallOK(c, Accounts, Credentialed) /\ c.at = "must"
      /\ c.op \in {"create", "change", "reset"} /\ c.user \in Accounts /\ c \in Call
  BY DEF WriteMust, IInv, CallsOK, CallOK, OpsAt
<1>2. /\ row \in User /\ row.disabled = users[c.user].disabled
      /\ row.mustChange = (c.op # "change")
  BY <1>1, RowTypes DEF User
<1>3. /\ users' = [users EXCEPT ![c.user] = row]
      /\ call' = [call EXCEPT ![h] = d]
      /\ UNCHANGED <<cred, tokens, torn, requests, restarts>>
  BY DEF WriteMust, GoTo, Finish, Become
<1>4. /\ TablesOK' /\ UsernamesUnique'
      /\ Accounts' = Accounts /\ Credentialed' = Credentialed
      /\ users'[c.user] = row /\ \A u \in Users \ {c.user} : users'[u] = users[u]
  BY <1>1, <1>2, <1>3, RowStep
<1>5. /\ CallOK(d, Accounts, Credentialed) /\ ~IsFresh(d)
      /\ c.op # "create" => d.at = "tokens" /\ d.op = c.op /\ d.user = c.user
      /\ d.at # "must"
  BY <1>1, GoesOn, IdleOK DEF OpsAt
<1>6. call'[h] = d /\ \A g \in Handlers \ {h} : call'[g] = call[g]
  BY <1>3, OneCall
<1>7. CallsOK'
  BY <1>3, <1>4, <1>5, CallsStep DEF IInv
<1>8. FreshInv' /\ ChosenInv'
  BY <1>3, <1>5, <1>6 DEF IInv, FreshInv, ChosenInv
<1>9. \A u \in Accounts : users'[u].disabled = users[u].disabled
  BY <1>2, <1>4, RowTypes
<1>10. TokensAreCurrent'
  BY <1>1, <1>3, <1>5, <1>6, <1>9 DEF IInv, TablesOK, TokensAreCurrent
<1>11. TempMustBeChanged'
  <2>1. CASE c.op = "change"
    <3>1. c.op = "change" => ~cred[c.user].temp \/ c.user \in torn
      BY <1>1 DEF IInv, ChosenInv
    <3>2. QED
      BY <1>1, <1>3, <1>4, <1>6, <2>1, <3>1, RowTypes DEF IInv, TempMustBeChanged
  <2>2. CASE c.op # "change"
    <3>1. users'[c.user].mustChange
      BY <1>2, <1>4, <2>2
    <3>2. ASSUME NEW u \in Credentialed, u # c.user, cred[u].temp
          PROVE  \/ users[u].mustChange
                 \/ u \in torn
                 \/ \E g \in Handlers : /\ call'[g].user = u /\ call'[g].at \in {"role", "must"}
                                        /\ call'[g].op \in {"create", "reset"}
      BY <1>6, <3>2 DEF IInv, TempMustBeChanged
    <3>3. \A u \in Credentialed \ {c.user} : users'[u] = users[u]
      BY <1>4, RowTypes
    <3>4. QED
      BY <1>3, <1>4, <3>1, <3>2, <3>3 DEF TempMustBeChanged
  <2>3. QED
    BY <2>1, <2>2
<1>12. QED
  BY <1>4, <1>7, <1>8, <1>10, <1>11 DEF IInv

LEMMA WriteDisabledStep ==
    ASSUME IInv, NEW h \in Handlers, WriteDisabled(h)
    PROVE  IInv'
<1> DEFINE c == call[h]
           d == IF c.op = "disable" THEN [c EXCEPT !.at = "tokens"] ELSE Idle
           row == [users[c.user] EXCEPT !.disabled = c.op = "disable"]
<1>1. /\ CallOK(c, Accounts, Credentialed) /\ c.at = "disabled"
      /\ c.op \in {"disable", "enable"} /\ c.user \in Accounts /\ c \in Call
  BY DEF WriteDisabled, IInv, CallsOK, CallOK, OpsAt
<1>2. /\ row \in User /\ row.mustChange = users[c.user].mustChange
      /\ row.disabled = (c.op = "disable")
  BY <1>1, RowTypes DEF User
<1>3. /\ users' = [users EXCEPT ![c.user] = row]
      /\ call' = [call EXCEPT ![h] = d]
      /\ UNCHANGED <<cred, tokens, torn, requests, restarts>>
  BY DEF WriteDisabled, GoTo, Finish, Become
<1>4. /\ TablesOK' /\ UsernamesUnique'
      /\ Accounts' = Accounts /\ Credentialed' = Credentialed
      /\ users'[c.user] = row /\ \A u \in Users \ {c.user} : users'[u] = users[u]
  BY <1>1, <1>2, <1>3, RowStep
<1>5. /\ CallOK(d, Accounts, Credentialed) /\ ~IsFresh(d) /\ d.at # "must"
      /\ c.op = "disable" => d.at = "tokens" /\ d.op = c.op /\ d.user = c.user
  BY <1>1, GoesOn, IdleOK DEF OpsAt
<1>6. call'[h] = d /\ \A g \in Handlers \ {h} : call'[g] = call[g]
  BY <1>3, OneCall
<1>7. CallsOK'
  BY <1>3, <1>4, <1>5, CallsStep DEF IInv
<1>8. FreshInv' /\ ChosenInv'
  BY <1>3, <1>5, <1>6 DEF IInv, FreshInv, ChosenInv
<1>9. \A u \in Accounts : users'[u].mustChange = users[u].mustChange
  BY <1>2, <1>4, RowTypes
<1>10. TokensAreCurrent'
  <2>1. SUFFICES ASSUME NEW t \in Tokens, tokens[t] # None
        PROVE  LET u == tokens[t].user
               IN  \/ tokens[t].pw = cred[u].pw /\ ~users'[u].disabled
                   \/ tokens[t].late
                   \/ u \in torn
                   \/ \E g \in Handlers :
                          /\ call'[g].user = u /\ call'[g].at \in {"must", "tokens"}
                          /\ call'[g].op \in {"change", "reset", "disable"}
    BY <1>3 DEF TokensAreCurrent
  <2>2. tokens[t].user \in Users
    BY <2>1, RowTypes DEF IInv, TablesOK
  <2>3. CASE tokens[t].user = c.user /\ c.op = "disable"
    BY <1>5, <1>6, <2>3
  <2>4. CASE tokens[t].user = c.user /\ c.op = "enable"
    BY <1>1, <1>2, <1>4, <1>6, <2>1, <2>4, ZenonT(60) DEF IInv, TokensAreCurrent
  <2>5. CASE tokens[t].user # c.user
    BY <1>1, <1>4, <1>6, <2>1, <2>2, <2>5 DEF IInv, TokensAreCurrent
  <2>6. QED
    BY <1>1, <2>3, <2>4, <2>5
<1>11. TempMustBeChanged'
  BY <1>1, <1>3, <1>4, <1>6, <1>9, RowTypes DEF IInv, TempMustBeChanged
<1>12. QED
  BY <1>4, <1>7, <1>8, <1>10, <1>11 DEF IInv

\* The tables without auth_tokens are left alone, and a thread finishes.
LEMMA FinishesStep ==
    ASSUME IInv, NEW h \in Handlers, call' = [call EXCEPT ![h] = Idle],
           call[h].at \in {"tokens", "store"},
           UNCHANGED <<users, cred, torn, requests, restarts>>
    PROVE  /\ CallsOK' /\ FreshInv' /\ ChosenInv' /\ UsernamesUnique' /\ TempMustBeChanged'
           /\ Accounts' = Accounts /\ Credentialed' = Credentialed
           /\ call'[h] = Idle /\ \A g \in Handlers \ {h} : call'[g] = call[g]
<1>1. Accounts' = Accounts /\ Credentialed' = Credentialed
  BY DEF Accounts, Credentialed
<1>2. call'[h] = Idle /\ \A g \in Handlers \ {h} : call'[g] = call[g]
  BY OneCall
<1>3. CallsOK'
  BY <1>1, IdleOK, CallsStep DEF IInv
<1>4. FreshInv' /\ ChosenInv' /\ UsernamesUnique'
  BY <1>1, <1>2, IdleOK DEF IInv, FreshInv, ChosenInv, UsernamesUnique
<1>5. TempMustBeChanged'
  BY <1>1, <1>2 DEF IInv, TempMustBeChanged
<1>6. QED
  BY <1>1, <1>2, <1>3, <1>4, <1>5

LEMMA DeleteTokensStep ==
    ASSUME IInv, NEW h \in Handlers, DeleteTokens(h)
    PROVE  IInv'
<1>1. /\ CallsOK' /\ FreshInv' /\ ChosenInv' /\ UsernamesUnique' /\ TempMustBeChanged'
      /\ Accounts' = Accounts /\ Credentialed' = Credentialed
      /\ call'[h] = Idle /\ \A g \in Handlers \ {h} : call'[g] = call[g]
  BY FinishesStep DEF DeleteTokens, Finish, Become
<1>2. /\ UNCHANGED <<users, cred, torn, requests, restarts>>
      /\ \A t \in Tokens : tokens'[t] # None =>
             tokens'[t] = tokens[t] /\ tokens[t].user # call[h].user
      /\ tokens' \in [Tokens -> Token \cup {None}]
  BY DEF DeleteTokens, Finish, Become, TokensOf, IInv, TablesOK
<1>3. TablesOK'
  BY <1>1, <1>2 DEF IInv, TablesOK
<1>4. TokensAreCurrent'
  BY <1>1, <1>2 DEF IInv, TokensAreCurrent
<1>5. QED
  BY <1>1, <1>3, <1>4 DEF IInv

LEMMA StoreTokenStep ==
    ASSUME IInv, NEW h \in Handlers, StoreToken(h)
    PROVE  IInv'
<1> DEFINE c == call[h]
           new == [user |-> c.user, pw |-> c.pw, expired |-> FALSE,
                   late |-> c.pw # cred[c.user].pw \/ users[c.user].disabled]
<1>1. /\ CallsOK' /\ FreshInv' /\ ChosenInv' /\ UsernamesUnique' /\ TempMustBeChanged'
      /\ Accounts' = Accounts /\ Credentialed' = Credentialed
      /\ call'[h] = Idle /\ \A g \in Handlers \ {h} : call'[g] = call[g]
  BY FinishesStep DEF StoreToken, Finish, Become
<1>2. c \in Call /\ c.at = "store" /\ c.user \in Credentialed /\ c.user \in Users
  BY RowTypes DEF StoreToken, IInv, CallsOK, CallOK, OpsAt
<1>3. users[c.user] \in User /\ new \in Token
  BY <1>2, RowTypes DEF Call, Token, User
<1>4. PICK t \in Tokens : tokens' = [tokens EXCEPT ![t] = new]
  BY DEF StoreToken
<1>5. /\ tokens'[t] = new /\ \A s \in Tokens \ {t} : tokens'[s] = tokens[s]
      /\ UNCHANGED <<users, cred, torn, requests, restarts>>
  BY <1>4 DEF StoreToken, Finish, Become, IInv, TablesOK
<1>6. TablesOK'
  BY <1>1, <1>2, <1>3, <1>4, <1>5 DEF IInv, TablesOK
<1>7. TokensAreCurrent'
  <2>1. /\ new.user = c.user /\ new.pw = c.pw
        /\ new.late = (c.pw # cred[c.user].pw \/ users[c.user].disabled)
    OBVIOUS
  <2>2. new.late \/ (new.pw = cred[c.user].pw /\ ~users[c.user].disabled)
    BY <2>1
  <2>3. ASSUME NEW s \in Tokens \ {t}, tokens[s] # None
        PROVE  LET u == tokens[s].user
               IN  \/ tokens[s].pw = cred[u].pw /\ ~users[u].disabled
                   \/ tokens[s].late
                   \/ u \in torn
                   \/ \E g \in Handlers :
                          /\ call'[g].user = u /\ call'[g].at \in {"must", "tokens"}
                          /\ call'[g].op \in {"change", "reset", "disable"}
    BY <1>1, <1>2, <2>3 DEF IInv, TokensAreCurrent
  <2>4. QED
    BY <1>5, <2>1, <2>2, <2>3 DEF TokensAreCurrent
<1>8. QED
  BY <1>1, <1>6, <1>7 DEF IInv

\* set_credential, when no other user has the name.
LEMMA CredentialWritten ==
    ASSUME IInv, NEW h \in Handlers, WriteCredential(h), ~Violates(call[h])
    PROVE  IInv'
<1> DEFINE c == call[h]
           u == c.user
           d == IF AfterCredential(c) = "idle" THEN Idle
                ELSE [c EXCEPT !.at = AfterCredential(c)]
           new == [name |-> c.name, temp |-> c.op \in {"create", "reset"},
                   pw |-> IF cred[u] = None THEN 1 ELSE cred[u].pw + 1]
<1>1. /\ CallOK(c, Accounts, Credentialed) /\ c.at = "cred" /\ c \in Call
      /\ c.op \in {"register", "create", "change", "reset"}
      /\ u \in Accounts /\ u \in Users /\ c.name \in Names
  BY RowTypes DEF WriteCredential, IInv, CallsOK, CallOK, OpsAt
<1>2. /\ cred' = [cred EXCEPT ![u] = new]
      /\ torn' = IF c.op = "reset" /\ Overtaken(h) THEN torn \cup {u} ELSE torn
      /\ call' = [call EXCEPT ![h] = d]
      /\ UNCHANGED <<users, tokens, requests, restarts>>
  BY DEF WriteCredential, GoTo, Finish, Become
<1>3. /\ new \in Credential /\ new # None /\ new.name = c.name
      /\ new.temp = (c.op \in {"create", "reset"})
  <2>1. (IF cred[u] = None THEN 1 ELSE cred[u].pw + 1) \in Nat
    BY <1>1 DEF IInv, TablesOK, Credential
  <2>2. new \in Credential
    BY <1>1, <2>1 DEF Credential
  <2>3. QED
    BY <2>2, NoneIsNoRow
<1>4. /\ cred' \in [Users -> Credential \cup {None}]
      /\ cred'[u] = new /\ \A v \in Users \ {u} : cred'[v] = cred[v]
  BY <1>1, <1>2, <1>3 DEF IInv, TablesOK
<1>5. Accounts' = Accounts /\ Credentialed' = Credentialed \cup {u} /\ torn \subseteq torn'
  BY <1>1, <1>2, <1>3, <1>4, ZenonT(60) DEF Accounts, Credentialed
<1>6. TablesOK'
  BY <1>1, <1>2, <1>4, <1>5 DEF IInv, TablesOK
<1>7. /\ CallOK(d, Accounts, Credentialed) /\ ~IsFresh(d)
      /\ c.op = "create" => d.at = "role"
      /\ c.op \in {"change", "reset"} => d.at = "must"
      /\ c.op # "register" => d.op = c.op /\ d.user = u
      /\ c.op = "register" => d.op # "change"
  BY <1>1, GoesOn, IdleOK DEF AfterCredential, OpsAt
<1>8. CallsOK'
  <2>1. CallOK(d, Accounts', Credentialed')
    BY <1>5, <1>7, CallOKGrows
  <2>2. QED
    BY <1>2, <1>5, <2>1, CallsStep DEF IInv
<1>9. call'[h] = d /\ \A g \in Handlers \ {h} : call'[g] = call[g]
  BY <1>2, OneCall
<1>10. IsFresh(c) <=> c.op \in {"register", "create"}
  BY <1>1 DEF IsFresh
<1>11. IsFresh(c) => cred[u] = None /\ u \notin Credentialed
  BY DEF IInv, FreshInv, Credentialed
<1>12. ~IsFresh(c) => cred[u] # None
  BY <1>1, <1>10 DEF CallOK, Credentialed
<1>13. \A g \in Handlers \ {h} : IsFresh(call[g]) => call[g].user # u
  BY <1>12 DEF IInv, FreshInv
<1>14. FreshInv'
  <2>1. \A g \in Handlers : IsFresh(call[g]) => call[g].user \in Users
    BY RowTypes DEF IInv, CallsOK, CallOK, IsFresh
  <2>2. QED
    BY <1>4, <1>7, <1>9, <1>13, <2>1 DEF IInv, FreshInv
<1>15. ChosenInv'
  <2>1. SUFFICES ASSUME NEW g \in Handlers, call'[g].op = "change", call'[g].at = "must"
        PROVE  ~cred'[call'[g].user].temp \/ call'[g].user \in torn'
    BY DEF ChosenInv
  <2>2. CASE g = h
    <3>1. c.op = "change" /\ call'[g].user = u
      BY <1>1, <1>7, <1>9, <2>1, <2>2
    <3>2. ~cred'[u].temp
      BY <1>3, <1>4, <3>1
    <3>3. QED
      BY <3>1, <3>2
  <2>3. CASE g # h /\ call[g].user = u
    <3>1. u \in Credentialed /\ ~IsFresh(c)
      BY <1>9, <1>11, <2>1, <2>3 DEF IInv, CallsOK, CallOK
    <3>2. c.op = "reset" => u \in torn'
      BY <1>2, <1>9, <2>1, <2>3 DEF Overtaken
    <3>3. QED
      BY <1>1, <1>3, <1>4, <1>9, <1>10, <2>3, <3>1, <3>2, ZenonT(60)
  <2>4. CASE g # h /\ call[g].user # u
    <3>1. call[g].user \in Users
      BY <1>9, <2>1, <2>4, RowTypes DEF IInv, CallsOK, CallOK
    <3>2. QED
      BY <1>4, <1>5, <1>9, <2>1, <2>4, <3>1 DEF IInv, ChosenInv
  <2>5. QED
    BY <2>2, <2>3, <2>4
<1>16. UsernamesUnique'
  <2>1. ASSUME NEW v \in Credentialed, v # u
        PROVE  cred[v].name # c.name
    BY <1>1, <2>1 DEF Violates, TakenBy
  <2>2. \A v \in Credentialed \ {u} : cred'[v] = cred[v]
    BY <1>4, RowTypes
  <2>3. QED
    BY <1>3, <1>4, <1>5, <2>1, <2>2 DEF IInv, UsernamesUnique
<1>17. TokensAreCurrent'
  <2>1. SUFFICES ASSUME NEW t \in Tokens, tokens[t] # None
        PROVE  LET w == tokens[t].user
               IN  \/ tokens[t].pw = cred'[w].pw /\ ~users[w].disabled
                   \/ tokens[t].late
                   \/ w \in torn'
                   \/ \E g \in Handlers :
                          /\ call'[g].user = w /\ call'[g].at \in {"must", "tokens"}
                          /\ call'[g].op \in {"change", "reset", "disable"}
    BY <1>2 DEF TokensAreCurrent
  <2>2. tokens[t].user \in Credentialed /\ tokens[t].user \in Users
    BY <2>1, RowTypes DEF IInv, TablesOK
  <2>3. CASE tokens[t].user = u
    BY <1>1, <1>7, <1>9, <1>10, <1>11, <2>2, <2>3
  <2>4. CASE tokens[t].user # u
    BY <1>1, <1>4, <1>5, <1>9, <2>1, <2>2, <2>4 DEF IInv, TokensAreCurrent
  <2>5. QED
    BY <2>3, <2>4
<1>18. TempMustBeChanged'
  <2>1. SUFFICES ASSUME NEW v \in Credentialed \cup {u}, cred'[v].temp
        PROVE  \/ users[v].mustChange
               \/ v \in torn'
               \/ \E g \in Handlers : /\ call'[g].user = v /\ call'[g].at \in {"role", "must"}
                                      /\ call'[g].op \in {"create", "reset"}
    BY <1>2, <1>5 DEF TempMustBeChanged
  <2>2. CASE v = u
    BY <1>1, <1>3, <1>4, <1>7, <1>9, <2>1, <2>2
  <2>3. CASE v # u
    BY <1>1, <1>4, <1>5, <1>9, <2>1, <2>3, RowTypes DEF IInv, TempMustBeChanged
  <2>4. QED
    BY <2>2, <2>3
<1>19. QED
  BY <1>6, <1>8, <1>14, <1>15, <1>16, <1>17, <1>18 DEF IInv

LEMMA WriteCredentialStep ==
    ASSUME IInv, NEW h \in Handlers, WriteCredential(h)
    PROVE  IInv'
<1>1. CASE Violates(call[h])
  <2>1. /\ call[h].at = "cred" /\ call' = [call EXCEPT ![h] = Idle]
        /\ UNCHANGED <<users, cred, tokens, restarts, torn>> /\ requests' \in Nat
    BY <1>1 DEF WriteCredential, Finish, Become, IInv, TablesOK
  <2>2. QED
    BY <2>1, IdleOK, QuietStep
<1>2. QED
  BY <1>1, CredentialWritten

\* A new account disturbs nobody: nothing is known of it.
LEMMA InsertUserStep ==
    ASSUME IInv, NEW u \in Users \ Accounts, InsertUser(u), UNCHANGED <<cred, tokens, torn>>,
           requests' \in Nat, restarts' \in Nat
    PROVE  /\ TablesOK' /\ UsernamesUnique'
           /\ Accounts' = Accounts \cup {u} /\ Credentialed' = Credentialed
           /\ cred[u] = None
           /\ \A v \in Accounts : users'[v] = users[v]
<1>1. NewUser \in User /\ NewUser # None
  <2>1. Cardinality(Accounts) \in Nat
    BY Counting
  <2>2. NewUser \in User
    BY <2>1 DEF NewUser, User, Roles
  <2>3. QED
    BY <2>2, NoneIsNoRow
<1>2. /\ users' \in [Users -> User \cup {None}] /\ users'[u] = NewUser
      /\ \A v \in Users \ {u} : users'[v] = users[v]
  BY <1>1 DEF InsertUser, IInv, TablesOK
<1>3. Accounts' = Accounts \cup {u} /\ Credentialed' = Credentialed
  BY <1>1, <1>2 DEF Accounts, Credentialed
<1>4. cred[u] = None
  BY DEF IInv, TablesOK, Credentialed, Accounts
<1>5. QED
  BY <1>2, <1>3, <1>4, RowTypes DEF IInv, TablesOK, UsernamesUnique

LEMMA CreateUserStep ==
    ASSUME IInv, CreateUser
    PROVE  IInv'
<1>1. PICK u \in Users \ Accounts : InsertUser(u)
  BY DEF CreateUser
<1>2. UNCHANGED <<cred, tokens, call, requests, restarts, torn>>
  BY DEF CreateUser
<1>3. /\ TablesOK' /\ UsernamesUnique'
      /\ Accounts' = Accounts \cup {u} /\ Credentialed' = Credentialed
      /\ \A v \in Accounts : users'[v] = users[v]
  BY <1>1, <1>2, InsertUserStep DEF IInv, TablesOK
<1>4. CallsOK'
  <2>1. ASSUME NEW h \in Handlers
        PROVE  CallOK(call'[h], Accounts', Credentialed')
    BY <1>2, <1>3, CallOKGrows DEF IInv, CallsOK
  <2>2. QED
    BY <1>2, <2>1 DEF IInv, CallsOK
<1>5. FreshInv' /\ ChosenInv'
  BY <1>2 DEF IInv, FreshInv, ChosenInv
<1>6. TokensAreCurrent'
  BY <1>2, <1>3 DEF IInv, TablesOK, TokensAreCurrent
<1>7. TempMustBeChanged'
  BY <1>2, <1>3 DEF IInv, TablesOK, TempMustBeChanged
<1>8. QED
  BY <1>3, <1>4, <1>5, <1>6, <1>7 DEF IInv

LEMMA CreateRowStep ==
    ASSUME IInv, NEW h \in Handlers, CreateRow(h)
    PROVE  IInv'
<1> DEFINE c == call[h]
<1>1. /\ CallOK(c, Accounts, Credentialed) /\ c.at = "name" /\ c \in Call
      /\ c.op \in {"register", "create"} /\ c.name \in Names
      /\ UNCHANGED <<cred, tokens, torn, requests, restarts>>
      /\ requests' \in Nat /\ restarts' \in Nat
  BY DEF CreateRow, Finish, Become, IInv, TablesOK, CallsOK, CallOK, OpsAt
<1>2. CASE TakenBy(c.name) # {}
  <2>1. call' = [call EXCEPT ![h] = Idle] /\ UNCHANGED users
    BY <1>2 DEF CreateRow, Finish, Become
  <2>2. QED
    BY <1>1, <2>1, IdleOK, QuietStep
<1>3. CASE TakenBy(c.name) = {}
  <2>1. PICK u \in Users \ Accounts :
            InsertUser(u) /\ call' = [call EXCEPT ![h] = [c EXCEPT !.at = "cred", !.user = u]]
    BY <1>3 DEF CreateRow, Become
  <2> DEFINE d == [c EXCEPT !.at = "cred", !.user = u]
  <2>2. /\ TablesOK' /\ UsernamesUnique'
        /\ Accounts' = Accounts \cup {u} /\ Credentialed' = Credentialed
        /\ cred[u] = None /\ \A v \in Accounts : users'[v] = users[v]
    BY <1>1, <2>1, InsertUserStep
  <2>3. CallOK(d, Accounts', Credentialed') /\ d.user = u /\ d.at = "cred"
    BY <1>1, <2>2 DEF CallOK, Call, OpsAt
  <2>4. CallsOK'
    BY <2>1, <2>2, <2>3, CallsStep DEF IInv
  <2>5. call'[h] = d /\ \A g \in Handlers \ {h} : call'[g] = call[g]
    BY <2>1, OneCall
  <2>6. \A g \in Handlers : IsFresh(call[g]) => call[g].user # u
    BY DEF IInv, CallsOK, CallOK, IsFresh
  <2>7. FreshInv'
    <3>1. ASSUME NEW g \in Handlers, IsFresh(call'[g]), g # h
          PROVE  /\ cred'[call'[g].user] = None
                 /\ \A k \in Handlers \ {g} :
                        IsFresh(call'[k]) => call'[k].user # call'[g].user
      <4>1. call'[g] = call[g] /\ cred' = cred
        BY <1>1, <2>5, <3>1
      <4>2. \A k \in Handlers \ {g} : IsFresh(call[k]) => call[k].user # call[g].user
        BY <3>1, <4>1 DEF IInv, FreshInv
      <4>3. call[g].user # d.user
        BY <2>3, <2>6, <3>1, <4>1
      <4>4. QED
        BY <2>5, <3>1, <4>1, <4>2, <4>3 DEF IInv, FreshInv
    <3>2. cred'[d.user] = None
      BY <1>1, <2>2, <2>3
    <3>3. \A k \in Handlers \ {h} : IsFresh(call'[k]) => call'[k].user # d.user
      BY <2>3, <2>5, <2>6
    <3>4. QED
      BY <2>5, <3>1, <3>2, <3>3 DEF FreshInv
  <2>8. ChosenInv'
    BY <1>1, <2>3, <2>5 DEF IInv, ChosenInv
  <2>9. TokensAreCurrent'
    BY <1>1, <2>2, <2>5 DEF IInv, TablesOK, TokensAreCurrent
  <2>10. TempMustBeChanged'
    BY <1>1, <2>2, <2>5 DEF IInv, TablesOK, TempMustBeChanged
  <2>11. QED
    BY <2>2, <2>4, <2>7, <2>8, <2>9, <2>10 DEF IInv
<1>4. QED
  BY <1>2, <1>3

----------------------------------------------------------------------------
(* The clock, logout and restarts *)

LEMMA TokenStep ==
    ASSUME IInv, NEW t \in Tokens, DropToken(t) \/ Expire(t)
    PROVE  IInv'
<1>1. /\ UNCHANGED <<users, cred, call, requests, restarts, torn>>
      /\ Accounts' = Accounts /\ Credentialed' = Credentialed
  BY DEF DropToken, Expire, Accounts, Credentialed
<1>2. /\ tokens' \in [Tokens -> Token \cup {None}]
      /\ \A s \in Tokens : tokens'[s] # None =>
             /\ tokens[s] # None
             /\ tokens'[s].user = tokens[s].user /\ tokens'[s].pw = tokens[s].pw
             /\ tokens'[s].late = tokens[s].late
  <2>1. tokens \in [Tokens -> Token \cup {None}]
    BY DEF IInv, TablesOK
  <2>2. CASE DropToken(t)
    BY <2>1, <2>2 DEF DropToken
  <2>3. CASE Expire(t)
    <3> DEFINE new == [tokens[t] EXCEPT !.expired = TRUE]
    <3>1. tokens[t] \in Token /\ tokens' = [tokens EXCEPT ![t] = new]
      BY <2>1, <2>3 DEF Expire
    <3>2. /\ new \in Token /\ new.user = tokens[t].user /\ new.pw = tokens[t].pw
          /\ new.late = tokens[t].late
      BY <3>1 DEF Token
    <3>3. \A s \in Tokens : tokens'[s] = IF s = t THEN new ELSE tokens[s]
      BY <2>1, <3>1
    <3>4. QED
      BY <2>1, <2>3, <3>1, <3>2, <3>3 DEF Expire
  <2>4. QED
    BY <2>2, <2>3
<1>3. TablesOK'
  BY <1>1, <1>2 DEF IInv, TablesOK
<1>4. CallsOK' /\ FreshInv' /\ ChosenInv'
  BY <1>1 DEF IInv, CallsOK, FreshInv, ChosenInv
<1>5. UsernamesUnique' /\ TempMustBeChanged'
  BY <1>1 DEF IInv, UsernamesUnique, TempMustBeChanged
<1>6. TokensAreCurrent'
  BY <1>1, <1>2 DEF IInv, TokensAreCurrent
<1>7. QED
  BY <1>3, <1>4, <1>5, <1>6 DEF IInv

LEMMA RestartStep ==
    ASSUME IInv, Restart
    PROVE  IInv'
<1> DEFINE Torn == {g \in Handlers : call[g].at \in {"role", "must", "tokens"}}
<1>1. /\ UNCHANGED <<cred, tokens, requests>> /\ restarts' = restarts + 1
      /\ call' = [h \in Handlers |-> Idle]
      /\ torn' = torn \cup {call[h].user : h \in Torn}
  BY DEF Restart
<1>2. /\ users' \in [Users -> User \cup {None}] /\ Accounts' = Accounts
      /\ \A u \in Accounts : /\ users'[u].disabled = users[u].disabled
                              /\ users'[u].mustChange = users[u].mustChange
  <2>1. CASE UNCHANGED users
    BY <2>1 DEF IInv, TablesOK, Accounts
  <2>2. CASE \E u \in Oldest : users' = [users EXCEPT ![u].role = "admin"]
    <3>1. PICK u \in Oldest : users' = [users EXCEPT ![u].role = "admin"]
      BY <2>2
    <3> DEFINE row == [users[u] EXCEPT !.role = "admin"]
    <3>2. u \in Accounts /\ u \in Users /\ users[u] \in User
      BY <3>1, RowTypes DEF Oldest
    <3>3. /\ row \in User /\ row.disabled = users[u].disabled
          /\ row.mustChange = users[u].mustChange
      BY <3>2 DEF User, Roles
    <3>4. row # None
      BY <3>3, NoneIsNoRow
    <3>5. /\ users' \in [Users -> User \cup {None}] /\ users'[u] = row
          /\ \A v \in Users \ {u} : users'[v] = users[v]
      BY <3>1, <3>2, <3>3 DEF IInv, TablesOK
    <3>6. Accounts' = Accounts
      BY <3>2, <3>4, <3>5 DEF Accounts
    <3>7. QED
      BY <3>3, <3>5, <3>6, RowTypes
  <2>3. QED
    BY <2>1, <2>2 DEF Restart
<1>3. Credentialed' = Credentialed
  BY <1>1 DEF Credentialed
<1>4. TablesOK'
  <2>1. \A h \in Torn : call[h].user \in Users
    BY RowTypes DEF IInv, CallsOK, CallOK
  <2>2. QED
    BY <1>1, <1>2, <1>3, <2>1 DEF IInv, TablesOK
<1>5. CallsOK'
  <2>1. Idle \in Call
    BY IdleOK DEF CallOK
  <2>2. QED
    BY <1>1, <2>1, IdleOK DEF CallsOK
<1>6. FreshInv' /\ ChosenInv' /\ UsernamesUnique'
  BY <1>1, <1>3, IdleOK DEF IInv, FreshInv, ChosenInv, UsernamesUnique
<1>7. \A h \in Torn : call[h].user \in torn'
  BY <1>1
<1>8. TokensAreCurrent'
  BY <1>1, <1>2, <1>7 DEF IInv, TablesOK, TokensAreCurrent
<1>9. TempMustBeChanged'
  BY <1>1, <1>2, <1>3, <1>7 DEF IInv, TablesOK, TempMustBeChanged
<1>10. QED
  BY <1>4, <1>5, <1>6, <1>8, <1>9 DEF IInv

----------------------------------------------------------------------------
(* The invariant, and what follows from it *)

LEMMA InitIInv == Init => IInv
<1> SUFFICES ASSUME Init
             PROVE  IInv
  OBVIOUS
<1>1. Accounts = {} /\ Credentialed = {} /\ \A h \in Handlers : call[h] = Idle
  BY DEF Init, Accounts, Credentialed
<1>2. TablesOK
  BY <1>1 DEF Init, TablesOK
<1>3. CallsOK
  <2>1. Idle \in Call
    BY IdleOK DEF CallOK
  <2>2. QED
    BY <1>1, <2>1, IdleOK DEF Init, CallsOK
<1>4. FreshInv /\ ChosenInv
  BY <1>1, IdleOK DEF FreshInv, ChosenInv
<1>5. UsernamesUnique /\ TempMustBeChanged
  BY <1>1 DEF UsernamesUnique, TempMustBeChanged
<1>6. TokensAreCurrent
  BY DEF Init, TokensAreCurrent
<1>7. QED
  BY <1>2, <1>3, <1>4, <1>5, <1>6 DEF IInv

LEMMA StatementStep ==
    ASSUME IInv, NEW h \in Handlers, Statement(h)
    PROVE  IInv'
BY CreateRowStep, WriteCredentialStep, CountAdminsStep, WriteRoleStep, WriteMustStep,
   WriteDisabledStep, DeleteTokensStep, CheckDisabledStep, StoreTokenStep DEF Statement

LEMMA NextIInv == IInv /\ [Next]_vars => IInv'
<1> SUFFICES ASSUME IInv, [Next]_vars
             PROVE  IInv'
  OBVIOUS
<1>1. CASE \E h \in Handlers : Request(h) \/ Statement(h)
  BY <1>1, RequestStep, StatementStep
<1>2. CASE \E t \in Tokens : DropToken(t) \/ Expire(t)
  BY <1>2, TokenStep
<1>3. CASE CreateUser
  BY <1>3, CreateUserStep
<1>4. CASE Restart
  BY <1>4, RestartStep
<1>5. CASE UNCHANGED vars
  BY <1>5 DEF vars, IInv, TablesOK, CallsOK, FreshInv, ChosenInv, UsernamesUnique,
              TokensAreCurrent, TempMustBeChanged, Accounts, Credentialed
<1>6. QED
  BY <1>1, <1>2, <1>3, <1>4, <1>5 DEF Next

LEMMA SpecIInv == Spec => []IInv
BY InitIInv, NextIInv, PTL DEF Spec

\* The tables have their types and keep their foreign keys, and every call is
\* about a user with a row.
THEOREM AccountsTypeOK == Spec => []TypeOK
BY SpecIInv, IInvType, PTL

\* Of two requests for one login name that both found it free, one gets it.
THEOREM UsernamesAreUnique == Spec => []UsernamesUnique
BY SpecIInv, PTL DEF IInv

\* A token that survives a change of the password or the disabling of the
\* account was stored by a login that overlapped it, or was left by a restart
\* in the middle.
THEOREM TokensStayCurrent == Spec => []TokensAreCurrent
BY SpecIInv, PTL DEF IInv

\* A temporary password has to be changed, unless a restart or the user's own
\* change cut into the request that set it.
THEOREM TempPasswordsExpire == Spec => []TempMustBeChanged
BY SpecIInv, PTL DEF IInv

----------------------------------------------------------------------------
(* Administrators *)

\* A step that leaves the box without administrators is a write to the row of
\* the last one, by the call that asked for it.
LEMMA WhoTakesTheLast ==
    ASSUME IInv, Next, Admins # {}, Admins' = {}
    PROVE  \E h \in Handlers :
              /\ WriteRole(h) \/ WriteDisabled(h)
              /\ Admins = {call[h].user}
              /\ call[h].at \in {"role", "disabled"} /\ call'[h] # call[h]
              /\ call[h].admin => Removes(call[h])
<1>1. PICK a \in Admins : TRUE
  OBVIOUS
<1>2. /\ a \in Accounts /\ a \in Users /\ users[a] \in User
      /\ users[a].role = "admin" /\ ~users[a].disabled
  BY RowTypes DEF Admins
<1>3. users' # users
  BY DEF Admins, Accounts
<1>4. ~CreateUser /\ \A h \in Handlers : ~CreateRow(h)
  <2>1. ASSUME NEW u \in Users \ Accounts, InsertUser(u)
        PROVE  FALSE
    <3>1. users'[a] = users[a]
      BY <1>2, <2>1 DEF InsertUser, IInv, TablesOK
    <3>2. a \in Admins'
      BY <1>1, <1>2, <3>1 DEF Admins, Accounts
    <3>3. QED
      BY <3>2
  <2>2. QED
    BY <1>3, <2>1 DEF CreateUser, CreateRow
<1>5. ~Restart
  BY <1>3, Counting DEF Restart
<1>6. PICK h \in Handlers : WriteRole(h) \/ WriteMust(h) \/ WriteDisabled(h)
  BY <1>3, <1>4, <1>5
  DEF Next, Request, Statement, Register, AdminCreate, Login, ChangePassword,
      ResetPassword, ChangeRole, Disable, Enable, Accept, WriteCredential, CountAdmins,
      DeleteTokens, CheckDisabled, StoreToken, DropToken, Expire
<1> DEFINE c == call[h]
<1>7. /\ c \in Call /\ c.op \in OpsAt(c.at)
      /\ c.at \in {"role", "must", "disabled"} => c.user \in Accounts /\ c.user \in Users
  BY RowTypes DEF IInv, CallsOK, CallOK
<1>8. ~WriteMust(h)
  <2>1. SUFFICES ASSUME WriteMust(h)
        PROVE  FALSE
    OBVIOUS
  <2>2. /\ users'[a] # None /\ users'[a].role = users[a].role
        /\ users'[a].disabled = users[a].disabled
    <3> DEFINE row == [users[c.user] EXCEPT !.mustChange = c.op # "change"]
    <3>1. c.user \in Accounts /\ c.user \in Users
      BY <1>7, <2>1 DEF WriteMust
    <3>2. /\ row \in User /\ row.role = users[c.user].role
          /\ row.disabled = users[c.user].disabled
      BY <3>1, RowTypes DEF User
    <3>3. row # None /\ users[a] # None
      BY <1>2, <3>2, NoneIsNoRow
    <3>4. users' = [users EXCEPT ![c.user] = row]
      BY <2>1 DEF WriteMust
    <3>5. users'[a] = IF a = c.user THEN row ELSE users[a]
      BY <1>2, <3>1, <3>4 DEF IInv, TablesOK
    <3>6. QED
      BY <3>2, <3>3, <3>5
  <2>3. a \in Admins'
    BY <1>2, <2>2 DEF Admins, Accounts
  <2>4. QED
    BY <2>3
<1>9. \A u \in Users \ {c.user} : users'[u] = users[u]
  BY <1>6, <1>8 DEF WriteRole, WriteDisabled, IInv, TablesOK
<1>10. Admins \subseteq {c.user}
  <2>1. ASSUME NEW u \in Admins, u # c.user
        PROVE  FALSE
    <3>1. users'[u] = users[u] /\ u \in Users /\ users[u] # None
      BY <1>9, <2>1 DEF Admins, Accounts
    <3>2. u \in Admins'
      BY <2>1, <3>1 DEF Admins, Accounts
    <3>3. QED
      BY <3>2
  <2>2. QED
    BY <2>1
<1>11. a = c.user /\ Admins = {c.user}
  BY <1>1, <1>10
<1>12. c.at \in {"role", "disabled"} /\ call'[h] # c
  <2>1. c.at \in {"role", "disabled"} /\ (call'[h] = Idle \/ call'[h].at \in {"must", "tokens"})
    BY <1>6, <1>7, <1>8 DEF WriteRole, WriteDisabled, GoTo, Finish, Become, IInv, CallsOK, Call
  <2>2. QED
    BY <2>1, IdleOK
<1>13. ASSUME c.admin
       PROVE  Removes(c)
  <2>1. CASE WriteDisabled(h)
    <3> DEFINE row == [users[a] EXCEPT !.disabled = FALSE]
    <3>1. ASSUME c.op = "enable"
          PROVE  FALSE
      <4>1. users'[a] = row
        BY <1>2, <1>11, <2>1, <3>1 DEF WriteDisabled, IInv, TablesOK
      <4>2. row \in User /\ row.role = "admin" /\ ~row.disabled
        BY <1>2 DEF User
      <4>3. row # None
        BY <4>2, NoneIsNoRow
      <4>4. a \in Admins'
        BY <1>2, <4>1, <4>2, <4>3 DEF Admins, Accounts
      <4>5. QED
        BY <4>4
    <3>2. c.op \in {"disable", "enable"}
      BY <1>7, <2>1 DEF WriteDisabled, OpsAt
    <3>3. QED
      BY <3>1, <3>2 DEF Removes
  <2>2. CASE WriteRole(h)
    <3> DEFINE r == IF c.op = "register" THEN "admin" ELSE c.role
               row == [users[a] EXCEPT !.role = r]
    <3>1. c.op = "role"
      BY <1>7, <1>13, <2>2 DEF WriteRole, OpsAt, CallOK, IInv, CallsOK
    <3>2. ASSUME c.role = "admin"
          PROVE  FALSE
      <4>1. users'[a] = row /\ r = "admin"
        BY <1>2, <1>11, <2>2, <3>1, <3>2 DEF WriteRole, IInv, TablesOK
      <4>2. row \in User /\ row.role = "admin" /\ ~row.disabled
        BY <1>2, <4>1 DEF User, Roles
      <4>3. row # None
        BY <4>2, NoneIsNoRow
      <4>4. a \in Admins'
        BY <1>2, <4>1, <4>2, <4>3 DEF Admins, Accounts
      <4>5. QED
        BY <4>4
    <3>3. c.role \in Roles
      BY <1>7 DEF Call
    <3>4. QED
      BY <3>1, <3>2, <3>3 DEF Removes, Roles
  <2>3. QED
    BY <1>6, <1>8, <2>1, <2>2
<1>14. QED
  BY <1>6, <1>8, <1>11, <1>12, <1>13

\* The last administrator is lost only to a call that had counted others, or
\* had read that its target was no administrator.
THEOREM LastAdminNeedsOverlap == Spec => LastAdminLostByOverlap
<1>1. ASSUME IInv, Next, Admins # {}, Admins' = {}
      PROVE  \E h \in Handlers :
                /\ call[h].at \in {"role", "disabled"} /\ call'[h] # call[h]
                /\ call[h].seen > AdminCount \/ ~call[h].admin
  <2>1. PICK h \in Handlers :
            /\ Admins = {call[h].user}
            /\ call[h].at \in {"role", "disabled"} /\ call'[h] # call[h]
            /\ call[h].admin => Removes(call[h])
    BY <1>1, WhoTakesTheLast
  <2>2. AdminCount = 1
    BY <2>1, FS_Singleton DEF AdminCount
  <2>3. call[h].admin => call[h].seen >= 2
    BY <1>1, <2>1 DEF IInv, CallsOK, CallOK
  <2>4. call[h].seen \in Nat
    BY <1>1 DEF IInv, CallsOK, CallOK, Call
  <2>5. QED
    BY <2>1, <2>2, <2>3, <2>4
<1>2. IInv /\ [Next]_vars => [(Admins # {} /\ Admins' = {}) =>
          \E h \in Handlers :
              /\ call[h].at \in {"role", "disabled"} /\ call'[h] # call[h]
              /\ call[h].seen > AdminCount \/ ~call[h].admin]_vars
  BY <1>1
<1>3. QED
  BY <1>2, SpecIInv, PTL DEF Spec, LastAdminLostByOverlap

\* A start that finds logins and no administrator appoints one, who is disabled
\* only if the oldest account with a login is.
THEOREM StartAppointsAnAdmin == Spec => StartAppoints
<1>1. ASSUME IInv, Next, restarts' # restarts, Credentialed # {}, Admins = {}
      PROVE  \E u \in Credentialed :
                /\ users'[u].role = "admin"
                /\ ~users'[u].disabled \/ \A v \in Credentialed : users[u].born <= users[v].born
  <2>1. Restart
    BY <1>1, ZenonT(60)
    DEF Next, Request, Statement, Register, AdminCreate, Login, ChangePassword,
        ResetPassword, ChangeRole, Disable, Enable, Accept, CreateRow, WriteCredential,
        CountAdmins, WriteRole, WriteMust, WriteDisabled, DeleteTokens, CheckDisabled,
        StoreToken, Become, Finish, GoTo, CreateUser, DropToken, Expire
  <2>2. PICK u \in Oldest : users' = [users EXCEPT ![u].role = "admin"]
    BY <1>1, <2>1, Counting DEF Restart
  <2>3. u \in Credentialed /\ u \in Users /\ users[u] \in User
    BY <1>1, <2>2, RowTypes DEF Oldest
  <2>4. users'[u].role = "admin"
    BY <1>1, <2>2, <2>3 DEF IInv, TablesOK, User
  <2>5. QED
    BY <2>2, <2>3, <2>4 DEF Oldest
<1>2. IInv /\ [Next]_vars => [(restarts' # restarts /\ Credentialed # {} /\ Admins = {}) =>
          \E u \in Credentialed :
              /\ users'[u].role = "admin"
              /\ ~users'[u].disabled \/ \A v \in Credentialed : users[u].born <= users[v].born]_vars
  BY <1>1
<1>3. QED
  BY <1>2, SpecIInv, PTL DEF Spec, StartAppoints

----------------------------------------------------------------------------
(* Logins *)

\* A route about to write a password with the login name it has read.
Rewrites(c) == c.at = "cred" /\ c.op \in {"change", "reset"}

\* That name is still the login's.
NamesInv ==
    \A h \in Handlers : Rewrites(call[h]) =>
        /\ cred[call[h].user] # None
        /\ call[h].name = cred[call[h].user].name

\* A login keeps its name, and what changes it changes the password.
Rewritten(old, new) ==
    old # None => /\ new # None
                  /\ new.name = old.name
                  /\ new = old \/ new.pw = old.pw + 1

LoginsKept == \A u \in Users : Rewritten(cred[u], cred'[u])

\* Calls that are as they were, or write no password, or have just read the name.
LEMMA NamesKept ==
    ASSUME NamesInv, UNCHANGED cred,
           \A h \in Handlers : \/ call'[h] = call[h]
                               \/ ~Rewrites(call'[h])
                               \/ /\ cred[call'[h].user] # None
                                  /\ call'[h].name = cred[call'[h].user].name
    PROVE  NamesInv' /\ LoginsKept
<1>1. NamesInv'
  BY DEF NamesInv, Rewrites
<1>2. LoginsKept
  BY DEF LoginsKept, Rewritten
<1>3. QED
  BY <1>1, <1>2

LEMMA AcceptNames ==
    ASSUME IInv, NamesInv, NEW h \in Handlers, NEW c, Accept(h, c),
           ~Rewrites(c) \/ (cred[c.user] # None /\ c.name = cred[c.user].name)
    PROVE  NamesInv' /\ LoginsKept
<1>1. call \in [Handlers -> Call]
  BY DEF IInv, CallsOK
<1>2. UNCHANGED cred /\ call' = [call EXCEPT ![h] = c]
  BY DEF Accept
<1>3. QED
  BY <1>1, <1>2, NamesKept

LEMMA RequestNames ==
    ASSUME IInv, NamesInv, NEW h \in Handlers, Request(h)
    PROVE  NamesInv' /\ LoginsKept
<1> USE DEF Rewrites, Idle
<1>1. CASE Register(h)
  BY <1>1, AcceptNames DEF Register
<1>2. CASE AdminCreate(h)
  BY <1>2, AcceptNames DEF AdminCreate
<1>3. CASE Login(h)
  BY <1>3, AcceptNames DEF Login
<1>4. CASE ChangePassword(h)
  BY <1>4, AcceptNames DEF ChangePassword, Credentialed
<1>5. CASE ResetPassword(h)
  BY <1>5, AcceptNames DEF ResetPassword, Credentialed
<1>6. CASE ChangeRole(h)
  BY <1>6, AcceptNames DEF ChangeRole
<1>7. CASE Disable(h)
  BY <1>7, AcceptNames DEF Disable
<1>8. CASE Enable(h)
  BY <1>8, AcceptNames DEF Enable
<1>9. QED
  BY <1>1, <1>2, <1>3, <1>4, <1>5, <1>6, <1>7, <1>8 DEF Request

\* The other registry calls leave logins alone, and take no call to set_credential
\* but one that creates an account.
LEMMA StatementNames ==
    ASSUME IInv, NamesInv, NEW h \in Handlers, Statement(h), ~WriteCredential(h)
    PROVE  NamesInv' /\ LoginsKept
<1>1. call \in [Handlers -> Call] /\ call[h] \in Call /\ call[h].op \in OpsAt(call[h].at)
  BY DEF IInv, CallsOK, CallOK
<1>2. UNCHANGED cred
  BY DEF Statement, CreateRow, CountAdmins, WriteRole, WriteMust, WriteDisabled, DeleteTokens,
         CheckDisabled, StoreToken
<1>3. ASSUME NEW c, call' = [call EXCEPT ![h] = c], ~Rewrites(c) PROVE NamesInv' /\ LoginsKept
  BY <1>1, <1>2, <1>3, NamesKept
<1>4. ASSUME NEW at, at # "cred" PROVE ~Rewrites([call[h] EXCEPT !.at = at])
  BY <1>1, <1>4 DEF Rewrites, Call
<1>5. ~Rewrites(Idle)
  BY DEF Rewrites, Idle
<1>6. CASE CreateRow(h)
  <2>1. \/ call' = [call EXCEPT ![h] = Idle]
        \/ \E u \in Users : call' = [call EXCEPT ![h] = [call[h] EXCEPT !.at = "cred", !.user = u]]
    BY <1>6 DEF CreateRow, Finish, Become
  <2>2. call[h].op \in {"register", "create"}
    BY <1>1, <1>6 DEF CreateRow, OpsAt
  <2>3. \A u \in Users : ~Rewrites([call[h] EXCEPT !.at = "cred", !.user = u])
    BY <1>1, <2>2 DEF Rewrites, Call
  <2>4. QED
    BY <1>3, <1>5, <2>1, <2>3
<1>7. CASE CountAdmins(h)
  <2>1. PICK write : write \in {"role", "disabled"}
           /\ (\/ call' = [call EXCEPT ![h] = Idle]
               \/ call' = [call EXCEPT ![h] = [call[h] EXCEPT !.at = write]]
               \/ call' = [call EXCEPT ![h] = [call[h] EXCEPT !.at = write, !.seen = AdminCount]])
    BY <1>7 DEF CountAdmins, Finish, GoTo, Become
  <2>2. ~Rewrites([call[h] EXCEPT !.at = write, !.seen = AdminCount])
    BY <1>1, <2>1 DEF Rewrites, Call
  <2>3. QED
    BY <1>3, <1>4, <1>5, <2>1, <2>2
<1>8. CASE \/ WriteRole(h) \/ WriteMust(h) \/ WriteDisabled(h) \/ DeleteTokens(h)
           \/ CheckDisabled(h) \/ StoreToken(h)
  <2>1. \/ call' = [call EXCEPT ![h] = Idle]
        \/ \E at \in {"must", "tokens", "store"} : call' = [call EXCEPT ![h] = [call[h] EXCEPT !.at = at]]
    BY <1>8 DEF WriteRole, WriteMust, WriteDisabled, DeleteTokens, CheckDisabled, StoreToken, Finish,
                GoTo, Become
  <2>2. QED
    BY <1>3, <1>4, <1>5, <2>1
<1>9. QED
  BY <1>6, <1>7, <1>8 DEF Statement

\* set_credential writes the name the login has, or to an account without one.
LEMMA WriteCredentialNames ==
    ASSUME IInv, NamesInv, NEW h \in Handlers, WriteCredential(h)
    PROVE  NamesInv' /\ LoginsKept
<1>1. PICK c \in Call : c = call[h]
  BY DEF IInv, CallsOK
<1>2. /\ call \in [Handlers -> Call] /\ cred \in [Users -> Credential \cup {None}]
      /\ None \notin Credential
  BY NoneAssumption DEF IInv, CallsOK, TablesOK
<1>3. c.at = "cred" /\ c.op \in {"register", "create", "change", "reset"}
      /\ c.user \in Users /\ c.name \in Names
  BY <1>1 DEF WriteCredential, IInv, CallsOK, CallOK, OpsAt, Accounts
<1>4. PICK d : call' = [call EXCEPT ![h] = d] /\ ~Rewrites(d)
  <2>1. AfterCredential(c) # "cred"
    BY DEF AfterCredential
  <2>2. ~Rewrites([c EXCEPT !.at = AfterCredential(c)]) /\ ~Rewrites(Idle)
    BY <1>1, <2>1 DEF Rewrites, Call, Idle
  <2>3. \/ call' = [call EXCEPT ![h] = Idle]
        \/ call' = [call EXCEPT ![h] = [c EXCEPT !.at = AfterCredential(c)]]
    BY <1>1 DEF WriteCredential, Finish, GoTo, Become
  <2>4. QED
    BY <2>2, <2>3
<1>5. CASE Violates(c)
  <2>1. UNCHANGED cred
    BY <1>1, <1>5 DEF WriteCredential
  <2>2. QED
    BY <1>2, <1>4, <2>1, NamesKept
<1>6. CASE ~Violates(c)
  <2>1. PICK new : new = [name |-> c.name, temp |-> c.op \in {"create", "reset"},
                          pw |-> IF cred[c.user] = None THEN 1 ELSE cred[c.user].pw + 1]
    OBVIOUS
  <2>2. cred' = [cred EXCEPT ![c.user] = new]
    BY <1>1, <1>6, <2>1 DEF WriteCredential
  <2>3. new # None
    <3>1. (IF cred[c.user] = None THEN 1 ELSE cred[c.user].pw + 1) \in Nat
      BY <1>2, <1>3 DEF Credential
    <3>2. new \in Credential
      BY <1>3, <2>1, <3>1 DEF Credential
    <3>3. QED
      BY <1>2, <3>2
  <2>4. Rewritten(cred[c.user], new)
    <3>1. CASE c.op \in {"register", "create"}
      <4>1. cred[c.user] = None
        BY <1>1, <1>3, <3>1 DEF IInv, FreshInv, IsFresh
      <4>2. QED
        BY <4>1 DEF Rewritten
    <3>2. CASE c.op \in {"change", "reset"}
      <4>1. cred[c.user] # None /\ c.name = cred[c.user].name
        BY <1>1, <1>3, <3>2 DEF NamesInv, Rewrites
      <4>2. QED
        BY <2>1, <2>3, <4>1 DEF Rewritten
    <3>3. QED
      BY <1>3, <3>1, <3>2
  <2>5. LoginsKept
    BY <1>2, <1>3, <2>2, <2>4 DEF LoginsKept, Rewritten
  <2>6. NamesInv'
    <3>1. SUFFICES ASSUME NEW g \in Handlers, Rewrites(call'[g])
                   PROVE  cred'[call'[g].user] # None /\ call'[g].name = cred'[call'[g].user].name
      BY DEF NamesInv, Rewrites
    <3>2. g # h /\ call'[g] = call[g]
      BY <1>2, <1>4, <3>1
    <3>3. cred[call[g].user] # None /\ call[g].name = cred[call[g].user].name
      BY <3>1, <3>2 DEF NamesInv
    <3>4. call[g].user \in Users
      BY <3>1, <3>2 DEF IInv, CallsOK, CallOK, Rewrites, Accounts
    <3>5. QED
      BY <2>5, <3>2, <3>3, <3>4 DEF LoginsKept, Rewritten
  <2>7. QED
    BY <2>5, <2>6
<1>7. QED
  BY <1>5, <1>6

\* A login, once given, keeps its name, and whatever rewrites it makes a new
\* password: change and reset write the name they read before the digest was
\* derived (server.py, registry.py, set_credential), yet no interleaving with
\* registrations, other changes or restarts renames a login or takes one away.
THEOREM LoginsAreKept == Spec => [][LoginsKept]_vars
<1>1. Init => NamesInv
  BY DEF Init, NamesInv, Rewrites, Idle
<1>2. ASSUME IInv, NamesInv, [Next]_vars PROVE NamesInv' /\ LoginsKept
  <2>1. call \in [Handlers -> Call]
    BY <1>2 DEF IInv, CallsOK
  <2>2. ASSUME NEW h \in Handlers, Request(h) \/ Statement(h) PROVE NamesInv' /\ LoginsKept
    BY <1>2, <2>2, RequestNames, StatementNames, WriteCredentialNames
  <2>3. CASE \/ \E t \in Tokens : DropToken(t) \/ Expire(t)
             \/ CreateUser \/ UNCHANGED vars
    <3>1. UNCHANGED <<cred, call>>
      BY <2>3 DEF DropToken, Expire, CreateUser, vars
    <3>2. QED
      BY <1>2, <3>1, NamesKept
  <2>4. CASE Restart
    <3>1. UNCHANGED cred /\ \A h \in Handlers : ~Rewrites(call'[h])
      BY <2>4 DEF Restart, Rewrites, Idle
    <3>2. QED
      BY <1>2, <3>1, NamesKept
  <2>5. QED
    BY <1>2, <2>2, <2>3, <2>4 DEF Next
<1>3. IInv /\ NamesInv /\ [Next]_vars => NamesInv' /\ [LoginsKept]_vars
  BY <1>2
<1>4. QED
  BY <1>1, <1>3, SpecIInv, PTL DEF Spec
=============================================================================
