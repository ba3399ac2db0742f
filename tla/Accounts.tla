------------------------------ MODULE Accounts ------------------------------
(***************************************************************************)
(* Accounts, logins and administration: the routes under /auth and /admin  *)
(* of src/server.py, over the tables users, credentials and auth_tokens    *)
(* (src/registry.py).                                                      *)
(*                                                                         *)
(* These routes are plain functions: FastAPI runs them on worker threads,  *)
(* and each registry call commits by itself, so two requests interleave    *)
(* between any two calls.  A call's "at" names the registry call it makes  *)
(* next.  Deriving a scrypt digest takes tens of milliseconds and lies     *)
(* between what a route reads and what it writes.                          *)
(***************************************************************************)
EXTENDS Naturals, FiniteSets

CONSTANTS
    Users,          \* the ids that new accounts are given
    Names,          \* login names
    Tokens,         \* bearer tokens that logins are given
    Handlers,       \* worker threads serving requests
    MaxRequests,    \* bound: requests accepted
    MaxRestarts,    \* bound: restarts of the server
    None            \* Python's None, SQL's NULL, no row

ASSUME UsersAssumption == IsFiniteSet(Users)

VARIABLES
    users,      \* the users table
    cred,       \* credentials, by user; pw counts the passwords of a user
    tokens,     \* auth_tokens, with the password that was shown for each
    call,       \* what each worker thread is doing
    requests, restarts,
    torn        \* history: users of whom a change was torn, by a restart or
                \* by another change in the middle of it

vars == <<users, cred, tokens, call, requests, restarts, torn>>

----------------------------------------------------------------------------
(* Types *)

Roles == {"admin", "user"}

\* born stands for created_at.
User == [role: Roles, disabled: BOOLEAN, mustChange: BOOLEAN, born: Nat]
Credential == [name: Names, pw: Nat, temp: BOOLEAN]

\* late (history): by the time the token was stored, the password had been
\* changed or the account disabled.
Token == [user: Users, pw: Nat, late: BOOLEAN, expired: BOOLEAN]

\* user, name, role: the route's arguments.  What it has read: first, that no
\* credential existed; pw, the current password; admin, that the target is an
\* administrator; seen, admin_count().
Call == [op: {"none", "register", "create", "login", "change", "reset",
              "role", "disable", "enable"},
         at: {"idle", "name", "cred", "role", "must", "tokens", "check",
              "store", "count", "disabled"},
         user: Users \cup {None}, name: Names \cup {None}, role: Roles,
         first: BOOLEAN, pw: Nat, admin: BOOLEAN, seen: Nat]

Idle == [op |-> "none", at |-> "idle", user |-> None, name |-> None,
         role |-> "user", first |-> FALSE, pw |-> 0, admin |-> FALSE, seen |-> 0]

ASSUME NoneAssumption == None \notin Users \cup Names \cup User \cup Credential \cup Token

----------------------------------------------------------------------------
(* What the registry answers *)

Accounts == {u \in Users : users[u] # None}

\* The users with a console login: count_credentials() and its join.
Credentialed == {u \in Users : cred[u] # None}

Admins == {u \in Accounts : users[u].role = "admin" /\ ~users[u].disabled}
AdminCount == Cardinality(Admins)

TakenBy(n) == {u \in Credentialed : cred[u].name = n}

\* The UNIQUE constraint on credentials.username.
Unconstrained(c) == FALSE
Violates(c) == TakenBy(c.name) \ {c.user} # {}

\* A bug: tokens are deleted only once they have expired.
ExpiredTokensOf(u) == {t \in Tokens : tokens[t] # None /\ tokens[t].user = u /\ tokens[t].expired}
TokensOf(u) == {t \in Tokens : tokens[t] # None /\ tokens[t].user = u}

NoneIsLeft == AdminCount < 1
LastOne == AdminCount <= 1

\* _identify: the user a token speaks for.
Identified(t) ==
    IF tokens[t] # None /\ ~tokens[t].expired /\ ~users[tokens[t].user].disabled
    THEN {tokens[t].user} ELSE {}

\* Whoever passes admin_only: the service token, or a user of that role.
AdminCallers ==
    {None} \cup {u \in UNION {Identified(t) : t \in Tokens} : users[u].role = "admin"}

OldestOfAll == {u \in Accounts : \A v \in Accounts : users[u].born <= users[v].born}

\* SELECT ... JOIN credentials ORDER BY created_at LIMIT 1: one of these.
Oldest == {u \in Credentialed : \A v \in Credentialed : users[u].born <= users[v].born}

----------------------------------------------------------------------------
(* Requests *)

Accept(h, c) ==
    /\ call[h] = Idle /\ requests < MaxRequests
    /\ call' = [call EXCEPT ![h] = c]
    /\ requests' = requests + 1
    /\ UNCHANGED <<users, cred, tokens, restarts, torn>>

Become(h, c) == call' = [call EXCEPT ![h] = c] /\ UNCHANGED <<requests, restarts>>
Finish(h) == Become(h, Idle)
GoTo(h, at) == Become(h, [call[h] EXCEPT !.at = at])

\* Open to anybody while no credential exists, then to the service token.
Register(h) ==
    \E n \in Names, service \in BOOLEAN :
        /\ Credentialed = {} \/ service
        /\ Accept(h, [Idle EXCEPT !.op = "register", !.at = "name", !.name = n,
                                  !.first = (Credentialed = {})])

AdminCreate(h) ==
    \E who \in AdminCallers, n \in Names, r \in Roles :
        Accept(h, [Idle EXCEPT !.op = "create", !.at = "name", !.name = n, !.role = r])

\* The name and the password are right; the password is compared with the
\* digest that was read.
Login(h) ==
    \E u \in Credentialed :
        Accept(h, [Idle EXCEPT !.op = "login", !.at = "check", !.user = u,
                               !.pw = cred[u].pw])

ChangePassword(h) ==
    \E t \in Tokens : \E u \in Identified(t) \cap Credentialed :
        Accept(h, [Idle EXCEPT !.op = "change", !.at = "cred", !.user = u,
                               !.name = cred[u].name, !.pw = cred[u].pw])

ResetPassword(h) ==
    \E who \in AdminCallers, u \in Accounts \cap Credentialed :
        Accept(h, [Idle EXCEPT !.op = "reset", !.at = "cred", !.user = u,
                               !.name = cred[u].name])

ChangeRole(h) ==
    \E who \in AdminCallers, u \in Accounts, r \in Roles :
        Accept(h, [Idle EXCEPT !.op = "role", !.at = "count", !.user = u, !.role = r,
                               !.admin = (users[u].role = "admin")])

Disable(h) ==
    \E who \in AdminCallers, u \in Accounts :
        /\ who # u
        /\ Accept(h, [Idle EXCEPT !.op = "disable", !.at = "count", !.user = u,
                                  !.admin = (users[u].role = "admin")])

Enable(h) ==
    \E who \in AdminCallers, u \in Accounts :
        Accept(h, [Idle EXCEPT !.op = "enable", !.at = "disabled", !.user = u])

----------------------------------------------------------------------------
(* Their registry calls *)

NewUser == [role |-> "user", disabled |-> FALSE, mustChange |-> FALSE,
            born |-> Cardinality(Accounts)]

\* create_user; and a faulty variant that inserts nothing.
InsertLost(u) == u \in Users /\ UNCHANGED users
InsertUser(u) == users' = [users EXCEPT ![u] = NewUser]

\* credential_by_username, then create_user; 409 if the name is taken.
CreateRow(h) ==
    /\ call[h].at = "name"
    /\ IF TakenBy(call[h].name) # {}
       THEN Finish(h) /\ UNCHANGED users
       ELSE \E u \in Users \ Accounts :
                /\ InsertUser(u)
                /\ Become(h, [call[h] EXCEPT !.at = "cred", !.user = u])
    /\ UNCHANGED <<cred, tokens, torn>>

AfterCredentialUnflagged(c) ==
    CASE c.op = "register" -> IF c.first THEN "role" ELSE "idle"
      [] c.op = "create" -> "role"
      [] OTHER -> "tokens"

AfterCredential(c) ==
    CASE c.op = "register" -> IF c.first THEN "role" ELSE "idle"
      [] c.op = "create" -> "role"
      [] OTHER -> "must"

\* A change of the same user's password that has still to clear must_change_pw.
Overtaken(h) ==
    \E g \in Handlers \ {h} :
        call[g].user = call[h].user /\ call[g].op = "change" /\ call[g].at = "must"

\* set_credential.  The name of another user violates UNIQUE: the route fails.
WriteCredential(h) ==
    LET c == call[h]
    IN  /\ c.at = "cred"
        /\ IF Violates(c)
           THEN Finish(h) /\ UNCHANGED <<cred, torn>>
           ELSE /\ cred' = [cred EXCEPT ![c.user] =
                               [name |-> c.name, temp |-> c.op \in {"create", "reset"},
                                pw |-> IF cred[c.user] = None THEN 1
                                       ELSE cred[c.user].pw + 1]]
                /\ torn' = IF c.op = "reset" /\ Overtaken(h) THEN torn \cup {c.user} ELSE torn
                /\ IF AfterCredential(c) = "idle" THEN Finish(h)
                   ELSE GoTo(h, AfterCredential(c))
        /\ UNCHANGED <<users, tokens>>

\* admin_count() is asked only to take the role or the account from an
\* administrator; 400 for the last one.
CountAdmins(h) ==
    LET c == call[h]
        write == IF c.op = "role" THEN "role" ELSE "disabled"
    IN  /\ c.at = "count"
        /\ IF ~c.admin \/ (c.op = "role" /\ c.role = "admin") THEN GoTo(h, write)
           ELSE IF LastOne THEN Finish(h)
           ELSE Become(h, [c EXCEPT !.at = write, !.seen = AdminCount])
        /\ UNCHANGED <<users, cred, tokens, torn>>

\* set_role; the account that claimed the box is its administrator.
WriteRole(h) ==
    LET c == call[h]
    IN  /\ c.at = "role"
        /\ users' = [users EXCEPT ![c.user].role =
                        IF c.op = "register" THEN "admin" ELSE c.role]
        /\ IF c.op = "create" THEN GoTo(h, "must") ELSE Finish(h)
        /\ UNCHANGED <<cred, tokens, torn>>

\* set_must_change_pw
WriteMust(h) ==
    LET c == call[h]
    IN  /\ c.at = "must"
        /\ users' = [users EXCEPT ![c.user].mustChange = c.op # "change"]
        /\ IF c.op = "create" THEN Finish(h) ELSE GoTo(h, "tokens")
        /\ UNCHANGED <<cred, tokens, torn>>

\* set_disabled
WriteDisabled(h) ==
    LET c == call[h]
    IN  /\ c.at = "disabled"
        /\ users' = [users EXCEPT ![c.user].disabled = c.op = "disable"]
        /\ IF c.op = "disable" THEN GoTo(h, "tokens") ELSE Finish(h)
        /\ UNCHANGED <<cred, tokens, torn>>

\* delete_user_tokens
DeleteTokens(h) ==
    /\ call[h].at = "tokens"
    /\ tokens' = [t \in Tokens |-> IF t \in TokensOf(call[h].user) THEN None ELSE tokens[t]]
    /\ Finish(h)
    /\ UNCHANGED <<users, cred, torn>>

\* login's get_user, after the digests were compared; 403 if disabled.
CheckDisabled(h) ==
    /\ call[h].at = "check"
    /\ IF users[call[h].user].disabled THEN Finish(h) ELSE GoTo(h, "store")
    /\ UNCHANGED <<users, cred, tokens, torn>>

\* store_token
StoreToken(h) ==
    LET c == call[h]
    IN  /\ c.at = "store"
        /\ \E t \in {s \in Tokens : tokens[s] = None} :
               tokens' = [tokens EXCEPT ![t] =
                   [user |-> c.user, pw |-> c.pw, expired |-> FALSE,
                    late |-> c.pw # cred[c.user].pw \/ users[c.user].disabled]]
        /\ Finish(h)
        /\ UNCHANGED <<users, cred, torn>>

----------------------------------------------------------------------------
(* Requests of one registry call, the clock, and restarts *)

\* POST /users, and the first contact of a chat: an account with no login.
CreateUser ==
    /\ \E u \in Users \ Accounts : InsertUser(u)
    /\ UNCHANGED <<cred, tokens, call, requests, restarts, torn>>

\* logout; and user_for_token or the reaper's purge, of an expired token.
DropToken(t) ==
    /\ tokens[t] # None
    /\ tokens' = [tokens EXCEPT ![t] = None]
    /\ UNCHANGED <<users, cred, call, requests, restarts, torn>>

Expire(t) ==
    /\ tokens[t] # None
    /\ tokens' = [tokens EXCEPT ![t].expired = TRUE]
    /\ UNCHANGED <<users, cred, call, requests, restarts, torn>>

\* The process ends with whatever its threads were doing, and _lifespan gives
\* a box with logins and no administrator one, before it serves a request.
Restart ==
    /\ restarts < MaxRestarts
    /\ restarts' = restarts + 1
    /\ call' = [h \in Handlers |-> Idle]
    /\ torn' = torn \cup {call[h].user : h \in {g \in Handlers :
                                call[g].at \in {"role", "must", "tokens"}}}
    /\ IF Credentialed # {} /\ AdminCount = 0
       THEN \E u \in Oldest : users' = [users EXCEPT ![u].role = "admin"]
       ELSE UNCHANGED users
    /\ UNCHANGED <<cred, tokens, requests>>

----------------------------------------------------------------------------

Init ==
    /\ users = [u \in Users |-> None]
    /\ cred = [u \in Users |-> None]
    /\ tokens = [t \in Tokens |-> None]
    /\ call = [h \in Handlers |-> Idle]
    /\ requests = 0 /\ restarts = 0
    /\ torn = {}

Request(h) ==
    \/ Register(h) \/ AdminCreate(h) \/ Login(h) \/ ChangePassword(h)
    \/ ResetPassword(h) \/ ChangeRole(h) \/ Disable(h) \/ Enable(h)

Statement(h) ==
    \/ CreateRow(h) \/ WriteCredential(h) \/ CountAdmins(h) \/ WriteRole(h)
    \/ WriteMust(h) \/ WriteDisabled(h) \/ DeleteTokens(h)
    \/ CheckDisabled(h) \/ StoreToken(h)

Next ==
    \/ \E h \in Handlers : Request(h) \/ Statement(h)
    \/ \E t \in Tokens : DropToken(t) \/ Expire(t)
    \/ CreateUser \/ Restart

Spec == Init /\ [][Next]_vars

----------------------------------------------------------------------------
(* Properties *)

\* The types, and the foreign keys: logins, tokens and the users that calls
\* are about have a row in users.
TypeOK ==
    /\ users \in [Users -> User \cup {None}]
    /\ cred \in [Users -> Credential \cup {None}]
    /\ tokens \in [Tokens -> Token \cup {None}]
    /\ call \in [Handlers -> Call]
    /\ requests \in Nat /\ restarts \in Nat
    /\ torn \subseteq Users
    /\ Credentialed \subseteq Accounts
    /\ \A t \in Tokens : tokens[t] # None => tokens[t].user \in Credentialed
    /\ \A h \in Handlers :
        /\ call[h].at \notin {"idle", "name"} => call[h].user \in Accounts
        /\ call[h].at \in {"name", "cred"} => call[h].name \in Names

\* Two requests for one login name both find it free; one of them gets it.
UsernamesUnique ==
    \A u, v \in Credentialed : cred[u].name = cred[v].name => u = v

\* Changing or resetting a password and disabling an account log the user out
\* everywhere: a token of a former password or of a disabled account is about
\* to be deleted, or was stored behind the deletion by a login that had been
\* checked before, or was left by a server that died in between.
TokensAreCurrent ==
    \A t \in Tokens :
        tokens[t] # None =>
            LET u == tokens[t].user
            IN  \/ tokens[t].pw = cred[u].pw /\ ~users[u].disabled
                \/ tokens[t].late
                \/ u \in torn
                \/ \E h \in Handlers :
                       /\ call[h].user = u /\ call[h].at \in {"must", "tokens"}
                       /\ call[h].op \in {"change", "reset", "disable"}

\* A password an administrator made up has to be changed: the flag is set or
\* about to be, except where a restart or the user's own change cut in: of such
\* a user (torn) nothing is claimed any more.
TempMustBeChanged ==
    \A u \in Credentialed :
        cred[u].temp =>
            \/ users[u].mustChange
            \/ u \in torn
            \/ \E h \in Handlers :
                   /\ call[h].user = u /\ call[h].at \in {"role", "must"}
                   /\ call[h].op \in {"create", "reset"}

\* The last administrator is removed only by a request whose view was out of
\* date: it had counted more administrators than there are now, had read that
\* its target was not one, or creates its target and takes that for granted.
LastAdminLostByOverlap ==
    [][(Admins # {} /\ Admins' = {}) =>
        \E h \in Handlers :
            /\ call[h].at \in {"role", "disabled"} /\ call'[h] # call[h]
            /\ call[h].seen > AdminCount \/ ~call[h].admin]_vars

\* However the first registration was cut short, the next start leaves a box
\* with logins an administrator; one who may be disabled only if the oldest
\* account is.
StartAppoints ==
    [][(restarts' # restarts /\ Credentialed # {} /\ Admins = {}) =>
        \E u \in Credentialed :
            /\ users'[u].role = "admin"
            /\ ~users'[u].disabled \/ \A v \in Credentialed : users[u].born <= users[v].born]_vars
=============================================================================
