------------------------------- MODULE Accounts -------------------------------
(***************************************************************************)
(* The people who log in to the workbench: the users and sessions tables   *)
(* and the requests that read and write them.  A request is a sequence of  *)
(* statements with an await at each, so requests of several browsers mix   *)
(* between any two of them.  A row object read by one statement is used by *)
(* the later ones of the same request.                                     *)
(*                                                                         *)
(* Passwords are model values, hashed and compared as themselves.  The     *)
(* fields password and late of a session, how it was opened, are history:  *)
(* no action reads them.                                                   *)
(***************************************************************************)
EXTENDS Naturals, FiniteSets

CONSTANTS
    Browsers,       \* the clients, each with one cookie jar
    Names,          \* usernames, "root" among them
    Root,           \* the username of the seeded administrator
    Passwords,      \* what a user may choose, the policy already applied
    Temporary,      \* a password the server made up: root/root or a token
    NoUser,         \* the row of a name that has no user
    NoCookie,       \* the cookie jar before a login
    Operations,     \* the requests that the browsers make with a session
    Ttl,            \* SESSION_TTL_HOURS, in ticks of the clock
    MaxSessions,    \* bound: the sessions ever opened
    MaxTicks        \* bound: how far the clock goes

Roles == {"admin", "member", "viewer"}

\* What the next request does once its session is resolved.
Operation ==
    [op : {"change"}, current : Passwords \cup {Temporary}, new : Passwords]
        \cup [op : {"create"}, name : Names, password : Passwords \cup {Temporary},
              role : Roles]
        \cup [op : {"disable"}, name : Names]
        \cup [op : {"me", "mcp"}]

User == [password : Passwords \cup {Temporary}, role : Roles,
         must_change_password : BOOLEAN, status : {"active", "disabled"}]

ASSUME AccountsAssumption ==
    /\ Root \in Names
    /\ Temporary \notin Passwords
    /\ NoUser \notin User /\ NoCookie \notin Nat
    /\ Operations \subseteq Operation
    /\ Ttl \in Nat /\ MaxSessions \in Nat /\ MaxTicks \in Nat

VARIABLES
    users,      \* the users table: a row or NoUser, by name
    sessions,   \* the sessions table, numbered as they were opened
    browsers,   \* [cookie, call] of each browser
    hours       \* the clock that sessions expire by

accountsVars == <<users, sessions, browsers, hours>>

\* role -> permissions, as tokens have them
RolePermissions ==
    [admin |-> {"read", "write", "admin"}, member |-> {"read", "write"}, viewer |-> {"read"}]

Active(row) == row # NoUser /\ row.status = "active"

Reply(b, cookie) == browsers' = [browsers EXCEPT ![b] = [cookie |-> cookie, call |-> [pc |-> "idle"]]]
Answer(b) == Reply(b, browsers[b].cookie)
Goto(b, call) == browsers' = [browsers EXCEPT ![b].call = call]
At(b, pc) == browsers[b].call.pc = pc

-----------------------------------------------------------------------------
\* Boot: root/root, whose rotation is forced, when there is no user at all.
\* Mutant of EnsureDefaultAdmin: seeded again when root has been disabled.
EnsureActiveAdmin ==
    /\ ~Active(users[Root])
    /\ users' = [users EXCEPT ![Root] = [password |-> Temporary, role |-> "admin",
                                        must_change_password |-> TRUE, status |-> "active"]]
    /\ UNCHANGED <<sessions, browsers, hours>>

EnsureDefaultAdmin ==
    /\ \A n \in Names : users[n] = NoUser
    /\ users' = [users EXCEPT ![Root] = [password |-> Temporary, role |-> "admin",
                                        must_change_password |-> TRUE, status |-> "active"]]
    /\ UNCHANGED <<sessions, browsers, hours>>

\* Login, first half: look the user up and verify the password.
Authenticate(b, name, password) ==
    /\ At(b, "idle")
    /\ Active(users[name])
    /\ users[name].password = password
    /\ Goto(b, [pc |-> "login", name |-> name, user |-> users[name]])
    /\ UNCHANGED <<users, sessions, hours>>

\* Login, second half: a session with the role the user row had.
CreateSession(b) ==
    LET c == browsers[b].call
        id == Cardinality(DOMAIN sessions) + 1
    IN  /\ At(b, "login")
        /\ id <= MaxSessions
        /\ sessions' = [i \in DOMAIN sessions \cup {id} |->
             IF i = id
             THEN [name |-> c.name, role |-> c.user.role, expires |-> hours + Ttl,
                   revoked |-> FALSE, password |-> c.user.password,
                   late |-> c.user.password # users[c.name].password]
             ELSE sessions[i]]
        /\ Reply(b, id)
        /\ UNCHANGED <<users, hours>>

\* The cookie is cleared whether or not the row was there to revoke.
Logout(b) ==
    LET id == browsers[b].cookie IN
    /\ At(b, "idle")
    /\ id # NoCookie
    /\ sessions' = [sessions EXCEPT ![id].revoked = TRUE]
    /\ Reply(b, NoCookie)
    /\ UNCHANGED <<users, hours>>

-----------------------------------------------------------------------------
\* Resolve the cookie to a live session ...
Live(s) == ~s.revoked /\ s.expires >= hours

Begin(b, operation) ==
    LET id == browsers[b].cookie IN
    /\ At(b, "idle")
    /\ id # NoCookie
    /\ Live(sessions[id])
    /\ Goto(b, [pc |-> "session", session |-> id, operation |-> operation])
    /\ UNCHANGED <<users, sessions, hours>>

\* ... and to the user behind it, who must still be active.
ResolveUser(c) == Active(users[sessions[c.session].name])

\* Only change-password and /me answer before a forced rotation.
\* Mutant of Rotated: nobody asks.
RotatedOrNot(c) == users[sessions[c.session].name] # NoUser
Rotated(c) ==
    \/ c.operation.op \in {"change", "me"}
    \/ ~users[sessions[c.session].name].must_change_password

RequireAdmin(c) ==
    c.operation.op \in {"create", "disable"} => sessions[c.session].role = "admin"

Admit(b) ==
    LET c == browsers[b].call IN
    /\ At(b, "session")
    /\ IF ResolveUser(c) /\ Rotated(c) /\ RequireAdmin(c)
       THEN Goto(b, [pc |-> c.operation.op, session |-> c.session,
                     operation |-> c.operation, hash |-> users[sessions[c.session].name].password])
       ELSE Answer(b)
    /\ UNCHANGED <<users, sessions, hours>>

\* /auth/me, and every call that AuthService.validate_session lets through.
Read(b) ==
    /\ browsers[b].call.pc \in {"me", "mcp"}
    /\ Answer(b)
    /\ UNCHANGED <<users, sessions, hours>>

\* Rotation: the current password is the one of the row read at the start.
\* A stale row is still written: its other columns are left alone.
ChangePassword(b) ==
    LET c == browsers[b].call
        name == sessions[c.session].name
    IN  /\ At(b, "change")
        /\ IF c.operation.current = c.hash
           THEN /\ users' = [users EXCEPT ![name].password = c.operation.new,
                                          ![name].must_change_password = FALSE]
                /\ sessions' = [sessions EXCEPT ![c.session].password = c.operation.new]
                /\ Goto(b, [pc |-> "revoke", session |-> c.session])
           ELSE Answer(b) /\ UNCHANGED <<users, sessions>>
        /\ UNCHANGED hours

\* Its second transaction: every other session of the user is revoked.
\* Mutant of Others: only the sessions opened before this one.
OlderOthers(id) == {i \in DOMAIN sessions : i < id /\ sessions[i].name = sessions[id].name}
Others(id) == {i \in DOMAIN sessions : i # id /\ sessions[i].name = sessions[id].name}

RevokeOtherSessions(b) ==
    LET id == browsers[b].call.session IN
    /\ At(b, "revoke")
    /\ sessions' = [i \in DOMAIN sessions |->
         [sessions[i] EXCEPT !.revoked = @ \/ i \in Others(id)]]
    /\ Answer(b)
    /\ UNCHANGED <<users, hours>>

\* POST /auth/users.  The name is looked up first and inserted later; the
\* unique column refuses the second of two inserts.
LookUpName(b) ==
    LET c == browsers[b].call IN
    /\ At(b, "create")
    /\ IF users[c.operation.name] = NoUser THEN Goto(b, [c EXCEPT !.pc = "insert"])
       ELSE Answer(b)
    /\ UNCHANGED <<users, sessions, hours>>

InsertUser(b) ==
    LET o == browsers[b].call.operation IN
    /\ At(b, "insert")
    /\ IF users[o.name] = NoUser
       THEN users' = [users EXCEPT ![o.name] =
              [password |-> o.password, role |-> o.role,
               must_change_password |-> o.password = Temporary, status |-> "active"]]
       ELSE UNCHANGED users
    /\ Answer(b)
    /\ UNCHANGED <<sessions, hours>>

\* DELETE /auth/users/{name}.
\* Mutant of MayDisable: one may disable oneself.
MayDisableAny(b, name) == Active(users[name])
MayDisable(b, name) ==
    /\ name # sessions[browsers[b].call.session].name
    /\ Active(users[name])

DisableUser(b) ==
    LET name == browsers[b].call.operation.name IN
    /\ At(b, "disable")
    /\ IF MayDisable(b, name) THEN users' = [users EXCEPT ![name].status = "disabled"]
       ELSE UNCHANGED users
    /\ Answer(b)
    /\ UNCHANGED <<sessions, hours>>

AccountsTick ==
    /\ hours < MaxTicks
    /\ hours' = hours + 1
    /\ UNCHANGED <<users, sessions, browsers>>

-----------------------------------------------------------------------------
AccountsInit ==
    /\ users = [n \in Names |-> NoUser]
    /\ sessions = << >>
    /\ browsers = [b \in Browsers |-> [cookie |-> NoCookie, call |-> [pc |-> "idle"]]]
    /\ hours = 0

AccountsNext ==
    \/ EnsureDefaultAdmin
    \/ AccountsTick
    \/ \E b \in Browsers :
         \/ \E n \in Names, p \in Passwords \cup {Temporary} : Authenticate(b, n, p)
         \/ \E o \in Operations : Begin(b, o)
         \/ CreateSession(b) \/ Logout(b) \/ Admit(b) \/ Read(b)
         \/ ChangePassword(b) \/ RevokeOtherSessions(b)
         \/ LookUpName(b) \/ InsertUser(b) \/ DisableUser(b)

AccountsSpec == AccountsInit /\ [][AccountsNext]_accountsVars

-----------------------------------------------------------------------------
Revoking(name) ==
    \E b \in Browsers : At(b, "revoke") /\ sessions[browsers[b].call.session].name = name

(* Once a password change has answered, the sessions that live on belong to *)
(* those who know the password now: every older session is revoked, however *)
(* logins and changes overlap.  The one exception is named: a login that    *)
(* verified the old password before the change and inserted its session     *)
(* after it.                                                                *)
OldPasswordsAreOut ==
    \A i \in DOMAIN sessions :
        LET s == sessions[i] IN
        \/ s.revoked
        \/ s.late
        \/ s.password = users[s.name].password
        \/ Revoking(s.name)

(* Until root has rotated its seeded password, its sessions in the          *)
(* workbench can only rotate it: nobody else can have got an account.       *)
RotatedFirst ==
    (\E n \in Names \ {Root} : users[n] # NoUser) => ~users[Root].must_change_password

(* A boot never brings the seeded credentials back: a user who has rotated, *)
(* or has been disabled, stays so whatever restarts and requests follow.    *)
NeverSeededAgain ==
    [][\A n \in Names :
         users[n] # NoUser =>
            /\ users'[n].must_change_password => users[n].must_change_password
            /\ Active(users'[n]) => Active(users[n])]_users

(* Nobody can lock everybody out alone: the last active administrator is    *)
(* only disabled by a request whose own user has been disabled while the    *)
(* request was under way (two administrators disabling each other).         *)
Administrators == {n \in Names : Active(users[n]) /\ users[n].role = "admin"}

LastAdministrator ==
    [][Administrators # {} /\ Administrators' = {} =>
         \E b \in Browsers :
            /\ At(b, "disable")
            /\ ~Active(users[sessions[browsers[b].call.session].name])]_users
=============================================================================
