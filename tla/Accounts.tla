------------------------------- MODULE Accounts -------------------------------
(***************************************************************************)
(* The accounts of config-hub, and the start-up that creates the first of  *)
(* them.  A start-up seeds an empty database in one transaction, inserts   *)
(* the sample data in another, and exits when either fails; only then are  *)
(* requests served.  The handlers take no lock: an account is read, its    *)
(* password or the new name checked, and the whole row written back.       *)
(*                                                                         *)
(* Sources: server/handler/auth.go, server/middleware/jwt.go,              *)
(* service/auth_jwt.go, seed/seed.go, seed/testdata.go, main.go.           *)
(***************************************************************************)
EXTENDS Naturals

CONSTANTS
    Users,            \* user ids (no operation deletes a user)
    Admin,            \* id 1, which the first row inserted gets
    Names, AdminName, \* user names; "admin"
    Passwords, AdminPassword, \* passwords; "admin123"
    Clients,          \* request slots: how many HTTP requests run at a time
    None,
    AloneOn,          \* users whose account requests run one at a time
    Registration,     \* ENABLE_REGISTRATION is not "false"
    FixedSecret,      \* JWT_SECRET is set
    DbErrors          \* may a statement fail (database is locked, disk full)?

Row == [name : Names, password : Passwords]

Kinds == {"password", "account"}
PCs == {"idle", "check", "save"}
Request == [kind : Kinds \cup {None}, pc : PCs, user : Users \cup {None},
            copy : Row \cup {None}, asked : Names \cup Passwords \cup {None}]
Idle == [kind |-> None, pc |-> "idle", user |-> None, copy |-> None, asked |-> None]

ASSUME AccountsAssumption ==
    /\ Admin \in Users /\ AdminName \in Names /\ AdminPassword \in Passwords
    /\ None \notin Users \cup Names \cup Passwords \cup Row \cup Kinds
    /\ AloneOn \subseteq Users
    /\ {Registration, FixedSecret, DbErrors} \subseteq BOOLEAN

VARIABLES
    user,     \* the users table
    sample,   \* the sample subscription: never inserted, there, or gone
    seeds,    \* how often the default user, profile, groups and rules went in
    up,       \* how far the process has come
    session,  \* users somebody holds a valid JWT of
    proc,     \* the requests in flight
    wanted    \* what the answered changes of each account add up to

vars == <<user, sample, seeds, up, session, proc, wanted>>

-----------------------------------------------------------------------------
(* main.go, seed.go and testdata.go: the start-up                          *)

\* db.Init opens or creates the database; when it cannot, the process exits.
Boot ==
    /\ up = "down"
    /\ up' = "seed"
    /\ UNCHANGED <<user, sample, seeds, session, proc, wanted>>

\* AUTOINCREMENT numbers the rows from 1.
FreshIds == IF \A u \in Users : user[u] = None
              THEN {Admin}
              ELSE {u \in Users : user[u] = None}

\* Mutant: Run looks for the user it would create.
NobodyNamedAdmin == \A u \in Users : user[u] # None => user[u].name # AdminName

\* Run counts the users, whatever their names.
NobodyYet == \A u \in Users : user[u] = None

SeedRun(u) ==
    LET admin == [name |-> AdminName, password |-> AdminPassword] IN
    /\ up = "seed" /\ NobodyYet
    /\ u \in FreshIds
    /\ user' = [user EXCEPT ![u] = admin]
    /\ wanted' = [wanted EXCEPT ![u] = admin]
    /\ seeds' = seeds + 1
    /\ up' = "sample"
    /\ UNCHANGED <<sample, session, proc>>

\* Mutant: the default credentials are restored at every start.
SeedRestores ==
    /\ up = "seed" /\ ~NobodyYet
    /\ up' = "sample"
    /\ user' = [user EXCEPT ![Admin].password = AdminPassword]
    /\ UNCHANGED <<sample, seeds, session, proc, wanted>>

SeedSkips ==
    /\ up = "seed" /\ ~NobodyYet
    /\ up' = "sample"
    /\ UNCHANGED <<user, sample, seeds, session, proc, wanted>>

\* The transaction is rolled back, or its commit fails, and main exits.
SeedFails ==
    /\ up = "seed" /\ DbErrors
    /\ up' = "down"
    /\ UNCHANGED <<user, sample, seeds, session, proc, wanted>>

\* A subscription of that name is left alone; if there is none, or the look-up
\* fails, another one is inserted for user 1.  Then the icons are filled in, the
\* scheduler is started and requests served.  The link to the Default profile,
\* left out when that one is not found, belongs to tables this module has not.
InsertSampleData ==
    /\ up = "sample"
    /\ \/ sample = "there"
       \/ (sample # "there" \/ DbErrors) /\ user[Admin] # None
    /\ sample' = "there"
    /\ up' = "serve"
    /\ UNCHANGED <<user, seeds, session, proc, wanted>>

\* Also when there is no user 1, by the foreign key.
InsertSampleFails ==
    /\ up = "sample"
    /\ DbErrors \/ (sample # "there" /\ user[Admin] = None)
    /\ up' = "down"
    /\ UNCHANGED <<user, sample, seeds, session, proc, wanted>>

\* A client deletes or renames a sample subscription, the last one or not.
SampleGoes ==
    /\ up = "serve" /\ sample = "there"
    /\ sample' \in {"there", "gone"}
    /\ UNCHANGED <<user, seeds, up, session, proc, wanted>>

\* Exit or kill, at any point.  A random secret dies with the process, and with
\* it every session.
Crash ==
    /\ up # "down"
    /\ up' = "down"
    /\ proc' = [c \in Clients |-> Idle]
    /\ session' = IF FixedSecret THEN session ELSE {}
    /\ UNCHANGED <<user, sample, seeds, wanted>>

-----------------------------------------------------------------------------
(* auth.go: sessions                                                       *)

\* First by name, then the password is compared.
Login(name, password) ==
    /\ up = "serve"
    /\ \E u \in Users :
          /\ user[u] = [name |-> name, password |-> password]
          /\ session' = session \cup {u}
    /\ UNCHANGED <<user, sample, seeds, up, proc, wanted>>

\* A JWT is good for a day, and nothing revokes it before.
Expire(u) ==
    /\ u \in session
    /\ session' = session \ {u}
    /\ UNCHANGED <<user, sample, seeds, up, proc, wanted>>

\* The unique index on the name.
NameFree(name, u) == \A v \in Users \ {u} : user[v] # None => user[v].name # name

\* Create fails, with 409, when the name is taken.
Register(name, password) ==
    /\ up = "serve" /\ Registration
    /\ \E u \in FreshIds :
          /\ NameFree(name, u)
          /\ user' = [user EXCEPT ![u] = [name |-> name, password |-> password]]
          /\ wanted' = [wanted EXCEPT ![u] = [name |-> name, password |-> password]]
    /\ UNCHANGED <<sample, seeds, up, session, proc>>

-----------------------------------------------------------------------------
(* auth.go: changes of an account                                          *)

\* JWTAuth lets the request in, and the handler reads the user's row.  Which
\* requests the environment lets run side by side on one account is AloneOn.
Start(c, kind, pc, u, asked) ==
    /\ up = "serve" /\ u \in session
    /\ user[u] # None
    /\ proc[c].pc = "idle"
    /\ u \in AloneOn => \A d \in Clients : proc[d].user # u
    /\ proc' = [proc EXCEPT ![c] = [kind |-> kind, pc |-> pc, user |-> u,
                                    copy |-> user[u], asked |-> asked]]
    /\ UNCHANGED <<user, sample, seeds, up, session, wanted>>

Finish(c) == proc' = [proc EXCEPT ![c] = Idle]
At(c, kind, pc) == proc[c].kind = kind /\ proc[c].pc = pc

\* Save writes every column of the row that was read.
Save(c, row) ==
    /\ NameFree(row.name, proc[c].user)
    /\ user' = [user EXCEPT ![proc[c].user] = row]
    /\ Finish(c)
    /\ UNCHANGED <<sample, seeds, up, session>>

\* The request ends and leaves the account as it is.
Refuse(c) ==
    /\ Finish(c)
    /\ UNCHANGED <<user, sample, seeds, up, session, wanted>>

SaveFails(c, row) ==
    /\ DbErrors \/ ~NameFree(row.name, proc[c].user)
    /\ Refuse(c)

\* The current password is compared with the row read, and with no later one.
ChangePasswordRead(c, u, current, new) ==
    /\ Start(c, "password", "save", u, new)
    /\ user[u].password = current

NewPassword(c) == [proc[c].copy EXCEPT !.password = proc[c].asked]

ChangePasswordSave(c) ==
    LET u == proc[c].user IN
    /\ At(c, "password", "save")
    /\ Save(c, NewPassword(c))
    /\ wanted' = [wanted EXCEPT ![u].password = proc[c].asked]

\* Mutant: the row is written although the answer is 500.
ChangePasswordFailsLate(c) ==
    /\ At(c, "password", "save")
    /\ DbErrors
    /\ Save(c, NewPassword(c))
    /\ UNCHANGED wanted

ChangePasswordFails(c) ==
    /\ At(c, "password", "save")
    /\ SaveFails(c, NewPassword(c))

UpdateAccountRead(c, u, name) == Start(c, "account", "check", u, name)

\* Another user's name is refused with 409; a failed look-up is taken for a
\* free name.
UpdateAccountCheck(c) ==
    /\ At(c, "account", "check")
    /\ \/ /\ NameFree(proc[c].asked, proc[c].user) \/ DbErrors
          /\ proc' = [proc EXCEPT ![c].pc = "save"]
          /\ UNCHANGED <<user, sample, seeds, up, session, wanted>>
       \/ /\ ~NameFree(proc[c].asked, proc[c].user)
          /\ Refuse(c)

NewName(c) == [proc[c].copy EXCEPT !.name = proc[c].asked]

\* Mutant: what is saved is a row made from the payload.
UpdateAccountSaveNew(c) ==
    LET u == proc[c].user IN
    /\ At(c, "account", "save")
    /\ Save(c, [name |-> proc[c].asked, password |-> None])
    /\ wanted' = [wanted EXCEPT ![u].name = proc[c].asked]

UpdateAccountSave(c) ==
    LET u == proc[c].user IN
    /\ At(c, "account", "save")
    /\ Save(c, NewName(c))
    /\ wanted' = [wanted EXCEPT ![u].name = proc[c].asked]

UpdateAccountFails(c) ==
    /\ At(c, "account", "save")
    /\ SaveFails(c, NewName(c))

-----------------------------------------------------------------------------

Init ==
    /\ user = [u \in Users |-> None]
    /\ sample = "never"
    /\ seeds = 0
    /\ up = "down"
    /\ session = {}
    /\ proc = [c \in Clients |-> Idle]
    /\ wanted = [u \in Users |-> None]

StartUp ==
    \/ Boot
    \/ \E u \in Users : SeedRun(u)
    \/ SeedSkips
    \/ SeedFails
    \/ InsertSampleData
    \/ InsertSampleFails

Arrive(c, u) ==
    \/ \E current, new \in Passwords : ChangePasswordRead(c, u, current, new)
    \/ \E name \in Names : UpdateAccountRead(c, u, name)

Continue(c) ==
    \/ ChangePasswordSave(c)
    \/ ChangePasswordFails(c)
    \/ UpdateAccountCheck(c)
    \/ UpdateAccountSave(c)
    \/ UpdateAccountFails(c)

Next ==
    \/ StartUp
    \/ SampleGoes
    \/ Crash
    \/ \E name \in Names, password \in Passwords : Login(name, password)
    \/ \E u \in Users : Expire(u)
    \/ \E name \in Names, password \in Passwords : Register(name, password)
    \/ \E c \in Clients, u \in Users : Arrive(c, u)
    \/ \E c \in Clients : Continue(c)

Spec == Init /\ [][Next]_vars

-----------------------------------------------------------------------------
(* Properties.                                                             *)

TypeOK ==
    /\ user \in [Users -> Row \cup {None}]
    /\ sample \in {"never", "there", "gone"}
    /\ seeds \in Nat
    /\ up \in {"down", "seed", "sample", "serve"}
    /\ session \subseteq Users
    /\ proc \in [Clients -> Request]
    /\ wanted \in [Users -> Row \cup {None}]

\* When the changes of an account run one at a time, its name and password are
\* what the answered requests add up to, across refused names, failed saves and
\* processes that die in mid-request.
AccountsAddUp == \A u \in AloneOn : user[u] = wanted[u]

\* Requests are served on a database that was seeded once and holds user 1,
\* whatever start-ups failed or died before, and whatever the users are named
\* by now ("idempotent", seed.go:13-14).
ServesSeeded ==
    /\ up \in {"sample", "serve"} => seeds = 1
    /\ up = "serve" => sample # "never" /\ user[Admin] # None

\* A password that does not open the account, and that no request on the
\* account has read or is about to write.
Retired(u, w) ==
    /\ user[u] # None /\ user[u].password # w
    /\ \A c \in Clients : proc[c].user = u =>
          proc[c].copy.password # w /\ (proc[c].kind = "password" => proc[c].asked # w)

Asks(u, w) == \E c \in Clients, current \in Passwords : ChangePasswordRead(c, u, current, w)

\* Whatever overlaps, fails or restarts, a retired password stays so until a
\* holder of the current one asks for it: a stale write ends with its request,
\* and no start-up restores the default credentials.
PasswordsRetire ==
    [][\A u \in Users, w \in Passwords : Retired(u, w) /\ ~Asks(u, w) => Retired(u, w)']_vars
=============================================================================
