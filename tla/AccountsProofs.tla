---------------------------- MODULE AccountsProofs ----------------------------
(***************************************************************************)
(* Theorems about Accounts, for every number of users, names, passwords    *)
(* and requests.                                                           *)
(***************************************************************************)
EXTENDS Accounts, TLAPS

-----------------------------------------------------------------------------
(* Types.                                                                  *)

\* What a request remembers depends on what it is for.
Sound(r) ==
    /\ r.pc = "idle" => r = Idle
    /\ r.pc # "idle" => r.user \in Users /\ r.copy \in Row
    /\ r.kind = "password" => r.pc = "save" /\ r.asked \in Passwords
    /\ r.kind = "account" => r.pc \in {"check", "save"} /\ r.asked \in Names

\* A user whose row a request has read is still in the table, and expected there.
RowsStay ==
    /\ \A u \in Users : user[u] # None <=> wanted[u] # None
    /\ \A c \in Clients : proc[c].pc # "idle" => user[proc[c].user] # None

TypeInv == TypeOK /\ (\A c \in Clients : Sound(proc[c])) /\ RowsStay

LEMMA RowFacts ==
    ASSUME NEW row \in Row
    PROVE  /\ row # None
           /\ row.name \in Names /\ row.password \in Passwords
           /\ \A name \in Names : [row EXCEPT !.name = name] \in Row
           /\ \A w \in Passwords : [row EXCEPT !.password = w] \in Row
           /\ \A name \in Names : [row EXCEPT !.name = name].password = row.password
           /\ \A w \in Passwords : [row EXCEPT !.password = w].password = w
  BY AccountsAssumption DEF Row

LEMMA IdleFacts == Idle \in Request /\ Sound(Idle) /\ Idle.pc = "idle" /\ Idle.user = None
  BY AccountsAssumption DEF Idle, Request, Sound, PCs, Kinds

\* Starting, ending and saving a request keep the types.
LEMMA StartKeepsTypes ==
    ASSUME TypeInv, NEW c \in Clients, NEW u \in Users, NEW asked,
           NEW kind \in Kinds, NEW pc \in PCs \ {"idle"}, Start(c, kind, pc, u, asked),
           kind = "password" => pc = "save" /\ asked \in Passwords,
           kind = "account" => asked \in Names
    PROVE  TypeInv'
<1>1. user[u] \in Row
  BY DEF TypeInv, TypeOK, Start
<1> DEFINE r == [kind |-> kind, pc |-> pc, user |-> u, copy |-> user[u], asked |-> asked]
<1>2. r \in Request /\ Sound(r) /\ r.user = u
  BY <1>1 DEF Request, Sound, PCs, Kinds
<1>3. proc' = [proc EXCEPT ![c] = r]
  BY DEF Start
<1> HIDE DEF r
<1>4. TypeOK'
  BY <1>2, <1>3 DEF TypeInv, TypeOK, Start
<1>5. \A d \in Clients : Sound(proc'[d])
  BY <1>2, <1>3 DEF TypeInv, TypeOK
<1>6. RowsStay'
  BY <1>2, <1>3 DEF TypeInv, TypeOK, RowsStay, Start
<1> QED
  BY <1>4, <1>5, <1>6 DEF TypeInv

LEMMA RefuseKeepsTypes ==
    ASSUME TypeInv, NEW c \in Clients, Refuse(c)
    PROVE  TypeInv'
<1>1. Idle \in Request /\ Sound(Idle) /\ Idle.pc = "idle"
  BY IdleFacts
<1>2. proc' = [proc EXCEPT ![c] = Idle]
  BY DEF Refuse, Finish
<1> QED
  BY <1>1, <1>2 DEF TypeInv, TypeOK, RowsStay, Refuse

LEMMA SaveKeepsTypes ==
    ASSUME TypeInv, NEW c \in Clients, proc[c].pc # "idle", NEW row \in Row, Save(c, row),
           NEW expected \in Row, wanted' = [wanted EXCEPT ![proc[c].user] = expected]
    PROVE  TypeInv'
<1>1. Idle \in Request /\ Sound(Idle) /\ Idle.pc = "idle"
  BY IdleFacts
<1>2. proc[c].user \in Users
  BY DEF TypeInv, Sound
<1>3. proc' = [proc EXCEPT ![c] = Idle] /\ user' = [user EXCEPT ![proc[c].user] = row]
  BY DEF Save, Finish
<1>4. row # None /\ expected # None
  BY RowFacts
<1>5. TypeOK'
  BY <1>1, <1>2, <1>3 DEF TypeInv, TypeOK, Save
<1>6. \A d \in Clients : Sound(proc'[d])
  BY <1>1, <1>3 DEF TypeInv, TypeOK
<1>7. RowsStay'
  BY <1>1, <1>2, <1>3, <1>4, <1>5 DEF TypeInv, TypeOK, RowsStay
<1> QED
  BY <1>5, <1>6, <1>7 DEF TypeInv

\* The rows and expectations that the two kinds of changes write.
LEMMA ChangedRows ==
    ASSUME TypeInv, NEW c \in Clients, proc[c].pc = "save"
    PROVE  /\ proc[c].user \in Users
           /\ wanted[proc[c].user] \in Row
           /\ proc[c].kind = "password" =>
                 /\ NewPassword(c) \in Row
                 /\ [wanted[proc[c].user] EXCEPT !.password = proc[c].asked] \in Row
                 /\ NewPassword(c).password = proc[c].asked
           /\ proc[c].kind = "account" =>
                 /\ NewName(c) \in Row
                 /\ [wanted[proc[c].user] EXCEPT !.name = proc[c].asked] \in Row
                 /\ NewName(c).password = proc[c].copy.password
<1>1. proc[c].user \in Users /\ proc[c].copy \in Row
  BY DEF TypeInv, Sound
<1>2. wanted[proc[c].user] \in Row
  BY <1>1 DEF TypeInv, TypeOK, RowsStay
<1>3. proc[c].kind = "password" => proc[c].asked \in Passwords
  BY DEF TypeInv, Sound
<1>4. proc[c].kind = "account" => proc[c].asked \in Names
  BY DEF TypeInv, Sound
<1> QED
  BY <1>1, <1>2, <1>3, <1>4, RowFacts DEF NewPassword, NewName

\* Every reachable state is well typed, and no user ever goes.
THEOREM TypesHold == Spec => []TypeInv
<1>1. Init => TypeInv
  BY AccountsAssumption DEF Init, TypeInv, TypeOK, RowsStay, Sound, Idle, Request, PCs, Kinds
<1>2. TypeInv /\ [Next]_vars => TypeInv'
  <2> SUFFICES ASSUME TypeInv, [Next]_vars PROVE TypeInv'
    OBVIOUS
  <2> USE AccountsAssumption
  <2>1. CASE StartUp
    <3>1. ASSUME NEW u \in Users, SeedRun(u) PROVE TypeInv'
      <4>1. [name |-> AdminName, password |-> AdminPassword] \in Row
        BY DEF Row
      <4> QED
        BY <3>1, <4>1, RowFacts DEF SeedRun, TypeInv, TypeOK, RowsStay, NobodyYet
    <3>2. CASE Boot \/ SeedSkips \/ SeedFails \/ InsertSampleData \/ InsertSampleFails
      BY <3>2 DEF Boot, SeedSkips, SeedFails, InsertSampleData, InsertSampleFails,
                  TypeInv, TypeOK, RowsStay
    <3> QED
      BY <2>1, <3>1, <3>2 DEF StartUp
  <2>2. CASE SampleGoes
    BY <2>2 DEF SampleGoes, TypeInv, TypeOK, RowsStay
  <2>3. CASE Crash
    <3>1. Idle \in Request /\ Sound(Idle) /\ Idle.pc = "idle"
      BY IdleFacts
    <3> QED
      BY <2>3, <3>1 DEF Crash, TypeInv, TypeOK, RowsStay
  <2>4. ASSUME NEW name \in Names, NEW w \in Passwords, Login(name, w) PROVE TypeInv'
    BY <2>4 DEF Login, TypeInv, TypeOK, RowsStay
  <2>5. ASSUME NEW u \in Users, Expire(u) PROVE TypeInv'
    BY <2>5 DEF Expire, TypeInv, TypeOK, RowsStay
  <2>6. ASSUME NEW name \in Names, NEW w \in Passwords, Register(name, w) PROVE TypeInv'
    <3>1. [name |-> name, password |-> w] \in Row
      BY DEF Row
    <3>2. FreshIds \subseteq Users
      BY DEF FreshIds
    <3>3. PICK u \in FreshIds :
            /\ user' = [user EXCEPT ![u] = [name |-> name, password |-> w]]
            /\ wanted' = [wanted EXCEPT ![u] = [name |-> name, password |-> w]]
      BY <2>6 DEF Register
    <3> QED
      BY <2>6, <3>1, <3>2, <3>3, RowFacts DEF Register, TypeInv, TypeOK, RowsStay
  <2>7. ASSUME NEW c \in Clients, NEW u \in Users, Arrive(c, u) PROVE TypeInv'
    <3>1. ASSUME NEW current \in Passwords, NEW new \in Passwords,
                 ChangePasswordRead(c, u, current, new)
          PROVE  TypeInv'
      BY <3>1, StartKeepsTypes DEF ChangePasswordRead, Kinds, PCs
    <3>2. ASSUME NEW name \in Names, UpdateAccountRead(c, u, name) PROVE TypeInv'
      BY <3>2, StartKeepsTypes DEF UpdateAccountRead, Kinds, PCs
    <3> QED
      BY <2>7, <3>1, <3>2 DEF Arrive
  <2>8. ASSUME NEW c \in Clients, Continue(c) PROVE TypeInv'
    <3>1. CASE ChangePasswordSave(c)
      <4> DEFINE x == [wanted[proc[c].user] EXCEPT !.password = proc[c].asked]
      <4>1. NewPassword(c) \in Row /\ x \in Row
        BY <3>1, ChangedRows DEF ChangePasswordSave, At
      <4>2. wanted' = [wanted EXCEPT ![proc[c].user] = x]
        BY <3>1 DEF ChangePasswordSave
      <4> HIDE DEF x
      <4> QED
        BY <3>1, <4>1, <4>2, SaveKeepsTypes DEF ChangePasswordSave, At
    <3>2. CASE UpdateAccountSave(c)
      <4> DEFINE x == [wanted[proc[c].user] EXCEPT !.name = proc[c].asked]
      <4>1. NewName(c) \in Row /\ x \in Row
        BY <3>2, ChangedRows DEF UpdateAccountSave, At
      <4>2. wanted' = [wanted EXCEPT ![proc[c].user] = x]
        BY <3>2 DEF UpdateAccountSave
      <4> HIDE DEF x
      <4> QED
        BY <3>2, <4>1, <4>2, SaveKeepsTypes DEF UpdateAccountSave, At
    <3>3. CASE Refuse(c)
      BY <3>3, RefuseKeepsTypes
    <3>4. CASE /\ At(c, "account", "check")
               /\ proc' = [proc EXCEPT ![c].pc = "save"]
               /\ UNCHANGED <<user, sample, seeds, up, session, wanted>>
      <4>1. [proc[c] EXCEPT !.pc = "save"] \in Request /\ Sound([proc[c] EXCEPT !.pc = "save"])
        BY <3>4 DEF TypeInv, TypeOK, Request, Sound, At, PCs
      <4> QED
        BY <3>4, <4>1 DEF TypeInv, TypeOK, RowsStay, At
    <3> QED
      BY <2>8, <3>1, <3>2, <3>3, <3>4
         DEF Continue, ChangePasswordFails, UpdateAccountFails, SaveFails, UpdateAccountCheck
  <2>9. CASE UNCHANGED vars
    BY <2>9 DEF vars, TypeInv, TypeOK, RowsStay
  <2> QED
    BY <2>1, <2>2, <2>3, <2>4, <2>5, <2>6, <2>7, <2>8, <2>9 DEF Next
<1> QED
  BY <1>1, <1>2, PTL DEF Spec

THEOREM TypeCorrect == Spec => []TypeOK
<1>1. TypeInv => TypeOK
  BY DEF TypeInv
<1> QED
  BY <1>1, TypesHold, PTL

-----------------------------------------------------------------------------
(* The start-up.                                                           *)

\* The seed went in once or never, and user 1 was the first row it made.
SeedInv ==
    /\ seeds = 0 <=> NobodyYet
    /\ seeds \in {0, 1}
    /\ ~NobodyYet => user[Admin] # None
    /\ up \in {"sample", "serve"} => ~NobodyYet
    /\ up = "serve" => sample # "never"

\* Steps that keep the users table's ids, the seed count and how far up it is.
LEMMA SameUsersSameSeed ==
    ASSUME TypeInv, SeedInv, UNCHANGED <<seeds, sample, up>>,
           \A u \in Users : user[u] # None <=> user'[u] # None
    PROVE  SeedInv'
  BY AccountsAssumption DEF SeedInv, NobodyYet

\* A save writes a user that is there.
LEMMA SaveKeepsUsers ==
    ASSUME TypeInv, NEW c \in Clients, proc[c].pc # "idle", NEW row \in Row, Save(c, row)
    PROVE  /\ \A u \in Users : user[u] # None <=> user'[u] # None
           /\ UNCHANGED <<seeds, sample, up>>
<1>1. proc[c].user \in Users /\ user[proc[c].user] # None
  BY DEF TypeInv, Sound, RowsStay
<1>2. user' = [user EXCEPT ![proc[c].user] = row] /\ row # None
  BY RowFacts DEF Save
<1> QED
  BY <1>1, <1>2 DEF Save, TypeInv, TypeOK

\* Requests are served only on a database seeded once, with its user 1 and the
\* sample data, across start-ups that fail or die at any point.
THEOREM ServedDataIsSeeded == Spec => []ServesSeeded
<1>1. Init => SeedInv
  BY DEF Init, SeedInv, NobodyYet
<1>2. TypeInv /\ SeedInv /\ [Next]_vars => SeedInv'
  <2> SUFFICES ASSUME TypeInv, SeedInv, [Next]_vars PROVE SeedInv'
    OBVIOUS
  <2> USE AccountsAssumption
  <2>1. CASE StartUp
    <3>1. ASSUME NEW u \in Users, SeedRun(u) PROVE SeedInv'
      <4>1. u = Admin
        BY <3>1 DEF SeedRun, FreshIds, NobodyYet
      <4>2. user'[Admin] = [name |-> AdminName, password |-> AdminPassword]
        BY <3>1, <4>1 DEF SeedRun, TypeInv, TypeOK
      <4>3. user'[Admin] # None
        BY <4>2, RowFacts DEF Row
      <4> QED
        BY <3>1, <4>3 DEF SeedRun, SeedInv, NobodyYet
    <3>2. CASE Boot \/ SeedSkips \/ SeedFails \/ InsertSampleData \/ InsertSampleFails
      BY <3>2 DEF Boot, SeedSkips, SeedFails, InsertSampleData, InsertSampleFails,
                  SeedInv, NobodyYet
    <3> QED
      BY <2>1, <3>1, <3>2 DEF StartUp
  <2>2. CASE SampleGoes \/ Crash
    BY <2>2 DEF SampleGoes, Crash, SeedInv, NobodyYet
  <2>3. ASSUME NEW name \in Names, NEW w \in Passwords, Login(name, w) PROVE SeedInv'
    BY <2>3, SameUsersSameSeed DEF Login
  <2>4. ASSUME NEW u \in Users, Expire(u) PROVE SeedInv'
    BY <2>4, SameUsersSameSeed DEF Expire
  <2>5. ASSUME NEW name \in Names, NEW w \in Passwords, Register(name, w) PROVE SeedInv'
    <3>1. PICK u \in FreshIds : user' = [user EXCEPT ![u] = [name |-> name, password |-> w]]
      BY <2>5 DEF Register
    <3>2. ~NobodyYet /\ UNCHANGED <<seeds, sample, up>>
      BY <2>5 DEF Register, SeedInv
    <3>3. u \in Users /\ user[u] = None
      BY <3>1, <3>2 DEF FreshIds, NobodyYet
    <3>4. \A v \in Users : user[v] # None => user'[v] # None
      BY <3>1, <3>3 DEF TypeInv, TypeOK
    <3> QED
      BY <3>2, <3>4 DEF SeedInv, NobodyYet
  <2>6. ASSUME NEW c \in Clients, NEW u \in Users, Arrive(c, u) PROVE SeedInv'
    BY <2>6, SameUsersSameSeed DEF Arrive, ChangePasswordRead, UpdateAccountRead, Start
  <2>7. ASSUME NEW c \in Clients, Continue(c) PROVE SeedInv'
    <3>1. CASE ChangePasswordSave(c)
      <4>1. NewPassword(c) \in Row
        BY <3>1, ChangedRows DEF ChangePasswordSave, At
      <4> QED
        BY <3>1, <4>1, SaveKeepsUsers, SameUsersSameSeed DEF ChangePasswordSave, At
    <3>2. CASE UpdateAccountSave(c)
      <4>1. NewName(c) \in Row
        BY <3>2, ChangedRows DEF UpdateAccountSave, At
      <4> QED
        BY <3>2, <4>1, SaveKeepsUsers, SameUsersSameSeed DEF UpdateAccountSave, At
    <3>3. CASE UNCHANGED <<user, seeds, sample, up>>
      BY <3>3, SameUsersSameSeed
    <3> QED
      BY <2>7, <3>1, <3>2, <3>3 DEF Continue, ChangePasswordFails, UpdateAccountFails,
         SaveFails, Refuse, UpdateAccountCheck
  <2>8. CASE UNCHANGED vars
    BY <2>8, SameUsersSameSeed DEF vars
  <2> QED
    BY <2>1, <2>2, <2>3, <2>4, <2>5, <2>6, <2>7, <2>8 DEF Next
<1>3. SeedInv => ServesSeeded
  BY DEF SeedInv, ServesSeeded
<1> QED
  BY <1>1, <1>2, <1>3, TypesHold, PTL DEF Spec

-----------------------------------------------------------------------------
(* Changes that run one at a time.                                         *)

\* A request that has an account to itself holds its row as it is.
AloneInv ==
    \A u \in AloneOn :
        /\ user[u] = wanted[u]
        /\ \A c \in Clients : proc[c].user = u =>
              /\ proc[c].copy = user[u]
              /\ \A d \in Clients : proc[d].user = u => d = c

\* An answered save writes what it changes, and leaves no request on the account.
LEMMA SaveAddsUp ==
    ASSUME TypeInv, AloneInv, NEW c \in Clients, proc[c].pc # "idle",
           NEW row \in Row, Save(c, row),
           NEW expected \in Row, wanted' = [wanted EXCEPT ![proc[c].user] = expected],
           proc[c].user \in AloneOn => row = expected
    PROVE  AloneInv'
<1>1. proc[c].user \in Users /\ AloneOn \subseteq Users
  BY AccountsAssumption DEF TypeInv, Sound
<1>2. /\ user' = [user EXCEPT ![proc[c].user] = row]
      /\ proc' = [proc EXCEPT ![c] = Idle]
  BY DEF Save, Finish
<1>3. Idle.user = None /\ None \notin AloneOn
  BY IdleFacts, AccountsAssumption
<1>4. \A d \in Clients : proc'[d] = IF d = c THEN Idle ELSE proc[d]
  BY <1>2 DEF TypeInv, TypeOK
<1> SUFFICES ASSUME NEW u \in AloneOn
             PROVE  /\ user'[u] = wanted'[u]
                    /\ \A d \in Clients : proc'[d].user = u =>
                          /\ proc'[d].copy = user'[u]
                          /\ \A e \in Clients : proc'[e].user = u => e = d
  BY DEF AloneInv
<1>5. CASE u = proc[c].user
  <2>1. user'[u] = row /\ wanted'[u] = expected
    BY <1>1, <1>2, <1>5 DEF TypeInv, TypeOK
  <2>2. \A d \in Clients : proc'[d].user # u
    BY <1>3, <1>4, <1>5 DEF AloneInv
  <2> QED
    BY <2>1, <2>2, <1>5
<1>6. CASE u # proc[c].user
  <2>1. user'[u] = user[u] /\ wanted'[u] = wanted[u]
    BY <1>1, <1>2, <1>6 DEF TypeInv, TypeOK
  <2> QED
    BY <2>1, <1>3, <1>4 DEF AloneInv
<1> QED
  BY <1>5, <1>6

\* The name and password of an account that is changed by one request at a time
\* are what the answered requests add up to.
THEOREM AnsweredChangesAddUp == Spec => []AccountsAddUp
<1>1. Init => AloneInv
  BY IdleFacts, AccountsAssumption DEF Init, AloneInv
<1>2. TypeInv /\ AloneInv /\ [Next]_vars => AloneInv'
  <2> SUFFICES ASSUME TypeInv, AloneInv, [Next]_vars PROVE AloneInv'
    OBVIOUS
  <2>1. AloneOn \subseteq Users /\ None \notin AloneOn
    BY AccountsAssumption
  \* A row that is made anew is one that no request has read.
  <2>2. ASSUME NEW u \in Users, user[u] = None, NEW row,
               user' = [user EXCEPT ![u] = row], wanted' = [wanted EXCEPT ![u] = row],
               UNCHANGED proc
        PROVE  AloneInv'
    <3>1. \A c \in Clients : proc[c].user # u
      BY <2>2, AccountsAssumption, IdleFacts DEF TypeInv, RowsStay, Sound
    <3> QED
      BY <2>1, <2>2, <3>1 DEF AloneInv, TypeInv, TypeOK
  <2>3. CASE UNCHANGED <<user, wanted, proc>>
    BY <2>3 DEF AloneInv
  <2>4. ASSUME NEW u \in Users, SeedRun(u) PROVE AloneInv'
    BY <2>4, <2>2 DEF SeedRun, NobodyYet
  <2>5. ASSUME NEW name \in Names, NEW w \in Passwords, Register(name, w) PROVE AloneInv'
    <3>1. PICK u \in FreshIds :
            /\ user' = [user EXCEPT ![u] = [name |-> name, password |-> w]]
            /\ wanted' = [wanted EXCEPT ![u] = [name |-> name, password |-> w]]
      BY <2>5 DEF Register
    <3>2. u \in Users /\ user[u] = None
      BY AccountsAssumption DEF FreshIds
    <3> QED
      BY <2>2, <2>5, <3>1, <3>2 DEF Register
  <2>6. CASE Crash
    BY <2>6, <2>1, IdleFacts DEF Crash, AloneInv
  <2>7. ASSUME NEW c \in Clients, NEW u \in Users, NEW kind, NEW pc, NEW asked,
               Start(c, kind, pc, u, asked)
        PROVE  AloneInv'
    <3>1. \A d \in Clients : proc'[d] = IF d = c
              THEN [kind |-> kind, pc |-> pc, user |-> u, copy |-> user[u], asked |-> asked]
              ELSE proc[d]
      BY <2>7 DEF Start, TypeInv, TypeOK
    <3>2. u \in AloneOn => \A d \in Clients : proc[d].user # u
      BY <2>7 DEF Start
    <3> QED
      BY <2>7, <3>1, <3>2 DEF Start, AloneInv
  <2>8. ASSUME NEW c \in Clients, Continue(c) PROVE AloneInv'
    <3>1. CASE ChangePasswordSave(c)
      <4> DEFINE x == [wanted[proc[c].user] EXCEPT !.password = proc[c].asked]
      <4>1. NewPassword(c) \in Row /\ x \in Row
        BY <3>1, ChangedRows DEF ChangePasswordSave, At
      <4>2. wanted' = [wanted EXCEPT ![proc[c].user] = x]
        BY <3>1 DEF ChangePasswordSave
      <4>3. proc[c].user \in AloneOn => NewPassword(c) = x
        BY DEF AloneInv, NewPassword
      <4> HIDE DEF x
      <4> QED
        BY <3>1, <4>1, <4>2, <4>3, SaveAddsUp DEF ChangePasswordSave, At
    <3>2. CASE UpdateAccountSave(c)
      <4> DEFINE x == [wanted[proc[c].user] EXCEPT !.name = proc[c].asked]
      <4>1. NewName(c) \in Row /\ x \in Row
        BY <3>2, ChangedRows DEF UpdateAccountSave, At
      <4>2. wanted' = [wanted EXCEPT ![proc[c].user] = x]
        BY <3>2 DEF UpdateAccountSave
      <4>3. proc[c].user \in AloneOn => NewName(c) = x
        BY DEF AloneInv, NewName
      <4> HIDE DEF x
      <4> QED
        BY <3>2, <4>1, <4>2, <4>3, SaveAddsUp DEF UpdateAccountSave, At
    <3>3. CASE Refuse(c)
      <4>1. \A d \in Clients : proc'[d] = IF d = c THEN Idle ELSE proc[d]
        BY <3>3 DEF Refuse, Finish, TypeInv, TypeOK
      <4> QED
        BY <2>1, <3>3, <4>1, IdleFacts DEF Refuse, AloneInv
    <3>4. CASE /\ proc' = [proc EXCEPT ![c].pc = "save"]
               /\ UNCHANGED <<user, sample, seeds, up, session, wanted>>
      <4>1. \A d \in Clients : proc'[d].user = proc[d].user /\ proc'[d].copy = proc[d].copy
        BY <3>4 DEF TypeInv, TypeOK, Request
      <4> QED
        BY <3>4, <4>1 DEF AloneInv
    <3> QED
      BY <2>8, <3>1, <3>2, <3>3, <3>4
         DEF Continue, ChangePasswordFails, UpdateAccountFails, SaveFails, UpdateAccountCheck
  <2> QED
    BY <2>3, <2>4, <2>5, <2>6, <2>7, <2>8
       DEF Next, StartUp, Boot, SeedSkips, SeedFails, InsertSampleData, InsertSampleFails,
           SampleGoes, Login, Expire, Arrive, ChangePasswordRead, UpdateAccountRead, vars
<1>3. AloneInv => AccountsAddUp
  BY DEF AloneInv, AccountsAddUp
<1> QED
  BY <1>1, <1>2, <1>3, TypesHold, PTL DEF Spec

-----------------------------------------------------------------------------
(* Passwords.                                                              *)

\* No step but a request for it brings a retired password back: not a save of
\* what was read before, not a restart, not a registration.
THEOREM RetiredPasswordsStayOut == Spec => PasswordsRetire
<1>1. TypeInv /\ [Next]_vars =>
        \A u \in Users, w \in Passwords : Retired(u, w) /\ ~Asks(u, w) => Retired(u, w)'
  <2> SUFFICES ASSUME TypeInv, [Next]_vars, NEW u \in Users, NEW w \in Passwords,
                      Retired(u, w), ~Asks(u, w)
               PROVE  Retired(u, w)'
    OBVIOUS
  <2>1. Idle.user # u /\ Idle.kind # "password"
    BY AccountsAssumption, IdleFacts DEF Idle, Kinds
  <2>2. CASE /\ user'[u] = user[u]
             /\ \A c \in Clients : proc'[c].user = u =>
                   /\ proc[c].user = u
                   /\ proc'[c].copy = proc[c].copy /\ proc'[c].kind = proc[c].kind
                   /\ proc'[c].asked = proc[c].asked
    BY <2>2 DEF Retired
  <2>3. ASSUME NEW v \in Users, user[v] = None, NEW row,
               user' = [user EXCEPT ![v] = row], UNCHANGED proc
        PROVE  Retired(u, w)'
    <3>1. u # v
      BY <2>3 DEF Retired
    <3> QED
      BY <2>2, <2>3, <3>1 DEF TypeInv, TypeOK
  <2>4. ASSUME NEW v \in Users, SeedRun(v) PROVE Retired(u, w)'
    BY <2>4, <2>3 DEF SeedRun, NobodyYet
  <2>5. ASSUME NEW name \in Names, NEW x \in Passwords, Register(name, x)
        PROVE  Retired(u, w)'
    <3>1. PICK v \in FreshIds : user' = [user EXCEPT ![v] = [name |-> name, password |-> x]]
      BY <2>5 DEF Register
    <3>2. v \in Users /\ user[v] = None
      BY AccountsAssumption DEF FreshIds
    <3> QED
      BY <2>3, <2>5, <3>1, <3>2 DEF Register
  <2>6. CASE Crash
    BY <2>1, <2>2, <2>6 DEF Crash
  \* What a request reads is the current row.
  <2>7. ASSUME NEW c \in Clients, NEW v \in Users, NEW kind, NEW pc, NEW asked,
               Start(c, kind, pc, v, asked),
               v = u /\ kind = "password" => asked # w
        PROVE  Retired(u, w)'
    <3>1. \A d \in Clients : proc'[d] = IF d = c
              THEN [kind |-> kind, pc |-> pc, user |-> v, copy |-> user[v], asked |-> asked]
              ELSE proc[d]
      BY <2>7 DEF Start, TypeInv, TypeOK
    <3> QED
      BY <2>7, <3>1 DEF Start, Retired
  <2>8. ASSUME NEW c \in Clients, NEW v \in Users, Arrive(c, v) PROVE Retired(u, w)'
    <3>1. ASSUME NEW current \in Passwords, NEW new \in Passwords,
                 ChangePasswordRead(c, v, current, new)
          PROVE  Retired(u, w)'
      <4>1. v = u => new # w
        BY <3>1 DEF Asks
      <4> QED
        BY <3>1, <4>1, <2>7 DEF ChangePasswordRead
    <3>2. ASSUME NEW name \in Names, UpdateAccountRead(c, v, name) PROVE Retired(u, w)'
      BY <3>2, <2>7 DEF UpdateAccountRead
    <3> QED
      BY <2>8, <3>1, <3>2 DEF Arrive
  <2>9. ASSUME NEW c \in Clients, Continue(c) PROVE Retired(u, w)'
    <3>1. ASSUME NEW row \in Row, Save(c, row), proc[c].user \in Users,
                 proc[c].user = u => row.password # w
          PROVE  Retired(u, w)'
      <4>1. \A d \in Clients : proc'[d] = IF d = c THEN Idle ELSE proc[d]
        BY <3>1 DEF Save, Finish, TypeInv, TypeOK
      <4>2. user'[u] = IF u = proc[c].user THEN row ELSE user[u]
        BY <3>1 DEF Save, TypeInv, TypeOK
      <4> QED
        BY <2>1, <3>1, <4>1, <4>2, RowFacts DEF Retired
    <3>2. CASE ChangePasswordSave(c)
      <4>1. /\ NewPassword(c) \in Row /\ proc[c].user \in Users
            /\ NewPassword(c).password = proc[c].asked
        BY <3>2, ChangedRows DEF ChangePasswordSave, At
      <4>2. proc[c].user = u => proc[c].asked # w
        BY <3>2 DEF ChangePasswordSave, At, Retired
      <4> QED
        BY <3>1, <3>2, <4>1, <4>2 DEF ChangePasswordSave
    <3>3. CASE UpdateAccountSave(c)
      <4>1. /\ NewName(c) \in Row /\ proc[c].user \in Users
            /\ NewName(c).password = proc[c].copy.password
        BY <3>3, ChangedRows DEF UpdateAccountSave, At
      <4>2. proc[c].user = u => proc[c].copy.password # w
        BY DEF Retired
      <4> QED
        BY <3>1, <3>3, <4>1, <4>2 DEF UpdateAccountSave
    <3>4. CASE Refuse(c)
      <4>1. \A d \in Clients : proc'[d] = IF d = c THEN Idle ELSE proc[d]
        BY <3>4 DEF Refuse, Finish, TypeInv, TypeOK
      <4> QED
        BY <2>1, <2>2, <3>4, <4>1 DEF Refuse
    <3>5. CASE /\ proc' = [proc EXCEPT ![c].pc = "save"]
               /\ UNCHANGED <<user, sample, seeds, up, session, wanted>>
      <4>1. \A d \in Clients :
               /\ proc'[d].user = proc[d].user /\ proc'[d].copy = proc[d].copy
               /\ proc'[d].kind = proc[d].kind /\ proc'[d].asked = proc[d].asked
        BY <3>5 DEF TypeInv, TypeOK, Request
      <4> QED
        BY <2>2, <3>5, <4>1
    <3> QED
      BY <2>9, <3>2, <3>3, <3>4, <3>5
         DEF Continue, ChangePasswordFails, UpdateAccountFails, SaveFails, UpdateAccountCheck
  <2>10. CASE UNCHANGED <<user, proc>>
    BY <2>2, <2>10
  <2> QED
    BY <2>4, <2>5, <2>6, <2>8, <2>9, <2>10
       DEF Next, StartUp, Boot, SeedSkips, SeedFails, InsertSampleData, InsertSampleFails,
           SampleGoes, Login, Expire, vars
<1> QED
  BY <1>1, TypesHold, PTL DEF Spec, PasswordsRetire
=============================================================================
