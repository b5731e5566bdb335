---------------------------- MODULE ProfilesProofs ----------------------------
(***************************************************************************)
(* Theorems about Profiles, for all values of its constants.               *)
(***************************************************************************)
EXTENDS ProfilesRefinement, TLAPS

\* What a request in flight carries at each point of its handler.
RequestOK(r) ==
    \/ r = Idle
    \/ /\ r.profile \in Profiles
       /\ \/ r.kind = "update" /\ r.pc = "save" /\ r.copy \in Settings
          \/ r.kind = "delete" /\ r.pc = "commit"
          \/ r.kind = "issue" /\ r.pc = "save"
          \/ r.kind = "serve" /\ r.pc = "lookup" /\ r.token \in Tokens
          \/ /\ \/ r.kind = "revoke" /\ r.pc = "save"
                \/ r.kind = "serve" /\ r.pc \in {"build", "save"}
             /\ r.token \in issued
             /\ r.copy = [profile |-> r.profile, revoked |-> FALSE]

BaseInv ==
    /\ TypeOK
    /\ \A c \in Clients : RequestOK(proc[c])
    /\ \A t \in Tokens : token[t] # None => t \in issued

\* A step of c leaves the other requests as they are, and takes no token id back.
Moves(c) ==
    /\ proc' \in [Clients -> Request]
    /\ \A d \in Clients \ {c} : proc'[d] = proc[d]
    /\ issued \subseteq issued'

LEMMA StoredTyped == \A p \in Profiles, s \in Settings : Stored(p, s) \in Settings
  BY DEF Stored, GormCreated, Settings

LEMMA OthersOK ==
  ASSUME BaseInv, NEW c \in Clients, Moves(c), RequestOK(proc[c])'
  PROVE  \A d \in Clients : RequestOK(proc[d])'
<1> SUFFICES ASSUME NEW d \in Clients \ {c} PROVE RequestOK(proc[d])'
  OBVIOUS
<1>1. proc'[d] = proc[d] /\ RequestOK(proc[d]) /\ issued \subseteq issued'
  BY DEF Moves, BaseInv
<1> QED BY <1>1 DEF RequestOK

LEMMA StartMoves ==
  ASSUME BaseInv, NEW c \in Clients, NEW kind \in Kinds, NEW pc \in PCs, NEW p \in Profiles,
         NEW t \in Tokens \cup {None}, NEW copy \in Settings \cup Token \cup {None},
         Start(c, kind, pc, p, t, copy), issued' = issued
  PROVE  /\ Moves(c)
         /\ proc'[c] = [kind |-> kind, pc |-> pc, profile |-> p, token |-> t, copy |-> copy]
         /\ proc[c] = Idle
<1>1. /\ Moves(c)
      /\ proc'[c] = [kind |-> kind, pc |-> pc, profile |-> p, token |-> t, copy |-> copy]
  BY DEF BaseInv, TypeOK, Start, Request, Moves
<1>2. proc[c] = Idle
  <2>1. RequestOK(proc[c]) /\ proc[c].pc = "idle"
    BY DEF BaseInv, Start
  <2> QED BY <2>1 DEF RequestOK
<1> QED BY <1>1, <1>2

LEMMA FinishMoves ==
  ASSUME BaseInv, NEW c \in Clients, Finish(c), issued \subseteq issued'
  PROVE  Moves(c) /\ proc'[c] = Idle
  BY DEF BaseInv, TypeOK, Finish, Request, Idle, PCs, Moves

\* The actions of a request, by what they do to proc.
Enter(c, p) ==
    \/ UpdateProfileRead(c, p) \/ DeleteProfileRead(c, p) \/ CreateTokenRead(c, p)
    \/ \E t \in Tokens : RevokeTokenRead(c, p, t) \/ SubTokenAuth(c, p, t)

Fail(c) ==
    \/ UpdateProfileFails(c) \/ DeleteProfileRollback(c) \/ CreateTokenFails(c) \/ RevokeTokenFails(c)

THEOREM InitBase == Init => BaseInv
  BY ProfilesAssumption DEF Init, BaseInv, TypeOK, RequestOK, Request, Idle, PCs

\* A request enters with what it has read.
LEMMA EnterBase ==
  ASSUME BaseInv, NEW c \in Clients, NEW p \in Profiles, Enter(c, p)
  PROVE  /\ Moves(c) /\ RequestOK(proc[c])'
         /\ proc[c] = Idle /\ proc'[c].profile = p
         /\ proc'[c].kind = "serve" => proc'[c].pc = "lookup"
         /\ \/ proc'[c].pc = "lookup" \/ profile[p] # None
            \/ \E t \in Tokens : token[t] # None /\ token[t].profile = p
         /\ UNCHANGED <<profile, seeded, token, life, issued, wanted>>
<1> USE ProfilesAssumption
<1>1. TypeOK /\ \A t \in Tokens : token[t] # None => t \in issued
  BY DEF BaseInv
<1>2. CASE UpdateProfileRead(c, p)
  <2>1. /\ Start(c, "update", "save", p, None, profile[p]) /\ profile[p] \in Settings
        /\ UNCHANGED <<profile, seeded, token, life, issued, wanted>>
        /\ "update" \in Kinds /\ "save" \in PCs
    BY <1>1, <1>2 DEF UpdateProfileRead, TypeOK, Kinds, PCs
  <2>2. /\ Moves(c) /\ proc[c] = Idle
        /\ proc'[c] = [kind |-> "update", pc |-> "save", profile |-> p, token |-> None, copy |-> profile[p]]
    BY <2>1, StartMoves
  <2> QED BY <2>1, <2>2 DEF RequestOK
<1>3. CASE DeleteProfileRead(c, p)
  <2>1. /\ Start(c, "delete", "commit", p, None, None) /\ profile[p] # None
        /\ UNCHANGED <<profile, seeded, token, life, issued, wanted>>
        /\ "delete" \in Kinds /\ "commit" \in PCs
    BY <1>3 DEF DeleteProfileRead, Kinds, PCs
  <2>2. /\ Moves(c) /\ proc[c] = Idle
        /\ proc'[c] = [kind |-> "delete", pc |-> "commit", profile |-> p, token |-> None, copy |-> None]
    BY <2>1, StartMoves
  <2> QED BY <2>1, <2>2 DEF RequestOK
<1>4. CASE CreateTokenRead(c, p)
  <2>1. /\ Start(c, "issue", "save", p, None, None) /\ profile[p] # None
        /\ UNCHANGED <<profile, seeded, token, life, issued, wanted>>
        /\ "issue" \in Kinds /\ "save" \in PCs
    BY <1>4 DEF CreateTokenRead, Kinds, PCs
  <2>2. /\ Moves(c) /\ proc[c] = Idle
        /\ proc'[c] = [kind |-> "issue", pc |-> "save", profile |-> p, token |-> None, copy |-> None]
    BY <2>1, StartMoves
  <2> QED BY <2>1, <2>2 DEF RequestOK
<1>5. CASE \E t \in Tokens : RevokeTokenRead(c, p, t)
  <2>1. PICK t \in Tokens : RevokeTokenRead(c, p, t)
    BY <1>5
  <2>2. /\ Start(c, "revoke", "save", p, t, token[t])
        /\ UNCHANGED <<profile, seeded, token, life, issued, wanted>>
        /\ "revoke" \in Kinds /\ "save" \in PCs
        /\ token[t] \in Settings \cup Token \cup {None}
    BY <1>1, <2>1 DEF RevokeTokenRead, Kinds, PCs, TypeOK
  <2>3. token[t] = [profile |-> p, revoked |-> FALSE] /\ t \in issued /\ token[t] # None
    <3>1. token[t] = [profile |-> p, revoked |-> FALSE]
      BY <2>1 DEF RevokeTokenRead
    <3>2. [profile |-> p, revoked |-> FALSE] \in Token
      BY DEF Token
    <3> QED BY <1>1, <3>1, <3>2
  <2>4. /\ Moves(c) /\ proc[c] = Idle
        /\ proc'[c] = [kind |-> "revoke", pc |-> "save", profile |-> p, token |-> t, copy |-> token[t]]
    BY <2>2, StartMoves
  <2> QED BY <2>2, <2>3, <2>4 DEF RequestOK
<1>6. CASE \E t \in Tokens : SubTokenAuth(c, p, t)
  <2>1. PICK t \in Tokens : SubTokenAuth(c, p, t)
    BY <1>6
  <2>2. /\ Start(c, "serve", "lookup", p, t, None)
        /\ UNCHANGED <<profile, seeded, token, life, issued, wanted>>
        /\ "serve" \in Kinds /\ "lookup" \in PCs
    BY <2>1 DEF SubTokenAuth, Kinds, PCs
  <2>3. /\ Moves(c) /\ proc[c] = Idle
        /\ proc'[c] = [kind |-> "serve", pc |-> "lookup", profile |-> p, token |-> t, copy |-> None]
    BY <2>2, StartMoves
  <2> QED BY <2>2, <2>3 DEF RequestOK
<1> QED BY <1>2, <1>3, <1>4, <1>5, <1>6 DEF Enter

\* A request fails: it ends, and its writes are not made.
LEMMA FailBase ==
  ASSUME BaseInv, NEW c \in Clients, Fail(c)
  PROVE  /\ Moves(c) /\ proc'[c] = Idle
         /\ UNCHANGED <<profile, seeded, token, life, issued, wanted>>
<1>1. Finish(c) /\ UNCHANGED <<profile, seeded, token, life, issued, wanted>>
  BY DEF Fail, UpdateProfileFails, DeleteProfileRollback, CreateTokenFails, RevokeTokenFails
<1> QED BY <1>1, FinishMoves

\* A served request takes its next step before the last one.
LEMMA ServeBase ==
  ASSUME BaseInv, NEW c \in Clients, SubLookup(c) \/ SubBuild(c)
  PROVE  /\ Moves(c) /\ RequestOK(proc[c])'
         /\ UNCHANGED <<profile, seeded, token, life, issued, wanted>>
         /\ \/ proc'[c] = Idle
            \/ /\ proc'[c].profile = proc[c].profile /\ proc'[c].token = proc[c].token
               /\ proc'[c].kind = "serve" /\ proc'[c].pc \in {"build", "save"}
               /\ proc[c].pc = "lookup" =>
                     token[proc[c].token] = [profile |-> proc[c].profile, revoked |-> FALSE]
               /\ proc[c].pc \in {"lookup", "build"}
         /\ proc[c].kind = "serve"
<1> USE ProfilesAssumption
<1>1. /\ RequestOK(proc[c]) /\ proc[c] \in Request /\ proc[c].kind = "serve"
      /\ TypeOK /\ \A t \in Tokens : token[t] # None => t \in issued
      /\ UNCHANGED <<profile, seeded, token, life, issued, wanted>>
  BY DEF BaseInv, TypeOK, SubLookup, SubBuild, At
<1>2. CASE Finish(c)
  <2>1. Moves(c) /\ proc'[c] = Idle
    BY <1>1, <1>2, FinishMoves
  <2> QED BY <1>1, <2>1 DEF RequestOK
<1>3. CASE SubLookup(c) /\ ~Finish(c)
  <2> DEFINE r == token[proc[c].token]
  <2>1. /\ proc[c].pc = "lookup" /\ r = [profile |-> proc[c].profile, revoked |-> FALSE]
        /\ proc' = [proc EXCEPT ![c] = [@ EXCEPT !.pc = "build", !.copy = r]]
    BY <1>3 DEF SubLookup, At
  <2>2. proc[c].token \in Tokens /\ proc[c].profile \in Profiles
    BY <1>1, <2>1 DEF RequestOK, Idle
  <2>3. r \in Token
    BY <2>1, <2>2 DEF Token
  <2>4. proc[c].token \in issued
    BY <1>1, <2>2, <2>3
  <2> HIDE DEF r
  <2>5. [proc[c] EXCEPT !.pc = "build", !.copy = r] \in Request
    BY <1>1, <2>3 DEF Request, PCs
  <2>6. /\ Moves(c)
        /\ proc'[c] = [proc[c] EXCEPT !.pc = "build", !.copy = r]
    BY <1>1, <2>1, <2>5 DEF TypeOK, Moves
  <2>7. /\ proc'[c].profile = proc[c].profile /\ proc'[c].token = proc[c].token
        /\ proc'[c].kind = proc[c].kind /\ proc'[c].pc = "build" /\ proc'[c].copy = r
    BY <1>1, <2>6 DEF Request
  <2>8. RequestOK(proc[c])'
    BY <1>1, <2>1, <2>2, <2>4, <2>7 DEF RequestOK
  <2> QED BY <1>1, <2>1, <2>6, <2>7, <2>8 DEF r
<1>4. CASE SubBuild(c) /\ ~Finish(c)
  <2>1. proc[c].pc = "build" /\ proc' = [proc EXCEPT ![c].pc = "save"]
    BY <1>4 DEF SubBuild, At
  <2>2. [proc[c] EXCEPT !.pc = "save"] \in Request
    BY <1>1 DEF Request, PCs
  <2>3. Moves(c) /\ proc'[c] = [proc[c] EXCEPT !.pc = "save"]
    BY <1>1, <2>1, <2>2 DEF TypeOK, Moves
  <2>4. /\ proc'[c].profile = proc[c].profile /\ proc'[c].token = proc[c].token
        /\ proc'[c].kind = proc[c].kind /\ proc'[c].pc = "save" /\ proc'[c].copy = proc[c].copy
    BY <1>1, <2>3 DEF Request
  <2>5. /\ proc[c].profile \in Profiles /\ proc[c].token \in issued
        /\ proc[c].copy = [profile |-> proc[c].profile, revoked |-> FALSE]
    BY <1>1, <2>1 DEF RequestOK, Idle
  <2>6. RequestOK(proc[c])'
    BY <1>1, <2>4, <2>5 DEF RequestOK
  <2> QED BY <1>1, <2>1, <2>3, <2>4, <2>6
<1> QED BY <1>2, <1>3, <1>4

\* The four writes that end a request.
Writes(c) ==
    \/ \E payload \in Payload : UpdateProfileSave(c, payload)
    \/ DeleteProfileCommit(c)
    \/ \E t \in Tokens : CreateTokenSave(c, t)
    \/ RevokeTokenSave(c) \/ SubSave(c)

LEMMA WritesBase ==
  ASSUME BaseInv, NEW c \in Clients, Writes(c)
  PROVE  Moves(c) /\ proc'[c] = Idle /\ BaseInv'
<1> USE ProfilesAssumption
<1>1. Finish(c) /\ issued \subseteq issued'
  BY DEF Writes, UpdateProfileSave, DeleteProfileCommit, CreateTokenSave, RevokeTokenSave, SubSave
<1>2. Moves(c) /\ proc'[c] = Idle
  BY <1>1, FinishMoves
<1>3. \A d \in Clients : RequestOK(proc[d])'
  BY <1>2, OthersOK DEF RequestOK
<1>4. /\ TypeOK /\ RequestOK(proc[c]) /\ proc' \in [Clients -> Request]
      /\ \A t \in Tokens : token[t] # None => t \in issued
  BY <1>2 DEF BaseInv, Moves
<1>5. ASSUME NEW payload \in Payload, UpdateProfileSave(c, payload) PROVE BaseInv'
  <2> DEFINE p == proc[c].profile
             r == Stored(p, Merged(proc[c].copy, payload))
             w == IF wanted[p] = None THEN None ELSE Merged(wanted[p], payload)
  <2>1. proc[c].copy \in Settings /\ p \in Profiles
    BY <1>4, <1>5 DEF UpdateProfileSave, At, RequestOK, Idle
  <2>2. r \in Settings /\ w \in Settings \cup {None}
    <3>1. \A s \in Settings : Merged(s, payload) \in Settings
      BY DEF Merged, Settings, Payload
    <3>2. r \in Settings
      <4>1. Merged(proc[c].copy, payload) \in Settings
        BY <2>1, <3>1
      <4> QED BY <2>1, <4>1, StoredTyped
    <3> QED BY <1>4, <2>1, <3>1, <3>2 DEF TypeOK
  <2> HIDE DEF r, w
  <2>3. /\ profile' = [profile EXCEPT ![p] = r] /\ wanted' = [wanted EXCEPT ![p] = w]
        /\ UNCHANGED <<seeded, token, life, issued>>
    BY <1>4, <1>5 DEF UpdateProfileSave, r, w, TypeOK
  <2> QED BY <1>3, <1>4, <2>1, <2>2, <2>3 DEF BaseInv, TypeOK
<1>6. ASSUME DeleteProfileCommit(c) PROVE BaseInv'
  <2>1. \A t \in Tokens : token'[t] = None \/ token'[t] = token[t]
    BY <1>6 DEF DeleteProfileCommit
  <2>2. token' \in [Tokens -> Token \cup {None}]
    BY <1>4, <1>6 DEF DeleteProfileCommit, TypeOK
  <2> QED BY <1>3, <1>4, <1>6, <2>1, <2>2 DEF DeleteProfileCommit, BaseInv, TypeOK
<1>7. ASSUME NEW t \in Tokens, CreateTokenSave(c, t) PROVE BaseInv'
  <2>1. [profile |-> proc[c].profile, revoked |-> FALSE] \in Token
    BY <1>4, <1>7 DEF CreateTokenSave, At, RequestOK, Idle, Token
  <2> QED BY <1>3, <1>4, <1>7, <2>1 DEF CreateTokenSave, BaseInv, TypeOK
<1>8. ASSUME RevokeTokenSave(c) \/ SubSave(c) PROVE BaseInv'
  <2>1. /\ proc[c].token \in issued /\ proc[c].copy = [profile |-> proc[c].profile, revoked |-> FALSE]
        /\ proc[c].profile \in Profiles
    BY <1>4, <1>8 DEF RevokeTokenSave, SubSave, At, RequestOK, Idle
  <2>2. proc[c].copy \in Token /\ [proc[c].copy EXCEPT !.revoked = TRUE] \in Token
    <3>1. proc[c].copy \in Token
      BY <2>1 DEF Token
    <3>2. \A r \in Token : [r EXCEPT !.revoked = TRUE] \in Token
      BY DEF Token
    <3> QED BY <3>1, <3>2
  <2>3. \/ token' = token
        \/ \E r \in Token : token' = [token EXCEPT ![proc[c].token] = r]
    BY <1>8, <2>2 DEF RevokeTokenSave, SubSave
  <2>4. UNCHANGED <<profile, seeded, life, issued, wanted>>
    BY <1>8 DEF RevokeTokenSave, SubSave
  <2> QED BY <1>3, <1>4, <2>1, <2>3, <2>4 DEF BaseInv, TypeOK
<1> QED BY <1>2, <1>5, <1>6, <1>7, <1>8 DEF Writes

\* Next, with the actions of a request grouped as above.
LEMMA NextCases ==
  Next <=> \/ \E p \in Profiles, payload \in Payload : CreateProfile(p, payload)
           \/ \E c \in Clients, p \in Profiles : Enter(c, p)
           \/ \E c \in Clients : Fail(c) \/ SubLookup(c) \/ SubBuild(c) \/ Writes(c)
           \/ Restart
  BY DEF Next, Arrive, Continue, Enter, Fail, Writes

THEOREM StepBase == BaseInv /\ [Next]_vars => BaseInv'
<1> SUFFICES ASSUME BaseInv, [Next]_vars PROVE BaseInv'
  OBVIOUS
<1> USE ProfilesAssumption
<1>1. ASSUME NEW c \in Clients, Moves(c), RequestOK(proc[c])',
             UNCHANGED <<profile, seeded, token, life, issued, wanted>>
      PROVE  BaseInv'
  BY <1>1, OthersOK DEF BaseInv, TypeOK, Moves
<1>2. ASSUME NEW p \in Profiles, NEW payload \in Payload, CreateProfile(p, payload) PROVE BaseInv'
  <2>1. GormCreated(payload) \in Settings
    BY DEF GormCreated, Settings
  <2>2. \A c \in Clients : RequestOK(proc[c])'
    BY <1>2 DEF CreateProfile, BaseInv, RequestOK
  <2> QED BY <1>2, <2>1, <2>2 DEF CreateProfile, BaseInv, TypeOK
<1>3. ASSUME NEW c \in Clients, NEW p \in Profiles, Enter(c, p) PROVE BaseInv'
  BY <1>1, <1>3, EnterBase
<1>4. ASSUME NEW c \in Clients, Fail(c) PROVE BaseInv'
  <2>1. Moves(c) /\ proc'[c] = Idle /\ UNCHANGED <<profile, seeded, token, life, issued, wanted>>
    BY <1>4, FailBase
  <2> QED BY <1>1, <2>1 DEF RequestOK
<1>5. ASSUME NEW c \in Clients, SubLookup(c) \/ SubBuild(c) PROVE BaseInv'
  BY <1>1, <1>5, ServeBase
<1>6. ASSUME NEW c \in Clients, Writes(c) PROVE BaseInv'
  BY <1>6, WritesBase
<1>7. CASE Restart
  BY <1>7 DEF Restart, BaseInv, TypeOK, RequestOK, Request, Idle, PCs
<1>8. CASE UNCHANGED vars
  BY <1>8 DEF vars, BaseInv, TypeOK, RequestOK
<1> QED BY <1>2, <1>3, <1>4, <1>5, <1>6, <1>7, <1>8, NextCases

THEOREM BaseInvariant == Spec => []BaseInv
  BY InitBase, StepBase, PTL DEF Spec

\* Every variable keeps its type, whatever overlaps, fails or crashes.
THEOREM TypeCorrect == Spec => []TypeOK
  BY BaseInvariant, PTL DEF BaseInv

-----------------------------------------------------------------------------
(* What ends stays ended.                                                  *)

LEMMA StepDead ==
  ASSUME BaseInv, [Next]_vars, NEW t \in Tokens, Dead(t)
  PROVE  Dead(t)'
<1> USE ProfilesAssumption
<1>1. /\ t \in issued
      /\ token[t] = None \/ token[t].revoked
      /\ \A c \in Clients : proc[c].token = t => proc[c].pc \notin {"build", "save"} \/ proc[c].kind # "serve"
  BY DEF Dead
<1>2. TypeOK /\ \A c \in Clients : RequestOK(proc[c])
  BY DEF BaseInv
<1>3. ASSUME NEW p \in Profiles PROVE token[t] # [profile |-> p, revoked |-> FALSE]
  <2>1. [profile |-> p, revoked |-> FALSE] \in Token
    BY DEF Token
  <2> QED BY <1>1, <2>1
<1>4. ASSUME NEW c \in Clients, Moves(c), t \in issued',
             token'[t] = None \/ token'[t].revoked,
             proc'[c].token = t => proc'[c].pc \notin {"build", "save"} \/ proc'[c].kind # "serve"
      PROVE  Dead(t)'
  BY <1>1, <1>4 DEF Dead, Moves
<1>5. ASSUME NEW p \in Profiles, NEW payload \in Payload, CreateProfile(p, payload) PROVE Dead(t)'
  BY <1>1, <1>5 DEF CreateProfile, Dead
<1>6. ASSUME NEW c \in Clients, NEW p \in Profiles, Enter(c, p) PROVE Dead(t)'
  <2>1. /\ Moves(c) /\ UNCHANGED <<token, issued>>
        /\ proc'[c].kind = "serve" => proc'[c].pc = "lookup"
    BY <1>6, EnterBase
  <2> QED BY <1>1, <1>4, <2>1
<1>7. ASSUME NEW c \in Clients, Fail(c) PROVE Dead(t)'
  <2>1. Moves(c) /\ proc'[c] = Idle /\ UNCHANGED <<token, issued>>
    BY <1>7, FailBase
  <2> QED BY <1>1, <1>4, <2>1 DEF Idle
<1>8. ASSUME NEW c \in Clients, SubLookup(c) \/ SubBuild(c) PROVE Dead(t)'
  <2>1. /\ Moves(c) /\ UNCHANGED <<token, issued>>
        /\ \/ proc'[c] = Idle
           \/ /\ proc'[c].token = proc[c].token /\ proc[c].kind = "serve"
              /\ proc[c].pc = "lookup" =>
                    token[proc[c].token] = [profile |-> proc[c].profile, revoked |-> FALSE]
              /\ proc[c].pc \in {"lookup", "build"}
    BY <1>8, ServeBase
  <2>2. proc'[c] = Idle \/ proc'[c].token # t
    <3>1. proc[c].profile \in Profiles \/ proc[c] = Idle
      BY <1>2 DEF RequestOK
    <3> QED BY <1>1, <1>3, <2>1, <3>1 DEF Idle
  <2> QED BY <1>1, <1>4, <2>1, <2>2 DEF Idle
<1>9. ASSUME NEW c \in Clients, Writes(c) PROVE Dead(t)'
  <2>1. Moves(c) /\ proc'[c] = Idle
    BY <1>9, WritesBase
  <2>2. token'[t] = None \/ token'[t].revoked
    <3>1. CASE \E payload \in Payload : UpdateProfileSave(c, payload)
      BY <1>1, <3>1 DEF UpdateProfileSave
    <3>2. CASE DeleteProfileCommit(c)
      BY <1>1, <3>2 DEF DeleteProfileCommit
    <3>3. CASE \E u \in Tokens : CreateTokenSave(c, u)
      BY <1>1, <1>2, <3>3 DEF CreateTokenSave, TypeOK
    <3>4. CASE RevokeTokenSave(c)
      <4>1. proc[c].copy = [profile |-> proc[c].profile, revoked |-> FALSE]
        BY <1>2, <3>4 DEF RevokeTokenSave, At, RequestOK, Idle
      <4>2. [proc[c].copy EXCEPT !.revoked = TRUE].revoked = TRUE
        BY <4>1
      <4> QED BY <1>1, <1>2, <3>4, <4>2 DEF RevokeTokenSave, TypeOK
    <3>5. CASE SubSave(c)
      <4>1. proc[c].token # t
        BY <1>1, <3>5 DEF SubSave, At
      <4> QED BY <1>1, <1>2, <3>5, <4>1 DEF SubSave, TypeOK
    <3> QED BY <1>9, <3>1, <3>2, <3>3, <3>4, <3>5 DEF Writes
  <2>3. t \in issued'
    BY <1>1, <2>1 DEF Moves
  <2> QED BY <1>4, <2>1, <2>2, <2>3 DEF Idle
<1>10. CASE Restart
  BY <1>1, <1>10 DEF Restart, Dead, Idle
<1>11. CASE UNCHANGED vars
  BY <1>1, <1>11 DEF vars, Dead
<1> QED BY <1>5, <1>6, <1>7, <1>8, <1>9, <1>10, <1>11, NextCases

\* A dead token stays dead, whatever overlaps, fails or crashes: a revocation
\* is final once the requests that read the token unrevoked have ended.
THEOREM RevocationsAreFinal == Spec => RevocationIsFinal
<1>1. BaseInv /\ [Next]_vars => [\A t \in Tokens : Dead(t) => Dead(t)']_vars
  BY StepDead
<1> QED BY <1>1, BaseInvariant, PTL DEF Spec, RevocationIsFinal

LEMMA StepGone ==
  ASSUME BaseInv, [Next]_vars, NEW p \in Profiles, ProfileGone(p)
  PROVE  ProfileGone(p)'
<1> USE ProfilesAssumption
<1>1. /\ life[p] = "deleted" /\ profile[p] = None /\ p \notin seeded
      /\ \A t \in Tokens : token[t] # None => token[t].profile # p
      /\ \A c \in Clients : proc[c].profile = p => proc[c].pc \in {"commit", "lookup"}
  BY DEF ProfileGone
<1>2. TypeOK /\ \A c \in Clients : RequestOK(proc[c])
  BY DEF BaseInv
<1>3. ASSUME NEW c \in Clients, Moves(c), UNCHANGED <<profile, seeded, token, life>>,
             proc'[c].profile = p => proc'[c].pc \in {"commit", "lookup"}
      PROVE  ProfileGone(p)'
  BY <1>1, <1>3 DEF ProfileGone, Moves
<1>4. ASSUME NEW q \in Profiles, NEW payload \in Payload, CreateProfile(q, payload) PROVE ProfileGone(p)'
  BY <1>1, <1>2, <1>4 DEF CreateProfile, ProfileGone, TypeOK
<1>5. ASSUME NEW c \in Clients, NEW q \in Profiles, Enter(c, q) PROVE ProfileGone(p)'
  <2>1. /\ Moves(c) /\ UNCHANGED <<profile, seeded, token, life>>
        /\ proc'[c].profile = q
        /\ \/ proc'[c].pc = "lookup" \/ profile[q] # None
           \/ \E t \in Tokens : token[t] # None /\ token[t].profile = q
    BY <1>5, EnterBase
  <2> QED BY <1>1, <1>3, <2>1
<1>6. ASSUME NEW c \in Clients, Fail(c) PROVE ProfileGone(p)'
  <2>1. Moves(c) /\ proc'[c] = Idle /\ UNCHANGED <<profile, seeded, token, life>>
    BY <1>6, FailBase
  <2> QED BY <1>3, <2>1 DEF Idle
<1>7. ASSUME NEW c \in Clients, SubLookup(c) \/ SubBuild(c) PROVE ProfileGone(p)'
  <2>1. /\ Moves(c) /\ UNCHANGED <<profile, seeded, token, life>>
        /\ \/ proc'[c] = Idle
           \/ /\ proc'[c].profile = proc[c].profile /\ proc[c].kind = "serve"
              /\ proc[c].pc = "lookup" =>
                    token[proc[c].token] = [profile |-> proc[c].profile, revoked |-> FALSE]
              /\ proc[c].pc \in {"lookup", "build"}
    BY <1>7, ServeBase
  <2>2. CASE proc[c].pc = "lookup" /\ proc'[c] # Idle
    <3>1. proc[c].token \in Tokens /\ proc[c].profile \in Profiles
      <4>1. RequestOK(proc[c]) /\ proc[c].pc = "lookup"
        BY <1>2, <2>2
      <4> QED BY <4>1 DEF RequestOK, Idle
    <3>2. [profile |-> proc[c].profile, revoked |-> FALSE] \in Token
      BY <3>1 DEF Token
    <3>3. proc[c].profile # p
      BY <1>1, <2>1, <2>2, <3>1, <3>2
    <3> QED BY <1>3, <2>1, <2>2, <3>3
  <2>3. CASE proc[c].pc # "lookup" \/ proc'[c] = Idle
    BY <1>1, <1>3, <2>1, <2>3 DEF Idle
  <2> QED BY <2>2, <2>3
<1>8. ASSUME NEW c \in Clients, Writes(c) PROVE ProfileGone(p)'
  <2>1. Moves(c) /\ proc'[c] = Idle
    BY <1>8, WritesBase
  <2>2. /\ life'[p] = "deleted" /\ profile'[p] = None /\ p \notin seeded'
        /\ \A t \in Tokens : token'[t] # None => token'[t].profile # p
    <3>1. CASE \E payload \in Payload : UpdateProfileSave(c, payload)
      <4>1. proc[c].profile # p
        BY <1>1, <3>1 DEF UpdateProfileSave, At
      <4> QED BY <1>1, <1>2, <3>1, <4>1 DEF UpdateProfileSave, TypeOK
    <3>2. CASE DeleteProfileCommit(c)
      BY <1>1, <1>2, <3>2 DEF DeleteProfileCommit, TypeOK
    <3>3. CASE \E u \in Tokens : CreateTokenSave(c, u)
      <4>1. proc[c].profile # p
        BY <1>1, <3>3 DEF CreateTokenSave, At
      <4> QED BY <1>1, <1>2, <3>3, <4>1 DEF CreateTokenSave, TypeOK
    <3>4. CASE RevokeTokenSave(c) \/ SubSave(c)
      <4>1. proc[c].profile # p
        BY <1>1, <3>4 DEF RevokeTokenSave, SubSave, At
      <4>2. proc[c].copy = [profile |-> proc[c].profile, revoked |-> FALSE]
        BY <1>2, <3>4 DEF RevokeTokenSave, SubSave, At, RequestOK, Idle
      <4>3. proc[c].copy.profile # p /\ [proc[c].copy EXCEPT !.revoked = TRUE].profile # p
        BY <4>1, <4>2
      <4> QED BY <1>1, <1>2, <3>4, <4>3 DEF RevokeTokenSave, SubSave, TypeOK
    <3> QED BY <1>8, <3>1, <3>2, <3>3, <3>4 DEF Writes
  <2> QED BY <1>1, <2>1, <2>2 DEF ProfileGone, Moves, Idle
<1>9. CASE Restart
  BY <1>1, <1>9 DEF Restart, ProfileGone, Idle
<1>10. CASE UNCHANGED vars
  BY <1>1, <1>10 DEF vars, ProfileGone
<1> QED BY <1>4, <1>5, <1>6, <1>7, <1>8, <1>9, <1>10, NextCases

\* A deleted profile and what belonged to it are not brought back by any
\* request that began after the deletion, whatever overlaps, fails or crashes.
THEOREM ProfileDeletionsAreFinal == Spec => ProfileDeletionIsFinal
<1>1. BaseInv /\ [Next]_vars => [\A p \in Profiles : ProfileGone(p) => ProfileGone(p)']_vars
  BY StepGone
<1> QED BY <1>1, BaseInvariant, PTL DEF Spec, ProfileDeletionIsFinal

-----------------------------------------------------------------------------
(* What holds of the profiles whose changes, and their tokens', run alone.   *)

Exclusive ==
    \A c, d \in Clients : c # d /\ proc[c].profile = proc[d].profile /\ proc[c].profile \in AloneOn =>
        proc[c].kind = "serve"

\* What a handler has read still holds when it writes.
ReadCurrent(c) ==
    LET p == proc[c].profile IN
    p \in AloneOn =>
        /\ proc[c].pc \in {"build", "save", "commit"} => profile[p] # None
        /\ proc[c].kind = "update" => profile[p] = proc[c].copy

AloneInv ==
    /\ Exclusive /\ NoOrphans /\ UpdatesAddUp
    /\ \A c \in Clients : ReadCurrent(c)
    /\ \A p \in AloneOn : life[p] = "unused" => profile[p] = None

LEMMA ExclusiveEntry ==
  ASSUME BaseInv, Exclusive, NEW c \in Clients, NEW p \in Profiles, Enter(c, p)
  PROVE  Exclusive'
<1> USE ProfilesAssumption
<1>1. Moves(c) /\ proc[c] = Idle /\ proc'[c].profile = p
  BY EnterBase
<1>2. ASSUME NEW d \in Clients \ {c}, proc[d].profile = p, p \in AloneOn
      PROVE  proc'[c].kind = "serve" /\ proc[d].kind = "serve"
  <2>1. PICK kind \in Kinds : \E pc \in PCs : \E u, copy : Start(c, kind, pc, p, u, copy)
    BY DEF Enter, UpdateProfileRead, DeleteProfileRead, CreateTokenRead, RevokeTokenRead,
           SubTokenAuth, Kinds, PCs
  <2>2. {kind, proc[d].kind} = {"serve"}
    BY <1>2, <2>1 DEF Start, MayStart
  <2>3. proc'[c].kind = kind
    BY <2>1 DEF Start, BaseInv, TypeOK
  <2> QED BY <2>2, <2>3
<1> QED BY <1>1, <1>2 DEF Exclusive, Moves

\* A request that enters has read what is there.
LEMMA EntryCurrent ==
  ASSUME BaseInv, NEW c \in Clients, NEW p \in Profiles, Enter(c, p), NoOrphans
  PROVE  ReadCurrent(c)'
<1> USE ProfilesAssumption
<1>1. TypeOK /\ UNCHANGED <<profile, token>>
  BY EnterBase DEF BaseInv
<1>2. CASE UpdateProfileRead(c, p)
  BY <1>1, <1>2 DEF UpdateProfileRead, Start, ReadCurrent, TypeOK
<1>3. CASE DeleteProfileRead(c, p)
  BY <1>1, <1>3 DEF DeleteProfileRead, Start, ReadCurrent, TypeOK
<1>4. CASE CreateTokenRead(c, p)
  BY <1>1, <1>4 DEF CreateTokenRead, Start, ReadCurrent, TypeOK
<1>5. CASE \E t \in Tokens : RevokeTokenRead(c, p, t)
  <2>1. PICK t \in Tokens : RevokeTokenRead(c, p, t)
    BY <1>5
  <2>2. token[t] = [profile |-> p, revoked |-> FALSE] /\ Start(c, "revoke", "save", p, t, token[t])
    BY <2>1 DEF RevokeTokenRead
  <2>3. [profile |-> p, revoked |-> FALSE] \in Token
    BY DEF Token
  <2>4. p \in AloneOn => profile[p] # None
    BY <2>2, <2>3 DEF NoOrphans
  <2> QED BY <1>1, <2>2, <2>4 DEF Start, ReadCurrent, TypeOK
<1>6. CASE \E t \in Tokens : SubTokenAuth(c, p, t)
  BY <1>1, <1>6 DEF SubTokenAuth, Start, ReadCurrent, TypeOK
<1> QED BY <1>2, <1>3, <1>4, <1>5, <1>6 DEF Enter

\* A request that has ended, or that goes on to be served, excludes no less.
LEMMA ExclusiveAfter ==
  ASSUME Exclusive, NEW c \in Clients, Moves(c),
         \/ proc'[c] = Idle
         \/ proc'[c].profile = proc[c].profile /\ proc'[c].kind = "serve" /\ proc[c].kind = "serve"
  PROVE  Exclusive'
  BY ProfilesAssumption DEF Exclusive, Moves, Idle

THEOREM StepAlone ==
  ASSUME BaseInv, AloneInv, [Next]_vars
  PROVE  AloneInv'
<1> USE ProfilesAssumption
<1>1. /\ TypeOK /\ \A c \in Clients : RequestOK(proc[c])
      /\ Exclusive /\ NoOrphans /\ UpdatesAddUp
      /\ \A c \in Clients : ReadCurrent(c)
      /\ \A p \in AloneOn : life[p] = "unused" => profile[p] = None
  BY DEF BaseInv, AloneInv
<1>2. ASSUME NEW c \in Clients, Moves(c), Exclusive', ReadCurrent(c)',
             UNCHANGED <<profile, seeded, token, life, issued, wanted>>
      PROVE  AloneInv'
  BY <1>1, <1>2 DEF AloneInv, NoOrphans, UpdatesAddUp, ReadCurrent, Moves
<1>3. ASSUME NEW p \in Profiles, NEW payload \in Payload, CreateProfile(p, payload) PROVE AloneInv'
  <2>1. (p \in AloneOn => profile[p] = None) /\ GormCreated(payload) # None
    <3>1. GormCreated(payload) \in Settings
      BY DEF GormCreated, Settings
    <3> QED BY <1>1, <1>3, <3>1 DEF CreateProfile
  <2>2. ASSUME NEW c \in Clients PROVE ReadCurrent(c)'
    <3>1. /\ proc'[c] = proc[c] /\ profile' = [profile EXCEPT ![p] = GormCreated(payload)]
          /\ ReadCurrent(c) /\ RequestOK(proc[c])
      BY <1>1, <1>3 DEF CreateProfile
    <3>2. CASE proc[c].profile # p
      BY <1>1, <3>1, <3>2 DEF ReadCurrent, TypeOK
    <3>3. CASE proc[c].profile = p /\ p \in AloneOn
      <4>1. proc[c].pc \notin {"build", "save", "commit"}
        BY <2>1, <3>1, <3>3 DEF ReadCurrent
      <4>2. proc[c].kind # "update"
        BY <3>1, <4>1 DEF RequestOK, Idle, Kinds
      <4> QED BY <3>1, <4>1, <4>2 DEF ReadCurrent
    <3>4. CASE proc[c].profile = p /\ p \notin AloneOn
      BY <3>1, <3>4 DEF ReadCurrent
    <3> QED BY <3>2, <3>3, <3>4
  <2>3. NoOrphans' /\ UpdatesAddUp' /\ Exclusive'
        /\ \A q \in AloneOn : life'[q] = "unused" => profile'[q] = None
    BY <1>1, <1>3, <2>1 DEF CreateProfile, NoOrphans, UpdatesAddUp, Exclusive, TypeOK
  <2> QED BY <2>2, <2>3 DEF AloneInv
<1>4. ASSUME NEW c \in Clients, NEW p \in Profiles, Enter(c, p) PROVE AloneInv'
  BY <1>1, <1>2, <1>4, EnterBase, ExclusiveEntry, EntryCurrent
<1>5. ASSUME NEW c \in Clients, Fail(c) PROVE AloneInv'
  <2>1. Moves(c) /\ proc'[c] = Idle /\ UNCHANGED <<profile, seeded, token, life, issued, wanted>>
    BY <1>5, FailBase
  <2>2. Exclusive'
    BY <1>1, <2>1, ExclusiveAfter
  <2> QED BY <1>2, <2>1, <2>2 DEF ReadCurrent, Idle, Kinds
<1>6. ASSUME NEW c \in Clients, SubLookup(c) \/ SubBuild(c) PROVE AloneInv'
  <2>1. /\ Moves(c) /\ UNCHANGED <<profile, seeded, token, life, issued, wanted>>
        /\ proc[c].kind = "serve"
        /\ \/ proc'[c] = Idle
           \/ /\ proc'[c].profile = proc[c].profile /\ proc'[c].kind = "serve"
              /\ proc[c].pc = "lookup" =>
                    token[proc[c].token] = [profile |-> proc[c].profile, revoked |-> FALSE]
              /\ proc[c].pc \in {"lookup", "build"}
    BY <1>6, ServeBase
  <2>2. Exclusive'
    BY <1>1, <2>1, ExclusiveAfter
  <2>3. CASE proc'[c] = Idle
    BY <1>2, <2>1, <2>2, <2>3 DEF ReadCurrent, Idle, Kinds
  <2>4. CASE proc'[c] # Idle
    <3>1. RequestOK(proc[c]) /\ ReadCurrent(c)
      BY <1>1
    <3>2. ASSUME proc[c].profile \in AloneOn PROVE profile[proc[c].profile] # None
      <4>1. CASE proc[c].pc = "build"
        BY <3>1, <3>2, <4>1 DEF ReadCurrent
      <4>2. CASE proc[c].pc = "lookup"
        <5>1. proc[c].token \in Tokens /\ proc[c].profile \in Profiles
          BY <3>1, <4>2 DEF RequestOK, Idle
        <5>2. [profile |-> proc[c].profile, revoked |-> FALSE] \in Token
          BY <5>1 DEF Token
        <5> QED BY <1>1, <2>1, <2>4, <3>2, <4>2, <5>1, <5>2 DEF NoOrphans
      <4> QED BY <2>1, <2>4, <4>1, <4>2
    <3>3. ReadCurrent(c)'
      BY <2>1, <2>4, <3>2 DEF ReadCurrent
    <3> QED BY <1>2, <2>1, <2>2, <3>3
  <2> QED BY <2>3, <2>4
<1>7. ASSUME NEW c \in Clients, Writes(c) PROVE AloneInv'
  <2> DEFINE p == proc[c].profile
  <2>1. Moves(c) /\ proc'[c] = Idle /\ Exclusive'
    BY <1>1, <1>7, WritesBase, ExclusiveAfter
  <2>2. ReadCurrent(c)'
    BY <2>1 DEF ReadCurrent, Idle, Kinds
  <2>3. RequestOK(proc[c]) /\ ReadCurrent(c)
    BY <1>1
  <2>4. ASSUME NoOrphans', UpdatesAddUp',
               \A q \in AloneOn : life'[q] = "unused" => profile'[q] = None,
               \A q \in Profiles : q # p => profile'[q] = profile[q],
               \/ UNCHANGED profile
               \/ proc[c].kind # "serve"
        PROVE  AloneInv'
    <3>1. ASSUME NEW d \in Clients \ {c} PROVE ReadCurrent(d)'
      <4>1. proc'[d] = proc[d] /\ RequestOK(proc[d]) /\ ReadCurrent(d)
        BY <1>1, <2>1 DEF Moves
      <4>2. CASE proc[d] = Idle
        BY <4>1, <4>2 DEF ReadCurrent, Idle, Kinds
      <4>3. CASE proc[d] # Idle
        <5>1. proc[d].profile \in Profiles
          BY <4>1, <4>3 DEF RequestOK
        <5>2. p \notin AloneOn \/ proc[d].profile # p \/ profile' = profile
          BY <1>1, <2>4, <5>1 DEF Exclusive
        <5> QED BY <2>4, <4>1, <5>1, <5>2 DEF ReadCurrent
      <4> QED BY <4>2, <4>3
    <3> QED BY <2>1, <2>2, <2>4, <3>1 DEF AloneInv
  <2>5. ASSUME NEW payload \in Payload, UpdateProfileSave(c, payload) PROVE AloneInv'
    <3> DEFINE r == Merged(proc[c].copy, payload)
    <3>1. /\ proc[c].kind = "update" /\ proc[c].pc = "save"
          /\ proc[c].copy \in Settings /\ p \in Profiles
      BY <2>3, <2>5 DEF UpdateProfileSave, At, RequestOK, Idle
    <3>2. p \in AloneOn => profile[p] = proc[c].copy /\ profile[p] # None /\ wanted[p] = profile[p]
      BY <1>1, <2>3, <3>1 DEF ReadCurrent, UpdatesAddUp
    <3>3. r \in Settings /\ r # None
      BY <3>1 DEF Merged, Settings, Payload
    <3>4. /\ profile' = [profile EXCEPT ![p] = Stored(p, r)]
          /\ wanted' = [wanted EXCEPT ![p] = IF @ = None THEN None ELSE Merged(@, payload)]
          /\ UNCHANGED <<seeded, token, life>>
      BY <2>5, <3>1 DEF UpdateProfileSave
    <3>5. /\ p \in AloneOn => profile'[p] = r /\ wanted'[p] = r
          /\ \A q \in Profiles : q # p => profile'[q] = profile[q] /\ wanted'[q] = wanted[q]
      BY <1>1, <3>1, <3>2, <3>4 DEF TypeOK, Stored
    <3> HIDE DEF r
    <3>6. \A q \in AloneOn : profile'[q] # None <=> profile[q] # None
      BY <3>2, <3>3, <3>5
    <3>7. NoOrphans'
      <4>1. \A t \in Tokens : token[t] # None => token[t].profile \in Profiles
        BY <1>1 DEF TypeOK, Token
      <4> QED BY <1>1, <3>4, <3>6, <4>1 DEF NoOrphans
    <3>8. UpdatesAddUp'
      BY <1>1, <3>1, <3>5 DEF UpdatesAddUp
    <3>9. \A q \in AloneOn : life'[q] = "unused" => profile'[q] = None
      BY <1>1, <2>5, <3>6 DEF UpdateProfileSave
    <3> QED BY <1>1, <2>4, <3>1, <3>4, <3>5, <3>7, <3>8, <3>9
  <2>6. ASSUME DeleteProfileCommit(c) PROVE AloneInv'
    <3>1. p \in Profiles /\ proc[c].kind = "delete"
      BY <2>3, <2>6 DEF DeleteProfileCommit, At, RequestOK, Idle
    <3>2. /\ profile'[p] = None /\ wanted'[p] = None /\ p \notin seeded'
          /\ \A q \in Profiles : q # p =>
                /\ profile'[q] = profile[q] /\ wanted'[q] = wanted[q] /\ life'[q] = life[q]
                /\ q \in seeded' <=> q \in seeded
      BY <1>1, <2>6, <3>1 DEF DeleteProfileCommit, TypeOK
    <3>3. \A t \in Tokens : token'[t] # None =>
             token'[t] = token[t] /\ token[t].profile \in Profiles \ {p}
      BY <1>1, <2>6 DEF DeleteProfileCommit, TypeOK, Token
    <3>4. NoOrphans'
      BY <1>1, <3>2, <3>3 DEF NoOrphans
    <3>5. UpdatesAddUp'
      BY <1>1, <3>2 DEF UpdatesAddUp
    <3> QED BY <1>1, <2>4, <3>1, <3>2, <3>4, <3>5
  <2>7. ASSUME \/ \E t \in Tokens : CreateTokenSave(c, t)
               \/ RevokeTokenSave(c) \/ SubSave(c)
        PROVE  AloneInv'
    <3>1. UNCHANGED <<profile, seeded, life, wanted>> /\ proc[c].pc = "save"
      BY <2>7 DEF CreateTokenSave, RevokeTokenSave, SubSave, At
    <3>2. p \in AloneOn => profile[p] # None
      BY <2>3, <3>1 DEF ReadCurrent
    <3>3. \A t \in Tokens : token'[t] = token[t] \/ token'[t].profile = p
      <4>1. CASE \E t \in Tokens : CreateTokenSave(c, t)
        BY <1>1, <4>1 DEF CreateTokenSave, TypeOK
      <4>2. CASE RevokeTokenSave(c) \/ SubSave(c)
        <5>1. proc[c].copy = [profile |-> p, revoked |-> FALSE]
          BY <2>3, <4>2 DEF RevokeTokenSave, SubSave, At, RequestOK, Idle
        <5>2. proc[c].copy.profile = p /\ [proc[c].copy EXCEPT !.revoked = TRUE].profile = p
          BY <5>1
        <5> QED BY <1>1, <4>2, <5>2 DEF RevokeTokenSave, SubSave, TypeOK
      <4> QED BY <2>7, <4>1, <4>2
    <3>4. NoOrphans' /\ UpdatesAddUp'
      BY <1>1, <3>1, <3>2, <3>3 DEF NoOrphans, UpdatesAddUp
    <3> QED BY <1>1, <2>4, <3>1, <3>4
  <2> QED BY <1>7, <2>5, <2>6, <2>7 DEF Writes
<1>8. CASE Restart
  BY <1>1, <1>8 DEF Restart, AloneInv, NoOrphans, UpdatesAddUp, ReadCurrent, Exclusive, Idle, Kinds
<1>9. CASE UNCHANGED vars
  BY <1>1, <1>9 DEF vars, AloneInv, NoOrphans, UpdatesAddUp, ReadCurrent, Exclusive
<1> QED BY <1>3, <1>4, <1>5, <1>6, <1>7, <1>8, <1>9, NextCases

THEOREM AloneInvariant == Spec => []AloneInv
<1>1. Init => AloneInv
  BY ProfilesAssumption DEF Init, AloneInv, Exclusive, NoOrphans, UpdatesAddUp, ReadCurrent, Idle, Kinds
<1>2. BaseInv /\ AloneInv /\ [Next]_vars => AloneInv'
  BY StepAlone
<1> QED BY <1>1, <1>2, BaseInvariant, PTL DEF Spec

\* Partial updates that run alone add up, and cascades are complete, whichever
\* statement fails and wherever the process dies.
THEOREM PartialUpdatesAddUp == Spec => []UpdatesAddUp
  BY AloneInvariant, PTL DEF AloneInv

\* A profile and its groups, rules and tokens come and go together.
THEOREM NothingIsOrphaned == Spec => []NoOrphans
  BY AloneInvariant, PTL DEF AloneInv

-----------------------------------------------------------------------------
(* The tokens that requests have in hand.                                    *)

\* Request c has read a token row and is to save it.
Holds(c) == proc[c].kind \in {"revoke", "serve"} /\ proc[c].pc \in {"build", "save"}

TokenInv ==
    /\ \A c \in Clients : Holds(c) =>
          token[proc[c].token] = None \/ token[proc[c].token].profile = proc[c].profile
    /\ \A c, d \in Clients : Holds(c) /\ Holds(d) /\ proc[c].token = proc[d].token =>
          proc[c].profile = proc[d].profile
    /\ \A c \in Clients : Holds(c) /\ proc[c].profile \in AloneOn =>
          token[proc[c].token] = proc[c].copy

LEMMA HeldToken ==
  ASSUME NEW r, RequestOK(r), r.kind \in {"revoke", "serve"}, r.pc \in {"build", "save"}
  PROVE  /\ r.profile \in Profiles /\ r.token \in issued
         /\ r.copy = [profile |-> r.profile, revoked |-> FALSE]
         /\ r.copy \in Token
<1>1. /\ r.profile \in Profiles /\ r.token \in issued
      /\ r.copy = [profile |-> r.profile, revoked |-> FALSE]
  BY DEF RequestOK, Idle
<1> QED BY <1>1 DEF Token

\* A request that goes on with the token it holds, or holds one it just read.
LEMMA HeldStays ==
  ASSUME BaseInv, TokenInv, NEW c \in Clients, Moves(c), RequestOK(proc[c])', token' = token,
         Holds(c)' => \/ /\ Holds(c)
                        /\ proc'[c].token = proc[c].token /\ proc'[c].profile = proc[c].profile
                     \/ token[proc'[c].token] = [profile |-> proc'[c].profile, revoked |-> FALSE]
  PROVE  TokenInv'
<1> USE ProfilesAssumption
<1>1. \A d \in Clients : RequestOK(proc[d]) /\ (d # c => proc'[d] = proc[d])
  BY DEF BaseInv, Moves
<1>2. ASSUME Holds(c)'
      PROVE  /\ proc'[c].copy = [profile |-> proc'[c].profile, revoked |-> FALSE]
             /\ proc'[c].copy \in Token /\ proc'[c].profile \in Profiles
             /\ token[proc'[c].token] = None \/ token[proc'[c].token].profile = proc'[c].profile
             /\ proc'[c].profile \in AloneOn => token[proc'[c].token] = proc'[c].copy
             /\ \A d \in Clients \ {c} : Holds(d) /\ proc[d].token = proc'[c].token =>
                   proc[d].profile = proc'[c].profile
  <2>1. /\ proc'[c].copy = [profile |-> proc'[c].profile, revoked |-> FALSE]
        /\ proc'[c].copy \in Token /\ proc'[c].profile \in Profiles
    <3>1. proc'[c].kind \in {"revoke", "serve"} /\ proc'[c].pc \in {"build", "save"} /\ RequestOK(proc[c])'
      BY <1>2 DEF Holds
    <3>2. RequestOK(proc[c])' <=> \/ proc'[c] = Idle
            \/ /\ proc'[c].profile \in Profiles
               /\ \/ proc'[c].kind = "update" /\ proc'[c].pc = "save" /\ proc'[c].copy \in Settings
                  \/ proc'[c].kind = "delete" /\ proc'[c].pc = "commit"
                  \/ proc'[c].kind = "issue" /\ proc'[c].pc = "save"
                  \/ proc'[c].kind = "serve" /\ proc'[c].pc = "lookup" /\ proc'[c].token \in Tokens
                  \/ /\ \/ proc'[c].kind = "revoke" /\ proc'[c].pc = "save"
                        \/ proc'[c].kind = "serve" /\ proc'[c].pc \in {"build", "save"}
                     /\ proc'[c].token \in issued'
                     /\ proc'[c].copy = [profile |-> proc'[c].profile, revoked |-> FALSE]
      BY DEF RequestOK
    <3>3. /\ proc'[c].profile \in Profiles
          /\ proc'[c].copy = [profile |-> proc'[c].profile, revoked |-> FALSE]
      BY <3>1, <3>2 DEF Idle
    <3> QED BY <3>3 DEF Token
  <2>2. CASE Holds(c) /\ proc'[c].token = proc[c].token /\ proc'[c].profile = proc[c].profile
    <3>1. proc[c].copy = [profile |-> proc[c].profile, revoked |-> FALSE]
      BY <1>1, <2>2, HeldToken DEF Holds
    <3> QED BY <2>1, <2>2, <3>1 DEF TokenInv
  <2>3. CASE token[proc'[c].token] = [profile |-> proc'[c].profile, revoked |-> FALSE]
    <3>1. token[proc'[c].token] \in Token /\ token[proc'[c].token] # None
      BY <2>1, <2>3
    <3>2. token[proc'[c].token].profile = proc'[c].profile
      BY <2>3
    <3>3. \A d \in Clients \ {c} : Holds(d) /\ proc[d].token = proc'[c].token =>
             proc[d].profile = proc'[c].profile
      BY <3>1, <3>2 DEF TokenInv
    <3> QED BY <2>1, <2>3, <3>2, <3>3
  <2> QED BY <1>2, <2>2, <2>3
<1>3. \A d \in Clients \ {c} : Holds(d)' <=> Holds(d)
  BY <1>1 DEF Holds
<1> QED BY <1>1, <1>2, <1>3 DEF TokenInv

THEOREM StepTokens ==
  ASSUME BaseInv, AloneInv, TokenInv, [Next]_vars
  PROVE  TokenInv'
<1> USE ProfilesAssumption
<1>1. TypeOK /\ Exclusive /\ \A c \in Clients : RequestOK(proc[c])
  BY DEF BaseInv, AloneInv
<1>2. ASSUME NEW p \in Profiles, NEW payload \in Payload, CreateProfile(p, payload) PROVE TokenInv'
  BY <1>2 DEF CreateProfile, TokenInv, Holds
<1>3. ASSUME NEW c \in Clients, NEW p \in Profiles, Enter(c, p) PROVE TokenInv'
  <2>1. Moves(c) /\ RequestOK(proc[c])' /\ token' = token
    BY <1>3, EnterBase
  <2>2. Holds(c)' => token[proc'[c].token] = [profile |-> proc'[c].profile, revoked |-> FALSE]
    <3>1. CASE \E t \in Tokens : RevokeTokenRead(c, p, t)
      <4>1. PICK t \in Tokens : /\ token[t] = [profile |-> p, revoked |-> FALSE]
                                /\ Start(c, "revoke", "save", p, t, token[t])
        BY <3>1 DEF RevokeTokenRead
      <4> QED BY <1>1, <4>1 DEF Start, TypeOK
    <3>2. CASE ~ \E t \in Tokens : RevokeTokenRead(c, p, t)
      BY <1>1, <1>3, <3>2 DEF Enter, UpdateProfileRead, DeleteProfileRead, CreateTokenRead,
           SubTokenAuth, Start, Holds, TypeOK
    <3> QED BY <3>1, <3>2
  <2> QED BY <2>1, <2>2, HeldStays
<1>4. ASSUME NEW c \in Clients, Fail(c) PROVE TokenInv'
  <2>1. Moves(c) /\ proc'[c] = Idle /\ token' = token
    BY <1>4, FailBase
  <2>2. RequestOK(proc[c])' /\ ~ Holds(c)'
    BY <2>1 DEF RequestOK, Holds, Idle
  <2> QED BY <2>1, <2>2, HeldStays
<1>5. ASSUME NEW c \in Clients, SubLookup(c) \/ SubBuild(c) PROVE TokenInv'
  <2>1. /\ Moves(c) /\ RequestOK(proc[c])' /\ token' = token /\ proc[c].kind = "serve"
        /\ \/ proc'[c] = Idle
           \/ /\ proc'[c].profile = proc[c].profile /\ proc'[c].token = proc[c].token
              /\ proc[c].pc = "lookup" =>
                    token[proc[c].token] = [profile |-> proc[c].profile, revoked |-> FALSE]
              /\ proc[c].pc \in {"lookup", "build"}
    BY <1>5, ServeBase
  <2>2. Holds(c)' => \/ /\ Holds(c)
                       /\ proc'[c].token = proc[c].token /\ proc'[c].profile = proc[c].profile
                    \/ token[proc'[c].token] = [profile |-> proc'[c].profile, revoked |-> FALSE]
    <3>1. CASE proc'[c] = Idle
      BY <3>1 DEF Holds, Idle
    <3>2. CASE proc'[c] # Idle /\ proc[c].pc = "build"
      BY <2>1, <3>2 DEF Holds
    <3>3. CASE proc'[c] # Idle /\ proc[c].pc = "lookup"
      BY <2>1, <3>3
    <3> QED BY <2>1, <3>1, <3>2, <3>3
  <2> QED BY <2>1, <2>2, HeldStays
<1>6. ASSUME NEW c \in Clients, Writes(c) PROVE TokenInv'
  <2>1. Moves(c) /\ proc'[c] = Idle /\ ~ Holds(c)'
    BY <1>6, WritesBase DEF Holds, Idle
  <2>2. ASSUME NEW d \in Clients \ {c}, Holds(d)
        PROVE  \/ token'[proc[d].token] = token[proc[d].token]
               \/ /\ proc[d].profile \notin AloneOn
                  /\ \/ token'[proc[d].token] = None
                     \/ token'[proc[d].token].profile = proc[d].profile
    <3>1. /\ proc[d].token \in issued /\ proc[d].token \in Tokens /\ proc[d].profile \in Profiles
          /\ proc[d].copy = [profile |-> proc[d].profile, revoked |-> FALSE]
      BY <1>1, <2>2, HeldToken DEF Holds, TypeOK
    <3>2. CASE \E payload \in Payload : UpdateProfileSave(c, payload)
      BY <3>2 DEF UpdateProfileSave
    <3>3. CASE DeleteProfileCommit(c)
      <4>1. /\ proc[c].kind = "delete"
            /\ \/ token'[proc[d].token] = token[proc[d].token]
               \/ /\ token'[proc[d].token] = None /\ token[proc[d].token] # None
                  /\ token[proc[d].token].profile = proc[c].profile
        BY <3>1, <3>3 DEF DeleteProfileCommit, At
      <4>2. CASE token'[proc[d].token] = None /\ token[proc[d].token] # None
                 /\ token[proc[d].token].profile = proc[c].profile
        <5>1. proc[c].profile = proc[d].profile
          BY <2>2, <4>2 DEF TokenInv
        <5>2. proc[d].profile \notin AloneOn
          BY <1>1, <4>1, <5>1 DEF Exclusive
        <5> QED BY <4>2, <5>2
      <4> QED BY <4>1, <4>2
    <3>4. CASE \E t \in Tokens : CreateTokenSave(c, t)
      BY <1>1, <3>1, <3>4 DEF CreateTokenSave, TypeOK
    <3>5. CASE RevokeTokenSave(c) \/ SubSave(c)
      <4>1. /\ Holds(c) /\ proc[c].copy = [profile |-> proc[c].profile, revoked |-> FALSE]
            /\ proc[c].token \in Tokens
        <5>1. Holds(c)
          BY <3>5 DEF RevokeTokenSave, SubSave, At, Holds
        <5> QED BY <1>1, <5>1, HeldToken DEF Holds, TypeOK
      <4>2. CASE proc[c].token # proc[d].token
        BY <1>1, <3>1, <3>5, <4>2 DEF RevokeTokenSave, SubSave, TypeOK
      <4>3. CASE proc[c].token = proc[d].token
        <5>1. proc[c].profile = proc[d].profile
          BY <2>2, <4>1, <4>3 DEF TokenInv
        <5>2. [proc[c].copy EXCEPT !.revoked = TRUE].profile = proc[c].profile
              /\ proc[c].copy.profile = proc[c].profile
          BY <4>1
        <5>3. CASE RevokeTokenSave(c)
          <6>1. proc[c].kind = "revoke" /\ token'[proc[d].token] = [proc[c].copy EXCEPT !.revoked = TRUE]
            BY <1>1, <3>1, <4>3, <5>3 DEF RevokeTokenSave, At, TypeOK
          <6>2. proc[d].profile \notin AloneOn
            BY <1>1, <5>1, <6>1 DEF Exclusive
          <6> QED BY <5>1, <5>2, <6>1, <6>2
        <5>4. CASE SubSave(c)
          <6>1. token' = token \/ token'[proc[d].token] = proc[c].copy
            BY <1>1, <3>1, <4>3, <5>4 DEF SubSave, TypeOK
          <6>2. proc[d].profile \in AloneOn => token[proc[d].token] = proc[c].copy
            BY <2>2, <3>1, <4>1, <5>1 DEF TokenInv
          <6> QED BY <5>1, <5>2, <6>1, <6>2
        <5> QED BY <3>5, <5>3, <5>4
      <4> QED BY <4>2, <4>3
    <3> QED BY <1>6, <3>2, <3>3, <3>4, <3>5 DEF Writes
  <2>3. \A d \in Clients \ {c} : proc'[d] = proc[d] /\ (Holds(d)' <=> Holds(d))
    BY <2>1 DEF Moves, Holds
  <2>4. ASSUME NEW d \in Clients, Holds(d)'
        PROVE  /\ d # c /\ Holds(d) /\ proc'[d] = proc[d]
               /\ token'[proc[d].token] = None \/ token'[proc[d].token].profile = proc[d].profile
               /\ proc[d].profile \in AloneOn => token'[proc[d].token] = proc[d].copy
    BY <2>1, <2>2, <2>3, <2>4 DEF TokenInv
  <2> QED BY <2>4 DEF TokenInv
<1>7. CASE Restart
  BY <1>7 DEF Restart, TokenInv, Holds, Idle
<1>8. CASE UNCHANGED vars
  BY <1>8 DEF vars, TokenInv, Holds
<1> QED BY <1>2, <1>3, <1>4, <1>5, <1>6, <1>7, <1>8, NextCases

THEOREM TokenInvariant == Spec => []TokenInv
<1>1. Init => TokenInv
  BY ProfilesAssumption DEF Init, TokenInv, Holds, Idle
<1>2. BaseInv /\ AloneInv /\ TokenInv /\ [Next]_vars => TokenInv'
  BY StepTokens
<1> QED BY <1>1, <1>2, BaseInvariant, AloneInvariant, PTL DEF Spec

\* Where changes run alone, nothing is served on a token that is revoked,
\* deleted or another profile's by the time the configuration is sent.
THEOREM OnlyHoldersAreServed == Spec => ServedToHolders
<1>1. ASSUME BaseInv, AloneInv, TokenInv, NEW c \in Clients, SubSave(c), proc[c].profile \in AloneOn
      PROVE  /\ token[proc[c].token] = [profile |-> proc[c].profile, revoked |-> FALSE]
             /\ profile[proc[c].profile] # None
  <2>1. Holds(c) /\ RequestOK(proc[c]) /\ ReadCurrent(c) /\ proc[c].pc = "save"
    BY <1>1 DEF SubSave, At, Holds, BaseInv, AloneInv
  <2>2. proc[c].copy = [profile |-> proc[c].profile, revoked |-> FALSE]
    BY <2>1, HeldToken DEF Holds
  <2>3. token[proc[c].token] = proc[c].copy
    BY <1>1, <2>1 DEF TokenInv
  <2> QED BY <1>1, <2>1, <2>2, <2>3 DEF ReadCurrent
<1>2. BaseInv /\ AloneInv /\ TokenInv =>
        \A c \in Clients : SubSave(c) /\ proc[c].profile \in AloneOn =>
            /\ token[proc[c].token] = [profile |-> proc[c].profile, revoked |-> FALSE]
            /\ profile[proc[c].profile] # None
  BY <1>1
<1> QED BY <1>2, BaseInvariant, AloneInvariant, TokenInvariant, PTL DEF ServedToHolders

-----------------------------------------------------------------------------
(* Profiles implements Grants.                                               *)

LEMMA InitGrants == Init => Promised!Init
  BY ProfilesAssumption
     DEF Init, Promised!Init, SettingsSeen, EquippedSeen, ListedSeen, OpensSeen, UsedSeen, Watched

\* What does not show: rows of other profiles, and requests in flight.
LEMMA Unseen ==
  ASSUME BaseInv, BaseInv',
         \A p \in AloneOn : /\ profile'[p] = profile[p] /\ life'[p] = life[p]
                            /\ p \in seeded' <=> p \in seeded,
         \A t \in Tokens : token'[t] = token[t] \/ (~ Watched(t) /\ ~ Watched(t)')
  PROVE  UNCHANGED <<SettingsSeen, EquippedSeen, ListedSeen, OpensSeen, UsedSeen>>
<1>1. UNCHANGED <<SettingsSeen, EquippedSeen, UsedSeen>>
  BY DEF SettingsSeen, EquippedSeen, UsedSeen
<1>2. \A t \in Tokens : Watched(t)' <=> Watched(t)
  BY DEF Watched
<1>3. UNCHANGED <<ListedSeen, OpensSeen>>
  BY <1>2 DEF ListedSeen, OpensSeen, Watched
<1> QED BY <1>1, <1>3

\* Rows are not touched: the step shows nowhere.
LEMMA RowsStay ==
  ASSUME UNCHANGED <<profile, seeded, token, life, issued>>
  PROVE  UNCHANGED Promised!vars
  BY DEF Promised!vars, SettingsSeen, EquippedSeen, ListedSeen, OpensSeen, UsedSeen, Watched

LEMMA CreateGrants ==
  ASSUME BaseInv, BaseInv', AloneInv, NEW p \in Profiles, NEW payload \in Payload,
         CreateProfile(p, payload)
  PROVE  [Promised!Next]_(Promised!vars)
<1> USE ProfilesAssumption
<1>1. TypeOK /\ GormCreated(payload) \in Settings /\ UNCHANGED <<token, issued>>
  BY DEF BaseInv, CreateProfile, GormCreated, Settings
<1>2. UNCHANGED <<ListedSeen, OpensSeen>>
  BY <1>1 DEF ListedSeen, OpensSeen, Watched
<1>3. CASE p \in AloneOn
  <2>1. p \notin UsedSeen
    BY DEF CreateProfile, UsedSeen
  <2>2. SettingsSeen' = [SettingsSeen EXCEPT ![p] = GormCreated(payload)]
    BY <1>1, <1>3 DEF CreateProfile, SettingsSeen, TypeOK
  <2>3. EquippedSeen' = EquippedSeen \cup {p}
    BY <1>3 DEF CreateProfile, EquippedSeen
  <2>4. UsedSeen' = UsedSeen \cup {p}
    BY <1>1, <1>3 DEF CreateProfile, UsedSeen, TypeOK
  <2>5. Promised!Create(p, GormCreated(payload))
    BY <1>1, <1>2, <2>1, <2>2, <2>3, <2>4 DEF Promised!Create
  <2> QED BY <1>1, <1>3, <2>5 DEF Promised!Next
<1>4. CASE p \notin AloneOn
  <2>1. UNCHANGED <<SettingsSeen, EquippedSeen, UsedSeen>>
    BY <1>1, <1>4 DEF CreateProfile, SettingsSeen, EquippedSeen, UsedSeen, TypeOK
  <2> QED BY <1>1, <1>2, <2>1 DEF Promised!vars
<1> QED BY <1>3, <1>4

LEMMA UpdateGrants ==
  ASSUME BaseInv, BaseInv', AloneInv, NEW c \in Clients, NEW payload \in Payload,
         UpdateProfileSave(c, payload)
  PROVE  [Promised!Next]_(Promised!vars)
<1> USE ProfilesAssumption
<1>1. /\ TypeOK /\ RequestOK(proc[c]) /\ ReadCurrent(c)
      /\ proc[c].kind = "update" /\ proc[c].pc = "save"
      /\ UNCHANGED <<seeded, token, life, issued>>
  BY DEF BaseInv, AloneInv, UpdateProfileSave, At
<1>2. UNCHANGED <<EquippedSeen, ListedSeen, OpensSeen, UsedSeen>>
  BY <1>1 DEF EquippedSeen, ListedSeen, OpensSeen, UsedSeen, Watched
<1>3. PICK p \in Profiles : p = proc[c].profile
  BY <1>1 DEF RequestOK, Idle
<1>4. profile' = [profile EXCEPT ![p] = Stored(p, Merged(proc[c].copy, payload))]
  BY <1>3 DEF UpdateProfileSave
<1>5. CASE p \in AloneOn
  <2>1. profile[p] # None /\ profile[p] = proc[c].copy
    BY <1>1, <1>3, <1>5 DEF ReadCurrent
  <2>2. profile'[p] = Merged(profile[p], payload)
    BY <1>1, <1>4, <2>1 DEF Stored, TypeOK
  <2>3. SettingsSeen[p] = profile[p]
    BY <1>5 DEF SettingsSeen
  <2>4. SettingsSeen' = [SettingsSeen EXCEPT ![p] = Merged(SettingsSeen[p], payload)]
    <3>1. \A q \in AloneOn : q # p => profile'[q] = profile[q]
      BY <1>1, <1>4 DEF TypeOK
    <3> QED BY <1>5, <2>2, <2>3, <3>1 DEF SettingsSeen
  <2>5. Promised!Update(p, payload)
    BY <1>1, <1>2, <2>1, <2>3, <2>4 DEF Promised!Update, Merged
  <2> QED BY <1>5, <2>5 DEF Promised!Next
<1>6. CASE p \notin AloneOn
  <2>1. UNCHANGED SettingsSeen
    BY <1>1, <1>4, <1>6 DEF SettingsSeen, TypeOK
  <2> QED BY <1>1, <1>2, <2>1 DEF Promised!vars
<1> QED BY <1>5, <1>6

LEMMA DeleteGrants ==
  ASSUME BaseInv, BaseInv', AloneInv, NEW c \in Clients, DeleteProfileCommit(c)
  PROVE  [Promised!Next]_(Promised!vars)
<1> USE ProfilesAssumption
<1>1. /\ TypeOK /\ RequestOK(proc[c]) /\ ReadCurrent(c)
      /\ proc[c].kind = "delete" /\ proc[c].pc = "commit" /\ issued' = issued
  BY DEF BaseInv, AloneInv, DeleteProfileCommit, At
<1>2. PICK p \in Profiles : p = proc[c].profile
  BY <1>1 DEF RequestOK, Idle
<1>3. /\ profile' = [profile EXCEPT ![p] = None] /\ seeded' = seeded \ {p}
      /\ life' = [life EXCEPT ![p] = "deleted"]
      /\ \A t \in Tokens :
            token'[t] = IF token[t] # None /\ token[t].profile = p THEN None ELSE token[t]
  BY <1>2 DEF DeleteProfileCommit
<1>4. CASE p \in AloneOn
  <2>1. profile[p] # None /\ life[p] # "unused"
    BY <1>1, <1>2, <1>4 DEF ReadCurrent, AloneInv
  <2>2. SettingsSeen[p] # None /\ SettingsSeen' = [SettingsSeen EXCEPT ![p] = None]
    BY <1>1, <1>3, <1>4, <2>1 DEF SettingsSeen, TypeOK
  <2>3. EquippedSeen' = EquippedSeen \ {p}
    BY <1>3 DEF EquippedSeen
  <2>4. UsedSeen' = UsedSeen
    BY <1>1, <1>3, <2>1 DEF UsedSeen, TypeOK
  <2>5. ASSUME NEW t \in Tokens
        PROVE  /\ ListedSeen'[t] = IF ListedSeen[t] = p THEN None ELSE ListedSeen[t]
               /\ OpensSeen'[t] = IF OpensSeen[t] = p THEN None ELSE OpensSeen[t]
    BY <1>3, <1>4 DEF ListedSeen, OpensSeen, Watched
  <2>6. /\ ListedSeen' = [t \in Tokens |-> IF ListedSeen[t] = p THEN None ELSE ListedSeen[t]]
        /\ OpensSeen' = [t \in Tokens |-> IF OpensSeen[t] = p THEN None ELSE OpensSeen[t]]
    BY <2>5 DEF ListedSeen, OpensSeen
  <2>7. Promised!Delete(p)
    BY <1>1, <2>2, <2>3, <2>4, <2>6 DEF Promised!Delete
  <2> QED BY <1>4, <2>7 DEF Promised!Next
<1>5. CASE p \notin AloneOn
  <2>1. \A q \in AloneOn : /\ profile'[q] = profile[q] /\ life'[q] = life[q]
                           /\ q \in seeded' <=> q \in seeded
    BY <1>1, <1>3, <1>5 DEF TypeOK
  <2>2. \A t \in Tokens : token'[t] = token[t] \/ (~ Watched(t) /\ ~ Watched(t)')
    BY <1>3, <1>5 DEF Watched
  <2> QED BY <1>1, <2>1, <2>2, Unseen DEF Promised!vars
<1> QED BY <1>4, <1>5

LEMMA IssueGrants ==
  ASSUME BaseInv, BaseInv', AloneInv, NEW c \in Clients, NEW t \in Tokens, CreateTokenSave(c, t)
  PROVE  [Promised!Next]_(Promised!vars)
<1> USE ProfilesAssumption
<1>1. /\ TypeOK /\ RequestOK(proc[c]) /\ ReadCurrent(c)
      /\ proc[c].kind = "issue" /\ proc[c].pc = "save"
      /\ t \notin issued /\ issued' = issued \cup {t} /\ token[t] = None
      /\ UNCHANGED <<profile, seeded, life>>
  BY DEF BaseInv, AloneInv, CreateTokenSave, At
<1>2. PICK p \in Profiles : p = proc[c].profile
  BY <1>1 DEF RequestOK, Idle
<1>3. token' = [token EXCEPT ![t] = [profile |-> p, revoked |-> FALSE]]
  BY <1>2 DEF CreateTokenSave
<1>4. [profile |-> p, revoked |-> FALSE] # None
  <2>1. [profile |-> p, revoked |-> FALSE] \in Token
    BY DEF Token
  <2> QED BY <2>1
<1>5. UNCHANGED <<SettingsSeen, EquippedSeen, UsedSeen>>
  BY <1>1 DEF SettingsSeen, EquippedSeen, UsedSeen
<1>6. CASE p \in AloneOn
  <2>1. SettingsSeen[p] # None
    BY <1>1, <1>2, <1>6 DEF ReadCurrent, SettingsSeen
  <2>2. Watched(t)' /\ token'[t].profile = p /\ ~ token'[t].revoked
    BY <1>1, <1>3, <1>4, <1>6 DEF Watched, TypeOK
  <2>3. \A u \in Tokens : u # t => token'[u] = token[u] /\ (Watched(u)' <=> Watched(u))
    BY <1>1, <1>3 DEF Watched, TypeOK
  <2>4. ListedSeen' = [ListedSeen EXCEPT ![t] = p] /\ OpensSeen' = [OpensSeen EXCEPT ![t] = p]
    BY <2>2, <2>3 DEF ListedSeen, OpensSeen
  <2>5. Promised!Issue(p, t)
    BY <1>1, <1>5, <2>1, <2>4 DEF Promised!Issue
  <2> QED BY <1>6, <2>5 DEF Promised!Next
<1>7. CASE p \notin AloneOn
  <2>1. \A u \in Tokens : token'[u] = token[u] \/ (~ Watched(u) /\ ~ Watched(u)')
    BY <1>1, <1>3, <1>7 DEF Watched, TypeOK
  <2>2. UNCHANGED <<ListedSeen, OpensSeen>>
    BY <1>1, <2>1, Unseen
  <2>3. Promised!IssueElsewhere(t)
    BY <1>1, <1>5, <2>2 DEF Promised!IssueElsewhere
  <2> QED BY <2>3 DEF Promised!Next
<1> QED BY <1>6, <1>7

\* A token is saved: revoked, or as it was when its holder was served.
LEMMA TokenSaveGrants ==
  ASSUME BaseInv, BaseInv', AloneInv, TokenInv, NEW c \in Clients, RevokeTokenSave(c) \/ SubSave(c)
  PROVE  [Promised!Next]_(Promised!vars)
<1> USE ProfilesAssumption
<1>1. /\ TypeOK /\ RequestOK(proc[c]) /\ Holds(c)
      /\ UNCHANGED <<profile, seeded, life, issued>>
  BY DEF BaseInv, RevokeTokenSave, SubSave, At, Holds
<1>2. PICK p \in Profiles : p = proc[c].profile
  BY <1>1, HeldToken DEF Holds
<1>3. PICK t \in Tokens : t = proc[c].token
  BY <1>1, HeldToken DEF Holds, TypeOK
<1>4. proc[c].copy = [profile |-> p, revoked |-> FALSE] /\ proc[c].copy # None
  BY <1>1, <1>2, HeldToken DEF Holds
<1>5. UNCHANGED <<SettingsSeen, EquippedSeen, UsedSeen>>
  BY <1>1 DEF SettingsSeen, EquippedSeen, UsedSeen
<1>6. CASE p \in AloneOn
  <2>1. token[t] = proc[c].copy
    BY <1>1, <1>2, <1>3, <1>6 DEF TokenInv
  <2>2. CASE SubSave(c)
    <3>1. token' = token
      BY <1>1, <1>3, <2>1, <2>2 DEF SubSave, TypeOK
    <3> QED BY <1>1, <3>1, RowsStay
  <2>3. CASE RevokeTokenSave(c)
    <3>1. token' = [token EXCEPT ![t] = [proc[c].copy EXCEPT !.revoked = TRUE]]
      BY <1>3, <2>3 DEF RevokeTokenSave
    <3>2. /\ [proc[c].copy EXCEPT !.revoked = TRUE].profile = p
          /\ [proc[c].copy EXCEPT !.revoked = TRUE].revoked
      BY <1>4
    <3>3. [proc[c].copy EXCEPT !.revoked = TRUE] # None
      <4>1. \A r \in Token : [r EXCEPT !.revoked = TRUE] \in Token
        BY DEF Token
      <4>2. proc[c].copy \in Token
        BY <1>1, HeldToken DEF Holds
      <4> QED BY <4>1, <4>2
    <3>4. token'[t] # None /\ token'[t].profile = p /\ token'[t].revoked
      BY <1>1, <3>1, <3>2, <3>3 DEF TypeOK
    <3>5. \A u \in Tokens : u # t => token'[u] = token[u] /\ (Watched(u)' <=> Watched(u))
      BY <1>1, <3>1 DEF Watched, TypeOK
    <3>6. /\ Watched(t) /\ token[t].profile = p /\ ~ token[t].revoked
          /\ Watched(t)' /\ token'[t].profile = p /\ token'[t].revoked
      BY <1>4, <1>6, <2>1, <3>4 DEF Watched
    <3>7. ListedSeen' = ListedSeen /\ OpensSeen' = [OpensSeen EXCEPT ![t] = None]
      BY <3>5, <3>6 DEF ListedSeen, OpensSeen
    <3>8. OpensSeen[t] # None
      BY <3>6 DEF OpensSeen
    <3>9. Promised!Revoke(t)
      BY <1>1, <1>5, <3>7, <3>8 DEF Promised!Revoke
    <3> QED BY <3>9 DEF Promised!Next
  <2> QED BY <2>2, <2>3
<1>7. CASE p \notin AloneOn
  <2>1. token' = token \/ \E r \in {proc[c].copy, [proc[c].copy EXCEPT !.revoked = TRUE]} :
                             token' = [token EXCEPT ![t] = r]
    BY <1>3 DEF RevokeTokenSave, SubSave
  <2>2. \A r \in {proc[c].copy, [proc[c].copy EXCEPT !.revoked = TRUE]} : r.profile = p
    BY <1>4
  <2>3. token[t] = None \/ token[t].profile = p
    BY <1>1, <1>2, <1>3 DEF TokenInv
  <2>4. \A u \in Tokens : token'[u] = token[u] \/ (~ Watched(u) /\ ~ Watched(u)')
    BY <1>1, <1>7, <2>1, <2>2, <2>3 DEF Watched, TypeOK
  <2>5. UNCHANGED <<ListedSeen, OpensSeen>>
    BY <1>1, <2>4, Unseen
  <2> QED BY <1>1, <1>5, <2>5 DEF Promised!vars
<1> QED BY <1>6, <1>7

THEOREM StepGrants ==
  ASSUME BaseInv, BaseInv', AloneInv, TokenInv, [Next]_vars
  PROVE  [Promised!Next]_(Promised!vars)
<1>1. ASSUME NEW p \in Profiles, NEW payload \in Payload, CreateProfile(p, payload)
      PROVE  [Promised!Next]_(Promised!vars)
  BY <1>1, CreateGrants
<1>2. ASSUME NEW c \in Clients, NEW p \in Profiles, Enter(c, p)
      PROVE  [Promised!Next]_(Promised!vars)
  <2>1. UNCHANGED <<profile, seeded, token, life, issued>>
    BY <1>2, EnterBase
  <2> QED BY <2>1, RowsStay
<1>3. ASSUME NEW c \in Clients, Fail(c) \/ SubLookup(c) \/ SubBuild(c)
      PROVE  [Promised!Next]_(Promised!vars)
  <2>1. UNCHANGED <<profile, seeded, token, life, issued>>
    BY <1>3, FailBase, ServeBase
  <2> QED BY <2>1, RowsStay
<1>4. ASSUME NEW c \in Clients, Writes(c)
      PROVE  [Promised!Next]_(Promised!vars)
  BY <1>4, UpdateGrants, DeleteGrants, IssueGrants, TokenSaveGrants DEF Writes
<1>5. CASE Restart \/ UNCHANGED vars
  BY <1>5, RowsStay DEF Restart, vars
<1> QED BY <1>1, <1>2, <1>3, <1>4, <1>5, NextCases

\* Reads, whole-row saves, failures and restarts of the profile and token
\* handlers add up to the single steps of Grants where changes run alone, and
\* what overlaps on the other profiles does not reach these.
THEOREM ImplementsGrants == Spec => KeepsGrants
<1>1. BaseInv /\ BaseInv' /\ AloneInv /\ TokenInv /\ [Next]_vars => [Promised!Next]_(Promised!vars)
  BY StepGrants
<1> QED BY <1>1, InitGrants, BaseInvariant, AloneInvariant, TokenInvariant, PTL
        DEF Spec, KeepsGrants, Promised!Spec

\* What Grants gives at once: where changes run alone, no token is valid again
\* after its revocation or with another profile, and no deleted profile is back.
THEOREM EndsStayFinal == Spec => Promised!EndsAreFinal
<1>1. ASSUME BaseInv, Promised!Next
      PROVE  /\ \A u \in issued : OpensSeen[u] = None => OpensSeen'[u] = None
             /\ \A q \in UsedSeen : SettingsSeen[q] = None => SettingsSeen'[q] = None
  <2>1. /\ issued \subseteq Tokens /\ UsedSeen \subseteq AloneOn
        /\ SettingsSeen = [p \in AloneOn |-> SettingsSeen[p]]
        /\ OpensSeen = [t \in Tokens |-> OpensSeen[t]]
    BY <1>1 DEF BaseInv, TypeOK, UsedSeen, SettingsSeen, OpensSeen
  <2>2. ASSUME NEW p \in AloneOn, NEW v \in Settings, Promised!Create(p, v) 
        PROVE  /\ \A u \in issued : OpensSeen[u] = None => OpensSeen'[u] = None
             /\ \A q \in UsedSeen : SettingsSeen[q] = None => SettingsSeen'[q] = None
    BY <2>1, <2>2 DEF Promised!Create
  <2>3. ASSUME NEW p \in AloneOn, NEW change \in Payload, Promised!Update(p, change) 
        PROVE  /\ \A u \in issued : OpensSeen[u] = None => OpensSeen'[u] = None
             /\ \A q \in UsedSeen : SettingsSeen[q] = None => SettingsSeen'[q] = None
    BY <2>1, <2>3 DEF Promised!Update
  <2>4. ASSUME NEW p \in AloneOn, Promised!Delete(p) 
        PROVE  /\ \A u \in issued : OpensSeen[u] = None => OpensSeen'[u] = None
             /\ \A q \in UsedSeen : SettingsSeen[q] = None => SettingsSeen'[q] = None
    BY <2>1, <2>4 DEF Promised!Delete
  <2>5. ASSUME NEW p \in AloneOn, NEW t \in Tokens, Promised!Issue(p, t) 
        PROVE  /\ \A u \in issued : OpensSeen[u] = None => OpensSeen'[u] = None
             /\ \A q \in UsedSeen : SettingsSeen[q] = None => SettingsSeen'[q] = None
    BY <2>1, <2>5 DEF Promised!Issue
  <2>6. ASSUME NEW t \in Tokens, Promised!IssueElsewhere(t) 
        PROVE  /\ \A u \in issued : OpensSeen[u] = None => OpensSeen'[u] = None
             /\ \A q \in UsedSeen : SettingsSeen[q] = None => SettingsSeen'[q] = None
    BY <2>6 DEF Promised!IssueElsewhere
  <2>7. ASSUME NEW t \in Tokens, Promised!Revoke(t) 
        PROVE  /\ \A u \in issued : OpensSeen[u] = None => OpensSeen'[u] = None
             /\ \A q \in UsedSeen : SettingsSeen[q] = None => SettingsSeen'[q] = None
    BY <2>1, <2>7 DEF Promised!Revoke
  <2> QED BY <1>1, <2>2, <2>3, <2>4, <2>5, <2>6, <2>7 DEF Promised!Next
<1>2. BaseInv /\ [Promised!Next]_(Promised!vars) =>
        [/\ \A t \in issued : OpensSeen[t] = None => OpensSeen'[t] = None
         /\ \A p \in UsedSeen : SettingsSeen[p] = None => SettingsSeen'[p] = None]_(Promised!vars)
  BY <1>1
<1> QED BY <1>2, ImplementsGrants, BaseInvariant, PTL DEF KeepsGrants, Promised!Spec, Promised!EndsAreFinal
=============================================================================
