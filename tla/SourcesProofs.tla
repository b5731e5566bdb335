---------------------------- MODULE SourcesProofs ----------------------------
(***************************************************************************)
(* Proofs about Sources, for any number of subscriptions, groups, profiles *)
(* and requests.                                                           *)
(***************************************************************************)
EXTENDS Sources, TLAPS

-----------------------------------------------------------------------------
(* Types.                                                                  *)

\* A request in its slot: what it was told is typed, and a row it may write
\* back has an id that was handed out.
RequestOK ==
    \A c \in Clients :
        /\ proc[c].pc = "idle" \/ proc[c].item \in Items
        /\ proc[c].pc = "item" => <<proc[c].owner, proc[c].item>> \in Links /\ proc[c].kind \in {"add", "remove"}
        /\ proc[c].pc = "write" /\ proc[c].kind = "add" => <<proc[c].owner, proc[c].item>> \in Links
        /\ proc[c].pc = "write" /\ proc[c].kind \in {"save", "add"} => proc[c].item \in used

TypeInv == TypeOK /\ RequestOK

LEMMA LinkTyped == \A l \in Links : l = <<l[1], l[2]>> /\ l[1] \in Items /\ l[2] \in Items
BY DEF Links, Items

LEMMA StartTyped ==
  ASSUME TypeInv, NEW c \in Clients, NEW kind \in Kinds, NEW pc \in {"item", "write"},
         NEW o \in Items \cup {None}, NEW x \in Items, Start(c, kind, pc, o, x),
         pc = "item" => <<o, x>> \in Links /\ kind \in {"add", "remove"},
         pc = "write" => kind # "add" /\ x \in used,
         used' = used
  PROVE  proc' \in [Clients -> Request] /\ RequestOK'
<1>1. proc' = [proc EXCEPT ![c] = [kind |-> kind, pc |-> pc, owner |-> o, item |-> x]]
      /\ proc \in [Clients -> Request]
  BY DEF Start, TypeInv, TypeOK
<1>2. [kind |-> kind, pc |-> pc, owner |-> o, item |-> x] \in Request
  BY DEF Request
<1>3. proc' \in [Clients -> Request]
  BY <1>1, <1>2
<1>4. proc'[c] = [kind |-> kind, pc |-> pc, owner |-> o, item |-> x]
      /\ \A q \in Clients \ {c} : proc'[q] = proc[q]
  BY <1>1
<1> QED BY <1>3, <1>4 DEF TypeInv, RequestOK

LEMMA FinishTyped ==
  ASSUME TypeInv, NEW c \in Clients, Finish(c), used' = used
  PROVE  proc' \in [Clients -> Request] /\ RequestOK'
<1>1. Idle \in Request
  BY DEF Idle, Request
<1>2. proc' = [proc EXCEPT ![c] = Idle] /\ proc \in [Clients -> Request]
  BY DEF Finish, TypeInv, TypeOK
<1>3. proc'[c] = Idle /\ \A q \in Clients \ {c} : proc'[q] = proc[q]
  BY <1>2
<1>4. proc' \in [Clients -> Request]
  BY <1>1, <1>2
<1> QED BY <1>3, <1>4 DEF TypeInv, RequestOK, Idle

LEMMA GotoTyped ==
  ASSUME TypeInv, NEW c \in Clients, NEW pc \in {"write", "delrow"}, proc[c].pc # "idle",
         proc' = [proc EXCEPT ![c].pc = pc], used' = used,
         pc = "write" => proc[c].pc = "item" /\ proc[c].item \in used
  PROVE  proc' \in [Clients -> Request] /\ RequestOK'
<1>1. proc \in [Clients -> Request] /\ proc[c] \in Request
  BY DEF TypeInv, TypeOK
<1>2. [proc[c] EXCEPT !.pc = pc] \in Request
  BY <1>1 DEF Request
<1>3. proc' \in [Clients -> Request]
  BY <1>1, <1>2
<1>4. proc'[c].pc = pc /\ proc'[c].kind = proc[c].kind
      /\ proc'[c].owner = proc[c].owner /\ proc'[c].item = proc[c].item
      /\ \A q \in Clients \ {c} : proc'[q] = proc[q]
  BY <1>1 DEF Request
<1> QED BY <1>3, <1>4 DEF TypeInv, RequestOK

\* What a request leaves behind.
HandledWell ==
    /\ rows' \subseteq used' /\ used' \subseteq Items /\ links' \subseteq Links
    /\ proc' \in [Clients -> Request] /\ RequestOK'
    /\ build' = build

LEMMA HandleTyped ==
  ASSUME TypeInv, NEW c \in Clients, Handle(c)
  PROVE  HandledWell
<1> USE DEF TypeInv, TypeOK
<1>1. proc[c] \in Request /\ rows \subseteq used /\ used \subseteq Items /\ links \subseteq Links
  OBVIOUS
<1>2. ASSUME NEW x \in Items, RowRead(c, x) PROVE HandledWell
  BY <1>1, <1>2, StartTyped DEF RowRead, Kinds, HandledWell
<1>3. CASE RowSave(c)
  <2>1. rows' \subseteq used
    BY <1>1, <1>3 DEF RowSave, At, RequestOK
  <2> QED BY <1>1, <1>3, <2>1, FinishTyped DEF RowSave, HandledWell
<1>4. ASSUME NEW g \in Groups, DeleteSubscriptionGroupRead(c, g) PROVE HandledWell
  BY <1>1, <1>4, StartTyped DEF DeleteSubscriptionGroupRead, Kinds, HandledWell, Items
<1>5. CASE DeleteSubscriptionGroupClear(c)
  BY <1>1, <1>5, GotoTyped DEF DeleteSubscriptionGroupClear, At, HandledWell
<1>6. CASE DeleteSubscriptionGroupRow(c)
  BY <1>1, <1>6, FinishTyped DEF DeleteSubscriptionGroupRow, HandledWell
<1>7. ASSUME NEW p \in Profiles, DeleteProfileRead(c, p) PROVE HandledWell
  BY <1>1, <1>7, StartTyped DEF DeleteProfileRead, Kinds, HandledWell, Items
<1>8. CASE DeleteProfile(c)
  BY <1>1, <1>8, FinishTyped DEF DeleteProfile, HandledWell
<1>9. ASSUME NEW kind \in {"add", "remove"}, NEW l \in Links, OwnerRead(c, kind, l[1], l[2])
      PROVE  HandledWell
  BY <1>1, <1>9, StartTyped, LinkTyped DEF OwnerRead, Kinds, HandledWell
<1>10. CASE ItemRead(c)
  <2>1. CASE proc[c].item \in rows
    BY <1>1, <1>10, <2>1, GotoTyped DEF ItemRead, HandledWell
  <2>2. CASE proc[c].item \notin rows
    BY <1>1, <1>10, <2>2, FinishTyped DEF ItemRead, HandledWell
  <2> QED BY <2>1, <2>2
<1>11. CASE Append(c)
  <2>1. proc[c].item \in used /\ <<proc[c].owner, proc[c].item>> \in Links
    BY <1>11 DEF Append, At, RequestOK
  <2>2. rows' \subseteq used /\ links' \subseteq Links
    BY <1>1, <1>11, <2>1 DEF Append
  <2> QED BY <1>1, <1>11, <2>2, FinishTyped DEF Append, HandledWell
<1>12. CASE Remove(c)
  BY <1>1, <1>12, FinishTyped DEF Remove, HandledWell
<1> QED BY <1>2, <1>3, <1>4, <1>5, <1>6, <1>7, <1>8, <1>9, <1>10, <1>11, <1>12 DEF Handle

LEMMA BuildStepTyped ==
  ASSUME TypeInv, BuildStep
  PROVE  build' \in Build
<1>1. build \in Build
  BY DEF TypeInv, TypeOK
<1>2. NoBuild \in Build
  BY DEF NoBuild, Build, BuildPCs
<1>3. ASSUME NEW p \in Profiles, BuildStart(p) PROVE build' \in Build
  BY <1>2, <1>3 DEF BuildStart, Build, BuildPCs
<1>4. CASE BuildGroupLinks
  BY <1>1, <1>4 DEF BuildGroupLinks, Build, BuildPCs
<1>5. CASE BuildGroups
  BY <1>1, <1>5 DEF BuildGroups, Build, BuildPCs
<1>6. CASE BuildMemberLinks
  BY <1>1, <1>6 DEF BuildMemberLinks, Build, BuildPCs
<1>7. CASE BuildMembers
  BY <1>1, <1>7 DEF BuildMembers, Build, BuildPCs
<1>8. CASE BuildDirectLinks
  BY <1>1, <1>8 DEF BuildDirectLinks, Build, BuildPCs
<1>9. CASE BuildDirect
  BY <1>1, <1>9 DEF BuildDirect, Build, BuildPCs
<1> QED BY <1>2, <1>3, <1>4, <1>5, <1>6, <1>7, <1>8, <1>9 DEF BuildStep, BuildEnd

LEMMA StepTyped ==
  ASSUME TypeInv, [Next]_vars
  PROVE  TypeInv'
<1> USE DEF TypeInv, TypeOK
<1>1. CASE UNCHANGED vars
  BY <1>1 DEF vars, RequestOK
<1>2. ASSUME Next, links' \subseteq Links PROVE kept' \subseteq Links /\ ever' \subseteq Links
  BY <1>2 DEF Next, Observe, Intact
<1>3. ASSUME Next, NEW x \in Items, CreateRow(x) PROVE TypeInv'
  BY <1>2, <1>3 DEF CreateRow, RequestOK
<1>4. ASSUME Next, NEW s \in Subs, DeleteSubscription(s) PROVE TypeInv'
  BY <1>2, <1>4 DEF DeleteSubscription, RequestOK
<1>5. ASSUME Next, NEW c \in Clients, Handle(c) PROVE TypeInv'
  BY <1>2, <1>5, HandleTyped DEF HandledWell
<1>6. ASSUME Next, BuildStep, UNCHANGED <<rows, links, used, proc>> PROVE TypeInv'
  BY <1>2, <1>6, BuildStepTyped DEF RequestOK
<1>7. ASSUME Next, Restart PROVE TypeInv'
  <2>1. Idle \in Request /\ NoBuild \in Build
    BY DEF Idle, Request, NoBuild, Build, BuildPCs
  <2> QED BY <1>2, <1>7, <2>1 DEF Restart, RequestOK, Idle
<1> QED BY <1>1, <1>3, <1>4, <1>5, <1>6, <1>7 DEF Next

\* Rows, links, requests and what a build has read are typed, and no id is in a
\* table that was never handed out.
THEOREM TypesHold == Spec => []TypeInv
<1>1. Init => TypeInv
  BY DEF Init, TypeInv, TypeOK, RequestOK, Request, Idle, Build, BuildPCs, NoBuild
<1> QED BY <1>1, StepTyped, PTL DEF Spec

\* Tables, requests and builds are typed.
THEOREM TypeCorrect == Spec => []TypeOK
BY TypesHold, PTL DEF TypeInv

-----------------------------------------------------------------------------
(* A deletion is final.                                                    *)

\* A deleted row is not written back but by a request that read it before: every
\* handler that inserts a missing row has found it in the table.
THEOREM DeletionsAreFinal == Spec => SourceDeletionIsFinal
<1>1. ASSUME TypeInv, [Next]_vars, NEW x \in Items, Settled(x) PROVE Settled(x)'
  <2> USE <1>1 DEF TypeInv, TypeOK, Settled
  <2>1. CASE UNCHANGED vars
    BY <2>1 DEF vars
  <2>2. ASSUME NEW y \in Items, CreateRow(y) PROVE Settled(x)'
    BY <2>2 DEF CreateRow
  <2>3. ASSUME NEW s \in Subs, DeleteSubscription(s) PROVE Settled(x)'
    BY <2>3 DEF DeleteSubscription
  <2>4. ASSUME NEW c \in Clients, Handle(c) PROVE Settled(x)'
    <3>1. x \notin rows' /\ used' = used
      BY <2>4 DEF Handle, RowRead, RowSave, DeleteSubscriptionGroupRead, DeleteSubscriptionGroupClear,
         DeleteSubscriptionGroupRow, DeleteProfileRead, DeleteProfile, OwnerRead, ItemRead, Append, Remove, At
    <3>2. /\ \A q \in Clients \ {c} : proc'[q] = proc[q]
          /\ proc'[c].item = x => proc'[c].kind \notin {"save", "add"} \/ proc'[c].pc # "write"
      <4>1. CASE Finish(c)
        BY <4>1 DEF Finish, Idle
      <4>2. ASSUME NEW kind, NEW pc, NEW o, NEW y, Start(c, kind, pc, o, y),
                   kind = "save" => y \in rows, pc = "write" => kind # "add"
            PROVE  <3>2!1 /\ <3>2!2
        BY <4>2 DEF Start
      <4>3. CASE DeleteSubscriptionGroupClear(c)
        <5>1. proc[c] \in Request /\ proc' = [proc EXCEPT ![c].pc = "delrow"]
          BY <4>3 DEF DeleteSubscriptionGroupClear
        <5> QED BY <5>1 DEF Request
      <4>4. CASE ItemRead(c) /\ proc[c].item \in rows
        <5>1. proc[c] \in Request /\ proc' = [proc EXCEPT ![c].pc = "write"]
          BY <4>4 DEF ItemRead
        <5> QED BY <4>4, <5>1 DEF Request
      <4>5. CASE \/ \E y \in Items : RowRead(c, y)
                 \/ \E g \in Groups : DeleteSubscriptionGroupRead(c, g)
                 \/ \E p \in Profiles : DeleteProfileRead(c, p)
                 \/ \E kind \in {"add", "remove"}, l \in Links : OwnerRead(c, kind, l[1], l[2])
        BY <4>2, <4>5 DEF RowRead, DeleteSubscriptionGroupRead, DeleteProfileRead, OwnerRead
      <4> QED BY <2>4, <4>1, <4>3, <4>4, <4>5 DEF Handle, RowSave, DeleteSubscriptionGroupRow,
                 DeleteProfile, ItemRead, Append, Remove
    <3> QED BY <3>1, <3>2
  <2>5. CASE BuildStep /\ UNCHANGED <<rows, links, used, proc>>
    BY <2>5
  <2>6. CASE Restart
    BY <2>6 DEF Restart, Idle
  <2> QED BY <2>1, <2>2, <2>3, <2>4, <2>5, <2>6 DEF Next
<1>2. ASSUME TypeInv, [Next]_vars PROVE [\A x \in Items : Settled(x) => Settled(x)']_vars
  BY <1>1, <1>2
<1> QED BY <1>2, TypesHold, PTL DEF Spec, SourceDeletionIsFinal
-----------------------------------------------------------------------------
(* What a build has read agrees with the links that held while it ran.     *)

HasGroups == build.pc \notin {"idle", "grouplinks"}
HasMembers == build.pc \in {"members", "directlinks", "direct", "done"}
HasDirect == build.pc \in {"direct", "done"}

\* A link that held throughout has been found by the statement that was to
\* find it, and one that was found was there.
ReadsAgree ==
    /\ HasGroups => \A g \in Groups : /\ <<build.profile, g>> \in kept => g \in build.groups
                                      /\ g \in build.groups => <<build.profile, g>> \in ever
    /\ HasMembers =>
         /\ \A g \in Groups, s \in Subs :
              <<build.profile, g>> \in kept /\ <<g, s>> \in kept => s \in build.members
         /\ \A s \in build.members : \E g \in Groups :
              <<build.profile, g>> \in ever /\ <<g, s>> \in ever
    /\ HasDirect => \A s \in Subs : /\ <<build.profile, s>> \in kept => s \in build.direct
                                    /\ s \in build.direct => <<build.profile, s>> \in ever

\* What is observed of the links holds of them now.
ObservedNow == kept \subseteq Intact /\ links \subseteq ever

BuildInv == ObservedNow /\ ReadsAgree

LEMMA LinkEnds == \A x, y : <<x, y>> \in Intact => <<x, y>> \in links /\ y \in rows
BY DEF Intact

LEMMA ObserveStep ==
  ASSUME Next, BuildInv
  PROVE  /\ ObservedNow'
         /\ build.pc # "idle" => kept' \subseteq kept /\ ever \subseteq ever'
BY DEF Next, Observe, BuildInv, ObservedNow

\* Whatever else happens to the tables, what has been read still agrees.
LEMMA OthersAgree ==
  ASSUME Next, BuildInv, build' = build
  PROVE  ReadsAgree'
<1>1. CASE build.pc = "idle"
  BY <1>1 DEF ReadsAgree, HasGroups, HasMembers, HasDirect
<1>2. CASE build.pc # "idle"
  BY <1>2, ObserveStep DEF BuildInv, ReadsAgree, HasGroups, HasMembers, HasDirect
<1> QED BY <1>1, <1>2

LEMMA BuildAgrees ==
  ASSUME Next, TypeInv, BuildInv, BuildStep, UNCHANGED <<rows, links, used, proc>>
  PROVE  ReadsAgree'
<1> USE DEF BuildInv, ReadsAgree, HasGroups, HasMembers, HasDirect
<1>1. build \in Build
  BY DEF TypeInv, TypeOK
<1>2. /\ build.pc # "idle" => kept' \subseteq kept /\ ever \subseteq ever'
      /\ \A x, y : <<x, y>> \in kept => <<x, y>> \in links /\ y \in rows
      /\ \A x, y : <<x, y>> \in links => <<x, y>> \in ever
  BY ObserveStep, LinkEnds DEF ObservedNow
<1>3. ASSUME NEW p \in Profiles, BuildStart(p) PROVE ReadsAgree'
  BY <1>3 DEF BuildStart, NoBuild
<1>4. CASE BuildGroupLinks
  <2>1. /\ build.pc = "grouplinks" /\ build'.pc = "groups" /\ build'.profile = build.profile
        /\ build'.groups = {g \in Groups : <<build.profile, g>> \in links}
    BY <1>1, <1>4 DEF BuildGroupLinks, Build
  <2> QED BY <1>2, <2>1
<1>5. CASE BuildGroups
  <2>1. /\ build.pc = "groups" /\ build'.pc = "memberlinks" /\ build'.profile = build.profile
        /\ build'.groups = build.groups \cap rows
    BY <1>1, <1>5 DEF BuildGroups, Build
  <2> QED BY <1>2, <2>1
<1>6. CASE BuildMemberLinks
  <2>1. /\ build.pc = "memberlinks" /\ build'.pc = "members" /\ build'.profile = build.profile
        /\ build'.groups = build.groups
        /\ build'.members = {s \in Subs : \E g \in build.groups : <<g, s>> \in links}
    BY <1>1, <1>6 DEF BuildMemberLinks, Build
  <2>2. build.groups \subseteq Groups
    BY <1>1 DEF Build
  <2>3. \A g \in Groups, s \in Subs :
          <<build.profile, g>> \in kept' /\ <<g, s>> \in kept' => s \in build'.members
    BY <1>2, <2>1
  <2>4. \A s \in build'.members : \E g \in Groups :
          <<build.profile, g>> \in ever' /\ <<g, s>> \in ever'
    BY <1>2, <2>1, <2>2
  <2> QED BY <1>2, <2>1, <2>3, <2>4
<1>7. CASE BuildMembers
  <2>1. /\ build.pc = "members" /\ build'.pc = "directlinks" /\ build'.profile = build.profile
        /\ build'.groups = build.groups /\ build'.members = build.members \cap rows
    BY <1>1, <1>7 DEF BuildMembers, Build
  <2>2. \A g \in Groups, s \in Subs :
          <<build.profile, g>> \in kept' /\ <<g, s>> \in kept' => s \in build'.members
    BY <1>2, <2>1
  <2>3. \A s \in build'.members : \E g \in Groups :
          <<build.profile, g>> \in ever' /\ <<g, s>> \in ever'
    BY <1>2, <2>1
  <2> QED BY <1>2, <2>1, <2>2, <2>3
<1>8. CASE BuildDirectLinks
  <2>1. /\ build.pc = "directlinks" /\ build'.pc = "direct" /\ build'.profile = build.profile
        /\ build'.groups = build.groups /\ build'.members = build.members
        /\ build'.direct = {s \in Subs : <<build.profile, s>> \in links}
    BY <1>1, <1>8 DEF BuildDirectLinks, Build
  <2> QED BY <1>2, <2>1
<1>9. CASE BuildDirect
  <2>1. /\ build.pc = "direct" /\ build'.pc = "done" /\ build'.profile = build.profile
        /\ build'.groups = build.groups /\ build'.members = build.members
        /\ build'.direct = build.direct \cap rows
    BY <1>1, <1>9 DEF BuildDirect, Build
  <2> QED BY <1>2, <2>1
<1>10. CASE BuildEnd
  BY <1>10 DEF BuildEnd, NoBuild
<1> QED BY <1>3, <1>4, <1>5, <1>6, <1>7, <1>8, <1>9, <1>10 DEF BuildStep

\* Whatever requests do between its statements, what BuildConfig has read agrees
\* with the links there were since it began.
THEOREM ReadsAreTrue == Spec => []BuildInv
<1>1. Init => BuildInv
  BY DEF Init, BuildInv, ObservedNow, ReadsAgree, HasGroups, HasMembers, HasDirect, NoBuild
<1>2. ASSUME TypeInv, BuildInv, [Next]_vars PROVE BuildInv'
  <2>1. CASE UNCHANGED vars
    BY <1>2, <2>1 DEF vars, BuildInv, ObservedNow, Intact, ReadsAgree, HasGroups, HasMembers, HasDirect
  <2>2. CASE Next
    <3>1. ObservedNow'
      BY <1>2, <2>2, ObserveStep
    <3>2. ASSUME NEW c \in Clients, Handle(c) PROVE build' = build
      BY <1>2, <3>2, HandleTyped DEF HandledWell
    <3>3. ASSUME Restart PROVE ReadsAgree'
      BY <3>3 DEF Restart, ReadsAgree, HasGroups, HasMembers, HasDirect, NoBuild
    <3>4. ASSUME BuildStep, UNCHANGED <<rows, links, used, proc>> PROVE ReadsAgree'
      BY <1>2, <2>2, <3>4, BuildAgrees
    <3>5. ASSUME build' = build PROVE ReadsAgree'
      BY <1>2, <2>2, <3>5, OthersAgree
    <3>6. ReadsAgree'
      BY <2>2, <3>2, <3>3, <3>4, <3>5 DEF Next, CreateRow, DeleteSubscription
    <3> QED BY <3>1, <3>6 DEF BuildInv
  <2> QED BY <1>2, <2>1, <2>2
<1> QED BY <1>1, <1>2, TypesHold, PTL DEF Spec

\* A source attached throughout is in the configuration.
THEOREM StayingSourcesAreServed == Spec => []StayingSourcesServed
<1>1. BuildInv => StayingSourcesServed
  BY DEF BuildInv, ReadsAgree, HasMembers, HasDirect, StayingSourcesServed, collectSubIDs
<1> QED BY <1>1, ReadsAreTrue, PTL

\* A source in the configuration was attached while it was built.
THEOREM ServedSourcesWereAttached == Spec => []ServedSourcesAttached
<1>1. TypeInv /\ BuildInv => ServedSourcesAttached
  BY DEF TypeInv, TypeOK, Build, BuildInv, ReadsAgree, HasMembers, HasDirect, ServedSourcesAttached, collectSubIDs
<1> QED BY <1>1, TypesHold, ReadsAreTrue, PTL
=============================================================================
