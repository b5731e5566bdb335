------------------------------- MODULE Sources -------------------------------
(***************************************************************************)
(* What a profile is built from: subscriptions, subscription groups and    *)
(* profiles, the three join tables between them, the requests that change  *)
(* both, and BuildConfig, which reads them statement by statement while    *)
(* they change.  GORM's Append writes the row it appends along with the    *)
(* link, and db.Save writes a row back: either brings a row that was       *)
(* deleted after it was read into the table again.                         *)
(*                                                                         *)
(* Sources: server/handler/subscription_group.go, profile.go and           *)
(* subscription.go, service/profile_builder.go.                            *)
(***************************************************************************)
EXTENDS FiniteSets

CONSTANTS
    Subs,      \* subscription ids
    Groups,    \* subscription group ids
    Profiles,  \* profile ids (AUTOINCREMENT: an id of either table is used once)
    Clients,   \* request slots: how many HTTP requests run at a time
    None,
    DbErrors   \* may a statement fail (database is locked, disk full)?

Items == Subs \cup Groups \cup Profiles
\* group_subscriptions, profile_subscriptions and profile_subscription_groups.
Links == (Groups \X Subs) \cup (Profiles \X Subs) \cup (Profiles \X Groups)

Kinds == {"save", "add", "remove", "delgroup", "delprofile"}
Request == [kind : Kinds \cup {None}, pc : {"idle", "item", "write", "delrow"},
            owner : Items \cup {None}, item : Items \cup {None}]
Idle == [kind |-> None, pc |-> "idle", owner |-> None, item |-> None]

BuildPCs == {"idle", "grouplinks", "groups", "memberlinks", "members", "directlinks", "direct", "done"}
Build == [pc : BuildPCs, profile : Profiles \cup {None}, groups : SUBSET Groups,
          members : SUBSET Subs, direct : SUBSET Subs]
NoBuild == [pc |-> "idle", profile |-> None, groups |-> {}, members |-> {}, direct |-> {}]

ASSUME SourcesAssumption ==
    /\ None \notin Items \cup Kinds
    /\ Subs \cap Groups = {} /\ Subs \cap Profiles = {} /\ Groups \cap Profiles = {}
    /\ DbErrors \in BOOLEAN

VARIABLES
    rows,   \* the ids in the three tables
    links,  \* the join tables
    used,   \* the ids handed out
    proc,   \* the requests in flight
    build,  \* a BuildConfig in flight, and what it has read
    kept,   \* links that held, both ends in their tables, ever since it began
    ever    \* links that were there at some time since it began

vars == <<rows, links, used, proc, build, kept, ever>>

-----------------------------------------------------------------------------

\* A foreign key is enforced or not, depending on the pooled connection the
\* statement gets: PRAGMA foreign_keys was run on one of them.
MayFail(violatesForeignKey) == DbErrors \/ violatesForeignKey

Start(c, kind, pc, owner, item) ==
    /\ proc[c].pc = "idle"
    /\ proc' = [proc EXCEPT ![c] = [kind |-> kind, pc |-> pc, owner |-> owner, item |-> item]]

Finish(c) == proc' = [proc EXCEPT ![c] = Idle]
At(c, kind, pc) == proc[c].kind = kind /\ proc[c].pc = pc

-----------------------------------------------------------------------------
(* Rows.                                                                   *)

\* CreateSubscription, CreateSubscriptionGroup, CreateProfile: one insert.
CreateRow(x) ==
    /\ x \notin used
    /\ rows' = rows \cup {x}
    /\ used' = used \cup {x}
    /\ UNCHANGED <<links, proc, build>>

\* UpdateSubscriptionGroup, UpdateProfile, UpdateSubscription and a refresh
\* read the row and save it later.
RowRead(c, x) ==
    /\ x \in rows
    /\ Start(c, "save", "write", None, x)
    /\ UNCHANGED <<rows, links, used, build>>

RowSave(c) ==
    /\ At(c, "save", "write")
    /\ \/ rows' = rows \cup {proc[c].item}
       \/ MayFail(FALSE) /\ UNCHANGED rows
    /\ Finish(c)
    /\ UNCHANGED <<links, used, build>>

\* DeleteSubscription never reads the row and leaves the links alone; it is
\* refused if a link is there and the connection enforces foreign keys.
DeleteSubscription(s) ==
    /\ rows' = rows \ {s}
    /\ UNCHANGED <<links, used, proc, build>>

DeleteSubscriptionGroupRead(c, g) ==
    /\ g \in rows
    /\ Start(c, "delgroup", "write", None, g)
    /\ UNCHANGED <<rows, links, used, build>>

\* The error of Clear is ignored.
DeleteSubscriptionGroupClear(c) ==
    /\ At(c, "delgroup", "write")
    /\ \/ links' = {l \in links : l[1] # proc[c].item}
       \/ MayFail(FALSE) /\ UNCHANGED links
    /\ proc' = [proc EXCEPT ![c].pc = "delrow"]
    /\ UNCHANGED <<rows, used, build>>

\* Answered with 500 when it fails: the group stays, without its members.
DeleteSubscriptionGroupRow(c) ==
    /\ At(c, "delgroup", "delrow")
    /\ \/ rows' = rows \ {proc[c].item}
       \/ MayFail(\E l \in links : proc[c].item \in {l[1], l[2]}) /\ UNCHANGED rows
    /\ Finish(c)
    /\ UNCHANGED <<links, used, build>>

DeleteProfileRead(c, p) ==
    /\ p \in rows
    /\ Start(c, "delprofile", "write", None, p)
    /\ UNCHANGED <<rows, links, used, build>>

\* Both associations and the row go in one transaction.
DeleteProfile(c) ==
    LET p == proc[c].item IN
    /\ At(c, "delprofile", "write")
    /\ \/ rows' = rows \ {p} /\ links' = {l \in links : l[1] # p}
       \/ MayFail(FALSE) /\ UNCHANGED <<rows, links>>
    /\ Finish(c)
    /\ UNCHANGED <<used, build>>

-----------------------------------------------------------------------------
(* Links: AddSubToGroup, AddSubscriptionToProfile, AddSubscriptionGroup-   *)
(* ToProfile and the three that remove.  Each reads the owner, then the    *)
(* item, and answers 404 when one is missing.                              *)

OwnerRead(c, kind, o, x) ==
    /\ o \in rows
    /\ Start(c, kind, "item", o, x)
    /\ UNCHANGED <<rows, links, used, build>>

\* Mutant: a missing item is not answered with 404.
ItemReadUnchecked(c) ==
    /\ proc[c].pc = "item"
    /\ proc' = [proc EXCEPT ![c].pc = "write"]
    /\ UNCHANGED <<rows, links, used, build>>

ItemRead(c) ==
    /\ proc[c].pc = "item"
    /\ IF proc[c].item \in rows
         THEN proc' = [proc EXCEPT ![c].pc = "write"]
         ELSE Finish(c)
    /\ UNCHANGED <<rows, links, used, build>>

\* Append: in one transaction, the item and then the link are inserted unless
\* they are there; all of it fails if the owner is gone and that is enforced.
Append(c) ==
    LET o == proc[c].owner
        x == proc[c].item IN
    /\ At(c, "add", "write")
    /\ \/ rows' = rows \cup {x} /\ links' = links \cup {<<o, x>>}
       \/ MayFail(o \notin rows) /\ UNCHANGED <<rows, links>>
    /\ Finish(c)
    /\ UNCHANGED <<used, build>>

Remove(c) ==
    /\ At(c, "remove", "write")
    /\ \/ links' = links \ {<<proc[c].owner, proc[c].item>>}
       \/ MayFail(FALSE) /\ UNCHANGED links
    /\ Finish(c)
    /\ UNCHANGED <<rows, used, build>>

-----------------------------------------------------------------------------
(* BuildConfig's reads, in the order GORM sends them: preloads by name,    *)
(* and for each the links first and the rows they name after.              *)

BuildStart(p) ==
    /\ build.pc = "idle"
    /\ p \in rows
    /\ build' = [NoBuild EXCEPT !.pc = "grouplinks", !.profile = p]

BuildGroupLinks ==
    /\ build.pc = "grouplinks"
    /\ build' = [build EXCEPT !.pc = "groups", !.groups = {g \in Groups : <<build.profile, g>> \in links}]

BuildGroups ==
    /\ build.pc = "groups"
    /\ build' = [build EXCEPT !.pc = "memberlinks", !.groups = @ \cap rows]

\* Mutant: the members of every group, not only of the profile's.
BuildAllMembers ==
    /\ build.pc = "memberlinks"
    /\ build' = [build EXCEPT !.pc = "members",
                    !.members = {s \in Subs : \E g \in Groups : <<g, s>> \in links}]

BuildMemberLinks ==
    /\ build.pc = "memberlinks"
    /\ build' = [build EXCEPT !.pc = "members",
                    !.members = {s \in Subs : \E g \in build.groups : <<g, s>> \in links}]

BuildMembers ==
    /\ build.pc = "members"
    /\ build' = [build EXCEPT !.pc = "directlinks", !.members = @ \cap rows]

\* Mutant: a profile that has groups is served from its groups only.
BuildDirectLinksIfNeeded ==
    /\ build.pc = "directlinks"
    /\ build' = [build EXCEPT !.pc = "direct",
                    !.direct = IF build.groups = {} THEN {s \in Subs : <<build.profile, s>> \in links} ELSE {}]

BuildDirectLinks ==
    /\ build.pc = "directlinks"
    /\ build' = [build EXCEPT !.pc = "direct", !.direct = {s \in Subs : <<build.profile, s>> \in links}]

\* What is found is served; nothing found is answered with an error.
BuildDirect ==
    /\ build.pc = "direct"
    /\ build' = [build EXCEPT !.pc = "done", !.direct = @ \cap rows]

BuildEnd ==
    /\ build.pc = "done"
    /\ build' = NoBuild

collectSubIDs(b) == b.direct \cup b.members

-----------------------------------------------------------------------------

Restart ==
    /\ proc' = [c \in Clients |-> Idle]
    /\ build' = NoBuild
    /\ UNCHANGED <<rows, links, used>>

Init ==
    /\ rows = {}
    /\ links = {}
    /\ used = {}
    /\ proc = [c \in Clients |-> Idle]
    /\ build = NoBuild
    /\ kept = {}
    /\ ever = {}

Handle(c) ==
    \/ \E x \in Items : RowRead(c, x)
    \/ RowSave(c)
    \/ \E g \in Groups : DeleteSubscriptionGroupRead(c, g)
    \/ DeleteSubscriptionGroupClear(c)
    \/ DeleteSubscriptionGroupRow(c)
    \/ \E p \in Profiles : DeleteProfileRead(c, p)
    \/ DeleteProfile(c)
    \/ \E kind \in {"add", "remove"}, l \in Links : OwnerRead(c, kind, l[1], l[2])
    \/ ItemRead(c)
    \/ Append(c)
    \/ Remove(c)

BuildStep ==
    \/ \E p \in Profiles : BuildStart(p)
    \/ BuildGroupLinks
    \/ BuildGroups
    \/ BuildMemberLinks
    \/ BuildMembers
    \/ BuildDirectLinks
    \/ BuildDirect
    \/ BuildEnd

\* Links of which both ends are in their tables.
Intact == {l \in links : l[1] \in rows /\ l[2] \in rows}

\* What a build may be held to: the links there were while it ran.
Observe ==
    /\ kept' = IF build.pc = "idle" THEN Intact' ELSE kept \cap Intact'
    /\ ever' = IF build.pc = "idle" THEN links' ELSE ever \cup links'

Next ==
    /\ \/ \E x \in Items : CreateRow(x)
       \/ \E s \in Subs : DeleteSubscription(s)
       \/ \E c \in Clients : Handle(c)
       \/ BuildStep /\ UNCHANGED <<rows, links, used, proc>>
       \/ Restart
    /\ Observe

Spec == Init /\ [][Next]_vars

-----------------------------------------------------------------------------
(* Properties.                                                             *)

TypeOK ==
    /\ rows \subseteq used
    /\ used \subseteq Items
    /\ links \subseteq Links
    /\ proc \in [Clients -> Request]
    /\ build \in Build
    /\ kept \subseteq Links
    /\ ever \subseteq Links

\* A subscription that is attached to the profile all the time a configuration
\* is being built, directly or as a member of one group, is in it, however the
\* other sources change between the statements.  (One that is moved from the
\* profile to a group of it may be missed: the groups were read before.)
StayingSourcesServed ==
    build.pc = "done" =>
        \A s \in Subs :
            \/ <<build.profile, s>> \in kept
            \/ \E g \in Groups : <<build.profile, g>> \in kept /\ <<g, s>> \in kept
            => s \in collectSubIDs(build)

\* A configuration holds subscriptions only that were linked to its profile
\* while it was built, each link at the time it was read.
ServedSourcesAttached ==
    build.pc = "done" =>
        \A s \in collectSubIDs(build) :
            \/ <<build.profile, s>> \in ever
            \/ \E g \in Groups : <<build.profile, g>> \in ever /\ <<g, s>> \in ever

\* A row that is gone and that no request in flight can write back.
Settled(x) ==
    /\ x \in used \ rows
    /\ \A c \in Clients : proc[c].item = x => proc[c].kind \notin {"save", "add"} \/ proc[c].pc # "write"

\* Whatever overlaps, a subscription, group or profile that was deleted stays
\* deleted once the requests that read its row before have ended, although
\* links to it may be left and Append and Save insert missing rows.
SourceDeletionIsFinal == [][\A x \in Items : Settled(x) => Settled(x)']_vars
=============================================================================
