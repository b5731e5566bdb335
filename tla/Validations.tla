----------------------------- MODULE Validations -----------------------------
(***************************************************************************)
(* Validating a profile of config-hub: ValidateConfig reads the profile    *)
(* with the five statements that BuildConfig uses too, judges what it      *)
(* read, and then has BuildConfig read everything again.  Between any two  *)
(* of the statements other requests change the profile, so the two reads   *)
(* may differ.                                                             *)
(*                                                                         *)
(* Sources: service/config_validator.go, seed/rules.go.                    *)
(***************************************************************************)
EXTENDS Configs

\* The stored rules with a target and an option after it; "DIRECT,no-resolve"
\* is what SplitN(text, ",", 3) leaves of one as its target.
WithOption == {<<"builtin", "DIRECT">>, PG("Telegram"), PG("Netflix")}
Optioned(target) == <<"option", target>>

\* What the stored rules name, read the way the validator reads them.
RuleTargetsRead == DefaultRuleTargets \cup {Optioned(t) : t \in WithOption}

VARIABLES
    phase,   \* which read of a validation the BuildConfig of Configs stands for
    own,     \* what the validator's own read found
    steady,  \* something was attached when it began, nothing has been removed, and
             \* no statement nor the rendering has failed
    report   \* what the last ValidateConfig answered

valVars == <<vars, phase, own, steady, report>>

Phases == {"none", "own", "build"}
NoRead == [groups |-> FALSE, rules |-> FALSE, subs |-> FALSE]

-----------------------------------------------------------------------------

\* Mutant: only groups with a list of their own are taken for defined.
ListedGroupNames(groups) == {g.name : g \in {h \in groups : ~h.all}}

DefinedGroupNames(groups) == {g.name : g \in groups}

\* Targets that are neither builtin nor the name of a stored group.
Undefined(read) ==
    IF read.groups /\ read.rules
      THEN RuleTargetsRead \ (Builtins \cup DefinedGroupNames(DefaultProxyGroups))
      ELSE {}

\* Mutant: an error of BuildConfig is reported and the profile still valid.
ValidDespiteErrors(read, rendered) == read.subs /\ read.rules

\* Errors make a profile invalid, warnings do not.
Valid(read, rendered) == read.subs /\ read.rules /\ rendered

Report(read, rendered) == [valid |-> Valid(read, rendered), undefined |-> Undefined(read)]

-----------------------------------------------------------------------------

\* A client asks for the configuration, as in Configs.
BuildAlone(f) ==
    /\ phase = "none"
    /\ First(f)
    /\ report' = None /\ steady' = FALSE
    /\ UNCHANGED <<phase, own>>

ValidateConfig(f) ==
    /\ phase = "none"
    /\ First(f)
    /\ phase' = "own"
    /\ steady' = (direct \cup grouped # {})
    /\ report' = None
    /\ UNCHANGED own

Preload ==
    /\ LoadProxyGroups \/ LoadRules \/ LoadSubscriptionGroups
    /\ UNCHANGED <<phase, own, steady, report>>

\* Mutant: members of the profile's groups are not counted.
JudgeDirect ==
    /\ phase = "own" /\ req.pc = "subs"
    /\ own' = [groups |-> req.groups, rules |-> req.rules, subs |-> direct # {}]
    /\ req' = Idle
    /\ phase' = "build"
    /\ UNCHANGED <<profile, seeded, direct, grouped, pending, late, config, steady, report>>

\* The last of the five statements, and the judgement of what they found.
Judge ==
    /\ phase = "own" /\ req.pc = "subs"
    /\ own' = [groups |-> req.groups, rules |-> req.rules, subs |-> req.subs \cup direct # {}]
    /\ req' = Idle
    /\ phase' = "build"
    /\ UNCHANGED <<profile, seeded, direct, grouped, pending, late, config, steady, report>>

ReadAgain(f) ==
    /\ phase = "build"
    /\ First(f)
    /\ UNCHANGED <<phase, own, steady, report>>

\* A client alone, or the validator reading for itself, is given the error.
RequestFails ==
    /\ phase # "build"
    /\ ReadFails
    /\ phase' = "none"
    /\ steady' = FALSE
    /\ UNCHANGED <<own, report>>

\* rendered: there is a configuration, and Render made YAML of it.
Answer(rendered) ==
    /\ report' = Report(own, rendered)
    /\ phase' = "none"
    /\ own' = NoRead

\* "profile not found", where the build's First fails.
ProfileNotFound ==
    /\ phase = "build" /\ req.pc = "idle" /\ ~profile
    /\ Answer(FALSE)
    /\ UNCHANGED <<vars, steady>>

\* A statement of the build fails, the first one or another: the profile is
\* reported invalid.
BuildFails ==
    /\ phase = "build"
    /\ \/ req.pc = "idle" /\ UNCHANGED vars
       \/ ReadFails
    /\ Answer(FALSE)
    /\ steady' = FALSE

\* A build without subscriptions has failed.
LoadedSubscriptions ==
    /\ phase # "own"
    /\ LoadSubscriptions
    /\ IF phase = "build" /\ req'.pc = "idle"
         THEN Answer(FALSE) /\ UNCHANGED steady
         ELSE UNCHANGED <<phase, own, steady, report>>

BuiltAlone(nodes) ==
    /\ phase = "none"
    /\ LoadNodes(nodes)
    /\ UNCHANGED <<phase, own, steady, report>>

\* The validator looks at no node: the cases are none and some.
BuiltForReport(nodes, rendered) ==
    /\ phase = "build"
    /\ LoadNodes(nodes)
    /\ Answer(rendered)
    /\ steady' = (steady /\ rendered)

\* A step of another request.
Meanwhile ==
    /\ \/ \E kind \in {"update", "attach"} : ReadToWrite(kind)
       \/ UpdateProfileSave
       \/ \E s \in Subs : Append({s}, {}) \/ Append({}, {s})
       \/ \E s \in Subs : Remove(s)
       \/ DeleteProfileCommit
    /\ steady' = (steady /\ profile' /\ direct \subseteq direct' /\ grouped \subseteq grouped')
    /\ UNCHANGED <<phase, own, report>>

ValInit ==
    /\ Init
    /\ phase = "none"
    /\ own = NoRead
    /\ steady = FALSE
    /\ report = None

ValNext ==
    \/ Meanwhile
    \/ \E f \in Flags : BuildAlone(f) \/ ValidateConfig(f) \/ ReadAgain(f)
    \/ Preload
    \/ Judge
    \/ RequestFails
    \/ ProfileNotFound
    \/ BuildFails
    \/ LoadedSubscriptions
    \/ \E nodes \in SUBSET (req.subs \X Names) : BuiltAlone(nodes)
    \/ \E nodes \in {{}, req.subs \X Names}, rendered \in BOOLEAN : BuiltForReport(nodes, rendered)

ValSpec == ValInit /\ [][ValNext]_valVars

-----------------------------------------------------------------------------
(* Properties.                                                             *)

\* A profile that is reported valid was built into a configuration in the same
\* request, and unless an answered deletion was undone meanwhile the stored
\* rules and groups are all in it: the two reads of one validation agree enough.
ValidIsServed ==
    report # None /\ report.valid =>
        /\ Built
        /\ ~late => /\ config.rules = DefaultRuleTargets
                    /\ GroupNames(config.groups) = GroupNames(DefaultProxyGroups)

\* A profile that had a subscription when its validation began, directly or in
\* a group, and that lost nothing while it ran, is reported valid, unless a
\* statement of the build or the rendering of what it built failed.
SteadyIsValid == report # None /\ steady /\ ~late => report.valid

\* No target is called undefined but those with an option after them, which
\* are not: the names of stored rules and stored groups agree.
OnlyOptionsWarned == report # None => report.undefined \subseteq {Optioned(t) : t \in WithOption}
=============================================================================
