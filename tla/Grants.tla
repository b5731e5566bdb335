-------------------------------- MODULE Grants --------------------------------
(***************************************************************************)
(* What the profile and token endpoints promise a client that changes one  *)
(* thing at a time: a profile comes and goes with its defaults and its     *)
(* tokens, an update changes the settings it names, a token opens the      *)
(* profile it was issued for until it is revoked or the profile is         *)
(* deleted, and ids are used once.  Being served changes nothing, and      *)
(* neither does a failure or a crash.  Profiles is shown to implement it   *)
(* (module ProfilesRefinement).                                            *)
(***************************************************************************)
CONSTANTS
    Profiles,  \* profile ids
    Tokens,    \* token ids
    Settings,  \* what a profile holds
    Changes,   \* what an update asks for: None for a field it does not name
    None

VARIABLES
    settings,  \* the settings of a profile, or None
    equipped,  \* the profiles that have their default groups and rules
    listed,    \* the profile a token is listed under, or None
    opens,     \* the profile a token opens, or None
    used,      \* the profile ids handed out
    spent      \* the token ids handed out

vars == <<settings, equipped, listed, opens, used, spent>>

Create(p, v) ==
    /\ p \notin used
    /\ settings' = [settings EXCEPT ![p] = v]
    /\ equipped' = equipped \cup {p}
    /\ used' = used \cup {p}
    /\ UNCHANGED <<listed, opens, spent>>

Update(p, change) ==
    /\ settings[p] # None
    /\ settings' = [settings EXCEPT ![p] =
          [f \in DOMAIN settings[p] |-> IF change[f] = None THEN settings[p][f] ELSE change[f]]]
    /\ UNCHANGED <<equipped, listed, opens, used, spent>>

Delete(p) ==
    /\ settings[p] # None
    /\ settings' = [settings EXCEPT ![p] = None]
    /\ equipped' = equipped \ {p}
    /\ listed' = [t \in Tokens |-> IF listed[t] = p THEN None ELSE listed[t]]
    /\ opens' = [t \in Tokens |-> IF opens[t] = p THEN None ELSE opens[t]]
    /\ UNCHANGED <<used, spent>>

Issue(p, t) ==
    /\ settings[p] # None
    /\ t \notin spent
    /\ listed' = [listed EXCEPT ![t] = p]
    /\ opens' = [opens EXCEPT ![t] = p]
    /\ spent' = spent \cup {t}
    /\ UNCHANGED <<settings, equipped, used>>

\* An id goes to a profile that is not one of Profiles.
IssueElsewhere(t) ==
    /\ t \notin spent
    /\ spent' = spent \cup {t}
    /\ UNCHANGED <<settings, equipped, listed, opens, used>>

Revoke(t) ==
    /\ opens[t] # None
    /\ opens' = [opens EXCEPT ![t] = None]
    /\ UNCHANGED <<settings, equipped, listed, used, spent>>

Init ==
    /\ settings = [p \in Profiles |-> None]
    /\ equipped = {}
    /\ listed = [t \in Tokens |-> None]
    /\ opens = [t \in Tokens |-> None]
    /\ used = {}
    /\ spent = {}

Next ==
    \/ \E p \in Profiles, v \in Settings : Create(p, v)
    \/ \E p \in Profiles, change \in Changes : Update(p, change)
    \/ \E p \in Profiles : Delete(p)
    \/ \E p \in Profiles, t \in Tokens : Issue(p, t)
    \/ \E t \in Tokens : IssueElsewhere(t) \/ Revoke(t)

Spec == Init /\ [][Next]_vars

-----------------------------------------------------------------------------

\* A token that was handed out and opens nothing never opens anything again,
\* and a profile that was deleted is not there again.
EndsAreFinal ==
    [][/\ \A t \in spent : opens[t] = None => opens'[t] = None
       /\ \A p \in used : settings[p] = None => settings'[p] = None]_vars
=============================================================================
