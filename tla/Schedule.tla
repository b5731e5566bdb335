------------------------------- MODULE Schedule -------------------------------
(***************************************************************************)
(* The part of Registry that outlives overlapping refreshes and failing    *)
(* statements: which subscriptions there are, with which settings, and     *)
(* which of them are refreshed periodically.  Settings and timer change    *)
(* together, a refresh changes neither, and a start-up takes the timers    *)
(* from the settings, or has none until the next start-up when it could    *)
(* not read them.  Subscriptions is shown to implement it (module          *)
(* SubscriptionsRefinement).                                               *)
(***************************************************************************)
CONSTANTS
    Subs,       \* subscription ids
    Settings,   \* what a client sets
    ToRun,      \* the settings that call for a timer
    None

VARIABLES
    settings,  \* the settings of a subscription, or None
    due,       \* the subscriptions a running timer refreshes
    running,   \* whether the scheduler was started
    used       \* the ids handed out

vars == <<settings, due, running, used>>

Configure(s, v) ==
    /\ settings' = [settings EXCEPT ![s] = v]
    /\ due' = IF running /\ v \in ToRun THEN due \cup {s} ELSE due \ {s}
    /\ UNCHANGED running

Create(s, v) ==
    /\ s \notin used
    /\ Configure(s, v)
    /\ used' = used \cup {s}

Update(s, v) ==
    /\ settings[s] # None
    /\ Configure(s, v)
    /\ UNCHANGED used

Delete(s) ==
    /\ settings[s] # None
    /\ Configure(s, None)
    /\ UNCHANGED used

StartUp ==
    /\ running' \in BOOLEAN
    /\ due' = IF running' THEN {s \in Subs : settings[s] \in ToRun} ELSE {}
    /\ UNCHANGED <<settings, used>>

Init ==
    /\ settings = [s \in Subs |-> None]
    /\ due = {}
    /\ running = TRUE
    /\ used = {}

Next ==
    \/ \E s \in Subs, v \in Settings : Create(s, v) \/ Update(s, v)
    \/ \E s \in Subs : Delete(s)
    \/ StartUp

Spec == Init /\ [][Next]_vars
=============================================================================
