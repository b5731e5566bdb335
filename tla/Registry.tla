------------------------------- MODULE Registry -------------------------------
(***************************************************************************)
(* What the subscription handlers and the scheduler promise to a client    *)
(* that sends one request at a time for each subscription: settings and    *)
(* cron job change together, a refresh replaces the nodes at one blow and  *)
(* records itself only when they are there, an id is used once, and a      *)
(* crash takes nothing but nodes.  Subscriptions is shown to implement it  *)
(* (module SubscriptionsRefinement).                                       *)
(***************************************************************************)
CONSTANTS
    Subs,       \* subscription ids
    Settings,   \* what a client sets
    ToRun,      \* the settings that call for a cron job
    Batches,    \* what a fetch can return
    Content,    \* the nodes of each batch
    None

VARIABLES
    settings,   \* the settings of a subscription, or None
    recorded,   \* the batch its last_fetched_at and node_count speak of
    content,    \* its nodes
    scheduled,  \* the subscriptions that are refreshed periodically
    used        \* the ids handed out

vars == <<settings, recorded, content, scheduled, used>>

Configure(s, v) ==
    /\ settings' = [settings EXCEPT ![s] = v]
    /\ scheduled' = IF v \in ToRun THEN scheduled \cup {s} ELSE scheduled \ {s}

Create(s, v) ==
    /\ s \notin used
    /\ Configure(s, v)
    /\ used' = used \cup {s}
    /\ UNCHANGED <<recorded, content>>

Update(s, v) ==
    /\ settings[s] # None
    /\ Configure(s, v)
    /\ UNCHANGED <<recorded, content, used>>

\* A deletion takes the nodes first; it may be refused after that.
Empty(s) ==
    /\ content' = [content EXCEPT ![s] = {}]
    /\ UNCHANGED <<settings, recorded, scheduled, used>>

Delete(s) ==
    /\ content[s] = {}
    /\ Configure(s, None)
    /\ recorded' = [recorded EXCEPT ![s] = None]
    /\ UNCHANGED <<content, used>>

Replace(s, b) ==
    /\ settings[s] # None
    /\ content' = [content EXCEPT ![s] = Content[b]]
    /\ UNCHANGED <<settings, recorded, scheduled, used>>

Record(s, b) ==
    /\ settings[s] # None
    /\ content[s] = Content[b]
    /\ recorded' = [recorded EXCEPT ![s] = b]
    /\ UNCHANGED <<settings, content, scheduled, used>>

\* The process dies: what a replacement had not stored yet is missing.
Crash ==
    /\ \A s \in Subs : content'[s] \subseteq content[s]
    /\ UNCHANGED <<settings, recorded, scheduled, used>>

Init ==
    /\ settings = [s \in Subs |-> None]
    /\ recorded = [s \in Subs |-> None]
    /\ content = [s \in Subs |-> {}]
    /\ scheduled = {}
    /\ used = {}

Next ==
    \/ \E s \in Subs, v \in Settings : Create(s, v) \/ Update(s, v)
    \/ \E s \in Subs : Empty(s) \/ Delete(s)
    \/ \E s \in Subs, b \in Batches : Replace(s, b) \/ Record(s, b)
    \/ Crash

Spec == Init /\ [][Next]_vars
=============================================================================
