----------------------- MODULE SubscriptionsRefinement -----------------------
(***************************************************************************)
(* Subscriptions seen as a Registry, when requests and cron runs follow    *)
(* one another on each subscription (OverlappingEdits = {} and             *)
(* RefreshesOverlap = FALSE) and no statement fails; crashes are allowed.  *)
(* And seen as a Schedule, when updates and deletions run alone: refreshes *)
(* may overlap one another and a create, and statements may fail.          *)
(***************************************************************************)
EXTENDS Subscriptions

\* A create, update or delete changes the row first and the cron job at its
\* end: in between, the job the row calls for stands for the one there is.
Rescheduling(s) == \E p \in Procs : proc[p].sub = s /\ proc[p].pc \in {"schedule", "unschedule"}

\* The refreshes that have deleted the old nodes of s and not stored all new ones.
Storing(s) == {p \in Procs : proc[p].sub = s /\ proc[p].pc = "store"}

SettingsSeen == [s \in Subs |-> IF row[s] = None THEN None ELSE SettingsOf(row[s])]
RecordedSeen == [s \in Subs |-> IF row[s] = None THEN None ELSE row[s].fetched]
ContentSeen == [s \in Subs |-> nodes[s] \cup UNION {NodesOf(proc[p].batch) : p \in Storing(s)}]
ScheduledSeen == {s \in Subs : IF Rescheduling(s) THEN ShouldRun(row[s]) ELSE s \in cronJobs}
UsedSeen == {s \in Subs : life[s] # "unused"}

Promised == INSTANCE Registry WITH
    ToRun     <- {v \in Settings : v.enabled /\ v.conf \in ValidCron},
    Batches   <- Batch,
    Content   <- [b \in Batch |-> NodesOf(b)],
    settings  <- SettingsSeen,
    recorded  <- RecordedSeen,
    content   <- ContentSeen,
    scheduled <- ScheduledSeen,
    used      <- UsedSeen

\* Every step of a handler, a cron run or a restart is a step of the Registry
\* or invisible to its clients: rows, cron jobs and nodes never disagree in a
\* way a client with one request at a time could see, crashes included.
KeepsPromise == Promised!Spec

-----------------------------------------------------------------------------

DueSeen == IF ticking THEN ScheduledSeen ELSE {}

Scheduled == INSTANCE Schedule WITH
    ToRun    <- {v \in Settings : v.enabled /\ v.conf \in ValidCron},
    settings <- SettingsSeen,
    due      <- DueSeen,
    running  <- ticking,
    used     <- UsedSeen

\* Refreshes that overlap, fail or save a row read long ago show in neither
\* settings nor timers; a row written and its job not yet, a statement that
\* fails and a crash anywhere leave one step of the Schedule or none.
KeepsSchedule == Scheduled!Spec
=============================================================================
