---------------------------- MODULE Subscriptions ----------------------------
(***************************************************************************)
(* Subscription sources of config-hub: the rows of the subscriptions and   *)
(* nodes tables, the cron jobs kept for enabled rows, and the requests and *)
(* cron goroutines that change them.  A handler takes no lock and opens no *)
(* transaction: each statement it sends to SQLite is a step of its own and *)
(* steps of different goroutines interleave.  Every handler works on the   *)
(* copy of the row it read first, and db.Save writes that whole copy back. *)
(*                                                                         *)
(* Sources: server/handler/subscription.go, service/cron.go.               *)
(***************************************************************************)
EXTENDS Integers, FiniteSets

CONSTANTS
    Subs,             \* subscription ids (AUTOINCREMENT: an id is used once)
    Clients,          \* request slots: how many HTTP requests run at a time
    Workers,          \* goroutines the cron scheduler may run at a time
    Confs,            \* values of the settings other than enabled
    ValidCron,        \* the settings whose cron expression robfig/cron accepts
    Attached,         \* subscriptions some profile or group refers to
    Fetches,          \* identities of fetched batches, reused when forgotten
    Results,          \* what a fetch returns: named and nameless node counts
    None,
    OverlappingEdits, \* edits that may overlap other requests on the same row
    RefreshesOverlap, \* may two refreshes of one subscription overlap?
    DbErrors,         \* may a statement fail (database is locked, disk full)?
    Crashes           \* may the process die and be started again?

Procs == Clients \cup Workers

\* FetchSubscription's node list.  Nodes without a name are counted in
\* node_count but never stored.
Batch == [id : Fetches, size : Results]
Node == [batch : Batch, index : Nat]
Row == [conf : Confs, enabled : BOOLEAN, fetched : Batch \cup {None}]
Settings == [conf : Confs, enabled : BOOLEAN]

Kinds == {"create", "update", "delete", "refresh"}
Edits == Kinds \ {"refresh"}
PCs == {"idle", "save", "schedule", "delrow", "unschedule", "read", "fetch", "clear", "store", "meta"}
Request == [kind : Kinds \cup {None}, pc : PCs, sub : Subs \cup {None},
            copy : Row \cup {None}, batch : Batch \cup {None}, done : Nat]
Idle == [kind |-> None, pc |-> "idle", sub |-> None, copy |-> None, batch |-> None, done |-> 0]

ASSUME SubscriptionsAssumption ==
    /\ ValidCron \subseteq Confs
    /\ Clients \cap Workers = {}
    /\ Results \subseteq {r \in [named : Nat, nameless : Nat] : r.named + r.nameless > 0}
    /\ None \notin Subs \cup Row \cup Batch \cup Settings \cup Kinds
    /\ OverlappingEdits \subseteq Edits
    /\ {RefreshesOverlap, DbErrors, Crashes} \subseteq BOOLEAN

VARIABLES
    row,       \* the subscriptions table
    nodes,     \* the nodes table, by subscription_id
    cronJobs,  \* cronJobs' keys
    entries,   \* entries of the cron scheduler, by subscription
    scheduler, \* which cronScheduler was started last: none, or another after each restart
    proc,      \* the requests and cron goroutines in flight
    life,      \* whether an id is still unused, in use, or was deleted
    acked      \* the settings the last successful create or update stored

vars == <<row, nodes, cronJobs, entries, scheduler, proc, life, acked>>

Schedulers == {"none", "first", "second"}
Another == IF scheduler = "first" THEN "second" ELSE "first"

\* cronScheduler.Start was reached.
ticking == scheduler # "none"

SettingsOf(r) == [conf |-> r.conf, enabled |-> r.enabled]
NodesOf(b) == {[batch |-> b, index |-> i] : i \in 1 .. b.size.named}
ShouldRun(r) == r # None /\ r.enabled /\ r.conf \in ValidCron

-----------------------------------------------------------------------------
(* The environment's schedule.                                             *)

\* Which requests the environment lets run side by side on one subscription.
MayStart(s, kind) ==
    \A q \in Procs : proc[q].sub = s =>
        IF {kind, proc[q].kind} = {"refresh"}
          THEN RefreshesOverlap
          ELSE {kind, proc[q].kind} \ {"refresh"} \subseteq OverlappingEdits

Start(p, s, kind, pc, copy) ==
    /\ proc[p].pc = "idle"
    /\ MayStart(s, kind)
    /\ proc' = [proc EXCEPT ![p] = [Idle EXCEPT !.kind = kind, !.pc = pc, !.sub = s, !.copy = copy]]

Goto(p, pc) == proc' = [proc EXCEPT ![p].pc = pc]
Finish(p) == proc' = [proc EXCEPT ![p] = Idle]
At(p, kinds, pc) == proc[p].kind \in kinds /\ proc[p].pc = pc

-----------------------------------------------------------------------------
(* GORM and SQLite, as the handlers use them.                              *)

\* Create: a false bool in a column with default:true is taken for unset.
GormCreated(enabled) == IF enabled = FALSE THEN TRUE ELSE enabled

\* Save updates every column, and creates the row when there is none.
Stored(s, r) == IF row[s] = None THEN [r EXCEPT !.enabled = GormCreated(r.enabled)] ELSE r
Save(s, r) == row' = [row EXCEPT ![s] = r]

\* A foreign key is enforced or not, depending on the pooled connection the
\* statement gets: PRAGMA foreign_keys was run on one of them.
MayFail(violatesForeignKey) == DbErrors \/ violatesForeignKey

-----------------------------------------------------------------------------
(* service/cron.go: the scheduler.  cronMu makes each of these atomic.     *)

\* Mutant: the entry of an earlier schedule is not removed.
EntriesNotRemoved(s, r, held) ==
    [entries EXCEPT ![s] = @ + (IF ShouldRun(r) THEN 1 ELSE 0)]

ScheduledEntries(s, r, held) ==
    [entries EXCEPT ![s] = (IF held THEN @ - 1 ELSE @) + (IF ShouldRun(r) THEN 1 ELSE 0)]

\* Mutant: a disabled subscription is skipped before its job is removed.
ScheduleSkipsDisabled(s, r) ==
    /\ entries' = IF ShouldRun(r) THEN ScheduledEntries(s, r, s \in cronJobs) ELSE entries
    /\ cronJobs' = IF ShouldRun(r) THEN cronJobs \cup {s} ELSE cronJobs

ScheduleSubscription(s, r) ==
    /\ entries' = ScheduledEntries(s, r, s \in cronJobs)
    /\ cronJobs' = IF ShouldRun(r) THEN cronJobs \cup {s} ELSE cronJobs \ {s}

\* Mutant: Remove is called without looking whether there is an entry.
UnscheduleUnchecked(s) ==
    /\ entries' = [entries EXCEPT ![s] = @ - 1]
    /\ cronJobs' = cronJobs \ {s}

\* Mutant: the job of a deleted subscription is forgotten.
UnscheduleNothing(s) == UNCHANGED <<entries, cronJobs>>

UnscheduleSubscription(s) ==
    /\ entries' = [entries EXCEPT ![s] = IF s \in cronJobs THEN @ - 1 ELSE @]
    /\ cronJobs' = cronJobs \ {s}

\* Mutant: the scheduler is started without loading the enabled rows.
InitCronEmpty(rows) ==
    /\ cronJobs' = {}
    /\ entries' = [s \in Subs |-> 0]
    /\ scheduler' = Another

InitCron(rows) ==
    \/ /\ cronJobs' = {s \in Subs : ShouldRun(rows[s])}
       /\ entries' = [s \in Subs |-> IF ShouldRun(rows[s]) THEN 1 ELSE 0]
       /\ scheduler' = Another
    \/ \* the rows cannot be loaded: it returns before Start, and main goes on
       /\ MayFail(FALSE)
       /\ cronJobs' = {}
       /\ entries' = [s \in Subs |-> 0]
       /\ scheduler' = "none"

-----------------------------------------------------------------------------
(* CreateSubscription and UpdateSubscription.                              *)

CreateSubscription(p, s, c, e) ==
    LET r == [conf |-> c, enabled |-> GormCreated(e), fetched |-> None] IN
    /\ life[s] = "unused"
    /\ Start(p, s, "create", "schedule", r)
    /\ Save(s, r)
    /\ life' = [life EXCEPT ![s] = "used"]
    /\ acked' = [acked EXCEPT ![s] = SettingsOf(r)]
    /\ UNCHANGED <<nodes, cronJobs, entries, scheduler>>

UpdateRead(p, s) ==
    /\ row[s] # None
    /\ Start(p, s, "update", "save", row[s])
    /\ UNCHANGED <<row, nodes, cronJobs, entries, scheduler, life, acked>>

\* The payload names some of the settings; the others keep the copy's values.
UpdateSave(p, c, e) ==
    LET s == proc[p].sub
        r == Stored(s, [proc[p].copy EXCEPT !.conf = c, !.enabled = e]) IN
    /\ At(p, {"update"}, "save")
    /\ Save(s, r)
    /\ acked' = [acked EXCEPT ![s] = SettingsOf(r)]
    /\ proc' = [proc EXCEPT ![p] = [@ EXCEPT !.pc = "schedule", !.copy = r]]
    /\ UNCHANGED <<nodes, cronJobs, entries, scheduler, life>>

UpdateFails(p) ==
    /\ At(p, {"update"}, "save")
    /\ MayFail(FALSE)
    /\ Finish(p)
    /\ UNCHANGED <<row, nodes, cronJobs, entries, scheduler, life, acked>>

Reschedule(p) ==
    /\ At(p, {"create", "update"}, "schedule")
    /\ ScheduleSubscription(proc[p].sub, proc[p].copy)
    /\ Finish(p)
    /\ UNCHANGED <<row, nodes, scheduler, life, acked>>

-----------------------------------------------------------------------------
(* DeleteSubscription.  It never looks the row up, so an id that is gone   *)
(* may be deleted again.                                                   *)

\* The statement's error is ignored.
DeleteNodes(p, s) ==
    /\ life[s] # "unused"
    /\ Start(p, s, "delete", "delrow", None)
    /\ \/ nodes' = [nodes EXCEPT ![s] = {}]
       \/ MayFail(FALSE) /\ UNCHANGED nodes
    /\ UNCHANGED <<row, cronJobs, entries, scheduler, life, acked>>

DeleteRow(p) ==
    LET s == proc[p].sub IN
    /\ At(p, {"delete"}, "delrow")
    /\ Save(s, None)
    /\ life' = [life EXCEPT ![s] = "deleted"]
    /\ acked' = [acked EXCEPT ![s] = None]
    /\ Goto(p, "unschedule")
    /\ UNCHANGED <<nodes, cronJobs, entries, scheduler>>

\* Answered with 500: the nodes are gone, the row and its job stay.
DeleteFails(p) ==
    LET s == proc[p].sub IN
    /\ At(p, {"delete"}, "delrow")
    /\ MayFail(row[s] # None /\ (s \in Attached \/ nodes[s] # {}))
    /\ Finish(p)
    /\ UNCHANGED <<row, nodes, cronJobs, entries, scheduler, life, acked>>

Unschedule(p) ==
    /\ At(p, {"delete"}, "unschedule")
    /\ UnscheduleSubscription(proc[p].sub)
    /\ Finish(p)
    /\ UNCHANGED <<row, nodes, scheduler, life, acked>>

-----------------------------------------------------------------------------
(* A refresh: refreshSubByID in a cron goroutine, RefreshSubscription in a *)
(* request.  After the row is read the two run the same statements.        *)

\* robfig/cron starts each run in a goroutine of its own and does not wait
\* for the previous one; removing the entry does not stop a run.
CronFire(w, s) ==
    /\ ticking /\ entries[s] > 0
    /\ Start(w, s, "refresh", "read", None)
    /\ UNCHANGED <<row, nodes, cronJobs, entries, scheduler, life, acked>>

\* Mutant: First's error is ignored, and the goroutine goes on with a fresh row.
CronReadUnchecked(w) ==
    LET r == row[proc[w].sub] IN
    /\ At(w, {"refresh"}, "read")
    /\ \E c \in Confs :
        proc' = [proc EXCEPT ![w] = [@ EXCEPT !.pc = "fetch",
                     !.copy = IF r = None THEN [conf |-> c, enabled |-> TRUE, fetched |-> None] ELSE r]]
    /\ UNCHANGED <<row, nodes, cronJobs, entries, scheduler, life, acked>>

CronRead(w) ==
    LET r == row[proc[w].sub] IN
    /\ At(w, {"refresh"}, "read")
    /\ IF r = None
         THEN Finish(w)
         ELSE proc' = [proc EXCEPT ![w] = [@ EXCEPT !.pc = "fetch", !.copy = r]]
    /\ UNCHANGED <<row, nodes, cronJobs, entries, scheduler, life, acked>>

RefreshSubscription(p, s) ==
    /\ row[s] # None
    /\ Start(p, s, "refresh", "fetch", row[s])
    /\ UNCHANGED <<row, nodes, cronJobs, entries, scheduler, life, acked>>

Remembered(b) ==
    \/ \E s \in Subs : (row[s] # None /\ row[s].fetched = b) \/ \E n \in nodes[s] : n.batch = b
    \/ \E p \in Procs : proc[p].batch = b \/ (proc[p].copy # None /\ proc[p].copy.fetched = b)

Fetch(p, f, size) ==
    /\ At(p, {"refresh"}, "fetch")
    /\ \A b \in Batch : b.id = f => ~Remembered(b)
    /\ proc' = [proc EXCEPT ![p] = [@ EXCEPT !.pc = "clear", !.batch = [id |-> f, size |-> size]]]
    /\ UNCHANGED <<row, nodes, cronJobs, entries, scheduler, life, acked>>

\* Mutant: the old nodes are deleted before the fetch instead of after it.
FetchFailsLate(p) ==
    /\ At(p, {"refresh"}, "fetch")
    /\ nodes' = [nodes EXCEPT ![proc[p].sub] = {}]
    /\ Finish(p)
    /\ UNCHANGED <<row, cronJobs, entries, scheduler, life, acked>>

FetchFails(p) ==
    /\ At(p, {"refresh"}, "fetch")
    /\ Finish(p)
    /\ UNCHANGED <<row, nodes, cronJobs, entries, scheduler, life, acked>>

\* Mutant: new nodes are added to the old ones.
ClearNothing(p) ==
    /\ At(p, {"refresh"}, "clear")
    /\ Goto(p, "store")
    /\ UNCHANGED <<row, nodes, cronJobs, entries, scheduler, life, acked>>

\* The statement's error is ignored.
ClearNodes(p) ==
    /\ At(p, {"refresh"}, "clear")
    /\ \/ nodes' = [nodes EXCEPT ![proc[p].sub] = {}]
       \/ MayFail(FALSE) /\ UNCHANGED nodes
    /\ Goto(p, "store")
    /\ UNCHANGED <<row, cronJobs, entries, scheduler, life, acked>>

\* One Create per named node; its error is ignored.
StoreNode(p) ==
    LET s == proc[p].sub
        n == [batch |-> proc[p].batch, index |-> proc[p].done + 1] IN
    /\ At(p, {"refresh"}, "store")
    /\ proc[p].done < proc[p].batch.size.named
    /\ \/ nodes' = [nodes EXCEPT ![s] = @ \cup {n}]
       \/ MayFail(row[s] = None) /\ UNCHANGED nodes
    /\ proc' = [proc EXCEPT ![p].done = @ + 1]
    /\ UNCHANGED <<row, cronJobs, entries, scheduler, life, acked>>

\* Mutant: the saved row is built anew, with enabled at its default.
SaveMetaEnables(p) ==
    /\ At(p, {"refresh"}, "store")
    /\ proc[p].done = proc[p].batch.size.named
    /\ Save(proc[p].sub, [proc[p].copy EXCEPT !.fetched = proc[p].batch, !.enabled = TRUE])
    /\ Finish(p)
    /\ UNCHANGED <<nodes, cronJobs, entries, scheduler, life, acked>>

\* last_fetched_at and node_count are set in the copy, and the copy is saved.
SaveMeta(p) ==
    LET s == proc[p].sub IN
    /\ At(p, {"refresh"}, "store")
    /\ proc[p].done = proc[p].batch.size.named
    /\ \/ Save(s, Stored(s, [proc[p].copy EXCEPT !.fetched = proc[p].batch]))
       \/ MayFail(FALSE) /\ UNCHANGED row
    /\ Finish(p)
    /\ UNCHANGED <<nodes, cronJobs, entries, scheduler, life, acked>>

-----------------------------------------------------------------------------

\* Jobs and requests in flight are lost; main runs InitCron before it serves.
Restart ==
    /\ Crashes
    /\ proc' = [p \in Procs |-> Idle]
    /\ InitCron(row)
    /\ UNCHANGED <<row, nodes, life, acked>>

Init ==
    /\ row = [s \in Subs |-> None]
    /\ nodes = [s \in Subs |-> {}]
    /\ cronJobs = {}
    /\ entries = [s \in Subs |-> 0]
    /\ scheduler = "first"
    /\ proc = [p \in Procs |-> Idle]
    /\ life = [s \in Subs |-> "unused"]
    /\ acked = [s \in Subs |-> None]

\* A request arrives.
Arrive(p, s) ==
    \/ \E c \in Confs, e \in BOOLEAN : CreateSubscription(p, s, c, e)
    \/ UpdateRead(p, s)
    \/ DeleteNodes(p, s)
    \/ RefreshSubscription(p, s)

\* A request or a cron goroutine takes its next step.
Continue(p) ==
    \/ \E c \in Confs, e \in BOOLEAN : UpdateSave(p, c, e)
    \/ UpdateFails(p)
    \/ Reschedule(p)
    \/ DeleteRow(p)
    \/ DeleteFails(p)
    \/ Unschedule(p)
    \/ CronRead(p)
    \/ \E f \in Fetches, size \in Results : Fetch(p, f, size)
    \/ FetchFails(p)
    \/ ClearNodes(p)
    \/ StoreNode(p)
    \/ SaveMeta(p)

Next ==
    \/ \E p \in Clients, s \in Subs : Arrive(p, s)
    \/ \E w \in Workers, s \in Subs : CronFire(w, s)
    \/ \E p \in Procs : Continue(p)
    \/ Restart

Spec == Init /\ [][Next]_vars

\* No create, update or delete of s is in flight.
Unedited(s) == \A p \in Procs : proc[p].sub = s => proc[p].kind \notin Edits
Quiet(s) == \A p \in Procs : proc[p].sub # s

\* The entry of s is taken away or put in anew, and an @every timer waits from
\* the beginning again: a restart, an update, or a deletion.
TimerReset(s) ==
    \/ scheduler' # scheduler
    \/ \E p \in Procs : proc[p].sub = s /\ (Reschedule(p) \/ Unschedule(p))

\* A goroutine that can take a step takes it.  The timer of an entry fires if
\* the entry is left in place long enough, that is, unless it is reset again and
\* again; a tick may find the subscription edited or all Workers busy, but not
\* every tick does.  Clients owe nothing.
Fairness ==
    /\ \A p \in Procs : WF_vars(Continue(p))
    /\ \A s \in Subs : []<><<TimerReset(s)>>_vars \/ SF_vars(\E w \in Workers : CronFire(w, s))

FairSpec == Spec /\ Fairness

-----------------------------------------------------------------------------
(* Properties.                                                             *)

TypeOK ==
    /\ row \in [Subs -> Row \cup {None}]
    /\ nodes \in [Subs -> SUBSET Node]
    /\ cronJobs \subseteq Subs
    /\ entries \in [Subs -> Nat]
    /\ scheduler \in Schedulers
    /\ proc \in [Procs -> Request]
    /\ life \in [Subs -> {"unused", "used", "deleted"}]
    /\ acked \in [Subs -> Settings \cup {None}]

\* Outside an edit, a subscription has a cron job exactly when its row is
\* enabled and its cron expression is valid ("cron jobs follow create, update,
\* enable, disable and delete", docs/ARCHITECTURE.md:94-95), refreshes running
\* or not, across restarts whose InitCron could load the rows.
CronAgreesWithRows ==
    ticking => \A s \in Subs : Unedited(s) => (s \in cronJobs <=> ShouldRun(row[s]))

\* The settings of a row are those the last successful create or update
\* stored: no refresh that read the row earlier writes old ones back.
SettingsKept == \A s \in Subs : row[s] # None => SettingsOf(row[s]) = acked[s]

\* Once DeleteSubscription has answered, the row, its job and its nodes are
\* gone and nothing brings them back (docs/API.md:280).
DeletedIsGone ==
    \A s \in Subs : life[s] = "deleted" /\ Quiet(s) =>
        row[s] = None /\ nodes[s] = {} /\ s \notin cronJobs

\* Each key of cronJobs has one scheduler entry and no entry is left without
\* a key: a subscription is never refreshed by an entry nobody can remove.
NoLeakedEntry == \A s \in Subs : entries[s] = IF s \in cronJobs THEN 1 ELSE 0

\* A deleted subscription of which no goroutine holds a copy.
Settled(s) ==
    /\ life[s] = "deleted"
    /\ row[s] = None /\ nodes[s] = {} /\ s \notin cronJobs
    /\ \A p \in Procs : proc[p].sub = s => proc[p].copy = None

\* Whatever overlaps, a deletion is final as soon as the requests that read
\* the row before it have ended.
DeletionIsFinal == [][\A s \in Subs : Settled(s) => Settled(s)']_vars

\* Refreshes that overlap one another or an update may mix their nodes but
\* never lose them: when they have ended, the batch of the refresh that cleared
\* the table last is stored whole (every fetch names at least one node here).
NoBatchTorn ==
    \A s \in Subs : Quiet(s) /\ life[s] = "used" /\ row[s].fetched # None =>
        \E n \in nodes[s] : NodesOf(n.batch) \subseteq nodes[s]

\* When refreshes do not overlap, one that records itself in the row
\* (last_fetched_at, node_count) leaves exactly the named nodes it fetched,
\* whatever an earlier refresh left behind when the process died.
RefreshReplacesNodes ==
    [][\A s \in Subs :
         /\ row'[s] # None /\ row'[s].fetched # None
         /\ row[s] = None \/ row[s].fetched # row'[s].fetched
         => nodes'[s] = NodesOf(row'[s].fetched)]_vars

\* A subscription that stays enabled with a valid schedule is refreshed again
\* and again, whatever restarts, updates, failing statements and failed fetches
\* came before, once a start-up could read the rows; only restarts and updates
\* that never end, and come faster than the timer fires, can keep it waiting.
RefreshedForever ==
    \A s \in Subs :
        <>[](ticking /\ ShouldRun(row[s])) =>
            []<>(\E w \in Workers : proc[w].sub = s) \/ []<><<TimerReset(s)>>_vars
=============================================================================
