----------------------- MODULE SubscriptionsEditsProofs -----------------------
(***************************************************************************)
(* What holds when a create, update or delete does not overlap another     *)
(* request on the same subscription (refreshes may overlap one another,    *)
(* statements may fail and the process may crash), then when only deletes  *)
(* do not and, at the end, when updates and refreshes overlap and nothing  *)
(* fails, for all values of the other constants.                           *)
(***************************************************************************)
EXTENDS SubscriptionsProofs

USE DEF ticking

\* A subscription that is being updated or deleted has one request in flight.
EditsExclude ==
    \A p, q \in Procs : p # q /\ proc[p].sub = proc[q].sub /\ proc[p].sub # None =>
        proc[p].kind \in {"refresh", "create"}

\* The copy a handler goes on with has the settings of the row, and a node is
\* left without a row only by a statement that failed.
RequestCurrent(p) ==
    LET s == proc[p].sub IN
    /\ proc[p].pc \in {"save", "schedule", "fetch", "clear", "store"} => row[s] # None
    /\ proc[p].pc \in {"schedule", "fetch", "clear", "store"} =>
          SettingsOf(proc[p].copy) = SettingsOf(row[s])
    /\ proc[p].pc = "unschedule" => row[s] = None
    /\ proc[p].pc = "delrow" /\ DbErrors = FALSE => nodes[s] = {}

\* No request is between its change of the row and its change of the job.
JobSettled(s) == \A p \in Procs : proc[p].sub = s => proc[p].pc \notin {"schedule", "unschedule"}

JobFollows(s) ==
    JobSettled(s) =>
        /\ row[s] = None => s \notin cronJobs
        /\ ticking => (s \in cronJobs <=> ShouldRun(row[s]))

RowCurrent(s) ==
    /\ row[s] # None <=> life[s] = "used"
    /\ row[s] # None => SettingsOf(row[s]) = acked[s]
    /\ row[s] = None /\ DbErrors = FALSE => nodes[s] = {}
    /\ JobFollows(s)

EditInv ==
    /\ EditsExclude
    /\ \A p \in Procs : RequestCurrent(p)
    /\ \A s \in Subs : RowCurrent(s)

-----------------------------------------------------------------------------
(* A step of p on s leaves the other requests and the other subscriptions  *)
(* as they are.                                                            *)

OnlyTouches(p, s) ==
    /\ proc[p].sub \in {None, s} /\ proc'[p].sub \in {None, s}
    /\ \A q \in Procs \ {p} : proc'[q] = proc[q]
    /\ \A t \in Subs \ {s} :
          /\ row'[t] = row[t] /\ nodes'[t] = nodes[t] /\ life'[t] = life[t] /\ acked'[t] = acked[t]
          /\ t \in cronJobs' <=> t \in cronJobs
    /\ ticking' = ticking

LEMMA Elsewhere ==
  ASSUME BaseInv, EditInv, NEW p \in Procs, NEW s \in Subs, OnlyTouches(p, s)
  PROVE  /\ \A t \in Subs \ {s} : RowCurrent(t)'
         /\ \A q \in Procs \ {p} : proc[q].sub # s => RequestCurrent(q)'
<1> USE SubscriptionsAssumption DEF OnlyTouches
<1>1. ASSUME NEW t \in Subs \ {s} PROVE RowCurrent(t)'
  <2>1. JobSettled(t)' => JobSettled(t)
    BY DEF JobSettled
  <2> QED BY <2>1 DEF EditInv, RowCurrent, JobFollows, ShouldRun
<1>2. ASSUME NEW q \in Procs \ {p}, proc[q].sub # s PROVE RequestCurrent(q)'
  <2>1. CASE proc[q].pc = "idle"
    BY <2>1 DEF RequestCurrent
  <2>2. CASE proc[q].pc # "idle"
    <3>1. proc[q].sub \in Subs \ {s}
      BY <1>2, <2>2 DEF BaseInv, WellFormed
    <3> QED BY <3>1 DEF EditInv, RequestCurrent
  <2> QED BY <2>1, <2>2
<1> QED BY <1>1, <1>2

\* A request that starts overlaps only refreshes and a create, and only if it
\* is one of these.
LEMMA ExcludeAtStart ==
  ASSUME BaseInv, EditsExclude, OverlappingEdits \subseteq {"create"}, NEW p \in Procs, NEW s \in Subs,
         NEW kind \in Kinds, NEW pc \in PCs, NEW copy \in Row \cup {None},
         Start(p, s, kind, pc, copy)
  PROVE  /\ EditsExclude'
         /\ \A q \in Procs \ {p} : proc[q].sub = s => {kind, proc[q].kind} \subseteq {"refresh", "create"}
<1>1. /\ proc'[p].kind = kind /\ proc'[p].sub = s
      /\ \A q \in Procs \ {p} : proc'[q] = proc[q]
  <2>1. /\ proc'[p] = [kind |-> kind, pc |-> pc, sub |-> s, copy |-> copy, batch |-> None, done |-> 0]
        /\ \A q \in Procs \ {p} : proc'[q] = proc[q]
    BY StartTyped
  <2> QED BY <2>1
<1>2. ASSUME NEW q \in Procs \ {p}, proc[q].sub = s
      PROVE  {kind, proc[q].kind} \subseteq {"refresh", "create"}
  <2>1. proc[q].pc # "idle"
    BY <1>2, SubscriptionsAssumption DEF BaseInv, WellFormed, Idle
  <2>2. proc[q].kind \in Kinds
    BY <2>1 DEF BaseInv, WellFormed, Kinds
  <2>3. IF {kind, proc[q].kind} = {"refresh"} THEN RefreshesOverlap
          ELSE {kind, proc[q].kind} \ {"refresh"} \subseteq {"create"}
    BY <1>2 DEF Start, MayStart
  <2> QED BY <2>2, <2>3
<1> QED BY <1>1, <1>2 DEF EditsExclude

\* A request that goes on, or ends, keeps its kind and its subscription.
LEMMA ExcludeAfter ==
  ASSUME EditsExclude, NEW p \in Procs, NEW s \in Subs, OnlyTouches(p, s),
         proc'[p] = Idle \/ (proc'[p].sub = proc[p].sub /\ proc'[p].kind = proc[p].kind)
  PROVE  EditsExclude'
  BY SubscriptionsAssumption DEF EditsExclude, OnlyTouches, Idle

\* An update or a deletion is alone on its subscription.
LEMMA EditIsAlone ==
  ASSUME EditsExclude, NEW p \in Procs, proc[p].kind \in {"update", "delete"}, proc[p].sub # None
  PROVE  \A q \in Procs \ {p} : proc[q].sub # proc[p].sub
  BY DEF EditsExclude

\* Enough to check of a step: what it does to its request, to its
\* subscription and to the other requests on that subscription.
LEMMA Assemble ==
  ASSUME BaseInv, EditInv, NEW p \in Procs, NEW s \in Subs, OnlyTouches(p, s), EditsExclude',
         RequestCurrent(p)', RowCurrent(s)',
         \A q \in Procs \ {p} : proc[q].sub = s => RequestCurrent(q)'
  PROVE  EditInv'
  BY Elsewhere DEF EditInv

\* A step of an update or a deletion: there are no other requests on its subscription.
LEMMA AssembleEdit ==
  ASSUME BaseInv, EditInv, NEW p \in Procs, NEW s \in Subs, OnlyTouches(p, s),
         proc[p].sub = s, proc[p].kind \in {"update", "delete"},
         proc'[p] = Idle \/ (proc'[p].sub = s /\ proc'[p].kind = proc[p].kind),
         RequestCurrent(p)', RowCurrent(s)'
  PROVE  EditInv'
<1>1. EditsExclude
  BY DEF EditInv
<1>2. EditsExclude'
  BY <1>1, ExcludeAfter
<1>3. \A q \in Procs \ {p} : proc[q].sub # s
  BY <1>1, EditIsAlone, SubscriptionsAssumption
<1> QED BY <1>2, <1>3, Assemble

\* A step of a refresh: the other requests are refreshes and the create, the
\* settings of the row and its job stay.
LEMMA AssembleRefresh ==
  ASSUME BaseInv, EditInv, NEW p \in Procs, NEW s \in Subs, OnlyTouches(p, s), EditsExclude',
         \A q \in Procs \ {p} : proc[q].sub = s => proc[q].kind \in {"refresh", "create"},
         proc[p].pc \notin {"schedule", "unschedule"}, proc'[p].pc \notin {"schedule", "unschedule"},
         \/ row'[s] = row[s]
         \/ row[s] # None /\ row'[s] # None /\ SettingsOf(row'[s]) = SettingsOf(row[s]),
         row[s] = None => nodes'[s] = nodes[s],
         UNCHANGED <<cronJobs, life, acked>>,
         RequestCurrent(p)'
  PROVE  EditInv'
<1> USE SubscriptionsAssumption DEF OnlyTouches
<1>1. ASSUME NEW q \in Procs \ {p}, proc[q].sub = s PROVE RequestCurrent(q)'
  <2>1. proc[q].pc # "idle"
    BY <1>1 DEF BaseInv, WellFormed, Idle
  <2>2. proc[q].pc \in {"read", "fetch", "clear", "store", "schedule"}
    BY <1>1, <2>1 DEF BaseInv, WellFormed
  <2> QED BY <1>1, <2>2 DEF EditInv, RequestCurrent
<1>2. RowCurrent(s)'
  <2>1. JobSettled(s)' => JobSettled(s)
    BY DEF JobSettled
  <2>2. RowCurrent(s)
    BY DEF EditInv
  <2>3. ShouldRun(row'[s]) <=> ShouldRun(row[s])
    BY DEF ShouldRun, SettingsOf
  <2> QED BY <2>1, <2>2, <2>3 DEF RowCurrent, JobFollows
<1> QED BY <1>1, <1>2, Assemble

\* A failed request ends and changes nothing else.
LEMMA EditInvAfterFinish ==
  ASSUME BaseInv, EditInv, NEW p \in Procs, NEW s \in Subs, s = proc[p].sub,
         proc[p].pc \notin {"schedule", "unschedule"}, Finish(p), UNCHANGED <<row, nodes, cronJobs, entries, scheduler, life, acked>>
  PROVE  EditInv'
<1>1. proc'[p] = Idle /\ \A q \in Procs \ {p} : proc'[q] = proc[q]
  BY FinishTyped
<1>3. OnlyTouches(p, s)
  BY <1>1 DEF OnlyTouches, Idle
<1>4. EditsExclude'
  BY <1>1, <1>3, ExcludeAfter DEF EditInv
<1>5. RequestCurrent(p)'
  BY <1>1 DEF RequestCurrent, Idle
<1>6. RowCurrent(s)'
  <2>1. JobSettled(s)' => JobSettled(s)
    BY <1>1 DEF JobSettled
  <2> QED BY <2>1 DEF EditInv, RowCurrent, JobFollows
<1>7. ASSUME NEW q \in Procs \ {p} PROVE RequestCurrent(q)'
  BY <1>1, <1>7 DEF EditInv, RequestCurrent
<1> QED BY <1>3, <1>4, <1>5, <1>6, <1>7, Assemble

LEMMA EditInvEdits ==
  ASSUME BaseInv, EditInv, NEW p \in Procs, NEW s \in Subs, s = proc[p].sub,
         \/ \E c \in Confs, e \in BOOLEAN : UpdateSave(p, c, e)
         \/ Reschedule(p) \/ DeleteRow(p) \/ Unschedule(p)
  PROVE  EditInv'
<1> USE SubscriptionsAssumption
<1>1. s \in Subs /\ RequestCurrent(p) /\ RowCurrent(s)
  BY DEF EditInv
<1>3. TypeOK
  BY DEF BaseInv
<1>4. ASSUME NEW c \in Confs, NEW e \in BOOLEAN, UpdateSave(p, c, e) PROVE EditInv'
  <2> DEFINE r == Stored(s, [proc[p].copy EXCEPT !.conf = c, !.enabled = e])
  <2>9. r \in Row
    <3>1. [proc[p].copy EXCEPT !.conf = c, !.enabled = e] \in Row
      BY <1>4 DEF UpdateSave, At, BaseInv, WellFormed, Row
    <3> QED BY <3>1, StoredTyped
  <2> HIDE DEF r
  <2>1. /\ proc[p].kind = "update" /\ proc[p].pc = "save" /\ r \in Row
        /\ row' = [row EXCEPT ![s] = r] /\ acked' = [acked EXCEPT ![s] = SettingsOf(r)]
        /\ proc' = [proc EXCEPT ![p] = [@ EXCEPT !.pc = "schedule", !.copy = r]]
        /\ UNCHANGED <<nodes, cronJobs, entries, scheduler, life>>
    BY <1>4, <2>9 DEF UpdateSave, Save, At, r
  <2>2. proc[p] \in Request
    BY ProcTyped
  <2>3. proc'[p] = [proc[p] EXCEPT !.pc = "schedule", !.copy = r] /\ \A q \in Procs \ {p} : proc'[q] = proc[q]
    BY <1>3, <2>1 DEF TypeOK
  <2>4. /\ proc'[p].sub = proc[p].sub /\ proc'[p].kind = proc[p].kind
        /\ proc'[p].pc = "schedule" /\ proc'[p].copy = r
    BY <2>2, <2>3 DEF Request
  <2>5. row'[s] = r /\ acked'[s] = SettingsOf(r) /\ r # None
    BY <1>1, <1>3, <2>1 DEF TypeOK
  <2>6. OnlyTouches(p, s)
    BY <1>3, <2>1, <2>3, <2>4 DEF OnlyTouches, TypeOK
  <2>7. RequestCurrent(p)'
    BY <2>4, <2>5 DEF RequestCurrent
  <2>8. RowCurrent(s)'
    BY <1>1, <2>1, <2>4, <2>5 DEF RequestCurrent, RowCurrent, JobFollows, JobSettled
  <2> QED BY <1>1, <2>1, <2>4, <2>6, <2>7, <2>8, AssembleEdit
<1>5. ASSUME Reschedule(p) PROVE EditInv'
  <2>1. /\ proc[p].kind \in {"create", "update"} /\ proc[p].pc = "schedule" /\ proc[p].copy \in Row
        /\ Finish(p) /\ UNCHANGED <<row, nodes, scheduler, life, acked>>
        /\ cronJobs' = IF ShouldRun(proc[p].copy) THEN cronJobs \cup {s} ELSE cronJobs \ {s}
    BY <1>5 DEF Reschedule, ScheduleSubscription, At, BaseInv, WellFormed
  <2>2. proc'[p] = Idle /\ \A q \in Procs \ {p} : proc'[q] = proc[q]
    BY <2>1, FinishTyped
  <2>3. OnlyTouches(p, s) /\ RequestCurrent(p)'
    BY <2>1, <2>2 DEF OnlyTouches, RequestCurrent, Idle
  <2>4. row[s] # None /\ (ShouldRun(proc[p].copy) <=> ShouldRun(row[s]))
    BY <1>1, <2>1 DEF RequestCurrent, SettingsOf, ShouldRun
  <2>5. RowCurrent(s)'
    BY <1>1, <2>1, <2>4 DEF RowCurrent, JobFollows, ShouldRun
  <2>6. \A q \in Procs \ {p} : RequestCurrent(q)'
    BY <2>1, <2>2 DEF EditInv, RequestCurrent
  <2>7. EditsExclude'
    BY <2>2, <2>3, ExcludeAfter DEF EditInv
  <2> QED BY <1>1, <2>3, <2>5, <2>6, <2>7, Assemble
<1>6. ASSUME DeleteRow(p) PROVE EditInv'
  <2>1. /\ proc[p].kind = "delete" /\ proc[p].pc = "delrow"
        /\ row' = [row EXCEPT ![s] = None] /\ life' = [life EXCEPT ![s] = "deleted"]
        /\ acked' = [acked EXCEPT ![s] = None] /\ proc' = [proc EXCEPT ![p].pc = "unschedule"]
        /\ UNCHANGED <<nodes, cronJobs, entries, scheduler>>
    BY <1>6 DEF DeleteRow, Save, Goto, At
  <2>2. proc[p] \in Request
    BY ProcTyped
  <2>3. proc'[p] = [proc[p] EXCEPT !.pc = "unschedule"] /\ \A q \in Procs \ {p} : proc'[q] = proc[q]
    BY <1>3, <2>1 DEF TypeOK
  <2>4. /\ proc'[p].sub = proc[p].sub /\ proc'[p].kind = proc[p].kind
        /\ proc'[p].pc = "unschedule"
    BY <2>2, <2>3 DEF Request
  <2>5. row'[s] = None /\ life'[s] = "deleted"
    BY <1>1, <1>3, <2>1 DEF TypeOK
  <2>6. OnlyTouches(p, s)
    BY <1>3, <2>1, <2>3, <2>4 DEF OnlyTouches, TypeOK
  <2>7. RequestCurrent(p)'
    BY <2>4, <2>5 DEF RequestCurrent
  <2>8. RowCurrent(s)'
    BY <1>1, <2>1, <2>4, <2>5 DEF RequestCurrent, RowCurrent, JobFollows, JobSettled
  <2> QED BY <1>1, <2>1, <2>4, <2>6, <2>7, <2>8, AssembleEdit
<1>7. ASSUME Unschedule(p) PROVE EditInv'
  <2>1. /\ proc[p].kind = "delete" /\ proc[p].pc = "unschedule"
        /\ Finish(p) /\ UNCHANGED <<row, nodes, scheduler, life, acked>>
        /\ cronJobs' = cronJobs \ {s}
    BY <1>7 DEF Unschedule, UnscheduleSubscription, At
  <2>2. proc'[p] = Idle /\ \A q \in Procs \ {p} : proc'[q] = proc[q]
    BY <2>1, FinishTyped
  <2>3. OnlyTouches(p, s) /\ RequestCurrent(p)'
    BY <2>1, <2>2 DEF OnlyTouches, RequestCurrent, Idle
  <2>4. row[s] = None
    BY <1>1, <2>1 DEF RequestCurrent
  <2>5. RowCurrent(s)'
    BY <1>1, <2>1, <2>4 DEF RowCurrent, JobFollows, ShouldRun
  <2> QED BY <1>1, <2>1, <2>2, <2>3, <2>5, AssembleEdit
<1> QED BY <1>4, <1>5, <1>6, <1>7

LEMMA EditInvRefreshes ==
  ASSUME BaseInv, EditInv, NEW p \in Procs, NEW s \in Subs, s = proc[p].sub,
         \/ CronRead(p) \/ \E f \in Fetches, size \in Results : Fetch(p, f, size)
         \/ ClearNodes(p) \/ StoreNode(p) \/ SaveMeta(p)
  PROVE  EditInv'
<1> USE SubscriptionsAssumption
<1>1. /\ RequestCurrent(p) /\ RowCurrent(s) /\ EditsExclude
      /\ TypeOK /\ proc[p] \in Request
  BY ProcTyped DEF EditInv, BaseInv
<1>2. proc[p].kind = "refresh" /\ proc[p].pc \in {"read", "fetch", "clear", "store"}
  BY DEF CronRead, Fetch, ClearNodes, StoreNode, SaveMeta, At
<1>3. \A q \in Procs \ {p} : proc[q].sub = s => proc[q].kind \in {"refresh", "create"}
  BY <1>1 DEF EditsExclude
<1>4. ASSUME proc' \in [Procs -> Request], \A q \in Procs \ {p} : proc'[q] = proc[q],
             \/ proc'[p] = Idle
             \/ /\ proc'[p].sub = s /\ proc'[p].kind = "refresh"
                /\ proc'[p].pc \in {"read", "fetch", "clear", "store"},
             \/ row' = row
             \/ \E r \in Row : row' = [row EXCEPT ![s] = r] /\ row[s] # None /\ SettingsOf(r) = SettingsOf(row[s]),
             \/ nodes' = nodes
             \/ row[s] # None /\ \E ns \in SUBSET Node : nodes' = [nodes EXCEPT ![s] = ns],
             UNCHANGED <<cronJobs, scheduler, life, acked>>,
             RequestCurrent(p)'
      PROVE  EditInv'
  <2>1. OnlyTouches(p, s)
    BY <1>1, <1>4 DEF OnlyTouches, TypeOK, Idle
  <2>2. EditsExclude'
    BY <1>1, <1>2, <1>4, <2>1, ExcludeAfter
  <2>3. \/ row'[s] = row[s]
        \/ row[s] # None /\ row'[s] # None /\ SettingsOf(row'[s]) = SettingsOf(row[s])
    BY <1>1, <1>4 DEF TypeOK
  <2> QED BY <1>2, <1>3, <1>4, <2>1, <2>2, <2>3, AssembleRefresh DEF Idle
<1>5. ASSUME CronRead(p) PROVE EditInv'
  <2>1. CASE Finish(p)
    <3>1. UNCHANGED <<row, nodes, cronJobs, entries, scheduler, life, acked>>
      BY <1>5 DEF CronRead
    <3> QED BY <1>2, <2>1, <3>1, EditInvAfterFinish
  <2>2. CASE row[s] # None /\ proc' = [proc EXCEPT ![p] = [@ EXCEPT !.pc = "fetch", !.copy = row[s]]]
    <3>1. row[s] \in Row
      BY <1>1, <2>2 DEF TypeOK
    <3>2. [proc[p] EXCEPT !.pc = "fetch", !.copy = row[s]] \in Request
      BY <1>1, <3>1 DEF Request, PCs
    <3>3. /\ proc' \in [Procs -> Request] /\ \A q \in Procs \ {p} : proc'[q] = proc[q]
          /\ proc'[p] = [proc[p] EXCEPT !.pc = "fetch", !.copy = row[s]]
      BY <2>2, <3>2, EditTyped DEF TypeOK
    <3>4. /\ proc'[p].sub = proc[p].sub /\ proc'[p].kind = proc[p].kind
          /\ proc'[p].pc = "fetch" /\ proc'[p].copy = row[s]
      BY <1>1, <3>3 DEF Request
    <3>5. UNCHANGED <<row, nodes, cronJobs, scheduler, life, acked>>
      BY <1>5 DEF CronRead
    <3>6. RequestCurrent(p)'
      BY <2>2, <3>4, <3>5 DEF RequestCurrent
    <3> QED BY <1>2, <1>4, <3>3, <3>4, <3>5, <3>6
  <2> QED BY <1>5, <2>1, <2>2 DEF CronRead
<1>6. ASSUME NEW f \in Fetches, NEW size \in Results, Fetch(p, f, size) PROVE EditInv'
  <2> DEFINE b == [id |-> f, size |-> size]
  <2>1. /\ b \in Batch /\ proc[p].pc = "fetch"
        /\ proc' = [proc EXCEPT ![p] = [@ EXCEPT !.pc = "clear", !.batch = b]]
        /\ UNCHANGED <<row, nodes, cronJobs, scheduler, life, acked>>
    BY <1>6 DEF Fetch, At, Batch
  <2> HIDE DEF b
  <2>2. [proc[p] EXCEPT !.pc = "clear", !.batch = b] \in Request
    BY <1>1, <2>1 DEF Request, PCs
  <2>3. /\ proc' \in [Procs -> Request] /\ \A q \in Procs \ {p} : proc'[q] = proc[q]
        /\ proc'[p] = [proc[p] EXCEPT !.pc = "clear", !.batch = b]
    BY <2>1, <2>2, EditTyped DEF TypeOK
  <2>4. /\ proc'[p].sub = proc[p].sub /\ proc'[p].kind = proc[p].kind
        /\ proc'[p].pc = "clear" /\ proc'[p].copy = proc[p].copy
    BY <1>1, <2>3 DEF Request
  <2>5. RequestCurrent(p)'
    BY <1>1, <2>1, <2>4 DEF RequestCurrent
  <2> QED BY <1>2, <1>4, <2>1, <2>3, <2>4, <2>5
<1>7. ASSUME ClearNodes(p) PROVE EditInv'
  <2>1. /\ proc[p].pc = "clear" /\ Goto(p, "store") /\ "store" \in PCs
        /\ nodes' = nodes \/ nodes' = [nodes EXCEPT ![s] = {}]
        /\ UNCHANGED <<row, cronJobs, scheduler, life, acked>>
    BY <1>7 DEF ClearNodes, At, PCs
  <2>2. /\ proc' \in [Procs -> Request] /\ \A q \in Procs \ {p} : proc'[q] = proc[q]
        /\ proc'[p] = [proc[p] EXCEPT !.pc = "store"]
    BY <2>1, GotoTyped
  <2>3. /\ proc'[p].sub = proc[p].sub /\ proc'[p].kind = proc[p].kind
        /\ proc'[p].pc = "store" /\ proc'[p].copy = proc[p].copy
    BY <1>1, <2>2 DEF Request
  <2>4. RequestCurrent(p)' /\ row[s] # None
    BY <1>1, <2>1, <2>3 DEF RequestCurrent
  <2>5. {} \in SUBSET Node
    OBVIOUS
  <2> QED BY <1>2, <1>4, <2>1, <2>2, <2>3, <2>4, <2>5
<1>8. ASSUME StoreNode(p) PROVE EditInv'
  <2> DEFINE n == [batch |-> proc[p].batch, index |-> proc[p].done + 1]
  <2>1. /\ proc[p].pc = "store" /\ n \in Node
        /\ nodes' = nodes \/ nodes' = [nodes EXCEPT ![s] = @ \cup {n}]
        /\ proc' = [proc EXCEPT ![p].done = @ + 1]
        /\ UNCHANGED <<row, cronJobs, scheduler, life, acked>>
    BY <1>1, <1>8 DEF StoreNode, At, BaseInv, WellFormed, Request, Node
  <2> HIDE DEF n
  <2>2. /\ proc' \in [Procs -> Request] /\ \A q \in Procs \ {p} : proc'[q] = proc[q]
        /\ proc'[p] = [proc[p] EXCEPT !.done = @ + 1]
    BY <1>1, <2>1 DEF TypeOK, Request
  <2>3. /\ proc'[p].sub = proc[p].sub /\ proc'[p].kind = proc[p].kind
        /\ proc'[p].pc = proc[p].pc /\ proc'[p].copy = proc[p].copy
    BY <1>1, <2>2 DEF Request
  <2>4. RequestCurrent(p)' /\ row[s] # None
    BY <1>1, <2>1, <2>3 DEF RequestCurrent
  <2>5. \/ nodes' = nodes
        \/ row[s] # None /\ \E ns \in SUBSET Node : nodes' = [nodes EXCEPT ![s] = ns]
    <3>1. nodes[s] \cup {n} \in SUBSET Node
      BY <1>1, <2>1 DEF TypeOK
    <3> QED BY <2>1, <2>4, <3>1
  <2> QED BY <1>2, <1>4, <2>1, <2>2, <2>3, <2>4, <2>5
<1>9. ASSUME SaveMeta(p) PROVE EditInv'
  <2> DEFINE r == [proc[p].copy EXCEPT !.fetched = proc[p].batch]
  <2>1. proc[p].pc = "store" /\ proc[p].copy \in Row /\ proc[p].batch \in Batch /\ row[s] # None
    BY <1>1, <1>9 DEF SaveMeta, At, BaseInv, WellFormed, RequestCurrent
  <2>2. r \in Row /\ SettingsOf(r) = SettingsOf(row[s])
    BY <1>1, <2>1 DEF Row, SettingsOf, RequestCurrent
  <2>3. /\ row' = row \/ row' = [row EXCEPT ![s] = r]
        /\ Finish(p) /\ UNCHANGED <<nodes, cronJobs, scheduler, life, acked>>
    BY <1>9, <2>1 DEF SaveMeta, Save, Stored
  <2> HIDE DEF r
  <2>4. proc' \in [Procs -> Request] /\ proc'[p] = Idle /\ \A q \in Procs \ {p} : proc'[q] = proc[q]
    BY <2>3, FinishTyped
  <2>5. RequestCurrent(p)'
    BY <2>4 DEF RequestCurrent, Idle
  <2> QED BY <1>4, <2>1, <2>2, <2>3, <2>4, <2>5
<1> QED BY <1>5, <1>6, <1>7, <1>8, <1>9

\* A request, or a cron run, starts.
LEMMA EditInvStarts ==
  ASSUME OverlappingEdits \subseteq {"create"}, BaseInv, EditInv, NEW p \in Procs, NEW s \in Subs,
         \/ \E c \in Confs, e \in BOOLEAN : CreateSubscription(p, s, c, e)
         \/ UpdateRead(p, s) \/ DeleteNodes(p, s) \/ RefreshSubscription(p, s) \/ CronFire(p, s)
  PROVE  EditInv'
<1> USE SubscriptionsAssumption
<1>1. /\ RequestCurrent(p) /\ RowCurrent(s) /\ EditsExclude /\ TypeOK
      /\ \A q \in Procs : RequestCurrent(q)
  BY DEF EditInv, BaseInv
<1>2. proc[p].pc = "idle" /\ proc[p].sub = None
  <2>1. proc[p].pc = "idle"
    BY DEF CreateSubscription, UpdateRead, DeleteNodes, RefreshSubscription, CronFire, Start
  <2>2. proc[p] = Idle
    BY <2>1 DEF BaseInv, WellFormed
  <2> QED BY <2>1, <2>2 DEF Idle
<1>3. ASSUME NEW c \in Confs, NEW e \in BOOLEAN, CreateSubscription(p, s, c, e) PROVE EditInv'
  <2> DEFINE r == [conf |-> c, enabled |-> GormCreated(e), fetched |-> None]
  <2>1. /\ r \in Row /\ life[s] = "unused" /\ Start(p, s, "create", "schedule", r)
        /\ row' = [row EXCEPT ![s] = r] /\ life' = [life EXCEPT ![s] = "used"]
        /\ acked' = [acked EXCEPT ![s] = SettingsOf(r)]
        /\ UNCHANGED <<nodes, cronJobs, entries, scheduler>>
        /\ "create" \in Kinds /\ "schedule" \in PCs
    BY <1>3 DEF CreateSubscription, Save, Row, GormCreated, Kinds, PCs
  <2> HIDE DEF r
  <2>2. /\ proc'[p] = [kind |-> "create", pc |-> "schedule", sub |-> s, copy |-> r, batch |-> None, done |-> 0]
        /\ \A q \in Procs \ {p} : proc'[q] = proc[q]
    BY <2>1, StartTyped
  <2>3. /\ EditsExclude'
        /\ \A q \in Procs \ {p} : proc[q].sub # s
    BY <1>1, <2>1, ExcludeAtStart DEF BaseInv, WellFormed, Idle
  <2>4. OnlyTouches(p, s)
    BY <1>1, <1>2, <2>1, <2>2 DEF OnlyTouches, TypeOK
  <2>5. row'[s] = r /\ acked'[s] = SettingsOf(r) /\ life'[s] = "used" /\ r # None
    BY <1>1, <2>1 DEF TypeOK
  <2>6. RequestCurrent(p)'
    BY <2>2, <2>5 DEF RequestCurrent
  <2>7. RowCurrent(s)'
    BY <2>2, <2>5 DEF RowCurrent, JobFollows, JobSettled
  <2> QED BY <2>3, <2>4, <2>6, <2>7, Assemble
<1>4. ASSUME UpdateRead(p, s) PROVE EditInv'
  <2>1. /\ Start(p, s, "update", "save", row[s]) /\ row[s] \in Row
        /\ UNCHANGED <<row, nodes, cronJobs, entries, scheduler, life, acked>>
        /\ "update" \in Kinds /\ "save" \in PCs
    BY <1>1, <1>4 DEF UpdateRead, Kinds, PCs, TypeOK
  <2>2. /\ proc'[p] = [kind |-> "update", pc |-> "save", sub |-> s, copy |-> row[s], batch |-> None, done |-> 0]
        /\ \A q \in Procs \ {p} : proc'[q] = proc[q]
    BY <2>1, StartTyped
  <2>3. /\ EditsExclude'
        /\ \A q \in Procs \ {p} : proc[q].sub # s
    BY <1>1, <2>1, ExcludeAtStart
  <2>4. OnlyTouches(p, s)
    BY <1>2, <2>1, <2>2 DEF OnlyTouches
  <2>5. RequestCurrent(p)' /\ row[s] # None
    BY <2>1, <2>2 DEF RequestCurrent
  <2>6. RowCurrent(s)'
    BY <1>1, <1>2, <2>1, <2>2, <2>3 DEF RowCurrent, JobFollows, JobSettled
  <2> QED BY <2>3, <2>4, <2>5, <2>6, Assemble
<1>5. ASSUME DeleteNodes(p, s) PROVE EditInv'
  <2>1. /\ Start(p, s, "delete", "delrow", None)
        /\ nodes' = [nodes EXCEPT ![s] = {}] \/ (DbErrors = TRUE /\ nodes' = nodes)
        /\ UNCHANGED <<row, cronJobs, entries, scheduler, life, acked>>
        /\ "delete" \in Kinds /\ "delrow" \in PCs
    BY <1>5 DEF DeleteNodes, MayFail, Kinds, PCs
  <2>2. /\ proc'[p] = [kind |-> "delete", pc |-> "delrow", sub |-> s, copy |-> None, batch |-> None, done |-> 0]
        /\ \A q \in Procs \ {p} : proc'[q] = proc[q]
    BY <2>1, StartTyped
  <2>3. /\ EditsExclude'
        /\ \A q \in Procs \ {p} : proc[q].sub # s
    BY <1>1, <2>1, ExcludeAtStart
  <2>4. OnlyTouches(p, s)
    BY <1>1, <1>2, <2>1, <2>2 DEF OnlyTouches, TypeOK
  <2>5. DbErrors = FALSE => nodes'[s] = {}
    BY <1>1, <2>1 DEF TypeOK
  <2>6. RequestCurrent(p)'
    BY <2>2, <2>5 DEF RequestCurrent
  <2>7. RowCurrent(s)'
    BY <1>1, <1>2, <2>1, <2>2, <2>3, <2>5 DEF RowCurrent, JobFollows, JobSettled
  <2> QED BY <2>3, <2>4, <2>6, <2>7, Assemble
<1>6. ASSUME RefreshSubscription(p, s) \/ CronFire(p, s) PROVE EditInv'
  <2>1. \/ row[s] # None /\ Start(p, s, "refresh", "fetch", row[s])
        \/ Start(p, s, "refresh", "read", None)
    BY <1>6 DEF RefreshSubscription, CronFire
  <2>2. UNCHANGED <<row, nodes, cronJobs, entries, scheduler, life, acked>>
    BY <1>6 DEF RefreshSubscription, CronFire
  <2>3. "refresh" \in Kinds /\ "fetch" \in PCs /\ "read" \in PCs /\ row[s] \in Row \cup {None}
    BY <1>1 DEF Kinds, PCs, TypeOK
  <2>4. \E pc \in {"fetch", "read"}, copy \in Row \cup {None} :
          /\ pc = "fetch" => row[s] # None /\ copy = row[s]
          /\ Start(p, s, "refresh", pc, copy)
    BY <2>1, <2>3
  <2>5. PICK pc \in {"fetch", "read"}, copy \in Row \cup {None} :
          /\ pc = "fetch" => row[s] # None /\ copy = row[s]
          /\ Start(p, s, "refresh", pc, copy)
    BY <2>4
  <2>6. /\ proc'[p] = [kind |-> "refresh", pc |-> pc, sub |-> s, copy |-> copy, batch |-> None, done |-> 0]
        /\ \A q \in Procs \ {p} : proc'[q] = proc[q]
    BY <2>3, <2>5, StartTyped
  <2>7. /\ EditsExclude'
        /\ \A q \in Procs \ {p} : proc[q].sub = s => proc[q].kind \in {"refresh", "create"}
    BY <1>1, <2>3, <2>5, ExcludeAtStart
  <2>8. OnlyTouches(p, s)
    BY <1>2, <2>2, <2>6 DEF OnlyTouches
  <2>9. RequestCurrent(p)'
    BY <2>2, <2>5, <2>6 DEF RequestCurrent
  <2> QED BY <1>2, <2>2, <2>6, <2>7, <2>8, <2>9, AssembleRefresh
<1> QED BY <1>3, <1>4, <1>5, <1>6

LEMMA EditInvRestart == BaseInv /\ EditInv /\ Restart => EditInv'
<1> SUFFICES ASSUME BaseInv, EditInv, Restart PROVE EditInv'
  OBVIOUS
<1> USE SubscriptionsAssumption
<1>1. /\ \A p \in Procs : proc'[p] = Idle
      /\ UNCHANGED <<row, nodes, life, acked>>
  BY DEF Restart
<1>2. EditsExclude'
  BY <1>1 DEF EditsExclude, Idle
<1>3. ASSUME NEW p \in Procs PROVE RequestCurrent(p)'
  BY <1>1 DEF RequestCurrent, Idle
<1>4. ASSUME NEW s \in Subs PROVE RowCurrent(s)'
  <2>1. /\ row[s] = None => s \notin cronJobs'
        /\ ticking' => (s \in cronJobs' <=> ShouldRun(row[s]))
    BY DEF Restart, InitCron, ShouldRun
  <2> QED BY <1>1, <2>1 DEF EditInv, RowCurrent, JobFollows, ShouldRun
<1> QED BY <1>2, <1>3, <1>4 DEF EditInv

THEOREM StepEdits ==
  ASSUME OverlappingEdits \subseteq {"create"}, BaseInv, EditInv, [Next]_vars
  PROVE  EditInv'
<1> USE SubscriptionsAssumption
<1>1. ASSUME NEW p \in Clients, NEW s \in Subs, Arrive(p, s) PROVE EditInv'
  BY <1>1, EditInvStarts DEF Arrive, Procs
<1>2. ASSUME NEW w \in Workers, NEW s \in Subs, CronFire(w, s) PROVE EditInv'
  BY <1>2, EditInvStarts DEF Procs
<1>3. ASSUME NEW p \in Procs, Continue(p) PROVE EditInv'
  <2>1. proc[p].pc # "idle"
    BY <1>3 DEF Continue, UpdateSave, UpdateFails, Reschedule, DeleteRow, DeleteFails, Unschedule,
                CronRead, Fetch, FetchFails, ClearNodes, StoreNode, SaveMeta, At
  <2>2. proc[p].sub \in Subs
    BY <2>1 DEF BaseInv, WellFormed
  <2>3. CASE UpdateFails(p) \/ DeleteFails(p) \/ FetchFails(p)
    <3>1. /\ proc[p].pc \notin {"schedule", "unschedule"}
          /\ Finish(p) /\ UNCHANGED <<row, nodes, cronJobs, entries, scheduler, life, acked>>
      BY <2>3 DEF UpdateFails, DeleteFails, FetchFails, At
    <3> QED BY <2>2, <3>1, EditInvAfterFinish
  <2>4. CASE \/ \E c \in Confs, e \in BOOLEAN : UpdateSave(p, c, e)
             \/ Reschedule(p) \/ DeleteRow(p) \/ Unschedule(p)
    BY <2>2, <2>4, EditInvEdits
  <2>5. CASE \/ CronRead(p) \/ \E f \in Fetches, size \in Results : Fetch(p, f, size)
             \/ ClearNodes(p) \/ StoreNode(p) \/ SaveMeta(p)
    BY <2>2, <2>5, EditInvRefreshes
  <2> QED BY <1>3, <2>3, <2>4, <2>5 DEF Continue
<1>4. CASE Restart
  BY <1>4, EditInvRestart
<1>5. CASE UNCHANGED vars
  BY <1>5 DEF vars, EditInv, EditsExclude, RequestCurrent, RowCurrent, JobFollows, JobSettled
<1> QED BY <1>1, <1>2, <1>3, <1>4, <1>5 DEF Next

THEOREM InitEdits == Init => EditInv
  BY SubscriptionsAssumption
  DEF Init, EditInv, EditsExclude, RequestCurrent, RowCurrent, JobFollows, JobSettled, Idle, ShouldRun

THEOREM EditInvariant == OverlappingEdits \subseteq {"create"} => (Spec => []EditInv)
<1> SUFFICES ASSUME OverlappingEdits \subseteq {"create"} PROVE Spec => []EditInv
  OBVIOUS
<1>1. BaseInv /\ EditInv /\ [Next]_vars => EditInv'
  BY StepEdits
<1> QED BY <1>1, InitEdits, BaseInvariant, PTL DEF Spec

\* Outside an edit the cron jobs are those the rows ask for, however many
\* refreshes run, fail or are cut off.
THEOREM CronAgrees == OverlappingEdits \subseteq {"create"} => (Spec => []CronAgreesWithRows)
<1> SUFFICES ASSUME OverlappingEdits \subseteq {"create"} PROVE Spec => []CronAgreesWithRows
  OBVIOUS
<1>1. BaseInv /\ EditInv => CronAgreesWithRows
  <2> SUFFICES ASSUME BaseInv, EditInv, ticking, NEW s \in Subs, Unedited(s)
               PROVE  s \in cronJobs <=> ShouldRun(row[s])
    BY DEF CronAgreesWithRows
  <2>1. JobSettled(s)
    BY SubscriptionsAssumption DEF JobSettled, Unedited, Edits, Kinds, BaseInv, WellFormed
  <2> QED BY <2>1 DEF EditInv, RowCurrent, JobFollows
<1> QED BY <1>1, BaseInvariant, EditInvariant, PTL

\* The scheduler itself, not only the map: outside an edit one timer runs for
\* each subscription that is to be refreshed and none for any other, so no tick
\* is doubled or missing.  RefreshedForever rests on this.
THEOREM DueIsTimedOnce ==
    OverlappingEdits \subseteq {"create"} =>
        (Spec => [](ticking => \A s \in Subs :
                       Unedited(s) => entries[s] = IF ShouldRun(row[s]) THEN 1 ELSE 0))
<1> SUFFICES ASSUME OverlappingEdits \subseteq {"create"}
             PROVE  Spec => [](ticking => \A s \in Subs :
                                 Unedited(s) => entries[s] = IF ShouldRun(row[s]) THEN 1 ELSE 0)
  OBVIOUS
<1>1. CronAgreesWithRows /\ NoLeakedEntry =>
        (ticking => \A s \in Subs :
             Unedited(s) => entries[s] = IF ShouldRun(row[s]) THEN 1 ELSE 0)
  BY DEF CronAgreesWithRows, NoLeakedEntry
<1> QED BY <1>1, CronAgrees, EntriesNeverLeak, PTL

\* No refresh writes back settings an update has replaced.
THEOREM SettingsAreKept == OverlappingEdits \subseteq {"create"} => (Spec => []SettingsKept)
<1> SUFFICES ASSUME OverlappingEdits \subseteq {"create"} PROVE Spec => []SettingsKept
  OBVIOUS
<1>1. EditInv => SettingsKept
  BY DEF EditInv, RowCurrent, SettingsKept
<1> QED BY <1>1, EditInvariant, PTL

-----------------------------------------------------------------------------
(* DeletedIsGone.  It is enough that deletions run alone: creates, updates   *)
(* and refreshes may overlap.                                                *)

\* A deletion has its subscription to itself.
DeletesExclude ==
    \A p, q \in Procs : p # q /\ proc[p].sub = proc[q].sub /\ proc[p].sub # None =>
        proc[p].kind # "delete"

\* Every handler that goes on with a copy finds the row there; a deletion that
\* has taken the nodes leaves none.
RowThere(p) ==
    LET s == proc[p].sub IN
    /\ proc[p].pc \in {"save", "schedule", "fetch", "clear", "store"} => row[s] # None
    /\ proc[p].pc = "delrow" /\ DbErrors = FALSE => nodes[s] = {}
    /\ proc[p].pc = "unschedule" => row[s] = None

Unscheduling(s) == \E p \in Procs : proc[p].sub = s /\ proc[p].pc = "unschedule"

Gone(s) ==
    /\ row[s] # None <=> life[s] = "used"
    /\ row[s] = None /\ DbErrors = FALSE => nodes[s] = {}
    /\ row[s] = None /\ s \in cronJobs => Unscheduling(s)

GoneInv ==
    /\ DeletesExclude
    /\ \A p \in Procs : RowThere(p)
    /\ \A s \in Subs : Gone(s)

LEMMA DeletesExcludeAtStart ==
  ASSUME BaseInv, DeletesExclude, "delete" \notin OverlappingEdits, NEW p \in Procs, NEW s \in Subs,
         NEW kind \in Kinds, NEW pc \in PCs, NEW copy \in Row \cup {None},
         Start(p, s, kind, pc, copy)
  PROVE  /\ DeletesExclude'
         /\ \A q \in Procs \ {p} : proc[q].sub = s => kind # "delete" /\ proc[q].kind # "delete"
         /\ proc[p].pc = "idle" /\ proc[p].sub = None
         /\ proc'[p].kind = kind /\ proc'[p].sub = s /\ proc'[p].pc = pc
         /\ \A q \in Procs \ {p} : proc'[q] = proc[q]
<1>1. /\ proc'[p].kind = kind /\ proc'[p].sub = s /\ proc'[p].pc = pc
      /\ \A q \in Procs \ {p} : proc'[q] = proc[q]
  <2>1. /\ proc'[p] = [kind |-> kind, pc |-> pc, sub |-> s, copy |-> copy, batch |-> None, done |-> 0]
        /\ \A q \in Procs \ {p} : proc'[q] = proc[q]
    BY StartTyped
  <2> QED BY <2>1
<1>2. ASSUME NEW q \in Procs \ {p}, proc[q].sub = s
      PROVE  kind # "delete" /\ proc[q].kind # "delete"
  <2>1. IF {kind, proc[q].kind} = {"refresh"} THEN RefreshesOverlap
          ELSE {kind, proc[q].kind} \ {"refresh"} \subseteq OverlappingEdits
    BY <1>2 DEF Start, MayStart
  <2> QED BY <2>1
<1>3. proc[p].pc = "idle" /\ proc[p].sub = None
  <2>1. proc[p].pc = "idle"
    BY DEF Start
  <2> QED BY <2>1 DEF BaseInv, WellFormed, Idle
<1> QED BY <1>1, <1>2, <1>3 DEF DeletesExclude

\* A request that ends or goes on excludes no less, and the deletion that
\* another request would be is not there.
LEMMA DeletesExcludeAfter ==
  ASSUME DeletesExclude, NEW p \in Procs, NEW s \in Subs, OnlyTouches(p, s), proc[p].sub = s,
         proc'[p] = Idle \/ (proc'[p].sub = proc[p].sub /\ proc'[p].kind = proc[p].kind)
  PROVE  /\ DeletesExclude'
         /\ \A q \in Procs \ {p} : proc[q].sub = s => proc[p].kind # "delete" /\ proc[q].kind # "delete"
  BY SubscriptionsAssumption DEF DeletesExclude, OnlyTouches, Idle

\* Enough to check of a step: what it does to its request and its
\* subscription, and that the others there, no deletions, still find the row.
LEMMA AssembleGone ==
  ASSUME BaseInv, GoneInv, NEW p \in Procs, NEW s \in Subs, OnlyTouches(p, s), DeletesExclude',
         RowThere(p)', Gone(s)',
         \A q \in Procs \ {p} : proc[q].sub = s => proc[q].kind # "delete" /\ (row[s] # None => row'[s] # None)
  PROVE  GoneInv'
<1> USE SubscriptionsAssumption DEF OnlyTouches
<1>1. ASSUME NEW q \in Procs \ {p} PROVE RowThere(q)'
  <2>1. CASE proc[q].pc = "idle"
    BY <2>1 DEF RowThere
  <2>2. CASE proc[q].pc # "idle" /\ proc[q].sub # s
    <3>1. proc[q].sub \in Subs \ {s}
      BY <2>2 DEF BaseInv, WellFormed
    <3> QED BY <3>1 DEF GoneInv, RowThere
  <2>3. CASE proc[q].pc # "idle" /\ proc[q].sub = s
    <3>1. proc[q].pc \notin {"delrow", "unschedule"}
      BY <2>3 DEF BaseInv, WellFormed
    <3> QED BY <2>3, <3>1 DEF GoneInv, RowThere
  <2> QED BY <2>1, <2>2, <2>3
<1>2. ASSUME NEW t \in Subs \ {s} PROVE Gone(t)'
  <2>1. Unscheduling(t) => Unscheduling(t)'
    BY DEF Unscheduling
  <2> QED BY <2>1 DEF GoneInv, Gone
<1> QED BY <1>1, <1>2 DEF GoneInv

\* A step that changes no table: a request starts, goes on or ends.
LEMMA GoneUnchanging ==
  ASSUME BaseInv, GoneInv, NEW p \in Procs, NEW s \in Subs, OnlyTouches(p, s), DeletesExclude',
         UNCHANGED <<row, nodes, cronJobs, life>>, RowThere(p)', proc[p].pc # "unschedule",
         \A q \in Procs \ {p} : proc[q].sub = s => proc[q].kind # "delete"
  PROVE  GoneInv'
<1>1. Unscheduling(s) => Unscheduling(s)'
  BY DEF Unscheduling, OnlyTouches
<1>2. Gone(s)'
  BY <1>1 DEF GoneInv, Gone
<1> QED BY <1>2, AssembleGone

\* A step of a handler that finds the row and leaves one.
LEMMA GoneKept ==
  ASSUME BaseInv, GoneInv, NEW p \in Procs, NEW s \in Subs, OnlyTouches(p, s), proc[p].sub = s,
         proc[p].kind # "delete", row[s] # None, row'[s] # None, life' = life,
         \/ proc'[p] = Idle
         \/ /\ proc'[p].sub = s /\ proc'[p].kind = proc[p].kind
            /\ proc'[p].pc \in {"save", "schedule", "fetch", "clear", "store"}
  PROVE  GoneInv'
<1>1. /\ DeletesExclude'
      /\ \A q \in Procs \ {p} : proc[q].sub = s => proc[q].kind # "delete"
  BY DeletesExcludeAfter DEF GoneInv
<1>2. RowThere(p)'
  BY DEF RowThere, Idle
<1>3. Gone(s)'
  BY DEF GoneInv, Gone
<1> QED BY <1>1, <1>2, <1>3, AssembleGone

LEMMA GoneStarts ==
  ASSUME "delete" \notin OverlappingEdits, BaseInv, GoneInv, NEW p \in Procs, NEW s \in Subs,
         \/ \E c \in Confs, e \in BOOLEAN : CreateSubscription(p, s, c, e)
         \/ UpdateRead(p, s) \/ DeleteNodes(p, s) \/ RefreshSubscription(p, s) \/ CronFire(p, s)
  PROVE  GoneInv'
<1> USE SubscriptionsAssumption
<1>1. TypeOK /\ DeletesExclude /\ Gone(s)
  BY DEF BaseInv, GoneInv
<1>2. ASSUME NEW c \in Confs, NEW e \in BOOLEAN, CreateSubscription(p, s, c, e) PROVE GoneInv'
  <2> DEFINE r == [conf |-> c, enabled |-> GormCreated(e), fetched |-> None]
  <2>1. /\ r \in Row /\ life[s] = "unused" /\ Start(p, s, "create", "schedule", r)
        /\ row' = [row EXCEPT ![s] = r] /\ life' = [life EXCEPT ![s] = "used"]
        /\ acked' = [acked EXCEPT ![s] = SettingsOf(r)]
        /\ UNCHANGED <<nodes, cronJobs, entries, scheduler>>
        /\ "create" \in Kinds /\ "schedule" \in PCs
    BY <1>2 DEF CreateSubscription, Save, Row, GormCreated, Kinds, PCs
  <2> HIDE DEF r
  <2>2. /\ DeletesExclude'
        /\ \A q \in Procs \ {p} : proc[q].sub = s => proc[q].kind # "delete"
        /\ proc[p].pc = "idle" /\ proc[p].sub = None
        /\ proc'[p].kind = "create" /\ proc'[p].sub = s /\ proc'[p].pc = "schedule"
        /\ \A q \in Procs \ {p} : proc'[q] = proc[q]
    BY <1>1, <2>1, DeletesExcludeAtStart
  <2>3. OnlyTouches(p, s)
    BY <1>1, <2>1, <2>2 DEF OnlyTouches, TypeOK
  <2>4. row'[s] # None /\ life'[s] = "used"
    BY <1>1, <2>1 DEF TypeOK
  <2>5. RowThere(p)' /\ Gone(s)'
    BY <2>2, <2>4 DEF RowThere, Gone
  <2> QED BY <2>2, <2>3, <2>4, <2>5, AssembleGone
<1>3. ASSUME DeleteNodes(p, s) PROVE GoneInv'
  <2>1. /\ Start(p, s, "delete", "delrow", None)
        /\ nodes' = [nodes EXCEPT ![s] = {}] \/ (DbErrors = TRUE /\ nodes' = nodes)
        /\ UNCHANGED <<row, cronJobs, entries, scheduler, life, acked>>
        /\ "delete" \in Kinds /\ "delrow" \in PCs
    BY <1>3 DEF DeleteNodes, MayFail, Kinds, PCs
  <2>2. /\ DeletesExclude'
        /\ \A q \in Procs \ {p} : proc[q].sub # s
        /\ proc[p].pc = "idle" /\ proc[p].sub = None
        /\ proc'[p].kind = "delete" /\ proc'[p].sub = s /\ proc'[p].pc = "delrow"
        /\ \A q \in Procs \ {p} : proc'[q] = proc[q]
    BY <1>1, <2>1, DeletesExcludeAtStart
  <2>3. OnlyTouches(p, s)
    BY <1>1, <2>1, <2>2 DEF OnlyTouches, TypeOK
  <2>4. DbErrors = FALSE => nodes'[s] = {}
    BY <1>1, <2>1 DEF TypeOK
  <2>5. RowThere(p)'
    BY <2>2, <2>4 DEF RowThere
  <2>6. ~ Unscheduling(s)
    BY <2>2 DEF Unscheduling
  <2>7. Gone(s)'
    BY <1>1, <2>1, <2>4, <2>6 DEF Gone
  <2> QED BY <2>2, <2>3, <2>5, <2>7, AssembleGone
<1>4. ASSUME UpdateRead(p, s) \/ RefreshSubscription(p, s) \/ CronFire(p, s) PROVE GoneInv'
  <2>1. \E kind \in Kinds, pc \in PCs, copy \in Row \cup {None} :
          /\ Start(p, s, kind, pc, copy)
          /\ pc = "read" \/ (row[s] # None /\ pc \in {"save", "fetch"})
    BY <1>1, <1>4 DEF UpdateRead, RefreshSubscription, CronFire, Kinds, PCs, TypeOK
  <2>2. PICK kind \in Kinds, pc \in PCs, copy \in Row \cup {None} :
          /\ Start(p, s, kind, pc, copy)
          /\ pc = "read" \/ (row[s] # None /\ pc \in {"save", "fetch"})
    BY <2>1
  <2>3. UNCHANGED <<row, nodes, cronJobs, entries, scheduler, life, acked>>
    BY <1>4 DEF UpdateRead, RefreshSubscription, CronFire
  <2>4. /\ DeletesExclude'
        /\ \A q \in Procs \ {p} : proc[q].sub = s => proc[q].kind # "delete"
        /\ proc[p].pc = "idle" /\ proc[p].sub = None
        /\ proc'[p].kind = kind /\ proc'[p].sub = s /\ proc'[p].pc = pc
        /\ \A q \in Procs \ {p} : proc'[q] = proc[q]
    BY <1>1, <2>2, DeletesExcludeAtStart
  <2>5. OnlyTouches(p, s)
    BY <2>3, <2>4 DEF OnlyTouches
  <2>6. RowThere(p)'
    BY <2>2, <2>3, <2>4 DEF RowThere
  <2> QED BY <2>3, <2>4, <2>5, <2>6, GoneUnchanging
<1> QED BY <1>2, <1>3, <1>4

\* A request ends, or a refresh goes on, with the tables as they are.
LEMMA GoneReads ==
  ASSUME BaseInv, GoneInv, NEW p \in Procs, NEW s \in Subs, s = proc[p].sub,
         \/ UpdateFails(p) \/ DeleteFails(p) \/ FetchFails(p) \/ CronRead(p)
         \/ \E f \in Fetches, size \in Results : Fetch(p, f, size)
  PROVE  GoneInv'
<1> USE SubscriptionsAssumption
<1>1. TypeOK /\ RowThere(p) /\ DeletesExclude /\ proc[p] \in Request
  BY ProcTyped DEF BaseInv, GoneInv
<1>2. ASSUME \A q \in Procs \ {p} : proc'[q] = proc[q],
             proc[p].pc # "unschedule",
             \/ proc'[p] = Idle
             \/ /\ proc'[p].sub = s /\ proc'[p].kind = proc[p].kind
                /\ proc'[p].pc \in {"fetch", "clear"} /\ row[s] # None,
             UNCHANGED <<row, nodes, cronJobs, scheduler, life, acked>>
      PROVE  GoneInv'
  <2>1. OnlyTouches(p, s)
    BY <1>2 DEF OnlyTouches, Idle
  <2>2. /\ DeletesExclude'
        /\ \A q \in Procs \ {p} : proc[q].sub = s => proc[q].kind # "delete"
    BY <1>1, <1>2, <2>1, DeletesExcludeAfter
  <2>3. RowThere(p)'
    BY <1>2 DEF RowThere, Idle
  <2> QED BY <1>2, <2>1, <2>2, <2>3, GoneUnchanging
<1>3. ASSUME Finish(p), proc[p].pc # "unschedule", UNCHANGED <<row, nodes, cronJobs, scheduler, life, acked>>
      PROVE  GoneInv'
  BY <1>2, <1>3, FinishTyped
<1>4. ASSUME UpdateFails(p) \/ DeleteFails(p) \/ FetchFails(p) PROVE GoneInv'
  BY <1>3, <1>4 DEF UpdateFails, DeleteFails, FetchFails, At
<1>5. ASSUME CronRead(p) PROVE GoneInv'
  <2>1. /\ UNCHANGED <<row, nodes, cronJobs, scheduler, life, acked>> /\ proc[p].pc = "read"
        /\ \/ Finish(p)
           \/ row[s] # None /\ proc' = [proc EXCEPT ![p] = [@ EXCEPT !.pc = "fetch", !.copy = row[s]]]
    BY <1>5 DEF CronRead, At
  <2>2. CASE row[s] # None /\ proc' = [proc EXCEPT ![p] = [@ EXCEPT !.pc = "fetch", !.copy = row[s]]]
    <3>1. row[s] \in Row
      BY <1>1, <2>2 DEF TypeOK
    <3>2. [proc[p] EXCEPT !.pc = "fetch", !.copy = row[s]] \in Request
      BY <1>1, <3>1 DEF Request, PCs
    <3>3. /\ \A q \in Procs \ {p} : proc'[q] = proc[q]
          /\ proc'[p] = [proc[p] EXCEPT !.pc = "fetch", !.copy = row[s]]
      BY <2>2, <3>2, EditTyped DEF TypeOK
    <3>4. proc'[p].sub = proc[p].sub /\ proc'[p].kind = proc[p].kind /\ proc'[p].pc = "fetch"
      BY <1>1, <3>3 DEF Request
    <3> QED BY <1>2, <2>1, <2>2, <3>3, <3>4
  <2> QED BY <1>3, <2>1, <2>2
<1>6. ASSUME NEW f \in Fetches, NEW size \in Results, Fetch(p, f, size) PROVE GoneInv'
  <2> DEFINE b == [id |-> f, size |-> size]
  <2>1. /\ b \in Batch /\ proc[p].pc = "fetch"
        /\ proc' = [proc EXCEPT ![p] = [@ EXCEPT !.pc = "clear", !.batch = b]]
        /\ UNCHANGED <<row, nodes, cronJobs, scheduler, life, acked>>
    BY <1>6 DEF Fetch, At, Batch
  <2> HIDE DEF b
  <2>2. [proc[p] EXCEPT !.pc = "clear", !.batch = b] \in Request
    BY <1>1, <2>1 DEF Request, PCs
  <2>3. /\ \A q \in Procs \ {p} : proc'[q] = proc[q]
        /\ proc'[p] = [proc[p] EXCEPT !.pc = "clear", !.batch = b]
    BY <2>1, <2>2, EditTyped DEF TypeOK
  <2>4. proc'[p].sub = proc[p].sub /\ proc'[p].kind = proc[p].kind /\ proc'[p].pc = "clear"
    BY <1>1, <2>3 DEF Request
  <2>5. row[s] # None
    BY <1>1, <2>1 DEF RowThere
  <2> QED BY <1>2, <2>1, <2>3, <2>4, <2>5
<1> QED BY <1>4, <1>5, <1>6

\* An update or a refresh writes.
LEMMA GoneWrites ==
  ASSUME BaseInv, GoneInv, NEW p \in Procs, NEW s \in Subs, s = proc[p].sub,
         \/ \E c \in Confs, e \in BOOLEAN : UpdateSave(p, c, e)
         \/ Reschedule(p) \/ ClearNodes(p) \/ StoreNode(p) \/ SaveMeta(p)
  PROVE  GoneInv'
<1> USE SubscriptionsAssumption
<1>1. /\ TypeOK /\ proc[p] \in Request /\ row[s] # None /\ proc[p].kind # "delete"
  <2>1. RowThere(p) /\ proc[p].pc \in {"save", "schedule", "clear", "store"} /\ proc[p].kind # "delete"
    BY DEF GoneInv, UpdateSave, Reschedule, ClearNodes, StoreNode, SaveMeta, At
  <2> QED BY <2>1, ProcTyped DEF RowThere, BaseInv
<1>2. ASSUME \A q \in Procs \ {p} : proc'[q] = proc[q],
             \/ proc'[p] = Idle
             \/ /\ proc'[p].sub = s /\ proc'[p].kind = proc[p].kind
                /\ proc'[p].pc \in {"save", "schedule", "fetch", "clear", "store"},
             row' = row \/ \E r \in Row : row' = [row EXCEPT ![s] = r],
             nodes' = nodes \/ \E ns : nodes' = [nodes EXCEPT ![s] = ns],
             acked' = acked \/ \E v : acked' = [acked EXCEPT ![s] = v],
             cronJobs' \in {cronJobs, cronJobs \cup {s}, cronJobs \ {s}},
             UNCHANGED <<scheduler, life>>
      PROVE  GoneInv'
  <2>1. OnlyTouches(p, s)
    BY <1>1, <1>2 DEF OnlyTouches, Idle, TypeOK
  <2>2. row'[s] # None
    BY <1>1, <1>2 DEF TypeOK
  <2> QED BY <1>1, <1>2, <2>1, <2>2, GoneKept
<1>3. ASSUME NEW c \in Confs, NEW e \in BOOLEAN, UpdateSave(p, c, e) PROVE GoneInv'
  <2> DEFINE r == Stored(s, [proc[p].copy EXCEPT !.conf = c, !.enabled = e])
  <2>1. r \in Row
    <3>1. [proc[p].copy EXCEPT !.conf = c, !.enabled = e] \in Row
      BY <1>3 DEF UpdateSave, At, BaseInv, WellFormed, Row
    <3> QED BY <3>1, StoredTyped
  <2> HIDE DEF r
  <2>2. /\ row' = [row EXCEPT ![s] = r] /\ acked' = [acked EXCEPT ![s] = SettingsOf(r)]
        /\ proc' = [proc EXCEPT ![p] = [@ EXCEPT !.pc = "schedule", !.copy = r]]
        /\ UNCHANGED <<nodes, cronJobs, scheduler, life>>
    BY <1>3 DEF UpdateSave, Save, r
  <2>3. [proc[p] EXCEPT !.pc = "schedule", !.copy = r] \in Request
    BY <1>1, <2>1 DEF Request, PCs
  <2>4. /\ \A q \in Procs \ {p} : proc'[q] = proc[q]
        /\ proc'[p] = [proc[p] EXCEPT !.pc = "schedule", !.copy = r]
    BY <2>2, <2>3, EditTyped DEF TypeOK
  <2>5. proc'[p].sub = proc[p].sub /\ proc'[p].kind = proc[p].kind /\ proc'[p].pc = "schedule"
    BY <1>1, <2>4 DEF Request
  <2> QED BY <1>2, <2>1, <2>2, <2>4, <2>5
<1>4. ASSUME Reschedule(p) PROVE GoneInv'
  <2>1. /\ Finish(p) /\ UNCHANGED <<row, nodes, scheduler, life, acked>>
        /\ cronJobs' \in {cronJobs \cup {s}, cronJobs \ {s}}
    BY <1>4 DEF Reschedule, ScheduleSubscription
  <2> QED BY <1>2, <2>1, FinishTyped
<1>5. ASSUME ClearNodes(p) PROVE GoneInv'
  <2>1. /\ Goto(p, "store") /\ "store" \in PCs
        /\ nodes' = nodes \/ nodes' = [nodes EXCEPT ![s] = {}]
        /\ UNCHANGED <<row, cronJobs, scheduler, life, acked>>
    BY <1>5 DEF ClearNodes, PCs
  <2>2. /\ \A q \in Procs \ {p} : proc'[q] = proc[q]
        /\ proc'[p] = [proc[p] EXCEPT !.pc = "store"]
    BY <2>1, GotoTyped
  <2>3. proc'[p].sub = proc[p].sub /\ proc'[p].kind = proc[p].kind /\ proc'[p].pc = "store"
    BY <1>1, <2>2 DEF Request
  <2> QED BY <1>2, <2>1, <2>2, <2>3
<1>6. ASSUME StoreNode(p) PROVE GoneInv'
  <2>1. /\ proc[p].pc = "store"
        /\ nodes' = nodes \/ \E ns : nodes' = [nodes EXCEPT ![s] = ns]
        /\ proc' = [proc EXCEPT ![p].done = @ + 1]
        /\ UNCHANGED <<row, cronJobs, scheduler, life, acked>>
    BY <1>6 DEF StoreNode, At
  <2>2. /\ \A q \in Procs \ {p} : proc'[q] = proc[q]
        /\ proc'[p] = [proc[p] EXCEPT !.done = @ + 1]
    BY <1>1, <2>1 DEF TypeOK, Request
  <2>3. proc'[p].sub = proc[p].sub /\ proc'[p].kind = proc[p].kind /\ proc'[p].pc = "store"
    BY <1>1, <2>1, <2>2 DEF Request
  <2> QED BY <1>2, <2>1, <2>2, <2>3
<1>7. ASSUME SaveMeta(p) PROVE GoneInv'
  <2> DEFINE r == Stored(s, [proc[p].copy EXCEPT !.fetched = proc[p].batch])
  <2>1. r \in Row
    <3>1. [proc[p].copy EXCEPT !.fetched = proc[p].batch] \in Row
      BY <1>7 DEF SaveMeta, At, BaseInv, WellFormed, Row
    <3> QED BY <3>1, StoredTyped
  <2> HIDE DEF r
  <2>2. /\ row' = row \/ row' = [row EXCEPT ![s] = r]
        /\ Finish(p) /\ UNCHANGED <<nodes, cronJobs, scheduler, life, acked>>
    BY <1>7 DEF SaveMeta, Save, r
  <2> QED BY <1>2, <2>1, <2>2, FinishTyped
<1> QED BY <1>3, <1>4, <1>5, <1>6, <1>7

LEMMA GoneDeletes ==
  ASSUME BaseInv, GoneInv, NEW p \in Procs, NEW s \in Subs, s = proc[p].sub,
         DeleteRow(p) \/ Unschedule(p)
  PROVE  GoneInv'
<1> USE SubscriptionsAssumption
<1>1. TypeOK /\ RowThere(p) /\ DeletesExclude /\ Gone(s) /\ proc[p] \in Request /\ proc[p].kind = "delete"
  BY ProcTyped DEF BaseInv, GoneInv, DeleteRow, Unschedule, At
<1>2. ASSUME DeleteRow(p) PROVE GoneInv'
  <2>1. /\ proc[p].pc = "delrow" /\ Goto(p, "unschedule") /\ "unschedule" \in PCs
        /\ row' = [row EXCEPT ![s] = None] /\ life' = [life EXCEPT ![s] = "deleted"]
        /\ acked' = [acked EXCEPT ![s] = None] /\ UNCHANGED <<nodes, cronJobs, scheduler>>
    BY <1>2 DEF DeleteRow, Save, At, PCs
  <2>2. /\ \A q \in Procs \ {p} : proc'[q] = proc[q]
        /\ proc'[p] = [proc[p] EXCEPT !.pc = "unschedule"]
    BY <2>1, GotoTyped
  <2>3. proc'[p].sub = s /\ proc'[p].kind = proc[p].kind /\ proc'[p].pc = "unschedule"
    BY <1>1, <2>2 DEF Request
  <2>4. OnlyTouches(p, s)
    BY <1>1, <2>1, <2>2, <2>3 DEF OnlyTouches, TypeOK
  <2>5. /\ DeletesExclude'
        /\ \A q \in Procs \ {p} : proc[q].sub # s
    BY <1>1, <2>3, <2>4, DeletesExcludeAfter
  <2>6. row'[s] = None /\ life'[s] = "deleted"
    BY <1>1, <2>1 DEF TypeOK
  <2>7. RowThere(p)'
    BY <2>3, <2>6 DEF RowThere
  <2>8. Unscheduling(s)'
    BY <2>3 DEF Unscheduling
  <2>9. Gone(s)'
    BY <1>1, <2>1, <2>6, <2>8 DEF Gone, RowThere
  <2> QED BY <2>4, <2>5, <2>7, <2>9, AssembleGone
<1>3. ASSUME Unschedule(p) PROVE GoneInv'
  <2>1. /\ Finish(p) /\ UNCHANGED <<row, nodes, scheduler, life, acked>> /\ cronJobs' = cronJobs \ {s}
    BY <1>3 DEF Unschedule, UnscheduleSubscription
  <2>2. proc'[p] = Idle /\ \A q \in Procs \ {p} : proc'[q] = proc[q]
    BY <2>1, FinishTyped
  <2>3. OnlyTouches(p, s)
    BY <2>1, <2>2 DEF OnlyTouches, Idle
  <2>4. /\ DeletesExclude'
        /\ \A q \in Procs \ {p} : proc[q].sub # s
    BY <1>1, <2>2, <2>3, DeletesExcludeAfter
  <2>5. RowThere(p)' /\ Gone(s)'
    BY <1>1, <2>1, <2>2 DEF RowThere, Gone, Idle
  <2> QED BY <2>3, <2>4, <2>5, AssembleGone
<1> QED BY <1>2, <1>3

THEOREM StepGone ==
  ASSUME "delete" \notin OverlappingEdits, BaseInv, GoneInv, [Next]_vars
  PROVE  GoneInv'
<1> USE SubscriptionsAssumption
<1>1. ASSUME NEW p \in Clients, NEW s \in Subs, Arrive(p, s) PROVE GoneInv'
  BY <1>1, GoneStarts DEF Arrive, Procs
<1>2. ASSUME NEW w \in Workers, NEW s \in Subs, CronFire(w, s) PROVE GoneInv'
  BY <1>2, GoneStarts DEF Procs
<1>3. ASSUME NEW p \in Procs, Continue(p) PROVE GoneInv'
  <2>1. proc[p].pc # "idle"
    BY <1>3 DEF Continue, UpdateSave, UpdateFails, Reschedule, DeleteRow, DeleteFails, Unschedule,
                CronRead, Fetch, FetchFails, ClearNodes, StoreNode, SaveMeta, At
  <2>2. proc[p].sub \in Subs
    BY <2>1 DEF BaseInv, WellFormed
  <2>3. CASE \/ UpdateFails(p) \/ DeleteFails(p) \/ FetchFails(p) \/ CronRead(p)
             \/ \E f \in Fetches, size \in Results : Fetch(p, f, size)
    BY <2>2, <2>3, GoneReads
  <2>4. CASE \/ \E c \in Confs, e \in BOOLEAN : UpdateSave(p, c, e)
             \/ Reschedule(p) \/ ClearNodes(p) \/ StoreNode(p) \/ SaveMeta(p)
    BY <2>2, <2>4, GoneWrites
  <2>5. CASE DeleteRow(p) \/ Unschedule(p)
    BY <2>2, <2>5, GoneDeletes
  <2> QED BY <1>3, <2>3, <2>4, <2>5 DEF Continue
<1>4. CASE Restart
  <2>1. /\ \A p \in Procs : proc'[p] = Idle
        /\ UNCHANGED <<row, nodes, life>>
        /\ \A s \in Subs : row[s] = None => s \notin cronJobs'
    BY <1>4 DEF Restart, InitCron, ShouldRun
  <2> QED BY <2>1 DEF GoneInv, DeletesExclude, RowThere, Gone, Idle
<1>5. CASE UNCHANGED vars
  BY <1>5 DEF vars, GoneInv, DeletesExclude, RowThere, Gone, Unscheduling
<1> QED BY <1>1, <1>2, <1>3, <1>4, <1>5 DEF Next

THEOREM GoneInvariant == "delete" \notin OverlappingEdits => (Spec => []GoneInv)
<1> SUFFICES ASSUME "delete" \notin OverlappingEdits PROVE Spec => []GoneInv
  OBVIOUS
<1>1. Init => GoneInv
  BY SubscriptionsAssumption DEF Init, GoneInv, DeletesExclude, RowThere, Gone, Idle
<1>2. BaseInv /\ GoneInv /\ [Next]_vars => GoneInv'
  BY StepGone
<1> QED BY <1>1, <1>2, BaseInvariant, PTL DEF Spec

\* What DeleteSubscription deleted, with every statement succeeding, is gone:
\* deletions must run alone for it, updates and refreshes may overlap.
THEOREM DeletedStaysGone ==
    "delete" \notin OverlappingEdits /\ DbErrors = FALSE => (Spec => []DeletedIsGone)
<1> SUFFICES ASSUME "delete" \notin OverlappingEdits, DbErrors = FALSE PROVE Spec => []DeletedIsGone
  OBVIOUS
<1>1. GoneInv => DeletedIsGone
  <2> SUFFICES ASSUME GoneInv, NEW s \in Subs, life[s] = "deleted", Quiet(s)
               PROVE  row[s] = None /\ nodes[s] = {} /\ s \notin cronJobs
    BY DEF DeletedIsGone
  <2>1. ~ Unscheduling(s)
    BY DEF Unscheduling, Quiet
  <2> QED BY <2>1 DEF GoneInv, Gone
<1> QED BY <1>1, GoneInvariant, PTL

\* Even when statements fail, a deletion that was answered leaves no row and no
\* job, and no update or refresh brings one back.
THEOREM DeletedRowsStayGone ==
    "delete" \notin OverlappingEdits =>
        (Spec => [](\A s \in Subs : life[s] = "deleted" /\ Quiet(s) => row[s] = None /\ s \notin cronJobs))
<1> SUFFICES ASSUME "delete" \notin OverlappingEdits
             PROVE  Spec => [](\A s \in Subs : life[s] = "deleted" /\ Quiet(s) => row[s] = None /\ s \notin cronJobs)
  OBVIOUS
<1>1. GoneInv => \A s \in Subs : life[s] = "deleted" /\ Quiet(s) => row[s] = None /\ s \notin cronJobs
  BY DEF GoneInv, Gone, Unscheduling, Quiet
<1> QED BY <1>1, GoneInvariant, PTL

-----------------------------------------------------------------------------
(* NoBatchTorn.                                                            *)

\* Creates, updates and refreshes overlap, a delete does not; no statement
\* fails, nothing crashes and each fetch names a node.
Mixing ==
    /\ "delete" \notin OverlappingEdits
    /\ DbErrors = FALSE /\ Crashes = FALSE /\ Attached = {}
    /\ \A r \in Results : r.named > 0

FirstNodes(b, n) == {[batch |-> b, index |-> i] : i \in 1 .. n}

\* How far a request is.
RequestAt(p) ==
    LET s == proc[p].sub IN
    /\ proc[p].pc \in {"save", "schedule", "fetch", "clear", "store"} => life[s] = "used"
    /\ proc[p].pc \in {"read", "fetch", "clear"} => proc[p].done = 0
    /\ proc[p].pc = "store" => proc[p].done <= proc[p].batch.size.named
    /\ proc[p].pc = "delrow" => nodes[s] = {}
    /\ proc[p].pc = "unschedule" => life[s] = "deleted"

\* No refresh has been recorded and none is storing.
Blank(s) ==
    /\ row[s].fetched = None
    /\ \A p \in Procs : proc[p].sub = s =>
          proc[p].pc # "store" /\ (proc[p].copy # None => proc[p].copy.fetched = None)

\* The refresh that cleared the table last is still storing, or has ended and
\* left all its nodes.
StoringFirst(s) ==
    \E p \in Procs :
        /\ proc[p].sub = s /\ proc[p].pc = "store"
        /\ FirstNodes(proc[p].batch, proc[p].done) \subseteq nodes[s]
StoredAll(s) == \E b \in Batch : NodesOf(b) # {} /\ NodesOf(b) \subseteq nodes[s]

Deleting(s) == \E p \in Procs : proc[p].sub = s /\ proc[p].kind = "delete"

Untorn(s) ==
    /\ row[s] # None <=> life[s] = "used"
    /\ life[s] = "used" => Deleting(s) \/ Blank(s) \/ StoringFirst(s) \/ StoredAll(s)

BatchInv ==
    /\ DeletesExclude
    /\ \A p \in Procs : RequestAt(p)
    /\ \A s \in Subs : Untorn(s)

\* Enough to check of a step: what it does to its request and its subscription.
\* The other requests there see nothing of it unless it is a delete.
LEMMA AssembleBatch ==
  ASSUME BaseInv, BatchInv, NEW p \in Procs, NEW s \in Subs, OnlyTouches(p, s), DeletesExclude',
         RequestAt(p)', Untorn(s)',
         \/ \A q \in Procs \ {p} : proc[q].sub # s
         \/ life' = life /\ \A q \in Procs \ {p} : proc[q].sub = s => proc[q].kind # "delete"
  PROVE  BatchInv'
<1> USE SubscriptionsAssumption DEF OnlyTouches
<1>1. ASSUME NEW q \in Procs \ {p} PROVE RequestAt(q)'
  <2>1. CASE proc[q].pc = "idle"
    BY <2>1 DEF RequestAt
  <2>2. CASE proc[q].pc # "idle" /\ proc[q].sub # s
    <3>1. proc[q].sub \in Subs \ {s}
      BY <2>2 DEF BaseInv, WellFormed
    <3> QED BY <3>1 DEF BatchInv, RequestAt
  <2>3. CASE proc[q].pc # "idle" /\ proc[q].sub = s
    <3>1. proc[q].pc # "delrow" /\ life' = life
      BY <2>3 DEF BaseInv, WellFormed
    <3> QED BY <3>1 DEF BatchInv, RequestAt
  <2> QED BY <2>1, <2>2, <2>3
<1>2. ASSUME NEW t \in Subs \ {s} PROVE Untorn(t)'
  <2>1. /\ Deleting(t) => Deleting(t)'
        /\ Blank(t) => Blank(t)'
        /\ StoringFirst(t) => StoringFirst(t)'
        /\ StoredAll(t) => StoredAll(t)'
    BY DEF Deleting, Blank, StoringFirst, StoredAll
  <2> QED BY <2>1 DEF BatchInv, Untorn
<1> QED BY <1>1, <1>2 DEF BatchInv

\* The others on the subscription of a request in flight.
LEMMA OthersOf ==
  ASSUME DeletesExclude, NEW p \in Procs, proc[p].sub # None
  PROVE  /\ proc[p].kind # "delete" =>
               \A q \in Procs \ {p} : proc[q].sub = proc[p].sub => proc[q].kind # "delete"
         /\ proc[p].kind = "delete" =>
               \A q \in Procs \ {p} : proc[q].sub # proc[p].sub
  BY DEF DeletesExclude

\* A step that stores and deletes nothing.
LEMMA UntornStill ==
  ASSUME BatchInv, NEW p \in Procs, NEW s \in Subs, OnlyTouches(p, s),
         nodes' = nodes, life' = life, proc[p].kind # "delete" \/ proc[p].sub # s,
         proc[p].pc # "store", proc'[p].pc # "store",
         row'[s] # None <=> life[s] = "used",
         life[s] = "used" /\ Blank(s) => Blank(s)'
  PROVE  Untorn(s)'
<1>1. Deleting(s) => Deleting(s)'
  BY DEF Deleting, OnlyTouches
<1>2. StoringFirst(s) => StoringFirst(s)'
  BY DEF StoringFirst, OnlyTouches
<1>3. StoredAll(s) => StoredAll(s)'
  BY DEF StoredAll
<1> QED BY <1>1, <1>2, <1>3 DEF BatchInv, Untorn

LEMMA BatchStarts ==
  ASSUME Mixing, BaseInv, BatchInv, NEW p \in Procs, NEW s \in Subs, Arrive(p, s) \/ CronFire(p, s)
  PROVE  BatchInv'
<1> USE SubscriptionsAssumption
<1>1. TypeOK /\ proc[p] \in Request /\ DeletesExclude
  BY ProcTyped DEF BaseInv, BatchInv
<1>2. ASSUME NEW kind \in Kinds, NEW pc \in PCs, NEW copy \in Row \cup {None}, Start(p, s, kind, pc, copy),
             \A t \in Subs \ {s} :
                /\ row'[t] = row[t] /\ nodes'[t] = nodes[t] /\ life'[t] = life[t] /\ acked'[t] = acked[t],
             UNCHANGED <<cronJobs, scheduler>>
      PROVE  /\ OnlyTouches(p, s) /\ DeletesExclude' /\ proc[p].sub = None /\ proc[p].pc = "idle"
             /\ proc'[p] = [kind |-> kind, pc |-> pc, sub |-> s, copy |-> copy, batch |-> None, done |-> 0]
             /\ \A q \in Procs \ {p} : proc'[q] = proc[q]
             /\ \A q \in Procs \ {p} : proc[q].sub = s =>
                   kind # "delete" /\ proc[q].kind # "delete"
  <2>1. /\ proc'[p] = [kind |-> kind, pc |-> pc, sub |-> s, copy |-> copy, batch |-> None, done |-> 0]
        /\ \A q \in Procs \ {p} : proc'[q] = proc[q]
    BY <1>2, StartTyped
  <2>2. proc[p] = Idle
    BY <1>2 DEF Start, BaseInv, WellFormed
  <2>3. OnlyTouches(p, s)
    BY <1>2, <2>1, <2>2 DEF OnlyTouches, Idle
  <2> QED BY <1>1, <1>2, <2>1, <2>2, <2>3, DeletesExcludeAtStart DEF Idle, Mixing
<1>3. ASSUME NEW c \in Confs, NEW e \in BOOLEAN, CreateSubscription(p, s, c, e) PROVE BatchInv'
  <2> DEFINE r == [conf |-> c, enabled |-> GormCreated(e), fetched |-> None]
  <2>1. r \in Row /\ r.fetched = None /\ r # None
    <3>1. r \in Row /\ r.fetched = None
      BY DEF Row, GormCreated
    <3> QED BY <3>1
  <2> HIDE DEF r
  <2>2. /\ Start(p, s, "create", "schedule", r) /\ row' = [row EXCEPT ![s] = r]
        /\ life' = [life EXCEPT ![s] = "used"] /\ acked' = [acked EXCEPT ![s] = SettingsOf(r)]
        /\ UNCHANGED <<nodes, cronJobs, entries, scheduler>>
    BY <1>3 DEF CreateSubscription, Save, r
  <2>3. /\ row'[s] = r /\ life'[s] = "used"
        /\ \A t \in Subs \ {s} :
              /\ row'[t] = row[t] /\ nodes'[t] = nodes[t] /\ life'[t] = life[t] /\ acked'[t] = acked[t]
    BY <1>1, <2>2 DEF TypeOK
  <2>4. "create" \in Kinds /\ "schedule" \in PCs
    BY DEF Kinds, PCs
  <2>5. /\ OnlyTouches(p, s) /\ DeletesExclude'
        /\ proc'[p] = [kind |-> "create", pc |-> "schedule", sub |-> s, copy |-> r, batch |-> None, done |-> 0]
        /\ \A q \in Procs \ {p} : proc'[q] = proc[q]
        /\ \A q \in Procs \ {p} : proc[q].sub # s
    <3>1. \A q \in Procs : proc[q].sub # s
      BY <1>3 DEF CreateSubscription, BaseInv, WellFormed, Idle
    <3> QED BY <1>2, <2>1, <2>2, <2>3, <2>4, <3>1
  <2>6. RequestAt(p)' /\ Blank(s)'
    BY <2>1, <2>3, <2>5 DEF RequestAt, Blank
  <2> QED BY <2>1, <2>3, <2>5, <2>6, AssembleBatch DEF Untorn
<1>4. ASSUME NEW kind \in {"update", "refresh"}, NEW pc \in {"save", "fetch", "read"},
             NEW copy \in {row[s], None}, Start(p, s, kind, pc, copy), copy \in Row \cup {None},
             pc # "read" => row[s] # None,
             UNCHANGED <<row, nodes, cronJobs, entries, scheduler, life, acked>>
      PROVE  BatchInv'
  <2>1. kind \in Kinds /\ pc \in PCs
    BY DEF Kinds, PCs
  <2>2. /\ OnlyTouches(p, s) /\ DeletesExclude' /\ proc[p].sub = None /\ proc[p].pc = "idle"
        /\ proc'[p] = [kind |-> kind, pc |-> pc, sub |-> s, copy |-> copy, batch |-> None, done |-> 0]
        /\ \A q \in Procs \ {p} : proc'[q] = proc[q]
        /\ \A q \in Procs \ {p} : proc[q].sub = s => proc[q].kind # "delete"
    BY <1>2, <1>4, <2>1
  <2>3. pc # "read" => life[s] = "used"
    BY <1>1, <1>4 DEF BatchInv, Untorn
  <2>4. RequestAt(p)'
    BY <1>4, <2>2, <2>3 DEF RequestAt
  <2>5. Blank(s) => Blank(s)'
    BY <1>4, <2>2 DEF Blank
  <2>6. Untorn(s)'
    BY <1>4, <2>2, <2>5, UntornStill DEF BatchInv, Untorn
  <2> QED BY <1>4, <2>2, <2>4, <2>6, AssembleBatch
<1>5. ASSUME DeleteNodes(p, s) PROVE BatchInv'
  <2>1. /\ Start(p, s, "delete", "delrow", None) /\ nodes' = [nodes EXCEPT ![s] = {}]
        /\ UNCHANGED <<row, cronJobs, entries, scheduler, life, acked>>
    BY <1>5 DEF DeleteNodes, MayFail, Mixing
  <2>2. /\ nodes'[s] = {}
        /\ \A t \in Subs \ {s} :
              /\ row'[t] = row[t] /\ nodes'[t] = nodes[t] /\ life'[t] = life[t] /\ acked'[t] = acked[t]
    BY <1>1, <2>1 DEF TypeOK
  <2>3. "delete" \in Kinds /\ "delrow" \in PCs
    BY DEF Kinds, PCs
  <2>4. /\ OnlyTouches(p, s) /\ DeletesExclude'
        /\ proc'[p] = [kind |-> "delete", pc |-> "delrow", sub |-> s, copy |-> None, batch |-> None, done |-> 0]
        /\ \A q \in Procs \ {p} : proc[q].sub # s
    BY <1>2, <2>1, <2>2, <2>3
  <2>5. RequestAt(p)' /\ Deleting(s)'
    BY <2>2, <2>4 DEF RequestAt, Deleting
  <2>6. Untorn(s)'
    BY <2>1, <2>5 DEF BatchInv, Untorn
  <2> QED BY <2>4, <2>5, <2>6, AssembleBatch
<1>6. CASE UpdateRead(p, s)
  BY <1>1, <1>4, <1>6 DEF UpdateRead, TypeOK
<1>7. CASE RefreshSubscription(p, s)
  BY <1>1, <1>4, <1>7 DEF RefreshSubscription, TypeOK
<1>8. CASE CronFire(p, s)
  BY <1>4, <1>8 DEF CronFire
<1> QED BY <1>3, <1>5, <1>6, <1>7, <1>8 DEF Arrive

\* A step that stores and deletes neither rows nor nodes.
Unwriting(p) ==
    \/ UpdateFails(p) \/ FetchFails(p) \/ Reschedule(p) \/ CronRead(p)
    \/ \E f \in Fetches, size \in Results : Fetch(p, f, size)

LEMMA BatchUnchanging ==
  ASSUME Mixing, BaseInv, BatchInv, NEW p \in Procs, NEW s \in Subs, s = proc[p].sub, Unwriting(p)
  PROVE  BatchInv'
<1> USE SubscriptionsAssumption
<1>1. /\ TypeOK /\ proc[p] \in Request /\ DeletesExclude /\ RequestAt(p)
      /\ s # None /\ proc[p].kind # "delete" /\ proc[p].pc # "store"
      /\ UNCHANGED <<row, nodes, scheduler, life, acked>>
      /\ \A t \in Subs \ {s} : t \in cronJobs' <=> t \in cronJobs
  <2>1. TypeOK /\ proc[p] \in Request /\ DeletesExclude /\ RequestAt(p) /\ s # None
    BY ProcTyped DEF BaseInv, BatchInv
  <2>2. ASSUME NEW f \in Fetches, NEW size \in Results, Fetch(p, f, size)
        PROVE  proc[p].pc = "fetch" /\ UNCHANGED <<row, nodes, cronJobs, scheduler, life, acked>>
    BY <2>2 DEF Fetch, At
  <2>3. ASSUME UpdateFails(p) \/ FetchFails(p) \/ Reschedule(p) \/ CronRead(p)
        PROVE  /\ proc[p].pc \in {"save", "schedule", "read", "fetch"}
               /\ UNCHANGED <<row, nodes, scheduler, life, acked>>
               /\ \A t \in Subs \ {s} : t \in cronJobs' <=> t \in cronJobs
    <3>1. proc[p].pc \in {"save", "schedule", "read", "fetch"}
      BY <2>3 DEF UpdateFails, FetchFails, Reschedule, CronRead, At
    <3>2. /\ UNCHANGED <<row, nodes, scheduler, life, acked>>
          /\ \A t \in Subs \ {s} : t \in cronJobs' <=> t \in cronJobs
      BY <2>3 DEF UpdateFails, FetchFails, Reschedule, ScheduleSubscription, CronRead
    <3> QED BY <3>1, <3>2
  <2>4. /\ proc[p].pc \in {"save", "schedule", "read", "fetch"}
        /\ UNCHANGED <<row, nodes, scheduler, life, acked>>
        /\ \A t \in Subs \ {s} : t \in cronJobs' <=> t \in cronJobs
    BY <2>2, <2>3 DEF Unwriting
  <2>5. proc[p].kind # "delete"
    BY <2>4 DEF BaseInv, WellFormed
  <2> QED BY <2>1, <2>4, <2>5
<1>2. ASSUME \A q \in Procs \ {p} : proc'[q] = proc[q],
             \/ proc'[p] = Idle
             \/ proc'[p].sub = s /\ proc'[p].kind = proc[p].kind /\ proc'[p].pc \in {"fetch", "clear"},
             proc'[p].copy \in {None, row[s], proc[p].copy},
             RequestAt(p)'
      PROVE  BatchInv'
  <2>1. OnlyTouches(p, s) /\ proc'[p].pc # "store"
    BY <1>1, <1>2 DEF OnlyTouches, Idle
  <2>2. DeletesExclude'
    BY <1>1, <1>2, <2>1, DeletesExcludeAfter
  <2>3. Blank(s) => Blank(s)'
    BY <1>1, <1>2, <2>1 DEF Blank
  <2>4. Untorn(s)'
    BY <1>1, <2>1, <2>3, UntornStill DEF BatchInv, Untorn
  <2>5. \A q \in Procs \ {p} : proc[q].sub = s => proc[q].kind # "delete"
    BY <1>1, OthersOf
  <2> QED BY <1>1, <1>2, <2>1, <2>2, <2>4, <2>5, AssembleBatch
<1>3. CASE Finish(p)
  <2>1. proc'[p] = Idle /\ \A q \in Procs \ {p} : proc'[q] = proc[q]
    BY <1>3, FinishTyped
  <2> QED BY <1>2, <2>1 DEF RequestAt, Idle
<1>4. CASE CronRead(p) /\ row[s] # None
  <2> DEFINE r == [proc[p] EXCEPT !.pc = "fetch", !.copy = row[s]]
  <2>1. /\ proc' = [proc EXCEPT ![p] = r] /\ proc[p].done = 0 /\ life[s] = "used"
    BY <1>1, <1>4 DEF CronRead, At, RequestAt, BatchInv, Untorn
  <2>2. /\ r \in Request /\ r.sub = s /\ r.kind = proc[p].kind /\ r.done = 0
        /\ r.pc = "fetch" /\ r.copy = row[s]
    BY <1>1, <1>4, <2>1 DEF Request, TypeOK, PCs
  <2> HIDE DEF r
  <2>3. proc'[p] = r /\ \A q \in Procs \ {p} : proc'[q] = proc[q]
    BY <2>1, <2>2, EditTyped
  <2> QED BY <1>1, <1>2, <2>1, <2>2, <2>3 DEF RequestAt
<1>5. CASE \E f \in Fetches, size \in Results : Fetch(p, f, size)
  <2> PICK f \in Fetches, size \in Results : Fetch(p, f, size)
    BY <1>5
  <2> DEFINE b == [id |-> f, size |-> size]
             r == [proc[p] EXCEPT !.pc = "clear", !.batch = b]
  <2>0. proc[p].pc = "fetch" /\ proc' = [proc EXCEPT ![p] = r]
    BY DEF Fetch, At
  <2>1. proc' = [proc EXCEPT ![p] = r] /\ proc[p].done = 0 /\ life[s] = "used"
    BY <1>1, <2>0 DEF RequestAt
  <2>2. b \in Batch
    BY DEF Batch
  <2>3. /\ r \in Request /\ r.sub = s /\ r.kind = proc[p].kind /\ r.done = 0
        /\ r.pc = "clear" /\ r.copy = proc[p].copy
    BY <1>1, <2>1, <2>2 DEF Request, PCs
  <2> HIDE DEF r
  <2>4. proc'[p] = r /\ \A q \in Procs \ {p} : proc'[q] = proc[q]
    BY <2>1, <2>3, EditTyped
  <2> QED BY <1>1, <1>2, <2>1, <2>3, <2>4 DEF RequestAt
<1> QED BY <1>3, <1>4, <1>5 DEF Unwriting, UpdateFails, FetchFails, Reschedule, CronRead

LEMMA BatchUpdate ==
  ASSUME BaseInv, BatchInv, NEW p \in Procs, NEW s \in Subs, s = proc[p].sub,
         NEW c \in Confs, NEW e \in BOOLEAN, UpdateSave(p, c, e)
  PROVE  BatchInv'
<1> DEFINE r == Stored(s, [proc[p].copy EXCEPT !.conf = c, !.enabled = e])
<1> USE SubscriptionsAssumption
<1>1. /\ TypeOK /\ proc[p] \in Request /\ DeletesExclude /\ RequestAt(p)
      /\ s # None /\ proc[p].kind = "update" /\ proc[p].pc = "save"
      /\ proc[p].copy \in Row /\ life[s] = "used"
  BY ProcTyped DEF BaseInv, BatchInv, WellFormed, UpdateSave, At, RequestAt
<1>2. r \in Row /\ r.fetched = proc[p].copy.fetched
  <2>1. [proc[p].copy EXCEPT !.conf = c, !.enabled = e] \in Row
    BY <1>1 DEF Row
  <2> QED BY <1>1, <2>1, StoredTyped DEF Stored, Row
<1> HIDE DEF r
<1>3. /\ row' = [row EXCEPT ![s] = r] /\ acked' = [acked EXCEPT ![s] = SettingsOf(r)]
      /\ proc' = [proc EXCEPT ![p] = [@ EXCEPT !.pc = "schedule", !.copy = r]]
      /\ UNCHANGED <<nodes, cronJobs, entries, scheduler, life>>
  BY DEF UpdateSave, Save, r
<1>4. /\ proc'[p].sub = s /\ proc'[p].kind = "update" /\ proc'[p].pc = "schedule" /\ proc'[p].copy = r
      /\ \A q \in Procs \ {p} : proc'[q] = proc[q]
      /\ row'[s] = r
  BY <1>1, <1>3 DEF TypeOK, Request
<1>5. r # None /\ proc[p].copy # None
  BY <1>1, <1>2
<1>6. OnlyTouches(p, s) /\ RequestAt(p)'
  BY <1>1, <1>3, <1>4 DEF OnlyTouches, RequestAt, TypeOK
<1>7. Blank(s) => Blank(s)'
  BY <1>1, <1>2, <1>4, <1>5 DEF Blank
<1>8. Untorn(s)'
  BY <1>1, <1>3, <1>4, <1>5, <1>6, <1>7, UntornStill
<1>9. DeletesExclude' /\ \A q \in Procs \ {p} : proc[q].sub = s => proc[q].kind # "delete"
  BY <1>1, <1>4, <1>6, DeletesExcludeAfter, OthersOf
<1> QED BY <1>3, <1>6, <1>8, <1>9, AssembleBatch

\* A deletion is alone; as its nodes are gone and nothing refers to the row,
\* it is not refused.
LEMMA BatchDelete ==
  ASSUME Mixing, BaseInv, BatchInv, NEW p \in Procs, NEW s \in Subs, s = proc[p].sub,
         DeleteRow(p) \/ DeleteFails(p) \/ Unschedule(p)
  PROVE  BatchInv'
<1> USE SubscriptionsAssumption
<1>1. /\ TypeOK /\ proc[p] \in Request /\ DeletesExclude /\ RequestAt(p)
      /\ s # None /\ proc[p].kind = "delete" /\ proc[p].pc \in {"delrow", "unschedule"}
  BY ProcTyped DEF BaseInv, BatchInv, WellFormed, DeleteRow, DeleteFails, Unschedule, At
<1>2. \A q \in Procs \ {p} : proc[q].sub # s
  BY <1>1, OthersOf
<1>3. CASE DeleteRow(p)
  <2>1. /\ row' = [row EXCEPT ![s] = None] /\ life' = [life EXCEPT ![s] = "deleted"]
        /\ acked' = [acked EXCEPT ![s] = None] /\ proc' = [proc EXCEPT ![p].pc = "unschedule"]
        /\ UNCHANGED <<nodes, cronJobs, entries, scheduler>>
    BY <1>3 DEF DeleteRow, Save, Goto
  <2>2. /\ proc'[p].sub = s /\ proc'[p].kind = "delete" /\ proc'[p].pc = "unschedule"
        /\ \A q \in Procs \ {p} : proc'[q] = proc[q]
        /\ row'[s] = None /\ life'[s] = "deleted"
    BY <1>1, <2>1 DEF TypeOK, Request
  <2>3. OnlyTouches(p, s) /\ RequestAt(p)' /\ Untorn(s)'
    BY <1>1, <2>1, <2>2 DEF OnlyTouches, RequestAt, Untorn, TypeOK
  <2>4. DeletesExclude'
    BY <1>1, <2>2, <2>3, DeletesExcludeAfter
  <2> QED BY <1>1, <1>2, <2>3, <2>4, AssembleBatch
<1>4. CASE DeleteFails(p)
  BY <1>1, <1>4 DEF DeleteFails, At, RequestAt, MayFail, Mixing
<1>5. CASE Unschedule(p)
  <2>1. /\ Finish(p) /\ UNCHANGED <<row, nodes, scheduler, life, acked>>
        /\ \A t \in Subs \ {s} : t \in cronJobs' <=> t \in cronJobs
        /\ life[s] = "deleted"
    BY <1>1, <1>5 DEF Unschedule, UnscheduleSubscription, At, RequestAt
  <2>2. proc'[p] = Idle /\ \A q \in Procs \ {p} : proc'[q] = proc[q]
    BY <2>1, FinishTyped
  <2>3. OnlyTouches(p, s) /\ RequestAt(p)'
    BY <1>1, <2>1, <2>2 DEF OnlyTouches, RequestAt, Idle
  <2>4. Untorn(s)'
    BY <1>1, <2>1 DEF BatchInv, Untorn
  <2>5. DeletesExclude'
    BY <1>1, <2>2, <2>3, DeletesExcludeAfter
  <2> QED BY <1>1, <1>2, <2>3, <2>4, <2>5, AssembleBatch
<1> QED BY <1>3, <1>4, <1>5

\* Whoever deletes the nodes is the first of those that store.
LEMMA BatchClear ==
  ASSUME Mixing, BaseInv, BatchInv, NEW p \in Procs, NEW s \in Subs, s = proc[p].sub, ClearNodes(p)
  PROVE  BatchInv'
<1> USE SubscriptionsAssumption
<1>1. /\ TypeOK /\ proc[p] \in Request /\ DeletesExclude
      /\ s # None /\ proc[p].kind = "refresh" /\ proc[p].batch \in Batch
      /\ life[s] = "used" /\ proc[p].done = 0
  BY ProcTyped DEF BaseInv, BatchInv, WellFormed, ClearNodes, At, RequestAt
<1>2. /\ nodes' = [nodes EXCEPT ![s] = {}] /\ proc' = [proc EXCEPT ![p].pc = "store"]
      /\ UNCHANGED <<row, cronJobs, entries, scheduler, life, acked>>
  BY DEF ClearNodes, Goto, MayFail, Mixing
<1>3. /\ proc'[p].sub = s /\ proc'[p].kind = "refresh" /\ proc'[p].pc = "store"
      /\ proc'[p].batch = proc[p].batch /\ proc'[p].done = 0
      /\ \A q \in Procs \ {p} : proc'[q] = proc[q]
  BY <1>1, <1>2 DEF TypeOK, Request
<1>4. OnlyTouches(p, s)
  BY <1>1, <1>2, <1>3 DEF OnlyTouches, TypeOK
<1>5. RequestAt(p)'
  <2>1. proc[p].batch.size.named \in Nat
    BY <1>1 DEF Batch
  <2> QED BY <1>1, <1>2, <1>3, <2>1 DEF RequestAt
<1>6. Untorn(s)'
  <2>1. FirstNodes(proc[p].batch, 0) = {}
    BY DEF FirstNodes
  <2>2. StoringFirst(s)'
    BY <1>3, <2>1 DEF StoringFirst, FirstNodes
  <2> QED BY <1>1, <1>2, <2>2 DEF BatchInv, Untorn
<1>7. DeletesExclude' /\ \A q \in Procs \ {p} : proc[q].sub = s => proc[q].kind # "delete"
  BY <1>1, <1>3, <1>4, DeletesExcludeAfter, OthersOf
<1> QED BY <1>1, <1>2, <1>4, <1>5, <1>6, <1>7, AssembleBatch

LEMMA BatchStore ==
  ASSUME Mixing, BaseInv, BatchInv, NEW p \in Procs, NEW s \in Subs, s = proc[p].sub, StoreNode(p)
  PROVE  BatchInv'
<1> DEFINE b == proc[p].batch
           n == proc[p].done
<1> USE SubscriptionsAssumption
<1>1. /\ TypeOK /\ proc[p] \in Request /\ DeletesExclude
      /\ s # None /\ proc[p].kind = "refresh" /\ b \in Batch /\ n \in Nat /\ n < b.size.named
      /\ proc[p].pc = "store" /\ life[s] = "used" /\ row[s] # None
  BY ProcTyped DEF BaseInv, BatchInv, WellFormed, StoreNode, At, RequestAt, Request, Untorn
<1>2. /\ nodes' = [nodes EXCEPT ![s] = @ \cup {[batch |-> b, index |-> n + 1]}]
      /\ proc' = [proc EXCEPT ![p].done = @ + 1]
      /\ UNCHANGED <<row, cronJobs, entries, scheduler, life, acked>>
  BY <1>1 DEF StoreNode, MayFail, Mixing
<1>3. /\ proc'[p].sub = s /\ proc'[p].kind = "refresh" /\ proc'[p].pc = "store"
      /\ proc'[p].batch = b /\ proc'[p].done = n + 1 /\ proc'[p].copy = proc[p].copy
      /\ \A q \in Procs \ {p} : proc'[q] = proc[q]
      /\ nodes'[s] = nodes[s] \cup {[batch |-> b, index |-> n + 1]}
  BY <1>1, <1>2 DEF TypeOK, Request
<1>4. OnlyTouches(p, s)
  BY <1>1, <1>2, <1>3 DEF OnlyTouches, TypeOK
<1>5. RequestAt(p)'
  <2>1. b.size.named \in Nat
    BY <1>1 DEF Batch
  <2>2. n + 1 <= b.size.named
    BY <1>1, <2>1
  <2> HIDE DEF b, n
  <2> QED BY <1>1, <1>2, <1>3, <2>2 DEF RequestAt
<1>6. FirstNodes(b, n + 1) = FirstNodes(b, n) \cup {[batch |-> b, index |-> n + 1]}
  <2>1. 1 .. n + 1 = (1 .. n) \cup {n + 1}
    BY <1>1
  <2> QED BY <2>1 DEF FirstNodes
<1>7. Untorn(s)'
  <2> HIDE DEF b, n
  <2>1. StoringFirst(s) => StoringFirst(s)'
    <3> SUFFICES ASSUME NEW q \in Procs, proc[q].sub = s, proc[q].pc = "store",
                        FirstNodes(proc[q].batch, proc[q].done) \subseteq nodes[s]
                 PROVE  /\ proc'[q].sub = s /\ proc'[q].pc = "store"
                        /\ FirstNodes(proc'[q].batch, proc'[q].done) \subseteq nodes'[s]
      BY DEF StoringFirst, FirstNodes
    <3>1. CASE q = p
      BY <1>3, <1>6, <3>1 DEF b, n
    <3>2. CASE q # p
      BY <1>3, <3>2
    <3> QED BY <3>1, <3>2
  <2>2. StoredAll(s) => StoredAll(s)'
    BY <1>3 DEF StoredAll
  <2>3. ~Blank(s) /\ ~Deleting(s)
    BY <1>1, OthersOf DEF Blank, Deleting
  <2> QED BY <1>1, <1>2, <2>1, <2>2, <2>3 DEF BatchInv, Untorn
<1>8. DeletesExclude' /\ \A q \in Procs \ {p} : proc[q].sub = s => proc[q].kind # "delete"
  BY <1>1, <1>3, <1>4, DeletesExcludeAfter, OthersOf
<1> HIDE DEF b, n
<1> QED BY <1>2, <1>4, <1>5, <1>7, <1>8, AssembleBatch

\* A refresh that ends leaves its nodes or those of another one.
LEMMA BatchMeta ==
  ASSUME Mixing, BaseInv, BatchInv, NEW p \in Procs, NEW s \in Subs, s = proc[p].sub, SaveMeta(p)
  PROVE  BatchInv'
<1> DEFINE b == proc[p].batch
           r == Stored(s, [proc[p].copy EXCEPT !.fetched = proc[p].batch])
<1> USE SubscriptionsAssumption
<1>1. /\ TypeOK /\ proc[p] \in Request /\ DeletesExclude
      /\ s # None /\ proc[p].kind = "refresh" /\ b \in Batch /\ proc[p].done = b.size.named
      /\ proc[p].pc = "store" /\ life[s] = "used" /\ proc[p].copy \in Row
  BY ProcTyped DEF BaseInv, BatchInv, WellFormed, SaveMeta, At, RequestAt, Request
<1>2. r \in Row
  <2>1. [proc[p].copy EXCEPT !.fetched = b] \in Row
    BY <1>1 DEF Row
  <2> QED BY <2>1, StoredTyped
<1> HIDE DEF r
<1>3. /\ row' = [row EXCEPT ![s] = r]
      /\ Finish(p) /\ UNCHANGED <<nodes, cronJobs, entries, scheduler, life, acked>>
  BY DEF SaveMeta, Save, MayFail, Mixing, r
<1>4. /\ proc'[p] = Idle /\ \A q \in Procs \ {p} : proc'[q] = proc[q]
      /\ row'[s] = r /\ r # None
  BY <1>1, <1>2, <1>3, FinishTyped DEF TypeOK
<1>5. OnlyTouches(p, s) /\ RequestAt(p)'
  BY <1>1, <1>3, <1>4 DEF OnlyTouches, RequestAt, Idle, TypeOK
<1>6. NodesOf(b) # {} /\ FirstNodes(b, b.size.named) = NodesOf(b)
  <2>1. b.size.named > 0 /\ b.size.named \in Nat
    BY <1>1 DEF Batch, Mixing
  <2>2. [batch |-> b, index |-> 1] \in NodesOf(b)
    BY <2>1 DEF NodesOf
  <2>3. FirstNodes(b, b.size.named) = NodesOf(b)
    BY DEF NodesOf, FirstNodes
  <2> QED BY <2>2, <2>3
<1> HIDE DEF b
<1>7. Untorn(s)'
  <2>1. ASSUME NEW q \in Procs, proc[q].sub = s, proc[q].pc = "store",
               FirstNodes(proc[q].batch, proc[q].done) \subseteq nodes[s]
        PROVE  StoringFirst(s)' \/ StoredAll(s)'
    <3>1. CASE q = p
      BY <1>1, <1>3, <1>6, <2>1, <3>1 DEF StoredAll, b
    <3>2. CASE q # p
      BY <1>3, <1>4, <2>1, <3>2 DEF StoringFirst
    <3> QED BY <3>1, <3>2
  <2>2. StoredAll(s) => StoredAll(s)'
    BY <1>3 DEF StoredAll
  <2>3. ~Blank(s) /\ ~Deleting(s)
    BY <1>1, OthersOf DEF Blank, Deleting
  <2> QED BY <1>1, <1>3, <1>4, <2>1, <2>2, <2>3 DEF BatchInv, Untorn, StoringFirst
<1>8. DeletesExclude' /\ \A q \in Procs \ {p} : proc[q].sub = s => proc[q].kind # "delete"
  BY <1>1, <1>4, <1>5, DeletesExcludeAfter, OthersOf
<1> QED BY <1>3, <1>5, <1>7, <1>8, AssembleBatch

THEOREM StepBatch ==
  ASSUME Mixing, BaseInv, BatchInv, [Next]_vars
  PROVE  BatchInv'
<1>1. ASSUME NEW p \in Procs, NEW s \in Subs, Arrive(p, s) \/ CronFire(p, s) PROVE BatchInv'
  BY <1>1, BatchStarts
<1>2. ASSUME NEW p \in Procs, Continue(p) PROVE BatchInv'
  <2>1. proc[p].sub \in Subs
    <3>1. ASSUME NEW c \in Confs, NEW e \in BOOLEAN, UpdateSave(p, c, e) PROVE proc[p].pc # "idle"
      BY <3>1 DEF UpdateSave, At
    <3>2. ASSUME NEW f \in Fetches, NEW size \in Results, Fetch(p, f, size) PROVE proc[p].pc # "idle"
      BY <3>2 DEF Fetch, At
    <3>3. ASSUME \/ UpdateFails(p) \/ Reschedule(p) \/ DeleteRow(p) \/ DeleteFails(p)
                 \/ Unschedule(p) \/ CronRead(p) \/ FetchFails(p) \/ ClearNodes(p)
                 \/ StoreNode(p) \/ SaveMeta(p)
          PROVE  proc[p].pc # "idle"
      BY <3>3 DEF UpdateFails, Reschedule, DeleteRow, DeleteFails, Unschedule, CronRead,
            FetchFails, ClearNodes, StoreNode, SaveMeta, At
    <3>4. proc[p].pc # "idle"
      BY <1>2, <3>1, <3>2, <3>3 DEF Continue
    <3> QED BY <3>4 DEF BaseInv, WellFormed
  <2> QED
    BY <1>2, <2>1, BatchUnchanging, BatchUpdate, BatchDelete, BatchClear, BatchStore, BatchMeta
    DEF Continue, Unwriting
<1>3. CASE Restart
  BY <1>3 DEF Restart, Mixing
<1>4. CASE UNCHANGED vars
  <2>1. \A p \in Procs : RequestAt(p)'
    BY <1>4 DEF vars, BatchInv, RequestAt
  <2>2. \A s \in Subs : Untorn(s)'
    BY <1>4 DEF vars, BatchInv, Untorn, Deleting, Blank, StoringFirst, StoredAll
  <2>3. DeletesExclude'
    BY <1>4 DEF vars, BatchInv, DeletesExclude
  <2> QED BY <2>1, <2>2, <2>3 DEF BatchInv
<1> QED BY <1>1, <1>2, <1>3, <1>4 DEF Next, Procs

THEOREM InitBatch == Init => BatchInv
  BY SubscriptionsAssumption DEF Init, Idle, BatchInv, DeletesExclude, RequestAt, Untorn

\* When deletions run alone and nothing fails, the refreshes of a subscription
\* leave the whole batch of one of them, however many overlap one another, the
\* create and updates.
THEOREM BatchesAreNeverTorn == Mixing => (Spec => []NoBatchTorn)
<1> SUFFICES ASSUME Mixing PROVE Spec => []NoBatchTorn
  OBVIOUS
<1>1. BaseInv /\ BatchInv /\ [Next]_vars => BatchInv'
  BY StepBatch
<1>2. BatchInv => NoBatchTorn
  <2> SUFFICES ASSUME BatchInv, NEW s \in Subs, Quiet(s), life[s] = "used", row[s].fetched # None
               PROVE  \E n \in nodes[s] : NodesOf(n.batch) \subseteq nodes[s]
    BY DEF NoBatchTorn
  <2>1. StoredAll(s)
    BY DEF BatchInv, Untorn, Quiet, Deleting, Blank, StoringFirst
  <2>2. PICK b \in Batch : NodesOf(b) # {} /\ NodesOf(b) \subseteq nodes[s]
    BY <2>1 DEF StoredAll
  <2>3. PICK n \in NodesOf(b) : n.batch = b
    BY <2>2 DEF NodesOf
  <2> QED BY <2>2, <2>3
<1> QED BY <1>1, <1>2, InitBatch, BaseInvariant, PTL DEF Spec
=============================================================================
