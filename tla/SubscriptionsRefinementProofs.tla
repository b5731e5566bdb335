-------------------- MODULE SubscriptionsRefinementProofs --------------------
(***************************************************************************)
(* When requests and cron runs follow one another on each subscription and *)
(* no statement fails, Subscriptions implements Registry, crashes          *)
(* included.  When only updates and deletions run alone it implements      *)
(* Schedule, failing statements included.  (For all values of the other    *)
(* constants.)                                                             *)
(***************************************************************************)
EXTENDS SubscriptionsEditsProofs, SubscriptionsRefinement

USE DEF ticking

Serial == OverlappingEdits = {} /\ RefreshesOverlap = FALSE /\ DbErrors = FALSE

\* What a request has read is still there, and a refresh that is storing has
\* stored the first nodes of its batch and no others are left.
Holding(p) ==
    LET s == proc[p].sub IN
    /\ proc[p].pc \in {"save", "schedule", "fetch", "clear", "store"} =>
          row[s] # None /\ proc[p].copy = row[s]
    /\ proc[p].pc \in {"read", "fetch", "clear"} => proc[p].done = 0
    /\ proc[p].pc = "store" =>
          /\ proc[p].done <= proc[p].batch.size.named
          /\ nodes[s] = FirstNodes(proc[p].batch, proc[p].done)

SerialInv ==
    /\ ticking = TRUE
    /\ \A p, q \in Procs : p # q /\ proc[p].sub # None => proc[p].sub # proc[q].sub
    /\ \A p \in Procs : Holding(p)

AllInv == BaseInv /\ EditInv /\ SerialInv

-----------------------------------------------------------------------------
(* One request or cron run at a time on each subscription.                 *)

LEMMA StartsAlone ==
  ASSUME Serial, BaseInv, NEW p \in Procs, NEW s \in Subs, NEW kind \in Kinds,
         NEW pc \in PCs, NEW copy \in Row \cup {None}, Start(p, s, kind, pc, copy)
  PROVE  \A q \in Procs : proc[q].sub # s
<1> SUFFICES ASSUME NEW q \in Procs, proc[q].sub = s PROVE FALSE
  OBVIOUS
<1>1. proc[q].pc # "idle"
  BY SubscriptionsAssumption DEF BaseInv, WellFormed, Idle
<1>2. proc[q].kind \in Kinds
  BY <1>1 DEF BaseInv, WellFormed, Kinds
<1>3. IF {kind, proc[q].kind} = {"refresh"} THEN FALSE
        ELSE {kind, proc[q].kind} \ {"refresh"} \subseteq {}
  BY DEF Start, MayStart, Serial
<1> QED BY <1>2, <1>3

\* Enough to check of a step: what it does to its own request.
LEMMA AssembleSerial ==
  ASSUME BaseInv, SerialInv, NEW p \in Procs, NEW s \in Subs, OnlyTouches(p, s),
         proc[p].sub = s \/ \A q \in Procs : proc[q].sub # s,
         Holding(p)'
  PROVE  SerialInv'
<1> USE SubscriptionsAssumption DEF OnlyTouches
<1>1. \A q \in Procs \ {p} : proc[q].sub # s
  BY DEF SerialInv
<1>2. ASSUME NEW q \in Procs \ {p} PROVE Holding(q)'
  <2>1. CASE proc[q].pc = "idle"
    BY <2>1 DEF Holding
  <2>2. CASE proc[q].pc # "idle"
    <3>1. proc[q].sub \in Subs \ {s}
      BY <1>1, <2>2 DEF BaseInv, WellFormed
    <3> QED BY <3>1 DEF SerialInv, Holding
  <2> QED BY <2>1, <2>2
<1>3. \A q, r \in Procs : q # r /\ proc'[q].sub # None => proc'[q].sub # proc'[r].sub
  BY <1>1 DEF SerialInv
<1> QED BY <1>2, <1>3 DEF SerialInv

LEMMA SerialArrive ==
  ASSUME Serial, BaseInv, EditInv, SerialInv, NEW p \in Procs, NEW s \in Subs,
         Arrive(p, s) \/ CronFire(p, s)
  PROVE  /\ OnlyTouches(p, s) /\ SerialInv'
         /\ proc[p] = Idle /\ \A q \in Procs : proc[q].sub # s
         /\ proc'[p].sub = s /\ proc'[p].pc # "store"
<1> USE SubscriptionsAssumption
<1>1. TypeOK /\ proc[p] \in Request
  BY ProcTyped DEF BaseInv
<1>2. PICK kind \in Kinds, pc \in PCs \ {"idle", "store"}, copy \in Row \cup {None} :
         /\ Start(p, s, kind, pc, copy)
         /\ pc \in {"save", "schedule", "fetch", "clear"} => copy = row'[s] /\ row'[s] # None
  <2>1. ASSUME NEW c \in Confs, NEW e \in BOOLEAN, CreateSubscription(p, s, c, e)
        PROVE  \E copy \in Row : Start(p, s, "create", "schedule", copy) /\ copy = row'[s] /\ row'[s] # None
    <3> DEFINE r == [conf |-> c, enabled |-> GormCreated(e), fetched |-> None]
    <3>1. r \in Row
      BY DEF Row, GormCreated
    <3>2. Start(p, s, "create", "schedule", r) /\ row' = [row EXCEPT ![s] = r]
      BY <2>1 DEF CreateSubscription, Save
    <3> QED BY <1>1, <3>1, <3>2 DEF TypeOK
  <2>2. ASSUME UpdateRead(p, s)
        PROVE  row[s] \in Row /\ Start(p, s, "update", "save", row[s]) /\ row' = row /\ row[s] # None
    BY <1>1, <2>2 DEF UpdateRead, TypeOK
  <2>3. ASSUME DeleteNodes(p, s) PROVE Start(p, s, "delete", "delrow", None)
    BY <2>3 DEF DeleteNodes
  <2>4. ASSUME RefreshSubscription(p, s)
        PROVE  row[s] \in Row /\ Start(p, s, "refresh", "fetch", row[s]) /\ row' = row /\ row[s] # None
    BY <1>1, <2>4 DEF RefreshSubscription, TypeOK
  <2>5. ASSUME CronFire(p, s) PROVE Start(p, s, "refresh", "read", None)
    BY <2>5 DEF CronFire
  <2> QED BY <2>1, <2>2, <2>3, <2>4, <2>5 DEF Arrive, Kinds, PCs
<1>3. \A q \in Procs : proc[q].sub # s
  BY <1>2, StartsAlone
<1>4. /\ proc'[p] = [kind |-> kind, pc |-> pc, sub |-> s, copy |-> copy, batch |-> None, done |-> 0]
      /\ \A q \in Procs \ {p} : proc'[q] = proc[q]
  BY <1>2, StartTyped
<1>5. proc[p] = Idle
  BY <1>2 DEF Start, BaseInv, WellFormed
<1>6. /\ \A t \in Subs \ {s} :
            /\ row'[t] = row[t] /\ nodes'[t] = nodes[t] /\ life'[t] = life[t] /\ acked'[t] = acked[t]
      /\ cronJobs' = cronJobs /\ ticking' = ticking
  BY <1>1 DEF Arrive, CreateSubscription, UpdateRead, DeleteNodes, RefreshSubscription, CronFire,
        Save, TypeOK
<1>7. OnlyTouches(p, s)
  BY <1>4, <1>5, <1>6 DEF OnlyTouches, Idle
<1>8. Holding(p)'
  BY <1>2, <1>4 DEF Holding
<1> QED BY <1>3, <1>4, <1>5, <1>7, <1>8, AssembleSerial

\* A step that leaves every table as it is.
Unchanging(p) ==
    \/ UpdateFails(p) \/ DeleteFails(p) \/ FetchFails(p) \/ CronRead(p)
    \/ \E f \in Fetches, size \in Results : Fetch(p, f, size)

LEMMA SerialUnchanging ==
  ASSUME BaseInv, EditInv, SerialInv, NEW p \in Procs, Unchanging(p)
  PROVE  /\ proc[p].sub \in Subs /\ OnlyTouches(p, proc[p].sub) /\ SerialInv'
         /\ UNCHANGED <<row, nodes, cronJobs, scheduler, life, acked>>
         /\ proc[p].pc # "store" /\ proc'[p].pc # "store"
<1> DEFINE s == proc[p].sub
<1> USE SubscriptionsAssumption
<1>1. /\ TypeOK /\ proc[p] \in Request /\ Holding(p)
      /\ s \in Subs /\ proc[p].pc \in {"save", "delrow", "read", "fetch"}
      /\ UNCHANGED <<row, nodes, cronJobs, scheduler, life, acked>>
  BY ProcTyped DEF BaseInv, WellFormed, SerialInv, Unchanging, UpdateFails, DeleteFails, FetchFails,
        CronRead, Fetch, At
<1>2. CASE Finish(p)
  <2>1. proc'[p] = Idle /\ \A q \in Procs \ {p} : proc'[q] = proc[q]
    BY <1>2, FinishTyped
  <2>2. OnlyTouches(p, s) /\ Holding(p)' /\ proc'[p].pc # "store"
    BY <1>1, <2>1 DEF OnlyTouches, Holding, Idle
  <2> QED BY <1>1, <2>2, AssembleSerial
<1>3. ASSUME NEW r \in Request, proc' = [proc EXCEPT ![p] = r],
             r.sub = s, r.done = 0, r.pc \in {"fetch", "clear"}, r.copy = row[s], row[s] # None
      PROVE  OnlyTouches(p, s) /\ SerialInv' /\ proc'[p].pc # "store"
  <2>1. proc'[p] = r /\ \A q \in Procs \ {p} : proc'[q] = proc[q]
    BY <1>3, EditTyped
  <2>2. OnlyTouches(p, s) /\ Holding(p)' /\ proc'[p].pc # "store"
    BY <1>1, <1>3, <2>1 DEF OnlyTouches, Holding
  <2> QED BY <1>1, <2>2, AssembleSerial
<1>4. CASE CronRead(p)
  <2>1. CASE row[s] = None
    BY <1>1, <1>2, <1>4, <2>1 DEF CronRead
  <2>2. CASE row[s] # None
    <3> DEFINE r == [proc[p] EXCEPT !.pc = "fetch", !.copy = row[s]]
    <3>1. proc' = [proc EXCEPT ![p] = r] /\ proc[p].done = 0
      BY <1>1, <1>4, <2>2 DEF CronRead, At, Holding
    <3>2. r \in Request /\ r.sub = s /\ r.done = 0 /\ r.pc = "fetch" /\ r.copy = row[s]
      BY <1>1, <2>2, <3>1 DEF Request, TypeOK, PCs
    <3> HIDE DEF r
    <3> QED BY <1>1, <1>3, <2>2, <3>1, <3>2
  <2> QED BY <2>1, <2>2
<1>5. CASE \E f \in Fetches, size \in Results : Fetch(p, f, size)
  <2> PICK f \in Fetches, size \in Results : Fetch(p, f, size)
    BY <1>5
  <2> DEFINE b == [id |-> f, size |-> size]
             r == [proc[p] EXCEPT !.pc = "clear", !.batch = b]
  <2>1. proc' = [proc EXCEPT ![p] = r] /\ proc[p].done = 0 /\ proc[p].copy = row[s] /\ row[s] # None
    BY <1>1 DEF Fetch, At, Holding
  <2>2. b \in Batch
    BY DEF Batch
  <2>3. r \in Request /\ r.sub = s /\ r.done = 0 /\ r.pc = "clear" /\ r.copy = row[s]
    BY <1>1, <2>1, <2>2 DEF Request, PCs
  <2> HIDE DEF r
  <2> QED BY <1>1, <1>3, <2>1, <2>3
<1> QED BY <1>1, <1>2, <1>4, <1>5 DEF Unchanging, UpdateFails, DeleteFails, FetchFails

\* What an update writes.
Configured(r, c, e) == [r EXCEPT !.conf = c, !.enabled = e]

\* The steps that write, and what each writes.
LEMMA SerialUpdate ==
  ASSUME BaseInv, EditInv, SerialInv, NEW p \in Procs, NEW c \in Confs, NEW e \in BOOLEAN,
         UpdateSave(p, c, e)
  PROVE  LET s == proc[p].sub IN
         /\ s \in Subs /\ OnlyTouches(p, s) /\ SerialInv'
         /\ row[s] # None /\ row'[s] = Configured(row[s], c, e)
         /\ UNCHANGED <<nodes, life>>
         /\ proc[p].pc # "store" /\ proc'[p].pc # "store"
<1> DEFINE s == proc[p].sub
           r == [row[s] EXCEPT !.conf = c, !.enabled = e]
<1> USE SubscriptionsAssumption DEF Configured
<1>1. /\ TypeOK /\ proc[p] \in Request /\ Holding(p)
      /\ s \in Subs /\ proc[p].pc = "save" /\ row[s] # None /\ proc[p].copy = row[s]
  BY ProcTyped DEF BaseInv, WellFormed, SerialInv, UpdateSave, At, Holding
<1>2. r \in Row
  <2>1. row[s] \in Row
    BY <1>1 DEF TypeOK
  <2> QED BY <2>1 DEF Row
<1>3. /\ row' = [row EXCEPT ![s] = r] /\ acked' = [acked EXCEPT ![s] = SettingsOf(r)]
      /\ proc' = [proc EXCEPT ![p] = [@ EXCEPT !.pc = "schedule", !.copy = r]]
      /\ UNCHANGED <<nodes, cronJobs, entries, scheduler, life>>
  BY <1>1 DEF UpdateSave, Save, Stored
<1> HIDE DEF r
<1>4. /\ proc'[p] = [proc[p] EXCEPT !.pc = "schedule", !.copy = r]
      /\ \A q \in Procs \ {p} : proc'[q] = proc[q]
      /\ row'[s] = r /\ r # None
  BY <1>1, <1>2, <1>3 DEF TypeOK
<1>5. proc'[p].sub = s /\ proc'[p].pc = "schedule" /\ proc'[p].copy = r
  BY <1>1, <1>4 DEF Request
<1>6. OnlyTouches(p, s) /\ Holding(p)'
  BY <1>1, <1>3, <1>4, <1>5 DEF OnlyTouches, Holding, TypeOK
<1> QED BY <1>1, <1>3, <1>4, <1>5, <1>6, AssembleSerial DEF r

LEMMA SerialReschedule ==
  ASSUME BaseInv, EditInv, SerialInv, NEW p \in Procs, Reschedule(p) \/ Unschedule(p)
  PROVE  /\ proc[p].sub \in Subs /\ OnlyTouches(p, proc[p].sub) /\ SerialInv'
         /\ UNCHANGED <<row, nodes, life>>
         /\ proc[p].pc # "store" /\ proc'[p].pc # "store"
<1> DEFINE s == proc[p].sub
<1> USE SubscriptionsAssumption
<1>1. /\ TypeOK /\ s \in Subs /\ Finish(p) /\ proc[p].pc # "store"
      /\ UNCHANGED <<row, nodes, scheduler, life, acked>>
      /\ \A t \in Subs \ {s} : t \in cronJobs' <=> t \in cronJobs
  BY DEF BaseInv, WellFormed, Reschedule, Unschedule, At, ScheduleSubscription, UnscheduleSubscription
<1>2. proc'[p] = Idle /\ \A q \in Procs \ {p} : proc'[q] = proc[q]
  BY <1>1, FinishTyped
<1>3. OnlyTouches(p, s) /\ Holding(p)' /\ proc'[p].pc # "store"
  BY <1>1, <1>2 DEF OnlyTouches, Holding, Idle
<1> QED BY <1>1, <1>3, AssembleSerial

LEMMA SerialDelete ==
  ASSUME BaseInv, EditInv, SerialInv, Serial, NEW p \in Procs, DeleteRow(p)
  PROVE  LET s == proc[p].sub IN
         /\ s \in Subs /\ OnlyTouches(p, s) /\ SerialInv'
         /\ nodes[s] = {} /\ nodes' = nodes
         /\ row'[s] = None /\ life[s] # "unused" /\ life'[s] # "unused"
         /\ proc[p].pc # "store" /\ proc'[p].pc # "store"
<1> DEFINE s == proc[p].sub
<1> USE SubscriptionsAssumption
<1>1. /\ TypeOK /\ proc[p] \in Request /\ s \in Subs /\ proc[p].pc = "delrow" /\ life[s] # "unused"
  BY ProcTyped DEF BaseInv, WellFormed, DeleteRow, At
<1>2. nodes[s] = {}
  BY <1>1 DEF EditInv, RequestCurrent, Serial
<1>3. /\ row' = [row EXCEPT ![s] = None] /\ life' = [life EXCEPT ![s] = "deleted"]
      /\ acked' = [acked EXCEPT ![s] = None] /\ proc' = [proc EXCEPT ![p].pc = "unschedule"]
      /\ UNCHANGED <<nodes, cronJobs, entries, scheduler>>
  BY DEF DeleteRow, Save, Goto
<1>4. /\ proc'[p] = [proc[p] EXCEPT !.pc = "unschedule"]
      /\ \A q \in Procs \ {p} : proc'[q] = proc[q]
      /\ row'[s] = None /\ life'[s] = "deleted"
  BY <1>1, <1>3 DEF TypeOK
<1>5. proc'[p].sub = s /\ proc'[p].pc = "unschedule"
  BY <1>1, <1>4 DEF Request
<1>6. OnlyTouches(p, s) /\ Holding(p)'
  BY <1>1, <1>3, <1>4, <1>5 DEF OnlyTouches, Holding, TypeOK
<1> QED BY <1>1, <1>2, <1>3, <1>4, <1>5, <1>6, AssembleSerial

LEMMA SerialClear ==
  ASSUME BaseInv, EditInv, SerialInv, Serial, NEW p \in Procs, ClearNodes(p)
  PROVE  LET s == proc[p].sub IN
         /\ s \in Subs /\ OnlyTouches(p, s) /\ SerialInv'
         /\ row[s] # None /\ UNCHANGED <<row, life>>
         /\ proc[p].pc # "store" /\ proc'[p].pc = "store"
         /\ proc'[p].sub = s /\ proc'[p].batch \in Batch
<1> DEFINE s == proc[p].sub
<1> USE SubscriptionsAssumption
<1>1. /\ TypeOK /\ proc[p] \in Request /\ Holding(p)
      /\ s \in Subs /\ proc[p].pc = "clear" /\ proc[p].batch \in Batch
  BY ProcTyped DEF BaseInv, WellFormed, SerialInv, ClearNodes, At
<1>2. /\ nodes' = [nodes EXCEPT ![s] = {}] /\ proc' = [proc EXCEPT ![p].pc = "store"]
      /\ UNCHANGED <<row, cronJobs, entries, scheduler, life, acked>>
  BY DEF ClearNodes, Goto, MayFail, Serial
<1>3. /\ proc'[p] = [proc[p] EXCEPT !.pc = "store"]
      /\ \A q \in Procs \ {p} : proc'[q] = proc[q]
      /\ nodes'[s] = {}
  BY <1>1, <1>2 DEF TypeOK
<1>4. /\ proc'[p].sub = s /\ proc'[p].pc = "store" /\ proc'[p].done = 0
      /\ proc'[p].batch = proc[p].batch /\ proc'[p].copy = row[s] /\ row[s] # None
  BY <1>1, <1>3 DEF Request, Holding
<1>5. FirstNodes(proc[p].batch, 0) = {} /\ 0 <= proc[p].batch.size.named
  BY <1>1 DEF FirstNodes, Batch
<1>6. OnlyTouches(p, s) /\ Holding(p)'
  BY <1>1, <1>2, <1>3, <1>4, <1>5 DEF OnlyTouches, Holding, TypeOK, FirstNodes
<1> QED BY <1>1, <1>2, <1>4, <1>6, AssembleSerial

LEMMA SerialStore ==
  ASSUME BaseInv, EditInv, SerialInv, Serial, NEW p \in Procs, StoreNode(p)
  PROVE  LET s == proc[p].sub IN
         /\ s \in Subs /\ OnlyTouches(p, s) /\ SerialInv'
         /\ UNCHANGED <<row, life>>
         /\ proc[p].pc = "store" /\ proc'[p].pc = "store"
         /\ proc'[p].sub = s /\ proc'[p].batch = proc[p].batch
<1> DEFINE s == proc[p].sub
           b == proc[p].batch
           n == proc[p].done
<1> USE SubscriptionsAssumption
<1>1. /\ TypeOK /\ proc[p] \in Request /\ Holding(p)
      /\ s \in Subs /\ proc[p].pc = "store" /\ b \in Batch /\ n \in Nat /\ n < b.size.named
  BY ProcTyped DEF BaseInv, WellFormed, SerialInv, StoreNode, At, Request
<1>2. row[s] # None /\ proc[p].copy = row[s] /\ nodes[s] = FirstNodes(b, n)
  BY <1>1 DEF Holding
<1>3. /\ nodes' = [nodes EXCEPT ![s] = @ \cup {[batch |-> b, index |-> n + 1]}]
      /\ proc' = [proc EXCEPT ![p].done = @ + 1]
      /\ UNCHANGED <<row, cronJobs, entries, scheduler, life, acked>>
  BY <1>2 DEF StoreNode, MayFail, Serial
<1>4. /\ proc'[p] = [proc[p] EXCEPT !.done = @ + 1]
      /\ \A q \in Procs \ {p} : proc'[q] = proc[q]
      /\ nodes'[s] = FirstNodes(b, n) \cup {[batch |-> b, index |-> n + 1]}
  BY <1>1, <1>2, <1>3 DEF TypeOK
<1>5. /\ proc'[p].sub = s /\ proc'[p].pc = "store" /\ proc'[p].done = n + 1
      /\ proc'[p].batch = b /\ proc'[p].copy = proc[p].copy
  BY <1>1, <1>4 DEF Request
<1>6. FirstNodes(b, n) \cup {[batch |-> b, index |-> n + 1]} = FirstNodes(b, n + 1)
  <2>1. 1 .. n + 1 = (1 .. n) \cup {n + 1}
    BY <1>1
  <2> QED BY <2>1 DEF FirstNodes
<1>7. n + 1 <= b.size.named
  <2>1. b.size.named \in Nat
    BY <1>1 DEF Batch
  <2> QED BY <1>1, <2>1
<1> HIDE DEF b, n
<1>8. Holding(p)'
  BY <1>2, <1>3, <1>4, <1>5, <1>6, <1>7 DEF Holding, FirstNodes
<1>9. OnlyTouches(p, s)
  BY <1>1, <1>3, <1>4, <1>5 DEF OnlyTouches, TypeOK
<1> QED BY <1>1, <1>3, <1>5, <1>8, <1>9, AssembleSerial DEF b

LEMMA SerialMeta ==
  ASSUME BaseInv, EditInv, SerialInv, Serial, NEW p \in Procs, SaveMeta(p)
  PROVE  LET s == proc[p].sub IN
         /\ s \in Subs /\ OnlyTouches(p, s) /\ SerialInv'
         /\ UNCHANGED <<nodes, life>>
         /\ row[s] # None /\ row'[s] = [row[s] EXCEPT !.fetched = proc[p].batch]
         /\ proc[p].batch \in Batch /\ nodes[s] = NodesOf(proc[p].batch)
         /\ proc[p].pc = "store" /\ proc'[p].pc # "store"
<1> DEFINE s == proc[p].sub
           b == proc[p].batch
<1> USE SubscriptionsAssumption
<1>1. /\ TypeOK /\ proc[p] \in Request /\ Holding(p)
      /\ s \in Subs /\ proc[p].pc = "store" /\ b \in Batch /\ proc[p].done = b.size.named
  BY ProcTyped DEF BaseInv, WellFormed, SerialInv, SaveMeta, At, Request
<1>2. /\ row[s] # None /\ proc[p].copy = row[s]
      /\ nodes[s] = NodesOf(b)
  BY <1>1 DEF Holding, FirstNodes, NodesOf
<1>3. row' = [row EXCEPT ![s] = [row[s] EXCEPT !.fetched = b]]
  BY <1>2 DEF SaveMeta, Save, Stored, MayFail, Serial
<1>4. Finish(p) /\ UNCHANGED <<nodes, cronJobs, entries, scheduler, life, acked>>
  BY DEF SaveMeta
<1>5. proc'[p] = Idle /\ \A q \in Procs \ {p} : proc'[q] = proc[q]
  BY <1>4, FinishTyped
<1>6. OnlyTouches(p, s) /\ Holding(p)' /\ proc'[p].pc # "store"
  BY <1>1, <1>3, <1>4, <1>5 DEF OnlyTouches, Holding, Idle, TypeOK
<1> QED BY <1>1, <1>2, <1>3, <1>4, <1>6, AssembleSerial DEF TypeOK

LEMMA SerialRestart ==
  ASSUME BaseInv, Serial, Restart
  PROVE  SerialInv' /\ UNCHANGED <<row, nodes, life>> /\ \A p \in Procs : proc'[p] = Idle
  BY SubscriptionsAssumption DEF Restart, InitCron, Another, MayFail, Serial, SerialInv, Holding, Idle

THEOREM StepSerial ==
  ASSUME Serial, BaseInv, EditInv, SerialInv, [Next]_vars
  PROVE  SerialInv'
<1>1. ASSUME NEW p \in Procs, NEW s \in Subs, Arrive(p, s) \/ CronFire(p, s) PROVE SerialInv'
  BY <1>1, SerialArrive
<1>2. ASSUME NEW p \in Procs, Continue(p) PROVE SerialInv'
  BY <1>2, SerialUnchanging, SerialUpdate, SerialReschedule, SerialDelete, SerialClear, SerialStore,
     SerialMeta DEF Continue, Unchanging
<1>3. CASE Restart
  BY <1>3, SerialRestart
<1>4. CASE UNCHANGED vars
  BY <1>4 DEF vars, SerialInv, Holding
<1> QED BY <1>1, <1>2, <1>3, <1>4 DEF Next, Procs

THEOREM SerialInvariant == Serial => (Spec => []SerialInv)
<1> SUFFICES ASSUME Serial PROVE Spec => []SerialInv
  OBVIOUS
<1>1. OverlappingEdits \subseteq {"create"}
  BY DEF Serial
<1>2. Init => SerialInv
  BY SubscriptionsAssumption DEF Init, SerialInv, Holding, Idle
<1>3. BaseInv /\ EditInv /\ SerialInv /\ [Next]_vars => SerialInv'
  BY StepSerial
<1> QED BY <1>1, <1>2, <1>3, BaseInvariant, EditInvariant, PTL DEF Spec

-----------------------------------------------------------------------------
(* What a client sees.                                                     *)

LEMMA ScheduledIsDue ==
  ASSUME AllInv
  PROVE  ScheduledSeen = {s \in Subs : ShouldRun(row[s])}
<1> SUFFICES ASSUME NEW s \in Subs, ~Rescheduling(s) PROVE s \in cronJobs <=> ShouldRun(row[s])
  BY DEF ScheduledSeen
<1>1. JobSettled(s)
  BY DEF JobSettled, Rescheduling
<1> QED BY <1>1 DEF AllInv, EditInv, SerialInv, RowCurrent, JobFollows

\* The nodes a client sees: those stored, or the whole batch being stored.
ContentAgrees ==
    \A s \in Subs :
        /\ (\A q \in Procs : proc[q].sub = s => proc[q].pc # "store") => ContentSeen[s] = nodes[s]
        /\ \A p \in Procs : proc[p].sub = s /\ proc[p].pc = "store" =>
              ContentSeen[s] = NodesOf(proc[p].batch)

LEMMA ContentIsKnown == AllInv => ContentAgrees
<1> SUFFICES ASSUME AllInv, NEW s \in Subs PROVE ContentAgrees!(s)
  BY DEF ContentAgrees
<1>1. ASSUME \A q \in Procs : proc[q].sub = s => proc[q].pc # "store"
      PROVE  ContentSeen[s] = nodes[s]
  <2>1. Storing(s) = {}
    BY <1>1 DEF Storing
  <2> QED BY <2>1 DEF ContentSeen
<1>2. ASSUME NEW p \in Procs, proc[p].sub = s, proc[p].pc = "store"
      PROVE  ContentSeen[s] = NodesOf(proc[p].batch)
  <2>1. Storing(s) = {p}
    BY <1>2, SubscriptionsAssumption DEF Storing, AllInv, SerialInv
  <2>2. nodes[s] = FirstNodes(proc[p].batch, proc[p].done) /\ proc[p].done <= proc[p].batch.size.named
    BY <1>2 DEF AllInv, SerialInv, Holding
  <2>3. proc[p].batch.size.named \in Nat /\ proc[p].done \in Nat
    BY <1>2, ProcTyped, SubscriptionsAssumption DEF AllInv, BaseInv, WellFormed, Batch, Request
  <2>4. nodes[s] \subseteq NodesOf(proc[p].batch)
    BY <2>2, <2>3 DEF FirstNodes, NodesOf
  <2> QED BY <2>1, <2>4 DEF ContentSeen
<1> QED BY <1>1, <1>2

LEMMA ContentIsKnownNext == AllInv' => ContentAgrees'
  BY ContentIsKnown, PTL

\* A step that touches s changes what is seen of s only.
LEMMA SeenStep ==
  ASSUME AllInv, AllInv', NEW p \in Procs, NEW s \in Subs, OnlyTouches(p, s)
  PROVE  /\ SettingsSeen' = [SettingsSeen EXCEPT ![s] = SettingsSeen'[s]]
         /\ RecordedSeen' = [RecordedSeen EXCEPT ![s] = RecordedSeen'[s]]
         /\ ContentSeen' = [ContentSeen EXCEPT ![s] = ContentSeen'[s]]
         /\ ScheduledSeen' = IF ShouldRun(row'[s]) THEN ScheduledSeen \cup {s} ELSE ScheduledSeen \ {s}
         /\ UsedSeen' = IF life'[s] # "unused" THEN UsedSeen \cup {s} ELSE UsedSeen \ {s}
<1> USE SubscriptionsAssumption DEF OnlyTouches
<1>1. SettingsSeen' = [SettingsSeen EXCEPT ![s] = SettingsSeen'[s]]
  BY DEF SettingsSeen
<1>2. RecordedSeen' = [RecordedSeen EXCEPT ![s] = RecordedSeen'[s]]
  BY DEF RecordedSeen
<1>3. ContentSeen' = [ContentSeen EXCEPT ![s] = ContentSeen'[s]]
  <2>1. ASSUME NEW t \in Subs \ {s}
        PROVE  Storing(t)' = Storing(t) /\ nodes'[t] = nodes[t] /\ p \notin Storing(t)
    BY <2>1 DEF Storing
  <2>2. ASSUME NEW t \in Subs \ {s} PROVE ContentSeen'[t] = ContentSeen[t]
    <3>1. {NodesOf(proc'[q].batch) : q \in Storing(t)} = {NodesOf(proc[q].batch) : q \in Storing(t)}
      BY <2>1, <2>2 DEF Storing
    <3> QED BY <2>1, <2>2, <3>1 DEF ContentSeen
  <2> QED BY <2>2 DEF ContentSeen
<1>4. ScheduledSeen' = IF ShouldRun(row'[s]) THEN ScheduledSeen \cup {s} ELSE ScheduledSeen \ {s}
  <2>1. ScheduledSeen = {t \in Subs : ShouldRun(row[t])}
    BY ScheduledIsDue
  <2>2. ScheduledSeen' = {t \in Subs : ShouldRun(row'[t])}
    <3> SUFFICES ASSUME NEW t \in Subs, ~Rescheduling(t)' PROVE t \in cronJobs' <=> ShouldRun(row'[t])
      BY DEF ScheduledSeen, ShouldRun
    <3>1. JobSettled(t)'
      BY DEF JobSettled, Rescheduling
    <3> QED BY <3>1 DEF AllInv, EditInv, SerialInv, RowCurrent, JobFollows, ShouldRun
  <2>3. \A t \in Subs \ {s} : ShouldRun(row'[t]) <=> ShouldRun(row[t])
    BY DEF ShouldRun
  <2> QED BY <2>1, <2>2, <2>3
<1>5. UsedSeen' = IF life'[s] # "unused" THEN UsedSeen \cup {s} ELSE UsedSeen \ {s}
  BY DEF UsedSeen
<1> QED BY <1>1, <1>2, <1>3, <1>4, <1>5

\* What is seen of s stays, so all that is seen stays.
LEMMA SeenStill ==
  ASSUME AllInv, AllInv', NEW p \in Procs, NEW s \in Subs, OnlyTouches(p, s)
  PROVE  /\ SettingsSeen'[s] = SettingsSeen[s] => SettingsSeen' = SettingsSeen
         /\ RecordedSeen'[s] = RecordedSeen[s] => RecordedSeen' = RecordedSeen
         /\ ContentSeen'[s] = ContentSeen[s] => ContentSeen' = ContentSeen
         /\ (ShouldRun(row'[s]) <=> ShouldRun(row[s])) => ScheduledSeen' = ScheduledSeen
         /\ (life'[s] # "unused" <=> life[s] # "unused") => UsedSeen' = UsedSeen
<1>1. /\ SettingsSeen'[s] = SettingsSeen[s] => SettingsSeen' = SettingsSeen
  BY SeenStep DEF SettingsSeen
<1>2. /\ RecordedSeen'[s] = RecordedSeen[s] => RecordedSeen' = RecordedSeen
  BY SeenStep DEF RecordedSeen
<1>3. ContentSeen'[s] = ContentSeen[s] => ContentSeen' = ContentSeen
  <2>1. /\ ContentSeen = [t \in Subs |-> ContentSeen[t]]
        /\ ContentSeen' = [ContentSeen EXCEPT ![s] = ContentSeen'[s]]
    BY SeenStep DEF ContentSeen
  <2> QED BY <2>1
<1>4. (ShouldRun(row'[s]) <=> ShouldRun(row[s])) => ScheduledSeen' = ScheduledSeen
  <2>1. s \in ScheduledSeen <=> ShouldRun(row[s])
    BY ScheduledIsDue
  <2>2. ScheduledSeen' = IF ShouldRun(row'[s]) THEN ScheduledSeen \cup {s} ELSE ScheduledSeen \ {s}
    BY SeenStep
  <2> QED BY <2>1, <2>2
<1>5. (life'[s] # "unused" <=> life[s] # "unused") => UsedSeen' = UsedSeen
  BY SeenStep DEF UsedSeen
<1> QED BY <1>1, <1>2, <1>3, <1>4, <1>5

LEMMA RowsSeen ==
  /\ \A r \in Row : SettingsOf(r) \in Settings
  /\ \A r \in Row : r # None
  /\ \A v \in Settings : v # None
<1>1. \A r \in Row : SettingsOf(r) \in Settings
  BY DEF Row, Settings, SettingsOf
<1> QED BY <1>1, SubscriptionsAssumption

\* What a step on s is to a client, by what it does to the tables of s.
LEMMA PromiseStep ==
  ASSUME AllInv, AllInv', NEW p \in Procs, NEW s \in Subs, OnlyTouches(p, s),
         \/ row'[s] = row[s] /\ life'[s] = life[s] /\ ContentSeen'[s] \in {ContentSeen[s], {}}
         \/ \E b \in Batch : /\ row[s] # None /\ row'[s] = row[s] /\ life'[s] = life[s]
                             /\ ContentSeen'[s] = NodesOf(b)
         \/ \E b \in Batch : /\ row[s] # None /\ row'[s] = [row[s] EXCEPT !.fetched = b]
                             /\ life'[s] = life[s] /\ ContentSeen'[s] = ContentSeen[s]
                             /\ ContentSeen[s] = NodesOf(b)
         \/ \E c \in Confs, e \in BOOLEAN :
              /\ row[s] # None /\ row'[s] = [row[s] EXCEPT !.conf = c, !.enabled = e]
              /\ life'[s] = life[s] /\ ContentSeen'[s] = ContentSeen[s]
         \/ \E c \in Confs :
              /\ row[s] = None /\ row'[s] = [conf |-> c, enabled |-> TRUE, fetched |-> None]
              /\ life[s] = "unused" /\ life'[s] = "used" /\ ContentSeen'[s] = ContentSeen[s]
         \/ /\ row'[s] = None /\ ContentSeen[s] = {} /\ ContentSeen'[s] = ContentSeen[s]
            /\ life[s] # "unused" /\ life'[s] # "unused"
  PROVE  [Promised!Next]_(Promised!vars)
<1> USE SubscriptionsAssumption
<1> DEFINE ToRun == {v \in Settings : v.enabled /\ v.conf \in ValidCron}
<1>1. /\ SettingsSeen' = [SettingsSeen EXCEPT ![s] = SettingsSeen'[s]]
      /\ RecordedSeen' = [RecordedSeen EXCEPT ![s] = RecordedSeen'[s]]
      /\ ContentSeen' = [ContentSeen EXCEPT ![s] = ContentSeen'[s]]
      /\ ScheduledSeen' = IF ShouldRun(row'[s]) THEN ScheduledSeen \cup {s} ELSE ScheduledSeen \ {s}
      /\ UsedSeen' = IF life'[s] # "unused" THEN UsedSeen \cup {s} ELSE UsedSeen \ {s}
  BY SeenStep
<1>2. /\ SettingsSeen[s] = IF row[s] = None THEN None ELSE SettingsOf(row[s])
      /\ RecordedSeen[s] = IF row[s] = None THEN None ELSE row[s].fetched
      /\ s \in ScheduledSeen <=> ShouldRun(row[s])
      /\ s \in UsedSeen <=> life[s] # "unused"
  BY ScheduledIsDue DEF SettingsSeen, RecordedSeen, UsedSeen
<1>3. /\ SettingsSeen'[s] = IF row'[s] = None THEN None ELSE SettingsOf(row'[s])
      /\ RecordedSeen'[s] = IF row'[s] = None THEN None ELSE row'[s].fetched
  BY DEF SettingsSeen, RecordedSeen, SettingsOf
<1>4. /\ SettingsSeen \in [Subs -> Settings \cup {None}] /\ DOMAIN RecordedSeen = Subs
      /\ DOMAIN ContentSeen = Subs /\ row[s] \in Row \cup {None}
  BY DEF SettingsSeen, RecordedSeen, ContentSeen, SettingsOf, Settings, AllInv, BaseInv, TypeOK, Row
<1>5. ASSUME NEW v \in Settings \cup {None}, SettingsSeen'[s] = v, ShouldRun(row'[s]) <=> v \in ToRun
      PROVE  Promised!Configure(s, v)
  BY <1>1, <1>5 DEF Promised!Configure
<1>6. CASE row'[s] = row[s] /\ life'[s] = life[s]
  <2>1. SettingsSeen' = SettingsSeen /\ RecordedSeen' = RecordedSeen /\ UsedSeen' = UsedSeen
    BY <1>2, <1>3, <1>6, SeenStill
  <2>2. ScheduledSeen' = ScheduledSeen
    BY <1>6, SeenStill DEF ShouldRun
  <2>3. CASE ContentSeen'[s] = ContentSeen[s]
    BY <2>1, <2>2, <2>3, SeenStill DEF Promised!vars
  <2>4. CASE ContentSeen'[s] = {}
    <3>1. Promised!Empty(s)
      BY <1>1, <2>1, <2>2, <2>4 DEF Promised!Empty
    <3> QED BY <3>1 DEF Promised!Next
  <2>5. ASSUME NEW b \in Batch, row[s] # None, ContentSeen'[s] = NodesOf(b)
        PROVE  [Promised!Next]_(Promised!vars)
    <3>1. SettingsSeen[s] # None
      BY <1>2, <1>4, <2>5, RowsSeen
    <3>2. Promised!Replace(s, b)
      BY <1>1, <2>1, <2>2, <2>5, <3>1 DEF Promised!Replace
    <3> QED BY <3>2 DEF Promised!Next
  <2> QED BY <1>6, <2>3, <2>4, <2>5
<1>7. ASSUME NEW b \in Batch, row[s] # None, row'[s] = [row[s] EXCEPT !.fetched = b],
             life'[s] = life[s], ContentSeen'[s] = ContentSeen[s], ContentSeen[s] = NodesOf(b)
      PROVE  [Promised!Next]_(Promised!vars)
  <2>1. /\ row[s] \in Row /\ row'[s] # None
        /\ SettingsOf(row'[s]) = SettingsOf(row[s]) /\ row'[s].fetched = b
    BY <1>4, <1>7 DEF Row, SettingsOf
  <2>2. SettingsSeen[s] # None /\ SettingsSeen'[s] = SettingsSeen[s] /\ RecordedSeen'[s] = b
    BY <1>2, <1>3, <1>7, <2>1, RowsSeen
  <2>3. ShouldRun(row'[s]) <=> ShouldRun(row[s])
    BY <1>7, <2>1 DEF ShouldRun, SettingsOf
  <2>4. Promised!Record(s, b)
    BY <1>1, <1>7, <2>2, <2>3, SeenStill DEF Promised!Record
  <2> QED BY <2>4 DEF Promised!Next
<1>8. ASSUME NEW c \in Confs, NEW e \in BOOLEAN, row[s] # None,
             row'[s] = [row[s] EXCEPT !.conf = c, !.enabled = e],
             life'[s] = life[s], ContentSeen'[s] = ContentSeen[s]
      PROVE  [Promised!Next]_(Promised!vars)
  <2> DEFINE v == [conf |-> c, enabled |-> e]
  <2>1. row[s] \in Row /\ row'[s] # None /\ row'[s].fetched = row[s].fetched
        /\ row'[s].conf = c /\ row'[s].enabled = e
    <3>1. row[s] \in Row
      BY <1>4, <1>8
    <3> QED BY <1>8, <3>1 DEF Row
  <2>2. v \in Settings /\ SettingsSeen'[s] = v
    BY <1>3, <2>1 DEF Settings, SettingsOf
  <2>3. ShouldRun(row'[s]) <=> v \in ToRun
    BY <2>1, <2>2 DEF ShouldRun
  <2>4. SettingsSeen[s] # None /\ RecordedSeen'[s] = RecordedSeen[s]
    BY <1>2, <1>3, <1>8, <2>1, RowsSeen
  <2>5. RecordedSeen' = RecordedSeen /\ ContentSeen' = ContentSeen /\ UsedSeen' = UsedSeen
    BY <1>8, <2>4, SeenStill
  <2> HIDE DEF v
  <2>6. Promised!Update(s, v)
    BY <1>5, <2>2, <2>3, <2>4, <2>5 DEF Promised!Update
  <2> QED BY <2>2, <2>6 DEF Promised!Next
<1>9. ASSUME NEW c \in Confs, row[s] = None, row'[s] = [conf |-> c, enabled |-> TRUE, fetched |-> None],
             life[s] = "unused", life'[s] = "used", ContentSeen'[s] = ContentSeen[s]
      PROVE  [Promised!Next]_(Promised!vars)
  <2> DEFINE v == [conf |-> c, enabled |-> TRUE]
  <2>1. row'[s] # None
    <3>1. [conf |-> c, enabled |-> TRUE, fetched |-> None] \in Row
      BY DEF Row
    <3> QED BY <1>9, <3>1, RowsSeen
  <2>2. v \in Settings /\ SettingsSeen'[s] = v /\ RecordedSeen'[s] = RecordedSeen[s]
    BY <1>2, <1>3, <1>9, <2>1 DEF Settings, SettingsOf
  <2>3. ShouldRun(row'[s]) <=> v \in ToRun
    BY <1>9, <2>1, <2>2 DEF ShouldRun
  <2>4. RecordedSeen' = RecordedSeen /\ ContentSeen' = ContentSeen
    BY <1>9, <2>2, SeenStill
  <2>5. s \notin UsedSeen /\ UsedSeen' = UsedSeen \cup {s}
    BY <1>1, <1>2, <1>9
  <2> HIDE DEF v
  <2>6. Promised!Create(s, v)
    BY <1>5, <2>2, <2>3, <2>4, <2>5 DEF Promised!Create
  <2> QED BY <2>2, <2>6 DEF Promised!Next
<1>10. ASSUME row'[s] = None, ContentSeen[s] = {}, ContentSeen'[s] = ContentSeen[s],
              life[s] # "unused", life'[s] # "unused"
       PROVE  [Promised!Next]_(Promised!vars)
  <2>1. SettingsSeen'[s] = None /\ RecordedSeen'[s] = None /\ ~ShouldRun(row'[s]) /\ None \notin ToRun
    BY <1>3, <1>10 DEF ShouldRun
  <2>2. ContentSeen' = ContentSeen /\ UsedSeen' = UsedSeen
    BY <1>10, SeenStill
  <2>3. Promised!Delete(s)
    BY <1>1, <1>5, <1>10, <2>1, <2>2 DEF Promised!Delete
  <2> QED BY <2>3 DEF Promised!Next
<1> QED BY <1>6, <1>7, <1>8, <1>9, <1>10

LEMMA PromiseArrive ==
  ASSUME Serial, AllInv, AllInv', NEW p \in Procs, NEW s \in Subs, Arrive(p, s) \/ CronFire(p, s)
  PROVE  [Promised!Next]_(Promised!vars)
<1> USE SubscriptionsAssumption DEF AllInv
<1>1. /\ OnlyTouches(p, s) /\ TypeOK
      /\ \A q \in Procs : proc[q].sub # s
      /\ proc'[p].sub = s /\ proc'[p].pc # "store"
  BY SerialArrive DEF BaseInv
<1>2. \A q \in Procs : proc'[q].sub = s => proc'[q].pc # "store"
  BY <1>1 DEF OnlyTouches
<1>3. ContentSeen[s] = nodes[s] /\ ContentSeen'[s] = nodes'[s]
  BY <1>1, <1>2, ContentIsKnown, ContentIsKnownNext DEF ContentAgrees
<1>4. ASSUME NEW c \in Confs, NEW e \in BOOLEAN, CreateSubscription(p, s, c, e)
      PROVE  [Promised!Next]_(Promised!vars)
  <2>1. /\ row'[s] = [conf |-> c, enabled |-> TRUE, fetched |-> None]
        /\ life[s] = "unused" /\ life'[s] = "used" /\ nodes' = nodes
    BY <1>1, <1>4 DEF CreateSubscription, Save, GormCreated, TypeOK
  <2>2. row[s] = None
    BY <2>1 DEF BaseInv, UsedIds
  <2> QED BY <1>1, <1>3, <2>1, <2>2, PromiseStep
<1>5. CASE UpdateRead(p, s) \/ RefreshSubscription(p, s) \/ CronFire(p, s)
  <2>1. UNCHANGED <<row, nodes, life>>
    BY <1>5 DEF UpdateRead, RefreshSubscription, CronFire
  <2> QED BY <1>1, <1>3, <2>1, PromiseStep
<1>6. CASE DeleteNodes(p, s)
  <2>1. UNCHANGED <<row, life>> /\ nodes'[s] = {}
    BY <1>1, <1>6 DEF DeleteNodes, MayFail, Serial, TypeOK
  <2> QED BY <1>1, <1>3, <2>1, PromiseStep
<1> QED BY <1>4, <1>5, <1>6 DEF Arrive

LEMMA PromiseContinue ==
  ASSUME Serial, AllInv, AllInv', NEW p \in Procs, Continue(p)
  PROVE  [Promised!Next]_(Promised!vars)
<1> DEFINE s == proc[p].sub
<1> USE SubscriptionsAssumption DEF AllInv
<1>1. \A q \in Procs \ {p} : s # None => proc[q].sub # s
  BY DEF SerialInv
\* A request that is not storing nodes, before or after the step.
<1>2. ASSUME s \in Subs, OnlyTouches(p, s), proc[p].pc # "store", proc'[p].pc # "store", nodes' = nodes
      PROVE  ContentSeen[s] = nodes[s] /\ ContentSeen'[s] = ContentSeen[s]
  <2>1. \A q \in Procs : proc[q].sub = s => proc[q].pc # "store"
    BY <1>1, <1>2
  <2>2. \A q \in Procs : proc'[q].sub = s => proc'[q].pc # "store"
    BY <1>1, <1>2 DEF OnlyTouches
  <2> QED BY <1>2, <2>1, <2>2, ContentIsKnown, ContentIsKnownNext DEF ContentAgrees
<1>3. CASE Unchanging(p) \/ Reschedule(p) \/ Unschedule(p)
  <2>1. /\ s \in Subs /\ OnlyTouches(p, s) /\ UNCHANGED <<row, nodes, life>>
        /\ proc[p].pc # "store" /\ proc'[p].pc # "store"
    BY <1>3, SerialUnchanging, SerialReschedule
  <2> HIDE DEF s
  <2>2. ContentSeen'[s] = ContentSeen[s]
    BY <1>2, <2>1
  <2> QED BY <2>1, <2>2, PromiseStep
<1>5. ASSUME NEW c \in Confs, NEW e \in BOOLEAN, UpdateSave(p, c, e)
      PROVE  [Promised!Next]_(Promised!vars)
  <2>1. /\ s \in Subs /\ OnlyTouches(p, s)
        /\ row[s] # None /\ row'[s] = Configured(row[s], c, e)
        /\ UNCHANGED <<nodes, life>>
        /\ proc[p].pc # "store" /\ proc'[p].pc # "store"
    BY <1>5, SerialUpdate
  <2> HIDE DEF s
  <2>2. ContentSeen'[s] = ContentSeen[s]
    BY <1>2, <2>1
  <2> QED BY <2>1, <2>2, PromiseStep DEF Configured
<1>6. CASE DeleteRow(p)
  <2>1. /\ s \in Subs /\ OnlyTouches(p, s)
        /\ nodes[s] = {} /\ nodes' = nodes
        /\ row'[s] = None /\ life[s] # "unused" /\ life'[s] # "unused"
        /\ proc[p].pc # "store" /\ proc'[p].pc # "store"
    BY <1>6, SerialDelete
  <2> HIDE DEF s
  <2>2. ContentSeen[s] = {} /\ ContentSeen'[s] = ContentSeen[s]
    BY <1>2, <2>1
  <2> QED BY <2>1, <2>2, PromiseStep
<1>7. CASE ClearNodes(p)
  <2>1. /\ s \in Subs /\ OnlyTouches(p, s)
        /\ row[s] # None /\ UNCHANGED <<row, life>>
        /\ proc'[p].pc = "store" /\ proc'[p].sub = s /\ proc'[p].batch \in Batch
    BY <1>7, SerialClear
  <2>2. ContentSeen'[s] = NodesOf(proc'[p].batch)
    BY <2>1, ContentIsKnownNext DEF ContentAgrees, NodesOf
  <2> QED BY <2>1, <2>2, PromiseStep
<1>8. CASE StoreNode(p)
  <2>1. /\ s \in Subs /\ OnlyTouches(p, s) /\ UNCHANGED <<row, life>>
        /\ proc[p].pc = "store" /\ proc'[p].pc = "store"
        /\ proc'[p].sub = s /\ proc'[p].batch = proc[p].batch
    BY <1>8, SerialStore
  <2>2. ContentAgrees /\ ContentAgrees'
    BY ContentIsKnown, ContentIsKnownNext
  <2>3. ContentSeen[s] = NodesOf(proc[p].batch) /\ ContentSeen'[s] = NodesOf(proc'[p].batch)
    BY <2>1, <2>2 DEF ContentAgrees, NodesOf
  <2>4. ContentSeen'[s] = ContentSeen[s]
    BY <2>1, <2>3 DEF NodesOf
  <2> QED BY <2>1, <2>4, PromiseStep
<1>9. CASE SaveMeta(p)
  <2>1. /\ s \in Subs /\ OnlyTouches(p, s) /\ UNCHANGED <<nodes, life>>
        /\ row[s] # None /\ row'[s] = [row[s] EXCEPT !.fetched = proc[p].batch]
        /\ proc[p].batch \in Batch /\ nodes[s] = NodesOf(proc[p].batch)
        /\ proc[p].pc = "store" /\ proc'[p].pc # "store"
    BY <1>9, SerialMeta
  <2>2. \A q \in Procs : proc'[q].sub = s => proc'[q].pc # "store"
    BY <1>1, <2>1 DEF OnlyTouches
  <2>3. ContentSeen[s] = NodesOf(proc[p].batch) /\ ContentSeen'[s] = nodes[s]
    BY <2>1, <2>2, ContentIsKnown, ContentIsKnownNext DEF ContentAgrees
  <2> QED BY <2>1, <2>3, PromiseStep
<1> QED BY <1>3, <1>5, <1>6, <1>7, <1>8, <1>9 DEF Continue, Unchanging

LEMMA PromiseRestart ==
  ASSUME Serial, AllInv, AllInv', Restart
  PROVE  Promised!Next
<1>1. UNCHANGED <<row, nodes, life>> /\ \A p \in Procs : proc'[p] = Idle
  BY SerialRestart DEF AllInv
<1>2. SettingsSeen' = SettingsSeen /\ RecordedSeen' = RecordedSeen /\ UsedSeen' = UsedSeen
  BY <1>1 DEF SettingsSeen, RecordedSeen, UsedSeen, SettingsOf
<1>3. \A s \in Subs : ContentSeen'[s] \subseteq ContentSeen[s]
  <2>1. \A p \in Procs : proc'[p].pc = "idle"
    BY <1>1 DEF Idle
  <2>2. \A s \in Subs : ContentSeen'[s] = nodes[s]
    BY <1>1, <2>1, ContentIsKnownNext DEF ContentAgrees
  <2> QED BY <2>2 DEF ContentSeen
<1>4. ScheduledSeen' = ScheduledSeen
  <2>1. ScheduledSeen = {s \in Subs : ShouldRun(row[s])}
    BY ScheduledIsDue
  <2>2. \A s \in Subs : ~Rescheduling(s)' /\ JobSettled(s)'
    BY <1>1 DEF Rescheduling, JobSettled, Idle
  <2>3. \A s \in Subs : s \in cronJobs' <=> ShouldRun(row[s])
    BY <1>1, <2>2 DEF AllInv, EditInv, SerialInv, RowCurrent, JobFollows, ShouldRun
  <2> QED BY <2>1, <2>2, <2>3 DEF ScheduledSeen
<1>5. Promised!Crash
  BY <1>2, <1>3, <1>4 DEF Promised!Crash
<1> QED BY <1>5 DEF Promised!Next

LEMMA PromiseNext ==
  ASSUME Serial, AllInv, AllInv', [Next]_vars
  PROVE  [Promised!Next]_(Promised!vars)
<1>1. CASE UNCHANGED vars
  <2>1. UNCHANGED <<SettingsSeen, RecordedSeen, ContentSeen, ScheduledSeen, UsedSeen>>
    BY <1>1 DEF vars, SettingsSeen, RecordedSeen, ContentSeen, ScheduledSeen, UsedSeen,
         Storing, Rescheduling, ShouldRun
  <2> QED BY <2>1 DEF Promised!vars
<1>2. CASE Restart
  BY <1>2, PromiseRestart
<1> QED BY <1>1, <1>2, PromiseArrive, PromiseContinue DEF Next, Procs

\* When requests and cron runs follow one another on each subscription and no
\* statement fails, a client sees settings, job and nodes change as the
\* Registry has it, for any number of subscriptions, requests and crashes.
THEOREM ImplementsRegistry == Serial => (Spec => KeepsPromise)
<1> SUFFICES ASSUME Serial PROVE Spec => KeepsPromise
  OBVIOUS
<1>1. OverlappingEdits \subseteq {"create"}
  BY DEF Serial
<1>2. Spec => []AllInv
  BY <1>1, BaseInvariant, EditInvariant, SerialInvariant, PTL DEF AllInv
<1>3. Init => Promised!Init
  BY SubscriptionsAssumption DEF Init, Promised!Init, SettingsSeen, RecordedSeen, ContentSeen,
     ScheduledSeen, UsedSeen, Storing, Rescheduling, Idle
<1>4. AllInv /\ AllInv' /\ [Next]_vars => [Promised!Next]_(Promised!vars)
  BY PromiseNext
<1> QED BY <1>2, <1>3, <1>4, PTL DEF Spec, KeepsPromise, Promised!Spec

\* One that records itself has left exactly the nodes it fetched.
THEOREM RefreshesReplaceNodes == Serial => (Spec => RefreshReplacesNodes)
<1> SUFFICES ASSUME Serial PROVE Spec => RefreshReplacesNodes
  OBVIOUS
<1>1. OverlappingEdits \subseteq {"create"}
  BY DEF Serial
<1>2. Spec => []AllInv
  BY <1>1, BaseInvariant, EditInvariant, SerialInvariant, PTL DEF AllInv
<1>3. ASSUME AllInv, [Next]_vars, NEW s \in Subs,
             row'[s] # None /\ row'[s].fetched # None,
             row[s] = None \/ row[s].fetched # row'[s].fetched
      PROVE  nodes'[s] = NodesOf(row'[s].fetched)
  <2> USE <1>3, SubscriptionsAssumption DEF AllInv
  <2>1. row'[s] # row[s]
    BY <1>3
  <2>2. ASSUME NEW p \in Procs, NEW t \in Subs, Arrive(p, t) \/ CronFire(p, t) PROVE FALSE
    <3>1. PICK c \in Confs, e \in BOOLEAN : CreateSubscription(p, t, c, e)
      BY <2>1, <2>2 DEF Arrive, UpdateRead, DeleteNodes, RefreshSubscription, CronFire
    <3>2. row'[s].fetched = None
      BY <2>1, <3>1 DEF CreateSubscription, Save, BaseInv, TypeOK
    <3> QED BY <1>3, <3>2
  <2>3. ASSUME NEW p \in Procs, Continue(p) PROVE nodes'[s] = NodesOf(row'[s].fetched)
    <3> DEFINE t == proc[p].sub
    <3> USE <2>3
    <3>1. CASE Unchanging(p) \/ Reschedule(p) \/ Unschedule(p) \/ ClearNodes(p) \/ StoreNode(p)
      BY <2>1, <3>1, SerialUnchanging, SerialReschedule, SerialClear, SerialStore
    <3>2. CASE DeleteRow(p)
      <4>1. row'[t] = None /\ OnlyTouches(p, t)
        BY <3>2, SerialDelete
      <4> QED BY <1>3, <2>1, <4>1 DEF OnlyTouches
    <3>3. ASSUME NEW c \in Confs, NEW e \in BOOLEAN, UpdateSave(p, c, e) PROVE FALSE
      <4>1. /\ t \in Subs /\ OnlyTouches(p, t)
            /\ row[t] # None /\ row'[t] = Configured(row[t], c, e)
        BY <3>3, SerialUpdate
      <4>2. s = t /\ row[s] # None
        BY <2>1, <4>1 DEF OnlyTouches
      <4>3. row[s] \in Row
        BY <4>2 DEF BaseInv, TypeOK
      <4>4. row'[s].fetched = row[s].fetched
        BY <4>1, <4>2, <4>3 DEF Row, Configured
      <4> QED BY <1>3, <4>2, <4>4
    <3>4. CASE SaveMeta(p)
      <4>1. /\ t \in Subs /\ OnlyTouches(p, t) /\ nodes' = nodes
            /\ row[t] # None /\ row'[t] = [row[t] EXCEPT !.fetched = proc[p].batch]
            /\ nodes[t] = NodesOf(proc[p].batch)
        BY <3>4, SerialMeta
      <4>2. s = t /\ row[s] # None
        BY <2>1, <4>1 DEF OnlyTouches
      <4>3. row[s] \in Row
        BY <4>2 DEF BaseInv, TypeOK
      <4>4. row'[s].fetched = proc[p].batch
        BY <4>1, <4>2, <4>3 DEF Row
      <4> QED BY <4>1, <4>2, <4>4
    <3> QED BY <2>3, <3>1, <3>2, <3>3, <3>4 DEF Continue, Unchanging
  <2>4. CASE Restart \/ UNCHANGED vars
    BY <2>1, <2>4, SerialRestart DEF vars
  <2> QED BY <1>3, <2>2, <2>3, <2>4 DEF Next, Procs
<1>4. ASSUME AllInv, [Next]_vars
      PROVE  [\A s \in Subs :
                /\ row'[s] # None /\ row'[s].fetched # None
                /\ row[s] = None \/ row[s].fetched # row'[s].fetched
                => nodes'[s] = NodesOf(row'[s].fetched)]_vars
  <2> SUFFICES ASSUME NEW s \in Subs,
                      row'[s] # None /\ row'[s].fetched # None,
                      row[s] = None \/ row[s].fetched # row'[s].fetched
               PROVE  nodes'[s] = NodesOf(row'[s].fetched)
    OBVIOUS
  <2> QED BY <1>3, <1>4
<1> QED BY <1>2, <1>4, PTL DEF Spec, RefreshReplacesNodes

-----------------------------------------------------------------------------
(* The Schedule.  EditInv is enough: refreshes overlap, statements fail.   *)

DueKnown == DueSeen = IF ticking THEN {s \in Subs : ShouldRun(row[s])} ELSE {}

LEMMA DueIsKnown == EditInv => DueKnown
<1> SUFFICES ASSUME EditInv, ticking, NEW s \in Subs, ~Rescheduling(s)
             PROVE  s \in cronJobs <=> ShouldRun(row[s])
  BY DEF DueKnown, DueSeen, ScheduledSeen
<1>1. JobSettled(s)
  BY DEF JobSettled, Rescheduling
<1> QED BY <1>1 DEF EditInv, RowCurrent, JobFollows

LEMMA DueIsKnownNext == EditInv' => DueKnown'
  BY DueIsKnown, PTL

\* Settings and timer of s after a step that touches no other subscription.
LEMMA ScheduleOne ==
  ASSUME TypeOK, TypeOK', DueKnown, DueKnown', NEW s \in Subs, ticking' = ticking,
         \A t \in Subs \ {s} : row'[t] = row[t] /\ life'[t] = life[t]
  PROVE  /\ SettingsSeen' = [SettingsSeen EXCEPT ![s] = IF row'[s] = None THEN None ELSE SettingsOf(row'[s])]
         /\ DueSeen' = IF ticking /\ ShouldRun(row'[s]) THEN DueSeen \cup {s} ELSE DueSeen \ {s}
         /\ UsedSeen' = IF life'[s] # "unused" THEN UsedSeen \cup {s} ELSE UsedSeen \ {s}
<1>1. SettingsSeen' = [SettingsSeen EXCEPT ![s] = IF row'[s] = None THEN None ELSE SettingsOf(row'[s])]
  BY DEF SettingsSeen, SettingsOf
<1>2. \A t \in Subs \ {s} : ShouldRun(row'[t]) <=> ShouldRun(row[t])
  BY DEF ShouldRun
<1>3. DueSeen' = IF ticking THEN {t \in Subs : ShouldRun(row'[t])} ELSE {}
  BY DEF DueKnown, ShouldRun
<1>4. DueSeen = IF ticking THEN {t \in Subs : ShouldRun(row[t])} ELSE {}
  BY DEF DueKnown
<1>5. DueSeen' = IF ticking /\ ShouldRun(row'[s]) THEN DueSeen \cup {s} ELSE DueSeen \ {s}
  BY <1>2, <1>3, <1>4
<1>6. UsedSeen' = IF life'[s] # "unused" THEN UsedSeen \cup {s} ELSE UsedSeen \ {s}
  BY DEF UsedSeen
<1> QED BY <1>1, <1>5, <1>6

\* Whether a timer is called for is a matter of the settings.
LEMMA RunsBySettings ==
  \A r \in Row : ShouldRun(r) <=> SettingsOf(r) \in {v \in Settings : v.enabled /\ v.conf \in ValidCron}
  BY RowsSeen DEF ShouldRun, SettingsOf

\* Rows and settings as they were: nothing is seen.
LEMMA ScheduleStill ==
  ASSUME TypeOK, TypeOK', DueKnown, DueKnown', NEW s \in Subs, ticking' = ticking,
         \A t \in Subs \ {s} : row'[t] = row[t] /\ life'[t] = life[t],
         \/ row'[s] = row[s]
         \/ row[s] # None /\ row'[s] # None /\ SettingsOf(row'[s]) = SettingsOf(row[s]),
         life'[s] = "unused" <=> life[s] = "unused"
  PROVE  UNCHANGED Scheduled!vars
<1>1. SettingsSeen' = SettingsSeen
  BY DEF SettingsSeen
<1>2. ShouldRun(row'[s]) <=> ShouldRun(row[s])
  BY DEF ShouldRun, SettingsOf
<1>3. DueSeen' = DueSeen
  <2>1. ticking /\ s \in DueSeen => ShouldRun(row[s])
    BY DEF DueKnown
  <2>2. ShouldRun(row[s]) /\ ticking => s \in DueSeen
    BY DEF DueKnown
  <2>3. ~ticking => DueSeen = {}
    BY DEF DueKnown
  <2> QED BY <1>2, <2>1, <2>2, <2>3, ScheduleOne
<1>4. UsedSeen' = UsedSeen
  BY DEF UsedSeen
<1> QED BY <1>1, <1>3, <1>4 DEF Scheduled!vars

LEMMA ScheduleCreated ==
  ASSUME TypeOK, TypeOK', DueKnown, DueKnown', NEW s \in Subs, ticking' = ticking,
         \A t \in Subs \ {s} : row'[t] = row[t] /\ life'[t] = life[t],
         row'[s] \in Row, life[s] = "unused", life'[s] = "used"
  PROVE  Scheduled!Next
<1> DEFINE v == SettingsOf(row'[s])
<1>1. v \in Settings /\ row'[s] # None
  BY RowsSeen
<1>2. ShouldRun(row'[s]) <=> v \in {w \in Settings : w.enabled /\ w.conf \in ValidCron}
  BY RunsBySettings
<1>3. Scheduled!Configure(s, v)
  BY <1>1, <1>2, ScheduleOne DEF Scheduled!Configure
<1>4. Scheduled!Create(s, v)
  <2>1. s \notin UsedSeen
    BY DEF UsedSeen
  <2> QED BY <1>3, <2>1, ScheduleOne DEF Scheduled!Create
<1> QED BY <1>1, <1>4 DEF Scheduled!Next

LEMMA ScheduleUpdated ==
  ASSUME TypeOK, TypeOK', DueKnown, DueKnown', NEW s \in Subs, ticking' = ticking,
         \A t \in Subs \ {s} : row'[t] = row[t] /\ life'[t] = life[t],
         row[s] # None, row'[s] \in Row, life'[s] = life[s]
  PROVE  Scheduled!Next
<1> DEFINE v == SettingsOf(row'[s])
<1>1. v \in Settings /\ row'[s] # None
  BY RowsSeen
<1>2. ShouldRun(row'[s]) <=> v \in {w \in Settings : w.enabled /\ w.conf \in ValidCron}
  BY RunsBySettings
<1>3. Scheduled!Configure(s, v)
  BY <1>1, <1>2, ScheduleOne DEF Scheduled!Configure
<1>4. UsedSeen' = UsedSeen
  BY DEF UsedSeen
<1>5. SettingsSeen[s] # None
  <2>1. row[s] \in Row
    BY DEF TypeOK
  <2> QED BY <2>1, RowsSeen DEF SettingsSeen
<1>6. Scheduled!Update(s, v)
  BY <1>3, <1>4, <1>5 DEF Scheduled!Update
<1> QED BY <1>1, <1>6 DEF Scheduled!Next

LEMMA ScheduleDeleted ==
  ASSUME TypeOK, TypeOK', DueKnown, DueKnown', NEW s \in Subs, ticking' = ticking,
         \A t \in Subs \ {s} : row'[t] = row[t] /\ life'[t] = life[t],
         row[s] # None, row'[s] = None, life[s] # "unused", life'[s] # "unused"
  PROVE  Scheduled!Next
<1>1. None \notin {w \in Settings : w.enabled /\ w.conf \in ValidCron} /\ ~ShouldRun(row'[s])
  BY RowsSeen DEF ShouldRun
<1>2. Scheduled!Configure(s, None)
  BY <1>1, ScheduleOne DEF Scheduled!Configure
<1>3. UsedSeen' = UsedSeen
  BY DEF UsedSeen
<1>4. SettingsSeen[s] # None
  <2>1. row[s] \in Row
    BY DEF TypeOK
  <2> QED BY <2>1, RowsSeen DEF SettingsSeen
<1>5. Scheduled!Delete(s)
  BY <1>2, <1>3, <1>4 DEF Scheduled!Delete
<1> QED BY <1>5 DEF Scheduled!Next

LEMMA ScheduleArrive ==
  ASSUME BaseInv, BaseInv', DueKnown, DueKnown', NEW p \in Procs, NEW s \in Subs,
         Arrive(p, s) \/ CronFire(p, s)
  PROVE  [Scheduled!Next]_(Scheduled!vars)
<1>1. TypeOK /\ TypeOK' /\ ticking' = ticking
  BY DEF BaseInv, Arrive, CreateSubscription, UpdateRead, DeleteNodes, RefreshSubscription, CronFire
<1>2. ASSUME NEW c \in Confs, NEW e \in BOOLEAN, CreateSubscription(p, s, c, e) PROVE Scheduled!Next
  <2>1. /\ life[s] = "unused" /\ life' = [life EXCEPT ![s] = "used"]
        /\ \E r : row' = [row EXCEPT ![s] = r] /\ r # None
    <3> DEFINE r == [conf |-> c, enabled |-> GormCreated(e), fetched |-> None]
    <3>1. r \in Row
      BY DEF Row, GormCreated
    <3>2. row' = [row EXCEPT ![s] = r]
      BY <1>2 DEF CreateSubscription, Save
    <3> QED BY <1>2, <3>1, <3>2, RowsSeen DEF CreateSubscription
  <2>2. row'[s] # None /\ \A t \in Subs \ {s} : row'[t] = row[t] /\ life'[t] = life[t]
    BY <1>1, <2>1 DEF TypeOK
  <2>3. row'[s] \in Row /\ life'[s] = "used"
    BY <1>1, <2>1, <2>2 DEF TypeOK
  <2> QED BY <1>1, <2>1, <2>2, <2>3, ScheduleCreated
<1>3. CASE UNCHANGED <<row, life>>
  BY <1>1, <1>3, ScheduleStill
<1> QED BY <1>2, <1>3 DEF Arrive, UpdateRead, DeleteNodes, RefreshSubscription, CronFire

LEMMA ScheduleContinue ==
  ASSUME BaseInv, BaseInv', EditInv, DueKnown, DueKnown', NEW p \in Procs, NEW s \in Subs,
         s = proc[p].sub, Continue(p)
  PROVE  [Scheduled!Next]_(Scheduled!vars)
<1>1. /\ TypeOK /\ TypeOK' /\ ticking' = ticking /\ RequestCurrent(p)
      /\ proc[p].pc # "idle" => life[s] # "unused"
  BY DEF BaseInv, WellFormed, EditInv, Continue, UpdateSave, UpdateFails, Reschedule, DeleteRow, DeleteFails,
     Unschedule, CronRead, Fetch, FetchFails, ClearNodes, StoreNode, SaveMeta
<1>2. ASSUME NEW c \in Confs, NEW e \in BOOLEAN, UpdateSave(p, c, e) PROVE Scheduled!Next
  <2> DEFINE r == Stored(s, [proc[p].copy EXCEPT !.conf = c, !.enabled = e])
  <2>1. r \in Row
    <3>1. [proc[p].copy EXCEPT !.conf = c, !.enabled = e] \in Row
      BY <1>2 DEF UpdateSave, At, BaseInv, WellFormed, Row
    <3> QED BY <3>1, StoredTyped
  <2>2. row' = [row EXCEPT ![s] = r] /\ life' = life /\ proc[p].pc = "save"
    BY <1>2 DEF UpdateSave, Save, At
  <2> HIDE DEF r
  <2>3. row'[s] \in Row /\ \A t \in Subs \ {s} : row'[t] = row[t] /\ life'[t] = life[t]
    BY <1>1, <2>1, <2>2 DEF TypeOK
  <2>4. row[s] # None
    BY <1>1, <2>2 DEF RequestCurrent
  <2> QED BY <1>1, <2>2, <2>3, <2>4, ScheduleUpdated
<1>3. CASE DeleteRow(p)
  <2>1. row' = [row EXCEPT ![s] = None] /\ life' = [life EXCEPT ![s] = "deleted"] /\ proc[p].pc # "idle"
    BY <1>3 DEF DeleteRow, Save, At
  <2>2. /\ row'[s] = None /\ life'[s] = "deleted" /\ life[s] # "unused"
        /\ \A t \in Subs \ {s} : row'[t] = row[t] /\ life'[t] = life[t]
    BY <1>1, <2>1 DEF TypeOK
  <2>3. CASE row[s] = None
    BY <1>1, <2>2, <2>3, ScheduleStill
  <2>4. CASE row[s] # None
    BY <1>1, <2>2, <2>4, ScheduleDeleted
  <2> QED BY <2>3, <2>4
<1>4. CASE SaveMeta(p)
  <2> DEFINE r == [proc[p].copy EXCEPT !.fetched = proc[p].batch]
  <2>1. proc[p].pc = "store" /\ proc[p].copy \in Row /\ proc[p].batch \in Batch /\ row[s] # None
    BY <1>1, <1>4 DEF SaveMeta, At, BaseInv, WellFormed, RequestCurrent
  <2>2. r \in Row /\ SettingsOf(r) = SettingsOf(row[s])
    BY <1>1, <2>1 DEF Row, SettingsOf, RequestCurrent
  <2>3. (row' = row \/ row' = [row EXCEPT ![s] = r]) /\ life' = life
    BY <1>4, <2>1 DEF SaveMeta, Save, Stored
  <2> HIDE DEF r
  <2>4. \/ row'[s] = row[s]
        \/ row[s] # None /\ row'[s] # None /\ SettingsOf(row'[s]) = SettingsOf(row[s])
    BY <1>1, <2>1, <2>2, <2>3, RowsSeen DEF TypeOK
  <2>5. \A t \in Subs \ {s} : row'[t] = row[t] /\ life'[t] = life[t]
    BY <1>1, <2>3 DEF TypeOK
  <2> QED BY <1>1, <2>3, <2>4, <2>5, ScheduleStill
<1>5. CASE UNCHANGED <<row, life>>
  BY <1>1, <1>5, ScheduleStill
<1> QED
  BY <1>2, <1>3, <1>4, <1>5 DEF Continue, UpdateFails, Reschedule, DeleteFails, Unschedule, CronRead, Fetch,
     FetchFails, ClearNodes, StoreNode

LEMMA ScheduleRestart ==
  ASSUME BaseInv, BaseInv', DueKnown', Restart
  PROVE  Scheduled!Next
<1>1. TypeOK /\ ticking' \in BOOLEAN /\ UNCHANGED <<row, life>>
  BY DEF BaseInv, TypeOK, Restart
<1>2. SettingsSeen' = SettingsSeen /\ UsedSeen' = UsedSeen
  BY <1>1 DEF SettingsSeen, UsedSeen
<1>3. ASSUME NEW s \in Subs
      PROVE  ShouldRun(row[s]) <=> SettingsSeen[s] \in {v \in Settings : v.enabled /\ v.conf \in ValidCron}
  <2>1. CASE row[s] = None
    BY <2>1, RowsSeen DEF SettingsSeen, ShouldRun
  <2>2. CASE row[s] # None
    <3>1. row[s] \in Row
      BY <1>1, <2>2 DEF TypeOK
    <3> QED BY <2>2, <3>1, RunsBySettings DEF SettingsSeen
  <2> QED BY <2>1, <2>2
<1>4. DueSeen' = IF ticking' THEN {s \in Subs : ShouldRun(row[s])} ELSE {}
  BY <1>1 DEF DueKnown, ShouldRun
<1>5. Scheduled!StartUp
  BY <1>1, <1>2, <1>3, <1>4 DEF Scheduled!StartUp
<1> QED BY <1>5 DEF Scheduled!Next

\* However many refreshes overlap one another and a create, fail or are cut off,
\* settings and timers change as the Schedule has it, as long as updates and
\* deletions have their subscription to themselves: for any number of
\* subscriptions, requests and cron runs.
THEOREM ImplementsSchedule == OverlappingEdits \subseteq {"create"} => (Spec => KeepsSchedule)
<1> SUFFICES ASSUME OverlappingEdits \subseteq {"create"} PROVE Spec => KeepsSchedule
  OBVIOUS
<1>1. Init => Scheduled!Init
  BY SubscriptionsAssumption DEF Init, Scheduled!Init, SettingsSeen, DueSeen, ScheduledSeen, UsedSeen,
     Rescheduling, Idle
<1>2. BaseInv /\ BaseInv' /\ EditInv /\ EditInv' /\ [Next]_vars => [Scheduled!Next]_(Scheduled!vars)
  <2> SUFFICES ASSUME BaseInv, BaseInv', EditInv, EditInv', [Next]_vars
               PROVE  [Scheduled!Next]_(Scheduled!vars)
    OBVIOUS
  <2>1. DueKnown /\ DueKnown'
    BY DueIsKnown, DueIsKnownNext
  <2>2. ASSUME NEW p \in Procs, NEW s \in Subs, Arrive(p, s) \/ CronFire(p, s)
        PROVE  [Scheduled!Next]_(Scheduled!vars)
    BY <2>1, <2>2, ScheduleArrive
  <2>3. ASSUME NEW p \in Procs, Continue(p) PROVE [Scheduled!Next]_(Scheduled!vars)
    <3>1. proc[p].sub \in Subs
      <4>1. proc[p].pc # "idle"
        BY <2>3 DEF Continue, UpdateSave, UpdateFails, Reschedule, DeleteRow, DeleteFails, Unschedule,
                    CronRead, Fetch, FetchFails, ClearNodes, StoreNode, SaveMeta, At
      <4> QED BY <4>1 DEF BaseInv, WellFormed
    <3> QED BY <2>1, <2>3, <3>1, ScheduleContinue
  <2>4. CASE Restart
    BY <2>1, <2>4, ScheduleRestart
  <2>5. CASE UNCHANGED vars
    <3>1. UNCHANGED <<SettingsSeen, DueSeen, scheduler, UsedSeen>>
      BY <2>5 DEF vars, SettingsSeen, DueSeen, ScheduledSeen, UsedSeen, Rescheduling, ShouldRun
    <3> QED BY <3>1 DEF Scheduled!vars
  <2> QED BY <2>2, <2>3, <2>4, <2>5 DEF Next, Procs
<1> QED BY <1>1, <1>2, BaseInvariant, EditInvariant, PTL DEF Spec, KeepsSchedule, Scheduled!Spec
=============================================================================
