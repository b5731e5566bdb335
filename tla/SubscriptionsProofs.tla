------------------------- MODULE SubscriptionsProofs -------------------------
(***************************************************************************)
(* Theorems about Subscriptions, for all values of its constants.          *)
(***************************************************************************)
EXTENDS Subscriptions, TLAPS

\* What a request in flight carries at each point of its handler.
WellFormed ==
    \A p \in Procs :
        /\ proc[p].pc = "idle" => proc[p] = Idle
        /\ proc[p].pc # "idle" =>
              /\ proc[p].sub \in Subs
              /\ life[proc[p].sub] # "unused"
              /\ \/ proc[p].kind = "create" /\ proc[p].pc = "schedule"
                 \/ proc[p].kind = "update" /\ proc[p].pc \in {"save", "schedule"}
                 \/ proc[p].kind = "delete" /\ proc[p].pc \in {"delrow", "unschedule"}
                 \/ proc[p].kind = "refresh" /\ proc[p].pc \in {"read", "fetch", "clear", "store"}
              /\ proc[p].pc \in {"save", "schedule", "fetch", "clear", "store"} => proc[p].copy \in Row
              /\ proc[p].pc \in {"clear", "store"} => proc[p].batch \in Batch

\* Only an id that was handed out has a row or a job.
UsedIds == \A s \in Subs : row[s] # None \/ s \in cronJobs => life[s] # "unused"

BaseInv == TypeOK /\ WellFormed /\ UsedIds /\ NoLeakedEntry

THEOREM InitBase == Init => BaseInv
  BY SubscriptionsAssumption
  DEF Init, BaseInv, TypeOK, WellFormed, UsedIds, NoLeakedEntry, Request, Idle, PCs, Schedulers

LEMMA ProcTyped == BaseInv => \A p \in Procs : proc[p] \in Request
  BY DEF BaseInv, TypeOK

LEMMA StoredTyped == \A s \in Subs, r \in Row : Stored(s, r) \in Row
  BY DEF Stored, GormCreated, Row

LEMMA StartTyped ==
  ASSUME BaseInv, NEW p \in Procs, NEW s \in Subs, NEW kind \in Kinds, NEW pc \in PCs,
         NEW copy \in Row \cup {None}, Start(p, s, kind, pc, copy)
  PROVE  /\ proc' \in [Procs -> Request]
         /\ proc'[p] = [kind |-> kind, pc |-> pc, sub |-> s, copy |-> copy, batch |-> None, done |-> 0]
         /\ \A q \in Procs \ {p} : proc'[q] = proc[q]
  BY DEF BaseInv, TypeOK, Start, Request, Idle

LEMMA FinishTyped ==
  ASSUME BaseInv, NEW p \in Procs, Finish(p)
  PROVE  /\ proc' \in [Procs -> Request]
         /\ proc'[p] = Idle
         /\ \A q \in Procs \ {p} : proc'[q] = proc[q]
  BY DEF BaseInv, TypeOK, Finish, Request, Idle, PCs

LEMMA GotoTyped ==
  ASSUME BaseInv, NEW p \in Procs, NEW pc \in PCs, Goto(p, pc)
  PROVE  /\ proc' \in [Procs -> Request]
         /\ proc'[p] = [proc[p] EXCEPT !.pc = pc]
         /\ \A q \in Procs \ {p} : proc'[q] = proc[q]
  BY DEF BaseInv, TypeOK, Goto, Request

LEMMA EditTyped ==
  ASSUME BaseInv, NEW p \in Procs, NEW r \in Request, proc' = [proc EXCEPT ![p] = r]
  PROVE  /\ proc' \in [Procs -> Request]
         /\ proc'[p] = r
         /\ \A q \in Procs \ {p} : proc'[q] = proc[q]
  BY DEF BaseInv, TypeOK

THEOREM StepBase == BaseInv /\ [Next]_vars => BaseInv'
<1> SUFFICES ASSUME BaseInv, [Next]_vars PROVE BaseInv'
  OBVIOUS
<1> USE SubscriptionsAssumption DEF BaseInv
<1>1. ASSUME NEW p \in Clients, NEW s \in Subs, NEW c \in Confs, NEW e \in BOOLEAN,
             CreateSubscription(p, s, c, e)
      PROVE  BaseInv'
  <2> DEFINE r == [conf |-> c, enabled |-> GormCreated(e), fetched |-> None]
  <2>1. p \in Procs /\ r \in Row
    BY DEF Procs, Row, GormCreated
  <2>2. Start(p, s, "create", "schedule", r) /\ "create" \in Kinds /\ "schedule" \in PCs
    BY <1>1 DEF CreateSubscription, Kinds, PCs
  <2> HIDE DEF r
  <2>3. /\ proc' \in [Procs -> Request]
        /\ proc'[p] = [kind |-> "create", pc |-> "schedule", sub |-> s, copy |-> r, batch |-> None, done |-> 0]
        /\ \A q \in Procs \ {p} : proc'[q] = proc[q]
    BY <2>1, <2>2, StartTyped
  <2>4. /\ row' = [row EXCEPT ![s] = r] /\ life' = [life EXCEPT ![s] = "used"]
        /\ acked' = [acked EXCEPT ![s] = SettingsOf(r)]
        /\ UNCHANGED <<nodes, cronJobs, entries, scheduler>>
    BY <1>1 DEF CreateSubscription, Save, r
  <2>5. TypeOK'
    BY <2>1, <2>3, <2>4 DEF TypeOK, SettingsOf, Settings, Row
  <2>6. WellFormed'
    BY <2>1, <2>3, <2>4 DEF WellFormed, TypeOK
  <2>7. UsedIds'
    BY <2>4 DEF UsedIds, TypeOK
  <2>8. NoLeakedEntry'
    BY <2>4 DEF NoLeakedEntry
  <2> QED BY <2>5, <2>6, <2>7, <2>8
<1>2. ASSUME NEW p \in Clients, NEW s \in Subs, UpdateRead(p, s) PROVE BaseInv'
  <2>1. p \in Procs /\ Start(p, s, "update", "save", row[s]) /\ "update" \in Kinds /\ "save" \in PCs /\ row[s] \in Row
    BY <1>2 DEF UpdateRead, Procs, Kinds, PCs, TypeOK
  <2>2. UNCHANGED <<row, nodes, cronJobs, entries, scheduler, life, acked>>
    BY <1>2 DEF UpdateRead
  <2>3. /\ proc' \in [Procs -> Request]
        /\ proc'[p] = [kind |-> "update", pc |-> "save", sub |-> s, copy |-> row[s], batch |-> None, done |-> 0]
        /\ \A q \in Procs \ {p} : proc'[q] = proc[q]
    BY <2>1, StartTyped
  <2> QED BY <1>2, <2>1, <2>2, <2>3 DEF TypeOK, WellFormed, UsedIds, NoLeakedEntry, UpdateRead
<1>3. ASSUME NEW p \in Clients, NEW s \in Subs, DeleteNodes(p, s) PROVE BaseInv'
  <2>1. p \in Procs /\ Start(p, s, "delete", "delrow", None) /\ "delete" \in Kinds /\ "delrow" \in PCs
    BY <1>3 DEF DeleteNodes, Procs, Kinds, PCs
  <2>2. life[s] # "unused" /\ nodes' \in [Subs -> SUBSET Node] /\ UNCHANGED <<row, cronJobs, entries, scheduler, life, acked>>
    BY <1>3 DEF DeleteNodes, TypeOK
  <2>3. /\ proc' \in [Procs -> Request]
        /\ proc'[p] = [kind |-> "delete", pc |-> "delrow", sub |-> s, copy |-> None, batch |-> None, done |-> 0]
        /\ \A q \in Procs \ {p} : proc'[q] = proc[q]
    BY <2>1, StartTyped
  <2> QED BY <2>1, <2>2, <2>3 DEF TypeOK, WellFormed, UsedIds, NoLeakedEntry
<1>4. ASSUME NEW p \in Clients, NEW s \in Subs, RefreshSubscription(p, s) PROVE BaseInv'
  <2>1. p \in Procs /\ Start(p, s, "refresh", "fetch", row[s]) /\ "refresh" \in Kinds /\ "fetch" \in PCs /\ row[s] \in Row
    BY <1>4 DEF RefreshSubscription, Procs, Kinds, PCs, TypeOK
  <2>2. UNCHANGED <<row, nodes, cronJobs, entries, scheduler, life, acked>>
    BY <1>4 DEF RefreshSubscription
  <2>3. /\ proc' \in [Procs -> Request]
        /\ proc'[p] = [kind |-> "refresh", pc |-> "fetch", sub |-> s, copy |-> row[s], batch |-> None, done |-> 0]
        /\ \A q \in Procs \ {p} : proc'[q] = proc[q]
    BY <2>1, StartTyped
  <2> QED BY <1>4, <2>1, <2>2, <2>3 DEF TypeOK, WellFormed, UsedIds, NoLeakedEntry, RefreshSubscription
<1>5. ASSUME NEW w \in Workers, NEW s \in Subs, CronFire(w, s) PROVE BaseInv'
  <2>1. w \in Procs /\ Start(w, s, "refresh", "read", None) /\ "refresh" \in Kinds /\ "read" \in PCs
    BY <1>5 DEF CronFire, Procs, Kinds, PCs
  <2>2. /\ UNCHANGED <<row, nodes, cronJobs, entries, scheduler, life, acked>>
        /\ life[s] # "unused"
    BY <1>5 DEF CronFire, UsedIds, NoLeakedEntry
  <2>3. /\ proc' \in [Procs -> Request]
        /\ proc'[w] = [kind |-> "refresh", pc |-> "read", sub |-> s, copy |-> None, batch |-> None, done |-> 0]
        /\ \A q \in Procs \ {w} : proc'[q] = proc[q]
    BY <2>1, StartTyped
  <2> QED BY <1>5, <2>1, <2>2, <2>3 DEF TypeOK, WellFormed, UsedIds, NoLeakedEntry
<1>6. ASSUME NEW p \in Procs, NEW c \in Confs, NEW e \in BOOLEAN, UpdateSave(p, c, e) PROVE BaseInv'
  <2> DEFINE s == proc[p].sub
             r == Stored(s, [proc[p].copy EXCEPT !.conf = c, !.enabled = e])
  <2>1. s \in Subs /\ life[s] # "unused" /\ proc[p].copy \in Row /\ proc[p].kind = "update" /\ proc[p].pc = "save"
    BY <1>6 DEF UpdateSave, At, WellFormed
  <2>2. r \in Row
    <3>1. [proc[p].copy EXCEPT !.conf = c, !.enabled = e] \in Row
      BY <2>1 DEF Row
    <3> QED BY <2>1, <3>1, StoredTyped
  <2>3. /\ row' = [row EXCEPT ![s] = r] /\ acked' = [acked EXCEPT ![s] = SettingsOf(r)]
        /\ proc' = [proc EXCEPT ![p] = [@ EXCEPT !.pc = "schedule", !.copy = r]]
        /\ UNCHANGED <<nodes, cronJobs, entries, scheduler, life>>
    BY <1>6 DEF UpdateSave, Save
  <2> HIDE DEF r
  <2>9. [proc[p] EXCEPT !.pc = "schedule", !.copy = r] \in Request
    BY <2>2, ProcTyped DEF Request, PCs
  <2>4. /\ proc' \in [Procs -> Request]
        /\ proc'[p] = [proc[p] EXCEPT !.pc = "schedule", !.copy = r]
        /\ \A q \in Procs \ {p} : proc'[q] = proc[q]
    BY <2>9, <2>3, EditTyped DEF TypeOK
  <2>5. TypeOK'
    BY <2>1, <2>2, <2>3, <2>4 DEF TypeOK, SettingsOf, Settings, Row
  <2>6. WellFormed'
    BY <2>1, <2>2, <2>3, <2>4, ProcTyped DEF WellFormed, TypeOK, Request
  <2>7. UsedIds' /\ NoLeakedEntry'
    BY <2>1, <2>3 DEF UsedIds, NoLeakedEntry, TypeOK
  <2> QED BY <2>5, <2>6, <2>7
<1>7. ASSUME NEW p \in Procs, \/ UpdateFails(p) \/ DeleteFails(p) \/ FetchFails(p) PROVE BaseInv'
  <2>1. Finish(p) /\ UNCHANGED <<row, nodes, cronJobs, entries, scheduler, life, acked>>
    BY <1>7 DEF UpdateFails, DeleteFails, FetchFails
  <2>2. /\ proc' \in [Procs -> Request]
        /\ proc'[p] = Idle
        /\ \A q \in Procs \ {p} : proc'[q] = proc[q]
    BY <2>1, FinishTyped
  <2> QED BY <2>1, <2>2 DEF TypeOK, WellFormed, UsedIds, NoLeakedEntry, Idle
<1>8. ASSUME NEW p \in Procs, Reschedule(p) PROVE BaseInv'
  <2> DEFINE s == proc[p].sub
  <2>1. /\ s \in Subs /\ life[s] # "unused"
        /\ Finish(p) /\ ScheduleSubscription(s, proc[p].copy)
        /\ UNCHANGED <<row, nodes, scheduler, life, acked>>
    BY <1>8 DEF Reschedule, At, WellFormed
  <2>2. /\ proc' \in [Procs -> Request]
        /\ proc'[p] = Idle
        /\ \A q \in Procs \ {p} : proc'[q] = proc[q]
    BY <2>1, FinishTyped
  <2>3. /\ cronJobs' \subseteq Subs /\ cronJobs' \subseteq cronJobs \cup {s}
        /\ entries' \in [Subs -> Nat] /\ NoLeakedEntry'
    BY <2>1 DEF ScheduleSubscription, ScheduledEntries, TypeOK, NoLeakedEntry
  <2> QED BY <2>1, <2>2, <2>3 DEF TypeOK, WellFormed, UsedIds, Idle
<1>9. ASSUME NEW p \in Procs, DeleteRow(p) PROVE BaseInv'
  <2> DEFINE s == proc[p].sub
  <2>1. s \in Subs /\ proc[p].kind = "delete" /\ proc[p].pc = "delrow" /\ "unschedule" \in PCs
    BY <1>9 DEF DeleteRow, At, WellFormed, PCs
  <2>2. /\ row' = [row EXCEPT ![s] = None] /\ life' = [life EXCEPT ![s] = "deleted"]
        /\ acked' = [acked EXCEPT ![s] = None] /\ Goto(p, "unschedule")
        /\ UNCHANGED <<nodes, cronJobs, entries, scheduler>>
    BY <1>9 DEF DeleteRow, Save
  <2>3. /\ proc' \in [Procs -> Request]
        /\ proc'[p] = [proc[p] EXCEPT !.pc = "unschedule"]
        /\ \A q \in Procs \ {p} : proc'[q] = proc[q]
    BY <2>1, <2>2, GotoTyped
  <2>4. TypeOK'
    BY <2>1, <2>2, <2>3 DEF TypeOK
  <2>5. WellFormed'
    BY <2>1, <2>2, <2>3 DEF WellFormed, TypeOK, Request
  <2>6. UsedIds' /\ NoLeakedEntry'
    BY <2>1, <2>2 DEF UsedIds, NoLeakedEntry, TypeOK
  <2> QED BY <2>4, <2>5, <2>6
<1>10. ASSUME NEW p \in Procs, Unschedule(p) PROVE BaseInv'
  <2> DEFINE s == proc[p].sub
  <2>1. /\ s \in Subs
        /\ Finish(p) /\ UnscheduleSubscription(s)
        /\ UNCHANGED <<row, nodes, scheduler, life, acked>>
    BY <1>10 DEF Unschedule, At, WellFormed
  <2>2. /\ proc' \in [Procs -> Request]
        /\ proc'[p] = Idle
        /\ \A q \in Procs \ {p} : proc'[q] = proc[q]
    BY <2>1, FinishTyped
  <2>3. /\ cronJobs' \subseteq cronJobs
        /\ entries' \in [Subs -> Nat] /\ NoLeakedEntry'
    BY <2>1 DEF UnscheduleSubscription, TypeOK, NoLeakedEntry
  <2> QED BY <2>1, <2>2, <2>3 DEF TypeOK, WellFormed, UsedIds, Idle
<1>11. ASSUME NEW w \in Procs, CronRead(w) PROVE BaseInv'
  <2> DEFINE s == proc[w].sub
  <2>1. /\ s \in Subs /\ life[s] # "unused" /\ proc[w].kind = "refresh" /\ proc[w].pc = "read"
        /\ UNCHANGED <<row, nodes, cronJobs, entries, scheduler, life, acked>>
    BY <1>11 DEF CronRead, At, WellFormed
  <2>2. CASE Finish(w)
    <3>1. /\ proc' \in [Procs -> Request]
          /\ proc'[w] = Idle
          /\ \A q \in Procs \ {w} : proc'[q] = proc[q]
      BY <2>2, FinishTyped
    <3> QED BY <2>1, <3>1 DEF TypeOK, WellFormed, UsedIds, NoLeakedEntry, Idle
  <2>3. CASE row[s] # None /\ proc' = [proc EXCEPT ![w] = [@ EXCEPT !.pc = "fetch", !.copy = row[s]]]
    <3>1. row[s] \in Row
      BY <2>1, <2>3 DEF TypeOK
    <3>9. [proc[w] EXCEPT !.pc = "fetch", !.copy = row[s]] \in Request
      BY <3>1, ProcTyped DEF Request, PCs
    <3>2. /\ proc' \in [Procs -> Request]
          /\ proc'[w] = [proc[w] EXCEPT !.pc = "fetch", !.copy = row[s]]
          /\ \A q \in Procs \ {w} : proc'[q] = proc[q]
      BY <2>3, <3>9, EditTyped DEF TypeOK
    <3>3. TypeOK' /\ UsedIds' /\ NoLeakedEntry'
      BY <2>1, <3>2 DEF TypeOK, UsedIds, NoLeakedEntry
    <3>10. /\ proc'[w].pc = "fetch" /\ proc'[w].copy = row[s]
          /\ proc'[w].sub = s /\ proc'[w].kind = "refresh"
      BY <2>1, <3>2, ProcTyped DEF Request
    <3>4. WellFormed'
      <4> SUFFICES ASSUME NEW q \in Procs PROVE WellFormed!(q)'
        BY DEF WellFormed
      <4>1. CASE q = w
        BY <4>1, <2>1, <3>1, <3>10
      <4>2. CASE q # w
        BY <4>2, <2>1, <3>2 DEF WellFormed
      <4> QED BY <4>1, <4>2
    <3> QED BY <3>3, <3>4
  <2> QED BY <1>11, <2>2, <2>3 DEF CronRead
<1>12. ASSUME NEW p \in Procs, NEW f \in Fetches, NEW size \in Results, Fetch(p, f, size) PROVE BaseInv'
  <2> DEFINE b == [id |-> f, size |-> size]
  <2>1. /\ b \in Batch
        /\ proc[p].sub \in Subs /\ life[proc[p].sub] # "unused"
        /\ proc[p].copy \in Row /\ proc[p].kind = "refresh" /\ proc[p].pc = "fetch"
        /\ UNCHANGED <<row, nodes, cronJobs, entries, scheduler, life, acked>>
    BY <1>12 DEF Fetch, At, WellFormed, Batch
  <2>2. proc' = [proc EXCEPT ![p] = [@ EXCEPT !.pc = "clear", !.batch = b]]
    BY <1>12 DEF Fetch
  <2> HIDE DEF b
  <2>9. [proc[p] EXCEPT !.pc = "clear", !.batch = b] \in Request
    BY <2>1, ProcTyped DEF Request, PCs
  <2>3. /\ proc' \in [Procs -> Request]
        /\ proc'[p] = [proc[p] EXCEPT !.pc = "clear", !.batch = b]
        /\ \A q \in Procs \ {p} : proc'[q] = proc[q]
    BY <2>9, <2>2, EditTyped DEF TypeOK
  <2>4. TypeOK' /\ UsedIds' /\ NoLeakedEntry'
    BY <2>1, <2>3 DEF TypeOK, UsedIds, NoLeakedEntry
  <2>10. /\ proc'[p].pc = "clear" /\ proc'[p].batch = b /\ proc'[p].copy = proc[p].copy
        /\ proc'[p].sub = proc[p].sub /\ proc'[p].kind = "refresh"
    BY <2>1, <2>3, ProcTyped DEF Request
  <2>5. WellFormed'
    <3> SUFFICES ASSUME NEW q \in Procs PROVE WellFormed!(q)'
      BY DEF WellFormed
    <3>1. CASE q = p
      BY <3>1, <2>1, <2>10
    <3>2. CASE q # p
      BY <3>2, <2>1, <2>3 DEF WellFormed
    <3> QED BY <3>1, <3>2
  <2> QED BY <2>4, <2>5
<1>13. ASSUME NEW p \in Procs, ClearNodes(p) PROVE BaseInv'
  <2>1. /\ proc[p].kind = "refresh" /\ proc[p].pc = "clear" /\ "store" \in PCs
        /\ proc[p].sub \in Subs /\ life[proc[p].sub] # "unused"
        /\ proc[p].copy \in Row /\ proc[p].batch \in Batch
    BY <1>13 DEF ClearNodes, At, WellFormed, PCs
  <2>2. /\ Goto(p, "store") /\ nodes' \in [Subs -> SUBSET Node]
        /\ UNCHANGED <<row, cronJobs, entries, scheduler, life, acked>>
    BY <1>13 DEF ClearNodes, TypeOK
  <2>3. /\ proc' \in [Procs -> Request]
        /\ proc'[p] = [proc[p] EXCEPT !.pc = "store"]
        /\ \A q \in Procs \ {p} : proc'[q] = proc[q]
    BY <2>1, <2>2, GotoTyped
  <2>4. TypeOK' /\ UsedIds' /\ NoLeakedEntry'
    BY <2>2, <2>3 DEF TypeOK, UsedIds, NoLeakedEntry
  <2>5. WellFormed'
    BY <2>1, <2>2, <2>3 DEF WellFormed, TypeOK, Request
  <2> QED BY <2>4, <2>5
<1>14. ASSUME NEW p \in Procs, StoreNode(p) PROVE BaseInv'
  <2> DEFINE s == proc[p].sub
             n == [batch |-> proc[p].batch, index |-> proc[p].done + 1]
  <2>1. /\ proc[p].kind = "refresh" /\ proc[p].pc = "store"
        /\ s \in Subs /\ life[s] # "unused"
        /\ proc[p].copy \in Row /\ proc[p].batch \in Batch /\ proc[p].done \in Nat
    BY <1>14 DEF StoreNode, At, WellFormed, TypeOK, Request
  <2>2. n \in Node
    BY <2>1 DEF Node
  <2> HIDE DEF n
  <2>3. /\ nodes' \in [Subs -> SUBSET Node]
        /\ UNCHANGED <<row, cronJobs, entries, scheduler, life, acked>>
    BY <1>14, <2>1, <2>2 DEF StoreNode, TypeOK, n
  <2>4. /\ proc' \in [Procs -> Request]
        /\ proc'[p] = [proc[p] EXCEPT !.done = @ + 1]
        /\ \A q \in Procs \ {p} : proc'[q] = proc[q]
    BY <1>14, <2>1 DEF StoreNode, TypeOK, Request
  <2>5. TypeOK' /\ UsedIds' /\ NoLeakedEntry'
    BY <2>3, <2>4 DEF TypeOK, UsedIds, NoLeakedEntry
  <2>6. WellFormed'
    BY <2>1, <2>3, <2>4 DEF WellFormed, TypeOK, Request
  <2> QED BY <2>5, <2>6
<1>15. ASSUME NEW p \in Procs, SaveMeta(p) PROVE BaseInv'
  <2> DEFINE s == proc[p].sub
             r == Stored(s, [proc[p].copy EXCEPT !.fetched = proc[p].batch])
  <2>1. /\ s \in Subs /\ life[s] # "unused"
        /\ proc[p].copy \in Row /\ proc[p].batch \in Batch
        /\ Finish(p) /\ UNCHANGED <<nodes, cronJobs, entries, scheduler, life, acked>>
    BY <1>15 DEF SaveMeta, At, WellFormed
  <2>2. r \in Row
    <3>1. [proc[p].copy EXCEPT !.fetched = proc[p].batch] \in Row
      BY <2>1 DEF Row
    <3> QED BY <2>1, <3>1, StoredTyped
  <2> HIDE DEF r
  <2>3. row' = [row EXCEPT ![s] = r] \/ row' = row
    BY <1>15 DEF SaveMeta, Save, r
  <2>4. /\ proc' \in [Procs -> Request]
        /\ proc'[p] = Idle
        /\ \A q \in Procs \ {p} : proc'[q] = proc[q]
    BY <2>1, FinishTyped
  <2>5. TypeOK' /\ UsedIds' /\ NoLeakedEntry'
    BY <2>1, <2>2, <2>3, <2>4 DEF TypeOK, UsedIds, NoLeakedEntry
  <2>6. WellFormed'
    BY <2>1, <2>4 DEF WellFormed, TypeOK, Idle
  <2> QED BY <2>5, <2>6
<1>16. ASSUME Restart PROVE BaseInv'
  <2>1. proc' = [p \in Procs |-> Idle] /\ UNCHANGED <<row, nodes, life, acked>> /\ InitCron(row)
    BY <1>16 DEF Restart
  <2>2. proc' \in [Procs -> Request]
    BY <2>1 DEF Request, Idle, PCs
  <2>3. /\ cronJobs' \subseteq {s \in Subs : row[s] # None} /\ scheduler' \in Schedulers
        /\ entries' \in [Subs -> Nat] /\ NoLeakedEntry'
    <3> DEFINE runs(s) == ShouldRun(row[s])
    <3>1. CASE /\ cronJobs' = {s \in Subs : runs(s)}
               /\ entries' = [s \in Subs |-> IF runs(s) THEN 1 ELSE 0]
               /\ scheduler' = Another
      <4>1. \A s \in Subs : runs(s) => row[s] # None
        BY DEF ShouldRun
      <4> HIDE DEF runs
      <4> QED BY <3>1, <4>1 DEF NoLeakedEntry, Another, Schedulers
    <3>2. CASE cronJobs' = {} /\ entries' = [s \in Subs |-> 0] /\ scheduler' = "none"
      BY <3>2 DEF NoLeakedEntry, Schedulers
    <3> QED BY <2>1, <3>1, <3>2 DEF InitCron
  <2> QED BY <2>1, <2>2, <2>3 DEF TypeOK, WellFormed, UsedIds, Idle
<1>17. CASE UNCHANGED vars
  BY <1>17 DEF vars, TypeOK, WellFormed, UsedIds, NoLeakedEntry
<1> QED
  BY <1>1, <1>2, <1>3, <1>4, <1>5, <1>6, <1>7, <1>8, <1>9, <1>10, <1>11, <1>12, <1>13, <1>14, <1>15,
     <1>16, <1>17
  DEF Next, Arrive, Continue

THEOREM BaseInvariant == Spec => []BaseInv
  BY InitBase, StepBase, PTL DEF Spec

\* Every variable keeps its type, whatever overlaps, fails or crashes.
THEOREM TypeCorrect == Spec => []TypeOK
  BY BaseInvariant, PTL DEF BaseInv

\* No scheduler entry is ever leaked: cronJobs and the scheduler agree
\* under every interleaving, failure and restart.
THEOREM EntriesNeverLeak == Spec => []NoLeakedEntry
  BY BaseInvariant, PTL DEF BaseInv

-----------------------------------------------------------------------------
(* DeletionIsFinal.                                                        *)

\* The points of a handler at which it holds no copy of a row.
LEMMA NoCopyPoints ==
  ASSUME BaseInv, NEW p \in Procs, proc[p].copy = None
  PROVE  proc[p].pc \in {"idle", "delrow", "unschedule", "read"}
  BY SubscriptionsAssumption DEF BaseInv, TypeOK, WellFormed, Request, PCs

LEMMA StepSettled ==
  ASSUME BaseInv, [Next]_vars, NEW s \in Subs, Settled(s)
  PROVE  Settled(s)'
<1> USE SubscriptionsAssumption
<1>1. /\ life[s] = "deleted" /\ row[s] = None /\ nodes[s] = {} /\ s \notin cronJobs
      /\ \A p \in Procs : proc[p].sub = s => proc[p].copy = None
  BY DEF Settled
<1>2. \A p \in Procs : proc[p].pc \notin {"idle", "delrow", "unschedule", "read"} => proc[p].sub # s
  BY <1>1, NoCopyPoints
<1>3. TypeOK
  BY DEF BaseInv
<1>4. ASSUME NEW p \in Clients, NEW t \in Subs, NEW c \in Confs, NEW e \in BOOLEAN,
             CreateSubscription(p, t, c, e)
      PROVE  Settled(s)'
  BY <1>1, <1>3, <1>4 DEF CreateSubscription, Save, Start, Idle, Settled, TypeOK
<1>5. ASSUME NEW p \in Clients, NEW t \in Subs, UpdateRead(p, t) \/ RefreshSubscription(p, t)
      PROVE  Settled(s)'
  <2>1. /\ t # s /\ p \in Procs
        /\ UNCHANGED <<row, nodes, cronJobs, entries, scheduler, life, acked>>
        /\ \E kind \in {"update", "refresh"}, pc \in {"save", "fetch"} : Start(p, t, kind, pc, row[t])
    BY <1>1, <1>5 DEF UpdateRead, RefreshSubscription, Procs
  <2>2. /\ \A q \in Procs \ {p} : proc'[q] = proc[q]
        /\ proc'[p].sub = t
    BY <1>3, <2>1 DEF Start, Idle, TypeOK
  <2> QED BY <1>1, <2>1, <2>2 DEF Settled
<1>6. ASSUME NEW p \in Clients, NEW t \in Subs, DeleteNodes(p, t) PROVE Settled(s)'
  BY <1>1, <1>3, <1>6 DEF DeleteNodes, Start, Idle, Settled, TypeOK
<1>7. ASSUME NEW w \in Workers, NEW t \in Subs, CronFire(w, t) PROVE Settled(s)'
  BY <1>1, <1>3, <1>7 DEF CronFire, Start, Idle, Settled, TypeOK
<1>8. ASSUME NEW p \in Procs, NEW c \in Confs, NEW e \in BOOLEAN, UpdateSave(p, c, e)
      PROVE  Settled(s)'
  <2>1. proc[p].sub # s
    BY <1>2, <1>8 DEF UpdateSave, At
  <2>2. /\ \A q \in Procs \ {p} : proc'[q] = proc[q]
        /\ proc'[p].sub = proc[p].sub
    BY <1>3, <1>8, ProcTyped DEF UpdateSave, TypeOK, Request
  <2>3. row'[s] = row[s] /\ UNCHANGED <<nodes, cronJobs, life>>
    BY <1>3, <1>8, <2>1 DEF UpdateSave, Save, TypeOK
  <2> QED BY <1>1, <2>1, <2>2, <2>3 DEF Settled
<1>9. ASSUME NEW p \in Procs, UpdateFails(p) \/ DeleteFails(p) \/ FetchFails(p) PROVE Settled(s)'
  <2>1. Finish(p) /\ UNCHANGED <<row, nodes, cronJobs, life>>
    BY <1>9 DEF UpdateFails, DeleteFails, FetchFails
  <2>2. proc'[p] = Idle /\ \A q \in Procs \ {p} : proc'[q] = proc[q]
    BY <2>1, FinishTyped
  <2> QED BY <1>1, <2>1, <2>2 DEF Settled, Idle
<1>10. ASSUME NEW p \in Procs, Reschedule(p) PROVE Settled(s)'
  <2>1. proc[p].sub # s
    BY <1>2, <1>10 DEF Reschedule, At
  <2> QED BY <1>1, <1>3, <1>10, <2>1
          DEF Reschedule, ScheduleSubscription, Finish, Idle, Settled, TypeOK
<1>11. ASSUME NEW p \in Procs, DeleteRow(p) PROVE Settled(s)'
  BY <1>1, <1>3, <1>11 DEF DeleteRow, Save, Goto, Settled, TypeOK, Request
<1>12. ASSUME NEW p \in Procs, Unschedule(p) PROVE Settled(s)'
  BY <1>1, <1>3, <1>12 DEF Unschedule, UnscheduleSubscription, Finish, Idle, Settled, TypeOK
<1>13. ASSUME NEW w \in Procs, CronRead(w) PROVE Settled(s)'
  <2>1. CASE proc[w].sub = s
    BY <1>1, <1>3, <1>13, <2>1 DEF CronRead, Finish, Idle, Settled, TypeOK
  <2>2. CASE proc[w].sub # s
    <3> DEFINE r == row[proc[w].sub]
    <3>1. \/ proc' = [proc EXCEPT ![w] = Idle]
          \/ proc' = [proc EXCEPT ![w] = [@ EXCEPT !.pc = "fetch", !.copy = r]]
      BY <1>13 DEF CronRead, Finish
    <3>2. \A q \in Procs \ {w} : proc'[q] = proc[q]
      BY <1>3, <3>1 DEF TypeOK
    <3>3. proc'[w] = Idle \/ proc'[w] = [proc[w] EXCEPT !.pc = "fetch", !.copy = r]
      BY <1>3, <3>1 DEF TypeOK
    <3> HIDE DEF r
    <3>4. CASE proc'[w] = Idle
      BY <1>1, <1>13, <2>2, <3>2, <3>4 DEF CronRead, Settled, Idle
    <3>5. CASE proc'[w] = [proc[w] EXCEPT !.pc = "fetch", !.copy = r]
      <4>1. proc[w] \in Request
        BY ProcTyped
      <4>2. proc'[w].sub = proc[w].sub
        BY <3>5, <4>1 DEF Request
      <4> QED BY <1>1, <1>13, <2>2, <3>2, <4>2 DEF CronRead, Settled
    <3> QED BY <3>3, <3>4, <3>5
  <2> QED BY <2>1, <2>2
<1>14. ASSUME NEW p \in Procs, NEW f \in Fetches, NEW size \in Results, Fetch(p, f, size)
       PROVE  Settled(s)'
  <2>1. proc[p].sub # s
    BY <1>2, <1>14 DEF Fetch, At
  <2> QED BY <1>1, <1>3, <1>14, <2>1 DEF Fetch, Settled, TypeOK, Request
<1>15. ASSUME NEW p \in Procs, ClearNodes(p) \/ StoreNode(p) PROVE Settled(s)'
  <2>1. proc[p].sub # s
    BY <1>2, <1>15 DEF ClearNodes, StoreNode, At
  <2>2. \/ proc' = [proc EXCEPT ![p].pc = "store"]
        \/ proc' = [proc EXCEPT ![p].done = @ + 1]
    BY <1>15 DEF ClearNodes, StoreNode, Goto
  <2>4. /\ \A q \in Procs \ {p} : proc'[q] = proc[q]
        /\ proc'[p].sub = proc[p].sub
    BY <1>3, <2>2, ProcTyped DEF TypeOK, Request
  <2>3. nodes'[s] = nodes[s] /\ UNCHANGED <<row, cronJobs, life>>
    BY <1>3, <1>15, <2>1 DEF ClearNodes, StoreNode, TypeOK
  <2> QED BY <1>1, <2>1, <2>3, <2>4 DEF Settled
<1>16. ASSUME NEW p \in Procs, SaveMeta(p) PROVE Settled(s)'
  <2>1. proc[p].sub # s
    BY <1>2, <1>16 DEF SaveMeta, At
  <2> QED BY <1>1, <1>3, <1>16, <2>1 DEF SaveMeta, Save, Finish, Idle, Settled, TypeOK
<1>17. CASE Restart
  BY <1>1, <1>3, <1>17 DEF Restart, InitCron, ShouldRun, Idle, Settled, TypeOK
<1>18. CASE UNCHANGED vars
  BY <1>1, <1>18 DEF vars, Settled
<1> QED
  BY <1>4, <1>5, <1>6, <1>7, <1>8, <1>9, <1>10, <1>11, <1>12, <1>13, <1>14, <1>15, <1>16, <1>17, <1>18
  DEF Next, Arrive, Continue

\* A deletion is final once the requests that read the row before it have
\* ended, whatever else overlaps, fails or crashes.
THEOREM DeletionsAreFinal == Spec => DeletionIsFinal
<1>1. BaseInv /\ [Next]_vars => [\A s \in Subs : Settled(s) => Settled(s)']_vars
  BY StepSettled
<1> QED BY <1>1, BaseInvariant, PTL DEF Spec, DeletionIsFinal
=============================================================================
