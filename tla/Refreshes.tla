------------------------------ MODULE Refreshes ------------------------------
(***************************************************************************)
(* When the refreshes of one subscription without a cron expression run    *)
(* and how long they take: the period robfig/cron is given for             *)
(* interval_secs, the timer of the entry, and the attempts and pauses of   *)
(* each run.  Time passes in whole seconds.  The refreshes' effect on the  *)
(* tables is in Subscriptions.                                             *)
(*                                                                         *)
(* Sources: service/cron.go, service/sub_fetcher.go,                       *)
(* server/handler/subscription.go.                                         *)
(***************************************************************************)
EXTENDS Integers

CONSTANTS
    Runs,       \* goroutines the timer may have running at a time
    Intervals,  \* values of interval_secs that clients send
    Nanos,      \* units of a time.Duration in a second
    Half,       \* a time.Duration is in -Half .. Half - 1
    Timeout,    \* seconds the HTTP client gives one attempt
    StoreTime,  \* seconds the statements of a run take at most
    None

\* A run is fetching, pausing before the next attempt or storing.
Run == [pc : {"get", "pause", "store"}, attempt : 1 .. 3, left : Nat, age : Nat]

ASSUME RefreshesAssumption ==
    /\ Intervals \subseteq Int
    /\ Nanos \in Nat \ {0} /\ Half \in Nat \ {0}
    /\ Timeout \in Nat \ {0} /\ StoreTime \in Nat
    /\ None \notin Run

VARIABLES
    interval,   \* interval_secs of the row
    scheduled,  \* whether the scheduler has an entry: the row is enabled
    period,     \* the period of the entry
    wait,       \* seconds until it fires
    run         \* the refreshes in flight

vars == <<interval, scheduled, period, wait, run>>

-----------------------------------------------------------------------------
(* From interval_secs to a period.                                         *)

\* Go's division and remainder round towards zero, and int64 wraps.
Quotient(a, b) == IF a >= 0 THEN a \div b ELSE -((-a) \div b)
Remainder(a, b) == a - b * Quotient(a, b)
Wrapped(n) == ((n + Half) % (2 * Half)) - Half

\* The hours, minutes and seconds that are printed, read back as seconds.
\* Mutant: a duration of hours is printed without its seconds.
formatNoSeconds(d) ==
    LET hours == Quotient(d, 3600 * Nanos)
        minutes == Remainder(Quotient(d, 60 * Nanos), 60)
        seconds == Remainder(Quotient(d, Nanos), 60) IN
    IF hours > 0 THEN 3600 * hours + 60 * minutes
    ELSE IF minutes > 0 THEN 60 * minutes + seconds
    ELSE seconds

formatDuration(d) ==
    LET hours == Quotient(d, 3600 * Nanos)
        minutes == Remainder(Quotient(d, 60 * Nanos), 60)
        seconds == Remainder(Quotient(d, Nanos), 60) IN
    IF hours > 0 THEN 3600 * hours + 60 * minutes + seconds
    ELSE IF minutes > 0 THEN 60 * minutes + seconds
    ELSE seconds

everySeconds(secs) == formatDuration(Wrapped(secs * Nanos))

\* Mutant: a duration of less than a second is taken as it is.
EveryUnchecked(secs) == secs

\* robfig/cron's @every takes less than a second for a second.
Every(secs) == IF secs < 1 THEN 1 ELSE secs

CronPeriod(secs) == IF secs > 0 THEN Every(everySeconds(secs)) ELSE 3600

-----------------------------------------------------------------------------
(* The entry of the scheduler.                                             *)

\* Mutant: the new entry keeps the time the old one was to fire at.
ScheduleKeepsTimer(secs, enabled) ==
    /\ scheduled' = enabled
    /\ period' = CronPeriod(secs)
    /\ wait' = IF scheduled /\ wait < period' THEN wait ELSE period'

\* The old entry is removed and, if the row is enabled, a new one added, which
\* waits a whole period; runs that were started go on.
ScheduleSubscription(secs, enabled) ==
    /\ scheduled' = enabled
    /\ period' = CronPeriod(secs)
    /\ wait' = period'

\* An interval that is not positive is ignored.
UpdateSubscription(secs, enabled) ==
    /\ interval' = IF secs > 0 THEN secs ELSE interval
    /\ ScheduleSubscription(interval', enabled)
    /\ UNCHANGED run

\* A goroutine is started.  It ends at once if the row cannot be read; the
\* model also leaves out one that would exceed Runs.
CronFire ==
    /\ scheduled /\ wait = 0
    /\ wait' = period
    /\ \/ \E r \in Runs :
            /\ run[r] = None
            /\ run' = [run EXCEPT ![r] = [pc |-> "get", attempt |-> 1, left |-> Timeout, age |-> 0]]
       \/ UNCHANGED run
    /\ UNCHANGED <<interval, scheduled, period>>

\* InitCron: the timers start anew and the goroutines are gone.
Restart ==
    /\ run' = [r \in Runs |-> None]
    /\ ScheduleSubscription(interval, scheduled)
    /\ UNCHANGED interval

-----------------------------------------------------------------------------
(* A run: FetchSubscription, then the statements.                          *)

At(r, pc) == run[r] # None /\ run[r].pc = pc

\* Mutant: 1 << attempt.
BackoffTwice == <<2, 4>>

\* Seconds between one attempt and the next: 1 << (attempt - 1).
Backoff == <<1, 2>>

\* The answer comes before the client's timeout.  A page without nodes or with
\* a status other than 200 is an error like a connection that fails.
FetchOnce(r) ==
    /\ At(r, "get") /\ run[r].left > 0
    /\ run' = [run EXCEPT ![r] = [@ EXCEPT !.pc = "store", !.left = StoreTime]]
    /\ UNCHANGED <<interval, scheduled, period, wait>>

Retry(r) ==
    /\ At(r, "get")
    /\ run[r].attempt < 3
    /\ run' = [run EXCEPT ![r] = [@ EXCEPT !.pc = "pause", !.left = Backoff[run[r].attempt]]]
    /\ UNCHANGED <<interval, scheduled, period, wait>>

\* Mutant: the third attempt has no end but an answer.
GiveUpEarlier(r) ==
    /\ At(r, "get")
    /\ run[r].attempt < 3
    /\ run' = [run EXCEPT ![r] = None]
    /\ UNCHANGED <<interval, scheduled, period, wait>>

\* An error that is not retried, or the third one.
GiveUp(r) ==
    /\ At(r, "get")
    /\ run' = [run EXCEPT ![r] = None]
    /\ UNCHANGED <<interval, scheduled, period, wait>>

Resume(r) ==
    /\ At(r, "pause") /\ run[r].left = 0
    /\ run' = [run EXCEPT ![r] = [@ EXCEPT !.pc = "get", !.attempt = run[r].attempt + 1, !.left = Timeout]]
    /\ UNCHANGED <<interval, scheduled, period, wait>>

Stored(r) ==
    /\ At(r, "store")
    /\ run' = [run EXCEPT ![r] = None]
    /\ UNCHANGED <<interval, scheduled, period, wait>>

-----------------------------------------------------------------------------

\* A second passes: no entry is due, no attempt is out of time, no pause is
\* over and no statement is late.
Second ==
    /\ scheduled => wait > 0
    /\ \A r \in Runs : run[r] # None => run[r].left > 0
    /\ wait' = IF scheduled THEN wait - 1 ELSE wait
    /\ run' = [r \in Runs |-> IF run[r] = None THEN None
                               ELSE [run[r] EXCEPT !.left = @ - 1, !.age = @ + 1]]
    /\ UNCHANGED <<interval, scheduled, period>>

\* CreateSubscription takes 3600 for an interval that is not positive.
Init ==
    /\ interval \in {IF secs > 0 THEN secs ELSE 3600 : secs \in Intervals}
    /\ scheduled = TRUE
    /\ period = CronPeriod(interval)
    /\ wait = period
    /\ run = [r \in Runs |-> None]

Continue(r) == FetchOnce(r) \/ Retry(r) \/ GiveUp(r) \/ Resume(r) \/ Stored(r)

Next ==
    \/ \E secs \in Intervals, enabled \in BOOLEAN : UpdateSubscription(secs, enabled)
    \/ CronFire
    \/ \E r \in Runs : Continue(r)
    \/ Restart
    \/ Second

Spec == Init /\ [][Next]_vars

\* Time goes on, timers fire; an attempt, a pause and the statements end in time.
Fairness == WF_vars(Second) /\ WF_vars(CronFire) /\ \A r \in Runs : WF_vars(Continue(r))

FairSpec == Spec /\ Fairness

-----------------------------------------------------------------------------
(* Properties.                                                             *)

TypeOK ==
    /\ interval \in Nat \ {0}
    /\ scheduled \in BOOLEAN
    /\ period \in Nat \ {0}
    /\ wait \in 0 .. period
    /\ run \in [Runs -> Run \cup {None}]

\* Three attempts, the pauses of one and two seconds, and the statements.
MaxDuration == 3 * Timeout + 3 + StoreTime

\* A refresh is over within MaxDuration, whatever its source answers.
RunsAreBounded == \A r \in Runs : run[r] # None => run[r].age <= MaxDuration

\* A subscription with a longer period never has a tick while a run of an
\* earlier one goes on, across updates that change the period: the retries of
\* a source that is down do not pile up (the overlapping refreshes of
\* Subscriptions need a shorter period or a request).
NoPileUp ==
    scheduled /\ wait = 0 /\ period > MaxDuration => \A r \in Runs : run[r] = None

\* The period is the interval the client asked for, to the second, as long as
\* it fits a time.Duration (docs/API.md:211).
PeriodAsAsked == interval * Nanos < Half => period = interval

\* No run goes on forever: the periodic refresh never runs out of goroutines.
RunsEnd == \A r \in Runs : []<>(run[r] = None)
=============================================================================
