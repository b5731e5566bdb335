--------------------------- MODULE RefreshesProofs ---------------------------
(***************************************************************************)
(* Proofs about Refreshes, for any number of runs, any intervals, timeout  *)
(* and width of a duration.                                                *)
(***************************************************************************)
EXTENDS Refreshes, TLAPS

-----------------------------------------------------------------------------
(* The arithmetic.                                                         *)

\* A number that fits is not wrapped.
LEMMA WrappedFits ==
  ASSUME NEW n \in Nat, n < Half
  PROVE  Wrapped(n) = n
<1>1. \A a \in Nat, b \in Nat \ {0} : a < b => a % b = a
  OBVIOUS
<1>2. n + Half \in Nat /\ 2 * Half \in Nat \ {0} /\ n + Half < 2 * Half
  BY RefreshesAssumption
<1>3. (n + Half) % (2 * Half) = n + Half
  BY <1>1, <1>2
<1> QED BY <1>2, <1>3, RefreshesAssumption DEF Wrapped

\* Multiplying by a factor and dividing by it again.
LEMMA Cancel ==
  ASSUME NEW a \in Nat, NEW b \in Nat \ {0}
  PROVE  (a * b) \div b = a
  OBVIOUS

LEMMA CancelPart ==
  ASSUME NEW a \in Nat, NEW b \in Nat \ {0}, NEW k \in Nat \ {0}
  PROVE  (a * b) \div (k * b) = a \div k
  OBVIOUS

\* Hours, minutes and seconds make up the seconds they were taken from.
LEMMA FormatWhole ==
  ASSUME NEW secs \in Nat
  PROVE  formatDuration(secs * Nanos) = secs
<1> DEFINE h == secs \div 3600
           m == secs \div 60
<1>1. secs * Nanos \in Nat /\ 3600 * Nanos \in Nat \ {0} /\ 60 * Nanos \in Nat \ {0}
  BY RefreshesAssumption
<1>2. /\ Quotient(secs * Nanos, 3600 * Nanos) = h
      /\ Quotient(secs * Nanos, 60 * Nanos) = m
      /\ Quotient(secs * Nanos, Nanos) = secs
  BY <1>1, Cancel, CancelPart, RefreshesAssumption DEF Quotient
<1>3. /\ Remainder(m, 60) = m - 60 * (m \div 60)
      /\ Remainder(secs, 60) = secs - 60 * (secs \div 60)
  BY DEF Remainder, Quotient
<1>4. m \div 60 = h
  OBVIOUS
<1>5. /\ h > 0 => 3600 * h + 60 * (m - 60 * (m \div 60)) + (secs - 60 * (secs \div 60)) = secs
      /\ ~(h > 0) /\ m - 60 * (m \div 60) > 0 =>
           60 * (m - 60 * (m \div 60)) + (secs - 60 * (secs \div 60)) = secs
      /\ ~(h > 0) /\ ~(m - 60 * (m \div 60) > 0) => secs - 60 * (secs \div 60) = secs
  BY <1>4
<1> QED BY <1>2, <1>3, <1>5 DEF formatDuration

LEMMA PeriodFits ==
  ASSUME NEW secs \in Nat \ {0}, secs * Nanos < Half
  PROVE  CronPeriod(secs) = secs
<1>1. secs * Nanos \in Nat
  BY RefreshesAssumption
<1>2. Wrapped(secs * Nanos) = secs * Nanos
  BY <1>1, WrappedFits
<1>3. everySeconds(secs) = secs
  BY <1>2, FormatWhole DEF everySeconds
<1> QED BY <1>3 DEF CronPeriod, Every

LEMMA QuotientInt ==
  ASSUME NEW a \in Int, NEW b \in Nat \ {0}
  PROVE  Quotient(a, b) \in Int
<1>1. a \div b \in Int /\ (-a) \div b \in Int
  OBVIOUS
<1> QED BY <1>1 DEF Quotient

LEMMA PeriodTyped ==
  ASSUME NEW secs \in Int
  PROVE  CronPeriod(secs) \in Nat \ {0}
<1>1. secs * Nanos \in Int /\ 3600 * Nanos \in Nat \ {0} /\ 60 * Nanos \in Nat \ {0}
  BY RefreshesAssumption
<1>2. Wrapped(secs * Nanos) \in Int
  <2>1. \A n \in Int, k \in Nat \ {0} : n % k \in Int
    OBVIOUS
  <2>2. secs * Nanos + Half \in Int /\ 2 * Half \in Nat \ {0}
    BY <1>1, RefreshesAssumption
  <2>3. (secs * Nanos + Half) % (2 * Half) \in Int
    BY <2>1, <2>2
  <2> QED BY <2>3, RefreshesAssumption DEF Wrapped
<1>3. \A d \in Int : formatDuration(d) \in Int
  <2>1. SUFFICES ASSUME NEW d \in Int PROVE formatDuration(d) \in Int
    OBVIOUS
  <2>2. /\ Quotient(d, 3600 * Nanos) \in Int /\ Quotient(d, 60 * Nanos) \in Int
        /\ Quotient(d, Nanos) \in Int
    BY <1>1, QuotientInt, RefreshesAssumption
  <2>3. \A q \in Int : Remainder(q, 60) \in Int
    BY QuotientInt DEF Remainder
  <2> QED BY <2>2, <2>3 DEF formatDuration
<1>4. everySeconds(secs) \in Int
  BY <1>2, <1>3 DEF everySeconds
<1> QED BY <1>4 DEF CronPeriod, Every

-----------------------------------------------------------------------------
(* How long a run may still take.                                          *)

\* The pauses and attempts that may follow the n-th.
Rest(n) == IF n = 1 THEN 3 + 2 * Timeout ELSE IF n = 2 THEN 2 + Timeout ELSE 0

Remaining(x) ==
    CASE x.pc = "get"   -> x.left + Rest(x.attempt) + StoreTime
      [] x.pc = "pause" -> x.left + Timeout + Rest(x.attempt + 1) + StoreTime
      [] x.pc = "store" -> x.left

\* A run is over in time, and before the next tick of a long period.
InTime(x) ==
    /\ x.pc = "pause" => x.attempt < 3
    /\ Remaining(x) + x.age <= MaxDuration
    /\ scheduled /\ period > MaxDuration => Remaining(x) < wait

TimeInv ==
    /\ TypeOK
    /\ period = CronPeriod(interval)
    /\ \A r \in Runs : run[r] # None => InTime(run[r])

LEMMA RemainingTyped ==
  ASSUME NEW x \in Run
  PROVE  Remaining(x) \in Nat /\ x.age \in Nat /\ MaxDuration \in Nat
BY RefreshesAssumption DEF Run, Remaining, Rest, MaxDuration

\* What a run consists of.
LEMMA RunFields ==
  ASSUME NEW x \in Run
  PROVE  x.pc \in {"get", "pause", "store"} /\ x.attempt \in 1 .. 3 /\ x.left \in Nat /\ x.age \in Nat
BY DEF Run

\* A step of one run that takes it no further from its end.
LEMMA ContinueInTime ==
  ASSUME TimeInv, NEW r \in Runs, Continue(r)
  PROVE  TimeInv'
<1> USE RefreshesAssumption DEF TimeInv, TypeOK
<1>1. /\ run[r] # None /\ run[r] \in Run /\ InTime(run[r])
      /\ UNCHANGED <<interval, scheduled, period, wait>>
  BY DEF Continue, FetchOnce, Retry, GiveUp, Resume, Stored, At
<1>2. ASSUME NEW y \in Run \cup {None}, run' = [run EXCEPT ![r] = y],
             y # None => /\ y.pc = "pause" => y.attempt < 3
                         /\ Remaining(y) <= Remaining(run[r]) /\ y.age = run[r].age
      PROVE  TimeInv'
  <2>1. run' \in [Runs -> Run \cup {None}] /\ run'[r] = y
        /\ \A q \in Runs \ {r} : run'[q] = run[q]
    BY <1>2
  <2>2. y # None => InTime(run[r])'
    BY <1>1, <1>2, <2>1, RemainingTyped DEF InTime
  <2>3. ASSUME NEW q \in Runs \ {r}, run'[q] # None PROVE InTime(run[q])'
    BY <1>1, <2>1, <2>3 DEF InTime
  <2>4. \A q \in Runs : run'[q] # None => InTime(run[q])'
    BY <2>1, <2>2, <2>3
  <2> QED BY <1>1, <2>1, <2>4
<1>3. CASE GiveUp(r) \/ Stored(r)
  BY <1>2, <1>3 DEF GiveUp, Stored
<1>4. CASE FetchOnce(r)
  <2> DEFINE y == [run[r] EXCEPT !.pc = "store", !.left = StoreTime]
  <2>0. y \in Run /\ y.pc = "store" /\ y.left = StoreTime /\ y.age = run[r].age /\ run[r].pc = "get"
    BY <1>1, <1>4 DEF FetchOnce, At, Run
  <2> HIDE DEF y
  <2>1. y \in Run /\ Remaining(y) <= Remaining(run[r]) /\ y.age = run[r].age /\ y.pc # "pause"
    BY <1>1, <2>0, RunFields DEF Remaining, Rest
  <2>2. run' = [run EXCEPT ![r] = y]
    BY <1>4 DEF FetchOnce, y
  <2> QED BY <1>2, <2>1, <2>2
<1>5. CASE Retry(r)
  <2> DEFINE y == [run[r] EXCEPT !.pc = "pause", !.left = run[r].attempt]
  <2>1. run[r].attempt \in {1, 2} /\ Backoff[run[r].attempt] = run[r].attempt
    BY <1>1, <1>5 DEF Retry, Run, Backoff
  <2>0. /\ y \in Run /\ y.pc = "pause" /\ y.left = run[r].attempt /\ y.age = run[r].age
        /\ y.attempt = run[r].attempt /\ run[r].pc = "get"
    <3>1. run[r].pc = "get" /\ run[r].attempt \in Nat
      BY <1>5, <2>1 DEF Retry, At
    <3> QED BY <1>1, <3>1 DEF Run
  <2> HIDE DEF y
  <2>2. y \in Run /\ Remaining(y) <= Remaining(run[r]) /\ y.age = run[r].age /\ y.attempt < 3
    BY <1>1, <2>0, <2>1, RunFields DEF Remaining, Rest
  <2>3. run' = [run EXCEPT ![r] = y]
    BY <1>5, <2>1 DEF Retry, y
  <2> QED BY <1>2, <2>2, <2>3
<1>6. CASE Resume(r)
  <2> DEFINE y == [run[r] EXCEPT !.pc = "get", !.attempt = run[r].attempt + 1, !.left = Timeout]
  <2>1. run[r].pc = "pause" /\ run[r].left = 0 /\ run[r].attempt \in {1, 2}
    BY <1>1, <1>6 DEF Resume, At, InTime, Run
  <2>3. run' = [run EXCEPT ![r] = y]
    BY <1>6 DEF Resume
  <2>0. /\ y \in Run /\ y.pc = "get" /\ y.left = Timeout /\ y.age = run[r].age
        /\ y.attempt = run[r].attempt + 1
    <3>1. run[r].attempt + 1 \in 1 .. 3
      BY <2>1
    <3> QED BY <1>1, <3>1 DEF Run
  <2> HIDE DEF y
  <2>2. y \in Run /\ Remaining(y) <= Remaining(run[r]) /\ y.age = run[r].age /\ y.pc # "pause"
    BY <1>1, <2>0, <2>1, RunFields DEF Remaining, Rest
  <2> QED BY <1>2, <2>2, <2>3
<1> QED BY <1>3, <1>4, <1>5, <1>6 DEF Continue

LEMMA StepInTime ==
  ASSUME TimeInv, [Next]_vars
  PROVE  TimeInv'
<1> USE RefreshesAssumption DEF TimeInv, TypeOK
<1>1. CASE UNCHANGED vars
  BY <1>1 DEF vars, InTime
\* A new entry waits longer than any run goes on, if its period is that long.
<1>2. ASSUME NEW secs \in Nat \ {0}, NEW e \in BOOLEAN, ScheduleSubscription(secs, e),
             interval' = secs, run' = run \/ run' = [r \in Runs |-> None]
      PROVE  TimeInv'
  <2>1. period' \in Nat \ {0} /\ wait' = period' /\ period' = CronPeriod(interval') /\ scheduled' = e
    BY <1>2, PeriodTyped DEF ScheduleSubscription
  <2>2. run' \in [Runs -> Run \cup {None}]
    BY <1>2
  <2>3. ASSUME NEW r \in Runs, run'[r] # None PROVE InTime(run[r])'
    <3>1. run'[r] = run[r] /\ run[r] \in Run /\ InTime(run[r])
      BY <1>2, <2>3
    <3> QED BY <2>1, <3>1, RemainingTyped DEF InTime
  <2> QED BY <1>2, <2>1, <2>2, <2>3
<1>3. ASSUME NEW secs \in Intervals, NEW e \in BOOLEAN, UpdateSubscription(secs, e) PROVE TimeInv'
  BY <1>2, <1>3 DEF UpdateSubscription
<1>4. CASE Restart
  BY <1>2, <1>4 DEF Restart
<1>5. CASE CronFire
  <2> DEFINE y == [pc |-> "get", attempt |-> 1, left |-> Timeout, age |-> 0]
  <2>1. y \in Run /\ Remaining(y) = MaxDuration /\ y.age = 0 /\ y.pc # "pause"
    BY DEF Run, Remaining, Rest, MaxDuration
  <2>2. /\ scheduled /\ wait = 0 /\ wait' = period /\ UNCHANGED <<interval, scheduled, period>>
        /\ run' = run \/ \E r \in Runs : run' = [run EXCEPT ![r] = y]
    BY <1>5 DEF CronFire
  <2>3. run' \in [Runs -> Run \cup {None}] /\ \A r \in Runs : run'[r] \in {run[r], y}
    BY <2>1, <2>2
  <2>4. ASSUME NEW r \in Runs, run'[r] # None PROVE InTime(run[r])'
    <3>1. CASE run'[r] = y
      BY <2>1, <2>2, <3>1, RemainingTyped DEF InTime
    <3>2. CASE run'[r] = run[r]
      <4>1. run[r] \in Run /\ InTime(run[r])
        BY <2>4, <3>2
      <4>2. Remaining(run[r]) \in Nat /\ MaxDuration \in Nat
        BY <4>1, RemainingTyped
      <4> QED BY <2>2, <3>2, <4>1, <4>2 DEF InTime
    <3> QED BY <2>3, <3>1, <3>2
  <2> QED BY <2>2, <2>3, <2>4
<1>6. CASE Second
  <2>1. ASSUME NEW r \in Runs, run[r] # None
        PROVE  /\ run'[r] = [run[r] EXCEPT !.left = @ - 1, !.age = @ + 1]
               /\ run'[r] \in Run /\ Remaining(run'[r]) = Remaining(run[r]) - 1
               /\ run'[r].age = run[r].age + 1
               /\ run'[r].pc = run[r].pc /\ run'[r].attempt = run[r].attempt
    <3>1. run[r] \in Run /\ run[r].left > 0 /\ run'[r] = [run[r] EXCEPT !.left = @ - 1, !.age = @ + 1]
      BY <1>6, <2>1 DEF Second
    <3>2. /\ run'[r] \in Run /\ run'[r].age = run[r].age + 1 /\ run'[r].left = run[r].left - 1
          /\ run'[r].pc = run[r].pc /\ run'[r].attempt = run[r].attempt
      <4>1. run[r].left - 1 \in Nat /\ run[r].age + 1 \in Nat
        BY <3>1, RunFields
      <4> QED BY <3>1, <4>1 DEF Run
    <3>3. Remaining(run'[r]) = Remaining(run[r]) - 1
      BY <3>1, <3>2 DEF Run, Remaining, Rest
    <3> QED BY <3>1, <3>2, <3>3
  <2>2. \A r \in Runs : run[r] = None => run'[r] = None
    BY <1>6 DEF Second
  <2>3. run' \in [Runs -> Run \cup {None}]
    <3>1. run' = [r \in Runs |-> run'[r]]
      BY <1>6 DEF Second
    <3> QED BY <2>1, <2>2, <3>1
  <2>4. /\ wait' \in 0 .. period /\ UNCHANGED <<interval, scheduled, period>>
        /\ scheduled => wait' = wait - 1
    <3>1. CASE scheduled
      <4>1. wait' = wait - 1 /\ wait \in 0 .. period /\ wait > 0
        BY <1>6, <3>1 DEF Second
      <4>2. wait' \in 0 .. period
        <5>1. period \in Nat
          OBVIOUS
        <5> QED BY <4>1, <5>1
      <4>3. UNCHANGED <<interval, scheduled, period>>
        BY <1>6 DEF Second
      <4> QED BY <4>1, <4>2, <4>3
    <3>2. CASE ~scheduled
      BY <1>6, <3>2 DEF Second
    <3> QED BY <3>1, <3>2
  <2>5. ASSUME NEW r \in Runs, run'[r] # None PROVE InTime(run[r])'
    <3>1. run[r] # None /\ run[r] \in Run /\ InTime(run[r])
      BY <2>2, <2>5
    <3>2. Remaining(run[r]) \in Nat /\ run[r].age \in Nat /\ MaxDuration \in Nat
      BY <3>1, RemainingTyped
    <3> DEFINE x == run[r]
               y == run'[r]
    <3>3. /\ Remaining(y) = Remaining(x) - 1 /\ y.age = x.age + 1 /\ y.pc = x.pc /\ y.attempt = x.attempt
      BY <2>1, <3>1
    <3>4. y.pc = "pause" => y.attempt < 3
      BY <3>1, <3>3 DEF InTime
    <3>5. Remaining(y) + y.age <= MaxDuration
      BY <3>1, <3>2, <3>3 DEF InTime
    <3>6. ASSUME scheduled', period' > MaxDuration PROVE Remaining(y) < wait'
      <4>1. scheduled /\ period > MaxDuration
        BY <2>4, <3>6
      <4>2. Remaining(x) < wait
        BY <3>1, <4>1 DEF InTime
      <4>3. wait' = wait - 1 /\ wait \in Int
        BY <2>4, <4>1
      <4> QED BY <3>2, <3>3, <4>2, <4>3
    <3>7. MaxDuration' = MaxDuration /\ Remaining(run[r])' = Remaining(y)
      BY DEF MaxDuration, Remaining, Rest
    <3> QED BY <3>4, <3>5, <3>6, <3>7 DEF InTime
  <2> QED BY <2>3, <2>4, <2>5
<1> QED BY <1>1, <1>3, <1>4, <1>5, <1>6, ContinueInTime DEF Next

\* Runs and timer are typed, the entry has the period of the row, and every run
\* in flight ends before the next tick of a long period.
THEOREM TimesHold == Spec => []TimeInv
<1>1. Init => TimeInv
  <2> SUFFICES ASSUME Init PROVE TimeInv
    OBVIOUS
  <2>1. interval \in Nat \ {0}
    BY RefreshesAssumption DEF Init
  <2>2. period \in Nat \ {0}
    BY <2>1, PeriodTyped DEF Init
  <2> QED BY <2>1, <2>2 DEF Init, TimeInv, TypeOK
<1> QED BY <1>1, StepInTime, PTL DEF Spec

\* Interval, entry, timer and runs are typed.
THEOREM TypeCorrect == Spec => []TypeOK
BY TimesHold, PTL DEF TimeInv

\* No run of refreshSubByID lasts longer than three attempts, two pauses and
\* the statements take.
THEOREM RunsAreShort == Spec => []RunsAreBounded
<1>1. TimeInv => RunsAreBounded
  <2> SUFFICES ASSUME TimeInv, NEW r \in Runs, run[r] # None PROVE run[r].age <= MaxDuration
    BY DEF RunsAreBounded
  <2>1. run[r] \in Run /\ InTime(run[r])
    BY DEF TimeInv, TypeOK
  <2> QED BY <2>1, RemainingTyped DEF InTime
<1> QED BY <1>1, TimesHold, PTL

\* With a period longer than that no run of a job meets the next one.
THEOREM RunsNeverPileUp == Spec => []NoPileUp
<1>1. TimeInv => NoPileUp
  <2> SUFFICES ASSUME TimeInv, scheduled, wait = 0, period > MaxDuration, NEW r \in Runs, run[r] # None
               PROVE  FALSE
    BY DEF NoPileUp
  <2>1. run[r] \in Run /\ InTime(run[r])
    BY DEF TimeInv, TypeOK
  <2> QED BY <2>1, RemainingTyped DEF InTime
<1> QED BY <1>1, TimesHold, PTL

\* interval_secs is what the job runs at, to the second, for every interval a
\* time.Duration can hold.
THEOREM PeriodsAreAsAsked == Spec => []PeriodAsAsked
<1>1. TimeInv => PeriodAsAsked
  BY PeriodFits DEF TimeInv, TypeOK, PeriodAsAsked
<1> QED BY <1>1, TimesHold, PTL
=============================================================================
