---------------------------- MODULE ApapiSampling ----------------------------
(***************************************************************************)
(* What libapapi makes of the numbers of one set of events.  A sample      *)
(* swaps the buffers, reads the counters, takes the time, repairs what has *)
(* wrapped, and folds the new samples into the statistics; the callback of *)
(* libms_common_apapi copies some of it to the fields of a measurement.    *)
(* Ratios are exact here; the code has long doubles.                       *)
(***************************************************************************)
EXTENDS Integers, Sequences, FiniteSets, FiniteSetsExt

CONSTANTS
  Event,
  OpsTable,        \* what the apapi_event_ops of the events may be
  Advances,        \* what a counter may advance in a unit of time
  Levels,          \* what a sensor may show
  MaxTime, Timers, \* bounds: the clock, the timers created for the set
  Softfail         \* APAPI_SOFTFAIL: a failed PAPI_read is ignored

ASSUME OpsAssumption ==
  \A ops \in OpsTable : \A e \in Event :
    /\ ops[e].op1 \in {"NOP", "SAMPLE_DIFF", "SAMPLE1_MUL_DIFF_TIME",
                       "AVG_SAMPLE_MUL_DIFF_TIME", "DIV_DIFF_TIME"}
    /\ ops[e].value0 \cup ops[e].value1 \subseteq {"MIN", "MAX", "AVG", "ACC"}
    /\ ops[e].max_sample \in Nat
\* default_eventops.csv: what is accumulated has an average of the other kind.
ASSUME ReportedAssumption ==
  \A ops \in OpsTable : \A e \in Event :
    /\ ops[e].op1 = "DIV_DIFF_TIME" => "ACC" \in ops[e].value0 /\ "AVG" \in ops[e].value1
    /\ ops[e].op1 = "SAMPLE1_MUL_DIFF_TIME" =>
         "AVG" \in ops[e].value0 /\ "ACC" \in ops[e].value1
ASSUME WorldAssumption ==
  Advances \subseteq Nat /\ Levels \subseteq Nat /\ MaxTime \in Nat /\ Timers \in Nat
ASSUME SoftfailAssumption == Softfail \in BOOLEAN

VARIABLES
  event_ops,       \* op1, value0, value1 and max_sample of every event
  clock,           \* the time
  hw,              \* what the hardware has counted, or shows
  timer,           \* where the timer of the set is, and how many it has had
  buffer,          \* counters and samples, two of each, and which are current
  stats,           \* values0, values1 and last_values1
  times,           \* current_time, previous_time, first_time and count
  map,             \* the buffer that the maps take the current samples from
  field,           \* the fields the callback writes
  series           \* history: the samples of this measurement

vars == <<event_ops, clock, hw, timer, buffer, stats, times, map, field, series>>

Accumulates(e) == event_ops[e].max_sample # 0

-----------------------------------------------------------------------------
(* Ratios, in lowest terms.  1 by 0 is above all others. *)

Ratio(n, d) ==
  LET m == Max({k \in 1 .. d : n % k = 0 /\ d % k = 0})
  IN IF d = 0 THEN <<1, 0>> ELSE <<n \div m, d \div m>>
Int2Ratio(n) == <<n, 1>>
Plus(a, b) == Ratio(a[1] * b[2] + b[1] * a[2], a[2] * b[2])
Times(a, b) == Ratio(a[1] * b[1], a[2] * b[2])
Less(a, b) == a[1] * b[2] < b[1] * a[2]
LDBL_MAX == <<1, 0>>

-----------------------------------------------------------------------------
(* _apapi_stats, _apapi_fix_overflow and _apapi_exec_op1. *)

Average(average, value, weight, last_total, new_total, count) ==
  IF count > 2 THEN Plus(Times(average, Ratio(last_total, new_total)),
                         Times(value, Ratio(weight, new_total)))
  ELSE value

Stats(asked, value, t, old) ==
  LET Asked(s, new) == IF s \in asked THEN new ELSE old[s]
  IN [ACC |-> Asked("ACC", Plus(old.ACC, value)),
      AVG |-> Asked("AVG", Average(old.AVG, value, t.current - t.previous,
                                   t.previous - t.first, t.current - t.first,
                                   t.count)),
      MIN |-> Asked("MIN", IF Less(value, old.MIN) THEN value ELSE old.MIN),
      MAX |-> Asked("MAX", IF Less(old.MAX, value) THEN value ELSE old.MAX)]

\* Faulty: a wrap is not noticed.
JustDifference(e, current, previous) ==
  IF Accumulates(e) THEN current - previous ELSE current

FixOverflow(e, current, previous) ==
  IF ~Accumulates(e) THEN current
  ELSE IF current < previous THEN event_ops[e].max_sample - previous + current
  ELSE current - previous

ExecOp1(op1, sample0, sample1, dt) ==
  CASE op1 = "SAMPLE_DIFF" -> Int2Ratio(sample1 - sample0)
    [] op1 = "SAMPLE1_MUL_DIFF_TIME" -> Int2Ratio(sample1 * dt)
    [] op1 = "AVG_SAMPLE_MUL_DIFF_TIME" -> Ratio((sample0 + sample1) * dt, 2)
    [] op1 = "DIV_DIFF_TIME" -> Ratio(sample1, dt)
    [] op1 = "NOP" -> Int2Ratio(0)

-----------------------------------------------------------------------------
NoStats == [MIN |-> LDBL_MAX, MAX |-> Int2Ratio(0),
            AVG |-> Int2Ratio(0), ACC |-> Int2Ratio(0)]
Zeros == [e \in Event |-> 0]
Cleared == [e \in Event |-> NoStats]
Other(b) == 3 - b

\* A set has just been allocated, all zeros.
Init ==
  /\ event_ops \in OpsTable
  /\ clock = 1
  /\ hw \in [Event -> Levels]
  /\ timer = [at |-> "none", last |-> FALSE, made |-> 0]
  /\ buffer = [counters |-> <<Zeros, Zeros>>, samples |-> <<Zeros, Zeros>>,
               front |-> 1]
  /\ stats = [values0 |-> Cleared, values1 |-> Cleared,
              last_values1 |-> [e \in Event |-> Int2Ratio(0)]]
  /\ times = [current |-> 0, previous |-> 0, first |-> 0, count |-> 0]
  /\ map = 1
  /\ field = [sample |-> Zeros, final |-> FALSE, runtime |-> 0,
              values0 |-> Cleared, values1 |-> Cleared]
  /\ series = <<>>

\* PAPI reads a counter, or a sensor as it is.
PapiRead(e) == IF Accumulates(e) THEN hw[e] % (event_ops[e].max_sample + 1) ELSE hw[e]

\* Time goes by.  The interval is short enough for a counter not to go all
\* the way round between two samples.
LastRead(e) == IF series = <<>> THEN hw[e] ELSE series[Len(series)].hw[e]
Elapse ==
  /\ clock < MaxTime
  /\ timer.at \in {"sleep", "read"}
  /\ clock' = clock + 1
  /\ \E more \in [Event -> Advances], level \in [Event -> Levels] :
       /\ hw' = [e \in Event |-> IF Accumulates(e) THEN hw[e] + more[e] ELSE level[e]]
       /\ \A e \in Event :
            Accumulates(e) => hw'[e] - LastRead(e) <= event_ops[e].max_sample
  /\ UNCHANGED <<event_ops, timer, buffer, stats, times, map, field, series>>

-----------------------------------------------------------------------------
(* The client.  APAPI_create_timer resets, as APAPI_change_timer does; the *)
(* two memsets of the buffers clear num_events bytes, not numbers: those   *)
(* of the event that is first, and the numbers here are below 256.         *)

ClearBytes(numbers, e) == <<[numbers[1] EXCEPT ![e] = 0],
                            [numbers[2] EXCEPT ![e] = 0]>>

\* Faulty: the maxima and sums of the previous timer stay.
KeepStats(s) == [s EXCEPT !.values0 = [e \in Event |-> [@[e] EXCEPT !.MIN = LDBL_MAX]]]

ClearStats(s) == [s EXCEPT !.values0 = Cleared, !.values1 = Cleared]

ClearTimes == [times EXCEPT !.first = 0, !.previous = 0, !.count = 0]

Clear ==
  /\ \E e \in Event : buffer' = [buffer EXCEPT !.counters = ClearBytes(@, e),
                                               !.samples = ClearBytes(@, e)]
  /\ stats' = ClearStats(stats)
  /\ times' = ClearTimes
  /\ series' = <<>>

\* The maps are made before the timer: they point to the current samples.
CreateTimer ==
  /\ timer.at = "none" /\ timer.made < Timers
  /\ timer' = [at |-> "ready", last |-> FALSE, made |-> timer.made + 1]
  /\ map' = buffer.front
  /\ Clear
  /\ UNCHANGED <<event_ops, clock, hw, field>>

ChangeTimer ==
  /\ timer.at = "ready"
  /\ Clear
  /\ UNCHANGED <<event_ops, clock, hw, timer, map, field>>

StartTimer ==
  /\ timer.at = "ready"
  /\ timer' = [timer EXCEPT !.at = "sleep"]
  /\ UNCHANGED <<event_ops, clock, hw, buffer, stats, times, map, field, series>>

\* Destroying a timer that is running: no final measurement.
DestroyTimer ==
  /\ timer.at = "sleep" /\ times.count > 0
  /\ timer' = [timer EXCEPT !.at = "none"]
  /\ UNCHANGED <<event_ops, clock, hw, buffer, stats, times, map, field, series>>

-----------------------------------------------------------------------------
(* The thread: _apapi_timer_measure. *)

\* The buffers are swapped; PAPI_read fills the current one, unless it fails.
SwapAndRead(last) ==
  /\ timer.at = "sleep"
  /\ last => times.count > 0
  /\ LET front == Other(buffer.front)
     IN \E failed \in {Softfail, FALSE} :
          buffer' = [buffer EXCEPT
                       !.front = front,
                       !.counters[front] = IF failed THEN @
                                           ELSE [e \in Event |-> PapiRead(e)]]
  /\ timer' = [timer EXCEPT !.at = "read", !.last = last]
  /\ times' = [times EXCEPT !.previous = times.current, !.current = times.previous]
  /\ series' = Append(series, [time |-> 0, hw |-> hw])
  /\ UNCHANGED <<event_ops, clock, hw, stats, map, field>>

NewSamples ==
  [e \in Event |-> FixOverflow(e, buffer.counters[buffer.front][e],
                                  buffer.counters[Other(buffer.front)][e])]

\* _apapi_timer_measure_stats with the new times.
MeasureStats(t, samples) ==
  IF t.count = 1 THEN stats
  ELSE LET previous == buffer.samples[Other(buffer.front)]
           Value1(e) == ExecOp1(event_ops[e].op1, previous[e], samples[e],
                                t.current - t.previous)
       IN [values0 |-> [e \in Event |-> Stats(event_ops[e].value0, Int2Ratio(samples[e]),
                                              t, stats.values0[e])],
           values1 |-> [e \in Event |-> Stats(event_ops[e].value1, Value1(e),
                                              t, stats.values1[e])],
           last_values1 |-> [e \in Event |-> IF event_ops[e].op1 = "NOP"
                                             THEN stats.last_values1[e]
                                             ELSE Value1(e)]]

\* measure_update: the map of every sample, or that of the last and the
\* runtime.
MeasureUpdate(t, s, samples, last) ==
  IF ~last THEN [field EXCEPT !.sample = samples[map], !.final = FALSE]
  ELSE [sample |-> samples[map], final |-> TRUE, runtime |-> t.current - t.first,
        values0 |-> s.values0, values1 |-> s.values1]

\* The clock has moved since the previous sample.
Measure ==
  /\ timer.at = "read"
  /\ clock > times.previous
  /\ LET t == [times EXCEPT !.current = clock,
                            !.first = IF @ = 0 THEN clock ELSE @,
                            !.count = @ + 1]
         samples == [buffer.samples EXCEPT ![buffer.front] = NewSamples]
         s == MeasureStats(t, NewSamples)
     IN /\ times' = t
        /\ buffer' = [buffer EXCEPT !.samples = samples]
        /\ stats' = s
        /\ field' = MeasureUpdate(t, s, samples, timer.last)
  /\ timer' = [timer EXCEPT !.at = IF timer.last THEN "none" ELSE "sleep"]
  /\ series' = [series EXCEPT ![Len(series)].time = clock]
  /\ UNCHANGED <<event_ops, clock, hw, map>>

-----------------------------------------------------------------------------
Next == \/ Elapse
        \/ CreateTimer \/ ChangeTimer \/ StartTimer \/ DestroyTimer
        \/ \E last \in BOOLEAN : SwapAndRead(last)
        \/ Measure

Spec == Init /\ [][Next]_vars

-----------------------------------------------------------------------------
(* Properties.  The samples of this measurement, what they are worth, and  *)
(* how long each accounts for; the first one only starts the time.         *)

Done == timer.at # "read"
Counted == 2 .. Len(series)
Span(i) == series[i].time - series[i - 1].time
Runtime == series[Len(series)].time - series[1].time
Rounds(e, i) == series[i].hw[e] \div (event_ops[e].max_sample + 1)
True0(e, i) ==
  IF Accumulates(e)
  THEN series[i].hw[e] - series[i - 1].hw[e] - (Rounds(e, i) - Rounds(e, i - 1))
  ELSE series[i].hw[e]
True1(e, i) ==
  ExecOp1(event_ops[e].op1, IF Accumulates(e) THEN 0 ELSE True0(e, i - 1),
          True0(e, i), Span(i))

Values0(e) == [i \in Counted |-> Int2Ratio(True0(e, i))]
Values1(e) == [i \in Counted |-> True1(e, i)]
Weighted(values) == [i \in Counted |-> Times(values[i], Int2Ratio(Span(i)))]

\* The sum of the values of samples 2 to n.
Total(values, n) ==
  LET total[i \in 1 .. n] ==
        IF i = 1 THEN Int2Ratio(0) ELSE Plus(total[i - 1], values[i])
  IN total[n]

\* The statistics that are asked for of the values of the samples: the
\* average weights each with the time it accounts for (apapi/readme.md:45).
AreStatistics(asked, s, values) ==
  /\ "ACC" \in asked => s.ACC = Total(values, Len(series))
  /\ "AVG" \in asked =>
       Times(s.AVG, Int2Ratio(Runtime)) = Total(Weighted(values), Len(series))
  /\ "MIN" \in asked => /\ \A i \in Counted : ~Less(values[i], s.MIN)
                        /\ \E i \in Counted : s.MIN = values[i]
  /\ "MAX" \in asked => /\ \A i \in Counted : ~Less(s.MAX, values[i])
                        /\ \/ s.MAX = Int2Ratio(0)
                           \/ \E i \in Counted : s.MAX = values[i]

\* After every sample the statistics are those of the samples since the timer
\* was created, whatever the buffers still hold of an earlier timer
\* (apapi.c:744), and nothing of an earlier measurement is left in them.
StatisticsOfMeasurement ==
  Done /\ Len(series) >= 2 =>
    \A e \in Event :
      /\ AreStatistics(event_ops[e].value0, stats.values0[e], Values0(e))
      /\ event_ops[e].op1 = "DIV_DIFF_TIME" \/ ~Accumulates(e) =>
           AreStatistics(event_ops[e].value1, stats.values1[e], Values1(e))

\* The sum of an accumulating event is what its counter has advanced between
\* the first sample and the last, less one unit for each time it went round:
\* max_sample is its highest value, not its modulus (apapi.c:515).
EnergyIsCounted ==
  Done /\ Len(series) >= 1 =>
    \A e \in Event : Accumulates(e) /\ "ACC" \in event_ops[e].value0 =>
      stats.values0[e].ACC =
        Int2Ratio((series[Len(series)].hw[e] - series[1].hw[e])
                  - (Rounds(e, Len(series)) - Rounds(e, 1)))

\* What the fields report at the end fits together: the average power times
\* the runtime is the energy, for events that count energy and for those that
\* measure power (ms_common_apapi.c:1645).
ReportFits ==
  field.final =>
    \A e \in Event :
      /\ event_ops[e].op1 = "DIV_DIFF_TIME" =>
           Times(field.values1[e].AVG, Int2Ratio(field.runtime))
             = field.values0[e].ACC
      /\ event_ops[e].op1 = "SAMPLE1_MUL_DIFF_TIME" =>
           Times(field.values0[e].AVG, Int2Ratio(field.runtime))
             = field.values1[e].ACC

EnergyReported == EnergyIsCounted /\ ReportFits

\* "swap before other operations, so most current values will reside in
\* current_samples after this method for later access" (apapi.c:542): the
\* callback finds the samples that were just taken.
MapsLastSample ==
  [][\A e \in Event : Measure /\ ~Accumulates(e) =>
       field'.sample[e] = series'[Len(series')].hw[e]]_vars
=============================================================================
