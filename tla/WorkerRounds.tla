---------------------------- MODULE WorkerRounds ----------------------------
(***************************************************************************)
(* What the worker threads of the five plugins do with their measurement   *)
(* struct: clear it, take a first reading, add up a round at every tick    *)
(* of their timer, and store the averages when they are told to stop.      *)
(*                                                                         *)
(* m is the part of MS_MEASUREMENT_* the results are made of, h the        *)
(* machine at the moment of a call, s the settings of the program.  One    *)
(* quantity of a kind stands for its fellows (one core, one power rail);   *)
(* temperatures, frequencies and memory, which are copied or of which the  *)
(* maximum is kept, are left out.  Times are in ticks of 1/Second.         *)
(***************************************************************************)
EXTENDS Integers

CONSTANTS
  CounterSize,   \* values of the energy register of a cpu, 2^32 in hardware
  Second         \* ticks of the clock of a second

ASSUME CounterSizeAssumption == CounterSize \in Nat \ {0, 1}
ASSUME SecondAssumption == Second \in Nat \ {0}

Plugin == {"cpu", "gpu", "fpga", "mic", "sys"}

\* allocMeasurement: a struct of zeros.
FreshMeasurement ==
  [runtime |-> 0,       \* *_time_runtime
   last |-> 0,          \* internal.*_time_temp
   round |-> 0,         \* skip_ms_cnt, of which only the remainder matters
   counter |-> 0,       \* msr_energy_cur, the register of the cpu
   counterTemp |-> 0,   \* internal.msr_energy_temp
   busy |-> 0,          \* *_util_cur, time the machine worked
   busyTemp |-> 0,      \* *_util_temp
   busyAcc |-> 0,       \* *_util_acc
   power |-> 0,         \* *_power_cur
   serverPower |-> 0,   \* ipmi_power_server_cur
   energy |-> 0,        \* *_energy_acc
   server |-> 0,        \* ipmi_energy_server_acc, an uint32_t
   average |-> "none"]  \* *_power_avg: is it stored, and is it a number?

\* The light variants of the MIC and IPMI workers wait but sum up nothing.
SumsUp(kind, s) == kind \in {"mic", "sys"} => s.variant = "full"

-----------------------------------------------------------------------------
(* measure() of the plugins: the structs it may leave behind.              *)

MsrMeasure(m, h) ==
  {[m EXCEPT !.counter = h.energy % CounterSize, !.busy = h.busy]}

NvmlMeasure(m, h) == {[m EXCEPT !.power = h.level]}

MaxelerMeasure(m, h) == {[m EXCEPT !.power = h.level]}

MicMeasure(m, h) == {[m EXCEPT !.power = h.level, !.busy = h.busy]}

\* Each of the requests may time out; the value of the last one stays.
IpmiMeasure(m, h) ==
  {[m EXCEPT !.power = board, !.serverPower = server] :
     board \in {m.power, h.level}, server \in {m.serverPower, h.level}}

Measure(kind, m, h) ==
  CASE kind = "cpu"  -> MsrMeasure(m, h)
    [] kind = "gpu"  -> NvmlMeasure(m, h)
    [] kind = "fpga" -> MaxelerMeasure(m, h)
    [] kind = "mic"  -> MicMeasure(m, h)
    [] kind = "sys"  -> IpmiMeasure(m, h)

-----------------------------------------------------------------------------
(* The sums of one round, r being the struct after measure().              *)

\* The register is taken to hold one value less than it does.
CounterAdvance(r) ==
  IF r.counter >= r.counterTemp THEN r.counter - r.counterTemp
  ELSE CounterSize - 1 + r.counter - r.counterTemp

\* Faulty variant: the reference value of the counter is not stored.
MsrSumsFromStart(r, elapsed) ==
  [r EXCEPT !.energy = @ + CounterAdvance(r),
            !.busyAcc = @ + r.busy - r.busyTemp, !.busyTemp = r.busy]

MsrSums(r, elapsed) ==
  [r EXCEPT !.energy = @ + CounterAdvance(r), !.counterTemp = r.counter,
            !.busyAcc = @ + r.busy - r.busyTemp, !.busyTemp = r.busy]

NvmlSums(r, elapsed) == [r EXCEPT !.energy = @ + r.power * elapsed]

MaxelerSums(r, elapsed) == [r EXCEPT !.energy = @ + r.power * elapsed]

MicSums(r, elapsed) ==
  [r EXCEPT !.energy = @ + r.power * elapsed,
            !.busyAcc = @ + r.busy - r.busyTemp, !.busyTemp = r.busy]

\* The sum of the server's energy is cut to whole units at every round.
IpmiSums(r, elapsed) ==
  [r EXCEPT !.energy = @ + r.power * elapsed,
            !.server = @ + (r.serverPower * elapsed) \div Second]

Sums(kind, r, elapsed) ==
  CASE kind = "cpu"  -> MsrSums(r, elapsed)
    [] kind = "gpu"  -> NvmlSums(r, elapsed)
    [] kind = "fpga" -> MaxelerSums(r, elapsed)
    [] kind = "mic"  -> MicSums(r, elapsed)
    [] kind = "sys"  -> IpmiSums(r, elapsed)

\* calcTimeDiff and the runtime.
AddRuntime(r, h) ==
  [r EXCEPT !.runtime = @ + (h.time - r.last), !.last = h.time]

-----------------------------------------------------------------------------
(* The worker thread.                                                      *)

\* Before the worker reports: its sums and maxima are set to zero.
ClearSums(m) ==
  [m EXCEPT !.runtime = 0, !.energy = 0, !.busyAcc = 0, !.server = 0]

\* The first reading only gives the reference values.
FirstReading(kind, m, h) ==
  {[r EXCEPT !.last = h.time, !.counterTemp = r.counter, !.busyTemp = r.busy] :
     r \in Measure(kind, m, h)}

\* One tick.  The devices are read at every s.exits'th only; the clock is
\* read, and the energy summed up, at each.
Round(kind, m, h, s) ==
  IF ~SumsUp(kind, s) THEN {m}
  ELSE LET readings == IF m.round = 0 THEN Measure(kind, m, h) ELSE {m}
       IN {[Sums(kind, AddRuntime(r, h), h.time - r.last)
              EXCEPT !.round = (@ + 1) % s.exits] : r \in readings}

\* The averages divide by the runtime, which is zero without a round.
StoreAverages(kind, m, s) ==
  IF ~SumsUp(kind, s) THEN m
  ELSE [m EXCEPT !.average = IF m.runtime = 0 THEN "nan" ELSE "number"]
=============================================================================
