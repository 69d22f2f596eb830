------------------------------ MODULE Hettime ------------------------------
(***************************************************************************)
(* hettime: it runs a program and measures the machine meanwhile.  Here    *)
(* one process of hettime follows another; each of them                    *)
(*                                                                         *)
(*   reads its options, sets up the devices (Devices), initialises a       *)
(*   measurement, forks the child, starts the measurement threads          *)
(*   (MeasureThreads), lets the child go, waits for it, stops the threads, *)
(*   prints the results (WorkerRounds) and puts the devices back.          *)
(*                                                                         *)
(* libmeasure is built with one real plugin, the others being stubs, which *)
(* is what its build configuration allows; the kinds of MeasureThreads are *)
(* then Mine, the kind of that plugin, and the kinds of the stubs.  Any    *)
(* error met in a plugin or by main() is the exit of the whole process.    *)
(***************************************************************************)
EXTENDS MeasureThreads, WorkerRounds, Devices

CONSTANTS
  Settings,   \* Settings[p]: command lines tried with plugin p
  MaxRuns,    \* bound: processes of hettime
  MaxTime,    \* bound: ticks of the clock of a run
  Levels      \* power the machine may draw, per tick

\* What the options may leave there.  A device is read at least at every
\* exits'th tick; a frequency or governor that does not exist is found later.
ARGUMENTS ==
  [variant : {"full", "light"}, exits : Nat \ {0}, cpuMin : Nat, cpuMax : Nat,
   governor : {"ondemand", "performance", "powersave", "conservative"},
   clocks : {"min", "cur", "max"}]

ASSUME SettingsAssumption == \A p \in Plugin : Settings[p] \subseteq ARGUMENTS
ASSUME LevelsAssumption ==
  Levels \subseteq Nat /\ \E l \in Levels : \A m \in Levels : l <= m
ASSUME OneRealPlugin == Cardinality(Real) = 1

Mine == CHOOSE k \in Real : TRUE

VARIABLES
  main,       \* where main() is
  runs,       \* processes started so far
  plugin,     \* the plugin libmeasure is built with
  settings,   \* ARGUMENTS of this process
  device,     \* settings of the devices, they outlive the process
  child,      \* the forked process
  sync,       \* the semaphore it waits at, in shared memory
  hw,         \* the machine: clock, energy used, time worked, power
  ms,         \* MS_MEASUREMENT_* of the plugin
  seen        \* history: what was read since the first reading

process == <<main, runs, plugin, settings>>
measured == <<hw, ms, seen>>
hvars == <<vars, process, device, child, sync, measured>>

FreshMachine == [time |-> 0, energy |-> 0, busy |-> 0,
                 level |-> CHOOSE l \in Levels : \A m \in Levels : l <= m]

NothingSeen == [start |-> 0, energyStart |-> 0, energyLast |-> 0,
                busyStart |-> 0, busyLast |-> 0, wraps |-> 0,
                powers |-> {}, server |-> 0, rounds |-> 0]

NoSettings == [variant |-> "full", exits |-> 1, cpuMin |-> 0, cpuMax |-> 0,
               governor |-> "ondemand", clocks |-> "cur"]

HInit ==
  /\ Init
  /\ main = "parse" /\ runs = 0
  /\ plugin \in Plugin
  /\ settings = NoSettings
  /\ device = Untouched
  /\ child = "none" /\ sync = 0
  /\ hw = FreshMachine /\ ms = FreshMeasurement /\ seen = NothingSeen

\* exit(): all the threads of the process are gone.
ThreadsGone ==
  /\ pc' = "ready" /\ i' = 1 /\ cycle' = 0
  /\ thread' = {}
  /\ mutexStart' = [k \in Kind |-> FALSE]
  /\ startSem' = 0
  /\ timerMutex' = [k \in Kind |-> FALSE]
  /\ worker' = [k \in Kind |-> "none"]
  /\ workerStop' = [k \in Kind |-> TRUE]
  /\ timer' = [k \in Kind |-> "none"]
  /\ timerStop' = [k \in Kind |-> FALSE]
  /\ late' = [k \in Kind |-> 0]

At(label) == main = label /\ UNCHANGED <<runs, plugin, settings>>
GoTo(label) == main' = label

-----------------------------------------------------------------------------
(* main() up to the fork.                                                  *)

\* A wrong option, or no executable: main returns before run().
RefuseOptions ==
  /\ At("parse") /\ GoTo("dead")
  /\ UNCHANGED <<vars, device, child, sync, measured>>

ParseOptions ==
  /\ main = "parse" /\ GoTo("devices")
  /\ settings' \in Settings[plugin]
  /\ UNCHANGED <<vars, runs, plugin, device, child, sync, measured>>

\* ms_init.
InitSystem ==
  /\ At("devices")
  /\ \E outcome \in InitResource(plugin, device, settings) :
       /\ device' = outcome.d
       /\ GoTo(IF outcome.ok THEN "alloc" ELSE "dead")
  /\ UNCHANGED <<vars, child, sync, measured>>

\* ms_alloc_measurement, ms_set_timer and ms_init_measurement for ALL.
InitMeasurement ==
  /\ At("alloc") /\ GoTo("fork")
  /\ MsInitMeasurement /\ thread' = Kind
  /\ ms' = FreshMeasurement
  /\ UNCHANGED <<device, child, sync, hw, seen>>

ForkFails ==
  /\ At("fork") /\ GoTo("dead")
  /\ ThreadsGone
  /\ UNCHANGED <<device, child, sync, measured>>

Fork ==
  /\ At("fork") /\ GoTo("start")
  /\ child' = "waiting" /\ sync' = 0
  /\ UNCHANGED <<vars, device, measured>>

-----------------------------------------------------------------------------
(* exec_app() of the parent.                                               *)

StartMeasuring ==
  /\ At("start") /\ GoTo("start")
  /\ StartMeasureThread \/ AwaitHandshake \/ PostStartSem \/ ReleaseStartMutexes
  /\ UNCHANGED <<device, child, sync, measured>>

\* Faulty variant: the child is let go before the workers are ready.
PostSyncFirst ==
  /\ At("start") /\ GoTo("wait")
  /\ sync' = sync + 1
  /\ UNCHANGED <<vars, device, child, measured>>

\* Faulty variant: the child is not let go.
PostNothing ==
  /\ At("start") /\ GoTo("wait")
  /\ pc = "stopTimer"
  /\ UNCHANGED <<vars, device, child, sync, measured>>

\* ms_start_measurement has returned.
PostSync ==
  /\ At("start") /\ GoTo("wait")
  /\ pc = "stopTimer"
  /\ sync' = sync + 1
  /\ UNCHANGED <<vars, device, child, measured>>

WaitForChild ==
  /\ At("wait") /\ GoTo("stop")
  /\ child = "ended"
  /\ UNCHANGED <<vars, device, child, sync, measured>>

StopMeasuring ==
  /\ At("stop")
  /\ StopTimer \/ StopWorker \/ StopUnlock \/ JoinTimer \/ JoinWorker \/ MsFiniMeasurement
  /\ GoTo(IF pc' = "ready" THEN "print" ELSE "stop")
  /\ UNCHANGED <<device, child, sync, measured>>

\* A file that cannot be opened costs the outputs that were to follow it.
PrintResults ==
  /\ At("print") /\ GoTo("fini")
  /\ UNCHANGED <<vars, device, child, sync, measured>>

\* ms_free_measurement and ms_fini.
FiniSystem ==
  /\ At("fini")
  /\ \E outcome \in FiniResource(plugin, device) :
       /\ device' = outcome.d
       /\ GoTo(IF outcome.ok THEN "done" ELSE "dead")
  /\ UNCHANGED <<vars, child, sync, measured>>

Main ==
  \/ RefuseOptions \/ ParseOptions \/ InitSystem \/ InitMeasurement
  \/ ForkFails \/ Fork
  \/ StartMeasuring \/ PostSync \/ WaitForChild \/ StopMeasuring
  \/ PrintResults \/ FiniSystem

-----------------------------------------------------------------------------
(* The child.                                                              *)

\* It cannot drop its privileges and ends before it waits.
ChildRefused ==
  /\ child = "waiting" /\ child' = "ended"
  /\ UNCHANGED <<vars, process, device, sync, measured>>

\* It notes the time, and executes the program.
ChildStarts ==
  /\ child = "waiting" /\ sync > 0
  /\ child' = "running" /\ sync' = sync - 1
  /\ UNCHANGED <<vars, process, device, measured>>

\* The program ends, or could not be executed.
ChildEnds ==
  /\ child = "running" /\ child' = "ended"
  /\ UNCHANGED <<vars, process, device, sync, measured>>

Child == ChildRefused \/ ChildStarts \/ ChildEnds

-----------------------------------------------------------------------------
(* The threads.                                                            *)

\* The steps that do not touch the measurement struct.
ThreadStep ==
  /\ \E k \in Kind :
       \/ WorkerBegin(k) \/ WorkerLock(k) \/ WorkerGate(k) \/ WorkerTick(k)
       \/ Timer(k)
       \/ worker[k] = "loop" /\ ~workerStop[k] /\ WorkerLoop(k)
  /\ UNCHANGED <<process, device, child, sync, measured>>

WorkerPrepares ==
  /\ WorkerReport(Mine)
  /\ ms' = ClearSums(ms)
  /\ UNCHANGED <<process, device, child, sync, hw, seen>>

WorkerReadsFirst ==
  /\ WorkerFirst(Mine)
  /\ ms' \in FirstReading(plugin, ms, hw)
  /\ seen' = [NothingSeen EXCEPT !.start = hw.time,
                !.energyStart = hw.energy, !.energyLast = hw.energy,
                !.busyStart = hw.busy, !.busyLast = hw.busy]
  /\ UNCHANGED <<process, device, child, sync, hw>>

WorkerRound ==
  /\ WorkerSample(Mine)
  /\ ms' \in Round(plugin, ms, hw, settings)
  /\ LET read == ms.round = 0
         elapsed == hw.time - ms.last
     IN seen' = IF ~SumsUp(plugin, settings) THEN seen ELSE [seen EXCEPT
          !.energyLast = IF read THEN hw.energy ELSE @,
          !.busyLast = IF read THEN hw.busy ELSE @,
          !.wraps = IF read /\ ms'.counter < ms.counterTemp THEN @ + 1 ELSE @,
          !.powers = @ \cup {ms'.power},
          !.server = @ + ms'.serverPower * elapsed,
          !.rounds = IF elapsed > 0 THEN @ + 1 ELSE @]
  /\ UNCHANGED <<process, device, child, sync, hw>>

WorkerEnds ==
  /\ worker[Mine] = "loop" /\ workerStop[Mine] /\ WorkerLoop(Mine)
  /\ ms' = StoreAverages(plugin, ms, settings)
  /\ UNCHANGED <<process, device, child, sync, hw, seen>>

\* A device cannot be read, or what is asked of it before the gate fails: the
\* worker ends the process.  The child, if it runs, is not stopped.
WorkerExits ==
  /\ \/ worker[Mine] \in {"first", "sample"}
     \/ worker[Mine] = "clear" /\ plugin \in {"gpu", "mic", "sys"}
  /\ GoTo("dead") /\ UNCHANGED <<runs, plugin, settings>>
  /\ ThreadsGone
  /\ UNCHANGED <<device, child, sync, measured>>

Threads ==
  ThreadStep \/ WorkerPrepares \/ WorkerReadsFirst \/ WorkerRound \/ WorkerEnds

-----------------------------------------------------------------------------
\* The machine goes on.  What passes between two readings shows at the second
\* one, so it is let pass just before that.  The register of the cpu does not
\* go round wholly between two readings.  The clock of a later process, of
\* which the devices alone are of interest, stands.
Elapse ==
  /\ worker[Mine] = "sample"
  /\ runs = 0 /\ hw.time < MaxTime
  /\ \E level \in Levels :
       /\ hw.energy + level - seen.energyLast < CounterSize - 1
       /\ hw' = [time |-> hw.time + 1, energy |-> hw.energy + level, level |-> level,
                 busy |-> IF level = FreshMachine.level THEN hw.busy ELSE hw.busy + 1]
  /\ UNCHANGED <<vars, process, device, child, sync, ms, seen>>

\* The next process; the child of a dead one, if it still runs, is not
\* followed any more.
NextRun ==
  /\ main \in {"done", "dead"} /\ runs + 1 < MaxRuns
  /\ GoTo("parse") /\ runs' = runs + 1
  /\ ThreadsGone
  /\ settings' = NoSettings
  /\ child' = "none" /\ sync' = 0
  /\ hw' = FreshMachine /\ ms' = FreshMeasurement /\ seen' = NothingSeen
  /\ UNCHANGED <<plugin, device>>

HNext ==
  \/ Main \/ Child \/ Threads \/ WorkerExits \/ Elapse \/ NextRun

\* main() and every thread go on where they can, and the child's program
\* comes to its end.
HFairness ==
  /\ WF_hvars(Main)
  /\ WF_hvars(ChildStarts \/ ChildEnds)
  /\ \A k \in Kind : WF_hvars(Threads /\ worker'[k] # worker[k])
  /\ \A k \in Kind : WF_hvars(ThreadStep /\ timer'[k] # timer[k])

HSpec == HInit /\ [][HNext]_hvars /\ HFairness

-----------------------------------------------------------------------------
(* The properties.                                                         *)

Summed == worker[Mine] \in {"loop", "wait", "sample"} \/ ms.average # "none"

\* CMeasureMSRThread: the sums of a cpu are what the machine used between
\* the first and the last reading, up to the unit that each turn of the
\* energy register costs.
EnergyCounted ==
  plugin = "cpu" /\ Summed =>
    /\ ms.energy = seen.energyLast - seen.energyStart - seen.wraps
    /\ ms.busyAcc = seen.busyLast - seen.busyStart

\* The other workers: the average lies between the lowest and the highest
\* power that was in effect, and the runtime is the time since the first
\* reading, whatever rounds were left out.
PowerWithin ==
  plugin # "cpu" /\ ms.average = "number" =>
    /\ ms.runtime = ms.last - seen.start
    /\ \E p \in seen.powers : p * ms.runtime <= ms.energy
    /\ \E p \in seen.powers : ms.energy <= p * ms.runtime

\* CMeasureIPMIThread cuts the energy of the server to whole units in each
\* round, and so loses less than a unit in each.
ServerRounded ==
  plugin = "sys" =>
    /\ ms.server * Second <= seen.server
    /\ seen.server - ms.server * Second <= seen.rounds * (Second - 1)

\* What the workers add up is what they read.
ResultsExact == EnergyCounted /\ PowerWithin /\ ServerRounded

\* The child's program runs under measurement from its start to its end: all
\* that time the worker is through with its preparations, may pass the gate,
\* and has not been told to stop.
MeasuredWhileRunning ==
  child = "running" /\ main # "dead" =>
    /\ worker[Mine] \notin WorkerUnprepared \cup {"done"}
    /\ worker[Mine] = "gate" => startSem > 0
    /\ ~workerStop[Mine]

\* While a cpu is measured, the maximum and the governor asked for are in
\* force, whatever an earlier process has left behind.
PolicyInForce ==
  plugin = "cpu" /\ main \notin {"parse", "devices", "fini", "done", "dead"} =>
    /\ device.max = AskedMax(settings)
    /\ device.governor = settings.governor
    /\ device.min <= device.max

\* A process that runs to its end leaves a GPU in its normal modes, even if
\* an earlier process did not.
GpuRestored ==
  plugin = "gpu" /\ main = "done" => ~device.persistence /\ device.clocks = "default"

DevicesRight == PolicyInForce /\ GpuRestored

\* Every run of hettime that has its child comes to its end.
RunEnds == (child = "waiting") ~> (main \in {"done", "dead"})
=============================================================================
