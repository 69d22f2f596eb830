--------------------------- MODULE MeasureThreads ---------------------------
(***************************************************************************)
(* The threads of libmeasure/common.  One client walks through             *)
(*                                                                         *)
(*   ms_init_measurement, ms_start_measurement, ms_stop_measurement,       *)
(*   ms_join_measurement, ms_fini_measurement                              *)
(*                                                                         *)
(* in the order every caller in the repository uses.  For each requested   *)
(* kind of resource with a real plugin, ms_start_measurement creates a     *)
(* worker thread (CMeasureMSRThread::run and its siblings) and a timer     *)
(* thread (CMeasureThreadTimer::run).  They meet at                        *)
(*                                                                         *)
(*   mutexStart[k]  the per-kind mutex by which a worker reports that it   *)
(*                  is initialised,                                        *)
(*   startSem       the one semaphore of CMgmt that lets them go,          *)
(*   timerMutex[k]  the mutex a timer unlocks and a worker locks, used as  *)
(*                  a binary semaphore.                                    *)
(*                                                                         *)
(* pthread mutexes are the default kind of the GNU C library: unlocking a  *)
(* mutex that is free, or that another thread locked, just leaves it free. *)
(***************************************************************************)
EXTENDS Integers, FiniteSets

CONSTANTS
  N,           \* number of kinds of resource: log2(ALL+1), five in the code
  Real,        \* kinds built with a real plugin; the others have the stub
  MaxCycles,   \* bound: measurements run on one MS_SYSTEM
  PromptStop   \* may the client stop while a timer thread is still booting?

Kind == 1 .. N

ASSUME NAssumption == N \in Nat \ {0}
ASSUME RealAssumption == Real \subseteq Kind
ASSUME MaxCyclesAssumption == MaxCycles \in Nat \ {0}
ASSUME PromptStopAssumption == PromptStop \in BOOLEAN

VARIABLES
  pc,          \* where the client is inside the ms_* calls
  i,           \* the kind the current loop of the client is at
  cycle,       \* ms_init_measurement calls so far
  thread,      \* kinds whose mpResourceThread is set
  mutexStart,  \* mutexStart[k]: is mMutexStartResource locked?
  startSem,    \* value of CMgmt::mStartSem
  timerMutex,  \* timerMutex[k]: is mMutexTimer locked?
  worker,      \* control location of the worker threads
  workerStop,  \* mThreadStateStop of the workers
  timer,       \* control location of the timer threads
  timerStop,   \* mThreadStateStop of the timers
  late         \* history: rounds a worker finished after it was told to stop

client == <<pc, i, cycle>>
workers == <<worker, workerStop, late>>
timers == <<timer, timerStop>>
vars == <<client, thread, mutexStart, startSem, timerMutex, workers, timers>>

\* The kinds that get threads: the stub's thread object never starts any.
Active == thread \cap Real

\* Tokens ms_start_measurement posts, whatever was requested.
Posts == 2 * N

MaxLate == 2   \* bound of the history variable

-----------------------------------------------------------------------------
Init ==
  /\ pc = "ready"
  /\ i = 1
  /\ cycle = 0
  /\ thread = {}
  /\ mutexStart = [k \in Kind |-> FALSE]
  /\ startSem = 0
  /\ timerMutex = [k \in Kind |-> FALSE]
  /\ worker = [k \in Kind |-> "none"]
  /\ workerStop = [k \in Kind |-> TRUE]
  /\ timer = [k \in Kind |-> "none"]
  /\ timerStop = [k \in Kind |-> FALSE]
  /\ late = [k \in Kind |-> 0]

\* One turn of a loop of the client over all the kinds.
Loop(here, next) ==
  IF i = N THEN pc' = next /\ i' = 1
           ELSE pc' = here /\ i' = i + 1

Goto(label) == pc' = label /\ i' = i

\* One step of the worker or timer thread of kind k.
WorkerGoto(k, from, to) ==
  /\ worker[k] = from
  /\ worker' = [worker EXCEPT ![k] = to]

TimerGoto(k, from, to) ==
  /\ timer[k] = from
  /\ timer' = [timer EXCEPT ![k] = to]

-----------------------------------------------------------------------------
(* Faulty variants of some actions: each breaks one of the properties.     *)

\* The handshake does not wait for the workers.
AwaitNobody ==
  /\ pc = "handshake"
  /\ Loop("handshake", "post")
  /\ UNCHANGED <<cycle, thread, mutexStart, startSem, timerMutex, workers, timers>>

\* The start mutexes stay locked.
ReleaseNothing ==
  /\ pc = "release"
  /\ Goto("stopTimer")
  /\ UNCHANGED <<cycle, thread, mutexStart, startSem, timerMutex, workers, timers>>

\* The timer is not told to stop.
StopWorkerOnly ==
  /\ pc = "stopTimer"
  /\ PromptStop \/ \A k \in Active : timer[k] # "boot"
  /\ IF i \in Active THEN Goto("stopWorker") ELSE Loop("stopTimer", "joinTimer")
  /\ UNCHANGED <<cycle, thread, mutexStart, startSem, timerMutex, workers, timers>>

\* The worker is told to stop but not woken.
StopWithoutUnlock ==
  /\ pc = "stopUnlock"
  /\ Loop("stopTimer", "joinTimer")
  /\ UNCHANGED <<cycle, thread, mutexStart, startSem, timerMutex, workers, timers>>

\* Only the timers are joined.
JoinNoWorker ==
  /\ pc = "joinWorker"
  /\ Loop("joinTimer", "fini")
  /\ UNCHANGED <<cycle, thread, mutexStart, startSem, timerMutex, workers, timers>>

\* The worker reports before it is initialised.
WorkerReportEarly(k) ==
  /\ WorkerGoto(k, "lock", "clear")
  /\ ~timerMutex[k]
  /\ timerMutex' = [timerMutex EXCEPT ![k] = TRUE]
  /\ mutexStart' = [mutexStart EXCEPT ![k] = FALSE]
  /\ UNCHANGED <<client, thread, startSem, workerStop, timers, late>>

\* The worker looks at its flag only when no tick is pending.
WorkerLoopBusy(k) ==
  /\ WorkerGoto(k, "loop", IF workerStop[k] /\ timerMutex[k] THEN "done" ELSE "wait")
  /\ UNCHANGED <<client, thread, mutexStart, startSem, timerMutex, workerStop,
                 timers, late>>

-----------------------------------------------------------------------------
(* The client.                                                             *)

\* New thread objects for the kinds the caller's flags name.
MsInitMeasurement ==
  /\ pc = "ready" /\ cycle < MaxCycles
  /\ \E flags \in SUBSET Kind : thread' = flags
  /\ Goto("start")
  /\ cycle' = cycle + 1
  /\ UNCHANGED <<mutexStart, startSem, timerMutex, workers, timers>>

\* First loop of ms_start_measurement.  A stub unlocks the start mutex at
\* once; a real plugin gets its two threads and unlocks it later.
StartMeasureThread ==
  /\ pc = "start"
  /\ i \in thread => ~mutexStart[i]
  /\ mutexStart' = [mutexStart EXCEPT ![i] = @ \/ i \in Active]
  /\ worker' = [worker EXCEPT ![i] = IF i \in Active THEN "boot" ELSE @]
  /\ timer' = [timer EXCEPT ![i] = IF i \in Active THEN "boot" ELSE @]
  /\ Loop("start", "handshake")
  /\ UNCHANGED <<cycle, thread, startSem, timerMutex, workerStop, timerStop,
                 late>>

\* Second loop: locking again waits until the worker of kind i unlocked.
AwaitHandshake ==
  /\ pc = "handshake"
  /\ i \in thread => ~mutexStart[i]
  /\ mutexStart' = [mutexStart EXCEPT ![i] = @ \/ i \in thread]
  /\ Loop("handshake", "post")
  /\ UNCHANGED <<cycle, thread, startSem, timerMutex, workers, timers>>

PostStartSem ==
  /\ pc = "post"
  /\ startSem' = startSem + Posts
  /\ Goto("release")
  /\ UNCHANGED <<cycle, thread, mutexStart, timerMutex, workers, timers>>

\* Last loop of ms_start_measurement: nobody waits for these mutexes.
ReleaseStartMutexes ==
  /\ pc = "release"
  /\ mutexStart' = [k \in Kind |-> mutexStart[k] /\ k \notin thread]
  /\ Goto("stopTimer")
  /\ UNCHANGED <<cycle, thread, startSem, timerMutex, workers, timers>>

\* ms_stop_measurement: for each kind stop the timer, stop the worker and
\* unlock timerMutex so that the worker sees it.
StopTimer ==
  /\ pc = "stopTimer"
  /\ PromptStop \/ \A k \in Active : timer[k] # "boot"
  /\ IF i \in Active
       THEN Goto("stopWorker") /\ timerStop' = [timerStop EXCEPT ![i] = TRUE]
       ELSE Loop("stopTimer", "joinTimer") /\ UNCHANGED timerStop
  /\ UNCHANGED <<cycle, thread, mutexStart, startSem, timerMutex, workers,
                 timer>>

StopWorker ==
  /\ pc = "stopWorker"
  /\ workerStop' = [workerStop EXCEPT ![i] = TRUE]
  /\ Goto("stopUnlock")
  /\ UNCHANGED <<cycle, thread, mutexStart, startSem, timerMutex, worker, late,
                 timers>>

StopUnlock ==
  /\ pc = "stopUnlock"
  /\ timerMutex' = [timerMutex EXCEPT ![i] = FALSE]
  /\ Loop("stopTimer", "joinTimer")
  /\ UNCHANGED <<cycle, thread, mutexStart, startSem, workers, timers>>

\* ms_join_measurement: for each kind join the timer, then the worker.
JoinTimer ==
  /\ pc = "joinTimer"
  /\ i \in Active => timer[i] = "done"
  /\ Goto("joinWorker")
  /\ UNCHANGED <<cycle, thread, mutexStart, startSem, timerMutex, workers,
                 timers>>

JoinWorker ==
  /\ pc = "joinWorker"
  /\ i \in Active => worker[i] = "done"
  /\ Loop("joinTimer", "fini")
  /\ UNCHANGED <<cycle, thread, mutexStart, startSem, timerMutex, workers,
                 timers>>

\* The thread objects go, with their flags and their timerMutex; mStartSem
\* belongs to CMgmt and keeps its value.  A thread that still ran would go on.
MsFiniMeasurement ==
  /\ pc = "fini"
  /\ Goto("ready")
  /\ thread' = {}
  /\ timerMutex' = [k \in Kind |-> FALSE]
  /\ worker' = [k \in Kind |-> IF worker[k] = "done" THEN "none" ELSE worker[k]]
  /\ workerStop' = [k \in Kind |-> TRUE]
  /\ timer' = [k \in Kind |-> IF timer[k] = "done" THEN "none" ELSE timer[k]]
  /\ timerStop' = [k \in Kind |-> FALSE]
  /\ late' = [k \in Kind |-> 0]
  /\ UNCHANGED <<cycle, mutexStart, startSem>>

Client ==
  \/ MsInitMeasurement \/ StartMeasureThread \/ AwaitHandshake
  \/ PostStartSem \/ ReleaseStartMutexes
  \/ StopTimer \/ StopWorker \/ StopUnlock
  \/ JoinTimer \/ JoinWorker \/ MsFiniMeasurement

-----------------------------------------------------------------------------
(* A worker thread: run() of a plugin's measurement thread.                *)

WorkerBegin(k) ==
  /\ WorkerGoto(k, "boot", "lock")
  /\ workerStop' = [workerStop EXCEPT ![k] = FALSE]
  /\ UNCHANGED <<client, thread, mutexStart, startSem, timerMutex, timers, late>>

\* Takes the timer's mutex for the first time: the next lock is a tick.
WorkerLock(k) ==
  /\ WorkerGoto(k, "lock", "clear")
  /\ ~timerMutex[k]
  /\ timerMutex' = [timerMutex EXCEPT ![k] = TRUE]
  /\ UNCHANGED <<client, thread, mutexStart, startSem, workerStop, timers, late>>

\* Clears the measurement struct and reports to ms_start_measurement.
WorkerReport(k) ==
  /\ WorkerGoto(k, "clear", "gate")
  /\ mutexStart' = [mutexStart EXCEPT ![k] = FALSE]
  /\ UNCHANGED <<client, thread, startSem, timerMutex, workerStop, timers, late>>

WorkerGate(k) ==
  /\ WorkerGoto(k, "gate", "first")
  /\ startSem > 0
  /\ startSem' = startSem - 1
  /\ UNCHANGED <<client, thread, mutexStart, timerMutex, workerStop, timers, late>>

\* The first measurement, which only stores the reference values.
WorkerFirst(k) ==
  /\ WorkerGoto(k, "first", "loop")
  /\ UNCHANGED <<client, thread, mutexStart, startSem, timerMutex, workerStop,
                 timers, late>>

\* The loop's condition; once stopped the averages are stored and the
\* thread ends.
WorkerLoop(k) ==
  /\ WorkerGoto(k, "loop", IF workerStop[k] THEN "done" ELSE "wait")
  /\ UNCHANGED <<client, thread, mutexStart, startSem, timerMutex, workerStop,
                 timers, late>>

WorkerTick(k) ==
  /\ WorkerGoto(k, "wait", "sample")
  /\ ~timerMutex[k]
  /\ timerMutex' = [timerMutex EXCEPT ![k] = TRUE]
  /\ UNCHANGED <<client, thread, mutexStart, startSem, workerStop, timers, late>>

\* measure() and the sums of one round.
WorkerSample(k) ==
  /\ WorkerGoto(k, "sample", "loop")
  /\ late' = [late EXCEPT ![k] =
                IF workerStop[k] /\ @ < MaxLate THEN @ + 1 ELSE @]
  /\ UNCHANGED <<client, thread, mutexStart, startSem, timerMutex, workerStop,
                 timers>>

Worker(k) ==
  \/ WorkerBegin(k) \/ WorkerLock(k) \/ WorkerReport(k) \/ WorkerGate(k)
  \/ WorkerFirst(k) \/ WorkerLoop(k) \/ WorkerTick(k) \/ WorkerSample(k)

-----------------------------------------------------------------------------
(* A timer thread: CMeasureThreadTimer::run.                               *)

\* run() clears the flag that stop() may already have set.
TimerBegin(k) ==
  /\ TimerGoto(k, "boot", "gate")
  /\ timerStop' = [timerStop EXCEPT ![k] = FALSE]
  /\ UNCHANGED <<client, thread, mutexStart, startSem, timerMutex, workers>>

TimerGate(k) ==
  /\ TimerGoto(k, "gate", "loop")
  /\ startSem > 0
  /\ startSem' = startSem - 1
  /\ UNCHANGED <<client, thread, mutexStart, timerMutex, workers, timerStop>>

TimerLoop(k) ==
  /\ TimerGoto(k, "loop", IF timerStop[k] THEN "done" ELSE "sleep")
  /\ UNCHANGED <<client, thread, mutexStart, startSem, timerMutex, workers,
                 timerStop>>

TimerTick(k) ==
  /\ TimerGoto(k, "sleep", "loop")
  /\ timerMutex' = [timerMutex EXCEPT ![k] = FALSE]
  /\ UNCHANGED <<client, thread, mutexStart, startSem, workers, timerStop>>

Timer(k) == TimerBegin(k) \/ TimerGate(k) \/ TimerLoop(k) \/ TimerTick(k)

-----------------------------------------------------------------------------
\* The client has run all the measurements of the bound.
Finished ==
  /\ pc = "ready" /\ cycle = MaxCycles
  /\ UNCHANGED vars

Next ==
  \/ Client
  \/ \E k \in Kind : Worker(k) \/ Timer(k)
  \/ Finished

\* The scheduler runs every thread that can run, and the client goes on.
Fairness ==
  /\ WF_vars(Client)
  /\ \A k \in Kind : WF_vars(Worker(k)) /\ WF_vars(Timer(k))

Spec == Init /\ [][Next]_vars
FairSpec == Spec /\ Fairness

-----------------------------------------------------------------------------
ClientLabel == {"ready", "start", "handshake", "post", "release", "stopTimer",
                "stopWorker", "stopUnlock", "joinTimer", "joinWorker", "fini"}
WorkerLabel == {"none", "boot", "lock", "clear", "gate", "first", "loop",
                "wait", "sample", "done"}
TimerLabel == {"none", "boot", "gate", "loop", "sleep", "done"}

\* Every variable has its type; in particular mStartSem never goes negative.
TypeOK ==
  /\ pc \in ClientLabel
  /\ i \in Kind
  /\ cycle \in 0 .. MaxCycles
  /\ thread \subseteq Kind
  /\ mutexStart \in [Kind -> BOOLEAN]
  /\ startSem \in Nat
  /\ timerMutex \in [Kind -> BOOLEAN]
  /\ worker \in [Kind -> WorkerLabel]
  /\ workerStop \in [Kind -> BOOLEAN]
  /\ timer \in [Kind -> TimerLabel]
  /\ timerStop \in [Kind -> BOOLEAN]
  /\ late \in [Kind -> 0 .. MaxLate]

WorkerUnprepared == {"none", "boot", "lock", "clear"}
WorkerMeasuring == {"first", "loop", "wait", "sample"}
TimerGoing == {"loop", "sleep"}
Stopping == {"stopTimer", "stopWorker", "stopUnlock"}
Joining == {"joinTimer", "joinWorker"}

\* ms_stop_measurement is through with kind k.
StoppedKind(k) == pc \in Joining \cup {"fini"} \/ (pc \in Stopping /\ k < i)

\* mgmt.cpp posts the start semaphore only after every worker reported, so in
\* the first measurement on an MS_SYSTEM whoever measures or ticks does so
\* when all the workers have cleared their struct: nobody starts early.
StartsTogether ==
  cycle <= 1 =>
    ((\E k \in Active : worker[k] \in WorkerMeasuring \/ timer[k] \in TimerGoing)
       => \A k \in Active : worker[k] \notin WorkerUnprepared)

\* run() clears mThreadStateStop of a worker before it reports, so once
\* ms_stop_measurement has set it for a kind it stays set until the objects
\* are deleted.
WorkerStopKept == \A k \in Active : StoppedKind(k) => workerStop[k]

\* Being told to stop costs at most one more round of a worker, the sample
\* that the unlock of CMeasureAbstractThread::stop lets through.
OneLateRound == \A k \in Kind : late[k] <= 1

\* When ms_join_measurement has returned every thread is finished, and so
\* nothing writes to the results the caller reads next, nor runs on a thread
\* object that ms_fini_measurement has deleted.
ResultsFinal ==
  pc \in {"fini", "ready"} =>
    \A k \in Kind : worker[k] \in {"none", "done"} /\ timer[k] \in {"none", "done"}

\* A worker that still waits for a tick when ms_stop_measurement is through
\* with it can take its mutex: the unlock of CMeasureAbstractThread::stop is
\* not lost, even if the timer never ticks again.
WaiterReleased ==
  \A k \in Active : worker[k] = "wait" /\ StoppedKind(k) => ~timerMutex[k]

\* Every measurement that is set up runs and comes to an end: neither the
\* handshake with the workers and stubs nor the join of the threads blocks.
MeasurementCompletes == (pc = "start") ~> (pc = "ready")

\* Each worker that is told to stop ends, even where its timer does not and
\* ms_join_measurement waits for ever.
WorkersEnd ==
  \A k \in Kind : (pc \in Joining /\ k \in Active) ~> (worker[k] \in {"none", "done"})

-----------------------------------------------------------------------------
(* What a measurement promises its caller: MeasurementSession.             *)

SessionPhase(k) ==
  CASE k \notin Active -> "idle"
    [] k \in Active /\ worker[k] \in WorkerUnprepared -> "preparing"
    [] k \in Active /\ worker[k] = "gate" -> "armed"
    [] k \in Active /\ worker[k] \in WorkerMeasuring -> "measuring"
    [] OTHER -> "finished"

SessionOpen == pc \notin {"ready", "start", "handshake", "post"}

SessionEnding ==
  pc \in {"stopWorker", "stopUnlock", "fini"} \cup Joining
    \/ (pc = "stopTimer" /\ i > 1)

Session == INSTANCE MeasurementSession
             WITH phase <- [k \in Kind |-> SessionPhase(k)],
                  open <- SessionOpen, ending <- SessionEnding

\* The first measurement on an MS_SYSTEM implements MeasurementSession:
\* the threads of all the kinds start behind one gate and end before the
\* results are handed out.
SessionSpec == Session!Spec
=============================================================================
