---------------------------- MODULE HettimeProofs ----------------------------
(* Theorems about MeasureThreads, first, for every number of kinds, every   *)
(* set of real plugins and every number of measurements on one MS_SYSTEM;   *)
(* and then about its users Hettime and Wrappers, for every number of kinds *)
(* and of runs, every plugin, all settings and whatever power the machine   *)
(* draws.                                                                   *)
EXTENDS Wrappers, FiniteSetTheorems, TLAPS

(***************************************************************************)
(* The inductive invariant, in parts.                                      *)
(***************************************************************************)

\* Where a loop over the kinds has ended, the cursor is back at the first.
CursorInv ==
  /\ pc \in {"ready", "post", "release", "fini"} => i = 1
  /\ pc \in {"stopWorker", "stopUnlock"} => i \in Active
  /\ pc = "ready" => thread = {}
  /\ cycle = 0 => pc = "ready"

\* Exactly the active kinds the first loop has passed have their threads.
CreatedInv ==
  \A k \in Kind :
    /\ (worker[k] = "none") = (k \notin Active \/ (pc = "start" /\ k >= i))
    /\ (timer[k] = "none") = (k \notin Active \/ (pc = "start" /\ k >= i))

\* A worker that has not reported holds up the handshake at its start mutex.
HandshakeInv ==
  \A k \in Kind :
    worker[k] \in {"boot", "lock", "clear"} =>
      /\ mutexStart[k]
      /\ \/ pc = "start" /\ k < i
         \/ pc = "handshake" /\ k >= i

\* In the first measurement the gate is shut until the tokens are posted.
GateInv ==
  (cycle = 0 \/ (cycle = 1 /\ pc \in {"start", "handshake", "post"})) =>
    /\ startSem = 0
    /\ \A k \in Kind : /\ worker[k] \in WorkerUnprepared \cup {"gate"}
                       /\ timer[k] \in {"none", "boot", "gate"}

\* StopWorker has been executed for kind k.
Told(k) ==
  \/ pc \in Joining \cup {"fini"}
  \/ pc \in Stopping /\ k < i
  \/ pc = "stopUnlock" /\ k = i

\* Past its first step a worker sees the stop flag exactly when told, and
\* only a worker that was told ends.
StopInv ==
  \A k \in Active :
    /\ Told(k) => workerStop[k]
    /\ worker[k] \notin {"none", "boot"} /\ workerStop[k] => Told(k)
    /\ worker[k] = "done" => Told(k)

\* ms_join_measurement passes a kind only when both its threads are done.
JoinInv ==
  \A k \in Active :
    /\ (pc \in Joining /\ k < i) \/ pc = "fini" => worker[k] = "done" /\ timer[k] = "done"
    /\ pc = "joinWorker" /\ k = i => timer[k] = "done"

\* After a late round a worker can only leave its loop.
LateInv ==
  \A k \in Kind :
    late[k] # 0 => late[k] = 1 /\ workerStop[k] /\ worker[k] \in {"loop", "done"}

IInv ==
  /\ TypeOK
  /\ CursorInv
  /\ CreatedInv
  /\ HandshakeInv
  /\ GateInv
  /\ StopInv
  /\ JoinInv
  /\ LateInv
  /\ WaiterReleased

-----------------------------------------------------------------------------
(***************************************************************************)
(* Type correctness.                                                       *)
(***************************************************************************)

\* Every step keeps the types.
LEMMA TypeStep ==
  ASSUME TypeOK, [Next]_vars
  PROVE  TypeOK'
<1> USE NAssumption, RealAssumption, MaxCyclesAssumption
<1> USE DEF TypeOK, ClientLabel, WorkerLabel, TimerLabel, Kind, MaxLate, Posts
<1>1. CASE MsInitMeasurement
  BY <1>1 DEF MsInitMeasurement, Goto, workers, timers
<1>2. CASE StartMeasureThread
  BY <1>2 DEF StartMeasureThread, Loop, workers, timers
<1>3. CASE AwaitHandshake
  BY <1>3 DEF AwaitHandshake, Loop, workers, timers
<1>4. CASE PostStartSem
  BY <1>4 DEF PostStartSem, Goto, workers, timers
<1>5. CASE ReleaseStartMutexes
  BY <1>5 DEF ReleaseStartMutexes, Goto, workers, timers
<1>6. CASE StopTimer
  <2>1. CASE i \in Active
    BY <1>6, <2>1 DEF StopTimer, Goto, workers
  <2>2. CASE i \notin Active
    BY <1>6, <2>2 DEF StopTimer, Loop, workers
  <2>3. QED
    BY <2>1, <2>2
<1>7. CASE StopWorker
  BY <1>7 DEF StopWorker, Goto, workers, timers
<1>8. CASE StopUnlock
  BY <1>8 DEF StopUnlock, Loop, workers, timers
<1>9. CASE JoinTimer
  BY <1>9 DEF JoinTimer, Goto, workers, timers
<1>10. CASE JoinWorker
  BY <1>10 DEF JoinWorker, Loop, workers, timers
<1>11. CASE MsFiniMeasurement
  BY <1>11 DEF MsFiniMeasurement, Goto
<1>12. ASSUME NEW k \in Kind, Worker(k) PROVE TypeOK'
  <2>1. CASE WorkerBegin(k)
    BY <2>1 DEF WorkerBegin, WorkerGoto, client, timers
  <2>2. CASE WorkerLock(k)
    BY <2>2 DEF WorkerLock, WorkerGoto, client, timers
  <2>3. CASE WorkerReport(k)
    BY <2>3 DEF WorkerReport, WorkerGoto, client, timers
  <2>4. CASE WorkerGate(k)
    BY <2>4 DEF WorkerGate, WorkerGoto, client, timers
  <2>5. CASE WorkerFirst(k)
    BY <2>5 DEF WorkerFirst, WorkerGoto, client, timers
  <2>6. CASE WorkerLoop(k)
    BY <2>6 DEF WorkerLoop, WorkerGoto, client, timers
  <2>7. CASE WorkerTick(k)
    BY <2>7 DEF WorkerTick, WorkerGoto, client, timers
  <2>8. CASE WorkerSample(k)
    BY <2>8 DEF WorkerSample, WorkerGoto, client, timers
  <2>9. QED
    BY <1>12, <2>1, <2>2, <2>3, <2>4, <2>5, <2>6, <2>7, <2>8 DEF Worker
<1>13. ASSUME NEW k \in Kind, Timer(k) PROVE TypeOK'
  <2>1. CASE TimerBegin(k)
    BY <2>1 DEF TimerBegin, TimerGoto, client, workers
  <2>2. CASE TimerGate(k)
    BY <2>2 DEF TimerGate, TimerGoto, client, workers
  <2>3. CASE TimerLoop(k)
    BY <2>3 DEF TimerLoop, TimerGoto, client, workers
  <2>4. CASE TimerTick(k)
    BY <2>4 DEF TimerTick, TimerGoto, client, workers
  <2>5. QED
    BY <1>13, <2>1, <2>2, <2>3, <2>4 DEF Timer
<1>14. CASE Finished \/ UNCHANGED vars
  BY <1>14 DEF Finished, vars, client, workers, timers
<1>15. QED
  BY <1>1, <1>2, <1>3, <1>4, <1>5, <1>6, <1>7, <1>8, <1>9, <1>10, <1>11,
     <1>12, <1>13, <1>14 DEF Next, Client

\* Every variable keeps its type, whatever the kinds and the plugins.
THEOREM TypeCorrect == Spec => []TypeOK
<1>1. Init => TypeOK
  BY NAssumption, RealAssumption, MaxCyclesAssumption
     DEF Init, TypeOK, Kind, ClientLabel, WorkerLabel, TimerLabel, MaxLate
<1>2. TypeOK /\ [Next]_vars => TypeOK'
  BY TypeStep
<1>3. QED
  BY <1>1, <1>2, PTL DEF Spec

-----------------------------------------------------------------------------
(***************************************************************************)
(* The invariant is inductive.                                             *)
(***************************************************************************)

\* Before the first ms_init_measurement there are no threads at all.
LEMMA InitInv == Init => IInv
BY NAssumption, RealAssumption, MaxCyclesAssumption
   DEF Init, IInv, TypeOK, Kind, ClientLabel, WorkerLabel, TimerLabel, MaxLate,
       CursorInv, CreatedInv, HandshakeInv, GateInv, StopInv, JoinInv, LateInv,
       WaiterReleased, Active, Joining, Stopping, StoppedKind, Told,
       WorkerUnprepared

\* The steps of the ms_* functions keep the invariant.
LEMMA ClientStep ==
  ASSUME IInv, TypeOK', Client
  PROVE  IInv'
<1> USE NAssumption, RealAssumption DEF IInv, TypeOK, ClientLabel, WorkerLabel,
      TimerLabel, Kind, MaxLate, Active, Joining, Stopping, WorkerUnprepared,
      Told, StoppedKind, Goto, Loop, workers, timers
<1>1. CASE MsInitMeasurement
  BY <1>1 DEF MsInitMeasurement, CursorInv, CreatedInv, HandshakeInv, GateInv,
    StopInv, JoinInv, LateInv, WaiterReleased
<1>2. CASE StartMeasureThread
  <2>1. CreatedInv'
    BY <1>2 DEF StartMeasureThread, CursorInv, CreatedInv, HandshakeInv, GateInv,
      StopInv, JoinInv, LateInv, WaiterReleased
  <2>2. HandshakeInv'
    <3> SUFFICES ASSUME NEW k \in Kind, worker'[k] \in {"boot", "lock", "clear"}
                 PROVE  /\ mutexStart'[k]
                        /\ \/ pc' = "start" /\ k < i'
                           \/ pc' = "handshake" /\ k >= i'
      BY DEF HandshakeInv
    <3>1. CASE k = i
      <4>1. i \in Active
        BY <1>2, <3>1 DEF StartMeasureThread, CreatedInv
      <4>2. mutexStart'[k]
        BY <1>2, <3>1, <4>1 DEF StartMeasureThread
      <4>3. QED
        BY <1>2, <3>1, <4>2 DEF StartMeasureThread
    <3>2. CASE k # i
      BY <1>2, <3>2 DEF StartMeasureThread, HandshakeInv
    <3>3. QED
      BY <3>1, <3>2
  <2>3. StopInv'
    BY <1>2 DEF StartMeasureThread, CursorInv, CreatedInv, HandshakeInv, GateInv,
      StopInv, JoinInv, LateInv, WaiterReleased
  <2>4. GateInv'
    BY <1>2 DEF StartMeasureThread, CursorInv, CreatedInv, HandshakeInv, GateInv,
      StopInv, JoinInv, LateInv, WaiterReleased
  <2>5. CursorInv' /\ JoinInv' /\ LateInv' /\ WaiterReleased'
    BY <1>2 DEF StartMeasureThread, CursorInv, CreatedInv, HandshakeInv, GateInv,
      StopInv, JoinInv, LateInv, WaiterReleased
  <2>6. QED
    BY <2>1, <2>2, <2>3, <2>4, <2>5
<1>3. CASE AwaitHandshake
  <2>1. HandshakeInv'
    <3> SUFFICES ASSUME NEW k \in Kind, worker'[k] \in {"boot", "lock", "clear"}
                 PROVE  /\ mutexStart'[k]
                        /\ \/ pc' = "start" /\ k < i'
                           \/ pc' = "handshake" /\ k >= i'
      BY DEF HandshakeInv
    <3>1. mutexStart[k] /\ k >= i /\ k \in thread
      BY <1>3 DEF AwaitHandshake, CreatedInv, HandshakeInv
    <3>2. k # i
      BY <1>3, <3>1 DEF AwaitHandshake
    <3>3. QED
      BY <1>3, <3>1, <3>2 DEF AwaitHandshake
  <2>2. CreatedInv'
    BY <1>3 DEF AwaitHandshake, CursorInv, CreatedInv, HandshakeInv, GateInv,
      StopInv, JoinInv, LateInv, WaiterReleased
  <2>3. StopInv'
    BY <1>3 DEF AwaitHandshake, CursorInv, CreatedInv, HandshakeInv, GateInv,
      StopInv, JoinInv, LateInv, WaiterReleased
  <2>4. CursorInv' /\ GateInv' /\ JoinInv' /\ LateInv' /\ WaiterReleased'
    BY <1>3 DEF AwaitHandshake, CursorInv, CreatedInv, HandshakeInv, GateInv,
      StopInv, JoinInv, LateInv, WaiterReleased
  <2>5. QED
    BY <2>1, <2>2, <2>3, <2>4
<1>4. CASE PostStartSem
  BY <1>4 DEF PostStartSem, CursorInv, CreatedInv, HandshakeInv, GateInv,
    StopInv, JoinInv, LateInv, WaiterReleased
<1>5. CASE ReleaseStartMutexes
  BY <1>5 DEF ReleaseStartMutexes, CursorInv, CreatedInv, HandshakeInv, GateInv,
    StopInv, JoinInv, LateInv, WaiterReleased
<1>6. CASE StopTimer
  BY <1>6 DEF StopTimer, CursorInv, CreatedInv, HandshakeInv, GateInv,
    StopInv, JoinInv, LateInv, WaiterReleased
<1>7. CASE StopWorker
  BY <1>7 DEF StopWorker, CursorInv, CreatedInv, HandshakeInv, GateInv,
    StopInv, JoinInv, LateInv, WaiterReleased
<1>8. CASE StopUnlock
  BY <1>8 DEF StopUnlock, CursorInv, CreatedInv, HandshakeInv, GateInv,
    StopInv, JoinInv, LateInv, WaiterReleased
<1>9. CASE JoinTimer
  BY <1>9 DEF JoinTimer, CursorInv, CreatedInv, HandshakeInv, GateInv,
    StopInv, JoinInv, LateInv, WaiterReleased
<1>10. CASE JoinWorker
  BY <1>10 DEF JoinWorker, CursorInv, CreatedInv, HandshakeInv, GateInv,
    StopInv, JoinInv, LateInv, WaiterReleased
<1>11. CASE MsFiniMeasurement
  BY <1>11 DEF MsFiniMeasurement, CursorInv, CreatedInv, HandshakeInv, GateInv,
    StopInv, JoinInv, LateInv, WaiterReleased
<1>12. QED
  BY <1>1, <1>2, <1>3, <1>4, <1>5, <1>6, <1>7, <1>8, <1>9, <1>10, <1>11 DEF Client

\* The steps of a worker thread keep the invariant.
LEMMA WorkerStep ==
  ASSUME IInv, TypeOK', NEW k \in Kind, Worker(k)
  PROVE  IInv'
<1> USE NAssumption, RealAssumption DEF IInv, TypeOK, ClientLabel, WorkerLabel,
      TimerLabel, Kind, MaxLate, Active, Joining, Stopping, WorkerUnprepared,
      Told, StoppedKind, WorkerGoto, client, timers
<1>1. CASE WorkerBegin(k)
  BY <1>1 DEF WorkerBegin, CursorInv, CreatedInv, HandshakeInv, GateInv,
    StopInv, JoinInv, LateInv, WaiterReleased
<1>2. CASE WorkerLock(k)
  BY <1>2 DEF WorkerLock, CursorInv, CreatedInv, HandshakeInv, GateInv,
    StopInv, JoinInv, LateInv, WaiterReleased
<1>3. CASE WorkerReport(k)
  BY <1>3 DEF WorkerReport, CursorInv, CreatedInv, HandshakeInv, GateInv,
    StopInv, JoinInv, LateInv, WaiterReleased
<1>4. CASE WorkerGate(k)
  BY <1>4 DEF WorkerGate, CursorInv, CreatedInv, HandshakeInv, GateInv,
    StopInv, JoinInv, LateInv, WaiterReleased
<1>5. CASE WorkerFirst(k)
  BY <1>5 DEF WorkerFirst, CursorInv, CreatedInv, HandshakeInv, GateInv,
    StopInv, JoinInv, LateInv, WaiterReleased
<1>6. CASE WorkerLoop(k)
  BY <1>6 DEF WorkerLoop, CursorInv, CreatedInv, HandshakeInv, GateInv,
    StopInv, JoinInv, LateInv, WaiterReleased
<1>7. CASE WorkerTick(k)
  BY <1>7 DEF WorkerTick, CursorInv, CreatedInv, HandshakeInv, GateInv,
    StopInv, JoinInv, LateInv, WaiterReleased
<1>8. CASE WorkerSample(k)
  <2>1. LateInv'
    BY <1>8 DEF WorkerSample, CursorInv, CreatedInv, HandshakeInv, GateInv,
      StopInv, JoinInv, LateInv, WaiterReleased
  <2>2. StopInv'
    BY <1>8 DEF WorkerSample, CursorInv, CreatedInv, HandshakeInv, GateInv,
      StopInv, JoinInv, LateInv, WaiterReleased
  <2>3. CursorInv' /\ CreatedInv' /\ HandshakeInv' /\ GateInv' /\ JoinInv' /\ WaiterReleased'
    BY <1>8 DEF WorkerSample, CursorInv, CreatedInv, HandshakeInv, GateInv,
      StopInv, JoinInv, LateInv, WaiterReleased
  <2>4. QED
    BY <2>1, <2>2, <2>3
<1>9. QED
  BY <1>1, <1>2, <1>3, <1>4, <1>5, <1>6, <1>7, <1>8 DEF Worker

\* The steps of a timer thread keep the invariant.
LEMMA TimerStep ==
  ASSUME IInv, TypeOK', NEW k \in Kind, Timer(k)
  PROVE  IInv'
<1> USE NAssumption, RealAssumption DEF IInv, TypeOK, ClientLabel, WorkerLabel,
      TimerLabel, Kind, MaxLate, Active, Joining, Stopping, WorkerUnprepared,
      Told, StoppedKind, TimerGoto, client, workers
<1>1. CASE TimerBegin(k)
  BY <1>1 DEF TimerBegin, CursorInv, CreatedInv, HandshakeInv, GateInv,
    StopInv, JoinInv, LateInv, WaiterReleased
<1>2. CASE TimerGate(k)
  BY <1>2 DEF TimerGate, CursorInv, CreatedInv, HandshakeInv, GateInv,
    StopInv, JoinInv, LateInv, WaiterReleased
<1>3. CASE TimerLoop(k)
  <2>1. GateInv'
    BY <1>3 DEF TimerLoop, CursorInv, CreatedInv, HandshakeInv, GateInv,
      StopInv, JoinInv, LateInv, WaiterReleased
  <2>2. CreatedInv'
    BY <1>3 DEF TimerLoop, CursorInv, CreatedInv, HandshakeInv, GateInv,
      StopInv, JoinInv, LateInv, WaiterReleased
  <2>3. CursorInv' /\ HandshakeInv' /\ StopInv' /\ JoinInv' /\ LateInv' /\ WaiterReleased'
    BY <1>3 DEF TimerLoop, CursorInv, CreatedInv, HandshakeInv, GateInv,
      StopInv, JoinInv, LateInv, WaiterReleased
  <2>4. QED
    BY <2>1, <2>2, <2>3
<1>4. CASE TimerTick(k)
  BY <1>4 DEF TimerTick, CursorInv, CreatedInv, HandshakeInv, GateInv,
    StopInv, JoinInv, LateInv, WaiterReleased
<1>5. QED
  BY <1>1, <1>2, <1>3, <1>4 DEF Timer

\* Every step of the client and of the threads keeps the invariant.
LEMMA InvStep ==
  ASSUME IInv, [Next]_vars
  PROVE  IInv'
<1>1. TypeOK'
  BY TypeStep DEF IInv
<1>2. CASE Client
  BY <1>1, <1>2, ClientStep
<1>3. ASSUME NEW k \in Kind, Worker(k) PROVE IInv'
  BY <1>1, <1>3, WorkerStep
<1>4. ASSUME NEW k \in Kind, Timer(k) PROVE IInv'
  BY <1>1, <1>4, TimerStep
<1>5. CASE Finished \/ UNCHANGED vars
  BY <1>5 DEF Finished, vars, client, workers, timers, IInv, TypeOK, CursorInv,
    CreatedInv, HandshakeInv, GateInv, StopInv, JoinInv, LateInv,
    WaiterReleased, Active, StoppedKind, Told
<1>6. QED
  BY <1>2, <1>3, <1>4, <1>5 DEF Next

\* The inductive invariant holds of every measurement on an MS_SYSTEM.
THEOREM Invariance == Spec => []IInv
<1>1. Init => IInv
  BY InitInv
<1>2. IInv /\ [Next]_vars => IInv'
  BY InvStep
<1>3. QED
  BY <1>1, <1>2, PTL DEF Spec

-----------------------------------------------------------------------------
(***************************************************************************)
(* What follows from it.                                                   *)
(***************************************************************************)

\* ms_start_measurement's handshake works: in the first measurement nobody
\* measures or ticks before all the workers are ready.
THEOREM FirstStartTogether == Spec => []StartsTogether
<1>1. IInv => StartsTogether
  <2> SUFFICES ASSUME IInv, cycle <= 1, NEW k \in Active,
                      worker[k] \in WorkerMeasuring \/ timer[k] \in TimerGoing,
                      NEW m \in Active, worker[m] \in WorkerUnprepared
               PROVE  FALSE
    BY DEF StartsTogether
  <2>1. k \in Kind /\ m \in Kind
    BY RealAssumption DEF Active
  <2>2. pc \in {"start", "handshake"}
    BY <2>1 DEF IInv, CreatedInv, HandshakeInv, WorkerUnprepared
  <2>3. cycle = 1
    BY <2>2, MaxCyclesAssumption DEF IInv, TypeOK, CursorInv
  <2>4. /\ worker[k] \in WorkerUnprepared \cup {"gate"}
        /\ timer[k] \in {"none", "boot", "gate"}
    BY <2>1, <2>2, <2>3 DEF IInv, GateInv
  <2>5. QED
    BY <2>4 DEF WorkerMeasuring, TimerGoing, WorkerUnprepared
<1>2. QED
  BY <1>1, Invariance, PTL

\* A worker's stop flag is never lost, though its timer's may be.
THEOREM StopKept == Spec => []WorkerStopKept
<1>1. IInv => WorkerStopKept
  BY DEF IInv, StopInv, WorkerStopKept, StoppedKind, Told, Joining, Stopping
<1>2. QED
  BY <1>1, Invariance, PTL

\* A stopped worker adds at most one round to its results.
THEOREM AtMostOneLateRound == Spec => []OneLateRound
<1>1. IInv => OneLateRound
  BY DEF IInv, TypeOK, LateInv, OneLateRound, MaxLate
<1>2. QED
  BY <1>1, Invariance, PTL

\* The unlock of ms_stop_measurement reaches every worker that waits.
THEOREM WaitersReleased == Spec => []WaiterReleased
<1>1. IInv => WaiterReleased
  BY DEF IInv
<1>2. QED
  BY <1>1, Invariance, PTL

\* Once ms_join_measurement has returned no thread of the measurement runs.
THEOREM JoinedResultsFinal == Spec => []ResultsFinal
<1>1. IInv => ResultsFinal
  <2> SUFFICES ASSUME IInv, pc \in {"fini", "ready"}, NEW k \in Kind
               PROVE  worker[k] \in {"none", "done"} /\ timer[k] \in {"none", "done"}
    BY DEF ResultsFinal
  <2>1. CASE k \in Active
    BY <2>1 DEF IInv, JoinInv, CursorInv, Active
  <2>2. CASE k \notin Active
    BY <2>2 DEF IInv, CreatedInv
  <2>3. QED
    BY <2>1, <2>2
<1>2. QED
  BY <1>1, Invariance, PTL

-----------------------------------------------------------------------------
(***************************************************************************)
(* The first measurement on an MS_SYSTEM implements MeasurementSession.    *)
(***************************************************************************)

\* What a session shows of the client.
LEMMA SessionClientStep ==
  ASSUME IInv, IInv', Client, MaxCycles = 1
  PROVE  [Session!Next]_(Session!vars)
<1> DEFINE ph == [k \in Kind |-> SessionPhase(k)]
<1> USE RealAssumption
<1>1. CASE MsInitMeasurement
  <2>0. PICK flags \in SUBSET Kind : thread' = flags
    BY <1>1 DEF MsInitMeasurement
  <2>1. \A k \in Kind : worker[k] = "none" /\ worker'[k] = "none"
    BY <1>1 DEF MsInitMeasurement, workers, IInv, CursorInv, CreatedInv, Active
  <2>2. \A k \in Kind : ph[k] = "idle"
    BY <1>1 DEF MsInitMeasurement, IInv, CursorInv, Active, SessionPhase
  <2>3. ph' = [k \in Kind |-> IF k \in flags \cap Real THEN "preparing" ELSE "idle"]
    <3>1. \A k \in Kind : SessionPhase(k)' = IF k \in flags \cap Real THEN "preparing" ELSE "idle"
      <4> SUFFICES ASSUME NEW k \in Kind
                   PROVE  SessionPhase(k)' = IF k \in flags \cap Real THEN "preparing" ELSE "idle"
        OBVIOUS
      <4>1. Active' = flags \cap Real
        BY <2>0 DEF Active
      <4>2. CASE k \in flags \cap Real
        <5>1. k \in Active' /\ worker'[k] = "none"
          BY <2>1, <4>1, <4>2
        <5>2. QED
          BY <4>2, <5>1 DEF SessionPhase, WorkerUnprepared, WorkerMeasuring
      <4>3. CASE k \notin flags \cap Real
        BY <4>1, <4>3 DEF SessionPhase
      <4>4. QED
        BY <4>2, <4>3
    <3>2. QED
      BY <3>1
  <2>4. UNCHANGED <<SessionOpen, SessionEnding>>
    BY <1>1 DEF MsInitMeasurement, Goto, SessionOpen, SessionEnding, Joining
  <2>5. Session!Prepare
    BY <2>2, <2>3, <2>4 DEF Session!Prepare
  <2>6. QED
    BY <2>5 DEF Session!Next
<1>2. CASE \/ StartMeasureThread \/ AwaitHandshake \/ ReleaseStartMutexes
           \/ StopWorker \/ StopUnlock \/ JoinTimer \/ JoinWorker
  <2>1. thread' = thread
    BY <1>2 DEF StartMeasureThread, AwaitHandshake, ReleaseStartMutexes, StopWorker,
      StopUnlock, JoinTimer, JoinWorker
  <2>2. \A k \in Kind : worker'[k] = worker[k]
                        \/ (worker[k] \in WorkerUnprepared /\ worker'[k] \in WorkerUnprepared)
    <3>1. CASE StartMeasureThread
      <4> SUFFICES ASSUME NEW k \in Kind, worker'[k] # worker[k]
                   PROVE  worker[k] \in WorkerUnprepared /\ worker'[k] \in WorkerUnprepared
        OBVIOUS
      <4>1. k = i /\ i \in Active /\ worker'[k] = "boot"
        BY <3>1 DEF StartMeasureThread, IInv, TypeOK
      <4>2. worker[k] = "none"
        BY <3>1, <4>1 DEF StartMeasureThread, IInv, TypeOK, CreatedInv, Kind
      <4>3. QED
        BY <4>1, <4>2 DEF WorkerUnprepared
    <3>2. CASE AwaitHandshake \/ ReleaseStartMutexes \/ StopWorker
      BY <3>2 DEF AwaitHandshake, ReleaseStartMutexes, StopWorker, workers
    <3>3. CASE StopUnlock \/ JoinTimer \/ JoinWorker
      BY <3>3 DEF StopUnlock, JoinTimer, JoinWorker, workers
    <3>4. QED
      BY <1>2, <3>1, <3>2, <3>3
  <2>3. ph' = ph
    BY <2>1, <2>2 DEF SessionPhase, Active, WorkerUnprepared, WorkerMeasuring
  <2>4. UNCHANGED <<SessionOpen, SessionEnding>>
    BY <1>2, NAssumption DEF StartMeasureThread, AwaitHandshake, ReleaseStartMutexes,
      StopWorker, StopUnlock, JoinTimer, JoinWorker, Goto, Loop, SessionOpen,
      SessionEnding, Joining, IInv, TypeOK, CursorInv, Kind
  <2>5. QED
    BY <2>3, <2>4 DEF Session!vars
<1>3. CASE PostStartSem
  <2>1. \A k \in Kind : ph[k] # "preparing"
    BY <1>3 DEF PostStartSem, IInv, CreatedInv, HandshakeInv, SessionPhase,
      WorkerUnprepared, WorkerMeasuring
  <2>2. ph' = ph
    BY <1>3 DEF PostStartSem, workers, SessionPhase, Active
  <2>3. SessionOpen' = TRUE /\ SessionEnding' = SessionEnding
    BY <1>3 DEF PostStartSem, Goto, SessionOpen, SessionEnding, Joining
  <2>4. Session!Open
    BY <2>1, <2>2, <2>3 DEF Session!Open
  <2>5. QED
    BY <2>4 DEF Session!Next
<1>4. CASE StopTimer
  <2>1. ph' = ph
    BY <1>4 DEF StopTimer, workers, SessionPhase, Active
  <2>2. SessionOpen' = SessionOpen /\ SessionOpen
    BY <1>4 DEF StopTimer, Goto, Loop, SessionOpen
  <2>3. SessionEnding' = TRUE
    BY <1>4, NAssumption DEF StopTimer, Goto, Loop, SessionEnding, Joining, IInv,
      TypeOK, Kind
  <2>4. Session!End
    BY <2>1, <2>2, <2>3 DEF Session!End
  <2>5. QED
    BY <2>4 DEF Session!Next
<1>5. CASE MsFiniMeasurement
  <2>1. \A k \in Kind : ph[k] \in {"idle", "finished"}
    BY <1>5 DEF MsFiniMeasurement, IInv, JoinInv, SessionPhase, WorkerUnprepared,
      WorkerMeasuring
  <2>2. ph' = [k \in Kind |-> "idle"]
    BY <1>5 DEF MsFiniMeasurement, SessionPhase, Active
  <2>3. SessionEnding /\ SessionOpen' = FALSE /\ SessionEnding' = FALSE
    BY <1>5 DEF MsFiniMeasurement, Goto, SessionOpen, SessionEnding, Joining
  <2>4. Session!HandOut
    BY <2>1, <2>2, <2>3 DEF Session!HandOut
  <2>5. QED
    BY <2>4 DEF Session!Next
<1>6. QED
  BY <1>1, <1>2, <1>3, <1>4, <1>5 DEF Client

\* What a session shows of a worker.
LEMMA SessionWorkerStep ==
  ASSUME IInv, IInv', NEW k \in Kind, Worker(k), MaxCycles = 1
  PROVE  [Session!Next]_(Session!vars)
<1> DEFINE ph == [m \in Kind |-> SessionPhase(m)]
<1>1. k \in Active
  BY DEF Worker, WorkerBegin, WorkerLock, WorkerReport, WorkerGate, WorkerFirst,
    WorkerLoop, WorkerTick, WorkerSample, WorkerGoto, IInv, CreatedInv
<1>2. UNCHANGED <<client, thread>>
  BY DEF Worker, WorkerBegin, WorkerLock, WorkerReport, WorkerGate, WorkerFirst,
    WorkerLoop, WorkerTick, WorkerSample
<1>3. UNCHANGED <<SessionOpen, SessionEnding>> /\ Active' = Active
  BY <1>2 DEF client, SessionOpen, SessionEnding, Active
<1>4. ASSUME NEW to \in WorkerLabel, worker' = [worker EXCEPT ![k] = to]
      PROVE  ph' = [ph EXCEPT ![k] = SessionPhase(k)']
  <2>1. \A m \in Kind \ {k} : worker'[m] = worker[m]
    BY <1>4 DEF IInv, TypeOK
  <2>2. \A m \in Kind \ {k} : SessionPhase(m)' = SessionPhase(m)
    BY <1>3, <2>1 DEF SessionPhase
  <2>3. QED
    BY <2>2
<1>5. CASE WorkerReport(k)
  <2>1. ph' = [ph EXCEPT ![k] = SessionPhase(k)']
    BY <1>4, <1>5 DEF WorkerReport, WorkerGoto, WorkerLabel
  <2>2. SessionPhase(k) = "preparing" /\ SessionPhase(k)' = "armed"
    BY <1>1, <1>3, <1>5 DEF WorkerReport, WorkerGoto, SessionPhase, WorkerUnprepared,
      WorkerMeasuring, IInv, TypeOK
  <2>3. Session!Arm(k)
    BY <1>3, <2>1, <2>2 DEF Session!Arm, Session!Step
  <2>4. QED
    BY <2>3 DEF Session!Next
<1>6. CASE WorkerGate(k)
  <2>1. ph' = [ph EXCEPT ![k] = SessionPhase(k)']
    BY <1>4, <1>6 DEF WorkerGate, WorkerGoto, WorkerLabel
  <2>2. SessionPhase(k) = "armed" /\ SessionPhase(k)' = "measuring"
    BY <1>1, <1>3, <1>6 DEF WorkerGate, WorkerGoto, SessionPhase, WorkerUnprepared,
      WorkerMeasuring, IInv, TypeOK
  <2>3. SessionOpen
    BY <1>1, <1>6 DEF WorkerGate, IInv, TypeOK, CursorInv, GateInv, Active, SessionOpen
  <2>4. Session!Measure(k)
    BY <1>3, <2>1, <2>2, <2>3 DEF Session!Measure, Session!Step
  <2>5. QED
    BY <2>4 DEF Session!Next
<1>7. ASSUME WorkerLoop(k), workerStop[k] PROVE [Session!Next]_(Session!vars)
  <2>1. ph' = [ph EXCEPT ![k] = SessionPhase(k)']
    BY <1>4, <1>7 DEF WorkerLoop, WorkerGoto, WorkerLabel
  <2>2. SessionPhase(k) = "measuring" /\ SessionPhase(k)' = "finished"
    BY <1>1, <1>3, <1>7 DEF WorkerLoop, WorkerGoto, SessionPhase, WorkerUnprepared,
      WorkerMeasuring, IInv, TypeOK
  <2>3. SessionEnding
    BY <1>1, <1>7 DEF WorkerLoop, WorkerGoto, IInv, TypeOK, StopInv, Told, Stopping,
      Kind, SessionEnding
  <2>4. Session!Finish(k)
    BY <1>3, <2>1, <2>2, <2>3 DEF Session!Finish, Session!Step
  <2>5. QED
    BY <2>4 DEF Session!Next
<1>8. ASSUME \/ WorkerBegin(k) \/ WorkerLock(k) \/ WorkerFirst(k) \/ WorkerTick(k)
             \/ WorkerSample(k) \/ (WorkerLoop(k) /\ ~workerStop[k])
      PROVE  [Session!Next]_(Session!vars)
  <2>1. /\ ph' = [ph EXCEPT ![k] = SessionPhase(k)']
        /\ SessionPhase(k)' = SessionPhase(k)
    <3>1. PICK to \in WorkerLabel : worker' = [worker EXCEPT ![k] = to]
      BY <1>8 DEF WorkerBegin, WorkerLock, WorkerFirst, WorkerTick, WorkerSample,
        WorkerLoop, WorkerGoto, WorkerLabel
    <3>2. SessionPhase(k)' = SessionPhase(k)
      BY <1>1, <1>3, <1>8 DEF WorkerBegin, WorkerLock, WorkerFirst, WorkerTick,
        WorkerSample, WorkerLoop, WorkerGoto, SessionPhase, WorkerUnprepared,
        WorkerMeasuring, IInv, TypeOK
    <3>3. QED
      BY <1>4, <3>1, <3>2
  <2>2. ph' = ph
    BY <2>1
  <2>3. QED
    BY <1>3, <2>2 DEF Session!vars
<1>9. CASE WorkerLoop(k)
  BY <1>7, <1>8, <1>9
<1>10. QED
  BY <1>5, <1>6, <1>8, <1>9 DEF Worker

\* On its first measurement an MS_SYSTEM implements the abstract session, for
\* every set of kinds, plugins and flags: the gate opens when all are armed,
\* and the results are handed out when all are finished.
THEOREM FirstMeasurementIsSession ==
  ASSUME MaxCycles = 1
  PROVE  Spec => SessionSpec
<1>1. Init => Session!Init
  BY DEF Init, Session!Init, SessionPhase, SessionOpen, SessionEnding, Active, Joining
<1>2. IInv /\ IInv' /\ [Next]_vars => [Session!Next]_(Session!vars)
  <2> SUFFICES ASSUME IInv, IInv', [Next]_vars
               PROVE  [Session!Next]_(Session!vars)
    OBVIOUS
  <2>1. CASE Client
    BY <2>1, SessionClientStep
  <2>2. ASSUME NEW k \in Kind, Worker(k) PROVE [Session!Next]_(Session!vars)
    BY <2>2, SessionWorkerStep
  <2>3. ASSUME NEW k \in Kind, Timer(k) PROVE [Session!Next]_(Session!vars)
    BY <2>3 DEF Timer, TimerBegin, TimerGate, TimerLoop, TimerTick, client, workers,
      Session!vars, SessionPhase, SessionOpen, SessionEnding, Active
  <2>4. CASE Finished \/ UNCHANGED vars
    BY <2>4 DEF Finished, vars, client, workers, Session!vars, SessionPhase,
      SessionOpen, SessionEnding, Active
  <2>5. QED
    BY <2>1, <2>2, <2>3, <2>4 DEF Next
<1>3. QED
  BY <1>1, <1>2, Invariance, PTL DEF Spec, SessionSpec, Session!Spec

-----------------------------------------------------------------------------
(***************************************************************************)
(* The inductive invariant of hettime, in parts.  W is the plugin's worker. *)
(***************************************************************************)

W == worker[Mine]
Before == {"parse", "devices", "alloc"}
After == {"print", "fini", "done", "dead"}
MainLabel == Before \cup After
               \cup {"fork", "created", "start", "wait", "use", "stop"}

\* What main() is at says where libmeasure is.
MainInv ==
  /\ main \in MainLabel
  /\ cycle <= 1
  /\ main \in Before => cycle = 0
  /\ main \in Before \cup After => pc = "ready"
  /\ main \in {"fork", "created"} => pc = "start"
  /\ main = "start" => pc \in {"start", "handshake", "post", "release", "stopTimer"}
  /\ main \in {"wait", "use"} => pc = "stopTimer"
  /\ main \in {"start", "wait", "use"} /\ pc = "stopTimer" => i = 1
  /\ main = "stop" => pc \in Stopping \cup Joining \cup {"fini"}

\* Only the plugin has threads, and there are tokens enough for both.
TokenInv ==
  cycle = 1 /\ pc \in {"release", "fini"} \cup Stopping \cup Joining =>
    startSem >= 2 - (IF W \in WorkerMeasuring \cup {"done"} THEN 1 ELSE 0)
                  - (IF timer[Mine] \in TimerGoing \cup {"done"} THEN 1 ELSE 0)

\* hettime asks for all the kinds, and its child lives while main() waits.
ChildInv ==
  /\ child \in {"none", "waiting", "running", "ended"} /\ sync \in Nat
  /\ main = "fork" => Mine \in thread
  /\ main \in Before \cup {"fork", "created"} => child = "none"
  /\ main \in {"start", "wait"} /\ child # "none" => Mine \in thread
  /\ child = "waiting" => main \in {"start", "wait", "dead"}
  /\ child = "running" => main \in {"wait", "dead"}
  /\ child = "waiting" /\ sync > 0 => main \in {"wait", "dead"}

\* The settings in force while a process measures.
Device ==
  [min : Frequencies, max : Frequencies, governor : Governors,
   persistence : BOOLEAN, clocks : {"default", "min", "cur", "max"}]

DeviceInv ==
  /\ plugin \in Plugin /\ settings \in ARGUMENTS
  /\ device \in Device /\ device.min <= device.max
  /\ DevicesRight

\* Types of what is measured.
Machine == [time : Nat, energy : Nat, busy : Nat, level : Levels]
Measurement ==
  [runtime : Int, last : Int, round : Int, counter : Int, counterTemp : Int,
   busy : Int, busyTemp : Int, busyAcc : Int, power : Nat, serverPower : Nat,
   energy : Int, server : Int, average : {"none", "nan", "number"}]
Seen ==
  [start : Int, energyStart : Int, energyLast : Int, busyStart : Int, busyLast : Int,
   wraps : Int, powers : SUBSET Nat, server : Int, rounds : Int]

MeasuredType == hw \in Machine /\ ms \in Measurement /\ seen \in Seen

\* Nothing is added up before the first reading.
FreshInv ==
  main \notin After /\ W \in WorkerUnprepared \cup {"gate", "first"} =>
    ms = FreshMeasurement /\ seen = NothingSeen

\* Between two rounds the struct holds the reference values of the last
\* reading, and the register of the cpu has not gone round since.
RoundInv ==
  W \in {"loop", "wait", "sample"} =>
    /\ ms.average = "none"
    /\ ms.last <= hw.time
    /\ seen.energyLast <= hw.energy
    /\ hw.energy - seen.energyLast < CounterSize - 1
    /\ plugin = "cpu" =>
         /\ seen.energyLast \in Nat
         /\ ms.counterTemp = seen.energyLast % CounterSize
         /\ ms.counter = ms.counterTemp
         /\ ms.busyTemp = seen.busyLast
         /\ ms.busy = ms.busyTemp

\* The energy lies between those of the lowest and of the highest power.
PowerInv ==
  plugin # "cpu" /\ Summed =>
    /\ ms.runtime = ms.last - seen.start
    /\ ms.runtime >= 0
    /\ ms.runtime = 0 => ms.energy = 0
    /\ ms.runtime > 0 =>
         /\ \E p \in seen.powers : p * ms.runtime <= ms.energy
         /\ \E p \in seen.powers : ms.energy <= p * ms.runtime
    /\ ms.average = "number" => ms.runtime # 0

SumInv == FreshInv /\ RoundInv /\ EnergyCounted /\ PowerInv /\ ServerRounded

HettimeInv ==
  /\ IInv /\ MainInv /\ TokenInv /\ ChildInv
  /\ DeviceInv
  /\ MeasuredType /\ SumInv

\* What is left of a call, and which quantities are counted then.
Left(v, q) == call[v].left = <<q>> \/ call[v].left = <<"energy", "server">>
Calls == {NoCall} \cup [op : {"start", "stop"},
                        left : {<<"energy", "server">>, <<"server">>, <<"energy">>}]

WrappedType ==
  /\ program \in Program
  /\ cell \in [Interval -> [Quantity -> [cur : Int, acc : Int]]]
  /\ started \in [Interval -> BOOLEAN]
  /\ call \in [Interval -> Calls]
  /\ inside \in [Interval -> [Quantity -> [counts : BOOLEAN, sum : Int]]]

\* The worker's additions count from the capture of a start to that of a stop.
Counts(v, q) ==
  /\ plugin # "sys" => ~Left(v, "server")
  /\ q = "server" /\ plugin # "sys" => ~inside[v][q].counts
  /\ q = "energy" \/ plugin = "sys" =>
       inside[v][q].counts = CASE call[v].op = "none" -> started[v]
                               [] call[v].op = "start" -> ~Left(v, q)
                               [] call[v].op = "stop" -> Left(v, q)
  /\ call[v].op = "start" => ~started[v]
  /\ call[v].op = "stop" => started[v]
  /\ program = "python" => call[v] = NoCall

CountsInv == \A v \in Interval, q \in Quantity : Counts(v, q)

\* No interval is in use before the measurement has started.
UnusedInv ==
  main \in Before \cup {"fork", "created", "start"} =>
    \A v \in Interval : call[v] = NoCall /\ ~started[v]

WrapperInv ==
  /\ HettimeInv
  /\ child = "none"
  /\ WrappedType /\ CountsInv /\ UnusedInv /\ IntervalsCounted

-----------------------------------------------------------------------------
(***************************************************************************)
(* The steps of hettime and of a program with a wrapper, by what they do   *)
(* to the threads and to what is measured.                                 *)
(***************************************************************************)

\* A program with a wrapper has no child.
Step == HNext \/ (WNext /\ child = "none" /\ program \in Program) \/ UNCHANGED hvars

\* main() goes on without libmeasure.
Onward ==
  \/ UNCHANGED main
  \/ main \in Before /\ main' \in Before \cup {"dead"}
  \/ main \in {"fork", "created"} /\ main' = "start"
  \/ main = "start" /\ pc = "stopTimer" /\ main' \in {"wait", "use"}
  \/ main \in {"wait", "use"} /\ main' = "stop"
  \/ main \in {"print", "fini"} /\ main' \in {"fini", "done", "dead"}

\* main() and the child go on, and the threads do not.
Quiet == UNCHANGED <<vars, plugin, measured>> /\ Onward

Allocates ==
  /\ main = "alloc" /\ main' \in {"fork", "created"}
  /\ MsInitMeasurement /\ ms' = FreshMeasurement
  /\ UNCHANGED <<plugin, hw, seen>>

Commands == StartMeasuring \/ StopMeasuring

\* exit().
Ends == main' = "dead" /\ ThreadsGone /\ UNCHANGED <<plugin, measured>>

\* Every step is one of these.
LEMMA StepKinds ==
  ASSUME Step
  PROVE  \/ Quiet \/ Allocates \/ Commands \/ Ends
         \/ Threads \/ Elapse \/ NextRun
<1> USE DEF Quiet, Onward, At, GoTo, Before, process
<1>1. CASE Main
  <2>1. CASE RefuseOptions \/ ParseOptions \/ InitSystem
    BY <2>1 DEF RefuseOptions, ParseOptions, InitSystem
  <2>2. CASE InitMeasurement
    BY <2>2 DEF InitMeasurement, Allocates
  <2>3. CASE ForkFails
    BY <2>3 DEF ForkFails, Ends
  <2>4. CASE Fork \/ PostSync \/ WaitForChild \/ PrintResults \/ FiniSystem
    BY <2>4 DEF Fork, PostSync, WaitForChild, PrintResults, FiniSystem
  <2>5. QED
    BY <1>1, <2>1, <2>2, <2>3, <2>4 DEF Main, Commands
<1>2. CASE Child
  BY <1>2 DEF Child, ChildRefused, ChildStarts, ChildEnds
<1>3. CASE WorkerExits
  BY <1>3 DEF WorkerExits, Ends
<1>4. CASE UNCHANGED hvars
  BY <1>4 DEF hvars
<1>5. CASE WNext
  <2>1. CASE WrapperBegins
    BY <2>1 DEF WrapperBegins
  <2>2. CASE WrapperInits
    BY <2>2 DEF WrapperInits, Allocates
  <2>3. CASE WrapperStarts \/ WrapperStarted \/ WrapperStops \/ WrapperFrees
    BY <2>3 DEF WrapperStarts, WrapperStarted, WrapperStops, WrapperFrees
  <2>4. CASE InitSystem \/ FiniSystem
    BY <2>4 DEF InitSystem, FiniSystem
  <2>5. ASSUME NEW v \in Interval, StartsInterval(v) \/ StopsInterval(v) \/ Capture(v)
        PROVE  Quiet
    BY <2>5 DEF StartsInterval, StopsInterval, Capture, hvars
  <2>6. QED
    BY <1>3, <1>5, <2>1, <2>2, <2>3, <2>4, <2>5 DEF WNext, WrapperMain, Commands,
      WrapperThreads
<1>6. QED
  BY <1>1, <1>2, <1>3, <1>4, <1>5 DEF Step, HNext

\* The plugin is the one kind that has threads.
LEMMA MineReal == Real = {Mine} /\ Mine \in Kind
<1>1. IsFiniteSet(Kind)
  BY NAssumption, FS_Interval DEF Kind
<1> IsFiniteSet(Real)
  BY <1>1, RealAssumption, FS_Subset
<1>2. PICK k : Real = {k}
  BY OneRealPlugin, FS_Singleton
<1>3. QED
  BY <1>2, RealAssumption DEF Mine

\* The threads do what MeasureThreads allows, or exit() ends them.
LEMMA ThreadsFollow ==
  ASSUME Step
  PROVE  [Next]_vars \/ ThreadsGone
<1>1. CASE Quiet \/ Elapse
  BY <1>1 DEF Quiet, Elapse
<1>2. CASE Allocates \/ Commands
  BY <1>2 DEF Allocates, Commands, StartMeasuring, StopMeasuring, Next, Client
<1>3. CASE Ends \/ NextRun
  BY <1>3 DEF Ends, NextRun
<1>4. CASE Threads
  BY <1>4, MineReal DEF Threads, ThreadStep, WorkerPrepares, WorkerReadsFirst, WorkerRound,
    WorkerEnds, Next, Worker
<1>5. QED
  BY <1>1, <1>2, <1>3, <1>4, StepKinds

LEMMA GoneInv == ThreadsGone => IInv'
<1>1. Init => IInv
  BY InitInv
<1>2. Init' => IInv'
  BY <1>1, PTL
<1>3. ThreadsGone => Init'
  BY DEF ThreadsGone, Init
<1>4. QED
  BY <1>2, <1>3

LEMMA ThreadsKept == IInv /\ Step => IInv'
BY ThreadsFollow, InvStep, GoneInv

\* What the threads leave alone.
LEMMA ThreadsLeave ==
  ASSUME Threads
  PROVE  /\ UNCHANGED <<pc, i, cycle, thread, process, device, child, sync, hw>>
         /\ \E k \in Kind : Worker(k) \/ Timer(k)
BY MineReal DEF Threads, ThreadStep, WorkerPrepares, WorkerReadsFirst, WorkerRound,
  WorkerEnds, WorkerBegin, WorkerLock, WorkerReport, WorkerGate, WorkerFirst, WorkerLoop,
  WorkerTick, WorkerSample, Timer, TimerBegin, TimerGate, TimerLoop, TimerTick, Worker,
  client, measured

-----------------------------------------------------------------------------
(***************************************************************************)
(* main() and libmeasure.                                                  *)
(***************************************************************************)

LEMMA MainKept ==
  ASSUME IInv, MainInv, Step
  PROVE  MainInv'
<1> USE NAssumption DEF MainInv, MainLabel, Before, After, At, GoTo, Joining, Stopping, Kind
<1>1. CASE Quiet
  BY <1>1 DEF Quiet, Onward, vars, client, IInv, CursorInv
<1>2. CASE Allocates
  BY <1>2 DEF Allocates, MsInitMeasurement, Goto
<1>3. CASE StartMeasuring
  <2>1. CASE StartMeasureThread \/ AwaitHandshake
    BY <1>3, <2>1 DEF StartMeasuring, StartMeasureThread, AwaitHandshake, Loop
  <2>2. CASE PostStartSem \/ ReleaseStartMutexes
    BY <1>3, <2>2 DEF StartMeasuring, PostStartSem, ReleaseStartMutexes, Goto, IInv,
      CursorInv
  <2>3. QED
    BY <1>3, <2>1, <2>2 DEF StartMeasuring
<1>4. CASE StopMeasuring
  <2>1. CASE StopTimer \/ StopWorker \/ StopUnlock
    BY <1>4, <2>1 DEF StopMeasuring, StopTimer, StopWorker, StopUnlock, Loop, Goto
  <2>2. CASE JoinTimer \/ JoinWorker \/ MsFiniMeasurement
    BY <1>4, <2>2 DEF StopMeasuring, JoinTimer, JoinWorker, MsFiniMeasurement, Loop, Goto
  <2>3. QED
    BY <1>4, <2>1, <2>2 DEF StopMeasuring
<1>5. CASE Ends \/ NextRun
  BY <1>5 DEF Ends, NextRun, ThreadsGone
<1>6. CASE Threads
  BY <1>6, ThreadsLeave DEF process
<1>7. CASE Elapse
  BY <1>7 DEF Elapse, process, vars, client
<1>8. QED
  BY <1>1, <1>2, <1>3, <1>4, <1>5, <1>6, <1>7, StepKinds DEF Commands

\* Only the plugin's worker and timer run.
LEMMA OnlyMine ==
  ASSUME IInv, NEW k \in Kind, worker[k] # "none" \/ timer[k] # "none"
  PROVE  k = Mine /\ k \in Active
BY MineReal DEF IInv, CreatedInv, Active

LEMMA TokenKept ==
  ASSUME IInv, MainInv, TokenInv, Step
  PROVE  TokenInv'
<1> USE NAssumption, MineReal DEF TokenInv, W, Joining, Stopping, WorkerMeasuring, TimerGoing
<1>1. CASE Quiet \/ Elapse
  BY <1>1 DEF Quiet, Elapse, vars, client, workers, timers
<1>2. CASE Allocates
  BY <1>2 DEF Allocates, MsInitMeasurement, Goto
<1>3. CASE StartMeasuring
  <2>1. CASE StartMeasureThread \/ AwaitHandshake
    BY <1>3, <2>1 DEF StartMeasureThread, AwaitHandshake, Loop
  <2>2. CASE PostStartSem
    BY <2>2 DEF PostStartSem, Posts, workers, timers, IInv, TypeOK, GateInv, CursorInv,
      WorkerUnprepared
  <2>3. CASE ReleaseStartMutexes
    BY <2>3 DEF ReleaseStartMutexes, workers, timers
  <2>4. QED
    BY <1>3, <2>1, <2>2, <2>3 DEF StartMeasuring
<1>4. CASE StopMeasuring
  <2>1. CASE StopTimer \/ StopWorker \/ StopUnlock
    BY <2>1 DEF StopTimer, StopWorker, StopUnlock, workers, timers
  <2>2. CASE JoinTimer \/ JoinWorker
    BY <2>2 DEF JoinTimer, JoinWorker, workers, timers
  <2>3. CASE MsFiniMeasurement
    BY <2>3 DEF MsFiniMeasurement, Goto
  <2>4. QED
    BY <1>4, <2>1, <2>2, <2>3 DEF StopMeasuring
<1>5. CASE Ends \/ NextRun
  BY <1>5 DEF Ends, NextRun, ThreadsGone
<1>6. CASE Threads
  <2>1. UNCHANGED <<pc, cycle>> /\ startSem \in Int
    BY <1>6, ThreadsLeave DEF IInv, TypeOK
  <2>2. PICK k \in Kind : Worker(k) \/ Timer(k)
    BY <1>6, ThreadsLeave
  <2>3. k = Mine
    BY <2>2, OnlyMine DEF Worker, WorkerBegin, WorkerLock, WorkerReport, WorkerGate, WorkerFirst,
      WorkerLoop, WorkerTick, WorkerSample, WorkerGoto, Timer, TimerBegin, TimerGate,
      TimerLoop, TimerTick, TimerGoto
  <2>4. CASE Worker(k)
    BY <2>1, <2>3, <2>4 DEF Worker, WorkerBegin, WorkerLock, WorkerReport, WorkerGate,
      WorkerFirst, WorkerLoop, WorkerTick, WorkerSample, WorkerGoto, timers, IInv, TypeOK
  <2>5. CASE Timer(k)
    BY <2>1, <2>3, <2>5 DEF Timer, TimerBegin, TimerGate, TimerLoop, TimerTick, TimerGoto,
      workers, IInv, TypeOK
  <2>6. QED
    BY <2>2, <2>4, <2>5
<1>7. QED
  BY <1>1, <1>2, <1>3, <1>4, <1>5, <1>6, StepKinds DEF Commands

LEMMA ChildKept ==
  ASSUME IInv, MainInv, ChildInv, Step
  PROVE  ChildInv'
<1> USE DEF ChildInv, MainInv, MainLabel, Before, After, At, GoTo
<1>1. CASE InitMeasurement \/ WrapperInits
  BY <1>1, MineReal DEF InitMeasurement, WrapperInits, MsInitMeasurement
<1>2. CASE StartMeasuring
  BY <1>2 DEF StartMeasuring, StartMeasureThread, AwaitHandshake, PostStartSem,
    ReleaseStartMutexes
<1>3. CASE StopMeasuring
  BY <1>3 DEF StopMeasuring
<1>4. CASE RefuseOptions \/ ParseOptions \/ InitSystem \/ WrapperBegins
  BY <1>4 DEF RefuseOptions, ParseOptions, InitSystem, WrapperBegins, vars
<1>5. CASE Fork \/ PostSync \/ WaitForChild \/ PrintResults \/ FiniSystem
  BY <1>5 DEF Fork, PostSync, WaitForChild, PrintResults, FiniSystem, vars
<1>6. CASE /\ WrapperStarts \/ WrapperStarted \/ WrapperStops \/ WrapperFrees
           /\ child = "none"
  BY <1>6 DEF WrapperStarts, WrapperStarted, WrapperStops, WrapperFrees, vars
<1>7. CASE Child
  BY <1>7 DEF Child, ChildRefused, ChildStarts, ChildEnds, vars, process
<1>8. CASE ForkFails \/ WorkerExits \/ NextRun
  BY <1>8 DEF ForkFails, WorkerExits, NextRun
<1>9. CASE Threads
  BY <1>9, ThreadsLeave DEF process
<1>10. CASE Elapse \/ UNCHANGED hvars
  BY <1>10 DEF Elapse, hvars, vars, process
<1>11. ASSUME NEW v \in Interval, StartsInterval(v) \/ StopsInterval(v) \/ Capture(v)
       PROVE  UNCHANGED hvars
  BY <1>11 DEF StartsInterval, StopsInterval, Capture
<1>12. QED
  BY <1>1, <1>2, <1>3, <1>4, <1>5, <1>6, <1>7, <1>8, <1>9, <1>10, <1>11
     DEF Step, HNext, Main, WNext, WrapperMain, WrapperThreads

-----------------------------------------------------------------------------
(***************************************************************************)
(* The devices.                                                            *)
(***************************************************************************)

\* A machine's settings that make sense.
Sane(d) == d \in Device /\ d.min <= d.max

LEMMA LimitsExist ==
  /\ Lowest \in Frequencies /\ Highest \in Frequencies
  /\ \A f \in Frequencies : f \in Nat /\ Lowest <= f /\ f <= Highest
BY FrequenciesAssumption DEF Lowest, Highest

LEMMA UntouchedSane == Sane(Untouched)
BY LimitsExist, GovernorsAssumption DEF Sane, Untouched, Device

\* cpufreq never refuses the maximum when the minimum is set before it.
LEMMA MsrInitRight ==
  ASSUME NEW d, Sane(d), NEW s \in ARGUMENTS, NEW o \in MsrInit(d, s)
  PROVE  /\ Sane(o.d)
         /\ o.ok => o.d.max = AskedMax(s) /\ o.d.governor = s.governor
<1> DEFINE lower == ModifyMin(d, AskedMin(s))
           narrowed == ModifyMax(lower, AskedMax(s))
<1>1. CASE o = Exits(d)
  BY <1>1 DEF Exits
<1>2. CASE Offered(s) /\ o = GoesOn([narrowed EXCEPT !.governor = s.governor])
  <2>1. /\ AskedMin(s) \in Frequencies /\ AskedMax(s) \in Frequencies
        /\ AskedMin(s) <= AskedMax(s) /\ s.governor \in Governors
    BY <1>2 DEF Offered
  <2>2. /\ \A f \in Frequencies : f \in Nat
        /\ d \in Device /\ d.min \in Frequencies /\ d.max \in Frequencies
    BY LimitsExist DEF Sane, Device
  <2>3. /\ lower \in Device /\ lower.min <= lower.max
        /\ lower.min <= AskedMax(s)
    BY <2>1, <2>2 DEF ModifyMin, Sane, Device
  <2>4. narrowed = [lower EXCEPT !.max = AskedMax(s)]
    BY <2>3 DEF ModifyMax
  <2>5. o.d = [narrowed EXCEPT !.governor = s.governor] /\ o.ok
    BY <1>2 DEF GoesOn
  <2> HIDE DEF lower, narrowed
  <2>6. QED
    BY <2>1, <2>3, <2>4, <2>5 DEF Sane, Device
<1>3. QED
  BY <1>1, <1>2 DEF MsrInit

\* gpu_management leaves the modes of one of its stages.
LEMMA ToolOutcome ==
  ASSUME NEW d, NEW last, NEW o \in GpuManagement(d, <<last>>)
  PROVE  o.d \in {d, last} /\ (o.ok => o.d = last)
BY DEF GpuManagement, Exits, GoesOn

LEMMA ToolOutcomeOfTwo ==
  ASSUME NEW d, NEW first, NEW last, NEW o \in GpuManagement(d, <<first, last>>)
  PROVE  o.d \in {d, first, last} /\ (o.ok => o.d = last)
BY DEF GpuManagement, Exits, GoesOn

\* Setting modes changes nothing that a cpu is asked for.
LEMMA NvmlInitSane ==
  ASSUME NEW d, Sane(d), NEW s \in ARGUMENTS, NEW o \in NvmlInit(d, s)
  PROVE  Sane(o.d)
<1> DEFINE persistent == [d EXCEPT !.persistence = TRUE]
           Clocked(e) == IF s.clocks = "cur" THEN {GoesOn(e)}
                         ELSE GpuManagement(e, <<[e EXCEPT !.clocks = s.clocks]>>)
<1>1. Sane(persistent)
  BY DEF Sane, Device
<1>2. ASSUME NEW e, Sane(e), NEW x \in Clocked(e) PROVE Sane(x.d)
  <2>1. Sane([e EXCEPT !.clocks = s.clocks])
    BY <1>2 DEF Sane, Device, ARGUMENTS
  <2>2. x.d \in {e, [e EXCEPT !.clocks = s.clocks]}
    BY <1>2, ToolOutcome DEF GoesOn
  <2>3. QED
    BY <1>2, <2>1, <2>2
<1>3. CASE o = Exits(d)
  BY <1>3 DEF Exits
<1>4. ASSUME NEW x \in GpuManagement(d, <<persistent>>),
             o \in IF x.ok THEN Clocked(x.d) ELSE {x}
      PROVE  Sane(o.d)
  <2>1. x.d \in {d, persistent}
    BY <1>4, ToolOutcome
  <2>2. Sane(x.d)
    BY <1>1, <2>1
  <2>3. QED
    BY <1>2, <1>4, <2>2
<1>5. QED
  BY <1>3, <1>4 DEF NvmlInit

\* When gpu_management has succeeded the card is in its normal modes.
LEMMA NvmlDestroyRight ==
  ASSUME NEW d, Sane(d), NEW o \in NvmlDestroy(d)
  PROVE  /\ Sane(o.d)
         /\ o.ok => ~o.d.persistence /\ o.d.clocks = "default"
<1> DEFINE off == [d EXCEPT !.persistence = FALSE]
           reset == [off EXCEPT !.clocks = "default"]
<1>1. Sane(off) /\ Sane(reset) /\ ~reset.persistence /\ reset.clocks = "default"
  BY DEF Sane, Device
<1>2. o.d \in {d, off, reset} /\ (o.ok => o.d = reset)
  BY ToolOutcomeOfTwo DEF NvmlDestroy
<1>3. QED
  BY <1>1, <1>2

LEMMA InitResourceRight ==
  ASSUME NEW p \in Plugin, NEW d, Sane(d), NEW s \in ARGUMENTS,
         NEW o \in InitResource(p, d, s)
  PROVE  /\ Sane(o.d)
         /\ p = "cpu" /\ o.ok => o.d.max = AskedMax(s) /\ o.d.governor = s.governor
<1>1. CASE p = "cpu"
  BY <1>1, MsrInitRight DEF InitResource
<1>2. CASE p = "gpu"
  BY <1>2, NvmlInitSane DEF InitResource
<1>3. CASE p \in {"fpga", "mic", "sys"}
  BY <1>3 DEF InitResource, MaxelerInit, MicInit, IpmiInit, Connect, Exits, GoesOn
<1>4. QED
  BY <1>1, <1>2, <1>3 DEF Plugin

LEMMA FiniResourceRight ==
  ASSUME NEW p \in Plugin, NEW d, Sane(d), NEW o \in FiniResource(p, d)
  PROVE  /\ Sane(o.d)
         /\ p = "gpu" /\ o.ok => ~o.d.persistence /\ o.d.clocks = "default"
<1>1. CASE p = "gpu"
  BY <1>1, NvmlDestroyRight DEF FiniResource
<1>2. CASE p # "gpu"
  BY <1>2 DEF FiniResource, MsrDestroy, MaxelerDestroy, MicDestroy, IpmiDestroy, Exits,
    GoesOn, Plugin
<1>3. QED
  BY <1>1, <1>2

LEMMA WrapperSettingsTyped ==
  ASSUME program \in Program, NEW s \in ARGUMENTS
  PROVE  WrapperSettings(s) \in ARGUMENTS
<1>1. \A x \in ARGUMENTS : [x EXCEPT !.exits = 1] \in ARGUMENTS
  BY DEF ARGUMENTS
<1>2. \A x \in ARGUMENTS : [x EXCEPT !.variant = "full"] \in ARGUMENTS
  BY DEF ARGUMENTS
<1>3. \A x \in ARGUMENTS : [x EXCEPT !.governor = "ondemand", !.clocks = "cur"] \in ARGUMENTS
  BY DEF ARGUMENTS
<1>4. QED
  BY <1>1, <1>2, <1>3 DEF Program, WrapperSettings

LEMMA DeviceKept ==
  ASSUME MainInv, DeviceInv, Step
  PROVE  DeviceInv'
<1>0. Sane(device)
  BY DEF DeviceInv, Sane
<1> USE DEF DeviceInv, DevicesRight, PolicyInForce, GpuRestored, At, GoTo, MainInv, MainLabel,
        Before, After
<1>1. CASE InitSystem
  <2>1. PICK o \in InitResource(plugin, device, settings) :
          device' = o.d /\ main' = IF o.ok THEN "alloc" ELSE "dead"
    BY <1>1 DEF InitSystem
  <2>2. Sane(device') /\ (plugin = "cpu" /\ o.ok =>
                            device'.max = AskedMax(settings) /\ device'.governor = settings.governor)
    BY <1>0, <2>1, InitResourceRight
  <2>3. UNCHANGED <<plugin, settings>>
    BY <1>1 DEF InitSystem
  <2>4. QED
    BY <2>1, <2>2, <2>3 DEF Sane, AskedMax
<1>2. CASE FiniSystem
  <2>1. PICK o \in FiniResource(plugin, device) :
          device' = o.d /\ main' = IF o.ok THEN "done" ELSE "dead"
    BY <1>2 DEF FiniSystem
  <2>2. Sane(device')
        /\ (plugin = "gpu" /\ o.ok => ~device'.persistence /\ device'.clocks = "default")
    BY <1>0, <2>1, FiniResourceRight
  <2>3. UNCHANGED <<plugin, settings>>
    BY <1>2 DEF FiniSystem
  <2>4. QED
    BY <2>1, <2>2, <2>3 DEF Sane
<1>3. CASE ParseOptions
  BY <1>3, SettingsAssumption DEF ParseOptions
<1>4. CASE WrapperBegins /\ program \in Program
  <2>1. PICK s \in Settings[plugin] : settings' = WrapperSettings(s)
    BY <1>4 DEF WrapperBegins
  <2>2. settings' \in ARGUMENTS
    BY <1>4, <2>1, SettingsAssumption, WrapperSettingsTyped
  <2>3. QED
    BY <1>4, <2>2 DEF WrapperBegins
<1>5. CASE NextRun
  BY <1>5 DEF NextRun, NoSettings, ARGUMENTS
<1>6. ASSUME UNCHANGED <<plugin, settings, device>>,
             main' \in {"parse", "devices", "fini", "done", "dead"} =>
               main' = main \/ main' \in {"fini", "dead"},
             main \in {"parse", "devices", "fini", "done", "dead"} =>
               main' \in {main, "dead"}
      PROVE  DeviceInv'
  BY <1>6 DEF AskedMax
<1>7. CASE StartMeasuring \/ StopMeasuring
  BY <1>6, <1>7 DEF StartMeasuring, StopMeasuring
<1>8. CASE RefuseOptions \/ InitMeasurement \/ ForkFails \/ Fork \/ PostSync \/ WaitForChild
           \/ PrintResults
  BY <1>6, <1>8 DEF RefuseOptions, InitMeasurement, ForkFails, Fork, PostSync, WaitForChild,
    PrintResults
<1>9. CASE WrapperInits \/ WrapperStarts \/ WrapperStarted \/ WrapperStops \/ WrapperFrees
  BY <1>6, <1>9 DEF WrapperInits, WrapperStarts, WrapperStarted, WrapperStops, WrapperFrees
<1>10. CASE Child \/ WorkerExits \/ Elapse
  BY <1>6, <1>10 DEF Child, ChildRefused, ChildStarts, ChildEnds, WorkerExits, Elapse, process
<1>11. CASE Threads \/ UNCHANGED hvars
  BY <1>6, <1>11, ThreadsLeave DEF hvars, process
<1>12. ASSUME NEW v \in Interval, StartsInterval(v) \/ StopsInterval(v) \/ Capture(v)
       PROVE  UNCHANGED hvars
  BY <1>12 DEF StartsInterval, StopsInterval, Capture
<1>13. QED
  BY <1>1, <1>2, <1>3, <1>4, <1>5, <1>7, <1>8, <1>9, <1>10, <1>11, <1>12
     DEF Step, HNext, Main, WNext, WrapperMain, WrapperThreads

-----------------------------------------------------------------------------
(***************************************************************************)
(* What is measured.                                                       *)
(***************************************************************************)

\* The outcomes of a round of the worker.
LEMMA MeasureTyped ==
  ASSUME NEW p \in Plugin, NEW h \in Machine, NEW m \in Measurement, NEW r \in Measure(p, m, h)
  PROVE  /\ r \in Measurement
         /\ p = "cpu" => /\ r.counter = h.energy % CounterSize /\ r.busy = h.busy
                         /\ r.counterTemp = m.counterTemp /\ r.busyTemp = m.busyTemp
         /\ r.last = m.last /\ r.runtime = m.runtime
         /\ r.energy = m.energy /\ r.server = m.server /\ r.busyAcc = m.busyAcc
         /\ r.average = m.average
<1>1. CASE p = "cpu"
  <2>1. r = [m EXCEPT !.counter = h.energy % CounterSize, !.busy = h.busy]
    BY <1>1 DEF Measure, MsrMeasure
  <2>2. h.energy % CounterSize \in Int /\ h.busy \in Int
    BY CounterSizeAssumption DEF Machine
  <2>3. QED
    BY <2>1, <2>2 DEF Measurement
<1>2. CASE p \in {"gpu", "fpga", "mic"}
  <2>1. h.level \in Nat
    BY LevelsAssumption DEF Machine
  <2> h.busy \in Int
    BY DEF Machine
  <2>2. r = [m EXCEPT !.power = h.level] \/ r = [m EXCEPT !.power = h.level, !.busy = h.busy]
    BY <1>2 DEF Measure, NvmlMeasure, MaxelerMeasure, MicMeasure
  <2>3. QED
    BY <1>2, <2>1, <2>2 DEF Measurement
<1>3. CASE p = "sys"
  <2>1. h.level \in Nat
    BY LevelsAssumption DEF Machine
  <2>2. PICK board \in {m.power, h.level}, server \in {m.serverPower, h.level} :
          r = [m EXCEPT !.power = board, !.serverPower = server]
    BY <1>3 DEF Measure, IpmiMeasure
  <2>3. board \in Nat /\ server \in Nat
    BY <2>1, <2>2 DEF Measurement
  <2>4. QED
    BY <1>3, <2>2, <2>3 DEF Measurement
<1>4. QED
  BY <1>1, <1>2, <1>3 DEF Plugin

\* The sums of a struct that has just been filled.
LEMMA SumsTyped ==
  ASSUME NEW p \in Plugin, NEW r \in Measurement, NEW e \in Int, NEW x, x = Sums(p, r, e)
  PROVE  /\ x \in Measurement
         /\ x.average = r.average /\ x.last = r.last /\ x.runtime = r.runtime
         /\ p = "cpu" =>
              /\ x.counter = r.counter /\ x.counterTemp = r.counter
              /\ x.busy = r.busy /\ x.busyTemp = r.busy
              /\ x.energy = r.energy + CounterAdvance(r)
              /\ x.busyAcc = r.busyAcc + r.busy - r.busyTemp
         /\ p # "cpu" => x.power = r.power /\ x.energy = r.energy + r.power * e
         /\ p = "sys" =>
              /\ x.serverPower = r.serverPower
              /\ x.server = r.server + (r.serverPower * e) \div Second
         /\ p # "sys" => x.server = r.server
<1>1. CASE p = "cpu"
  <2>1. x = [r EXCEPT !.energy = @ + CounterAdvance(r), !.counterTemp = r.counter,
                      !.busyAcc = @ + r.busy - r.busyTemp, !.busyTemp = r.busy]
    BY <1>1 DEF Sums, MsrSums
  <2>2. CounterAdvance(r) \in Int
    BY CounterSizeAssumption DEF CounterAdvance, Measurement
  <2>3. /\ r.energy + CounterAdvance(r) \in Int /\ r.counter \in Int
        /\ r.busyAcc + r.busy - r.busyTemp \in Int /\ r.busy \in Int
    BY <2>2 DEF Measurement
  <2>4. x \in Measurement
    <3>1. \A n, b \in Int : [r EXCEPT !.energy = n, !.counterTemp = r.counter,
                                      !.busyAcc = b, !.busyTemp = r.busy] \in Measurement
      BY DEF Measurement
    <3>2. QED
      BY <2>1, <2>3, <3>1
  <2>5. QED
    BY <1>1, <2>1, <2>2, <2>4 DEF Measurement
<1>2. CASE p \in {"gpu", "fpga"}
  <2>1. x = [r EXCEPT !.energy = @ + r.power * e]
    BY <1>2 DEF Sums, NvmlSums, MaxelerSums
  <2>2. r.power * e \in Int
    BY DEF Measurement
  <2>3. QED
    BY <1>2, <2>1, <2>2 DEF Measurement
<1>3. CASE p = "mic"
  <2>1. x = [r EXCEPT !.energy = @ + r.power * e,
                      !.busyAcc = @ + r.busy - r.busyTemp, !.busyTemp = r.busy]
    BY <1>3 DEF Sums, MicSums
  <2>2. r.power * e \in Int
    BY DEF Measurement
  <2>3. /\ r.energy + r.power * e \in Int
        /\ r.busyAcc + r.busy - r.busyTemp \in Int /\ r.busy \in Int
    BY <2>2 DEF Measurement
  <2>4. x \in Measurement
    <3>1. \A n, b \in Int : [r EXCEPT !.energy = n, !.busyAcc = b, !.busyTemp = r.busy]
                              \in Measurement
      BY DEF Measurement
    <3>2. QED
      BY <2>1, <2>3, <3>1
  <2>5. QED
    BY <1>3, <2>1, <2>2, <2>4 DEF Measurement
<1>4. CASE p = "sys"
  <2>1. x = [r EXCEPT !.energy = @ + r.power * e,
                      !.server = @ + (r.serverPower * e) \div Second]
    BY <1>4 DEF Sums, IpmiSums
  <2>2. r.power * e \in Int
    BY DEF Measurement
  <2>3. r.serverPower * e \in Int
    BY DEF Measurement
  <2>4. (r.serverPower * e) \div Second \in Int
    BY <2>3, SecondAssumption
  <2>5. /\ r.energy + r.power * e \in Int
        /\ r.server + (r.serverPower * e) \div Second \in Int
    BY <2>2, <2>4 DEF Measurement
  <2>6. x \in Measurement
    <3>1. \A n, b \in Int : [r EXCEPT !.energy = n, !.server = b] \in Measurement
      BY DEF Measurement
    <3>2. QED
      BY <2>1, <2>5, <3>1
  <2>7. QED
    BY <1>4, <2>1, <2>2, <2>4, <2>6 DEF Measurement
<1>5. QED
  BY <1>1, <1>2, <1>3, <1>4 DEF Plugin

\* What a round leaves in the struct, read or not.
LEMMA RoundOutcome ==
  ASSUME NEW p \in Plugin, NEW h \in Machine, NEW m \in Measurement, NEW s \in ARGUMENTS,
         SumsUp(p, s), NEW x \in Round(p, m, h, s)
  PROVE  /\ x \in Measurement
         /\ x.average = m.average /\ x.last = h.time
         /\ x.runtime = m.runtime + (h.time - m.last)
         /\ p = "cpu" =>
              /\ x.counter = IF m.round = 0 THEN h.energy % CounterSize ELSE m.counter
              /\ x.busy = IF m.round = 0 THEN h.busy ELSE m.busy
              /\ x.counterTemp = x.counter /\ x.busyTemp = x.busy
              /\ x.energy = m.energy
                   + IF x.counter >= m.counterTemp THEN x.counter - m.counterTemp
                     ELSE CounterSize - 1 + x.counter - m.counterTemp
              /\ x.busyAcc = m.busyAcc + x.busy - m.busyTemp
         /\ p # "cpu" => x.energy = m.energy + x.power * (h.time - m.last)
         /\ p = "sys" => x.server = m.server + (x.serverPower * (h.time - m.last)) \div Second
         /\ p # "sys" => x.server = m.server
<1>1. PICK r \in IF m.round = 0 THEN Measure(p, m, h) ELSE {m} :
        x = [Sums(p, AddRuntime(r, h), h.time - r.last) EXCEPT !.round = (@ + 1) % s.exits]
  BY DEF Round
<1> DEFINE a == AddRuntime(r, h)
           e == h.time - m.last
           y == Sums(p, a, e)
<1>2. /\ r \in Measurement
      /\ r.last = m.last /\ r.runtime = m.runtime
      /\ r.energy = m.energy /\ r.server = m.server /\ r.busyAcc = m.busyAcc
      /\ r.average = m.average
  <2>1. CASE m.round = 0
    <3>1. r \in Measure(p, m, h)
      BY <1>1, <2>1
    <3>2. QED
      BY <3>1, MeasureTyped
  <2>2. CASE m.round # 0
    BY <1>1, <2>2
  <2>3. QED
    BY <2>1, <2>2
<1>3. p = "cpu" =>
        /\ r.counter = IF m.round = 0 THEN h.energy % CounterSize ELSE m.counter
        /\ r.busy = IF m.round = 0 THEN h.busy ELSE m.busy
        /\ r.counterTemp = m.counterTemp /\ r.busyTemp = m.busyTemp
  <2>1. ASSUME m.round = 0, p = "cpu"
        PROVE  /\ r.counter = h.energy % CounterSize /\ r.busy = h.busy
               /\ r.counterTemp = m.counterTemp /\ r.busyTemp = m.busyTemp
    <3>1. r \in Measure(p, m, h)
      BY <1>1, <2>1
    <3>2. QED
      BY <2>1, <3>1, MeasureTyped
  <2>2. CASE m.round # 0
    BY <1>1, <2>2
  <2>3. QED
    BY <2>1, <2>2
<1>4. e \in Int /\ h.time \in Int
  BY DEF Machine, Measurement
<1>5. a = [r EXCEPT !.runtime = @ + e, !.last = h.time]
  BY <1>2 DEF AddRuntime
<1> HIDE DEF a, e
<1>6. a \in Measurement
  <2>1. r.runtime + e \in Int
    BY <1>2, <1>4 DEF Measurement
  <2>2. \A n, t \in Int : [r EXCEPT !.runtime = n, !.last = t] \in Measurement
    BY <1>2 DEF Measurement
  <2>3. QED
    BY <1>4, <1>5, <2>1, <2>2
<1>7. y \in Measurement
  BY <1>4, <1>6, SumsTyped
<1>8. x = [y EXCEPT !.round = (@ + 1) % s.exits]
  BY <1>1, <1>2 DEF a, e
<1>9. (y.round + 1) % s.exits \in Int
  BY <1>7 DEF Measurement, ARGUMENTS
<1> HIDE DEF y
<1>10. x \in Measurement
  BY <1>7, <1>8, <1>9 DEF Measurement
<1>11. /\ x.average = y.average /\ x.last = y.last /\ x.runtime = y.runtime
       /\ x.counter = y.counter /\ x.busy = y.busy
       /\ x.counterTemp = y.counterTemp /\ x.busyTemp = y.busyTemp
       /\ x.energy = y.energy /\ x.busyAcc = y.busyAcc
       /\ x.power = y.power /\ x.serverPower = y.serverPower /\ x.server = y.server
  BY <1>7, <1>8 DEF Measurement
<1>12. /\ a.average = r.average /\ a.last = h.time /\ a.runtime = r.runtime + e
       /\ a.counter = r.counter /\ a.counterTemp = r.counterTemp
       /\ a.busy = r.busy /\ a.busyTemp = r.busyTemp
       /\ a.energy = r.energy /\ a.busyAcc = r.busyAcc /\ a.server = r.server
  BY <1>2, <1>5 DEF Measurement
<1>13. CASE p = "cpu"
  <2>1. /\ y.average = a.average /\ y.last = a.last /\ y.runtime = a.runtime
        /\ y.counter = a.counter /\ y.counterTemp = a.counter
        /\ y.busy = a.busy /\ y.busyTemp = a.busy
        /\ y.energy = a.energy + CounterAdvance(a)
    BY <1>4, <1>6, <1>13, SumsTyped DEF y
  <2>2. y.busyAcc = a.busyAcc + a.busy - a.busyTemp
    BY <1>4, <1>6, <1>13, SumsTyped DEF y
  <2>3. y.server = a.server
    BY <1>4, <1>6, <1>13, SumsTyped DEF y
  <2>4. /\ x.counter = IF m.round = 0 THEN h.energy % CounterSize ELSE m.counter
        /\ x.busy = IF m.round = 0 THEN h.busy ELSE m.busy
        /\ x.counterTemp = x.counter /\ x.busyTemp = x.busy
        /\ x.busyAcc = m.busyAcc + x.busy - m.busyTemp
    BY <1>2, <1>3, <1>11, <1>12, <1>13, <2>1, <2>2
  <2>5. x.energy = m.energy + IF x.counter >= m.counterTemp THEN x.counter - m.counterTemp
                              ELSE CounterSize - 1 + x.counter - m.counterTemp
    BY <1>2, <1>3, <1>11, <1>12, <1>13, <2>1 DEF CounterAdvance
  <2>6. QED
    BY <1>2, <1>10, <1>11, <1>12, <1>13, <2>1, <2>3, <2>4, <2>5 DEF e
<1>14. CASE p # "cpu"
  <2>1. /\ y.average = a.average /\ y.last = a.last /\ y.runtime = a.runtime
        /\ y.power = a.power /\ y.energy = a.energy + a.power * e
        /\ p = "sys" => /\ y.serverPower = a.serverPower
                        /\ y.server = a.server + (a.serverPower * e) \div Second
        /\ p # "sys" => y.server = a.server
    BY <1>4, <1>6, <1>14, SumsTyped DEF y
  <2>2. x.energy = m.energy + x.power * e
    BY <1>2, <1>11, <1>12, <2>1
  <2>3. /\ p = "sys" => x.server = m.server + (x.serverPower * e) \div Second
        /\ p # "sys" => x.server = m.server
    BY <1>2, <1>11, <1>12, <2>1
  <2>4. QED
    BY <1>2, <1>10, <1>11, <1>12, <1>14, <2>1, <2>2, <2>3 DEF e
<1>15. QED
  BY <1>13, <1>14

\* The first reading stores the reference values and adds up nothing.
LEMMA FirstOutcome ==
  ASSUME NEW p \in Plugin, NEW h \in Machine, NEW m \in Measurement, NEW x \in FirstReading(p, m, h)
  PROVE  /\ x \in Measurement
         /\ x.last = h.time /\ x.runtime = m.runtime
         /\ x.energy = m.energy /\ x.server = m.server /\ x.busyAcc = m.busyAcc
         /\ x.average = m.average
         /\ p = "cpu" =>
              /\ x.counter = h.energy % CounterSize /\ x.counterTemp = x.counter
              /\ x.busy = h.busy /\ x.busyTemp = x.busy
<1>1. PICK r \in Measure(p, m, h) :
        x = [r EXCEPT !.last = h.time, !.counterTemp = r.counter, !.busyTemp = r.busy]
  BY DEF FirstReading
<1>2. r \in Measurement
  BY <1>1, MeasureTyped
<1>3. h.time \in Int /\ r.counter \in Int /\ r.busy \in Int
  BY <1>2 DEF Machine, Measurement
<1>4. x \in Measurement
  BY <1>1, <1>2, <1>3 DEF Measurement
<1>5. /\ x.last = h.time /\ x.runtime = r.runtime
      /\ x.energy = r.energy /\ x.server = r.server /\ x.busyAcc = r.busyAcc
      /\ x.average = r.average
      /\ x.counter = r.counter /\ x.counterTemp = r.counter
      /\ x.busy = r.busy /\ x.busyTemp = r.busy
  BY <1>1, <1>2 DEF Measurement
<1>6. /\ r.runtime = m.runtime
      /\ r.energy = m.energy /\ r.server = m.server /\ r.busyAcc = m.busyAcc
      /\ r.average = m.average
  BY <1>1, MeasureTyped
<1>7. p = "cpu" => r.counter = h.energy % CounterSize /\ r.busy = h.busy
  BY <1>1, MeasureTyped
<1>8. QED
  BY <1>4, <1>5, <1>6, <1>7

\* What storing the averages changes.
LEMMA AveragesOutcome ==
  ASSUME NEW p \in Plugin, NEW m \in Measurement, NEW s \in ARGUMENTS,
         NEW x, x = StoreAverages(p, m, s)
  PROVE  /\ x \in Measurement
         /\ x.last = m.last /\ x.runtime = m.runtime
         /\ x.energy = m.energy /\ x.server = m.server /\ x.busyAcc = m.busyAcc
         /\ x.average = "number" => m.average = "number" \/ m.runtime # 0
<1>1. CASE ~SumsUp(p, s)
  BY <1>1 DEF StoreAverages
<1>2. CASE SumsUp(p, s) /\ m.runtime = 0
  BY <1>2 DEF StoreAverages, Measurement
<1>3. CASE SumsUp(p, s) /\ m.runtime # 0
  BY <1>3 DEF StoreAverages, Measurement
<1>4. QED
  BY <1>1, <1>2, <1>3

LEMMA FreshTyped ==
  /\ FreshMachine \in Machine /\ FreshMeasurement \in Measurement /\ NothingSeen \in Seen
  /\ FreshMachine.energy = 0 /\ FreshMachine.time = 0
  /\ ClearSums(FreshMeasurement) = FreshMeasurement
<1>1. FreshMachine \in Machine
  BY LevelsAssumption DEF FreshMachine, Machine
<1>2. FreshMeasurement \in Measurement /\ NothingSeen \in Seen
  BY DEF FreshMeasurement, Measurement, NothingSeen, Seen
<1>3. ClearSums(FreshMeasurement) = FreshMeasurement
  <2>1. \A m \in Measurement :
          m.runtime = 0 /\ m.energy = 0 /\ m.busyAcc = 0 /\ m.server = 0 => ClearSums(m) = m
    BY DEF Measurement, ClearSums
  <2>2. QED
    BY <1>2, <2>1 DEF FreshMeasurement
<1>4. QED
  BY <1>1, <1>2, <1>3 DEF FreshMachine

\* A worker that runs does so while libmeasure measures.
LEMMA RunningMain ==
  ASSUME IInv, MainInv, W \notin {"none", "done"}
  PROVE  pc # "ready" /\ main \notin Before \cup After
<1>1. pc # "ready"
  BY MineReal DEF IInv, CursorInv, CreatedInv, Active, W
<1>2. QED
  BY <1>1 DEF MainInv

\* A step that leaves the measurement alone.
LEMMA Still ==
  ASSUME MeasuredType, SumInv, UNCHANGED <<plugin, measured>>,
         W' \in {"loop", "wait", "sample"} => W \in {"loop", "wait", "sample"},
         main' \notin After /\ W' \in WorkerUnprepared \cup {"gate", "first"} =>
           main \notin After /\ W \in WorkerUnprepared \cup {"gate", "first"}
  PROVE  MeasuredType' /\ SumInv'
<1>1. UNCHANGED <<plugin, hw, ms, seen>>
  BY DEF measured
<1>2. MeasuredType' /\ FreshInv'
  BY <1>1 DEF MeasuredType, SumInv, FreshInv
<1>3. RoundInv'
  BY <1>1 DEF SumInv, RoundInv
<1>4. Summed' => Summed
  BY <1>1 DEF Summed, W
<1>5. EnergyCounted' /\ PowerInv'
  BY <1>1, <1>4 DEF SumInv, EnergyCounted, PowerInv
<1>6. ServerRounded'
  BY <1>1 DEF SumInv, ServerRounded
<1>7. QED
  BY <1>2, <1>3, <1>5, <1>6 DEF SumInv

LEMMA QuietSums ==
  ASSUME IInv, MainInv, MeasuredType, SumInv, Quiet \/ Commands \/ Ends \/ ThreadStep
  PROVE  MeasuredType' /\ SumInv'
<1> USE MineReal DEF W
<1>1. CASE Quiet
  BY <1>1, Still DEF Quiet, Onward, vars, workers, After, Before
<1>2. CASE Ends
  BY <1>2, Still DEF Ends, ThreadsGone, After
<1>3. CASE StartMeasuring
  <2>1. /\ main' = "start" /\ main = "start" /\ UNCHANGED <<plugin, measured>>
        /\ worker' = worker \/ \E j \in Kind : worker' = [worker EXCEPT ![j] = "boot"]
                               /\ worker[j] = "none"
    <3> UNCHANGED <<plugin, measured>> /\ main = "start" /\ main' = "start"
      BY <1>3 DEF StartMeasuring, At, GoTo
    <3>1. CASE AwaitHandshake \/ PostStartSem \/ ReleaseStartMutexes
      BY <3>1 DEF AwaitHandshake, PostStartSem, ReleaseStartMutexes, workers
    <3>2. CASE StartMeasureThread /\ i \in Active
      <4>1. i \in Kind /\ worker[i] = "none"
        BY <3>2 DEF StartMeasureThread, IInv, TypeOK, CreatedInv, Kind
      <4>2. worker' = [worker EXCEPT ![i] = "boot"]
        BY <3>2 DEF StartMeasureThread
      <4>3. QED
        BY <4>1, <4>2
    <3>3. CASE StartMeasureThread /\ i \notin Active
      BY <3>3 DEF StartMeasureThread, IInv, TypeOK
    <3>4. QED
      BY <1>3, <3>1, <3>2, <3>3 DEF StartMeasuring
  <2>2. worker \in [Kind -> WorkerLabel]
    BY DEF IInv, TypeOK
  <2>3. W' \in {W, "boot"} /\ (W' # W => W = "none")
    BY <2>1, <2>2
  <2>4. QED
    BY <2>1, <2>3, Still DEF After, WorkerUnprepared
<1>4. CASE StopMeasuring
  <2>1. /\ main' \in {"stop", "print"} /\ main = "stop" /\ UNCHANGED <<plugin, measured>>
        /\ main' = "print" \/ worker' = worker
        /\ W' \in {W, "none"}
    BY <1>4 DEF StopMeasuring, At, GoTo, StopTimer, StopWorker, StopUnlock, JoinTimer,
      JoinWorker, MsFiniMeasurement, Goto, Loop, workers
  <2>2. QED
    BY <2>1, Still DEF After
<1>5. CASE ThreadStep
  <2>1. UNCHANGED <<main, plugin, measured>>
    BY <1>5 DEF ThreadStep, process
  <2>2. worker \in [Kind -> WorkerLabel]
    BY DEF IInv, TypeOK
  <2>3. PICK k \in Kind :
          \/ WorkerBegin(k) \/ WorkerLock(k) \/ WorkerGate(k) \/ WorkerTick(k) \/ Timer(k)
          \/ worker[k] = "loop" /\ ~workerStop[k] /\ WorkerLoop(k)
    BY <1>5 DEF ThreadStep
  <2>4. \/ W' = W
        \/ <<W, W'>> \in {<<"boot", "lock">>, <<"lock", "clear">>, <<"gate", "first">>,
                          <<"wait", "sample">>, <<"loop", "wait">>}
    BY <2>2, <2>3 DEF WorkerBegin, WorkerLock, WorkerGate, WorkerTick, WorkerLoop, WorkerGoto,
      Timer, TimerBegin, TimerGate, TimerLoop, TimerTick, workers
  <2>5. QED
    BY <2>1, <2>4, Still DEF WorkerUnprepared
<1>6. QED
  BY <1>1, <1>2, <1>3, <1>4, <1>5 DEF Commands

\* Where nothing has been added up yet and nothing will be.
LEMMA FreshSums ==
  ASSUME ms' = FreshMeasurement, seen' = NothingSeen, hw' \in Machine,
         W' \notin {"loop", "wait", "sample"}
  PROVE  MeasuredType' /\ SumInv'
<1>1. MeasuredType' /\ FreshInv' /\ RoundInv'
  BY FreshTyped DEF MeasuredType, FreshInv, RoundInv
<1>2. ~Summed'
  BY DEF Summed, W, FreshMeasurement
<1>3. EnergyCounted' /\ PowerInv'
  BY <1>2 DEF EnergyCounted, PowerInv
<1>4. ServerRounded'
  BY SecondAssumption DEF ServerRounded, FreshMeasurement, NothingSeen
<1>5. QED
  BY <1>1, <1>3, <1>4 DEF SumInv

LEMMA BeforeSums ==
  ASSUME IInv, MainInv, MeasuredType, SumInv, Allocates \/ WorkerPrepares \/ NextRun
  PROVE  MeasuredType' /\ SumInv'
<1> USE MineReal DEF W
<1>1. CASE Allocates
  <2>1. W = "none" /\ W' = "none"
    BY <1>1 DEF Allocates, MsInitMeasurement, workers, IInv, CursorInv, CreatedInv, Active
  <2>2. seen = NothingSeen
    BY <1>1, <2>1 DEF Allocates, SumInv, FreshInv, After, WorkerUnprepared
  <2>3. QED
    BY <1>1, <2>1, <2>2, FreshSums DEF Allocates, MeasuredType
<1>2. CASE WorkerPrepares
  <2>1. W = "clear" /\ W' = "gate"
    BY <1>2 DEF WorkerPrepares, WorkerReport, WorkerGoto, IInv, TypeOK
  <2>2. main \notin After
    BY <2>1, RunningMain
  <2>3. ms = FreshMeasurement /\ seen = NothingSeen
    BY <2>1, <2>2 DEF SumInv, FreshInv, WorkerUnprepared
  <2>4. ms' = FreshMeasurement /\ seen' = NothingSeen /\ hw' = hw
    BY <1>2, <2>3, FreshTyped DEF WorkerPrepares
  <2>5. QED
    BY <2>1, <2>4, FreshSums DEF MeasuredType
<1>3. CASE NextRun
  BY <1>3, FreshTyped, FreshSums DEF NextRun, ThreadsGone
<1>4. QED
  BY <1>1, <1>2, <1>3

LEMMA FirstSums ==
  ASSUME IInv, MainInv, DeviceInv, MeasuredType, SumInv, WorkerReadsFirst
  PROVE  MeasuredType' /\ SumInv'
<1> USE MineReal DEF W
<1>1. W = "first" /\ W' = "loop"
  BY DEF WorkerReadsFirst, WorkerFirst, WorkerGoto, IInv, TypeOK
<1>2. main \notin After
  BY <1>1, RunningMain
<1>3. ms = FreshMeasurement /\ seen = NothingSeen
  BY <1>1, <1>2 DEF SumInv, FreshInv
<1>4. /\ ms' \in FirstReading(plugin, ms, hw) /\ UNCHANGED <<plugin, hw>>
      /\ hw \in Machine /\ ms \in Measurement /\ plugin \in Plugin
  BY DEF WorkerReadsFirst, MeasuredType, process, DeviceInv
<1>5. /\ ms' \in Measurement
      /\ ms'.last = hw.time /\ ms'.runtime = 0
      /\ ms'.energy = 0 /\ ms'.server = 0 /\ ms'.busyAcc = 0 /\ ms'.average = "none"
      /\ plugin = "cpu" =>
           /\ ms'.counter = hw.energy % CounterSize /\ ms'.counterTemp = ms'.counter
           /\ ms'.busy = hw.busy /\ ms'.busyTemp = ms'.busy
  BY <1>3, <1>4, FirstOutcome DEF FreshMeasurement
<1>6. hw.time \in Nat /\ hw.energy \in Nat /\ hw.busy \in Nat
  BY <1>4 DEF Machine
<1>7. /\ seen' \in Seen
      /\ seen'.start = hw.time
      /\ seen'.energyStart = hw.energy /\ seen'.energyLast = hw.energy
      /\ seen'.busyStart = hw.busy /\ seen'.busyLast = hw.busy
      /\ seen'.wraps = 0 /\ seen'.server = 0 /\ seen'.rounds = 0
  <2>1. \A t, e, b \in Int :
          [NothingSeen EXCEPT !.start = t, !.energyStart = e, !.energyLast = e,
                              !.busyStart = b, !.busyLast = b] \in Seen
    BY FreshTyped DEF Seen
  <2>2. seen' = [NothingSeen EXCEPT !.start = hw.time,
                   !.energyStart = hw.energy, !.energyLast = hw.energy,
                   !.busyStart = hw.busy, !.busyLast = hw.busy]
    BY DEF WorkerReadsFirst
  <2>3. seen' \in Seen
    <3>1. PICK t, e, b \in Int : t = hw.time /\ e = hw.energy /\ b = hw.busy
      BY <1>6
    <3>2. seen' = [NothingSeen EXCEPT !.start = t, !.energyStart = e, !.energyLast = e,
                                      !.busyStart = b, !.busyLast = b]
      BY <2>2, <3>1
    <3>3. QED
      BY <2>1, <3>2
  <2>4. QED
    BY <2>2, <2>3 DEF NothingSeen
<1>8. MeasuredType'
  BY <1>4, <1>5, <1>7 DEF MeasuredType
<1>9. FreshInv'
  BY <1>1 DEF FreshInv, WorkerUnprepared
<1>10. RoundInv'
  BY <1>4, <1>5, <1>6, <1>7, CounterSizeAssumption DEF RoundInv
<1>11. EnergyCounted' /\ PowerInv'
  BY <1>4, <1>5, <1>6, <1>7 DEF EnergyCounted, PowerInv
<1>12. ServerRounded'
  BY <1>5, <1>7, SecondAssumption DEF ServerRounded
<1>13. QED
  BY <1>8, <1>9, <1>10, <1>11, <1>12 DEF SumInv

\* How far a register goes on that is read before it has gone round wholly.
LEMMA RegisterAdvance ==
  ASSUME NEW C \in Nat \ {0}, NEW a \in Nat, NEW b \in Nat, a <= b, b - a < C,
         NEW r, r = a % C, NEW s, s = b % C
  PROVE  /\ r \in 0 .. C - 1 /\ s \in 0 .. C - 1
         /\ s >= r => s - r = b - a
         /\ s < r => C + s - r = b - a
<1>1. \A x \in Nat : x % C \in 0 .. C - 1 /\ \E q \in Int : x % C = x - q * C
  <2>1. \A x \in Nat : x \div C \in Int
    OBVIOUS
  <2>2. \A x \in Nat : x % C \in 0 .. C - 1
    OBVIOUS
  <2>3. \A x \in Nat : x % C = x - (x \div C) * C
    BY SMTT(30)
  <2>4. QED
    BY <2>1, <2>2, <2>3
<1>2. r \in 0 .. C - 1 /\ s \in 0 .. C - 1
  BY <1>1
<1>3. PICK q \in Int, p \in Int : r = a - q * C /\ s = b - p * C
  BY <1>1
<1>4. b - a = (p - q) * C + s - r
  BY <1>2, <1>3
<1>5. p - q \in {0, 1}
  <2>1. p - q <= -1 => (p - q) * C <= - C
    OBVIOUS
  <2>2. p - q >= 2 => (p - q) * C >= 2 * C
    OBVIOUS
  <2>3. QED
    BY <1>4, <2>1, <2>2
<1>6. (s >= r => s - r = b - a) /\ (s < r => C + s - r = b - a)
  BY <1>4, <1>5
<1>7. QED
  BY <1>2, <1>3, <1>6

\* One more round keeps the energy between that of the lowest and that of
\* the highest power.
LEMMA RoundWithin ==
  ASSUME NEW P \in SUBSET Nat, NEW q \in Nat, NEW R \in Nat, NEW T \in Nat, NEW E \in Int,
         R = 0 => E = 0, R + T > 0,
         R > 0 => (\E p \in P : p * R <= E) /\ (\E p \in P : E <= p * R)
  PROVE  /\ \E p \in P \cup {q} : p * (R + T) <= E + q * T
         /\ \E p \in P \cup {q} : E + q * T <= p * (R + T)
<1>1. CASE R = 0
  <2>1. q * (R + T) = E + q * T
    BY <1>1
  <2>2. q * T \in Int
    OBVIOUS
  <2>3. QED
    BY <2>1, <2>2
<1>2. CASE R > 0
  <2>1. \A p \in Nat : p * (R + T) = p * R + p * T /\ p * R \in Nat /\ p * T \in Nat
    OBVIOUS
  <2>2. \A p, o \in Nat : p <= o => p * R <= o * R /\ p * T <= o * T
    OBVIOUS
  <2>3. PICK p \in P : p * R <= E
    BY <1>2
  <2>4. PICK o \in P : E <= o * R
    BY <1>2
  <2>5. \E l \in P \cup {q} : l * (R + T) <= E + q * T
    <3>1. CASE p <= q
      BY <2>1, <2>2, <2>3, <3>1
    <3>2. CASE q <= p
      BY <2>1, <2>2, <2>3, <3>2
    <3>3. QED
      BY <3>1, <3>2
  <2>6. \E l \in P \cup {q} : E + q * T <= l * (R + T)
    <3>1. CASE o <= q
      BY <2>1, <2>2, <2>4, <3>1
    <3>2. CASE q <= o
      BY <2>1, <2>2, <2>4, <3>2
    <3>3. QED
      BY <3>1, <3>2
  <2>7. QED
    BY <2>5, <2>6
<1>3. QED
  BY <1>1, <1>2

\* What a round of whole units leaves out.
LEMMA UnitsCut ==
  ASSUME NEW x \in Nat
  PROVE  /\ x \div Second \in Int
         /\ (x \div Second) * Second <= x
         /\ x - (x \div Second) * Second <= Second - 1
         /\ x = 0 => x \div Second = 0
BY SecondAssumption

\* A round that sums nothing up.
LEMMA IdleRoundSums ==
  ASSUME IInv, MainInv, MeasuredType, SumInv, WorkerRound, ~SumsUp(plugin, settings)
  PROVE  MeasuredType' /\ SumInv'
<1>1. W = "sample" /\ W' = "loop"
  BY MineReal DEF W, WorkerRound, WorkerSample, WorkerGoto, IInv, TypeOK
<1>2. UNCHANGED <<plugin, measured>>
  BY DEF WorkerRound, Round, process, measured
<1>3. QED
  BY <1>1, <1>2, Still DEF WorkerUnprepared

\* What a round that sums up leaves behind.
LEMMA RoundResult ==
  ASSUME IInv, MainInv, DeviceInv, MeasuredType, SumInv, WorkerRound, SumsUp(plugin, settings),
         NEW T, T = hw.time - ms.last, NEW x, x = ms'.serverPower * T
  PROVE  /\ T \in Nat /\ x \in Nat
         /\ W = "sample" /\ W' = "loop" /\ UNCHANGED <<plugin, settings, hw>>
         /\ ms' \in Round(plugin, ms, hw, settings)
         /\ MeasuredType'
         /\ seen'.start = seen.start
         /\ seen'.energyStart = seen.energyStart /\ seen'.busyStart = seen.busyStart
         /\ seen'.energyLast = IF ms.round = 0 THEN hw.energy ELSE seen.energyLast
         /\ seen'.busyLast = IF ms.round = 0 THEN hw.busy ELSE seen.busyLast
         /\ seen'.wraps = IF ms.round = 0 /\ ms'.counter < ms.counterTemp
                            THEN seen.wraps + 1 ELSE seen.wraps
         /\ seen'.powers = seen.powers \cup {ms'.power}
         /\ seen'.server = seen.server + x
         /\ seen'.rounds = IF T > 0 THEN seen.rounds + 1 ELSE seen.rounds
<1>1. W = "sample" /\ W' = "loop"
  BY MineReal DEF W, WorkerRound, WorkerSample, WorkerGoto, IInv, TypeOK
<1>2. UNCHANGED <<plugin, settings, hw>> /\ ms' \in Round(plugin, ms, hw, settings)
  BY DEF WorkerRound, process
<1>3. /\ plugin \in Plugin /\ settings \in ARGUMENTS
      /\ hw \in Machine /\ ms \in Measurement /\ seen \in Seen
  BY DEF DeviceInv, MeasuredType
<1>4. ms' \in Measurement
  BY <1>2, <1>3, RoundOutcome
<1>5. T \in Nat
  BY <1>1, <1>3 DEF SumInv, RoundInv, Machine, Measurement
<1>6. x \in Nat
  BY <1>4, <1>5 DEF Measurement
<1> DEFINE el == IF ms.round = 0 THEN hw.energy ELSE seen.energyLast
           bl == IF ms.round = 0 THEN hw.busy ELSE seen.busyLast
           wr == IF ms.round = 0 /\ ms'.counter < ms.counterTemp THEN seen.wraps + 1
                 ELSE seen.wraps
           po == seen.powers \cup {ms'.power}
           se == seen.server + x
           ro == IF T > 0 THEN seen.rounds + 1 ELSE seen.rounds
<1>7. seen' = [seen EXCEPT !.energyLast = el, !.busyLast = bl, !.wraps = wr,
                           !.powers = po, !.server = se, !.rounds = ro]
  BY DEF WorkerRound
<1>8. el \in Int /\ bl \in Int
  BY <1>3 DEF Machine, Seen
<1>9. wr \in Int /\ se \in Int /\ ro \in Int
  BY <1>3, <1>6 DEF Seen
<1>10. po \in SUBSET Nat
  BY <1>3, <1>4 DEF Seen, Measurement
<1> HIDE DEF el, bl, wr, po, se, ro
<1>11. seen' \in Seen
  BY <1>3, <1>7, <1>8, <1>9, <1>10 DEF Seen
<1>12. /\ seen'.start = seen.start
       /\ seen'.energyStart = seen.energyStart /\ seen'.busyStart = seen.busyStart
       /\ seen'.energyLast = el /\ seen'.busyLast = bl /\ seen'.wraps = wr
       /\ seen'.powers = po /\ seen'.server = se /\ seen'.rounds = ro
  BY <1>3, <1>7 DEF Seen
<1>13. MeasuredType'
  BY <1>2, <1>3, <1>4, <1>11 DEF MeasuredType
<1>14. QED
  BY <1>1, <1>2, <1>5, <1>6, <1>12, <1>13 DEF el, bl, wr, po, se, ro

LEMMA RoundSums ==
  ASSUME IInv, MainInv, DeviceInv, MeasuredType, SumInv, WorkerRound, SumsUp(plugin, settings)
  PROVE  MeasuredType' /\ SumInv'
<1> DEFINE T == hw.time - ms.last
           x == ms'.serverPower * T
<1>1. /\ plugin \in Plugin /\ settings \in ARGUMENTS
      /\ hw \in Machine /\ ms \in Measurement /\ seen \in Seen
  BY DEF DeviceInv, MeasuredType
<1>2. /\ T \in Nat /\ x \in Nat
      /\ W = "sample" /\ W' = "loop" /\ UNCHANGED <<plugin, settings, hw>>
      /\ ms' \in Round(plugin, ms, hw, settings)
      /\ MeasuredType'
  BY RoundResult
<1>3. /\ seen'.start = seen.start
      /\ seen'.energyStart = seen.energyStart /\ seen'.busyStart = seen.busyStart
      /\ seen'.energyLast = IF ms.round = 0 THEN hw.energy ELSE seen.energyLast
      /\ seen'.busyLast = IF ms.round = 0 THEN hw.busy ELSE seen.busyLast
      /\ seen'.wraps = IF ms.round = 0 /\ ms'.counter < ms.counterTemp
                         THEN seen.wraps + 1 ELSE seen.wraps
  BY RoundResult
<1>4. /\ seen'.powers = seen.powers \cup {ms'.power}
      /\ seen'.server = seen.server + x
      /\ seen'.rounds = IF T > 0 THEN seen.rounds + 1 ELSE seen.rounds
  BY RoundResult
<1>5. ms'.average = ms.average /\ ms'.last = hw.time /\ ms'.runtime = ms.runtime + T
  BY <1>1, <1>2, RoundOutcome
<1>6. plugin = "cpu" =>
        /\ ms'.counter = IF ms.round = 0 THEN hw.energy % CounterSize ELSE ms.counter
        /\ ms'.busy = IF ms.round = 0 THEN hw.busy ELSE ms.busy
        /\ ms'.counterTemp = ms'.counter /\ ms'.busyTemp = ms'.busy
        /\ ms'.energy = ms.energy
             + IF ms'.counter >= ms.counterTemp THEN ms'.counter - ms.counterTemp
               ELSE CounterSize - 1 + ms'.counter - ms.counterTemp
        /\ ms'.busyAcc = ms.busyAcc + ms'.busy - ms.busyTemp
  BY <1>1, <1>2, RoundOutcome
<1>7. /\ plugin # "cpu" => ms'.energy = ms.energy + ms'.power * T
      /\ plugin = "sys" => ms'.server = ms.server + x \div Second
  BY <1>1, <1>2, RoundOutcome
<1>8. /\ RoundInv!2 /\ Summed
      /\ EnergyCounted /\ PowerInv /\ ServerRounded
  BY <1>2 DEF SumInv, RoundInv, Summed, W
<1> HIDE DEF T, x
<1>9. FreshInv'
  BY <1>2 DEF FreshInv, WorkerUnprepared
<1>10. RoundInv'
  BY <1>1, <1>2, <1>3, <1>5, <1>6, <1>8, CounterSizeAssumption DEF RoundInv, Machine
<1>11. EnergyCounted'
  <2>1. SUFFICES ASSUME plugin = "cpu"
                 PROVE  /\ ms'.energy = seen'.energyLast - seen'.energyStart - seen'.wraps
                        /\ ms'.busyAcc = seen'.busyLast - seen'.busyStart
    BY <1>2 DEF EnergyCounted
  <2>2. /\ ms.energy = seen.energyLast - seen.energyStart - seen.wraps
        /\ ms.busyAcc = seen.busyLast - seen.busyStart
    BY <1>8, <2>1 DEF EnergyCounted
  <2>3. /\ seen.energyLast \in Nat /\ hw.energy \in Nat /\ CounterSize \in Nat \ {0}
        /\ seen.energyLast <= hw.energy /\ hw.energy - seen.energyLast < CounterSize
        /\ ms.counterTemp = seen.energyLast % CounterSize
        /\ ms.counter = ms.counterTemp /\ ms.busyTemp = seen.busyLast /\ ms.busy = ms.busyTemp
    BY <1>1, <1>8, <2>1, CounterSizeAssumption DEF Machine
  <2>4. /\ seen.energyStart \in Int /\ seen.wraps \in Int
        /\ seen.busyStart \in Int /\ seen.busyLast \in Int /\ hw.busy \in Int
        /\ ms.counterTemp \in Int /\ ms'.counter \in Int
        /\ ms.energy \in Int /\ hw.energy \in Int /\ seen.energyLast \in Int
    BY <1>1, <1>2 DEF Seen, Machine, Measurement, MeasuredType
  <2>5. ms'.busyAcc = seen'.busyLast - seen'.busyStart
    BY <1>3, <1>6, <2>1, <2>2, <2>3, <2>4
  <2>6. CASE ms.round = 0
    <3>1. ms'.counter = hw.energy % CounterSize
      BY <1>6, <2>1, <2>6
    <3>2. /\ ms'.counter >= ms.counterTemp =>
               ms'.counter - ms.counterTemp = hw.energy - seen.energyLast
          /\ ms'.counter < ms.counterTemp =>
               CounterSize + ms'.counter - ms.counterTemp = hw.energy - seen.energyLast
      BY <2>3, <3>1, RegisterAdvance
    <3>3. CASE ms'.counter >= ms.counterTemp
      <4>1. ms'.energy = ms.energy + (ms'.counter - ms.counterTemp)
        BY <1>6, <2>1, <3>3
      <4>2. seen'.energyLast = hw.energy /\ seen'.wraps = seen.wraps
        BY <1>3, <2>4, <2>6, <3>3
      <4>3. QED
        BY <1>3, <2>2, <2>3, <2>4, <2>5, <3>2, <3>3, <4>1, <4>2
    <3>4. CASE ms'.counter < ms.counterTemp
      <4>1. ms'.energy = ms.energy + (CounterSize - 1 + ms'.counter - ms.counterTemp)
        BY <1>6, <2>1, <2>4, <3>4
      <4>2. seen'.energyLast = hw.energy /\ seen'.wraps = seen.wraps + 1
        BY <1>3, <2>6, <3>4
      <4>3. CounterSize - 1 + ms'.counter - ms.counterTemp = hw.energy - seen.energyLast - 1
        BY <2>3, <2>4, <3>2, <3>4
      <4>4. ms'.energy = ms.energy + (hw.energy - seen.energyLast - 1)
        BY <4>1, <4>3
      <4>5. ms'.energy = hw.energy - seen.energyStart - (seen.wraps + 1)
        BY <2>2, <2>4, <4>4
      <4>6. QED
        BY <1>3, <2>5, <4>2, <4>5
    <3>5. QED
      BY <2>4, <3>3, <3>4
  <2>7. CASE ms.round # 0
    BY <1>3, <1>6, <2>1, <2>2, <2>3, <2>4, <2>5, <2>7
  <2>8. QED
    BY <2>6, <2>7
<1>12. PowerInv'
  <2>1. SUFFICES ASSUME plugin # "cpu"
                 PROVE  PowerInv'
    BY <1>2 DEF PowerInv
  <2>2. /\ ms.runtime = ms.last - seen.start /\ ms.runtime \in Nat
        /\ ms.runtime = 0 => ms.energy = 0
        /\ ms.runtime > 0 =>
             /\ \E p \in seen.powers : p * ms.runtime <= ms.energy
             /\ \E p \in seen.powers : ms.energy <= p * ms.runtime
        /\ ms.average = "none"
    BY <1>1, <1>8, <2>1 DEF PowerInv, Measurement
  <2>3. /\ seen.start \in Int /\ seen.powers \in SUBSET Nat
        /\ hw.time \in Int /\ ms.last \in Int /\ ms.energy \in Int /\ ms'.power \in Nat
    BY <1>1, <1>2 DEF Seen, Machine, Measurement, MeasuredType
  <2>4. ms'.runtime = ms'.last - seen'.start /\ ms'.runtime \in Nat
    BY <1>2, <1>3, <1>5, <2>2, <2>3 DEF T
  <2>5. ms'.runtime = 0 => ms'.energy = 0
    <3>1. SUFFICES ASSUME ms'.runtime = 0 PROVE ms'.energy = 0
      OBVIOUS
    <3>2. T = 0 /\ ms.energy = 0
      BY <1>2, <1>5, <2>2, <3>1
    <3>3. QED
      BY <1>7, <2>1, <2>3, <3>2
  <2>6. ms'.runtime > 0 =>
          /\ \E p \in seen'.powers : p * ms'.runtime <= ms'.energy
          /\ \E p \in seen'.powers : ms'.energy <= p * ms'.runtime
    <3>1. ASSUME ms.runtime + T > 0
          PROVE  /\ \E p \in seen.powers \cup {ms'.power} :
                      p * (ms.runtime + T) <= ms.energy + ms'.power * T
                 /\ \E p \in seen.powers \cup {ms'.power} :
                      ms.energy + ms'.power * T <= p * (ms.runtime + T)
      BY <1>2, <2>2, <2>3, <3>1, RoundWithin
    <3>2. /\ ms'.runtime = ms.runtime + T /\ ms'.energy = ms.energy + ms'.power * T
          /\ seen'.powers = seen.powers \cup {ms'.power}
      BY <1>4, <1>5, <1>7, <2>1
    <3>3. QED
      BY <3>1, <3>2
  <2>7. QED
    BY <1>5, <2>2, <2>4, <2>5, <2>6 DEF PowerInv
<1>13. ServerRounded'
  <2>1. SUFFICES ASSUME plugin = "sys"
                 PROVE  /\ ms'.server * Second <= seen'.server
                        /\ seen'.server - ms'.server * Second <= seen'.rounds * (Second - 1)
    BY <1>2 DEF ServerRounded
  <2>2. /\ ms.server * Second <= seen.server
        /\ seen.server - ms.server * Second <= seen.rounds * (Second - 1)
    BY <1>8, <2>1 DEF ServerRounded
  <2>3. PICK c \in Int : /\ c = x \div Second
                         /\ c * Second <= x /\ x - c * Second <= Second - 1
                         /\ x = 0 => c = 0
    BY <1>2, UnitsCut
  <2>4. Second \in Nat \ {0} /\ ms.server \in Int /\ seen.server \in Int /\ seen.rounds \in Int
    BY <1>1, SecondAssumption DEF Measurement, Seen
  <2>5. ms'.server = ms.server + c
    BY <1>7, <2>1, <2>3
  <2>6. ms'.server * Second = ms.server * Second + c * Second
    BY <2>4, <2>5
  <2>7. ms'.server * Second <= seen'.server
    BY <1>2, <1>4, <2>2, <2>3, <2>4, <2>6
  <2>8. CASE T > 0
    <3>1. seen'.rounds * (Second - 1) = seen.rounds * (Second - 1) + (Second - 1)
      BY <1>4, <2>4, <2>8
    <3>2. QED
      BY <1>2, <1>4, <2>2, <2>3, <2>4, <2>6, <2>7, <3>1
  <2>9. CASE T = 0
    <3>1. x = 0
      BY <1>2, <2>9 DEF x, MeasuredType, Measurement
    <3>2. ms'.server = ms.server
      BY <2>3, <2>4, <2>5, <3>1
    <3>3. seen'.server = seen.server /\ seen'.rounds = seen.rounds
      BY <1>4, <2>4, <2>9, <3>1
    <3>4. QED
      BY <2>2, <3>2, <3>3
  <2>10. QED
    BY <1>2, <2>8, <2>9
<1>14. QED
  BY <1>2, <1>9, <1>10, <1>11, <1>12, <1>13 DEF SumInv

LEMMA EndSums ==
  ASSUME IInv, MainInv, DeviceInv, MeasuredType, SumInv, WorkerEnds
  PROVE  MeasuredType' /\ SumInv'
<1>1. W = "loop" /\ W' = "done"
  BY MineReal DEF W, WorkerEnds, WorkerLoop, WorkerGoto, IInv, TypeOK
<1>2. /\ UNCHANGED <<plugin, hw, seen>> /\ ms' = StoreAverages(plugin, ms, settings)
      /\ plugin \in Plugin /\ settings \in ARGUMENTS
      /\ hw \in Machine /\ ms \in Measurement /\ seen \in Seen
  BY DEF WorkerEnds, process, DeviceInv, MeasuredType
<1>3. /\ ms' \in Measurement
      /\ ms'.last = ms.last /\ ms'.runtime = ms.runtime
      /\ ms'.energy = ms.energy /\ ms'.server = ms.server /\ ms'.busyAcc = ms.busyAcc
      /\ ms'.average = "number" => ms.average = "number" \/ ms.runtime # 0
  BY <1>2, AveragesOutcome
<1>4. Summed /\ ms.average = "none"
  BY <1>1 DEF Summed, W, SumInv, RoundInv
<1>5. MeasuredType' /\ FreshInv' /\ RoundInv'
  BY <1>1, <1>2, <1>3 DEF MeasuredType, FreshInv, RoundInv, WorkerUnprepared
<1>6. EnergyCounted'
  BY <1>2, <1>3, <1>4 DEF SumInv, EnergyCounted
<1>7. PowerInv'
  BY <1>2, <1>3, <1>4 DEF SumInv, PowerInv
<1>8. ServerRounded'
  BY <1>2, <1>3 DEF SumInv, ServerRounded
<1>9. QED
  BY <1>5, <1>6, <1>7, <1>8 DEF SumInv

LEMMA ElapseSums ==
  ASSUME IInv, MainInv, MeasuredType, SumInv, Elapse
  PROVE  MeasuredType' /\ SumInv'
<1>1. PICK level \in Levels :
        /\ hw.energy + level - seen.energyLast < CounterSize - 1
        /\ hw' = [time |-> hw.time + 1, energy |-> hw.energy + level, level |-> level,
                  busy |-> IF level = FreshMachine.level THEN hw.busy ELSE hw.busy + 1]
  BY DEF Elapse
<1>2. UNCHANGED <<main, plugin, ms, seen>> /\ W' = W /\ W = "sample"
  BY DEF Elapse, process, vars, workers, W
<1>3. hw \in Machine /\ ms \in Measurement /\ seen \in Seen /\ level \in Nat
  BY LevelsAssumption DEF MeasuredType
<1>4. hw' \in Machine /\ hw'.time = hw.time + 1 /\ hw'.energy = hw.energy + level
  <2>1. hw.time + 1 \in Nat /\ hw.energy + level \in Nat
    BY <1>3 DEF Machine
  <2>2. (IF level = FreshMachine.level THEN hw.busy ELSE hw.busy + 1) \in Nat
    BY <1>3 DEF Machine
  <2>3. QED
    BY <1>1, <2>1, <2>2 DEF Machine
<1>5. MeasuredType' /\ FreshInv'
  BY <1>2, <1>3, <1>4 DEF MeasuredType, SumInv, FreshInv, WorkerUnprepared
<1>6. RoundInv'
  <2>1. /\ ms.last <= hw.time /\ seen.energyLast <= hw.energy
        /\ hw.energy + level - seen.energyLast < CounterSize - 1
    BY <1>1, <1>2 DEF SumInv, RoundInv
  <2>2. /\ hw.time \in Nat /\ hw.energy \in Nat
        /\ ms.last \in Int /\ seen.energyLast \in Int
    BY <1>3 DEF Machine, Measurement, Seen
  <2>3. ms.last <= hw.time + 1 /\ seen.energyLast <= hw.energy + level
    BY <1>3, <2>1, <2>2
  <2>4. /\ ms'.last <= hw'.time /\ seen'.energyLast <= hw'.energy
        /\ hw'.energy - seen'.energyLast < CounterSize - 1
    BY <1>2, <1>3, <1>4, <2>1, <2>2, <2>3
  <2>5. QED
    BY <1>2, <2>4 DEF SumInv, RoundInv
<1>7. EnergyCounted' /\ PowerInv' /\ ServerRounded'
  BY <1>2 DEF SumInv, EnergyCounted, PowerInv, ServerRounded, Summed, W
<1>8. QED
  BY <1>5, <1>6, <1>7 DEF SumInv

LEMMA SumsKept ==
  ASSUME IInv, MainInv, DeviceInv, MeasuredType, SumInv, Step
  PROVE  MeasuredType' /\ SumInv'
<1>1. Threads => ThreadStep \/ WorkerPrepares \/ WorkerReadsFirst \/ WorkerRound \/ WorkerEnds
  BY DEF Threads
<1>2. QED
  BY <1>1, StepKinds, QuietSums, BeforeSums, FirstSums, IdleRoundSums, RoundSums, EndSums,
    ElapseSums

-----------------------------------------------------------------------------
(***************************************************************************)
(* The theorems about hettime.                                             *)
(***************************************************************************)

\* HettimeInv holds at first, and every step keeps it.
LEMMA HettimeInitInv == HInit => HettimeInv
<1> SUFFICES ASSUME HInit PROVE HettimeInv
  OBVIOUS
<1> USE MineReal DEF HInit, Init, W
<1>1. IInv
  BY InitInv
<1>2. MainInv /\ TokenInv /\ ChildInv
  BY DEF MainInv, MainLabel, Before, After, TokenInv, ChildInv
<1>3. DeviceInv
  BY UntouchedSane DEF DeviceInv, Sane, DevicesRight, PolicyInForce, GpuRestored, NoSettings,
    ARGUMENTS
<1>4. MeasuredType
  BY FreshTyped DEF MeasuredType
<1>5. FreshInv /\ RoundInv /\ ~Summed
  BY DEF FreshInv, RoundInv, Summed, FreshMeasurement
<1>6. EnergyCounted /\ PowerInv
  BY <1>5 DEF EnergyCounted, PowerInv
<1>7. ServerRounded
  BY SecondAssumption DEF ServerRounded, FreshMeasurement, NothingSeen
<1>8. QED
  BY <1>1, <1>2, <1>3, <1>4, <1>5, <1>6, <1>7 DEF HettimeInv, SumInv

LEMMA HettimeStep == HettimeInv /\ Step => HettimeInv'
BY ThreadsKept, MainKept, TokenKept, ChildKept, DeviceKept, SumsKept DEF HettimeInv

\* What hettime does, its threads, its child and its machine included, keeps
\* the invariant, for every plugin and whatever the machine draws.
THEOREM HettimeInvariance == HSpec => []HettimeInv
<1>1. HettimeInv /\ [HNext]_hvars => HettimeInv'
  BY HettimeStep DEF Step
<1>2. QED
  BY <1>1, HettimeInitInv, PTL DEF HSpec

\* The sums in the struct are what the machine used.
LEMMA InvResults == HettimeInv => ResultsExact
<1>1. ASSUME HettimeInv PROVE PowerWithin
  <2>1. SUFFICES ASSUME plugin # "cpu", ms.average = "number"
                 PROVE  /\ ms.runtime = ms.last - seen.start
                        /\ \E p \in seen.powers : p * ms.runtime <= ms.energy
                        /\ \E p \in seen.powers : ms.energy <= p * ms.runtime
    BY DEF PowerWithin
  <2>2. Summed
    BY <2>1 DEF Summed
  <2>3. ms.runtime \in Int
    BY <1>1 DEF HettimeInv, MeasuredType, Measurement
  <2>4. ms.runtime > 0
    BY <1>1, <2>1, <2>2, <2>3 DEF HettimeInv, SumInv, PowerInv
  <2>5. QED
    BY <1>1, <2>1, <2>2, <2>4 DEF HettimeInv, SumInv, PowerInv
<1>2. QED
  BY <1>1 DEF HettimeInv, SumInv, ResultsExact

\* hettime reports what was used: the energy of a cpu to the unit, but for
\* one unit with each turn of its register, the averages of the others
\* between the extremes of the power, and the server's energy to less than
\* one unit a round.
THEOREM HettimeResults == HSpec => []ResultsExact
BY HettimeInvariance, InvResults, PTL

\* A child's program runs only while its measurement does.
LEMMA InvMeasured == HettimeInv => MeasuredWhileRunning
<1> SUFFICES ASSUME HettimeInv, child = "running", main # "dead"
             PROVE  /\ worker[Mine] \notin WorkerUnprepared \cup {"done"}
                    /\ worker[Mine] = "gate" => startSem > 0
                    /\ ~workerStop[Mine]
  BY DEF MeasuredWhileRunning
<1>1. main = "wait" /\ Mine \in Active /\ pc = "stopTimer" /\ i = 1 /\ cycle = 1
  BY MineReal DEF HettimeInv, ChildInv, MainInv, Active, IInv, CursorInv, TypeOK, Before, After
<1>2. W \notin WorkerUnprepared
  BY <1>1, MineReal DEF W, HettimeInv, IInv, CreatedInv, HandshakeInv, WorkerUnprepared
<1>3. ~Told(Mine)
  BY <1>1, MineReal, NAssumption DEF Told, Joining, Stopping, Kind
<1>4. W # "done" /\ ~workerStop[Mine]
  BY <1>1, <1>2, <1>3 DEF W, HettimeInv, IInv, StopInv, TypeOK, WorkerUnprepared
<1>5. W = "gate" => startSem > 0
  BY <1>1 DEF W, HettimeInv, TokenInv, Stopping, WorkerMeasuring, IInv, TypeOK
<1>6. QED
  BY <1>2, <1>4, <1>5 DEF W

\* hettime lets the child go only once its worker is prepared and may pass the
\* gate, and tells the worker to stop only when the child has ended.
THEOREM HettimeMeasures == HSpec => []MeasuredWhileRunning
BY HettimeInvariance, InvMeasured, PTL

\* While a cpu is measured the policy asked for is in force, and a process
\* that ends well leaves a GPU in its normal modes, after any history of
\* processes that ended well or died.
THEOREM HettimeDevices == HSpec => []DevicesRight
<1>1. HettimeInv => DevicesRight
  BY DEF HettimeInv, DeviceInv
<1>2. QED
  BY <1>1, HettimeInvariance, PTL

-----------------------------------------------------------------------------
(***************************************************************************)
(* The programs with a wrapper.                                            *)
(***************************************************************************)

\* The calls one by one: what is captured next, and what is left then.
LEMMA CallCases ==
  ASSUME WrappedType, NEW v \in Interval, call[v] # NoCall
  PROVE  /\ call[v].op \in {"start", "stop"}
         /\ \/ /\ call[v].left = <<"energy", "server">>
               /\ Left(v, "energy") /\ Left(v, "server")
               /\ Head(call[v].left) = "energy" /\ Tail(call[v].left) = <<"server">>
               /\ Tail(call[v].left) # <<>>
            \/ /\ call[v].left = <<"server">>
               /\ ~Left(v, "energy") /\ Left(v, "server")
               /\ Head(call[v].left) = "server" /\ Tail(call[v].left) = <<>>
            \/ /\ call[v].left = <<"energy">>
               /\ Left(v, "energy") /\ ~Left(v, "server")
               /\ Head(call[v].left) = "energy" /\ Tail(call[v].left) = <<>>
<1>1. call[v] \in [op : {"start", "stop"},
                   left : {<<"energy", "server">>, <<"server">>, <<"energy">>}]
  BY DEF WrappedType, Calls
<1>2. CASE call[v].left = <<"energy", "server">>
  BY <1>1, <1>2 DEF Left
<1>3. CASE call[v].left = <<"server">>
  BY <1>1, <1>3 DEF Left
<1>4. CASE call[v].left = <<"energy">>
  BY <1>1, <1>4 DEF Left
<1>5. QED
  BY <1>1, <1>2, <1>3, <1>4

\* What the thread that measures and main() do with the intervals.
LEMMA UncapturedKept ==
  ASSUME WrapperInv, WrapperMain
  PROVE  WrappedType' /\ CountsInv' /\ UnusedInv' /\ IntervalsCounted'
<1> USE DEF At, GoTo
<1>1. UNCHANGED <<plugin, wrapped>>
  BY DEF WrapperMain, WrapperBegins, WrapperInits, WrapperStarts, WrapperStarted, WrapperStops,
    WrapperFrees, InitSystem, StartMeasuring, StopMeasuring, FiniSystem
<1>2. UNCHANGED <<plugin, program, cell, started, call, calls, inside>>
  BY <1>1 DEF wrapped
<1>3. WrappedType' /\ CountsInv'
  BY <1>2 DEF WrapperInv, WrappedType, CountsInv, Counts, Left
<1>4. UnusedInv'
  <2>1. main' \in Before \cup {"fork", "created", "start"} =>
          main \in Before \cup {"fork", "created", "start"}
    BY DEF WrapperMain, WrapperBegins, WrapperInits, WrapperStarts, WrapperStarted,
      WrapperStops, WrapperFrees, InitSystem, StartMeasuring, StopMeasuring, FiniSystem, Before
  <2>2. QED
    BY <1>2, <2>1 DEF WrapperInv, UnusedInv
<1>5. ASSUME WrapperInits PROVE IntervalsCounted'
  <2>1. ASSUME NEW v \in Interval, NEW q \in Quantity
        PROVE  ~inside[v][q].counts
    <3>1. call[v] = NoCall /\ ~started[v]
      BY <1>5 DEF WrapperInits, WrapperInv, UnusedInv, Before
    <3>2. QED
      BY <3>1 DEF WrapperInv, CountsInv, Counts, NoCall, Quantity
  <2>2. SUFFICES ASSUME NEW v \in Interval, NEW q \in Quantity
                 PROVE  /\ program = "task" => TaskCounts(v, q)'
                        /\ program = "node" => NodeCounts(v, q)'
    BY <1>2 DEF IntervalsCounted
  <2>3. program = "task" => TaskCounts(v, q)'
    BY <1>2, <2>1 DEF WrapperInv, IntervalsCounted, TaskCounts, Transfer
  <2>4. program = "node" => NodeCounts(v, q)'
    BY <1>2, <2>1 DEF WrapperInv, IntervalsCounted, NodeCounts
  <2>5. QED
    BY <2>3, <2>4
<1>6. ASSUME ~WrapperInits PROVE IntervalsCounted'
  <2>1. UNCHANGED ms
    BY <1>6 DEF WrapperMain, WrapperBegins, WrapperStarts, WrapperStarted, WrapperStops,
      WrapperFrees, InitSystem, StartMeasuring, StopMeasuring, FiniSystem, measured
  <2>2. ASSUME NEW v \in Interval, NEW q \in Quantity
        PROVE  TaskCounts(v, q)' = TaskCounts(v, q) /\ NodeCounts(v, q)' = NodeCounts(v, q)
    BY <1>2, <2>1 DEF TaskCounts, NodeCounts, Transfer, Total
  <2>3. QED
    BY <1>2, <2>2 DEF WrapperInv, IntervalsCounted
<1>7. QED
  BY <1>3, <1>4, <1>5, <1>6

\* What an interval that is open gets while the worker adds to the sums.
LEMMA CountedKept ==
  ASSUME WrapperInv, WrapperThreads, HettimeInv'
  PROVE  WrappedType' /\ CountsInv' /\ UnusedInv' /\ IntervalsCounted'
<1>1. UNCHANGED <<plugin, program, cell, started, call, calls>>
  <2>1. UNCHANGED plugin
    BY ThreadsLeave DEF WrapperThreads, WorkerExits, Elapse, process
  <2>2. QED
    BY <2>1 DEF WrapperThreads
<1>2. main' = main \/ main' = "dead"
  BY ThreadsLeave DEF WrapperThreads, WorkerExits, Elapse, process, GoTo
<1>3. \A q \in Quantity : Total(ms, q) \in Int /\ Total(ms', q) \in Int
  BY DEF WrapperInv, HettimeInv, MeasuredType, Measurement, Total
<1>4. inside' = [v \in Interval |-> [q \in Quantity |->
        [inside[v][q] EXCEPT !.sum = IF inside[v][q].counts
                                       THEN @ + Total(ms', q) - Total(ms, q) ELSE @]]]
  BY DEF WrapperThreads, Counted
<1>5. ASSUME NEW v \in Interval, NEW q \in Quantity
      PROVE  /\ inside'[v][q] \in [counts : BOOLEAN, sum : Int]
             /\ inside[v][q].sum \in Int
             /\ inside'[v][q].counts = inside[v][q].counts
             /\ inside'[v][q].sum = IF inside[v][q].counts
                                      THEN inside[v][q].sum + Total(ms', q) - Total(ms, q)
                                      ELSE inside[v][q].sum
  <2>1. inside[v][q] \in [counts : BOOLEAN, sum : Int]
    BY DEF WrapperInv, WrappedType
  <2>2. PICK s \in Int : s = IF inside[v][q].counts
                               THEN inside[v][q].sum + Total(ms', q) - Total(ms, q)
                               ELSE inside[v][q].sum
    BY <1>3, <2>1
  <2>3. inside'[v][q] = [inside[v][q] EXCEPT !.sum = s]
    BY <1>4, <2>2
  <2>4. QED
    BY <2>1, <2>2, <2>3
<1>6. WrappedType'
  BY <1>1, <1>4, <1>5 DEF WrapperInv, WrappedType
<1>7. CountsInv'
  <2>1. \A v \in Interval, q \in Quantity :
          inside'[v][q].counts = inside[v][q].counts
    BY <1>5
  <2>2. SUFFICES ASSUME NEW v \in Interval, NEW q \in Quantity PROVE Counts(v, q)'
    BY DEF CountsInv
  <2>3. Counts(v, q)
    BY DEF WrapperInv, CountsInv
  <2>4. /\ call'[v] = call[v] /\ started'[v] = started[v]
        /\ inside'[v][q].counts = inside[v][q].counts
        /\ plugin' = plugin /\ program' = program
    BY <1>1, <2>1
  <2>5. QED
    BY <2>3, <2>4 DEF Counts, Left
<1>8. UnusedInv'
  BY <1>1, <1>2 DEF WrapperInv, UnusedInv, Before
<1>9. IntervalsCounted'
  <2>1. SUFFICES ASSUME NEW v \in Interval, NEW q \in Quantity
                 PROVE  /\ program = "task" => TaskCounts(v, q)'
                        /\ program = "node" => NodeCounts(v, q)'
    BY <1>1 DEF IntervalsCounted
  <2>2. cell[v][q] \in [cur : Int, acc : Int]
    BY DEF WrapperInv, WrappedType
  <2>3. program = "task" => TaskCounts(v, q)'
    <3>1. program = "task" => TaskCounts(v, q)
      BY DEF WrapperInv, IntervalsCounted
    <3>2. QED
      BY <1>1, <1>3, <1>5, <2>2, <3>1 DEF TaskCounts, Transfer
  <2>4. program = "node" => NodeCounts(v, q)'
    <3>1. program = "node" => NodeCounts(v, q)
      BY DEF WrapperInv, IntervalsCounted
    <3>2. QED
      BY <1>1, <1>3, <1>5, <2>2, <3>1 DEF NodeCounts
  <2>5. QED
    BY <2>3, <2>4
<1>10. QED
  BY <1>6, <1>7, <1>8, <1>9

\* A start or a stop begins: nothing is captured yet.
LEMMA BegunKept ==
  ASSUME WrapperInv, NEW v \in Interval, StartsInterval(v) \/ StopsInterval(v)
  PROVE  WrappedType' /\ CountsInv' /\ UnusedInv' /\ IntervalsCounted'
<1>1. /\ UNCHANGED <<main, plugin, ms, program, cell, started, inside>>
      /\ call[v] = NoCall /\ Measuring /\ program # "python"
      /\ \/ UNCHANGED call
         \/ /\ call' = [call EXCEPT ![v] = [op |-> "start", left |-> Quantities]]
            /\ ~started[v]
         \/ /\ call' = [call EXCEPT ![v] = [op |-> "stop", left |-> Quantities]]
            /\ started[v]
  BY DEF StartsInterval, StopsInterval, TaskStarts, NodeStarts, TaskStops, NodeStops, Idle,
    Begin, hvars, process, measured
<1>2. WrappedType /\ CountsInv /\ UnusedInv /\ IntervalsCounted
  BY DEF WrapperInv
<1>3. Quantities = IF plugin = "sys" THEN <<"energy", "server">> ELSE <<"energy">>
  BY DEF Quantities
<1>4. UnusedInv'
  BY <1>1 DEF UnusedInv, Measuring, Before
<1>5. IntervalsCounted'
  <2>1. ASSUME NEW u \in Interval, NEW q \in Quantity
        PROVE  TaskCounts(u, q)' = TaskCounts(u, q) /\ NodeCounts(u, q)' = NodeCounts(u, q)
    BY <1>1 DEF TaskCounts, NodeCounts, Transfer, Total
  <2>2. QED
    BY <1>1, <1>2, <2>1 DEF IntervalsCounted
<1>6. CASE UNCHANGED call
  <2>1. ASSUME NEW u \in Interval, NEW q \in Quantity
        PROVE  Counts(u, q)' = Counts(u, q)
    BY <1>1, <1>6 DEF Counts, Left
  <2>2. WrappedType' /\ CountsInv'
    BY <1>1, <1>2, <1>6, <2>1 DEF WrappedType, CountsInv
  <2>3. QED
    BY <1>4, <1>5, <2>2
<1>7. ASSUME NEW op \in {"start", "stop"}, started[v] <=> (op = "stop"),
             call' = [call EXCEPT ![v] = [op |-> op, left |-> Quantities]]
      PROVE  WrappedType' /\ CountsInv'
  <2>1. [op |-> op, left |-> Quantities] \in Calls
    BY <1>3, <1>7 DEF Calls
  <2>2. WrappedType'
    BY <1>1, <1>2, <1>7, <2>1 DEF WrappedType
  <2>3. call'[v] = [op |-> op, left |-> Quantities]
    BY <1>2, <1>7 DEF WrappedType
  <2>4. /\ Left(v, "energy")'
        /\ Left(v, "server")' = (plugin = "sys")
    BY <1>3, <2>3 DEF Left
  <2>5. \A u \in Interval \ {v} : call'[u] = call[u] /\ \A q : Left(u, q)' = Left(u, q)
    BY <1>2, <1>7 DEF WrappedType, Left
  <2>6. ASSUME NEW q \in Quantity
        PROVE  /\ q = "energy" \/ plugin = "sys" => inside[v][q].counts = (op = "stop")
               /\ q = "server" /\ plugin # "sys" => ~inside[v][q].counts
    <3>1. Counts(v, q) /\ call[v].op = "none" /\ started[v] \in BOOLEAN
      BY <1>1, <1>2 DEF CountsInv, NoCall, WrappedType
    <3>2. QED
      BY <1>7, <3>1 DEF Counts
  <2>7. ASSUME NEW u \in Interval, NEW q \in Quantity
        PROVE  Counts(u, q)'
    <3>1. CASE u = v
      <4>1. q = "energy" \/ plugin = "sys" => Left(v, q)'
        BY <2>4 DEF Quantity
      <4>2. call'[v].op = op
        BY <2>3
      <4>3. q = "energy" \/ plugin = "sys" =>
              inside'[v][q].counts = CASE op = "none" -> started'[v]
                                       [] op = "start" -> ~Left(v, q)'
                                       [] op = "stop" -> Left(v, q)'
        BY <1>1, <1>7, <2>6, <4>1
      <4>4. QED
        BY <1>1, <1>7, <2>4, <2>6, <3>1, <4>2, <4>3 DEF Counts
    <3>2. CASE u # v
      <4>1. Counts(u, q)' = Counts(u, q)
        BY <1>1, <2>5, <3>2 DEF Counts
      <4>2. QED
        BY <1>2, <4>1 DEF CountsInv
    <3>3. QED
      BY <3>1, <3>2
  <2>8. QED
    BY <2>2, <2>7 DEF CountsInv
<1>8. QED
  BY <1>1, <1>4, <1>5, <1>6, <1>7

\* One quantity is captured.
LEMMA CapturedKept ==
  ASSUME WrapperInv, NEW v \in Interval, Capture(v)
  PROVE  WrappedType' /\ CountsInv' /\ UnusedInv' /\ IntervalsCounted'
<1>0. call[v] # NoCall /\ WrappedType
  BY DEF Capture, WrapperInv
<1>next. PICK q \in Quantity : q = Head(call[v].left)
  BY <1>0, CallCases DEF Quantity
<1> DEFINE op == call[v].op
           rest == Tail(call[v].left)
           c == cell[v][q]
           n == inside[v][q]
           t == Total(ms, q)
           kept == Captured(op, c, q, t)
           sum == IF op = "start" /\ program = "node" THEN 0 ELSE n.sum
<1>1. WrappedType /\ CountsInv /\ UnusedInv /\ IntervalsCounted
  BY DEF WrapperInv
<1>2. /\ UNCHANGED <<main, plugin, ms, program>> /\ call[v] # NoCall /\ Measuring
      /\ cell' = [cell EXCEPT ![v][q] = kept]
      /\ inside' = [inside EXCEPT ![v][q] = [counts |-> op = "start", sum |-> sum]]
      /\ call' = [call EXCEPT ![v] = IF rest = <<>> THEN NoCall ELSE [op |-> op, left |-> rest]]
      /\ started' = IF rest = <<>> THEN [started EXCEPT ![v] = op = "start"] ELSE started
  BY <1>next DEF Capture, hvars, process, measured
<1>3. /\ op \in {"start", "stop"} /\ q \in Quantity /\ Left(v, q)
      /\ rest = <<>> \/ (q = "energy" /\ rest = <<"server">> /\ rest # <<>> /\ Left(v, "server"))
  BY <1>0, <1>next, CallCases DEF Quantity
<1>4. \A u \in Quantity : u # q => (Left(v, u) <=> rest # <<>>)
  BY <1>0, <1>next, CallCases DEF Quantity
<1>5. /\ c \in [cur : Int, acc : Int] /\ n \in [counts : BOOLEAN, sum : Int] /\ t \in Int
      /\ started[v] \in BOOLEAN
  BY <1>1, <1>3 DEF WrappedType, WrapperInv, HettimeInv, MeasuredType, Measurement, Total
<1>6. program \in {"task", "node"} /\ Counts(v, q)
  BY <1>1, <1>2, <1>3 DEF WrappedType, Program, CountsInv, Counts
<1>7. q = "energy" \/ plugin = "sys"
  BY <1>3, <1>6 DEF Counts, Quantity
<1>8. n.counts = (op = "stop")
  BY <1>3, <1>5, <1>6, <1>7 DEF Counts
<1>9. /\ program = "task" /\ op = "start" => kept = [c EXCEPT !.cur = t]
      /\ program = "task" /\ op = "stop" => kept = [c EXCEPT !.acc = @ + t - c.cur]
      /\ program = "node" /\ op = "start" => kept = [c EXCEPT !.acc = t]
      /\ program = "node" /\ op = "stop" =>
           kept = [c EXCEPT !.acc = IF q = "server" THEN t ELSE t - @]
  BY DEF Captured, TaskStart, TaskStop, NodeStart, NodeStop
<1> HIDE DEF op, rest, c, n, t, kept, sum
<1>10. /\ kept \in [cur : Int, acc : Int]
       /\ program = "task" /\ op = "start" => kept.cur = t /\ kept.acc = c.acc
       /\ program = "task" /\ op = "stop" => kept.acc = c.acc + t - c.cur
       /\ program = "node" /\ op = "start" => kept.acc = t
       /\ program = "node" /\ op = "stop" /\ q # "server" => kept.acc = t - c.acc
  BY <1>3, <1>5, <1>6, <1>9
<1>11. sum \in Int
  BY <1>5 DEF sum
<1>12. /\ cell'[v][q] = kept
       /\ inside'[v][q] = [counts |-> op = "start", sum |-> sum]
       /\ call'[v] = IF rest = <<>> THEN NoCall ELSE [op |-> op, left |-> rest]
       /\ started'[v] = IF rest = <<>> THEN op = "start" ELSE started[v]
  BY <1>1, <1>2, <1>3 DEF WrappedType
<1>13. ASSUME NEW w \in Interval, NEW u \in Quantity, w # v \/ u # q
       PROVE  cell'[w][u] = cell[w][u] /\ inside'[w][u] = inside[w][u]
  BY <1>1, <1>2, <1>3, <1>13 DEF WrappedType
<1>14. ASSUME NEW w \in Interval, w # v
       PROVE  call'[w] = call[w] /\ started'[w] = started[w]
  BY <1>1, <1>2, <1>14 DEF WrappedType
<1>15. WrappedType'
  <2>1. program' \in Program /\ started' \in [Interval -> BOOLEAN]
    BY <1>1, <1>2 DEF WrappedType
  <2>2. cell' \in [Interval -> [Quantity -> [cur : Int, acc : Int]]]
    BY <1>1, <1>2, <1>3, <1>10 DEF WrappedType
  <2>3. [counts |-> op = "start", sum |-> sum] \in [counts : BOOLEAN, sum : Int]
    BY <1>11
  <2>4. inside' \in [Interval -> [Quantity -> [counts : BOOLEAN, sum : Int]]]
    BY <1>1, <1>2, <1>3, <2>3 DEF WrappedType
  <2>5. (IF rest = <<>> THEN NoCall ELSE [op |-> op, left |-> rest]) \in Calls
    BY <1>3 DEF Calls
  <2>6. call' \in [Interval -> Calls]
    BY <1>1, <1>2, <2>5 DEF WrappedType
  <2>7. QED
    BY <2>1, <2>2, <2>4, <2>6 DEF WrappedType
<1>16. CountsInv'
  <2>1. SUFFICES ASSUME NEW w \in Interval, NEW u \in Quantity PROVE Counts(w, u)'
    BY DEF CountsInv
  <2>2. CASE w # v
    <3>1. Counts(w, u)' = Counts(w, u)
      BY <1>2, <1>13, <1>14, <2>2 DEF Counts, Left
    <3>2. QED
      BY <1>1, <3>1 DEF CountsInv
  <2>3. Counts(v, u) /\ call[v].op = op /\ inside[v][u].counts \in BOOLEAN
    BY <1>1 DEF CountsInv, WrappedType, op
  <2>4. CASE w = v /\ rest = <<>>
    <3>1. /\ call'[v] = NoCall /\ call'[v].op = "none" /\ started'[v] = (op = "start")
          /\ ~Left(v, "server")'
      BY <1>12, <2>4 DEF NoCall, Left
    <3>2. CASE u = q
      BY <1>2, <1>6, <1>7, <1>12, <2>4, <3>1, <3>2 DEF Counts
    <3>3. CASE u # q
      <4>1. inside'[v][u] = inside[v][u] /\ ~Left(v, u)
        BY <1>4, <1>13, <2>4, <3>3
      <4>2. u = "energy" \/ plugin = "sys" => inside[v][u].counts = (op = "start")
        BY <1>3, <2>3, <4>1 DEF Counts
      <4>3. u = "server" /\ plugin # "sys" => ~inside[v][u].counts
        BY <2>3 DEF Counts
      <4>4. QED
        BY <1>2, <1>6, <2>4, <3>1, <4>1, <4>2, <4>3 DEF Counts
    <3>4. QED
      BY <3>2, <3>3
  <2>5. CASE w = v /\ rest # <<>>
    <3>1. /\ call'[v] = [op |-> op, left |-> <<"server">>] /\ call'[v].op = op
          /\ started'[v] = started[v] /\ q = "energy"
      BY <1>3, <1>12, <2>5
    <3>2. Left(v, "server")' /\ ~Left(v, "energy")'
      BY <3>1 DEF Left
    <3>3. plugin = "sys"
      BY <1>3, <1>6, <2>5 DEF Counts
    <3>4. CASE u = q
      <4>1. inside'[v][u].counts = (op = "start") /\ ~Left(v, u)'
        BY <1>12, <3>1, <3>2, <3>4
      <4>2. /\ op = "start" => ~started[v]
            /\ op = "stop" => started[v]
        BY <2>3 DEF Counts
      <4>3. QED
        BY <1>2, <1>3, <1>6, <2>5, <3>1, <3>3, <4>1, <4>2 DEF Counts, Left
    <3>5. CASE u # q
      <4>1. inside'[v][u] = inside[v][u] /\ Left(v, u) /\ u = "server"
        BY <1>4, <1>13, <2>5, <3>1, <3>5 DEF Quantity
      <4>2. QED
        BY <1>2, <1>3, <1>6, <2>3, <2>5, <3>1, <3>2, <3>3, <4>1 DEF Counts
    <3>6. QED
      BY <3>4, <3>5
  <2>6. QED
    BY <2>2, <2>4, <2>5
<1>17. UnusedInv'
  BY <1>2 DEF UnusedInv, Measuring, Before
<1>18. IntervalsCounted'
  <2>1. ASSUME NEW w \in Interval, NEW u \in Quantity, w # v \/ u # q
        PROVE  TaskCounts(w, u)' = TaskCounts(w, u) /\ NodeCounts(w, u)' = NodeCounts(w, u)
    BY <1>2, <1>13, <2>1 DEF TaskCounts, NodeCounts, Transfer, Total
  <2>2. /\ inside'[v][q].counts = (op = "start") /\ inside'[v][q].sum = sum
        /\ cell'[v][q] = kept
    BY <1>12
  <2>3. program = "task" => TaskCounts(v, q)'
    <3>1. SUFFICES ASSUME program = "task"
                   PROVE  TaskCounts(v, q)'
      OBVIOUS
    <3>2. sum = n.sum /\ Total(ms', q) = t
      BY <1>2, <3>1 DEF sum, t, Total
    <3>3. n.sum = c.acc + IF n.counts THEN t - c.cur ELSE 0
      BY <1>1, <1>3, <3>1 DEF IntervalsCounted, TaskCounts, Transfer, n, c, t
    <3>4. sum = kept.acc + IF op = "start" THEN Total(ms', q) - kept.cur ELSE 0
      BY <1>3, <1>5, <1>8, <1>10, <3>1, <3>2, <3>3
    <3>5. QED
      BY <2>2, <3>4 DEF TaskCounts, Transfer
  <2>4. program = "node" => NodeCounts(v, q)'
    <3>1. SUFFICES ASSUME program = "node", q # "server"
                   PROVE  NodeCounts(v, q)'
      BY DEF NodeCounts
    <3>2. Total(ms', q) = t
      BY <1>2 DEF t, Total
    <3>3. n.sum = IF n.counts THEN t - c.acc ELSE c.acc
      BY <1>1, <1>3, <3>1 DEF IntervalsCounted, NodeCounts, n, c, t
    <3>4. sum = IF op = "start" THEN Total(ms', q) - kept.acc ELSE kept.acc
      BY <1>3, <1>5, <1>8, <1>10, <3>1, <3>2, <3>3 DEF sum
    <3>5. QED
      BY <2>2, <3>4 DEF NodeCounts
  <2>5. QED
    BY <1>1, <1>2, <2>1, <2>3, <2>4 DEF IntervalsCounted
<1>19. QED
  BY <1>15, <1>16, <1>17, <1>18

LEMMA WrapperStep == WrapperInv /\ WNext => WrapperInv'
<1> SUFFICES ASSUME WrapperInv, WNext PROVE WrapperInv'
  OBVIOUS
<1>1. HettimeInv'
  BY HettimeStep DEF WrapperInv, WrappedType, Step
<1>2. child' = "none"
  <2>1. CASE WrapperMain
    BY <2>1 DEF WrapperMain, WrapperInv, WrapperBegins, WrapperInits, WrapperStarts,
      WrapperStarted, WrapperStops, WrapperFrees, InitSystem, StartMeasuring, StopMeasuring,
      FiniSystem
  <2>2. CASE WrapperThreads
    BY <2>2, ThreadsLeave DEF WrapperThreads, WrapperInv, WorkerExits, Elapse
  <2>3. ASSUME NEW v \in Interval, StartsInterval(v) \/ StopsInterval(v) \/ Capture(v)
        PROVE  child' = "none"
    BY <2>3 DEF StartsInterval, StopsInterval, Capture, hvars, WrapperInv
  <2>4. QED
    BY <2>1, <2>2, <2>3 DEF WNext
<1>3. WrappedType' /\ CountsInv' /\ UnusedInv' /\ IntervalsCounted'
  BY <1>1, UncapturedKept, CountedKept, BegunKept, CapturedKept DEF WNext
<1>4. QED
  BY <1>1, <1>2, <1>3 DEF WrapperInv

LEMMA WrapperStutter == WrapperInv /\ UNCHANGED wvars => WrapperInv'
<1> SUFFICES ASSUME WrapperInv, UNCHANGED wvars PROVE WrapperInv'
  OBVIOUS
<1>1. UNCHANGED <<hvars, main, plugin, child, ms, program, cell, started, call, inside>>
  BY DEF wvars, hvars, wrapped, process, measured
<1>2. HettimeInv'
  BY <1>1, HettimeStep DEF WrapperInv, Step
<1>3. WrappedType' /\ UnusedInv'
  BY <1>1 DEF WrapperInv, WrappedType, UnusedInv
<1>4. ASSUME NEW v \in Interval, NEW q \in Quantity
      PROVE  /\ Counts(v, q)' = Counts(v, q)
             /\ TaskCounts(v, q)' = TaskCounts(v, q) /\ NodeCounts(v, q)' = NodeCounts(v, q)
  BY <1>1 DEF Counts, Left, TaskCounts, NodeCounts, Transfer, Total
<1>5. QED
  BY <1>1, <1>2, <1>3, <1>4 DEF WrapperInv, CountsInv, IntervalsCounted

LEMMA WrapperInitInv == WInit => WrapperInv
<1> SUFFICES ASSUME WInit PROVE WrapperInv
  OBVIOUS
<1>1. HettimeInv /\ child = "none" /\ program \in Program
  BY HettimeInitInv DEF WInit, HInit
<1>2. /\ cell = [v \in Interval |-> [q \in Quantity |-> NoCell]]
      /\ started = [v \in Interval |-> FALSE]
      /\ call = [v \in Interval |-> NoCall]
      /\ inside = [v \in Interval |-> [q \in Quantity |-> [counts |-> FALSE, sum |-> 0]]]
  BY DEF WInit, NoIntervals
<1>3. WrappedType /\ UnusedInv
  BY <1>1, <1>2 DEF WrappedType, NoCell, Calls, UnusedInv
<1>4. ASSUME NEW v \in Interval, NEW q \in Quantity
      PROVE  Counts(v, q) /\ TaskCounts(v, q) /\ NodeCounts(v, q)
  <2>1. /\ cell[v][q] = NoCell /\ started[v] = FALSE /\ call[v] = NoCall
        /\ inside[v][q] = [counts |-> FALSE, sum |-> 0]
    BY <1>2
  <2>2. /\ ~Left(v, "server") /\ call[v].op = "none"
        /\ inside[v][q].counts = FALSE
    BY <2>1 DEF Left, NoCall
  <2>3. Counts(v, q)
    BY <2>1, <2>2 DEF Counts
  <2>4. TaskCounts(v, q) /\ NodeCounts(v, q)
    BY <2>1 DEF TaskCounts, NodeCounts, Transfer, NoCell
  <2>5. QED
    BY <2>3, <2>4
<1>5. QED
  BY <1>1, <1>3, <1>4 DEF WrapperInv, CountsInv, IntervalsCounted

\* A program with a wrapper keeps the invariant of hettime, and with it that
\* of its own intervals.
THEOREM WrapperInvariance == WSpec => []WrapperInv
BY WrapperInitInv, WrapperStep, WrapperStutter, PTL DEF WSpec

\* What is kept of an interval is what the worker has added between the
\* captures of its start and of its end, for any number of intervals used by
\* as many threads, wherever the captures fall between the worker's rounds.
THEOREM WrapperIntervals == WSpec => []IntervalsCounted
<1>1. WrapperInv => IntervalsCounted
  BY DEF WrapperInv
<1>2. QED
  BY <1>1, WrapperInvariance, PTL

\* The sums and the devices are as right in a program with a wrapper.
THEOREM WrapperResults == WSpec => [](ResultsExact /\ DevicesRight)
<1>1. WrapperInv => ResultsExact /\ DevicesRight
  BY InvResults DEF WrapperInv, HettimeInv, DeviceInv
<1>2. QED
  BY <1>1, WrapperInvariance, PTL
=============================================================================
