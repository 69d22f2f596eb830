----------------------------- MODULE ApapiProofs -----------------------------
(***************************************************************************)
(* The proofs about libapapi.  First its sampling timers: any number of    *)
(* them, used by a client that keeps the rules of apapi.h and destroys no  *)
(* timer it has not started; stops may be prompt.  Then the events that    *)
(* are measured and the fields their values are written to: any files, any *)
(* offer of PAPI, any number of packages and cores there is room for.      *)
(***************************************************************************)
EXTENDS ApapiTimer, ApapiEvents, SequenceTheorems, WellFoundedInduction,
        FiniteSetTheorems, TLAPS


\* What the call in which the client waits says of the timer.
CallInv(c) ==
  /\ call[c] = "lock" =>
       /\ State(c) = "DONE"
       /\ ~timer[c].interrupt
       /\ eventset[c].count = 0 /\ ~eventset[c].final
       /\ ~asked[c]
  /\ call[c] \in {"join", "interrupt"} => State(c) = "STARTED"
  /\ call[c] = "join" => asked[c]

\* What the state of a timer says of its thread and its events.
StateInv(c) ==
  /\ State(c) = "READY" => At(c) = "begin" /\ timer[c].mutex /\ ~asked[c]
  /\ State(c) = "STARTED" => At(c) # "none" /\ eventset[c].counting
  /\ State(c) \in {"NULL", "DONE"} => At(c) = "none"
  /\ State(c) = "DONE" /\ call[c] = "no" =>
       eventset[c].final /\ eventset[c].count >= 2 /\ ~eventset[c].counting

\* The mutex of a thread that samples is free only after a stop; a thread
\* that has got it there takes one more sample, which is not the first.
ThreadInv(c) ==
  /\ At(c) \in {"none", "begin", "sleep"} => ~thread[c].last
  /\ At(c) \in {"begin", "woken", "measure", "sleep"} => ~eventset[c].final
  /\ At(c) = "begin" => eventset[c].count = 0
  /\ At(c) \in {"woken", "measure", "sleep"} /\ ~timer[c].mutex => asked[c]
  /\ At(c) = "sleep" \/ thread[c].last => eventset[c].count >= 1
  /\ thread[c].last \/ eventset[c].final => asked[c]
  /\ At(c) = "ended" =>
       timer[c].interrupt \/ (eventset[c].final /\ eventset[c].count >= 2)

TimerInv == \A c \in Component : CallInv(c) /\ StateInv(c) /\ ThreadInv(c)

IInv == TypeOK /\ TimerInv

-----------------------------------------------------------------------------
LEMMA InitIInv == Init => IInv
<1> SUFFICES ASSUME Init PROVE IInv
  OBVIOUS
<1>1. timer \in [Component -> Timers]
  BY DEF Init, Timers
<1>2. thread \in [Component -> Threads]
  BY DEF Init, NoThread, Threads
<1>3. eventset \in [Component -> EventSets]
  BY DEF Init, Cleared, Many, EventSets
<1>4. /\ call \in [Component -> {"no", "lock", "join", "interrupt"}]
      /\ asked \in [Component -> BOOLEAN]
  BY DEF Init
<1>5. \A c \in Component :
        timer[c].interrupt => State(c) = "NULL" \/ call[c] = "interrupt"
  BY DEF Init
<1>6. TypeOK
  BY <1>1, <1>2, <1>3, <1>4, <1>5 DEF TypeOK
<1>7. TimerInv
  BY DEF Init, TimerInv, CallInv, StateInv, ThreadInv, State, At, NoThread, Cleared
<1> QED
  BY <1>6, <1>7 DEF IInv

\* The five variables of one timer, before and after a step of another.
LEMMA OtherTimer ==
  ASSUME NEW d \in Component, CallInv(d), StateInv(d), ThreadInv(d),
         timer'[d] = timer[d], thread'[d] = thread[d],
         eventset'[d] = eventset[d], call'[d] = call[d], asked'[d] = asked[d]
  PROVE  CallInv(d)' /\ StateInv(d)' /\ ThreadInv(d)'
  BY DEF CallInv, StateInv, ThreadInv, State, At

LEMMA Step == ASSUME ~DestroyUnstarted PROVE IInv /\ [Next]_vars => IInv'
<1> SUFFICES ASSUME ~DestroyUnstarted, IInv, [Next]_vars PROVE IInv'
  OBVIOUS
<1> USE DEF IInv, TypeOK, TimerInv, State, At
<1>1. ASSUME NEW c \in Component, CreateTimer(c) PROVE IInv'
  <2>1. timer' \in [Component -> Timers]
    BY <1>1 DEF CreateTimer, BeginReset, Timers
  <2>2. eventset' \in [Component -> EventSets]
    BY <1>1 DEF CreateTimer, BeginReset, EventSets, Emptied, Many
  <2>3. CallInv(c)' /\ StateInv(c)' /\ ThreadInv(c)'
    BY <1>1 DEF CreateTimer, BeginReset, ClientIdle, Emptied, Timers, Threads, EventSets,
        CallInv, StateInv, ThreadInv, Many
  <2>4. timer'[c].interrupt => State(c)' = "NULL" \/ call'[c] = "interrupt"
    BY <1>1 DEF CreateTimer, BeginReset, ClientIdle, Emptied, Timers, CallInv
  <2>5. ASSUME NEW d \in Component, d # c
        PROVE  /\ CallInv(d)' /\ StateInv(d)' /\ ThreadInv(d)'
               /\ timer'[d].interrupt => State(d)' = "NULL" \/ call'[d] = "interrupt"
    BY <1>1, <2>5, OtherTimer DEF CreateTimer, BeginReset
  <2> QED
    BY <1>1, <2>1, <2>2, <2>3, <2>4, <2>5 DEF CreateTimer, BeginReset
<1>2. ASSUME NEW c \in Component, ResetTimer(c) PROVE IInv'
  <2>1. timer' \in [Component -> Timers]
    <3>1. [timer[c] EXCEPT !.interrupt = FALSE] \in Timers
      BY DEF Timers
    <3> QED
      BY <1>2, <3>1 DEF ResetTimer
  <2>2. eventset' \in [Component -> EventSets]
    BY <1>2 DEF ResetTimer, BeginReset, EventSets, Emptied, Many
  <2>3. CallInv(c)' /\ StateInv(c)' /\ ThreadInv(c)'
    BY <1>2 DEF ResetTimer, BeginReset, ClientIdle, Emptied, Timers, Threads, EventSets,
        CallInv, StateInv, ThreadInv, Many
  <2>4. timer'[c].interrupt => State(c)' = "NULL" \/ call'[c] = "interrupt"
    BY <1>2 DEF ResetTimer, BeginReset, ClientIdle, Emptied, Timers, CallInv
  <2>5. ASSUME NEW d \in Component, d # c
        PROVE  /\ CallInv(d)' /\ StateInv(d)' /\ ThreadInv(d)'
               /\ timer'[d].interrupt => State(d)' = "NULL" \/ call'[d] = "interrupt"
    BY <1>2, <2>5, OtherTimer DEF ResetTimer, BeginReset
  <2> QED
    BY <1>2, <2>1, <2>2, <2>3, <2>4, <2>5 DEF ResetTimer, BeginReset
<1>3. ASSUME NEW c \in Component, ResetLock(c) PROVE IInv'
  <2>1. timer' \in [Component -> Timers]
    BY <1>3 DEF ResetLock, Timers
  <2>2. thread' \in [Component -> Threads]
    BY <1>3 DEF ResetLock, Threads
  <2>3. CallInv(c)' /\ StateInv(c)' /\ ThreadInv(c)'
    BY <1>3 DEF ResetLock, Timers, Threads, EventSets, CallInv, StateInv, ThreadInv, Many
  <2>4. timer'[c].interrupt => State(c)' = "NULL" \/ call'[c] = "interrupt"
    BY <1>3 DEF ResetLock, Timers, CallInv
  <2>5. ASSUME NEW d \in Component, d # c
        PROVE  /\ CallInv(d)' /\ StateInv(d)' /\ ThreadInv(d)'
               /\ timer'[d].interrupt => State(d)' = "NULL" \/ call'[d] = "interrupt"
    BY <1>3, <2>5, OtherTimer DEF ResetLock
  <2> QED
    BY <1>3, <2>1, <2>2, <2>3, <2>4, <2>5 DEF ResetLock
<1>4. ASSUME NEW c \in Component, ChangeTimer(c) PROVE IInv'
  <2>1. eventset' \in [Component -> EventSets]
    BY <1>4 DEF ChangeTimer, EventSets, Emptied, Many
  <2>2. CallInv(c)' /\ StateInv(c)' /\ ThreadInv(c)'
    BY <1>4 DEF ChangeTimer, ClientIdle, Emptied, Timers, Threads, EventSets,
        CallInv, StateInv, ThreadInv, Many
  <2>3. timer'[c].interrupt => State(c)' = "NULL" \/ call'[c] = "interrupt"
    BY <1>4 DEF ChangeTimer, ClientIdle, Emptied, Timers, CallInv
  <2>4. ASSUME NEW d \in Component, d # c
        PROVE  /\ CallInv(d)' /\ StateInv(d)' /\ ThreadInv(d)'
               /\ timer'[d].interrupt => State(d)' = "NULL" \/ call'[d] = "interrupt"
    BY <1>4, <2>4, OtherTimer DEF ChangeTimer
  <2> QED
    BY <1>4, <2>1, <2>2, <2>3, <2>4 DEF ChangeTimer
<1>5. ASSUME NEW c \in Component, InitStartTimer(c) PROVE IInv'
  <2>1. eventset' \in [Component -> EventSets]
    BY <1>5 DEF InitStartTimer, EventSets
  <2>2. CallInv(c)' /\ StateInv(c)' /\ ThreadInv(c)'
    BY <1>5 DEF InitStartTimer, ClientIdle, Timers, Threads, EventSets,
        CallInv, StateInv, ThreadInv, Many
  <2>3. timer'[c].interrupt => State(c)' = "NULL" \/ call'[c] = "interrupt"
    BY <1>5 DEF InitStartTimer, ClientIdle, Timers, CallInv
  <2>4. ASSUME NEW d \in Component, d # c
        PROVE  /\ CallInv(d)' /\ StateInv(d)' /\ ThreadInv(d)'
               /\ timer'[d].interrupt => State(d)' = "NULL" \/ call'[d] = "interrupt"
    BY <1>5, <2>4, OtherTimer DEF InitStartTimer
  <2> QED
    BY <1>5, <2>1, <2>2, <2>3, <2>4 DEF InitStartTimer
<1>6. ASSUME NEW c \in Component, StartTimer(c) PROVE IInv'
  <2>1. timer' \in [Component -> Timers]
    BY <1>6 DEF StartTimer, Timers
  <2>2. CallInv(c)' /\ StateInv(c)' /\ ThreadInv(c)'
    BY <1>6 DEF StartTimer, ClientIdle, Timers, Threads, EventSets,
        CallInv, StateInv, ThreadInv, Many
  <2>3. timer'[c].interrupt => State(c)' = "NULL" \/ call'[c] = "interrupt"
    BY <1>6 DEF StartTimer, ClientIdle, Timers, CallInv
  <2>4. ASSUME NEW d \in Component, d # c
        PROVE  /\ CallInv(d)' /\ StateInv(d)' /\ ThreadInv(d)'
               /\ timer'[d].interrupt => State(d)' = "NULL" \/ call'[d] = "interrupt"
    BY <1>6, <2>4, OtherTimer DEF StartTimer
  <2> QED
    BY <1>6, <2>1, <2>2, <2>3, <2>4 DEF StartTimer
<1>7. ASSUME NEW c \in Component, CallStopTimer(c) PROVE IInv'
  <2>1. timer' \in [Component -> Timers]
    BY <1>7 DEF CallStopTimer, Timers
  <2>2. CallInv(c)' /\ StateInv(c)' /\ ThreadInv(c)'
    BY <1>7 DEF CallStopTimer, ClientIdle, Timers, Threads, EventSets,
        CallInv, StateInv, ThreadInv, Many
  <2>3. timer'[c].interrupt => State(c)' = "NULL" \/ call'[c] = "interrupt"
    BY <1>7 DEF CallStopTimer, ClientIdle, Timers, CallInv
  <2>4. ASSUME NEW d \in Component, d # c
        PROVE  /\ CallInv(d)' /\ StateInv(d)' /\ ThreadInv(d)'
               /\ timer'[d].interrupt => State(d)' = "NULL" \/ call'[d] = "interrupt"
    BY <1>7, <2>4, OtherTimer DEF CallStopTimer
  <2> QED
    BY <1>7, <2>1, <2>2, <2>3, <2>4 DEF CallStopTimer
<1>8. ASSUME NEW c \in Component, JoinTimer(c) PROVE IInv'
  <2>1. CallInv(c)' /\ StateInv(c)' /\ ThreadInv(c)'
    BY <1>8 DEF JoinTimer, ClientIdle, Timers, Threads, EventSets,
        CallInv, StateInv, ThreadInv, Many
  <2>2. timer'[c].interrupt => State(c)' = "NULL" \/ call'[c] = "interrupt"
    BY <1>8 DEF JoinTimer, ClientIdle, Timers, CallInv
  <2>3. ASSUME NEW d \in Component, d # c
        PROVE  /\ CallInv(d)' /\ StateInv(d)' /\ ThreadInv(d)'
               /\ timer'[d].interrupt => State(d)' = "NULL" \/ call'[d] = "interrupt"
    BY <1>8, <2>3, OtherTimer DEF JoinTimer
  <2> QED
    BY <1>8, <2>1, <2>2, <2>3 DEF JoinTimer
<1>9. ASSUME NEW c \in Component, StopTimer(c) PROVE IInv'
  <2>1. timer' \in [Component -> Timers]
    BY <1>9 DEF StopTimer, Timers
  <2>2. CallInv(c)' /\ StateInv(c)' /\ ThreadInv(c)'
    BY <1>9 DEF StopTimer, ClientIdle, Timers, Threads, EventSets,
        CallInv, StateInv, ThreadInv, Many
  <2>3. timer'[c].interrupt => State(c)' = "NULL" \/ call'[c] = "interrupt"
    BY <1>9 DEF StopTimer, ClientIdle, Timers, CallInv
  <2>4. ASSUME NEW d \in Component, d # c
        PROVE  /\ CallInv(d)' /\ StateInv(d)' /\ ThreadInv(d)'
               /\ timer'[d].interrupt => State(d)' = "NULL" \/ call'[d] = "interrupt"
    BY <1>9, <2>4, OtherTimer DEF StopTimer
  <2> QED
    BY <1>9, <2>1, <2>2, <2>3, <2>4 DEF StopTimer
<1>10. ASSUME NEW c \in Component, Joined(c) PROVE IInv'
  <2>1. timer' \in [Component -> Timers]
    BY <1>10 DEF Joined, Timers
  <2>2. thread' \in [Component -> Threads]
    BY <1>10 DEF Joined, NoThread, Threads
  <2>3. eventset' \in [Component -> EventSets]
    BY <1>10 DEF Joined, EventSets
  <2>4. CallInv(c)' /\ StateInv(c)' /\ ThreadInv(c)'
    BY <1>10 DEF Joined, NoThread, Timers, Threads, EventSets,
        CallInv, StateInv, ThreadInv, Many
  <2>5. timer'[c].interrupt => State(c)' = "NULL" \/ call'[c] = "interrupt"
    BY <1>10 DEF Joined, NoThread, Timers, CallInv
  <2>6. ASSUME NEW d \in Component, d # c
        PROVE  /\ CallInv(d)' /\ StateInv(d)' /\ ThreadInv(d)'
               /\ timer'[d].interrupt => State(d)' = "NULL" \/ call'[d] = "interrupt"
    BY <1>10, <2>6, OtherTimer DEF Joined
  <2> QED
    BY <1>10, <2>1, <2>2, <2>3, <2>4, <2>5, <2>6 DEF Joined
<1>11. ASSUME NEW c \in Component, DestroyTimer(c) PROVE IInv'
  <2>1. timer' \in [Component -> Timers]
    BY <1>11 DEF DestroyTimer, Timers
  <2>2. CallInv(c)' /\ StateInv(c)' /\ ThreadInv(c)'
    BY <1>11 DEF DestroyTimer, ClientIdle, Timers, Threads, EventSets,
        CallInv, StateInv, ThreadInv, Many
  <2>3. timer'[c].interrupt => State(c)' = "NULL" \/ call'[c] = "interrupt"
    BY <1>11 DEF DestroyTimer, ClientIdle, Timers, CallInv
  <2>4. ASSUME NEW d \in Component, d # c
        PROVE  /\ CallInv(d)' /\ StateInv(d)' /\ ThreadInv(d)'
               /\ timer'[d].interrupt => State(d)' = "NULL" \/ call'[d] = "interrupt"
    BY <1>11, <2>4, OtherTimer DEF DestroyTimer
  <2> QED
    BY <1>11, <2>1, <2>2, <2>3, <2>4 DEF DestroyTimer
<1>12. ASSUME NEW c \in Component, InterruptTimer(c) PROVE IInv'
  <2>1. timer' \in [Component -> Timers]
    BY <1>12 DEF InterruptTimer, Timers
  <2>2. CallInv(c)' /\ StateInv(c)' /\ ThreadInv(c)'
    BY <1>12 DEF InterruptTimer, ClientIdle, Timers, Threads, EventSets,
        CallInv, StateInv, ThreadInv, Many
  <2>3. timer'[c].interrupt => State(c)' = "NULL" \/ call'[c] = "interrupt"
    BY <1>12 DEF InterruptTimer, ClientIdle, Timers, CallInv
  <2>4. ASSUME NEW d \in Component, d # c
        PROVE  /\ CallInv(d)' /\ StateInv(d)' /\ ThreadInv(d)'
               /\ timer'[d].interrupt => State(d)' = "NULL" \/ call'[d] = "interrupt"
    BY <1>12, <2>4, OtherTimer DEF InterruptTimer
  <2> QED
    BY <1>12, <2>1, <2>2, <2>3, <2>4 DEF InterruptTimer
<1>13. ASSUME NEW c \in Component, Interrupted(c) PROVE IInv'
  <2>1. timer' \in [Component -> Timers]
    BY <1>13 DEF Interrupted, Timers
  <2>2. thread' \in [Component -> Threads]
    BY <1>13 DEF Interrupted, NoThread, Threads
  <2>3. CallInv(c)' /\ StateInv(c)' /\ ThreadInv(c)'
    BY <1>13 DEF Interrupted, NoThread, Timers, Threads, EventSets,
        CallInv, StateInv, ThreadInv, Many
  <2>4. timer'[c].interrupt => State(c)' = "NULL" \/ call'[c] = "interrupt"
    BY <1>13 DEF Interrupted, NoThread, Timers, CallInv
  <2>5. ASSUME NEW d \in Component, d # c
        PROVE  /\ CallInv(d)' /\ StateInv(d)' /\ ThreadInv(d)'
               /\ timer'[d].interrupt => State(d)' = "NULL" \/ call'[d] = "interrupt"
    BY <1>13, <2>5, OtherTimer DEF Interrupted
  <2> QED
    BY <1>13, <2>1, <2>2, <2>3, <2>4, <2>5 DEF Interrupted
<1>14. ASSUME NEW c \in Component, ThreadBegin(c) PROVE IInv'
  <2>1. timer' \in [Component -> Timers]
    BY <1>14 DEF ThreadBegin, Timers
  <2>2. thread' \in [Component -> Threads]
    BY <1>14 DEF ThreadBegin, Threads
  <2>3. CallInv(c)' /\ StateInv(c)' /\ ThreadInv(c)'
    BY <1>14 DEF ThreadBegin, Timers, Threads, EventSets, CallInv, StateInv, ThreadInv, Many
  <2>4. timer'[c].interrupt => State(c)' = "NULL" \/ call'[c] = "interrupt"
    BY <1>14 DEF ThreadBegin, Timers, CallInv
  <2>5. ASSUME NEW d \in Component, d # c
        PROVE  /\ CallInv(d)' /\ StateInv(d)' /\ ThreadInv(d)'
               /\ timer'[d].interrupt => State(d)' = "NULL" \/ call'[d] = "interrupt"
    BY <1>14, <2>5, OtherTimer DEF ThreadBegin
  <2> QED
    BY <1>14, <2>1, <2>2, <2>3, <2>4, <2>5 DEF ThreadBegin
<1>15. ASSUME NEW c \in Component, ThreadTest(c) PROVE IInv'
  <2>1. thread' \in [Component -> Threads]
    BY <1>15 DEF ThreadTest, Threads
  <2>2. CallInv(c)' /\ StateInv(c)' /\ ThreadInv(c)'
    BY <1>15 DEF ThreadTest, Timers, Threads, EventSets, CallInv, StateInv, ThreadInv, Many
  <2>3. timer'[c].interrupt => State(c)' = "NULL" \/ call'[c] = "interrupt"
    BY <1>15 DEF ThreadTest, Timers, CallInv
  <2>4. ASSUME NEW d \in Component, d # c
        PROVE  /\ CallInv(d)' /\ StateInv(d)' /\ ThreadInv(d)'
               /\ timer'[d].interrupt => State(d)' = "NULL" \/ call'[d] = "interrupt"
    BY <1>15, <2>4, OtherTimer DEF ThreadTest
  <2> QED
    BY <1>15, <2>1, <2>2, <2>3, <2>4 DEF ThreadTest
<1>16. ASSUME NEW c \in Component, ThreadMeasure(c) PROVE IInv'
  <2>1. thread' \in [Component -> Threads]
    BY <1>16 DEF ThreadMeasure, Threads
  <2>2. eventset' \in [Component -> EventSets]
    BY <1>16 DEF ThreadMeasure, EventSets, Sampled, Threads, Many
  <2>3. CallInv(c)' /\ StateInv(c)' /\ ThreadInv(c)'
    BY <1>16 DEF ThreadMeasure, Sampled, Timers, Threads, EventSets,
        CallInv, StateInv, ThreadInv, Many
  <2>4. timer'[c].interrupt => State(c)' = "NULL" \/ call'[c] = "interrupt"
    BY <1>16 DEF ThreadMeasure, Sampled, Timers, CallInv
  <2>5. ASSUME NEW d \in Component, d # c
        PROVE  /\ CallInv(d)' /\ StateInv(d)' /\ ThreadInv(d)'
               /\ timer'[d].interrupt => State(d)' = "NULL" \/ call'[d] = "interrupt"
    BY <1>16, <2>5, OtherTimer DEF ThreadMeasure
  <2> QED
    BY <1>16, <2>1, <2>2, <2>3, <2>4, <2>5 DEF ThreadMeasure
<1>17. ASSUME NEW c \in Component, ThreadTimeout(c) PROVE IInv'
  <2>1. thread' \in [Component -> Threads]
    BY <1>17 DEF ThreadTimeout, Threads
  <2>2. CallInv(c)' /\ StateInv(c)' /\ ThreadInv(c)'
    BY <1>17 DEF ThreadTimeout, Timers, Threads, EventSets,
        CallInv, StateInv, ThreadInv, Many
  <2>3. timer'[c].interrupt => State(c)' = "NULL" \/ call'[c] = "interrupt"
    BY <1>17 DEF ThreadTimeout, Timers, CallInv
  <2>4. ASSUME NEW d \in Component, d # c
        PROVE  /\ CallInv(d)' /\ StateInv(d)' /\ ThreadInv(d)'
               /\ timer'[d].interrupt => State(d)' = "NULL" \/ call'[d] = "interrupt"
    BY <1>17, <2>4, OtherTimer DEF ThreadTimeout
  <2> QED
    BY <1>17, <2>1, <2>2, <2>3, <2>4 DEF ThreadTimeout
<1>18. ASSUME NEW c \in Component, ThreadStop(c) PROVE IInv'
  <2>1. timer' \in [Component -> Timers]
    BY <1>18 DEF ThreadStop, Timers
  <2>2. thread' \in [Component -> Threads]
    BY <1>18 DEF ThreadStop, Threads
  <2>3. CallInv(c)' /\ StateInv(c)' /\ ThreadInv(c)'
    BY <1>18 DEF ThreadStop, Timers, Threads, EventSets, CallInv, StateInv, ThreadInv, Many
  <2>4. timer'[c].interrupt => State(c)' = "NULL" \/ call'[c] = "interrupt"
    BY <1>18 DEF ThreadStop, Timers, CallInv
  <2>5. ASSUME NEW d \in Component, d # c
        PROVE  /\ CallInv(d)' /\ StateInv(d)' /\ ThreadInv(d)'
               /\ timer'[d].interrupt => State(d)' = "NULL" \/ call'[d] = "interrupt"
    BY <1>18, <2>5, OtherTimer DEF ThreadStop
  <2> QED
    BY <1>18, <2>1, <2>2, <2>3, <2>4, <2>5 DEF ThreadStop
<1>19. CASE UNCHANGED vars
  BY <1>19 DEF vars, TypeOK, TimerInv, CallInv, StateInv, ThreadInv, State, At
<1> QED
  BY <1>1, <1>2, <1>3, <1>4, <1>5, <1>6, <1>7, <1>8, <1>9,
     <1>10, <1>11, <1>12, <1>13, <1>14, <1>15, <1>16, <1>17, <1>18, <1>19 DEF Next, Begins, Returns, Thread

-----------------------------------------------------------------------------
\* Every variable keeps its type, and no timer is interrupted that is not
\* being destroyed.
THEOREM TypeCorrect == ASSUME ~DestroyUnstarted PROVE Spec => []TypeOK
<1>1. IInv => TypeOK
  BY DEF IInv
<1> QED
  BY InitIInv, Step, <1>1, PTL DEF Spec

\* For any number of timers: a thread waits at the locked mutex, with no
\* sample taken, until its timer is started.
THEOREM ThreadsWait == ASSUME ~DestroyUnstarted PROVE Spec => []ReadyWaits
<1>1. IInv => ReadyWaits
  BY DEF IInv, TimerInv, StateInv, ThreadInv, ReadyWaits
<1> QED
  BY InitIInv, Step, <1>1, PTL DEF Spec

\* For any number of timers, stopped however soon: no final sample is taken
\* unless the client has asked for it.
THEOREM FinalWhenAsked == ASSUME ~DestroyUnstarted PROVE Spec => []FinalOnRequest
<1>1. IInv => FinalOnRequest
  BY DEF IInv, TimerInv, ThreadInv, FinalOnRequest
<1> QED
  BY InitIInv, Step, <1>1, PTL DEF Spec

\* For any number of timers: a timer that was stopped and joined has a
\* final sample and values to compute statistics from.
THEOREM StoppedIsComplete == ASSUME ~DestroyUnstarted PROVE Spec => []DoneIsComplete
<1>1. IInv => DoneIsComplete
  BY DEF IInv, TimerInv, StateInv, DoneIsComplete
<1> QED
  BY InitIInv, Step, <1>1, PTL DEF Spec

\* For any number of timers: no thread reads events that do not count.
THEOREM EventsCountWhenRead == ASSUME ~DestroyUnstarted PROVE Spec => []ReadsCounting
<1>1. IInv => ReadsCounting
  BY DEF IInv, TypeOK, Timers, TimerInv, StateInv, ReadsCounting, State, At
<1> QED
  BY InitIInv, Step, <1>1, PTL DEF Spec

\* For any number of timers: one that was started leaves no thread behind
\* when it is joined or destroyed.
THEOREM NoThreadLeft == ASSUME ~DestroyUnstarted PROVE Spec => []DestroyStops
<1>1. IInv => DestroyStops
  BY DEF IInv, TimerInv, StateInv, DestroyStops
<1> QED
  BY InitIInv, Step, <1>1, PTL DEF Spec

-----------------------------------------------------------------------------
(* The sequences that the files are read into.                             *)

\* Every set of numbers has a least one.
LEMMA Least ==
  ASSUME NEW T \in SUBSET Nat, T # {}
  PROVE  \E m \in T : \A k \in T : m <= k
<1> DEFINE R == OpToRel(<, Nat)
<1>1. IsWellFoundedOn(R, Nat)
  BY NatLessThanWellFounded
<1>2. \A x, y \in Nat : x < y => <<x, y>> \in R
  BY DEF OpToRel
<1> HIDE DEF R
<1>3. PICK m \in T : \A y \in T : <<y, m>> \notin R
  BY <1>1, WFMin
<1>4. \A k \in T : ~(k < m)
  <2>1. SUFFICES ASSUME NEW k \in T, k < m PROVE FALSE
    OBVIOUS
  <2>2. k \in Nat /\ m \in Nat
    OBVIOUS
  <2>3. <<k, m>> \in R
    BY <1>2, <2>1, <2>2
  <2>4. QED
    BY <1>3, <2>3
<1>5. QED
  BY <1>4

\* The elements chosen from the first i of a sequence, for each i.
ChosenTo(f, s, I, n) ==
  f = [i \in 0 .. n |-> IF i = 0 THEN <<>>
                       ELSE IF i \in I THEN Append(f[i - 1], s[i]) ELSE f[i - 1]]

\* There is such a function.
LEMMA ChosenToThere ==
  ASSUME NEW s, NEW I, NEW n \in Nat
  PROVE  \E f : ChosenTo(f, s, I, n)
<1> DEFINE U == {k \in Nat : ~\E f : ChosenTo(f, s, I, k)}
<1>1. SUFFICES ASSUME U # {} PROVE FALSE
  OBVIOUS
<1>2. PICK m \in U : \A k \in U : m <= k
  <2>1. U \in SUBSET Nat
    OBVIOUS
  <2>2. QED
    BY <1>1, <2>1, Least
<1>3. m \in Nat /\ ~\E f : ChosenTo(f, s, I, m)
  OBVIOUS
<1>4. m # 0
  <2>1. SUFFICES ASSUME m = 0 PROVE FALSE
    OBVIOUS
  <2>2. PICK f : f = [i \in 0 .. 0 |-> <<>>]
    OBVIOUS
  <2>3. f = [i \in 0 .. 0 |-> IF i = 0 THEN <<>>
                             ELSE IF i \in I THEN Append(f[i - 1], s[i]) ELSE f[i - 1]]
    BY <2>2
  <2>4. QED
    BY <1>3, <2>1, <2>3 DEF ChosenTo
<1>5. m - 1 \in Nat /\ m - 1 \notin U
  BY <1>2, <1>3, <1>4
<1>6. PICK f : ChosenTo(f, s, I, m - 1)
  BY <1>5
<1>7. PICK g : g = [i \in 0 .. m |->
                      IF i = m THEN IF m \in I THEN Append(f[m - 1], s[m]) ELSE f[m - 1]
                      ELSE f[i]]
  OBVIOUS
<1>8. ASSUME NEW i \in 0 .. m
      PROVE  g[i] = IF i = 0 THEN <<>> ELSE IF i \in I THEN Append(g[i - 1], s[i]) ELSE g[i - 1]
  <2>1. CASE i = 0
    BY <1>3, <1>4, <1>5, <1>6, <1>7, <2>1 DEF ChosenTo
  <2>2. CASE i = m
    <3>1. i # 0 /\ i - 1 \in 0 .. m /\ i - 1 # m /\ i - 1 = m - 1
      BY <1>3, <1>4, <2>2
    <3>2. g[i - 1] = f[m - 1]
      BY <1>7, <3>1
    <3>3. QED
      BY <1>7, <2>2, <3>1, <3>2
  <2>3. CASE i # 0 /\ i # m
    <3>1. i \in 0 .. m - 1 /\ i - 1 \in 0 .. m /\ i - 1 # m
      BY <1>3, <2>3
    <3>2. g[i] = f[i] /\ g[i - 1] = f[i - 1]
      BY <1>7, <2>3, <3>1
    <3>3. f[i] = IF i \in I THEN Append(f[i - 1], s[i]) ELSE f[i - 1]
      BY <1>6, <2>3, <3>1 DEF ChosenTo
    <3>4. QED
      BY <2>3, <3>2, <3>3
  <2>4. QED
    BY <2>1, <2>2, <2>3
<1>9. g = [i \in 0 .. m |-> IF i = 0 THEN <<>>
                           ELSE IF i \in I THEN Append(g[i - 1], s[i]) ELSE g[i - 1]]
  BY <1>7, <1>8
<1>10. QED
  BY <1>3, <1>9 DEF ChosenTo

\* Each value of it is made from the one before.
ChosenBy(f, s, I, n) ==
  /\ f[0] = <<>>
  /\ \A i \in 1 .. n : f[i] = IF i \in I THEN Append(f[i - 1], s[i]) ELSE f[i - 1]

\* Its last value is what is chosen.
LEMMA ChosenIs ==
  ASSUME NEW s, NEW I, NEW n \in Nat, n = Len(s)
  PROVE  \E f : Chosen(s, I) = f[n] /\ ChosenBy(f, s, I, n)
<1>1. PICK f : f = CHOOSE g : ChosenTo(g, s, I, n)
  OBVIOUS
<1>2. ChosenTo(f, s, I, n)
  BY <1>1, ChosenToThere
<1>3. Chosen(s, I) = f[n]
  BY <1>1 DEF Chosen, ChosenTo
<1>4. ChosenBy(f, s, I, n)
  <2>1. \A i \in 0 .. n : f[i] = IF i = 0 THEN <<>>
                       ELSE IF i \in I THEN Append(f[i - 1], s[i]) ELSE f[i - 1]
    BY <1>2 DEF ChosenTo
  <2>2. QED
    BY <2>1 DEF ChosenBy
<1>5. QED
  BY <1>3, <1>4

\* A sequence has the elements of s at the indices.
HasElements(c, s, I) ==
  /\ \A j \in 1 .. Len(c) : \E i \in 1 .. Len(s) : i \in I /\ c[j] = s[i]
  /\ \A i \in 1 .. Len(s) : i \in I => \E j \in 1 .. Len(c) : c[j] = s[i]

\* They are what is chosen.
LEMMA ChosenElements ==
  ASSUME NEW E, NEW s \in Seq(E), NEW I
  PROVE  Chosen(s, I) \in Seq(E) /\ HasElements(Chosen(s, I), s, I)
<1>1. PICK n \in Nat : n = Len(s)
  BY LenProperties
<1>2. PICK f : Chosen(s, I) = f[n] /\ ChosenBy(f, s, I, n)
  BY <1>1, ChosenIs
<1> DEFINE Good(k) == /\ f[k] \in Seq(E)
                      /\ \A j \in 1 .. Len(f[k]) : \E i \in 1 .. k : i \in I /\ f[k][j] = s[i]
                      /\ \A i \in 1 .. k : i \in I => \E j \in 1 .. Len(f[k]) : f[k][j] = s[i]
           U == {k \in 0 .. n : ~Good(k)}
<1>3. U = {}
  <2>1. SUFFICES ASSUME U # {} PROVE FALSE
    OBVIOUS
  <2>2. PICK m \in U : \A k \in U : m <= k
    <3>1. U \in SUBSET Nat
      BY <1>1
    <3>2. QED
      BY <2>1, <3>1, Least
  <2>3. m \in 0 .. n /\ ~Good(m)
    OBVIOUS
  <2>4. m # 0
    <3>1. Good(0)
      <4>1. f[0] = <<>> /\ Len(f[0]) = 0
        BY <1>2 DEF ChosenBy
      <4>2. f[0] \in Seq(E)
        BY <4>1
      <4>3. QED
        BY <4>1, <4>2
    <3> HIDE DEF Good
    <3>2. QED
      BY <2>3, <3>1
  <2>5. m \in 1 .. n /\ m - 1 \in 0 .. n /\ m \in Nat
    BY <1>1, <2>3, <2>4
  <2>6. Good(m - 1)
    <3> HIDE DEF Good
    <3>1. m - 1 \notin U
      BY <2>2, <2>5
    <3>2. QED
      BY <2>5, <3>1
  <2>7. CASE m \notin I
    <3>1. f[m] = f[m - 1]
      BY <1>2, <2>5, <2>7 DEF ChosenBy
    <3>2. Good(m)
      BY <2>5, <2>6, <2>7, <3>1
    <3>3. QED
      BY <2>3, <3>2
  <2>8. CASE m \in I
    <3>1. PICK q \in Seq(E) : q = f[m - 1]
      BY <2>6
    <3>2. PICK l \in Nat : l = Len(q)
      BY LenProperties
    <3>3. f[m] = Append(q, s[m]) /\ s[m] \in E
      BY <1>1, <1>2, <2>5, <2>8, <3>1, ElementOfSeq DEF ChosenBy
    <3>4. /\ f[m] \in Seq(E) /\ Len(f[m]) = l + 1
          /\ \A j \in 1 .. l : f[m][j] = q[j]
          /\ f[m][l + 1] = s[m]
      BY <3>2, <3>3, AppendProperties
    <3>5. \A j \in 1 .. l + 1 : \E i \in 1 .. m : i \in I /\ f[m][j] = s[i]
      <4>1. ASSUME NEW j \in 1 .. l PROVE \E i \in 1 .. m : i \in I /\ f[m][j] = s[i]
        <5>1. PICK i \in 1 .. m - 1 : i \in I /\ q[j] = s[i]
          BY <2>6, <3>1, <3>2, <4>1
        <5>2. QED
          BY <2>5, <3>4, <4>1, <5>1
      <4>2. \E i \in 1 .. m : i \in I /\ f[m][l + 1] = s[i]
        BY <2>5, <2>8, <3>4
      <4>3. QED
        BY <4>1, <4>2
    <3>6. \A i \in 1 .. m : i \in I => \E j \in 1 .. l + 1 : f[m][j] = s[i]
      <4>1. ASSUME NEW i \in 1 .. m - 1, i \in I PROVE \E j \in 1 .. l + 1 : f[m][j] = s[i]
        <5>1. PICK j \in 1 .. l : q[j] = s[i]
          BY <2>6, <3>1, <3>2, <4>1
        <5>2. QED
          BY <3>4, <5>1
      <4>2. \E j \in 1 .. l + 1 : f[m][j] = s[m]
        BY <3>4
      <4>3. QED
        BY <2>5, <4>1, <4>2
    <3>7. Good(m)
      BY <3>4, <3>5, <3>6
    <3>8. QED
      BY <2>3, <3>7
  <2>9. QED
    BY <2>7, <2>8
<1>4. Good(n)
  <2> HIDE DEF Good
  <2>1. n \in 0 .. n /\ n \notin U
    BY <1>1, <1>3
  <2>2. QED
    BY <2>1
<1>5. PICK c : c = Chosen(s, I)
  OBVIOUS
<1>6. /\ c \in Seq(E)
      /\ \A j \in 1 .. Len(c) : \E i \in 1 .. n : i \in I /\ c[j] = s[i]
      /\ \A i \in 1 .. n : i \in I => \E j \in 1 .. Len(c) : c[j] = s[i]
  <2>1. c = f[n]
    BY <1>2, <1>5
  <2>2. QED
    BY <1>4, <2>1
<1>7. QED
  BY <1>1, <1>5, <1>6 DEF HasElements

\* Functions that choose alike from sequences that begin alike agree.
LEMMA ChosenAlike ==
  ASSUME NEW s, NEW t, NEW I, NEW J, NEW n \in Nat, NEW f, NEW g,
         ChosenBy(f, s, I, n), ChosenBy(g, t, J, n),
         \A i \in 1 .. n : s[i] = t[i] /\ (i \in I <=> i \in J)
  PROVE  f[n] = g[n]
<1> DEFINE U == {k \in 0 .. n : f[k] # g[k]}
<1>1. SUFFICES ASSUME U # {} PROVE FALSE
  OBVIOUS
<1>2. PICK m \in U : \A k \in U : m <= k
  <2>1. U \in SUBSET Nat
    OBVIOUS
  <2>2. QED
    BY <1>1, <2>1, Least
<1>3. m \in 1 .. n /\ m - 1 \in 0 .. n /\ f[m] # g[m]
  BY DEF ChosenBy
<1>4. f[m - 1] = g[m - 1]
  BY <1>2, <1>3
<1>5. (m \in I <=> m \in J) /\ s[m] = t[m]
  BY <1>3
<1>6. f[m] = IF m \in I THEN Append(f[m - 1], s[m]) ELSE f[m - 1]
  BY <1>3 DEF ChosenBy
<1>7. g[m] = IF m \in J THEN Append(g[m - 1], t[m]) ELSE g[m - 1]
  BY <1>3 DEF ChosenBy
<1>8. CASE m \in I
  BY <1>3, <1>4, <1>5, <1>6, <1>7, <1>8
<1>9. CASE m \notin I
  BY <1>3, <1>4, <1>5, <1>6, <1>7, <1>9
<1>10. QED
  BY <1>8, <1>9

\* The elements of a sequence that are in a set.
Those(s, S) == Chosen(s, {i \in DOMAIN s : s[i] \in S})

\* One element more.
LEMMA ThoseAppend ==
  ASSUME NEW E, NEW s \in Seq(E), NEW x \in E, NEW S
  PROVE  Those(Append(s, x), S) = IF x \in S THEN Append(Those(s, S), x) ELSE Those(s, S)
<1>1. PICK n \in Nat : n = Len(s)
  BY LenProperties
<1>2. PICK t : t = Append(s, x)
  OBVIOUS
<1>3. /\ t \in Seq(E) /\ Len(t) = n + 1 /\ t[n + 1] = x
      /\ \A i \in 1 .. n : t[i] = s[i]
  BY <1>1, <1>2, AppendProperties
<1>4. DOMAIN s = 1 .. n /\ DOMAIN t = 1 .. n + 1
  BY <1>1, <1>3, LenProperties
<1>5. PICK I : I = {i \in DOMAIN s : s[i] \in S}
  OBVIOUS
<1>6. PICK J : J = {i \in DOMAIN t : t[i] \in S}
  OBVIOUS
<1>7. PICK f : Chosen(s, I) = f[n] /\ ChosenBy(f, s, I, n)
  BY <1>1, ChosenIs
<1>8. PICK g : Chosen(t, J) = g[n + 1] /\ ChosenBy(g, t, J, n + 1)
  <2>1. PICK m \in Nat : m = n + 1 /\ m = Len(t)
    BY <1>3
  <2>2. \E g : Chosen(t, J) = g[m] /\ ChosenBy(g, t, J, m)
    BY <2>1, ChosenIs
  <2>3. QED
    BY <2>1, <2>2
<1>9. f[n] = g[n]
  <2>1. \A i \in 1 .. n : s[i] = t[i] /\ (i \in I <=> i \in J)
    BY <1>3, <1>4, <1>5, <1>6
  <2>2. ChosenBy(g, t, J, n)
    BY <1>8 DEF ChosenBy
  <2>3. QED
    BY <1>7, <2>1, <2>2, ChosenAlike
<1>10. n + 1 \in J <=> x \in S
  BY <1>3, <1>4, <1>6
<1>11. g[n + 1] = IF n + 1 \in J THEN Append(g[n], x) ELSE g[n]
  <2>1. n + 1 \in 1 .. n + 1 /\ (n + 1) - 1 = n
    OBVIOUS
  <2>2. g[n + 1] = IF n + 1 \in J THEN Append(g[(n + 1) - 1], t[n + 1]) ELSE g[(n + 1) - 1]
    BY <1>8, <2>1 DEF ChosenBy
  <2>3. QED
    BY <1>3, <2>1, <2>2
<1>12. Those(s, S) = f[n] /\ Those(t, S) = g[n + 1]
  BY <1>5, <1>6, <1>7, <1>8 DEF Those
<1>13. QED
  BY <1>2, <1>9, <1>10, <1>11, <1>12

\* To choose more first makes no difference.
LEMMA ThoseChosen ==
  ASSUME NEW E, NEW s \in Seq(E), NEW S, NEW I,
         \A i \in 1 .. Len(s) : s[i] \in S => i \in I
  PROVE  Those(Chosen(s, I), S) = Those(s, S)
<1>1. PICK n \in Nat : n = Len(s)
  BY LenProperties
<1>2. PICK f : Chosen(s, I) = f[n] /\ ChosenBy(f, s, I, n)
  BY <1>1, ChosenIs
<1>3. PICK J : J = {i \in DOMAIN s : s[i] \in S}
  OBVIOUS
<1>4. PICK g : Chosen(s, J) = g[n] /\ ChosenBy(g, s, J, n)
  BY <1>1, ChosenIs
<1>5. DOMAIN s = 1 .. n
  BY <1>1, LenProperties
<1> DEFINE U == {k \in 0 .. n : ~(f[k] \in Seq(E) /\ Those(f[k], S) = g[k])}
<1>6. U = {}
  <2>1. SUFFICES ASSUME U # {} PROVE FALSE
    OBVIOUS
  <2>2. PICK m \in U : \A k \in U : m <= k
    <3>1. U \in SUBSET Nat
      BY <1>1
    <3>2. QED
      BY <2>1, <3>1, Least
  <2>3. m \in 0 .. n /\ ~(f[m] \in Seq(E) /\ Those(f[m], S) = g[m])
    OBVIOUS
  <2>4. m # 0
    <3>1. f[0] \in Seq(E) /\ Len(f[0]) = 0 /\ DOMAIN f[0] = {}
      BY <1>2 DEF ChosenBy
    <3>2. PICK q : q = f[0]
      OBVIOUS
    <3>3. PICK h : Chosen(q, {i \in DOMAIN q : q[i] \in S}) = h[0] /\ h[0] = <<>>
      BY <3>1, <3>2, ChosenIs DEF ChosenBy
    <3>4. Those(f[0], S) = g[0]
      BY <1>4, <3>2, <3>3 DEF Those, ChosenBy
    <3>5. QED
      BY <2>3, <3>1, <3>4
  <2>5. m \in 1 .. n /\ m - 1 \in 0 .. n /\ m - 1 \notin U
    BY <1>1, <2>2, <2>3, <2>4
  <2>6. f[m - 1] \in Seq(E) /\ Those(f[m - 1], S) = g[m - 1]
    BY <2>5
  <2>7. f[m] = IF m \in I THEN Append(f[m - 1], s[m]) ELSE f[m - 1]
    BY <1>2, <2>5 DEF ChosenBy
  <2>8. g[m] = IF m \in J THEN Append(g[m - 1], s[m]) ELSE g[m - 1]
    BY <1>4, <2>5 DEF ChosenBy
  <2>9. (m \in J <=> s[m] \in S) /\ (m \in J => m \in I) /\ s[m] \in E
    BY <1>1, <1>3, <1>5, <2>5, ElementOfSeq
  <2>10. CASE m \in I
    <3>1. PICK q \in Seq(E) : q = f[m - 1]
      BY <2>6
    <3>2. f[m] = Append(q, s[m]) /\ f[m] \in Seq(E)
      BY <2>7, <2>9, <2>10, <3>1, AppendProperties
    <3>3. Those(f[m], S) = IF s[m] \in S THEN Append(Those(q, S), s[m]) ELSE Those(q, S)
      <4>1. PICK x \in E : x = s[m]
        BY <2>9
      <4>2. Those(Append(q, x), S) = IF x \in S THEN Append(Those(q, S), x) ELSE Those(q, S)
        BY ThoseAppend
      <4>3. QED
        BY <3>2, <4>1, <4>2
    <3>4. Those(f[m], S) = g[m]
      BY <2>6, <2>8, <2>9, <3>1, <3>3
    <3>5. QED
      BY <2>3, <3>2, <3>4
  <2>11. CASE m \notin I
    BY <2>3, <2>6, <2>7, <2>8, <2>9, <2>11
  <2>12. QED
    BY <2>10, <2>11
<1>7. Those(f[n], S) = g[n]
  <2>1. n \in 0 .. n /\ n \notin U
    BY <1>1, <1>6
  <2>2. QED
    BY <2>1
<1>8. Those(s, S) = g[n]
  BY <1>3, <1>4 DEF Those
<1>9. QED
  BY <1>2, <1>7, <1>8

\* All is chosen where all indices are.
LEMMA ChosenAll ==
  ASSUME NEW E, NEW s \in Seq(E), NEW I, \A i \in 1 .. Len(s) : i \in I
  PROVE  Chosen(s, I) = s
<1>1. PICK n \in Nat : n = Len(s)
  BY LenProperties
<1>2. PICK f : Chosen(s, I) = f[n] /\ ChosenBy(f, s, I, n)
  BY <1>1, ChosenIs
<1> DEFINE Good(k) == f[k] \in Seq(E) /\ Len(f[k]) = k /\ \A j \in 1 .. k : f[k][j] = s[j]
           U == {k \in 0 .. n : ~Good(k)}
<1>3. U = {}
  <2>1. SUFFICES ASSUME U # {} PROVE FALSE
    OBVIOUS
  <2>2. PICK m \in U : \A k \in U : m <= k
    <3>1. U \in SUBSET Nat
      BY <1>1
    <3>2. QED
      BY <2>1, <3>1, Least
  <2>3. m \in 0 .. n /\ ~Good(m)
    OBVIOUS
  <2>4. m # 0
    <3>1. Good(0)
      BY <1>2 DEF ChosenBy
    <3> HIDE DEF Good
    <3>2. QED
      BY <2>3, <3>1
  <2>5. m \in 1 .. n /\ m - 1 \in 0 .. n /\ m \in Nat
    BY <1>1, <2>3, <2>4
  <2>6. Good(m - 1)
    <3> HIDE DEF Good
    <3>1. m - 1 \notin U
      BY <2>2, <2>5
    <3>2. QED
      BY <2>5, <3>1
  <2>7. PICK q \in Seq(E) : q = f[m - 1]
    BY <2>6
  <2>8. f[m] = Append(q, s[m]) /\ s[m] \in E /\ Len(q) = m - 1
    BY <1>1, <1>2, <2>5, <2>6, <2>7, ElementOfSeq DEF ChosenBy
  <2>9. /\ f[m] \in Seq(E) /\ Len(f[m]) = m
        /\ \A j \in 1 .. m - 1 : f[m][j] = q[j]
        /\ f[m][m] = s[m]
    BY <2>5, <2>8, AppendProperties
  <2>10. Good(m)
    <3>1. ASSUME NEW j \in 1 .. m PROVE f[m][j] = s[j]
      <4>1. j \in 1 .. m - 1 \/ j = m
        BY <2>5
      <4>2. CASE j \in 1 .. m - 1
        BY <2>6, <2>7, <2>9, <4>2
      <4>3. CASE j = m
        BY <2>9, <4>3
      <4>4. QED
        BY <4>1, <4>2, <4>3
    <3>2. QED
      BY <2>9, <3>1
  <2>11. QED
    BY <2>3, <2>10
<1>4. Good(n)
  <2> HIDE DEF Good
  <2>1. n \in 0 .. n /\ n \notin U
    BY <1>1, <1>3
  <2>2. QED
    BY <2>1
<1>5. PICK c : c = Chosen(s, I)
  OBVIOUS
<1>6. c \in Seq(E) /\ Len(c) = n /\ \A j \in 1 .. n : c[j] = s[j]
  BY <1>2, <1>4, <1>5
<1>7. c = s
  BY <1>1, <1>6, SeqEqual
<1>8. QED
  BY <1>5, <1>7

-----------------------------------------------------------------------------
(* The lists of events.                                                    *)

\* The elements of a sequence.
LEMMA ElementsOf ==
  ASSUME NEW s, IsSequence(s)
  PROVE  \E E : E = {s[i] : i \in DOMAIN s} /\ s \in Seq(E)
BY DEF IsSequence

\* A sequence is one of its elements.
LEMMA SequenceIs ==
  ASSUME NEW E, NEW s \in Seq(E)
  PROVE  IsSequence(s)
<1>1. PICK n \in Nat : n = Len(s)
  BY LenProperties
<1>2. DOMAIN s = 1 .. n /\ \A i \in 1 .. n : s[i] \in E
  BY <1>1, LenProperties, ElementOfSeq
<1>3. PICK D : D = {s[i] : i \in DOMAIN s}
  OBVIOUS
<1>4. s = [i \in 1 .. n |-> s[i]]
  BY <1>1, SeqDef, <1>2
<1>5. [i \in 1 .. n |-> s[i]] \in Seq(D)
  BY <1>2, <1>3
<1>6. QED
  BY <1>3, <1>4, <1>5 DEF IsSequence

\* The lines of a component's events are those of a set.
LinesIn(E, c) == {l \in E : OfComponent(l, c)}
OwnLines(s, c) == Chosen(s, {i \in DOMAIN s : OfComponent(s[i], c)})

\* The lines of a set are chosen as those of the component are.
LEMMA LinesOf ==
  ASSUME NEW E, NEW s \in Seq(E), NEW c
  PROVE  Those(s, LinesIn(E, c)) = OwnLines(s, c)
<1>1. \A i \in DOMAIN s : s[i] \in E
  BY LenProperties, ElementOfSeq
<1>2. {i \in DOMAIN s : s[i] \in LinesIn(E, c)} = {i \in DOMAIN s : OfComponent(s[i], c)}
  BY <1>1 DEF LinesIn
<1>3. QED
  BY <1>2 DEF Those, OwnLines

\* The first line, which the list takes whatever it says, makes no difference.
LEMMA EventsOfList ==
  ASSUME NEW lines, IsSequence(lines), NEW c
  PROVE  EventsOf(ReadEventList(lines), c) = EventsOf(lines, c)
<1>1. PICK E : lines \in Seq(E)
  BY ElementsOf
<1>2. PICK S : S = LinesIn(E, c)
  OBVIOUS
<1>3. PICK I : I = {i \in DOMAIN lines : i = 1 \/ lines[i].kind = "event"}
  OBVIOUS
<1>4. PICK r : r = ReadEventList(lines)
  OBVIOUS
<1>5. r = Chosen(lines, I) /\ r \in Seq(E)
  BY <1>1, <1>3, <1>4, ChosenElements DEF ReadEventList
<1>6. \A i \in 1 .. Len(lines) : lines[i] \in S => i \in I
  BY <1>1, <1>2, <1>3, LenProperties DEF OfComponent, LinesIn
<1>7. Those(r, S) = Those(lines, S)
  BY <1>1, <1>5, <1>6, ThoseChosen
<1>8. OwnLines(r, c) = OwnLines(lines, c)
  <2>1. Those(r, S) = OwnLines(r, c)
    BY <1>2, <1>5, LinesOf
  <2>2. Those(lines, S) = OwnLines(lines, c)
    BY <1>1, <1>2, LinesOf
  <2>3. QED
    BY <1>7, <2>1, <2>2
<1>9. QED
  BY <1>4, <1>8 DEF EventsOf, OwnLines

\* What the events of a component are, and when there are any.
LEMMA EventsOfElements ==
  ASSUME NEW lines, IsSequence(lines), NEW c
  PROVE  /\ IsSequence(EventsOf(lines, c))
         /\ \A j \in DOMAIN EventsOf(lines, c) :
              \E i \in DOMAIN lines :
                OfComponent(lines[i], c) /\ EventsOf(lines, c)[j] = lines[i].name
         /\ \A i \in DOMAIN lines : OfComponent(lines[i], c) =>
              \E j \in DOMAIN EventsOf(lines, c) : EventsOf(lines, c)[j] = lines[i].name
         /\ EventsOf(lines, c) # <<>> <=> \E i \in DOMAIN lines : OfComponent(lines[i], c)
<1>1. PICK E : lines \in Seq(E)
  BY ElementsOf
<1>2. PICK I : I = {i \in DOMAIN lines : OfComponent(lines[i], c)}
  OBVIOUS
<1>3. PICK own : own = Chosen(lines, I)
  OBVIOUS
<1>4. own \in Seq(E) /\ HasElements(own, lines, I)
  BY <1>1, <1>3, ChosenElements
<1>5. PICK n \in Nat : n = Len(own) /\ DOMAIN own = 1 .. n
  BY <1>4, LenProperties
<1>6. PICK m \in Nat : m = Len(lines) /\ DOMAIN lines = 1 .. m
  BY <1>1, LenProperties
<1>7. PICK t : t = EventsOf(lines, c)
  OBVIOUS
<1>8. t = [j \in 1 .. n |-> own[j].name]
  BY <1>2, <1>3, <1>5, <1>7 DEF EventsOf
<1>9. DOMAIN t = 1 .. n /\ t \in Seq({t[i] : i \in 1 .. n})
  BY <1>8
<1>10. IsSequence(t)
  BY <1>9 DEF IsSequence
<1>11. \A j \in DOMAIN t : \E i \in DOMAIN lines :
         OfComponent(lines[i], c) /\ t[j] = lines[i].name
  <2>1. ASSUME NEW j \in 1 .. n
        PROVE \E i \in DOMAIN lines : OfComponent(lines[i], c) /\ t[j] = lines[i].name
    <3>1. PICK i \in 1 .. m : i \in I /\ own[j] = lines[i]
      BY <1>4, <1>5, <1>6 DEF HasElements
    <3>2. QED
      BY <1>2, <1>6, <1>8, <3>1
  <2>2. QED
    BY <1>9, <2>1
<1>12. \A i \in DOMAIN lines : OfComponent(lines[i], c) => \E j \in DOMAIN t :
         t[j] = lines[i].name
  <2>1. ASSUME NEW i \in 1 .. m, OfComponent(lines[i], c)
        PROVE \E j \in DOMAIN t : t[j] = lines[i].name
    <3>1. i \in I
      BY <1>2, <1>6, <2>1
    <3>2. PICK j \in 1 .. n : own[j] = lines[i]
      BY <1>4, <1>5, <1>6, <3>1 DEF HasElements
    <3>3. QED
      BY <1>8, <1>9, <3>2
  <2>2. QED
    BY <1>6, <2>1
<1>13. t # <<>> <=> \E i \in DOMAIN lines : OfComponent(lines[i], c)
  <2>1. t = <<>> <=> n = 0
    <3>1. CASE n = 0
      BY <1>8, <3>1
    <3>2. CASE n # 0
      BY <1>5, <1>9, <3>2
    <3>3. QED
      BY <3>1, <3>2
  <2>2. n # 0 => 1 \in DOMAIN t
    BY <1>5, <1>9
  <2>3. QED
    BY <1>9, <1>11, <1>12, <2>1, <2>2
<1>14. QED
  BY <1>7, <1>10, <1>11, <1>12, <1>13

\* A component has a number in a list it is in.
LEMMA CmpIndexIs ==
  ASSUME NEW list, IsSequence(list), NEW c
  PROVE  IF \E i \in DOMAIN list : list[i] = c
         THEN /\ CmpIndex(c, list) \in DOMAIN list /\ CmpIndex(c, list) # 0
              /\ list[CmpIndex(c, list)] = c
         ELSE CmpIndex(c, list) = 0
<1>1. CASE ~\E i \in DOMAIN list : list[i] = c
  BY <1>1 DEF CmpIndex
<1>2. CASE \E i \in DOMAIN list : list[i] = c
  <2>1. PICK n \in Nat : DOMAIN list = 1 .. n
    BY ElementsOf, LenProperties
  <2>2. PICK T : T = {i \in 1 .. n : list[i] = c}
    OBVIOUS
  <2>3. T \in SUBSET Nat /\ T # {}
    BY <1>2, <2>1, <2>2
  <2>4. PICK k \in T : \A j \in T : k <= j
    BY <2>3, Least
  <2>5. \A j \in 1 .. (k - 1) : list[j] # c
    BY <2>2, <2>3, <2>4
  <2>6. k \in DOMAIN list /\ list[k] = c
    BY <2>1, <2>2, <2>4
  <2>7. PICK i : i = CmpIndex(c, list)
    OBVIOUS
  <2>8. i = CHOOSE x \in DOMAIN list : list[x] = c /\ \A j \in 1 .. (x - 1) : list[j] # c
    BY <1>2, <2>7 DEF CmpIndex
  <2>9. i \in DOMAIN list /\ list[i] = c
    BY <2>5, <2>6, <2>8
  <2>10. QED
    BY <1>2, <2>1, <2>7, <2>9
<1>3. QED
  BY <1>1, <1>2

\* The lists that are sorted have a list for each component of the given ones
\* that occurs, with its events.
LEMMA SortedLists ==
  ASSUME NEW cmps, IsSequence(cmps), NEW lines, IsSequence(lines), NEW c,
         NEW k, k = CmpIndex(c, UsedComponents(cmps, ReadEventList(lines)))
  PROVE  /\ k # 0 <=> (\E i \in DOMAIN cmps : cmps[i] = c) /\ EventsOf(lines, c) # <<>>
         /\ k # 0 => SortEvents(cmps, ReadEventList(lines))[k] = EventsOf(lines, c)
<1>1. PICK E : cmps \in Seq(E)
  BY ElementsOf
<1>2. PICK r : r = ReadEventList(lines)
  OBVIOUS
<1>3. IsSequence(r)
  <2>1. PICK D : lines \in Seq(D)
    BY ElementsOf
  <2>2. QED
    BY <1>2, <2>1, ChosenElements, SequenceIs DEF ReadEventList
<1>4. EventsOf(r, c) = EventsOf(lines, c)
  BY <1>2, EventsOfList
<1>5. EventsOf(lines, c) # <<>> <=> \E i \in DOMAIN r : OfComponent(r[i], c)
  BY <1>3, <1>4, EventsOfElements
<1>6. PICK I : I = {j \in DOMAIN cmps : \E i \in DOMAIN r : OfComponent(r[i], cmps[j])}
  OBVIOUS
<1>7. PICK used : used = UsedComponents(cmps, r)
  OBVIOUS
<1>8. used = Chosen(cmps, I)
  BY <1>6, <1>7 DEF UsedComponents
<1>9. used \in Seq(E) /\ IsSequence(used) /\ HasElements(used, cmps, I)
  <2>1. used \in Seq(E) /\ HasElements(used, cmps, I)
    BY <1>1, <1>8, ChosenElements
  <2>2. QED
    BY <2>1, SequenceIs
<1>10. DOMAIN used = 1 .. Len(used) /\ DOMAIN cmps = 1 .. Len(cmps)
  BY <1>1, <1>9, LenProperties
<1>11. (\E j \in DOMAIN used : used[j] = c)
       <=> (\E i \in DOMAIN cmps : cmps[i] = c) /\ EventsOf(lines, c) # <<>>
  <2>1. ASSUME NEW j \in DOMAIN used, used[j] = c
        PROVE (\E i \in DOMAIN cmps : cmps[i] = c) /\ EventsOf(lines, c) # <<>>
    <3>1. PICK i \in 1 .. Len(cmps) : i \in I /\ cmps[i] = c
      BY <1>9, <1>10, <2>1 DEF HasElements
    <3>2. QED
      BY <1>5, <1>6, <1>10, <3>1
  <2>2. ASSUME NEW i \in DOMAIN cmps, cmps[i] = c, EventsOf(lines, c) # <<>>
        PROVE \E j \in DOMAIN used : used[j] = c
    <3>1. i \in I
      BY <1>5, <1>6, <2>2
    <3>2. QED
      BY <1>9, <1>10, <2>2, <3>1 DEF HasElements
  <2>3. QED
    BY <2>1, <2>2
<1>12. IF \E j \in DOMAIN used : used[j] = c
       THEN k \in DOMAIN used /\ k # 0 /\ used[k] = c ELSE k = 0
  <2>1. k = CmpIndex(c, used)
    BY <1>2, <1>7
  <2>2. QED
    BY <1>9, <2>1, CmpIndexIs
<1>13. k # 0 => SortEvents(cmps, r)[k] = EventsOf(r, c)
  BY <1>7, <1>12 DEF SortEvents
<1>14. QED
  BY <1>2, <1>4, <1>11, <1>12, <1>13

-----------------------------------------------------------------------------
(* The invariant of ms_init and ms_init_measurement.                       *)

\* The operation of a line.
OperationOf(line) ==
  [name |-> line.name, op1 |-> line.op1, value0 |-> ParseStats(line.value0),
   value1 |-> ParseStats(line.value1), units |-> line.units]

\* The operations of a file are those of its lines.
LEMMA OpsOfLines ==
  ASSUME NEW lines, IsSequence(lines)
  PROVE  /\ IsSequence(EventOps(lines))
         /\ \A j \in DOMAIN EventOps(lines) :
              \E i \in DOMAIN lines :
                IsOps(lines[i]) /\ EventOps(lines)[j] = OperationOf(lines[i])
         /\ \A i \in DOMAIN lines : IsOps(lines[i]) =>
              \E j \in DOMAIN EventOps(lines) : EventOps(lines)[j] = OperationOf(lines[i])
<1>1. PICK E : lines \in Seq(E)
  BY ElementsOf
<1>2. PICK I : I = {i \in DOMAIN lines : IsOps(lines[i])}
  OBVIOUS
<1>3. PICK own : own = Chosen(lines, I)
  OBVIOUS
<1>4. own \in Seq(E) /\ HasElements(own, lines, I)
  BY <1>1, <1>3, ChosenElements
<1>5. PICK n \in Nat : n = Len(own) /\ DOMAIN own = 1 .. n
  BY <1>4, LenProperties
<1>6. PICK m \in Nat : m = Len(lines) /\ DOMAIN lines = 1 .. m
  BY <1>1, LenProperties
<1>7. PICK t : t = EventOps(lines)
  OBVIOUS
<1>8. t = [j \in 1 .. n |-> OperationOf(own[j])]
  BY <1>2, <1>3, <1>5, <1>7 DEF EventOps, OperationOf
<1>9. DOMAIN t = 1 .. n /\ t \in Seq({t[i] : i \in 1 .. n})
  BY <1>8
<1>10. IsSequence(t)
  BY <1>9 DEF IsSequence
<1>11. \A j \in DOMAIN t : \E i \in DOMAIN lines :
         IsOps(lines[i]) /\ t[j] = OperationOf(lines[i])
  <2>1. ASSUME NEW j \in 1 .. n
        PROVE \E i \in DOMAIN lines : IsOps(lines[i]) /\ t[j] = OperationOf(lines[i])
    <3>1. PICK i \in 1 .. m : i \in I /\ own[j] = lines[i]
      BY <1>4, <1>5, <1>6 DEF HasElements
    <3>2. QED
      BY <1>2, <1>6, <1>8, <3>1
  <2>2. QED
    BY <1>9, <2>1
<1>12. \A i \in DOMAIN lines : IsOps(lines[i]) => \E j \in DOMAIN t :
         t[j] = OperationOf(lines[i])
  <2>1. ASSUME NEW i \in 1 .. m, IsOps(lines[i])
        PROVE \E j \in DOMAIN t : t[j] = OperationOf(lines[i])
    <3>1. i \in I
      BY <1>2, <1>6, <2>1
    <3>2. PICK j \in 1 .. n : own[j] = lines[i]
      BY <1>4, <1>5, <1>6, <3>1 DEF HasElements
    <3>3. QED
      BY <1>8, <1>9, <3>2
  <2>2. QED
    BY <1>6, <2>1
<1>13. QED
  BY <1>7, <1>10, <1>11, <1>12

\* A name has an operation where the file has a line for it.
LEMMA NamesOfOps ==
  ASSUME NEW file, IsSequence(file.lines), NEW name
  PROVE  (\E i \in DOMAIN EventOps(file.lines) : EventOps(file.lines)[i].name = name)
         <=> HasLine(file, name)
<1>1. PICK t : t = EventOps(file.lines)
  OBVIOUS
<1>2. \A j \in DOMAIN t : \E i \in DOMAIN file.lines :
        IsOps(file.lines[i]) /\ t[j] = OperationOf(file.lines[i])
  BY <1>1, OpsOfLines
<1>3. \A i \in DOMAIN file.lines : IsOps(file.lines[i]) =>
        \E j \in DOMAIN t : t[j] = OperationOf(file.lines[i])
  BY <1>1, OpsOfLines
<1>4. \A l : OperationOf(l).name = l.name
  BY DEF OperationOf
<1>5. ASSUME NEW j \in DOMAIN t, t[j].name = name PROVE HasLine(file, name)
  <2>1. PICK i \in DOMAIN file.lines : IsOps(file.lines[i]) /\ t[j] = OperationOf(file.lines[i])
    BY <1>2
  <2>2. QED
    BY <1>4, <1>5, <2>1 DEF HasLine
<1>6. ASSUME HasLine(file, name) PROVE \E j \in DOMAIN t : t[j].name = name
  <2>1. PICK i \in DOMAIN file.lines : IsOps(file.lines[i]) /\ file.lines[i].name = name
    BY <1>6 DEF HasLine
  <2>2. PICK j \in DOMAIN t : t[j] = OperationOf(file.lines[i])
    BY <1>3, <2>1
  <2>3. QED
    BY <1>4, <2>1, <2>2
<1>7. QED
  BY <1>1, <1>5, <1>6

(***************************************************************************)
(* The inductive invariant: what has been read is what the files say.      *)
(***************************************************************************)

\* The operations are those of a file that counts.
OpsAre(files, file) ==
  IF Whole(file) THEN files.hasOps = TRUE /\ files.ops = EventOps(file.lines)
  ELSE files.hasOps = FALSE

\* The lists are those of a file, for the components they were read for.
ListsAre(files, file, cmps) ==
  IF ReadsEventList(file)
  THEN /\ files.hasLists = TRUE
       /\ files.cmp = UsedComponents(cmps, ReadEventList(file.lines))
       /\ files.lists = SortEvents(cmps, ReadEventList(file.lines))
  ELSE files.hasLists = FALSE

\* errno is clear but for a report of what is disabled.
Clean == CleanErrno \/ Disabled = {}

\* errno is clear before PAPI is asked, and whenever the report leaves it alone.
ErrnoInv == /\ Clean => errno = "clear"
            /\ at \in {"apapi", "components"} => errno = "clear"

\* What holds at every step: a state of the procedure, and sequences.
AtInv == /\ env \in Environment
         /\ at \in {"apapi", "failed", "components", "exit", "eventops", "eventlist",
                    "measurement", "ready"}
         /\ IsSequence(enabled)
         /\ set = [c \in Known |-> set[c]]

\* The default files, once read, are those of the environment.
DefaultInv ==
  IF at \in {"apapi", "failed"} THEN default = NoFiles
  ELSE OpsAre(default, env.defaultOps) /\ ListsAre(default, env.defaultList, KnownComponents)

\* The files of the user, once read, are those of the environment.
UserInv ==
  /\ at \in {"apapi", "components", "eventops"} => user = NoFiles
  /\ at = "eventlist" => user.hasLists = FALSE /\ user.cmp = <<>> /\ user.lists = <<>>
  /\ at \in {"eventlist", "measurement", "ready"} => (Clean => OpsAre(user, env.userOps))
  /\ at \in {"measurement", "ready"} => ListsAre(user, env.userList, enabled)

\* A set holds the events and the operations that the files name.
MadeRight(c) ==
  /\ set[c].names = Taken(c, PromisedList(c))
  /\ DOMAIN set[c].ops = DOMAIN set[c].names
  /\ \A i \in DOMAIN set[c].names : set[c].ops[i] = OpOf(set[c].names[i])

\* A set that has been created is what the files say.
SetInv ==
  \A c \in Known :
    IF set[c].created = TRUE
    THEN /\ at \in {"measurement", "ready", "exit"}
         /\ Clean => OpsAre(user, env.userOps)
         /\ MadeRight(c)
    ELSE set[c] = NoSet

\* The inductive invariant: what has been read is what the files say.
EventsInv == AtInv /\ ErrnoInv /\ DefaultInv /\ UserInv /\ SetInv

\* A process starts with nothing read.
LEMMA EventsInit == EInit => EventsInv
<1>1. EInit => AtInv
  BY DEF EInit, AtInv, IsSequence
<1>2. EInit => ErrnoInv
  BY DEF EInit, ErrnoInv
<1>3. EInit => DefaultInv /\ UserInv
  BY DEF EInit, DefaultInv, UserInv
<1>4. EInit => SetInv
  BY DEF EInit, SetInv, NoSet
<1>5. QED
  BY <1>1, <1>2, <1>3, <1>4 DEF EventsInv

\* The components in their order.
LEMMA KnownSequence ==
  /\ IsSequence(KnownComponents) /\ DOMAIN KnownComponents = 1 .. 5
  /\ \A c \in Known : \E i \in 1 .. 5 : KnownComponents[i] = c
  /\ \A i \in 1 .. 5 : KnownComponents[i] \in Known
<1>1. PICK k : k = KnownComponents
  OBVIOUS
<1>2. k \in Seq({"rapl", "nvml", "maxeler", "ipmi", "micknc"}) /\ Len(k) = 5
  BY <1>1 DEF KnownComponents
<1>3. DOMAIN k = 1 .. 5
  BY <1>2, LenProperties
<1>4. IsSequence(k)
  BY <1>2, SequenceIs
<1>5. Known = {k[i] : i \in 1 .. 5}
  BY <1>1, <1>3 DEF Known
<1>6. QED
  BY <1>1, <1>3, <1>4, <1>5

\* A known component is found among the known ones.
LEMMA KnownIndex ==
  ASSUME NEW c \in Known
  PROVE  CmpIndex(c, KnownComponents) \in 1 .. 5
BY KnownSequence, CmpIndexIs

\* If every known component occurs in a list, each has its list.
LEMMA AllKnownUsed ==
  ASSUME NEW lines, IsSequence(lines), \A c \in Known : EventsOf(lines, c) # <<>>
  PROVE  UsedComponents(KnownComponents, ReadEventList(lines)) = KnownComponents
<1>1. PICK r : r = ReadEventList(lines)
  OBVIOUS
<1>2. IsSequence(r)
  <2>1. PICK D : lines \in Seq(D)
    BY ElementsOf
  <2>2. QED
    BY <1>1, <2>1, ChosenElements, SequenceIs DEF ReadEventList
<1>3. \A c \in Known : \E i \in DOMAIN r : OfComponent(r[i], c)
  <2>1. ASSUME NEW c \in Known PROVE \E i \in DOMAIN r : OfComponent(r[i], c)
    <3>1. EventsOf(r, c) # <<>>
      BY <1>1, EventsOfList
    <3>2. QED
      BY <1>2, <3>1, EventsOfElements
  <2>2. QED
    BY <2>1
<1>4. PICK I : I = {k \in DOMAIN KnownComponents : \E i \in DOMAIN r :
        OfComponent(r[i], KnownComponents[k])}
  OBVIOUS
<1>5. PICK K : K = KnownComponents
  OBVIOUS
<1>6. PICK E : K \in Seq(E)
  BY <1>5, KnownSequence, ElementsOf
<1>7. Len(K) = 5
  BY <1>5, <1>6, KnownSequence, LenProperties
<1>8. \A k \in 1 .. 5 : k \in I
  BY <1>3, <1>4, KnownSequence
<1>9. Chosen(K, I) = K
  BY <1>6, <1>7, <1>8, ChosenAll
<1>10. QED
  BY <1>1, <1>4, <1>5, <1>9 DEF UsedComponents

\* The maps know events of every component.
LEMMA SomeRule ==
  ASSUME NEW c \in Known
  PROVE  \E q : q \in Rules(c)
<1>1. c \in {"rapl", "nvml", "maxeler", "ipmi", "micknc"}
  BY KnownSequence DEF KnownComponents
<1>2. /\ CpuTimes # {} /\ GpuProcesses \in NvmlRules /\ FpgaPower \in MaxelerRules
      /\ MicPower \in MickncRules /\ BoardPower \in IpmiRules
  BY DEF CpuTimes, NvmlRules, MaxelerRules, MickncRules, IpmiRules
<1>3. RaplRules # {}
  <2>2. CpuTimes \subseteq RaplRules
    BY DEF RaplRules
  <2>3. QED
    BY <1>2, <2>2
<1>4. QED
  BY <1>1, <1>2, <1>3 DEF Rules

\* The default list has events of every component.
LEMMA EveryComponentOccurs ==
  ASSUME NEW e \in Environment, ReadsEventList(e.defaultList), NEW c \in Known
  PROVE  EventsOf(e.defaultList.lines, c) # <<>>
<1>1. IsSequence(e.defaultList.lines)
  BY EnvironmentAssumption
<1>2. PICK q : q \in Rules(c)
  BY SomeRule
<1>3. PICK i \in DOMAIN e.defaultList.lines :
        e.defaultList.lines[i] = EventLine([cmp |-> c, event |-> q.event])
  BY <1>2, ShippedAssumption
<1>4. OfComponent(e.defaultList.lines[i], c)
  BY <1>3 DEF EventLine, OfComponent
<1>5. QED
  BY <1>1, <1>4, EventsOfElements

\* The names of the default and of the user's list that c has, in terms of the files.
LEMMA ListIs ==
  ASSUME EventsInv, at = "measurement", NEW c \in Known, \E i \in DOMAIN enabled :
    enabled[i] = c
  PROVE  UserList(c) =
           IF Own(env.userList, c) # <<>> THEN [kind |-> "list", names |-> Own(env.userList, c)]
           ELSE IF Own(env.defaultList, c) # <<>>
           THEN [kind |-> "list", names |-> Own(env.defaultList, c)]
           ELSE [kind |-> "none", names |-> <<>>]
<1>1. /\ env \in Environment /\ IsSequence(enabled)
      /\ ListsAre(default, env.defaultList, KnownComponents)
      /\ ListsAre(user, env.userList, enabled)
  BY DEF EventsInv, AtInv, DefaultInv, UserInv
<1>2. IsSequence(env.defaultList.lines) /\ IsSequence(env.userList.lines)
  BY <1>1, EnvironmentAssumption
<1>3. PICK ku : ku = CmpIndex(c, user.cmp)
  OBVIOUS
<1>4. user.hasLists = TRUE /\ ku # 0 <=> Own(env.userList, c) # <<>>
  <2>1. CASE ReadsEventList(env.userList)
    <3>1. user.cmp = UsedComponents(enabled, ReadEventList(env.userList.lines)) /\ user.hasLists = TRUE
      BY <1>1, <2>1 DEF ListsAre
    <3>2. ku # 0 <=> EventsOf(env.userList.lines, c) # <<>>
      BY <1>1, <1>2, <1>3, <3>1, SortedLists
    <3>3. QED
      BY <2>1, <3>1, <3>2 DEF Own
  <2>2. CASE ~ReadsEventList(env.userList)
    BY <1>1, <2>2 DEF ListsAre, Own
  <2>3. QED
    BY <2>1, <2>2
<1>5. user.hasLists = TRUE /\ ku # 0 => user.lists[ku] = Own(env.userList, c)
  <2>1. CASE ReadsEventList(env.userList)
    <3>1. /\ user.cmp = UsedComponents(enabled, ReadEventList(env.userList.lines))
          /\ user.lists = SortEvents(enabled, ReadEventList(env.userList.lines))
      BY <1>1, <2>1 DEF ListsAre
    <3>2. ku # 0 => user.lists[ku] = EventsOf(env.userList.lines, c)
      BY <1>1, <1>2, <1>3, <3>1, SortedLists
    <3>3. QED
      BY <2>1, <3>2 DEF Own
  <2>2. CASE ~ReadsEventList(env.userList)
    BY <1>1, <2>2 DEF ListsAre
  <2>3. QED
    BY <2>1, <2>2
<1>6. DefaultList(c) = IF Own(env.defaultList, c) # <<>>
                       THEN [kind |-> "list", names |-> Own(env.defaultList, c)]
                       ELSE [kind |-> "none", names |-> <<>>]
  <2>1. CASE ~ReadsEventList(env.defaultList)
    <3>1. default.hasLists = FALSE /\ Own(env.defaultList, c) = <<>>
      BY <1>1, <2>1 DEF ListsAre, Own
    <3>2. QED
      BY <3>1 DEF DefaultList
  <2>2. CASE ReadsEventList(env.defaultList)
    <3>1. PICK r : r = ReadEventList(env.defaultList.lines)
      OBVIOUS
    <3>2. PICK used : used = UsedComponents(KnownComponents, r)
      OBVIOUS
    <3>3. default.hasLists = TRUE /\ default.lists = SortEvents(KnownComponents, r)
      BY <1>1, <2>2, <3>1 DEF ListsAre
    <3>4. \A d \in Known : EventsOf(env.defaultList.lines, d) # <<>>
      BY <1>1, <1>2, <2>2, EveryComponentOccurs
    <3>5. used = KnownComponents
      BY <1>2, <3>1, <3>2, <3>4, AllKnownUsed
    <3>6. PICK k : k = CmpIndex(c, KnownComponents)
      OBVIOUS
    <3>7. k \in 1 .. 5
      BY <3>6, KnownIndex
    <3>8. default.lists[k] = EventsOf(env.defaultList.lines, c)
      <4>1. k = CmpIndex(c, UsedComponents(KnownComponents, r)) /\ k # 0
        BY <3>2, <3>5, <3>6, <3>7
      <4>2. IsSequence(KnownComponents)
        BY KnownSequence
      <4>3. k # 0 => SortEvents(KnownComponents, r)[k] = EventsOf(env.defaultList.lines, c)
        BY <1>2, <3>1, <4>1, <4>2, SortedLists
      <4>4. QED
        BY <3>3, <4>1, <4>3
    <3>9. Len(default.lists) = 5
      BY <3>2, <3>3, <3>5, KnownSequence DEF SortEvents
    <3>10. DefaultList(c) = [kind |-> "list", names |-> default.lists[k]]
      BY <3>3, <3>6, <3>7, <3>9 DEF DefaultList
    <3>11. Own(env.defaultList, c) = default.lists[k] /\ Own(env.defaultList, c) # <<>>
      BY <2>2, <3>4, <3>8 DEF Own
    <3>12. QED
      BY <3>10, <3>11
  <2>3. QED
    BY <2>1, <2>2
<1>7. QED
  BY <1>3, <1>4, <1>5, <1>6 DEF UserList

-----------------------------------------------------------------------------
(* Its steps: the files.                                                   *)

\* A list of the components that are used is a sequence.
LEMMA NamesSequence ==
  ASSUME NEW s, IsSequence(s), NEW I
  PROVE  LET used == Chosen(s, I) IN IsSequence([i \in DOMAIN used |-> used[i].name])
<1>1. PICK E : s \in Seq(E)
  BY ElementsOf
<1>2. PICK used : used = Chosen(s, I)
  OBVIOUS
<1>3. used \in Seq(E)
  BY <1>1, <1>2, ChosenElements
<1>4. PICK n \in Nat : n = Len(used) /\ DOMAIN used = 1 .. n
  BY <1>3, LenProperties
<1>5. PICK t : t = [i \in 1 .. n |-> used[i].name]
  OBVIOUS
<1>6. DOMAIN t = 1 .. n /\ t \in Seq({t[i] : i \in 1 .. n})
  BY <1>5
<1>7. IsSequence(t)
  BY <1>6 DEF IsSequence
<1>8. QED
  BY <1>2, <1>4, <1>5, <1>7

\* Reading a file of operations.
LEMMA OpsRead ==
  ASSUME NEW file, NEW e, e # "set"
  PROVE  ReadFile(file) /\ ReadsEventOps(file.lines, e) <=> Whole(file)
BY DEF ReadsEventOps, Whole

\* Reading the default files keeps the invariant.
LEMMA ReadDefaultsKeeps ==
  ASSUME EventsInv, ReadDefaults
  PROVE  EventsInv'
<1> USE DEF EventsInv
<1>1. /\ at = "apapi" /\ errno = "clear" /\ default = NoFiles /\ user = NoFiles
      /\ env \in Environment /\ UNCHANGED <<env, errno, user, enabled, set>>
  BY DEF ReadDefaults, ErrnoInv, DefaultInv, UserInv, AtInv
<1>2. PICK read :
        read = (ReadFile(env.defaultOps) /\ ReadsEventOps(env.defaultOps.lines, errno))
  OBVIOUS
<1>3. PICK withOps :
        withOps = IF ReadFile(env.defaultOps) /\ ReadsEventOps(env.defaultOps.lines, errno)
                               THEN WithOps(default, env.defaultOps.lines) ELSE default
  OBVIOUS
<1>4. ReadFile(env.defaultOps) /\ ReadsEventOps(env.defaultOps.lines, errno) <=> Whole(env.defaultOps)
  BY <1>1, OpsRead
<1>5. /\ OpsAre(withOps, env.defaultOps)
      /\ withOps.hasLists = FALSE
      /\ withOps = [ops |-> withOps.ops, hasOps |-> withOps.hasOps, cmp |-> <<>>, lists |-> <<>>,
                    hasLists |-> FALSE]
  BY <1>1, <1>3, <1>4 DEF OpsAre, WithOps, NoFiles
<1>6. \/ at' = "failed" /\ UNCHANGED default
      \/ /\ at' = "components"
         /\ default' = IF ReadsEventList(env.defaultList)
                       THEN WithLists(withOps, KnownComponents, env.defaultList.lines)
                       ELSE withOps
  BY <1>3 DEF ReadDefaults
<1>7. at' = "components" =>
        OpsAre(default', env.defaultOps) /\ ListsAre(default', env.defaultList, KnownComponents)
  <2>1. SUFFICES ASSUME at' = "components"
                 PROVE OpsAre(default', env.defaultOps) /\ ListsAre(default', env.defaultList, KnownComponents)
    OBVIOUS
  <2>2. CASE ReadsEventList(env.defaultList)
    <3>1. default' = WithLists(withOps, KnownComponents, env.defaultList.lines)
      BY <1>6, <2>1, <2>2
    <3>2. /\ default'.ops = withOps.ops /\ default'.hasOps = withOps.hasOps
          /\ default'.cmp = UsedComponents(KnownComponents, ReadEventList(env.defaultList.lines))
          /\ default'.lists = SortEvents(KnownComponents, ReadEventList(env.defaultList.lines))
          /\ default'.hasLists = TRUE
      BY <1>5, <3>1 DEF WithLists
    <3>3. QED
      BY <1>5, <2>2, <3>2 DEF OpsAre, ListsAre
  <2>3. CASE ~ReadsEventList(env.defaultList)
    <3>1. default' = withOps
      BY <1>6, <2>1, <2>3
    <3>2. QED
      BY <1>5, <2>3, <3>1 DEF OpsAre, ListsAre
  <2>4. QED
    BY <2>2, <2>3
<1>8. AtInv'
  BY <1>1, <1>6 DEF AtInv
<1>9. ErrnoInv'
  BY <1>1, <1>6 DEF ErrnoInv
<1>10. DefaultInv'
  BY <1>1, <1>6, <1>7 DEF DefaultInv
<1>11. UserInv'
  BY <1>1, <1>6 DEF UserInv
<1>12. SetInv'
  <2>1. \A c \in Known : set[c] = NoSet /\ set'[c] = NoSet
    BY <1>1 DEF SetInv
  <2>2. \A c \in Known : ~(set'[c].created = TRUE)
    BY <2>1 DEF NoSet
  <2>3. QED
    BY <2>1, <2>2 DEF SetInv
<1>13. QED
  BY <1>8, <1>9, <1>10, <1>11, <1>12

\* Choosing the components keeps the invariant.
LEMMA FindComponentsKeeps ==
  ASSUME EventsInv, FindComponents
  PROVE  EventsInv'
<1> USE DEF EventsInv
<1>1. /\ at = "components" /\ at' \in {"exit", "eventops"}
      /\ errno = "clear" /\ user = NoFiles /\ env \in Environment
      /\ UNCHANGED <<env, default, user, set>>
  BY DEF FindComponents, ErrnoInv, UserInv, AtInv
<1>2. IsSequence(enabled')
  <2>1. PICK I : I = {i \in DOMAIN env.papi \ Disabled : Requested(env.papi[i].name)}
    OBVIOUS
  <2>2. PICK used : used = Chosen(env.papi, I)
    OBVIOUS
  <2>3. enabled' = [i \in DOMAIN used |-> used[i].name] \/ enabled' = enabled
    BY <2>1, <2>2 DEF FindComponents
  <2>4. IsSequence([i \in DOMAIN used |-> used[i].name])
    BY <1>1, <2>2, NamesSequence, EnvironmentAssumption
  <2>5. QED
    BY <2>3, <2>4 DEF AtInv
<1>3. Clean' <=> Clean
  BY <1>1 DEF Clean, Disabled
<1>4. Clean => errno' = "clear"
  BY <1>1 DEF FindComponents, Clean
<1>5. AtInv'
  BY <1>1, <1>2 DEF AtInv
<1>6. ErrnoInv'
  BY <1>1, <1>3, <1>4 DEF ErrnoInv
<1>7. DefaultInv'
  BY <1>1 DEF DefaultInv
<1>8. UserInv'
  BY <1>1 DEF UserInv
<1>9. SetInv'
  <2>1. \A c \in Known : set[c] = NoSet /\ set'[c] = NoSet
    BY <1>1 DEF SetInv
  <2>2. \A c \in Known : ~(set'[c].created = TRUE)
    BY <2>1 DEF NoSet
  <2>3. QED
    BY <2>1, <2>2 DEF SetInv
<1>10. QED
  BY <1>5, <1>6, <1>7, <1>8, <1>9

\* Reading the user's operations keeps the invariant.
LEMMA ReadUserOpsKeeps ==
  ASSUME EventsInv, ReadUserOps
  PROVE  EventsInv'
<1> USE DEF EventsInv
<1>1. /\ at = "eventops" /\ at' = "eventlist" /\ user = NoFiles /\ env \in Environment
      /\ UNCHANGED <<env, errno, default, enabled, set>>
  BY DEF ReadUserOps, UserInv, AtInv
<1>2. user' = IF ReadFile(env.userOps) /\ ReadsEventOps(env.userOps.lines, errno)
              THEN WithOps(user, env.userOps.lines) ELSE user
  BY DEF ReadUserOps
<1>3. user'.hasLists = FALSE /\ user'.cmp = <<>> /\ user'.lists = <<>>
  BY <1>1, <1>2 DEF WithOps, NoFiles
<1>4. Clean' <=> Clean
  BY <1>1 DEF Clean, Disabled
<1>5. Clean => OpsAre(user', env.userOps)
  <2>1. SUFFICES ASSUME Clean PROVE OpsAre(user', env.userOps)
    OBVIOUS
  <2>2. ReadFile(env.userOps) /\ ReadsEventOps(env.userOps.lines, errno) <=> Whole(env.userOps)
    BY <2>1, OpsRead DEF ErrnoInv
  <2>3. QED
    BY <1>1, <1>2, <2>2 DEF OpsAre, WithOps, NoFiles
<1>6. AtInv'
  BY <1>1 DEF AtInv
<1>7. ErrnoInv'
  BY <1>1, <1>4 DEF ErrnoInv
<1>8. DefaultInv'
  BY <1>1 DEF DefaultInv
<1>9. UserInv'
  BY <1>1, <1>3, <1>4, <1>5 DEF UserInv
<1>10. SetInv'
  <2>1. \A c \in Known : set[c] = NoSet /\ set'[c] = NoSet
    BY <1>1 DEF SetInv
  <2>2. \A c \in Known : ~(set'[c].created = TRUE)
    BY <2>1 DEF NoSet
  <2>3. QED
    BY <2>1, <2>2 DEF SetInv
<1>11. QED
  BY <1>6, <1>7, <1>8, <1>9, <1>10

\* Reading the user's list keeps the invariant.
LEMMA ReadUserListKeeps ==
  ASSUME EventsInv, ReadUserList
  PROVE  EventsInv'
<1> USE DEF EventsInv
<1>1. /\ at = "eventlist" /\ at' = "measurement" /\ env \in Environment
      /\ UNCHANGED <<env, errno, default, enabled, set>>
  BY DEF ReadUserList, AtInv
<1>2. user' = IF ReadsEventList(env.userList)
              THEN WithLists(user, enabled, env.userList.lines) ELSE user
  BY DEF ReadUserList
<1>3. user.hasLists = FALSE /\ (Clean => OpsAre(user, env.userOps))
  BY <1>1 DEF UserInv
<1>4. Clean' <=> Clean
  BY <1>1 DEF Clean, Disabled
<1>5. PICK u : u = user
  OBVIOUS
<1>6. ListsAre(user', env.userList, enabled) /\ (OpsAre(user, env.userOps) => OpsAre(user', env.userOps))
  <2>1. CASE ~ReadsEventList(env.userList)
    BY <1>2, <1>3, <2>1 DEF ListsAre
  <2>2. CASE ReadsEventList(env.userList)
    <3>1. user' = [user EXCEPT !.cmp = UsedComponents(enabled, ReadEventList(env.userList.lines)),
                               !.lists = SortEvents(enabled, ReadEventList(env.userList.lines)),
                               !.hasLists = TRUE]
      BY <1>2, <2>2 DEF WithLists
    <3>2. /\ user'.ops = user.ops /\ user'.hasOps = user.hasOps
          /\ user'.cmp = UsedComponents(enabled, ReadEventList(env.userList.lines))
          /\ user'.lists = SortEvents(enabled, ReadEventList(env.userList.lines))
          /\ user'.hasLists = TRUE
      BY <3>1
    <3>3. QED
      BY <2>2, <3>2 DEF OpsAre, ListsAre
  <2>3. QED
    BY <2>1, <2>2
<1>7. AtInv'
  BY <1>1 DEF AtInv
<1>8. ErrnoInv'
  BY <1>1, <1>4 DEF ErrnoInv
<1>9. DefaultInv'
  BY <1>1 DEF DefaultInv
<1>10. UserInv'
  BY <1>1, <1>3, <1>4, <1>6 DEF UserInv
<1>11. SetInv'
  <2>1. \A c \in Known : set[c] = NoSet /\ set'[c] = NoSet
    BY <1>1 DEF SetInv
  <2>2. \A c \in Known : ~(set'[c].created = TRUE)
    BY <2>1 DEF NoSet
  <2>3. QED
    BY <2>1, <2>2 DEF SetInv
<1>12. QED
  BY <1>7, <1>8, <1>9, <1>10, <1>11

-----------------------------------------------------------------------------
(* Its steps: the sets of events.                                          *)

\* What the files say of a set does not depend on where the process is.
LEMMA FilesStay ==
  ASSUME UNCHANGED <<env, default, user>>, NEW c \in Known
  PROVE  /\ \A n : OpOf(n)' = OpOf(n)
         /\ Taken(c, PromisedList(c))' = Taken(c, PromisedList(c))
<1>1. \A n : OpOf(n)' = OpOf(n)
  BY DEF OpOf, Defines
<1>2. PromisedList(c)' = PromisedList(c)
  BY DEF PromisedList, Own
<1>3. Taken(c, PromisedList(c))' = Taken(c, PromisedList(c))
  BY <1>2 DEF Taken, Takes
<1>4. QED
  BY <1>1, <1>3

\* A set made from its list and the operations is made right.
LEMMA RightMade ==
  ASSUME UNCHANGED <<env, default, user>>, NEW c \in Known, NEW taken,
         taken = Taken(c, PromisedList(c)), set'[c].names = taken,
         set'[c].ops = [i \in DOMAIN taken |-> OpOf(taken[i])]
  PROVE  MadeRight(c)'
<1>1. set'[c].names = Taken(c, PromisedList(c))'
  BY FilesStay
<1>2. \A n : OpOf(n)' = OpOf(n)
  BY FilesStay
<1>3. PICK s : s = set'[c]
  OBVIOUS
<1>4. DOMAIN s.ops = DOMAIN s.names /\ \A i \in DOMAIN s.names : s.ops[i] = OpOf(s.names[i])'
  BY <1>2, <1>3
<1>5. QED
  BY <1>1, <1>3, <1>4 DEF MadeRight

\* A set that stays remains right.
LEMMA RightStays ==
  ASSUME UNCHANGED <<env, default, user>>, NEW c \in Known, set'[c] = set[c], MadeRight(c)
  PROVE  MadeRight(c)'
<1>1. set'[c].names = Taken(c, PromisedList(c))'
  BY FilesStay DEF MadeRight
<1>2. \A n : OpOf(n)' = OpOf(n)
  BY FilesStay
<1>3. PICK s : s = set'[c]
  OBVIOUS
<1>4. DOMAIN s.ops = DOMAIN s.names /\ \A i \in DOMAIN s.names : s.ops[i] = OpOf(s.names[i])'
  BY <1>2, <1>3 DEF MadeRight
<1>5. QED
  BY <1>1, <1>3, <1>4 DEF MadeRight

\* Creating the set of a component keeps the invariant.
LEMMA InitEventSetKeeps ==
  ASSUME EventsInv, NEW c \in Known, InitEventSet(c)
  PROVE  EventsInv'
<1> USE DEF EventsInv
<1>1. /\ at = "measurement" /\ at' \in {"measurement", "exit", "undefined"} /\ env \in Environment
      /\ set[c].created # TRUE /\ (\E i \in DOMAIN enabled : enabled[i] = c)
      /\ UNCHANGED <<env, errno, default, user, enabled>>
  BY DEF InitEventSet, IsNext, Wanted, AtInv
<1>2. PICK list : list = UserList(c)
  OBVIOUS
<1>3. PICK names : names = IF list.kind = "list" THEN list.names ELSE Offered[c]
  OBVIOUS
<1>4. list.kind # "undefined" /\ names = PromisedList(c)
  <2>1. list = IF Own(env.userList, c) # <<>> THEN [kind |-> "list", names |-> Own(env.userList, c)]
               ELSE IF Own(env.defaultList, c) # <<>>
               THEN [kind |-> "list", names |-> Own(env.defaultList, c)]
               ELSE [kind |-> "none", names |-> <<>>]
    BY <1>1, <1>2, ListIs
  <2>2. QED
    BY <1>3, <2>1 DEF PromisedList
<1>5. PICK taken : taken = Taken(c, names)
  OBVIOUS
<1>6. \/ at' = "exit" /\ UNCHANGED set
      \/ /\ set' = [set EXCEPT ![c] = [created |-> TRUE, names |-> taken,
                                       ops |-> [i \in DOMAIN taken |-> OpOf(taken[i])]]]
         /\ UNCHANGED at
  BY <1>2, <1>3, <1>4, <1>5 DEF InitEventSet
<1>7. set = [d \in Known |-> set[d]]
  BY DEF AtInv
<1>8. /\ \A d \in Known : d # c => set'[d] = set[d]
      /\ \/ at' = "exit" /\ set' = set
         \/ /\ at' = "measurement" /\ set'[c].created = TRUE /\ set'[c].names = taken
            /\ set'[c].ops = [i \in DOMAIN taken |-> OpOf(taken[i])]
      /\ set' = [d \in Known |-> set'[d]]
  BY <1>1, <1>6, <1>7
<1>9. AtInv'
  BY <1>1, <1>8 DEF AtInv
<1>10. ErrnoInv'
  <2>1. Clean' <=> Clean
    BY <1>1 DEF Clean, Disabled
  <2>2. QED
    BY <1>1, <1>8, <2>1 DEF ErrnoInv
<1>11. DefaultInv'
  BY <1>1, <1>8 DEF DefaultInv
<1>12. Clean' <=> Clean
  BY <1>1 DEF Clean, Disabled
<1>13. UserInv'
  BY <1>1, <1>8, <1>12 DEF UserInv
<1>14. SetInv'
  <2>1. Clean => OpsAre(user, env.userOps)
    BY <1>1 DEF UserInv
  <2>2. Clean' => OpsAre(user, env.userOps)'
    BY <1>1, <1>12, <2>1
  <2>3. at' \in {"measurement", "ready", "exit"}
    BY <1>1, <1>8
  <2>4. ASSUME NEW d \in Known, set'[d].created = TRUE PROVE MadeRight(d)'
    <3>1. CASE set'[d] = set[d]
      <4>1. MadeRight(d)
        BY <2>4, <3>1 DEF SetInv
      <4>2. QED
        BY <1>1, <3>1, <4>1, RightStays
    <3>2. CASE set'[d] # set[d]
      <4>1. /\ d = c /\ set'[c].names = taken
            /\ set'[c].ops = [i \in DOMAIN taken |-> OpOf(taken[i])]
        BY <1>8, <3>2
      <4>2. taken = Taken(c, PromisedList(c))
        BY <1>4, <1>5
      <4>3. QED
        BY <1>1, <4>1, <4>2, RightMade
    <3>3. QED
      BY <3>1, <3>2
  <2>5. ASSUME NEW d \in Known, ~(set'[d].created = TRUE) PROVE set'[d] = NoSet
    <3>1. set'[d] = set[d]
      BY <1>8, <2>5
    <3>2. QED
      BY <2>5, <3>1 DEF SetInv
  <2>6. QED
    BY <2>2, <2>3, <2>4, <2>5 DEF SetInv
<1>15. QED
  BY <1>9, <1>10, <1>11, <1>13, <1>14

\* A step that leaves the files and the sets alone.
LEMMA SetsStay ==
  ASSUME EventsInv, UNCHANGED <<env, default, user, set>>,
         at' \in {"measurement", "ready", "exit"} \/ UNCHANGED at
  PROVE  SetInv'
<1>1. Clean' <=> Clean
  BY DEF Clean, Disabled
<1>2. ASSUME NEW c \in Known, set'[c].created = TRUE
      PROVE /\ at' \in {"measurement", "ready", "exit"}
            /\ Clean' => OpsAre(user, env.userOps)'
            /\ MadeRight(c)'
  <2>1. set'[c] = set[c]
    OBVIOUS
  <2>2. /\ at \in {"measurement", "ready", "exit"}
        /\ Clean => OpsAre(user, env.userOps)
        /\ MadeRight(c)
    BY <1>2, <2>1 DEF EventsInv, SetInv
  <2>3. MadeRight(c)'
    BY <2>1, <2>2, RightStays
  <2>4. QED
    BY <1>1, <2>2, <2>3
<1>3. \A c \in Known : ~(set'[c].created = TRUE) => set'[c] = NoSet
  BY DEF EventsInv, SetInv
<1>4. QED
  BY <1>2, <1>3 DEF SetInv

\* The end of ms_init_measurement keeps the invariant.
LEMMA ReadyKeeps ==
  ASSUME EventsInv, Ready
  PROVE  EventsInv'
<1> USE DEF EventsInv
<1>1. at = "measurement" /\ at' = "ready" /\ UNCHANGED <<env, errno, default, user, enabled, set>>
  BY DEF Ready
<1>2. Clean' <=> Clean
  BY <1>1 DEF Clean, Disabled
<1>3. AtInv' /\ DefaultInv'
  BY <1>1 DEF AtInv, DefaultInv
<1>4. ErrnoInv' /\ UserInv'
  BY <1>1, <1>2 DEF ErrnoInv, UserInv
<1>5. SetInv'
  BY <1>1, SetsStay
<1>6. QED
  BY <1>3, <1>4, <1>5

\* For any environment, default files and offer of PAPI: what ms_init and
\* ms_init_measurement have read is what the files say, each created set has
\* the events and the operations that follow from them, and no other set has
\* any (apapi_defaults.c:332, apapi.c:897).
THEOREM ReadAsWritten == ESpec => []EventsInv
<1>1. EInit => EventsInv
  BY EventsInit
<1>2. EventsInv /\ [ENext]_evars => EventsInv'
  <2>1. SUFFICES ASSUME EventsInv, [ENext]_evars PROVE EventsInv'
    OBVIOUS
  <2>2. CASE ReadDefaults
    BY <2>1, <2>2, ReadDefaultsKeeps
  <2>3. CASE FindComponents
    BY <2>1, <2>3, FindComponentsKeeps
  <2>4. CASE ReadUserOps
    BY <2>1, <2>4, ReadUserOpsKeeps
  <2>5. CASE ReadUserList
    BY <2>1, <2>5, ReadUserListKeeps
  <2>6. ASSUME NEW c \in Known, InitEventSet(c) PROVE EventsInv'
    BY <2>1, <2>6, InitEventSetKeeps
  <2>7. CASE Ready
    BY <2>1, <2>7, ReadyKeeps
  <2>8. CASE UNCHANGED evars
    <3>1. UNCHANGED <<env, at, errno, default, user, enabled, set>>
      BY <2>8 DEF evars
    <3>2. AtInv' /\ ErrnoInv' /\ DefaultInv' /\ UserInv'
      BY <2>1, <3>1 DEF EventsInv, AtInv, ErrnoInv, DefaultInv, UserInv, Clean, Disabled
    <3>3. SetInv'
      BY <2>1, <3>1, SetsStay
    <3>4. QED
      BY <3>2, <3>3 DEF EventsInv
  <2>9. QED
    BY <2>1, <2>2, <2>3, <2>4, <2>5, <2>6, <2>7, <2>8 DEF ENext
<1>3. QED
  BY <1>1, <1>2, PTL DEF ESpec

-----------------------------------------------------------------------------
(* The sets follow the files.                                              *)

\* What the operations of a file that may count define.
LEMMA DefinesIs ==
  ASSUME NEW files, NEW file, IsSequence(file.lines), OpsAre(files, file), NEW name
  PROVE  /\ Defines(files, name) <=> Whole(file) /\ HasLine(file, name)
         /\ Defines(files, name) => files.ops = EventOps(file.lines)
<1>1. CASE Whole(file)
  <2>1. files.hasOps = TRUE /\ files.ops = EventOps(file.lines)
    BY <1>1 DEF OpsAre
  <2>2. (\E i \in DOMAIN EventOps(file.lines) :
          EventOps(file.lines)[i].name = name) <=> HasLine(file, name)
    BY NamesOfOps
  <2>3. QED
    BY <1>1, <2>1, <2>2 DEF Defines
<1>2. CASE ~Whole(file)
  BY <1>2 DEF OpsAre, Defines
<1>3. QED
  BY <1>1, <1>2

\* The file an operation is taken from.
OpsFile(name) == IF Whole(env.userOps) /\ HasLine(env.userOps, name)
                 THEN env.userOps ELSE env.defaultOps

\* The operation of an event is the first one of the file that counts for it.
LEMMA OpIs ==
  ASSUME EventsInv, at \in {"measurement", "ready", "exit"}, OpsAre(user, env.userOps), NEW name
  PROVE  OpOf(name) = IF Whole(OpsFile(name)) /\ HasLine(OpsFile(name), name)
                      THEN FirstOp(EventOps(OpsFile(name).lines), name) ELSE DefaultOp
<1>1. env \in Environment /\ OpsAre(default, env.defaultOps)
  BY DEF EventsInv, AtInv, DefaultInv
<1>2. IsSequence(env.userOps.lines) /\ IsSequence(env.defaultOps.lines)
  BY <1>1, EnvironmentAssumption
<1>3. /\ Defines(user, name) <=> Whole(env.userOps) /\ HasLine(env.userOps, name)
      /\ Defines(user, name) => user.ops = EventOps(env.userOps.lines)
  BY <1>2, DefinesIs
<1>4. /\ Defines(default, name) <=> Whole(env.defaultOps) /\ HasLine(env.defaultOps, name)
      /\ Defines(default, name) => default.ops = EventOps(env.defaultOps.lines)
  BY <1>1, <1>2, DefinesIs
<1>5. CASE Defines(user, name)
  <2>1. OpsFile(name) = env.userOps
    BY <1>3, <1>5 DEF OpsFile
  <2>2. QED
    BY <1>3, <1>5, <2>1 DEF OpOf
<1>6. CASE ~Defines(user, name)
  <2>1. OpsFile(name) = env.defaultOps
    BY <1>3, <1>6 DEF OpsFile
  <2>2. QED
    BY <1>4, <1>6, <2>1 DEF OpOf
<1>7. QED
  BY <1>5, <1>6

\* The invariant has the events of the sets.
LEMMA ListsFollowed == EventsInv => EventsFollowLists
BY DEF EventsInv, SetInv, MadeRight, NoSet, EventsFollowLists

\* The invariant has their operations, if errno is clear.
LEMMA OpsFollowed == EventsInv /\ Clean => OpsFollowFiles
<1>1. SUFFICES ASSUME EventsInv, Clean, NEW c \in Known, NEW i \in DOMAIN set[c].names
               PROVE LET name == set[c].names[i]
                         file == OpsFile(name)
                     IN IF Whole(file) /\ HasLine(file, name)
                        THEN set[c].ops[i] = FirstOp(EventOps(file.lines), name)
                        ELSE set[c].ops[i] = DefaultOp
  BY DEF OpsFollowFiles, OpsFile
<1>2. set[c].created = TRUE
  <2>1. DOMAIN NoSet.names = {}
    BY DEF NoSet
  <2>2. QED
    BY <1>1, <2>1 DEF EventsInv, SetInv
<1>3. /\ at \in {"measurement", "ready", "exit"} /\ OpsAre(user, env.userOps)
      /\ set[c].ops[i] = OpOf(set[c].names[i])
  BY <1>1, <1>2 DEF EventsInv, SetInv, MadeRight
<1>4. PICK name : name = set[c].names[i]
  OBVIOUS
<1>5. OpOf(name) = IF Whole(OpsFile(name)) /\ HasLine(OpsFile(name), name)
                   THEN FirstOp(EventOps(OpsFile(name).lines), name) ELSE DefaultOp
  BY <1>1, <1>3, OpIs
<1>6. QED
  BY <1>3, <1>4, <1>5

\* If nothing sets errno before the files of the user are read: for any
\* environment a set has the events of the lists, in their order, and each
\* of them the operations of the files (ms_common_apapi.c:2036,
\* apapi_defaults.c:332).
THEOREM FilesFollowed ==
  ASSUME CleanErrno
  PROVE  ESpec => []SetsFollowFiles
<1>1. EventsInv => SetsFollowFiles
  <2>1. Clean
    BY DEF Clean
  <2>2. QED
    BY <2>1, ListsFollowed, OpsFollowed DEF SetsFollowFiles
<1>2. QED
  BY <1>1, ReadAsWritten, PTL

\* Whatever errno holds: the events are those of the lists, and if PAPI has
\* no component disabled, and thus nothing to report, the operations are those
\* of the files (ms_common_apapi.c:2036, apapi_defaults.c:332).
THEOREM FilesFollowedAnyway == ESpec => [](EventsFollowLists /\ (Disabled = {} => OpsFollowFiles))
<1>1. EventsInv => EventsFollowLists /\ (Disabled = {} => OpsFollowFiles)
  BY ListsFollowed, OpsFollowed DEF Clean
<1>2. QED
  BY <1>1, ReadAsWritten, PTL

-----------------------------------------------------------------------------
(* Counting.                                                               *)

\* A finite set of at most n elements.
AtMost(S, n) == IsFiniteSet(S) /\ Cardinality(S) \in Nat /\ Cardinality(S) <= n

\* A singleton has one.
LEMMA AtMostOne == \A x : AtMost({x}, 1)
<1>1. ASSUME NEW x PROVE AtMost({x}, 1)
  <2>1. IsFiniteSet({x}) /\ Cardinality({x}) = 1
    BY FS_Singleton
  <2>2. QED
    BY <2>1 DEF AtMost
<1>2. QED
  BY <1>1

\* The empty set has none.
LEMMA AtMostNone == AtMost({}, 0)
BY FS_EmptySet DEF AtMost

\* A part has no more.
LEMMA AtMostPart ==
  ASSUME NEW S, NEW n \in Nat, AtMost(S, n), NEW T, T \subseteq S
  PROVE  AtMost(T, n)
<1>1. IsFiniteSet(T) /\ Cardinality(T) <= Cardinality(S)
  BY FS_Subset DEF AtMost
<1>2. Cardinality(T) \in Nat
  BY <1>1, FS_CardinalityType
<1>3. QED
  BY <1>1, <1>2 DEF AtMost

\* A union has at most the sum.
LEMMA AtMostUnion ==
  ASSUME NEW S, NEW m \in Nat, AtMost(S, m), NEW T, NEW n \in Nat, AtMost(T, n)
  PROVE  AtMost(S \cup T, m + n)
<1>1. /\ IsFiniteSet(S \cup T)
      /\ Cardinality(S \cup T) = Cardinality(S) + Cardinality(T) - Cardinality(S \cap T)
  BY FS_Union DEF AtMost
<1>2. IsFiniteSet(S \cap T)
  BY FS_Subset DEF AtMost
<1>3. Cardinality(S \cap T) \in Nat /\ Cardinality(S \cup T) \in Nat
  BY <1>1, <1>2, FS_CardinalityType
<1>4. QED
  BY <1>1, <1>3 DEF AtMost

\* n sets of at most m elements.
Together(f, n) == UNION {f[i] : i \in 0 .. (n - 1)}

\* n sets of at most m elements have at most n * m.
LEMMA AtMostTogether ==
  ASSUME NEW f, NEW m \in Nat, NEW n \in Nat, \A i \in 0 .. (n - 1) : AtMost(f[i], m)
  PROVE  AtMost(Together(f, n), n * m)
<1> DEFINE Good(k) == k <= n => AtMost(Together(f, k), k * m)
<1>1. Good(0)
  <2>1. Together(f, 0) = {} /\ 0 * m = 0
    BY DEF Together
  <2>2. QED
    BY <2>1, AtMostNone
<1>2. ASSUME NEW k \in Nat, Good(k) PROVE Good(k + 1)
  <2>1. SUFFICES ASSUME k + 1 <= n PROVE AtMost(Together(f, k + 1), (k + 1) * m)
    OBVIOUS
  <2>2. Together(f, k + 1) = Together(f, k) \cup f[k]
    <3>1. \A i : i \in 0 .. (k + 1 - 1) <=> i \in 0 .. (k - 1) \/ i = k
      OBVIOUS
    <3>2. QED
      BY <3>1 DEF Together
  <2>3. k * m \in Nat /\ (k + 1) * m = k * m + m
    OBVIOUS
  <2>4. AtMost(Together(f, k), k * m) /\ AtMost(f[k], m)
    BY <1>2, <2>1
  <2>5. AtMost(Together(f, k) \cup f[k], k * m + m)
    BY <2>3, <2>4, AtMostUnion
  <2>6. QED
    BY <2>2, <2>3, <2>5
<1> HIDE DEF Good
<1>3. SUFFICES ASSUME \E k \in Nat : ~Good(k) PROVE FALSE
  <2>1. Good(n)
    BY <1>3
  <2>2. QED
    BY <2>1 DEF Good
<1>4. PICK k \in Nat : ~Good(k) /\ \A j \in Nat : ~Good(j) => k <= j
  <2>1. PICK T : T = {j \in Nat : ~Good(j)}
    OBVIOUS
  <2>2. PICK j \in T : \A i \in T : j <= i
    BY <1>3, <2>1, Least
  <2>3. QED
    BY <2>1, <2>2
<1>5. k # 0 /\ k - 1 \in Nat /\ Good(k - 1)
  BY <1>1, <1>4
<1>6. QED
  BY <1>2, <1>4, <1>5

\* Sets written out.
LEMMA AtMostTwo == \A a, b : AtMost({a, b}, 2)
<1>1. ASSUME NEW a, NEW b PROVE AtMost({a, b}, 2)
  <2>1. AtMost({a} \cup {b}, 1 + 1)
    BY AtMostOne, AtMostUnion
  <2>2. {a} \cup {b} = {a, b} /\ 1 + 1 = 2
    OBVIOUS
  <2>3. QED
    BY <2>1, <2>2
<1>2. QED
  BY <1>1

\* Four elements written out.
LEMMA AtMostFour == \A a, b, c, d : AtMost({a, b, c, d}, 4)
<1>1. ASSUME NEW a, NEW b, NEW c, NEW d PROVE AtMost({a, b, c, d}, 4)
  <2>1. AtMost({a, b}, 2) /\ AtMost({c, d}, 2)
    BY AtMostTwo
  <2>2. AtMost({a, b} \cup {c, d}, 2 + 2)
    BY <2>1, AtMostUnion
  <2>3. {a, b} \cup {c, d} = {a, b, c, d} /\ 2 + 2 = 4
    OBVIOUS
  <2>4. QED
    BY <2>2, <2>3
<1>2. QED
  BY <1>1

-----------------------------------------------------------------------------
(* The fields: the entry of each, and its operations.                      *)

\* What is known of the field of a struct from its name alone: the unit it is shown in.
Seconds == {"msr_time_runtime", "nvml_time_runtime", "maxeler_time_runtime",
            "mic_time_runtime", "ipmi_time_runtime", "measure_util_active_avg",
            "measure_util_idle_avg", "mic_util_active_avg", "mic_util_idle_avg"}
MilliWattSeconds == {"msr_energy_acc", "nvml_energy_acc", "maxeler_energy_acc", "mic_energy_acc"}
MilliWatts == {"msr_power_avg", "msr_power_cur", "nvml_power_avg", "nvml_power_cur",
               "maxeler_power_avg", "maxeler_power_cur", "mic_power_avg", "mic_power_cur"}
WattSeconds == {"ipmi_energy_sysboard_acc", "ipmi_energy_server_acc"}
Watts == {"ipmi_power_sysboard_avg", "ipmi_power_server_avg", "ipmi_power_server_cur"}
Degrees == {"msr_temperature_pkg_max", "msr_temperature_pkg_cur", "msr_temperature_core_max",
            "nvml_temperature_max", "nvml_temperature_cur", "maxeler_temperature_max",
            "maxeler_temperature_cur", "mic_temperature_max", "mic_temperature_cur",
            "ipmi_temperature_sysboard_max", "ipmi_temperature_sysboard_cur"}
MegaHertz == {"msr_freq_core_avg", "msr_freq_core_eff_avg", "msr_freq_core_eff_cur",
              "nvml_clock_graphics_avg", "nvml_clock_graphics_cur", "nvml_clock_sm_avg",
              "nvml_clock_sm_cur", "nvml_clock_mem_avg", "nvml_clock_mem_cur",
              "mic_freq_core_avg", "mic_freq_core_cur", "mic_freq_mem_avg", "mic_freq_mem_cur"}
Percents == {"measure_util_avg", "measure_util_avg_cur", "nvml_util_gpu_avg", "nvml_util_gpu_cur",
             "nvml_util_mem_avg", "nvml_util_mem_cur", "maxeler_util_comp_avg",
             "maxeler_util_comp_cur", "mic_util_avg", "mic_util_avg_cur"}
Processes == {"nvml_active_processes_count_max", "nvml_active_processes_count_cur"}

\* The unit that hettime and msmonitor show a field in.
UnitOf(n) == CASE n \in Seconds -> "s"
               [] n \in MilliWattSeconds -> "mWs"
               [] n \in MilliWatts -> "mW"
               [] n \in WattSeconds -> "Ws"
               [] n \in Watts -> "W"
               [] n \in Degrees -> "C"
               [] n \in MegaHertz -> "MHz"
               [] n \in Percents -> "%"
               [] n \in Processes -> "#"
               [] OTHER -> "kiB"

\* What is written to a field of the processors.
RaplEntry(d) ==
  CASE d[1] = "msr_energy_acc" -> Value0("ACC", d, "double", "/1000")
    [] d[1] = "msr_power_avg" -> Value1("AVG", d, "double", "/1000")
    [] d[1] = "msr_power_cur" -> LastValue1(d, "double", "/1000")
    [] d[1] \in {"msr_temperature_pkg_max", "msr_temperature_core_max",
                 "measure_memory_used_max", "measure_memory_free_max",
                 "measure_swap_used_max", "measure_swap_free_max"} -> Value0("MAX", d, "uint32", "1")
    [] d[1] = "msr_temperature_pkg_cur" -> Sample(d, "uint32", "1")
    [] d[1] \in {"msr_freq_core_avg", "msr_freq_core_eff_avg"} -> Value0("AVG", d, "double", "*1000")
    [] d[1] = "msr_freq_core_eff_cur" -> Sample(d, "double", "*1000")
    [] d[1] \in {"measure_util_active_avg", "measure_util_idle_avg"} -> Value0("MAX", d, "double", "1")
    [] d[1] = "measure_util_avg" -> Value0("AVG", d, "double", "1")
    [] d[1] = "measure_util_avg_cur" -> Sample(d, "double", "1")
    [] d[1] = "measure_memory_cur" -> Sample(d, "uint64", "1")

\* What is written to a field of the graphics cards.
NvmlEntry(d) ==
  CASE d[1] = "nvml_energy_acc" -> Value1("ACC", d, "double", "/1000")
    [] d[1] = "nvml_power_avg" -> Value0("AVG", d, "double", "/1000")
    [] d[1] = "nvml_power_cur" -> Sample(d, "uint32", "/1000")
    [] d[1] \in {"nvml_temperature_max", "nvml_active_processes_count_max"} ->
         Value0("MAX", d, "uint32", "1")
    [] d[1] \in {"nvml_memory_total", "nvml_memory_used_max", "nvml_memory_free_max"} ->
         Value0("MAX", d, "uint32", "*1024")
    [] d[1] = "nvml_memory_used_cur" -> Sample(d, "uint32", "*1024")
    [] d[1] \in {"nvml_clock_graphics_avg", "nvml_clock_sm_avg", "nvml_clock_mem_avg",
                 "nvml_util_gpu_avg", "nvml_util_mem_avg"} -> Value0("AVG", d, "double", "1")
    [] OTHER -> Sample(d, "uint32", "1")

\* What is written to a field of the FPGAs.
MaxelerEntry(d) ==
  CASE d[1] = "maxeler_power_avg" -> Value0("AVG", d, "double", "/1000")
    [] d[1] = "maxeler_energy_acc" -> Value1("ACC", d, "double", "/1000")
    [] d[1] = "maxeler_power_cur" -> Sample(d, "double", "/1000")
    [] d[1] = "maxeler_temperature_max" -> Value0("MAX", d, "double", "1")
    [] d[1] = "maxeler_util_comp_avg" -> Value0("AVG", d, "double", "1")
    [] OTHER -> Sample(d, "double", "1")

\* What is written to a field of the coprocessors.
MickncEntry(d) ==
  CASE d[1] = "mic_power_avg" -> Value0("AVG", d, "double", "/1000")
    [] d[1] = "mic_energy_acc" -> Value1("ACC", d, "double", "/1000")
    [] d[1] = "mic_power_cur" -> Sample(d, "uint32", "/1000")
    [] d[1] \in {"mic_temperature_max", "mic_memory_total", "mic_memory_used_max",
                 "mic_memory_free_max"} -> Value0("MAX", d, "uint32", "1")
    [] d[1] \in {"mic_util_active_avg", "mic_util_idle_avg"} -> Value0("ACC", d, "double", "1")
    [] d[1] \in {"mic_freq_core_avg", "mic_freq_mem_avg", "mic_util_avg"} ->
         Value0("AVG", d, "double", "1")
    [] d[1] = "mic_util_avg_cur" -> Sample(d, "double", "1")
    [] OTHER -> Sample(d, "uint32", "1")

\* What is written to a field of the system.
IpmiEntry(d) ==
  CASE d[1] \in {"ipmi_power_sysboard_avg", "ipmi_power_server_avg"} ->
         Value0("AVG", d, "double", "1")
    [] d[1] = "ipmi_energy_sysboard_acc" -> Value1("ACC", d, "double", "1")
    [] d[1] = "ipmi_energy_server_acc" -> Value1("ACC", d, "uint32", "1")
    [] d[1] = "ipmi_temperature_sysboard_max" -> Value0("MAX", d, "double", "1")
    [] d[1] = "ipmi_power_server_cur" -> Sample(d, "uint32", "1")
    [] OTHER -> Sample(d, "double", "1")

\* The entry that writes a field, for the fields that one writes.
EntryFor(c, d) == CASE c = "rapl" -> RaplEntry(d)
                    [] c = "nvml" -> NvmlEntry(d)
                    [] c = "maxeler" -> MaxelerEntry(d)
                    [] c = "micknc" -> MickncEntry(d)
                    [] c = "ipmi" -> IpmiEntry(d)

\* The operations of an event, whatever else its name may say.
Operation(c, event, op) ==
  \E name : name.cmp = c /\ name.event = event /\ op = OperationOf(OpsOf(name))

\* The operations of an event compute what an entry reads.
Computes(op, e) ==
  CASE e.source = "values0" -> e.statistic \in op.value0
    [] e.source = "values1" -> e.statistic \in op.value1 /\ op.op1 # "NOP"
    [] e.source = "last_values1" -> op.op1 # "NOP"
    [] OTHER -> TRUE

\* What an entry should be, alone and behind the operations of its event.
EntrySound(e, entry, op) ==
  /\ e = entry
  /\ e.type = FieldType(e.destination)
  /\ Computes(op, e)
  /\ e.prefix = IF e.source \in {"values0", "current_samples"} THEN 0 ELSE 1
  /\ UnitOf(e.destination[1]) = Converted(op.units[e.prefix + 1], e.scale)

\* The entries of a rule, at the end and at every sample.
RuleEntries(q) == q.last \cup q.always

\* What the default operations compute.
IsEnergy(op) == /\ op.op1 # "NOP" /\ "ACC" \in op.value0 /\ "AVG" \in op.value1
                /\ op.units[1] = "Ws" /\ op.units[2] = "W"
IsPower(op) == /\ op.op1 # "NOP" /\ "AVG" \in op.value0 /\ "ACC" \in op.value1
               /\ op.units[1] = "W" /\ op.units[2] = "Ws"
IsPlain(op, unit) == "AVG" \in op.value0 /\ "MAX" \in op.value0 /\ op.units[1] = unit

IsTime(op) == "ACC" \in op.value0 /\ op.units[1] = "s"

\* The statistics of the default operations are understood.
LEMMA ParsedStatistics ==
  /\ "AVG" \in ParseStats(Extremes) /\ "MAX" \in ParseStats(Extremes)
  /\ "ACC" \in ParseStats(<<"ACC">>)
  /\ \A x \in {"AVG", "MAX", "ACC"} : x \in ParseStats(Extremes \o <<"ACC">>)
<1>1. \A w : \A i \in DOMAIN w : w[i] \in {"AVG", "MAX", "ACC"} => w[i] \in ParseStats(w)
  BY DEF ParseStats
<1>2. /\ Extremes[2] = "MAX"
      /\ Extremes[3] = "AVG" /\ 2 \in DOMAIN Extremes /\ 3 \in DOMAIN Extremes
  BY DEF Extremes
<1>3. 1 \in DOMAIN <<"ACC">> /\ <<"ACC">>[1] = "ACC"
  OBVIOUS
<1>4. PICK w : w = Extremes \o <<"ACC">>
  OBVIOUS
<1>5. /\ w[2] = "MAX" /\ w[3] = "AVG" /\ w[4] = "ACC"
      /\ 2 \in DOMAIN w /\ 3 \in DOMAIN w /\ 4 \in DOMAIN w
  BY <1>4 DEF Extremes
<1>6. QED
  BY <1>1, <1>2, <1>3, <1>4, <1>5

\* The lines of the default operations compute what they say.
LEMMA OperationsAre ==
  /\ \A name : IsEnergy(OperationOf(Energy(name)))
  /\ \A name : IsPower(OperationOf(Power(name)))
  /\ \A name, unit : IsPlain(OperationOf(Plain(name, unit)), unit)
  /\ \A name :
       IsTime(OperationOf(OpsLine(name, "NOP", Extremes \o <<"ACC">>, <<"NO">>, <<"s", "-">>)))
<1>1. \A name : IsEnergy(OperationOf(Energy(name)))
  BY ParsedStatistics DEF IsEnergy, OperationOf, Energy, OpsLine
<1>2. \A name : IsPower(OperationOf(Power(name)))
  BY ParsedStatistics DEF IsPower, OperationOf, Power, OpsLine
<1>3. \A name, unit : IsPlain(OperationOf(Plain(name, unit)), unit)
  BY ParsedStatistics DEF IsPlain, OperationOf, Plain, OpsLine
<1>4. \A name :
        IsTime(OperationOf(OpsLine(name, "NOP", Extremes \o <<"ACC">>, <<"NO">>, <<"s", "-">>)))
  BY ParsedStatistics DEF IsTime, OperationOf, OpsLine
<1>5. QED
  BY <1>1, <1>2, <1>3, <1>4

\* The operations of the events of rapl.
LEMMA RaplOperations ==
  ASSUME NEW event, NEW op, Operation("rapl", event, op)
  PROVE  /\ event[1] \in {"PACKAGE_ENERGY", "DRAM_ENERGY", "PP0_ENERGY"} =>
                           IsEnergy(op)
         /\ event[1] = "THERM_STATUS" => IsPlain(op, "C")
         /\ event[1] \in {"AVG_FREQUENCY", "EFF_FREQUENCY"} => IsPlain(op, "KHz")
         /\ event[1] \in {"TIME_WORK", "TIME_IDLE"} => IsPlain(op, "s")
         /\ event[1] = "TIME_UTIL" => IsPlain(op, "%")
         /\ event[1] \in {"MEM_TOTAL", "MEM_USED", "MEM_FREE", "SWAP_TOTAL",
                           "SWAP_USED", "SWAP_FREE"} => IsPlain(op, "kiB")
<1>1. PICK name : name.cmp = "rapl" /\ name.event = event /\ op = OperationOf(OpsOf(name))
  BY DEF Operation
<1>2. op = OperationOf(RaplOps(name))
  BY <1>1 DEF OpsOf
<1>3. QED
  BY <1>1, <1>2, OperationsAre DEF RaplOps

\* The operations of the events of nvml.
LEMMA NvmlOperations ==
  ASSUME NEW event, NEW op, Operation("nvml", event, op)
  PROVE  /\ event[1] = "power" => IsPower(op)
         /\ event[1] \in {"total_memory", "allocated_memory", "unallocated_memory"}
                           => IsPlain(op, "B")
         /\ event[1] = "temperature" => IsPlain(op, "C")
         /\ event[1] \in {"graphics_clock", "sm_clock", "memory_clock"} =>
                           IsPlain(op, "MHz")
         /\ event[1] = "processes" => IsPlain(op, "#")
         /\ event[1] \in {"gpu_utilization", "memory_utilization"} => IsPlain(op, "%")
<1>1. PICK name : name.cmp = "nvml" /\ name.event = event /\ op = OperationOf(OpsOf(name))
  BY DEF Operation
<1>2. op = OperationOf(NvmlOps(name))
  BY <1>1 DEF OpsOf
<1>3. QED
  BY <1>1, <1>2, OperationsAre DEF NvmlOps

\* The operations of the events of maxeler.
LEMMA MaxelerOperations ==
  ASSUME NEW event, NEW op, Operation("maxeler", event, op)
  PROVE  /\ event[1] \in {"imgt_TEMPERATURE", "mmgt_TEMPERATURE"} => IsPlain(op, "C")
         /\ event[1] = "COMPUTE_UTIL" => IsPlain(op, "%")
         /\ event[1] \in {"fpga_POWER", "vcc1v0_c_POWER", "vcc1v5_ddr_POWER",
                           "vcc2v5_aux_POWER", "imgt_1v0_POWER", "imgt_1v2_POWER", "mgt_1v0_POWER",
                           "mgt_1v2_POWER"} => IsPower(op)
<1>1. PICK name : name.cmp = "maxeler" /\ name.event = event /\ op = OperationOf(OpsOf(name))
  BY DEF Operation
<1>2. op = OperationOf(MaxelerOps(name))
  BY <1>1 DEF OpsOf
<1>3. QED
  BY <1>1, <1>2, OperationsAre DEF MaxelerOps

\* The operations of the events of micknc.
LEMMA MickncOperations ==
  ASSUME NEW event, NEW op, Operation("micknc", event, op)
  PROVE  /\ event[1] \in {"POWER_PCIE", "POWER_C2X3", "POWER_C2X4", "POWER_VCCP",
                           "POWER_VDDG", "POWER_VDDQ", "POWER_MIC"} => IsPower(op)
         /\ event[1] \in {"FREQ_CORE", "FREQ_MEM"} => IsPlain(op, "MHz")
         /\ event[1] \in {"TIME_ACTIVE", "TIME_IDLE"} => IsTime(op)
         /\ event[1] = "UTIL" => IsPlain(op, "%")
         /\ event[1] \in {"MEM_TOTAL", "MEM_USED", "MEM_FREE"} => IsPlain(op, "kiB")
         /\ event[1] \in {"TEMP_DIE", "TEMP_GDDR", "TEMP_FANIN", "TEMP_FANOUT",
                           "TEMP_VCCP", "TEMP_VDDG", "TEMP_VDDQ"} => IsPlain(op, "C")
<1>1. PICK name : name.cmp = "micknc" /\ name.event = event /\ op = OperationOf(OpsOf(name))
  BY DEF Operation
<1>2. op = OperationOf(MickncOps(name))
  BY <1>1 DEF OpsOf
<1>3. QED
  BY <1>1, <1>2, OperationsAre DEF MickncOps, MicPowerEvents

\* The operations of the events of ipmi.
LEMMA IpmiOperations ==
  ASSUME NEW event, NEW op, Operation("ipmi", event, op)
  PROVE  /\ event = <<"SYSTEM_TEMP">> => IsPlain(op, "C")
         /\ event # <<"SYSTEM_TEMP">> => IsPower(op)
<1>1. PICK name : name.cmp = "ipmi" /\ name.event = event /\ op = OperationOf(OpsOf(name))
  BY DEF Operation
<1>2. op = OperationOf(IpmiOps(name))
  BY <1>1 DEF OpsOf
<1>3. QED
  BY <1>1, <1>2, OperationsAre DEF IpmiOps

\* Each entry of rapl is sound.
LEMMA RaplSound ==
  ASSUME NEW q \in RaplRules, NEW op, Operation("rapl", q.event, op), NEW e \in RuleEntries(q)
  PROVE  EntrySound(e, RaplEntry(e.destination), op)
<1> USE DEF EntrySound, Computes, RuleEntries, Rule, Value0, Value1, LastValue1, Sample,
   Entry,
              FieldType, Uint32Fields, CpuUint32Fields, GpuUint32Fields, FpgaUint32Fields,
              MicUint32Fields, SystemUint32Fields, CpuUint64Fields,
              UnitOf, Seconds, MilliWattSeconds, MilliWatts, WattSeconds, Watts, Degrees,
              MegaHertz, Percents, Processes, Converted,
              IsEnergy, IsPower, IsPlain, IsTime
<1>1. CASE \E p \in Package : q \in PackageRules(p)
  BY <1>1, RaplOperations DEF PackageRules, PackageEnergy, Pp0Energy, DramEnergy,
     CpuEnergy, CurrentPower, PackageTemperature, RaplEntry
<1>2. CASE \E p \in Package, c \in Core : q \in CoreRules(p, c)
  BY <1>2, RaplOperations
     DEF CoreRules, CoreTemperature, AverageFrequency, EffectiveFrequency, RaplEntry
<1>3. CASE q \in CpuTimes
  BY <1>3, RaplOperations DEF CpuTimes, RaplEntry
<1>4. CASE q \in CpuMemory
  BY <1>4, RaplOperations DEF CpuMemory, RaplEntry
<1>5. CASE q \in CpuSwap
  BY <1>5, RaplOperations DEF CpuSwap, RaplEntry
<1>6. QED
  BY <1>1, <1>2, <1>3, <1>4, <1>5 DEF RaplRules

\* Each entry of nvml is sound.
LEMMA NvmlSound ==
  ASSUME NEW q \in NvmlRules, NEW op, Operation("nvml", q.event, op), NEW e \in RuleEntries(q)
  PROVE  EntrySound(e, NvmlEntry(e.destination), op)
<1> USE DEF EntrySound, Computes, RuleEntries, Rule, Value0, Value1, LastValue1, Sample,
   Entry,
              FieldType, Uint32Fields, CpuUint32Fields, GpuUint32Fields, FpgaUint32Fields,
              MicUint32Fields, SystemUint32Fields, CpuUint64Fields,
              UnitOf, Seconds, MilliWattSeconds, MilliWatts, WattSeconds, Watts, Degrees,
              MegaHertz, Percents, Processes, Converted,
              IsEnergy, IsPower, IsPlain, IsTime
<1>1. CASE q \in GpuPower
  BY <1>1, NvmlOperations DEF GpuPower, NvmlEntry
<1>2. CASE q \in GpuClocks
  BY <1>2, NvmlOperations DEF GpuClocks, NvmlEntry
<1>3. CASE q \in GpuUtilization
  BY <1>3, NvmlOperations DEF GpuUtilization, NvmlEntry
<1>4. CASE q \in GpuMemory
  BY <1>4, NvmlOperations DEF GpuMemory, NvmlEntry
<1>5. CASE q \in {GpuTemperature, GpuProcesses}
  BY <1>5, NvmlOperations DEF GpuTemperature, GpuProcesses, NvmlEntry
<1>6. QED
  BY <1>1, <1>2, <1>3, <1>4, <1>5 DEF NvmlRules

\* Each entry of maxeler is sound.
LEMMA MaxelerSound ==
  ASSUME NEW q \in MaxelerRules, NEW op, Operation("maxeler", q.event, op), NEW e \in RuleEntries(q)
  PROVE  EntrySound(e, MaxelerEntry(e.destination), op)
<1> USE DEF EntrySound, Computes, RuleEntries, Rule, Value0, Value1, LastValue1, Sample,
   Entry,
              FieldType, Uint32Fields, CpuUint32Fields, GpuUint32Fields, FpgaUint32Fields,
              MicUint32Fields, SystemUint32Fields, CpuUint64Fields,
              UnitOf, Seconds, MilliWattSeconds, MilliWatts, WattSeconds, Watts, Degrees,
              MegaHertz, Percents, Processes, Converted,
              IsEnergy, IsPower, IsPlain, IsTime
<1>1. CASE q \in FpgaRails
  BY <1>1, MaxelerOperations DEF FpgaRails, FpgaRail, Rail, MaxelerEntry
<1>2. CASE q \in {FpgaPower, FpgaUtilization}
  BY <1>2, MaxelerOperations DEF FpgaPower, FpgaRail, Rail, FpgaUtilization, MaxelerEntry
<1>3. CASE q \in FpgaTemperatures
  BY <1>3, MaxelerOperations DEF FpgaTemperatures, FpgaTemperature, MaxelerEntry
<1>4. QED
  BY <1>1, <1>2, <1>3 DEF MaxelerRules

\* Each entry of micknc is sound.
LEMMA MickncSound ==
  ASSUME NEW q \in MickncRules, NEW op, Operation("micknc", q.event, op), NEW e \in RuleEntries(q)
  PROVE  EntrySound(e, MickncEntry(e.destination), op)
<1> USE DEF EntrySound, Computes, RuleEntries, Rule, Value0, Value1, LastValue1, Sample,
   Entry,
              FieldType, Uint32Fields, CpuUint32Fields, GpuUint32Fields, FpgaUint32Fields,
              MicUint32Fields, SystemUint32Fields, CpuUint64Fields,
              UnitOf, Seconds, MilliWattSeconds, MilliWatts, WattSeconds, Watts, Degrees,
              MegaHertz, Percents, Processes, Converted,
              IsEnergy, IsPower, IsPlain, IsTime
<1>1. CASE q \in MicRails
  BY <1>1, MickncOperations DEF MicRails, MicRail, Rail, MickncEntry
<1>2. CASE q \in {MicPower, MicDieTemperature}
  BY <1>2, MickncOperations
     DEF MicPower, MicRail, Rail, MicDieTemperature, MicTemperature, MickncEntry
<1>3. CASE q \in MicTemperatures
  BY <1>3, MickncOperations DEF MicTemperatures, MicTemperature, MickncEntry
<1>4. CASE q \in MicFrequencies
  BY <1>4, MickncOperations DEF MicFrequencies, MickncEntry
<1>5. CASE q \in MicTimes
  BY <1>5, MickncOperations DEF MicTimes, MickncEntry
<1>6. CASE q \in MicMemory
  BY <1>6, MickncOperations DEF MicMemory, MickncEntry
<1>7. QED
  BY <1>1, <1>2, <1>3, <1>4, <1>5, <1>6 DEF MickncRules

\* Each entry of ipmi is sound.
LEMMA IpmiSound ==
  ASSUME NEW q \in IpmiRules, NEW op, Operation("ipmi", q.event, op), NEW e \in RuleEntries(q)
  PROVE  EntrySound(e, IpmiEntry(e.destination), op)
<1> USE DEF EntrySound, Computes, RuleEntries, Rule, Value0, Value1, LastValue1, Sample,
   Entry,
              FieldType, Uint32Fields, CpuUint32Fields, GpuUint32Fields, FpgaUint32Fields,
              MicUint32Fields, SystemUint32Fields, CpuUint64Fields,
              UnitOf, Seconds, MilliWattSeconds, MilliWatts, WattSeconds, Watts, Degrees,
              MegaHertz, Percents, Processes, Converted,
              IsEnergy, IsPower, IsPlain, IsTime
<1>1. CASE q \in IpmiRules
  BY <1>1, IpmiOperations
     DEF IpmiRules, BoardPower, SystemPower, SystemTemperature, IpmiEntry
<1>2. QED
  BY <1>1 DEF IpmiRules

-----------------------------------------------------------------------------
(* Each entry of a map is the one of its field.                            *)

\* Each entry of a known component is sound.
LEMMA EntriesSound ==
  ASSUME NEW c \in Known, NEW q \in Rules(c), NEW op, Operation(c, q.event, op),
         NEW e \in RuleEntries(q)
  PROVE  EntrySound(e, EntryFor(c, e.destination), op)
<1>1. c \in {"rapl", "nvml", "maxeler", "ipmi", "micknc"}
  BY KnownSequence DEF KnownComponents
<1>2. CASE c = "rapl"
  BY <1>2, RaplSound DEF Rules, EntryFor
<1>3. CASE c = "nvml"
  BY <1>3, NvmlSound DEF Rules, EntryFor
<1>4. CASE c = "maxeler"
  BY <1>4, MaxelerSound DEF Rules, EntryFor
<1>5. CASE c = "micknc"
  BY <1>5, MickncSound DEF Rules, EntryFor
<1>6. CASE c = "ipmi"
  BY <1>6, IpmiSound DEF Rules, EntryFor
<1>7. QED
  BY <1>1, <1>2, <1>3, <1>4, <1>5, <1>6

\* An entry is the one of its destination: two with one destination are the same.
LEMMA EntryOf ==
  ASSUME NEW c \in Known, NEW last, NEW e \in Map(c, last)
  PROVE  /\ e = EntryFor(c, e.destination) /\ e.type = FieldType(e.destination)
         /\ \E q \in Rules(c) : e \in RuleEntries(q)
<1>1. PICK q \in Rules(c) : e \in q.always \cup (IF last THEN q.last ELSE {})
  BY DEF Map, CreateMapper
<1>2. e \in RuleEntries(q)
  BY <1>1 DEF RuleEntries
<1>3. PICK name : name = [cmp |-> c, event |-> q.event]
  OBVIOUS
<1>4. Operation(c, q.event, OperationOf(OpsOf(name)))
  BY <1>3 DEF Operation
<1>5. EntrySound(e, EntryFor(c, e.destination), OperationOf(OpsOf(name)))
  BY <1>2, <1>4, EntriesSound
<1>6. QED
  BY <1>2, <1>5 DEF EntrySound

\* The entries fit to their fields, whatever the state.
LEMMA EveryFieldFits == FieldsFit
<1>1. ASSUME NEW c \in Known, NEW last \in BOOLEAN, NEW e \in Map(c, last)
      PROVE e.type = FieldType(e.destination)
            /\ \A f \in Map(c, last) : f.destination = e.destination => f = e
  <2>1. e = EntryFor(c, e.destination) /\ e.type = FieldType(e.destination)
    BY EntryOf
  <2>2. \A f \in Map(c, last) : f = EntryFor(c, f.destination)
    BY EntryOf
  <2>3. QED
    BY <2>1, <2>2
<1>2. QED
  BY <1>1 DEF FieldsFit

\* The first operation of a name that has one.
LEMMA FirstOpIs ==
  ASSUME NEW ops, IsSequence(ops), NEW name, \E i \in DOMAIN ops : ops[i].name = name
  PROVE  \E i \in DOMAIN ops : FirstOp(ops, name) = ops[i] /\ ops[i].name = name
<1>1. PICK E : ops \in Seq(E)
  BY ElementsOf
<1>2. PICK n \in Nat : n = Len(ops) /\ DOMAIN ops = 1 .. n
  BY <1>1, LenProperties
<1>3. PICK T : T = {i \in 1 .. n : ops[i].name = name}
  OBVIOUS
<1>4. T \in SUBSET Nat /\ T # {}
  BY <1>2, <1>3
<1>5. PICK m \in T : \A k \in T : m <= k
  BY <1>4, Least
<1>6. \A j \in 1 .. (m - 1) : ops[j].name # name
  BY <1>3, <1>4, <1>5
<1>7. \E k \in DOMAIN ops : ops[k].name = name /\ \A j \in 1 .. (k - 1) : ops[j].name # name
  BY <1>2, <1>3, <1>5, <1>6
<1>8. PICK k : k = CHOOSE i \in DOMAIN ops : ops[i].name = name /\ \A j \in 1 .. (i - 1) :
        ops[j].name # name
  OBVIOUS
<1>9. k \in DOMAIN ops /\ ops[k].name = name
  BY <1>7, <1>8
<1>10. FirstOp(ops, name) = ops[k]
  BY <1>8 DEF FirstOp
<1>11. QED
  BY <1>9, <1>10

\* A set has events of its component only.
LEMMA NamesOffered ==
  ASSUME EventsInv, NEW c \in Known, set[c].created = TRUE
  PROVE  /\ IsSequence(set[c].names)
         /\ \A i \in DOMAIN set[c].names : set[c].names[i].cmp = c
<1>1. env \in Environment /\ set[c].names = Taken(c, PromisedList(c))
  BY DEF EventsInv, AtInv, SetInv, MadeRight
<1>2. PICK names : names = PromisedList(c)
  OBVIOUS
<1>3. IsSequence(names)
  <2>1. IsSequence(env.userList.lines) /\ IsSequence(env.defaultList.lines)
    BY <1>1, EnvironmentAssumption
  <2>2. /\ IsSequence(EventsOf(env.userList.lines, c))
        /\ IsSequence(EventsOf(env.defaultList.lines, c))
    BY <2>1, EventsOfElements
  <2>3. IsSequence(Offered[c])
    BY OfferedAssumption
  <2>4. QED
    BY <1>2, <2>2, <2>3 DEF PromisedList, Own
<1>4. PICK E : names \in Seq(E)
  BY <1>3, ElementsOf
<1>5. PICK I : I = {i \in DOMAIN names : Takes(c, names, i)}
  OBVIOUS
<1>6. PICK t : t = Chosen(names, I)
  OBVIOUS
<1>7. set[c].names = t
  BY <1>1, <1>2, <1>5, <1>6 DEF Taken
<1>8. t \in Seq(E) /\ HasElements(t, names, I)
  BY <1>4, <1>6, ChosenElements
<1>9. PICK n \in Nat : n = Len(t) /\ DOMAIN t = 1 .. n
  BY <1>8, LenProperties
<1>10. ASSUME NEW i \in 1 .. n PROVE t[i].cmp = c
  <2>1. PICK j : j \in I /\ t[i] = names[j]
    BY <1>8, <1>9 DEF HasElements
  <2>2. PICK k \in DOMAIN Offered[c] : Offered[c][k] = names[j]
    BY <1>5, <2>1 DEF Takes
  <2>3. QED
    BY <2>1, <2>2, OfferedAssumption
<1>11. IsSequence(t)
  BY <1>8, SequenceIs
<1>12. QED
  BY <1>7, <1>9, <1>10, <1>11

\* The default operation of an event is that of its line.
LEMMA ByDefaultIs ==
  ASSUME EventsInv, at = "ready", NEW c \in Known, NEW i \in DOMAIN set[c].ops, ByDefault(c, i)
  PROVE  /\ set[c].ops[i].name = set[c].names[i]
         /\ Operation(c, set[c].names[i].event, set[c].ops[i])
<1>1. set[c].created = TRUE
  <2>1. DOMAIN NoSet.ops = {}
    BY DEF NoSet
  <2>2. QED
    BY <2>1 DEF EventsInv, SetInv
<1>2. /\ i \in DOMAIN set[c].names /\ env \in Environment
      /\ OpsAre(default, env.defaultOps)
  BY <1>1 DEF EventsInv, AtInv, SetInv, MadeRight, DefaultInv
<1>3. PICK name : name = set[c].names[i]
  OBVIOUS
<1>4. Defines(default, name) /\ set[c].ops[i] = FirstOp(default.ops, name)
  BY <1>3 DEF ByDefault
<1>5. PICK lines : lines = env.defaultOps.lines
  OBVIOUS
<1>6. IsSequence(lines) /\ \A k \in DOMAIN lines :
        IsOps(lines[k]) => lines[k] = OpsOf(lines[k].name)
  BY <1>2, <1>5, EnvironmentAssumption, ShippedAssumption
<1>7. PICK ops : ops = EventOps(lines)
  OBVIOUS
<1>8. default.ops = ops /\ \E k \in DOMAIN ops : ops[k].name = name
  BY <1>2, <1>4, <1>5, <1>7 DEF OpsAre, Defines
<1>9. /\ IsSequence(ops)
      /\ \A j \in DOMAIN ops : \E k \in DOMAIN lines :
           IsOps(lines[k]) /\ ops[j] = OperationOf(lines[k])
  BY <1>6, <1>7, OpsOfLines
<1>10. PICK j \in DOMAIN ops : FirstOp(ops, name) = ops[j] /\ ops[j].name = name
  BY <1>8, <1>9, FirstOpIs
<1>11. PICK k \in DOMAIN lines : IsOps(lines[k]) /\ ops[j] = OperationOf(lines[k])
  BY <1>9
<1>12. lines[k].name = name
  BY <1>10, <1>11 DEF OperationOf
<1>13. set[c].ops[i] = OperationOf(OpsOf(name))
  BY <1>4, <1>6, <1>8, <1>10, <1>11, <1>12
<1>14. name.cmp = c
  BY <1>1, <1>2, <1>3, NamesOffered
<1>15. QED
  BY <1>3, <1>4, <1>8, <1>10, <1>13, <1>14 DEF Operation

-----------------------------------------------------------------------------
(* The units of what is shown.                                             *)

\* A row shows its field in the unit of the field.
RowFits(s) == s[2] = UnitOf(s[1][1])

\* The rows of a unit fit if their fields are shown in it.
LEMMA RowsIn ==
  ASSUME NEW unit, NEW fields, \A f \in fields : UnitOf(f[1]) = unit
  PROVE  \A s \in In(unit, fields) : RowFits(s)
BY DEF In, RowFits

\* What is printed of a package and a core fits.
LEMMA CpuRowsFit ==
  ASSUME NEW p, NEW c
  PROVE  \A s \in CpuRows(p, c) : RowFits(s)
<1> USE DEF UnitOf, Seconds, MilliWattSeconds, MilliWatts, WattSeconds, Watts, Degrees,
            MegaHertz, Percents, Processes
<1>1. PICK g : g = CpuGetters(p, c)
  OBVIOUS
<1>2. \A f \in {g.cpu_time_total, g.cpu_active_avg_all, g.cpu_idle_avg_all} : UnitOf(f[1]) = "s"
  BY <1>1 DEF CpuGetters
<1>3. \A f \in {g.cpu_energy_total_pkg, g.cpu_energy_total_pp0, g.cpu_energy_total_dram} :
        UnitOf(f[1]) = "mWs"
  BY <1>1 DEF CpuGetters
<1>4. \A f \in {g.cpu_power_avg_pkg, g.cpu_power_avg_pp0, g.cpu_power_avg_dram} :
        UnitOf(f[1]) = "mW"
  BY <1>1 DEF CpuGetters
<1>5. \A f \in {g.cpu_temp_max_pkg, g.cpu_temp_max_core} : UnitOf(f[1]) = "C"
  BY <1>1 DEF CpuGetters
<1>6. \A f \in {g.cpu_freq_avg_core, g.cpu_freq_eff_core} : UnitOf(f[1]) = "MHz"
  BY <1>1 DEF CpuGetters
<1>7. \A f \in {g.cpu_util_avg_all} : UnitOf(f[1]) = "%"
  BY <1>1 DEF CpuGetters
<1>8. \A f \in {g.cpu_memory_total, g.cpu_memory_used_max, g.cpu_memory_free_max, g.cpu_swap_total,
                g.cpu_swap_used_max, g.cpu_swap_free_max} : UnitOf(f[1]) = "kiB"
  BY <1>1 DEF CpuGetters
<1> HIDE DEF UnitOf
<1>9. QED
  BY <1>1, <1>2, <1>3, <1>4, <1>5, <1>6, <1>7, <1>8, RowsIn DEF CpuRows

\* What is printed of a graphics card fits.
LEMMA GpuRowsFit == \A s \in TextGpu : RowFits(s)
<1> USE DEF UnitOf, Seconds, MilliWattSeconds, MilliWatts, WattSeconds, Watts, Degrees,
            MegaHertz, Percents, Processes
<1>1. QED
  BY DEF TextGpu, GpuGetters, In, RowFits

\* What is printed of an FPGA fits.
LEMMA FpgaRowsFit == \A s \in TextFpga : RowFits(s)
<1> USE DEF UnitOf, Seconds, MilliWattSeconds, MilliWatts, WattSeconds, Watts, Degrees,
            MegaHertz, Percents, Processes
<1>1. QED
  BY DEF TextFpga, FpgaGetters, In, RowFits, All

\* What is printed of a coprocessor fits.
LEMMA MicRowsFit == \A s \in TextMic : RowFits(s)
<1> USE DEF UnitOf, Seconds, MilliWattSeconds, MilliWatts, WattSeconds, Watts, Degrees,
            MegaHertz, Percents, Processes
<1>1. QED
  BY DEF TextMic, MicGetters, In, RowFits, All

\* What is printed of the system fits.
LEMMA SystemRowsFit == \A s \in TextSystem : RowFits(s)
<1> USE DEF UnitOf, Seconds, MilliWattSeconds, MilliWatts, WattSeconds, Watts, Degrees,
            MegaHertz, Percents, Processes
<1>1. QED
  BY DEF TextSystem, SystemGetters, In, RowFits

\* Whatever is printed fits.
LEMMA PrintedFits ==
  ASSUME NEW c \in Known, NEW s \in Printed(c)
  PROVE  RowFits(s)
<1>1. c \in {"rapl", "nvml", "maxeler", "ipmi", "micknc"}
  BY KnownSequence DEF KnownComponents
<1>2. CASE c = "rapl"
  <2>1. PICK p, k : s \in CpuRows(p, k)
    BY <1>2 DEF Printed, TextCpu, CsvCpu, JsonCpu
  <2>2. QED
    BY <2>1, CpuRowsFit
<1>3. CASE c = "nvml"
  BY <1>3, GpuRowsFit DEF Printed, CsvGpu, JsonGpu
<1>4. CASE c = "maxeler"
  BY <1>4, FpgaRowsFit DEF Printed, CsvFpga, JsonFpga
<1>5. CASE c = "micknc"
  BY <1>5, MicRowsFit DEF Printed, CsvMic, JsonMic
<1>6. CASE c = "ipmi"
  BY <1>6, SystemRowsFit DEF Printed, CsvSystem, JsonSystem
<1>7. QED
  BY <1>1, <1>2, <1>3, <1>4, <1>5, <1>6

\* Whatever is plotted fits.
LEMMA PlottedFits ==
  ASSUME NEW s \in Plotted
  PROVE  RowFits(s)
<1> USE DEF UnitOf, Seconds, MilliWattSeconds, MilliWatts, WattSeconds, Watts, Degrees,
            MegaHertz, Percents, Processes, In, RowFits
<1>1. CASE s \in OverviewProcesses
  BY <1>1 DEF OverviewProcesses
<1>2. ASSUME NEW b \in FormPower, s \in Pushed[b] PROVE RowFits(s)
  BY <1>2 DEF FormPower, Pushed
<1>3. ASSUME NEW b \in FormTemperature, s \in Pushed[b] PROVE RowFits(s)
  BY <1>3 DEF FormTemperature, Pushed
<1>4. ASSUME NEW b \in FormClock, s \in Pushed[b] PROVE RowFits(s)
  BY <1>4 DEF FormClock, Pushed
<1>5. ASSUME NEW b \in FormUtilization, s \in Pushed[b] PROVE RowFits(s)
  BY <1>5 DEF FormUtilization, Pushed
<1>6. ASSUME NEW b \in FormMemory, s \in Pushed[b] PROVE RowFits(s)
  BY <1>6 DEF FormMemory, Pushed
<1>7. ASSUME NEW b \in OverviewTemperature, s \in Pushed[b] PROVE RowFits(s)
  BY <1>7 DEF OverviewTemperature, Pushed
<1>8. QED
  BY <1>1, <1>2, <1>3, <1>4, <1>5, <1>6, <1>7 DEF Plotted, Shown, CsvColumns

-----------------------------------------------------------------------------
(* The entries behind the operations, and their number.                    *)

\* An entry that an event with its default operation feeds is sound.
LEMMA EntryByDefault ==
  ASSUME EventsInv, at = "ready", NEW c \in Known, NEW i \in DOMAIN set[c].ops, ByDefault(c, i),
         NEW e \in Entries(c, i)
  PROVE  EntrySound(e, EntryFor(c, e.destination), set[c].ops[i])
<1>1. PICK q \in Rules(c) : q.event = set[c].ops[i].name.event /\ e \in q.last \cup q.always
  BY DEF Entries
<1>2. set[c].ops[i].name = set[c].names[i] /\ Operation(c, set[c].names[i].event, set[c].ops[i])
  BY ByDefaultIs
<1>3. e \in RuleEntries(q)
  BY <1>1 DEF RuleEntries
<1>4. Operation(c, q.event, set[c].ops[i])
  BY <1>1, <1>2
<1>5. QED
  BY <1>3, <1>4, EntriesSound

\* The invariant has that the statistics are computed.
LEMMA EveryStatisticComputed == EventsInv => StatisticsComputed
<1>1. SUFFICES ASSUME EventsInv, at = "ready", NEW c \in Known, NEW i \in DOMAIN set[c].ops,
                      ByDefault(c, i), NEW e \in Entries(c, i)
               PROVE Computes(set[c].ops[i], e)
  BY DEF StatisticsComputed, Computes
<1>2. EntrySound(e, EntryFor(c, e.destination), set[c].ops[i])
  BY <1>1, EntryByDefault
<1>3. QED
  BY <1>2 DEF EntrySound

\* The invariant has that the units fit.
LEMMA EveryUnitFits == EventsInv => UnitsFit
<1>1. SUFFICES ASSUME EventsInv, at = "ready", NEW c \in Known, NEW i \in DOMAIN set[c].ops,
                      ByDefault(c, i), NEW e \in Entries(c, i)
               PROVE LET value == IF e.source \in {"values0", "current_samples"} THEN 0 ELSE 1
                         shown == {s \in Printed(c) \cup Plotted : s[1] = e.destination}
                     IN /\ e.prefix = value
                        /\ \A s \in shown :
                             s[2] = Converted(set[c].ops[i].units[value + 1], e.scale)
  BY DEF UnitsFit
<1>2. EntrySound(e, EntryFor(c, e.destination), set[c].ops[i])
  BY <1>1, EntryByDefault
<1>3. PICK op : op = set[c].ops[i]
  OBVIOUS
<1>4. /\ e.prefix = IF e.source \in {"values0", "current_samples"} THEN 0 ELSE 1
      /\ UnitOf(e.destination[1]) = Converted(op.units[e.prefix + 1], e.scale)
  BY <1>2, <1>3 DEF EntrySound
<1>5. ASSUME NEW s \in Printed(c) \cup Plotted, s[1] = e.destination
      PROVE s[2] = UnitOf(e.destination[1])
  BY <1>5, PrintedFits, PlottedFits DEF RowFits
<1>6. QED
  BY <1>3, <1>4, <1>5

-----------------------------------------------------------------------------
(* The size of the tables. *)

\* The entries of a set of rules.
EntriesOf(R) == UNION {RuleEntries(q) : q \in R}

\* A bound may be larger.
LEMMA AtMostMore ==
  ASSUME NEW S, NEW m \in Nat, AtMost(S, m), NEW n \in Nat, m <= n
  PROVE  AtMost(S, n)
BY DEF AtMost

\* The entries of two sets of rules add up.
LEMMA EntriesOfBoth ==
  ASSUME NEW R, NEW m \in Nat, AtMost(EntriesOf(R), m), NEW Q, NEW n \in Nat, AtMost(EntriesOf(Q), n)
  PROVE  AtMost(EntriesOf(R \cup Q), m + n)
<1>1. EntriesOf(R \cup Q) = EntriesOf(R) \cup EntriesOf(Q)
  BY DEF EntriesOf
<1>2. PICK A, B : A = EntriesOf(R) /\ B = EntriesOf(Q)
  OBVIOUS
<1>3. AtMost(A \cup B, m + n)
  BY <1>2, AtMostUnion
<1>4. QED
  BY <1>1, <1>2, <1>3

\* The entries of one rule are those at the end and those at every sample.
LEMMA EntriesOfOne ==
  ASSUME NEW q, NEW m \in Nat, AtMost(q.last, m), NEW n \in Nat, AtMost(q.always, n)
  PROVE  AtMost(EntriesOf({q}), m + n)
<1>1. EntriesOf({q}) = q.last \cup q.always
  BY DEF EntriesOf, RuleEntries
<1>2. QED
  BY <1>1, AtMostUnion

\* Sets written out.
LEMMA AtMostAll ==
  /\ \A a, b, c : AtMost({a, b, c}, 3)
  /\ \A a, b, c, d, e, f : AtMost({a, b, c, d, e, f}, 6)
  /\ \A a, b, c, d, e, f, g : AtMost({a, b, c, d, e, f, g}, 7)
<1>1. ASSUME NEW a, NEW b, NEW c PROVE AtMost({a, b, c}, 3)
  <2>1. AtMost({a, b} \cup {c}, 2 + 1)
    BY AtMostTwo, AtMostOne, AtMostUnion
  <2>2. {a, b} \cup {c} = {a, b, c} /\ 2 + 1 = 3
    OBVIOUS
  <2>3. QED
    BY <2>1, <2>2
<1>2. ASSUME NEW a, NEW b, NEW c, NEW d, NEW e, NEW f PROVE AtMost({a, b, c, d, e, f}, 6)
  <2>1. AtMost({a, b, c, d}, 4) /\ AtMost({e, f}, 2)
    BY AtMostTwo, AtMostFour
  <2>2. AtMost({a, b, c, d} \cup {e, f}, 4 + 2)
    BY <2>1, AtMostUnion
  <2>3. {a, b, c, d} \cup {e, f} = {a, b, c, d, e, f} /\ 4 + 2 = 6
    OBVIOUS
  <2>4. QED
    BY <2>2, <2>3
<1>3. ASSUME NEW a, NEW b, NEW c, NEW d, NEW e, NEW f, NEW g
      PROVE AtMost({a, b, c, d, e, f, g}, 7)
  <2>1. AtMost({a, b, c, d, e, f} \cup {g}, 6 + 1)
    BY <1>2, AtMostOne, AtMostUnion
  <2>2. {a, b, c, d, e, f} \cup {g} = {a, b, c, d, e, f, g} /\ 6 + 1 = 7
    OBVIOUS
  <2>3. QED
    BY <2>1, <2>2
<1>4. QED
  BY <1>1, <1>2, <1>3

\* A rule has an entry of each source at most.
Small(q) ==
  \A e, f \in RuleEntries(q) : /\ e.source \in {"values0", "values1", "current_samples"}
                               /\ e.source = f.source => e = f

\* A small rule has at most three entries.
LEMMA SmallFits ==
  ASSUME NEW q, Small(q)
  PROVE  AtMost(RuleEntries(q), 3)
<1>1. PICK S : S = {"values0", "values1", "current_samples"}
  OBVIOUS
<1>2. AtMost(S, 3)
  BY <1>1, AtMostAll
<1>3. PICK T : T = RuleEntries(q)
  OBVIOUS
<1>4. PICK f : f = [e \in T |-> e.source]
  OBVIOUS
<1>5. f \in Injection(T, S)
  <2>1. f \in [T -> S]
    BY <1>1, <1>3, <1>4 DEF Small
  <2>2. \A d, e \in T : f[d] = f[e] => d = e
    BY <1>3, <1>4 DEF Small
  <2>3. QED
    BY <2>1, <2>2 DEF Injection, IsInjective
<1>6. IsFiniteSet(T) /\ Cardinality(T) <= Cardinality(S)
  BY <1>2, <1>5, FS_Injection DEF AtMost
<1>7. Cardinality(T) \in Nat
  BY <1>6, FS_CardinalityType
<1>8. QED
  BY <1>2, <1>3, <1>6, <1>7 DEF AtMost

\* n small rules have at most 3 n entries.
LEMMA EntriesOfSmall ==
  ASSUME NEW R, NEW n \in Nat, AtMost(R, n), \A q \in R : Small(q)
  PROVE  AtMost(EntriesOf(R), 3 * n)
<1>1. PICK k \in Nat : k = Cardinality(R) /\ k <= n /\ ExistsBijection(1 .. k, R)
  BY FS_CardinalityType DEF AtMost
<1>2. PICK f \in Bijection(1 .. k, R) : TRUE
  BY <1>1 DEF ExistsBijection
<1>3. \A q \in R : \E i \in 1 .. k : f[i] = q
  BY <1>2 DEF Bijection, Surjection, Injection
<1>4. \A i \in 1 .. k : f[i] \in R
  BY <1>2 DEF Bijection, Surjection, Injection
<1>5. PICK g : g = [i \in 0 .. (k - 1) |-> RuleEntries(f[i + 1])]
  OBVIOUS
<1>6. \A i \in 0 .. (k - 1) : AtMost(g[i], 3)
  <2>1. ASSUME NEW i \in 0 .. (k - 1) PROVE AtMost(g[i], 3)
    <3>1. i + 1 \in 1 .. k
      OBVIOUS
    <3>2. Small(f[i + 1])
      BY <1>4, <3>1
    <3>3. AtMost(RuleEntries(f[i + 1]), 3)
      BY <3>2, SmallFits
    <3>4. g[i] = RuleEntries(f[i + 1])
      BY <1>5
    <3>5. QED
      BY <3>3, <3>4
  <2>2. QED
    BY <2>1
<1>7. AtMost(Together(g, k), k * 3)
  BY <1>6, AtMostTogether
<1>8. EntriesOf(R) \subseteq Together(g, k)
  <2>1. ASSUME NEW q \in R PROVE RuleEntries(q) \subseteq Together(g, k)
    <3>1. PICK i \in 1 .. k : f[i] = q
      BY <1>3
    <3>2. i - 1 \in 0 .. (k - 1) /\ (i - 1) + 1 = i
      OBVIOUS
    <3>3. g[i - 1] = RuleEntries(q)
      BY <1>5, <3>1, <3>2
    <3>4. QED
      BY <3>2, <3>3 DEF Together
  <2>2. QED
    BY <2>1 DEF EntriesOf
<1>9. k * 3 \in Nat /\ 3 * n \in Nat /\ k * 3 <= 3 * n
  BY <1>1
<1>10. AtMost(EntriesOf(R), k * 3)
  BY <1>7, <1>8, <1>9, AtMostPart
<1>11. QED
  BY <1>9, <1>10, AtMostMore

\* The entries of nvml.
LEMMA NvmlFits == AtMost(EntriesOf(NvmlRules), 3 * 12)
<1>1. \A q \in NvmlRules : Small(q)
  <2>1. \A q \in GpuPower \cup GpuClocks : Small(q)
    BY DEF GpuPower, GpuClocks, Small, RuleEntries, Rule, Value0, Value1, Sample, Entry
  <2>2. \A q \in GpuUtilization \cup GpuMemory : Small(q)
    BY DEF GpuUtilization, GpuMemory, Small, RuleEntries, Rule, Value0, Value1, Sample,
       Entry
  <2>3. Small(GpuTemperature) /\ Small(GpuProcesses)
    BY DEF GpuTemperature, GpuProcesses, Small, RuleEntries, Rule, Value0, Value1, Sample,
       Entry
  <2>4. QED
    BY <2>1, <2>2, <2>3 DEF NvmlRules
<1>2. AtMost(NvmlRules, 12)
  <2>1. AtMost(GpuPower, 2) /\ AtMost(GpuClocks, 3)
    BY AtMostTwo, AtMostAll DEF GpuPower, GpuClocks
  <2>2. AtMost(GpuUtilization, 2) /\ AtMost(GpuMemory, 3)
    BY AtMostTwo, AtMostAll DEF GpuUtilization, GpuMemory
  <2>3. AtMost({GpuTemperature, GpuProcesses}, 2)
    BY AtMostTwo
  <2>4. AtMost(GpuPower \cup GpuClocks, 2 + 3)
    BY <2>1, AtMostUnion
  <2>5. AtMost((GpuPower \cup GpuClocks) \cup GpuUtilization, 5 + 2)
    BY <2>2, <2>4, AtMostUnion
  <2>6. AtMost(((GpuPower \cup GpuClocks) \cup GpuUtilization) \cup GpuMemory, 7 + 3)
    BY <2>2, <2>5, AtMostUnion
  <2>7. AtMost((((GpuPower \cup GpuClocks) \cup GpuUtilization) \cup GpuMemory)
               \cup {GpuTemperature, GpuProcesses}, 10 + 2)
    BY <2>3, <2>6, AtMostUnion
  <2>8. AtMost(NvmlRules, 12)
    BY <2>7 DEF NvmlRules
  <2>9. QED
    BY <2>8
<1>3. QED
  BY <1>1, <1>2, EntriesOfSmall

\* The entries of maxeler.
LEMMA MaxelerFits == AtMost(EntriesOf(MaxelerRules), 3 * 11)
<1>1. \A q \in MaxelerRules : Small(q)
  <2>1. \A q \in FpgaRails : Small(q)
    BY DEF FpgaRails, FpgaRail, Rail, Small, RuleEntries, Rule, Value0, Value1, Sample,
       Entry
  <2>2. Small(FpgaPower) /\ Small(FpgaUtilization)
    BY DEF FpgaPower, FpgaRail, Rail, FpgaUtilization, Small, RuleEntries, Rule, Value0,
       Value1, Sample, Entry
  <2>3. \A q \in FpgaTemperatures : Small(q)
    BY DEF FpgaTemperatures, FpgaTemperature, Small, RuleEntries, Rule, Value0, Value1,
       Sample, Entry
  <2>4. QED
    BY <2>1, <2>2, <2>3 DEF MaxelerRules
<1>2. AtMost(MaxelerRules, 11)
  <2>1. AtMost(FpgaRails, 7)
    BY AtMostAll DEF FpgaRails
  <2>2. AtMost({FpgaPower, FpgaUtilization}, 2)
    BY AtMostTwo
  <2>3. AtMost(FpgaTemperatures, 2)
    BY AtMostTwo DEF FpgaTemperatures
  <2>4. AtMost(FpgaRails \cup {FpgaPower, FpgaUtilization}, 7 + 2)
    BY <2>1, <2>2, AtMostUnion
  <2>5. AtMost((FpgaRails \cup {FpgaPower, FpgaUtilization}) \cup FpgaTemperatures, 9 + 2)
    BY <2>3, <2>4, AtMostUnion
  <2>6. QED
    BY <2>5 DEF MaxelerRules
<1>3. QED
  BY <1>1, <1>2, EntriesOfSmall

\* The entries of micknc.
LEMMA MickncFits == AtMost(EntriesOf(MickncRules), 3 * 22)
<1>1. \A q \in MickncRules : Small(q)
  <2>1. \A q \in MicRails : Small(q)
    BY DEF MicRails, MicRail, Rail, Small, RuleEntries, Rule, Value0, Value1, Sample, Entry
  <2>2. Small(MicPower) /\ Small(MicDieTemperature)
    BY DEF MicPower, MicRail, Rail, MicDieTemperature, MicTemperature, Small, RuleEntries,
       Rule, Value0, Value1, Sample, Entry
  <2>3. \A q \in MicTemperatures : Small(q)
    BY DEF MicTemperatures, MicTemperature, Small, RuleEntries, Rule, Value0, Value1,
       Sample, Entry
  <2>4. \A q \in MicFrequencies \cup MicTimes : Small(q)
    BY DEF MicFrequencies, MicTimes, Small, RuleEntries, Rule, Value0, Value1, Sample, Entry
  <2>5. \A q \in MicMemory : Small(q)
    BY DEF MicMemory, Small, RuleEntries, Rule, Value0, Value1, Sample, Entry
  <2>6. QED
    BY <2>1, <2>2, <2>3, <2>4, <2>5 DEF MickncRules
<1>2. AtMost(MickncRules, 22)
  <2>1. AtMost(MicRails, 6) /\ AtMost(MicTemperatures, 6)
    BY AtMostAll DEF MicRails, MicTemperatures
  <2>2. AtMost({MicPower, MicDieTemperature}, 2)
    BY AtMostTwo
  <2>3. AtMost(MicFrequencies, 2) /\ AtMost(MicTimes, 3) /\ AtMost(MicMemory, 3)
    BY AtMostTwo, AtMostAll DEF MicFrequencies, MicTimes, MicMemory
  <2>4. AtMost(MicRails \cup {MicPower, MicDieTemperature}, 6 + 2)
    BY <2>1, <2>2, AtMostUnion
  <2>5. AtMost((MicRails \cup {MicPower, MicDieTemperature}) \cup MicTemperatures, 8 + 6)
    BY <2>1, <2>4, AtMostUnion
  <2>6. AtMost(((MicRails \cup {MicPower, MicDieTemperature}) \cup MicTemperatures)
               \cup MicFrequencies, 14 + 2)
    BY <2>3, <2>5, AtMostUnion
  <2>7. AtMost((((MicRails \cup {MicPower, MicDieTemperature}) \cup MicTemperatures)
                \cup MicFrequencies) \cup MicTimes, 16 + 3)
    BY <2>3, <2>6, AtMostUnion
  <2>8. AtMost(((((MicRails \cup {MicPower, MicDieTemperature}) \cup MicTemperatures)
                 \cup MicFrequencies) \cup MicTimes) \cup MicMemory, 19 + 3)
    BY <2>3, <2>7, AtMostUnion
  <2>9. QED
    BY <2>8 DEF MickncRules
<1>3. QED
  BY <1>1, <1>2, EntriesOfSmall

\* The entries of ipmi.
LEMMA IpmiFits == AtMost(EntriesOf(IpmiRules), 3 * 3)
<1>1. \A q \in IpmiRules : Small(q)
  BY DEF IpmiRules, BoardPower, SystemPower, SystemTemperature, Small, RuleEntries, Rule,
     Value0, Value1, Sample, Entry
<1>2. AtMost(IpmiRules, 3)
  BY AtMostAll DEF IpmiRules
<1>3. QED
  BY <1>1, <1>2, EntriesOfSmall

\* A package has ten entries and a core four.
LEMMA PackageFits == \A p : AtMost(EntriesOf(PackageRules(p)), 10)
<1>1. SUFFICES ASSUME NEW p PROVE AtMost(EntriesOf(PackageRules(p)), 10)
  OBVIOUS
<1>2. AtMost(EntriesOf({PackageEnergy(p)}), 2 + 1)
  BY AtMostOne, AtMostTwo, EntriesOfOne DEF PackageEnergy, CpuEnergy, CurrentPower, Rule
<1>3. AtMost(EntriesOf({Pp0Energy(p)}), 2 + 0)
  BY AtMostNone, AtMostTwo, EntriesOfOne DEF Pp0Energy, CpuEnergy, Rule
<1>4. AtMost(EntriesOf({DramEnergy(p)}), 2 + 1)
  BY AtMostOne, AtMostTwo, EntriesOfOne DEF DramEnergy, CpuEnergy, CurrentPower, Rule
<1>5. AtMost(EntriesOf({PackageTemperature(p)}), 1 + 1)
  BY AtMostOne, EntriesOfOne DEF PackageTemperature, Rule
<1>6. AtMost(EntriesOf({PackageEnergy(p)} \cup {Pp0Energy(p)}), 3 + 2)
  BY <1>2, <1>3, EntriesOfBoth
<1>7. AtMost(EntriesOf(({PackageEnergy(p)} \cup {Pp0Energy(p)}) \cup {DramEnergy(p)}), 5 + 3)
  BY <1>4, <1>6, EntriesOfBoth
<1>8. AtMost(EntriesOf((({PackageEnergy(p)} \cup {Pp0Energy(p)}) \cup {DramEnergy(p)})
                       \cup {PackageTemperature(p)}), 8 + 2)
  BY <1>5, <1>7, EntriesOfBoth
<1>9. (({PackageEnergy(p)} \cup {Pp0Energy(p)}) \cup {DramEnergy(p)}) \cup {PackageTemperature(p)}
      = PackageRules(p)
  BY DEF PackageRules
<1>10. QED
  BY <1>8, <1>9

\* The entries of a core.
LEMMA CoreFits == \A p, c : AtMost(EntriesOf(CoreRules(p, c)), 4)
<1>1. SUFFICES ASSUME NEW p, NEW c PROVE AtMost(EntriesOf(CoreRules(p, c)), 4)
  OBVIOUS
<1>2. AtMost(EntriesOf({CoreTemperature(p, c)}), 1 + 0)
  BY AtMostNone, AtMostOne, EntriesOfOne DEF CoreTemperature, Rule
<1>3. AtMost(EntriesOf({AverageFrequency(p, c)}), 1 + 0)
  BY AtMostNone, AtMostOne, EntriesOfOne DEF AverageFrequency, Rule
<1>4. AtMost(EntriesOf({EffectiveFrequency(p, c)}), 1 + 1)
  BY AtMostOne, EntriesOfOne DEF EffectiveFrequency, Rule
<1>5. AtMost(EntriesOf({CoreTemperature(p, c)} \cup {AverageFrequency(p, c)}), 1 + 1)
  BY <1>2, <1>3, EntriesOfBoth
<1>6. AtMost(EntriesOf(({CoreTemperature(p, c)} \cup {AverageFrequency(p, c)})
                       \cup {EffectiveFrequency(p, c)}), 2 + 2)
  BY <1>4, <1>5, EntriesOfBoth
<1>7. ({CoreTemperature(p, c)} \cup {AverageFrequency(p, c)}) \cup {EffectiveFrequency(p, c)}
      = CoreRules(p, c)
  BY DEF CoreRules
<1>8. QED
  BY <1>6, <1>7

-----------------------------------------------------------------------------
(* The tables of the maps.                                                 *)

\* The entries of rapl: of each package, of each of its cores, and the rest.
LEMMA RaplFits == AtMost(EntriesOf(RaplRules), CPUS * (10 + 4 * CORES) + 12)
<1>1. CPUS \in Nat /\ CORES \in Nat /\ 4 * CORES \in Nat /\ CORES * 4 = 4 * CORES
  BY SizeAssumption
<1>2. PICK m \in Nat : m = 10 + 4 * CORES
  BY <1>1
<1>3. PICK f : f = [p \in Package |-> [c \in Core |-> EntriesOf(CoreRules(p, c))]]
  OBVIOUS
<1>4. PICK g : g = [p \in Package |-> EntriesOf(PackageRules(p)) \cup Together(f[p], CORES)]
  OBVIOUS
<1>5. \A p \in 0 .. (CPUS - 1) : AtMost(g[p], m)
  <2>1. ASSUME NEW p \in 0 .. (CPUS - 1) PROVE AtMost(g[p], m)
    <3>1. p \in Package
      BY <2>1 DEF Package
    <3>2. PICK h : h = f[p]
      OBVIOUS
    <3>3. \A c \in 0 .. (CORES - 1) : AtMost(h[c], 4)
      BY <1>3, <3>1, <3>2, CoreFits DEF Core
    <3>4. AtMost(Together(h, CORES), CORES * 4)
      BY <1>1, <3>3, AtMostTogether
    <3>5. AtMost(EntriesOf(PackageRules(p)), 10)
      BY PackageFits
    <3>6. AtMost(EntriesOf(PackageRules(p)) \cup Together(h, CORES), 10 + CORES * 4)
      BY <1>1, <3>4, <3>5, AtMostUnion
    <3>7. g[p] = EntriesOf(PackageRules(p)) \cup Together(h, CORES)
      BY <1>4, <3>1, <3>2
    <3>8. QED
      BY <1>1, <1>2, <3>6, <3>7
  <2>2. QED
    BY <2>1
<1>6. AtMost(Together(g, CPUS), CPUS * m)
  BY <1>1, <1>2, <1>5, AtMostTogether
<1>7. AtMost(EntriesOf(CpuTimes), 4)
  <2>1. PICK a, b, d : a = Rule(<<"TIME_WORK">>,
                                {Value0("MAX", <<"measure_util_active_avg">>, "double", "1")}, {})
                    /\ b = Rule(<<"TIME_IDLE">>,
                                {Value0("MAX", <<"measure_util_idle_avg">>, "double", "1")}, {})
                    /\ d = Rule(<<"TIME_UTIL">>,
                                {Value0("AVG", <<"measure_util_avg">>, "double", "1")},
                                {Sample(<<"measure_util_avg_cur">>, "double", "1")})
    OBVIOUS
  <2>2. CpuTimes = ({a} \cup {b}) \cup {d}
    BY <2>1 DEF CpuTimes
  <2>3. /\ AtMost(EntriesOf({a}), 1 + 0)
        /\ AtMost(EntriesOf({b}), 1 + 0)
        /\ AtMost(EntriesOf({d}), 1 + 1)
    BY <2>1, AtMostNone, AtMostOne, EntriesOfOne DEF Rule
  <2>4. AtMost(EntriesOf({a} \cup {b}), 1 + 1)
    BY <2>3, EntriesOfBoth
  <2>5. AtMost(EntriesOf(({a} \cup {b}) \cup {d}), 2 + 2)
    BY <2>3, <2>4, EntriesOfBoth
  <2>6. QED
    BY <2>2, <2>5
<1>8. AtMost(EntriesOf(CpuMemory), 4)
  <2>1. PICK a, b, d : a = Rule(<<"MEM_TOTAL">>,
                                {Sample(<<"measure_memory_cur", "RAM_TOTAL">>, "uint64", "1")}, {})
                    /\ b = Rule(<<"MEM_USED">>,
                                {Value0("MAX", <<"measure_memory_used_max">>, "uint32", "1")},
                                {Sample(<<"measure_memory_cur", "RAM_USED">>, "uint64", "1")})
                    /\ d = Rule(<<"MEM_FREE">>,
                                {Value0("MAX", <<"measure_memory_free_max">>, "uint32", "1")}, {})
    OBVIOUS
  <2>2. CpuMemory = ({a} \cup {b}) \cup {d}
    BY <2>1 DEF CpuMemory
  <2>3. /\ AtMost(EntriesOf({a}), 1 + 0)
        /\ AtMost(EntriesOf({b}), 1 + 1)
        /\ AtMost(EntriesOf({d}), 1 + 0)
    BY <2>1, AtMostNone, AtMostOne, EntriesOfOne DEF Rule
  <2>4. AtMost(EntriesOf({a} \cup {b}), 1 + 2)
    BY <2>3, EntriesOfBoth
  <2>5. AtMost(EntriesOf(({a} \cup {b}) \cup {d}), 3 + 1)
    BY <2>3, <2>4, EntriesOfBoth
  <2>6. QED
    BY <2>2, <2>5
<1>9. AtMost(EntriesOf(CpuSwap), 4)
  <2>1. PICK a, b, d : a = Rule(<<"SWAP_TOTAL">>,
                                {Sample(<<"measure_memory_cur", "SWAP_TOTAL">>, "uint64", "1")}, {})
                    /\ b = Rule(<<"SWAP_USED">>,
                                {Value0("MAX", <<"measure_swap_used_max">>, "uint32", "1")},
                                {Sample(<<"measure_memory_cur", "SWAP_USED">>, "uint64", "1")})
                    /\ d = Rule(<<"SWAP_FREE">>,
                                {Value0("MAX", <<"measure_swap_free_max">>, "uint32", "1")}, {})
    OBVIOUS
  <2>2. CpuSwap = ({a} \cup {b}) \cup {d}
    BY <2>1 DEF CpuSwap
  <2>3. /\ AtMost(EntriesOf({a}), 1 + 0)
        /\ AtMost(EntriesOf({b}), 1 + 1)
        /\ AtMost(EntriesOf({d}), 1 + 0)
    BY <2>1, AtMostNone, AtMostOne, EntriesOfOne DEF Rule
  <2>4. AtMost(EntriesOf({a} \cup {b}), 1 + 2)
    BY <2>3, EntriesOfBoth
  <2>5. AtMost(EntriesOf(({a} \cup {b}) \cup {d}), 3 + 1)
    BY <2>3, <2>4, EntriesOfBoth
  <2>6. QED
    BY <2>2, <2>5
<1>10. PICK A, T, M, S : /\ A = Together(g, CPUS) /\ T = EntriesOf(CpuTimes)
                         /\ M = EntriesOf(CpuMemory) /\ S = EntriesOf(CpuSwap)
  OBVIOUS
<1>11. PICK n \in Nat : n = CPUS * m
  BY <1>1
<1>12. AtMost(A \cup T, n + 4)
  BY <1>6, <1>7, <1>10, <1>11, AtMostUnion
<1>13. AtMost((A \cup T) \cup M, n + 8)
  BY <1>8, <1>10, <1>12, AtMostUnion
<1>14. AtMost(((A \cup T) \cup M) \cup S, n + 12)
  BY <1>9, <1>10, <1>13, AtMostUnion
<1>15. EntriesOf(RaplRules) \subseteq ((A \cup T) \cup M) \cup S
  <2>1. ASSUME NEW q \in RaplRules, NEW e \in RuleEntries(q)
        PROVE e \in ((A \cup T) \cup M) \cup S
    <3>1. CASE q \in CpuTimes \cup CpuMemory \cup CpuSwap
      BY <1>10, <2>1, <3>1 DEF EntriesOf
    <3>2. ASSUME NEW p \in Package, q \in PackageRules(p) PROVE e \in A
      <4>1. e \in EntriesOf(PackageRules(p))
        BY <2>1, <3>2 DEF EntriesOf
      <4>2. e \in g[p] /\ p \in 0 .. (CPUS - 1)
        BY <1>4, <3>2, <4>1 DEF Package
      <4>3. QED
        BY <1>10, <4>2 DEF Together
    <3>3. ASSUME NEW p \in Package, NEW c \in Core, q \in CoreRules(p, c) PROVE e \in A
      <4>1. e \in EntriesOf(CoreRules(p, c))
        BY <2>1, <3>3 DEF EntriesOf
      <4>2. e \in f[p][c] /\ c \in 0 .. (CORES - 1)
        BY <1>3, <3>3, <4>1 DEF Core
      <4>3. e \in Together(f[p], CORES)
        BY <4>2 DEF Together
      <4>4. e \in g[p] /\ p \in 0 .. (CPUS - 1)
        BY <1>4, <3>3, <4>3 DEF Package
      <4>5. QED
        BY <1>10, <4>4 DEF Together
    <3>4. QED
      BY <2>1, <3>1, <3>2, <3>3 DEF RaplRules
  <2>2. QED
    BY <2>1 DEF EntriesOf
<1>16. AtMost(EntriesOf(RaplRules), n + 12)
  BY <1>11, <1>14, <1>15, AtMostPart
<1>17. QED
  BY <1>2, <1>11, <1>16

\* The tables fit into their memory.
LEMMA EveryMapFits == MapFits
<1>1. ASSUME NEW c \in Known PROVE Cardinality(Map(c, TRUE)) < MapSize
  <2>1. Map(c, TRUE) \subseteq EntriesOf(Rules(c))
    BY DEF Map, CreateMapper, EntriesOf, RuleEntries
  <2>2. \E n \in Nat : n < MapSize /\ AtMost(EntriesOf(Rules(c)), n)
    <3>1. c \in {"rapl", "nvml", "maxeler", "ipmi", "micknc"}
      BY KnownSequence DEF KnownComponents
    <3>2. CASE c = "rapl"
      <4>1. CPUS * (10 + 4 * CORES) + 12 \in Nat
        BY SizeAssumption
      <4>2. QED
        BY <3>2, <4>1, RaplFits, BoardAssumption DEF Rules
    <3>3. CASE c = "nvml"
      <4>1. 3 * 12 \in Nat /\ 3 * 12 < MapSize
        BY DEF MapSize
      <4>2. QED
        BY <3>3, <4>1, NvmlFits DEF Rules
    <3>4. CASE c = "maxeler"
      <4>1. 3 * 11 \in Nat /\ 3 * 11 < MapSize
        BY DEF MapSize
      <4>2. QED
        BY <3>4, <4>1, MaxelerFits DEF Rules
    <3>5. CASE c = "micknc"
      <4>1. 3 * 22 \in Nat /\ 3 * 22 < MapSize
        BY DEF MapSize
      <4>2. QED
        BY <3>5, <4>1, MickncFits DEF Rules
    <3>6. CASE c = "ipmi"
      <4>1. 3 * 3 \in Nat /\ 3 * 3 < MapSize
        BY DEF MapSize
      <4>2. QED
        BY <3>6, <4>1, IpmiFits DEF Rules
    <3>7. QED
      BY <3>1, <3>2, <3>3, <3>4, <3>5, <3>6
  <2>3. PICK n \in Nat : n < MapSize /\ AtMost(EntriesOf(Rules(c)), n)
    BY <2>2
  <2>4. AtMost(Map(c, TRUE), n)
    BY <2>1, <2>3, AtMostPart
  <2>5. MapSize \in Nat
    BY DEF MapSize
  <2>6. PICK k, M : M = Map(c, TRUE) /\ k = Cardinality(M)
    OBVIOUS
  <2>7. k \in Nat /\ k <= n
    BY <2>4, <2>6 DEF AtMost
  <2>8. k < MapSize
    BY <2>3, <2>5, <2>7
  <2>9. QED
    BY <2>6, <2>8
<1>2. QED
  BY <1>1 DEF MapFits

\* For any number of packages and cores that the table of the processors has
\* room for, any environment and any offer of PAPI: an entry of a map writes a
\* field of its type that no other entry writes, it reads what the default
\* operations of its event compute, and its factor gives the unit in which
\* hettime prints and msmonitor plots the field (ms_common_apapi.c:83).
THEOREM TablesSound == ESpec => []MappingSound
<1>1. EventsInv => MappingSound
  BY EveryMapFits, EveryFieldFits, EveryStatisticComputed, EveryUnitFits DEF MappingSound
<1>2. QED
  BY <1>1, ReadAsWritten, PTL

-----------------------------------------------------------------------------
(* What hettime prints is written.                                         *)

\* With the default list a set has every event that the map knows.
LEMMA EveryEventFound ==
  ASSUME EventsInv, at = "ready", NEW c \in Known, AsShipped(c), NEW q \in Rules(c)
  PROVE  q.event \in Found(c)
<1>1. /\ env \in Environment /\ ReadsEventList(env.defaultList)
      /\ set[c].created = TRUE /\ DOMAIN set[c].ops = DOMAIN set[c].names
  BY DEF EventsInv, AtInv, SetInv, MadeRight, AsShipped, NoSet
<1>2. PICK lines : lines = env.defaultList.lines
  OBVIOUS
<1>3. IsSequence(lines) /\ set[c].names = EventsOf(lines, c)
  BY <1>1, <1>2, EnvironmentAssumption DEF AsShipped, Own
<1>4. PICK i \in DOMAIN lines : lines[i] = EventLine([cmp |-> c, event |-> q.event])
  BY <1>1, <1>2, ShippedAssumption
<1>5. OfComponent(lines[i], c) /\ lines[i].name.event = q.event
  BY <1>4 DEF EventLine, OfComponent
<1>6. PICK j \in DOMAIN set[c].ops : set[c].names[j] = lines[i].name
  BY <1>1, <1>3, <1>5, EventsOfElements
<1>7. ByDefault(c, j)
  BY DEF AsShipped
<1>8. set[c].ops[j].name = set[c].names[j]
  BY <1>7, ByDefaultIs
<1>9. QED
  BY <1>5, <1>6, <1>8 DEF Found

\* A field that some event of a component is measured for, at the end or
\* always; a field that every sample writes.
Written(c, field) == \E q \in Rules(c) : \E e \in RuleEntries(q) : e.destination = field
SampleWrites(c, field) == \E q \in Rules(c) : \E e \in q.always : e.destination = field

\* With the default list the maps have the entries of all rules.
LEMMA WrittenMapped ==
  ASSUME EventsInv, at = "ready", NEW c \in Known, AsShipped(c), NEW field
  PROVE  /\ Written(c, field) => \E e \in Map(c, TRUE) : e.destination = field
         /\ SampleWrites(c, field) => \E e \in Map(c, FALSE) : e.destination = field
<1>1. \A q \in Rules(c) : RuleEntries(q) \subseteq Map(c, TRUE)
  BY EveryEventFound DEF Map, CreateMapper, RuleEntries
<1>2. \A q \in Rules(c) : q.always \subseteq Map(c, FALSE)
  BY EveryEventFound DEF Map, CreateMapper
<1>3. QED
  BY <1>1, <1>2 DEF Written, SampleWrites

\* An entry of a rule writes its field.
LEMMA WrittenBy ==
  ASSUME NEW c, NEW q \in Rules(c)
  PROVE  /\ \A e \in q.last : Written(c, e.destination)
         /\ \A e \in q.always : SampleWrites(c, e.destination)
BY DEF Written, SampleWrites, RuleEntries

\* The rules of the packages and the cores.
LEMMA RaplKnows ==
  /\ \A p \in Package : PackageRules(p) \subseteq Rules("rapl")
  /\ \A p \in Package, k \in Core : CoreRules(p, k) \subseteq Rules("rapl")
  /\ CpuTimes \cup CpuMemory \cup CpuSwap \subseteq Rules("rapl")
BY DEF Rules, RaplRules

\* hettime prints of a package and a core what is written at the end.
LEMMA CpuWritten ==
  ASSUME NEW p \in Package, NEW k \in Core, NEW s \in CpuRows(p, k)
  PROVE  s = Runtime("rapl") \/ Written("rapl", s[1])
<1>1. \A q \in Rules("rapl") : \A e \in q.last : Written("rapl", e.destination)
  BY WrittenBy
<1>2. /\ Written("rapl", <<"msr_energy_acc", p, "PKG">>)
      /\ Written("rapl", <<"msr_power_avg", p, "PKG">>)
      /\ Written("rapl", <<"msr_energy_acc", p, "PP0">>)
      /\ Written("rapl", <<"msr_power_avg", p, "PP0">>)
      /\ Written("rapl", <<"msr_energy_acc", p, "DRAM">>)
      /\ Written("rapl", <<"msr_power_avg", p, "DRAM">>)
      /\ Written("rapl", <<"msr_temperature_pkg_max", p>>)
  <2>1. \A q \in {PackageEnergy(p), Pp0Energy(p), DramEnergy(p), PackageTemperature(p)} : \A e \in q.last :
          Written("rapl", e.destination)
    BY <1>1, RaplKnows DEF PackageRules
  <2>2. QED
    BY <2>1 DEF PackageEnergy, Pp0Energy, DramEnergy, CpuEnergy, PackageTemperature, Rule,
       Value0, Value1, Sample, Entry
<1>3. /\ Written("rapl", <<"msr_temperature_core_max", p, k>>)
      /\ Written("rapl", <<"msr_freq_core_avg", p, k>>)
      /\ Written("rapl", <<"msr_freq_core_eff_avg", p, k>>)
  <2>1. \A q \in CoreRules(p, k) : \A e \in q.last : Written("rapl", e.destination)
    BY <1>1, RaplKnows
  <2>2. QED
    BY <2>1 DEF CoreRules, CoreTemperature, AverageFrequency, EffectiveFrequency, Rule,
       Value0, Value1, Sample, Entry
<1>4. /\ Written("rapl", <<"measure_util_active_avg">>)
      /\ Written("rapl", <<"measure_util_idle_avg">>)
      /\ Written("rapl", <<"measure_util_avg">>)
  <2>1. \A q \in CpuTimes : \A e \in q.last : Written("rapl", e.destination)
    BY <1>1, RaplKnows
  <2>2. QED
    BY <2>1 DEF CpuTimes, Rule, Value0, Value1, Sample, Entry
<1>5. /\ Written("rapl", <<"measure_memory_cur", "RAM_TOTAL">>)
      /\ Written("rapl", <<"measure_memory_used_max">>)
      /\ Written("rapl", <<"measure_memory_free_max">>)
  <2>1. \A q \in CpuMemory : \A e \in q.last : Written("rapl", e.destination)
    BY <1>1, RaplKnows
  <2>2. QED
    BY <2>1 DEF CpuMemory, Rule, Value0, Value1, Sample, Entry
<1>6. /\ Written("rapl", <<"measure_memory_cur", "SWAP_TOTAL">>)
      /\ Written("rapl", <<"measure_swap_used_max">>)
      /\ Written("rapl", <<"measure_swap_free_max">>)
  <2>1. \A q \in CpuSwap : \A e \in q.last : Written("rapl", e.destination)
    BY <1>1, RaplKnows
  <2>2. QED
    BY <2>1 DEF CpuSwap, Rule, Value0, Value1, Sample, Entry
<1>7. QED
  BY <1>2, <1>3, <1>4, <1>5, <1>6 DEF CpuRows, CpuGetters, In, Runtime

\* The same of the cards and of the system.
LEMMA GpuWritten ==
  ASSUME NEW s \in TextGpu
  PROVE  s = Runtime("nvml") \/ Written("nvml", s[1])
<1>1. \A q \in Rules("nvml") : \A e \in q.last : Written("nvml", e.destination)
  BY WrittenBy
<1>2. /\ Written("nvml", <<"nvml_energy_acc">>)
      /\ Written("nvml", <<"nvml_power_avg">>)
  <2>1. \A q \in GpuPower : \A e \in q.last : Written("nvml", e.destination)
    BY <1>1 DEF Rules, NvmlRules
  <2>2. QED
    BY <2>1 DEF GpuPower, Rule, Value0, Value1, Sample, Entry
<1>3. /\ Written("nvml", <<"nvml_temperature_max">>)
      /\ Written("nvml", <<"nvml_active_processes_count_max">>)
  <2>1. \A q \in {GpuTemperature, GpuProcesses} : \A e \in q.last :
          Written("nvml", e.destination)
    BY <1>1 DEF Rules, NvmlRules
  <2>2. QED
    BY <2>1 DEF GpuTemperature, GpuProcesses, Rule, Value0, Value1, Sample, Entry
<1>4. /\ Written("nvml", <<"nvml_clock_graphics_avg">>)
      /\ Written("nvml", <<"nvml_clock_sm_avg">>)
      /\ Written("nvml", <<"nvml_clock_mem_avg">>)
  <2>1. \A q \in GpuClocks : \A e \in q.last : Written("nvml", e.destination)
    BY <1>1 DEF Rules, NvmlRules
  <2>2. QED
    BY <2>1 DEF GpuClocks, Rule, Value0, Value1, Sample, Entry
<1>5. /\ Written("nvml", <<"nvml_util_gpu_avg">>)
      /\ Written("nvml", <<"nvml_util_mem_avg">>)
  <2>1. \A q \in GpuUtilization : \A e \in q.last : Written("nvml", e.destination)
    BY <1>1 DEF Rules, NvmlRules
  <2>2. QED
    BY <2>1 DEF GpuUtilization, Rule, Value0, Value1, Sample, Entry
<1>6. /\ Written("nvml", <<"nvml_memory_total">>)
      /\ Written("nvml", <<"nvml_memory_used_max">>)
      /\ Written("nvml", <<"nvml_memory_free_max">>)
  <2>1. \A q \in GpuMemory : \A e \in q.last : Written("nvml", e.destination)
    BY <1>1 DEF Rules, NvmlRules
  <2>2. QED
    BY <2>1 DEF GpuMemory, Rule, Value0, Value1, Sample, Entry
<1>7. QED
  BY <1>2, <1>3, <1>4, <1>5, <1>6 DEF TextGpu, GpuGetters, In, Runtime

\* hettime prints of an FPGA what is written at the end.
LEMMA FpgaWritten ==
  ASSUME NEW s \in TextFpga
  PROVE  s = Runtime("maxeler") \/ Written("maxeler", s[1])
<1>1. \A q \in Rules("maxeler") : \A e \in q.last : Written("maxeler", e.destination)
  BY WrittenBy
<1>2. \A r \in {"VCC10", "VCC15", "VCC25", "IMGT10", "IMGT12", "MGT10", "MGT12"} :
        Written("maxeler", <<"maxeler_energy_acc", r>>) /\ Written("maxeler", <<"maxeler_power_avg", r>>)
  <2>1. \A q \in FpgaRails : \A e \in q.last : Written("maxeler", e.destination)
    BY <1>1 DEF Rules, MaxelerRules
  <2>2. QED
    BY <2>1 DEF FpgaRails, FpgaRail, Rail, Rule, Value0, Value1, Sample, Entry
<1>3. /\ Written("maxeler", <<"maxeler_energy_acc", "POWER">>)
      /\ Written("maxeler", <<"maxeler_power_avg", "POWER">>)
      /\ Written("maxeler", <<"maxeler_util_comp_avg">>)
  <2>1. \A q \in {FpgaPower, FpgaUtilization} : \A e \in q.last :
          Written("maxeler", e.destination)
    BY <1>1 DEF Rules, MaxelerRules
  <2>2. QED
    BY <2>1 DEF FpgaPower, FpgaUtilization, FpgaRail, Rail, Rule, Value0, Value1, Sample,
       Entry
<1>4. /\ Written("maxeler", <<"maxeler_temperature_max", "ITEMP">>)
      /\ Written("maxeler", <<"maxeler_temperature_max", "MTEMP">>)
  <2>1. \A q \in FpgaTemperatures : \A e \in q.last : Written("maxeler", e.destination)
    BY <1>1 DEF Rules, MaxelerRules
  <2>2. QED
    BY <2>1 DEF FpgaTemperatures, FpgaTemperature, Rule, Value0, Value1, Sample, Entry
<1>5. QED
  BY <1>2, <1>3, <1>4 DEF TextFpga, FpgaGetters, All, In, Runtime

\* hettime prints of a coprocessor what is written at the end.
LEMMA MicWritten ==
  ASSUME NEW s \in TextMic
  PROVE  s = Runtime("micknc") \/ Written("micknc", s[1])
<1>1. \A q \in Rules("micknc") : \A e \in q.last : Written("micknc", e.destination)
  BY WrittenBy
<1>2. \A r \in {"PCIE", "C2X3", "C2X4", "VCCP", "VDDG", "VDDQ"} :
        Written("micknc", <<"mic_energy_acc", r>>) /\ Written("micknc", <<"mic_power_avg", r>>)
  <2>1. \A q \in MicRails : \A e \in q.last : Written("micknc", e.destination)
    BY <1>1 DEF Rules, MickncRules
  <2>2. QED
    BY <2>1 DEF MicRails, MicRail, Rail, Rule, Value0, Value1, Sample, Entry
<1>3. /\ Written("micknc", <<"mic_energy_acc", "POWER">>)
      /\ Written("micknc", <<"mic_power_avg", "POWER">>)
      /\ Written("micknc", <<"mic_temperature_max", "DIE">>)
  <2>1. \A q \in {MicPower, MicDieTemperature} : \A e \in q.last :
          Written("micknc", e.destination)
    BY <1>1 DEF Rules, MickncRules
  <2>2. QED
    BY <2>1 DEF MicPower, MicRail, Rail, MicDieTemperature, MicTemperature, Rule, Value0,
       Value1, Sample, Entry
<1>4. \A r \in {"GDDR", "FAN_IN", "FAN_OUT", "VCCP", "VDDG", "VDDQ"} :
        Written("micknc", <<"mic_temperature_max", r>>)
  <2>1. \A q \in MicTemperatures : \A e \in q.last : Written("micknc", e.destination)
    BY <1>1 DEF Rules, MickncRules
  <2>2. QED
    BY <2>1 DEF MicTemperatures, MicTemperature, Rule, Value0, Value1, Sample, Entry
<1>5. /\ Written("micknc", <<"mic_freq_core_avg">>)
      /\ Written("micknc", <<"mic_freq_mem_avg">>)
  <2>1. \A q \in MicFrequencies : \A e \in q.last : Written("micknc", e.destination)
    BY <1>1 DEF Rules, MickncRules
  <2>2. QED
    BY <2>1 DEF MicFrequencies, Rule, Value0, Value1, Sample, Entry
<1>6. /\ Written("micknc", <<"mic_util_active_avg">>)
      /\ Written("micknc", <<"mic_util_idle_avg">>)
      /\ Written("micknc", <<"mic_util_avg">>)
  <2>1. \A q \in MicTimes : \A e \in q.last : Written("micknc", e.destination)
    BY <1>1 DEF Rules, MickncRules
  <2>2. QED
    BY <2>1 DEF MicTimes, Rule, Value0, Value1, Sample, Entry
<1>7. /\ Written("micknc", <<"mic_memory_total">>)
      /\ Written("micknc", <<"mic_memory_used_max">>)
      /\ Written("micknc", <<"mic_memory_free_max">>)
  <2>1. \A q \in MicMemory : \A e \in q.last : Written("micknc", e.destination)
    BY <1>1 DEF Rules, MickncRules
  <2>2. QED
    BY <2>1 DEF MicMemory, Rule, Value0, Value1, Sample, Entry
<1>8. PICK g : g = MicGetters
  OBVIOUS
<1>9. \A t \in All(g.energy_total) \cup All(g.power_avg) : Written("micknc", t)
  <2> DEFINE rails == {"PCIE", "C2X3", "C2X4", "VCCP", "VDDG", "VDDQ", "POWER"}
  <2>1. \A r \in rails :
          Written("micknc", <<"mic_energy_acc", r>>) /\ Written("micknc", <<"mic_power_avg", r>>)
    BY <1>2, <1>3
  <2>2. /\ g.energy_total = [r \in rails |-> <<"mic_energy_acc", r>>]
        /\ g.power_avg = [r \in rails |-> <<"mic_power_avg", r>>]
    BY <1>8 DEF MicGetters
  <2> HIDE DEF rails
  <2>3. \A t \in All(g.energy_total) : \E r \in rails : t = <<"mic_energy_acc", r>>
    BY <2>2 DEF All
  <2>4. \A t \in All(g.power_avg) : \E r \in rails : t = <<"mic_power_avg", r>>
    BY <2>2 DEF All
  <2>5. QED
    BY <2>1, <2>3, <2>4
<1>10. \A t \in All(g.temp_max) : Written("micknc", t)
  BY <1>3, <1>4, <1>8 DEF MicGetters, All
<1>11. \A t \in {g.active_avg_all, g.idle_avg_all, g.freq_avg_core, g.freq_avg_mem, g.util_avg_all,
                  g.memory_total, g.memory_used_max, g.memory_free_max} : Written("micknc", t)
  BY <1>5, <1>6, <1>7, <1>8 DEF MicGetters
<1>12. <<g.time_total, "s">> = Runtime("micknc")
  BY <1>8 DEF MicGetters, Runtime
<1>13. QED
  BY <1>8, <1>9, <1>10, <1>11, <1>12 DEF TextMic, In

\* hettime prints of the system what is written at the end.
LEMMA SystemWritten ==
  ASSUME NEW s \in TextSystem
  PROVE  s = Runtime("ipmi") \/ Written("ipmi", s[1])
<1>1. \A q \in Rules("ipmi") : \A e \in q.last : Written("ipmi", e.destination)
  BY WrittenBy
<1>2. /\ Written("ipmi", <<"ipmi_energy_sysboard_acc">>)
      /\ Written("ipmi", <<"ipmi_power_sysboard_avg">>)
      /\ Written("ipmi", <<"ipmi_energy_server_acc">>)
      /\ Written("ipmi", <<"ipmi_power_server_avg">>)
      /\ Written("ipmi", <<"ipmi_temperature_sysboard_max">>)
  <2>1. \A q \in IpmiRules : \A e \in q.last : Written("ipmi", e.destination)
    BY <1>1 DEF Rules
  <2>2. QED
    BY <2>1 DEF IpmiRules, BoardPower, SystemPower, SystemTemperature, Rule, Value0,
       Value1, Sample, Entry
<1>3. QED
  BY <1>2 DEF TextSystem, SystemGetters, In, Runtime

-----------------------------------------------------------------------------
(* What msmonitor shows is written.                                        *)

\* Whatever hettime prints is written at the end.
LEMMA PrintedWritten ==
  ASSUME NEW c \in Known, NEW s \in Printed(c)
  PROVE  s = Runtime(c) \/ Written(c, s[1])
<1>1. c \in {"rapl", "nvml", "maxeler", "ipmi", "micknc"}
  BY KnownSequence DEF KnownComponents
<1>2. CASE c = "rapl"
  <2>1. {0, 1} \subseteq Package /\ 0 .. 3 \subseteq Core
    BY SizeAssumption, BoardAssumption DEF Package, Core
  <2>2. PICK p \in Package, k \in Core : s \in CpuRows(p, k)
    BY <1>2, <2>1 DEF Printed, TextCpu, CsvCpu, JsonCpu
  <2>3. QED
    BY <1>2, <2>2, CpuWritten
<1>3. CASE c = "nvml"
  BY <1>3, GpuWritten DEF Printed, CsvGpu, JsonGpu
<1>4. CASE c = "maxeler"
  BY <1>4, FpgaWritten DEF Printed, CsvFpga, JsonFpga
<1>5. CASE c = "micknc"
  BY <1>5, MicWritten DEF Printed, CsvMic, JsonMic
<1>6. CASE c = "ipmi"
  BY <1>6, SystemWritten DEF Printed, CsvSystem, JsonSystem
<1>7. QED
  BY <1>1, <1>2, <1>3, <1>4, <1>5, <1>6

\* The names of the components.
LEMMA KnownNames == Known = {"rapl", "nvml", "maxeler", "ipmi", "micknc"}
<1>1. PICK k : k = KnownComponents
  OBVIOUS
<1>2. DOMAIN k = 1 .. 5 /\ Known = {k[i] : i \in 1 .. 5}
  BY <1>1, KnownSequence DEF Known
<1>3. k[1] = "rapl" /\ k[2] = "nvml" /\ k[3] = "maxeler" /\ k[4] = "ipmi" /\ k[5] = "micknc"
  BY <1>1 DEF KnownComponents
<1>4. QED
  BY <1>2, <1>3

\* Every sample has what msmonitor shows of a processor.
LEMMA CpuSampled ==
  /\ \A p \in Package : \A counter \in {"PKG", "DRAM"} :
       SampleWrites("rapl", <<"msr_power_cur", p, counter>>)
  /\ \A p \in Package : SampleWrites("rapl", <<"msr_temperature_pkg_cur", p>>)
  /\ \A p \in Package, k \in Core : SampleWrites("rapl", <<"msr_freq_core_eff_cur", p, k>>)
  /\ SampleWrites("rapl", <<"measure_util_avg_cur">>)
  /\ SampleWrites("rapl", <<"measure_memory_cur", "RAM_USED">>)
  /\ SampleWrites("rapl", <<"measure_memory_cur", "SWAP_USED">>)
<1>1. \A q \in Rules("rapl") : \A e \in q.always : SampleWrites("rapl", e.destination)
  BY WrittenBy
<1>2. ASSUME NEW p \in Package
      PROVE /\ SampleWrites("rapl", <<"msr_power_cur", p, "PKG">>)
            /\ SampleWrites("rapl", <<"msr_power_cur", p, "DRAM">>)
            /\ SampleWrites("rapl", <<"msr_temperature_pkg_cur", p>>)
  <2>1. \A q \in {PackageEnergy(p), DramEnergy(p), PackageTemperature(p)} :
          \A e \in q.always : SampleWrites("rapl", e.destination)
    BY <1>1, RaplKnows DEF PackageRules
  <2>2. QED
    BY <2>1 DEF PackageEnergy, DramEnergy, CpuEnergy, CurrentPower, PackageTemperature,
       Rule,
                LastValue1, Sample, Entry
<1>3. ASSUME NEW p \in Package, NEW k \in Core
      PROVE SampleWrites("rapl", <<"msr_freq_core_eff_cur", p, k>>)
  <2>1. \A e \in EffectiveFrequency(p, k).always : SampleWrites("rapl", e.destination)
    BY <1>1, RaplKnows DEF CoreRules
  <2>2. QED
    BY <2>1 DEF EffectiveFrequency, Rule, Sample, Entry
<1>4. SampleWrites("rapl", <<"measure_util_avg_cur">>)
  <2>1. \A q \in CpuTimes : \A e \in q.always : SampleWrites("rapl", e.destination)
    BY <1>1, RaplKnows
  <2>2. QED
    BY <2>1 DEF CpuTimes, Rule, Sample, Entry
<1>5. SampleWrites("rapl", <<"measure_memory_cur", "RAM_USED">>)
  <2>1. \A q \in CpuMemory : \A e \in q.always : SampleWrites("rapl", e.destination)
    BY <1>1, RaplKnows
  <2>2. QED
    BY <2>1 DEF CpuMemory, Rule, Sample, Entry
<1>6. SampleWrites("rapl", <<"measure_memory_cur", "SWAP_USED">>)
  <2>1. \A q \in CpuSwap : \A e \in q.always : SampleWrites("rapl", e.destination)
    BY <1>1, RaplKnows
  <2>2. QED
    BY <2>1 DEF CpuSwap, Rule, Sample, Entry
<1>7. QED
  BY <1>2, <1>3, <1>4, <1>5, <1>6

\* Every sample has what it shows of a card.
LEMMA GpuSampled ==
  \A f \in {<<"nvml_power_cur">>, <<"nvml_temperature_cur">>, <<"nvml_clock_graphics_cur">>,
            <<"nvml_clock_mem_cur">>, <<"nvml_util_gpu_cur">>, <<"nvml_util_mem_cur">>,
            <<"nvml_memory_used_cur">>, <<"nvml_active_processes_count_cur">>} :
              SampleWrites("nvml", f)
<1>1. \A q \in Rules("nvml") : \A e \in q.always : SampleWrites("nvml", e.destination)
  BY WrittenBy
<1>2. \A q \in GpuPower : \A e \in q.always : SampleWrites("nvml", e.destination)
  BY <1>1 DEF Rules, NvmlRules
<1>3. \A q \in {GpuTemperature, GpuProcesses} : \A e \in q.always :
        SampleWrites("nvml", e.destination)
  BY <1>1 DEF Rules, NvmlRules
<1>4. \A q \in GpuClocks : \A e \in q.always : SampleWrites("nvml", e.destination)
  BY <1>1 DEF Rules, NvmlRules
<1>5. \A q \in GpuUtilization : \A e \in q.always : SampleWrites("nvml", e.destination)
  BY <1>1 DEF Rules, NvmlRules
<1>6. \A q \in GpuMemory : \A e \in q.always : SampleWrites("nvml", e.destination)
  BY <1>1 DEF Rules, NvmlRules
<1>7. SampleWrites("nvml", <<"nvml_power_cur">>)
  BY <1>2 DEF GpuPower, Rule, Sample, Entry
<1>8. /\ SampleWrites("nvml", <<"nvml_temperature_cur">>)
      /\ SampleWrites("nvml", <<"nvml_active_processes_count_cur">>)
  BY <1>3 DEF GpuTemperature, GpuProcesses, Rule, Sample, Entry
<1>9. /\ SampleWrites("nvml", <<"nvml_clock_graphics_cur">>)
      /\ SampleWrites("nvml", <<"nvml_clock_mem_cur">>)
  BY <1>4 DEF GpuClocks, Rule, Sample, Entry
<1>10. /\ SampleWrites("nvml", <<"nvml_util_gpu_cur">>)
       /\ SampleWrites("nvml", <<"nvml_util_mem_cur">>)
  BY <1>5 DEF GpuUtilization, Rule, Sample, Entry
<1>11. SampleWrites("nvml", <<"nvml_memory_used_cur">>)
  BY <1>6 DEF GpuMemory, Rule, Sample, Entry
<1>12. QED
  BY <1>7, <1>8, <1>9, <1>10, <1>11

\* Every sample has what msmonitor shows of an FPGA.
LEMMA FpgaSampled ==
  \A f \in {<<"maxeler_power_cur", "POWER">>, <<"maxeler_temperature_cur", "MTEMP">>,
            <<"maxeler_temperature_cur", "ITEMP">>, <<"maxeler_util_comp_cur">>} :
              SampleWrites("maxeler", f)
<1>1. \A q \in Rules("maxeler") : \A e \in q.always : SampleWrites("maxeler", e.destination)
  BY WrittenBy
<1>2. \A q \in {FpgaPower, FpgaUtilization} : \A e \in q.always :
        SampleWrites("maxeler", e.destination)
  BY <1>1 DEF Rules, MaxelerRules
<1>3. \A q \in FpgaTemperatures : \A e \in q.always : SampleWrites("maxeler", e.destination)
  BY <1>1 DEF Rules, MaxelerRules
<1>4. /\ SampleWrites("maxeler", <<"maxeler_power_cur", "POWER">>)
      /\ SampleWrites("maxeler", <<"maxeler_util_comp_cur">>)
  BY <1>2 DEF FpgaPower, FpgaRail, Rail, FpgaUtilization, Rule, Sample, Entry
<1>5. /\ SampleWrites("maxeler", <<"maxeler_temperature_cur", "MTEMP">>)
      /\ SampleWrites("maxeler", <<"maxeler_temperature_cur", "ITEMP">>)
  BY <1>3 DEF FpgaTemperatures, FpgaTemperature, Rule, Sample, Entry
<1>6. QED
  BY <1>4, <1>5

\* Every sample has what msmonitor shows of a coprocessor.
LEMMA MicSampled ==
  \A f \in {<<"mic_power_cur", "POWER">>, <<"mic_temperature_cur", "DIE">>, <<"mic_freq_core_cur">>,
            <<"mic_freq_mem_cur">>, <<"mic_util_avg_cur">>, <<"mic_memory_used_cur">>} :
    SampleWrites("micknc", f)
<1>1. \A q \in Rules("micknc") : \A e \in q.always : SampleWrites("micknc", e.destination)
  BY WrittenBy
<1>2. \A q \in {MicPower, MicDieTemperature} : \A e \in q.always :
        SampleWrites("micknc", e.destination)
  BY <1>1 DEF Rules, MickncRules
<1>3. \A q \in MicFrequencies : \A e \in q.always : SampleWrites("micknc", e.destination)
  BY <1>1 DEF Rules, MickncRules
<1>4. \A q \in MicTimes : \A e \in q.always : SampleWrites("micknc", e.destination)
  BY <1>1 DEF Rules, MickncRules
<1>5. \A q \in MicMemory : \A e \in q.always : SampleWrites("micknc", e.destination)
  BY <1>1 DEF Rules, MickncRules
<1>6. /\ SampleWrites("micknc", <<"mic_power_cur", "POWER">>)
      /\ SampleWrites("micknc", <<"mic_temperature_cur", "DIE">>)
  BY <1>2 DEF MicPower, MicRail, Rail, MicDieTemperature, MicTemperature, Rule, Sample,
     Entry
<1>7. /\ SampleWrites("micknc", <<"mic_freq_core_cur">>)
      /\ SampleWrites("micknc", <<"mic_freq_mem_cur">>)
  BY <1>3 DEF MicFrequencies, Rule, Sample, Entry
<1>8. SampleWrites("micknc", <<"mic_util_avg_cur">>)
  BY <1>4 DEF MicTimes, Rule, Sample, Entry
<1>9. SampleWrites("micknc", <<"mic_memory_used_cur">>)
  BY <1>5 DEF MicMemory, Rule, Sample, Entry
<1>10. QED
  BY <1>6, <1>7, <1>8, <1>9

\* Every sample has what msmonitor shows of the system.
LEMMA SystemSampled ==
  \A f \in {<<"ipmi_power_server_cur">>, <<"ipmi_temperature_sysboard_cur">>} :
    SampleWrites("ipmi", f)
<1>1. \A q \in IpmiRules : \A e \in q.always : SampleWrites("ipmi", e.destination)
  BY WrittenBy DEF Rules
<1>2. QED
  BY <1>1 DEF IpmiRules, SystemPower, SystemTemperature, Rule, Sample, Entry

\* A field that some component writes at every sample.
Shows(field) == \E c \in Known : SampleWrites(c, field)

\* Every sample has what the form of the power shows.
LEMMA PowerShown ==
  ASSUME NEW b \in FormPower, NEW s \in Pushed[b]
  PROVE  Shows(s[1])
<1>1. \A c \in {"rapl", "nvml", "maxeler", "micknc", "ipmi"} : \A f :
        SampleWrites(c, f) => Shows(f)
  BY KnownNames DEF Shows
<1>2. /\ Shows(<<"nvml_power_cur">>)
      /\ Shows(<<"maxeler_power_cur", "POWER">>)
      /\ Shows(<<"mic_power_cur", "POWER">>)
      /\ Shows(<<"ipmi_power_server_cur">>)
  BY <1>1, GpuSampled, FpgaSampled, MicSampled, SystemSampled
<1>3. \A p \in {0, 1} :
        Shows(<<"msr_power_cur", p, "PKG">>) /\ Shows(<<"msr_power_cur", p, "DRAM">>)
  <2>1. {0, 1} \subseteq Package
    BY SizeAssumption, BoardAssumption DEF Package
  <2>2. QED
    BY <1>1, <2>1, CpuSampled
<1>4. b \in {"PowerCpu0", "PowerCpu1"} => Shows(s[1])
  <2>1. ASSUME b = "PowerCpu0"
        PROVE \E f \in {<<"msr_power_cur", 0, "PKG">>, <<"msr_power_cur", 0, "DRAM">>} :
                s = <<f, "mW">>
    BY <2>1 DEF Pushed, In
  <2>2. ASSUME b = "PowerCpu1"
        PROVE \E f \in {<<"msr_power_cur", 1, "PKG">>, <<"msr_power_cur", 1, "DRAM">>} :
                s = <<f, "mW">>
    BY <2>2 DEF Pushed, In
  <2>3. QED
    BY <1>3, <2>1, <2>2
<1>5. b \in {"PowerGpu", "PowerFpga", "PowerMic", "PowerSystem"} => Shows(s[1])
  BY <1>2 DEF Pushed, In
<1>6. QED
  BY <1>4, <1>5 DEF FormPower

\* Every sample has what the form of the temperatures shows.
LEMMA TemperatureShown ==
  ASSUME NEW b \in FormTemperature, NEW s \in Pushed[b]
  PROVE  Shows(s[1])
<1>1. \A c \in {"rapl", "nvml", "maxeler", "micknc", "ipmi"} : \A f :
        SampleWrites(c, f) => Shows(f)
  BY KnownNames DEF Shows
<1>2. /\ Shows(<<"nvml_temperature_cur">>)
      /\ Shows(<<"maxeler_temperature_cur", "MTEMP">>)
      /\ Shows(<<"maxeler_temperature_cur", "ITEMP">>)
      /\ Shows(<<"mic_temperature_cur", "DIE">>)
      /\ Shows(<<"ipmi_temperature_sysboard_cur">>)
  BY <1>1, GpuSampled, FpgaSampled, MicSampled, SystemSampled
<1>3. Shows(<<"msr_temperature_pkg_cur", 0>>) /\ Shows(<<"msr_temperature_pkg_cur", 1>>)
  <2>1. {0, 1} \subseteq Package
    BY SizeAssumption, BoardAssumption DEF Package
  <2>2. QED
    BY <1>1, <2>1, CpuSampled
<1>4. QED
  BY <1>2, <1>3 DEF FormTemperature, Pushed, In

\* Every sample has what the form of the clocks shows.
LEMMA ClockShown ==
  ASSUME NEW b \in FormClock, NEW s \in Pushed[b]
  PROVE  Shows(s[1])
<1>1. \A c \in {"rapl", "nvml", "maxeler", "micknc", "ipmi"} : \A f :
        SampleWrites(c, f) => Shows(f)
  BY KnownNames DEF Shows
<1>2. /\ Shows(<<"nvml_clock_graphics_cur">>)
      /\ Shows(<<"nvml_clock_mem_cur">>)
      /\ Shows(<<"mic_freq_core_cur">>)
      /\ Shows(<<"mic_freq_mem_cur">>)
  BY <1>1, GpuSampled, MicSampled
<1>3. \A p \in {0, 1} : \A k \in Core : Shows(<<"msr_freq_core_eff_cur", p, k>>)
  <2>1. {0, 1} \subseteq Package
    BY SizeAssumption, BoardAssumption DEF Package
  <2>2. QED
    BY <1>1, <2>1, CpuSampled
<1>4. ASSUME b = "ClockCpu0"
      PROVE \E k \in Core : s = <<<<"msr_freq_core_eff_cur", 0, k>>, "MHz">>
  BY <1>4 DEF Pushed, In
<1>5. ASSUME b = "ClockCpu1"
      PROVE \E k \in Core : s = <<<<"msr_freq_core_eff_cur", 1, k>>, "MHz">>
  BY <1>5 DEF Pushed, In
<1>6. b \in {"ClockCpu0", "ClockCpu1"} => Shows(s[1])
  BY <1>3, <1>4, <1>5
<1>7. b \in {"ClockGpuCore", "ClockGpuMem", "ClockMicCore", "ClockMicMem"} => Shows(s[1])
  BY <1>2 DEF Pushed, In
<1>8. QED
  BY <1>6, <1>7 DEF FormClock

\* Every sample has what the form of the utilization shows.
LEMMA UtilizationShown ==
  ASSUME NEW b \in FormUtilization, NEW s \in Pushed[b]
  PROVE  Shows(s[1])
<1>1. \A c \in {"rapl", "nvml", "maxeler", "micknc", "ipmi"} : \A f :
        SampleWrites(c, f) => Shows(f)
  BY KnownNames DEF Shows
<1>2. /\ Shows(<<"measure_util_avg_cur">>)
      /\ Shows(<<"nvml_util_gpu_cur">>)
      /\ Shows(<<"nvml_util_mem_cur">>)
      /\ Shows(<<"maxeler_util_comp_cur">>)
      /\ Shows(<<"mic_util_avg_cur">>)
  BY <1>1, CpuSampled, GpuSampled, FpgaSampled, MicSampled
<1>3. QED
  BY <1>2 DEF FormUtilization, Pushed, In

\* Every sample has what the form of the memory shows.
LEMMA MemoryShown ==
  ASSUME NEW b \in FormMemory, NEW s \in Pushed[b]
  PROVE  Shows(s[1])
<1>1. \A c \in {"rapl", "nvml", "maxeler", "micknc", "ipmi"} : \A f :
        SampleWrites(c, f) => Shows(f)
  BY KnownNames DEF Shows
<1>2. /\ Shows(<<"measure_memory_cur", "RAM_USED">>)
      /\ Shows(<<"measure_memory_cur", "SWAP_USED">>)
      /\ Shows(<<"nvml_memory_used_cur">>)
      /\ Shows(<<"mic_memory_used_cur">>)
  BY <1>1, CpuSampled, GpuSampled, MicSampled
<1>3. QED
  BY <1>2 DEF FormMemory, Pushed, In

\* Every sample has whatever msmonitor shows.
LEMMA PlottedSampled ==
  ASSUME NEW s \in Plotted
  PROVE  Shows(s[1])
<1>1. ASSUME s \in OverviewProcesses PROVE Shows(s[1])
  <2>1. Shows(<<"nvml_active_processes_count_cur">>)
    BY GpuSampled, KnownNames DEF Shows
  <2>2. QED
    BY <1>1, <2>1 DEF OverviewProcesses, In
<1>2. ASSUME s \notin OverviewProcesses PROVE \E b \in Shown : s \in Pushed[b]
  BY <1>2 DEF Plotted
<1>3. ASSUME NEW b \in Shown, s \in Pushed[b] PROVE Shows(s[1])
  <2>1. OverviewTemperature \subseteq FormTemperature
    BY DEF OverviewTemperature, FormTemperature
  <2>2. \/ b \in FormPower \/ b \in FormTemperature \/ b \in FormClock
        \/ b \in FormUtilization \/ b \in FormMemory
    BY <2>1 DEF Shown, CsvColumns
  <2>3. QED
    BY <1>3, <2>2, PowerShown, TemperatureShown, ClockShown, UtilizationShown, MemoryShown
<1>4. QED
  BY <1>1, <1>2, <1>3

\* The invariant has that everything shown is written.
LEMMA EverythingWritten == EventsInv => EverythingReported
<1>1. ASSUME EventsInv, at = "ready", NEW c \in Known, AsShipped(c), NEW s \in Printed(c)
      PROVE s = Runtime(c) \/ \E e \in Map(c, TRUE) : e.destination = s[1]
  BY <1>1, PrintedWritten, WrittenMapped
<1>2. ASSUME EventsInv, at = "ready", \A c \in Known : AsShipped(c), NEW s \in Plotted
      PROVE \E c \in Known : \E e \in Map(c, FALSE) : e.destination = s[1]
  <2>1. PICK c \in Known : SampleWrites(c, s[1])
    BY PlottedSampled DEF Shows
  <2>2. \E e \in Map(c, FALSE) : e.destination = s[1]
    BY <1>2, <2>1, WrittenMapped
  <2>3. QED
    BY <2>2
<1>3. QED
  BY <1>1, <1>2 DEF EverythingReported

\* For any number of packages and cores, environment and offer of PAPI: with
\* the default list and operations every field that hettime prints is written
\* at the end of a measurement, and if all components are measured every field
\* that msmonitor shows is written at every sample (ostream_printer.c:80,
\* CDataLibrary.cpp:193).
THEOREM ReportsFilled == ESpec => []EverythingReported
BY EverythingWritten, ReadAsWritten, PTL
=============================================================================
