----------------------------- MODULE ApapiTimer -----------------------------
(***************************************************************************)
(* The sampling timers of libapapi, one for each PAPI component, and the   *)
(* client that uses them as libms_common_apapi and atime do.  The mutex of *)
(* a timer is its alarm clock: the thread holds it and waits for it with a *)
(* timeout, so every timeout is a sample and an unlock by the client means *)
(* the end.                                                                *)
(***************************************************************************)
EXTENDS Integers

CONSTANTS
  Component,
  PromptStop,           \* a timer may be stopped before its thread has begun
  DestroyUnstarted      \* a timer may be destroyed that was never started

ASSUME UseAssumption == PromptStop \in BOOLEAN /\ DestroyUnstarted \in BOOLEAN

VARIABLES
  timer,       \* struct apapi_timer: state, mutex (TRUE: locked), interrupt
  thread,      \* where its thread is, and whether it has got the mutex
  eventset,    \* is it counting; history: samples, a final one among them
  call,        \* the call in which the client waits for the timer
  asked        \* history: it was told to stop

vars == <<timer, thread, eventset, call, asked>>

Many == 3      \* bound of the number of samples

NoThread == [at |-> "none", last |-> FALSE]
Cleared == [counting |-> FALSE, count |-> 0, final |-> FALSE]

\* The statistics of a set start anew; a sample comes.
Emptied(s) == [counting |-> s.counting, count |-> 0, final |-> FALSE]
Sampled(s, last) ==
  [counting |-> s.counting,
   count |-> IF s.count < Many THEN s.count + 1 ELSE Many,
   final |-> s.final \/ last]

ClientIdle == \A c \in Component : call[c] = "no"

State(c) == timer[c].state
At(c) == thread[c].at

Init ==
  /\ timer = [c \in Component |->
                [state |-> "NULL", mutex |-> FALSE, interrupt |-> FALSE]]
  /\ thread = [c \in Component |-> NoThread]
  /\ eventset = [c \in Component |-> Cleared]
  /\ call = [c \in Component |-> "no"]
  /\ asked = [c \in Component |-> FALSE]

-----------------------------------------------------------------------------
(* Faulty variants: the thread does not take the mutex before the first    *)
(* sample; stopping interrupts as well; a stop does not unlock.            *)

BeginNoLock(c) ==
  /\ At(c) = "begin"
  /\ ~timer[c].mutex
  /\ thread' = [thread EXCEPT ![c].at = "woken"]
  /\ UNCHANGED <<timer, eventset, call, asked>>

StopInterrupts(c) ==
  /\ ClientIdle
  /\ State(c) = "STARTED"
  /\ PromptStop \/ At(c) # "begin"
  /\ timer' = [timer EXCEPT ![c].mutex = FALSE, ![c].interrupt = TRUE]
  /\ asked' = [asked EXCEPT ![c] = TRUE]
  /\ call' = [call EXCEPT ![c] = "join"]
  /\ UNCHANGED <<thread, eventset>>

CallStopNoUnlock(c) ==
  /\ ClientIdle
  /\ State(c) = "STARTED"
  /\ PromptStop \/ At(c) # "begin"
  /\ asked' = [asked EXCEPT ![c] = TRUE]
  /\ UNCHANGED <<timer, thread, eventset, call>>

-----------------------------------------------------------------------------
(* The client, which keeps the rules of apapi.h: it prepares a timer before *)
(* it starts it and tells it to stop before it joins it.  A timer that is  *)
(* allocated is DONE, so that it can be reset.                             *)

BeginReset(c) ==
  /\ eventset' = [eventset EXCEPT ![c] = Emptied(@)]
  /\ asked' = [asked EXCEPT ![c] = FALSE]
  /\ call' = [call EXCEPT ![c] = "lock"]
  /\ UNCHANGED thread

CreateTimer(c) ==
  /\ ClientIdle
  /\ State(c) = "NULL"
  /\ timer' = [timer EXCEPT ![c] =
                 [state |-> "DONE", mutex |-> FALSE, interrupt |-> FALSE]]
  /\ BeginReset(c)

ResetTimer(c) ==
  /\ ClientIdle
  /\ State(c) = "DONE"
  /\ timer' = [timer EXCEPT ![c].interrupt = FALSE]
  /\ BeginReset(c)

ResetLock(c) ==
  /\ call[c] = "lock"
  /\ ~timer[c].mutex
  /\ timer' = [timer EXCEPT ![c].mutex = TRUE, ![c].state = "READY"]
  /\ thread' = [thread EXCEPT ![c] = [at |-> "begin", last |-> FALSE]]
  /\ call' = [call EXCEPT ![c] = "no"]
  /\ UNCHANGED <<eventset, asked>>

ChangeTimer(c) ==
  /\ ClientIdle
  /\ State(c) = "READY"
  /\ eventset' = [eventset EXCEPT ![c] = Emptied(@)]
  /\ UNCHANGED <<timer, thread, call, asked>>

\* PAPI refuses to start a set that is counting.
InitStartTimer(c) ==
  /\ ClientIdle
  /\ State(c) = "READY"
  /\ eventset' = [eventset EXCEPT ![c].counting = TRUE]
  /\ UNCHANGED <<timer, thread, call, asked>>

StartTimer(c) ==
  /\ ClientIdle
  /\ State(c) = "READY"
  /\ eventset[c].counting
  /\ timer' = [timer EXCEPT ![c].mutex = FALSE, ![c].state = "STARTED"]
  /\ UNCHANGED <<thread, eventset, call, asked>>

CallStopTimer(c) ==
  /\ ClientIdle
  /\ State(c) = "STARTED"
  /\ PromptStop \/ At(c) # "begin"
  /\ timer' = [timer EXCEPT ![c].mutex = FALSE]
  /\ asked' = [asked EXCEPT ![c] = TRUE]
  /\ UNCHANGED <<thread, eventset, call>>

JoinTimer(c) ==
  /\ ClientIdle
  /\ State(c) = "STARTED"
  /\ asked[c]
  /\ call' = [call EXCEPT ![c] = "join"]
  /\ UNCHANGED <<timer, thread, eventset, asked>>

StopTimer(c) ==
  /\ ClientIdle
  /\ State(c) = "STARTED"
  /\ PromptStop \/ At(c) # "begin"
  /\ timer' = [timer EXCEPT ![c].mutex = FALSE]
  /\ asked' = [asked EXCEPT ![c] = TRUE]
  /\ call' = [call EXCEPT ![c] = "join"]
  /\ UNCHANGED <<thread, eventset>>

Joined(c) ==
  /\ call[c] = "join"
  /\ At(c) = "ended"
  /\ timer' = [timer EXCEPT ![c].state = "DONE"]
  /\ thread' = [thread EXCEPT ![c] = NoThread]
  /\ eventset' = [eventset EXCEPT ![c].counting = FALSE]
  /\ call' = [call EXCEPT ![c] = "no"]
  /\ UNCHANGED asked

\* Only a STARTED timer is interrupted.
DestroyTimer(c) ==
  /\ ClientIdle
  /\ \/ State(c) = "DONE"
     \/ State(c) = "READY" /\ DestroyUnstarted
  /\ timer' = [timer EXCEPT ![c].state = "NULL"]
  /\ UNCHANGED <<thread, eventset, call, asked>>

InterruptTimer(c) ==
  /\ ClientIdle
  /\ State(c) = "STARTED"
  /\ timer' = [timer EXCEPT ![c].interrupt = TRUE]
  /\ call' = [call EXCEPT ![c] = "interrupt"]
  /\ UNCHANGED <<thread, eventset, asked>>

Interrupted(c) ==
  /\ call[c] = "interrupt"
  /\ At(c) = "ended"
  /\ timer' = [timer EXCEPT ![c].state = "NULL"]
  /\ thread' = [thread EXCEPT ![c] = NoThread]
  /\ call' = [call EXCEPT ![c] = "no"]
  /\ UNCHANGED <<eventset, asked>>

-----------------------------------------------------------------------------
(* The thread of a timer.                                                  *)

ThreadBegin(c) ==
  /\ At(c) = "begin"
  /\ ~timer[c].mutex
  /\ timer' = [timer EXCEPT ![c].mutex = TRUE]
  /\ thread' = [thread EXCEPT ![c].at = "woken"]
  /\ UNCHANGED <<eventset, call, asked>>

ThreadTest(c) ==
  /\ At(c) = "woken"
  /\ thread' = [thread EXCEPT ![c].at = IF timer[c].interrupt THEN "ended" ELSE "measure"]
  /\ UNCHANGED <<timer, eventset, call, asked>>

ThreadMeasure(c) ==
  /\ At(c) = "measure"
  /\ eventset' = [eventset EXCEPT ![c] = Sampled(@, thread[c].last)]
  /\ thread' = [thread EXCEPT ![c].at = IF thread[c].last THEN "ended" ELSE "sleep"]
  /\ UNCHANGED <<timer, call, asked>>

ThreadTimeout(c) ==
  /\ At(c) = "sleep"
  /\ timer[c].mutex
  /\ thread' = [thread EXCEPT ![c].at = "woken"]
  /\ UNCHANGED <<timer, eventset, call, asked>>

ThreadStop(c) ==
  /\ At(c) = "sleep"
  /\ ~timer[c].mutex
  /\ timer' = [timer EXCEPT ![c].mutex = TRUE]
  /\ thread' = [thread EXCEPT ![c] = [at |-> "woken", last |-> TRUE]]
  /\ UNCHANGED <<eventset, call, asked>>

-----------------------------------------------------------------------------
Begins(c) ==
  \/ CreateTimer(c) \/ ResetTimer(c) \/ ChangeTimer(c) \/ InitStartTimer(c)
  \/ StartTimer(c) \/ CallStopTimer(c) \/ JoinTimer(c) \/ StopTimer(c)
  \/ DestroyTimer(c) \/ InterruptTimer(c)

Returns(c) == ResetLock(c) \/ Joined(c) \/ Interrupted(c)

Thread(c) ==
  \/ ThreadBegin(c) \/ ThreadTest(c) \/ ThreadMeasure(c)
  \/ ThreadTimeout(c) \/ ThreadStop(c)

Next == \E c \in Component : Begins(c) \/ Returns(c) \/ Thread(c)

Spec == Init /\ [][Next]_vars

\* A thread that can run does, and a call that need not wait returns.
Fairness ==
  \A c \in Component : WF_vars(Returns(c)) /\ WF_vars(Thread(c))

FairSpec == Spec /\ Fairness

-----------------------------------------------------------------------------
Timers ==
  [state : {"NULL", "READY", "STARTED", "DONE"}, mutex : BOOLEAN, interrupt : BOOLEAN]
Threads ==
  [at : {"none", "begin", "woken", "measure", "sleep", "ended"}, last : BOOLEAN]
EventSets == [counting : BOOLEAN, count : 0 .. Many, final : BOOLEAN]

\* The variables have their types; a timer is interrupted only while it is
\* being destroyed.
TypeOK ==
  /\ timer \in [Component -> Timers]
  /\ thread \in [Component -> Threads]
  /\ eventset \in [Component -> EventSets]
  /\ call \in [Component -> {"no", "lock", "join", "interrupt"}]
  /\ asked \in [Component -> BOOLEAN]
  /\ \A c \in Component :
       timer[c].interrupt => State(c) = "NULL" \/ call[c] = "interrupt"

\* Until it is started the thread of a timer waits at the locked mutex and
\* has sampled nothing.
ReadyWaits ==
  \A c \in Component :
    State(c) = "READY" =>
      At(c) = "begin" /\ timer[c].mutex /\ eventset[c].count = 0

\* A final sample is taken only after the client has asked the timer to
\* stop: neither a timeout nor the unlock of the start looks like a stop.
FinalOnRequest == \A c \in Component : eventset[c].final => asked[c]

\* A timer that was stopped has taken its final sample, at least one after
\* the first, which the statistics skip, and its events no longer count.
DoneIsComplete ==
  \A c \in Component :
    State(c) = "DONE" /\ call[c] = "no" =>
      eventset[c].final /\ eventset[c].count >= 2 /\ ~eventset[c].counting

\* The events are read only while they count.
ReadsCounting == \A c \in Component : At(c) = "measure" => eventset[c].counting

\* A timer that was destroyed, or joined, leaves no thread behind.
DestroyStops ==
  \A c \in Component : State(c) \in {"NULL", "DONE"} => At(c) = "none"

\* Joining or destroying a running timer returns: "Waits until the timer is
\* done and properly stops it" (apapi.h).
CallsReturn ==
  \A c \in Component : (call[c] \in {"join", "interrupt"}) ~> (call[c] = "no")

\* Creating or resetting a timer returns: "If the timer is in DONE state, the
\* timer is resetted to state READY" (apapi.h).
ResetReturns == \A c \in Component : (call[c] = "lock") ~> (call[c] = "no")
=============================================================================
