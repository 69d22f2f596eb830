------------------------------ MODULE Monitor ------------------------------
(***************************************************************************)
(* The threads of msmonitor: the thread of the user interface, the thread  *)
(* that collects a row of values per tick, its timer, and a timer for each *)
(* form, whose refresh is a queued signal to the user interface.  A buffer *)
(* is the number of values pushed into it since it was allocated: that the *)
(* raw pointer a plot keeps shows the last of them is SlidingWindow's.     *)
(* mpX stands for itself, the buffer of y values for the one a plot uses.  *)
(***************************************************************************)
EXTENDS Integers, FiniteSets

CONSTANTS
  Form,            \* the forms with a timer
  Plot,            \* those that keep raw pointers in curves
  PromptStop,      \* the user is faster than a thread that has just started
  MaxAllocations,  \* bound: buffers are allocated so many times
  MaxRows,         \* bound: with as many rows the timer sleeps until the stop
  MaxQueued        \* bound: further refreshes of a form in the queue look alike

ASSUME FormAssumption ==
  IsFiniteSet(Form) /\ Form # {} /\ Plot \subseteq Form
ASSUME PromptAssumption == PromptStop \in BOOLEAN
ASSUME BoundsAssumption ==
  MaxAllocations \in Nat /\ MaxRows \in Nat /\ MaxQueued \in Nat \ {0}

VARIABLES
  gui,          \* what the user interface is doing: its step, and the form(s)
  running,      \* the buttons: stop is enabled, start and reset are not
  mCollectData,
  library, mThreadStateStop,   \* CDataLibrary's thread and its stop flag
  mMutexTimer,                 \* locked or not, by whomever
  timer, timerStop,            \* CDataTimer
  form, formStop,              \* CGuiTimer of every form
  queued,                      \* refreshes of the form not yet executed
  allocation,                  \* the buffers that exist now, by number
  rows,                        \* pushed to the buffers of x and of y values
  ticks,                       \* history: unlocks of mMutexTimer since the start
  curve                        \* what a plot's curves point to

threads == <<library, mThreadStateStop, mMutexTimer, timer, timerStop, ticks>>
forms == <<form, formStop, queued>>
buffers == <<allocation, rows>>
vars == <<gui, running, mCollectData, threads, forms, buffers, curve>>

GuiStep == {"idle", "startForms", "stopForms", "joinForms", "stopTimer",
            "stopFlag", "stopUnlock", "joinTimer", "joinLibrary",
            "deleteForms", "curves", "gone"}
Row == Nat
Allocation == 1 .. (MaxAllocations + 1)
Rows == [x : Row, y : Row]
noRows == [x |-> 0, y |-> 0]
Pointers == [allocation : Allocation, x : Row, y : Row]

Gui == [at : GuiStep, todo : SUBSET Form, seen : Rows, quit : BOOLEAN]

TypeOK ==
  /\ gui \in Gui
  /\ running \in BOOLEAN /\ mCollectData \in BOOLEAN
  /\ library \in {"none", "created", "first", "test", "wait", "x", "y", "ended"}
  /\ mThreadStateStop \in BOOLEAN /\ mMutexTimer \in BOOLEAN
  /\ timer \in {"none", "created", "test", "sleep", "ended"}
  /\ timerStop \in BOOLEAN
  /\ form \in [Form -> {"none", "created", "test", "sleep", "ended"}]
  /\ formStop \in [Form -> BOOLEAN]
  /\ queued \in [Form -> 0 .. MaxQueued]
  /\ allocation \in Allocation
  /\ rows \in Rows
  /\ ticks \in Nat
  /\ curve \in [Plot -> Pointers]

Init ==
  /\ gui = [at |-> "idle", todo |-> {}, seen |-> noRows, quit |-> FALSE]
  /\ running = FALSE /\ mCollectData = FALSE
  /\ library = "none" /\ mThreadStateStop = TRUE /\ mMutexTimer = FALSE
  /\ timer = "none" /\ timerStop = TRUE
  /\ form = [f \in Form |-> "none"]
  /\ formStop = [f \in Form |-> TRUE]
  /\ queued = [f \in Form |-> 0]
  /\ allocation = 1
  /\ rows = noRows
  /\ ticks = 0
  /\ curve = [p \in Plot |-> [allocation |-> 1, x |-> 0, y |-> 0]]

At(step) == gui.at = step

\* The forms are started, stopped, joined and deleted in a fixed order.
IsNext(f) == f \in gui.todo /\ f = CHOOSE g \in gui.todo : TRUE
Goto(step) == gui' = [gui EXCEPT !.at = step, !.todo = {}]
GotoForms(step) == gui' = [gui EXCEPT !.at = step, !.todo = Form]

NoneCreated == /\ library # "created" /\ timer # "created"
               /\ \A f \in Form : form[f] # "created"
MayStop == PromptStop \/ NoneCreated

\* mThreadStateRun of a form's timer.
Runs(f) == form[f] \in {"test", "sleep"}

(***************************************************************************)
(* The buttons.                                                            *)
(***************************************************************************)
\* CDataMeasurement::reset frees the buffers and allocates new ones.
ResetBuffers ==
  /\ allocation <= MaxAllocations
  /\ allocation' = allocation + 1
  /\ rows' = noRows

\* CDataLibrary::start: the thread that collects, and its timer.
StartCollecting ==
  /\ library' = "created"
  /\ timer' = "created"
  /\ ticks' = 0
  /\ mCollectData' = TRUE
  /\ UNCHANGED <<mThreadStateStop, mMutexTimer, timerStop>>

PressStart ==
  /\ At("idle") /\ ~running
  /\ running' = TRUE
  /\ ResetBuffers
  /\ StartCollecting
  /\ GotoForms("startForms")
  /\ UNCHANGED <<forms, curve>>

StartForm(f) ==
  /\ At("startForms") /\ IsNext(f)
  /\ form' = [form EXCEPT ![f] = "created"]
  /\ gui' = [gui EXCEPT !.todo = @ \ {f},
                        !.at = IF gui.todo = {f} THEN "idle" ELSE @]
  /\ UNCHANGED <<running, mCollectData, threads, formStop, queued, buffers,
                 curve>>

PressStop ==
  /\ At("idle") /\ running /\ MayStop
  /\ running' = FALSE
  /\ GotoForms("stopForms")
  /\ UNCHANGED <<mCollectData, threads, forms, buffers, curve>>

StopForm(f) ==
  /\ At("stopForms") /\ IsNext(f)
  /\ formStop' = [formStop EXCEPT ![f] = TRUE]
  /\ IF gui.todo = {f} THEN GotoForms("joinForms")
                       ELSE gui' = [gui EXCEPT !.todo = @ \ {f}]
  /\ UNCHANGED <<running, mCollectData, threads, form, queued, buffers, curve>>

\* CDataHandler::stopCollectData, called by pressStop and by the destructor.
AfterStop(quit) == IF quit THEN "deleteForms" ELSE "idle"
FormsLeft(quit) == IF quit THEN Form ELSE {}

StopCollecting(quit) ==
  /\ mCollectData' = FALSE
  /\ gui' = [gui EXCEPT !.at = IF mCollectData THEN "stopTimer" ELSE AfterStop(quit),
                        !.todo = IF mCollectData THEN {} ELSE FormsLeft(quit),
                        !.quit = quit]

JoinForm(f) ==
  /\ At("joinForms") /\ IsNext(f) /\ form[f] = "ended"
  /\ IF gui.todo = {f} THEN StopCollecting(FALSE)
                       ELSE /\ gui' = [gui EXCEPT !.todo = @ \ {f}]
                            /\ UNCHANGED mCollectData
  /\ UNCHANGED <<running, threads, forms, buffers, curve>>

PressReset ==
  /\ At("idle") /\ ~running
  /\ ResetBuffers
  /\ UNCHANGED <<gui, running, mCollectData, threads, forms, curve>>

\* The event loop ends; CGuiBuilder deletes the main window.
Quit ==
  /\ At("idle") /\ MayStop
  /\ StopCollecting(TRUE)
  /\ UNCHANGED <<running, threads, forms, buffers, curve>>

(***************************************************************************)
(* CDataLibrary::stop and join, step by step.                              *)
(***************************************************************************)
StopTimer ==
  /\ At("stopTimer")
  /\ timerStop' = TRUE
  /\ Goto("stopFlag")
  /\ UNCHANGED <<running, mCollectData, library, mThreadStateStop, mMutexTimer,
                 timer, ticks, forms, buffers, curve>>

StopFlag ==
  /\ At("stopFlag")
  /\ mThreadStateStop' = TRUE
  /\ Goto("stopUnlock")
  /\ UNCHANGED <<running, mCollectData, library, mMutexTimer, timer, timerStop,
                 ticks, forms, buffers, curve>>

Unlock == mMutexTimer' = FALSE /\ ticks' = ticks + 1

\* Faulty variant: the waiting thread is not woken.
StopWithoutUnlock ==
  /\ At("stopUnlock")
  /\ Goto("joinTimer")
  /\ UNCHANGED <<running, mCollectData, threads, forms, buffers, curve>>

StopUnlock ==
  /\ At("stopUnlock")
  /\ Unlock
  /\ Goto("joinTimer")
  /\ UNCHANGED <<running, mCollectData, library, mThreadStateStop, timer,
                 timerStop, forms, buffers, curve>>

JoinTimer ==
  /\ At("joinTimer") /\ timer = "ended"
  /\ Goto("joinLibrary")
  /\ UNCHANGED <<running, mCollectData, threads, forms, buffers, curve>>

\* Faulty variant: the user goes on before the thread has ended.
JoinLibraryForgotten ==
  /\ At("joinLibrary")
  /\ gui' = [gui EXCEPT !.at = AfterStop(gui.quit), !.todo = FormsLeft(gui.quit)]
  /\ UNCHANGED <<running, mCollectData, threads, forms, buffers, curve>>

JoinLibrary ==
  /\ At("joinLibrary") /\ library = "ended"
  /\ gui' = [gui EXCEPT !.at = AfterStop(gui.quit), !.todo = FormsLeft(gui.quit)]
  /\ UNCHANGED <<running, mCollectData, threads, forms, buffers, curve>>

(***************************************************************************)
(* The thread that collects rows.                                          *)
(***************************************************************************)
LibraryRuns ==
  /\ library = "created"
  /\ library' = "first"
  /\ mThreadStateStop' = FALSE
  /\ UNCHANGED <<gui, running, mCollectData, mMutexTimer, timer, timerStop,
                 ticks, forms, buffers, curve>>

LibraryLocks(from, to) ==
  /\ library = from /\ ~mMutexTimer
  /\ mMutexTimer' = TRUE
  /\ library' = to
  /\ UNCHANGED <<gui, running, mCollectData, mThreadStateStop, timer, timerStop,
                 ticks, forms, buffers, curve>>

LibraryLocksFirst == LibraryLocks("first", "test")

LibraryWaits == LibraryLocks("wait", "x")

LibraryTests ==
  /\ library = "test"
  /\ library' = IF mThreadStateStop THEN "ended" ELSE "wait"
  /\ UNCHANGED <<gui, running, mCollectData, mThreadStateStop, mMutexTimer,
                 timer, timerStop, ticks, forms, buffers, curve>>

\* A row: the time, then the values.
PushX ==
  /\ library = "x"
  /\ rows' = [rows EXCEPT !.x = @ + 1]
  /\ library' = "y"
  /\ UNCHANGED <<gui, running, mCollectData, mThreadStateStop, mMutexTimer,
                 timer, timerStop, ticks, forms, allocation, curve>>

PushY ==
  /\ library = "y"
  /\ rows' = [rows EXCEPT !.y = @ + 1]
  /\ library' = "test"
  /\ UNCHANGED <<gui, running, mCollectData, mThreadStateStop, mMutexTimer,
                 timer, timerStop, ticks, forms, allocation, curve>>

(***************************************************************************)
(* The timers.                                                             *)
(***************************************************************************)
TimerRuns ==
  /\ timer = "created"
  /\ timer' = "test"
  /\ timerStop' = FALSE
  /\ UNCHANGED <<gui, running, mCollectData, library, mThreadStateStop,
                 mMutexTimer, ticks, forms, buffers, curve>>

TimerTests ==
  /\ timer = "test"
  /\ timer' = IF timerStop THEN "ended" ELSE "sleep"
  /\ UNCHANGED <<gui, running, mCollectData, library, mThreadStateStop,
                 mMutexTimer, timerStop, ticks, forms, buffers, curve>>

TimerTicks ==
  /\ timer = "sleep"
  /\ ticks < MaxRows \/ timerStop
  /\ Unlock
  /\ timer' = "test"
  /\ UNCHANGED <<gui, running, mCollectData, library, mThreadStateStop,
                 timerStop, forms, buffers, curve>>

\* Faulty variant: the flag of the last stop stays.
FormKeepsStopFlag(f) ==
  /\ form[f] = "created"
  /\ form' = [form EXCEPT ![f] = "test"]
  /\ UNCHANGED <<gui, running, mCollectData, threads, formStop, queued, buffers,
                 curve>>

FormRuns(f) ==
  /\ form[f] = "created"
  /\ form' = [form EXCEPT ![f] = "test"]
  /\ formStop' = [formStop EXCEPT ![f] = FALSE]
  /\ UNCHANGED <<gui, running, mCollectData, threads, queued, buffers, curve>>

FormTests(f) ==
  /\ form[f] = "test"
  /\ form' = [form EXCEPT ![f] = IF formStop[f] THEN "ended" ELSE "sleep"]
  /\ UNCHANGED <<gui, running, mCollectData, threads, formStop, queued, buffers,
                 curve>>

\* refreshGui: the signal goes into the queue of the user interface.
FormEmits(f) ==
  /\ form[f] = "sleep"
  /\ queued' = [queued EXCEPT ![f] = IF @ < MaxQueued THEN @ + 1 ELSE @]
  /\ form' = [form EXCEPT ![f] = "test"]
  /\ UNCHANGED <<gui, running, mCollectData, threads, formStop, buffers, curve>>

(***************************************************************************)
(* The user interface executes a refresh: setupCurves takes the pointer to *)
(* the x values first.  The other forms read the buffers and keep nothing. *)
(***************************************************************************)
Dequeue(f) ==
  /\ At("idle") /\ queued[f] > 0
  /\ queued' = [queued EXCEPT ![f] = @ - 1]
  /\ UNCHANGED <<running, mCollectData, threads, form, formStop, buffers, curve>>

TakeX(p) ==
  /\ Dequeue(p)
  /\ gui' = [gui EXCEPT !.at = "curves", !.todo = {p}, !.seen = rows]

\* Faulty variant: the values are fetched before the times.
TakeYFirst(p) ==
  /\ At("curves") /\ gui.todo = {p}
  /\ curve' = [curve EXCEPT ![p] = [allocation |-> allocation,
                                    x |-> rows.x, y |-> gui.seen.y]]
  /\ gui' = [gui EXCEPT !.at = "idle", !.todo = {}, !.seen = noRows]
  /\ UNCHANGED <<running, mCollectData, threads, forms, buffers>>

TakeY(p) ==
  /\ At("curves") /\ gui.todo = {p}
  /\ curve' = [curve EXCEPT ![p] = [allocation |-> allocation,
                                    x |-> gui.seen.x, y |-> rows.y]]
  /\ gui' = [gui EXCEPT !.at = "idle", !.todo = {}, !.seen = noRows]
  /\ UNCHANGED <<running, mCollectData, threads, forms, buffers>>

RefreshOther(f) ==
  /\ Dequeue(f)
  /\ UNCHANGED gui

(***************************************************************************)
(* The destructor of a form ends its timer if it runs.                     *)
(***************************************************************************)
\* Faulty variant: the destructor does not wait for the timer.
DeleteRunningForm(f) ==
  /\ At("deleteForms") /\ IsNext(f)
  /\ queued' = [queued EXCEPT ![f] = 0]
  /\ gui' = [gui EXCEPT !.todo = @ \ {f},
                        !.at = IF gui.todo = {f} THEN "gone" ELSE @]
  /\ UNCHANGED <<running, mCollectData, threads, form, formStop, buffers, curve>>

DeleteForm(f) ==
  /\ At("deleteForms") /\ IsNext(f)
  /\ ~Runs(f)
  /\ queued' = [queued EXCEPT ![f] = 0]
  /\ gui' = [gui EXCEPT !.todo = @ \ {f},
                        !.at = IF gui.todo = {f} THEN "gone" ELSE @]
  /\ UNCHANGED <<running, mCollectData, threads, form, formStop, buffers, curve>>

StopDeletedForm(f) ==
  /\ At("deleteForms") /\ IsNext(f)
  /\ Runs(f) /\ ~formStop[f]
  /\ formStop' = [formStop EXCEPT ![f] = TRUE]
  /\ UNCHANGED <<gui, running, mCollectData, threads, form, queued, buffers,
                 curve>>

(***************************************************************************)
(* Specification.  The user need not press a button.  Events are executed  *)
(* in the order they were queued in, so every refresh has its turn.        *)
(***************************************************************************)
Stopping == StopTimer \/ StopFlag \/ StopUnlock \/ JoinTimer \/ JoinLibrary

LibraryStep == \/ LibraryRuns \/ LibraryLocksFirst \/ LibraryTests
               \/ LibraryWaits \/ PushX \/ PushY

TimerStep == TimerRuns \/ TimerTests \/ TimerTicks

FormStep(f) == FormRuns(f) \/ FormTests(f) \/ FormEmits(f)

GuiOfForm(f) == \/ StartForm(f) \/ StopForm(f) \/ JoinForm(f)
                \/ DeleteForm(f) \/ StopDeletedForm(f)

Next ==
  \/ PressStart \/ PressStop \/ PressReset \/ Quit
  \/ Stopping \/ LibraryStep \/ TimerStep
  \/ \E f \in Form : FormStep(f) \/ GuiOfForm(f)
  \/ \E p \in Plot : TakeX(p) \/ TakeY(p)
  \/ \E f \in Form \ Plot : RefreshOther(f)

Fairness ==
  /\ WF_vars(Stopping) /\ WF_vars(LibraryStep) /\ WF_vars(TimerStep)
  /\ \A f \in Form : WF_vars(FormStep(f)) /\ WF_vars(GuiOfForm(f))
  /\ \A p \in Plot : SF_vars(TakeX(p)) /\ WF_vars(TakeY(p))
  /\ \A f \in Form \ Plot : SF_vars(RefreshOther(f))

Spec == Init /\ [][Next]_vars /\ Fairness

(***************************************************************************)
(* Properties.                                                             *)
(***************************************************************************)
\* When pressStop has returned no thread is left, so a reset or the next
\* start may free the buffers: nobody pushes into them or asks for a refresh.
QuietWhenStopped ==
  At("idle") /\ ~running =>
    /\ library \in {"none", "ended"} /\ timer \in {"none", "ended"}
    /\ \A f \in Form : form[f] \in {"none", "ended"}

\* Never more rows than ticks: the lock of mMutexTimer before the loop takes
\* the unlocked state that the mutex starts in, or that the last tick of an
\* earlier measurement left behind, so no row comes ahead of its time.  A plot
\* takes the pointers to x and y one after another while rows go on being
\* pushed: a value may be shown too early, but never more than one row too
\* late, because every y buffer lacks at most the row that is being pushed.
RowsInStep ==
  /\ rows.x <= ticks
  /\ \A p \in Plot : curve[p].y >= curve[p].x - 1

\* A form is deleted after its timer's thread has ended, also when the
\* application quits in the middle of a measurement.
Deleted(f) == (At("deleteForms") /\ f \notin gui.todo) \/ At("gone")
FormsOutliveTimers ==
  \A f \in Form : Deleted(f) => form[f] \in {"none", "ended"}

\* pressStop and the destructor return: no join waits for ever, whatever the
\* threads are doing and wherever the mutex is when the flags are set.
Ending == {"stopForms", "joinForms", "stopTimer", "stopFlag", "stopUnlock",
           "joinTimer", "joinLibrary", "deleteForms"}
StopReturns == (gui.at \in Ending) ~> (At("idle") \/ At("gone"))

\* A reset leaves raw pointers into freed buffers in the curves.  In a
\* measurement every plot gets pointers into the new ones.
PlotsCatchUp ==
  \A p \in Plot :
    (running /\ curve[p].allocation # allocation) ~>
      (curve[p].allocation = allocation \/ ~running \/ gui.quit)
=============================================================================
