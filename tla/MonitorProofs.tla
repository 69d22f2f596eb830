--------------------------- MODULE MonitorProofs ---------------------------
(***************************************************************************)
(* msmonitor with any number of forms: nothing is left of a measurement    *)
(* that was stopped, rows keep step with the ticks, and the forms outlive  *)
(* their timers.                                                           *)
(***************************************************************************)
EXTENDS Monitor, TLAPS

Joining == gui.at \in {"stopTimer", "stopFlag", "stopUnlock", "joinTimer",
                       "joinLibrary"}
Open == gui.at \in {"idle", "curves"}
Deleting == gui.at \in {"deleteForms", "gone"}
Quiet(f) == form[f] \in {"none", "ended"}
NothingCollects == library \in {"none", "ended"} /\ timer \in {"none", "ended"}

\* The collecting thread and its timer live from a start to the join.
CollectInv ==
  /\ ~mCollectData /\ ~Joining => NothingCollects
  /\ At("joinLibrary") => timer \in {"none", "ended"}
  /\ (Open /\ ~running) \/ Joining \/ Deleting => ~mCollectData

\* So do the timers of the forms, as far as they are started or joined.
FormsInv ==
  /\ Open /\ ~running => \A f \in Form : Quiet(f)
  /\ At("startForms") => running /\ \A f \in gui.todo : Quiet(f)
  /\ At("stopForms") => ~running
  /\ At("joinForms") => ~running /\ \A f \in Form \ gui.todo : Quiet(f)
  /\ Joining /\ ~gui.quit => ~running /\ \A f \in Form : Quiet(f)

\* Who quits finds no timer that has not begun to run, so the destructors miss
\* none.
QuitInv ==
  /\ Joining \/ Deleting => \A f \in Form : form[f] # "created"
  /\ FormsOutliveTimers

\* A free mutex lets one more row come, which has its tick already; the first
\* lock, before the loop, takes the one nobody ticked for.
Coming == (IF library = "x" THEN 1 ELSE 0) + (IF mMutexTimer THEN 0 ELSE 1)
RowsInv ==
  /\ library = "y" => rows.x = rows.y + 1
  /\ library # "y" => rows.x = rows.y
  /\ library \in {"created", "first"} => rows.x = 0
  /\ rows.x <= ticks
  /\ library \in {"test", "wait", "x", "y"} => rows.x + Coming <= ticks

CurveInv ==
  /\ At("curves") => gui.seen.x <= rows.x
  /\ \A p \in Plot : curve[p].y >= curve[p].x - 1

-----------------------------------------------------------------------------
LEMMA GuiMoves ==
  ASSUME gui \in Gui, NEW step \in GuiStep, NEW todo \in SUBSET Form,
         NEW seen \in Rows, NEW quit \in BOOLEAN
  PROVE  /\ [gui EXCEPT !.at = step, !.todo = todo] \in Gui
         /\ [gui EXCEPT !.at = step, !.todo = todo, !.quit = quit] \in Gui
         /\ [gui EXCEPT !.at = step, !.todo = todo, !.seen = seen] \in Gui
         /\ [gui EXCEPT !.todo = todo] \in Gui
         /\ [gui EXCEPT !.todo = todo, !.at = step] \in Gui
  BY DEF Gui

LEMMA TypeStep == TypeOK /\ [Next]_vars => TypeOK'
<1> SUFFICES ASSUME TypeOK, [Next]_vars PROVE TypeOK'
  OBVIOUS
<1> USE FormAssumption, BoundsAssumption
<1>0. gui \in Gui /\ gui.at \in GuiStep /\ gui.todo \in SUBSET Form /\ gui.quit \in BOOLEAN /\ rows \in Rows
  BY DEF TypeOK, Gui
<1>1. CASE PressStart
  <2>1. gui' \in Gui
    BY <1>0, <1>1, GuiMoves DEF PressStart, GotoForms, GuiStep
  <2> QED
    BY <1>1, <2>1 DEF PressStart, ResetBuffers, StartCollecting, forms, TypeOK, noRows, Rows, Row, Allocation
<1>2. CASE PressStop
  <2>1. gui' \in Gui
    BY <1>0, <1>2, GuiMoves DEF PressStop, GotoForms, GuiStep
  <2> QED
    BY <1>2, <2>1 DEF PressStop, threads, forms, buffers, TypeOK
<1>3. CASE PressReset
  BY <1>3 DEF PressReset, ResetBuffers, threads, forms, TypeOK, noRows, Rows, Row, Allocation
<1>4. CASE Quit
  <2>1. gui' \in Gui
    BY <1>0, <1>4, GuiMoves DEF Quit, StopCollecting, AfterStop, FormsLeft, GuiStep
  <2> QED
    BY <1>4, <2>1 DEF Quit, StopCollecting, threads, forms, buffers, TypeOK
<1>5. CASE Stopping
  <2>1. CASE StopTimer
    <3>1. gui' \in Gui
      BY <1>0, <2>1, GuiMoves DEF StopTimer, GuiStep, Goto
    <3> QED
      BY <2>1, <3>1 DEF StopTimer, forms, buffers, TypeOK
  <2>2. CASE StopFlag
    <3>1. gui' \in Gui
      BY <1>0, <2>2, GuiMoves DEF StopFlag, GuiStep, Goto
    <3> QED
      BY <2>2, <3>1 DEF StopFlag, forms, buffers, TypeOK
  <2>3. CASE StopUnlock
    <3>1. gui' \in Gui
      BY <1>0, <2>3, GuiMoves DEF StopUnlock, GuiStep, Goto
    <3>2. ticks' \in Nat
      BY <2>3 DEF StopUnlock, Unlock, TypeOK
    <3> QED
      BY <2>3, <3>1, <3>2 DEF StopUnlock, Unlock, forms, buffers, TypeOK
  <2>4. CASE JoinTimer
    <3>1. gui' \in Gui
      BY <1>0, <2>4, GuiMoves DEF JoinTimer, GuiStep, Goto
    <3> QED
      BY <2>4, <3>1 DEF JoinTimer, threads, forms, buffers, TypeOK
  <2>5. CASE JoinLibrary
    <3>1. gui' \in Gui
      BY <1>0, <2>5, GuiMoves DEF JoinLibrary, AfterStop, FormsLeft, GuiStep
    <3> QED
      BY <2>5, <3>1 DEF JoinLibrary, threads, forms, buffers, TypeOK
  <2> QED
    BY <1>5, <2>1, <2>2, <2>3, <2>4, <2>5 DEF Stopping
<1>6. CASE LibraryStep
  <2>1. CASE LibraryRuns \/ LibraryTests
    BY <2>1 DEF LibraryRuns, LibraryTests, forms, buffers, TypeOK
  <2>2. CASE LibraryLocksFirst \/ LibraryWaits
    BY <2>2 DEF LibraryLocksFirst, LibraryWaits, LibraryLocks, forms, buffers, TypeOK
  <2>3. CASE PushX \/ PushY
    <3>1. rows' \in Rows
      BY <1>0, <2>3 DEF PushX, PushY, Rows, Row
    <3> QED
      BY <2>3, <3>1 DEF PushX, PushY, forms, TypeOK
  <2> QED
    BY <1>6, <2>1, <2>2, <2>3 DEF LibraryStep
<1>7. CASE TimerStep
  <2>1. CASE TimerRuns \/ TimerTests
    BY <2>1 DEF TimerRuns, TimerTests, forms, buffers, TypeOK
  <2>2. CASE TimerTicks
    <3>1. ticks' \in Nat
      BY <2>2 DEF TimerTicks, Unlock, TypeOK
    <3> QED
      BY <2>2, <3>1 DEF TimerTicks, Unlock, forms, buffers, TypeOK
  <2> QED
    BY <1>7, <2>1, <2>2 DEF TimerStep
<1>8. ASSUME NEW f \in Form, FormStep(f) PROVE TypeOK'
  <2>1. form' \in [Form -> {"none", "created", "test", "sleep", "ended"}]
    BY <1>8 DEF FormStep, FormRuns, FormTests, FormEmits, TypeOK
  <2>2. formStop' \in [Form -> BOOLEAN]
    BY <1>8 DEF FormStep, FormRuns, FormTests, FormEmits, TypeOK
  <2>3. queued' \in [Form -> 0 .. MaxQueued]
    BY <1>8 DEF FormStep, FormRuns, FormTests, FormEmits, forms, TypeOK
  <2> QED
    BY <1>8, <2>1, <2>2, <2>3 DEF FormStep, FormRuns, FormTests, FormEmits, threads, buffers,
       TypeOK
<1>9. ASSUME NEW f \in Form, GuiOfForm(f) PROVE TypeOK'
  <2>1. CASE StartForm(f)
    <3>1. gui' \in Gui
      BY <1>0, <2>1, GuiMoves DEF StartForm, GuiStep
    <3> QED
      BY <2>1, <3>1 DEF StartForm, threads, buffers, TypeOK
  <2>2. CASE StopForm(f)
    <3>1. gui' \in Gui
      <4>1. gui.todo \ {f} \in SUBSET Form
        BY <1>0
      <4>2. gui' = [gui EXCEPT !.at = "joinForms", !.todo = Form]
            \/ gui' = [gui EXCEPT !.todo = gui.todo \ {f}]
        BY <2>2 DEF StopForm, GotoForms
      <4>3. [gui EXCEPT !.todo = gui.todo \ {f}] \in Gui
        BY <1>0, <4>1, GuiMoves
      <4>4. [gui EXCEPT !.at = "joinForms", !.todo = Form] \in Gui
        BY <1>0, GuiMoves DEF GuiStep
      <4> QED
        BY <4>2, <4>3, <4>4
    <3> QED
      BY <2>2, <3>1 DEF StopForm, threads, buffers, TypeOK
  <2>3. CASE JoinForm(f)
    <3>1. gui' \in Gui
      <4>1. gui.todo \ {f} \in SUBSET Form
        BY <1>0
      <4>2. gui' = [gui EXCEPT !.todo = gui.todo \ {f}]
            \/ \E step \in {"stopTimer", "idle"} :
                 gui' = [gui EXCEPT !.at = step, !.todo = {}, !.quit = FALSE]
        BY <2>3 DEF JoinForm, StopCollecting, AfterStop, FormsLeft
      <4>3. [gui EXCEPT !.todo = gui.todo \ {f}] \in Gui
        BY <1>0, <4>1, GuiMoves
      <4>4. ASSUME NEW step \in {"stopTimer", "idle"}
            PROVE  [gui EXCEPT !.at = step, !.todo = {}, !.quit = FALSE] \in Gui
        BY <1>0, GuiMoves DEF GuiStep
      <4> QED
        BY <4>2, <4>3, <4>4
    <3> QED
      BY <2>3, <3>1 DEF JoinForm, StopCollecting, threads, forms, buffers, TypeOK
  <2>4. CASE DeleteForm(f)
    <3>1. gui' \in Gui
      BY <1>0, <2>4, GuiMoves DEF DeleteForm, GuiStep
    <3> QED
      BY <2>4, <3>1 DEF DeleteForm, threads, buffers, TypeOK
  <2>5. CASE StopDeletedForm(f)
    BY <2>5 DEF StopDeletedForm, threads, buffers, TypeOK
  <2> QED
    BY <1>9, <2>1, <2>2, <2>3, <2>4, <2>5 DEF GuiOfForm
<1>10. ASSUME NEW p \in Plot, TakeX(p) \/ TakeY(p) PROVE TypeOK'
  <2>1. gui' \in Gui
    <3>1. noRows \in Rows
      BY DEF noRows, Rows, Row
    <3>2. gui' = [gui EXCEPT !.at = "curves", !.todo = {p}, !.seen = rows]
          \/ gui' = [gui EXCEPT !.at = "idle", !.todo = {}, !.seen = noRows]
      BY <1>10 DEF TakeX, TakeY
    <3>3. {p} \in SUBSET Form
      OBVIOUS
    <3>4. [gui EXCEPT !.at = "curves", !.todo = {p}, !.seen = rows] \in Gui
      BY <1>0, <3>3, GuiMoves DEF GuiStep
    <3>5. [gui EXCEPT !.at = "idle", !.todo = {}, !.seen = noRows] \in Gui
      BY <1>0, <3>1, GuiMoves DEF GuiStep
    <3> QED
      BY <3>2, <3>4, <3>5
  <2>2. queued' \in [Form -> 0 .. MaxQueued]
    BY <1>10 DEF TakeX, TakeY, Dequeue, TypeOK, forms
  <2>3. curve' \in [Plot -> Pointers]
    <3>1. [allocation |-> allocation, x |-> gui.seen.x, y |-> rows.y] \in Pointers
      BY <1>0 DEF Gui, Rows, Pointers, TypeOK
    <3> QED
      BY <1>10, <3>1 DEF TakeX, TakeY, Dequeue, TypeOK
  <2> QED
    BY <1>10, <2>1, <2>2, <2>3 DEF TakeX, TakeY, Dequeue, threads, forms, buffers, TypeOK
<1>11. ASSUME NEW f \in Form \ Plot, RefreshOther(f) PROVE TypeOK'
  BY <1>11 DEF RefreshOther, Dequeue, threads, buffers, TypeOK
<1>12. CASE UNCHANGED vars
  BY <1>12 DEF vars, threads, forms, buffers, TypeOK
<1> QED
  BY <1>1, <1>2, <1>3, <1>4, <1>5, <1>6, <1>7, <1>8, <1>9, <1>10, <1>11, <1>12
  DEF Next

LEMMA CollectStep == TypeOK /\ CollectInv /\ FormsInv /\ [Next]_vars => CollectInv'
<1> SUFFICES ASSUME TypeOK, CollectInv, FormsInv, [Next]_vars PROVE CollectInv'
  OBVIOUS
<1> USE DEF CollectInv, NothingCollects, Joining, Open, Deleting, At
<1>0. gui \in Gui /\ gui.at \in GuiStep /\ gui.quit \in BOOLEAN /\ mCollectData \in BOOLEAN /\ running \in BOOLEAN
  BY DEF TypeOK, Gui
<1>1. CASE PressStart
  BY <1>0, <1>1 DEF PressStart, StartCollecting, GotoForms, Gui
<1>2. CASE PressStop
  BY <1>0, <1>2 DEF PressStop, GotoForms, threads, Gui
<1>3. CASE PressReset
  BY <1>3 DEF PressReset, threads
<1>4. CASE Quit
  <2>1. gui'.at = IF mCollectData THEN "stopTimer" ELSE "deleteForms"
    BY <1>0, <1>4 DEF Quit, StopCollecting, AfterStop, Gui
  <2>2. /\ gui.at = "idle" /\ mCollectData' = FALSE
        /\ library' = library /\ timer' = timer
    BY <1>4 DEF Quit, StopCollecting, threads
  <2> QED
    BY <1>0, <2>1, <2>2
<1>5. CASE Stopping
  <2>1. CASE StopTimer
    BY <1>0, <2>1 DEF StopTimer, Goto, Gui
  <2>2. CASE StopFlag
    BY <1>0, <2>2 DEF StopFlag, Goto, Gui
  <2>3. CASE StopUnlock
    BY <1>0, <2>3 DEF StopUnlock, Goto, Gui
  <2>4. CASE JoinTimer
    BY <1>0, <2>4 DEF JoinTimer, Goto, Gui, threads
  <2>5. CASE JoinLibrary
    BY <1>0, <2>5 DEF JoinLibrary, AfterStop, Gui, threads
  <2> QED
    BY <1>5, <2>1, <2>2, <2>3, <2>4, <2>5 DEF Stopping
<1>6. CASE LibraryStep
  BY <1>6 DEF LibraryStep, LibraryRuns, LibraryLocks, LibraryLocksFirst,
     LibraryWaits, LibraryTests, PushX, PushY
<1>7. CASE TimerStep
  BY <1>7 DEF TimerStep, TimerRuns, TimerTests, TimerTicks
<1>8. ASSUME NEW f \in Form, FormStep(f) PROVE CollectInv'
  BY <1>8 DEF FormStep, FormRuns, FormTests, FormEmits, threads
<1>9. ASSUME NEW f \in Form, GuiOfForm(f) PROVE CollectInv'
  <2>1. CASE StartForm(f)
    BY <1>0, <2>1 DEF StartForm, threads, Gui, FormsInv
  <2>2. CASE StopForm(f)
    BY <1>0, <2>2 DEF StopForm, GotoForms, threads, Gui
  <2>3. CASE JoinForm(f)
    <3>1. CASE gui.todo = {f}
      <4>1. gui'.at = IF mCollectData THEN "stopTimer" ELSE "idle"
        BY <1>0, <2>3, <3>1 DEF JoinForm, StopCollecting, AfterStop, Gui
      <4> QED
        BY <1>0, <2>3, <3>1, <4>1 DEF JoinForm, StopCollecting, threads
    <3>2. CASE gui.todo # {f}
      BY <1>0, <2>3, <3>2 DEF JoinForm, threads, Gui
    <3> QED
      BY <3>1, <3>2
  <2>4. CASE DeleteForm(f)
    BY <1>0, <2>4 DEF DeleteForm, threads, Gui
  <2>5. CASE StopDeletedForm(f)
    BY <2>5 DEF StopDeletedForm, threads
  <2> QED
    BY <1>9, <2>1, <2>2, <2>3, <2>4, <2>5 DEF GuiOfForm
<1>10. ASSUME NEW p \in Plot, TakeX(p) \/ TakeY(p) PROVE CollectInv'
  <2>1. Open /\ gui'.at \in {"idle", "curves"}
    BY <1>0, <1>10 DEF TakeX, TakeY, Dequeue, Gui
  <2>2. UNCHANGED <<running, mCollectData, library, timer>>
    BY <1>10 DEF TakeX, TakeY, Dequeue, threads
  <2> QED
    BY <2>1, <2>2
<1>11. ASSUME NEW f \in Form \ Plot, RefreshOther(f) PROVE CollectInv'
  BY <1>11 DEF RefreshOther, Dequeue, threads
<1>12. CASE UNCHANGED vars
  BY <1>12 DEF vars, threads
<1> QED
  BY <1>1, <1>2, <1>3, <1>4, <1>5, <1>6, <1>7, <1>8, <1>9, <1>10, <1>11, <1>12
  DEF Next
LEMMA FormsStep ==
  TypeOK /\ CollectInv /\ FormsInv /\ [Next]_vars => FormsInv'
<1> SUFFICES ASSUME TypeOK, CollectInv, FormsInv, [Next]_vars PROVE FormsInv'
  OBVIOUS
<1> USE DEF FormsInv, Quiet, Joining, Open, Deleting, At
<1>0. gui \in Gui /\ gui.at \in GuiStep /\ gui.quit \in BOOLEAN /\ mCollectData \in BOOLEAN /\ running \in BOOLEAN
  BY DEF TypeOK, Gui
<1>1. CASE PressStart
  BY <1>0, <1>1 DEF PressStart, GotoForms, forms, Gui
<1>2. CASE PressStop
  BY <1>0, <1>2 DEF PressStop, GotoForms, forms, Gui
<1>3. CASE PressReset
  BY <1>3 DEF PressReset, forms
<1>4. CASE Quit
  <2>1. gui'.at \in {"stopTimer", "deleteForms"} /\ gui'.quit = TRUE
    BY <1>0, <1>4 DEF Quit, StopCollecting, AfterStop, Gui
  <2> QED
    BY <2>1
<1>5. CASE Stopping
  <2>1. CASE StopTimer
    BY <1>0, <2>1 DEF StopTimer, Goto, Gui, forms
  <2>2. CASE StopFlag
    BY <1>0, <2>2 DEF StopFlag, Goto, Gui, forms
  <2>3. CASE StopUnlock
    BY <1>0, <2>3 DEF StopUnlock, Goto, Gui, forms
  <2>4. CASE JoinTimer
    BY <1>0, <2>4 DEF JoinTimer, Goto, Gui, forms
  <2>5. CASE JoinLibrary
    BY <1>0, <2>5 DEF JoinLibrary, AfterStop, Gui, forms
  <2> QED
    BY <1>5, <2>1, <2>2, <2>3, <2>4, <2>5 DEF Stopping
<1>6. CASE LibraryStep
  BY <1>6 DEF LibraryStep, LibraryRuns, LibraryLocks, LibraryLocksFirst,
     LibraryWaits, LibraryTests, PushX, PushY, forms
<1>7. CASE TimerStep
  BY <1>7 DEF TimerStep, TimerRuns, TimerTests, TimerTicks, forms
<1>8. ASSUME NEW f \in Form, FormStep(f) PROVE FormsInv'
  <2>1. /\ ~Quiet(f)
        /\ \A g \in Form \ {f} : form'[g] = form[g]
        /\ UNCHANGED <<gui, running>>
    BY <1>8 DEF FormStep, FormRuns, FormTests, FormEmits, TypeOK
  <2>2. ASSUME NEW g \in Form, Quiet(g) PROVE Quiet(g)'
    BY <2>1, <2>2
  <2>3. gui.todo \in SUBSET Form
    BY <1>0 DEF Gui
  <2>4. Open /\ ~running => \A g \in Form : Quiet(g)'
    BY <2>2
  <2>5. /\ At("startForms") => running /\ \A g \in gui.todo : Quiet(g)'
        /\ At("joinForms") => ~running /\ \A g \in Form \ gui.todo : Quiet(g)'
    BY <2>2, <2>3
  <2>6. Joining /\ ~gui.quit => ~running /\ \A g \in Form : Quiet(g)'
    BY <2>2
  <2> QED
    BY <2>1, <2>4, <2>5, <2>6
<1>9. ASSUME NEW f \in Form, GuiOfForm(f) PROVE FormsInv'
  <2>1. CASE StartForm(f)
    <3>1. /\ gui'.at \in {"startForms", "idle"}
          /\ gui'.todo = gui.todo \ {f}
      BY <1>0, <2>1 DEF StartForm, Gui
    <3>2. /\ At("startForms") /\ running' = running
          /\ \A g \in Form \ {f} : form'[g] = form[g]
      BY <2>1 DEF StartForm, TypeOK
    <3> QED
      BY <1>0, <3>1, <3>2 DEF Gui
  <2>2. CASE StopForm(f)
    BY <1>0, <2>2 DEF StopForm, GotoForms, Gui
  <2>3. CASE JoinForm(f)
    <3>1. /\ At("joinForms") /\ form[f] = "ended"
          /\ UNCHANGED <<running, form>>
      BY <2>3 DEF JoinForm, forms
    <3>2. CASE gui.todo = {f}
      <4>1. gui'.at \in {"stopTimer", "idle"} /\ gui'.quit = FALSE
        BY <1>0, <2>3, <3>2 DEF JoinForm, StopCollecting, AfterStop, Gui
      <4> QED
        BY <3>1, <3>2, <4>1
    <3>3. CASE gui.todo # {f}
      <4>1. gui'.at = gui.at /\ gui'.todo = gui.todo \ {f}
        BY <1>0, <2>3, <3>3 DEF JoinForm, Gui
      <4> QED
        BY <3>1, <4>1
    <3> QED
      BY <3>2, <3>3
  <2>4. CASE DeleteForm(f)
    <3>1. gui'.at \in {"deleteForms", "gone"}
      BY <1>0, <2>4 DEF DeleteForm, Gui
    <3> QED
      BY <3>1
  <2>5. CASE StopDeletedForm(f)
    BY <2>5 DEF StopDeletedForm
  <2> QED
    BY <1>9, <2>1, <2>2, <2>3, <2>4, <2>5 DEF GuiOfForm
<1>10. ASSUME NEW p \in Plot, TakeX(p) \/ TakeY(p) PROVE FormsInv'
  <2>1. Open /\ gui'.at \in {"idle", "curves"}
    BY <1>0, <1>10 DEF TakeX, TakeY, Dequeue, Gui
  <2>2. UNCHANGED <<running, form>>
    BY <1>10 DEF TakeX, TakeY, Dequeue, forms
  <2> QED
    BY <2>1, <2>2
<1>11. ASSUME NEW f \in Form \ Plot, RefreshOther(f) PROVE FormsInv'
  BY <1>11 DEF RefreshOther, Dequeue
<1>12. CASE UNCHANGED vars
  BY <1>12 DEF vars, forms
<1> QED
  BY <1>1, <1>2, <1>3, <1>4, <1>5, <1>6, <1>7, <1>8, <1>9, <1>10, <1>11, <1>12
  DEF Next
LEMMA QuitStep ==
  ASSUME ~PromptStop
  PROVE  TypeOK /\ FormsInv /\ QuitInv /\ [Next]_vars => QuitInv'
<1> SUFFICES ASSUME TypeOK, FormsInv, QuitInv, [Next]_vars PROVE QuitInv'
  OBVIOUS
<1> USE DEF QuitInv, FormsOutliveTimers, Deleted, Joining, Deleting, At
<1>0. gui \in Gui /\ gui.at \in GuiStep /\ gui.quit \in BOOLEAN /\ mCollectData \in BOOLEAN
  BY DEF TypeOK, Gui
<1>1. CASE PressStart
  BY <1>0, <1>1 DEF PressStart, GotoForms, Gui
<1>2. CASE PressStop
  BY <1>0, <1>2 DEF PressStop, GotoForms, Gui
<1>3. CASE PressReset
  BY <1>3 DEF PressReset, forms
<1>4. CASE Quit
  <2>1. /\ gui'.at \in {"stopTimer", "deleteForms"}
        /\ gui'.at = "deleteForms" => gui'.todo = Form
    BY <1>0, <1>4 DEF Quit, StopCollecting, AfterStop, FormsLeft, Gui
  <2>2. form' = form /\ \A f \in Form : form[f] # "created"
    BY <1>4 DEF Quit, MayStop, NoneCreated, forms
  <2> QED
    BY <2>1, <2>2
<1>5. CASE Stopping
  <2>1. form' = form /\ Joining
    BY <1>5 DEF Stopping, StopTimer, StopFlag, StopUnlock, JoinTimer, JoinLibrary, forms
  <2>2. gui'.at = "gone" \/ gui'.at = "deleteForms" => gui'.at = "deleteForms" /\ gui'.todo = Form
    BY <1>0, <1>5 DEF Stopping, StopTimer, StopFlag, StopUnlock, JoinTimer, JoinLibrary,
       Goto, AfterStop, FormsLeft, Gui
  <2> QED
    BY <2>1, <2>2
<1>6. CASE LibraryStep
  BY <1>6 DEF LibraryStep, LibraryRuns, LibraryLocks, LibraryLocksFirst,
     LibraryWaits, LibraryTests, PushX, PushY, forms
<1>7. CASE TimerStep
  BY <1>7 DEF TimerStep, TimerRuns, TimerTests, TimerTicks, forms
<1>8. ASSUME NEW f \in Form, FormStep(f) PROVE QuitInv'
  <2>1. /\ form[f] \notin {"none", "ended"} /\ form'[f] # "created"
        /\ \A g \in Form \ {f} : form'[g] = form[g]
        /\ gui' = gui
    BY <1>8 DEF FormStep, FormRuns, FormTests, FormEmits, TypeOK
  <2> QED
    BY <2>1
<1>9. ASSUME NEW f \in Form, GuiOfForm(f) PROVE QuitInv'
  <2>1. CASE StartForm(f)
    <3>1. gui'.at \in {"startForms", "idle"}
      BY <1>0, <2>1 DEF StartForm, Gui
    <3> QED
      BY <3>1
  <2>2. CASE StopForm(f)
    <3>1. gui'.at \in {"stopForms", "joinForms"}
      BY <1>0, <2>2 DEF StopForm, GotoForms, Gui
    <3> QED
      BY <3>1
  <2>3. CASE JoinForm(f)
    <3>1. /\ At("joinForms") /\ form' = form /\ form[f] = "ended"
          /\ f \in gui.todo
      BY <2>3 DEF JoinForm, IsNext, forms
    <3>2. gui.todo = {f} => \A g \in Form : form[g] # "created"
      BY <3>1 DEF FormsInv, Quiet
    <3>3. /\ gui.todo # {f} => gui'.at = "joinForms"
          /\ gui'.at \in {"joinForms", "stopTimer", "idle"}
      BY <1>0, <2>3 DEF JoinForm, StopCollecting, AfterStop, Gui
    <3> QED
      BY <3>1, <3>2, <3>3
  <2>4. CASE DeleteForm(f)
    <3>1. /\ At("deleteForms") /\ form' = form
          /\ form[f] \in {"none", "ended"}
      BY <2>4 DEF DeleteForm, Runs, TypeOK
    <3>2. gui'.todo = gui.todo \ {f} /\ gui'.at = IF gui.todo = {f} THEN "gone" ELSE "deleteForms"
      BY <1>0, <2>4 DEF DeleteForm, Gui
    <3> QED
      BY <3>1, <3>2
  <2>5. CASE StopDeletedForm(f)
    BY <2>5 DEF StopDeletedForm
  <2> QED
    BY <1>9, <2>1, <2>2, <2>3, <2>4, <2>5 DEF GuiOfForm
<1>10. ASSUME NEW p \in Plot, TakeX(p) \/ TakeY(p) PROVE QuitInv'
  <2>1. gui'.at \in {"idle", "curves"}
    BY <1>0, <1>10 DEF TakeX, TakeY, Dequeue, Gui
  <2> QED
    BY <2>1
<1>11. ASSUME NEW f \in Form \ Plot, RefreshOther(f) PROVE QuitInv'
  BY <1>11 DEF RefreshOther, Dequeue
<1>12. CASE UNCHANGED vars
  BY <1>12 DEF vars, forms
<1> QED
  BY <1>1, <1>2, <1>3, <1>4, <1>5, <1>6, <1>7, <1>8, <1>9, <1>10, <1>11, <1>12
  DEF Next
LEMMA RowsStep == TypeOK /\ CollectInv /\ RowsInv /\ [Next]_vars => RowsInv'
<1> SUFFICES ASSUME TypeOK, CollectInv, RowsInv, [Next]_vars PROVE RowsInv'
  OBVIOUS
<1> USE DEF RowsInv, Coming
<1>0. /\ rows \in Rows /\ rows.x \in Nat /\ rows.y \in Nat /\ ticks \in Nat
      /\ mMutexTimer \in BOOLEAN
  BY DEF TypeOK, Rows, Row
<1>1. CASE PressStart
  BY <1>1 DEF PressStart, ResetBuffers, StartCollecting, noRows
<1>2. CASE PressReset
  <2>1. library \in {"none", "ended"}
    BY <1>2 DEF PressReset, CollectInv, NothingCollects, Open, Joining, At
  <2> QED
    BY <1>0, <1>2, <2>1 DEF PressReset, ResetBuffers, noRows, threads
<1>3. CASE LibraryStep
  <2>1. CASE LibraryRuns \/ LibraryTests
    BY <1>0, <2>1 DEF LibraryRuns, LibraryTests, buffers
  <2>2. CASE LibraryLocksFirst
    BY <1>0, <2>2 DEF LibraryLocksFirst, LibraryLocks, buffers
  <2>3. CASE LibraryWaits
    BY <1>0, <2>3 DEF LibraryWaits, LibraryLocks, buffers
  <2>4. CASE PushX
    <3>1. rows'.x = rows.x + 1 /\ rows'.y = rows.y
      BY <1>0, <2>4 DEF PushX, Rows
    <3> QED
      BY <1>0, <2>4, <3>1 DEF PushX
  <2>5. CASE PushY
    <3>1. rows'.x = rows.x /\ rows'.y = rows.y + 1
      BY <1>0, <2>5 DEF PushY, Rows
    <3> QED
      BY <1>0, <2>5, <3>1 DEF PushY
  <2> QED
    BY <1>3, <2>1, <2>2, <2>3, <2>4, <2>5 DEF LibraryStep
<1>4. CASE Unlock /\ UNCHANGED <<library, rows>>
  BY <1>0, <1>4 DEF Unlock
<1>5. CASE UNCHANGED <<library, mMutexTimer, ticks, rows>>
  BY <1>5
<1>6. Stopping \/ TimerStep =>
        (Unlock /\ UNCHANGED <<library, rows>>) \/ UNCHANGED <<library, mMutexTimer, ticks, rows>>
  BY DEF Stopping, StopTimer, StopFlag, StopUnlock, JoinTimer, JoinLibrary, TimerStep,
     TimerRuns, TimerTests, TimerTicks, threads, buffers
<1>7. PressStop \/ Quit \/ UNCHANGED vars => UNCHANGED <<library, mMutexTimer, ticks, rows>>
  BY DEF PressStop, Quit, vars, threads, buffers
<1>8. ASSUME NEW f \in Form, FormStep(f) \/ GuiOfForm(f)
      PROVE  UNCHANGED <<library, mMutexTimer, ticks, rows>>
  BY <1>8 DEF FormStep, FormRuns, FormTests, FormEmits, GuiOfForm, StartForm, StopForm,
     JoinForm, DeleteForm, StopDeletedForm, threads, buffers
<1>9. ASSUME NEW f \in Form, RefreshOther(f)
      PROVE  UNCHANGED <<library, mMutexTimer, ticks, rows>>
  BY <1>9 DEF RefreshOther, Dequeue, threads, buffers
<1>10. ASSUME NEW p \in Plot, TakeX(p) \/ TakeY(p)
       PROVE  UNCHANGED <<library, mMutexTimer, ticks, rows>>
  BY <1>10 DEF TakeX, TakeY, Dequeue, threads, buffers
<1> QED
  BY <1>1, <1>2, <1>3, <1>4, <1>5, <1>6, <1>7, <1>8, <1>9, <1>10 DEF Next

LEMMA CurveStep ==
  TypeOK /\ RowsInv /\ CurveInv /\ [Next]_vars => CurveInv'
<1> SUFFICES ASSUME TypeOK, RowsInv, CurveInv, [Next]_vars PROVE CurveInv'
  OBVIOUS
<1> USE DEF CurveInv, At
<1>0. /\ gui \in Gui /\ gui.seen.x \in Nat
      /\ rows \in Rows /\ rows.x \in Nat /\ rows.y \in Nat
      /\ curve \in [Plot -> Pointers]
  BY DEF TypeOK, Gui, Rows, Row
<1>1. CASE PressStart \/ PressStop \/ Quit
  <2>1. gui'.at # "curves" /\ curve' = curve
    BY <1>0, <1>1 DEF PressStart, PressStop, Quit, GotoForms, StopCollecting, AfterStop, Gui
  <2> QED
    BY <2>1
<1>2. CASE PressReset
  BY <1>2 DEF PressReset
<1>3. CASE Stopping
  <2>1. gui'.at # "curves" /\ curve' = curve
    BY <1>0, <1>3 DEF Stopping, StopTimer, StopFlag, StopUnlock, JoinTimer, JoinLibrary,
       Goto, AfterStop, Gui
  <2> QED
    BY <2>1
<1>4. CASE LibraryStep
  <2>1. gui' = gui /\ curve' = curve /\ rows'.x >= rows.x
    BY <1>0, <1>4 DEF LibraryStep, LibraryRuns, LibraryLocks, LibraryLocksFirst,
       LibraryWaits, LibraryTests, PushX, PushY, buffers, Rows
  <2>2. rows'.x \in Nat
    BY <1>0, <1>4 DEF LibraryStep, LibraryRuns, LibraryLocks, LibraryLocksFirst,
       LibraryWaits, LibraryTests, PushX, PushY, buffers, Rows
  <2> QED
    BY <1>0, <2>1, <2>2
<1>5. CASE TimerStep
  BY <1>5 DEF TimerStep, TimerRuns, TimerTests, TimerTicks, buffers
<1>6. ASSUME NEW f \in Form, FormStep(f) PROVE CurveInv'
  BY <1>6 DEF FormStep, FormRuns, FormTests, FormEmits, buffers
<1>7. ASSUME NEW f \in Form, GuiOfForm(f) PROVE CurveInv'
  <2>1. CASE StartForm(f) \/ StopForm(f) \/ JoinForm(f) \/ DeleteForm(f)
    <3>1. gui'.at # "curves" /\ curve' = curve
      BY <1>0, <2>1 DEF StartForm, StopForm, JoinForm, DeleteForm, GotoForms,
         StopCollecting, AfterStop, Gui
    <3> QED
      BY <3>1
  <2>2. CASE StopDeletedForm(f)
    BY <2>2 DEF StopDeletedForm, buffers
  <2> QED
    BY <1>7, <2>1, <2>2 DEF GuiOfForm
<1>8. ASSUME NEW p \in Plot, TakeX(p) PROVE CurveInv'
  <2>1. gui'.seen = rows /\ rows' = rows /\ curve' = curve
    BY <1>0, <1>8 DEF TakeX, Dequeue, buffers, Gui
  <2> QED
    BY <1>0, <2>1
<1>9. ASSUME NEW p \in Plot, TakeY(p) PROVE CurveInv'
  <2>1. gui'.at = "idle"
    BY <1>0, <1>9 DEF TakeY, Gui
  <2>2. gui.seen.x <= rows.x /\ rows.y >= rows.x - 1
    BY <1>0, <1>9 DEF TakeY, RowsInv
  <2>3. curve' = [curve EXCEPT ![p] = [allocation |-> allocation,
                                       x |-> gui.seen.x, y |-> rows.y]]
    BY <1>9 DEF TakeY
  <2>4. \A q \in Plot : curve'[q].y >= curve'[q].x - 1
    BY <1>0, <2>2, <2>3
  <2> QED
    BY <2>1, <2>4
<1>10. ASSUME NEW f \in Form \ Plot, RefreshOther(f) PROVE CurveInv'
  BY <1>10 DEF RefreshOther, Dequeue, buffers
<1>11. CASE UNCHANGED vars
  BY <1>11 DEF vars, buffers
<1> QED
  BY <1>1, <1>2, <1>3, <1>4, <1>5, <1>6, <1>7, <1>8, <1>9, <1>10, <1>11 DEF Next

-----------------------------------------------------------------------------
Inv == TypeOK /\ CollectInv /\ FormsInv /\ RowsInv /\ CurveInv

LEMMA InitInv == Init => Inv /\ QuitInv
<1> SUFFICES ASSUME Init PROVE Inv /\ QuitInv
  OBVIOUS
<1>1. TypeOK
  <2>1. noRows \in Rows
    BY DEF noRows, Rows, Row
  <2>2. gui \in Gui
    BY <2>1 DEF Init, Gui, GuiStep
  <2>3. allocation \in Allocation /\ curve \in [Plot -> Pointers]
    BY BoundsAssumption DEF Init, Allocation, Pointers, Row
  <2>4. queued \in [Form -> 0 .. MaxQueued]
    BY BoundsAssumption DEF Init
  <2> QED
    BY <2>1, <2>2, <2>3, <2>4 DEF Init, TypeOK
<1>2. CollectInv /\ FormsInv /\ QuitInv
  BY DEF Init, CollectInv, FormsInv, QuitInv, FormsOutliveTimers, Deleted, At, Open, Joining,
     Deleting, NothingCollects, Quiet
<1>3. RowsInv /\ CurveInv
  BY DEF Init, RowsInv, CurveInv, At, noRows
<1> QED
  BY <1>1, <1>2, <1>3 DEF Inv

LEMMA InvStep == Inv /\ [Next]_vars => Inv'
  BY TypeStep, CollectStep, FormsStep, RowsStep, CurveStep DEF Inv

\* When pressStop has returned no thread is left that could push into buffers
\* the user resets, however fast the user is and however many forms there are
\* (CDataHandler.cpp:57).
THEOREM StoppedIsQuiet == Spec => []QuietWhenStopped
<1>1. Inv => QuietWhenStopped
  BY DEF Inv, CollectInv, FormsInv, QuietWhenStopped, NothingCollects, Open, Joining, Quiet, At
<1> QED
  BY InitInv, InvStep, <1>1, PTL DEF Spec

\* No row comes ahead of its tick, and no curve of any plot lacks more than
\* one value of those it has times for (QMSMFormPower.cpp:83).
THEOREM RowsKeepStep == Spec => []RowsInStep
<1>1. Inv => RowsInStep
  BY DEF Inv, RowsInv, CurveInv, RowsInStep
<1> QED
  BY InitInv, InvStep, <1>1, PTL DEF Spec

\* A user who is no faster than a thread that has just started finds the
\* timer of every form ended when the form is deleted.
THEOREM FormsDeletedLast == ASSUME ~PromptStop PROVE Spec => []FormsOutliveTimers
<1>1. Init => Inv /\ QuitInv
  BY InitInv
<1>2. Inv /\ QuitInv /\ [Next]_vars => (Inv /\ QuitInv)'
  BY InvStep, QuitStep DEF Inv
<1>3. QuitInv => FormsOutliveTimers
  BY DEF QuitInv
<1> QED
  BY <1>1, <1>2, <1>3, PTL DEF Spec
=============================================================================
