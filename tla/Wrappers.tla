------------------------------ MODULE Wrappers ------------------------------
(***************************************************************************)
(* Programs that measure themselves: with taskwrapper and hetschedwrapper  *)
(* ("task", a scheduler that measures phases of its tasks), with           *)
(* hetnodewrapper ("node") or with pythonwrapper ("python").  They go      *)
(* through the same steps as hettime, but instead of waiting for a child   *)
(* they read the sums of the running measurement: at the start and at the  *)
(* end of an interval, one quantity after another, without a lock, while   *)
(* the worker adds to them.                                                *)
(*                                                                         *)
(* Each interval (a phase of a task, a measurement of the node) is used by *)
(* one thread of the program.                                              *)
(***************************************************************************)
EXTENDS Hettime

CONSTANTS
  Interval,   \* the intervals in use
  MaxCalls    \* bound: starts of an interval, each

Program == {"task", "node", "python"}

VARIABLES
  program,    \* which of them runs
  cell,       \* cell[v][q]: what is kept of quantity q for interval v
  started,    \* node: temp_data[].started
  call,       \* the start or stop under way in the thread of v
  calls,      \* starts so far
  inside      \* history: what the worker has added inside of the interval

wrapped == <<program, cell, started, call, calls, inside>>
wvars == <<hvars, wrapped>>

-----------------------------------------------------------------------------
(* The quantities, and what the programs keep of them.                     *)

\* One sum of a resource, for the system those of the board and the server.
Quantity == {"energy", "server"}
Quantities == IF plugin = "sys" THEN <<"energy", "server">> ELSE <<"energy">>

\* cpu_energy_total_*, gpu_energy_total, ...: the sum as it stands.
Total(m, q) == IF q = "energy" THEN m.energy ELSE m.server

\* mstw_init_rel_measurement and set_data_zero.  cur_* is not initialised.
NoCell == [cur |-> 0, acc |-> 0]

\* Faulty variant: an interval replaces the earlier ones of its phase.
TaskStopLast(c, total) == [c EXCEPT !.acc = total - c.cur]

TaskStart(c, total) == [c EXCEPT !.cur = total]
TaskStop(c, total) == [c EXCEPT !.acc = @ + total - c.cur]

\* The energy of the server is stored at the end as it stands.
NodeStart(c, total) == [c EXCEPT !.acc = total]
NodeStop(c, q, total) == [c EXCEPT !.acc = IF q = "server" THEN total ELSE total - @]

Captured(op, c, q, total) ==
  CASE program = "task" /\ op = "start" -> TaskStart(c, total)
    [] program = "task" /\ op = "stop" -> TaskStop(c, total)
    [] program = "node" /\ op = "start" -> NodeStart(c, total)
    [] program = "node" /\ op = "stop" -> NodeStop(c, q, total)

NoCall == [op |-> "none", left |-> <<>>]

NoIntervals ==
  /\ cell = [v \in Interval |-> [q \in Quantity |-> NoCell]]
  /\ started = [v \in Interval |-> FALSE]
  /\ call = [v \in Interval |-> NoCall]
  /\ calls = [v \in Interval |-> 0]
  /\ inside = [v \in Interval |-> [q \in Quantity |-> [counts |-> FALSE, sum |-> 0]]]

WInit == HInit /\ program \in Program /\ NoIntervals

-----------------------------------------------------------------------------
(* The thread that sets up the measurement.                                *)

\* The resources a program asks for: the scheduler and Python's script leave
\* out the others.
Resources == IF program = "node" THEN Plugin \ {"mic"} ELSE {"cpu", "gpu", "fpga"}

\* mshetsched_init passes on what its caller wants, with each tick a reading;
\* a node always measures in full, and Python with a governor and clocks
\* that are fixed, as its frequencies are, for which any stand.
WrapperSettings(s) ==
  CASE program = "task" -> [s EXCEPT !.exits = 1]
    [] program = "node" -> [s EXCEPT !.exits = 1, !.variant = "full"]
    [] program = "python" -> [s EXCEPT !.exits = 1, !.variant = "full",
                                       !.governor = "ondemand", !.clocks = "cur"]

WrapperBegins ==
  /\ main = "parse" /\ GoTo("devices")
  /\ settings' \in {WrapperSettings(s) : s \in Settings[plugin]}
  /\ UNCHANGED <<vars, runs, plugin, device, child, sync, measured, wrapped>>

\* The threads of the resources asked for.
WrapperInits ==
  /\ At("alloc") /\ GoTo("created")
  /\ MsInitMeasurement
  /\ thread' = IF plugin \in Resources THEN Kind ELSE Kind \ {Mine}
  /\ ms' = FreshMeasurement
  /\ UNCHANGED <<device, child, sync, hw, seen, wrapped>>

\* mstw_start, mshnw_start, ampehre_start.
WrapperStarts ==
  /\ At("created") /\ GoTo("start")
  /\ UNCHANGED <<vars, device, child, sync, measured, wrapped>>

WrapperStarted ==
  /\ At("start") /\ pc = "stopTimer" /\ GoTo("use")
  /\ UNCHANGED <<vars, device, child, sync, measured, wrapped>>

\* mstw_stop, mshnw_shutdown, ampehre_stop.
WrapperStops ==
  /\ At("use") /\ GoTo("stop")
  /\ UNCHANGED <<vars, device, child, sync, measured, wrapped>>

\* mstw_free, mshnw_free, ampehre_fini: nobody uses an interval any more.
WrapperFrees ==
  /\ At("print") /\ GoTo("fini")
  /\ \A v \in Interval : call[v] = NoCall
  /\ UNCHANGED <<vars, device, child, sync, measured, wrapped>>

WrapperMain ==
  \/ WrapperBegins \/ WrapperInits
  \/ WrapperStarts \/ WrapperStarted \/ WrapperStops \/ WrapperFrees
  \/ (InitSystem \/ StartMeasuring \/ StopMeasuring \/ FiniSystem) /\ UNCHANGED wrapped

-----------------------------------------------------------------------------
(* The threads that use the intervals.                                     *)

Measuring == main \in {"use", "stop", "print"}
Idle(v) == call[v] = NoCall /\ Measuring /\ plugin \in Resources

Begin(v, op) == call' = [call EXCEPT ![v] = [op |-> op, left |-> Quantities]]

\* mstw_start_measurement: its callers start and stop a phase in turns.
TaskStarts(v) ==
  /\ program = "task" /\ Idle(v) /\ ~started[v]
  /\ Begin(v, "start")

\* mshnw_start_measurement: a second start is refused.
NodeStarts(v) ==
  /\ program = "node" /\ Idle(v)
  /\ IF started[v] THEN UNCHANGED call ELSE Begin(v, "start")

StartsInterval(v) ==
  /\ main # "print" /\ calls[v] < MaxCalls
  /\ TaskStarts(v) \/ NodeStarts(v)
  /\ calls' = [calls EXCEPT ![v] = @ + 1]
  /\ UNCHANGED <<hvars, program, cell, started, inside>>

TaskStops(v) ==
  /\ program = "task" /\ Idle(v) /\ started[v]
  /\ Begin(v, "stop")

\* mshnw_stop_measurement: what was not started is not stopped.
NodeStops(v) ==
  /\ program = "node" /\ Idle(v) /\ started[v]
  /\ Begin(v, "stop")

StopsInterval(v) ==
  /\ TaskStops(v) \/ NodeStops(v)
  /\ UNCHANGED <<hvars, program, cell, started, calls, inside>>

\* mstw_capture_*_measure, set_measurement, get_diff_measurement: the next
\* quantity; with the last one the call is over.
Capture(v) ==
  /\ call[v] # NoCall /\ Measuring
  /\ LET op == call[v].op
         q == Head(call[v].left)
         rest == Tail(call[v].left)
     IN /\ cell' = [cell EXCEPT ![v][q] = Captured(op, @, q, Total(ms, q))]
        /\ inside' = [inside EXCEPT ![v][q] =
             [counts |-> op = "start",
              sum |-> IF op = "start" /\ program = "node" THEN 0 ELSE @.sum]]
        /\ call' = [call EXCEPT ![v] = IF rest = <<>> THEN NoCall ELSE [op |-> op, left |-> rest]]
        /\ started' = IF rest = <<>> THEN [started EXCEPT ![v] = op = "start"] ELSE started
  /\ UNCHANGED <<hvars, program, calls>>

-----------------------------------------------------------------------------
\* The worker adds to the sums, and so to the intervals that are open.
Counted ==
  inside' = [v \in Interval |-> [q \in Quantity |->
    [inside[v][q] EXCEPT !.sum = IF inside[v][q].counts
                                   THEN @ + Total(ms', q) - Total(ms, q) ELSE @]]]

WrapperThreads ==
  /\ Threads \/ WorkerExits \/ Elapse
  /\ Counted
  /\ UNCHANGED <<program, cell, started, call, calls>>

WNext ==
  \/ WrapperMain
  \/ \E v \in Interval : StartsInterval(v) \/ StopsInterval(v) \/ Capture(v)
  \/ WrapperThreads

WSpec == WInit /\ [][WNext]_wvars

-----------------------------------------------------------------------------
(* The property.                                                           *)

\* mshetsched_get_all: the transfer to the client of the scheduler.  It does
\* not ask whether an interval is still open.
Transfer == [v \in Interval |-> [q \in Quantity |-> cell[v][q].acc]]

\* What is kept of a phase, and sent, is what the worker has added between
\* its starts and stops, however they fall between its rounds.
TaskCounts(v, q) ==
  LET c == cell[v][q]
  IN inside[v][q].sum = Transfer[v][q] + IF inside[v][q].counts THEN Total(ms, q) - c.cur ELSE 0

\* The same of the last interval of a node, its server left out.
NodeCounts(v, q) ==
  LET c == cell[v][q]
  IN q # "server" =>
       inside[v][q].sum = IF inside[v][q].counts THEN Total(ms, q) - c.acc ELSE c.acc

\* taskwrapper, hetschedwrapper and hetnodewrapper: every interval gets the
\* energy that was used inside of it, wherever its start and its stop fall
\* between the rounds of the worker, which no lock keeps apart.
IntervalsCounted ==
  \A v \in Interval, q \in Quantity :
    /\ program = "task" => TaskCounts(v, q)
    /\ program = "node" => NodeCounts(v, q)
=============================================================================
