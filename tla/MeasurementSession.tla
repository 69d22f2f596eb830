------------------------- MODULE MeasurementSession -------------------------
(***************************************************************************)
(* What libmeasure promises for one measurement: the requested kinds       *)
(* prepare, a gate opens when all of them are armed, they measure, and     *)
(* after the caller has ended the measurement all of them finish before    *)
(* the results are handed out.                                             *)
(***************************************************************************)
CONSTANT Kind    \* the kinds of resource

VARIABLES
  phase,         \* phase[k]: what the measurement of kind k is doing
  open,          \* has ms_start_measurement let the kinds go?
  ending         \* has ms_stop_measurement begun?

Phase == {"idle", "preparing", "armed", "measuring", "finished"}

TypeOK ==
  /\ phase \in [Kind -> Phase]
  /\ open \in BOOLEAN
  /\ ending \in BOOLEAN

Init ==
  /\ phase = [k \in Kind |-> "idle"]
  /\ open = FALSE
  /\ ending = FALSE

Step(k, from, to) ==
  /\ phase[k] = from
  /\ phase' = [phase EXCEPT ![k] = to]
  /\ UNCHANGED <<open, ending>>

\* Any set of kinds may be asked for, none of them too.
Prepare ==
  /\ \A k \in Kind : phase[k] = "idle"
  /\ \E S \in SUBSET Kind :
       phase' = [k \in Kind |-> IF k \in S THEN "preparing" ELSE "idle"]
  /\ UNCHANGED <<open, ending>>

Arm(k) == Step(k, "preparing", "armed")

Open ==
  /\ \A k \in Kind : phase[k] # "preparing"
  /\ open' = TRUE
  /\ UNCHANGED <<phase, ending>>

Measure(k) == open /\ Step(k, "armed", "measuring")

End ==
  /\ open
  /\ ending' = TRUE
  /\ UNCHANGED <<phase, open>>

Finish(k) == ending /\ Step(k, "measuring", "finished")

HandOut ==
  /\ ending
  /\ \A k \in Kind : phase[k] \in {"idle", "finished"}
  /\ phase' = [k \in Kind |-> "idle"]
  /\ open' = FALSE
  /\ ending' = FALSE

Next ==
  \/ Prepare \/ Open \/ End \/ HandOut
  \/ \E k \in Kind : Arm(k) \/ Measure(k) \/ Finish(k)

vars == <<phase, open, ending>>

Spec == Init /\ [][Next]_vars
=============================================================================
