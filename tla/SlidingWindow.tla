---------------------------- MODULE SlidingWindow ----------------------------
(***************************************************************************)
(* What a ring buffer of the monitor promises a plot: the last Size values *)
(* in the order in which they were pushed.                                 *)
(***************************************************************************)
EXTENDS Naturals

CONSTANTS Size, Value, Zero

VARIABLE window    \* window[Size] is the newest value

Init == window = [j \in 1 .. Size |-> Zero]

Push(v) ==
  window' = [j \in 1 .. Size |-> IF j = Size THEN v ELSE window[j + 1]]

Reset == window' = [j \in 1 .. Size |-> Zero]

Next == Reset \/ \E v \in Value : Push(v)

Spec == Init /\ [][Next]_window
=============================================================================
