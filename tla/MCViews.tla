------------------------------- MODULE MCViews -------------------------------
(* A TLC instance of what the two viewers show.  One part moves in a       *)
(* behaviour: the heatmaps of msmonitor or the window of the msmonitor_cs  *)
(* client.  msmonitor starts with a row in 30 ms, cells of 150 ms, 60 of   *)
(* 180 s shown and an axis that moves by 10 s: scaled down so that the     *)
(* divisions leave the same remainders.  The plots of the client hold 120  *)
(* rows and more: scaled down to 2, and 60 and 500 to 1 and 3.             *)
EXTENDS Heatmap, ClientWindow

MCValue == 0 .. MaxTime
MCInterval == {3, 4}

MCGarbage == -1
MCHighest == -1000000

MCViews == Kinds \cup {"UtilMaps", "TempMaps", "Overview"}
MCProcesses ==
  {<<>>, <<[kind |-> "f", pid |-> 1], [kind |-> "g", pid |-> 2], [kind |-> "g", pid |-> 3]>>}

VARIABLE viewer    \* which of the two programs runs

ViewersInit ==
  /\ HInit /\ CInit
  /\ viewer \in {"msmonitor", "msmonitor_cs"}
  /\ viewer = "msmonitor" => kind = "Overview"
ViewersNext ==
  /\ viewer' = viewer
  /\ \/ viewer = "msmonitor" /\ HNext /\ UNCHANGED cvars
     \/ viewer = "msmonitor_cs" /\ CNext /\ UNCHANGED hvars
ViewersSpec == ViewersInit /\ [][ViewersNext]_<<viewer, hvars, cvars>>
=============================================================================
