----------------------------- MODULE MCMonitor -----------------------------
(* A TLC instance of Monitor: a form that plots raw samples and one that   *)
(* does not.                                                               *)
EXTENDS Monitor

CONSTANTS power, heatmap

MCForm == {power, heatmap}
MCPlot == {power}
=============================================================================
