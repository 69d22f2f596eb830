---------------------------- MODULE MCMsmServer ----------------------------
(* A TLC instance of MsmServer: a server for two clients and three starts  *)
(* of a client's measurement.                                              *)
EXTENDS MsmServer, TLC

CONSTANTS first, second, third

MCConnection == {first, second, third}
Symmetry == Permutations(MCConnection)
=============================================================================
