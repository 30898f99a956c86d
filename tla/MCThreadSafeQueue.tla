-------------------------- MODULE MCThreadSafeQueue --------------------------
(* ThreadSafeQueue for TLC.  The thread names are model values given in the  *)
(* cfg.  No symmetry is used: the runs check liveness.                       *)
EXTENDS ThreadSafeQueue

CONSTANTS p1, p2, c1

MCProducers == {p1, p2}
MCOneConsumer == {c1}
=============================================================================
