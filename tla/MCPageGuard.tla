----------------------------- MODULE MCPageGuard -----------------------------
(* PageGuard for TLC: two threads, three pages, one of them the device's.    *)
EXTENDS PageGuard, TLC

MCWholeMemory == {Pages}
MCOptions ==
  {[separate_read |-> TRUE, persistent |-> FALSE, partial_tail |-> FALSE],
   [separate_read |-> FALSE, persistent |-> FALSE, partial_tail |-> FALSE],
   [separate_read |-> TRUE, persistent |-> TRUE, partial_tail |-> TRUE]}
MCDevicePages == {2}

MCSymmetry == Permutations(Threads)
=============================================================================
