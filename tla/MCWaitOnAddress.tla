--------------------------- MODULE MCWaitOnAddress ---------------------------
(* Waiting threads, one that writes and wakes, and the unloading one.       *)
EXTENDS WaitOnAddress, TLC

(* Waiting threads are interchangeable.                                     *)
Symmetry == Permutations(Waiter)
=============================================================================
