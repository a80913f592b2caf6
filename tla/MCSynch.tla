------------------------------ MODULE MCSynch -------------------------------
(* Semaphores, locks and conditions on three threads. *)
EXTENDS Synch, TLC

CONSTANTS t1, t2, s1, l1, c1

MCThread == {Main, t1, t2}
MCInitialValue == [s \in Semaphore |-> 0]

Symmetry == Permutations({t1, t2})
=============================================================================
