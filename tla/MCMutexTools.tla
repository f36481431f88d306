------------------------------ MODULE MCMutexTools -----------------------------
(* Instances of MutexTools for TLC.                                        *)
EXTENDS MutexTools

\* An ordinary queue, the smallest one, one that is never not full, and a
\* negative capacity, which is never reached.
SomeCapacities == {2, 1, 0, -1}
=============================================================================
