------------------------------ MODULE MCRwLock ------------------------------
(* Three threads, which the lock does not tell apart.                      *)
EXTENDS RwLock, TLC

MCSymmetry == Permutations(Thread)

=============================================================================
