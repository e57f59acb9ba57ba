----------------------------- MODULE MCSpinLock -----------------------------
(* SpinLock for TLC: a handler and a system call take tickslock, and        *)
(* ptable.lock inside it (sleep() and wakeup()).                            *)
EXTENDS SpinLock, TLC

CONSTANT tickslock

MCRank == tickslock :> 1 @@ ptable :> 2

Symmetry == Permutations(Thread) \cup Permutations(CPU)

=============================================================================
