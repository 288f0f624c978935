--------------------------- MODULE MCSemaphoreLock ---------------------------
(* Small instances of SemaphoreLock for TLC. *)
EXTENDS SemaphoreLock, TLC

CONSTANTS p1, p2, p3, p4, private, k1

\* One thread per process, named after it.
Alone == [p \in Procs |-> p]
Perms == Permutations(Procs)
=============================================================================
