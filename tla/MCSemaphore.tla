----------------------------- MODULE MCSemaphore -----------------------------
(* Small instances of Semaphore for TLC. *)
EXTENDS Semaphore, TLC

CONSTANTS p1, p2, t1, t2, private, k1, k2

MCDeltas == {0, 1}

\* One thread per process, named after it; or two threads of one process.
Alone  == p1 :> p1 @@ p2 :> p2
Shared == t1 :> p1 @@ t2 :> p1

Perms == Permutations({p1, p2})
=============================================================================
