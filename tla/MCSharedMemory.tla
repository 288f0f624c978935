--------------------------- MODULE MCSharedMemory ---------------------------
(* Small instances of SharedMemory for TLC. *)
EXTENDS SharedMemory, TLC

CONSTANTS p1, p2, o1, o2, private, k1, a1, a2

\* Which process each variable belongs to.
OneEach    == o1 :> p1 @@ o2 :> p2
BothInOne  == o1 :> p1 @@ o2 :> p1

\* An offset is taken for an unsigned long: -1 is the largest.
MCOffsets    == {-1, 0, 1}
MCByteCounts == {-1, 0, 2}

ReadWrite == {{"r", "w"}}
MayLock   == {{}, {"r", "w"}}

NoFlags   == {{}}
MayRdonly == {{}, {"RDONLY"}}

\* The objects of one process may be exchanged, and of two processes each with
\* one object the processes together with their objects.
PlacesAndObjects ==
  {f @@ g : f \in Permutations({a1, a2}), g \in Permutations({o1, o2})}
ProcsWithObjects ==
  {f \in Permutations({p1, p2, o1, o2}) :
     \A o \in Objects : f[o] \in Objects /\ OneEach[f[o]] = f[OneEach[o]]}
=============================================================================
