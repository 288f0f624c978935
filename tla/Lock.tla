--------------------------------- MODULE Lock ---------------------------------
(***************************************************************************)
(* What a binary semaphore set up by the recipe of USAGE.md (Semaphore     *)
(* Initialization) promises the processes that use it: once it has been    *)
(* set up there is one permit, which is free, held by one user, or, when a *)
(* user that held it ended without SEM_UNDO, gone for good.                *)
(***************************************************************************)
EXTENDS FiniteSets

CONSTANTS
  Users,    \* those who may hold the lock
  Undone    \* whether the kernel gives back what a process that ends holds

VARIABLES
  isSet,    \* the lock has been set up
  free,     \* the permit is there to take
  holders   \* who holds it

Init == isSet = FALSE /\ free = FALSE /\ holders = {}

Set == isSet = FALSE /\ isSet' = TRUE /\ free' = TRUE /\ UNCHANGED holders

Acquire(u) ==
  free /\ free' = FALSE /\ holders' = holders \cup {u} /\ UNCHANGED isSet

Release(u) ==
  u \in holders /\ free' = TRUE /\ holders' = holders \ {u} /\ UNCHANGED isSet

Die(u) ==
  u \in holders /\ free' = Undone /\ holders' = holders \ {u} /\ UNCHANGED isSet

Next == Set \/ \E u \in Users : Acquire(u) \/ Release(u) \/ Die(u)

Spec == Init /\ [][Next]_<<isSet, free, holders>>
=============================================================================
