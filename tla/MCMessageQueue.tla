---------------------------- MODULE MCMessageQueue ----------------------------
(* Small instances of MessageQueue for TLC. *)
EXTENDS MessageQueue, TLC

CONSTANTS p1, p2, a, bb

\* One thread per process, named after it.
Alone == p1 :> p1 @@ p2 :> p2

\* A short message and a long one.
Lengths == a :> 1 @@ bb :> 2

\* Types that send() refuses or takes, and what receive() asks for: whatever is
\* first, or the lowest type up to 2.
MCTypes == {-1, 1, 2}
MCWants == {0, -2}

\* As unsigned long they are 1, and more than a queue may have.
MCCapacities == {2 * (LONG_MAX + 1) + 1, -1}

ReadWrite == {{"r", "w"}}
Perms == Permutations({p1, p2})

\* All of a state but how the last call of a thread ended, which no later step
\* reads; the action properties see it in the step that ends the call.
Ahead ==
  <<kernel, handle, buffer,
    [t \in Threads |-> IF call[t].pc = "idle" THEN "idle" ELSE call[t]]>>
=============================================================================
