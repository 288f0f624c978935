---------------------------- MODULE SemaphoreLock ----------------------------
(***************************************************************************)
(* Processes that share a binary semaphore the way USAGE.md tells them to: *)
(* each runs the recipe of "Semaphore Initialization" (create with         *)
(* IPC_CREX, or open and poll o_time until the creator's release()), sets  *)
(* the undo attribute and then enters and leaves "with sem:" blocks.  Every*)
(* call is the whole action of module Semaphore.  A process may end at any *)
(* point, and be started again; a wait may be interrupted by a signal.     *)
(***************************************************************************)
EXTENDS Semaphore

CONSTANTS
  Key,        \* the key they have agreed upon
  UsesUndo,   \* the value each assigns to sem.undo
  Faults      \* what may go wrong: "crash", "signal"

ASSUME LockAssumption ==
  /\ Key \in Keys \ {IPC_PRIVATE}
  /\ UsesUndo \in BOOLEAN
  /\ Faults \subseteq {"crash", "signal"}
  /\ \A t, u \in Threads : ProcOf[t] = ProcOf[u] => t = u
  /\ SEMVMX >= 1

VARIABLE at   \* the statement each thread executes or has just executed

lockVars == <<vars, at>>

Goto(t, statement) == at' = [at EXCEPT ![t] = statement]

\* The call of this statement has come back.
Ended(t, statement, result) ==
  at[t] = statement /\ call[t] = [pc |-> "idle", res |-> result]

Inside(t) == Ended(t, "enter", "ok")

\* A process that leaves the block has the permit until semop gives it back.
Leaving(t) == at[t] = "exit" /\ call[t].pc = "semop"

Holds(t) == Inside(t) \/ Leaving(t)

----------------------------------------------------------------------------
(* The recipe.                                                             *)

Create(t) ==
  at[t] = "start" /\ Semaphore_init(t, Key, CREX, TRUE, 0) /\ Goto(t, "create")

\* except ExistentialError: sem = Semaphore(42)
Open(t) ==
  /\ Ended(t, "create", "Existential")
  /\ Semaphore_init(t, Key, {}, TRUE, 0) /\ Goto(t, "open")

\* Variant of Mark: the creator does not release, its semaphore is "ready".
MarkNothing(t) == Ended(t, "create", "ok") /\ sem_get(t) /\ Goto(t, "mark")

\* else: sem.release()
Mark(t) ==
  Ended(t, "create", "ok") /\ Semaphore_V(t, 1) /\ Goto(t, "mark")

\* Variant of Poll: the value of o_time is not looked at.
PollOnce(t) ==
  Ended(t, "open", "ok") /\ sem_get(t) /\ Goto(t, "poll")

\* while not sem.o_time: sleep; the turns that find zero change nothing.
Poll(t) ==
  /\ Ended(t, "open", "ok")
  /\ otime[handle[ProcOf[t]].id]
  /\ sem_get(t) /\ Goto(t, "poll")

----------------------------------------------------------------------------
(* The use.                                                                *)

SetUndo(t) ==
  /\ Ended(t, "mark", "ok") \/ Ended(t, "poll", "ok")
  /\ sem_set_undo(t, UsesUndo) /\ Goto(t, "undo")

\* "with sem:", for the first time, again, or after a signal broke the wait:
\* __enter__ has raised an exception then, and __exit__ is not called.
Enter(t) ==
  /\ \/ Ended(t, "undo", "ok") \/ Ended(t, "exit", "ok")
     \/ Ended(t, "enter", "Error")
  /\ Semaphore_enter(t) /\ Goto(t, "enter")

\* The block is left, by its end or by an exception.
Exit(t) == Inside(t) /\ Semaphore_exit(t) /\ Goto(t, "exit")

\* A call under way takes its next step.
Proceed(t) == (SetInitialValue(t) \/ Semop(t) \/ Wake(t)) /\ UNCHANGED at

Signal(t) == "signal" \in Faults /\ Interrupt(t) /\ UNCHANGED at

Crash(t) ==
  "crash" \in Faults /\ ExitProcess(ProcOf[t]) /\ Goto(t, "start")

LockInit == Init /\ at = [t \in Threads |-> "start"]

LockNext ==
  \E t \in Threads :
    \/ Create(t) \/ Open(t) \/ Mark(t) \/ Poll(t)
    \/ SetUndo(t) \/ Enter(t) \/ Exit(t)
    \/ Proceed(t) \/ Signal(t) \/ Crash(t)

LockSpec == LockInit /\ [][LockNext]_lockVars

\* A process goes on with the recipe and does not stay in a block for ever;
\* whether it enters one is its own affair.  The kernel serves the waiting
\* operations first come, first served: none is passed over for ever.
FairLockSpec ==
  /\ LockSpec
  /\ \A t \in Threads :
       /\ WF_lockVars(Create(t) \/ Open(t) \/ Mark(t) \/ Poll(t))
       /\ WF_lockVars(Exit(t)) /\ SF_lockVars(Proceed(t))

----------------------------------------------------------------------------
(* Properties.                                                             *)

Statements ==
  {"start", "create", "open", "mark", "poll", "undo", "enter", "exit"}

LockTypeOK == TypeOK /\ at \in [Threads -> Statements]

theSem == idOf[Key]
isSet  == theSem # NoId /\ otime[theSem]
free   == isSet /\ val[theSem] = 1

\* Never two processes inside: the recipe's purpose, with processes that
\* start at any time, end anywhere and are started again, and whatever value
\* the kernel left in the new semaphore.
MutualExclusion == \A t, u \in Threads : Inside(t) /\ Inside(u) => t = u

\* Once the creator has released the semaphore there is one permit: it is in
\* the semaphore or with the process inside, or just leaving.  With undo it is
\* there whatever happens, without undo unless a process has ended with it.
OnePermit ==
  isSet =>
    LET held == \E t \in Threads : Holds(t) IN
    /\ val[theSem] <= 1
    /\ val[theSem] = 1 => ~held
    /\ UsesUndo \/ "crash" \notin Faults => (val[theSem] = 1 <=> ~held)

\* The processes together implement Lock: the permit appears once, by the
\* creator's release, and moves only by __enter__, __exit__ and the undo of a
\* process that ends.
TheLock == INSTANCE Lock WITH
             Users <- Threads, Undone <- UsesUndo,
             isSet <- isSet, free <- free,
             holders <- {t \in Threads : Holds(t)}

ImplementsLock == TheLock!Spec

\* Who has begun is never sent back to the start.
NobodyCrashes == \A t \in Threads : [](at[t] # "start" => [](at[t] # "start"))

\* Where no process ends before its time, a process that runs the recipe gets
\* a semaphore that is safe to use: somebody sets o_time.
RecipeEnds ==
  NobodyCrashes =>
    \A t \in Threads :
      at[t] = "create" ~> Ended(t, "mark", "ok") \/ Ended(t, "poll", "ok")

\* Who waits to enter gets in, however often the others enter, unless a signal
\* breaks the wait or the process ends; with undo also if others end inside.
EveryoneEnters ==
  UsesUndo \/ "crash" \notin Faults =>
    \A t \in Threads :
      at[t] = "enter" ~>
        Inside(t) \/ Ended(t, "enter", "Error") \/ at[t] = "start"

=============================================================================
