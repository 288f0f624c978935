------------------------- MODULE SemaphoreLockProofs -------------------------
(***************************************************************************)
(* Mutual exclusion of SemaphoreLock for any number of processes, with or  *)
(* without undo, crashes and signals, and whatever value the kernel leaves *)
(* in a new semaphore.  LockInv is the inductive invariant; it counts who  *)
(* leaves the block as holding the permit until semop has given it back.   *)
(* Each action has a lemma, and the actions that leave the kernel alone    *)
(* share one.                                                              *)
(***************************************************************************)
EXTENDS SemaphoreLock, SemaphoreProofs

USE ConstantsAssumption, LockAssumption

----------------------------------------------------------------------------
(* The invariant.                                                          *)

\* The undo attribute has been set.
Set(t) == at[t] \in {"undo", "enter", "exit"}

\* A call under way is the constructor's SETVAL, a release on its way into
\* semop, or an acquire, on its way there or waiting.
CallInv(t) ==
  /\ call[t].pc \in {"idle", "setval", "semop", "wait"}
  /\ call[t].pc = "setval" =>
       at[t] = "create" /\ call[t].id = theSem /\ call[t].init = 0
  /\ call[t].pc = "semop" => at[t] \in {"mark", "enter", "exit"}
  /\ call[t].pc = "wait" => at[t] = "enter"
  /\ call[t].pc \in {"semop", "wait"} =>
       /\ call[t].id = theSem
       /\ call[t].op = IF at[t] = "enter" THEN -1 ELSE 1
       /\ call[t].undo = (Set(t) /\ UsesUndo)

\* t has created the semaphore and not yet released it, though it may be about
\* to; and it has set its value.
Ready(t) ==
  Ended(t, "create", "ok") \/ (at[t] = "mark" /\ call[t].pc = "semop")

Creating(t) == (at[t] = "create" /\ call[t].pc = "setval") \/ Ready(t)

CreatorInv ==
  /\ \A t, u \in Threads : Creating(t) /\ Creating(u) => t = u
  /\ \A t \in Threads : Creating(t) => theSem # NoId /\ ~otime[theSem]
  /\ \A t \in Threads : Ready(t) => val[theSem] = 0

\* t has learnt that the semaphore is set up.
Knows(t) ==
  at[t] \in {"poll", "undo", "enter", "exit"} \/ Ended(t, "mark", "ok")

KernelInv ==
  /\ theSem # NoId => status[theSem] = "live" /\ writable[theSem]
  /\ \A i \in Ids : i # theSem => ~otime[i]
  /\ \A t \in Threads : Knows(t) => isSet

HandleInv ==
  \A t \in Threads :
    /\ handle[ProcOf[t]].id \in {NoId, theSem}
    /\ handle[ProcOf[t]].undo = (Set(t) /\ UsesUndo)

\* What the kernel will give back when the process of t ends.
UndoInv ==
  \A i \in Ids, t \in Threads :
    adj[i][ProcOf[t]] = IF i = theSem /\ Holds(t) /\ UsesUndo THEN 1 ELSE 0

PermitInv ==
  isSet => val[theSem] <= 1 /\ (val[theSem] = 1 => \A t \in Threads : ~Holds(t))

\* Two processes are never both inside, nor one inside while the other leaves.
OneHolder == \A t, u \in Threads : Holds(t) /\ Holds(u) => t = u

LockInv ==
  /\ LockTypeOK
  /\ \A t \in Threads : CallInv(t)
  /\ CreatorInv /\ KernelInv /\ HandleInv /\ UndoInv
  /\ PermitInv /\ OneHolder

\* What Lock sees of a state, and a step in which it sees nothing happen.
Holders == {t \in Threads : Holds(t)}
Stutter == UNCHANGED <<isSet, free, Holders>>

LEMMA LockInitInv == LockInit => LockInv
<1> SUFFICES ASSUME LockInit PROVE LockInv
  OBVIOUS
<1> USE DEF LockInit, Init, theSem, Ended, Holds, Inside, Leaving
<1>1. LockTypeOK
  <2>1. TypeOK
    BY InitType
  <2> QED
    BY <2>1 DEF LockTypeOK, Statements
<1>2. \A t \in Threads : CallInv(t)
  BY DEF CallInv
<1>3. CreatorInv /\ KernelInv /\ PermitInv /\ OneHolder
  BY DEF CreatorInv, Creating, Ready, KernelInv, Knows, PermitInv, isSet,
     OneHolder
<1>4. HandleInv
  BY DEF HandleInv, NoHandle, Set
<1>5. UndoInv
  BY DEF UndoInv, NoUndo
<1> QED
  BY <1>1, <1>2, <1>3, <1>4, <1>5 DEF LockInv

----------------------------------------------------------------------------
(* Steps that only t sees: the kernel is left alone.                       *)

\* A thread other than t sees no difference in where it is.
Others(t) ==
  \A u \in Threads \ {t} :
    /\ at'[u] = at[u] /\ call'[u] = call[u]
    /\ handle'[ProcOf[u]] = handle[ProcOf[u]]

LEMMA KernelLeftAlone ==
  ASSUME LockInv, NEW t \in Threads, LockTypeOK', Others(t),
         UNCHANGED kernel, CallInv(t)',
         Creating(t)' <=> Creating(t), Creating(t) /\ Ready(t)' => Ready(t),
         Holds(t)' <=> Holds(t), Knows(t)' => isSet,
         handle'[ProcOf[t]].id \in {NoId, theSem},
         handle'[ProcOf[t]].undo = (Set(t)' /\ UsesUndo)
  PROVE  LockInv' /\ Stutter
<1>1. /\ theSem' = theSem /\ isSet' = isSet /\ val' = val
      /\ otime' = otime /\ adj' = adj /\ status' = status
      /\ writable' = writable
  BY DEF kernel, theSem, isSet
<1>2. ASSUME NEW u \in Threads \ {t}
      PROVE  /\ CallInv(u)' /\ Creating(u)' = Creating(u)
             /\ Knows(u)' = Knows(u) /\ Holds(u)' = Holds(u)
             /\ Set(u)' = Set(u)
             /\ Ready(u)' = Ready(u)
  BY <1>1 DEF Others, LockInv, CallInv, Creating, Ready, Knows, Holds, Inside,
     Leaving, Ended, Set
<1>3. Ready(t)' => Creating(t)' /\ Ready(t)
  BY DEF Creating
<1>4. \A u \in Threads : CallInv(u)'
  BY <1>2
<1>5. CreatorInv'
  BY <1>1, <1>2, <1>3 DEF CreatorInv, LockInv
<1>6. KernelInv'
  BY <1>1, <1>2 DEF KernelInv, LockInv
<1>7. HandleInv'
  BY <1>1, <1>2 DEF HandleInv, LockInv, Others
<1>8. UndoInv'
  BY <1>1, <1>2 DEF UndoInv, LockInv
<1>9. PermitInv' /\ OneHolder'
  BY <1>1, <1>2 DEF PermitInv, OneHolder, LockInv
<1>10. Stutter
  BY <1>1, <1>2 DEF Stutter, Holders, free
<1> QED
  BY <1>4, <1>5, <1>6, <1>7, <1>8, <1>9, <1>10 DEF LockInv

\* The variables of a step of t, taken apart.
LEMMA StepParts ==
  ASSUME LockTypeOK, NEW t \in Threads, NEW s, NEW c, NEW h,
         at' = [at EXCEPT ![t] = s], call' = [call EXCEPT ![t] = c],
         handle' = [handle EXCEPT ![ProcOf[t]] = h]
  PROVE  Others(t) /\ at'[t] = s /\ call'[t] = c /\ handle'[ProcOf[t]] = h
BY DEF LockTypeOK, TypeOK, Others

LEMMA StepPartsSameObject ==
  ASSUME LockTypeOK, NEW t \in Threads, NEW s, NEW c,
         at' = [at EXCEPT ![t] = s], call' = [call EXCEPT ![t] = c],
         UNCHANGED handle
  PROVE  Others(t) /\ at'[t] = s /\ call'[t] = c
BY DEF LockTypeOK, TypeOK, Others

\* A call that changes nothing, or fails, and is not one that matters.
LEMMA PlainReturn ==
  ASSUME LockInv, LockTypeOK', NEW t \in Threads, NEW s, NEW result,
         at' = [at EXCEPT ![t] = s], Return(t, result),
         UNCHANGED <<kernel, handle>>,
         ~Creating(t), ~Holds(t),
         s \in {"create", "enter"} => result # "ok",
         s \in {"poll", "undo", "enter", "exit"} \/ (s = "mark" /\ result = "ok")
           => isSet,
         s \in {"undo", "enter", "exit"} <=> Set(t)
  PROVE  LockInv' /\ Stutter
<1> DEFINE c == [pc |-> "idle", res |-> result]
<1>1. Others(t) /\ at'[t] = s /\ call'[t] = c
  <2>1. call' = [call EXCEPT ![t] = c]
    BY DEF Return
  <2>2. LockTypeOK
    BY DEF LockInv
  <2> HIDE DEF c
  <2> QED
    BY <2>1, <2>2, StepPartsSameObject
<1>2. CallInv(t)' /\ ~Creating(t)' /\ ~Holds(t)'
  BY <1>1 DEF CallInv, Creating, Ready, Holds, Inside, Leaving, Ended
<1>3. Knows(t)' => isSet
  BY <1>1 DEF Knows, Ended
<1>4. /\ handle'[ProcOf[t]].id \in {NoId, theSem}
      /\ handle'[ProcOf[t]].undo = (Set(t)' /\ UsesUndo)
  BY <1>1 DEF LockInv, HandleInv, Set
<1> QED
  BY <1>1, <1>2, <1>3, <1>4, KernelLeftAlone

LEMMA ErrorsAreErrors ==
  ASSUME NEW errno \in Errnos
  PROVE  sem_set_error[errno] # "ok"
BY DEF Errnos, sem_set_error

LEMMA PlainFailure ==
  ASSUME LockInv, LockTypeOK', NEW t \in Threads, NEW s, NEW errno \in Errnos,
         at' = [at EXCEPT ![t] = s], Fail(t, errno),
         ~Creating(t), ~Holds(t),
         s \in {"poll", "undo", "enter", "exit"} => isSet,
         s \in {"undo", "enter", "exit"} <=> Set(t)
  PROVE  LockInv' /\ Stutter
<1>1. sem_set_error[errno] # "ok"
  BY ErrorsAreErrors
<1>2. ASSUME s = "mark" PROVE sem_set_error[errno] # "ok"
  BY <1>1
<1> QED
  BY <1>1, PlainReturn DEF Fail

\* Where a thread whose last call has ended is.
LEMMA EndedParts ==
  ASSUME NEW t \in Threads, NEW s, NEW result, Ended(t, s, result)
  PROVE  /\ at[t] = s /\ call[t].pc = "idle" /\ call[t].res = result
         /\ Holds(t) <=> s = "enter" /\ result = "ok"
         /\ Creating(t) <=> s = "create" /\ result = "ok"
BY DEF Ended, Holds, Inside, Leaving, Creating, Ready

\* Every action leaves the types as they were.
LEMMA LockStepType ==
  ASSUME LockTypeOK, NEW t \in Threads,
         \/ Create(t) \/ Open(t) \/ Mark(t) \/ Poll(t) \/ SetUndo(t)
         \/ Enter(t) \/ Exit(t) \/ Proceed(t) \/ Signal(t) \/ Crash(t)
  PROVE  LockTypeOK'
<1> USE DEF LockTypeOK
<1>1. at' \in [Threads -> Statements]
  BY DEF Create, Open, Mark, Poll, SetUndo, Enter, Exit, Proceed, Signal,
     Crash, Goto, Statements
<1>2. ASSUME Create(t) \/ Open(t) PROVE TypeOK'
  <2>1. CREX \in Flags /\ {} \in Flags /\ Key \in Keys \cup {None}
        /\ TRUE \in BOOLEAN /\ 0 \in Int
    BY DEF CREX, Flags
  <2> QED
    BY <1>2, <2>1, SemaphoreInitType DEF Create, Open
<1>3. ASSUME Mark(t) \/ Enter(t) \/ Exit(t) PROVE TypeOK'
  <2>1. 1 \in Short
    BY DEF Short
  <2>2. Operates(t)
    BY <1>3, <2>1 DEF Operates, Mark, Enter, Exit, Semaphore_V, Semaphore_P,
       Semaphore_enter, Semaphore_exit
  <2> QED
    BY <2>2, PerformSemopType
<1>4. ASSUME Poll(t) PROVE TypeOK'
  BY <1>4, GetType DEF Poll
<1>5. ASSUME SetUndo(t) PROVE TypeOK'
  BY <1>5, SetFlagType DEF SetUndo
<1>6. ASSUME Proceed(t) \/ Signal(t) PROVE TypeOK'
  BY <1>6, SetInitialValueType, SemopType, WaiterType DEF Proceed, Signal
<1>7. ASSUME Crash(t) PROVE TypeOK'
  BY <1>7, ExitProcessType DEF Crash
<1> QED
  BY <1>1, <1>2, <1>3, <1>4, <1>5, <1>6, <1>7

----------------------------------------------------------------------------
(* The recipe.                                                             *)

\* Where nothing has been created nobody is past the beginning.
LEMMA NothingYet ==
  ASSUME LockInv, theSem = NoId
  PROVE  \A u \in Threads :
           ~Knows(u) /\ ~Creating(u) /\ ~Holds(u) /\ call[u].pc = "idle"
<1>1. \A u \in Threads : ~Knows(u) /\ ~Creating(u)
  BY DEF LockInv, KernelInv, CreatorInv, isSet
<1>2. \A u \in Threads : ~Holds(u) /\ call[u].pc = "idle"
  BY <1>1 DEF Holds, Inside, Leaving, Ended, Knows, Creating, Ready, LockInv,
     CallInv
<1> QED
  BY <1>1, <1>2

\* The creator's semget.
LEMMA CreateInv ==
  ASSUME LockInv, LockTypeOK', NEW t \in Threads, Create(t)
  PROVE  LockInv' /\ Stutter
<1> DEFINE errno == SemgetErrno(Key, CREX, TRUE)
<1>1. /\ at[t] = "start" /\ at' = [at EXCEPT ![t] = "create"]
      /\ call[t].pc = "idle" /\ ~Creating(t) /\ ~Holds(t) /\ ~Set(t)
  BY DEF Create, Goto, Semaphore_init, CanCall, Creating, Ready, Holds, Inside,
     Leaving, Ended, Set
<1>2. Semget(t, Key, CREX, TRUE, 0)
  <2>1. ~BadFlags(Key, CREX) /\ Key # None
    BY DEF BadFlags, CREX
  <2> QED
    BY <2>1 DEF Create, Semaphore_init
<1>3. CASE errno # "none" /\ Fail(t, errno)
  <2>1. errno \in Errnos
    BY <1>3, SemgetErrnos
  <2> QED
    BY <1>1, <1>3, <2>1, PlainFailure
<1>4. ASSUME errno = "none", ~Exists(Key), NEW i \in Ids, Allocate(Key, i, TRUE),
             Obtained(t, Key, i, CREX, TRUE, 0)
      PROVE  LockInv' /\ Stutter
  <2>0. PICK made : made = ~Exists(Key)
    OBVIOUS
  <2> DEFINE c == [pc |-> "setval", key |-> Key, id |-> i, made |-> made,
                   flags |-> CREX, init |-> 0]
  <2>1. theSem = NoId
    BY <1>4 DEF Exists, theSem
  <2>2. /\ theSem' = i /\ status'[i] = "live" /\ writable'[i] = TRUE
        /\ otime' = otime /\ adj' = adj
    BY <1>4 DEF Allocate, theSem, LockInv, LockTypeOK, TypeOK
  <2>3. call' = [call EXCEPT ![t] = c] /\ handle' = handle
    <3>1. SetsInitialValue(CREX, TRUE)
      BY DEF SetsInitialValue, CREX
    <3> QED
      BY <1>4, <2>0, <3>1, Zenon DEF Obtained
  <2>4. Others(t) /\ at'[t] = "create" /\ call'[t] = c
    <3> HIDE DEF c
    <3>1. LockTypeOK
      BY DEF LockInv
    <3> QED
      BY <1>1, <2>3, <3>1, StepPartsSameObject
  <2>5. \A u \in Threads :
          ~Knows(u) /\ ~Creating(u) /\ ~Holds(u) /\ call[u].pc = "idle"
    BY <2>1, NothingYet
  <2>6. \A j \in Ids : ~otime[j]
    BY <2>1 DEF LockInv, KernelInv, NoId, Ids
  <2>7. \A u \in Threads : ~Knows(u)' /\ ~Holds(u)' /\ ~Ready(u)'
    BY <2>4, <2>5 DEF Others, Knows, Holds, Inside, Leaving, Ended, Creating,
       Ready
  <2>8. \A u \in Threads \ {t} : ~Creating(u)' /\ call'[u].pc = "idle"
    BY <2>4, <2>5 DEF Others, Creating, Ready, Ended
  <2>9. \A u \in Threads : CallInv(u)'
    BY <2>2, <2>4, <2>8 DEF CallInv
  <2>10. CreatorInv'
    BY <2>2, <2>6, <2>7, <2>8 DEF CreatorInv, Ids, NoId
  <2>11. KernelInv'
    BY <2>2, <2>6, <2>7 DEF KernelInv
  <2>12. HandleInv'
    <3>1. \A u \in Threads : handle[ProcOf[u]].id = NoId
      BY <2>1 DEF LockInv, HandleInv
    <3>2. \A u \in Threads : Set(u)' = Set(u)
      BY <1>1, <2>4 DEF Others, Set
    <3> QED
      BY <2>3, <3>1, <3>2 DEF HandleInv, LockInv
  <2>13. UndoInv'
    BY <2>2, <2>5, <2>7 DEF UndoInv, LockInv
  <2>14. PermitInv' /\ OneHolder'
    BY <2>2, <2>6, <2>7 DEF PermitInv, OneHolder, isSet
  <2>15. Stutter
    <3>1. isSet = FALSE /\ isSet' = FALSE
      BY <2>1, <2>2, <2>6 DEF isSet
    <3>2. Holders' = Holders
      BY <2>5, <2>7 DEF Holders
    <3> QED
      BY <3>1, <3>2 DEF Stutter, free
  <2> QED
    BY <2>9, <2>10, <2>11, <2>12, <2>13, <2>14, <2>15 DEF LockInv
<1>5. ~(errno = "none" /\ Exists(Key))
  BY DEF SemgetErrno
<1> QED
  BY <1>2, <1>3, <1>4, <1>5 DEF Semget

\* The other processes' semget.
LEMMA OpenInv ==
  ASSUME LockInv, LockTypeOK', NEW t \in Threads, Open(t)
  PROVE  LockInv' /\ Stutter
<1> DEFINE errno == SemgetErrno(Key, {}, TRUE)
<1>1. /\ at[t] = "create" /\ at' = [at EXCEPT ![t] = "open"]
      /\ ~Creating(t) /\ ~Holds(t) /\ ~Set(t)
  BY EndedParts DEF Open, Goto, Set
<1>2. Semget(t, Key, {}, TRUE, 0)
  <2>1. ~BadFlags(Key, {}) /\ Key # None
    BY DEF BadFlags
  <2> QED
    BY <2>1 DEF Open, Semaphore_init
<1>3. CASE errno # "none" /\ Fail(t, errno)
  <2>1. errno \in Errnos
    BY <1>3, SemgetErrnos
  <2> QED
    BY <1>1, <1>3, <2>1, PlainFailure
<1>4. CASE /\ errno = "none" /\ Exists(Key)
           /\ Obtained(t, Key, idOf[Key], {}, TRUE, 0) /\ UNCHANGED kernel
  <2> DEFINE c == [pc |-> "idle", res |-> "ok"]
             h == [key |-> Key, id |-> theSem, block |-> TRUE, undo |-> FALSE]
  <2>1. /\ call' = [call EXCEPT ![t] = c]
        /\ handle' = [handle EXCEPT ![ProcOf[t]] = h]
    BY <1>4 DEF Obtained, SetsInitialValue, Return, NewHandle, theSem
  <2>2. Others(t) /\ at'[t] = "open" /\ call'[t] = c /\ handle'[ProcOf[t]] = h
    <3> HIDE DEF c, h
    <3>1. LockTypeOK
      BY DEF LockInv
    <3> QED
      BY <1>1, <2>1, <3>1, StepParts
  <2>3. CallInv(t)' /\ ~Creating(t)' /\ ~Holds(t)' /\ ~Knows(t)' /\ ~Set(t)'
    BY <2>2 DEF CallInv, Creating, Ready, Holds, Inside, Leaving, Ended, Knows,
       Set
  <2>4. handle'[ProcOf[t]].id = theSem /\ handle'[ProcOf[t]].undo = FALSE
    BY <2>2
  <2> QED
    BY <1>1, <1>4, <2>2, <2>3, <2>4, KernelLeftAlone
<1>5. ~(errno = "none" /\ ~Exists(Key))
  BY DEF SemgetErrno
<1> QED
  BY <1>2, <1>3, <1>4, <1>5 DEF Semget

\* What acquire() and release() ask for.
LEMMA SemOps == SemOp("P", 1) = -1 /\ SemOp("V", 1) = 1
BY DEF SemOp, ToShort, Abs

\* An operation sets out on its way to semop, with what the object says now;
\* nothing has happened to the semaphore yet.
LEMMA SetsOut ==
  ASSUME NEW t \in Threads, NEW type, NEW timeout,
         sem_perform_semop(t, type, 1, timeout)
  PROVE  /\ UNCHANGED <<kernel, handle>> /\ handle[ProcOf[t]].id # NoId
         /\ call[t].pc = "idle"
         /\ \E c : /\ call' = [call EXCEPT ![t] = c]
                   /\ c.pc = "semop" /\ c.op = SemOp(type, 1)
                   /\ c.id = handle[ProcOf[t]].id
                   /\ c.undo = handle[ProcOf[t]].undo
<1> DEFINE h == handle[ProcOf[t]]
           c == [pc |-> "semop", op |-> SemOp(type, 1), id |-> h.id,
                 undo |-> h.undo, block |-> h.block, timeout |-> timeout]
<1>1. call' = [call EXCEPT ![t] = c]
  BY DEF sem_perform_semop
<1>2. /\ c.pc = "semop" /\ c.op = SemOp(type, 1) /\ c.id = h.id
      /\ c.undo = h.undo
  OBVIOUS
<1>3. /\ UNCHANGED <<kernel, handle>> /\ handle[ProcOf[t]].id # NoId
      /\ call[t].pc = "idle"
  BY DEF sem_perform_semop, CanUse, CanCall
<1> HIDE DEF c
<1> QED
  BY <1>1, <1>2, <1>3

\* The creator sets out to release, a user to enter, or to leave.
LEMMA SetOutInv ==
  ASSUME LockInv, LockTypeOK', NEW t \in Threads, Mark(t) \/ Enter(t) \/ Exit(t)
  PROVE  LockInv' /\ Stutter
<1> DEFINE s == at'[t]
<1>1. PICK op \in {-1, 1} :
        /\ \E type, timeout : /\ sem_perform_semop(t, type, 1, timeout)
                              /\ SemOp(type, 1) = op
        /\ op = IF s = "enter" THEN -1 ELSE 1
  <2>1. at \in [Threads -> Statements]
    BY DEF LockInv, LockTypeOK
  <2>2. CASE Mark(t)
    BY <2>1, <2>2, SemOps DEF Mark, Semaphore_V, Goto
  <2>3. CASE Enter(t)
    BY <2>1, <2>3, SemOps DEF Enter, Semaphore_enter, Semaphore_P, Goto
  <2>4. CASE Exit(t)
    BY <2>1, <2>4, SemOps DEF Exit, Semaphore_exit, Semaphore_V, Goto
  <2> QED
    BY <2>2, <2>3, <2>4
<1>2. /\ UNCHANGED <<kernel, handle>> /\ handle[ProcOf[t]].id # NoId
      /\ call[t].pc = "idle"
  BY <1>1, SetsOut
<1>3. PICK c : /\ call' = [call EXCEPT ![t] = c]
               /\ c.pc = "semop" /\ c.op = op
               /\ c.id = handle[ProcOf[t]].id
               /\ c.undo = handle[ProcOf[t]].undo
  BY <1>1, SetsOut
<1>4. at' = [at EXCEPT ![t] = s] /\ Others(t) /\ call'[t] = c
  <2>1. at' = [at EXCEPT ![t] = s]
    BY DEF Mark, Enter, Exit, Goto, LockInv, LockTypeOK
  <2>2. LockTypeOK /\ UNCHANGED handle
    BY <1>2 DEF LockInv
  <2> HIDE DEF s
  <2> QED
    BY <1>3, <2>1, <2>2, StepPartsSameObject
<1>5. /\ theSem' = theSem /\ c.id = theSem
      /\ c.undo = (Set(t) /\ UsesUndo)
  BY <1>2, <1>3 DEF kernel, theSem, LockInv, HandleInv
<1>6. /\ s \in {"mark", "enter", "exit"} /\ Set(t)' = Set(t)
      /\ Knows(t)' => isSet
      /\ Creating(t)' <=> Creating(t)
      /\ Creating(t) /\ Ready(t)' => Ready(t)
      /\ Holds(t)' <=> Holds(t)
  <2>1. at \in [Threads -> Statements]
    BY DEF LockInv, LockTypeOK
  <2>2. CASE Mark(t)
    <3>1. at[t] = "create" /\ s = "mark" /\ Creating(t) /\ Ready(t) /\ ~Holds(t)
      BY <2>1, <2>2, EndedParts DEF Mark, Goto, Ready
    <3> QED
      BY <1>3, <1>4, <3>1 DEF Set, Knows, Creating, Ready, Ended, Holds,
         Inside, Leaving
  <2>3. CASE Enter(t)
    <3>1. s = "enter" /\ ~Creating(t) /\ ~Holds(t) /\ Set(t)
      BY <2>1, <2>3, EndedParts DEF Enter, Goto, Set
    <3>2. isSet
      BY <3>1 DEF LockInv, KernelInv, Knows, Set
    <3> QED
      BY <1>3, <1>4, <3>1, <3>2 DEF Set, Creating, Ready, Ended, Holds, Inside,
         Leaving
  <2>4. CASE Exit(t)
    <3>1. s = "exit" /\ ~Creating(t) /\ Holds(t) /\ Set(t)
      BY <2>1, <2>4, EndedParts DEF Exit, Goto, Set, Inside
    <3>2. isSet
      BY <3>1 DEF LockInv, KernelInv, Knows, Set
    <3> QED
      BY <1>3, <1>4, <3>1, <3>2 DEF Set, Creating, Ready, Ended, Holds, Inside,
         Leaving
  <2> QED
    BY <2>2, <2>3, <2>4
<1>7. CallInv(t)'
  BY <1>1, <1>3, <1>4, <1>5, <1>6 DEF CallInv
<1>8. /\ handle'[ProcOf[t]].id \in {NoId, theSem}
      /\ handle'[ProcOf[t]].undo = (Set(t)' /\ UsesUndo)
  BY <1>2, <1>6 DEF LockInv, HandleInv
<1> QED
  BY <1>2, <1>4, <1>6, <1>7, <1>8, KernelLeftAlone

\* A release that finds the semaphore live, writable and below its limit.
LEMMA ReleaseParts ==
  ASSUME LockTypeOK, NEW t \in Threads, Semop(t), NEW i \in Ids,
         call[t].id = i, call[t].op = 1, status[i] = "live", writable[i],
         val[i] = 0, call[t].undo => adj[i][ProcOf[t]] = 1
  PROVE  /\ val' = [val EXCEPT ![i] = 1]
         /\ otime' = [otime EXCEPT ![i] = TRUE]
         /\ adj' = IF call[t].undo
                   THEN [adj EXCEPT ![i][ProcOf[t]] = 0] ELSE adj
         /\ Return(t, "ok")
         /\ UNCHANGED <<idOf, status, writable, handle>>
<1>1. PICK c : c = call[t]
  OBVIOUS
<1>2. c.id = i /\ c.op = 1 /\ (c.undo => adj[i][ProcOf[t]] = 1)
  BY <1>1
<1>3. ~WouldBlock(c) /\ ~OutOfRange(t, c)
  BY <1>2 DEF WouldBlock, OutOfRange
<1>4. Perform(t, c)
  BY <1>1, <1>2, <1>3 DEF Semop, Arguments, Complete
<1>5. val' = [val EXCEPT ![i] = val[i] + 1]
  BY <1>2, <1>4 DEF Perform
<1>6. c.undo => adj' = [adj EXCEPT ![i][ProcOf[t]] = adj[i][ProcOf[t]] - 1]
  BY <1>2, <1>4 DEF Perform
<1>7. ~c.undo => adj' = adj
  BY <1>2, <1>4 DEF Perform
<1>8. adj' = IF c.undo THEN [adj EXCEPT ![i][ProcOf[t]] = 0] ELSE adj
  BY <1>2, <1>6, <1>7
<1>9. val' = [val EXCEPT ![i] = 1]
  BY <1>5
<1>10. /\ otime' = [otime EXCEPT ![i] = TRUE] /\ Return(t, "ok")
       /\ UNCHANGED <<idOf, status, writable, handle>>
  BY <1>2, <1>4 DEF Perform
<1> QED
  BY <1>1, <1>8, <1>9, <1>10

\* The creator's release reaches the semaphore: the permit appears.
LEMMA MarkedInv ==
  ASSUME LockInv, LockTypeOK', NEW t \in Threads, at[t] = "mark", Semop(t),
         UNCHANGED at
  PROVE  LockInv' /\ TheLock!Set
<1> DEFINE i == theSem
           c == [pc |-> "idle", res |-> "ok"]
<1>1. /\ Ready(t) /\ Creating(t) /\ call[t].pc = "semop"
      /\ at' = [at EXCEPT ![t] = "mark"]
  BY DEF Semop, Ready, Creating, LockInv, LockTypeOK
<1>2. theSem \in Ids /\ ~otime[theSem] /\ val[theSem] = 0
  BY <1>1 DEF LockInv, CreatorInv, LockTypeOK, TypeOK, theSem
<1>3. /\ call[t].id = theSem /\ call[t].op = 1 /\ call[t].undo = FALSE
      /\ status[theSem] = "live" /\ writable[theSem]
  <2>1. call[t].id = theSem /\ call[t].op = 1
    BY <1>1 DEF LockInv, CallInv
  <2>2. call[t].undo = FALSE
    BY <1>1, Zenon DEF LockInv, CallInv, Set
  <2>3. status[theSem] = "live" /\ writable[theSem]
    BY <1>2 DEF LockInv, KernelInv, NoId, Ids
  <2> QED
    BY <2>1, <2>2, <2>3
<1>4. /\ val' = [val EXCEPT ![i] = 1] /\ otime' = [otime EXCEPT ![i] = TRUE]
      /\ adj' = adj /\ Return(t, "ok")
      /\ UNCHANGED <<idOf, status, writable, handle>>
  <2>1. LockTypeOK
    BY DEF LockInv
  <2> QED
    BY <1>2, <1>3, <2>1, ReleaseParts
<1>5. Others(t) /\ at'[t] = "mark" /\ call'[t] = c
  <2>1. call' = [call EXCEPT ![t] = c]
    BY <1>4 DEF Return
  <2>2. UNCHANGED handle
    BY <1>4
  <2>3. LockTypeOK
    BY DEF LockInv
  <2> HIDE DEF c
  <2> QED
    BY <1>1, <2>1, <2>2, <2>3, StepPartsSameObject
<1>6. /\ theSem' = i /\ isSet' /\ val'[i] = 1 /\ otime'[i]
      /\ status'[i] = "live" /\ writable'[i]
  BY <1>2, <1>3, <1>4 DEF theSem, isSet, NoId, Ids, LockInv, LockTypeOK, TypeOK
<1>7. \A u \in Threads : ~Knows(u) /\ ~Holds(u)
  BY <1>2 DEF LockInv, KernelInv, isSet, Knows, Holds, Inside, Leaving, Ended
<1>8. \A u \in Threads \ {t} : ~Creating(u)
  BY <1>1 DEF LockInv, CreatorInv
<1>9. \A u \in Threads :
        /\ ~Holds(u)' /\ ~Creating(u)' /\ ~Ready(u)'
        /\ Set(u)' = Set(u)
  BY <1>1, <1>5, <1>7, <1>8 DEF Others, Holds, Inside, Leaving, Creating,
     Ready, Ended, Set
<1>10. \A u \in Threads : CallInv(u)'
  <2>1. CallInv(t)'
    BY <1>5 DEF CallInv
  <2>2. \A u \in Threads \ {t} : CallInv(u)'
    BY <1>5, <1>6 DEF CallInv, Others, LockInv, Set
  <2> QED
    BY <2>1, <2>2
<1>11. CreatorInv'
  BY <1>9 DEF CreatorInv
<1>12. KernelInv'
  BY <1>4, <1>6 DEF KernelInv, LockInv
<1>13. HandleInv'
  BY <1>4, <1>6, <1>9 DEF HandleInv, LockInv
<1>14. UndoInv'
  BY <1>4, <1>6, <1>7, <1>9 DEF UndoInv, LockInv
<1>15. PermitInv' /\ OneHolder'
  BY <1>6, <1>9 DEF PermitInv, OneHolder
<1>16. TheLock!Set
  <2>1. \A u \in Threads : Holds(u)' = Holds(u)
    BY <1>7, <1>9 DEF Holds, Inside, Leaving, Ended
  <2>2. isSet = FALSE /\ isSet' = TRUE /\ free' = TRUE
    BY <1>2, <1>6 DEF isSet, free
  <2> QED
    BY <2>1, <2>2 DEF TheLock!Set
<1> QED
  BY <1>10, <1>11, <1>12, <1>13, <1>14, <1>15, <1>16 DEF LockInv

\* o_time is found set.
LEMMA PollInv ==
  ASSUME LockInv, LockTypeOK', NEW t \in Threads, Poll(t)
  PROVE  LockInv' /\ Stutter
<1>1. /\ at[t] = "open" /\ at' = [at EXCEPT ![t] = "poll"]
      /\ ~Creating(t) /\ ~Holds(t) /\ ~Set(t)
  BY EndedParts DEF Poll, Goto, Set
<1>2. isSet
  <2>1. handle[ProcOf[t]].id # NoId
    BY DEF Poll, sem_get, CanUse
  <2> QED
    BY <2>1 DEF Poll, LockInv, HandleInv, isSet
<1>3. CASE Fail(t, "EINVAL")
  <2>1. "EINVAL" \in Errnos
    BY DEF Errnos
  <2> QED
    BY <1>1, <1>2, <1>3, <2>1, PlainFailure
<1>4. CASE Return(t, "ok") /\ UNCHANGED <<kernel, handle>>
  BY <1>1, <1>2, <1>4, PlainReturn
<1> QED
  BY <1>3, <1>4 DEF Poll, sem_get

LEMMA SetUndoInv ==
  ASSUME LockInv, LockTypeOK', NEW t \in Threads, SetUndo(t)
  PROVE  LockInv' /\ Stutter
<1> DEFINE p == ProcOf[t]
           c == [pc |-> "idle", res |-> "ok"]
           h == [handle[p] EXCEPT !.undo = UsesUndo]
<1>1. ~Creating(t) /\ ~Holds(t) /\ Knows(t) /\ at' = [at EXCEPT ![t] = "undo"]
  BY EndedParts DEF SetUndo, Goto, Knows
<1>2. isSet
  BY <1>1 DEF LockInv, KernelInv
<1>3. call' = [call EXCEPT ![t] = c] /\ UNCHANGED kernel
  BY DEF SetUndo, sem_set_undo, Return
<1>4. handle' = [handle EXCEPT ![p] = h]
  BY DEF SetUndo, sem_set_undo
<1>5. h.id \in {NoId, theSem} /\ h.undo = UsesUndo
  <2>1. handle[p].id \in {NoId, theSem}
    BY DEF LockInv, HandleInv
  <2>2. handle[p] \in Handle
    BY UsedHandle DEF SetUndo, sem_set_undo, LockInv, LockTypeOK
  <2> QED
    BY <2>1, <2>2 DEF Handle
<1>6. Others(t) /\ at'[t] = "undo" /\ call'[t] = c /\ handle'[p] = h
  <2>1. LockTypeOK
    BY DEF LockInv
  <2>2. call' = [call EXCEPT ![t] = c]
    BY <1>3
  <2> HIDE DEF c, h
  <2> QED
    BY <1>1, <1>4, <2>1, <2>2, StepParts
<1>7. CallInv(t)' /\ ~Creating(t)' /\ ~Holds(t)' /\ Set(t)'
  BY <1>6 DEF CallInv, Creating, Ready, Holds, Inside, Leaving, Ended, Set
<1>8. handle'[p].id \in {NoId, theSem} /\ handle'[p].undo = (Set(t)' /\ UsesUndo)
  <2> HIDE DEF h
  <2> QED
    BY <1>5, <1>6, <1>7
<1> QED
  BY <1>1, <1>2, <1>3, <1>6, <1>7, <1>8, KernelLeftAlone

----------------------------------------------------------------------------
(* Entering and leaving.                                                   *)

\* A user's operation is carried out and takes the permit, at once or after
\* a wait.
LEMMA AcquiredInv ==
  ASSUME LockInv, LockTypeOK', NEW t \in Threads, NEW c,
         c.id = theSem, c.op = -1, c.undo = UsesUndo,
         ~WouldBlock(c), Perform(t, c),
         at' = [at EXCEPT ![t] = "enter"], Set(t), isSet, ~Holds(t)
  PROVE  LockInv' /\ TheLock!Acquire(t)
<1> DEFINE i == theSem
           ok == [pc |-> "idle", res |-> "ok"]
<1>1. i \in Ids /\ val[i] = 1 /\ \A u \in Threads : ~Holds(u)
  <2>1. i \in Ids
    BY DEF isSet, theSem, LockInv, LockTypeOK, TypeOK
  <2>2. val[i] \in 0..SEMVMX
    BY <2>1 DEF LockInv, LockTypeOK, TypeOK
  <2>3. val[i] + -1 >= 0
    BY <2>2 DEF WouldBlock
  <2>4. val[i] = 1
    BY <2>2, <2>3 DEF LockInv, PermitInv
  <2> QED
    BY <2>1, <2>4 DEF LockInv, PermitInv
<1>2. adj[i][ProcOf[t]] = 0 /\ \A u \in Threads : ~Creating(u)
  BY <1>1 DEF LockInv, UndoInv, CreatorInv, isSet
<1>3. val' = [val EXCEPT ![i] = 0]
  <2>1. val' = [val EXCEPT ![i] = val[i] + -1]
    BY DEF Perform
  <2> QED
    BY <1>1, <2>1
<1>4. adj' = IF UsesUndo THEN [adj EXCEPT ![i][ProcOf[t]] = 1] ELSE adj
  <2>1. UsesUndo => adj' = [adj EXCEPT ![i][ProcOf[t]] = adj[i][ProcOf[t]] - (-1)]
    BY DEF Perform
  <2>2. ~UsesUndo => adj' = adj
    BY DEF Perform
  <2> QED
    BY <1>2, <2>1, <2>2
<1>5. /\ otime' = [otime EXCEPT ![i] = TRUE] /\ call' = [call EXCEPT ![t] = ok]
      /\ UNCHANGED <<idOf, status, writable, handle>>
  BY DEF Perform, Return
<1>6. Others(t) /\ at'[t] = "enter" /\ call'[t] = ok
  <2>1. call' = [call EXCEPT ![t] = ok] /\ UNCHANGED handle
    BY <1>5
  <2>2. LockTypeOK
    BY DEF LockInv
  <2> HIDE DEF ok
  <2> QED
    BY <2>1, <2>2, StepPartsSameObject
<1>7. /\ theSem' = i /\ isSet' /\ val'[i] = 0 /\ otime'[i]
      /\ status' = status /\ writable' = writable
  BY <1>1, <1>3, <1>5 DEF theSem, isSet, LockInv, LockTypeOK, TypeOK
<1>8. ASSUME NEW u \in Threads \ {t}
      PROVE  ~Holds(u)' /\ ~Creating(u)' /\ CallInv(u)' /\ Set(u)' = Set(u)
  BY <1>1, <1>2, <1>6, <1>7 DEF Others, Holds, Inside, Leaving, Creating,
     Ready, Ended, CallInv, Set, LockInv
<1>9. Holds(t)' /\ ~Creating(t)' /\ CallInv(t)' /\ Set(t)' = Set(t)
  BY <1>6 DEF Holds, Inside, Leaving, Creating, Ready, Ended, CallInv, Set
<1>10. CreatorInv'
  <2>1. \A u \in Threads : Ready(u)' => Creating(u)'
    BY DEF Creating, Ready, Ended
  <2> QED
    BY <1>8, <1>9, <2>1 DEF CreatorInv
<1>11. KernelInv'
  BY <1>5, <1>7 DEF KernelInv, LockInv
<1>12. HandleInv'
  BY <1>5, <1>7, <1>8, <1>9 DEF HandleInv, LockInv
<1>13. UndoInv'
  <2> SUFFICES ASSUME NEW j \in Ids, NEW u \in Threads
               PROVE  adj'[j][ProcOf[u]] =
                        IF j = i /\ Holds(u)' /\ UsesUndo THEN 1 ELSE 0
    BY <1>7 DEF UndoInv
  <2>1. adj[j][ProcOf[u]] = 0
    BY <1>1 DEF LockInv, UndoInv
  <2>2. adj \in [Ids -> [Procs -> -(SEMVMX + 1)..SEMVMX]]
    BY DEF LockInv, LockTypeOK, TypeOK
  <2>3. CASE UsesUndo /\ j = i /\ u = t
    BY <1>1, <1>4, <1>9, <2>2, <2>3
  <2>4. CASE UsesUndo /\ ~(j = i /\ u = t)
    BY <1>1, <1>4, <1>8, <2>1, <2>2, <2>4
  <2>5. CASE ~UsesUndo
    BY <1>4, <2>1, <2>5
  <2> QED
    BY <2>3, <2>4, <2>5
<1>14. PermitInv' /\ OneHolder'
  BY <1>7, <1>8 DEF PermitInv, OneHolder
<1>15. TheLock!Acquire(t)
  <2>1. free = TRUE /\ free' = FALSE /\ isSet' = isSet
    BY <1>1, <1>7 DEF free, isSet
  <2>2. Holders' = Holders \cup {t}
    BY <1>1, <1>8, <1>9 DEF Holders
  <2> QED
    BY <2>1, <2>2 DEF TheLock!Acquire, Holders
<1> QED
  BY <1>8, <1>9, <1>10, <1>11, <1>12, <1>13, <1>14, <1>15 DEF LockInv

\* A user's operation, at once or after a wait, is within range.
LEMMA AcquireInRange ==
  ASSUME LockInv, NEW t \in Threads, NEW c,
         c.id = theSem, c.op = -1, ~WouldBlock(c), isSet, ~Holds(t)
  PROVE  ~OutOfRange(t, c)
<1>1. theSem \in Ids
  BY DEF isSet, theSem, LockInv, LockTypeOK, TypeOK
<1>2. val[theSem] \in 0..SEMVMX /\ adj[theSem][ProcOf[t]] = 0
  BY <1>1 DEF LockInv, LockTypeOK, TypeOK, UndoInv
<1> QED
  BY <1>1, <1>2 DEF OutOfRange

\* A user who enters comes to semop: the permit is there, or not.
LEMMA EnteringInv ==
  ASSUME LockInv, LockTypeOK', NEW t \in Threads, at[t] = "enter", Semop(t),
         UNCHANGED at
  PROVE  LockInv' /\ (Stutter \/ TheLock!Acquire(t))
<1>1. /\ ~Creating(t) /\ ~Holds(t) /\ Set(t) /\ call[t].pc = "semop"
      /\ at' = [at EXCEPT ![t] = "enter"]
  BY DEF Semop, Creating, Ready, Holds, Inside, Leaving, Ended, Set, LockInv,
     LockTypeOK
<1>2. isSet
  BY <1>1 DEF LockInv, KernelInv, Knows, Set
<1>3. PICK c : c = call[t]
  OBVIOUS
<1>4. c.id = theSem /\ c.op = -1 /\ c.undo = UsesUndo
  BY <1>1, <1>3 DEF LockInv, CallInv
<1>5. ASSUME NEW errno \in Errnos, Fail(t, errno) PROVE LockInv' /\ (Stutter \/ TheLock!Acquire(t))
  BY <1>1, <1>2, <1>5, PlainFailure
<1>6. CASE ~WouldBlock(c) /\ Complete(t, c)
  <2>1. ~OutOfRange(t, c)
    BY <1>1, <1>2, <1>4, <1>6, AcquireInRange
  <2>2. Perform(t, c)
    BY <1>6, <2>1 DEF Complete
  <2> QED
    BY <1>1, <1>2, <1>4, <1>6, <2>2, AcquiredInv
<1>7. CASE call' = [call EXCEPT ![t].pc = "wait"] /\ UNCHANGED <<kernel, handle>>
  <2>1. PICK w : w = [call[t] EXCEPT !.pc = "wait"]
    OBVIOUS
  <2>2. call[t] \in SemopCall
    BY <1>1, SemopCalls DEF LockInv, LockTypeOK
  <2>3. w.pc = "wait" /\ w.id = theSem /\ w.op = -1 /\ w.undo = UsesUndo
    BY <1>3, <1>4, <2>1, <2>2 DEF SemopCall
  <2>4. call' = [call EXCEPT ![t] = w]
    BY <1>7, <2>1 DEF LockInv, LockTypeOK, TypeOK
  <2>5. Others(t) /\ at'[t] = "enter" /\ call'[t] = w
    <3>1. LockTypeOK /\ UNCHANGED handle
      BY <1>7 DEF LockInv
    <3> QED
      BY <1>1, <2>4, <3>1, StepPartsSameObject
  <2>6. theSem' = theSem
    BY <1>7 DEF kernel, theSem
  <2>7. CallInv(t)' /\ ~Creating(t)' /\ ~Holds(t)' /\ Set(t)'
    BY <2>3, <2>5, <2>6 DEF CallInv, Creating, Ready, Holds, Inside, Leaving,
       Ended, Set
  <2>8. /\ handle'[ProcOf[t]].id \in {NoId, theSem}
        /\ handle'[ProcOf[t]].undo = (Set(t)' /\ UsesUndo)
    BY <1>1, <1>7, <2>7 DEF LockInv, HandleInv
  <2> QED
    BY <1>1, <1>2, <1>7, <2>5, <2>7, <2>8, KernelLeftAlone
<1>8. {"EINVAL", "EACCES", "EAGAIN"} \subseteq Errnos
  BY DEF Errnos
<1> QED
  BY <1>3, <1>5, <1>6, <1>7, <1>8 DEF Semop, Arguments

\* The release of a user who leaves reaches the semaphore: the permit is back.
LEMMA LeftInv ==
  ASSUME LockInv, LockTypeOK', NEW t \in Threads, at[t] = "exit", Semop(t),
         UNCHANGED at
  PROVE  LockInv' /\ TheLock!Release(t)
<1> DEFINE i == theSem
           ok == [pc |-> "idle", res |-> "ok"]
<1>1. /\ Holds(t) /\ ~Creating(t) /\ Set(t) /\ Knows(t) /\ call[t].pc = "semop"
      /\ at' = [at EXCEPT ![t] = "exit"]
  BY DEF Semop, Creating, Ready, Holds, Leaving, Ended, Set, Knows, LockInv,
     LockTypeOK
<1>2. isSet /\ i \in Ids
  BY <1>1 DEF LockInv, KernelInv, isSet, theSem, LockTypeOK, TypeOK
<1>3. /\ call[t].id = i /\ call[t].op = 1 /\ call[t].undo = UsesUndo
      /\ status[i] = "live" /\ writable[i]
  BY <1>1, <1>2 DEF LockInv, CallInv, KernelInv, isSet
<1>4. val[i] = 0
  <2>1. val[i] \in 0..SEMVMX
    BY <1>2 DEF LockInv, LockTypeOK, TypeOK
  <2> QED
    BY <1>1, <1>2, <2>1 DEF LockInv, PermitInv
<1>5. UsesUndo => adj[i][ProcOf[t]] = 1
  BY <1>1, <1>2 DEF LockInv, UndoInv
<1>6. /\ val' = [val EXCEPT ![i] = 1] /\ otime' = [otime EXCEPT ![i] = TRUE]
      /\ adj' = IF UsesUndo THEN [adj EXCEPT ![i][ProcOf[t]] = 0] ELSE adj
      /\ Return(t, "ok")
      /\ UNCHANGED <<idOf, status, writable, handle>>
  <2>1. LockTypeOK
    BY DEF LockInv
  <2>2. call[t].undo => adj[i][ProcOf[t]] = 1
    BY <1>3, <1>5
  <2> HIDE DEF i
  <2> QED
    BY <1>2, <1>3, <1>4, <2>1, <2>2, ReleaseParts
<1>7. Others(t) /\ at'[t] = "exit" /\ call'[t] = ok
  <2>1. call' = [call EXCEPT ![t] = ok] /\ UNCHANGED handle
    BY <1>6 DEF Return
  <2>2. LockTypeOK
    BY DEF LockInv
  <2> HIDE DEF ok
  <2> QED
    BY <1>1, <2>1, <2>2, StepPartsSameObject
<1>8. /\ theSem' = i /\ isSet' /\ val'[i] = 1 /\ otime'[i]
      /\ status' = status /\ writable' = writable
  BY <1>2, <1>6 DEF theSem, isSet, LockInv, LockTypeOK, TypeOK
<1>9. ASSUME NEW u \in Threads \ {t}
      PROVE  ~Holds(u) /\ ~Creating(u)
  BY <1>1, <1>2 DEF LockInv, OneHolder, CreatorInv, isSet
<1>10. ASSUME NEW u \in Threads \ {t}
       PROVE  ~Holds(u)' /\ ~Creating(u)' /\ CallInv(u)' /\ Set(u)' = Set(u)
  BY <1>7, <1>8, <1>9 DEF Others, Holds, Inside, Leaving, Creating, Ready,
     Ended, CallInv, Set, LockInv
<1>11. ~Holds(t)' /\ ~Creating(t)' /\ CallInv(t)' /\ Set(t)' = Set(t)
  BY <1>1, <1>7 DEF Holds, Inside, Leaving, Creating, Ready, Ended, CallInv, Set
<1>12. CreatorInv'
  <2>1. \A u \in Threads : Ready(u)' => Creating(u)'
    BY DEF Creating, Ready, Ended
  <2> QED
    BY <1>10, <1>11, <2>1 DEF CreatorInv
<1>13. KernelInv'
  BY <1>6, <1>8 DEF KernelInv, LockInv
<1>14. HandleInv'
  BY <1>6, <1>8, <1>10, <1>11 DEF HandleInv, LockInv
<1>15. UndoInv'
  <2> SUFFICES ASSUME NEW j \in Ids, NEW u \in Threads
               PROVE  adj'[j][ProcOf[u]] = 0
    BY <1>8, <1>10, <1>11 DEF UndoInv
  <2>1. ~(j = i /\ u = t /\ UsesUndo) => adj[j][ProcOf[u]] = 0
    BY <1>9 DEF LockInv, UndoInv
  <2>2. adj \in [Ids -> [Procs -> -(SEMVMX + 1)..SEMVMX]]
    BY DEF LockInv, LockTypeOK, TypeOK
  <2>3. CASE UsesUndo /\ j = i /\ u = t
    BY <1>2, <1>6, <2>2, <2>3
  <2>4. CASE UsesUndo /\ ~(j = i /\ u = t)
    BY <1>2, <1>6, <2>1, <2>2, <2>4
  <2>5. CASE ~UsesUndo
    BY <1>6, <2>1, <2>5
  <2> QED
    BY <2>3, <2>4, <2>5
<1>16. PermitInv' /\ OneHolder'
  BY <1>8, <1>10, <1>11 DEF PermitInv, OneHolder
<1>17. TheLock!Release(t)
  <2>1. free' = TRUE /\ isSet' = isSet
    BY <1>2, <1>8 DEF free, isSet
  <2>2. t \in Holders /\ Holders' = Holders \ {t}
    BY <1>1, <1>10, <1>11, <1>9 DEF Holders
  <2> QED
    BY <2>1, <2>2 DEF TheLock!Release, Holders
<1> QED
  BY <1>10, <1>11, <1>12, <1>13, <1>14, <1>15, <1>16, <1>17 DEF LockInv

\* The creator's SETVAL.
LEMMA SetInitialValueInv ==
  ASSUME LockInv, LockTypeOK', NEW t \in Threads, SetInitialValue(t),
         UNCHANGED at
  PROVE  LockInv' /\ Stutter
<1> DEFINE i == theSem
           ok == [pc |-> "idle", res |-> "ok"]
           h == [key |-> call[t].key, id |-> i, block |-> TRUE, undo |-> FALSE]
<1>1. /\ call[t].pc = "setval" /\ at[t] = "create" /\ call[t].id = i
      /\ call[t].init = 0 /\ Creating(t)
  BY DEF SetInitialValue, LockInv, CallInv, Creating, Ready
<1>2. /\ i \in Ids /\ ~otime[i] /\ status[i] = "live" /\ writable[i]
  BY <1>1 DEF LockInv, CreatorInv, KernelInv, LockTypeOK, TypeOK, theSem
<1>3. SetvalErrno(i, 0) = "none"
  BY <1>2 DEF SetvalErrno
<1>4. Setval(i, 0) /\ NewHandle(t, call[t].key, i) /\ Return(t, "ok")
  BY <1>1, <1>3 DEF SetInitialValue
<1>5. /\ val' = [val EXCEPT ![i] = 0] /\ adj' = [adj EXCEPT ![i] = NoUndo]
      /\ handle' = [handle EXCEPT ![ProcOf[t]] = h]
      /\ call' = [call EXCEPT ![t] = ok]
      /\ UNCHANGED <<idOf, status, writable, otime>>
  BY <1>4 DEF Setval, NewHandle, Return
<1>6. Others(t) /\ at'[t] = "create" /\ call'[t] = ok /\ handle'[ProcOf[t]] = h
  <2>1. LockTypeOK /\ at' = [at EXCEPT ![t] = "create"]
    BY <1>1 DEF LockInv, LockTypeOK
  <2>2. call' = [call EXCEPT ![t] = ok]
    BY <1>5
  <2>3. handle' = [handle EXCEPT ![ProcOf[t]] = h]
    BY <1>5
  <2> HIDE DEF ok, h
  <2> QED
    BY <2>1, <2>2, <2>3, StepParts
<1>7. theSem' = i /\ val'[i] = 0
  BY <1>2, <1>5 DEF theSem, LockInv, LockTypeOK, TypeOK
<1>8. \A u \in Threads : ~Knows(u) /\ ~Holds(u)
  BY <1>2 DEF LockInv, KernelInv, isSet, Knows, Holds, Inside, Leaving, Ended
<1>9. \A u \in Threads \ {t} : ~Creating(u)
  BY <1>1 DEF LockInv, CreatorInv
<1>10. ASSUME NEW u \in Threads \ {t}
       PROVE  /\ ~Holds(u)' /\ ~Creating(u)' /\ ~Knows(u)' /\ CallInv(u)'
              /\ Set(u)' = Set(u)
  BY <1>6, <1>7, <1>8, <1>9 DEF Others, Holds, Inside, Leaving, Creating,
     Ready, Ended, Knows,
     CallInv, Set, LockInv
<1>11. ~Holds(t)' /\ ~Knows(t)' /\ CallInv(t)' /\ ~Set(t)' /\ ~Set(t)
  BY <1>1, <1>6 DEF Holds, Inside, Leaving, Knows, Ended, CallInv, Set
<1>12. CreatorInv'
  BY <1>2, <1>5, <1>7, <1>10 DEF CreatorInv, NoId, Ids, Creating, Ready, Ended
<1>13. KernelInv'
  BY <1>5, <1>7, <1>10, <1>11 DEF KernelInv, LockInv
<1>14. HandleInv'
  <2>1. handle'[ProcOf[t]].id = i /\ handle'[ProcOf[t]].undo = FALSE
    BY <1>6
  <2>2. ASSUME NEW u \in Threads \ {t}
        PROVE  /\ handle'[ProcOf[u]].id \in {NoId, i}
               /\ handle'[ProcOf[u]].undo = (Set(u)' /\ UsesUndo)
    BY <1>6, <1>10 DEF Others, LockInv, HandleInv
  <2> QED
    BY <1>7, <1>11, <2>1, <2>2 DEF HandleInv
<1>15. UndoInv'
  <2> SUFFICES ASSUME NEW j \in Ids, NEW u \in Threads
               PROVE  adj'[j][ProcOf[u]] = 0
    BY <1>10, <1>11 DEF UndoInv
  <2>1. adj[j][ProcOf[u]] = 0
    BY <1>8 DEF LockInv, UndoInv
  <2>2. adj \in [Ids -> [Procs -> -(SEMVMX + 1)..SEMVMX]]
    BY DEF LockInv, LockTypeOK, TypeOK
  <2>3. NoUndo[ProcOf[u]] = 0
    BY DEF NoUndo
  <2> QED
    BY <1>5, <2>1, <2>2, <2>3
<1>16. PermitInv' /\ OneHolder'
  BY <1>7, <1>10, <1>11 DEF PermitInv, OneHolder
<1>17. Stutter
  <2>1. isSet = FALSE /\ isSet' = FALSE
    BY <1>2, <1>5, <1>7 DEF isSet
  <2>2. Holders' = Holders
    BY <1>8, <1>10, <1>11 DEF Holders
  <2> QED
    BY <2>1, <2>2 DEF Stutter, free
<1> QED
  BY <1>10, <1>11, <1>12, <1>13, <1>14, <1>15, <1>16, <1>17 DEF LockInv

\* A waiting user is served, or its wait is broken off.
LEMMA WaiterInv ==
  ASSUME LockInv, LockTypeOK', NEW t \in Threads, Wake(t) \/ Interrupt(t),
         UNCHANGED at
  PROVE  LockInv' /\ (Stutter \/ TheLock!Acquire(t))
<1>1. /\ call[t].pc = "wait" /\ at[t] = "enter" /\ call[t].id = theSem
      /\ call[t].op = -1 /\ call[t].undo = UsesUndo
  BY DEF Wake, Interrupt, LockInv, CallInv, Set
<1>2. ~Creating(t) /\ ~Holds(t) /\ Set(t) /\ Knows(t)
  BY <1>1 DEF Creating, Ready, Holds, Inside, Leaving, Ended, Set, Knows
<1>3. isSet /\ at' = [at EXCEPT ![t] = "enter"]
  BY <1>1, <1>2 DEF LockInv, KernelInv, LockTypeOK
<1>4. ASSUME NEW errno \in Errnos, Fail(t, errno) PROVE LockInv' /\ (Stutter \/ TheLock!Acquire(t))
  BY <1>2, <1>3, <1>4, PlainFailure
<1>5. CASE ~WouldBlock(call[t]) /\ Complete(t, call[t])
  <2>1. ~OutOfRange(t, call[t])
    BY <1>1, <1>2, <1>3, <1>5, AcquireInRange
  <2>2. Perform(t, call[t])
    BY <1>5, <2>1 DEF Complete
  <2> QED
    BY <1>1, <1>2, <1>3, <1>5, <2>2, AcquiredInv
<1>6. {"EIDRM", "EINTR"} \subseteq Errnos
  BY DEF Errnos
<1> QED
  BY <1>4, <1>5, <1>6 DEF Wake, Interrupt

\* A process ends, anywhere: what it held comes back if it was undoable.
LEMMA CrashInv ==
  ASSUME LockInv, LockTypeOK', NEW t \in Threads, Crash(t)
  PROVE  LockInv' /\ (Stutter \/ TheLock!Die(t))
<1> DEFINE i == theSem
           p == ProcOf[t]
           gone == [pc |-> "idle", res |-> "none"]
<1>1. ExitProcess(p) /\ at' = [at EXCEPT ![t] = "start"]
  BY DEF Crash, Goto
<1>2. /\ at'[t] = "start" /\ call'[t] = gone /\ handle'[p] = NoHandle
      /\ UNCHANGED <<idOf, status, writable, otime>>
  BY <1>1 DEF ExitProcess, LockInv, LockTypeOK, TypeOK
<1>3. Others(t)
  BY <1>1 DEF Others, ExitProcess, LockInv, LockTypeOK, TypeOK
<1>4. theSem' = i /\ isSet' = isSet
  BY <1>2 DEF theSem, isSet
<1>5. ASSUME NEW u \in Threads \ {t}
      PROVE  /\ Holds(u)' = Holds(u) /\ Creating(u)' = Creating(u)
             /\ Knows(u)' = Knows(u) /\ CallInv(u)' /\ Set(u)' = Set(u)
             /\ Ready(u)' = Ready(u)
  BY <1>3, <1>4 DEF Others, Holds, Inside, Leaving, Creating, Ready, Ended,
     Knows, CallInv, Set, LockInv
<1>6. /\ ~Holds(t)' /\ ~Creating(t)' /\ ~Knows(t)' /\ CallInv(t)' /\ ~Set(t)'
      /\ ~Ready(t)'
  BY <1>2 DEF Holds, Inside, Leaving, Creating, Ready, Knows, Ended, CallInv, Set
<1>7. ASSUME i \in Ids
      PROVE  val'[i] = IF Holds(t) /\ UsesUndo THEN 1 ELSE val[i]
  <2>1. val[i] \in 0..SEMVMX /\ status[i] = "live"
    BY <1>7 DEF LockInv, LockTypeOK, TypeOK, KernelInv, NoId, Ids
  <2>2. adj[i][p] = IF Holds(t) /\ UsesUndo THEN 1 ELSE 0
    BY <1>7 DEF LockInv, UndoInv
  <2>3. val'[i] = Clamp(val[i] + adj[i][p])
    BY <1>1, <1>7, <2>1 DEF ExitProcess
  <2>4. Holds(t) => val[i] = 0
    <3>1. Holds(t) => isSet
      BY DEF LockInv, KernelInv, Knows, Holds, Inside, Leaving, Ended
    <3> QED
      BY <2>1, <3>1 DEF LockInv, PermitInv
  <2>5. CASE Holds(t) /\ UsesUndo
    BY <2>2, <2>3, <2>4, <2>5 DEF Clamp
  <2>6. CASE ~(Holds(t) /\ UsesUndo)
    BY <2>1, <2>2, <2>3, <2>6 DEF Clamp
  <2> QED
    BY <2>5, <2>6
<1>8. CreatorInv'
  <2>1. ASSUME NEW u \in Threads, Ready(u)
        PROVE  ~Holds(t) /\ i \in Ids
    <3>1. Creating(u)
      BY <2>1 DEF Creating, Ready, Ended
    <3>2. theSem # NoId /\ ~otime[theSem]
      BY <3>1 DEF LockInv, CreatorInv
    <3> QED
      BY <3>2 DEF LockInv, KernelInv, Knows, Holds, Inside, Leaving, Ended,
         isSet, theSem,
         LockTypeOK, TypeOK
  <2> QED
    BY <1>2, <1>4, <1>5, <1>6, <1>7, <2>1 DEF CreatorInv, LockInv
<1>9. KernelInv'
  BY <1>2, <1>4, <1>5, <1>6 DEF KernelInv, LockInv
<1>10. HandleInv'
  <2>1. handle'[p].id = NoId /\ handle'[p].undo = FALSE
    BY <1>2 DEF NoHandle
  <2>2. ASSUME NEW u \in Threads \ {t}
        PROVE  /\ handle'[ProcOf[u]].id \in {NoId, i}
               /\ handle'[ProcOf[u]].undo = (Set(u)' /\ UsesUndo)
    BY <1>3, <1>5 DEF Others, LockInv, HandleInv
  <2> QED
    BY <1>4, <1>6, <2>1, <2>2 DEF HandleInv
<1>11. UndoInv'
  <2> SUFFICES ASSUME NEW j \in Ids, NEW u \in Threads
               PROVE  adj'[j][ProcOf[u]] =
                        IF j = i /\ Holds(u)' /\ UsesUndo THEN 1 ELSE 0
    BY <1>4 DEF UndoInv
  <2>1. adj'[j] = [adj[j] EXCEPT ![p] = 0]
    BY <1>1 DEF ExitProcess
  <2>2. adj[j] \in [Procs -> -(SEMVMX + 1)..SEMVMX]
    BY DEF LockInv, LockTypeOK, TypeOK
  <2>3. CASE u = t
    BY <1>6, <2>1, <2>2, <2>3
  <2>4. CASE u # t
    BY <1>5, <2>1, <2>2, <2>4 DEF LockInv, UndoInv
  <2> QED
    BY <2>3, <2>4
<1>12. PermitInv'
  <2>1. isSet => i \in Ids
    BY DEF isSet, theSem, LockInv, LockTypeOK, TypeOK
  <2>2. Holds(t) => \A u \in Threads \ {t} : ~Holds(u)
    BY DEF LockInv, OneHolder
  <2> QED
    BY <1>4, <1>5, <1>6, <1>7, <2>1, <2>2 DEF PermitInv, LockInv
<1>13. OneHolder'
  BY <1>5, <1>6 DEF OneHolder, LockInv
<1>14. ASSUME ~Holds(t) PROVE Stutter
  <2>1. val'[i] = val[i] \/ ~isSet
    BY <1>7, <1>14 DEF isSet, theSem, LockInv, LockTypeOK, TypeOK
  <2>2. Holders' = Holders
    BY <1>5, <1>6, <1>14 DEF Holders
  <2>3. free' = free
    BY <1>4, <2>1 DEF free
  <2> QED
    BY <1>4, <2>2, <2>3 DEF Stutter
<1>15. ASSUME Holds(t) PROVE TheLock!Die(t)
  <2>1. isSet /\ i \in Ids
    BY <1>15 DEF LockInv, KernelInv, Knows, Holds, Inside, Leaving, Ended,
       isSet, theSem,
       LockTypeOK, TypeOK
  <2>2. val[i] # 1
    BY <1>15, <2>1 DEF LockInv, PermitInv
  <2>3. free' = UsesUndo
    BY <1>4, <1>7, <1>15, <2>1, <2>2 DEF free
  <2>4. t \in Holders /\ Holders' = Holders \ {t}
    BY <1>5, <1>6, <1>15 DEF Holders
  <2> QED
    BY <1>4, <2>3, <2>4 DEF TheLock!Die, Holders
<1> QED
  BY <1>5, <1>6, <1>8, <1>9, <1>10, <1>11, <1>12, <1>13, <1>14, <1>15 DEF LockInv

----------------------------------------------------------------------------
(* The theorems.                                                           *)

LEMMA LockNextInv ==
  ASSUME LockInv, [LockNext]_lockVars
  PROVE  /\ LockInv'
         /\ \/ Stutter \/ TheLock!Set
            \/ \E t \in Threads :
                 \/ TheLock!Acquire(t) \/ TheLock!Release(t)
                 \/ "crash" \in Faults /\ TheLock!Die(t)
<1>1. ASSUME NEW t \in Threads,
             \/ Create(t) \/ Open(t) \/ Mark(t) \/ Poll(t) \/ SetUndo(t)
             \/ Enter(t) \/ Exit(t) \/ Proceed(t) \/ Signal(t) \/ Crash(t)
      PROVE  /\ LockInv'
             /\ \/ Stutter \/ TheLock!Set
                \/ TheLock!Acquire(t) \/ TheLock!Release(t)
                \/ "crash" \in Faults /\ TheLock!Die(t)
  <2>1. LockTypeOK'
    BY <1>1, LockStepType DEF LockInv
  <2>2. CASE Create(t) \/ Open(t) \/ Poll(t) \/ SetUndo(t)
    BY <2>1, <2>2, CreateInv, OpenInv, PollInv, SetUndoInv
  <2>3. CASE Mark(t) \/ Enter(t) \/ Exit(t)
    BY <2>1, <2>3, SetOutInv
  <2>4. CASE Crash(t)
    BY <2>1, <2>4, CrashInv DEF Crash
  <2>5. CASE Semop(t) /\ UNCHANGED at
    <3>1. at[t] \in {"mark", "enter", "exit"}
      BY <2>5 DEF Semop, LockInv, CallInv
    <3> QED
      BY <2>1, <2>5, <3>1, MarkedInv, EnteringInv, LeftInv
  <2>6. CASE SetInitialValue(t) /\ UNCHANGED at
    BY <2>1, <2>6, SetInitialValueInv
  <2>7. CASE (Wake(t) \/ Interrupt(t)) /\ UNCHANGED at
    BY <2>1, <2>7, WaiterInv
  <2> QED
    BY <1>1, <2>2, <2>3, <2>4, <2>5, <2>6, <2>7 DEF Proceed, Signal
<1>2. CASE UNCHANGED lockVars
  <2>1. LockInv'
    BY <1>2 DEF lockVars, vars, LockInv, LockTypeOK, TypeOK, CallInv,
       CreatorInv, Creating, Ready, KernelInv, Knows, HandleInv, Set, UndoInv,
       PermitInv, OneHolder, Holds, Inside, Leaving, Ended, theSem, isSet
  <2>2. Stutter
    BY <1>2 DEF lockVars, vars, Stutter, Holders, free, isSet, theSem, Holds,
       Inside, Leaving, Ended
  <2> QED
    BY <2>1, <2>2
<1> QED
  BY <1>1, <1>2 DEF LockNext

LEMMA AlwaysLockInv == LockSpec => []LockInv
<1>1. LockInv /\ [LockNext]_lockVars => LockInv'
  BY LockNextInv
<1> QED
  BY <1>1, LockInitInv, PTL DEF LockSpec

\* Never are two processes inside a "with sem:" block, for any number of
\* processes, with or without undo, crashes and signals.
THEOREM MutualExclusionHolds == LockSpec => []MutualExclusion
<1>1. LockInv => MutualExclusion
  BY DEF LockInv, OneHolder, Holds, MutualExclusion
<1> QED
  BY <1>1, AlwaysLockInv, PTL

\* The recipe and the blocks implement Lock: every step of a process is, for
\* those who see only the permit and who holds it, a step of Lock or none.
THEOREM LockImplemented == LockSpec => ImplementsLock
<1>1. LockInit => TheLock!Init
  BY DEF LockInit, Init, TheLock!Init, isSet, free, theSem, Holds, Inside,
     Leaving, Ended
<1>2. LockInv /\ [LockNext]_lockVars
        => [TheLock!Next]_<<isSet, free, {t \in Threads : Holds(t)}>>
  BY LockNextInv DEF TheLock!Next, Stutter, Holders
<1> QED
  BY <1>1, <1>2, AlwaysLockInv, PTL DEF LockSpec, ImplementsLock, TheLock!Spec

\* Where no permit is lost, a semaphore without one has a process inside.
Kept == isSet /\ (UsesUndo \/ "crash" \notin Faults) => free \/ Holders # {}

\* Once released by its creator the semaphore has one permit, in it or with
\* the process inside, and only a death inside without undo loses it.
THEOREM OnePermitHolds == LockSpec => []OnePermit
<1>1. LockInit => Kept
  BY DEF LockInit, Init, Kept, isSet, theSem
<1>2. LockInv /\ Kept /\ [LockNext]_lockVars => Kept'
  <2> SUFFICES ASSUME LockInv, Kept, [LockNext]_lockVars PROVE Kept'
    OBVIOUS
  <2>1. CASE Stutter
    BY <2>1 DEF Stutter, Kept
  <2>2. CASE TheLock!Set
    BY <2>2 DEF TheLock!Set, Kept
  <2>3. ASSUME NEW t \in Threads, TheLock!Acquire(t) PROVE Kept'
    BY <2>3 DEF TheLock!Acquire, Kept, Holders
  <2>4. ASSUME NEW t \in Threads, TheLock!Release(t) PROVE Kept'
    BY <2>4 DEF TheLock!Release, Kept
  <2>5. ASSUME NEW t \in Threads, "crash" \in Faults, TheLock!Die(t) PROVE Kept'
    BY <2>5 DEF TheLock!Die, Kept
  <2> QED
    BY <2>1, <2>2, <2>3, <2>4, <2>5, LockNextInv
<1>3. LockInv /\ Kept => OnePermit
  BY DEF LockInv, PermitInv, Kept, OnePermit, free, Holders
<1> QED
  BY <1>1, <1>2, <1>3, AlwaysLockInv, PTL DEF LockSpec
=============================================================================
