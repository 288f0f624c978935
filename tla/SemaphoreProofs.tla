--------------------------- MODULE SemaphoreProofs ---------------------------
(* Theorems about Semaphore, for every value of its constants. *)
EXTENDS Semaphore, TLAPS

USE ConstantsAssumption

----------------------------------------------------------------------------
(* What the helpers return and preserve.                                   *)

Short == -(SHRT_MAX + 1)..SHRT_MAX

\* sem_perform_semop hands a short to semop, whatever delta it is given.
LEMMA SemOpIsShort ==
  ASSUME NEW type, NEW delta \in Short
  PROVE  SemOp(type, delta) \in Short
<1>1. Abs(delta) \in 0..(SHRT_MAX + 1)
  BY DEF Abs, Short
<1>2. \A n \in 0..(SHRT_MAX + 1) : ToShort(n) \in Short /\ ToShort(-n) \in Short
  BY DEF ToShort, Short
<1>3. 0 \in Short
  BY DEF Short
<1> QED
  BY <1>1, <1>2, <1>3 DEF SemOp

Errnos == {"ENOENT", "EINVAL", "EEXIST", "EIDRM", "EACCES", "ERANGE",
           "EAGAIN", "EINTR", "ENOSPC"}

\* Every errno a system call sets has its exception.
LEMMA ErrnosAreTranslated ==
  ASSUME NEW errno \in Errnos
  PROVE  sem_set_error[errno] \in Results
BY DEF Errnos, sem_set_error, Results, Errors

LEMMA SemgetErrnos ==
  ASSUME NEW k, NEW flags, NEW rw
  PROVE  SemgetErrno(k, flags, rw) \in Errnos \cup {"none"}
BY DEF SemgetErrno, Errnos

LEMMA SetvalErrnos ==
  ASSUME NEW i, NEW v
  PROVE  SetvalErrno(i, v) \in Errnos \cup {"none"}
BY DEF SetvalErrno, Errnos

\* A call that returns leaves the calls well typed.
LEMMA ReturnType ==
  ASSUME call \in [Threads -> Call], NEW t \in Threads,
         NEW result \in Results, Return(t, result)
  PROVE  call' \in [Threads -> Call]
BY DEF Return, Call

\* A call that fails changes nothing but what its thread is told.
LEMMA FailType ==
  ASSUME TypeOK, NEW t \in Threads, NEW errno \in Errnos, Fail(t, errno)
  PROVE  TypeOK'
<1>1. call' \in [Threads -> Call]
  BY ErrnosAreTranslated, ReturnType DEF Fail, TypeOK
<1> QED
  BY <1>1 DEF Fail, TypeOK, kernel

\* A call that begins, or goes on to its next step.
LEMMA BeginType ==
  ASSUME TypeOK, NEW t \in Threads, NEW c \in Call,
         call' = [call EXCEPT ![t] = c], UNCHANGED <<kernel, handle>>
  PROVE  TypeOK'
BY DEF TypeOK, kernel

\* A call that returns and changes nothing else.
LEMMA QuietReturnType ==
  ASSUME TypeOK, NEW t \in Threads, NEW result \in Results, Return(t, result),
         UNCHANGED <<kernel, handle>>
  PROVE  TypeOK'
<1>1. call' \in [Threads -> Call]
  BY ReturnType DEF TypeOK
<1> QED
  BY <1>1 DEF TypeOK, kernel

Handles == Handle \cup {NoHandle}

\* An object that has an id is one; so is one that can be used.
LEMMA ObjectIsHandle ==
  ASSUME TypeOK, NEW p \in Procs, handle[p].id # NoId
  PROVE  handle[p] \in Handle
BY DEF TypeOK, NoHandle

LEMMA UsedHandle ==
  ASSUME TypeOK, NEW t \in Threads, CanUse(t)
  PROVE  handle[ProcOf[t]] \in Handle
BY ObjectIsHandle DEF CanUse

LEMMA NewHandleType ==
  ASSUME handle \in [Procs -> Handles], NEW t \in Threads,
         NEW k \in Keys, NEW i \in Ids, NewHandle(t, k, i)
  PROVE  handle' \in [Procs -> Handles]
<1>1. [key |-> k, id |-> i, block |-> TRUE, undo |-> FALSE] \in Handles
  BY DEF Handles, Handle
<1> QED
  BY <1>1 DEF NewHandle

\* SETVAL of a value in range keeps the kernel's part of TypeOK.
LEMMA SetvalType ==
  ASSUME TypeOK, NEW i \in Ids, NEW v,
         SetvalErrno(i, v) = "none", Setval(i, v)
  PROVE  /\ val' \in [Ids -> 0..SEMVMX]
         /\ adj' \in [Ids -> [Procs -> -(SEMVMX + 1)..SEMVMX]]
         /\ UNCHANGED <<idOf, status, writable, otime>>
<1>1. v \in 0..SEMVMX
  BY DEF SetvalErrno
<1>2. NoUndo \in [Procs -> -(SEMVMX + 1)..SEMVMX]
  BY DEF NoUndo
<1> QED
  BY <1>1, <1>2 DEF Setval, TypeOK

----------------------------------------------------------------------------
(* Each operation preserves TypeOK.                                        *)

LEMMA ObtainedType ==
  ASSUME TypeOK, NEW t \in Threads, NEW k \in Keys, NEW i \in Ids,
         NEW flags \in Flags, NEW rw \in BOOLEAN, NEW init \in Int,
         Obtained(t, k, i, flags, rw, init)
  PROVE  call' \in [Threads -> Call] /\ handle' \in [Procs -> Handles]
<1>0. call \in [Threads -> Call] /\ handle \in [Procs -> Handles]
  BY DEF TypeOK, Handles
<1>1. CASE SetsInitialValue(flags, rw)
  <2>1. [pc |-> "setval", key |-> k, id |-> i, made |-> ~Exists(k),
         flags |-> flags, init |-> init] \in Call
    BY DEF Call, SetvalCall, Exists
  <2> QED
    BY <1>0, <1>1, <2>1 DEF Obtained
<1>2. CASE ~SetsInitialValue(flags, rw)
  <2>1. Return(t, "ok") /\ NewHandle(t, k, i)
    BY <1>2 DEF Obtained
  <2>2. "ok" \in Results
    BY DEF Results
  <2> QED
    BY <1>0, <2>1, <2>2, ReturnType, NewHandleType
<1> QED
  BY <1>1, <1>2

LEMMA SemgetType ==
  ASSUME TypeOK, NEW t \in Threads, NEW k \in Keys, NEW flags \in Flags,
         NEW rw \in BOOLEAN, NEW init \in Int,
         Semget(t, k, flags, rw, init)
  PROVE  TypeOK'
<1> DEFINE errno == SemgetErrno(k, flags, rw)
<1>1. CASE errno # "none" /\ Fail(t, errno)
  BY <1>1, SemgetErrnos, FailType
<1>2. CASE /\ errno = "none" /\ Exists(k)
           /\ Obtained(t, k, idOf[k], flags, rw, init)
           /\ UNCHANGED kernel
  <2>1. idOf[k] \in Ids
    BY <1>2 DEF Exists, TypeOK
  <2>2. call' \in [Threads -> Call] /\ handle' \in [Procs -> Handles]
    BY <1>2, <2>1, ObtainedType
  <2> QED
    BY <1>2, <2>2 DEF TypeOK, Handles, kernel
<1>3. ASSUME NEW i \in Ids, Allocate(k, i, rw),
             Obtained(t, k, i, flags, rw, init)
      PROVE  TypeOK'
  <2>1. call' \in [Threads -> Call] /\ handle' \in [Procs -> Handles]
    BY <1>3, ObtainedType
  <2>2. /\ idOf' \in [Keys -> Ids \cup {NoId}]
        /\ status' \in [Ids -> {"unused", "live", "removed"}]
        /\ val' \in [Ids -> 0..SEMVMX]
        /\ writable' \in [Ids -> BOOLEAN]
        /\ UNCHANGED <<otime, adj>>
    BY <1>3 DEF Allocate, TypeOK
  <2> QED
    BY <2>1, <2>2 DEF TypeOK, Handles
<1> QED
  BY <1>1, <1>2, <1>3 DEF Semget

LEMMA InitialValuesAreIntegers == InitialValues \subseteq Int
BY DEF InitialValues

LEMMA SemaphoreInitType ==
  ASSUME TypeOK, NEW t \in Threads, NEW key \in Keys \cup {None},
         NEW flags \in Flags, NEW rw \in BOOLEAN, NEW init \in Int,
         Semaphore_init(t, key, flags, rw, init)
  PROVE  TypeOK'
<1>1. CASE Return(t, "Value") /\ UNCHANGED <<kernel, handle>>
  BY <1>1, QuietReturnType DEF Results, Errors
<1>2. CASE /\ call' = [call EXCEPT ![t] = [pc |-> "genkey", flags |-> flags,
                                           rw |-> rw, init |-> init]]
           /\ UNCHANGED <<kernel, handle>>
  <2>1. [pc |-> "genkey", flags |-> flags, rw |-> rw, init |-> init] \in Call
    BY DEF Call
  <2> QED
    BY <1>2, <2>1 DEF TypeOK, kernel
<1>3. CASE key # None /\ Semget(t, key, flags, rw, init)
  BY <1>3, SemgetType
<1> QED
  BY <1>1, <1>2, <1>3 DEF Semaphore_init

LEMMA TryRandomKeyType ==
  ASSUME TypeOK, NEW t \in Threads, TryRandomKey(t)
  PROVE  TypeOK'
<1>1. /\ call[t].flags \in Flags /\ call[t].rw \in BOOLEAN
      /\ call[t].init \in Int
  BY DEF TryRandomKey, TypeOK, Call, SetvalCall, SemopCall, IpcSetCall
<1> QED
  BY <1>1, SemgetType DEF TryRandomKey, get_random_key

LEMMA SetInitialValueType ==
  ASSUME TypeOK, NEW t \in Threads, SetInitialValue(t)
  PROVE  TypeOK'
<1>1. call[t].id \in Ids /\ call[t].key \in Keys
  BY DEF SetInitialValue, TypeOK, Call, SetvalCall, SemopCall, IpcSetCall
<1> DEFINE errno == SetvalErrno(call[t].id, call[t].init)
<1>2. CASE errno # "none" /\ Fail(t, errno)
  BY <1>2, SetvalErrnos, FailType
<1>3. CASE /\ errno = "none"
           /\ Setval(call[t].id, call[t].init)
           /\ NewHandle(t, call[t].key, call[t].id)
           /\ Return(t, "ok")
  <2>1. call' \in [Threads -> Call]
    BY <1>3, ReturnType DEF TypeOK, Results
  <2>2. handle' \in [Procs -> Handles]
    BY <1>1, <1>3, NewHandleType DEF TypeOK, Handles
  <2>3. /\ val' \in [Ids -> 0..SEMVMX]
        /\ adj' \in [Ids -> [Procs -> -(SEMVMX + 1)..SEMVMX]]
        /\ UNCHANGED <<idOf, status, writable, otime>>
    BY <1>1, <1>3, SetvalType
  <2> QED
    BY <2>1, <2>2, <2>3 DEF TypeOK, Handles
<1> QED
  BY <1>2, <1>3 DEF SetInitialValue

LEMMA CompleteType ==
  ASSUME TypeOK, NEW t \in Threads, NEW c \in SemopCall, Complete(t, c),
         ~WouldBlock(c)
  PROVE  TypeOK'
<1>1. CASE OutOfRange(t, c) /\ Fail(t, "ERANGE")
  BY <1>1, FailType DEF Errnos
<1>2. CASE ~OutOfRange(t, c) /\ Perform(t, c)
  <2>1. c.id \in Ids /\ c.op \in Int /\ c.undo \in BOOLEAN
    BY DEF SemopCall
  <2>2. ProcOf[t] \in Procs
    OBVIOUS
  <2>3. val[c.id] \in 0..SEMVMX /\ adj[c.id] \in [Procs -> -(SEMVMX + 1)..SEMVMX]
    BY <2>1 DEF TypeOK
  <2>4. val[c.id] + c.op \in 0..SEMVMX
    BY <1>2, <2>1, <2>3 DEF OutOfRange, WouldBlock
  <2>5. val' \in [Ids -> 0..SEMVMX]
    BY <1>2, <2>1, <2>4 DEF Perform, TypeOK
  <2>6. adj' \in [Ids -> [Procs -> -(SEMVMX + 1)..SEMVMX]]
    <3>1. CASE ~c.undo
      BY <1>2, <3>1 DEF Perform, TypeOK
    <3>2. CASE c.undo
      <4>1. adj[c.id][ProcOf[t]] - c.op \in -(SEMVMX + 1)..SEMVMX
        BY <1>2, <3>2 DEF OutOfRange
      <4>2. adj' = [adj EXCEPT ![c.id][ProcOf[t]] = @ - c.op]
        BY <1>2, <3>2 DEF Perform
      <4> QED
        BY <2>1, <2>2, <4>1, <4>2 DEF TypeOK
    <3> QED
      BY <3>1, <3>2, <2>1
  <2>7. call' \in [Threads -> Call]
    BY <1>2, ReturnType DEF Perform, TypeOK, Results
  <2>8. otime' \in [Ids -> BOOLEAN]
    BY <1>2, <2>1 DEF Perform, TypeOK
  <2> QED
    BY <1>2, <2>5, <2>6, <2>7, <2>8 DEF Perform, TypeOK
<1> QED
  BY <1>1, <1>2 DEF Complete

\* acquire, release and Z, entering a with block and leaving it: all of them
\* are sem_perform_semop.
Operates(t) ==
  \E type \in {"P", "V", "Z"}, delta \in Short, timeout \in Timeouts \cup {"none"} :
    sem_perform_semop(t, type, delta, timeout)

LEMMA OperationsAreOne ==
  ASSUME NEW t \in Threads,
         \/ \E delta \in Deltas, timeout \in Timeouts : Semaphore_P(t, delta, timeout)
         \/ \E delta \in Deltas : Semaphore_V(t, delta)
         \/ \E timeout \in Timeouts : Semaphore_Z(t, timeout)
         \/ 1 \in Deltas /\ (Semaphore_enter(t) \/ Semaphore_exit(t))
  PROVE  Operates(t)
<1>1. Deltas \subseteq Short /\ 0 \in Short
  BY DEF Short
<1> QED
  BY <1>1 DEF Operates, Semaphore_P, Semaphore_V, Semaphore_Z, Semaphore_enter,
     Semaphore_exit

\* op[0], as it is filled in.
LEMMA OperationIsSemopCall ==
  ASSUME TypeOK, NEW t \in Threads, CanUse(t), NEW type, NEW delta \in Short,
         NEW timeout \in Timeouts \cup {"none"}
  PROVE  [pc |-> "semop", op |-> SemOp(type, delta), id |-> handle[ProcOf[t]].id,
          undo |-> handle[ProcOf[t]].undo, block |-> handle[ProcOf[t]].block,
          timeout |-> timeout] \in SemopCall
<1>1. handle[ProcOf[t]] \in Handle
  BY UsedHandle
<1>2. SemOp(type, delta) \in -(SHRT_MAX + 1)..SHRT_MAX
  BY SemOpIsShort DEF Short
<1> QED
  BY <1>1, <1>2 DEF Handle, SemopCall

LEMMA PerformSemopType ==
  ASSUME TypeOK, NEW t \in Threads, Operates(t)
  PROVE  TypeOK'
<1>1. PICK type \in {"P", "V", "Z"}, delta \in Short,
          timeout \in Timeouts \cup {"none"} :
         sem_perform_semop(t, type, delta, timeout)
  BY DEF Operates
<1> DEFINE h == handle[ProcOf[t]]
           c == [pc |-> "semop", op |-> SemOp(type, delta), id |-> h.id,
                 undo |-> h.undo, block |-> h.block, timeout |-> timeout]
<1>2. CASE Return(t, "Value") /\ UNCHANGED <<kernel, handle>>
  BY <1>2, QuietReturnType DEF Results, Errors
<1>3. CASE call' = [call EXCEPT ![t] = c] /\ UNCHANGED <<kernel, handle>>
  <2>1. CanUse(t)
    BY <1>1 DEF sem_perform_semop
  <2>2. c \in SemopCall
    BY <2>1, OperationIsSemopCall
  <2> HIDE DEF c
  <2> QED
    BY <1>3, <2>2, BeginType DEF Call
<1> QED
  BY <1>1, <1>2, <1>3 DEF sem_perform_semop

\* A call that is on its way into semop, or blocked in it.
LEMMA SemopCalls ==
  ASSUME TypeOK, NEW t \in Threads, call[t].pc \in {"semop", "wait"}
  PROVE  call[t] \in SemopCall
BY DEF TypeOK, Call, SetvalCall, IpcSetCall

LEMMA SemopType ==
  ASSUME TypeOK, NEW t \in Threads, Semop(t)
  PROVE  TypeOK'
<1>1. call[t] \in SemopCall
  BY SemopCalls DEF Semop
<1>2. CASE Fail(t, "EINVAL") \/ Fail(t, "EACCES") \/ Fail(t, "EAGAIN")
  BY <1>2, FailType DEF Errnos
<1>3. CASE ~WouldBlock(call[t]) /\ Complete(t, call[t])
  BY <1>1, <1>3, CompleteType
<1>4. CASE call' = [call EXCEPT ![t].pc = "wait"] /\ UNCHANGED <<kernel, handle>>
  <2>1. PICK c : c = [call[t] EXCEPT !.pc = "wait"]
    OBVIOUS
  <2>2. c \in SemopCall
    BY <1>1, <2>1 DEF SemopCall
  <2>3. call' = [call EXCEPT ![t] = c]
    BY <1>4, <2>1 DEF TypeOK
  <2> QED
    BY <1>4, <2>2, <2>3, BeginType DEF Call
<1> QED
  BY <1>2, <1>3, <1>4 DEF Semop, Arguments

\* A blocked call ends in one of three ways.
LEMMA WaiterType ==
  ASSUME TypeOK, NEW t \in Threads, Wake(t) \/ TimeOut(t) \/ Interrupt(t)
  PROVE  TypeOK'
<1>1. call[t] \in SemopCall
  BY SemopCalls DEF Wake, TimeOut, Interrupt
<1>2. CASE Fail(t, "EIDRM") \/ Fail(t, "EAGAIN") \/ Fail(t, "EINTR")
  BY <1>2, FailType DEF Errnos
<1>3. CASE ~WouldBlock(call[t]) /\ Complete(t, call[t])
  BY <1>1, <1>3, CompleteType
<1> QED
  BY <1>2, <1>3 DEF Wake, TimeOut, Interrupt

LEMMA SetValueType ==
  ASSUME TypeOK, NEW t \in Threads, NEW v \in Int, sem_set_value(t, v)
  PROVE  TypeOK'
<1> DEFINE i     == handle[ProcOf[t]].id
           n     == ToInt(v)
           errno == SetvalErrno(i, n)
<1>1. i \in Ids
  BY UsedHandle DEF sem_set_value, Handle
<1>2. CASE errno # "none" /\ Fail(t, errno)
  BY <1>2, SetvalErrnos, FailType
<1>3. CASE errno = "none" /\ Setval(i, n) /\ Return(t, "ok") /\ UNCHANGED handle
  <2>1. call' \in [Threads -> Call]
    BY <1>3, ReturnType DEF TypeOK, Results
  <2>2. /\ val' \in [Ids -> 0..SEMVMX]
        /\ adj' \in [Ids -> [Procs -> -(SEMVMX + 1)..SEMVMX]]
        /\ UNCHANGED <<idOf, status, writable, otime>>
    BY <1>1, <1>3, SetvalType
  <2> QED
    BY <1>3, <2>1, <2>2 DEF TypeOK
<1> QED
  BY <1>2, <1>3 DEF sem_set_value

LEMMA SetFlagType ==
  ASSUME TypeOK, NEW t \in Threads, NEW b \in BOOLEAN,
         sem_set_block(t, b) \/ sem_set_undo(t, b)
  PROVE  TypeOK'
<1> DEFINE h == handle[ProcOf[t]]
<1>1. handle' \in [Procs -> Handles]
  <2>1. h \in Handle
    BY UsedHandle DEF sem_set_block, sem_set_undo
  <2>2. [h EXCEPT !.block = b] \in Handles
    BY <2>1 DEF Handles, Handle
  <2>3. [h EXCEPT !.undo = b] \in Handles
    BY <2>1 DEF Handles, Handle
  <2>4. handle' = [handle EXCEPT ![ProcOf[t]] = [h EXCEPT !.block = b]]
        \/ handle' = [handle EXCEPT ![ProcOf[t]] = [h EXCEPT !.undo = b]]
    BY DEF sem_set_block, sem_set_undo
  <2>5. handle \in [Procs -> Handles]
    BY DEF TypeOK, Handles
  <2> HIDE DEF h
  <2> QED
    BY <2>2, <2>3, <2>4, <2>5
<1>2. call' \in [Threads -> Call]
  BY ReturnType DEF sem_set_block, sem_set_undo, TypeOK, Results
<1> QED
  BY <1>1, <1>2 DEF sem_set_block, sem_set_undo, TypeOK, Handles, kernel

LEMMA GetType ==
  ASSUME TypeOK, NEW t \in Threads, sem_get(t)
  PROVE  TypeOK'
<1>1. CASE Fail(t, "EINVAL")
  BY <1>1, FailType DEF Errnos
<1>2. CASE Return(t, "ok") /\ UNCHANGED <<kernel, handle>>
  BY <1>2, QuietReturnType DEF Results
<1> QED
  BY <1>1, <1>2 DEF sem_get

LEMMA SetPermType ==
  ASSUME TypeOK, NEW t \in Threads, NEW field \in Settable, NEW rw \in BOOLEAN,
         sem_set_ipc_perm_value(t, field, rw)
  PROVE  TypeOK'
<1> DEFINE i == handle[ProcOf[t]].id
           c == [pc |-> "ipcset", id |-> i, field |-> field,
                 rw |-> IF field = "mode" THEN rw ELSE writable[i]]
<1>1. CASE Fail(t, "EINVAL")
  BY <1>1, FailType DEF Errnos
<1>2. CASE call' = [call EXCEPT ![t] = c] /\ UNCHANGED <<kernel, handle>>
  <2>1. i \in Ids /\ writable[i] \in BOOLEAN
    BY UsedHandle DEF sem_set_ipc_perm_value, Handle, TypeOK
  <2>2. c \in Call
    BY <2>1 DEF Call, IpcSetCall
  <2> QED
    BY <1>2, <2>2 DEF TypeOK, kernel
<1> QED
  BY <1>1, <1>2 DEF sem_set_ipc_perm_value

LEMMA IpcSetType ==
  ASSUME TypeOK, NEW t \in Threads, IpcSet(t)
  PROVE  TypeOK'
<1>1. call[t].id \in Ids /\ call[t].rw \in BOOLEAN
  BY DEF IpcSet, TypeOK, Call, SetvalCall, SemopCall, IpcSetCall
<1>2. CASE Fail(t, "EINVAL")
  BY <1>2, FailType DEF Errnos
<1>3. CASE /\ writable' = [writable EXCEPT ![call[t].id] = call[t].rw]
           /\ Return(t, "ok")
           /\ UNCHANGED <<idOf, status, val, otime, adj, handle>>
  <2>1. call' \in [Threads -> Call]
    BY <1>3, ReturnType DEF TypeOK, Results
  <2> QED
    BY <1>1, <1>3, <2>1 DEF TypeOK
<1> QED
  BY <1>2, <1>3 DEF IpcSet

LEMMA RemoveType ==
  ASSUME TypeOK, NEW t \in Threads, NEW i \in Ids, sem_remove(t, i)
  PROVE  TypeOK'
<1>1. CASE Fail(t, "EINVAL")
  BY <1>1, FailType DEF Errnos
<1>2. CASE ~Fail(t, "EINVAL")
  <2>1. /\ status' = [status EXCEPT ![i] = "removed"]
        /\ idOf' = [k \in Keys |-> IF idOf[k] = i THEN NoId ELSE idOf[k]]
        /\ val' = [val EXCEPT ![i] = 0]
        /\ writable' = [writable EXCEPT ![i] = FALSE]
        /\ otime' = [otime EXCEPT ![i] = FALSE]
        /\ adj' = [adj EXCEPT ![i] = NoUndo]
        /\ Return(t, "ok") /\ UNCHANGED handle
    BY <1>2 DEF sem_remove
  <2>2. call' \in [Threads -> Call]
    BY <2>1, ReturnType DEF TypeOK, Results
  <2>3. NoUndo \in [Procs -> -(SEMVMX + 1)..SEMVMX]
    BY DEF NoUndo
  <2>4. idOf' \in [Keys -> Ids \cup {NoId}]
    BY <2>1 DEF TypeOK
  <2> QED
    BY <2>1, <2>2, <2>3, <2>4 DEF TypeOK
<1> QED
  BY <1>1, <1>2

LEMMA ExitProcessType ==
  ASSUME TypeOK, NEW p \in Procs, ExitProcess(p)
  PROVE  TypeOK'
<1>1. val' \in [Ids -> 0..SEMVMX]
  <2>1. ASSUME NEW i \in Ids PROVE Clamp(val[i] + adj[i][p]) \in 0..SEMVMX
    BY DEF Clamp, TypeOK
  <2> QED
    BY <2>1 DEF ExitProcess, TypeOK
<1>2. adj' \in [Ids -> [Procs -> -(SEMVMX + 1)..SEMVMX]]
  <2>1. ASSUME NEW i \in Ids
        PROVE  [adj[i] EXCEPT ![p] = 0] \in [Procs -> -(SEMVMX + 1)..SEMVMX]
    BY DEF TypeOK
  <2> QED
    BY <2>1 DEF ExitProcess
<1>3. handle' \in [Procs -> Handles]
  BY DEF ExitProcess, TypeOK, Handles, NoHandle
<1>4. call' \in [Threads -> Call]
  BY DEF ExitProcess, TypeOK, Call, Results
<1> QED
  BY <1>1, <1>2, <1>3, <1>4 DEF ExitProcess, TypeOK, Handles

----------------------------------------------------------------------------
(* Type correctness.                                                       *)

LEMMA InitType == Init => TypeOK
BY DEF Init, TypeOK, NoUndo, NoHandle, Call, Results

LEMMA ThreadStepType ==
  ASSUME TypeOK, NEW t \in Threads, ThreadStep(t)
  PROVE  TypeOK'
<1>1. ASSUME NEW key \in Keys \cup {None}, NEW flags \in Flags,
             NEW rw \in BOOLEAN, NEW init \in InitialValues,
             Semaphore_init(t, key, flags, rw, init)
      PROVE  TypeOK'
  BY <1>1, SemaphoreInitType, InitialValuesAreIntegers
<1>2. CASE TryRandomKey(t)
  BY <1>2, TryRandomKeyType
<1>3. CASE SetInitialValue(t)
  BY <1>3, SetInitialValueType
<1>5. CASE Operates(t)
  BY <1>5, PerformSemopType
<1>6. CASE Semop(t)
  BY <1>6, SemopType
<1>7. CASE Wake(t) \/ TimeOut(t) \/ Interrupt(t)
  BY <1>7, WaiterType
<1>8. ASSUME NEW v \in Values, sem_set_value(t, v)
      PROVE  TypeOK'
  BY <1>8, SetValueType
<1>9. ASSUME NEW b \in BOOLEAN, sem_set_block(t, b) \/ sem_set_undo(t, b)
      PROVE  TypeOK'
  BY <1>9, SetFlagType
<1>10. CASE sem_get(t)
  BY <1>10, GetType
<1>11. ASSUME NEW field \in Settable \cap {"mode", "owner"}, NEW rw \in BOOLEAN,
              sem_set_ipc_perm_value(t, field, rw)
       PROVE  TypeOK'
  BY <1>11, SetPermType
<1>12. CASE IpcSet(t)
  BY <1>12, IpcSetType
<1>13. ASSUME NEW i \in Ids, sem_remove(t, i)
       PROVE  TypeOK'
  BY <1>13, RemoveType
<1> QED
  BY <1>1, <1>2, <1>3, <1>5, <1>6, <1>7, <1>8, <1>9, <1>10, <1>11,
     <1>12, <1>13, OperationsAreOne DEF ThreadStep

\* Every reachable state is well typed: whatever the calls, deltas, crashes
\* and signals, a semaphore's value stays between 0 and SEMVMX and what a
\* process owes it stays within what the kernel can undo.
THEOREM TypeCorrect == Spec => []TypeOK
<1>1. TypeOK /\ [Next]_vars => TypeOK'
  <2> SUFFICES ASSUME TypeOK, [Next]_vars PROVE TypeOK'
    OBVIOUS
  <2>1. ASSUME NEW t \in Threads, ThreadStep(t) PROVE TypeOK'
    BY <2>1, ThreadStepType
  <2>2. ASSUME NEW p \in Procs, ExitProcess(p) PROVE TypeOK'
    BY <2>2, ExitProcessType
  <2>3. CASE UNCHANGED vars
    BY <2>3 DEF TypeOK, vars
  <2> QED
    BY <2>1, <2>2, <2>3 DEF Next
<1> QED
  BY <1>1, InitType, PTL DEF Spec

----------------------------------------------------------------------------
(* Objects name their semaphores.  ObjectNamesItsSemaphore is inductive    *)
(* with TypeOK; most steps leave alone everything it speaks of.            *)

\* What an object, and a constructor about to set a value, take a key to name.
ObjectsNamed ==
  \A p \in Procs : handle[p].id # NoId => Names(handle[p].key, handle[p].id)
CallsNamed ==
  \A t \in Threads : call[t].pc = "setval" => Names(call[t].key, call[t].id)

\* No thread starts to set an initial value.
NoNewSetval ==
  \A t \in Threads : call'[t].pc = "setval" => call'[t] = call[t]

\* Steps that neither create nor remove a semaphore nor make an object.
LEMMA NamesUndisturbed ==
  ASSUME ObjectNamesItsSemaphore, UNCHANGED <<idOf, status>>, NoNewSetval,
         \A p \in Procs : handle'[p].id # NoId =>
            handle'[p].id = handle[p].id /\ handle'[p].key = handle[p].key
  PROVE  ObjectNamesItsSemaphore'
BY DEF ObjectNamesItsSemaphore, KeysNameLiveSemaphores, Exists, Names,
       NoNewSetval

LEMMA ReturnSetsNoValue ==
  ASSUME call \in [Threads -> Call], NEW t \in Threads, NEW result,
         Return(t, result)
  PROVE  NoNewSetval
BY DEF Return, NoNewSetval

LEMMA FailNames ==
  ASSUME TypeOK, ObjectNamesItsSemaphore, NEW t \in Threads, NEW errno,
         Fail(t, errno)
  PROVE  ObjectNamesItsSemaphore'
<1>1. NoNewSetval
  BY ReturnSetsNoValue DEF Fail, TypeOK
<1> QED
  BY <1>1, NamesUndisturbed DEF Fail, kernel

\* The constructor is handed i for k: it names it from now on.
LEMMA ObtainedNames ==
  ASSUME TypeOK, NEW t \in Threads, NEW k \in Keys, NEW i \in Ids,
         NEW flags, NEW rw, NEW init, Obtained(t, k, i, flags, rw, init),
         Names(k, i)',
         \A l \in Keys, j \in Ids : Names(l, j) => Names(l, j)',
         ObjectNamesItsSemaphore, KeysNameLiveSemaphores'
  PROVE  ObjectNamesItsSemaphore'
<1>1. ASSUME NEW p \in Procs
      PROVE  (handle[p].id # NoId => Names(handle[p].key, handle[p].id))'
  <2>1. CASE handle'[p] = handle[p]
    <3>1. SUFFICES ASSUME handle[p].id # NoId
                   PROVE  Names(handle[p].key, handle[p].id)'
      BY <2>1
    <3>2. PICK l \in Keys, j \in Ids : l = handle[p].key /\ j = handle[p].id
      BY <3>1, ObjectIsHandle DEF Handle
    <3>3. Names(l, j)'
      BY <3>1, <3>2 DEF ObjectNamesItsSemaphore
    <3> QED
      BY <2>1, <3>2, <3>3 DEF Names
  <2>2. CASE handle'[p].key = k /\ handle'[p].id = i
    BY <2>2 DEF Names
  <2>3. handle'[p] = handle[p] \/ (handle'[p].key = k /\ handle'[p].id = i)
    BY DEF Obtained, NewHandle, TypeOK
  <2> QED
    BY <2>1, <2>2, <2>3
<1>2. ASSUME NEW u \in Threads
      PROVE  (call[u].pc = "setval" => Names(call[u].key, call[u].id))'
  <2>1. CASE call'[u] = call[u]
    <3>1. SUFFICES ASSUME call[u].pc = "setval"
                   PROVE  Names(call[u].key, call[u].id)'
      BY <2>1
    <3>2. PICK l \in Keys, j \in Ids : l = call[u].key /\ j = call[u].id
      BY <3>1 DEF TypeOK, Call, SetvalCall, SemopCall, IpcSetCall
    <3>3. Names(l, j)'
      BY <3>1, <3>2 DEF ObjectNamesItsSemaphore
    <3> QED
      BY <2>1, <3>2, <3>3 DEF Names
  <2>2. CASE call'[u].key = k /\ call'[u].id = i
    BY <2>2 DEF Names
  <2>3. CASE call'[u].pc # "setval"
    BY <2>3
  <2>4. \/ call'[u] = call[u]
        \/ call'[u].pc # "setval"
        \/ call'[u].key = k /\ call'[u].id = i
    BY DEF Obtained, Return, TypeOK
  <2> QED
    BY <2>1, <2>2, <2>3, <2>4
<1> QED
  BY <1>1, <1>2 DEF ObjectNamesItsSemaphore

LEMMA SemgetNames ==
  ASSUME TypeOK, ObjectNamesItsSemaphore, NEW t \in Threads, NEW k \in Keys,
         NEW flags, NEW rw, NEW init, Semget(t, k, flags, rw, init)
  PROVE  ObjectNamesItsSemaphore'
<1> DEFINE errno == SemgetErrno(k, flags, rw)
<1>1. CASE Fail(t, errno)
  BY <1>1, FailNames
<1>2. CASE /\ Exists(k) /\ Obtained(t, k, idOf[k], flags, rw, init)
           /\ UNCHANGED kernel
  <2>1. PICK i \in Ids : i = idOf[k]
    BY <1>2 DEF Exists, TypeOK
  <2>2. Names(k, i)
    BY <1>2, <2>1 DEF ObjectNamesItsSemaphore, KeysNameLiveSemaphores, Names
  <2>3. \A l \in Keys, j \in Ids : Names(l, j)' <=> Names(l, j)
    BY <1>2 DEF kernel, Names
  <2>4. KeysNameLiveSemaphores'
    BY <1>2 DEF kernel, ObjectNamesItsSemaphore, KeysNameLiveSemaphores, Exists
  <2>5. Obtained(t, k, i, flags, rw, init)
    BY <1>2, <2>1
  <2> QED
    BY <2>2, <2>3, <2>4, <2>5, ObtainedNames
<1>3. ASSUME NEW i \in Ids, ~Exists(k), Allocate(k, i, rw),
             Obtained(t, k, i, flags, rw, init)
      PROVE  ObjectNamesItsSemaphore'
  <2>1. status[i] = "unused" /\ status' = [status EXCEPT ![i] = "live"]
    BY <1>3 DEF Allocate
  <2>2. idOf' = IF k = IPC_PRIVATE THEN idOf ELSE [idOf EXCEPT ![k] = i]
    BY <1>3 DEF Allocate
  <2>3. \A l \in Keys : idOf[l] # i
    <3>1. i # NoId
      BY DEF Ids, NoId
    <3>2. \A l \in Keys : idOf[l] # NoId => status[idOf[l]] = "live"
      BY DEF ObjectNamesItsSemaphore, KeysNameLiveSemaphores, Exists
    <3> QED
      BY <2>1, <3>1, <3>2
  <2>4. KeysNameLiveSemaphores'
    <3>1. idOf'[IPC_PRIVATE] = NoId
      BY <2>2 DEF ObjectNamesItsSemaphore, KeysNameLiveSemaphores, TypeOK
    <3>2. ASSUME NEW l \in Keys, idOf'[l] # NoId PROVE status'[idOf'[l]] = "live"
      BY <2>1, <2>2, <2>3, <3>2
         DEF ObjectNamesItsSemaphore, KeysNameLiveSemaphores, Exists, TypeOK
    <3>3. ASSUME NEW l \in Keys, NEW m \in Keys,
                 idOf'[l] # NoId, idOf'[l] = idOf'[m]
          PROVE  l = m
      BY <2>2, <2>3, <3>3
         DEF ObjectNamesItsSemaphore, KeysNameLiveSemaphores, Exists, TypeOK
    <3> QED
      BY <3>1, <3>2, <3>3 DEF KeysNameLiveSemaphores, Exists
  <2>5. Names(k, i)'
    BY <2>1, <2>2 DEF Names, TypeOK
  <2>6. ASSUME NEW l \in Keys, NEW j \in Ids, Names(l, j) PROVE Names(l, j)'
    <3>1. j # i /\ status'[j] = status[j]
      BY <2>1, <2>6 DEF Names, TypeOK
    <3>2. CASE l = k
      <4>1. status[j] # "live" \/ k = IPC_PRIVATE
        BY <1>3, <2>6, <3>2 DEF Names, Exists, NoId, Ids
      <4> QED
        BY <2>6, <3>1, <3>2, <4>1 DEF Names
    <3>3. CASE l # k
      BY <2>2, <2>6, <3>1, <3>3 DEF Names, TypeOK
    <3> QED
      BY <3>2, <3>3
  <2> QED
    BY <1>3, <2>4, <2>5, <2>6, ObtainedNames
<1> QED
  BY <1>1, <1>2, <1>3 DEF Semget

\* The second half of the constructor: the object takes over the name.
LEMMA SetInitialValueNames ==
  ASSUME TypeOK, ObjectNamesItsSemaphore, NEW t \in Threads, SetInitialValue(t)
  PROVE  ObjectNamesItsSemaphore'
<1> DEFINE errno == SetvalErrno(call[t].id, call[t].init)
<1>1. CASE Fail(t, errno)
  BY <1>1, FailNames
<1>2. CASE /\ Setval(call[t].id, call[t].init)
           /\ NewHandle(t, call[t].key, call[t].id)
           /\ Return(t, "ok")
  <2>1. UNCHANGED <<idOf, status>>
    BY <1>2 DEF Setval
  <2>2. \A l, j : Names(l, j) <=> (Names(l, j))'
    BY <2>1 DEF Names
  <2>3. NoNewSetval
    BY <1>2, ReturnSetsNoValue DEF TypeOK
  <2>4. ASSUME NEW p \in Procs
        PROVE  (handle[p].id # NoId => Names(handle[p].key, handle[p].id))'
    <3>1. CASE handle'[p] = handle[p]
      BY <2>1, <3>1 DEF ObjectNamesItsSemaphore, Names
    <3>2. CASE handle'[p].key = call[t].key /\ handle'[p].id = call[t].id
      <4>1. Names(call[t].key, call[t].id)
        BY DEF SetInitialValue, ObjectNamesItsSemaphore
      <4> QED
        BY <2>1, <3>2, <4>1 DEF Names
    <3>3. \/ handle'[p] = handle[p]
          \/ handle'[p].key = call[t].key /\ handle'[p].id = call[t].id
      BY <1>2 DEF NewHandle, TypeOK
    <3> QED
      BY <3>1, <3>2, <3>3
  <2>5. ASSUME NEW u \in Threads
        PROVE  (call[u].pc = "setval" => Names(call[u].key, call[u].id))'
    BY <2>1, <2>3 DEF NoNewSetval, ObjectNamesItsSemaphore, Names
  <2>6. KeysNameLiveSemaphores'
    BY <2>1 DEF ObjectNamesItsSemaphore, KeysNameLiveSemaphores, Exists
  <2> QED
    BY <2>4, <2>5, <2>6 DEF ObjectNamesItsSemaphore
<1> QED
  BY <1>1, <1>2 DEF SetInitialValue

\* A removed semaphore no longer has a key; the others keep theirs.
LEMMA RemoveNames ==
  ASSUME TypeOK, ObjectNamesItsSemaphore, NEW t \in Threads, NEW i \in Ids,
         sem_remove(t, i)
  PROVE  ObjectNamesItsSemaphore'
<1>1. CASE Fail(t, "EINVAL")
  BY <1>1, FailNames
<1>2. CASE /\ status' = [status EXCEPT ![i] = "removed"]
           /\ idOf' = [k \in Keys |-> IF idOf[k] = i THEN NoId ELSE idOf[k]]
           /\ Return(t, "ok") /\ UNCHANGED handle
  <2>1. NoNewSetval
    BY <1>2, ReturnSetsNoValue DEF TypeOK
  <2>2. ASSUME NEW l \in Keys, NEW j \in Ids, Names(l, j)
        PROVE  Names(l, j)'
    BY <1>2, <2>2 DEF Names, TypeOK
  <2>3. KeysNameLiveSemaphores'
    BY <1>2 DEF ObjectNamesItsSemaphore, KeysNameLiveSemaphores, Exists,
                TypeOK, Ids, NoId
  <2>4. ASSUME NEW p \in Procs
        PROVE  (handle[p].id # NoId => Names(handle[p].key, handle[p].id))'
    <3>1. SUFFICES ASSUME handle[p].id # NoId
                   PROVE  Names(handle[p].key, handle[p].id)'
      BY <1>2
    <3>2. PICK l \in Keys, j \in Ids : l = handle[p].key /\ j = handle[p].id
      BY <3>1, ObjectIsHandle DEF Handle
    <3>3. Names(l, j)'
      BY <2>2, <3>1, <3>2 DEF ObjectNamesItsSemaphore
    <3> QED
      BY <1>2, <3>2, <3>3 DEF Names
  <2>5. ASSUME NEW u \in Threads
        PROVE  (call[u].pc = "setval" => Names(call[u].key, call[u].id))'
    <3>1. SUFFICES ASSUME call'[u] = call[u], call[u].pc = "setval"
                   PROVE  Names(call[u].key, call[u].id)'
      BY <2>1 DEF NoNewSetval
    <3>2. PICK l \in Keys, j \in Ids : l = call[u].key /\ j = call[u].id
      BY <3>1 DEF TypeOK, Call, SetvalCall, SemopCall, IpcSetCall
    <3>3. Names(l, j)'
      BY <2>2, <3>1, <3>2 DEF ObjectNamesItsSemaphore
    <3> QED
      BY <3>1, <3>2, <3>3 DEF Names
  <2> QED
    BY <2>3, <2>4, <2>5 DEF ObjectNamesItsSemaphore
<1> QED
  BY <1>1, <1>2 DEF sem_remove

LEMMA ExitProcessNames ==
  ASSUME TypeOK, ObjectNamesItsSemaphore, NEW p \in Procs, ExitProcess(p)
  PROVE  ObjectNamesItsSemaphore'
<1>1. NoNewSetval
  BY DEF ExitProcess, NoNewSetval
<1>2. \A q \in Procs : handle'[q] = handle[q] \/ handle'[q].id = NoId
  BY DEF ExitProcess, NoHandle, TypeOK
<1>3. UNCHANGED <<idOf, status>>
  BY DEF ExitProcess
<1> QED
  BY <1>1, <1>2, <1>3, NamesUndisturbed

\* The operations that work on an object's semaphore neither name nor unname:
\* t alone makes progress, and not into the second half of a constructor.
Quiet(t) ==
  /\ UNCHANGED <<idOf, status>>
  /\ \A u \in Threads : u # t => call'[u] = call[u]
  /\ call'[t].pc \notin {"genkey", "setval"}
  /\ \A p \in Procs :
       handle'[p].id = handle[p].id /\ handle'[p].key = handle[p].key

LEMMA QuietNames ==
  ASSUME ObjectNamesItsSemaphore, NEW t \in Threads, Quiet(t)
  PROVE  ObjectNamesItsSemaphore'
<1>1. NoNewSetval
  BY DEF Quiet, NoNewSetval
<1> QED
  BY <1>1, NamesUndisturbed DEF Quiet

LEMMA ReturnIsQuiet ==
  ASSUME TypeOK, NEW t \in Threads, NEW result, Return(t, result),
         UNCHANGED <<idOf, status, handle>>
  PROVE  Quiet(t)
BY DEF Return, Quiet, TypeOK

LEMMA FailIsQuiet ==
  ASSUME TypeOK, NEW t \in Threads, NEW errno, Fail(t, errno)
  PROVE  Quiet(t)
BY ReturnIsQuiet DEF Fail, kernel

LEMMA CompleteIsQuiet ==
  ASSUME TypeOK, NEW t \in Threads, NEW c, Complete(t, c)
  PROVE  Quiet(t)
BY FailIsQuiet, ReturnIsQuiet DEF Complete, Perform

LEMMA PerformSemopIsQuiet ==
  ASSUME TypeOK, NEW t \in Threads, Operates(t)
  PROVE  Quiet(t)
<1>1. PICK type \in {"P", "V", "Z"}, delta \in Short,
          timeout \in Timeouts \cup {"none"} :
         sem_perform_semop(t, type, delta, timeout)
  BY DEF Operates
<1> DEFINE h == handle[ProcOf[t]]
           c == [pc |-> "semop", op |-> SemOp(type, delta), id |-> h.id,
                 undo |-> h.undo, block |-> h.block, timeout |-> timeout]
<1>2. CASE Return(t, "Value") /\ UNCHANGED <<kernel, handle>>
  BY <1>2, ReturnIsQuiet DEF kernel
<1>3. CASE call' = [call EXCEPT ![t] = c] /\ UNCHANGED <<kernel, handle>>
  <2>1. c.pc = "semop"
    OBVIOUS
  <2> HIDE DEF c
  <2> QED
    BY <1>3, <2>1 DEF Quiet, kernel, TypeOK
<1> QED
  BY <1>1, <1>2, <1>3 DEF sem_perform_semop

LEMMA SemopIsQuiet ==
  ASSUME TypeOK, NEW t \in Threads, Semop(t)
  PROVE  Quiet(t)
<1>1. CASE call' = [call EXCEPT ![t].pc = "wait"] /\ UNCHANGED <<kernel, handle>>
  <2>1. call[t] \in SemopCall
    BY SemopCalls DEF Semop
  <2>2. call'[t] = [call[t] EXCEPT !.pc = "wait"]
        /\ \A u \in Threads : u # t => call'[u] = call[u]
    BY <1>1 DEF TypeOK
  <2>3. call'[t].pc = "wait"
    BY <2>1, <2>2 DEF SemopCall
  <2> QED
    BY <1>1, <2>2, <2>3 DEF Quiet, kernel
<1> QED
  BY <1>1, FailIsQuiet, CompleteIsQuiet DEF Semop, Arguments

LEMMA WaiterIsQuiet ==
  ASSUME TypeOK, NEW t \in Threads, Wake(t) \/ TimeOut(t) \/ Interrupt(t)
  PROVE  Quiet(t)
BY FailIsQuiet, CompleteIsQuiet DEF Wake, TimeOut, Interrupt

LEMMA SetFlagIsQuiet ==
  ASSUME TypeOK, NEW t \in Threads, NEW b,
         sem_set_block(t, b) \/ sem_set_undo(t, b)
  PROVE  Quiet(t)
<1>1. /\ UNCHANGED <<idOf, status>>
      /\ call' = [call EXCEPT ![t] = [pc |-> "idle", res |-> "ok"]]
  BY DEF sem_set_block, sem_set_undo, Return, kernel
<1>2. \A p \in Procs :
        handle'[p].id = handle[p].id /\ handle'[p].key = handle[p].key
  <2> DEFINE h == handle[ProcOf[t]]
             g == handle'[ProcOf[t]]
  <2>1. \/ handle' = [handle EXCEPT ![ProcOf[t]] = [h EXCEPT !.block = b]]
        \/ handle' = [handle EXCEPT ![ProcOf[t]] = [h EXCEPT !.undo = b]]
    BY DEF sem_set_block, sem_set_undo
  <2>2. handle \in [Procs -> Handles]
    BY DEF TypeOK, Handles
  <2>3. g = [h EXCEPT !.block = b] \/ g = [h EXCEPT !.undo = b]
    BY <2>1, <2>2
  <2>4. h \in Handle
    BY UsedHandle DEF sem_set_block, sem_set_undo
  <2>5. g.id = h.id /\ g.key = h.key
    BY <2>3, <2>4 DEF Handle
  <2>6. \A p \in Procs : p # ProcOf[t] => handle'[p] = handle[p]
    BY <2>1, <2>2
  <2> QED
    BY <2>5, <2>6
<1> QED
  BY <1>1, <1>2 DEF Quiet, TypeOK

LEMMA AttributeIsQuiet ==
  ASSUME TypeOK, NEW t \in Threads,
         \/ \E v \in Values : sem_set_value(t, v)
         \/ sem_get(t)
         \/ IpcSet(t)
  PROVE  Quiet(t)
<1>1. ASSUME NEW v \in Values, sem_set_value(t, v) PROVE Quiet(t)
  BY <1>1, FailIsQuiet, ReturnIsQuiet DEF sem_set_value, Setval
<1>2. CASE sem_get(t)
  BY <1>2, FailIsQuiet, ReturnIsQuiet DEF sem_get, kernel
<1>3. CASE IpcSet(t)
  BY <1>3, FailIsQuiet, ReturnIsQuiet DEF IpcSet
<1> QED
  BY <1>1, <1>2, <1>3

LEMMA SetPermIsQuiet ==
  ASSUME TypeOK, NEW t \in Threads, NEW field, NEW rw,
         sem_set_ipc_perm_value(t, field, rw)
  PROVE  Quiet(t)
<1>1. CASE Fail(t, "EINVAL")
  BY <1>1, FailIsQuiet
<1>2. CASE ~Fail(t, "EINVAL")
  <2>1. PICK c \in {[pc |-> "ipcset", id |-> handle[ProcOf[t]].id,
                     field |-> field, rw |-> b] : b \in {rw,
                     writable[handle[ProcOf[t]].id]}} :
           call' = [call EXCEPT ![t] = c]
    BY <1>2 DEF sem_set_ipc_perm_value
  <2>2. c.pc = "ipcset"
    BY <2>1
  <2>3. UNCHANGED <<kernel, handle>>
    BY <1>2 DEF sem_set_ipc_perm_value
  <2> QED
    BY <2>1, <2>2, <2>3 DEF Quiet, kernel, TypeOK
<1> QED
  BY <1>1, <1>2

LEMMA ConstructorNames ==
  ASSUME TypeOK, ObjectNamesItsSemaphore, NEW t \in Threads,
         \/ \E key \in Keys \cup {None}, flags \in Flags, rw \in BOOLEAN,
               init \in InitialValues : Semaphore_init(t, key, flags, rw, init)
         \/ TryRandomKey(t)
  PROVE  ObjectNamesItsSemaphore'
<1>1. ASSUME NEW key \in Keys \cup {None}, NEW flags \in Flags,
             NEW rw \in BOOLEAN, NEW init \in InitialValues,
             Semaphore_init(t, key, flags, rw, init)
      PROVE  ObjectNamesItsSemaphore'
  <2>1. CASE UNCHANGED <<kernel, handle>> /\ NoNewSetval
    BY <2>1, NamesUndisturbed DEF kernel
  <2>2. CASE key # None /\ Semget(t, key, flags, rw, init)
    BY <2>2, SemgetNames
  <2>3. CASE Return(t, "Value") /\ UNCHANGED <<kernel, handle>>
    BY <2>1, <2>3, ReturnSetsNoValue DEF TypeOK
  <2>4. CASE /\ call' = [call EXCEPT ![t] = [pc |-> "genkey", flags |-> flags,
                                             rw |-> rw, init |-> init]]
             /\ UNCHANGED <<kernel, handle>>
    BY <2>1, <2>4 DEF NoNewSetval, TypeOK
  <2> QED
    BY <1>1, <2>2, <2>3, <2>4 DEF Semaphore_init
<1>2. CASE TryRandomKey(t)
  BY <1>2, SemgetNames DEF TryRandomKey, get_random_key
<1> QED
  BY <1>1, <1>2

Construct(t) ==
  \/ \E key \in Keys \cup {None}, flags \in Flags, rw \in BOOLEAN,
        init \in InitialValues : Semaphore_init(t, key, flags, rw, init)
  \/ TryRandomKey(t)

\* The steps of a thread, as far as names are concerned.
LEMMA StepKinds ==
  ASSUME TypeOK, NEW t \in Threads, ThreadStep(t)
  PROVE  \/ Construct(t)
         \/ SetInitialValue(t)
         \/ Quiet(t)
         \/ \E i \in Ids : sem_remove(t, i)
<1>1. \/ Construct(t)
      \/ SetInitialValue(t)
      \/ Operates(t) \/ Semop(t)
      \/ Wake(t) \/ TimeOut(t) \/ Interrupt(t)
      \/ \E v \in Values : sem_set_value(t, v)
      \/ \E b \in BOOLEAN : sem_set_block(t, b) \/ sem_set_undo(t, b)
      \/ sem_get(t)
      \/ \E field \in Settable, rw \in BOOLEAN :
           sem_set_ipc_perm_value(t, field, rw)
      \/ IpcSet(t)
      \/ \E i \in Ids : sem_remove(t, i)
  BY OperationsAreOne DEF ThreadStep, Construct
<1> QED
  BY <1>1, PerformSemopIsQuiet, SemopIsQuiet, WaiterIsQuiet, SetFlagIsQuiet,
     AttributeIsQuiet, SetPermIsQuiet

LEMMA NextNames ==
  ASSUME TypeOK, ObjectNamesItsSemaphore, [Next]_vars
  PROVE  ObjectNamesItsSemaphore'
<1>1. ASSUME NEW t \in Threads, ThreadStep(t) PROVE ObjectNamesItsSemaphore'
  BY <1>1, StepKinds, ConstructorNames, SetInitialValueNames, RemoveNames,
     QuietNames DEF Construct
<1>2. ASSUME NEW p \in Procs, ExitProcess(p) PROVE ObjectNamesItsSemaphore'
  BY <1>2, ExitProcessNames
<1>3. CASE UNCHANGED vars
  BY <1>3 DEF vars, ObjectNamesItsSemaphore, KeysNameLiveSemaphores, Exists, Names
<1> QED
  BY <1>1, <1>2, <1>3 DEF Next

\* The key of an object leads to the object's semaphore and to no other for
\* as long as it is in the system, in every reachable state.
THEOREM NamesCorrect == Spec => []ObjectNamesItsSemaphore
<1>1. Init => ObjectNamesItsSemaphore
  BY DEF Init, ObjectNamesItsSemaphore, KeysNameLiveSemaphores, Exists, NoHandle
<1>2. TypeOK /\ ObjectNamesItsSemaphore /\ [Next]_vars => ObjectNamesItsSemaphore'
  BY NextNames
<1> QED
  BY <1>1, <1>2, TypeCorrect, PTL DEF Spec

----------------------------------------------------------------------------
(* What the constructor may rely on.                                       *)

\* Of the steps of a thread, only semget's makes the constructor go on to
\* SETVAL, and only for a semaphore that lets it write.
LEMMA SemgetMayWrite ==
  ASSUME TypeOK, NEW t \in Threads, NEW k \in Keys, NEW flags,
         NEW rw \in BOOLEAN, NEW init, Semget(t, k, flags, rw, init),
         call'[t].pc = "setval"
  PROVE  writable'[call'[t].id]
<1> DEFINE errno == SemgetErrno(k, flags, rw)
<1>1. ~Fail(t, errno)
  BY DEF Fail, Return, TypeOK
<1>2. ASSUME NEW i, Obtained(t, k, i, flags, rw, init)
      PROVE  rw /\ call'[t].id = i
  BY <1>2 DEF Obtained, Return, SetsInitialValue, TypeOK
<1>3. CASE /\ errno = "none" /\ Exists(k)
           /\ Obtained(t, k, idOf[k], flags, rw, init) /\ UNCHANGED kernel
  <2>1. writable[idOf[k]]
    BY <1>2, <1>3 DEF SemgetErrno
  <2> QED
    BY <1>2, <1>3, <2>1 DEF kernel
<1>4. ASSUME NEW i \in Ids, Allocate(k, i, rw),
             Obtained(t, k, i, flags, rw, init)
      PROVE  writable'[call'[t].id]
  BY <1>2, <1>4 DEF Allocate, TypeOK
<1> QED
  BY <1>1, <1>3, <1>4 DEF Semget

LEMMA ConstructMayWrite ==
  ASSUME TypeOK, NEW t \in Threads, Construct(t), call'[t].pc = "setval"
  PROVE  writable'[call'[t].id]
<1>1. ASSUME NEW key \in Keys \cup {None}, NEW flags \in Flags,
             NEW rw \in BOOLEAN, NEW init \in InitialValues,
             Semaphore_init(t, key, flags, rw, init)
      PROVE  writable'[call'[t].id]
  <2>1. ~Return(t, "Value")
    BY DEF Return, TypeOK
  <2>2. call' # [call EXCEPT ![t] = [pc |-> "genkey", flags |-> flags,
                                     rw |-> rw, init |-> init]]
    BY DEF TypeOK
  <2>3. key # None /\ Semget(t, key, flags, rw, init)
    BY <1>1, <2>1, <2>2 DEF Semaphore_init
  <2> QED
    BY <2>3, SemgetMayWrite
<1>2. CASE TryRandomKey(t)
  <2>1. call[t].rw \in BOOLEAN
    BY <1>2 DEF TryRandomKey, TypeOK, Call, SetvalCall, SemopCall, IpcSetCall
  <2> QED
    BY <1>2, <2>1, SemgetMayWrite DEF TryRandomKey, get_random_key
<1> QED
  BY <1>1, <1>2 DEF Construct

\* Only the thread that steps gets a new call, and an exit only ends calls.
LEMMA OthersKeepTheirCalls ==
  ASSUME TypeOK, NEW t \in Threads, ThreadStep(t), NEW u \in Threads, u # t
  PROVE  call'[u] = call[u]
<1>1. CASE Construct(t)
  BY <1>1 DEF Construct, Semaphore_init, TryRandomKey, Semget, Obtained,
     Fail, Return, TypeOK
<1>2. CASE SetInitialValue(t)
  BY <1>2 DEF SetInitialValue, Fail, Return, TypeOK
<1>3. CASE Quiet(t)
  BY <1>3 DEF Quiet
<1>4. CASE \E i \in Ids : sem_remove(t, i)
  BY <1>4 DEF sem_remove, Fail, Return, TypeOK
<1> QED
  BY <1>1, <1>2, <1>3, <1>4, StepKinds

\* The constructor never goes on to set the value of a semaphore it may not
\* write to.
THEOREM MayWriteCorrect == Spec => InitialiserMayWrite
<1> DEFINE A == \A t \in Threads :
                  call[t].pc # "setval" /\ call'[t].pc = "setval"
                    => writable'[call'[t].id]
<1>1. TypeOK /\ [Next]_vars => [A]_vars
  <2> SUFFICES ASSUME TypeOK, Next, NEW u \in Threads,
                      call[u].pc # "setval", call'[u].pc = "setval"
               PROVE  writable'[call'[u].id]
    OBVIOUS
  <2>1. ASSUME NEW t \in Threads, ThreadStep(t)
        PROVE  writable'[call'[u].id]
    <3>1. t = u
      BY <2>1, OthersKeepTheirCalls
    <3>2. ~SetInitialValue(t)
      BY <3>1 DEF SetInitialValue
    <3>3. ~Quiet(t)
      BY <3>1 DEF Quiet
    <3>4. ~\E i \in Ids : sem_remove(t, i)
      BY <3>1 DEF sem_remove, Fail, Return, TypeOK
    <3> QED
      BY <2>1, <3>1, <3>2, <3>3, <3>4, StepKinds, ConstructMayWrite
  <2>2. ASSUME NEW p \in Procs, ExitProcess(p)
        PROVE  FALSE
    BY <2>2 DEF ExitProcess
  <2> QED
    BY <2>1, <2>2 DEF Next
<1> QED
  BY <1>1, TypeCorrect, PTL DEF Spec, InitialiserMayWrite

----------------------------------------------------------------------------
(* Drawn keys.                                                             *)

\* The loop always asks for a semaphore that does not exist yet.
DrawsExclusively ==
  \A t \in Threads : call[t].pc = "genkey" => call[t].flags = CREX

LEMMA SemgetDrawsNothing ==
  ASSUME TypeOK, NEW t \in Threads, NEW k, NEW flags, NEW rw, NEW init,
         Semget(t, k, flags, rw, init)
  PROVE  call'[t].pc # "genkey"
<1>1. ASSUME NEW result, Return(t, result) PROVE call'[t].pc # "genkey"
  BY <1>1 DEF Return, TypeOK
<1>2. ASSUME NEW i, Obtained(t, k, i, flags, rw, init)
      PROVE  call'[t].pc # "genkey"
  BY <1>1, <1>2 DEF Obtained, TypeOK
<1>3. ASSUME NEW errno, Fail(t, errno) PROVE call'[t].pc # "genkey"
  BY <1>1, <1>3 DEF Fail
<1> QED
  BY <1>2, <1>3 DEF Semget

LEMMA ThreadStepDraws ==
  ASSUME TypeOK, DrawsExclusively, NEW t \in Threads, ThreadStep(t)
  PROVE  call'[t].pc = "genkey" => call'[t].flags = CREX
<1>1. ASSUME NEW key \in Keys \cup {None}, NEW flags \in Flags,
             NEW rw \in BOOLEAN, NEW init \in InitialValues,
             Semaphore_init(t, key, flags, rw, init)
      PROVE  call'[t].pc = "genkey" => call'[t].flags = CREX
  <2>1. CASE Return(t, "Value")
    BY <2>1 DEF Return, TypeOK
  <2>2. CASE /\ ~BadFlags(key, flags) /\ key = None
             /\ call' = [call EXCEPT ![t] = [pc |-> "genkey", flags |-> flags,
                                             rw |-> rw, init |-> init]]
    <3>1. flags = CREX
      BY <2>2 DEF BadFlags, Flags, CREX
    <3> QED
      BY <2>2, <3>1 DEF TypeOK
  <2>3. CASE Semget(t, key, flags, rw, init)
    BY <2>3, SemgetDrawsNothing
  <2> QED
    BY <1>1, <2>1, <2>2, <2>3 DEF Semaphore_init
<1>2. CASE Construct(t)
  BY <1>1, <1>2, SemgetDrawsNothing DEF Construct, TryRandomKey
<1>3. ASSUME NEW result, Return(t, result) PROVE call'[t].pc # "genkey"
  BY <1>3 DEF Return, TypeOK
<1>4. CASE SetInitialValue(t) \/ \E i \in Ids : sem_remove(t, i)
  BY <1>3, <1>4 DEF SetInitialValue, sem_remove, Fail
<1>5. CASE Quiet(t)
  BY <1>5 DEF Quiet
<1> QED
  BY <1>2, <1>4, <1>5, StepKinds

LEMMA AlwaysDrawsExclusively == Spec => []DrawsExclusively
<1>1. Init => DrawsExclusively
  BY DEF Init, DrawsExclusively
<1>2. TypeOK /\ DrawsExclusively /\ [Next]_vars => DrawsExclusively'
  <2> SUFFICES ASSUME TypeOK, DrawsExclusively, [Next]_vars, NEW u \in Threads
               PROVE  call'[u].pc = "genkey" => call'[u].flags = CREX
    BY DEF DrawsExclusively
  <2>1. ASSUME NEW t \in Threads, ThreadStep(t)
        PROVE  call'[u].pc = "genkey" => call'[u].flags = CREX
    <3>1. CASE t = u
      BY <2>1, <3>1, ThreadStepDraws
    <3>2. CASE t # u
      BY <2>1, <3>2, OthersKeepTheirCalls DEF DrawsExclusively
    <3> QED
      BY <3>1, <3>2
  <2>2. ASSUME NEW p \in Procs, ExitProcess(p)
        PROVE  call'[u].pc = "genkey" => call'[u].flags = CREX
    BY <2>2 DEF ExitProcess, DrawsExclusively
  <2>3. CASE UNCHANGED vars
    BY <2>3 DEF vars, DrawsExclusively
  <2> QED
    BY <2>1, <2>2, <2>3 DEF Next
<1> QED
  BY <1>1, <1>2, TypeCorrect, PTL DEF Spec

\* A thread in the key loop does nothing else.
LEMMA DrawerOnlyDraws ==
  ASSUME TypeOK, NEW t \in Threads, ThreadStep(t), call[t].pc = "genkey"
  PROVE  TryRandomKey(t)
<1>1. ~CanCall(t) /\ ~CanUse(t)
  BY DEF CanCall, CanUse
<1>2. /\ \A key, flags, rw, init : ~Semaphore_init(t, key, flags, rw, init)
      /\ ~Operates(t)
      /\ \A v : ~sem_set_value(t, v)
      /\ \A b : ~sem_set_block(t, b) /\ ~sem_set_undo(t, b)
      /\ \A field, rw : ~sem_set_ipc_perm_value(t, field, rw)
      /\ \A i : ~sem_remove(t, i)
      /\ ~sem_get(t)
  BY <1>1 DEF Semaphore_init, Operates, sem_perform_semop, sem_set_value,
     sem_set_block, sem_set_undo, sem_set_ipc_perm_value, sem_remove, sem_get
<1>3. /\ ~SetInitialValue(t) /\ ~IpcSet(t)
      /\ ~Semop(t) /\ ~Wake(t) /\ ~TimeOut(t) /\ ~Interrupt(t)
  BY DEF SetInitialValue, Semop, Wake, TimeOut, Interrupt, IpcSet
<1> QED
  BY <1>2, <1>3, OperationsAreOne DEF ThreadStep

\* What semget gives for a key nobody may have used was not in use.
LEMMA SemgetFresh ==
  ASSUME TypeOK, NEW t \in Threads, NEW k \in Keys, NEW rw, NEW init,
         Semget(t, k, CREX, rw, init)
  PROVE  /\ call'[t].pc = "setval" => status[call'[t].id] = "unused"
         /\ call'[t] = [pc |-> "idle", res |-> "ok"] =>
              status[handle'[ProcOf[t]].id] = "unused"
<1> DEFINE errno == SemgetErrno(k, CREX, rw)
<1>1. CASE errno # "none" /\ Fail(t, errno)
  <2>1. errno \in Errnos
    BY <1>1, SemgetErrnos
  <2>2. sem_set_error[errno] # "ok"
    BY <2>1 DEF Errnos, sem_set_error
  <2>3. call'[t] = [pc |-> "idle", res |-> sem_set_error[errno]]
    BY <1>1 DEF Fail, Return, TypeOK
  <2> QED
    BY <2>2, <2>3
<1>2. errno = "none" => ~Exists(k)
  BY DEF SemgetErrno
<1>3. ASSUME NEW i \in Ids, Allocate(k, i, rw),
             Obtained(t, k, i, CREX, rw, init)
      PROVE  /\ call'[t].pc = "setval" => status[call'[t].id] = "unused"
             /\ call'[t] = [pc |-> "idle", res |-> "ok"] =>
                  status[handle'[ProcOf[t]].id] = "unused"
  <2>1. status[i] = "unused"
    BY <1>3 DEF Allocate
  <2>2. call'[t].pc = "setval" => call'[t].id = i
    BY <1>3 DEF Obtained, Return, TypeOK
  <2>3. call'[t].pc # "setval" => handle'[ProcOf[t]].id = i
    BY <1>3 DEF Obtained, NewHandle, TypeOK
  <2> QED
    BY <2>1, <2>2, <2>3
<1> QED
  BY <1>1, <1>2, <1>3 DEF Semget

\* Semaphore(None, ...) only ever returns a semaphore that did not exist.
THEOREM DrawnKeyCorrect == Spec => DrawnKeyIsFresh
<1> DEFINE Fresh(t) ==
             /\ call'[t].pc = "setval" => status[call'[t].id] = "unused"
             /\ call'[t] = [pc |-> "idle", res |-> "ok"] =>
                  status[handle'[ProcOf[t]].id] = "unused"
           A == \A t \in Threads : call[t].pc = "genkey" => Fresh(t)
<1>1. TypeOK /\ DrawsExclusively /\ [Next]_vars => [A]_vars
  <2> SUFFICES ASSUME TypeOK, DrawsExclusively, Next, NEW u \in Threads,
                      call[u].pc = "genkey"
               PROVE  Fresh(u)
    OBVIOUS
  <2>1. ASSUME NEW t \in Threads, ThreadStep(t) PROVE Fresh(u)
    <3>1. CASE t # u
      BY <2>1, <3>1, OthersKeepTheirCalls
    <3>2. CASE t = u
      <4>1. TryRandomKey(u)
        BY <2>1, <3>2, DrawerOnlyDraws
      <4>2. PICK k \in Keys :
               Semget(u, k, call[u].flags, call[u].rw, call[u].init)
        BY <4>1 DEF TryRandomKey, get_random_key
      <4>3. call[u].flags = CREX
        BY DEF DrawsExclusively
      <4> QED
        BY <4>2, <4>3, SemgetFresh
    <3> QED
      BY <3>1, <3>2
  <2>2. ASSUME NEW p \in Procs, ExitProcess(p) PROVE Fresh(u)
    <3>1. \/ call'[u] = [pc |-> "idle", res |-> "none"]
          \/ call'[u] = call[u]
      BY <2>2 DEF ExitProcess
    <3> QED
      BY <3>1
  <2> QED
    BY <2>1, <2>2 DEF Next
<1> QED
  BY <1>1, TypeCorrect, AlwaysDrawsExclusively, PTL DEF Spec, DrawnKeyIsFresh

----------------------------------------------------------------------------
(* Timeouts.                                                               *)

Busy == [pc |-> "idle", res |-> "Busy"]

LEMMA ReturnIsNotBusy ==
  ASSUME TypeOK, NEW t \in Threads, NEW result, result # "Busy", Return(t, result)
  PROVE  call'[t] # Busy
BY DEF Return, Busy, TypeOK

LEMMA FailIsNotBusy ==
  ASSUME TypeOK, NEW t \in Threads, NEW errno \in Errnos, errno # "EAGAIN",
         Fail(t, errno)
  PROVE  call'[t] # Busy
<1>1. sem_set_error[errno] # "Busy"
  BY DEF Errnos, sem_set_error
<1> QED
  BY <1>1, ReturnIsNotBusy DEF Fail

LEMMA SemgetIsNotBusy ==
  ASSUME TypeOK, NEW t \in Threads, NEW k, NEW flags, NEW rw, NEW init,
         Semget(t, k, flags, rw, init)
  PROVE  call'[t] # Busy
<1>1. SemgetErrno(k, flags, rw) \in Errnos \cup {"none"}
      /\ SemgetErrno(k, flags, rw) # "EAGAIN"
  BY DEF SemgetErrno, Errnos
<1>2. ASSUME NEW i, Obtained(t, k, i, flags, rw, init)
      PROVE  call'[t] # Busy
  BY <1>2, ReturnIsNotBusy DEF Obtained, Busy, TypeOK
<1> QED
  BY <1>1, <1>2, FailIsNotBusy DEF Semget

LEMMA CompleteIsNotBusy ==
  ASSUME TypeOK, NEW t \in Threads, NEW c, Complete(t, c)
  PROVE  call'[t] # Busy
<1>1. "ERANGE" \in Errnos
  BY DEF Errnos
<1> QED
  BY <1>1, FailIsNotBusy, ReturnIsNotBusy DEF Complete, Perform

LEMMA GoingOnIsNotBusy ==
  ASSUME TypeOK, NEW t \in Threads, NEW c, c.pc # "idle",
         call' = [call EXCEPT ![t] = c]
  PROVE  call'[t] # Busy
BY DEF Busy, TypeOK

LEMMA PerformSemopIsNotBusy ==
  ASSUME TypeOK, NEW t \in Threads, Operates(t)
  PROVE  call'[t] # Busy
<1>1. PICK type \in {"P", "V", "Z"}, delta \in Short,
          timeout \in Timeouts \cup {"none"} :
         sem_perform_semop(t, type, delta, timeout)
  BY DEF Operates
<1>2. PICK c : c = [pc |-> "semop", op |-> SemOp(type, delta),
                    id |-> handle[ProcOf[t]].id, undo |-> handle[ProcOf[t]].undo,
                    block |-> handle[ProcOf[t]].block, timeout |-> timeout]
  OBVIOUS
<1>3. Return(t, "Value") \/ call' = [call EXCEPT ![t] = c]
  BY <1>1, <1>2 DEF sem_perform_semop
<1>4. c.pc = "semop"
  BY <1>2
<1> QED
  BY <1>3, <1>4, ReturnIsNotBusy, GoingOnIsNotBusy

\* semop's EAGAIN comes from IPC_NOWAIT, or from a timeout of zero that has
\* reached semtimedop.
LEMMA SemopBusy ==
  ASSUME TypeOK, NEW t \in Threads, Semop(t), call'[t] = Busy
  PROVE  /\ call[t].pc = "semop"
         /\ ~call[t].block \/ (SEMTIMEDOP_EXISTS /\ call[t].timeout = "zero")
<1>1. ~Fail(t, "EINVAL") /\ ~Fail(t, "EACCES")
  BY FailIsNotBusy DEF Errnos
<1>2. ~Complete(t, call[t])
  BY CompleteIsNotBusy
<1>3. call' # [call EXCEPT ![t].pc = "wait"]
  <2>1. call[t] \in SemopCall
    BY SemopCalls DEF Semop
  <2>2. PICK c : c = [call[t] EXCEPT !.pc = "wait"]
    OBVIOUS
  <2>3. c.pc # "idle"
    BY <2>1, <2>2 DEF SemopCall
  <2>4. call' # [call EXCEPT ![t] = c]
    BY <2>3, GoingOnIsNotBusy
  <2> QED
    BY <2>2, <2>4 DEF TypeOK
<1>4. ~Patient(call[t])
  BY <1>1, <1>2, <1>3 DEF Semop, Arguments
<1> QED
  BY <1>4 DEF Semop, Patient, IsTimed

\* No other operation fails with EAGAIN, but one that has timed out.
LEMMA BusySources ==
  ASSUME TypeOK, NEW t \in Threads, ThreadStep(t), call'[t] = Busy
  PROVE  TimeOut(t) \/ Semop(t)
<1>0. /\ \A result : result # "Busy" => ~Return(t, result)
      /\ \A errno \in Errnos \ {"EAGAIN"} : ~Fail(t, errno)
  BY ReturnIsNotBusy, FailIsNotBusy
<1>1. ASSUME NEW key, NEW flags, NEW rw, NEW init,
             Semaphore_init(t, key, flags, rw, init)
      PROVE  FALSE
  <2>1. call' # [call EXCEPT ![t] = [pc |-> "genkey", flags |-> flags,
                                     rw |-> rw, init |-> init]]
    BY DEF Busy, TypeOK
  <2> QED
    BY <1>0, <1>1, <2>1, SemgetIsNotBusy DEF Semaphore_init
<1>2. ~TryRandomKey(t)
  BY SemgetIsNotBusy DEF TryRandomKey
<1>3. \A i, v : SetvalErrno(i, v) # "EAGAIN"
  BY DEF SetvalErrno
<1>4. ~SetInitialValue(t) /\ \A v : ~sem_set_value(t, v)
  BY <1>0, <1>3, SetvalErrnos DEF SetInitialValue, sem_set_value
<1>5. \A i : ~sem_remove(t, i)
  BY <1>0 DEF sem_remove, Errnos
<1>6. ~sem_get(t) /\ \A b : ~sem_set_block(t, b) /\ ~sem_set_undo(t, b)
  BY <1>0 DEF sem_get, sem_set_block, sem_set_undo, Errnos
<1>7. ASSUME NEW field, NEW rw, sem_set_ipc_perm_value(t, field, rw)
      PROVE  FALSE
  BY <1>0, <1>7 DEF sem_set_ipc_perm_value, Errnos, Busy, TypeOK
<1>8. ~IpcSet(t)
  BY <1>0 DEF IpcSet, Errnos
<1>9. ~Wake(t) /\ ~Interrupt(t)
  BY <1>0, CompleteIsNotBusy DEF Wake, Interrupt, Errnos
<1>10. ~Operates(t)
  BY PerformSemopIsNotBusy
<1> QED
  BY <1>1, <1>2, <1>4, <1>5, <1>6, <1>7, <1>8, <1>9, <1>10, OperationsAreOne
     DEF ThreadStep

\* A thread that was idle goes into semop with the block of that moment.
LEMMA EntersWithBlock ==
  ASSUME TypeOK, NEW t \in Threads, ThreadStep(t),
         call[t].pc = "idle", call'[t].pc = "semop"
  PROVE  call'[t].block = handle[ProcOf[t]].block
<1>0. /\ \A result : ~Return(t, result)
      /\ \A errno : ~Fail(t, errno)
  BY DEF Fail, Return, TypeOK
<1>1. ~Construct(t)
  BY <1>0 DEF Construct, Semaphore_init, TryRandomKey, Semget, Obtained, TypeOK
<1>2. /\ ~SetInitialValue(t) /\ ~IpcSet(t)
      /\ ~Semop(t) /\ ~Wake(t) /\ ~TimeOut(t) /\ ~Interrupt(t)
  BY DEF SetInitialValue, IpcSet, Semop, Wake, TimeOut, Interrupt
<1>3. /\ \A v : ~sem_set_value(t, v)
      /\ \A b : ~sem_set_block(t, b) /\ ~sem_set_undo(t, b)
      /\ ~sem_get(t) /\ \A i : ~sem_remove(t, i)
  BY <1>0 DEF sem_set_value, sem_set_block, sem_set_undo, sem_get, sem_remove
<1>4. \A field, rw : ~sem_set_ipc_perm_value(t, field, rw)
  BY <1>0 DEF sem_set_ipc_perm_value, TypeOK
<1>5. Operates(t)
  BY <1>1, <1>2, <1>3, <1>4, OperationsAreOne DEF ThreadStep, Construct
<1>6. PICK type \in {"P", "V", "Z"}, delta \in Short,
          timeout \in Timeouts \cup {"none"} :
         sem_perform_semop(t, type, delta, timeout)
  BY <1>5 DEF Operates
<1>7. call' = [call EXCEPT ![t] =
                 [pc |-> "semop", op |-> SemOp(type, delta),
                  id |-> handle[ProcOf[t]].id, undo |-> handle[ProcOf[t]].undo,
                  block |-> handle[ProcOf[t]].block, timeout |-> timeout]]
  BY <1>0, <1>6 DEF sem_perform_semop
<1> QED
  BY <1>7 DEF TypeOK

\* BusyError means that block was False when the method was called, or that a
\* timeout ran out that was handed to semtimedop(): an object that blocks never
\* raises it otherwise, neither at once nor after a wait (sem_perform_semop).
THEOREM BusyCorrect == Spec => BusyOnlyWhenAsked
<1> DEFINE Enters(t) == call[t].pc = "idle" /\ call'[t].pc = "semop"
           Fails(t)  == call'[t] # call[t] /\ call'[t] = [pc |-> "idle", res |-> "Busy"]
           Was(t) ==
             \/ /\ call[t].pc = "semop"
                /\ ~call[t].block \/ (SEMTIMEDOP_EXISTS /\ call[t].timeout = "zero")
             \/ call[t].pc = "wait" /\ SEMTIMEDOP_EXISTS /\ call[t].timeout # "none"
           A == \A t \in Threads :
                  LET c == call[t] IN
                  /\ Enters(t) => call'[t].block = handle[ProcOf[t]].block
                  /\ Fails(t) => Was(t)
<1>1. TypeOK /\ [Next]_vars => [A]_vars
  <2> SUFFICES ASSUME TypeOK, Next, NEW u \in Threads
               PROVE  /\ Enters(u) => call'[u].block = handle[ProcOf[u]].block
                      /\ Fails(u) => Was(u)
    OBVIOUS
  <2>1. ASSUME NEW t \in Threads, ThreadStep(t), t = u, Enters(u)
        PROVE  call'[u].block = handle[ProcOf[u]].block
    BY <2>1, EntersWithBlock
  <2>2. ASSUME NEW t \in Threads, ThreadStep(t), t = u, Fails(u)
        PROVE  Was(u)
    <3>1. TimeOut(u) \/ Semop(u)
      BY <2>2, BusySources DEF Busy
    <3>2. CASE TimeOut(u)
      BY <3>2 DEF TimeOut, IsTimed
    <3>3. CASE Semop(u)
      BY <2>2, <3>3, SemopBusy DEF Busy
    <3> QED
      BY <3>1, <3>2, <3>3
  <2>3. ASSUME NEW t \in Threads, ThreadStep(t), Enters(u) \/ Fails(u)
        PROVE  t = u
    <3>1. call'[u] # call[u]
      BY <2>3
    <3> QED
      BY <2>3, <3>1, OthersKeepTheirCalls
  <2>4. ASSUME NEW p \in Procs, ExitProcess(p)
        PROVE  ~Enters(u) /\ ~Fails(u)
    BY <2>4 DEF ExitProcess
  <2> HIDE DEF Enters, Fails, Was
  <2> QED
    BY <2>1, <2>2, <2>3, <2>4 DEF Next
<1> QED
  BY <1>1, TypeCorrect, PTL DEF Spec, BusyOnlyWhenAsked

----------------------------------------------------------------------------
(* The GIL.                                                                *)

\* What a thread does without letting go of the GIL between two system calls.
Holding == {"genkey", "setval", "ipcset"}

HoldersAreAlone ==
  \A t, u \in Threads :
    ProcOf[t] = ProcOf[u] /\ call[t].pc \in Holding /\ call[u].pc \in Holding
      => t = u

LEMMA ReturnReleases ==
  ASSUME TypeOK, NEW t \in Threads, NEW result, Return(t, result)
  PROVE  call'[t].pc \notin Holding
BY DEF Return, Holding, TypeOK

LEMMA FailReleases ==
  ASSUME TypeOK, NEW t \in Threads, NEW errno, Fail(t, errno)
  PROVE  call'[t].pc \notin Holding
BY ReturnReleases DEF Fail

LEMMA CompleteReleases ==
  ASSUME TypeOK, NEW t \in Threads, NEW c, Complete(t, c)
  PROVE  call'[t].pc \notin Holding
BY ReturnReleases, FailReleases DEF Complete, Perform

\* Neither on the way into semop nor in it does a thread hold the GIL.
LEMMA SemopReleases ==
  ASSUME TypeOK, NEW t \in Threads,
         Operates(t) \/ Semop(t) \/ Wake(t) \/ TimeOut(t) \/ Interrupt(t)
  PROVE  call'[t].pc \notin Holding
<1>1. CASE Operates(t)
  <2>1. PICK type \in {"P", "V", "Z"}, delta \in Short,
          timeout \in Timeouts \cup {"none"} :
           sem_perform_semop(t, type, delta, timeout)
    BY <1>1 DEF Operates
  <2>2. PICK c : c = [pc |-> "semop", op |-> SemOp(type, delta),
                      id |-> handle[ProcOf[t]].id, undo |-> handle[ProcOf[t]].undo,
                      block |-> handle[ProcOf[t]].block, timeout |-> timeout]
    OBVIOUS
  <2>3. Return(t, "Value") \/ call' = [call EXCEPT ![t] = c]
    BY <2>1, <2>2 DEF sem_perform_semop
  <2>4. c.pc \notin Holding
    BY <2>2 DEF Holding
  <2> QED
    BY <2>3, <2>4, ReturnReleases DEF TypeOK
<1>2. CASE Semop(t)
  <2>1. CASE call' = [call EXCEPT ![t].pc = "wait"]
    <3>1. call[t] \in SemopCall
      BY <1>2, SemopCalls DEF Semop
    <3>2. call'[t] = [call[t] EXCEPT !.pc = "wait"]
      BY <2>1 DEF TypeOK
    <3> QED
      BY <3>1, <3>2 DEF SemopCall, Holding
  <2> QED
    BY <1>2, <2>1, FailReleases, CompleteReleases DEF Semop, Arguments
<1>3. CASE Wake(t) \/ TimeOut(t) \/ Interrupt(t)
  BY <1>3, FailReleases, CompleteReleases DEF Wake, TimeOut, Interrupt
<1> QED
  BY <1>1, <1>2, <1>3

\* A method begins with the GIL free, and the constructor keeps it.
LEMMA HoldersHadIt ==
  ASSUME TypeOK, NEW t \in Threads, ThreadStep(t), call'[t].pc \in Holding
  PROVE  call[t].pc \in Holding \/ GilFree(ProcOf[t])
<1>1. ASSUME NEW key, NEW flags, NEW rw, NEW init,
             Semaphore_init(t, key, flags, rw, init)
      PROVE  GilFree(ProcOf[t])
  BY <1>1 DEF Semaphore_init, CanCall
<1>2. CanUse(t) => GilFree(ProcOf[t])
  BY DEF CanUse, CanCall
<1>3. /\ \A v : sem_set_value(t, v) => CanUse(t)
      /\ \A b : (sem_set_block(t, b) \/ sem_set_undo(t, b)) => CanUse(t)
      /\ \A field, rw : sem_set_ipc_perm_value(t, field, rw) => CanUse(t)
      /\ sem_get(t) => CanUse(t)
  BY DEF sem_set_value, sem_set_block, sem_set_undo, sem_set_ipc_perm_value,
     sem_get
<1>4. \A i : sem_remove(t, i) => GilFree(ProcOf[t])
  BY DEF sem_remove, CanCall
<1>5. TryRandomKey(t) \/ SetInitialValue(t) \/ IpcSet(t) => call[t].pc \in Holding
  BY DEF TryRandomKey, SetInitialValue, IpcSet, Holding
<1>6. ~Operates(t) /\ ~Semop(t) /\ ~Wake(t) /\ ~TimeOut(t) /\ ~Interrupt(t)
  BY SemopReleases
<1> QED
  BY <1>1, <1>2, <1>3, <1>4, <1>5, <1>6, OperationsAreOne DEF ThreadStep

LEMMA AlwaysHoldersAreAlone == Spec => []HoldersAreAlone
<1>1. Init => HoldersAreAlone
  BY DEF Init, HoldersAreAlone, Holding
<1>2. TypeOK /\ HoldersAreAlone /\ [Next]_vars => HoldersAreAlone'
  <2> SUFFICES ASSUME TypeOK, HoldersAreAlone, [Next]_vars,
                      NEW u \in Threads, NEW w \in Threads,
                      ProcOf[u] = ProcOf[w],
                      call'[u].pc \in Holding, call'[w].pc \in Holding, u # w
               PROVE  FALSE
    BY DEF HoldersAreAlone
  <2>1. ASSUME NEW t \in Threads, ThreadStep(t) PROVE FALSE
    <3>1. \A x \in Threads : x # t => call'[x] = call[x]
      BY <2>1, OthersKeepTheirCalls
    <3>2. call'[t].pc \in Holding => call[t].pc \in Holding \/ GilFree(ProcOf[t])
      BY <2>1, HoldersHadIt
    <3>3. GilFree(ProcOf[t]) =>
            \A x \in Threads : ProcOf[x] = ProcOf[t] => call[x].pc \notin Holding
      BY DEF GilFree, Holding
    <3> QED
      BY <3>1, <3>2, <3>3 DEF HoldersAreAlone
  <2>2. ASSUME NEW p \in Procs, ExitProcess(p) PROVE FALSE
    <3>1. \A x \in Threads : call'[x].pc \in Holding => call'[x] = call[x]
      BY <2>2 DEF ExitProcess, Holding
    <3> QED
      BY <3>1 DEF HoldersAreAlone
  <2>3. CASE UNCHANGED vars
    BY <2>3 DEF vars, HoldersAreAlone
  <2> QED
    BY <2>1, <2>2, <2>3 DEF Next
<1> QED
  BY <1>1, <1>2, TypeCorrect, PTL DEF Spec

\* A thread in IpcSet, and what it is about to write back.
WritesBackMode(t) ==
  call[t].pc = "ipcset" /\ call[t].field = "owner" /\ status[call[t].id] = "live"
    => call[t].rw = writable[call[t].id]

\* What is neither the constructor, IPC_SET nor removal leaves the modes alone.
LEMMA WhoChangesModes ==
  ASSUME TypeOK, NEW t \in Threads, ThreadStep(t)
  PROVE  \/ GilFree(ProcOf[t])
         \/ call[t].pc \in Holding
         \/ UNCHANGED <<status, writable>> /\ call'[t].pc \notin Holding
<1>1. CASE GilFree(ProcOf[t]) \/ call[t].pc \in Holding
  BY <1>1
<1>2. CASE ~GilFree(ProcOf[t]) /\ call[t].pc \notin Holding
  <2>1. call'[t].pc \notin Holding
    BY <1>2, HoldersHadIt
  <2>2. ~CanCall(t) /\ ~CanUse(t)
    BY <1>2 DEF CanCall, CanUse
  <2>3. /\ \A key, flags, rw, init : ~Semaphore_init(t, key, flags, rw, init)
        /\ ~Operates(t)
        /\ \A v : ~sem_set_value(t, v)
        /\ \A b : ~sem_set_block(t, b) /\ ~sem_set_undo(t, b)
        /\ \A field, rw : ~sem_set_ipc_perm_value(t, field, rw)
        /\ \A i : ~sem_remove(t, i)
        /\ ~sem_get(t)
    BY <2>2 DEF Semaphore_init, Operates, sem_perform_semop, sem_set_value,
       sem_set_block, sem_set_undo, sem_set_ipc_perm_value, sem_remove, sem_get
  <2>4. ~TryRandomKey(t) /\ ~SetInitialValue(t) /\ ~IpcSet(t)
    BY <1>2 DEF TryRandomKey, SetInitialValue, IpcSet, Holding
  <2>5. Semop(t) \/ Wake(t) \/ TimeOut(t) \/ Interrupt(t)
    BY <2>3, <2>4, OperationsAreOne DEF ThreadStep
  <2>6. UNCHANGED <<status, writable>>
    BY <2>5 DEF Semop, Wake, TimeOut, Interrupt, Complete, Perform, Fail, kernel
  <2> QED
    BY <2>1, <2>6
<1> QED
  BY <1>1, <1>2

\* A call that reaches IPC_SET has read the mode in the same step.
LEMMA ReadsTheMode ==
  ASSUME TypeOK, NEW t \in Threads, ThreadStep(t), call'[t].pc = "ipcset"
  PROVE  WritesBackMode(t)'
<1>0. /\ \A result : ~Return(t, result)
      /\ \A errno : ~Fail(t, errno)
      /\ \A c : ~Complete(t, c)
  BY ReturnReleases, FailReleases, CompleteReleases DEF Holding
<1>1. ~Construct(t)
  BY <1>0 DEF Construct, Semaphore_init, TryRandomKey, Semget, Obtained, TypeOK
<1>2. ~SetInitialValue(t) /\ \A i : ~sem_remove(t, i)
  BY <1>0 DEF SetInitialValue, sem_remove
<1>4. ~Operates(t) /\ ~Semop(t) /\ ~Wake(t) /\ ~TimeOut(t) /\ ~Interrupt(t)
  BY SemopReleases DEF Holding
<1>5. /\ \A v : ~sem_set_value(t, v)
      /\ \A b : ~sem_set_block(t, b) /\ ~sem_set_undo(t, b)
      /\ ~sem_get(t) /\ ~IpcSet(t)
  BY <1>0 DEF sem_set_value, sem_set_block, sem_set_undo, sem_get, IpcSet
<1>6. PICK field \in Settable, rw \in BOOLEAN : sem_set_ipc_perm_value(t, field, rw)
  BY <1>1, <1>2, <1>4, <1>5, OperationsAreOne DEF ThreadStep, Construct
<1>7. PICK i : i = handle[ProcOf[t]].id
  OBVIOUS
<1>8. call' = [call EXCEPT ![t] =
                 [pc |-> "ipcset", id |-> i, field |-> field,
                  rw |-> IF field = "mode" THEN rw ELSE writable[i]]]
      /\ UNCHANGED <<kernel, handle>>
  BY <1>0, <1>6, <1>7 DEF sem_set_ipc_perm_value
<1>9. call'[t] = [pc |-> "ipcset", id |-> i, field |-> field,
                  rw |-> IF field = "mode" THEN rw ELSE writable[i]]
  BY <1>8 DEF TypeOK
<1>10. UNCHANGED <<status, writable>>
  BY <1>8 DEF kernel
<1> QED
  BY <1>9, <1>10 DEF WritesBackMode

\* Within a process no assignment of the mode is lost to one of uid or gid: the
\* GIL is held from IPC_STAT to IPC_SET (sem_set_ipc_perm_value).
THEOREM ModesCorrect == Spec => []OneProcessKeepsModes
<1> DEFINE Inv == (\A p, q \in Procs : p = q) => \A t \in Threads : WritesBackMode(t)
<1>1. Init => Inv
  BY DEF Init, WritesBackMode
<1>2. TypeOK /\ HoldersAreAlone /\ Inv /\ [Next]_vars => Inv'
  <2> SUFFICES ASSUME TypeOK, HoldersAreAlone, Inv, [Next]_vars,
                      \A p, q \in Procs : p = q, NEW u \in Threads
               PROVE  WritesBackMode(u)'
    OBVIOUS
  <2>0. \A t, w \in Threads : ProcOf[t] = ProcOf[w]
    OBVIOUS
  <2>1. ASSUME NEW t \in Threads, ThreadStep(t) PROVE WritesBackMode(u)'
    <3>1. CASE t = u
      BY <2>1, <3>1, ReadsTheMode DEF WritesBackMode
    <3>2. CASE t # u
      <4>1. call'[u] = call[u]
        BY <2>1, <3>2, OthersKeepTheirCalls
      <4>2. CASE call[u].pc # "ipcset"
        BY <4>1, <4>2 DEF WritesBackMode
      <4>3. CASE call[u].pc = "ipcset"
        <5>1. ~GilFree(ProcOf[t])
          BY <2>0, <4>3 DEF GilFree
        <5>2. call[t].pc \notin Holding
          BY <2>0, <3>2, <4>3 DEF HoldersAreAlone, Holding
        <5>3. UNCHANGED <<status, writable>>
          BY <2>1, <5>1, <5>2, WhoChangesModes
        <5> QED
          BY <4>1, <5>3 DEF WritesBackMode
      <4> QED
        BY <4>2, <4>3
    <3> QED
      BY <3>1, <3>2
  <2>2. ASSUME NEW p \in Procs, ExitProcess(p) PROVE WritesBackMode(u)'
    <3>1. UNCHANGED <<status, writable>>
      BY <2>2 DEF ExitProcess
    <3>2. call'[u].pc # "ipcset" \/ call'[u] = call[u]
      BY <2>2 DEF ExitProcess
    <3> QED
      BY <3>1, <3>2 DEF WritesBackMode
  <2>3. CASE UNCHANGED vars
    BY <2>3 DEF vars, WritesBackMode
  <2> QED
    BY <2>1, <2>2, <2>3 DEF Next
<1>3. Inv => OneProcessKeepsModes
  BY DEF OneProcessKeepsModes, WritesBackMode
<1> QED
  BY <1>1, <1>2, <1>3, TypeCorrect, AlwaysHoldersAreAlone, PTL DEF Spec

----------------------------------------------------------------------------
(* The class implements Permits.                                           *)

PermitNext == ThePermits!PermitNext
PermitVars == ThePermits!permitVars

\* Nobody owes anything to a semaphore that is not in the system.
NothingOwedToAbsent == \A i \in Ids : status[i] # "live" => adj[i] = NoUndo

LEMMA CompleteOwesPresent ==
  ASSUME TypeOK, NothingOwedToAbsent, NEW t \in Threads, NEW c,
         status[c.id] = "live", Complete(t, c)
  PROVE  NothingOwedToAbsent'
<1>1. CASE Fail(t, "ERANGE")
  BY <1>1 DEF Fail, kernel, NothingOwedToAbsent
<1>2. CASE Perform(t, c)
  <2>1. status' = status /\ \A i \in Ids : i # c.id => adj'[i] = adj[i]
    BY <1>2 DEF Perform, TypeOK
  <2> QED
    BY <2>1 DEF NothingOwedToAbsent
<1> QED
  BY <1>1, <1>2 DEF Complete

LEMMA SemopOwesPresent ==
  ASSUME TypeOK, NothingOwedToAbsent, NEW t \in Threads, Operates(t) \/ Semop(t)
  PROVE  NothingOwedToAbsent'
<1>1. CASE status[call[t].id] = "live" /\ Complete(t, call[t])
  BY <1>1, CompleteOwesPresent
<1>2. CASE UNCHANGED kernel
  BY <1>2 DEF kernel, NothingOwedToAbsent
<1> QED
  BY <1>1, <1>2 DEF Operates, sem_perform_semop, Semop, Arguments, Fail

LEMMA SemgetOwesPresent ==
  ASSUME TypeOK, NothingOwedToAbsent, NEW t \in Threads, NEW k, NEW flags,
         NEW rw, NEW init, Semget(t, k, flags, rw, init)
  PROVE  NothingOwedToAbsent'
<1>1. CASE UNCHANGED kernel
  BY <1>1 DEF kernel, NothingOwedToAbsent
<1>2. ASSUME NEW i \in Ids, Allocate(k, i, rw) PROVE NothingOwedToAbsent'
  BY <1>2 DEF Allocate, NothingOwedToAbsent, TypeOK
<1> QED
  BY <1>1, <1>2 DEF Semget, Fail

LEMMA SetvalOwesPresent ==
  ASSUME TypeOK, NothingOwedToAbsent, NEW i, NEW v, Setval(i, v)
  PROVE  NothingOwedToAbsent'
BY DEF Setval, NothingOwedToAbsent, TypeOK

LEMMA RemoveOwesPresent ==
  ASSUME TypeOK, NothingOwedToAbsent, NEW t \in Threads, NEW i \in Ids,
         sem_remove(t, i)
  PROVE  NothingOwedToAbsent'
BY DEF sem_remove, Fail, kernel, NothingOwedToAbsent, TypeOK

LEMMA ThreadOwesPresent ==
  ASSUME TypeOK, NothingOwedToAbsent, NEW t \in Threads, ThreadStep(t)
  PROVE  NothingOwedToAbsent'
<1>1. CASE UNCHANGED <<status, adj>>
  BY <1>1 DEF NothingOwedToAbsent
<1>2. ASSUME NEW k, NEW flags, NEW rw, NEW init,
             \/ Semget(t, k, flags, rw, init)
             \/ Semaphore_init(t, k, flags, rw, init)
      PROVE  NothingOwedToAbsent'
  BY <1>1, <1>2, SemgetOwesPresent DEF Semaphore_init, kernel
<1>3. CASE TryRandomKey(t)
  BY <1>2, <1>3 DEF TryRandomKey
<1>4. CASE SetInitialValue(t) \/ \E v \in Values : sem_set_value(t, v)
  BY <1>1, <1>4, SetvalOwesPresent DEF SetInitialValue, sem_set_value, Fail,
     kernel
<1>5. CASE Operates(t) \/ Semop(t)
  BY <1>5, SemopOwesPresent
<1>6. CASE Wake(t)
  BY <1>1, <1>6, CompleteOwesPresent DEF Wake, Fail, kernel
<1>7. CASE \/ TimeOut(t) \/ Interrupt(t) \/ sem_get(t) \/ IpcSet(t)
           \/ \E b \in BOOLEAN : sem_set_block(t, b) \/ sem_set_undo(t, b)
           \/ \E field, rw : sem_set_ipc_perm_value(t, field, rw)
  BY <1>1, <1>7 DEF TimeOut, Interrupt, sem_get, IpcSet, sem_set_block,
     sem_set_undo, sem_set_ipc_perm_value, Fail, kernel
<1>8. ASSUME NEW i \in Ids, sem_remove(t, i) PROVE NothingOwedToAbsent'
  BY <1>8, RemoveOwesPresent
<1> QED
  BY <1>2, <1>3, <1>4, <1>5, <1>6, <1>7, <1>8, OperationsAreOne DEF ThreadStep

LEMMA AlwaysNothingOwedToAbsent == Spec => []NothingOwedToAbsent
<1>1. Init => NothingOwedToAbsent
  BY DEF Init, NothingOwedToAbsent
<1>2. TypeOK /\ NothingOwedToAbsent /\ [Next]_vars => NothingOwedToAbsent'
  <2> SUFFICES ASSUME TypeOK, NothingOwedToAbsent, [Next]_vars
               PROVE  NothingOwedToAbsent'
    OBVIOUS
  <2>1. ASSUME NEW t \in Threads, ThreadStep(t) PROVE NothingOwedToAbsent'
    BY <2>1, ThreadOwesPresent
  <2>2. ASSUME NEW p \in Procs, ExitProcess(p) PROVE NothingOwedToAbsent'
    <3>1. ASSUME NEW i \in Ids, status'[i] # "live" PROVE adj'[i] = NoUndo
      <4>1. adj[i] = NoUndo /\ adj'[i] = [adj[i] EXCEPT ![p] = 0]
        BY <2>2, <3>1 DEF ExitProcess, NothingOwedToAbsent
      <4> QED
        BY <4>1 DEF NoUndo
    <3> QED
      BY <3>1 DEF NothingOwedToAbsent
  <2>3. CASE UNCHANGED vars
    BY <2>3 DEF vars, NothingOwedToAbsent
  <2> QED
    BY <2>1, <2>2, <2>3 DEF Next
<1> QED
  BY <1>1, <1>2, TypeCorrect, PTL DEF Spec

\* One thread's call becomes c.
LEMMA AskedChange ==
  ASSUME TypeOK, NEW t \in Threads, NEW c, call' = [call EXCEPT ![t] = c]
  PROVE  /\ [u \in Threads |-> Asked(call[u])]' =
              [[u \in Threads |-> Asked(call[u])] EXCEPT ![t] = Asked(c)]
         /\ [u \in Threads |-> Answered(call[u])]' =
              [[u \in Threads |-> Answered(call[u])] EXCEPT ![t] = Answered(c)]
<1>1. \A u \in Threads : call'[u] = IF u = t THEN c ELSE call[u]
  BY DEF TypeOK
<1>2. \A u \in Threads : Asked(call'[u]) = IF u = t THEN Asked(c) ELSE Asked(call[u])
  BY <1>1
<1>3. \A u \in Threads :
        Answered(call'[u]) = IF u = t THEN Answered(c) ELSE Answered(call[u])
  BY <1>1
<1> QED
  BY <1>2, <1>3

Operating == {"semop", "wait"}

\* Only a thread on its way into semop, or blocked in it, asks for something.
LEMMA NotAsking ==
  ASSUME NEW c, c.pc \notin Operating
  PROVE  Asked(c) = ThePermits!NoAsk
BY DEF Asked, Operating, ThePermits!NoAsk

\* A step of one process leaves the objects of the others, and with them what
\* they have made of block and undo.
KeepsOthers(p) == \A q \in Procs \ {p} : handle'[q] = handle[q]

LEMMA OptionsKept ==
  ASSUME NEW p \in Procs, KeepsOthers(p)
  PROVE  ThePermits!OthersKeepOptions(p)
BY DEF KeepsOthers, ThePermits!OthersKeepOptions

LEMMA ThreadKeepsOthers ==
  ASSUME TypeOK, NEW t \in Threads, ThreadStep(t)
  PROVE  KeepsOthers(ProcOf[t])
<1> USE DEF KeepsOthers
<1>1. \A k, i : NewHandle(t, k, i) => KeepsOthers(ProcOf[t])
  BY DEF NewHandle, TypeOK
<1>2. UNCHANGED handle => KeepsOthers(ProcOf[t])
  OBVIOUS
<1> HIDE DEF KeepsOthers
<1>3. \A k, flags, rw, init : Semget(t, k, flags, rw, init) => KeepsOthers(ProcOf[t])
  BY <1>1, <1>2 DEF Semget, Fail, Obtained
<1>4. CASE Construct(t)
  BY <1>2, <1>3, <1>4 DEF Construct, Semaphore_init, TryRandomKey
<1>5. CASE SetInitialValue(t)
  BY <1>1, <1>2, <1>5 DEF SetInitialValue, Fail
<1>6. CASE Operates(t) \/ Semop(t) \/ Wake(t) \/ TimeOut(t) \/ Interrupt(t)
  BY <1>2, <1>6 DEF Operates, sem_perform_semop, Semop, Wake, TimeOut, Interrupt,
     Complete, Perform, Fail
<1>7. CASE \E b \in BOOLEAN : sem_set_block(t, b) \/ sem_set_undo(t, b)
  BY <1>7 DEF sem_set_block, sem_set_undo, KeepsOthers, TypeOK
<1>8. CASE \/ sem_get(t) \/ IpcSet(t)
           \/ \E v \in Values : sem_set_value(t, v)
           \/ \E field, rw : sem_set_ipc_perm_value(t, field, rw)
           \/ \E i \in Ids : sem_remove(t, i)
  BY <1>2, <1>8 DEF sem_get, IpcSet, sem_set_value, sem_set_ipc_perm_value,
     sem_remove, Fail
<1> QED
  BY <1>4, <1>5, <1>6, <1>7, <1>8, OperationsAreOne DEF ThreadStep, Construct

LEMMA ReplyRefined ==
  ASSUME TypeOK, NEW t \in Threads, NEW c, c.pc \notin Operating,
         call' = [call EXCEPT ![t] = c]
  PROVE  \A ok : ok = Answered(c) => ThePermits!Reply(t, ok)
<1>1. Asked(c) = ThePermits!NoAsk
  BY NotAsking
<1> QED
  BY <1>1, AskedChange DEF ThePermits!Reply

LEMMA ReturnRefined ==
  ASSUME TypeOK, NEW t \in Threads, NEW result, Return(t, result)
  PROVE  \A ok : ok = (result = "ok") => ThePermits!Reply(t, ok)
<1>1. PICK c : c = [pc |-> "idle", res |-> result]
  OBVIOUS
<1>2. c.pc \notin Operating /\ Answered(c) = (result = "ok")
  BY <1>1 DEF Answered, Operating
<1>3. call' = [call EXCEPT ![t] = c]
  BY <1>1 DEF Return
<1> QED
  BY <1>2, <1>3, ReplyRefined

\* A call that leaves the permits alone.
LEMMA QuietIsOther ==
  ASSUME TypeOK, NEW t \in Threads, NEW c, c.pc \notin Operating,
         KeepsOthers(ProcOf[t]),
         call' = [call EXCEPT ![t] = c], UNCHANGED <<status, val, adj>>,
         Answered(c) => call[t].pc \notin Operating
  PROVE  PermitNext
<1>1. PICK ok \in BOOLEAN : ok = Answered(c)
  BY DEF Answered
<1>2. ThePermits!Reply(t, ok)
  BY <1>1, ReplyRefined
<1>3. ok => [u \in Threads |-> Asked(call[u])][t] = ThePermits!NoAsk
  BY <1>1, NotAsking
<1>4. ThePermits!Other(t)
  BY <1>2, <1>3, OptionsKept DEF ThePermits!Other
<1> QED
  BY <1>4 DEF PermitNext, ThePermits!PermitNext

LEMMA ReturnIsOther ==
  ASSUME TypeOK, NEW t \in Threads, NEW result, Return(t, result),
         KeepsOthers(ProcOf[t]), UNCHANGED <<status, val, adj>>,
         result = "ok" => call[t].pc \notin Operating
  PROVE  PermitNext
<1>1. PICK c : c = [pc |-> "idle", res |-> result]
  OBVIOUS
<1>2. c.pc \notin Operating /\ (Answered(c) => result = "ok")
  BY <1>1 DEF Answered, Operating
<1>3. call' = [call EXCEPT ![t] = c]
  BY <1>1 DEF Return
<1> QED
  BY <1>2, <1>3, QuietIsOther

\* No errno means success.
LEMMA FailIsOther ==
  ASSUME TypeOK, NEW t \in Threads, NEW errno \in Errnos, Fail(t, errno)
  PROVE  PermitNext
<1>1. sem_set_error[errno] # "ok"
  BY DEF Errnos, sem_set_error
<1>2. Return(t, sem_set_error[errno]) /\ UNCHANGED <<status, val, adj>>
  BY DEF Fail, kernel
<1>3. KeepsOthers(ProcOf[t])
  BY DEF Fail, KeepsOthers
<1> QED
  BY <1>1, <1>2, <1>3, ReturnIsOther

\* What a call on its way into semop, or blocked in it, asks for.
Request(c) == [kind |-> "change", sem |-> c.id, by |-> c.op, undo |-> c.undo,
               block |-> c.block, waits |-> c.pc = "wait"]

LEMMA SemopCallAsks ==
  ASSUME NEW c \in SemopCall
  PROVE  /\ Asked(c) = Request(c) /\ Answered(c) = FALSE
         /\ Request(c) \in ThePermits!Requests
         /\ Request(c) # ThePermits!NoAsk
<1>1. /\ c.pc \in {"semop", "wait"} /\ c.id \in Ids /\ c.op \in Int
      /\ c.undo \in BOOLEAN /\ c.block \in BOOLEAN
  BY DEF SemopCall
<1>2. Asked(c) = Request(c)
  BY <1>1 DEF Asked, Request
<1>3. Answered(c) = FALSE
  BY <1>1 DEF Answered
<1>4. Request(c) \in ThePermits!Requests
  BY <1>1 DEF Request, ThePermits!Requests
<1>5. Request(c).kind = "change"
  BY DEF Request
<1>6. Request(c) # ThePermits!NoAsk
  BY <1>5 DEF ThePermits!NoAsk
<1> QED
  BY <1>2, <1>3, <1>4, <1>6

\* One thread goes into semop, or begins to wait in it.
LEMMA SemopCallChange ==
  ASSUME TypeOK, NEW t \in Threads, NEW c \in SemopCall,
         call' = [call EXCEPT ![t] = c]
  PROVE  /\ [u \in Threads |-> Asked(call[u])]' =
              [[u \in Threads |-> Asked(call[u])] EXCEPT ![t] = Request(c)]
         /\ [u \in Threads |-> Answered(call[u])]' =
              [[u \in Threads |-> Answered(call[u])] EXCEPT ![t] = FALSE]
<1>1. Asked(c) = Request(c) /\ Answered(c) = FALSE
  BY SemopCallAsks
<1>2. /\ [u \in Threads |-> Asked(call[u])]' =
           [[u \in Threads |-> Asked(call[u])] EXCEPT ![t] = Asked(c)]
      /\ [u \in Threads |-> Answered(call[u])]' =
           [[u \in Threads |-> Answered(call[u])] EXCEPT ![t] = Answered(c)]
  BY AskedChange
<1> QED
  BY <1>1, <1>2, Zenon

\* What an EXCEPT puts in one place of a function is found there.
LEMMA ChangedThere ==
  ASSUME NEW f, NEW g, NEW r, NEW i \in DOMAIN f, g = [f EXCEPT ![i] = r]
  PROVE  g[i] = r
  OBVIOUS

\* A method call that gets as far as releasing the GIL asks for its change, with
\* the options of its process as they are.
LEMMA GoingIntoSemopIsAsk ==
  ASSUME TypeOK, NEW t \in Threads, NEW c \in SemopCall, c.pc = "semop",
         call[t].pc = "idle", call' = [call EXCEPT ![t] = c],
         c.block = handle[ProcOf[t]].block, c.undo = handle[ProcOf[t]].undo,
         UNCHANGED <<kernel, handle>>
  PROVE  PermitNext
<1> DEFINE asked == [u \in Threads |-> Asked(call[u])]
<1>1. asked[t] = ThePermits!NoAsk
  BY NotAsking DEF Operating
<1>2. PICK r : r = Request(c)
  OBVIOUS
<1>3. r \in ThePermits!Requests
  BY <1>2, SemopCallAsks
<1>4. /\ asked' = [asked EXCEPT ![t] = r]
      /\ [u \in Threads |-> Answered(call[u])]' =
           [[u \in Threads |-> Answered(call[u])] EXCEPT ![t] = FALSE]
  BY <1>2, SemopCallChange
<1>5. DOMAIN asked = Threads
  OBVIOUS
<1>6. asked'[t] = r
  <2> HIDE DEF asked
  <2> QED
    BY <1>4, <1>5, ChangedThere
<1>7. ~r.waits
  BY <1>2 DEF Request
<1>8. [p \in Procs |-> [block |-> handle[p].block, undo |-> handle[p].undo]][ProcOf[t]]
        = [block |-> r.block, undo |-> r.undo]
  BY <1>2 DEF Request
<1>9. UNCHANGED <<{i \in Ids : status[i] = "live"}, val, adj, handle>>
  BY DEF kernel
<1> HIDE DEF asked
<1>10. ThePermits!Ask(t)
  BY <1>1, <1>3, <1>4, <1>6, <1>7, <1>8, <1>9 DEF ThePermits!Ask, asked
<1> QED
  BY <1>10 DEF PermitNext, ThePermits!PermitNext

LEMMA PerformSemopRefined ==
  ASSUME TypeOK, NEW t \in Threads, Operates(t)
  PROVE  PermitNext
<1>1. PICK type \in {"P", "V", "Z"}, delta \in Short,
          timeout \in Timeouts \cup {"none"} :
         sem_perform_semop(t, type, delta, timeout)
  BY DEF Operates
<1>2. CanUse(t) /\ call[t].pc = "idle" /\ UNCHANGED <<kernel, handle>>
  BY <1>1 DEF sem_perform_semop, CanUse, CanCall
<1>3. PICK c : c = [pc |-> "semop", op |-> SemOp(type, delta),
                    id |-> handle[ProcOf[t]].id, undo |-> handle[ProcOf[t]].undo,
                    block |-> handle[ProcOf[t]].block, timeout |-> timeout]
  OBVIOUS
<1>4. CASE Return(t, "Value")
  BY <1>2, <1>4, ReturnIsOther DEF kernel, KeepsOthers, Operating
<1>5. CASE call' = [call EXCEPT ![t] = c]
  <2>1. c \in SemopCall
    BY <1>2, <1>3, OperationIsSemopCall
  <2>2. /\ c.pc = "semop" /\ c.block = handle[ProcOf[t]].block
        /\ c.undo = handle[ProcOf[t]].undo
    BY <1>3
  <2> QED
    BY <1>2, <1>5, <2>1, <2>2, GoingIntoSemopIsAsk
<1> QED
  BY <1>1, <1>3, <1>4, <1>5 DEF sem_perform_semop

\* Changing the last field of a request.
LEMMA RecordWithField ==
  ASSUME NEW s, NEW n, NEW undo, NEW block, NEW waits, NEW now
  PROVE  [[kind |-> "change", sem |-> s, by |-> n, undo |-> undo, block |-> block,
           waits |-> waits] EXCEPT !.waits = now] =
           [kind |-> "change", sem |-> s, by |-> n, undo |-> undo,
            block |-> block, waits |-> now]
  OBVIOUS

\* semop blocks.
LEMMA BlockingIsWait ==
  ASSUME TypeOK, NEW t \in Threads, call[t] \in SemopCall, call[t].pc = "semop",
         call[t].block, status[call[t].id] = "live", WouldBlock(call[t]),
         call' = [call EXCEPT ![t].pc = "wait"], UNCHANGED <<kernel, handle>>
  PROVE  PermitNext
<1> DEFINE asked == [u \in Threads |-> Asked(call[u])]
           answered == [u \in Threads |-> Answered(call[u])]
<1>1. PICK c \in SemopCall : c = [call[t] EXCEPT !.pc = "wait"]
  BY DEF SemopCall
<1>2. call' = [call EXCEPT ![t] = c]
  BY <1>1 DEF TypeOK
<1>3. PICK r : r = Request(call[t])
  OBVIOUS
<1>4. asked[t] = r /\ answered[t] = FALSE
  BY <1>3, SemopCallAsks
<1>5. r # ThePermits!NoAsk
  BY <1>3, SemopCallAsks
<1>6. /\ r.sem = call[t].id /\ r.by = call[t].op
      /\ r.block /\ ~r.waits
  BY <1>3 DEF Request
<1>7. ThePermits!MustWait(r)
  BY <1>6 DEF WouldBlock, ThePermits!MustWait
<1>8. Request(c) = [r EXCEPT !.waits = TRUE]
  <2>1. /\ c.pc = "wait" /\ c.id = call[t].id /\ c.op = call[t].op
        /\ c.undo = call[t].undo /\ c.block = call[t].block
    BY <1>1 DEF SemopCall
  <2>2. (c.pc = "wait") = TRUE
    BY <2>1
  <2>3. Request(c) = [kind |-> "change", sem |-> c.id, by |-> c.op,
                      undo |-> c.undo, block |-> c.block, waits |-> TRUE]
    BY <2>2, Zenon DEF Request
  <2>4. PICK s, n, undo, block, waits :
          /\ s = call[t].id /\ n = call[t].op /\ undo = call[t].undo
          /\ block = call[t].block /\ waits = (call[t].pc = "wait")
    OBVIOUS
  <2>5. r = [kind |-> "change", sem |-> s, by |-> n, undo |-> undo,
             block |-> block, waits |-> waits]
    BY <1>3, <2>4, Zenon DEF Request
  <2>6. [r EXCEPT !.waits = TRUE] =
          [kind |-> "change", sem |-> s, by |-> n, undo |-> undo,
           block |-> block, waits |-> TRUE]
    <3>1. PICK now : now = TRUE
      OBVIOUS
    <3>2. [[kind |-> "change", sem |-> s, by |-> n, undo |-> undo, block |-> block,
            waits |-> waits] EXCEPT !.waits = now] =
            [kind |-> "change", sem |-> s, by |-> n, undo |-> undo,
             block |-> block, waits |-> now]
      BY RecordWithField
    <3>3. [r EXCEPT !.waits = now] =
            [kind |-> "change", sem |-> s, by |-> n, undo |-> undo,
             block |-> block, waits |-> now]
      BY <2>5, <3>2, Zenon
    <3> QED
      BY <3>1, <3>3, Zenon
  <2> QED
    BY <2>1, <2>3, <2>4, <2>6
<1>9. asked' = [asked EXCEPT ![t] = [r EXCEPT !.waits = TRUE]]
      /\ answered' = [answered EXCEPT ![t] = FALSE]
  <2>1. /\ asked' = [asked EXCEPT ![t] = Request(c)]
        /\ answered' = [answered EXCEPT ![t] = FALSE]
    BY <1>2, SemopCallChange
  <2> QED
    BY <1>8, <2>1, Zenon
<1>10. asked' = [asked EXCEPT ![t].waits = TRUE]
  BY <1>4, <1>9
<1>11. answered' = answered
  BY <1>4, <1>9
<1>12. r.sem \in {i \in Ids : status[i] = "live"}
  BY <1>6 DEF SemopCall
<1>13. UNCHANGED <<{i \in Ids : status[i] = "live"}, val, adj, handle>>
  BY DEF kernel
<1> HIDE DEF asked, answered
<1>14. ThePermits!Wait(t)
  BY <1>4, <1>5, <1>6, <1>7, <1>10, <1>11, <1>12, <1>13
     DEF ThePermits!Wait, asked, answered
<1> QED
  BY <1>14 DEF PermitNext, ThePermits!PermitNext

\* semop carries out the operation, at once or after a wait.
LEMMA CompleteIsChange ==
  ASSUME TypeOK, NEW t \in Threads, call[t] \in SemopCall,
         status[call[t].id] = "live", ~WouldBlock(call[t]), Complete(t, call[t])
  PROVE  PermitNext
<1> DEFINE asked == [u \in Threads |-> Asked(call[u])]
<1>1. CASE Fail(t, "ERANGE")
  BY <1>1, FailIsOther DEF Errnos
<1>2. CASE ~OutOfRange(t, call[t]) /\ Perform(t, call[t])
  <2>1. PICK c \in SemopCall : c = call[t]
    OBVIOUS
  <2>2. c.id \in Ids /\ c.op \in Int /\ val[c.id] \in 0..SEMVMX
    BY DEF SemopCall, TypeOK
  <2>3. val[c.id] + c.op \in 0..SEMVMX
    BY <1>2, <2>1, <2>2 DEF OutOfRange, WouldBlock
  <2>4. PICK r : r = Request(c)
    OBVIOUS
  <2>5. r.sem = c.id /\ r.by = c.op /\ r.undo = c.undo
    BY <2>4 DEF Request
  <2>6. asked[t] = r
    BY <2>1, <2>4, SemopCallAsks
  <2>7. r # ThePermits!NoAsk
    BY <2>4, SemopCallAsks
  <2>8. ~ThePermits!MustWait(r)
    BY <2>1, <2>5 DEF WouldBlock, ThePermits!MustWait
  <2>9. /\ val' = [val EXCEPT ![r.sem] = @ + r.by]
        /\ adj' = IF r.undo THEN [adj EXCEPT ![r.sem][ProcOf[t]] = @ - r.by] ELSE adj
        /\ status' = status /\ handle' = handle
    BY <1>2, <2>1, <2>5 DEF Perform
  <2>10. ThePermits!Reply(t, TRUE)
    BY <1>2, ReturnRefined DEF Perform
  <2>11. r.sem \in {i \in Ids : status[i] = "live"}
    BY <2>1, <2>2, <2>5
  <2>12. val[r.sem] + r.by <= SEMVMX
    BY <2>3, <2>5
  <2>13. UNCHANGED {i \in Ids : status[i] = "live"}
    BY <2>9
  <2> HIDE DEF asked
  <2>14. ThePermits!Change(t)
    BY <2>6, <2>7, <2>8, <2>9, <2>10, <2>11, <2>12, <2>13
       DEF ThePermits!Change, asked
  <2> QED
    BY <2>14 DEF PermitNext, ThePermits!PermitNext
<1> QED
  BY <1>1, <1>2 DEF Complete

LEMMA SemopRefined ==
  ASSUME TypeOK, NEW t \in Threads, Semop(t)
  PROVE  PermitNext
<1>1. call[t] \in SemopCall
  BY SemopCalls DEF Semop
<1>2. CASE Fail(t, "EINVAL") \/ Fail(t, "EACCES") \/ Fail(t, "EAGAIN")
  BY <1>2, FailIsOther DEF Errnos
<1>3. CASE /\ status[call[t].id] = "live" /\ ~WouldBlock(call[t])
           /\ Complete(t, call[t])
  BY <1>1, <1>3, CompleteIsChange
<1>4. CASE /\ status[call[t].id] = "live" /\ WouldBlock(call[t]) /\ Patient(call[t])
           /\ call' = [call EXCEPT ![t].pc = "wait"] /\ UNCHANGED <<kernel, handle>>
  <2>1. call[t].block /\ call[t].pc = "semop"
    BY <1>4 DEF Patient, Semop
  <2> QED
    BY <1>1, <1>4, <2>1, BlockingIsWait
<1> QED
  BY <1>2, <1>3, <1>4 DEF Semop, Arguments

\* A blocked call ends in one of three ways.
LEMMA WaiterRefined ==
  ASSUME TypeOK, NEW t \in Threads, Wake(t) \/ TimeOut(t) \/ Interrupt(t)
  PROVE  PermitNext
<1>1. call[t] \in SemopCall
  BY SemopCalls DEF Wake, TimeOut, Interrupt
<1>2. CASE Fail(t, "EIDRM") \/ Fail(t, "EAGAIN") \/ Fail(t, "EINTR")
  BY <1>2, FailIsOther DEF Errnos
<1>3. CASE /\ status[call[t].id] = "live" /\ ~WouldBlock(call[t])
           /\ Complete(t, call[t])
  BY <1>1, <1>3, CompleteIsChange
<1> QED
  BY <1>2, <1>3 DEF Wake, TimeOut, Interrupt

LEMMA SetvalIsAssign ==
  ASSUME TypeOK, NEW t \in Threads, NEW i \in Ids, NEW v,
         call[t].pc \notin Operating, KeepsOthers(ProcOf[t]),
         SetvalErrno(i, v) = "none", Setval(i, v), Return(t, "ok")
  PROVE  PermitNext
<1>1. v \in 0..SEMVMX /\ status[i] = "live"
  BY DEF SetvalErrno
<1>2. [u \in Threads |-> Asked(call[u])][t] = ThePermits!NoAsk
  BY NotAsking
<1>3. ThePermits!Reply(t, TRUE)
  BY ReturnRefined
<1>4. ThePermits!Assign(t, i, v)
  BY <1>1, <1>2, <1>3, OptionsKept
     DEF Setval, ThePermits!Assign, ThePermits!Settled, NoUndo
<1> QED
  BY <1>1, <1>4 DEF PermitNext, ThePermits!PermitNext

LEMMA SetValueRefined ==
  ASSUME TypeOK, NEW t \in Threads, NEW v, sem_set_value(t, v),
         KeepsOthers(ProcOf[t])
  PROVE  PermitNext
<1> DEFINE i     == handle[ProcOf[t]].id
           n     == ToInt(v)
           errno == SetvalErrno(i, n)
<1>1. i \in Ids /\ call[t].pc \notin Operating
  BY UsedHandle DEF sem_set_value, CanUse, CanCall, Handle, Operating
<1>2. CASE errno # "none" /\ Fail(t, errno)
  BY <1>2, SetvalErrnos, FailIsOther
<1>3. CASE errno = "none" /\ Setval(i, n) /\ Return(t, "ok")
  <2> HIDE DEF n, i
  <2> QED
    BY <1>1, <1>3, SetvalIsAssign
<1> QED
  BY <1>2, <1>3 DEF sem_set_value

LEMMA SetInitialValueRefined ==
  ASSUME TypeOK, NEW t \in Threads, SetInitialValue(t), KeepsOthers(ProcOf[t])
  PROVE  PermitNext
<1>1. call[t].id \in Ids /\ call[t].pc \notin Operating
  BY DEF SetInitialValue, Operating, TypeOK, Call, SetvalCall, SemopCall,
     IpcSetCall
<1> DEFINE errno == SetvalErrno(call[t].id, call[t].init)
<1>2. CASE errno # "none" /\ Fail(t, errno)
  BY <1>2, SetvalErrnos, FailIsOther
<1>3. CASE errno = "none" /\ Setval(call[t].id, call[t].init) /\ Return(t, "ok")
  BY <1>1, <1>3, SetvalIsAssign
<1> QED
  BY <1>2, <1>3 DEF SetInitialValue

\* A constructor's thread, once semget has returned, is in the other system
\* call or idle.
LEMMA ObtainedCall ==
  ASSUME NEW t \in Threads, NEW k, NEW i, NEW flags, NEW rw, NEW init,
         Obtained(t, k, i, flags, rw, init)
  PROVE  \E c : c.pc \notin Operating /\ call' = [call EXCEPT ![t] = c]
<1>1. CASE SetsInitialValue(flags, rw)
  <2>1. PICK c : c = [pc |-> "setval", key |-> k, id |-> i, made |-> ~Exists(k),
                      flags |-> flags, init |-> init]
    OBVIOUS
  <2>2. c.pc \notin Operating
    BY <2>1 DEF Operating
  <2> QED
    BY <1>1, <2>1, <2>2 DEF Obtained
<1>2. CASE ~SetsInitialValue(flags, rw)
  <2>1. PICK c : c = [pc |-> "idle", res |-> "ok"]
    OBVIOUS
  <2>2. c.pc \notin Operating
    BY <2>1 DEF Operating
  <2> QED
    BY <1>2, <2>1, <2>2 DEF Obtained, Return
<1> QED
  BY <1>1, <1>2

LEMMA AllocateIsCreate ==
  ASSUME TypeOK, NothingOwedToAbsent, NEW t \in Threads,
         call[t].pc \notin Operating, KeepsOthers(ProcOf[t]),
         NEW k, NEW i \in Ids, NEW rw, Allocate(k, i, rw),
         NEW c, c.pc \notin Operating, call' = [call EXCEPT ![t] = c]
  PROVE  PermitNext
<1>1. status[i] = "unused" /\ adj[i] = ThePermits!Settled
  BY DEF Allocate, NothingOwedToAbsent, ThePermits!Settled, NoUndo
<1>2. {j \in Ids : status[j] = "live"}' = {j \in Ids : status[j] = "live"} \cup {i}
  BY DEF Allocate, TypeOK
<1>3. \E n \in 0..SEMVMX : val' = [val EXCEPT ![i] = n]
  BY DEF Allocate
<1>4. \E ok \in BOOLEAN : ThePermits!Reply(t, ok)
  BY ReplyRefined DEF Answered
<1>5. [u \in Threads |-> Asked(call[u])][t] = ThePermits!NoAsk
  BY NotAsking
<1>6. adj' = adj
  BY DEF Allocate
<1>7. i \notin {j \in Ids : status[j] = "live"}
  BY <1>1
<1>8. ThePermits!Create(t, i)
  BY <1>1, <1>2, <1>3, <1>4, <1>5, <1>6, <1>7, OptionsKept DEF ThePermits!Create
<1> QED
  BY <1>8 DEF PermitNext, ThePermits!PermitNext

LEMMA SemgetRefined ==
  ASSUME TypeOK, NothingOwedToAbsent, NEW t \in Threads,
         call[t].pc \notin Operating, KeepsOthers(ProcOf[t]),
         NEW k, NEW flags, NEW rw, NEW init, Semget(t, k, flags, rw, init)
  PROVE  PermitNext
<1> DEFINE errno == SemgetErrno(k, flags, rw)
<1>1. CASE errno # "none" /\ Fail(t, errno)
  BY <1>1, SemgetErrnos, FailIsOther
<1>2. CASE Obtained(t, k, idOf[k], flags, rw, init) /\ UNCHANGED kernel
  <2>1. PICK c : c.pc \notin Operating /\ call' = [call EXCEPT ![t] = c]
    BY <1>2, ObtainedCall
  <2> QED
    BY <1>2, <2>1, QuietIsOther DEF kernel
<1>3. ASSUME NEW i \in Ids, Allocate(k, i, rw),
             Obtained(t, k, i, flags, rw, init)
      PROVE  PermitNext
  <2>1. PICK c : c.pc \notin Operating /\ call' = [call EXCEPT ![t] = c]
    BY <1>3, ObtainedCall
  <2> QED
    BY <1>3, <2>1, AllocateIsCreate
<1> QED
  BY <1>1, <1>2, <1>3 DEF Semget

LEMMA ConstructorRefined ==
  ASSUME TypeOK, NothingOwedToAbsent, NEW t \in Threads,
         \/ TryRandomKey(t)
         \/ \E key, flags, rw, init : Semaphore_init(t, key, flags, rw, init),
         KeepsOthers(ProcOf[t])
  PROVE  PermitNext
<1>1. call[t].pc \notin Operating
  BY DEF TryRandomKey, Semaphore_init, CanCall, Operating
<1>2. CASE \E k, flags, rw, init : Semget(t, k, flags, rw, init)
  BY <1>1, <1>2, SemgetRefined
<1>3. CASE Return(t, "Value") /\ UNCHANGED <<kernel, handle>>
  BY <1>1, <1>3, ReturnIsOther DEF kernel
<1>4. ASSUME NEW flags, NEW rw, NEW init, UNCHANGED <<kernel, handle>>,
             call' = [call EXCEPT ![t] = [pc |-> "genkey", flags |-> flags,
                                          rw |-> rw, init |-> init]]
      PROVE  PermitNext
  <2>1. PICK c : c = [pc |-> "genkey", flags |-> flags, rw |-> rw, init |-> init]
    OBVIOUS
  <2>2. c.pc \notin Operating /\ call' = [call EXCEPT ![t] = c]
    BY <1>4, <2>1 DEF Operating
  <2>3. UNCHANGED <<status, val, adj>>
    BY <1>4 DEF kernel
  <2> QED
    BY <1>1, <2>2, <2>3, QuietIsOther
<1> QED
  BY <1>2, <1>3, <1>4 DEF TryRandomKey, Semaphore_init

LEMMA AttributeRefined ==
  ASSUME TypeOK, NEW t \in Threads,
         \/ sem_get(t) \/ IpcSet(t)
         \/ \E b \in BOOLEAN : sem_set_block(t, b) \/ sem_set_undo(t, b)
         \/ \E field, rw : sem_set_ipc_perm_value(t, field, rw),
         KeepsOthers(ProcOf[t])
  PROVE  PermitNext
<1>1. call[t].pc \notin Operating
  BY DEF sem_get, IpcSet, sem_set_block, sem_set_undo, sem_set_ipc_perm_value,
     CanUse, CanCall, Operating
<1>2. CASE Fail(t, "EINVAL")
  BY <1>2, FailIsOther DEF Errnos
<1>3. CASE Return(t, "ok") /\ UNCHANGED <<status, val, adj>>
  BY <1>1, <1>3, ReturnIsOther
<1>4. ASSUME NEW field, NEW rw, sem_set_ipc_perm_value(t, field, rw),
             ~Fail(t, "EINVAL")
      PROVE  PermitNext
  <2>1. PICK i, m : call' = [call EXCEPT ![t] =
                        [pc |-> "ipcset", id |-> i, field |-> field, rw |-> m]]
    BY <1>4 DEF sem_set_ipc_perm_value
  <2>2. PICK c : c = [pc |-> "ipcset", id |-> i, field |-> field, rw |-> m]
    OBVIOUS
  <2>3. c.pc \notin Operating /\ call' = [call EXCEPT ![t] = c]
    BY <2>1, <2>2 DEF Operating
  <2>4. UNCHANGED <<status, val, adj>>
    BY <1>4 DEF sem_set_ipc_perm_value, kernel
  <2> QED
    BY <1>1, <2>3, <2>4, QuietIsOther
<1> QED
  BY <1>2, <1>3, <1>4 DEF sem_get, IpcSet, sem_set_block, sem_set_undo, kernel

LEMMA RemoveRefined ==
  ASSUME TypeOK, NEW t \in Threads, NEW i \in Ids, sem_remove(t, i)
  PROVE  PermitNext
<1>1. CASE Fail(t, "EINVAL")
  BY <1>1, FailIsOther DEF Errnos
<1>2. CASE ~Fail(t, "EINVAL")
  <2>1. /\ status[i] = "live" /\ status' = [status EXCEPT ![i] = "removed"]
        /\ val' = [val EXCEPT ![i] = 0] /\ adj' = [adj EXCEPT ![i] = NoUndo]
        /\ Return(t, "ok") /\ call[t].pc = "idle" /\ UNCHANGED handle
    BY <1>2 DEF sem_remove, CanCall
  <2>2. {j \in Ids : status[j] = "live"}' = {j \in Ids : status[j] = "live"} \ {i}
    BY <2>1 DEF TypeOK
  <2>3. ThePermits!Reply(t, TRUE)
    BY <2>1, ReturnRefined
  <2>4. [u \in Threads |-> Asked(call[u])][t] = ThePermits!NoAsk
    BY <2>1, NotAsking DEF Operating
  <2>5. i \in {j \in Ids : status[j] = "live"}
    BY <2>1
  <2>6. ThePermits!Remove(t, i)
    BY <2>1, <2>2, <2>3, <2>4, <2>5
       DEF ThePermits!Remove, ThePermits!Settled, NoUndo
  <2> QED
    BY <2>6 DEF PermitNext, ThePermits!PermitNext
<1> QED
  BY <1>1, <1>2

LEMMA ExitRefined ==
  ASSUME TypeOK, NEW p \in Procs, ExitProcess(p)
  PROVE  PermitNext
<1>1. \A t \in Threads :
        /\ Asked(call'[t]) = IF ProcOf[t] = p THEN ThePermits!NoAsk ELSE Asked(call[t])
        /\ Answered(call'[t]) = (ProcOf[t] # p /\ Answered(call[t]))
  BY DEF ExitProcess, Asked, Answered, ThePermits!NoAsk
<1>2. \A n : Clamp(n) = ThePermits!Within(n)
  BY DEF Clamp, ThePermits!Within
<1>3. val' = [s \in Ids |-> IF s \in {i \in Ids : status[i] = "live"}
                            THEN ThePermits!Within(val[s] + adj[s][p]) ELSE val[s]]
  BY <1>2 DEF ExitProcess
<1>4. adj' = [s \in Ids |-> [adj[s] EXCEPT ![p] = 0]]
      /\ UNCHANGED {i \in Ids : status[i] = "live"}
  BY DEF ExitProcess
<1>5. KeepsOthers(p)
  BY DEF ExitProcess, KeepsOthers, TypeOK
<1>6. ThePermits!Vanish(p)
  BY <1>1, <1>3, <1>4, <1>5, OptionsKept DEF ThePermits!Vanish
<1> QED
  BY <1>6 DEF PermitNext, ThePermits!PermitNext

LEMMA NextRefined ==
  TypeOK /\ NothingOwedToAbsent /\ [Next]_vars => [PermitNext]_PermitVars
<1> SUFFICES ASSUME TypeOK, NothingOwedToAbsent, [Next]_vars
             PROVE  PermitNext \/ UNCHANGED PermitVars
  OBVIOUS
<1>1. ASSUME NEW t \in Threads, ThreadStep(t) PROVE PermitNext
  <2>1. KeepsOthers(ProcOf[t])
    BY <1>1, ThreadKeepsOthers
  <2> QED
    BY <1>1, <2>1, OperationsAreOne, PerformSemopRefined, SemopRefined,
       ConstructorRefined, SetInitialValueRefined, WaiterRefined,
       SetValueRefined, AttributeRefined, RemoveRefined DEF ThreadStep
<1>2. CASE \E p \in Procs : ExitProcess(p)
  BY <1>2, ExitRefined
<1>3. CASE UNCHANGED vars
  BY <1>3 DEF vars, PermitVars, ThePermits!permitVars
<1> QED
  BY <1>1, <1>2, <1>3 DEF Next

\* Every behaviour of the class is one of Permits, for any number of
\* processes, threads, semaphores and limits: a call that returns, at once or
\* after a wait, has made all of the change it asked for when it was made, with
\* undo exactly if undo was set then, at one moment when it could be made; one
\* that raises an exception has made none; only a call on a semaphore that has
\* not what it asks for, and that may block, waits; and the end of a process
\* gives back exactly what it owes.
THEOREM PermitsImplemented == Spec => ImplementsPermits
<1>1. Init => ThePermits!PermitInit
  <2> SUFFICES ASSUME Init PROVE ThePermits!PermitInit
    OBVIOUS
  <2>1. \A t \in Threads : Asked(call[t]) = ThePermits!NoAsk /\ Answered(call[t]) = FALSE
    BY DEF Init, Asked, Answered, ThePermits!NoAsk
  <2>2. {i \in Ids : status[i] = "live"} = {}
    BY DEF Init
  <2>3. \A p \in Procs : handle[p].block = TRUE /\ handle[p].undo = FALSE
    BY DEF Init, NoHandle
  <2> QED
    BY <2>1, <2>2, <2>3 DEF Init, ThePermits!PermitInit, ThePermits!Settled,
       NoUndo
<1>2. TypeOK /\ NothingOwedToAbsent /\ [Next]_vars
        => [ThePermits!PermitNext]_(ThePermits!permitVars)
  BY NextRefined DEF PermitNext, PermitVars
<1> QED
  BY <1>1, <1>2, TypeCorrect, AlwaysNothingOwedToAbsent, PTL
     DEF Spec, ImplementsPermits, ThePermits!PermitSpec

----------------------------------------------------------------------------
(* Narrowing.                                                              *)

\* release(-32768) hands -32768 to semop: the result of abs() does not fit the
\* short it is stored in (semaphore.c:205), and release() waits for a value
\* no semaphore can have, although it should add abs(delta).
THEOREM ReleaseOfTheLeastShort == SemOp("V", -(SHRT_MAX + 1)) = -(SHRT_MAX + 1)
<1>1. Abs(-(SHRT_MAX + 1)) = SHRT_MAX + 1
  BY DEF Abs
<1>2. ToShort(SHRT_MAX + 1) = -(SHRT_MAX + 1)
  BY DEF ToShort
<1> QED
  BY <1>1, <1>2 DEF SemOp

\* An assignment to value that no int can hold, one range of int too large,
\* reaches the kernel as a value in range (semaphore.c:608): it is not refused
\* with ValueError.
THEOREM ValueWraps ==
  ASSUME NEW v \in 0..INT_MAX
  PROVE  ToInt(v + 2 * (INT_MAX + 1)) = v
<1> DEFINE m == 2 * (INT_MAX + 1)
<1>1. m \in Nat \ {0} /\ v + INT_MAX + 1 \in 0..(m - 1)
  OBVIOUS
<1> HIDE DEF m
<1>2. (v + INT_MAX + 1 + m) % m = v + INT_MAX + 1
  BY <1>1
<1> QED
  BY <1>2 DEF ToInt, m
=============================================================================
