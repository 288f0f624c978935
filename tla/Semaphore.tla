------------------------------ MODULE Semaphore ------------------------------
(***************************************************************************)
(* The Semaphore class of sysv_ipc (src/src/semaphore.c) as the threads of *)
(* several processes call it, above the kernel's semaphore sets of one     *)
(* member each.  Every system call is one atomic step; a method that makes *)
(* two (semget and SETVAL in the constructor) is two steps, and another    *)
(* process may run in between.  A thread inside the constructor keeps the  *)
(* GIL of its process; a thread on its way into semop, or blocked in it,   *)
(* has released it, and the others of its process may run in between.      *)
(***************************************************************************)
EXTENDS Integers

CONSTANTS
  Procs,              \* processes that have imported the module
  Threads,            \* Python threads
  ProcOf,             \* the process of each thread
  Keys,               \* key_t values, IPC_PRIVATE included
  IPC_PRIVATE,        \* the key that never names a semaphore
  None,               \* key=None: the module draws the key
  MaxSems,            \* the kernel hands out at most this many ids (SEMMNI)
  SEMVMX,             \* largest value of a semaphore
  SHRT_MAX, INT_MAX,  \* limits of the C types short and int
  FreshValues,        \* what semget may leave in a new semaphore
  Values,             \* integers a caller passes as initial_value or .value
  Deltas,             \* integers a caller passes as delta; with passes 1
  Timeouts,           \* timeouts a caller passes
  Settable,           \* which of block, undo, mode and owner callers assign
  SEMTIMEDOP_EXISTS   \* whether the platform has semtimedop()

ASSUME ConstantsAssumption ==
  /\ ProcOf \in [Threads -> Procs]
  /\ IPC_PRIVATE \in Keys /\ None \notin Keys
  /\ MaxSems \in Nat \ {0}
  /\ SEMVMX \in Nat /\ SHRT_MAX \in Nat /\ INT_MAX \in Nat
  /\ SEMVMX <= SHRT_MAX /\ SHRT_MAX <= INT_MAX
  /\ FreshValues \subseteq 0..SEMVMX
  /\ Values \subseteq Int
  /\ Deltas \subseteq -(SHRT_MAX + 1)..SHRT_MAX
  /\ Timeouts \subseteq {"none", "zero", "positive"}
  /\ Settable \subseteq {"block", "undo", "mode", "owner"}
  /\ SEMTIMEDOP_EXISTS \in BOOLEAN

VARIABLES
  idOf,      \* kernel: the id a key names, or NoId
  status,    \* kernel: "unused", "live" or "removed", per id
  val,       \* kernel: semval
  writable,  \* kernel: whether the mode lets its users alter the semaphore
  otime,     \* kernel: whether sem_otime is set (a semop has succeeded)
  adj,       \* kernel: semadj, per id and process
  handle,    \* the Semaphore object each process works with
  call       \* what each thread is doing, or how its last call ended

kernel == <<idOf, status, val, writable, otime, adj>>
vars   == <<idOf, status, val, writable, otime, adj, handle, call>>

Ids  == 1..MaxSems
NoId == 0

CREX  == {"CREAT", "EXCL"}
Flags == SUBSET CREX

NoHandle  == [key |-> None, id |-> NoId, block |-> TRUE, undo |-> FALSE]
NoUndo    == [p \in Procs |-> 0]

----------------------------------------------------------------------------
(* C arithmetic and the translation of errno.                              *)

Abs(n) == IF n < 0 THEN -n ELSE n

\* Narrowing an int that is at most one short range too large to a short.
ToShort(n) == IF n > SHRT_MAX THEN n - 2 * (SHRT_MAX + 1) ELSE n

\* Narrowing a long to an int.
ToInt(n) ==
  ((n + INT_MAX + 1) % (2 * (INT_MAX + 1))) - (INT_MAX + 1)

Errors == {"Existential", "Permissions", "Value", "Busy", "Error", "OSError"}

\* The exception raised for each errno.
sem_set_error ==
  [ENOENT |-> "Existential", EINVAL |-> "Existential",
   EEXIST |-> "Existential", EIDRM  |-> "Existential",
   EACCES |-> "Permissions", ERANGE |-> "Value",
   EAGAIN |-> "Busy",        EINTR  |-> "Error",
   ENOSPC |-> "OSError"]

\* The sem_op each method hands to semop: the sign comes from the method,
\* the magnitude from delta, and the result is stored in a short.
SemOp(type, delta) ==
  CASE type = "P" -> ToShort(-Abs(delta))
    [] type = "V" -> ToShort(Abs(delta))
    [] OTHER      -> 0

----------------------------------------------------------------------------
(* How calls begin and end.                                                *)

\* Variant of GilFree: semctl is called with the GIL released.
GilFreeInSemctl(p) ==
  \A t \in Threads : ProcOf[t] = p => call[t].pc # "genkey"

\* The GIL of p is held across both system calls of a constructor, and of an
\* assignment to mode, uid or gid.
GilFree(p) ==
  \A t \in Threads : ProcOf[t] = p => call[t].pc \notin {"genkey", "setval", "ipcset"}

CanCall(t) == call[t].pc = "idle" /\ GilFree(ProcOf[t])

\* A method call needs an object to call it on.
CanUse(t) == CanCall(t) /\ handle[ProcOf[t]].id # NoId

Return(t, result) ==
  call' = [call EXCEPT ![t] = [pc |-> "idle", res |-> result]]

Fail(t, errno) ==
  Return(t, sem_set_error[errno]) /\ UNCHANGED <<kernel, handle>>

\* Variant of NewHandle: self->key keeps what the caller passed, not the key
\* that was drawn, here the key the process used before.
NewHandleOldKey(t, k, i) ==
  handle' = [handle EXCEPT ![ProcOf[t]] =
               [key |-> @.key, id |-> i, block |-> TRUE, undo |-> FALSE]]

\* A new object: op_flags is zero, so operations block and are not undone.
NewHandle(t, k, i) ==
  handle' = [handle EXCEPT ![ProcOf[t]] =
               [key |-> k, id |-> i, block |-> TRUE, undo |-> FALSE]]

----------------------------------------------------------------------------
(* The constructor.                                                        *)

Exists(k) == idOf[k] # NoId

SemgetErrno(k, flags, rw) ==
  IF Exists(k)
  THEN IF flags = CREX                            THEN "EEXIST"
       ELSE IF rw /\ ~writable[idOf[k]]           THEN "EACCES" ELSE "none"
  ELSE IF k # IPC_PRIVATE /\ "CREAT" \notin flags THEN "ENOENT"
       ELSE IF \A i \in Ids : status[i] # "unused" THEN "ENOSPC" ELSE "none"

\* The kernel's part of creating a semaphore.
Allocate(k, i, rw) ==
  /\ status[i] = "unused" /\ \A j \in 1..(i - 1) : status[j] # "unused"
  /\ status' = [status EXCEPT ![i] = "live"]
  /\ \E v \in FreshValues : val' = [val EXCEPT ![i] = v]
  /\ writable' = [writable EXCEPT ![i] = rw]
  /\ idOf' = IF k = IPC_PRIVATE THEN idOf ELSE [idOf EXCEPT ![k] = i]
  /\ UNCHANGED <<otime, adj>>

\* Variants of SetsInitialValue: the mode is not looked at; nor the flags.
SetsAnyMode(flags, rw)  == flags # {}
SetsAnyFlags(flags, rw) == rw

\* if ((flags & IPC_CREX) && (mode & 0200)): true for IPC_CREAT alone.
SetsInitialValue(flags, rw) == flags # {} /\ rw

\* What semget gives: made, whether it has just been made, no code looks at.
Obtained(t, k, i, flags, rw, init) ==
  IF SetsInitialValue(flags, rw)
  THEN /\ call' = [call EXCEPT ![t] = [pc |-> "setval", key |-> k, id |-> i,
                                       made |-> ~Exists(k),
                                       flags |-> flags, init |-> init]]
       /\ UNCHANGED handle
  ELSE Return(t, "ok") /\ NewHandle(t, k, i)

\* Variant of Semget: that semget returned -1 is not noticed.
SemgetUnchecked(t, k, flags, rw, init) ==
  LET errno == SemgetErrno(k, flags, rw) IN
  \/ errno # "none" /\ Return(t, "ok") /\ NewHandle(t, k, NoId)
     /\ UNCHANGED kernel
  \/ /\ errno = "none" /\ Exists(k)
     /\ Obtained(t, k, idOf[k], flags, rw, init)
     /\ UNCHANGED kernel
  \/ /\ errno = "none" /\ ~Exists(k)
     /\ \E i \in Ids : /\ Allocate(k, i, rw)
                       /\ Obtained(t, k, i, flags, rw, init)

Semget(t, k, flags, rw, init) ==
  LET errno == SemgetErrno(k, flags, rw) IN
  \/ errno # "none" /\ Fail(t, errno)
  \/ /\ errno = "none" /\ Exists(k)
     /\ Obtained(t, k, idOf[k], flags, rw, init)
     /\ UNCHANGED kernel
  \/ /\ errno = "none" /\ ~Exists(k)
     /\ \E i \in Ids : /\ Allocate(k, i, rw)
                       /\ Obtained(t, k, i, flags, rw, init)

\* Variant of BadFlags: a drawn key no longer requires IPC_EXCL.
BadFlagsNoneAllowed(key, flags) == "EXCL" \in flags /\ "CREAT" \notin flags

BadFlags(key, flags) ==
  \/ "EXCL" \in flags /\ "CREAT" \notin flags
  \/ key = None /\ "EXCL" \notin flags

Semaphore_init(t, key, flags, rw, init) ==
  /\ CanCall(t)
  /\ \/ BadFlags(key, flags) /\ Return(t, "Value")
        /\ UNCHANGED <<kernel, handle>>
     \/ /\ ~BadFlags(key, flags) /\ key = None
        /\ call' = [call EXCEPT ![t] = [pc |-> "genkey", flags |-> flags,
                                        rw |-> rw, init |-> init]]
        /\ UNCHANGED <<kernel, handle>>
     \/ ~BadFlags(key, flags) /\ key # None /\ Semget(t, key, flags, rw, init)

get_random_key == Keys \ {IPC_PRIVATE}

\* Variant of Redraws: while (-1 == self->id) alone.
RedrawsOnAnyError(errno) == errno # "none"

Redraws(errno) == errno = "EEXIST"

\* One turn of the loop that draws keys until semget does not say EEXIST;
\* the turns that do go round again and change nothing.
TryRandomKey(t) ==
  /\ call[t].pc = "genkey"
  /\ \E k \in get_random_key :
       /\ ~Redraws(SemgetErrno(k, call[t].flags, call[t].rw))
       /\ Semget(t, k, call[t].flags, call[t].rw, call[t].init)

SetvalErrno(i, v) ==
  IF v \notin 0..SEMVMX      THEN "ERANGE"
  ELSE IF status[i] # "live" THEN "EINVAL"
  ELSE IF ~writable[i]       THEN "EACCES" ELSE "none"

\* SETVAL clears every process's pending undo of this semaphore.
Setval(i, v) ==
  /\ val' = [val EXCEPT ![i] = v]
  /\ adj' = [adj EXCEPT ![i] = NoUndo]
  /\ UNCHANGED <<idOf, status, writable, otime>>

\* The constructor's second system call.
SetInitialValue(t) ==
  /\ call[t].pc = "setval"
  /\ LET errno == SetvalErrno(call[t].id, call[t].init) IN
     \/ errno # "none" /\ Fail(t, errno)
     \/ /\ errno = "none"
        /\ Setval(call[t].id, call[t].init)
        /\ NewHandle(t, call[t].key, call[t].id)
        /\ Return(t, "ok")

\* The read-only and readable attributes: one semctl, whatever it asks for.
sem_get(t) ==
  /\ CanUse(t)
  /\ IF status[handle[ProcOf[t]].id] # "live" THEN Fail(t, "EINVAL")
     ELSE Return(t, "ok") /\ UNCHANGED <<kernel, handle>>

----------------------------------------------------------------------------
(* acquire (P), release (V) and Z: the arguments are put together under    *)
(* the GIL, semop or semtimedop is called without it.                      *)

WouldBlock(c) == IF c.op = 0 THEN val[c.id] # 0 ELSE val[c.id] + c.op < 0

OutOfRange(t, c) ==
  \/ val[c.id] + c.op > SEMVMX
  \/ c.undo /\ adj[c.id][ProcOf[t]] - c.op \notin -(SEMVMX + 1)..SEMVMX

Perform(t, c) ==
  /\ val' = [val EXCEPT ![c.id] = @ + c.op]
  /\ otime' = [otime EXCEPT ![c.id] = TRUE]
  /\ adj' = IF c.undo THEN [adj EXCEPT ![c.id][ProcOf[t]] = @ - c.op] ELSE adj
  /\ Return(t, "ok")
  /\ UNCHANGED <<idOf, status, writable, handle>>

\* The kernel carries out an operation that need not wait.
Complete(t, c) ==
  \/ OutOfRange(t, c) /\ Fail(t, "ERANGE")
  \/ ~OutOfRange(t, c) /\ Perform(t, c)

\* Variant of IsTimed: semop is called where semtimedop should be.
NeverTimed(timeout) == FALSE

\* Without semtimedop() every timeout, zero included, is infinite.
IsTimed(timeout) == SEMTIMEDOP_EXISTS /\ timeout # "none"

\* Variant of Patient: IPC_NOWAIT is passed for the objects that block.
PatientUnlessBlocking(c) ==
  ~c.block /\ ~(IsTimed(c.timeout) /\ c.timeout = "zero")

\* IPC_NOWAIT, or a timeout of zero, makes the kernel fail where it would wait.
Patient(c) == c.block /\ ~(IsTimed(c.timeout) /\ c.timeout = "zero")

\* Under the GIL: the parameters are vetted, and op[0] is filled in from them
\* and from the object's op_flags as they are now.
sem_perform_semop(t, type, delta, timeout) ==
  /\ CanUse(t) /\ UNCHANGED <<kernel, handle>>
  /\ \/ delta = 0 /\ type # "Z" /\ Return(t, "Value")
     \/ /\ delta # 0 \/ type = "Z"
        /\ LET h == handle[ProcOf[t]] IN
           call' = [call EXCEPT ![t] =
                      [pc |-> "semop", op |-> SemOp(type, delta), id |-> h.id,
                       undo |-> h.undo, block |-> h.block, timeout |-> timeout]]

\* Variant of Arguments: op_flags is read when the GIL has been released.
ArgumentsReadLate(t) ==
  [call[t] EXCEPT !.undo = handle[ProcOf[t]].undo, !.block = handle[ProcOf[t]].block]

\* What semop is given: op[0] as it was filled in.
Arguments(t) == call[t]

\* Without the GIL: semop or semtimedop is called, and returns or blocks.
Semop(t) ==
  /\ call[t].pc = "semop"
  /\ LET c == Arguments(t) IN
     \/ status[c.id] # "live" /\ Fail(t, "EINVAL")
     \/ status[c.id] = "live" /\ c.op # 0 /\ ~writable[c.id] /\ Fail(t, "EACCES")
     \/ /\ status[c.id] = "live" /\ (c.op = 0 \/ writable[c.id])
        /\ \/ ~WouldBlock(c) /\ Complete(t, c)
           \/ WouldBlock(c) /\ ~Patient(c) /\ Fail(t, "EAGAIN")
           \/ /\ WouldBlock(c) /\ Patient(c)
              /\ call' = [call EXCEPT ![t].pc = "wait"]
              /\ UNCHANGED <<kernel, handle>>

Semaphore_P(t, delta, timeout) == sem_perform_semop(t, "P", delta, timeout)
Semaphore_V(t, delta)          == sem_perform_semop(t, "V", delta, "none")
Semaphore_Z(t, timeout)        == sem_perform_semop(t, "Z", 0, timeout)

\* with sem: acquires one on entry and releases one on any exit.
Semaphore_enter(t) == Semaphore_P(t, 1, "none")

\* Variant of Semaphore_exit: it returns without a release.
ExitNoRelease(t) == sem_get(t)

Semaphore_exit(t)  == Semaphore_V(t, 1)

\* A blocked operation ends: it is carried out or its semaphore is gone.
Wake(t) ==
  /\ call[t].pc = "wait"
  /\ \/ status[call[t].id] # "live" /\ Fail(t, "EIDRM")
     \/ /\ status[call[t].id] = "live" /\ ~WouldBlock(call[t])
        /\ Complete(t, call[t])

TimeOut(t) ==
  call[t].pc = "wait" /\ IsTimed(call[t].timeout) /\ Fail(t, "EAGAIN")

Interrupt(t) == call[t].pc = "wait" /\ Fail(t, "EINTR")

----------------------------------------------------------------------------
(* Attributes, removal and the end of a process.                           *)

sem_set_value(t, v) ==
  /\ CanUse(t)
  /\ LET i     == handle[ProcOf[t]].id
         n     == ToInt(v)
         errno == SetvalErrno(i, n)
     IN \/ errno # "none" /\ Fail(t, errno)
        \/ /\ errno = "none" /\ Setval(i, n) /\ Return(t, "ok")
           /\ UNCHANGED handle

sem_set_block(t, b) ==
  /\ CanUse(t)
  /\ handle' = [handle EXCEPT ![ProcOf[t]].block = b]
  /\ Return(t, "ok") /\ UNCHANGED kernel

\* Variant of sem_set_undo: the bit is never set.
UndoNeverSet(t, b) ==
  CanUse(t) /\ Return(t, "ok") /\ UNCHANGED <<kernel, handle>>

sem_set_undo(t, b) ==
  /\ CanUse(t)
  /\ handle' = [handle EXCEPT ![ProcOf[t]].undo = b]
  /\ Return(t, "ok") /\ UNCHANGED kernel

\* Assigning mode, uid or gid: IPC_STAT reads all three, one is replaced, and
\* IPC_SET writes all three.  Who owns the semaphore is not modelled.
sem_set_ipc_perm_value(t, field, rw) ==
  /\ CanUse(t)
  /\ LET i == handle[ProcOf[t]].id IN
     \/ status[i] # "live" /\ Fail(t, "EINVAL")
     \/ /\ status[i] = "live"
        /\ call' = [call EXCEPT ![t] =
                      [pc |-> "ipcset", id |-> i, field |-> field,
                       rw |-> IF field = "mode" THEN rw ELSE writable[i]]]
        /\ UNCHANGED <<kernel, handle>>

IpcSet(t) ==
  /\ call[t].pc = "ipcset"
  /\ LET i == call[t].id IN
     \/ status[i] # "live" /\ Fail(t, "EINVAL")
     \/ /\ status[i] = "live"
        /\ writable' = [writable EXCEPT ![i] = call[t].rw]
        /\ Return(t, "ok")
        /\ UNCHANGED <<idOf, status, val, otime, adj, handle>>

\* Semaphore.remove() and remove_semaphore(id): any id will do.
sem_remove(t, i) ==
  /\ CanCall(t)
  /\ \/ status[i] # "live" /\ Fail(t, "EINVAL")
     \/ /\ status[i] = "live"
        /\ status' = [status EXCEPT ![i] = "removed"]
        /\ idOf' = [k \in Keys |-> IF idOf[k] = i THEN NoId ELSE idOf[k]]
        /\ val' = [val EXCEPT ![i] = 0]
        /\ writable' = [writable EXCEPT ![i] = FALSE]
        /\ otime' = [otime EXCEPT ![i] = FALSE]
        /\ adj' = [adj EXCEPT ![i] = NoUndo]
        /\ Return(t, "ok") /\ UNCHANGED handle

Clamp(n) == IF n < 0 THEN 0 ELSE IF n > SEMVMX THEN SEMVMX ELSE n

\* A process ends, at any point of any call: the kernel applies its undo
\* entries, within range.  The same p may then stand for a new process.
ExitProcess(p) ==
  /\ val' = [i \in Ids |-> IF status[i] = "live" THEN Clamp(val[i] + adj[i][p])
                                                 ELSE val[i]]
  /\ adj' = [i \in Ids |-> [adj[i] EXCEPT ![p] = 0]]
  /\ handle' = [handle EXCEPT ![p] = NoHandle]
  /\ call' = [t \in Threads |-> IF ProcOf[t] = p
                                THEN [pc |-> "idle", res |-> "none"]
                                ELSE call[t]]
  /\ UNCHANGED <<idOf, status, writable, otime>>

----------------------------------------------------------------------------
(* The specification.                                                      *)

Init ==
  /\ idOf = [k \in Keys |-> NoId]
  /\ status = [i \in Ids |-> "unused"]
  /\ val = [i \in Ids |-> 0]
  /\ writable = [i \in Ids |-> FALSE]
  /\ otime = [i \in Ids |-> FALSE]
  /\ adj = [i \in Ids |-> NoUndo]
  /\ handle = [p \in Procs |-> NoHandle]
  /\ call = [t \in Threads |-> [pc |-> "idle", res |-> "none"]]

\* initial_value is parsed as a C int.
InitialValues == Values \cap (-(INT_MAX + 1)..INT_MAX)

ThreadStep(t) ==
  \/ \E key \in Keys \cup {None}, flags \in Flags, rw \in BOOLEAN,
        init \in InitialValues : Semaphore_init(t, key, flags, rw, init)
  \/ TryRandomKey(t)
  \/ SetInitialValue(t)
  \/ \E delta \in Deltas, timeout \in Timeouts : Semaphore_P(t, delta, timeout)
  \/ \E delta \in Deltas : Semaphore_V(t, delta)
  \/ \E timeout \in Timeouts : Semaphore_Z(t, timeout)
  \/ 1 \in Deltas /\ (Semaphore_enter(t) \/ Semaphore_exit(t))
  \/ Semop(t)
  \/ Wake(t)
  \/ TimeOut(t)
  \/ Interrupt(t)
  \/ \E v \in Values : sem_set_value(t, v)
  \/ "block" \in Settable /\ \E b \in BOOLEAN : sem_set_block(t, b)
  \/ "undo" \in Settable /\ \E b \in BOOLEAN : sem_set_undo(t, b)
  \/ sem_get(t)
  \/ \E field \in Settable \cap {"mode", "owner"}, rw \in BOOLEAN :
        sem_set_ipc_perm_value(t, field, rw)
  \/ IpcSet(t)
  \/ \E i \in Ids : sem_remove(t, i)

Next ==
  \/ \E t \in Threads : ThreadStep(t)
  \/ \E p \in Procs : ExitProcess(p)

Spec == Init /\ [][Next]_vars

\* The kernel's timers run, and rand() comes upon a free key in the end.
FairSpec ==
  Spec /\ \A t \in Threads : WF_vars(TimeOut(t)) /\ WF_vars(TryRandomKey(t))

----------------------------------------------------------------------------
(* What the documentation promises and the code does not do.               *)

\* USAGE.md: initial_value is ignored unless both IPC_CREAT and IPC_EXCL are
\* given; a comment in Semaphore_init: "I have to be sure that I created this
\* semaphore".  A constructor with IPC_CREAT alone also sets the value of a
\* semaphore that was there before it called semget.
InitialValueNeedsBothFlags ==
  [][\A t \in Threads :
       SetInitialValue(t) /\ call[t].flags # CREX /\ ~call[t].made
         => UNCHANGED val]_vars

----------------------------------------------------------------------------
(* Properties.                                                             *)

Results == {"none", "ok"} \cup Errors

SetvalCall == [pc : {"setval"}, key : Keys, id : Ids, made : BOOLEAN,
               flags : Flags, init : Int]
SemopCall  == [pc : {"semop", "wait"}, op : -(SHRT_MAX + 1)..SHRT_MAX, id : Ids,
               undo : BOOLEAN, block : BOOLEAN, timeout : Timeouts \cup {"none"}]
IpcSetCall == [pc : {"ipcset"}, id : Ids, field : Settable, rw : BOOLEAN]
Call ==
  [pc : {"idle"}, res : Results]
    \cup [pc : {"genkey"}, flags : Flags, rw : BOOLEAN, init : Int]
    \cup SetvalCall \cup SemopCall \cup IpcSetCall

Handle == [key : Keys, id : Ids, block : BOOLEAN, undo : BOOLEAN]

\* The types, and the ranges that every operation, SETVAL and process exit
\* must respect: a semaphore's value stays between 0 and SEMVMX, and what a
\* process owes it can be undone.  There is no object without a key and an id
\* (Semaphore_init returns -1), and what semop is given fits a short.
TypeOK ==
  /\ idOf \in [Keys -> Ids \cup {NoId}]
  /\ status \in [Ids -> {"unused", "live", "removed"}]
  /\ val \in [Ids -> 0..SEMVMX]
  /\ writable \in [Ids -> BOOLEAN]
  /\ otime \in [Ids -> BOOLEAN]
  /\ adj \in [Ids -> [Procs -> -(SEMVMX + 1)..SEMVMX]]
  /\ handle \in [Procs -> Handle \cup {NoHandle}]
  /\ call \in [Threads -> Call]

KeysNameLiveSemaphores ==
  /\ idOf[IPC_PRIVATE] = NoId
  /\ \A k \in Keys : Exists(k) => status[idOf[k]] = "live"
  /\ \A k, l \in Keys : Exists(k) /\ idOf[k] = idOf[l] => k = l

\* i was allocated, and if it is in the system k leads to it.
Names(k, i) ==
  /\ k \in Keys /\ status[i] # "unused"
  /\ status[i] = "live" /\ k # IPC_PRIVATE => idOf[k] = i

\* As long as the semaphore of an object is in the system, the object's key
\* is the one that leads to it, and to no other: another process that passes
\* obj.key to the constructor gets the same semaphore.  It holds across drawn
\* keys, removals, and semaphores created anew under an old key
\* (Semaphore_init, sem_remove).
ObjectNamesItsSemaphore ==
  /\ KeysNameLiveSemaphores
  /\ \A p \in Procs :
       handle[p].id # NoId => Names(handle[p].key, handle[p].id)
  /\ \A t \in Threads :
       call[t].pc = "setval" => Names(call[t].key, call[t].id)

\* A constructor goes on to set the initial value only of a semaphore it has
\* just been let write to: it does not create or open one and then fail with
\* PermissionsError, whatever the mode, unless the mode is changed in between
\* (the test of mode & 0200 in Semaphore_init; history.md 0.2.0).
InitialiserMayWrite ==
  [][\A t \in Threads :
       call[t].pc # "setval" /\ call'[t].pc = "setval"
         => writable'[call'[t].id]]_vars

\* Semaphore(None, ...) never joins a semaphore that is in use: the id it
\* gets was not allocated before (the None and IPC_EXCL checks and the key
\* loop of Semaphore_init).
DrawnKeyIsFresh ==
  [][\A t \in Threads : call[t].pc = "genkey" =>
       /\ call'[t].pc = "setval" => status[call'[t].id] = "unused"
       /\ call'[t] = [pc |-> "idle", res |-> "ok"] =>
            status[handle'[ProcOf[t]].id] = "unused"]_vars

\* BusyError comes at once only if block was False when the method was called
\* or, where semtimedop exists, if the timeout is zero; it ends a wait only
\* where semtimedop exists and a timeout was given.  Where it does not, a call
\* on a blocking object waits however short its timeout, and what the other
\* threads assign to block after the call has begun makes no difference
\* (op_flags and the SEMTIMEDOP_EXISTS branches of sem_perform_semop).
BusyOnlyWhenAsked ==
  [][\A t \in Threads :
       LET c == call[t] IN
       /\ c.pc = "idle" /\ call'[t].pc = "semop"
            => call'[t].block = handle[ProcOf[t]].block
       /\ call'[t] # c /\ call'[t] = [pc |-> "idle", res |-> "Busy"] =>
            \/ /\ c.pc = "semop"
               /\ ~c.block \/ (SEMTIMEDOP_EXISTS /\ c.timeout = "zero")
            \/ c.pc = "wait" /\ SEMTIMEDOP_EXISTS /\ c.timeout # "none"]_vars

\* Assigning uid or gid writes the mode back too.  Among the threads of one
\* process no assignment of the mode is lost that way: the GIL is held from
\* IPC_STAT to IPC_SET (sem_set_ipc_perm_value).  Between processes it is.
OneProcessKeepsModes ==
  (\A p, q \in Procs : p = q) =>
    \A t \in Threads :
      call[t].pc = "ipcset" /\ call[t].field = "owner"
          /\ status[call[t].id] = "live"
        => call[t].rw = writable[call[t].id]

\* The change a thread has asked for and not yet been answered, and whether
\* its last call has come back without an exception.
Asked(c) ==
  IF c.pc \in {"semop", "wait"}
  THEN [kind |-> "change", sem |-> c.id, by |-> c.op, undo |-> c.undo,
        block |-> c.block, waits |-> c.pc = "wait"]
  ELSE [kind |-> "none"]

Answered(c) == c = [pc |-> "idle", res |-> "ok"]

\* The class implements Permits: of two threads or processes that call at the
\* same time, each gets all of what it asked for when it called, or nothing; a
\* call that times out, is interrupted or finds the semaphore gone has changed
\* nothing, and one that returns has, with undo exactly if the object had undo
\* set at the call; what the end of a process gives back is what its
\* operations with undo took, since the value was last set
\* (sem_perform_semop, sem_set_value, Semaphore_init, sem_remove).
ThePermits == INSTANCE Permits WITH
  Sems <- Ids, Limit <- SEMVMX,
  present <- {i \in Ids : status[i] = "live"}, permits <- val, owed <- adj,
  options <- [p \in Procs |-> [block |-> handle[p].block, undo |-> handle[p].undo]],
  ask <- [t \in Threads |-> Asked(call[t])],
  answer <- [t \in Threads |-> Answered(call[t])]

ImplementsPermits == ThePermits!PermitSpec

\* A call with a timeout returns, whatever the other threads do: the timeout
\* reaches semtimedop (the branch on timeout.is_none).
TimedCallsReturn ==
  \A t \in Threads :
    SEMTIMEDOP_EXISTS /\ call[t].pc = "wait" /\ call[t].timeout # "none"
      ~> call[t].pc = "idle"

\* Semaphore(None, ...) comes back, with a semaphore or with the error that
\* there is no room for one, provided keys outnumber semaphores: the loop
\* goes round for EEXIST only.  Until then its process can do nothing else.
KeyDrawEnds ==
  \A t \in Threads : call[t].pc = "genkey" ~> call[t].pc # "genkey"

=============================================================================
