# sysv_ipc in TLA+

`sysv_ipc` is a C extension that gives Python programs System V semaphores,
shared memory and message queues. This directory holds TLA+ models of it, the
TLC configurations that check them on small instances, and theorems about them
that TLAPS checks for every value of the constants. `PROJECT.json` ties every
definition to the lines it models.

Line numbers below are those of the repository; `semaphore.c` stands for
`src/src/semaphore.c`, and so on.

## 1. The system

| component | state it keeps | operations |
|---|---|---|
| Semaphore class (`semaphore.c`, `semaphore.h`) | per object: `key`, `id`, `op_flags` (IPC_NOWAIT for `block`, SEM_UNDO for `undo`); in the kernel: value, mode, `sem_otime`, the undo entries, what key leads to which id | constructor, `acquire`/`P`, `release`/`V`, `Z`, `with`, `remove`, attributes `value`, `block`, `undo`, `mode`, `uid`, `gid` and the read-only ones |
| Semaphore initialization recipe (`USAGE.md` 542-570) | where each process is in it | create with `IPC_CREX` or open; release once or poll `o_time` |
| SharedMemory class (`memory.c`, `memory.h`) | per object: `key`, `id`, `address`, `read_only`; in the kernel: contents, size, mode, attachments, whether it is to be destroyed | constructor, `attach`, `detach`, `read`, `write`, buffer protocol, `remove`, attributes |
| MessageQueue class (`mq.c`, `mq.h`) | per object: `key`, `id`, `max_message_size`; in the kernel: the messages with their types, the byte count and its limit | constructor, `send`, `receive`, `remove`, attributes |
| Keys (`common.c`, `common.h`) | none | `convert_key_param`, `get_random_key` |
| Module (`sysv_ipc_module.c`) | none | `attach`, `ftok`, `remove_semaphore`, `remove_shared_memory`, `remove_message_queue`, the constants |
| Shared memory demo (`demos/sem_and_shm`) | two programs, each in Python and in C: their loop counters, what they wrote last, one semaphore, one segment | a conversation by turns |
| Message queue demo (`demos/message_queues`) | two programs and a cleanup script, one queue | the same conversation |
| Two other demos, build support, tests, extras, `md5.c` | | left out, see section 8 |

The classes do not call one another: they meet in the kernel, where any process
that knows a key (or an id) reaches the same object, and in the programs that
combine them. Inside a process, threads meet in the GIL: every method runs
under it except `semop`/`semtimedop`, `msgsnd` and `msgrcv`, around which it is
released (`semaphore.c` 231-252, `mq.c` 476-480 and 554-557).

What is hard:

- *Two system calls in one method.* `semget` then `SETVAL` in the constructor
  (488-499), `IPC_STAT` then `IPC_SET` in the assignment of a permission
  (362-390), `shmget`, `shmat`, `memset` in `memory.c` (360-440). Other
  processes, or the end of this one, come in between.
- *Arguments put together under the GIL and used without it.* `op[0]` is filled
  in from the object's `op_flags` (`semaphore.c` 225-229) and handed to `semop`
  when other threads may run and assign `block` and `undo`.
- *Waiting* in `semop`, and the five ways out of it: success, removal, timeout,
  signal, the end of the process. `semtimedop` may not exist, and then the same
  call waits for ever.
- *SEM_UNDO*: what the kernel gives back at exit, its limits, and that SETVAL
  forgets it.
- *Key drawing*: a loop that runs under the GIL until `semget` stops saying
  EEXIST.
- *Messages under way*: the arguments of `send` are copied under the GIL and
  handed to the kernel without it (`mq.c` 464-480); between `msgrcv` and the
  bytes object memory may run out (591).
- *C integers*: `short` for `sem_op`, `int` for SETVAL and for keys, `long` from
  Python, `unsigned long` in the size checks.
- *Two programs that take turns* with nothing between them but a release and an
  acquire that follow at once, or a queue that knows no addressee.

What makes each component correct:

- Semaphore: the value and the undo entries stay in range; the key of an object
  leads to its semaphore; a drawn key never joins an existing semaphore; the
  constructor does not fail for want of write permission to what it has just
  made; BusyError only when asked for; calls with a timeout end; assignments by
  threads of one process do not overwrite one another.
- Recipe: mutual exclusion, one permit that is lost only by a death inside
  without undo, nobody stuck in the recipe unless the creator died.
- Shared memory: reads and writes stay in the segment, `detach` leaves nothing
  mapped, a removed segment lives until its last detachment, initial contents
  are overwritten by nobody but the creator.
- Message queues: what one `send` is given is what one `receive` returns, in the
  order of each type; a message stays stuck only behind objects that disagree
  on `max_message_size`; waits end with removal.
- Demos: the two have the conversation their ReadMe describes, never read a text
  half written, and come to its end.

## 2. Modules

    Lock                   what a lock is                         (abstract)
    Permits                what operations on a semaphore promise (abstract)
    Segments               what attach, detach and write promise  (abstract)
    Mailbox                what send and receive promise          (abstract)
    Conversation           what the demos' programs say           (abstract)

    Semaphore              the class, the kernel below it, threads and processes,
                           implements Permits
    SemaphoreLock          extends Semaphore: the recipe, implements Lock
    SharedMemory           the class, the kernel's segments and address spaces,
                           implements Segments
    Keys                   what becomes of a key
    MessageQueue           extends Keys: the class and the kernel's queues,
                           implements Mailbox
    MqDemo                 extends MessageQueue: implements Conversation
    SemShmDemo             the shared memory demo, implements Conversation

    MC...                  extend the modules they are named for   (TLC)

    SemaphoreProofs, SharedMemoryProofs, MessageQueueProofs, SemShmDemoProofs
                           extend those modules and TLAPS      (theorems)
    SemaphoreLockProofs    extends SemaphoreLock and SemaphoreProofs
    SegmentsProofs         extends SharedMemoryProofs
    MqDemoProofs           extends MqDemo and MessageQueueProofs

### Semaphore and Permits

State. The kernel: `idOf` (key to id), `status`, `val`, `writable`, `otime`,
`adj` (the `semadj` of each process). Each process has one object, `handle`
(`key`, `id` and the two bits of `op_flags`); making another one replaces it.
Each thread has `call`: idle with the result of its last call, or inside one:

| `call[t].pc` | where the thread is | GIL |
|---|---|---|
| `idle` | outside, or has just returned | free |
| `genkey` | in the loop 468-475 of the constructor | held |
| `setval` | between `semget` and SETVAL, 488-499 | held |
| `semop` | `op[0]` is filled in, the system call not yet made, 229-238 | released |
| `wait` | blocked in `semop`/`semtimedop`, 239-252 | released |
| `ipcset` | between IPC_STAT and IPC_SET, 362-390 | held |

Every system call is one step. A method that makes one is one action, a method
that makes two is two.

| action | code |
|---|---|
| `Semaphore_init` | 426-495: flag checks, key choice, first `semget` |
| `TryRandomKey` | the last turn of the key loop, 466-491 |
| `SetInitialValue` | SETVAL of the constructor, 495-509 |
| `Semaphore_P`, `_V`, `_Z`, `_enter`, `_exit` | `sem_perform_semop`, 152-229: the parameters are vetted and `op[0]` is filled in from them and from `op_flags` |
| `Semop` | 231-257: the system call, with these arguments (`Arguments`, `Patient`), up to its result or to the wait |
| `Wake`, `TimeOut`, `Interrupt` | the ways out of the wait, 231-263 |
| `sem_set_value`, `sem_set_block`, `sem_set_undo` | 587-676 |
| `sem_set_ipc_perm_value`, `IpcSet` | 341-399 |
| `sem_get` | every attribute that is only read, 266-338 |
| `sem_remove` | `remove()` 402-408 and `sysv_ipc.remove_semaphore(id)` |
| `ExitProcess` | the end of a process at any point (kernel) |

`SemgetErrno`, `Allocate`, `SetvalErrno`, `Setval`, `WouldBlock`, `OutOfRange`,
`Perform`, `Complete`, `Clamp` and `ExitProcess` are the kernel, external to the repository, as the
code uses it. `semget` leaves any value of `FreshValues` in a new semaphore
(`USAGE.md` warns of it). Ids are not reused: the kernel's sequence numbers see
to that, and `MaxSems` bounds how many there ever are.

Abstracted: the mode is one bit, "may its users alter it"; uid and gid are
named (`owner`) where they matter, in the read-modify-write; a timeout is none,
zero or positive; sets have one member as the module always asks for.

`Permits` is what the class is worth to a caller: the permits of each semaphore,
what each process is owed at its end, what each process has made of `block` and
`undo`, what each thread has asked for and how its last call ended. Every call to
`acquire`, `release` or `Z` is an `Ask` first, with the options of that moment;
then it is answered by a `Change` of exactly that, or fails and has changed
nothing, and it may `Wait` in between only if it was told to block and what it
wants is not there. It has no errno, no object and no GIL. `ThePermits` maps the
kernel's values and undo entries to it, a thread on its way into `semop` or
blocked there to a request, and `"ok"` to the answer.

### SemaphoreLock and Lock

`SemaphoreLock` runs the recipe of `USAGE.md` 557-570 in every process, then
assigns `undo` and goes in and out of `with sem:` blocks. `at[t]` is the
statement; every call is the whole action of `Semaphore`. A process may end
anywhere and start again, a wait may be broken by a signal. `Lock` is what that
is worth: `isSet`, `free`, `holders`, and four actions. `TheLock` maps the
kernel's state to it: set means `sem_otime` of the key's semaphore is set, free
means its value is 1, and a process holds the permit (`Holds`) from the `semop`
of `__enter__` to the `semop` of `__exit__`: also while it is leaving the block
and has not got there.

### SharedMemory and Segments

State. The kernel: `idOf`, `status` (a removed segment is `marked` until nothing
maps it, then `gone`), `size`, `mode` (what its users may do), `bytes`, and
`maps`, the address space of each process: which address maps which segment,
read-only or not. `obj` is the object in each Python variable (`key`, `id`,
`address`, `read_only`); a process may have several, and `ProcOf` says whose a
variable is. `call` is what each process is doing. `memory.c` never releases
the GIL, so the threads of a process take turns by whole methods and a process
stands for them all.

| `call[p].pc` | where the process is |
|---|---|
| `idle` | outside, or has just returned |
| `shmat` | in the constructor after `shmget`, 373-416 |
| `stat` | in the constructor after `shmat`, 421-424 |
| `copy` | in `memset` (433), in `memcpy` of `write` (620) or copying for `read` (568), the offsets in `todo` still to come |
| `ipcset` | between IPC_STAT and IPC_SET, 214-235 |

| action | code |
|---|---|
| `SharedMemory_init` | 313-412: flag checks, default size, keys, `shmget` |
| `InitAttach`, `InitFill` | the rest of the constructor, 414-443 |
| `CopyByte` | one byte of a copy; the address decides where it lands |
| `SharedMemory_attach`, `_detach` | 20-59, 446-499 |
| `SharedMemory_read`, `_write` | 502-628 up to the copy, with the C arithmetic |
| `shm_get_value`, `shm_set_ipc_perm_value`, `IpcSet` | the attributes, 95-259 |
| `SharedMemory_remove`, `sysv_ipc_remove_shared_memory` | 62-92, by object or by id |
| `sysv_ipc_attach` | `sysv_ipc.attach(id)`, `sysv_ipc_module.c` 67-113 |
| `SharedMemory_dealloc` | 291-294: the object goes, its mapping stays |
| `ExitProcess` | the end of a process at any point (kernel) |

The kernel's part is as Linux has it: IPC_RMID frees the key at once, an
attached segment goes on until its last detachment and can be attached and
asked about meanwhile, `shmat` checks the mode, IPC_STAT needs read permission,
new segments are zero. An address stands for a place large enough for any
segment. A byte is `zero` (the kernel's), `init` (init_character) or the process that
wrote it. With `RoundsUp` the kernel makes a segment larger than it was asked to. The key loop is one step that finds a free key: its other turns
change nothing; that it ends is checked for `Semaphore`. A constructor works on
a fresh object. `Careful` narrows the callers to those who attach only what is
detached and detach before they drop an object, in the processes it names.

`Segments` is what that is worth to callers of that kind: the status, size and
bytes of each segment and which object is attached to which, for writing or not.
It has no addresses: that a segment lives as long as an object says it is
attached, and not as long as some address maps it, is what the class adds to the
kernel. `attached` and `writers` map the objects to it.

### Keys

`convert_key_param` takes what fits a `long` (`KEY_MIN`, `KEY_MAX` of
`common.h`) and narrows it to a `key_t`, an `int` (`ToKeyT`); `get_random_key`
gives the positive shorts but the largest. `MessageQueue` uses the module;
`Semaphore` and `SharedMemory` leave keys as names, because nothing they say
depends on how a key is spelled.

### MessageQueue and Mailbox

State. The kernel: `idOf`, `status`, `mode`, `qbytes` (`max_size`) and `queue`.
Each process has one object, `handle` (`key`, `id`, `max_message_size`), and one
bytearray that its threads send from and may change at any time, `buffer`. Each
thread has `call`:

| `call[t].pc` | where the thread is | GIL |
|---|---|---|
| `idle` | outside, or has just returned | free |
| `genkey` | in the loop of the constructor, 371-381 | held |
| `msgsnd`, `msgrcv` | arguments ready, the system call not yet made | released |
| `sndwait`, `rcvwait` | blocked in the system call | released |
| `ipcset` | between IPC_STAT and IPC_SET, 125-170 | held |

| action | code |
|---|---|
| `MessageQueue_init`, `TryRandomKey` | 330-428 |
| `MessageQueue_send` | 431-480: checks and copy, under the GIL |
| `Msgsnd`, `SendWakes` | 476-520: the call, its wait and its errors |
| `MessageQueue_receive` | 523-557 |
| `Msgrcv`, `ReceiveWakes` | 554-603: the call, its wait, its errors, the result |
| `Interrupt` | EINTR in either wait |
| `get_a_value`, `set_a_value`, `IpcSet` | every attribute, 21-193; `max_size` goes through an unsigned long (`ToULong`) |
| `mq_remove` | `remove()` and `sysv_ipc.remove_message_queue(id)` |
| `Rewrite` | another thread changes the bytearray (external) |
| `ExitProcess` | the end of a process at any point (kernel) |

The kernel is Linux's: `msgrcv` takes the first message for type 0, the first of
a positive type, the first of the lowest type for a negative one; a message
longer than asked for stays; a capacity above MSGMNB needs privileges the
callers do not have. A text has a length and no content. `Message` carries the
`max_message_size` of the object that sent it (`limit`), which only properties
read. When memory runs out after `msgrcv` the message is lost and the call raises
MemoryError.

`Mailbox` is what that is worth to the callers: `mail` per box, `ask` per
thread, `answer` to its last call. Of errors it says that they change nothing,
but for one: a `receive()` that raises MemoryError, and no other call, may have
lost the message it had taken (`Lose`). It says nothing of waiting; `TheMailbox`
maps queues to boxes and calls to requests. The content a message has is the one the buffer had when
`send` was called.

### The demos and Conversation

`Conversation` is one variable, what was said last and by whom: the first opens,
and each answers the other with the digest.

`MqDemo` runs `premise.py`, `conclusion.py` and `cleanup.py` over
`MessageQueue`, every call a whole action of that module; `at[p]` is the
statement. A text is a number and `md5` adds one: digests of different texts
differ, which is all the programs look at.

`SemShmDemo` runs `premise` and `conclusion`, each in Python or in C, over one
semaphore and one segment. The two are modelled by what the programs use of
them (value, existence) and not through `Semaphore` and `SharedMemory`, because
the C programs do not go through them either. A text has two halves that are
copied one by one, so that a read in the middle of a write is torn. The C
programs read the segment again for each comparison and `conclusion.c` once
more for its answer; a signal ends a Python program that waits and not a C
program, which goes on without the semaphore (`utils.c` 80). A constructor of
Conclusion's that finds nothing ends her and she may be started again. What a
killed earlier run has left behind is not modelled.

## 3. Runs

`MCSemaphore`, `SHRT_MAX = SEMVMX = 1` and `INT_MAX = 3` so that every C limit is
one step away:

| run | bounds | shows |
|---|---|---|
| `sem_objects` | two processes, two keys, two ids, drawn keys, IPC_PRIVATE, all flags and modes, initial values and assignments of 1, of 2 (out of range) and of 9 (an int has 8 values: it becomes 1), no semop; 155 000 states | `ObjectNamesItsSemaphore`, `InitialiserMayWrite`, `DrawnKeyIsFresh` |
| `sem_threads` | two threads of one process, one semaphore, two keys, `acquire` and `release` of 0 (refused) and 1, `Z` and `with`, timeouts (`with` waits without), a value of 1, block, undo, mode and owner assigned at any time; fairness; 204 000 states | `TypeOK`, `OneProcessKeepsModes`, `BusyOnlyWhenAsked`, `ImplementsPermits`, `TimedCallsReturn`, `KeyDrawEnds` |
| `sem_creat_initial` | violation | `InitialValueNeedsBothFlags`, section 6 |

`MCSemaphoreLock`, one key, one semaphore (the recipe removes none), the new
semaphore holds 0 or 1 when SETVAL finds it:

| run | bounds | shows |
|---|---|---|
| `lock` | four processes, crashes, restarts and signals, with undo; fairness; 17 800 states | `MutualExclusion`, `OnePermit`, `ImplementsLock`, `RecipeEnds` where nobody crashes, `EveryoneEnters` |

`MCSharedMemory`:

| run | bounds | shows |
|---|---|---|
| `shm_objects` | two objects of one process that pairs attach with detach, two segments, two addresses, read-only attachments; another process removes by id and ends; 358 000 states | `AttachedIsMapped`, `AttachedKeepsWorking`, `MappingsAreOwned`, `WritesAreAllowed`, `ImplementsSegments` |
| `shm_bounds` | two processes, one segment of one or two bytes where one is asked for, `PAGE_SIZE` 1, unsigned long 0 to 5, `LONG_MAX` 2, offsets -1 to 1, counts that are negative, zero and too large, mode taken away meanwhile; 264 000 states | `TypeOK`, `CopiesInBounds`, `InitCharacterFills`, `FillKeepsOwnData` |
| `shm_attach_key` | violation | `AttachSetsKey`, section 6 |

`MCMessageQueue`, `MCMqDemo`, `MCSemShmDemo`:

| run | bounds | shows |
|---|---|---|
| `mq` | two processes, two queues one after the other, under the same key or another, each of two bytes or two messages, texts of one and two bytes, objects that allow one or two, types -1, 1, 2, receive of the first or the lowest up to 2, a capacity that shrinks to 1 by an assignment that wraps and one of -1, which is refused as too large, signals, memory that runs out, a key that wraps; 639 000 states | `TypeOK`, `ObjectNamesItsQueue`, `StuckOnlyBehindLargerObject`, `ImplementsMailbox` |
| `mq_demo` | one or two iterations, a queue that holds one message, signals, memory that runs out, cleanup at any time; fairness; 3 400 states | `NobodyWaitsToSend`, `OneMessage`, `ImplementsConversation`, `RemovalEndsPrograms`, `ConversationGoesOn` |
| `mq_demo_alarm` | violation, nothing goes wrong | `NoCorruption`, section 6 |
| `shm_demo` | one to three iterations, all four combinations of languages, with and without the semaphore, signals to Python programs; fairness; 6 800 states | `NoCorruption`, `RemovedOnlyAtTheEnd`, `TakeTurns`, `ImplementsConversation`, `ConversationEnds` |
| `shm_demo_signal` | violation, signals to C programs too | `NoCorruption`, section 6 |

SHM_REMAP is off in the runs, because `AttachedIsMapped` and `CopiesInBounds`
are false with it (section 6). The runs without undo are left to the theorems of
section 5, which hold with and without it, and timeouts of zero and the platforms
without `semtimedop` to `BusyCorrect`. One segment is enough where nothing is
made anew under an old key; the copies are as long as it takes to cross a
boundary (of the segment, of `LONG_MAX`, of unsigned long) from both sides. Two
queues one after the other show that nothing goes astray between a queue that was
removed and the one made anew under its key. In the demos three iterations let
each program find what it wrote itself, an answer and an answer to its answer,
and the theorems hold for any number.

Symmetry is used where the members of a set are exchangeable and no property of
the run is about liveness: processes (`sem_objects`, `mq`), the
places to attach at and the objects of one process (`shm_objects`), processes
together with the one object each has (`shm_bounds`). `mq` counts states by the
view `Ahead`, which leaves out how the last call of an idle thread ended: no
guard reads it, and the action properties see it in the step that ends the
call. That the results have their types is also a theorem (`TypeCorrect`).

Why the other bounds are enough. Two processes are what each of the properties of
`Semaphore` relates; two ids let a semaphore be removed and made anew under the
same key; one key more than there are semaphores lets key drawing collide and
still end. In the lock a creator, an opener, one inside and one waiting need
four. Processes are interchangeable and the runs of safety properties say so
(`SYMMETRY`); those with liveness properties use none.

The runs of the demos turn deadlock detection off, because their programs end;
in every reachable state of the others something can happen.

Every property has a mutant in `PROJECT.json`: a variant of one definition, as
a plausible slip in the code would have it, under which TLC finds that property
violated. The variants stand beside the definitions they replace.

## 4. Fairness

- `FairSpec`: `WF(TimeOut(t))`, because `semtimedop` is the kernel's timer;
  `WF(TryRandomKey(t))`, because that action is the turn of the loop that finds
  a key not in use (or another error). With more keys than semaphores there
  always is one, and `rand()` coming upon it is what the code relies on.
- `FairLockSpec`: weak fairness of the statements of the recipe and of leaving
  the block: the processes run. Whether a process enters again is its affair, so
  `Enter` has none. Strong fairness of `Proceed`, a call under way taking its
  next step: a process that has put its arguments together calls `semop`, and the
  kernel queues waiting operations and serves them in order, so a waiter that can
  be served again and again is served. A creator that ends before its release
  leaves the others polling for ever, so `RecipeEnds` is about behaviours in which
  nobody ends before its time (`NobodyCrashes`).
- `FairDemoSpec` of `MqDemo`: weak fairness of the programs' statements, except
  the first, since nobody need start a program. Strong fairness of `Proceed`,
  the system call of `send` or `receive`: a program that receives its own
  message and puts it back may do so any number of times, and the other, which
  waits, gets one in the end because Linux hands a new message to the receivers
  that have waited longest.
- `FairSpec` of `SemShmDemo`: the same, with strong fairness of `Acquire`,
  because a release hands the permit to the operation at the head of the
  kernel's queue. Without it `release(); acquire()` at once would starve the
  other (the comment of `premise.py` 40 warns of it).

## 5. Theorems

None of these has a bound on processes, threads, objects, keys, messages or
iterations. In `SemaphoreProofs`, from `ConstantsAssumption` alone (ranges of
the constants and the order of the C limits):

- `TypeCorrect`: `Spec => []TypeOK`. The interesting part is that no sequence of
  operations, SETVALs and exits takes a value or an undo entry out of range;
  `CompleteType` is the lemma, from the guards of the kernel's `OutOfRange`.
- `NamesCorrect`: `Spec => []ObjectNamesItsSemaphore`. The invariant is inductive
  once it says that keys lead to live semaphores, no two to the same one
  (`KeysNameLiveSemaphores`), and that the promise holds of a constructor
  between its two calls as well. Most steps neither allocate, remove nor make
  objects (`Quiet`); semget, SETVAL, removal and exit have lemmas of their own.
- `MayWriteCorrect`: `Spec => InitialiserMayWrite`, from what semget checks and
  creates (`SemgetMayWrite`) and because a step only changes the call of its own
  thread (`OthersKeepTheirCalls`).
- `DrawnKeyCorrect`: `Spec => DrawnKeyIsFresh`, from the invariant that a thread
  in the key loop always asks for CREX (`DrawsExclusively`), which rests on the
  flag check for `key=None`.

- `BusyCorrect`: `Spec => BusyOnlyWhenAsked`, with `semtimedop` and without. Only a
  thread's own steps change its call (`OthersKeepTheirCalls`); of these only
  `Semop` and `TimeOut` come back with BusyError (`BusySources`), `Semop` only if
  it is not `Patient`, and the `block` it goes by is the object's when the method
  was called (`EntersWithBlock`).
- `ModesCorrect`: `Spec => OneProcessKeepsModes`. Between IPC_STAT and IPC_SET a
  thread holds the GIL, so no other of its process can be in there as well
  (`HoldersAreAlone`), and what it read is still the mode unless another process
  changed it.
- `PermitsImplemented`: `Spec => ImplementsPermits`. Each action has a lemma that
  says which step of `Permits` it is: an operation whose arguments have been put
  together is `Ask`, with the options of that moment (`GoingIntoSemopIsAsk`); a
  `semop` that succeeds at once or after a wait is `Change` by all that was asked
  for, one that blocks is `Wait`, SETVAL is `Assign`, the end of a process
  `Vanish`; whatever raises is `Other`, which changes no permit. That other
  processes' options stay as they are (`ThreadKeepsOthers`) is part of every step.
  The invariant it adds to the types is
  `NothingOwedToAbsent`: no undo entry outlives its semaphore or comes before it,
  so an id that is given out starts with nobody owing it anything.
- `ReleaseOfTheLeastShort`, `ValueWraps`: what two conversions do to the least
  short and to a value that does not fit an int (section 6).

In `SemaphoreLockProofs`, from `ConstantsAssumption` and `LockAssumption` (one
thread per process, a proper key, SEMVMX at least 1):

- `MutualExclusionHolds`, `OnePermitHolds` and `LockImplemented`. Mutual
  exclusion alone is not inductive: the proof has to know who may still change
  the value. `LockInv` adds that a call under way is the one creator's SETVAL or
  release, or what `__enter__` or `__exit__` asks of `semop` (`CallInv`); that there
  is at most one creator until its release takes effect, and that it finds 0
  (`CreatorInv`); that whoever has
  passed the recipe knows a semaphore with `sem_otime` set (`KernelInv`); that
  objects lead to that semaphore and have `undo` set when they should
  (`HandleInv`); that the kernel owes one permit to who is inside or leaving, and
  nothing to anyone else (`UndoInv`); that the value is at most 1, and 0 while
  someone is there (`PermitInv`), and nobody else is (`OneHolder`). Each action has a lemma that says two things: the
  invariant holds again, and what the step is to `Lock` (`Set`, `Acquire`,
  `Release`, `Die`, or nothing). Refinement is the second half put together, and
  `OnePermit` follows from it with `Kept`: no step but a death inside without
  undo makes the permit vanish.

In `SharedMemoryProofs`, from `SharedMemoryAssumption`, and, where `Spec` is
named, `NoRemap` (no caller passes SHM_REMAP, see section 6):

- `ReadInBounds`, `WriteInBounds`: the arithmetic of the two size checks, for
  every width of unsigned long, stays inside the segment. A negative offset has
  become a large one by then (`ULong`), and the difference the code takes never
  wraps because the offset has been compared first.
- `NoOverrun` (`CopiesInBounds`), `NoFault` (`WritesAreAllowed`),
  `ObjectsTellTheTruth` (`AttachedIsMapped`), `RemovalDoesNotDisturb`
  (`AttachedKeepsWorking`) and `TypeCorrect`, all from one inductive invariant,
  `Inv`. A copy under way has no check left to run, so the invariant carries
  what the checks established: the object is still attached, still writable if
  it is written, and what is left to copy is inside its segment (`CallOK`). That
  is stable because only the process itself changes its objects (`OwnStep`), a
  mapping keeps a removed segment in the kernel (`MappedExist`, `RemoveStep`,
  `ReapKeeps`), and a segment never changes its size. There is one lemma per
  action; `NextInv` puts them together.
- `NothingLeaks`: `MappingsAreOwned` for callers who pair attach with detach,
  if nobody assigns permissions (`PermissionsStay`). On top of `Inv` it needs
  that a constructor on its way to memset may read its segment's record
  (`FillReadable`); otherwise it raises with the segment mapped (section 6).
- `ConstructorsFill` (`InitCharacterFills`) and `FillsKeepOwnData`
  (`FillKeepsOwnData`), if the names of contents are not those of processes
  (`ContentsApart`), from `Inv` and `FillInv`: ids not yet given out hold zeros,
  the segment of a process that is filling has no byte of its own
  (it was made by its own shmget, and the GIL keeps its other threads out), and
  what is no longer to be filled is not as the kernel left it. `OnlyOwnSteps`
  and `OnlyCopiesWrite` say who moves a constructor on and who writes.

In `SegmentsProofs`, from the same:

- `SegmentsImplemented`: `Spec => ImplementsSegments`, if every process is careful
  (`AllCareful`), nobody passes SHM_REMAP or assigns permissions, and contents
  are told from processes. The heart of it is `InUseIsMapped`: a segment is
  mapped somewhere exactly when an object is attached to it, one way because what
  is mapped is owned (`NothingLeaks`), the other because objects tell the truth.
  So what the kernel reaps is what nobody is attached to (`DetachDetaches`), and
  IPC_RMID destroys at once only what nobody is attached to (`RemoveIsRemove`).
  `MarkedMapped`, the kernel keeps no removed segment that nothing maps, is the
  invariant behind `AttachedAttaches`: an attachment reaps nothing.
  `CopyByteStep` takes from `Inv` that a copy is in the segment of an object
  attached for writing, and from `FillInv` in whose name it writes.
  The assumptions cannot go. With SHM_REMAP or a caller that attaches twice an
  object's address comes to mean another segment, and an object that is dropped
  attached keeps its segment in the kernel (`dealloc` detaches nothing); with
  permissions taken away between shmat and IPC_STAT the constructor does just
  that (section 6).

In `MessageQueueProofs`, from `KeysAssumption` and `MessageQueueAssumption`:

- `TypeCorrect`. What is hard is that the message that `msgrcv` takes, a place
  found by quantification over the queue, is a message (`IsNext`, `Get`).
- `NamesCorrect`: `Spec => []ObjectNamesItsQueue`, along the lines of the one for
  semaphores but with keys as integers, so that narrowing is part of it.
- `LimitsCorrect`: no message on a queue or on its way is longer than the
  `max_message_size` of its sender. From it `StuckCorrect`: a receive that has
  no room for a message finds one whose sender allowed more.
- `MailboxImplemented`: `Spec => ImplementsMailbox`. Each action has a lemma that
  says which step of `Mailbox` it is: `Ask` when the arguments are copied,
  `Post` or `Take` when the call takes effect, `Lose` when it ends with MemoryError
  after that, `Discard` for removal,
  `Vanish` for an exit, `Other` or nothing for everything else. That `IsNext`
  leaves no older message of the same type behind (`MayTake`) is the order of
  types.
- `KeyWraps`: the arithmetic of section 6.

In `SemShmDemoProofs`, from `SemShmAssumption` and that no signal reaches a C
program (without it the theorems are false, section 6):

- `NoCorruptionHolds`, `RemovedOnlyAtTheEndHolds`, `TakeTurnsHolds` and
  `ConversationHolds`, from one inductive invariant, `DemoInv`. That nobody reads a torn text needs to know
  whose turn it is (`TurnInv`: one of the two has it, and the value of the
  semaphore is 1 exactly if nobody does); what a text ought to be needs to know
  how far both have come (`CountInv`: Conclusion is level with Premise or one
  ahead; `Number`: the texts are numbered through), who spoke last
  (`SpeakerInv`), and that each half of the segment that is not being written,
  and each half that has been read, is that text (`TextInv`). That Premise
  removes nothing too early comes from the counters: she ends with `i` at its
  limit, Conclusion is then at hers, and may have only a release left; as long as
  that is to come it is her turn and Premise's last acquire waits. Each action
  has a lemma; `Heard` is where a message is found right, `CarefulStep` puts them
  together and says what each step is to `Conversation`.

In `MqDemoProofs`, from `DemoAssumption`, the assumptions of `MessageQueue` and
`RoomForOne` (any one text fits on an empty queue; without it a program waits to
send for ever):

- `NeverWaits`, `MessagesCorrect` and `QueueConversationHolds`, for every
  `ITERATIONS` and every size of texts and queues, with all faults, signals and
  removals, from one inductive invariant, `DemoInv`: there is one message, on the
  queue or in the hands of one program, and its text is what was said last
  (`TokenInv`); what has been said follows from the loop counters (`TalkInv`,
  which also holds that conclusion.py replies once); and each program calls only
  what its statement calls, on the one queue there is (`Placed`, `QueueInv`).
  `QuietStep` is every step that at most loses the message.
- `OneMessageHolds`: the message is not lost either, as long as the queue is there
  and no call of a program has failed. `DemoInv` only says that there is at most
  one, which memory that runs out in `receive` leaves true, so this needs an
  invariant of its own, `KeptInv`: once the first program has begun, the message
  is on the queue or with a program that has not failed (`Fine`). Signals, and
  programs that take back their own message, do not disturb it.

Only model-checked: the liveness properties and everything under fairness
(TLAPS has no support for ENABLED).

## 6. Where code and documents part

Runs that find a violation:

1. `InitialValueNeedsBothFlags`. `semaphore.c` 495 tests `flags & IPC_CREX`,
   which is true for `IPC_CREAT` alone; `Semaphore(key, IPC_CREAT)` of an
   existing semaphore sets its value, also while others hold or wait for it: in
   the run it was there before the constructor called `semget`. `USAGE.md` 127
   says `initial_value` is ignored unless both flags are given; `memory.c` 421
   tests for equality.
2. `AttachSetsKey`. `sysv_ipc_module.c` 101 makes the object of `attach(id)`
   with `PyObject_New`, so no constructor fills it in; line 70 promises a key of
   -1 and no line sets one.
3. `NoCorruption` with signals to C programs. `utils.c` 80 reports that `semop`
   failed and returns 0 all the same, so the program goes on without the
   semaphore, and may read a text while it is written. `ReadMe.txt` 29-31 says
   that they never find their messages corrupted.
4. `NoCorruption` of `MqDemo`. `demos/message_queues/conclusion.py` 37 asserts
   `s + 'x' == md5(...)`, which no digest satisfies: at the second message she
   receives Conclusion reports corruption and ends, and the message is the right
   one. Premise finds the queue empty and waits in `receive()` for ever.
   `message_queues/ReadMe.txt` 28-31 says that neither will ever find a message
   corrupted. Theorem `MessagesCorrect` shows that every alarm is of this kind and
   that premise.py raises none.

Theorems that say what the code does where a document says otherwise:

5. `ReleaseOfTheLeastShort`. `abs(-32768)` does not fit the `short` it is stored
   in: `release(-32768)` waits instead of adding (`USAGE.md` 153).
6. `ValueWraps`. `semaphore.c` 608 narrows a long to an int before the kernel
   looks at its range; `2**32 + 1` is assigned as 1 (`history.md` 208).
7. `KeyWraps`. `common.c` 70 narrows a long to an int: the key `2**32 + 42` opens
   the queue of 42, and `2**32` makes a private one. `common.h` takes `LONG_MAX`
   for the limit of a key.

Found on reading, and shown by no run:

- With SHM_REMAP in `AttachFlags` TLC finds `CopiesInBounds` violated: `read()`
  takes the size of the segment it was made for (`memory.c` 526) and reads at its
  address, where another object may have remapped another segment or since have
  unmapped it, while `USAGE.md` 311 says `read()` never attempts to read past the
  end.
- With two processes and `"mode"` in `Settable` TLC finds `MappingsAreOwned`
  violated: permissions that are taken away between `shmat` and IPC_STAT make
  the constructor raise (`memory.c` 426), and the segment stays mapped with no
  object to detach it. No document speaks of it.
- `USAGE.md` 299 says that unpaired attachments keep a segment attached after the
  process exits; the kernel detaches them (`ExitProcess`).
- `common.c` 56-80: a key that no long holds raises ValueError and, because `rc`
  is 0, TypeError over it. The model returns the second.
- `mq.c` 431-520: `send()` releases its `Py_buffer` on every way out, also if
  parsing the arguments has not filled it in. The model starts with parsed
  arguments.
- `premise.c` 164-169 worries that Conclusion may not get her last turn; with the
  semaphore she does, however short the pause (`RemovedOnlyAtTheEnd`).
- The C and the Python Premise make the semaphore and the segment in opposite
  orders; a Conclusion that comes in between ends and does no harm.

## 7. Plan

What is left, in this order:

1. Which of the assumptions of section 5 that are about callers (`NoRemap`,
   `AllCareful`, one thread per process in the lock) can be weakened, process by
   process: what careful processes keep in the company of others.
2. The buffer protocol of `SharedMemory`: views that outlive `detach()` and
   ignore `read_only`, for callers who release them in time.
3. `undo` that changes between acquire and release in the lock.
4. What killed runs of the demos leave behind (EEXIST at the next start).

## 8. Not modelled

- The buffer protocol (`memory.c` 262-286): a view is an address and a size that
  nothing ties to the attachment, so what it reads after `detach()` is whatever
  the process maps there; no document says what ought to happen.
- `semaphore_context_manager`: a parent that sleeps so that its child comes
  first, and says itself that the child may starve; the `with` block of the child
  is in `Semaphore` and `SemaphoreLock`. `buffer_protocol`: one process that uses
  that protocol once.
- Who owns an object (uid and gid as values), conversion of Python arguments,
  time stamps and pids, texts of errors, `ftok` (no state).
- `md5.c`: third party; a digest is a function that tells texts apart.
- Build support: its results are the constants `SEMTIMEDOP_EXISTS` and `SEMVMX`.
  Tests and extras: read for what they expect.
