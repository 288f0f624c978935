---------------------------- MODULE SharedMemory ----------------------------
(***************************************************************************)
(* The SharedMemory class of sysv_ipc (src/src/memory.c) and the module's  *)
(* attach() and remove_shared_memory(), as several processes call them,    *)
(* above the kernel's segments and address spaces.  Every system call is a *)
(* step, and every byte that memset, memcpy or a read touches is one, in   *)
(* any order.  memory.c never releases the GIL, so the threads of one      *)
(* process run their methods one after the other and a process stands for  *)
(* all its threads; other processes run in between any two steps.          *)
(***************************************************************************)
EXTENDS Integers

CONSTANTS
  Procs,              \* processes that have imported the module
  Objects,            \* Python variables that may hold a SharedMemory object
  ProcOf,             \* the process of each variable
  Keys,               \* key_t values, IPC_PRIVATE included
  IPC_PRIVATE,        \* the key that never names a segment
  None,               \* key=None, and "no object" and "no byte"
  MaxSegs,            \* the kernel hands out at most this many ids (SHMMNI)
  SHMMAX,             \* largest size of a segment
  PAGE_SIZE,
  RoundsUp,           \* whether the kernel may make a segment larger than asked
  Addresses,          \* places in an address space, each free or one segment's
  NULL,               \* the null pointer
  ULONG_MAX, LONG_MAX, PY_STRING_LENGTH_MAX,
  Sizes, Offsets,     \* integers a caller passes as size and offset
  ByteCounts,         \* integers a caller passes as byte_count
  Lengths,            \* lengths of what a caller writes
  Modes,              \* permissions a caller passes or assigns
  AttachFlags,        \* flags a caller passes to attach()
  Settable,           \* which of mode and owner callers assign
  Careful             \* processes whose callers pair attach with detach

ASSUME SharedMemoryAssumption ==
  /\ ProcOf \in [Objects -> Procs]
  /\ IPC_PRIVATE \in Keys /\ None \notin Keys \union Objects
  /\ MaxSegs \in Nat \ {0} /\ SHMMAX \in Nat \ {0}
  /\ PAGE_SIZE \in 1..SHMMAX
  /\ RoundsUp \in BOOLEAN /\ Careful \subseteq Procs
  /\ NULL \notin Addresses
  /\ LONG_MAX \in Nat /\ ULONG_MAX = 2 * LONG_MAX + 1
  /\ SHMMAX <= ULONG_MAX /\ PY_STRING_LENGTH_MAX \in 1..LONG_MAX
  /\ Sizes \subseteq Int /\ Offsets \subseteq Int
  /\ ByteCounts \subseteq -(LONG_MAX + 1)..LONG_MAX
  /\ Lengths \subseteq 0..LONG_MAX
  /\ Modes \subseteq SUBSET {"r", "w"}
  /\ AttachFlags \subseteq SUBSET {"RDONLY", "REMAP"}
  /\ Settable \subseteq {"mode", "owner"}

VARIABLES
  idOf,      \* kernel: the id a key names, or NoId
  status,    \* kernel: "unused", "live", "marked" for destruction or "gone"
  size,      \* kernel: shm_segsz, per id
  mode,      \* kernel: what the segment's permissions let its users do
  bytes,     \* kernel: the contents, per id and offset, as who put them there
  maps,      \* kernel: what is mapped where, per process and address
  obj,       \* the SharedMemory object in each variable, or NoObject
  call       \* what each process is doing, or how its last call ended

segment == <<idOf, status, size, mode>>
vars    == <<idOf, status, size, mode, bytes, maps, obj, call>>

Ids  == 1..MaxSegs
NoId == 0

CREX  == {"CREAT", "EXCL"}
Flags == SUBSET CREX

NoObject == [key |-> None, id |-> NoId, address |-> NULL, read_only |-> FALSE]
NoMap    == [id |-> NoId, rdonly |-> FALSE]

Positions == 0..SHMMAX - 1

----------------------------------------------------------------------------
(* The arithmetic of read and write.                                       *)

\* Conversion of a Python int, or of a C difference, to unsigned long.
ULong(n) == n % (ULONG_MAX + 1)

\* Variant of ReadsToEnd: a byte_count that is too large is left as it is.
ReadsToEndIfAsked(n, offset, sz) == n = 0

\* What read() makes of byte_count.
ReadsToEnd(n, offset, sz) == n = 0 \/ n > ULong(sz - offset)

ReadCount(n, offset, sz) ==
  IF ReadsToEnd(n, offset, sz) THEN ULong(sz - offset) ELSE n

\* Reading to the end would take more than a Python bytes object holds.
ReadTooLong(n, offset, sz) ==
  ReadsToEnd(n, offset, sz) /\ ULong(sz - offset) > PY_STRING_LENGTH_MAX

\* Variant of WriteFits: the sum instead of the difference.
WriteFitsBySum(len, offset, sz) == ULong(offset + len) <= sz

WriteFits(len, offset, sz) ==
  ~(offset > sz) /\ ~(len > ULong(sz - offset))

\* The positions a copy of len bytes touches.
Extent(offset, len) == offset..offset + len - 1

----------------------------------------------------------------------------
(* How calls begin and end.                                                *)

CanCall(o) == call[ProcOf[o]].pc = "idle"

\* A method call needs an object to call it on.
CanUse(o) == CanCall(o) /\ obj[o] # NoObject

\* A call of process p, on object o or on none, ends.
Finish(p, o, result) ==
  call' = [call EXCEPT ![p] = [pc |-> "idle", obj |-> o, res |-> result]]

Return(o, result) == Finish(ProcOf[o], o, result)

Fail(o, result) ==
  Return(o, result) /\ UNCHANGED <<segment, bytes, maps, obj>>

\* Go on to copy byte, or to read if byte is None, at the given positions of
\* what is mapped at the object's address.
Copying(o, positions, byte) ==
  IF positions = {}
  THEN Return(o, "ok")
  ELSE call' = [call EXCEPT ![ProcOf[o]] =
                  [pc |-> "copy", obj |-> o, todo |-> positions, byte |-> byte]]

----------------------------------------------------------------------------
(* Attaching and detaching.                                                *)

Exists(i) == i \in Ids /\ status[i] \in {"live", "marked"}

\* A segment marked for destruction goes when nothing maps it any more.
Mapped(i, ms) == \E p \in Procs, a \in Addresses : ms[p][a].id = i

Reap(ms) ==
  status' = [i \in Ids |-> IF status[i] = "marked" /\ ~Mapped(i, ms)
                           THEN "gone" ELSE status[i]]

\* Where shmat may put a segment.
Places(p, at, flags) ==
  LET free == {a \in Addresses : maps[p][a] = NoMap}
  IN  IF "REMAP" \in flags THEN {at} \ {NULL}
      ELSE IF at = NULL THEN free ELSE free \intersect {at}

ShmatErrno(p, i, at, flags) ==
  IF ~Exists(i)                                                 THEN "EINVAL"
  ELSE IF ~(({"r", "w"} \ (IF "RDONLY" \in flags THEN {"w"} ELSE {}))
             \subseteq mode[i])                                 THEN "EACCES"
  ELSE IF Places(p, at, flags) # {}                             THEN "none"
  ELSE IF at = NULL /\ "REMAP" \notin flags THEN "ENOMEM" ELSE "EINVAL"

\* The exception shm_attach raises for each errno.
AttachError == [EACCES |-> "Permissions", ENOMEM |-> "Memory", EINVAL |-> "Value"]

\* Variant of OnAttach: read_only keeps its value.
OnAttachKeepsReadOnly(self, a, flags) == [self EXCEPT !.address = a]

\* What a successful shmat leaves in the object: an address it already had is
\* overwritten, and what it mapped stays mapped.
OnAttach(self, a, flags) ==
  [self EXCEPT !.address = a, !.read_only = "RDONLY" \in flags]

\* Variant of OnAttachFailure: the object keeps what shmat returned, (void *)-1.
OnAttachFailureKeepsResult(self) ==
  [self EXCEPT !.address = CHOOSE a \in Addresses : TRUE]

OnAttachFailure(self) == [self EXCEPT !.address = NULL]

Attached(o, self, at, flags) ==
  LET p == ProcOf[o]
  IN  /\ ShmatErrno(p, self.id, at, flags) = "none"
      /\ \E a \in Places(p, at, flags) :
           /\ maps' = [maps EXCEPT ![p][a] =
                         [id |-> self.id, rdonly |-> "RDONLY" \in flags]]
           /\ obj' = [obj EXCEPT ![o] = OnAttach(self, a, flags)]
      /\ Reap(maps')
      /\ UNCHANGED <<idOf, size, mode, bytes>>

SharedMemory_attach(o, at, flags) ==
  /\ CanUse(o)
  /\ ProcOf[o] \in Careful => obj[o].address = NULL
  /\ \/ Attached(o, obj[o], at, flags) /\ Return(o, "ok")
     \/ LET errno == ShmatErrno(ProcOf[o], obj[o].id, at, flags)
        IN  /\ errno # "none"
            /\ obj' = [obj EXCEPT ![o] = OnAttachFailure(obj[o])]
            /\ Return(o, AttachError[errno])
            /\ UNCHANGED <<segment, bytes, maps>>

\* attach(id): an object that no constructor has filled in, whose key is what
\* its memory held before.
sysv_ipc_attach(o, i, at, flags) ==
  /\ CanCall(o) /\ obj[o] = NoObject
  /\ \/ /\ \E k \in Keys \union {"-1"} :
             Attached(o, [key |-> k, id |-> i, address |-> NULL, read_only |-> FALSE],
                      at, flags)
        /\ Return(o, "attached")
     \/ LET errno == ShmatErrno(ProcOf[o], i, at, flags)
        IN  errno # "none" /\ Fail(o, AttachError[errno])

\* Variants of SharedMemory_detach: the object keeps its address; the object
\* forgets the address without a call of shmdt.
DetachKeepsAddress(o) ==
  LET p == ProcOf[o]
      a == obj[o].address
  IN  /\ CanUse(o)
      /\ IF a = NULL
         THEN Fail(o, "NotAttached")
         ELSE /\ maps' = [maps EXCEPT ![p][a] = NoMap]
              /\ Return(o, "ok") /\ UNCHANGED obj
              /\ Reap(maps') /\ UNCHANGED <<idOf, size, mode, bytes>>

DetachForgets(o) ==
  /\ CanUse(o)
  /\ obj' = [obj EXCEPT ![o].address = NULL]
  /\ Return(o, IF obj[o].address = NULL THEN "NotAttached" ELSE "ok")
  /\ UNCHANGED <<segment, bytes, maps>>

\* The address goes whether or not shmdt finds something there.
SharedMemory_detach(o) ==
  LET p == ProcOf[o]
      a == obj[o].address
      found == a # NULL /\ maps[p][a] # NoMap
  IN  /\ CanUse(o)
      /\ maps' = IF found THEN [maps EXCEPT ![p][a] = NoMap] ELSE maps
      /\ obj' = [obj EXCEPT ![o].address = NULL]
      /\ Return(o, IF found THEN "ok" ELSE "NotAttached")
      /\ Reap(maps')
      /\ UNCHANGED <<idOf, size, mode, bytes>>

----------------------------------------------------------------------------
(* The constructor: shmget, shmat, and IPC_STAT with memset.               *)

ShmgetErrno(k, flags, m, sz) ==
  IF idOf[k] # NoId
  THEN IF flags = CREX                           THEN "EEXIST"
       ELSE IF sz > size[idOf[k]]                THEN "EINVAL"
       ELSE IF ~(m \subseteq mode[idOf[k]])      THEN "EACCES" ELSE "none"
  ELSE IF k # IPC_PRIVATE /\ "CREAT" \notin flags THEN "ENOENT"
       ELSE IF sz \notin 1..SHMMAX                THEN "EINVAL"
       ELSE IF \A i \in Ids : status[i] # "unused" THEN "ENOSPC" ELSE "none"

\* The exception the constructor raises for each errno.
InitError ==
  [EACCES |-> "Permissions", EEXIST |-> "Existential", ENOENT |-> "Existential",
   EINVAL |-> "Value", ENOSPC |-> "OSError"]

\* The kernel's part of creating a segment: zeros.
Allocate(k, i, m, sz) ==
  /\ status[i] = "unused" /\ \A j \in 1..i - 1 : status[j] # "unused"
  /\ idOf' = IF k = IPC_PRIVATE THEN idOf ELSE [idOf EXCEPT ![k] = i]
  /\ status' = [status EXCEPT ![i] = "live"]
  /\ \E s \in IF RoundsUp THEN sz..SHMMAX ELSE {sz} : size' = [size EXCEPT ![i] = s]
  /\ mode' = [mode EXCEPT ![i] = m]

\* shmget has returned: the object knows its segment and goes on to shmat.
Obtained(o, k, i, flags, m) ==
  /\ obj' = [obj EXCEPT ![o] = [key |-> k, id |-> i, address |-> NULL, read_only |-> FALSE]]
  /\ call' = [call EXCEPT ![ProcOf[o]] =
                [pc |-> "shmat", obj |-> o, flags |-> flags, mode |-> m]]
  /\ UNCHANGED <<bytes, maps>>

Shmget(o, k, flags, m, sz) ==
  LET errno == ShmgetErrno(k, flags, m, sz)
  IN  \/ errno # "none" /\ Fail(o, InitError[errno])
      \/ /\ errno = "none" /\ idOf[k] # NoId
         /\ Obtained(o, k, idOf[k], flags, m) /\ UNCHANGED segment
      \/ /\ errno = "none" /\ idOf[k] = NoId
         /\ \E i \in Ids : Allocate(k, i, m, sz) /\ Obtained(o, k, i, flags, m)

BadFlags(k, flags) ==
  \/ "CREAT" \notin flags /\ "EXCL" \in flags
  \/ k = None /\ "EXCL" \notin flags

\* The default size of a new segment.
AskedSize(flags, sz) ==
  IF flags = CREX /\ ULong(sz) = 0 THEN PAGE_SIZE ELSE ULong(sz)

\* With key=None the loop draws keys until one is free.
SharedMemory_init(o, k, flags, m, sz) ==
  /\ CanCall(o) /\ obj[o] = NoObject
  /\ IF BadFlags(k, flags)
     THEN Fail(o, "Value")
     ELSE \E key \in IF k = None THEN {f \in Keys \ {IPC_PRIVATE} : idOf[f] = NoId} ELSE {k} :
            Shmget(o, key, flags, m, AskedSize(flags, sz))

\* Variant of Fills: one flag is enough.
FillsAnyFlags(flags, m) == flags \intersect CREX # {} /\ "w" \in m

\* Whether the constructor writes init_character into the segment.
Fills(flags, m) == flags = CREX /\ "w" \in m

\* An exception in the constructor: nobody gets the object, but whatever it
\* has created or mapped remains.
Abandon(o, result) ==
  /\ obj' = [obj EXCEPT ![o] = NoObject]
  /\ Return(o, result)
  /\ UNCHANGED <<segment, bytes, maps>>

InitAttach(o) ==
  LET c == call[ProcOf[o]]
      flags == IF "w" \in c.mode THEN {} ELSE {"RDONLY"}
      errno == ShmatErrno(ProcOf[o], obj[o].id, NULL, flags)
  IN  /\ c.pc = "shmat" /\ c.obj = o
      /\ \/ errno # "none" /\ Abandon(o, AttachError[errno])
         \/ /\ Attached(o, obj[o], NULL, flags)
            /\ IF Fills(c.flags, c.mode)
               THEN call' = [call EXCEPT ![ProcOf[o]] = [pc |-> "stat", obj |-> o]]
               ELSE Return(o, "ok")

----------------------------------------------------------------------------
(* Methods and attributes.                                                 *)

StatErrno(i) ==
  IF ~Exists(i) THEN "EINVAL" ELSE IF "r" \notin mode[i] THEN "EACCES" ELSE "none"

\* The exception shm_get_value, shm_set_ipc_perm_value and shm_remove raise.
ShmctlError == [EACCES |-> "Permissions", EINVAL |-> "Existential"]

\* Variant of FillExtent: the default size instead of the segment's.
FillExtentPage(i) == Extent(0, PAGE_SIZE)

\* What memset covers: the size the kernel reports, not the one asked for.
FillExtent(i) == Extent(0, size[i])

InitFill(o) ==
  LET c == call[ProcOf[o]]
      errno == StatErrno(obj[o].id)
  IN  /\ c.pc = "stat" /\ c.obj = o
      /\ \/ errno # "none" /\ Abandon(o, ShmctlError[errno])
         \/ /\ errno = "none"
            /\ Copying(o, FillExtent(obj[o].id), "init")
            /\ UNCHANGED <<segment, bytes, maps, obj>>

SharedMemory_read(o, n, off) ==
  LET errno  == StatErrno(obj[o].id)
      sz     == size[obj[o].id]
      offset == ULong(off)
  IN  /\ CanUse(o)
      /\ IF obj[o].address = NULL                          THEN Fail(o, "NotAttached")
         ELSE IF errno # "none"                            THEN Fail(o, ShmctlError[errno])
         ELSE IF offset >= sz \/ n < 0 \/ ReadTooLong(n, offset, sz)
                                                           THEN Fail(o, "Value")
         ELSE /\ Copying(o, Extent(offset, ReadCount(n, offset, sz)), None)
              /\ UNCHANGED <<segment, bytes, maps, obj>>

SharedMemory_write(o, len, off) ==
  LET errno  == StatErrno(obj[o].id)
      offset == ULong(off)
  IN  /\ CanUse(o)
      /\ IF obj[o].read_only                               THEN Fail(o, "OSError")
         ELSE IF obj[o].address = NULL                     THEN Fail(o, "NotAttached")
         ELSE IF errno # "none"                            THEN Fail(o, ShmctlError[errno])
         ELSE IF ~WriteFits(len, offset, size[obj[o].id])  THEN Fail(o, "Value")
         ELSE /\ Copying(o, Extent(offset, len), ProcOf[o])
              /\ UNCHANGED <<segment, bytes, maps, obj>>

\* memset, memcpy and PyBytes_FromStringAndSize touch their bytes one by one.
\* What is mapped at the address decides where they end up.
CopyByte(o) ==
  LET c == call[ProcOf[o]]
      i == maps[ProcOf[o]][obj[o].address].id
  IN  /\ c.pc = "copy" /\ c.obj = o
      /\ \E n \in c.todo :
           /\ Copying(o, c.todo \ {n}, c.byte)
           /\ bytes' = IF c.byte = None THEN bytes ELSE [bytes EXCEPT ![i][n] = c.byte]
      /\ UNCHANGED <<segment, maps, obj>>

\* The attributes that read the kernel's record.
shm_get_value(o) ==
  LET errno == StatErrno(obj[o].id)
  IN  CanUse(o) /\ Fail(o, IF errno = "none" THEN "ok" ELSE ShmctlError[errno])

\* Assignment to mode, uid or gid reads the whole record and writes it back.
shm_set_ipc_perm_value(o, field, m) ==
  LET errno == StatErrno(obj[o].id)
  IN  /\ CanUse(o) /\ field \in Settable
      /\ IF errno # "none"
         THEN Fail(o, ShmctlError[errno])
         ELSE /\ call' = [call EXCEPT ![ProcOf[o]] =
                   [pc |-> "ipcset", obj |-> o,
                    mode |-> IF field = "mode" THEN m ELSE mode[obj[o].id]]]
              /\ UNCHANGED <<segment, bytes, maps, obj>>

IpcSet(o) ==
  LET c == call[ProcOf[o]]
      i == obj[o].id
  IN  /\ c.pc = "ipcset" /\ c.obj = o
      /\ IF Exists(i)
         THEN /\ mode' = [mode EXCEPT ![i] = c.mode]
              /\ Return(o, "ok")
              /\ UNCHANGED <<idOf, status, size, bytes, maps, obj>>
         ELSE Fail(o, "Existential")

\* IPC_RMID frees the key at once and the segment when nothing maps it.
shm_remove(p, o, i) ==
  /\ UNCHANGED <<size, mode, bytes, maps, obj>>
  /\ IF Exists(i)
     THEN /\ idOf' = [k \in Keys |-> IF idOf[k] = i THEN NoId ELSE idOf[k]]
          /\ status' = [status EXCEPT ![i] = IF Mapped(i, maps) THEN "marked" ELSE "gone"]
          /\ Finish(p, o, "ok")
     ELSE Finish(p, o, "Existential") /\ UNCHANGED <<idOf, status>>

SharedMemory_remove(o) == CanUse(o) /\ shm_remove(ProcOf[o], o, obj[o].id)

sysv_ipc_remove_shared_memory(p, i) == call[p].pc = "idle" /\ shm_remove(p, None, i)

\* The last reference to an object goes; nothing is detached.
SharedMemory_dealloc(o) ==
  /\ CanUse(o)
  /\ ProcOf[o] \in Careful => obj[o].address = NULL
  /\ obj' = [obj EXCEPT ![o] = NoObject]
  /\ Return(o, "ok")
  /\ UNCHANGED <<segment, bytes, maps>>

\* A process ends, at any point, and another takes its place.
ExitProcess(p) ==
  /\ maps' = [maps EXCEPT ![p] = [a \in Addresses |-> NoMap]]
  /\ obj' = [o \in Objects |-> IF ProcOf[o] = p THEN NoObject ELSE obj[o]]
  /\ call' = [call EXCEPT ![p] = [pc |-> "idle", obj |-> None, res |-> "ok"]]
  /\ Reap(maps')
  /\ UNCHANGED <<idOf, size, mode, bytes>>

----------------------------------------------------------------------------

Init ==
  /\ idOf = [k \in Keys |-> NoId]
  /\ status = [i \in Ids |-> "unused"]
  /\ size = [i \in Ids |-> 0]
  /\ mode = [i \in Ids |-> {}]
  /\ bytes = [i \in Ids |-> [n \in Positions |-> "zero"]]
  /\ maps = [p \in Procs |-> [a \in Addresses |-> NoMap]]
  /\ obj = [o \in Objects |-> NoObject]
  /\ call = [p \in Procs |-> [pc |-> "idle", obj |-> None, res |-> "ok"]]

ObjectStep(o) ==
  \/ \E k \in Keys \union {None}, flags \in Flags, m \in Modes, sz \in Sizes :
       SharedMemory_init(o, k, flags, m, sz)
  \/ InitAttach(o)
  \/ InitFill(o)
  \/ CopyByte(o)
  \/ \E at \in Addresses \union {NULL}, flags \in AttachFlags :
       \/ SharedMemory_attach(o, at, flags)
       \/ \E i \in Ids : sysv_ipc_attach(o, i, at, flags)
  \/ SharedMemory_detach(o)
  \/ \E n \in ByteCounts, off \in Offsets : SharedMemory_read(o, n, off)
  \/ \E len \in Lengths, off \in Offsets : SharedMemory_write(o, len, off)
  \/ shm_get_value(o)
  \/ \E field \in Settable, m \in Modes : shm_set_ipc_perm_value(o, field, m)
  \/ IpcSet(o)
  \/ SharedMemory_remove(o)
  \/ SharedMemory_dealloc(o)

ModuleStep(p) ==
  \/ \E i \in Ids : sysv_ipc_remove_shared_memory(p, i)
  \/ ExitProcess(p)

Next == (\E o \in Objects : ObjectStep(o)) \/ (\E p \in Procs : ModuleStep(p))

Spec == Init /\ [][Next]_vars

----------------------------------------------------------------------------
(* Properties.                                                             *)

Calls ==
  [pc : {"idle"}, obj : Objects \union {None},
   res : {"ok", "attached", "Value", "Existential", "Permissions", "NotAttached",
          "Memory", "OSError"}]
  \union [pc : {"shmat"}, obj : Objects, flags : Flags, mode : Modes]
  \union [pc : {"stat"}, obj : Objects]
  \union [pc : {"copy"}, obj : Objects, todo : (SUBSET Positions) \ {{}},
          byte : {"init", None} \union Procs]
  \union [pc : {"ipcset"}, obj : Objects, mode : SUBSET {"r", "w"}]

\* Type invariant; a pending copy never leaves the largest segment there is.
TypeOK ==
  /\ idOf \in [Keys -> Ids \union {NoId}]
  /\ status \in [Ids -> {"unused", "live", "marked", "gone"}]
  /\ size \in [Ids -> 0..SHMMAX]
  /\ mode \in [Ids -> SUBSET {"r", "w"}]
  /\ bytes \in [Ids -> [Positions -> {"zero", "init"} \union Procs]]
  /\ maps \in [Procs -> [Addresses -> [id : Ids, rdonly : BOOLEAN] \union {NoMap}]]
  /\ obj \in [Objects -> [key : Keys \union {"-1"}, id : Ids,
                         address : Addresses \union {NULL}, read_only : BOOLEAN]
                        \union {NoObject}]
  /\ call \in [Procs -> Calls]

\* What an object says of its attachment is what its process has mapped there:
\* its own segment, writable unless read_only, and no two objects share a
\* mapping (self->address and self->read_only of memory.c), through any
\* sequence of attach, detach, removal and failure.
AttachedIsMapped ==
  \A o \in Objects : obj[o].address # NULL =>
    /\ maps[ProcOf[o]][obj[o].address] = [id |-> obj[o].id, rdonly |-> obj[o].read_only]
    /\ \A q \in Objects :
         q # o /\ ProcOf[q] = ProcOf[o] => obj[q].address # obj[o].address

\* Reads, writes and the constructor's memset never touch a byte outside the
\* segment that is mapped at the object's address, and never one of a segment
\* that has been destroyed (the size checks of read and write).
CopiesInBounds ==
  \A p \in Procs : call[p].pc = "copy" =>
    LET a == obj[call[p].obj].address
    IN  /\ a \in Addresses /\ maps[p][a] # NoMap
        /\ Exists(maps[p][a].id)
        /\ call[p].todo \subseteq 0..size[maps[p][a].id] - 1

\* No write or memset goes to memory that is mapped read-only, where it would
\* end the process (the check of read_only in write).
WritesAreAllowed ==
  \A p \in Procs : call[p].pc = "copy" /\ call[p].byte # None =>
    ~maps[p][obj[call[p].obj].address].rdonly

\* Removal by anyone does not disturb an attached object: none of its methods
\* raises ExistentialError before it is detached (remove() in USAGE.md).
AttachedKeepsWorking ==
  \A p \in Procs :
    call[p].pc = "idle" /\ call[p].obj # None /\ call[p].res = "Existential" =>
      obj[call[p].obj].address = NULL

\* A constructor with IPC_CREX and write permission returns a segment no byte
\* of which is as the kernel left it, whatever size the kernel gave it
\* (the memset of SharedMemory_init).
InitCharacterFills ==
  [][\A p \in Procs :
       LET c == call[p]
           constructed ==
             /\ \/ c.pc = "shmat" /\ c.flags = CREX /\ "w" \in c.mode
                \/ c.pc = "stat"
                \/ c.pc = "copy" /\ c.byte = "init"
             /\ call'[p].pc = "idle" /\ call'[p].obj = c.obj
             /\ call'[p].res = "ok" /\ obj'[c.obj] # NoObject
       IN  constructed =>
             \A n \in 0..size'[obj'[c.obj].id] - 1 :
               bytes'[obj'[c.obj].id][n] # "zero"]_vars

\* No constructor wipes out what its own process has written: memset runs only
\* on a segment that its own shmget has just created, and the GIL keeps the
\* process from writing meanwhile (the IPC_CREX test of SharedMemory_init).
FillKeepsOwnData ==
  [][\A p \in Procs, i \in Ids, n \in Positions :
       bytes[i][n] = p /\ bytes'[i][n] = "init" => call'[p] = call[p]]_vars

\* Callers who pair attach with detach leave no mapping behind: each belongs
\* to an object that can still detach it, so a removed segment goes away when
\* the last object is detached (the note on attach() in USAGE.md).
MappingsAreOwned ==
  \A p \in Careful, a \in Addresses : maps[p][a] # NoMap =>
    \E o \in Objects : ProcOf[o] = p /\ obj[o].address = a

\* The methods implement the module Segments for callers who pair attach with
\* detach: whatever fails in between, and whoever removes segments or ends, an
\* object is attached where it says, only its writes change the segment, and a
\* removed segment lives as long as an object is attached, not longer (remove()
\* and detach() in USAGE.md).
attached == [o \in Objects |-> IF obj[o].address = NULL THEN NoId ELSE obj[o].id]

writers == {o \in Objects : obj[o].address # NULL /\ ~obj[o].read_only}

TheSegments == INSTANCE Segments

ImplementsSegments == TheSegments!SegmentSpec

\* The comment on sysv_ipc_attach: the new object's key is "permanently set to
\* -1".
AttachSetsKey ==
  \A p \in Procs : call[p].pc = "idle" /\ call[p].res = "attached" =>
    obj[call[p].obj].key = "-1"
=============================================================================
