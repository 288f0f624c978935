---------------------------- MODULE SegmentsProofs ----------------------------
(***************************************************************************)
(* SharedMemory implements Segments, for any number of processes, objects, *)
(* keys, addresses and segments of any size, as long as every caller pairs *)
(* attach with detach.                                                     *)
(***************************************************************************)
EXTENDS SharedMemoryProofs

AllCareful == Careful = Procs

SegmentNext == TheSegments!SegmentNext
SegmentVars == TheSegments!segmentVars

\* A step of Segments, or none.
SegmentStep == SegmentNext \/ UNCHANGED SegmentVars

----------------------------------------------------------------------------
(* A segment that has been removed and is still there is mapped.           *)

MarkedMapped == \A i \in Ids : status[i] = "marked" => Mapped(i, maps)

\* What can happen to segments and mappings.
KernelStep ==
  \/ UNCHANGED <<status, maps>>
  \/ Reap(maps')
  \/ \E k, i, m, s : Allocate(k, i, m, s) /\ UNCHANGED maps
  \/ \E p, o, i : shm_remove(p, o, i)

LEMMA FailIsQuiet ==
  ASSUME NEW o, NEW r, Fail(o, r)
  PROVE  KernelStep
BY DEF Fail, segment, KernelStep

LEMMA AbandonIsQuiet ==
  ASSUME NEW o, NEW r, Abandon(o, r)
  PROVE  KernelStep
BY DEF Abandon, segment, KernelStep

LEMMA AttachedReaps ==
  ASSUME NEW o, NEW self, NEW at, NEW flags, Attached(o, self, at, flags)
  PROVE  KernelStep
BY DEF Attached, KernelStep

LEMMA ConstructorIsKernelStep ==
  ASSUME NEW o, NEW k, NEW flags, NEW m, NEW sz, SharedMemory_init(o, k, flags, m, sz)
  PROVE  KernelStep
<1>1. CASE BadFlags(k, flags) BY <1>1, FailIsQuiet DEF SharedMemory_init
<1>2. CASE ~BadFlags(k, flags)
  <2>1. PICK key : Shmget(o, key, flags, m, AskedSize(flags, sz))
    BY <1>2 DEF SharedMemory_init
  <2>2. CASE \E r : Fail(o, r) BY <2>2, FailIsQuiet
  <2>3. CASE \E i : Obtained(o, key, i, flags, m) /\ UNCHANGED segment
    BY <2>3 DEF Obtained, segment, KernelStep
  <2>4. CASE \E i, s : Allocate(key, i, m, s) /\ Obtained(o, key, i, flags, m)
    <3>1. PICK i, s : Allocate(key, i, m, s) /\ Obtained(o, key, i, flags, m) BY <2>4
    <3>2. UNCHANGED maps BY <3>1 DEF Obtained
    <3> QED BY <3>1, <3>2 DEF KernelStep
  <2> QED BY <2>1, <2>2, <2>3, <2>4 DEF Shmget
<1> QED BY <1>1, <1>2

LEMMA NextIsKernelStep == Next => KernelStep
<1> SUFFICES ASSUME Next PROVE KernelStep OBVIOUS
<1>1. ASSUME NEW p, NEW o, NEW i, shm_remove(p, o, i) PROVE KernelStep
  BY <1>1 DEF KernelStep
<1>2. ASSUME NEW p \in Procs, ModuleStep(p) PROVE KernelStep
  <2>1. CASE \E i \in Ids : sysv_ipc_remove_shared_memory(p, i)
    BY <2>1, <1>1 DEF sysv_ipc_remove_shared_memory
  <2>2. CASE ExitProcess(p) BY <2>2 DEF ExitProcess, KernelStep
  <2> QED BY <1>2, <2>1, <2>2 DEF ModuleStep
<1>3. ASSUME UNCHANGED <<segment, maps>> PROVE KernelStep BY <1>3 DEF segment, KernelStep
<1>4. ASSUME NEW o \in Objects, ObjectStep(o) PROVE KernelStep
  <2>1. CASE \E k \in Keys \union {None}, flags \in Flags, m \in Modes, sz \in Sizes :
               SharedMemory_init(o, k, flags, m, sz)
    BY <2>1, ConstructorIsKernelStep
  <2>2. CASE InitAttach(o) BY <2>2, AbandonIsQuiet, AttachedReaps DEF InitAttach
  <2>3. CASE InitFill(o) BY <2>3, <1>3, AbandonIsQuiet DEF InitFill
  <2>4. CASE CopyByte(o) BY <2>4, <1>3 DEF CopyByte
  <2>5. CASE \E at \in Addresses \union {NULL}, flags \in AttachFlags :
               SharedMemory_attach(o, at, flags)
    BY <2>5, <1>3, AttachedReaps DEF SharedMemory_attach
  <2>6. CASE \E at \in Addresses \union {NULL}, flags \in AttachFlags, i \in Ids :
               sysv_ipc_attach(o, i, at, flags)
    BY <2>6, FailIsQuiet, AttachedReaps DEF sysv_ipc_attach
  <2>7. CASE SharedMemory_detach(o) BY <2>7 DEF SharedMemory_detach, KernelStep
  <2>8. CASE \E n \in ByteCounts, off \in Offsets : SharedMemory_read(o, n, off)
    BY <2>8, <1>3, FailIsQuiet DEF SharedMemory_read
  <2>9. CASE \E len \in Lengths, off \in Offsets : SharedMemory_write(o, len, off)
    BY <2>9, <1>3, FailIsQuiet DEF SharedMemory_write
  <2>10. CASE shm_get_value(o) BY <2>10, FailIsQuiet DEF shm_get_value
  <2>11. CASE \E field \in Settable, m \in Modes : shm_set_ipc_perm_value(o, field, m)
    BY <2>11, <1>3, FailIsQuiet DEF shm_set_ipc_perm_value
  <2>12. CASE IpcSet(o) BY <2>12, FailIsQuiet DEF IpcSet, KernelStep
  <2>13. CASE SharedMemory_remove(o) BY <2>13, <1>1 DEF SharedMemory_remove
  <2>14. CASE SharedMemory_dealloc(o) BY <2>14, <1>3 DEF SharedMemory_dealloc
  <2> QED
    BY <1>4, <2>1, <2>2, <2>3, <2>4, <2>5, <2>6, <2>7, <2>8, <2>9, <2>10, <2>11,
       <2>12, <2>13, <2>14 DEF ObjectStep
<1> QED BY <1>2, <1>4 DEF Next

LEMMA KernelStepKeepsMarked ==
  ASSUME KernelTypeOK, MarkedMapped, KernelStep
  PROVE  MarkedMapped'
<1>1. CASE UNCHANGED <<status, maps>> BY <1>1 DEF MarkedMapped, Mapped
<1>2. CASE Reap(maps') BY <1>2 DEF Reap, MarkedMapped, Mapped
<1>3. CASE \E k, i, m, s : Allocate(k, i, m, s) /\ UNCHANGED maps
  <2>1. PICK i : status' = [status EXCEPT ![i] = "live"] /\ UNCHANGED maps
    BY <1>3 DEF Allocate
  <2> QED BY <2>1 DEF KernelTypeOK, MarkedMapped, Mapped
<1>4. CASE \E p, o, i : shm_remove(p, o, i)
  <2>1. PICK i : /\ UNCHANGED maps
                 /\ \/ status' = status
                    \/ status' = [status EXCEPT ![i] = IF Mapped(i, maps) THEN "marked"
                                                       ELSE "gone"]
    BY <1>4 DEF shm_remove
  <2>2. ASSUME NEW j \in Ids, status'[j] = "marked" PROVE Mapped(j, maps)
    BY <2>1, <2>2 DEF KernelTypeOK, MarkedMapped
  <2> QED BY <2>1, <2>2 DEF MarkedMapped, Mapped
<1> QED BY <1>1, <1>2, <1>3, <1>4 DEF KernelStep

\* The kernel never keeps a removed segment that nothing maps.
LEMMA SpecMarked ==
  ASSUME NoRemap
  PROVE  Spec => []MarkedMapped
<1>1. Init => MarkedMapped BY DEF Init, MarkedMapped
<1>2. Inv /\ MarkedMapped /\ [Next]_vars => MarkedMapped'
  <2>1. UNCHANGED vars => KernelStep BY DEF vars, KernelStep, segment
  <2>2. [Next]_vars => KernelStep BY <2>1, NextIsKernelStep
  <2>3. Inv => KernelTypeOK BY DEF Inv
  <2> QED BY <2>2, <2>3, KernelStepKeepsMarked
<1> QED BY <1>1, <1>2, SpecInv, PTL DEF Spec

----------------------------------------------------------------------------
(* What is attached is what is mapped.                                     *)

LEMMA AttachedMeans ==
  ASSUME Inv, NEW o \in Objects, NEW i \in Ids, attached[o] = i
  PROVE  obj[o].address # NULL /\ obj[o].id = i
BY DEF attached, Ids, NoId

\* A segment is mapped exactly when an object is attached to it.
LEMMA InUseIsMapped ==
  AllCareful /\ Inv /\ MappingsAreOwned =>
    \A i \in Ids : Mapped(i, maps) <=> \E o \in Objects : attached[o] = i
<1> SUFFICES ASSUME AllCareful, Inv, MappingsAreOwned, NEW i \in Ids
             PROVE  Mapped(i, maps) <=> \E o \in Objects : attached[o] = i
  OBVIOUS
<1>1. ASSUME Mapped(i, maps) PROVE \E o \in Objects : attached[o] = i
  <2>1. PICK p \in Procs, a \in Addresses : maps[p][a].id = i BY <1>1 DEF Mapped
  <2>2. maps[p][a] # NoMap BY <2>1 DEF NoMap, Ids, NoId
  <2>3. PICK o \in Objects : ProcOf[o] = p /\ obj[o].address = a
    BY <2>2 DEF MappingsAreOwned, AllCareful
  <2>4. a # NULL BY SharedMemoryAssumption
  <2>5. maps[p][a] = [id |-> obj[o].id, rdonly |-> obj[o].read_only]
    BY <2>3, <2>4 DEF Inv, AttachedIsMapped
  <2>6. attached[o] = i BY <2>1, <2>3, <2>4, <2>5 DEF attached
  <2> QED BY <2>6
<1>2. ASSUME NEW o \in Objects, attached[o] = i PROVE Mapped(i, maps)
  <2>1. obj[o].address # NULL /\ obj[o].id = i BY <1>2, AttachedMeans
  <2>2. maps[ProcOf[o]][obj[o].address] = [id |-> obj[o].id, rdonly |-> obj[o].read_only]
    BY <2>1 DEF Inv, AttachedIsMapped
  <2>3. obj[o].address \in Addresses /\ ProcOf[o] \in Procs
    BY <2>1, AttachedExists, SharedMemoryAssumption
  <2> QED BY <2>1, <2>2, <2>3 DEF Mapped
<1> QED BY <1>1, <1>2

LEMMA InUseIsMappedNext ==
  (AllCareful /\ Inv /\ MappingsAreOwned)' =>
    (\A i \in Ids : Mapped(i, maps) <=> \E o \in Objects : attached[o] = i)'
BY InUseIsMapped, PTL

\* What leaves segments and objects alone is no step of Segments.
LEMMA NoStep ==
  ASSUME UNCHANGED <<status, size, bytes, obj>>
  PROVE  SegmentStep
<1>1. UNCHANGED <<attached, writers>> BY DEF attached, writers
<1> QED BY <1>1 DEF SegmentStep, SegmentVars, TheSegments!segmentVars

LEMMA FailNoStep ==
  ASSUME NEW o, NEW r, Fail(o, r)
  PROVE  SegmentStep
BY NoStep DEF Fail, segment

\* An object that is not attached before and after.
LEMMA LooseObject ==
  ASSUME Inv, NEW o \in Objects, obj[o].address = NULL, NEW h, h.address = NULL,
         obj' = [obj EXCEPT ![o] = h]
  PROVE  UNCHANGED <<attached, writers>>
<1>1. obj'[o].address = NULL /\ \A q \in Objects : q # o => obj'[q] = obj[q] BY DEF Inv
<1>2. attached' = attached
  <2>1. \A q \in Objects : (IF obj'[q].address = NULL THEN NoId ELSE obj'[q].id)
                           = (IF obj[q].address = NULL THEN NoId ELSE obj[q].id)
    BY <1>1
  <2> QED BY <2>1 DEF attached
<1>3. writers' = writers
  <2>1. \A q \in Objects : (obj'[q].address # NULL /\ ~obj'[q].read_only)
                           <=> (obj[q].address # NULL /\ ~obj[q].read_only)
    BY <1>1
  <2> QED BY <2>1 DEF writers
<1> QED BY <1>2, <1>3

LEMMA LooseStep ==
  ASSUME Inv, NEW o \in Objects, obj[o].address = NULL, NEW h, h.address = NULL,
         obj' = [obj EXCEPT ![o] = h], UNCHANGED <<status, size, bytes>>
  PROVE  SegmentStep
<1>1. UNCHANGED <<attached, writers>> BY LooseObject
<1> QED BY <1>1 DEF SegmentStep, SegmentVars, TheSegments!segmentVars

----------------------------------------------------------------------------
(* One step of Segments for each action that attaches, detaches, writes,   *)
(* creates or removes.                                                     *)

LEMMA AttachedAttaches ==
  ASSUME Inv, MarkedMapped, NEW o \in Objects, obj[o].address = NULL,
         NEW self \in ObjectType \ {NoObject}, NEW at \in Addresses \union {NULL},
         NEW flags \in SUBSET {"RDONLY", "REMAP"}, "REMAP" \notin flags,
         Attached(o, self, at, flags)
  PROVE  SegmentStep
<1>1. /\ obj'[o].address # NULL /\ obj'[o].read_only = ("RDONLY" \in flags)
      /\ obj'[o].id = self.id
      /\ \A q \in Objects : q # o => obj'[q] = obj[q]
      /\ UNCHANGED <<size, bytes>>
  BY AttachedMaps, AttachedSame
<1>2. PICK i \in Ids : i = self.id BY DEF ObjectType
<1>3. attached[o] = 0 BY DEF attached, NoId
<1>4. TheSegments!There(i)
  <2>1. Exists(i) BY <1>2 DEF Attached, ShmatErrno
  <2> QED BY <2>1 DEF Exists, TheSegments!There
<1>5. attached' = [attached EXCEPT ![o] = i]
  <2> DEFINE to(h) == IF h.address = NULL THEN NoId ELSE h.id
  <2>1. attached = [q \in Objects |-> to(obj[q])] /\ attached' = [q \in Objects |-> to(obj'[q])]
    BY DEF attached
  <2>2. to(obj'[o]) = i /\ \A q \in Objects : q # o => to(obj'[q]) = to(obj[q])
    BY <1>1, <1>2
  <2> HIDE DEF to
  <2> QED BY <2>1, <2>2
<1>6. writers' \in {writers, writers \cup {o}}
  <2>1. \A q \in Objects : q # o => (q \in writers' <=> q \in writers)
    BY <1>1 DEF writers
  <2>2. o \notin writers /\ writers \subseteq Objects /\ writers' \subseteq Objects
    BY DEF writers
  <2>3. CASE o \in writers'
    <3>1. writers' = writers \cup {o} BY <2>1, <2>2, <2>3
    <3> QED BY <3>1
  <2>4. CASE o \notin writers'
    <3>1. writers' = writers BY <2>1, <2>2, <2>4
    <3> QED BY <3>1
  <2> QED BY <2>3, <2>4
<1>7. status' = status
  <2>1. PICK a \in Places(ProcOf[o], at, flags) :
          /\ \E x : maps' = [maps EXCEPT ![ProcOf[o]][a] = x]
          /\ Reap(maps')
    BY DEF Attached
  <2>2. a \in Addresses /\ maps[ProcOf[o]][a] = NoMap BY <2>1 DEF Places
  <2>3. ASSUME NEW j \in Ids, Mapped(j, maps) PROVE Mapped(j, maps')
    <3>1. PICK p \in Procs, b \in Addresses : maps[p][b].id = j BY <2>3 DEF Mapped
    <3>2. ~(p = ProcOf[o] /\ b = a) BY <2>2, <3>1 DEF NoMap, Ids, NoId
    <3>3. maps'[p][b] = maps[p][b]
      BY <2>1, <2>2, <3>2, SharedMemoryAssumption DEF Inv, KernelTypeOK
    <3> QED BY <3>1, <3>3 DEF Mapped
  <2>4. \A j \in Ids : status'[j] = status[j]
    BY <2>1, <2>3 DEF Reap, MarkedMapped
  <2>5. status' \in [Ids -> {"unused", "live", "marked", "gone"}]
    BY <2>1, ReapType DEF Inv
  <2> QED BY <2>4, <2>5 DEF Inv, KernelTypeOK
<1>8. TheSegments!Attach(o, i)
  BY <1>1, <1>3, <1>4, <1>5, <1>6, <1>7 DEF TheSegments!Attach
<1> QED BY <1>8 DEF SegmentStep, SegmentNext, TheSegments!SegmentNext

\* Objects that lose their address, and the kernel that reaps.
LEMMA DetachDetaches ==
  ASSUME AllCareful, Inv', MappingsAreOwned', Reap(maps'), UNCHANGED <<size, bytes>>,
         NEW leaving \in SUBSET Objects,
         \A o \in leaving : obj'[o].address = NULL,
         \A o \in Objects \ leaving : obj'[o] = obj[o]
  PROVE  TheSegments!Detach(leaving)
<1>1. attached' = [o \in Objects |-> IF o \in leaving THEN 0 ELSE attached[o]]
  <2>1. \A o \in Objects : (IF obj'[o].address = NULL THEN NoId ELSE obj'[o].id)
                           = IF o \in leaving THEN 0 ELSE attached[o]
    BY DEF attached, NoId
  <2>2. attached' = [o \in Objects |-> IF obj'[o].address = NULL THEN NoId ELSE obj'[o].id]
    BY DEF attached
  <2> QED BY <2>1, <2>2
<1>2. writers' = writers \ leaving BY DEF writers
<1>3. \A i \in Ids : Mapped(i, maps') <=> \E o \in Objects : attached'[o] = i
  <2>1. AllCareful' BY DEF AllCareful
  <2> QED BY <2>1, InUseIsMappedNext DEF Mapped
<1>4. status' = [i \in Ids |-> IF status[i] = "marked" /\ ~TheSegments!InUse(i, attached')
                               THEN "gone" ELSE status[i]]
  BY <1>3 DEF Reap, TheSegments!InUse
<1> QED BY <1>1, <1>2, <1>4 DEF TheSegments!Detach

LEMMA DetachStep ==
  ASSUME AllCareful, Inv, Inv', MappingsAreOwned', NEW o \in Objects, SharedMemory_detach(o)
  PROVE  SegmentStep
<1>1. /\ Reap(maps') /\ UNCHANGED <<size, bytes>>
      /\ obj' = [obj EXCEPT ![o].address = NULL] /\ obj[o] # NoObject
  BY DEF SharedMemory_detach, CanUse
<1>2. \A q \in Objects \ {o} : obj'[q] = obj[q] BY <1>1 DEF Inv
<1>3. obj'[o].address = NULL
  <2>1. obj[o] \in ObjectType \ {NoObject} BY <1>1 DEF Inv
  <2>2. obj'[o] = [obj[o] EXCEPT !.address = NULL] BY <1>1 DEF Inv
  <2> QED BY <2>1, <2>2, NoAddressType
<1>4. TheSegments!Detach({o}) BY <1>1, <1>2, <1>3, DetachDetaches
<1> QED BY <1>4 DEF SegmentStep, SegmentNext, TheSegments!SegmentNext

LEMMA ExitStep ==
  ASSUME AllCareful, Inv', MappingsAreOwned', NEW p \in Procs, ExitProcess(p)
  PROVE  SegmentStep
<1> DEFINE leaving == {o \in Objects : ProcOf[o] = p}
<1>1. /\ Reap(maps') /\ UNCHANGED <<size, bytes>>
      /\ obj' = [o \in Objects |-> IF ProcOf[o] = p THEN NoObject ELSE obj[o]]
  BY DEF ExitProcess
<1>2. \A o \in leaving : obj'[o].address = NULL BY <1>1 DEF NoObject
<1>3. \A o \in Objects \ leaving : obj'[o] = obj[o] BY <1>1
<1>4. TheSegments!Detach(leaving) BY <1>1, <1>2, <1>3, DetachDetaches
<1> QED BY <1>4 DEF SegmentStep, SegmentNext, TheSegments!SegmentNext

LEMMA RemoveIsRemove ==
  ASSUME AllCareful, Inv, MappingsAreOwned, NEW p, NEW o, NEW i \in Ids,
         shm_remove(p, o, i)
  PROVE  SegmentStep
<1>1. UNCHANGED <<size, bytes, obj>> BY DEF shm_remove
<1>2. CASE ~Exists(i)
  <2>1. status' = status BY <1>2 DEF shm_remove
  <2> QED BY <1>1, <2>1, NoStep
<1>3. CASE Exists(i)
  <2>1. status' = [status EXCEPT ![i] = IF Mapped(i, maps) THEN "marked" ELSE "gone"]
    BY <1>3 DEF shm_remove
  <2>2. Mapped(i, maps) <=> TheSegments!InUse(i, attached)
    BY InUseIsMapped DEF TheSegments!InUse
  <2>3. status' = [status EXCEPT ![i] = IF TheSegments!InUse(i, attached) THEN "marked"
                                        ELSE "gone"]
    BY <2>1, <2>2
  <2>4. TheSegments!There(i) BY <1>3 DEF Exists, TheSegments!There
  <2>5. UNCHANGED <<attached, writers>> BY <1>1 DEF attached, writers
  <2>6. TheSegments!Remove(i) BY <1>1, <2>3, <2>4, <2>5 DEF TheSegments!Remove
  <2> QED BY <2>6 DEF SegmentStep, SegmentNext, TheSegments!SegmentNext
<1> QED BY <1>2, <1>3

\* A byte that is written is written by an object attached for writing, within
\* its segment, in the name of its process or of the constructor.
LEMMA CopyByteStep ==
  ASSUME ContentsApart, Inv, FillInv, NEW o \in Objects, CopyByte(o)
  PROVE  SegmentStep
<1>p. PICK p \in Procs : p = ProcOf[o] BY SharedMemoryAssumption
<1>0. PICK d : d = call[p] OBVIOUS
<1>1. d.pc = "copy" /\ d.obj = o /\ d \in Calls /\ CallOK(p, d) /\ FillOK(p, d)
  BY <1>p, <1>0 DEF CopyByte, Inv, CallsOK, FillInv
<1>2. obj[o].address # NULL BY <1>1 DEF CallOK
<1>3. PICK i \in Ids : i = obj[o].id BY <1>2, AttachedExists
<1>4. maps[p][obj[o].address].id = i
  <2>1. maps[p][obj[o].address] = [id |-> obj[o].id, rdonly |-> obj[o].read_only]
    BY <1>p, <1>2 DEF Inv, AttachedIsMapped
  <2> QED BY <1>3, <2>1
<1>5. PICK n \in d.todo :
        /\ bytes' = IF d.byte = None THEN bytes ELSE [bytes EXCEPT ![i][n] = d.byte]
        /\ UNCHANGED <<size, status, obj>>
  BY <1>p, <1>0, <1>4 DEF CopyByte, segment
<1>6. CASE d.byte = None BY <1>5, <1>6, NoStep
<1>7. CASE d.byte # None
  <2>1. d.byte \in {"init", ProcOf[o]} BY <1>p, <1>1, <1>7 DEF FillOK
  <2>2. n \in 0..SHMMAX - 1 BY <1>1, <1>5 DEF Calls, Positions
  <2>3. attached[o] = i BY <1>2, <1>3 DEF attached
  <2>4. o \in writers BY <1>1, <1>2, <1>7 DEF CallOK, writers
  <2>5. n \in 0..size[i] - 1 BY <1>1, <1>3, <1>5 DEF CallOK
  <2>6. bytes' = [bytes EXCEPT ![i][n] = d.byte] BY <1>5, <1>7
  <2>7. UNCHANGED <<status, size, attached, writers>> BY <1>5 DEF attached, writers
  <2>8. TheSegments!Write(o, n, d.byte)
    BY <2>3, <2>4, <2>5, <2>6, <2>7 DEF TheSegments!Write
  <2> QED BY <2>1, <2>2, <2>8 DEF SegmentStep, SegmentNext, TheSegments!SegmentNext
<1> QED BY <1>6, <1>7

LEMMA ConstructorStep ==
  ASSUME Inv, NEW o \in Objects, NEW k \in Keys \union {None},
         NEW flags \in Flags, NEW m \in Modes, NEW sz \in Sizes,
         SharedMemory_init(o, k, flags, m, sz)
  PROVE  SegmentStep
<1>1. obj[o].address = NULL BY DEF SharedMemory_init, NoObject
<1>2. CASE BadFlags(k, flags) BY <1>2, FailNoStep DEF SharedMemory_init
<1>3. CASE ~BadFlags(k, flags)
  <2>1. PICK key \in Keys : Shmget(o, key, flags, m, AskedSize(flags, sz))
    BY <1>3 DEF SharedMemory_init
  <2>2. CASE \E r : Fail(o, r) BY <2>2, FailNoStep
  <2>3. ASSUME NEW i, Obtained(o, key, i, flags, m)
        PROVE  UNCHANGED <<attached, writers>> /\ bytes' = bytes
    <3> DEFINE h == [key |-> key, id |-> i, address |-> NULL, read_only |-> FALSE]
    <3>1. obj' = [obj EXCEPT ![o] = h] /\ bytes' = bytes BY <2>3 DEF Obtained
    <3>2. h.address = NULL OBVIOUS
    <3> HIDE DEF h
    <3> QED BY <1>1, <3>1, <3>2, LooseObject
  <2>4. CASE \E i : Obtained(o, key, i, flags, m) /\ UNCHANGED segment
    <3>1. UNCHANGED <<status, size>> BY <2>4 DEF segment
    <3> QED BY <2>3, <2>4, <3>1 DEF SegmentStep, SegmentVars, TheSegments!segmentVars
  <2>5. CASE /\ ShmgetErrno(key, flags, m, AskedSize(flags, sz)) = "none"
             /\ idOf[key] = NoId
             /\ \E i \in Ids : /\ Allocate(key, i, m, AskedSize(flags, sz))
                               /\ Obtained(o, key, i, flags, m)
    <3>0. PICK asked : asked = AskedSize(flags, sz) OBVIOUS
    <3>1. asked \in 1..SHMMAX BY <2>5, <3>0 DEF ShmgetErrno
    <3>2. PICK i \in Ids : Allocate(key, i, m, asked) /\ Obtained(o, key, i, flags, m)
      BY <2>5, <3>0
    <3>3. PICK s \in IF RoundsUp THEN asked..SHMMAX ELSE {asked} :
            size' = [size EXCEPT ![i] = s]
      BY <3>2, Zenon DEF Allocate
    <3>4. s \in 1..SHMMAX BY <3>1, <3>3, SharedMemoryAssumption
    <3>5. status[i] = "unused" /\ status' = [status EXCEPT ![i] = "live"]
      BY <3>2 DEF Allocate
    <3>6. UNCHANGED <<attached, writers, bytes>> BY <2>3, <3>2
    <3>7. TheSegments!Create(i) BY <3>3, <3>4, <3>5, <3>6 DEF TheSegments!Create
    <3> QED BY <3>7 DEF SegmentStep, SegmentNext, TheSegments!SegmentNext
  <2> QED BY <2>1, <2>2, <2>4, <2>5 DEF Shmget
<1> QED BY <1>2, <1>3

LEMMA InitAttachStep ==
  ASSUME Inv, MarkedMapped, NEW o \in Objects, InitAttach(o)
  PROVE  SegmentStep
<1> DEFINE c == call[ProcOf[o]]
           flags == IF "w" \in c.mode THEN {} ELSE {"RDONLY"}
<1>1. c.pc = "shmat" /\ c.obj = o BY DEF InitAttach
<1>2. ProcOf[o] \in Procs BY SharedMemoryAssumption
<1>3. obj[o] \in ObjectType \ {NoObject} /\ obj[o].address = NULL
  BY <1>1, <1>2 DEF Inv, CallsOK, CallOK
<1>4. flags \in SUBSET {"RDONLY", "REMAP"} /\ "REMAP" \notin flags OBVIOUS
<1>5. CASE Attached(o, obj[o], NULL, flags)
  <2> HIDE DEF flags
  <2> QED BY <1>3, <1>4, <1>5, AttachedAttaches
<1>6. CASE \E r : Abandon(o, r)
  <2>1. obj' = [obj EXCEPT ![o] = NoObject] /\ UNCHANGED <<status, size, bytes>>
    BY <1>6 DEF Abandon, segment
  <2>2. NoObject.address = NULL BY DEF NoObject
  <2> QED BY <1>3, <2>1, <2>2, LooseStep
<1> QED BY <1>5, <1>6 DEF InitAttach

\* With permissions that stay, memset is not refused the size it asks for, and
\* the object is not abandoned attached.
LEMMA InitFillStep ==
  ASSUME Inv, Owned, NEW o \in Objects, InitFill(o)
  PROVE  SegmentStep
<1>1. call[ProcOf[o]].pc = "stat" /\ call[ProcOf[o]].obj = o BY DEF InitFill
<1>2. ProcOf[o] \in Procs BY SharedMemoryAssumption
<1>3. obj[o].address # NULL BY <1>1, <1>2 DEF Inv, CallsOK, CallOK
<1>4. StatErrno(obj[o].id) = "none"
  BY <1>1, <1>2, <1>3, AttachedExists DEF Owned, FillReadable, StatErrno
<1>5. UNCHANGED <<segment, bytes, maps, obj>> BY <1>4 DEF InitFill
<1> QED BY <1>5, NoStep DEF segment

LEMMA AttachStep ==
  ASSUME AllCareful, Inv, MarkedMapped, NEW o \in Objects,
         NEW at \in Addresses \union {NULL}, NEW flags \in AttachFlags,
         "REMAP" \notin flags, SharedMemory_attach(o, at, flags)
  PROVE  SegmentStep
<1>1. flags \in SUBSET {"RDONLY", "REMAP"} BY SharedMemoryAssumption
<1>2. obj[o] \in ObjectType \ {NoObject} BY DEF SharedMemory_attach, CanUse, Inv
<1>3. obj[o].address = NULL
  BY SharedMemoryAssumption DEF SharedMemory_attach, AllCareful
<1>4. CASE Attached(o, obj[o], at, flags) BY <1>1, <1>2, <1>3, <1>4, AttachedAttaches
<1>5. CASE /\ obj' = [obj EXCEPT ![o] = OnAttachFailure(obj[o])]
           /\ UNCHANGED <<segment, bytes, maps>>
  <2>1. OnAttachFailure(obj[o]).address = NULL BY <1>2, NoAddressType DEF OnAttachFailure
  <2>2. UNCHANGED <<status, size, bytes>> BY <1>5 DEF segment
  <2> QED BY <1>3, <1>5, <2>1, <2>2, LooseStep
<1> QED BY <1>4, <1>5 DEF SharedMemory_attach

LEMMA ModuleAttachStep ==
  ASSUME Inv, MarkedMapped, NEW o \in Objects, NEW i \in Ids,
         NEW at \in Addresses \union {NULL}, NEW flags \in AttachFlags,
         "REMAP" \notin flags, sysv_ipc_attach(o, i, at, flags)
  PROVE  SegmentStep
<1>1. flags \in SUBSET {"RDONLY", "REMAP"} BY SharedMemoryAssumption
<1>2. obj[o].address = NULL BY DEF sysv_ipc_attach, NoObject
<1>3. CASE \E r : Fail(o, r) BY <1>3, FailNoStep
<1>4. CASE \E k \in Keys \union {"-1"} :
             Attached(o, [key |-> k, id |-> i, address |-> NULL, read_only |-> FALSE],
                      at, flags)
  <2>1. PICK k \in Keys \union {"-1"} :
             Attached(o, [key |-> k, id |-> i, address |-> NULL, read_only |-> FALSE],
                      at, flags)
    BY <1>4
  <2> DEFINE self == [key |-> k, id |-> i, address |-> NULL, read_only |-> FALSE]
  <2>2. self \in ObjectType \ {NoObject} BY DEF ObjectType, NoObject, Ids, NoId
  <2> HIDE DEF self
  <2>3. Attached(o, self, at, flags) BY <2>1 DEF self
  <2> QED BY <1>1, <1>2, <2>2, <2>3, AttachedAttaches
<1> QED BY <1>3, <1>4 DEF sysv_ipc_attach

LEMMA DeallocStep ==
  ASSUME AllCareful, Inv, NEW o \in Objects, SharedMemory_dealloc(o)
  PROVE  SegmentStep
<1>1. obj[o].address = NULL
  BY SharedMemoryAssumption DEF SharedMemory_dealloc, AllCareful
<1>2. obj' = [obj EXCEPT ![o] = NoObject] /\ UNCHANGED <<status, size, bytes>>
  BY DEF SharedMemory_dealloc, segment
<1>3. NoObject.address = NULL BY DEF NoObject
<1> QED BY <1>1, <1>2, <1>3, LooseStep

----------------------------------------------------------------------------
(* The theorem.                                                            *)

LEMMA NextStep ==
  ASSUME NoRemap, PermissionsStay, ContentsApart, AllCareful
  PROVE  Inv /\ Inv' /\ Owned /\ Owned' /\ FillInv /\ MarkedMapped /\ Next => SegmentStep
<1> SUFFICES ASSUME Inv, Inv', Owned, Owned', FillInv, MarkedMapped, Next PROVE SegmentStep
  OBVIOUS
<1>0. MappingsAreOwned /\ MappingsAreOwned' BY DEF Owned
<1>1. ASSUME UNCHANGED <<segment, bytes, maps, obj>> PROVE SegmentStep
  BY <1>1, NoStep DEF segment
<1>2. ASSUME NEW o \in Objects, ObjectStep(o) PROVE SegmentStep
  <2>1. CASE \E k \in Keys \union {None}, flags \in Flags, m \in Modes, sz \in Sizes :
               SharedMemory_init(o, k, flags, m, sz)
    BY <2>1, ConstructorStep
  <2>2. CASE InitAttach(o) BY <2>2, InitAttachStep
  <2>3. CASE InitFill(o) BY <2>3, InitFillStep
  <2>4. CASE CopyByte(o) BY <2>4, CopyByteStep
  <2>5. CASE \E at \in Addresses \union {NULL}, flags \in AttachFlags :
               SharedMemory_attach(o, at, flags)
    BY <2>5, AttachStep DEF NoRemap
  <2>6. CASE \E at \in Addresses \union {NULL}, flags \in AttachFlags, i \in Ids :
               sysv_ipc_attach(o, i, at, flags)
    BY <2>6, ModuleAttachStep DEF NoRemap
  <2>7. CASE SharedMemory_detach(o) BY <1>0, <2>7, DetachStep
  <2>8. CASE \E n \in ByteCounts, off \in Offsets : SharedMemory_read(o, n, off)
    BY <2>8, <1>1, FailNoStep DEF SharedMemory_read
  <2>9. CASE \E len \in Lengths, off \in Offsets : SharedMemory_write(o, len, off)
    BY <2>9, <1>1, FailNoStep DEF SharedMemory_write
  <2>10. CASE shm_get_value(o) BY <2>10, FailNoStep DEF shm_get_value
  <2>11. CASE \E field \in Settable, m \in Modes : shm_set_ipc_perm_value(o, field, m)
    BY <2>11 DEF PermissionsStay
  <2>12. CASE IpcSet(o)
    BY <2>12, SharedMemoryAssumption DEF IpcSet, Owned, NobodySets
  <2>13. CASE SharedMemory_remove(o)
    <3>1. obj[o].id \in Ids BY <2>13 DEF SharedMemory_remove, CanUse, Inv, ObjectType
    <3> QED BY <1>0, <2>13, <3>1, RemoveIsRemove DEF SharedMemory_remove
  <2>14. CASE SharedMemory_dealloc(o) BY <2>14, DeallocStep
  <2> QED
    BY <1>2, <2>1, <2>2, <2>3, <2>4, <2>5, <2>6, <2>7, <2>8, <2>9, <2>10, <2>11,
       <2>12, <2>13, <2>14 DEF ObjectStep
<1>3. ASSUME NEW p \in Procs, ModuleStep(p) PROVE SegmentStep
  <2>1. CASE \E i \in Ids : sysv_ipc_remove_shared_memory(p, i)
    BY <1>0, <2>1, RemoveIsRemove DEF sysv_ipc_remove_shared_memory
  <2>2. CASE ExitProcess(p) BY <1>0, <2>2, ExitStep
  <2> QED BY <1>3, <2>1, <2>2 DEF ModuleStep
<1> QED BY <1>2, <1>3 DEF Next

\* For callers who pair attach with detach, pass no SHM_REMAP and assign no
\* permissions, the methods of memory.c implement Segments: whatever fails in
\* between, and whoever removes segments or ends, an object stays attached to
\* one segment until it is detached, the segment keeps its size and all bytes
\* but those that attached writers write, and it goes exactly when it has been
\* removed and its last object is detached.
THEOREM SegmentsImplemented ==
  ASSUME NoRemap, PermissionsStay, ContentsApart, AllCareful
  PROVE  Spec => ImplementsSegments
<1>1. Init => TheSegments!SegmentInit
  <2> SUFFICES ASSUME Init PROVE TheSegments!SegmentInit OBVIOUS
  <2>1. \A o \in Objects : obj[o].address = NULL BY DEF Init, NoObject
  <2>2. attached = [o \in Objects |-> 0] /\ writers = {}
    BY <2>1 DEF attached, writers, NoId
  <2> QED BY <2>2 DEF Init, Positions, TheSegments!SegmentInit
<1>2. Inv /\ Inv' /\ Owned /\ Owned' /\ FillInv /\ MarkedMapped /\ [Next]_vars
        => [TheSegments!SegmentNext]_(TheSegments!segmentVars)
  <2>1. UNCHANGED vars => SegmentStep BY NoStep DEF vars, segment
  <2> QED BY <2>1, NextStep DEF SegmentStep, SegmentNext, SegmentVars
<1> QED
  BY <1>1, <1>2, SpecInv, SpecOwned, SpecFill, SpecMarked, PTL
     DEF Spec, ImplementsSegments, TheSegments!SegmentSpec

=============================================================================
