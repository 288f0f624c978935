------------------------- MODULE SharedMemoryProofs -------------------------
(***************************************************************************)
(* Theorems about SharedMemory for any number of processes, objects, keys, *)
(* addresses and segments: what objects say of their attachment is true,   *)
(* and what read, write and memset touch is inside the segment.            *)
(***************************************************************************)
EXTENDS SharedMemory, TLAPS

\* What the theorems ask of the callers: nobody attaches over another mapping.
NoRemap == \A flags \in AttachFlags : "REMAP" \notin flags

----------------------------------------------------------------------------
(* C arithmetic.                                                           *)

LEMMA ULongType ==
  ASSUME NEW n \in Int
  PROVE  ULong(n) \in 0..ULONG_MAX
BY SharedMemoryAssumption DEF ULong

LEMMA ULongSmall ==
  ASSUME NEW n \in 0..ULONG_MAX
  PROVE  ULong(n) = n
BY SharedMemoryAssumption DEF ULong

\* read() never reads past the end: for every offset in the segment and every
\* byte_count that is not negative, the bytes it takes are in the segment.
THEOREM ReadInBounds ==
  ASSUME NEW n \in Nat, NEW sz \in 0..SHMMAX, NEW offset \in 0..ULONG_MAX,
         ~(offset >= sz)
  PROVE  Extent(offset, ReadCount(n, offset, sz)) \subseteq 0..sz - 1
<1>1. sz - offset \in 0..ULONG_MAX BY SharedMemoryAssumption
<1>2. ULong(sz - offset) = sz - offset BY <1>1, ULongSmall
<1>3. ReadCount(n, offset, sz) \in Nat /\ ReadCount(n, offset, sz) <= sz - offset
  BY <1>1, <1>2, SharedMemoryAssumption DEF ReadCount, ReadsToEnd
<1> QED BY <1>3, SharedMemoryAssumption DEF Extent

\* write() never writes past the end: what passes its check, in unsigned
\* arithmetic, lies in the segment.
THEOREM WriteInBounds ==
  ASSUME NEW len \in Nat, NEW sz \in 0..SHMMAX, NEW offset \in 0..ULONG_MAX,
         WriteFits(len, offset, sz)
  PROVE  Extent(offset, len) \subseteq 0..sz - 1
<1>1. offset <= sz BY SharedMemoryAssumption DEF WriteFits
<1>2. sz - offset \in 0..ULONG_MAX BY <1>1, SharedMemoryAssumption
<1>3. ULong(sz - offset) = sz - offset BY <1>2, ULongSmall
<1>4. len <= sz - offset BY <1>2, <1>3, SharedMemoryAssumption DEF WriteFits
<1> QED BY <1>4, SharedMemoryAssumption DEF Extent

----------------------------------------------------------------------------
(* The inductive invariant.                                                *)

ObjectType ==
  [key : Keys \union {"-1"}, id : Ids,
   address : Addresses \union {NULL}, read_only : BOOLEAN] \union {NoObject}

KernelTypeOK ==
  /\ idOf \in [Keys -> Ids \union {NoId}]
  /\ status \in [Ids -> {"unused", "live", "marked", "gone"}]
  /\ size \in [Ids -> 0..SHMMAX]
  /\ mode \in [Ids -> SUBSET {"r", "w"}]
  /\ bytes \in [Ids -> [Positions -> {"zero", "init"} \union Procs]]
  /\ maps \in [Procs -> [Addresses -> [id : Ids, rdonly : BOOLEAN] \union {NoMap}]]

\* What is mapped has not been destroyed.
MappedExist ==
  \A p \in Procs, a \in Addresses : maps[p][a] # NoMap => Exists(maps[p][a].id)

\* What a call c of process p may rely on: inside the constructor and while
\* copying the object is there, attached if it should be, writable if it is
\* written, and what is left to copy is in its segment.  ExistentialError only
\* comes from objects that are not attached.
CallOK(p, c) ==
  /\ c.pc # "idle" =>
       ProcOf[c.obj] = p /\ obj[c.obj] # NoObject
  /\ c.pc = "shmat" => obj[c.obj].address = NULL
  /\ c.pc \in {"stat", "copy"} => obj[c.obj].address # NULL
  /\ c.pc = "stat" => ~obj[c.obj].read_only
  /\ c.pc = "copy" /\ c.byte # None => ~obj[c.obj].read_only
  /\ c.pc = "copy" => c.todo \subseteq 0..size[obj[c.obj].id] - 1
  /\ c.pc = "idle" /\ c.obj # None =>
       ProcOf[c.obj] = p /\ (c.res = "Existential" => obj[c.obj].address = NULL)

CallsOK == \A p \in Procs : CallOK(p, call[p])

Inv ==
  /\ KernelTypeOK
  /\ obj \in [Objects -> ObjectType]
  /\ call \in [Procs -> Calls]
  /\ MappedExist
  /\ AttachedIsMapped
  /\ CallsOK

LEMMA InvIsTyped == Inv => TypeOK
BY DEF Inv, KernelTypeOK, TypeOK, ObjectType

\* An attached object's segment is there.
LEMMA AttachedExists ==
  ASSUME Inv, NEW o \in Objects, obj[o].address # NULL
  PROVE  /\ obj[o] # NoObject /\ obj[o].id \in Ids /\ obj[o].address \in Addresses
         /\ Exists(obj[o].id)
         /\ maps[ProcOf[o]][obj[o].address] # NoMap
<1>1. obj[o] # NoObject BY DEF NoObject
<1>2. obj[o].id \in Ids /\ obj[o].address \in Addresses
  BY <1>1 DEF Inv, ObjectType
<1>3. maps[ProcOf[o]][obj[o].address] = [id |-> obj[o].id, rdonly |-> obj[o].read_only]
  BY DEF Inv, AttachedIsMapped
<1>4. maps[ProcOf[o]][obj[o].address] # NoMap
  BY <1>2, <1>3 DEF NoMap, Ids, NoId
<1>5. ProcOf[o] \in Procs BY SharedMemoryAssumption
<1>6. Exists(obj[o].id)
  BY <1>2, <1>3, <1>4, <1>5 DEF Inv, MappedExist
<1> QED BY <1>1, <1>2, <1>4, <1>6

\* A step of a process p that changes nothing but its own call and at most one
\* object of its own keeps what other processes rely on.
LEMMA OwnStep ==
  ASSUME Inv, NEW p \in Procs, NEW c,
         c \in Calls, call' = [call EXCEPT ![p] = c],
         obj' \in [Objects -> ObjectType],
         \A o \in Objects : ProcOf[o] # p => obj'[o] = obj[o],
         \A i \in Ids : status[i] # "unused" => size'[i] = size[i],
         KernelTypeOK', MappedExist', AttachedIsMapped',
         CallOK(p, c)'
  PROVE  Inv'
<1>1. call' \in [Procs -> Calls] BY DEF Inv
<1>2. ASSUME NEW q \in Procs PROVE CallOK(q, call[q])'
  <2>1. CASE q = p BY <2>1 DEF Inv, CallOK
  <2>2. CASE q # p
    <3> DEFINE d == call[q]
    <3>1. d \in Calls /\ call'[q] = d /\ CallOK(q, d) BY <2>2 DEF Inv, CallsOK
    <3>2. CASE d.obj = None /\ d.pc = "idle"
      BY <3>1, <3>2 DEF CallOK
    <3>3. CASE ~(d.obj = None /\ d.pc = "idle")
      <4>1. d.obj \in Objects /\ ProcOf[d.obj] = q BY <3>1, <3>3 DEF CallOK, Calls
      <4>2. obj'[d.obj] = obj[d.obj] BY <4>1, <2>2
      <4>3. ASSUME d.pc = "copy" PROVE size'[obj[d.obj].id] = size[obj[d.obj].id]
        <5>1. obj[d.obj].address # NULL BY <3>1, <4>3 DEF CallOK
        <5>2. obj[d.obj].id \in Ids /\ Exists(obj[d.obj].id) BY <4>1, <5>1, AttachedExists
        <5> QED BY <5>2 DEF Exists
      <4> HIDE DEF d
      <4> QED BY <3>1, <4>1, <4>2, <4>3 DEF CallOK
    <3> QED BY <3>2, <3>3
  <2> QED BY <2>1, <2>2
<1> QED BY <1>1, <1>2 DEF Inv, CallsOK

Results == {"ok", "attached", "Value", "Existential", "Permissions", "NotAttached",
            "Memory", "OSError"}

\* A step that changes no object, no mapping and no size.
LEMMA CallStep ==
  ASSUME Inv, NEW p \in Procs, NEW c,
         c \in Calls, call' = [call EXCEPT ![p] = c],
         UNCHANGED <<size, maps, obj>>,
         KernelTypeOK', MappedExist',
         CallOK(p, c)
  PROVE  Inv'
<1>1. AttachedIsMapped' BY DEF Inv, AttachedIsMapped
<1>2. CallOK(p, c)' BY DEF CallOK
<1>3. obj' \in [Objects -> ObjectType] BY DEF Inv
<1> QED BY <1>1, <1>2, <1>3, OwnStep

\* A step that changes the call alone.
LEMMA OnlyCallStep ==
  ASSUME Inv, NEW p \in Procs, NEW c,
         c \in Calls, call' = [call EXCEPT ![p] = c],
         UNCHANGED <<segment, bytes, maps, obj>>,
         CallOK(p, c)
  PROVE  Inv'
<1>1. KernelTypeOK' /\ MappedExist'
  BY DEF Inv, KernelTypeOK, MappedExist, Exists, segment
<1>2. UNCHANGED <<size, maps, obj>> BY DEF segment
<1> QED BY <1>1, <1>2, CallStep

\* How a call ends.
LEMMA ResultOK ==
  ASSUME NEW o \in Objects, NEW r \in Results,
         r = "Existential" => obj[o].address = NULL
  PROVE  /\ [pc |-> "idle", obj |-> o, res |-> r] \in Calls
         /\ CallOK(ProcOf[o], [pc |-> "idle", obj |-> o, res |-> r])
BY DEF Calls, CallOK, Results

LEMMA FailStep ==
  ASSUME Inv, NEW o \in Objects, NEW r \in Results, Fail(o, r),
         r = "Existential" => obj[o].address = NULL
  PROVE  Inv'
<1> DEFINE c == [pc |-> "idle", obj |-> o, res |-> r]
<1>1. c \in Calls /\ CallOK(ProcOf[o], c) BY ResultOK
<1>2. call' = [call EXCEPT ![ProcOf[o]] = c] /\ UNCHANGED <<segment, bytes, maps, obj>>
  BY DEF Fail, Return, Finish
<1>3. ProcOf[o] \in Procs BY SharedMemoryAssumption
<1> HIDE DEF c
<1> QED BY <1>1, <1>2, <1>3, OnlyCallStep

\* An object that loses its address, or goes.
LEMMA ForgetMapped ==
  ASSUME Inv, NEW o \in Objects, NEW h \in ObjectType, h.address = NULL,
         obj' = [obj EXCEPT ![o] = h], UNCHANGED maps
  PROVE  AttachedIsMapped'
BY DEF Inv, AttachedIsMapped

LEMMA ForgetStep ==
  ASSUME Inv, NEW o \in Objects, NEW h \in ObjectType, h.address = NULL,
         NEW r \in Results,
         obj' = [obj EXCEPT ![o] = h], Return(o, r), UNCHANGED <<segment, bytes, maps>>
  PROVE  Inv'
<1> DEFINE c == [pc |-> "idle", obj |-> o, res |-> r]
<1>1. KernelTypeOK' /\ MappedExist' /\ UNCHANGED <<size, maps>>
  BY DEF Inv, KernelTypeOK, MappedExist, Exists, segment
<1>2. obj' \in [Objects -> ObjectType] /\ obj'[o] = h BY DEF Inv
<1>3. AttachedIsMapped' BY <1>1, ForgetMapped
<1>4. c \in Calls BY DEF Calls, Results
<1>5. CallOK(ProcOf[o], c)' BY <1>2 DEF CallOK
<1>6. call' = [call EXCEPT ![ProcOf[o]] = c] BY DEF Return, Finish
<1>7. \A q \in Objects : ProcOf[q] # ProcOf[o] => obj'[q] = obj[q] BY DEF Inv
<1>8. ProcOf[o] \in Procs BY SharedMemoryAssumption
<1> HIDE DEF c
<1> QED BY <1>1, <1>2, <1>3, <1>4, <1>5, <1>6, <1>7, <1>8, OwnStep

LEMMA NoAddressType ==
  ASSUME NEW h \in ObjectType \ {NoObject}
  PROVE  /\ [h EXCEPT !.address = NULL] \in ObjectType
         /\ [h EXCEPT !.address = NULL].address = NULL
BY DEF ObjectType

LEMMA AbandonStep ==
  ASSUME Inv, NEW o \in Objects, NEW r \in Results, Abandon(o, r)
  PROVE  Inv'
<1>1. NoObject \in ObjectType /\ NoObject.address = NULL BY DEF ObjectType, NoObject
<1> QED BY <1>1, ForgetStep DEF Abandon

\* What is still mapped is not reaped.
LEMMA ReapKeeps ==
  ASSUME KernelTypeOK, NEW ms, Reap(ms), NEW i, Exists(i), Mapped(i, ms)
  PROVE  Exists(i)'
BY DEF KernelTypeOK, Reap, Exists

LEMMA ReapType ==
  ASSUME KernelTypeOK, NEW ms, Reap(ms)
  PROVE  status' \in [Ids -> {"unused", "live", "marked", "gone"}]
BY DEF KernelTypeOK, Reap

----------------------------------------------------------------------------
(* Attaching and detaching.                                                *)

LEMMA AttachedMaps ==
  ASSUME Inv, NEW o \in Objects, NEW self \in ObjectType \ {NoObject},
         NEW at \in Addresses \union {NULL},
         NEW flags \in SUBSET {"RDONLY", "REMAP"}, "REMAP" \notin flags,
         Attached(o, self, at, flags)
  PROVE  /\ KernelTypeOK' /\ MappedExist' /\ AttachedIsMapped'
         /\ obj' \in [Objects -> ObjectType]
         /\ obj'[o] # NoObject /\ obj'[o].address # NULL
         /\ obj'[o].read_only = ("RDONLY" \in flags)
         /\ \A q \in Objects : q # o => obj'[q] = obj[q]
         /\ size' = size
<1> DEFINE p == ProcOf[o]
           m == [id |-> self.id, rdonly |-> "RDONLY" \in flags]
<1>p. p \in Procs BY SharedMemoryAssumption
<1>0. PICK a \in Places(p, at, flags) :
         /\ maps' = [maps EXCEPT ![p][a] = m]
         /\ obj' = [obj EXCEPT ![o] = OnAttach(self, a, flags)]
         /\ Reap(maps')
         /\ UNCHANGED <<idOf, size, mode, bytes>>
         /\ ShmatErrno(p, self.id, at, flags) = "none"
  BY DEF Attached
<1>1. a \in Addresses /\ maps[p][a] = NoMap BY DEF Places
<1>2. self.id \in Ids /\ m \in [id : Ids, rdonly : BOOLEAN] BY DEF ObjectType
<1>3. Exists(self.id) BY <1>0 DEF ShmatErrno
<1> DEFINE h == OnAttach(self, a, flags)
<1>4. /\ h \in ObjectType /\ h # NoObject /\ h.address = a /\ h.id = self.id
      /\ h.read_only = ("RDONLY" \in flags)
  <2> DEFINE e == [self EXCEPT !.address = a]
             ro == "RDONLY" \in flags
  <2>1. /\ e \in [key : Keys \union {"-1"}, id : Ids,
                  address : Addresses \union {NULL}, read_only : BOOLEAN]
        /\ e.address = a /\ e.id = self.id
    BY <1>1 DEF ObjectType
  <2>2. h = [e EXCEPT !.read_only = ro] BY Zenon DEF OnAttach
  <2>3. ro \in BOOLEAN OBVIOUS
  <2> HIDE DEF e, h, ro
  <2>4. /\ h \in [key : Keys \union {"-1"}, id : Ids,
                  address : Addresses \union {NULL}, read_only : BOOLEAN]
        /\ h.address = a /\ h.id = self.id /\ h.read_only = ro
    BY <2>1, <2>2, <2>3
  <2>5. h # NoObject BY <1>2, <2>4 DEF NoObject, Ids, NoId
  <2> QED BY <2>4, <2>5 DEF ro, ObjectType
<1>5. a # NULL BY <1>1, SharedMemoryAssumption
<1> HIDE DEF h
<1>6. /\ maps' \in [Procs -> [Addresses -> [id : Ids, rdonly : BOOLEAN] \union {NoMap}]]
      /\ maps'[p][a] = m
      /\ \A q \in Procs, b \in Addresses : ~(q = p /\ b = a) => maps'[q][b] = maps[q][b]
  <2> HIDE DEF m
  <2> QED BY <1>p, <1>0, <1>1, <1>2 DEF Inv, KernelTypeOK
<1>7. KernelTypeOK'
  <2>1. status' \in [Ids -> {"unused", "live", "marked", "gone"}]
    BY <1>0, ReapType DEF Inv
  <2> QED BY <2>1, <1>0, <1>6 DEF Inv, KernelTypeOK
<1>8. MappedExist'
  <2> SUFFICES ASSUME NEW q \in Procs, NEW b \in Addresses, maps'[q][b] # NoMap,
                      NEW i, i = maps'[q][b].id
               PROVE  Exists(i)'
    BY DEF MappedExist, Exists
  <2>1. Exists(i) BY <1>3, <1>6 DEF Inv, MappedExist
  <2>2. Mapped(i, maps') BY DEF Mapped
  <2> QED BY <2>1, <2>2, <1>0, ReapKeeps DEF Inv
<1>9. obj'[o] = h /\ obj' \in [Objects -> ObjectType] /\ \A q \in Objects : q # o => obj'[q] = obj[q]
  BY <1>0, <1>4 DEF Inv, h
<1>10. AttachedIsMapped'
  <2>1. ASSUME NEW q \in Objects, q # o, obj[q].address # NULL
        PROVE  /\ maps'[ProcOf[q]][obj[q].address] = maps[ProcOf[q]][obj[q].address]
               /\ ProcOf[q] = p => obj[q].address # a
    <3>1. obj[q].address \in Addresses /\ maps[ProcOf[q]][obj[q].address] # NoMap
      BY <2>1, AttachedExists
    <3>2. ProcOf[q] \in Procs BY SharedMemoryAssumption
    <3> QED BY <3>1, <3>2, <1>1, <1>6
  <2>2. maps'[p][h.address] = [id |-> h.id, rdonly |-> h.read_only]
    BY <1>4, <1>6
  <2> QED BY <2>1, <2>2, <1>4, <1>9 DEF Inv, AttachedIsMapped
<1> QED BY <1>0, <1>4, <1>5, <1>7, <1>8, <1>9, <1>10

LEMMA UnmapKeeps ==
  ASSUME Inv, Reap(maps'), UNCHANGED <<idOf, size, mode, bytes>>,
         maps' \in [Procs -> [Addresses -> [id : Ids, rdonly : BOOLEAN] \union {NoMap}]],
         \A q \in Procs, b \in Addresses : maps'[q][b] \in {maps[q][b], NoMap}
  PROVE  KernelTypeOK' /\ MappedExist'
<1>1. KernelTypeOK'
  <2>1. status' \in [Ids -> {"unused", "live", "marked", "gone"}] BY ReapType DEF Inv
  <2> QED BY <2>1 DEF Inv, KernelTypeOK
<1>2. MappedExist'
  <2> SUFFICES ASSUME NEW q \in Procs, NEW b \in Addresses, maps'[q][b] # NoMap,
                      NEW i, i = maps'[q][b].id
               PROVE  Exists(i)'
    BY DEF MappedExist, Exists
  <2>1. Exists(i) BY DEF Inv, MappedExist
  <2>2. Mapped(i, maps') BY DEF Mapped
  <2> QED BY <2>1, <2>2, ReapKeeps DEF Inv
<1> QED BY <1>1, <1>2

LEMMA DetachInv ==
  ASSUME Inv, NEW o \in Objects, SharedMemory_detach(o)
  PROVE  Inv'
<1> DEFINE p == ProcOf[o]
           a == obj[o].address
           h == [obj[o] EXCEPT !.address = NULL]
           found == a # NULL /\ maps[p][a] # NoMap
           r == IF found THEN "ok" ELSE "NotAttached"
<1>p. p \in Procs BY SharedMemoryAssumption
<1>1. /\ maps' = IF found THEN [maps EXCEPT ![p][a] = NoMap] ELSE maps
      /\ Reap(maps') /\ UNCHANGED <<idOf, size, mode, bytes>>
      /\ call' = [call EXCEPT ![p] = [pc |-> "idle", obj |-> o, res |-> r]]
      /\ obj[o] # NoObject
  BY DEF SharedMemory_detach, Return, Finish, CanUse
<1>2. obj' = [obj EXCEPT ![o] = h]
  BY DEF SharedMemory_detach, Inv
<1>3. h \in ObjectType /\ h.address = NULL /\ obj[o] \in ObjectType
  <2>1. obj[o] \in ObjectType \ {NoObject} BY <1>1 DEF Inv
  <2> QED BY <2>1, NoAddressType
<1>4. found => a \in Addresses BY <1>3 DEF ObjectType, NoObject
<1>5. /\ maps' \in [Procs -> [Addresses -> [id : Ids, rdonly : BOOLEAN] \union {NoMap}]]
      /\ \A q \in Procs, b \in Addresses : maps'[q][b] \in {maps[q][b], NoMap}
      /\ \A q \in Procs, b \in Addresses : ~(q = p /\ b = a) => maps'[q][b] = maps[q][b]
  <2> HIDE DEF a, p, found
  <2>1. CASE found BY <2>1, <1>1, <1>4, <1>p DEF Inv, KernelTypeOK
  <2>2. CASE ~found BY <2>2, <1>1 DEF Inv, KernelTypeOK
  <2> QED BY <2>1, <2>2
<1>6. KernelTypeOK' /\ MappedExist' BY <1>1, <1>5, UnmapKeeps
<1> HIDE DEF h
<1>7. obj' \in [Objects -> ObjectType] /\ obj'[o] = h /\ \A q \in Objects : q # o => obj'[q] = obj[q]
  BY <1>2, <1>3 DEF Inv
<1>8. AttachedIsMapped'
  <2>1. ASSUME NEW q \in Objects, q # o, obj[q].address # NULL
        PROVE  maps'[ProcOf[q]][obj[q].address] = maps[ProcOf[q]][obj[q].address]
    <3>1. obj[q].address \in Addresses /\ ProcOf[q] \in Procs
      BY <2>1, AttachedExists, SharedMemoryAssumption
    <3>2. ProcOf[q] = p => obj[q].address # a
      BY <2>1 DEF Inv, AttachedIsMapped
    <3> QED BY <3>1, <3>2, <1>5
  <2> QED BY <2>1, <1>3, <1>7 DEF Inv, AttachedIsMapped
<1>9. PICK res \in Results \ {"Existential"} :
        call' = [call EXCEPT ![p] = [pc |-> "idle", obj |-> o, res |-> res]]
  BY <1>1 DEF Results
<1> DEFINE c == [pc |-> "idle", obj |-> o, res |-> res]
<1>10. c \in Calls BY <1>9 DEF Calls, Results
<1>11. CallOK(p, c)' BY <1>9 DEF CallOK
<1>12. \A q \in Objects : ProcOf[q] # p => obj'[q] = obj[q] BY <1>7
<1>13. \A i \in Ids : status[i] # "unused" => size'[i] = size[i] BY <1>1
<1>14. call' = [call EXCEPT ![p] = c] BY <1>9
<1> HIDE DEF c
<1> QED BY <1>p, <1>6, <1>7, <1>8, <1>10, <1>11, <1>12, <1>13, <1>14, OwnStep

LEMMA ExitInv ==
  ASSUME Inv, NEW p \in Procs, ExitProcess(p)
  PROVE  Inv'
<1> DEFINE c == [pc |-> "idle", obj |-> None, res |-> "ok"]
<1>1. /\ maps' = [maps EXCEPT ![p] = [a \in Addresses |-> NoMap]]
      /\ obj' = [o \in Objects |-> IF ProcOf[o] = p THEN NoObject ELSE obj[o]]
      /\ call' = [call EXCEPT ![p] = c]
      /\ Reap(maps') /\ UNCHANGED <<idOf, size, mode, bytes>>
  BY DEF ExitProcess
<1>2. /\ maps' \in [Procs -> [Addresses -> [id : Ids, rdonly : BOOLEAN] \union {NoMap}]]
      /\ \A q \in Procs, b \in Addresses : maps'[q][b] \in {maps[q][b], NoMap}
      /\ \A q \in Procs : q # p => maps'[q] = maps[q]
  BY <1>1 DEF Inv, KernelTypeOK
<1>3. KernelTypeOK' /\ MappedExist' BY <1>1, <1>2, UnmapKeeps
<1>4. /\ obj' \in [Objects -> ObjectType]
      /\ \A q \in Objects : ProcOf[q] # p => obj'[q] = obj[q]
      /\ \A q \in Objects : ProcOf[q] = p => obj'[q].address = NULL
  BY <1>1 DEF Inv, ObjectType, NoObject
<1>5. AttachedIsMapped'
  BY <1>2, <1>4, SharedMemoryAssumption DEF Inv, AttachedIsMapped
<1>6. c \in Calls BY DEF Calls
<1>7. CallOK(p, c)' BY DEF CallOK
<1> HIDE DEF c
<1> QED BY <1>1, <1>3, <1>4, <1>5, <1>6, <1>7, OwnStep

----------------------------------------------------------------------------
(* The other actions.                                                      *)

\* What shmat raises is an exception other than ExistentialError.
LEMMA AttachErrors ==
  ASSUME NEW p, NEW i, NEW at, NEW flags, ShmatErrno(p, i, at, flags) # "none"
  PROVE  /\ AttachError[ShmatErrno(p, i, at, flags)] \in Results
         /\ AttachError[ShmatErrno(p, i, at, flags)] # "Existential"
<1> DEFINE e == ShmatErrno(p, i, at, flags)
<1>1. e \in {"EINVAL", "EACCES", "ENOMEM"}
  BY Zenon DEF ShmatErrno
<1> HIDE DEF e
<1>2. AttachError[e] \in Results /\ AttachError[e] # "Existential"
  BY <1>1 DEF AttachError, Results
<1> QED BY <1>2 DEF e

\* shm_get_value and its kin raise ExistentialError only if the segment is gone.
LEMMA StatErrors ==
  ASSUME Inv, NEW o \in Objects, StatErrno(obj[o].id) # "none"
  PROVE  /\ ShmctlError[StatErrno(obj[o].id)] \in Results
         /\ ShmctlError[StatErrno(obj[o].id)] = "Existential" => obj[o].address = NULL
<1>1. StatErrno(obj[o].id) \in {"EINVAL", "EACCES"} BY DEF StatErrno
<1>2. StatErrno(obj[o].id) = "EINVAL" => obj[o].address = NULL
  BY AttachedExists DEF StatErrno
<1> QED BY <1>1, <1>2 DEF ShmctlError, Results

\* A successful attachment and what follows it.
LEMMA AttachedStep ==
  ASSUME Inv, NEW o \in Objects, NEW self \in ObjectType \ {NoObject},
         NEW at \in Addresses \union {NULL},
         NEW flags \in SUBSET {"RDONLY", "REMAP"}, "REMAP" \notin flags,
         Attached(o, self, at, flags),
         NEW c, call' = [call EXCEPT ![ProcOf[o]] = c],
         \/ c = [pc |-> "stat", obj |-> o] /\ "RDONLY" \notin flags
         \/ c = [pc |-> "idle", obj |-> o, res |-> "ok"]
         \/ c = [pc |-> "idle", obj |-> o, res |-> "attached"]
  PROVE  Inv'
<1>1. /\ KernelTypeOK' /\ MappedExist' /\ AttachedIsMapped'
      /\ obj' \in [Objects -> ObjectType]
      /\ obj'[o] # NoObject /\ obj'[o].address # NULL
      /\ obj'[o].read_only = ("RDONLY" \in flags)
      /\ \A q \in Objects : q # o => obj'[q] = obj[q]
      /\ size' = size
  BY AttachedMaps
<1>2. c \in Calls BY DEF Calls
<1>3. CallOK(ProcOf[o], c)'
  <2>1. CASE c = [pc |-> "stat", obj |-> o] /\ "RDONLY" \notin flags
    <3>1. ~obj'[o].read_only BY <1>1, <2>1
    <3> QED BY <1>1, <2>1, <3>1 DEF CallOK
  <2>2. CASE c = [pc |-> "idle", obj |-> o, res |-> "ok"]
    BY <2>2 DEF CallOK
  <2>3. CASE c = [pc |-> "idle", obj |-> o, res |-> "attached"]
    BY <2>3 DEF CallOK
  <2> QED BY <2>1, <2>2, <2>3
<1>4. ProcOf[o] \in Procs BY SharedMemoryAssumption
<1>5. \A q \in Objects : ProcOf[q] # ProcOf[o] => obj'[q] = obj[q] BY <1>1
<1> QED BY <1>1, <1>2, <1>3, <1>4, <1>5, OwnStep

LEMMA AttachInv ==
  ASSUME Inv, NEW o \in Objects, NEW at \in Addresses \union {NULL},
         NEW flags \in AttachFlags, "REMAP" \notin flags,
         SharedMemory_attach(o, at, flags)
  PROVE  Inv'
<1>1. flags \in SUBSET {"RDONLY", "REMAP"} BY SharedMemoryAssumption
<1>2. obj[o] \in ObjectType \ {NoObject} BY DEF SharedMemory_attach, CanUse, Inv
<1>3. CASE Attached(o, obj[o], at, flags) /\ Return(o, "ok")
  <2>1. call' = [call EXCEPT ![ProcOf[o]] = [pc |-> "idle", obj |-> o, res |-> "ok"]]
    BY <1>3 DEF Return, Finish
  <2> QED BY <1>1, <1>2, <1>3, <2>1, AttachedStep
<1>4. CASE ~(Attached(o, obj[o], at, flags) /\ Return(o, "ok"))
  <2>1. PICK e : /\ e = ShmatErrno(ProcOf[o], obj[o].id, at, flags) /\ e # "none"
                 /\ obj' = [obj EXCEPT ![o] = OnAttachFailure(obj[o])]
                 /\ Return(o, AttachError[e])
                 /\ UNCHANGED <<segment, bytes, maps>>
    BY <1>4 DEF SharedMemory_attach
  <2>2. AttachError[e] \in Results BY <2>1, AttachErrors
  <2>3. /\ OnAttachFailure(obj[o]) \in ObjectType
        /\ OnAttachFailure(obj[o]).address = NULL
    BY <1>2, NoAddressType DEF OnAttachFailure
  <2> QED BY <2>1, <2>2, <2>3, ForgetStep
<1> QED BY <1>3, <1>4

LEMMA ModuleAttachInv ==
  ASSUME Inv, NEW o \in Objects, NEW i \in Ids, NEW at \in Addresses \union {NULL},
         NEW flags \in AttachFlags, "REMAP" \notin flags,
         sysv_ipc_attach(o, i, at, flags)
  PROVE  Inv'
<1>1. flags \in SUBSET {"RDONLY", "REMAP"} BY SharedMemoryAssumption
<1>2. CASE \E k \in Keys \union {"-1"} :
             Attached(o, [key |-> k, id |-> i, address |-> NULL, read_only |-> FALSE],
                      at, flags) /\ Return(o, "attached")
  <2>1. PICK k \in Keys \union {"-1"} :
             Attached(o, [key |-> k, id |-> i, address |-> NULL, read_only |-> FALSE],
                      at, flags) /\ Return(o, "attached")
    BY <1>2
  <2>2. call' = [call EXCEPT ![ProcOf[o]] = [pc |-> "idle", obj |-> o, res |-> "attached"]]
    BY <2>1 DEF Return, Finish
  <2> DEFINE self == [key |-> k, id |-> i, address |-> NULL, read_only |-> FALSE]
  <2>3. self \in ObjectType \ {NoObject} BY DEF ObjectType, NoObject, Ids, NoId
  <2> HIDE DEF self
  <2>4. Attached(o, self, at, flags) BY <2>1 DEF self
  <2> QED BY <1>1, <2>2, <2>3, <2>4, AttachedStep
<1>3. CASE ~\E k \in Keys \union {"-1"} :
             Attached(o, [key |-> k, id |-> i, address |-> NULL, read_only |-> FALSE],
                      at, flags) /\ Return(o, "attached")
  <2>1. PICK e : /\ e = ShmatErrno(ProcOf[o], i, at, flags) /\ e # "none"
                 /\ Fail(o, AttachError[e])
    BY <1>3 DEF sysv_ipc_attach
  <2>2. AttachError[e] \in Results /\ AttachError[e] # "Existential"
    BY <2>1, AttachErrors
  <2> QED BY <2>1, <2>2, FailStep
<1> QED BY <1>2, <1>3

LEMMA InitAttachInv ==
  ASSUME Inv, NEW o \in Objects, InitAttach(o)
  PROVE  Inv'
<1> DEFINE c == call[ProcOf[o]]
           flags == IF "w" \in c.mode THEN {} ELSE {"RDONLY"}
           r == [pc |-> "idle", obj |-> o, res |-> "ok"]
           s == [pc |-> "stat", obj |-> o]
<1>1. c.pc = "shmat" /\ c.obj = o BY DEF InitAttach
<1>2. ProcOf[o] \in Procs BY SharedMemoryAssumption
<1>3. obj[o] \in ObjectType \ {NoObject}
  BY <1>1, <1>2 DEF Inv, CallsOK, CallOK
<1>4. flags \in SUBSET {"RDONLY", "REMAP"} /\ "REMAP" \notin flags OBVIOUS
<1>5. CASE Attached(o, obj[o], NULL, flags)
           /\ IF Fills(c.flags, c.mode) THEN call' = [call EXCEPT ![ProcOf[o]] = s]
                                        ELSE Return(o, "ok")
  <2>1. CASE Fills(c.flags, c.mode)
    <3>1. "RDONLY" \notin flags BY <2>1 DEF Fills
    <3> HIDE DEF flags
    <3> QED BY <1>3, <1>4, <1>5, <2>1, <3>1, AttachedStep
  <2>2. CASE ~Fills(c.flags, c.mode)
    <3>1. call' = [call EXCEPT ![ProcOf[o]] = r] BY <1>5, <2>2 DEF Return, Finish
    <3> HIDE DEF flags
    <3> QED BY <1>3, <1>4, <1>5, <3>1, AttachedStep
  <2> QED BY <2>1, <2>2
<1>6. CASE \E e : /\ e = ShmatErrno(ProcOf[o], obj[o].id, NULL, flags) /\ e # "none"
                  /\ Abandon(o, AttachError[e])
  <2>1. PICK e : /\ e = ShmatErrno(ProcOf[o], obj[o].id, NULL, flags) /\ e # "none"
                 /\ Abandon(o, AttachError[e])
    BY <1>6
  <2>2. AttachError[e] \in Results BY <2>1, AttachErrors
  <2> QED BY <2>1, <2>2, AbandonStep
<1> QED BY <1>5, <1>6 DEF InitAttach

\* A copy that begins or goes on within the segment of an attached object.
LEMMA CopyingStep ==
  ASSUME Inv, NEW o \in Objects, obj[o].address # NULL,
         NEW positions, positions \subseteq 0..size[obj[o].id] - 1,
         NEW byte \in {"init", None} \union Procs,
         byte # None => ~obj[o].read_only,
         Copying(o, positions, byte),
         UNCHANGED <<size, maps, obj>>, KernelTypeOK', MappedExist'
  PROVE  Inv'
<1>1. obj[o] # NoObject /\ obj[o].id \in Ids BY AttachedExists
<1>2. ProcOf[o] \in Procs BY SharedMemoryAssumption
<1>3. CASE positions = {}
  <2> DEFINE c == [pc |-> "idle", obj |-> o, res |-> "ok"]
  <2>1. call' = [call EXCEPT ![ProcOf[o]] = c]
    BY <1>3 DEF Copying, Return, Finish
  <2>2. c \in Calls /\ CallOK(ProcOf[o], c) BY ResultOK DEF Results
  <2> HIDE DEF c
  <2> QED BY <1>2, <2>1, <2>2, CallStep
<1>4. CASE positions # {}
  <2> DEFINE c == [pc |-> "copy", obj |-> o, todo |-> positions, byte |-> byte]
  <2>1. call' = [call EXCEPT ![ProcOf[o]] = c] BY <1>4 DEF Copying
  <2>2. positions \in (SUBSET Positions) \ {{}}
    <3> DEFINE s == size[obj[o].id]
    <3>1. s \in 0..SHMMAX BY <1>1 DEF Inv, KernelTypeOK
    <3>2. positions \subseteq 0..s - 1 OBVIOUS
    <3> HIDE DEF s
    <3>3. 0..s - 1 \subseteq Positions BY <3>1, SharedMemoryAssumption DEF Positions
    <3> QED BY <1>4, <3>2, <3>3
  <2> DEFINE T == [pc : {"copy"}, obj : Objects, todo : (SUBSET Positions) \ {{}},
                   byte : {"init", None} \union Procs]
  <2>3. c \in Calls
    <3>1. c \in T BY <2>2
    <3> HIDE DEF c
    <3> QED BY <3>1, Zenon DEF Calls
  <2>4. CallOK(ProcOf[o], c) BY <1>1 DEF CallOK
  <2> HIDE DEF c
  <2> QED BY <1>2, <2>1, <2>3, <2>4, CallStep
<1> QED BY <1>3, <1>4

LEMMA QuietKernel ==
  ASSUME Inv, UNCHANGED <<segment, bytes, maps>>
  PROVE  KernelTypeOK' /\ MappedExist'
BY DEF Inv, KernelTypeOK, MappedExist, Exists, segment

LEMMA InitFillInv ==
  ASSUME Inv, NEW o \in Objects, InitFill(o)
  PROVE  Inv'
<1>1. call[ProcOf[o]].pc = "stat" /\ call[ProcOf[o]].obj = o BY DEF InitFill
<1>2. ProcOf[o] \in Procs BY SharedMemoryAssumption
<1>3. obj[o].address # NULL /\ ~obj[o].read_only
  BY <1>1, <1>2 DEF Inv, CallsOK, CallOK
<1>4. CASE StatErrno(obj[o].id) # "none" /\ Abandon(o, ShmctlError[StatErrno(obj[o].id)])
  BY <1>4, StatErrors, AbandonStep
<1>5. CASE /\ Copying(o, FillExtent(obj[o].id), "init")
           /\ UNCHANGED <<segment, bytes, maps, obj>>
  <2>1. UNCHANGED <<size, maps, obj>> BY <1>5 DEF segment
  <2>2. obj[o].id \in Ids /\ size[obj[o].id] \in Int
    BY <1>3, AttachedExists, SharedMemoryAssumption DEF Inv, KernelTypeOK
  <2>3. FillExtent(obj[o].id) \subseteq 0..size[obj[o].id] - 1
    BY <2>2 DEF FillExtent, Extent
  <2> QED BY <1>3, <1>5, <2>1, <2>3, QuietKernel, CopyingStep
<1> QED BY <1>4, <1>5 DEF InitFill

LEMMA ReadInv ==
  ASSUME Inv, NEW o \in Objects, NEW n \in ByteCounts, NEW off \in Offsets,
         SharedMemory_read(o, n, off)
  PROVE  Inv'
<1> DEFINE sz     == size[obj[o].id]
           offset == ULong(off)
<1>1. offset \in 0..ULONG_MAX BY ULongType, SharedMemoryAssumption
<1>2. \A r \in {"NotAttached", "Value"} : Fail(o, r) => Inv'
  BY FailStep DEF Results
<1>3. StatErrno(obj[o].id) # "none" /\ Fail(o, ShmctlError[StatErrno(obj[o].id)]) => Inv'
  BY StatErrors, FailStep
<1>4. ASSUME obj[o].address # NULL, ~(offset >= sz), ~(n < 0),
             Copying(o, Extent(offset, ReadCount(n, offset, sz)), None),
             UNCHANGED <<segment, bytes, maps, obj>>
      PROVE  Inv'
  <2>1. UNCHANGED <<size, maps, obj>> BY <1>4 DEF segment
  <2>2. sz \in 0..SHMMAX /\ n \in Nat
    BY <1>4, AttachedExists, SharedMemoryAssumption DEF Inv, KernelTypeOK
  <2> HIDE DEF offset
  <2>3. Extent(offset, ReadCount(n, offset, sz)) \subseteq 0..sz - 1
    BY <1>1, <1>4, <2>2, ReadInBounds
  <2> QED BY <1>4, <2>1, <2>3, QuietKernel, CopyingStep
<1> QED BY <1>2, <1>3, <1>4 DEF SharedMemory_read

LEMMA WriteInv ==
  ASSUME Inv, NEW o \in Objects, NEW len \in Lengths, NEW off \in Offsets,
         SharedMemory_write(o, len, off)
  PROVE  Inv'
<1> DEFINE sz     == size[obj[o].id]
           offset == ULong(off)
<1>1. offset \in 0..ULONG_MAX /\ len \in Nat BY ULongType, SharedMemoryAssumption
<1>2. \A r \in {"NotAttached", "Value", "OSError"} : Fail(o, r) => Inv'
  BY FailStep DEF Results
<1>3. StatErrno(obj[o].id) # "none" /\ Fail(o, ShmctlError[StatErrno(obj[o].id)]) => Inv'
  BY StatErrors, FailStep
<1>4. ASSUME obj[o].address # NULL, ~obj[o].read_only, WriteFits(len, offset, sz),
             Copying(o, Extent(offset, len), ProcOf[o]),
             UNCHANGED <<segment, bytes, maps, obj>>
      PROVE  Inv'
  <2>1. UNCHANGED <<size, maps, obj>> BY <1>4 DEF segment
  <2>2. sz \in 0..SHMMAX BY <1>4, AttachedExists DEF Inv, KernelTypeOK
  <2>3. ProcOf[o] \in Procs BY SharedMemoryAssumption
  <2> HIDE DEF offset
  <2>4. Extent(offset, len) \subseteq 0..sz - 1
    BY <1>1, <1>4, <2>2, WriteInBounds
  <2> QED BY <1>4, <2>1, <2>3, <2>4, QuietKernel, CopyingStep
<1> QED BY <1>2, <1>3, <1>4 DEF SharedMemory_write

LEMMA CopyByteInv ==
  ASSUME Inv, NEW o \in Objects, CopyByte(o)
  PROVE  Inv'
<1> DEFINE c == call[ProcOf[o]]
           i == maps[ProcOf[o]][obj[o].address].id
<1>1. c.pc = "copy" /\ c.obj = o BY DEF CopyByte
<1>2. ProcOf[o] \in Procs BY SharedMemoryAssumption
<1>3. c \in Calls /\ CallOK(ProcOf[o], c) BY <1>2 DEF Inv, CallsOK
<1>4. /\ c.byte \in {"init", None} \union Procs
      /\ c.todo \subseteq Positions
  BY <1>1, <1>3 DEF Calls
<1>5. /\ obj[o].address # NULL
      /\ c.byte # None => ~obj[o].read_only
      /\ c.todo \subseteq 0..size[obj[o].id] - 1
  BY <1>1, <1>3 DEF CallOK
<1>6. PICK n \in c.todo :
         /\ Copying(o, c.todo \ {n}, c.byte)
         /\ bytes' = IF c.byte = None THEN bytes ELSE [bytes EXCEPT ![i][n] = c.byte]
         /\ UNCHANGED <<segment, maps, obj>>
  BY DEF CopyByte
<1>7. UNCHANGED <<idOf, status, size, mode, maps, obj>> BY <1>6 DEF segment
<1>8. bytes' \in [Ids -> [Positions -> {"zero", "init"} \union Procs]]
  <2> DEFINE b == c.byte
             B == {"zero", "init"} \union Procs
  <2>1. b \in {"init", None} \union Procs /\ n \in Positions BY <1>4, <1>6
  <2> HIDE DEF b, c, i
  <2>2. bytes' = IF b = None THEN bytes ELSE [bytes EXCEPT ![i][n] = b]
    BY <1>6 DEF b
  <2>3. bytes \in [Ids -> [Positions -> B]] BY DEF Inv, KernelTypeOK
  <2>4. b # None => b \in B BY <2>1
  <2> HIDE DEF B
  <2>5. CASE b # None
    <3>1. [bytes EXCEPT ![i][n] = b] \in [Ids -> [Positions -> B]]
      BY <2>1, <2>3, <2>4, <2>5
    <3> QED BY <2>2, <2>5, <3>1 DEF B
  <2> QED BY <2>2, <2>3, <2>5 DEF B
<1>9. KernelTypeOK' BY <1>7, <1>8 DEF Inv, KernelTypeOK
<1>10. MappedExist' BY <1>7 DEF Inv, MappedExist, Exists
<1>11. c.todo \ {n} \subseteq 0..size[obj[o].id] - 1 BY <1>5
<1>12. UNCHANGED <<size, maps, obj>> BY <1>7
<1> HIDE DEF c
<1> QED BY <1>4, <1>5, <1>6, <1>9, <1>10, <1>11, <1>12, CopyingStep

LEMMA GetValueInv ==
  ASSUME Inv, NEW o \in Objects, shm_get_value(o)
  PROVE  Inv'
<1>1. CASE StatErrno(obj[o].id) = "none"
  BY <1>1, FailStep DEF shm_get_value, Results
<1>2. CASE StatErrno(obj[o].id) # "none"
  BY <1>2, StatErrors, FailStep DEF shm_get_value
<1> QED BY <1>1, <1>2

LEMMA SetIpcPermInv ==
  ASSUME Inv, NEW o \in Objects, NEW field, NEW m \in Modes,
         shm_set_ipc_perm_value(o, field, m)
  PROVE  Inv'
<1>1. CASE StatErrno(obj[o].id) # "none"
  BY <1>1, StatErrors, FailStep DEF shm_set_ipc_perm_value
<1>2. CASE StatErrno(obj[o].id) = "none"
  <2> DEFINE w == IF field = "mode" THEN m ELSE mode[obj[o].id]
  <2>1. /\ obj[o] # NoObject
        /\ call' = [call EXCEPT ![ProcOf[o]] = [pc |-> "ipcset", obj |-> o, mode |-> w]]
        /\ UNCHANGED <<segment, bytes, maps, obj>>
    BY <1>2 DEF shm_set_ipc_perm_value, CanUse
  <2>2. obj[o].id \in Ids BY <2>1 DEF Inv, ObjectType
  <2>3. w \in SUBSET {"r", "w"} BY <2>2, SharedMemoryAssumption DEF Inv, KernelTypeOK
  <2>4. PICK v \in SUBSET {"r", "w"} :
          call' = [call EXCEPT ![ProcOf[o]] = [pc |-> "ipcset", obj |-> o, mode |-> v]]
    BY <2>1, <2>3
  <2> DEFINE c == [pc |-> "ipcset", obj |-> o, mode |-> v]
  <2>5. c \in Calls BY DEF Calls
  <2>6. CallOK(ProcOf[o], c) BY <2>1 DEF CallOK
  <2>7. ProcOf[o] \in Procs BY SharedMemoryAssumption
  <2> HIDE DEF c
  <2> QED BY <2>1, <2>4, <2>5, <2>6, <2>7, OnlyCallStep DEF c
<1> QED BY <1>1, <1>2

LEMMA IpcSetInv ==
  ASSUME Inv, NEW o \in Objects, IpcSet(o)
  PROVE  Inv'
<1> DEFINE d == call[ProcOf[o]]
<1>1. d.pc = "ipcset" /\ d.obj = o BY DEF IpcSet
<1>2. ProcOf[o] \in Procs BY SharedMemoryAssumption
<1>3. d \in Calls /\ CallOK(ProcOf[o], d) BY <1>2 DEF Inv, CallsOK
<1>4. d.mode \in SUBSET {"r", "w"} BY <1>1, <1>3 DEF Calls
<1>5. CASE Exists(obj[o].id)
  <2> DEFINE c == [pc |-> "idle", obj |-> o, res |-> "ok"]
  <2>1. /\ mode' = [mode EXCEPT ![obj[o].id] = d.mode]
        /\ call' = [call EXCEPT ![ProcOf[o]] = c]
        /\ UNCHANGED <<idOf, status, size, bytes, maps, obj>>
    BY <1>5 DEF IpcSet, Return, Finish
  <2> HIDE DEF d
  <2>2. KernelTypeOK' BY <1>4, <2>1 DEF Inv, KernelTypeOK
  <2>3. MappedExist' BY <2>1 DEF Inv, MappedExist, Exists
  <2>4. c \in Calls /\ CallOK(ProcOf[o], c) BY ResultOK DEF Results
  <2> HIDE DEF c
  <2> QED BY <1>2, <2>1, <2>2, <2>3, <2>4, CallStep
<1>6. CASE ~Exists(obj[o].id)
  <2>1. obj[o].address = NULL BY <1>6, AttachedExists
  <2> QED BY <1>6, <2>1, FailStep DEF IpcSet, Results
<1> QED BY <1>5, <1>6

\* Destruction waits for the last mapping.
LEMMA RemoveStep ==
  ASSUME Inv, NEW p \in Procs, NEW i \in Ids,
         NEW o, o = None \/ (o \in Objects /\ ProcOf[o] = p /\ obj[o].id = i),
         shm_remove(p, o, i)
  PROVE  Inv'
<1>1. UNCHANGED <<size, mode, bytes, maps, obj>> BY DEF shm_remove
<1>2. CASE Exists(i)
  <2> DEFINE c == [pc |-> "idle", obj |-> o, res |-> "ok"]
  <2>1. /\ idOf' = [k \in Keys |-> IF idOf[k] = i THEN NoId ELSE idOf[k]]
        /\ status' = [status EXCEPT ![i] = IF Mapped(i, maps) THEN "marked" ELSE "gone"]
        /\ call' = [call EXCEPT ![p] = c]
    BY <1>2 DEF shm_remove, Finish
  <2>2. KernelTypeOK' BY <1>1, <2>1 DEF Inv, KernelTypeOK
  <2>3. MappedExist'
    <3> SUFFICES ASSUME NEW q \in Procs, NEW b \in Addresses, maps[q][b] # NoMap,
                        NEW j, j = maps[q][b].id
                 PROVE  Exists(j)'
      BY <1>1 DEF MappedExist, Exists
    <3>1. Exists(j) BY DEF Inv, MappedExist
    <3>2. j = i => Mapped(i, maps) BY DEF Mapped
    <3> QED BY <2>1, <3>1, <3>2 DEF Inv, KernelTypeOK, Exists
  <2>4. c \in Calls BY DEF Calls
  <2>5. CallOK(p, c) BY DEF CallOK
  <2> HIDE DEF c
  <2> QED BY <1>1, <2>1, <2>2, <2>3, <2>4, <2>5, CallStep
<1>3. CASE ~Exists(i)
  <2> DEFINE c == [pc |-> "idle", obj |-> o, res |-> "Existential"]
  <2>1. call' = [call EXCEPT ![p] = c] /\ UNCHANGED <<segment, bytes, maps, obj>>
    BY <1>1, <1>3 DEF shm_remove, Finish, segment
  <2>2. c \in Calls BY DEF Calls
  <2>3. CallOK(p, c) BY <1>3, AttachedExists DEF CallOK
  <2> HIDE DEF c
  <2> QED BY <2>1, <2>2, <2>3, OnlyCallStep
<1> QED BY <1>2, <1>3

LEMMA RemoveInv ==
  ASSUME Inv, NEW o \in Objects, SharedMemory_remove(o)
  PROVE  Inv'
<1>1. obj[o] # NoObject /\ shm_remove(ProcOf[o], o, obj[o].id)
  BY DEF SharedMemory_remove, CanUse
<1>2. obj[o].id \in Ids /\ ProcOf[o] \in Procs
  BY <1>1, SharedMemoryAssumption DEF Inv, ObjectType
<1> QED BY <1>1, <1>2, RemoveStep

LEMMA DeallocInv ==
  ASSUME Inv, NEW o \in Objects, SharedMemory_dealloc(o)
  PROVE  Inv'
<1>1. Abandon(o, "ok") BY DEF SharedMemory_dealloc, Abandon
<1> QED BY <1>1, AbandonStep DEF Results

----------------------------------------------------------------------------
(* The constructor's shmget.                                               *)

LEMMA ObtainedStep ==
  ASSUME Inv, NEW o \in Objects, NEW k \in Keys, NEW i \in Ids,
         NEW flags \in Flags, NEW m \in Modes, Obtained(o, k, i, flags, m),
         KernelTypeOK', MappedExist',
         \A j \in Ids : status[j] # "unused" => size'[j] = size[j]
  PROVE  Inv'
<1> DEFINE c == [pc |-> "shmat", obj |-> o, flags |-> flags, mode |-> m]
           h == [key |-> k, id |-> i, address |-> NULL, read_only |-> FALSE]
<1>1. /\ obj' = [obj EXCEPT ![o] = h] /\ call' = [call EXCEPT ![ProcOf[o]] = c]
      /\ UNCHANGED maps
  BY DEF Obtained
<1>2. h \in ObjectType /\ h # NoObject /\ h.address = NULL
  BY DEF ObjectType, NoObject, Ids, NoId
<1> HIDE DEF h
<1>3. obj'[o] = h /\ obj' \in [Objects -> ObjectType] BY <1>1, <1>2 DEF Inv
<1>4. \A q \in Objects : ProcOf[q] # ProcOf[o] => obj'[q] = obj[q] BY <1>1 DEF Inv
<1>5. AttachedIsMapped' BY <1>1, <1>2, ForgetMapped
<1>6. c \in Calls BY DEF Calls
<1>7. CallOK(ProcOf[o], c)' BY <1>2, <1>3 DEF CallOK
<1>8. ProcOf[o] \in Procs BY SharedMemoryAssumption
<1> HIDE DEF c
<1> QED BY <1>1, <1>3, <1>4, <1>5, <1>6, <1>7, <1>8, OwnStep

LEMMA AllocateKeeps ==
  ASSUME Inv, NEW k \in Keys, NEW i \in Ids, NEW m \in Modes, NEW sz \in 1..SHMMAX,
         Allocate(k, i, m, sz), UNCHANGED <<bytes, maps>>
  PROVE  /\ KernelTypeOK' /\ MappedExist'
         /\ \A j \in Ids : status[j] # "unused" => size'[j] = size[j]
<1>1. PICK s \in sz..SHMMAX : size' = [size EXCEPT ![i] = s]
  <2>1. PICK s \in IF RoundsUp THEN sz..SHMMAX ELSE {sz} : size' = [size EXCEPT ![i] = s]
    BY Zenon DEF Allocate
  <2>2. s \in sz..SHMMAX BY <2>1, SharedMemoryAssumption
  <2> QED BY <2>1, <2>2
<1>2. s \in 0..SHMMAX BY SharedMemoryAssumption
<1>3. /\ status[i] = "unused"
      /\ idOf' \in {idOf, [idOf EXCEPT ![k] = i]}
      /\ status' = [status EXCEPT ![i] = "live"]
      /\ mode' = [mode EXCEPT ![i] = m]
  BY DEF Allocate
<1>4. KernelTypeOK' BY <1>1, <1>2, <1>3, SharedMemoryAssumption DEF Inv, KernelTypeOK
<1>5. \A j : Exists(j) => Exists(j)' BY <1>3 DEF Inv, KernelTypeOK, Exists
<1>6. MappedExist'
  <2> SUFFICES ASSUME NEW q \in Procs, NEW b \in Addresses, maps[q][b] # NoMap,
                      NEW j, j = maps[q][b].id
               PROVE  Exists(j)'
    BY DEF MappedExist, Exists
  <2> QED BY <1>5 DEF Inv, MappedExist
<1> QED BY <1>1, <1>3, <1>4, <1>6 DEF Inv, KernelTypeOK

LEMMA ShmgetInv ==
  ASSUME Inv, NEW o \in Objects, obj[o] = NoObject, NEW k \in Keys,
         NEW flags \in Flags, NEW m \in Modes, NEW sz \in Nat,
         Shmget(o, k, flags, m, sz)
  PROVE  Inv'
<1> DEFINE e == ShmgetErrno(k, flags, m, sz)
<1>1. CASE e # "none" /\ Fail(o, InitError[e])
  <2>1. e \in {"EEXIST", "EINVAL", "EACCES", "ENOENT", "ENOSPC"}
    BY <1>1, Zenon DEF ShmgetErrno
  <2> HIDE DEF e
  <2>2. InitError[e] \in Results BY <2>1 DEF InitError, Results
  <2>3. obj[o].address = NULL BY DEF NoObject
  <2> QED BY <1>1, <2>2, <2>3, FailStep
<1>2. CASE idOf[k] # NoId /\ Obtained(o, k, idOf[k], flags, m) /\ UNCHANGED segment
  <2>1. idOf[k] \in Ids BY <1>2 DEF Inv, KernelTypeOK
  <2>2. UNCHANGED <<size, bytes, maps>> BY <1>2 DEF Obtained, segment
  <2> QED BY <1>2, <2>1, <2>2, QuietKernel, ObtainedStep
<1>3. CASE /\ e = "none" /\ idOf[k] = NoId
           /\ \E i \in Ids : Allocate(k, i, m, sz) /\ Obtained(o, k, i, flags, m)
  <2>1. sz \in 1..SHMMAX BY <1>3 DEF ShmgetErrno
  <2>2. PICK i \in Ids : Allocate(k, i, m, sz) /\ Obtained(o, k, i, flags, m) BY <1>3
  <2>3. UNCHANGED <<bytes, maps>> BY <2>2 DEF Obtained
  <2> QED BY <2>1, <2>2, <2>3, AllocateKeeps, ObtainedStep
<1> QED BY <1>1, <1>2, <1>3 DEF Shmget

LEMMA ConstructorInv ==
  ASSUME Inv, NEW o \in Objects, NEW k \in Keys \union {None}, NEW flags \in Flags,
         NEW m \in Modes, NEW sz \in Sizes, SharedMemory_init(o, k, flags, m, sz)
  PROVE  Inv'
<1>1. obj[o] = NoObject BY DEF SharedMemory_init
<1>2. CASE BadFlags(k, flags)
  <2>1. Fail(o, "Value") BY <1>2 DEF SharedMemory_init
  <2> QED BY <2>1, FailStep DEF Results
<1>3. CASE ~BadFlags(k, flags)
  <2>1. PICK key \in Keys : Shmget(o, key, flags, m, AskedSize(flags, sz))
    BY <1>3 DEF SharedMemory_init
  <2>2. ULong(sz) \in Nat /\ PAGE_SIZE \in Nat
    BY ULongType, SharedMemoryAssumption
  <2>3. AskedSize(flags, sz) \in Nat BY <2>2 DEF AskedSize
  <2> QED BY <1>1, <2>1, <2>3, ShmgetInv
<1> QED BY <1>2, <1>3

----------------------------------------------------------------------------
(* The theorems.                                                           *)

LEMMA InitInv == Init => Inv
<1> SUFFICES ASSUME Init PROVE Inv OBVIOUS
<1>1. KernelTypeOK
  BY SharedMemoryAssumption DEF Init, KernelTypeOK, Positions
<1>2. obj \in [Objects -> ObjectType] BY DEF Init, ObjectType
<1>3. call \in [Procs -> Calls] BY DEF Init, Calls
<1>4. MappedExist BY DEF Init, MappedExist
<1>5. AttachedIsMapped BY DEF Init, AttachedIsMapped, NoObject
<1>6. CallsOK BY DEF Init, CallsOK, CallOK
<1> QED BY <1>1, <1>2, <1>3, <1>4, <1>5, <1>6 DEF Inv

LEMMA StutterInv == Inv /\ UNCHANGED vars => Inv'
BY DEF Inv, KernelTypeOK, MappedExist, Exists, AttachedIsMapped, CallsOK, CallOK,
       vars, segment

\* Every action keeps the invariant, one lemma per action.
LEMMA NextInv ==
  ASSUME NoRemap
  PROVE  Inv /\ Next => Inv'
<1> SUFFICES ASSUME Inv, Next PROVE Inv' OBVIOUS
<1>1. ASSUME NEW o \in Objects, ObjectStep(o) PROVE Inv'
  <2>1. CASE \E k \in Keys \union {None}, flags \in Flags, m \in Modes, sz \in Sizes :
               SharedMemory_init(o, k, flags, m, sz)
    BY <2>1, ConstructorInv
  <2>2. CASE InitAttach(o) BY <2>2, InitAttachInv
  <2>3. CASE InitFill(o) BY <2>3, InitFillInv
  <2>4. CASE CopyByte(o) BY <2>4, CopyByteInv
  <2>5. CASE \E at \in Addresses \union {NULL}, flags \in AttachFlags :
               SharedMemory_attach(o, at, flags)
    BY <2>5, AttachInv DEF NoRemap
  <2>6. CASE \E at \in Addresses \union {NULL}, flags \in AttachFlags, i \in Ids :
               sysv_ipc_attach(o, i, at, flags)
    BY <2>6, ModuleAttachInv DEF NoRemap
  <2>7. CASE SharedMemory_detach(o) BY <2>7, DetachInv
  <2>8. CASE \E n \in ByteCounts, off \in Offsets : SharedMemory_read(o, n, off)
    BY <2>8, ReadInv
  <2>9. CASE \E len \in Lengths, off \in Offsets : SharedMemory_write(o, len, off)
    BY <2>9, WriteInv
  <2>10. CASE shm_get_value(o) BY <2>10, GetValueInv
  <2>11. CASE \E field \in Settable, m \in Modes : shm_set_ipc_perm_value(o, field, m)
    BY <2>11, SetIpcPermInv
  <2>12. CASE IpcSet(o) BY <2>12, IpcSetInv
  <2>13. CASE SharedMemory_remove(o) BY <2>13, RemoveInv
  <2>14. CASE SharedMemory_dealloc(o) BY <2>14, DeallocInv
  <2> QED
    BY <1>1, <2>1, <2>2, <2>3, <2>4, <2>5, <2>6, <2>7, <2>8, <2>9, <2>10, <2>11,
       <2>12, <2>13, <2>14 DEF ObjectStep
<1>2. ASSUME NEW p \in Procs, ModuleStep(p) PROVE Inv'
  <2>1. CASE \E i \in Ids : sysv_ipc_remove_shared_memory(p, i)
    BY <2>1, RemoveStep DEF sysv_ipc_remove_shared_memory
  <2>2. CASE ExitProcess(p) BY <2>2, ExitInv
  <2> QED BY <1>2, <2>1, <2>2 DEF ModuleStep
<1> QED BY <1>1, <1>2 DEF Next

\* The invariant holds throughout.
LEMMA SpecInv ==
  ASSUME NoRemap
  PROVE  Spec => []Inv
<1>1. Inv /\ [Next]_vars => Inv' BY NextInv, StutterInv
<1> QED BY <1>1, InitInv, PTL DEF Spec

\* The variables of the kernel, the objects and the calls keep their types
\* through every call of memory.c.
THEOREM TypeCorrect ==
  ASSUME NoRemap
  PROVE  Spec => []TypeOK
BY SpecInv, InvIsTyped, PTL

\* Whatever is called, removed or interrupted in whatever order, address and
\* read_only of a SharedMemory object say what its process has mapped there.
THEOREM ObjectsTellTheTruth ==
  ASSUME NoRemap
  PROVE  Spec => []AttachedIsMapped
<1>1. Inv => AttachedIsMapped BY DEF Inv
<1> QED BY <1>1, SpecInv, PTL

\* An attached object's segment is still there, whoever removes it, so its
\* methods never raise ExistentialError.
THEOREM RemovalDoesNotDisturb ==
  ASSUME NoRemap
  PROVE  Spec => []AttachedKeepsWorking
<1>1. Inv => AttachedKeepsWorking
  BY DEF Inv, CallsOK, CallOK, AttachedKeepsWorking
<1> QED BY <1>1, SpecInv, PTL

\* A copying process has its object attached.
LEMMA CopyTarget ==
  ASSUME Inv, NEW p \in Procs, call[p].pc = "copy",
         NEW o, o = call[p].obj, NEW a, a = obj[o].address
  PROVE  /\ a \in Addresses /\ Exists(obj[o].id)
         /\ maps[p][a] = [id |-> obj[o].id, rdonly |-> obj[o].read_only]
         /\ maps[p][a] # NoMap
<1>1. o \in Objects /\ call[p] \in Calls BY DEF Inv, Calls
<1>2. ProcOf[o] = p /\ a # NULL BY DEF Inv, CallsOK, CallOK
<1>3. maps[p][a] = [id |-> obj[o].id, rdonly |-> obj[o].read_only]
  BY <1>1, <1>2 DEF Inv, AttachedIsMapped
<1> QED BY <1>1, <1>2, <1>3, AttachedExists

\* read, write and the constructor's memset stay inside the segment that is
\* mapped at the object's address, for any sizes, offsets and counts.
THEOREM NoOverrun ==
  ASSUME NoRemap
  PROVE  Spec => []CopiesInBounds
<1>1. Inv => CopiesInBounds
  <2> SUFFICES ASSUME Inv, NEW p \in Procs, call[p].pc = "copy",
                      NEW o, o = call[p].obj, NEW a, a = obj[o].address
               PROVE  /\ a \in Addresses /\ maps[p][a] # NoMap
                      /\ Exists(maps[p][a].id)
                      /\ call[p].todo \subseteq 0..size[maps[p][a].id] - 1
    BY DEF CopiesInBounds
  <2>1. /\ a \in Addresses /\ Exists(obj[o].id)
        /\ maps[p][a] = [id |-> obj[o].id, rdonly |-> obj[o].read_only]
        /\ maps[p][a] # NoMap
    BY CopyTarget
  <2>2. call[p].todo \subseteq 0..size[obj[o].id] - 1 BY DEF Inv, CallsOK, CallOK
  <2> QED BY <2>1, <2>2
<1> QED BY <1>1, SpecInv, PTL

\* What write and memset touch is never mapped read-only.
THEOREM NoFault ==
  ASSUME NoRemap
  PROVE  Spec => []WritesAreAllowed
<1>1. Inv => WritesAreAllowed
  <2> SUFFICES ASSUME Inv, NEW p \in Procs, call[p].pc = "copy", call[p].byte # None,
                      NEW o, o = call[p].obj, NEW a, a = obj[o].address
               PROVE  ~maps[p][a].rdonly
    BY DEF WritesAreAllowed
  <2>1. maps[p][a] = [id |-> obj[o].id, rdonly |-> obj[o].read_only] BY CopyTarget
  <2>2. ~obj[o].read_only BY DEF Inv, CallsOK, CallOK
  <2> QED BY <2>1, <2>2
<1> QED BY <1>1, SpecInv, PTL

----------------------------------------------------------------------------
(* What is mapped is owned, as long as nobody changes permissions: a        *)
(* constructor that may no longer read its segment's record raises, and     *)
(* leaves the segment mapped without an object.                             *)

PermissionsStay == Settable = {}

\* memset is not kept from asking for the size, and nobody is about to write
\* permissions.
FillReadable ==
  \A p \in Procs : call[p].pc = "stat" => "r" \in mode[obj[call[p].obj].id]

NobodySets == \A p \in Procs : call[p].pc # "ipcset"

Owned == MappingsAreOwned /\ FillReadable /\ NobodySets

\* Mappings that stay, and an object that keeps its address or, if its process
\* is careful, has none to lose.
LEMMA OwnersKeep ==
  ASSUME Inv, MappingsAreOwned, UNCHANGED maps, NEW o \in Objects,
         \A q \in Objects : q # o => obj'[q] = obj[q],
         \/ obj'[o].address = obj[o].address
         \/ ProcOf[o] \in Careful => obj[o].address = NULL
  PROVE  MappingsAreOwned'
<1> SUFFICES ASSUME NEW p \in Careful, NEW a \in Addresses, maps[p][a] # NoMap
             PROVE  \E q \in Objects : ProcOf[q] = p /\ obj'[q].address = a
  BY DEF MappingsAreOwned
<1>1. PICK q \in Objects : ProcOf[q] = p /\ obj[q].address = a BY DEF MappingsAreOwned
<1>2. a # NULL BY SharedMemoryAssumption
<1> QED BY <1>1, <1>2

\* A step that sets the call of one process and the objects of that process,
\* and the permissions of no segment there is.
LEMMA FillsKeep ==
  ASSUME Inv, FillReadable, NobodySets, NEW p \in Procs, NEW c,
         call' = [call EXCEPT ![p] = c], c.pc # "ipcset",
         c.pc = "stat" => "r" \in mode'[obj'[c.obj].id],
         \A i \in Ids : status[i] # "unused" => mode'[i] = mode[i],
         \A q \in Objects : ProcOf[q] # p => obj'[q] = obj[q]
  PROVE  FillReadable' /\ NobodySets'
<1>1. call'[p] = c /\ \A q \in Procs : q # p => call'[q] = call[q] BY DEF Inv
<1>2. NobodySets' BY <1>1 DEF NobodySets
<1>3. ASSUME NEW q \in Procs, q # p, call[q].pc = "stat"
      PROVE  "r" \in mode'[obj'[call[q].obj].id]
  <2> DEFINE o == call[q].obj
  <2>1. call[q] \in Calls /\ CallOK(q, call[q]) BY DEF Inv, CallsOK
  <2>2. o \in Objects BY <1>3, <2>1 DEF Calls
  <2>3. ProcOf[o] = q /\ obj[o].address # NULL BY <1>3, <2>1 DEF CallOK
  <2>4. obj[o].id \in Ids /\ Exists(obj[o].id) BY <2>2, <2>3, AttachedExists
  <2>5. obj'[o] = obj[o] /\ mode'[obj[o].id] = mode[obj[o].id]
    BY <1>3, <2>2, <2>3, <2>4 DEF Exists
  <2>6. "r" \in mode[obj[o].id] BY <1>3 DEF FillReadable
  <2> QED BY <2>5, <2>6
<1>4. FillReadable' BY <1>1, <1>3 DEF FillReadable
<1> QED BY <1>2, <1>4

\* A step that maps and unmaps nothing and does not lead to memset.
LEMMA QuietOwned ==
  ASSUME Inv, Owned, NEW o \in Objects, NEW c,
         call' = [call EXCEPT ![ProcOf[o]] = c], c.pc \in {"idle", "shmat", "copy"},
         \A i \in Ids : status[i] # "unused" => mode'[i] = mode[i],
         UNCHANGED maps,
         \A q \in Objects : q # o => obj'[q] = obj[q],
         \/ obj'[o].address = obj[o].address
         \/ ProcOf[o] \in Careful => obj[o].address = NULL
  PROVE  Owned'
<1>1. MappingsAreOwned' BY OwnersKeep DEF Owned
<1>2. FillReadable' /\ NobodySets'
  <2>1. ProcOf[o] \in Procs BY SharedMemoryAssumption
  <2>2. \A q \in Objects : ProcOf[q] # ProcOf[o] => obj'[q] = obj[q] OBVIOUS
  <2>3. c.pc # "ipcset" /\ c.pc # "stat" OBVIOUS
  <2> QED BY <2>1, <2>2, <2>3, FillsKeep DEF Owned
<1> QED BY <1>1, <1>2 DEF Owned

LEMMA ReturnOwned ==
  ASSUME Inv, Owned, NEW o \in Objects, NEW r, Return(o, r), UNCHANGED <<mode, maps>>,
         NEW h, obj' = [obj EXCEPT ![o] = h],
         h.address = obj[o].address \/ (ProcOf[o] \in Careful => obj[o].address = NULL)
  PROVE  Owned'
<1> DEFINE c == [pc |-> "idle", obj |-> o, res |-> r]
<1>1. call' = [call EXCEPT ![ProcOf[o]] = c] BY DEF Return, Finish
<1>2. c.pc = "idle" OBVIOUS
<1>3. obj'[o] = h /\ \A q \in Objects : q # o => obj'[q] = obj[q] BY DEF Inv
<1> HIDE DEF c
<1> QED BY <1>1, <1>2, <1>3, QuietOwned

LEMMA FailOwned ==
  ASSUME Inv, Owned, NEW o \in Objects, NEW r, Fail(o, r)
  PROVE  Owned'
<1>1. Return(o, r) /\ UNCHANGED <<mode, maps>> /\ obj' = obj BY DEF Fail, segment
<1>2. obj' = [obj EXCEPT ![o] = obj[o]] BY <1>1 DEF Inv
<1> QED BY <1>1, <1>2, ReturnOwned

LEMMA CopyingOwned ==
  ASSUME Inv, Owned, NEW o \in Objects, NEW positions, NEW byte,
         Copying(o, positions, byte), UNCHANGED <<segment, maps, obj>>
  PROVE  Owned'
<1> DEFINE c == IF positions = {} THEN [pc |-> "idle", obj |-> o, res |-> "ok"]
                ELSE [pc |-> "copy", obj |-> o, todo |-> positions, byte |-> byte]
<1>1. call' = [call EXCEPT ![ProcOf[o]] = c] BY DEF Copying, Return, Finish
<1>2. c.pc \in {"idle", "copy"} OBVIOUS
<1>3. UNCHANGED <<mode, maps, obj>> BY DEF segment
<1> HIDE DEF c
<1> QED BY <1>1, <1>2, <1>3, QuietOwned

\* An attachment by an object whose process is careful, or is not.
LEMMA AttachedOwned ==
  ASSUME Inv, Owned, NEW o \in Objects, NEW self \in ObjectType \ {NoObject},
         ProcOf[o] \in Careful => obj[o].address = NULL,
         NEW at \in Addresses \union {NULL},
         NEW flags \in SUBSET {"RDONLY", "REMAP"}, "REMAP" \notin flags,
         Attached(o, self, at, flags),
         NEW c, call' = [call EXCEPT ![ProcOf[o]] = c],
         \/ c = [pc |-> "stat", obj |-> o]
         \/ c.pc = "idle"
  PROVE  Owned'
<1> DEFINE p == ProcOf[o]
           m == [id |-> self.id, rdonly |-> "RDONLY" \in flags]
<1>p. p \in Procs BY SharedMemoryAssumption
<1>0. PICK a \in Places(p, at, flags) :
         /\ maps' = [maps EXCEPT ![p][a] = m]
         /\ obj' = [obj EXCEPT ![o] = OnAttach(self, a, flags)]
         /\ mode' = mode /\ ShmatErrno(p, self.id, at, flags) = "none"
  BY DEF Attached
<1> DEFINE h == OnAttach(self, a, flags)
<1>1. a \in Addresses BY <1>0 DEF Places
<1>2. h.address = a /\ h.id = self.id
  <2> DEFINE e == [self EXCEPT !.address = a]
             ro == "RDONLY" \in flags
  <2>1. /\ e \in [key : Keys \union {"-1"}, id : Ids,
                  address : Addresses \union {NULL}, read_only : BOOLEAN]
        /\ e.address = a /\ e.id = self.id
    BY <1>1 DEF ObjectType
  <2>2. h = [e EXCEPT !.read_only = ro] BY Zenon DEF OnAttach
  <2> HIDE DEF e, h, ro
  <2> QED BY <2>1, <2>2
<1>3. "r" \in mode[self.id]
  <2>1. {"r", "w"} \ (IF "RDONLY" \in flags THEN {"w"} ELSE {}) \subseteq mode[self.id]
    BY <1>0 DEF ShmatErrno
  <2> QED BY <2>1
<1> HIDE DEF h
<1>4. obj'[o] = h /\ \A q \in Objects : q # o => obj'[q] = obj[q]
  BY <1>0 DEF Inv, h
<1>5. \A q \in Procs, b \in Addresses : ~(q = p /\ b = a) => maps'[q][b] = maps[q][b]
  <2> HIDE DEF m
  <2> QED BY <1>p, <1>0, <1>1 DEF Inv, KernelTypeOK
<1>6. MappingsAreOwned'
  <2> SUFFICES ASSUME NEW q \in Careful, NEW b \in Addresses, maps'[q][b] # NoMap
               PROVE  \E x \in Objects : ProcOf[x] = q /\ obj'[x].address = b
    BY DEF MappingsAreOwned
  <2>1. CASE q = p /\ b = a BY <2>1, <1>2, <1>4
  <2>2. CASE ~(q = p /\ b = a)
    <3>1. q \in Procs BY SharedMemoryAssumption
    <3>2. maps[q][b] # NoMap BY <2>2, <3>1, <1>5
    <3>3. PICK x \in Objects : ProcOf[x] = q /\ obj[x].address = b
      BY <3>2 DEF Owned, MappingsAreOwned
    <3>4. x # o BY <3>3, SharedMemoryAssumption
    <3> QED BY <3>3, <3>4, <1>4
  <2> QED BY <2>1, <2>2
<1>7. FillReadable' /\ NobodySets'
  <2>1. c.pc # "ipcset" OBVIOUS
  <2>2. c.pc = "stat" => "r" \in mode'[obj'[c.obj].id]
    BY <1>0, <1>2, <1>3, <1>4
  <2>3. \A q \in Objects : ProcOf[q] # p => obj'[q] = obj[q] BY <1>4
  <2> QED BY <1>p, <1>0, <2>1, <2>2, <2>3, FillsKeep DEF Owned
<1> QED BY <1>6, <1>7 DEF Owned

LEMMA AttachOwned ==
  ASSUME Inv, Owned, NEW o \in Objects, NEW at \in Addresses \union {NULL},
         NEW flags \in AttachFlags, "REMAP" \notin flags,
         SharedMemory_attach(o, at, flags)
  PROVE  Owned'
<1>1. flags \in SUBSET {"RDONLY", "REMAP"} BY SharedMemoryAssumption
<1>2. obj[o] \in ObjectType \ {NoObject} BY DEF SharedMemory_attach, CanUse, Inv
<1>3. ProcOf[o] \in Careful => obj[o].address = NULL BY DEF SharedMemory_attach
<1>4. CASE Attached(o, obj[o], at, flags) /\ Return(o, "ok")
  <2> DEFINE c == [pc |-> "idle", obj |-> o, res |-> "ok"]
  <2>1. call' = [call EXCEPT ![ProcOf[o]] = c] BY <1>4 DEF Return, Finish
  <2>2. c.pc = "idle" OBVIOUS
  <2> HIDE DEF c
  <2> QED BY <1>1, <1>2, <1>3, <1>4, <2>1, <2>2, AttachedOwned
<1>5. CASE ~(Attached(o, obj[o], at, flags) /\ Return(o, "ok"))
  <2>1. PICK e : /\ obj' = [obj EXCEPT ![o] = OnAttachFailure(obj[o])]
                 /\ Return(o, AttachError[e])
                 /\ UNCHANGED <<segment, bytes, maps>>
    BY <1>5 DEF SharedMemory_attach
  <2>2. UNCHANGED <<mode, maps>> BY <2>1 DEF segment
  <2> QED BY <1>3, <2>1, <2>2, ReturnOwned
<1> QED BY <1>4, <1>5

LEMMA ModuleAttachOwned ==
  ASSUME Inv, Owned, NEW o \in Objects, NEW i \in Ids,
         NEW at \in Addresses \union {NULL},
         NEW flags \in AttachFlags, "REMAP" \notin flags,
         sysv_ipc_attach(o, i, at, flags)
  PROVE  Owned'
<1>1. flags \in SUBSET {"RDONLY", "REMAP"} BY SharedMemoryAssumption
<1>2. obj[o].address = NULL BY DEF sysv_ipc_attach, NoObject
<1>3. CASE \E k \in Keys \union {"-1"} :
             Attached(o, [key |-> k, id |-> i, address |-> NULL, read_only |-> FALSE],
                      at, flags) /\ Return(o, "attached")
  <2>1. PICK k \in Keys \union {"-1"} :
             Attached(o, [key |-> k, id |-> i, address |-> NULL, read_only |-> FALSE],
                      at, flags) /\ Return(o, "attached")
    BY <1>3
  <2> DEFINE self == [key |-> k, id |-> i, address |-> NULL, read_only |-> FALSE]
             c == [pc |-> "idle", obj |-> o, res |-> "attached"]
  <2>2. call' = [call EXCEPT ![ProcOf[o]] = c] BY <2>1 DEF Return, Finish
  <2>3. self \in ObjectType \ {NoObject} BY DEF ObjectType, NoObject, Ids, NoId
  <2>4. c.pc = "idle" OBVIOUS
  <2> HIDE DEF self, c
  <2>5. Attached(o, self, at, flags) BY <2>1 DEF self
  <2> QED BY <1>1, <1>2, <2>2, <2>3, <2>4, <2>5, AttachedOwned
<1>4. CASE \E e : Fail(o, AttachError[e]) BY <1>4, FailOwned
<1> QED BY <1>3, <1>4 DEF sysv_ipc_attach

LEMMA InitAttachOwned ==
  ASSUME Inv, Owned, NEW o \in Objects, InitAttach(o)
  PROVE  Owned'
<1> DEFINE c == call[ProcOf[o]]
           flags == IF "w" \in c.mode THEN {} ELSE {"RDONLY"}
           r == [pc |-> "idle", obj |-> o, res |-> "ok"]
           s == [pc |-> "stat", obj |-> o]
<1>1. c.pc = "shmat" /\ c.obj = o BY DEF InitAttach
<1>2. ProcOf[o] \in Procs BY SharedMemoryAssumption
<1>3. obj[o] \in ObjectType \ {NoObject} /\ obj[o].address = NULL
  BY <1>1, <1>2 DEF Inv, CallsOK, CallOK
<1>4. flags \in SUBSET {"RDONLY", "REMAP"} /\ "REMAP" \notin flags OBVIOUS
<1>5. CASE Attached(o, obj[o], NULL, flags)
           /\ (call' = [call EXCEPT ![ProcOf[o]] = s] \/ Return(o, "ok"))
  <2>1. CASE call' = [call EXCEPT ![ProcOf[o]] = s]
    <3> HIDE DEF flags
    <3> QED BY <1>3, <1>4, <1>5, <2>1, AttachedOwned
  <2>2. CASE Return(o, "ok")
    <3>1. call' = [call EXCEPT ![ProcOf[o]] = r] /\ r.pc = "idle"
      BY <2>2 DEF Return, Finish
    <3> HIDE DEF flags, r
    <3> QED BY <1>3, <1>4, <1>5, <3>1, AttachedOwned
  <2> QED BY <1>5, <2>1, <2>2
<1>6. CASE \E e : Abandon(o, AttachError[e])
  <2>1. PICK e : Abandon(o, AttachError[e]) BY <1>6
  <2>2. UNCHANGED <<mode, maps>> BY <2>1 DEF Abandon, segment
  <2> QED BY <1>3, <2>1, <2>2, ReturnOwned DEF Abandon
<1> QED BY <1>5, <1>6 DEF InitAttach

\* With permissions that stay, memset is not refused the size it asks for.
LEMMA InitFillOwned ==
  ASSUME Inv, Owned, NEW o \in Objects, InitFill(o)
  PROVE  Owned'
<1>1. call[ProcOf[o]].pc = "stat" /\ call[ProcOf[o]].obj = o BY DEF InitFill
<1>2. ProcOf[o] \in Procs BY SharedMemoryAssumption
<1>3. obj[o].address # NULL BY <1>1, <1>2 DEF Inv, CallsOK, CallOK
<1>4. StatErrno(obj[o].id) = "none"
  BY <1>1, <1>2, <1>3, AttachedExists DEF Owned, FillReadable, StatErrno
<1>5. /\ Copying(o, FillExtent(obj[o].id), "init")
      /\ UNCHANGED <<segment, bytes, maps, obj>>
  BY <1>4 DEF InitFill
<1> QED BY <1>5, CopyingOwned

LEMMA DetachOwned ==
  ASSUME Inv, Owned, NEW o \in Objects, SharedMemory_detach(o)
  PROVE  Owned'
<1> DEFINE p == ProcOf[o]
           a == obj[o].address
           found == a # NULL /\ maps[p][a] # NoMap
           h == [obj[o] EXCEPT !.address = NULL]
           c == [pc |-> "idle", obj |-> o, res |-> IF found THEN "ok" ELSE "NotAttached"]
<1>p. p \in Procs BY SharedMemoryAssumption
<1>1. obj[o] \in ObjectType \ {NoObject} BY DEF SharedMemory_detach, CanUse, Inv
<1>2. /\ maps' = IF found THEN [maps EXCEPT ![p][a] = NoMap] ELSE maps
      /\ obj' = [obj EXCEPT ![o] = h]
      /\ call' = [call EXCEPT ![p] = c]
      /\ mode' = mode
  BY DEF SharedMemory_detach, Return, Finish
<1>3. c.pc = "idle" OBVIOUS
<1> HIDE DEF h, c
<1>4. \A q \in Objects : q # o => obj'[q] = obj[q] BY <1>2 DEF Inv
<1>5. MappingsAreOwned'
  <2> SUFFICES ASSUME NEW q \in Careful, NEW b \in Addresses, maps'[q][b] # NoMap
               PROVE  \E x \in Objects : ProcOf[x] = q /\ obj'[x].address = b
    BY DEF MappingsAreOwned
  <2>1. q \in Procs BY SharedMemoryAssumption
  <2>2. maps[q][b] # NoMap /\ ~(q = p /\ b = a)
    <3>1. CASE found
      <4>1. a \in Addresses BY <1>1, <3>1 DEF ObjectType
      <4>2. maps' = [maps EXCEPT ![p][a] = NoMap] BY <1>2, <3>1
      <4>3. maps'[p][a] = NoMap BY <1>p, <4>1, <4>2 DEF Inv, KernelTypeOK
      <4>4. ~(q = p /\ b = a) BY <4>3
      <4>5. maps'[q][b] = maps[q][b]
        BY <1>p, <2>1, <4>1, <4>2, <4>4 DEF Inv, KernelTypeOK
      <4> QED BY <4>4, <4>5
    <3>2. CASE ~found
      <4>1. maps' = maps BY <1>2, <3>2
      <4>2. b # NULL BY SharedMemoryAssumption
      <4> QED BY <3>2, <4>1, <4>2
    <3> QED BY <3>1, <3>2
  <2>3. PICK x \in Objects : ProcOf[x] = q /\ obj[x].address = b
    BY <2>2 DEF Owned, MappingsAreOwned
  <2>4. x # o BY <2>2, <2>3
  <2> QED BY <2>3, <2>4, <1>4
<1>6. FillReadable' /\ NobodySets'
  <2>1. c.pc # "ipcset" /\ c.pc # "stat" BY <1>3
  <2>2. \A q \in Objects : ProcOf[q] # p => obj'[q] = obj[q] BY <1>4
  <2> HIDE DEF found
  <2> QED BY <1>p, <1>2, <2>1, <2>2, FillsKeep DEF Owned
<1> QED BY <1>5, <1>6 DEF Owned

LEMMA ExitOwned ==
  ASSUME Inv, Owned, NEW p \in Procs, ExitProcess(p)
  PROVE  Owned'
<1> DEFINE c == [pc |-> "idle", obj |-> None, res |-> "ok"]
<1>1. /\ maps' = [maps EXCEPT ![p] = [a \in Addresses |-> NoMap]]
      /\ obj' = [o \in Objects |-> IF ProcOf[o] = p THEN NoObject ELSE obj[o]]
      /\ call' = [call EXCEPT ![p] = c] /\ mode' = mode
  BY DEF ExitProcess
<1>2. c.pc # "ipcset" /\ c.pc # "stat" OBVIOUS
<1> HIDE DEF c
<1>3. \A q \in Objects : ProcOf[q] # p => obj'[q] = obj[q] BY <1>1
<1>4. MappingsAreOwned'
  <2> SUFFICES ASSUME NEW q \in Careful, NEW b \in Addresses, maps'[q][b] # NoMap
               PROVE  \E x \in Objects : ProcOf[x] = q /\ obj'[x].address = b
    BY DEF MappingsAreOwned
  <2>1. q \in Procs BY SharedMemoryAssumption
  <2>2. q # p /\ maps[q][b] # NoMap BY <1>1, <2>1 DEF Inv, KernelTypeOK
  <2>3. PICK x \in Objects : ProcOf[x] = q /\ obj[x].address = b
    BY <2>2 DEF Owned, MappingsAreOwned
  <2> QED BY <1>3, <2>2, <2>3
<1>5. FillReadable' /\ NobodySets' BY <1>1, <1>2, <1>3, FillsKeep DEF Owned
<1> QED BY <1>4, <1>5 DEF Owned

\* Removal maps and unmaps nothing.
LEMMA RemoveOwned ==
  ASSUME Inv, Owned, NEW p \in Procs, NEW i, NEW o, shm_remove(p, o, i)
  PROVE  Owned'
<1>1. PICK r : call' = [call EXCEPT ![p] = [pc |-> "idle", obj |-> o, res |-> r]]
  BY DEF shm_remove, Finish
<1> DEFINE c == [pc |-> "idle", obj |-> o, res |-> r]
<1>2. c.pc # "ipcset" /\ c.pc # "stat" OBVIOUS
<1>3. UNCHANGED <<mode, maps, obj>> BY DEF shm_remove
<1>4. MappingsAreOwned' BY <1>3 DEF Owned, MappingsAreOwned
<1>5. call' = [call EXCEPT ![p] = c] BY <1>1
<1> HIDE DEF c
<1>6. FillReadable' /\ NobodySets' BY <1>2, <1>3, <1>5, FillsKeep DEF Owned
<1> QED BY <1>4, <1>6 DEF Owned

\* shmget maps nothing, and what it creates had no permissions anyone used.
LEMMA ConstructorOwned ==
  ASSUME Inv, Owned, NEW o \in Objects, NEW k \in Keys \union {None},
         NEW flags \in Flags, NEW m \in Modes, NEW sz \in Sizes,
         SharedMemory_init(o, k, flags, m, sz)
  PROVE  Owned'
<1>1. obj[o].address = NULL BY DEF SharedMemory_init, NoObject
<1>2. CASE \E r : Fail(o, r) BY <1>2, FailOwned
<1>3. CASE \E key \in Keys, i \in Ids :
             /\ Obtained(o, key, i, flags, m)
             /\ \/ UNCHANGED segment
                \/ \E s : Allocate(key, i, m, s)
  <2>1. PICK key \in Keys, i \in Ids :
             /\ Obtained(o, key, i, flags, m)
             /\ \/ UNCHANGED segment
                \/ \E s : Allocate(key, i, m, s)
    BY <1>3
  <2> DEFINE c == [pc |-> "shmat", obj |-> o, flags |-> flags, mode |-> m]
             h == [key |-> key, id |-> i, address |-> NULL, read_only |-> FALSE]
  <2>2. /\ call' = [call EXCEPT ![ProcOf[o]] = c]
        /\ obj' = [obj EXCEPT ![o] = h] /\ UNCHANGED maps
    BY <2>1 DEF Obtained
  <2>3. c.pc = "shmat" OBVIOUS
  <2> HIDE DEF c, h
  <2>4. \A q \in Objects : q # o => obj'[q] = obj[q] BY <2>2 DEF Inv
  <2>5. \A j \in Ids : status[j] # "unused" => mode'[j] = mode[j]
    <3>1. CASE UNCHANGED segment BY <3>1 DEF segment
    <3>2. CASE \E s : Allocate(key, i, m, s)
      <4>1. status[i] = "unused" /\ mode' = [mode EXCEPT ![i] = m] BY <3>2 DEF Allocate
      <4> QED BY <4>1 DEF Inv, KernelTypeOK
    <3> QED BY <2>1, <3>1, <3>2
  <2> QED BY <1>1, <2>2, <2>3, <2>4, <2>5, QuietOwned
<1>4. \/ \E r : Fail(o, r)
      \/ \E key \in Keys, i \in Ids :
           /\ Obtained(o, key, i, flags, m)
           /\ \/ UNCHANGED segment
              \/ \E s : Allocate(key, i, m, s)
  <2>1. CASE BadFlags(k, flags) BY <2>1 DEF SharedMemory_init
  <2>2. CASE ~BadFlags(k, flags)
    <3>1. PICK key \in Keys : Shmget(o, key, flags, m, AskedSize(flags, sz))
      BY <2>2 DEF SharedMemory_init
    <3>2. idOf[key] # NoId => idOf[key] \in Ids BY DEF Inv, KernelTypeOK
    <3> QED BY <3>1, <3>2 DEF Shmget
  <2> QED BY <2>1, <2>2
<1> QED BY <1>2, <1>3, <1>4

LEMMA CopyByteOwned ==
  ASSUME Inv, Owned, NEW o \in Objects, CopyByte(o)
  PROVE  Owned'
<1> DEFINE c == call[ProcOf[o]]
<1>1. PICK n \in c.todo : Copying(o, c.todo \ {n}, c.byte) BY DEF CopyByte
<1>2. UNCHANGED <<segment, maps, obj>> BY DEF CopyByte
<1> HIDE DEF c
<1> QED BY <1>1, <1>2, CopyingOwned

LEMMA ReadOwned ==
  ASSUME Inv, Owned, NEW o \in Objects, NEW n, NEW off, SharedMemory_read(o, n, off)
  PROVE  Owned'
<1>1. \/ \E r : Fail(o, r)
      \/ \E s : Copying(o, s, None) /\ UNCHANGED <<segment, bytes, maps, obj>>
  BY DEF SharedMemory_read
<1> QED BY <1>1, FailOwned, CopyingOwned

LEMMA WriteOwned ==
  ASSUME Inv, Owned, NEW o \in Objects, NEW len, NEW off, SharedMemory_write(o, len, off)
  PROVE  Owned'
<1>1. \/ \E r : Fail(o, r)
      \/ \E s, b : Copying(o, s, b) /\ UNCHANGED <<segment, bytes, maps, obj>>
  BY DEF SharedMemory_write
<1> QED BY <1>1, FailOwned, CopyingOwned

LEMMA DeallocOwned ==
  ASSUME Inv, Owned, NEW o \in Objects, SharedMemory_dealloc(o)
  PROVE  Owned'
<1>1. /\ ProcOf[o] \in Careful => obj[o].address = NULL
      /\ Return(o, "ok") /\ obj' = [obj EXCEPT ![o] = NoObject]
      /\ UNCHANGED <<mode, maps>>
  BY DEF SharedMemory_dealloc, segment
<1> QED BY <1>1, ReturnOwned

LEMMA NextOwned ==
  ASSUME NoRemap, PermissionsStay
  PROVE  Inv /\ Owned /\ Next => Owned'
<1> SUFFICES ASSUME Inv, Owned, Next PROVE Owned' OBVIOUS
<1>1. ASSUME NEW o \in Objects, ObjectStep(o) PROVE Owned'
  <2>1. CASE \E k \in Keys \union {None}, flags \in Flags, m \in Modes, sz \in Sizes :
               SharedMemory_init(o, k, flags, m, sz)
    BY <2>1, ConstructorOwned
  <2>2. CASE InitAttach(o) BY <2>2, InitAttachOwned
  <2>3. CASE InitFill(o) BY <2>3, InitFillOwned
  <2>4. CASE CopyByte(o) BY <2>4, CopyByteOwned
  <2>5. CASE \E at \in Addresses \union {NULL}, flags \in AttachFlags :
               SharedMemory_attach(o, at, flags)
    BY <2>5, AttachOwned DEF NoRemap
  <2>6. CASE \E at \in Addresses \union {NULL}, flags \in AttachFlags, i \in Ids :
               sysv_ipc_attach(o, i, at, flags)
    BY <2>6, ModuleAttachOwned DEF NoRemap
  <2>7. CASE SharedMemory_detach(o) BY <2>7, DetachOwned
  <2>8. CASE \E n \in ByteCounts, off \in Offsets : SharedMemory_read(o, n, off)
    BY <2>8, ReadOwned
  <2>9. CASE \E len \in Lengths, off \in Offsets : SharedMemory_write(o, len, off)
    BY <2>9, WriteOwned
  <2>10. CASE shm_get_value(o) BY <2>10, FailOwned DEF shm_get_value
  <2>11. CASE \E field \in Settable, m \in Modes : shm_set_ipc_perm_value(o, field, m)
    BY <2>11 DEF PermissionsStay
  <2>12. CASE IpcSet(o)
    BY <2>12, SharedMemoryAssumption DEF IpcSet, Owned, NobodySets
  <2>13. CASE SharedMemory_remove(o)
    BY <2>13, RemoveOwned, SharedMemoryAssumption DEF SharedMemory_remove
  <2>14. CASE SharedMemory_dealloc(o) BY <2>14, DeallocOwned
  <2> QED
    BY <1>1, <2>1, <2>2, <2>3, <2>4, <2>5, <2>6, <2>7, <2>8, <2>9, <2>10, <2>11,
       <2>12, <2>13, <2>14 DEF ObjectStep
<1>2. ASSUME NEW p \in Procs, ModuleStep(p) PROVE Owned'
  <2>1. CASE \E i \in Ids : sysv_ipc_remove_shared_memory(p, i)
    BY <2>1, RemoveOwned DEF sysv_ipc_remove_shared_memory
  <2>2. CASE ExitProcess(p) BY <2>2, ExitOwned
  <2> QED BY <1>2, <2>1, <2>2 DEF ModuleStep
<1> QED BY <1>1, <1>2 DEF Next

LEMMA SpecOwned ==
  ASSUME NoRemap, PermissionsStay
  PROVE  Spec => []Owned
<1>1. Init => Owned
  BY SharedMemoryAssumption
     DEF Init, Owned, MappingsAreOwned, FillReadable, NobodySets
<1>2. Inv /\ Owned /\ UNCHANGED vars => Owned'
  BY DEF vars, Owned, MappingsAreOwned, FillReadable, NobodySets
<1>3. Inv /\ Owned /\ [Next]_vars => Owned' BY <1>2, NextOwned
<1> QED BY <1>1, <1>3, SpecInv, PTL DEF Spec

\* Callers who pair attach with detach, while nobody changes permissions,
\* never leave a mapping without an object that can detach it, whoever removes
\* segments and whichever constructor fails.
THEOREM NothingLeaks ==
  ASSUME NoRemap, PermissionsStay
  PROVE  Spec => []MappingsAreOwned
<1>1. Owned => MappingsAreOwned BY DEF Owned
<1> QED BY <1>1, SpecOwned, PTL

----------------------------------------------------------------------------
(* What init_character covers.                                             *)

\* The names of contents are not those of processes.
ContentsApart == "zero" \notin Procs /\ "init" \notin Procs /\ None # "init"

\* A constructor that is going to fill its segment, or is doing so.
Filling(c) ==
  \/ c.pc = "shmat" /\ c.flags = CREX
  \/ c.pc = "stat"
  \/ c.pc = "copy" /\ c.byte = "init"

\* What process p may have done to the segment of a call c of its own: not
\* written to one it is filling, and filled what it no longer means to fill.
FillOK(p, c) ==
  /\ c.pc = "copy" => c.byte \in {"init", None, p}
  /\ Filling(c) => \A n \in Positions : bytes[obj[c.obj].id][n] # p
  /\ c.pc = "copy" /\ c.byte = "init" =>
       \A n \in 0..size[obj[c.obj].id] - 1 :
         n \in c.todo \/ bytes[obj[c.obj].id][n] # "zero"

UnusedAreZero ==
  \A i \in Ids, n \in Positions : status[i] = "unused" => bytes[i][n] = "zero"

FillInv == UnusedAreZero /\ \A p \in Procs : FillOK(p, call[p])

\* A call that does not fill does not depend on anything.
LEMMA NoFillOK ==
  ASSUME NEW p, NEW c, ~Filling(c), c.pc = "copy" => c.byte \in {"init", None, p}
  PROVE  FillOK(p, c)
BY DEF FillOK, Filling

\* A step of p that changes no byte.
LEMMA QuietFill ==
  ASSUME Inv, FillInv, NEW p \in Procs, NEW c,
         call' = [call EXCEPT ![p] = c], FillOK(p, c)', bytes' = bytes,
         \A i \in Ids : status[i] # "unused" => status'[i] # "unused" /\ size'[i] = size[i],
         \A q \in Objects : ProcOf[q] # p => obj'[q] = obj[q]
  PROVE  FillInv'
<1>1. UnusedAreZero' BY DEF FillInv, UnusedAreZero
<1>2. ASSUME NEW q \in Procs PROVE FillOK(q, call[q])'
  <2>1. CASE q = p
    <3>1. call'[q] = c BY <2>1 DEF Inv
    <3> QED BY <2>1, <3>1 DEF FillOK
  <2>2. CASE q # p
    <3> DEFINE d == call[q]
    <3>1. call'[q] = d /\ d \in Calls /\ CallOK(q, d) /\ FillOK(q, d)
      BY <2>2 DEF Inv, CallsOK, FillInv
    <3>2. CASE d.pc = "idle" BY <3>1, <3>2 DEF FillOK, Filling
    <3>3. CASE d.pc # "idle"
      <4>1. d.obj \in Objects /\ ProcOf[d.obj] = q BY <3>1, <3>3 DEF CallOK, Calls
      <4>2. obj'[d.obj] = obj[d.obj] BY <4>1, <2>2
      <4>3. ASSUME d.pc = "copy" PROVE size'[obj[d.obj].id] = size[obj[d.obj].id]
        <5>1. obj[d.obj].address # NULL BY <3>1, <4>3 DEF CallOK
        <5>2. obj[d.obj].id \in Ids /\ Exists(obj[d.obj].id) BY <4>1, <5>1, AttachedExists
        <5> QED BY <5>2 DEF Exists
      <4> HIDE DEF d
      <4> QED BY <3>1, <4>2, <4>3 DEF FillOK
    <3> QED BY <3>2, <3>3
  <2> QED BY <2>1, <2>2
<1> QED BY <1>1, <1>2 DEF FillInv

\* Its case for what is neither copied nor filled, with segments that stay.
LEMMA EndFill ==
  ASSUME Inv, FillInv, NEW p \in Procs, NEW c,
         call' = [call EXCEPT ![p] = c], c.pc \in {"idle", "ipcset"},
         UNCHANGED <<size, bytes>>,
         \A i \in Ids : status[i] # "unused" => status'[i] # "unused",
         \A q \in Objects : ProcOf[q] # p => obj'[q] = obj[q]
  PROVE  FillInv'
<1>1. FillOK(p, c)' BY DEF FillOK, Filling
<1> QED BY <1>1, QuietFill

LEMMA ReturnFill ==
  ASSUME Inv, FillInv, NEW o \in Objects, NEW r, Return(o, r),
         UNCHANGED <<size, bytes>>,
         \A i \in Ids : status[i] # "unused" => status'[i] # "unused",
         NEW h, obj' = [obj EXCEPT ![o] = h]
  PROVE  FillInv'
<1> DEFINE c == [pc |-> "idle", obj |-> o, res |-> r]
<1>1. call' = [call EXCEPT ![ProcOf[o]] = c] BY DEF Return, Finish
<1>2. c.pc = "idle" OBVIOUS
<1>3. \A q \in Objects : ProcOf[q] # ProcOf[o] => obj'[q] = obj[q] BY DEF Inv
<1>4. ProcOf[o] \in Procs BY SharedMemoryAssumption
<1> HIDE DEF c
<1> QED BY <1>1, <1>2, <1>3, <1>4, EndFill

LEMMA FailFill ==
  ASSUME Inv, FillInv, NEW o \in Objects, NEW r, Fail(o, r)
  PROVE  FillInv'
<1>1. Return(o, r) /\ UNCHANGED <<size, bytes, status>> /\ obj' = obj
  BY DEF Fail, segment
<1>2. obj' = [obj EXCEPT ![o] = obj[o]] BY <1>1 DEF Inv
<1> QED BY <1>1, <1>2, ReturnFill

LEMMA ReapUsed ==
  ASSUME KernelTypeOK, NEW ms, Reap(ms)
  PROVE  \A i \in Ids : status[i] # "unused" => status'[i] # "unused"
BY DEF Reap, KernelTypeOK

\* read() and write() begin to copy something else than init_character.
LEMMA CopyingFill ==
  ASSUME ContentsApart, Inv, FillInv, NEW o \in Objects, NEW positions, NEW byte,
         byte = None \/ byte = ProcOf[o],
         Copying(o, positions, byte), UNCHANGED <<segment, bytes, maps, obj>>
  PROVE  FillInv'
<1> DEFINE p == ProcOf[o]
           c == IF positions = {} THEN [pc |-> "idle", obj |-> o, res |-> "ok"]
                ELSE [pc |-> "copy", obj |-> o, todo |-> positions, byte |-> byte]
<1>1. call' = [call EXCEPT ![p] = c] BY DEF Copying, Return, Finish
<1>2. p \in Procs BY SharedMemoryAssumption
<1>3. c.pc = "idle" \/ (c.pc = "copy" /\ c.byte = byte) OBVIOUS
<1>4. UNCHANGED <<size, status, bytes, obj>> BY DEF segment
<1> HIDE DEF c
<1>5. FillOK(p, c)' BY <1>2, <1>3 DEF FillOK, Filling, ContentsApart
<1> QED BY <1>1, <1>2, <1>4, <1>5, QuietFill

\* CREX makes a new segment, in which nobody has written.
LEMMA ConstructorFill ==
  ASSUME ContentsApart, Inv, FillInv, NEW o \in Objects, NEW k \in Keys \union {None},
         NEW flags \in Flags, NEW m \in Modes, NEW sz \in Sizes,
         SharedMemory_init(o, k, flags, m, sz)
  PROVE  FillInv'
<1> DEFINE p == ProcOf[o]
<1>p. p \in Procs BY SharedMemoryAssumption
<1>1. CASE \E r : Fail(o, r) BY <1>1, FailFill
<1>2. CASE \E key \in Keys, i \in Ids :
             /\ Obtained(o, key, i, flags, m)
             /\ \/ UNCHANGED segment /\ flags # CREX
                \/ \E s : Allocate(key, i, m, s)
  <2>1. PICK key \in Keys, i \in Ids :
             /\ Obtained(o, key, i, flags, m)
             /\ \/ UNCHANGED segment /\ flags # CREX
                \/ \E s : Allocate(key, i, m, s)
    BY <1>2
  <2> DEFINE c == [pc |-> "shmat", obj |-> o, flags |-> flags, mode |-> m]
             h == [key |-> key, id |-> i, address |-> NULL, read_only |-> FALSE]
  <2>2. /\ call' = [call EXCEPT ![p] = c]
        /\ obj' = [obj EXCEPT ![o] = h] /\ bytes' = bytes
    BY <2>1 DEF Obtained
  <2>3. c.pc = "shmat" /\ c.obj = o /\ c.flags = flags /\ h.id = i OBVIOUS
  <2> HIDE DEF c, h
  <2>4. obj'[o] = h /\ \A q \in Objects : q # o => obj'[q] = obj[q] BY <2>2 DEF Inv
  <2>5. CASE UNCHANGED segment /\ flags # CREX
    <3>1. ~Filling(c) BY <2>3, <2>5 DEF Filling
    <3>2. FillOK(p, c)' BY <2>3, <3>1 DEF FillOK, Filling
    <3>3. UNCHANGED <<size, status>> BY <2>5 DEF segment
    <3> QED BY <1>p, <2>2, <2>4, <3>2, <3>3, QuietFill
  <2>6. CASE \E s : Allocate(key, i, m, s)
    <3>1. /\ status[i] = "unused" /\ status' = [status EXCEPT ![i] = "live"]
          /\ \E s : size' = [size EXCEPT ![i] = s]
      BY <2>6 DEF Allocate
    <3>2. \A j \in Ids : status[j] # "unused" => status'[j] # "unused" /\ size'[j] = size[j]
      BY <3>1 DEF Inv, KernelTypeOK
    <3>3. \A n \in Positions : bytes'[obj'[c.obj].id][n] # p
      BY <1>p, <2>2, <2>3, <2>4, <3>1 DEF FillInv, UnusedAreZero, ContentsApart
    <3>4. FillOK(p, c)' BY <2>3, <3>3 DEF FillOK
    <3> QED BY <1>p, <2>2, <2>4, <3>2, <3>4, QuietFill
  <2> QED BY <2>1, <2>5, <2>6
<1>3. \/ \E r : Fail(o, r)
      \/ \E key \in Keys, i \in Ids :
           /\ Obtained(o, key, i, flags, m)
           /\ \/ UNCHANGED segment /\ flags # CREX
              \/ \E s : Allocate(key, i, m, s)
  <2>1. CASE BadFlags(k, flags) BY <2>1 DEF SharedMemory_init
  <2>2. CASE ~BadFlags(k, flags)
    <3>1. PICK key \in Keys : Shmget(o, key, flags, m, AskedSize(flags, sz))
      BY <2>2 DEF SharedMemory_init
    <3>2. idOf[key] # NoId => idOf[key] \in Ids BY DEF Inv, KernelTypeOK
    <3>3. idOf[key] # NoId /\ ShmgetErrno(key, flags, m, AskedSize(flags, sz)) = "none"
            => flags # CREX
      BY DEF ShmgetErrno
    <3> QED BY <3>1, <3>2, <3>3 DEF Shmget
  <2> QED BY <2>1, <2>2
<1> QED BY <1>1, <1>2, <1>3

\* The object still leads to the same segment after shmat.
LEMMA AttachedSame ==
  ASSUME Inv, NEW o \in Objects, NEW self \in ObjectType \ {NoObject},
         NEW at \in Addresses \union {NULL}, NEW flags, Attached(o, self, at, flags)
  PROVE  /\ obj'[o].id = self.id /\ \A q \in Objects : q # o => obj'[q] = obj[q]
         /\ UNCHANGED <<size, bytes>>
         /\ \A i \in Ids : status[i] # "unused" => status'[i] # "unused"
<1>0. PICK a \in Places(ProcOf[o], at, flags) :
         obj' = [obj EXCEPT ![o] = OnAttach(self, a, flags)]
  BY DEF Attached
<1> DEFINE h == OnAttach(self, a, flags)
<1>1. h.id = self.id
  <2> DEFINE e == [self EXCEPT !.address = a]
             ro == "RDONLY" \in flags
  <2>1. e.id = self.id /\ e = [key |-> self.key, id |-> self.id, address |-> a,
                               read_only |-> self.read_only]
    BY DEF ObjectType
  <2>2. h = [e EXCEPT !.read_only = ro] BY Zenon DEF OnAttach
  <2> HIDE DEF h, ro
  <2> QED BY <2>1, <2>2
<1> HIDE DEF h
<1>2. obj'[o] = h /\ \A q \in Objects : q # o => obj'[q] = obj[q]
  BY <1>0 DEF Inv, h
<1>3. UNCHANGED <<size, bytes>> /\ Reap(maps') BY DEF Attached
<1> QED BY <1>1, <1>2, <1>3, ReapUsed DEF Inv

LEMMA AttachFill ==
  ASSUME Inv, FillInv, NEW o \in Objects, NEW at \in Addresses \union {NULL},
         NEW flags \in AttachFlags, SharedMemory_attach(o, at, flags)
  PROVE  FillInv'
<1>1. obj[o] \in ObjectType \ {NoObject} BY DEF SharedMemory_attach, CanUse, Inv
<1>2. CASE Attached(o, obj[o], at, flags) /\ Return(o, "ok")
  <2> DEFINE c == [pc |-> "idle", obj |-> o, res |-> "ok"]
  <2>1. call' = [call EXCEPT ![ProcOf[o]] = c] BY <1>2 DEF Return, Finish
  <2>2. c.pc = "idle" OBVIOUS
  <2>3. /\ \A q \in Objects : q # o => obj'[q] = obj[q]
        /\ UNCHANGED <<size, bytes>>
        /\ \A i \in Ids : status[i] # "unused" => status'[i] # "unused"
    BY <1>1, <1>2, AttachedSame
  <2>4. ProcOf[o] \in Procs BY SharedMemoryAssumption
  <2> HIDE DEF c
  <2> QED BY <2>1, <2>2, <2>3, <2>4, EndFill
<1>3. CASE \E e : /\ obj' = [obj EXCEPT ![o] = OnAttachFailure(obj[o])]
                  /\ Return(o, AttachError[e])
                  /\ UNCHANGED <<segment, bytes, maps>>
  <2>1. UNCHANGED <<size, bytes, status>> BY <1>3 DEF segment
  <2> QED BY <1>3, <2>1, ReturnFill
<1> QED BY <1>2, <1>3 DEF SharedMemory_attach

LEMMA ModuleAttachFill ==
  ASSUME Inv, FillInv, NEW o \in Objects, NEW i \in Ids,
         NEW at \in Addresses \union {NULL},
         NEW flags \in AttachFlags, sysv_ipc_attach(o, i, at, flags)
  PROVE  FillInv'
<1>1. CASE \E k \in Keys \union {"-1"} :
             Attached(o, [key |-> k, id |-> i, address |-> NULL, read_only |-> FALSE],
                      at, flags) /\ Return(o, "attached")
  <2>1. PICK k \in Keys \union {"-1"} :
             Attached(o, [key |-> k, id |-> i, address |-> NULL, read_only |-> FALSE],
                      at, flags) /\ Return(o, "attached")
    BY <1>1
  <2> DEFINE self == [key |-> k, id |-> i, address |-> NULL, read_only |-> FALSE]
             c == [pc |-> "idle", obj |-> o, res |-> "attached"]
  <2>2. call' = [call EXCEPT ![ProcOf[o]] = c] BY <2>1 DEF Return, Finish
  <2>3. self \in ObjectType \ {NoObject} BY DEF ObjectType, NoObject, Ids, NoId
  <2>4. c.pc = "idle" OBVIOUS
  <2> HIDE DEF self, c
  <2>5. Attached(o, self, at, flags) BY <2>1 DEF self
  <2>6. /\ \A q \in Objects : q # o => obj'[q] = obj[q]
        /\ UNCHANGED <<size, bytes>>
        /\ \A j \in Ids : status[j] # "unused" => status'[j] # "unused"
    BY <2>3, <2>5, AttachedSame
  <2>7. ProcOf[o] \in Procs BY SharedMemoryAssumption
  <2> QED BY <2>2, <2>4, <2>6, <2>7, EndFill
<1>2. CASE \E e : Fail(o, AttachError[e]) BY <1>2, FailFill
<1> QED BY <1>1, <1>2 DEF sysv_ipc_attach

LEMMA InitAttachFill ==
  ASSUME Inv, FillInv, NEW o \in Objects, InitAttach(o)
  PROVE  FillInv'
<1> DEFINE p == ProcOf[o]
           d == call[p]
           flags == IF "w" \in d.mode THEN {} ELSE {"RDONLY"}
           s == [pc |-> "stat", obj |-> o]
           r == [pc |-> "idle", obj |-> o, res |-> "ok"]
<1>1. d.pc = "shmat" /\ d.obj = o BY DEF InitAttach
<1>p. p \in Procs BY SharedMemoryAssumption
<1>2. obj[o] \in ObjectType \ {NoObject} BY <1>p, <1>1 DEF Inv, CallsOK, CallOK
<1>3. CASE \E e : Abandon(o, AttachError[e])
  <2>1. UNCHANGED <<size, bytes, status>> BY <1>3 DEF Abandon, segment
  <2> QED BY <1>3, <2>1, ReturnFill DEF Abandon
<1>4. CASE /\ Attached(o, obj[o], NULL, flags)
           /\ \/ Fills(d.flags, d.mode) /\ call' = [call EXCEPT ![p] = s]
              \/ Return(o, "ok")
  <2>1. /\ obj'[o].id = obj[o].id /\ \A q \in Objects : q # o => obj'[q] = obj[q]
        /\ UNCHANGED <<size, bytes>>
        /\ \A i \in Ids : status[i] # "unused" => status'[i] # "unused"
    <3> HIDE DEF flags
    <3> QED BY <1>2, <1>4, AttachedSame
  <2>2. CASE Fills(d.flags, d.mode) /\ call' = [call EXCEPT ![p] = s]
    <3>1. Filling(d) BY <1>1, <2>2 DEF Fills, Filling
    <3>2. \A n \in Positions : bytes[obj[o].id][n] # p
      BY <1>p, <1>1, <3>1 DEF FillInv, FillOK
    <3>3. s.pc = "stat" /\ s.obj = o OBVIOUS
    <3> HIDE DEF s, d
    <3>4. FillOK(p, s)' BY <2>1, <3>2, <3>3 DEF FillOK
    <3> QED BY <1>p, <2>1, <2>2, <3>4, QuietFill
  <2>3. CASE Return(o, "ok")
    <3>1. call' = [call EXCEPT ![p] = r] /\ r.pc = "idle" BY <2>3 DEF Return, Finish
    <3> HIDE DEF r
    <3> QED BY <1>p, <2>1, <3>1, EndFill
  <2> QED BY <1>4, <2>2, <2>3
<1> QED BY <1>3, <1>4 DEF InitAttach

\* memset is to cover all there is.
LEMMA InitFillFill ==
  ASSUME Inv, FillInv, NEW o \in Objects, InitFill(o)
  PROVE  FillInv'
<1> DEFINE p == ProcOf[o]
           d == call[p]
<1>1. d.pc = "stat" /\ d.obj = o BY DEF InitFill
<1>p. p \in Procs BY SharedMemoryAssumption
<1>2. CASE \E e : Abandon(o, ShmctlError[e])
  <2>1. UNCHANGED <<size, bytes, status>> BY <1>2 DEF Abandon, segment
  <2> QED BY <1>2, <2>1, ReturnFill DEF Abandon
<1>3. CASE /\ Copying(o, FillExtent(obj[o].id), "init")
           /\ UNCHANGED <<segment, bytes, maps, obj>>
  <2>0. PICK x : x = FillExtent(obj[o].id) OBVIOUS
  <2> DEFINE r == [pc |-> "idle", obj |-> o, res |-> "ok"]
             c == [pc |-> "copy", obj |-> o, todo |-> x, byte |-> "init"]
  <2>1. UNCHANGED <<size, bytes, status, obj>> BY <1>3 DEF segment
  <2>2. CASE x = {}
    <3>1. call' = [call EXCEPT ![p] = r] /\ r.pc = "idle"
      BY <1>3, <2>0, <2>2 DEF Copying, Return, Finish
    <3> HIDE DEF r
    <3> QED BY <1>p, <2>1, <3>1, EndFill
  <2>3. CASE x # {}
    <3>1. call' = [call EXCEPT ![p] = c] BY <1>3, <2>0, <2>3 DEF Copying
    <3>2. \A n \in Positions : bytes[obj[o].id][n] # p
      BY <1>p, <1>1 DEF FillInv, FillOK, Filling
    <3>3. x = 0..size[obj[o].id] - 1
      <4>1. obj[o].address # NULL BY <1>1, <1>p DEF Inv, CallsOK, CallOK
      <4>2. size[obj[o].id] \in Int
        BY <4>1, AttachedExists, SharedMemoryAssumption DEF Inv, KernelTypeOK
      <4> QED BY <2>0, <4>2 DEF FillExtent, Extent
    <3>4. c.obj = o /\ c.todo = x /\ c.pc = "copy" /\ c.byte = "init" OBVIOUS
    <3> HIDE DEF c, d
    <3>5. FillOK(p, c)' BY <2>1, <3>2, <3>3, <3>4 DEF FillOK
    <3> QED BY <1>p, <2>1, <3>1, <3>5, QuietFill
  <2> QED BY <2>2, <2>3
<1> QED BY <1>2, <1>3 DEF InitFill

\* A byte that is written is in a segment there is, and holds init_character or
\* the writer.
LEMMA CopyByteFill ==
  ASSUME ContentsApart, Inv, FillInv, NEW o \in Objects, CopyByte(o)
  PROVE  FillInv'
<1> DEFINE p == ProcOf[o]
<1>p. p \in Procs BY SharedMemoryAssumption
<1>0. PICK d : d = call[p] OBVIOUS
<1>1. d.pc = "copy" /\ d.obj = o /\ d \in Calls /\ CallOK(p, d) /\ FillOK(p, d)
  BY <1>p, <1>0 DEF CopyByte, Inv, CallsOK, FillInv
<1>2. PICK i : i = obj[o].id OBVIOUS
<1>3. obj[o].address # NULL BY <1>1 DEF CallOK
<1>4. i \in Ids /\ Exists(i) /\ maps[p][obj[o].address].id = i
  <2>1. i \in Ids /\ Exists(i) BY <1>2, <1>3, AttachedExists
  <2>2. maps[p][obj[o].address] = [id |-> obj[o].id, rdonly |-> obj[o].read_only]
    BY <1>3 DEF Inv, AttachedIsMapped
  <2> QED BY <1>2, <2>1, <2>2
<1>5. PICK n \in d.todo :
        /\ Copying(o, d.todo \ {n}, d.byte)
        /\ bytes' = IF d.byte = None THEN bytes ELSE [bytes EXCEPT ![i][n] = d.byte]
        /\ UNCHANGED <<size, status, maps, obj>>
  BY <1>0, <1>4 DEF CopyByte, segment
<1>6. d.todo \subseteq Positions BY <1>1 DEF Calls
<1> DEFINE c == IF d.todo \ {n} = {} THEN [pc |-> "idle", obj |-> o, res |-> "ok"]
                ELSE [pc |-> "copy", obj |-> o, todo |-> d.todo \ {n}, byte |-> d.byte]
<1>7. call' = [call EXCEPT ![p] = c] BY <1>5 DEF Copying, Return, Finish
<1>8. \/ c.pc = "idle"
      \/ c.pc = "copy" /\ c.obj = o /\ c.todo = d.todo \ {n} /\ c.byte = d.byte
  OBVIOUS
<1> HIDE DEF c
<1>9. CASE d.byte = None
  <2>1. bytes' = bytes BY <1>5, <1>9
  <2>2. FillOK(p, c)' BY <1>8, <1>9 DEF FillOK, Filling, ContentsApart
  <2> QED BY <1>p, <1>5, <1>7, <2>1, <2>2, QuietFill
<1>10. CASE d.byte # None
  <2>1. d.byte \in {"init", p} BY <1>1, <1>10 DEF FillOK
  <2>2. bytes' = [bytes EXCEPT ![i][n] = d.byte] BY <1>5, <1>10
  <2>3. /\ bytes'[i][n] = d.byte
        /\ \A j \in Ids, m \in Positions :
             ~(j = i /\ m = n) => bytes'[j][m] = bytes[j][m]
    BY <1>4, <1>5, <1>6, <2>2 DEF Inv, KernelTypeOK
  <2>4. UnusedAreZero' BY <1>4, <1>5, <2>3 DEF Exists, FillInv, UnusedAreZero
  <2>5. ASSUME NEW q \in Procs PROVE FillOK(q, call[q])'
    <3>1. CASE q = p
      <4>1. call'[q] = c BY <1>p, <1>7, <3>1 DEF Inv
      <4>2. CASE c.pc = "idle" BY <4>1, <4>2 DEF FillOK, Filling
      <4>3. CASE c.pc # "idle"
        <5>1. ASSUME d.byte = "init"
              PROVE  /\ \A m \in Positions : bytes'[i][m] # p
                     /\ \A m \in 0..size[i] - 1 :
                          m \in c.todo \/ bytes'[i][m] # "zero"
          <6>1. \A m \in Positions : bytes[i][m] # p
            BY <1>1, <1>2, <5>1 DEF FillOK, Filling
          <6>2. \A m \in Positions : bytes'[i][m] # p
            BY <1>p, <1>4, <2>3, <5>1, <6>1 DEF ContentsApart
          <6>3. \A m \in 0..size[i] - 1 : m \in d.todo \/ bytes[i][m] # "zero"
            BY <1>1, <1>2, <5>1 DEF FillOK
          <6>4. 0..size[i] - 1 \subseteq Positions
            BY <1>4, SharedMemoryAssumption DEF Inv, KernelTypeOK, Positions
          <6>5. \A m \in 0..size[i] - 1 : m \in c.todo \/ bytes'[i][m] # "zero"
            BY <1>4, <1>8, <2>3, <4>3, <5>1, <6>3, <6>4
          <6> QED BY <6>2, <6>5
        <5>2. c.byte \in {"init", p} BY <1>8, <2>1, <4>3
        <5>3. obj'[c.obj].id = i /\ size'[i] = size[i] BY <1>2, <1>5, <1>8, <4>3
        <5>4. Filling(c) => d.byte = "init" BY <1>8, <4>3 DEF Filling
        <5>5. c.byte = d.byte /\ c.pc = "copy" BY <1>8, <4>3
        <5> QED BY <3>1, <4>1, <5>1, <5>2, <5>3, <5>4, <5>5 DEF FillOK
      <4> QED BY <4>2, <4>3
    <3>2. CASE q # p
      <4>0. PICK e : e = call[q] OBVIOUS
      <4>1. call'[q] = e BY <1>7, <3>2, <4>0 DEF Inv
      <4>2. e \in Calls /\ CallOK(q, e) /\ FillOK(q, e) BY <4>0 DEF Inv, CallsOK, FillInv
      <4>3. CASE e.pc = "idle" BY <4>1, <4>3 DEF FillOK, Filling
      <4>4. CASE e.pc # "idle"
        <5>1. e.obj \in Objects /\ obj[e.obj] # NoObject BY <4>2, <4>4 DEF CallOK, Calls
        <5>2. PICK j : j = obj[e.obj].id OBVIOUS
        <5>3. j \in Ids BY <5>1, <5>2 DEF Inv, ObjectType
        <5>4. obj'[e.obj].id = j /\ size' = size BY <1>5, <5>2
        <5>5. d.byte # q /\ d.byte # "zero" BY <1>p, <2>1, <3>2 DEF ContentsApart
        <5>6. Filling(e) => \A m \in Positions : bytes'[j][m] # q
          BY <2>3, <4>2, <5>2, <5>3, <5>5 DEF FillOK
        <5>7. size[j] \in 0..SHMMAX BY <5>3 DEF Inv, KernelTypeOK
        <5>8. 0..size[j] - 1 \subseteq Positions
          BY <5>7, SharedMemoryAssumption DEF Positions
        <5>9. e.pc = "copy" /\ e.byte = "init" =>
                \A m \in 0..size[j] - 1 : m \in e.todo \/ bytes'[j][m] # "zero"
          BY <2>3, <4>2, <5>2, <5>3, <5>5, <5>8 DEF FillOK
        <5>10. e.pc = "copy" => e.byte \in {"init", None, q} BY <4>2 DEF FillOK
        <5> QED BY <4>1, <5>4, <5>6, <5>9, <5>10 DEF FillOK
      <4> QED BY <4>3, <4>4
    <3> QED BY <3>1, <3>2
  <2> QED BY <2>4, <2>5 DEF FillInv
<1> QED BY <1>9, <1>10

LEMMA DetachFill ==
  ASSUME Inv, FillInv, NEW o \in Objects, SharedMemory_detach(o)
  PROVE  FillInv'
<1>1. PICK r, h : Return(o, r) /\ obj' = [obj EXCEPT ![o] = h]
  BY DEF SharedMemory_detach
<1>2. UNCHANGED <<size, bytes>> /\ Reap(maps') BY DEF SharedMemory_detach
<1> QED BY <1>1, <1>2, ReapUsed, ReturnFill DEF Inv

LEMMA ExitFill ==
  ASSUME Inv, FillInv, NEW p \in Procs, ExitProcess(p)
  PROVE  FillInv'
<1> DEFINE c == [pc |-> "idle", obj |-> None, res |-> "ok"]
<1>1. /\ call' = [call EXCEPT ![p] = c] /\ UNCHANGED <<size, bytes>> /\ Reap(maps')
      /\ obj' = [o \in Objects |-> IF ProcOf[o] = p THEN NoObject ELSE obj[o]]
  BY DEF ExitProcess
<1>2. \A i \in Ids : status[i] # "unused" => status'[i] # "unused"
  BY <1>1, ReapUsed DEF Inv
<1>3. c.pc = "idle" /\ \A q \in Objects : ProcOf[q] # p => obj'[q] = obj[q] BY <1>1
<1> HIDE DEF c
<1> QED BY <1>1, <1>2, <1>3, EndFill

LEMMA RemoveFill ==
  ASSUME Inv, FillInv, NEW p \in Procs, NEW i, NEW o, shm_remove(p, o, i)
  PROVE  FillInv'
<1>1. PICK r : call' = [call EXCEPT ![p] = [pc |-> "idle", obj |-> o, res |-> r]]
  BY DEF shm_remove, Finish
<1> DEFINE c == [pc |-> "idle", obj |-> o, res |-> r]
<1>2. call' = [call EXCEPT ![p] = c] /\ c.pc = "idle" BY <1>1
<1> HIDE DEF c
<1>3. UNCHANGED <<size, bytes, obj>> BY DEF shm_remove
<1>4. \A j \in Ids : status[j] # "unused" => status'[j] # "unused"
  BY DEF shm_remove, Inv, KernelTypeOK
<1> QED BY <1>2, <1>3, <1>4, EndFill

LEMMA ReadFill ==
  ASSUME ContentsApart, Inv, FillInv, NEW o \in Objects, NEW n, NEW off,
         SharedMemory_read(o, n, off)
  PROVE  FillInv'
<1>1. \/ \E r : Fail(o, r)
      \/ \E s : Copying(o, s, None) /\ UNCHANGED <<segment, bytes, maps, obj>>
  BY DEF SharedMemory_read
<1> QED BY <1>1, FailFill, CopyingFill

LEMMA WriteFill ==
  ASSUME ContentsApart, Inv, FillInv, NEW o \in Objects, NEW len, NEW off,
         SharedMemory_write(o, len, off)
  PROVE  FillInv'
<1>1. \/ \E r : Fail(o, r)
      \/ \E s : Copying(o, s, ProcOf[o]) /\ UNCHANGED <<segment, bytes, maps, obj>>
  BY DEF SharedMemory_write
<1> QED BY <1>1, FailFill, CopyingFill

LEMMA SetIpcPermFill ==
  ASSUME Inv, FillInv, NEW o \in Objects, NEW field, NEW m,
         shm_set_ipc_perm_value(o, field, m)
  PROVE  FillInv'
<1>1. CASE \E r : Fail(o, r) BY <1>1, FailFill
<1>2. CASE \E w : /\ call' = [call EXCEPT ![ProcOf[o]] =
                                [pc |-> "ipcset", obj |-> o, mode |-> w]]
                  /\ UNCHANGED <<segment, bytes, maps, obj>>
  <2>1. PICK w : call' = [call EXCEPT ![ProcOf[o]] =
                            [pc |-> "ipcset", obj |-> o, mode |-> w]]
    BY <1>2
  <2> DEFINE c == [pc |-> "ipcset", obj |-> o, mode |-> w]
  <2>2. call' = [call EXCEPT ![ProcOf[o]] = c] /\ c.pc = "ipcset" BY <2>1
  <2> HIDE DEF c
  <2>3. UNCHANGED <<size, bytes, status, obj>> BY <1>2 DEF segment
  <2>4. ProcOf[o] \in Procs BY SharedMemoryAssumption
  <2> QED BY <2>2, <2>3, <2>4, EndFill
<1> QED BY <1>1, <1>2 DEF shm_set_ipc_perm_value

LEMMA IpcSetFill ==
  ASSUME Inv, FillInv, NEW o \in Objects, IpcSet(o)
  PROVE  FillInv'
<1>1. CASE Fail(o, "Existential") BY <1>1, FailFill
<1>2. CASE Return(o, "ok") /\ UNCHANGED <<idOf, status, size, bytes, maps, obj>>
  <2>1. obj' = [obj EXCEPT ![o] = obj[o]] BY <1>2 DEF Inv
  <2> QED BY <1>2, <2>1, ReturnFill
<1> QED BY <1>1, <1>2 DEF IpcSet

LEMMA DeallocFill ==
  ASSUME Inv, FillInv, NEW o \in Objects, SharedMemory_dealloc(o)
  PROVE  FillInv'
<1>1. /\ Return(o, "ok") /\ obj' = [obj EXCEPT ![o] = NoObject]
      /\ UNCHANGED <<size, bytes, status>>
  BY DEF SharedMemory_dealloc, segment
<1> QED BY <1>1, ReturnFill

LEMMA NextFill ==
  ASSUME ContentsApart
  PROVE  Inv /\ FillInv /\ Next => FillInv'
<1> SUFFICES ASSUME Inv, FillInv, Next PROVE FillInv' OBVIOUS
<1>1. ASSUME NEW o \in Objects, ObjectStep(o) PROVE FillInv'
  <2>1. CASE \E k \in Keys \union {None}, flags \in Flags, m \in Modes, sz \in Sizes :
               SharedMemory_init(o, k, flags, m, sz)
    BY <2>1, ConstructorFill
  <2>2. CASE InitAttach(o) BY <2>2, InitAttachFill
  <2>3. CASE InitFill(o) BY <2>3, InitFillFill
  <2>4. CASE CopyByte(o) BY <2>4, CopyByteFill
  <2>5. CASE \E at \in Addresses \union {NULL}, flags \in AttachFlags :
               SharedMemory_attach(o, at, flags)
    BY <2>5, AttachFill
  <2>6. CASE \E at \in Addresses \union {NULL}, flags \in AttachFlags, i \in Ids :
               sysv_ipc_attach(o, i, at, flags)
    BY <2>6, ModuleAttachFill
  <2>7. CASE SharedMemory_detach(o) BY <2>7, DetachFill
  <2>8. CASE \E n \in ByteCounts, off \in Offsets : SharedMemory_read(o, n, off)
    BY <2>8, ReadFill
  <2>9. CASE \E len \in Lengths, off \in Offsets : SharedMemory_write(o, len, off)
    BY <2>9, WriteFill
  <2>10. CASE shm_get_value(o) BY <2>10, FailFill DEF shm_get_value
  <2>11. CASE \E field \in Settable, m \in Modes : shm_set_ipc_perm_value(o, field, m)
    BY <2>11, SetIpcPermFill
  <2>12. CASE IpcSet(o) BY <2>12, IpcSetFill
  <2>13. CASE SharedMemory_remove(o)
    BY <2>13, RemoveFill, SharedMemoryAssumption DEF SharedMemory_remove
  <2>14. CASE SharedMemory_dealloc(o) BY <2>14, DeallocFill
  <2> QED
    BY <1>1, <2>1, <2>2, <2>3, <2>4, <2>5, <2>6, <2>7, <2>8, <2>9, <2>10, <2>11,
       <2>12, <2>13, <2>14 DEF ObjectStep
<1>2. ASSUME NEW p \in Procs, ModuleStep(p) PROVE FillInv'
  <2>1. CASE \E i \in Ids : sysv_ipc_remove_shared_memory(p, i)
    BY <2>1, RemoveFill DEF sysv_ipc_remove_shared_memory
  <2>2. CASE ExitProcess(p) BY <2>2, ExitFill
  <2> QED BY <1>2, <2>1, <2>2 DEF ModuleStep
<1> QED BY <1>1, <1>2 DEF Next

LEMMA SpecFill ==
  ASSUME NoRemap, ContentsApart
  PROVE  Spec => []FillInv
<1>1. Init => FillInv
  BY DEF Init, FillInv, UnusedAreZero, FillOK, Filling
<1>2. FillInv /\ UNCHANGED vars => FillInv'
  BY DEF vars, FillInv, UnusedAreZero, FillOK
<1>3. Inv /\ FillInv /\ [Next]_vars => FillInv' BY <1>2, NextFill
<1> QED BY <1>1, <1>3, SpecInv, PTL DEF Spec

\* Only the loops over bytes change any.
LEMMA OnlyCopiesWrite ==
  Next /\ bytes' # bytes => \E o \in Objects : CopyByte(o)
<1> SUFFICES ASSUME Next, bytes' # bytes PROVE \E o \in Objects : CopyByte(o) OBVIOUS
<1>1. ASSUME NEW p, NEW o, NEW i, shm_remove(p, o, i) PROVE FALSE
  BY <1>1 DEF shm_remove
<1>2. ASSUME NEW p \in Procs, ModuleStep(p) PROVE FALSE
  BY <1>1, <1>2 DEF ModuleStep, sysv_ipc_remove_shared_memory, ExitProcess
<1>3. ASSUME NEW o \in Objects, ObjectStep(o), ~CopyByte(o) PROVE FALSE
  <2>1. ASSUME NEW k, NEW flags, NEW m, NEW sz, SharedMemory_init(o, k, flags, m, sz)
        PROVE  FALSE
    BY <2>1 DEF SharedMemory_init, Shmget, Obtained, Fail
  <2>2. CASE InitAttach(o) BY <2>2 DEF InitAttach, Attached, Abandon
  <2>3. CASE InitFill(o) BY <2>3 DEF InitFill, Abandon
  <2>4. ASSUME NEW at, NEW flags, SharedMemory_attach(o, at, flags) PROVE FALSE
    BY <2>4 DEF SharedMemory_attach, Attached
  <2>5. ASSUME NEW i, NEW at, NEW flags, sysv_ipc_attach(o, i, at, flags) PROVE FALSE
    BY <2>5 DEF sysv_ipc_attach, Attached, Fail
  <2>6. CASE SharedMemory_detach(o) BY <2>6 DEF SharedMemory_detach
  <2>7. ASSUME NEW n, NEW off, SharedMemory_read(o, n, off) PROVE FALSE
    BY <2>7 DEF SharedMemory_read, Fail
  <2>8. ASSUME NEW len, NEW off, SharedMemory_write(o, len, off) PROVE FALSE
    BY <2>8 DEF SharedMemory_write, Fail
  <2>9. CASE shm_get_value(o) BY <2>9 DEF shm_get_value, Fail
  <2>10. ASSUME NEW field, NEW m, shm_set_ipc_perm_value(o, field, m) PROVE FALSE
    BY <2>10 DEF shm_set_ipc_perm_value, Fail
  <2>11. CASE IpcSet(o) BY <2>11 DEF IpcSet, Fail
  <2>12. CASE SharedMemory_remove(o) BY <2>12, <1>1 DEF SharedMemory_remove
  <2>13. CASE SharedMemory_dealloc(o) BY <2>13 DEF SharedMemory_dealloc
  <2> QED
    BY <1>3, <2>1, <2>2, <2>3, <2>4, <2>5, <2>6, <2>7, <2>8, <2>9, <2>10, <2>11,
       <2>12, <2>13 DEF ObjectStep
<1> QED BY <1>2, <1>3 DEF Next

\* No constructor wipes out what its own process has written: the segment it
\* fills is the one its shmget made, and its process cannot write meanwhile.
THEOREM FillsKeepOwnData ==
  ASSUME NoRemap, ContentsApart
  PROVE  Spec => FillKeepsOwnData
<1> DEFINE A == \A p \in Procs, i \in Ids, n \in Positions :
                   bytes[i][n] = p /\ bytes'[i][n] = "init" => call'[p] = call[p]
<1>1. Inv /\ FillInv /\ [Next]_vars => [A]_vars
  <2> SUFFICES ASSUME Inv, FillInv, Next PROVE A OBVIOUS
  <2> SUFFICES ASSUME NEW p \in Procs, NEW i \in Ids, NEW n \in Positions,
                      bytes[i][n] = p, bytes'[i][n] = "init"
               PROVE  call'[p] = call[p]
    OBVIOUS
  <2>1. bytes' # bytes BY DEF ContentsApart
  <2>2. PICK o \in Objects : CopyByte(o) BY <2>1, OnlyCopiesWrite
  <2>3. PICK q \in Procs : q = ProcOf[o] BY SharedMemoryAssumption
  <2>4. PICK d : d = call[q] OBVIOUS
  <2>5. d.pc = "copy" /\ d.obj = o /\ d \in Calls /\ CallOK(q, d) /\ FillOK(q, d)
    BY <2>2, <2>3, <2>4 DEF CopyByte, Inv, CallsOK, FillInv
  <2>6. PICK j : j = obj[o].id OBVIOUS
  <2>7. obj[o].address # NULL BY <2>5 DEF CallOK
  <2>8. j \in Ids /\ maps[q][obj[o].address].id = j
    <3>1. j \in Ids BY <2>6, <2>7, AttachedExists
    <3>2. maps[q][obj[o].address] = [id |-> obj[o].id, rdonly |-> obj[o].read_only]
      BY <2>3, <2>7 DEF Inv, AttachedIsMapped
    <3> QED BY <2>6, <3>1, <3>2
  <2>9. PICK m \in d.todo :
          /\ bytes' = IF d.byte = None THEN bytes ELSE [bytes EXCEPT ![j][m] = d.byte]
          /\ Copying(o, d.todo \ {m}, d.byte)
    BY <2>2, <2>3, <2>4, <2>8 DEF CopyByte
  <2>10. m \in Positions BY <2>5 DEF Calls
  <2>11. bytes' = [bytes EXCEPT ![j][m] = d.byte] BY <2>1, <2>9
  <2>12. i = j /\ n = m /\ d.byte = "init"
    BY <2>8, <2>10, <2>11, SMT DEF Inv, KernelTypeOK, ContentsApart
  <2>13. bytes[j][n] # q BY <2>5, <2>6, <2>12 DEF FillOK, Filling
  <2>14. p # q BY <2>12, <2>13
  <2>15. \E c : call' = [call EXCEPT ![q] = c]
    BY <2>3, <2>9 DEF Copying, Return, Finish
  <2> QED BY <2>3, <2>14, <2>15 DEF Inv
<1>2. Spec => []Inv /\ []FillInv BY SpecInv, SpecFill
<1>3. [][Next]_vars /\ []Inv /\ []FillInv => [][A]_vars BY <1>1, PTL
<1> QED BY <1>2, <1>3, PTL DEF Spec, FillKeepsOwnData

\* A constructor's call is only taken on by the constructor, or by the end of
\* its process.
LEMMA OnlyOwnSteps ==
  ASSUME Inv, Next, NEW p \in Procs, call[p].pc \in {"shmat", "stat", "copy"},
         call'[p] # call[p]
  PROVE  \/ ExitProcess(p)
         \/ \E o \in Objects :
              ProcOf[o] = p /\ (InitAttach(o) \/ InitFill(o) \/ CopyByte(o))
<1>1. ASSUME NEW q \in Procs, NEW c, call' = [call EXCEPT ![q] = c] PROVE q = p
  BY <1>1 DEF Inv
<1>2. ASSUME NEW o \in Objects, CanCall(o), NEW r, Fail(o, r) PROVE FALSE
  BY <1>1, <1>2, SharedMemoryAssumption DEF CanCall, Fail, Return, Finish
<1>3. ASSUME NEW o \in Objects, call[ProcOf[o]].pc = "idle" \/ call[ProcOf[o]].pc = "ipcset",
             NEW c, call' = [call EXCEPT ![ProcOf[o]] = c]
      PROVE  FALSE
  BY <1>1, <1>3, SharedMemoryAssumption
<1>4. ASSUME NEW o \in Objects, ObjectStep(o)
      PROVE  ProcOf[o] = p /\ (InitAttach(o) \/ InitFill(o) \/ CopyByte(o))
  <2>1. ASSUME NEW k, NEW flags, NEW m, NEW sz, SharedMemory_init(o, k, flags, m, sz)
        PROVE  FALSE
    BY <2>1, <1>2, <1>3 DEF SharedMemory_init, Shmget, Obtained, CanCall
  <2>2. CASE InitAttach(o) \/ InitFill(o) \/ CopyByte(o)
    <3>1. \E c : call' = [call EXCEPT ![ProcOf[o]] = c]
      <4>1. CASE InitAttach(o) BY <4>1 DEF InitAttach, Abandon, Return, Finish
      <4>2. CASE InitFill(o) BY <4>2 DEF InitFill, Abandon, Copying, Return, Finish
      <4>3. CASE CopyByte(o) BY <4>3 DEF CopyByte, Copying, Return, Finish
      <4> QED BY <2>2, <4>1, <4>2, <4>3
    <3> QED BY <2>2, <3>1, <1>1, SharedMemoryAssumption
  <2>3. ASSUME NEW at, NEW flags, SharedMemory_attach(o, at, flags) PROVE FALSE
    BY <2>3, <1>3 DEF SharedMemory_attach, CanUse, CanCall, Return, Finish
  <2>4. ASSUME NEW i, NEW at, NEW flags, sysv_ipc_attach(o, i, at, flags) PROVE FALSE
    BY <2>4, <1>2, <1>3 DEF sysv_ipc_attach, CanCall, Return, Finish
  <2>5. CASE SharedMemory_detach(o)
    BY <2>5, <1>3 DEF SharedMemory_detach, CanUse, CanCall, Return, Finish
  <2>6. ASSUME NEW n, NEW off, SharedMemory_read(o, n, off) PROVE FALSE
    BY <2>6, <1>2, <1>3 DEF SharedMemory_read, CanUse, CanCall, Copying, Return, Finish
  <2>7. ASSUME NEW len, NEW off, SharedMemory_write(o, len, off) PROVE FALSE
    BY <2>7, <1>2, <1>3 DEF SharedMemory_write, CanUse, CanCall, Copying, Return, Finish
  <2>8. CASE shm_get_value(o) BY <2>8, <1>2 DEF shm_get_value, CanUse
  <2>9. ASSUME NEW field, NEW m, shm_set_ipc_perm_value(o, field, m) PROVE FALSE
    BY <2>9, <1>2, <1>3 DEF shm_set_ipc_perm_value, CanUse, CanCall
  <2>10. CASE IpcSet(o) BY <2>10, <1>3 DEF IpcSet, Fail, Return, Finish
  <2>11. CASE SharedMemory_remove(o)
    BY <2>11, <1>3 DEF SharedMemory_remove, CanUse, CanCall, shm_remove, Finish
  <2>12. CASE SharedMemory_dealloc(o)
    BY <2>12, <1>3 DEF SharedMemory_dealloc, CanUse, CanCall, Return, Finish
  <2> QED
    BY <1>4, <2>1, <2>2, <2>3, <2>4, <2>5, <2>6, <2>7, <2>8, <2>9, <2>10, <2>11,
       <2>12 DEF ObjectStep
<1>5. ASSUME NEW q \in Procs, ModuleStep(q) PROVE ExitProcess(p)
  <2>1. CASE ExitProcess(q)
    <3>1. \E c : call' = [call EXCEPT ![q] = c] BY <2>1 DEF ExitProcess
    <3> QED BY <2>1, <3>1, <1>1
  <2>2. ASSUME NEW i, sysv_ipc_remove_shared_memory(q, i) PROVE FALSE
    <3>1. call[q].pc = "idle" /\ \E c : call' = [call EXCEPT ![q] = c]
      BY <2>2 DEF sysv_ipc_remove_shared_memory, shm_remove, Finish
    <3> QED BY <3>1, <1>1
  <2> QED BY <1>5, <2>1, <2>2 DEF ModuleStep
<1> QED BY <1>4, <1>5 DEF Next

\* A constructor with CREX and write permission that succeeds has filled every
\* byte of the segment with init_character, or somebody has written there since.
THEOREM ConstructorsFill ==
  ASSUME NoRemap, ContentsApart
  PROVE  Spec => InitCharacterFills
<1> DEFINE Constructed(p) ==
             /\ \/ call[p].pc = "shmat" /\ call[p].flags = CREX /\ "w" \in call[p].mode
                \/ call[p].pc = "stat"
                \/ call[p].pc = "copy" /\ call[p].byte = "init"
             /\ call'[p].pc = "idle" /\ call'[p].obj = call[p].obj
             /\ call'[p].res = "ok" /\ obj'[call[p].obj] # NoObject
           A == \A p \in Procs : Constructed(p) =>
                  \A n \in 0..size'[obj'[call[p].obj].id] - 1 :
                    bytes'[obj'[call[p].obj].id][n] # "zero"
<1>1. Inv /\ FillInv /\ [Next]_vars => [A]_vars
  <2> SUFFICES ASSUME Inv, FillInv, Next, NEW p \in Procs, Constructed(p)
               PROVE  \A n \in 0..size'[obj'[call[p].obj].id] - 1 :
                        bytes'[obj'[call[p].obj].id][n] # "zero"
    OBVIOUS
  <2>1. PICK c : c = call[p] OBVIOUS
  <2>2. c \in Calls /\ CallOK(p, c) /\ FillOK(p, c)
    BY <2>1 DEF Inv, CallsOK, FillInv
  <2>3. c.pc \in {"shmat", "stat", "copy"} /\ call'[p] # c BY <2>1
  <2>4. c.obj \in Objects BY <2>2, <2>3 DEF Calls
  <2>5. ~ExitProcess(p)
    <3>1. ExitProcess(p) => call'[p].obj = None BY DEF ExitProcess, Inv
    <3> QED BY <2>1, <2>4, <3>1, SharedMemoryAssumption
  <2>6. PICK o \in Objects :
          ProcOf[o] = p /\ (InitAttach(o) \/ InitFill(o) \/ CopyByte(o))
    BY <2>1, <2>3, <2>5, OnlyOwnSteps
  <2>7. c.obj = o BY <2>1, <2>6 DEF InitAttach, InitFill, CopyByte
  <2>8. \A r : ~Abandon(o, r)
    BY <2>1, <2>7 DEF Abandon, Inv
  <2>9. CASE InitAttach(o)
    <3>1. Fills(c.flags, c.mode) BY <2>1, <2>6, <2>9 DEF InitAttach, Fills
    <3>2. call' = [call EXCEPT ![p] = [pc |-> "stat", obj |-> o]]
      BY <2>1, <2>6, <2>8, <2>9, <3>1 DEF InitAttach
    <3>3. call'[p].pc = "stat" BY <3>2 DEF Inv
    <3> QED BY <3>3
  <2>10. CASE InitFill(o)
    <3>1. /\ Copying(o, FillExtent(obj[o].id), "init")
          /\ UNCHANGED <<size, bytes, obj>>
      BY <2>8, <2>10 DEF InitFill, segment
    <3>2. FillExtent(obj[o].id) = {}
      <4>1. FillExtent(obj[o].id) # {} => call'[p].pc = "copy"
        BY <2>6, <3>1 DEF Copying, Inv
      <4> QED BY <4>1
    <3>3. obj[o].address # NULL /\ c.pc = "stat"
      BY <2>1, <2>2, <2>6, <2>7, <2>10 DEF InitFill, CallOK
    <3>4. size[obj[o].id] \in Int
      BY <3>3, AttachedExists, SharedMemoryAssumption DEF Inv, KernelTypeOK
    <3>5. 0..size[obj[o].id] - 1 = {} BY <3>2, <3>4 DEF FillExtent, Extent
    <3> QED BY <2>1, <2>7, <3>1, <3>5
  <2>11. CASE CopyByte(o)
    <3>1. c.pc = "copy" /\ c.byte = "init"
      BY <2>1, <2>6, <2>11 DEF CopyByte
    <3>2. PICK i : i = obj[o].id OBVIOUS
    <3>3. obj[o].address # NULL BY <2>2, <2>7, <3>1 DEF CallOK
    <3>4. i \in Ids BY <3>2, <3>3, AttachedExists
    <3>5. maps[p][obj[o].address].id = i
      <4>1. maps[p][obj[o].address] = [id |-> obj[o].id, rdonly |-> obj[o].read_only]
        BY <2>6, <3>3 DEF Inv, AttachedIsMapped
      <4> QED BY <3>2, <4>1
    <3>6. PICK n \in c.todo :
            /\ Copying(o, c.todo \ {n}, c.byte)
            /\ bytes' = [bytes EXCEPT ![i][n] = c.byte]
            /\ UNCHANGED <<size, obj>>
      BY <2>1, <2>6, <2>11, <3>1, <3>5 DEF CopyByte, ContentsApart, segment
    <3>7. c.todo \ {n} = {}
      <4>1. c.todo \ {n} # {} => call'[p].pc = "copy"
        BY <2>6, <3>6 DEF Copying, Inv
      <4> QED BY <4>1
    <3>8. 0..size[i] - 1 \subseteq Positions
      BY <3>4, SharedMemoryAssumption DEF Inv, KernelTypeOK, Positions
    <3>9. \A m \in 0..size[i] - 1 : m \in c.todo \/ bytes[i][m] # "zero"
      BY <2>2, <2>7, <3>1, <3>2 DEF FillOK
    <3>10. \A m \in 0..size[i] - 1 : bytes'[i][m] # "zero"
      BY <3>1, <3>4, <3>6, <3>7, <3>8, <3>9 DEF Inv, KernelTypeOK
    <3> QED BY <2>1, <2>7, <3>2, <3>6, <3>10
  <2> QED BY <2>6, <2>9, <2>10, <2>11
<1>2. Spec => []Inv /\ []FillInv BY SpecInv, SpecFill
<1>3. [][Next]_vars /\ []Inv /\ []FillInv => [][A]_vars BY <1>1, PTL
<1>4. A <=> \A p \in Procs :
       LET c == call[p]
           constructed ==
             /\ \/ c.pc = "shmat" /\ c.flags = CREX /\ "w" \in c.mode
                \/ c.pc = "stat"
                \/ c.pc = "copy" /\ c.byte = "init"
             /\ call'[p].pc = "idle" /\ call'[p].obj = c.obj
             /\ call'[p].res = "ok" /\ obj'[c.obj] # NoObject
       IN  constructed =>
             \A n \in 0..size'[obj'[c.obj].id] - 1 :
               bytes'[obj'[c.obj].id][n] # "zero"
  OBVIOUS
<1> QED BY <1>2, <1>3, <1>4, PTL DEF Spec, InitCharacterFills

=============================================================================
