------------------------------- MODULE Segments -------------------------------
(***************************************************************************)
(* What the SharedMemory class promises callers who detach what they       *)
(* attach: an object is attached to one segment from attach to detach, and *)
(* the segment stays as large as it was made and keeps its bytes, whoever  *)
(* removes it meanwhile; it goes as soon as it has been removed and the    *)
(* last object is detached, and not before.  The only bytes that change    *)
(* are those a writer writes, within the segment it is attached to, and it *)
(* writes in no name but its own process's or that of the constructor.     *)
(***************************************************************************)
EXTENDS Integers

CONSTANTS
  Objects, Procs,
  ProcOf,     \* the process of each object
  Ids,        \* of segments; 0 is none of them
  SHMMAX      \* the largest size

VARIABLES
  status,     \* of each segment: "unused", "live", "marked" or "gone"
  size,       \* how many bytes it has
  bytes,      \* who has put each there
  attached,   \* the segment each object is attached to, or 0
  writers     \* the objects that are attached for writing

segmentVars == <<status, size, bytes, attached, writers>>

There(i) == status[i] \in {"live", "marked"}

InUse(i, by) == \E o \in Objects : by[o] = i

----------------------------------------------------------------------------

Create(i) ==
  /\ status[i] = "unused" /\ status' = [status EXCEPT ![i] = "live"]
  /\ \E n \in 1..SHMMAX : size' = [size EXCEPT ![i] = n]
  /\ UNCHANGED <<bytes, attached, writers>>

Attach(o, i) ==
  /\ attached[o] = 0 /\ There(i)
  /\ attached' = [attached EXCEPT ![o] = i]
  /\ writers' \in {writers, writers \cup {o}}
  /\ UNCHANGED <<status, size, bytes>>

\* Objects are detached: one by its caller, or those of a process that ends.
Detach(leaving) ==
  /\ attached' = [o \in Objects |-> IF o \in leaving THEN 0 ELSE attached[o]]
  /\ writers' = writers \ leaving
  /\ status' = [i \in Ids |-> IF status[i] = "marked" /\ ~InUse(i, attached')
                              THEN "gone" ELSE status[i]]
  /\ UNCHANGED <<size, bytes>>

Write(o, n, byte) ==
  LET i == attached[o] IN
  /\ o \in writers /\ n \in 0..size[i] - 1
  /\ bytes' = [bytes EXCEPT ![i][n] = byte]
  /\ UNCHANGED <<status, size, attached, writers>>

Remove(i) ==
  /\ There(i)
  /\ status' = [status EXCEPT ![i] = IF InUse(i, attached) THEN "marked" ELSE "gone"]
  /\ UNCHANGED <<size, bytes, attached, writers>>

SegmentInit ==
  /\ status = [i \in Ids |-> "unused"]
  /\ size = [i \in Ids |-> 0]
  /\ bytes = [i \in Ids |-> [n \in 0..SHMMAX - 1 |-> "zero"]]
  /\ attached = [o \in Objects |-> 0]
  /\ writers = {}

SegmentNext ==
  \/ \E i \in Ids : Create(i) \/ Remove(i) \/ \E o \in Objects : Attach(o, i)
  \/ \E o \in Objects :
       \/ Detach({o})
       \/ \E n \in 0..SHMMAX - 1, byte \in {"init", ProcOf[o]} : Write(o, n, byte)
  \/ \E p \in Procs : Detach({o \in Objects : ProcOf[o] = p})

SegmentSpec == SegmentInit /\ [][SegmentNext]_segmentVars

=============================================================================
