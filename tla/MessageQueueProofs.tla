-------------------------- MODULE MessageQueueProofs --------------------------
(* Theorems about MessageQueue, for every value of its constants. *)
EXTENDS MessageQueue, TLAPS

USE MessageQueueAssumption, KeysAssumption

----------------------------------------------------------------------------
(* Keys.                                                                   *)

\* Whatever int a caller passes, the kernel gets a key_t.
LEMMA NarrowedKey ==
  ASSUME NEW n \in Int
  PROVE  ToKeyT(n) \in KeyT
<1> DEFINE d == 2 * (INT_MAX + 1)
           m == n + INT_MAX + 1
<1>1. d \in Nat \ {0} /\ m \in Int
  OBVIOUS
<1>2. m % d \in 0..(d - 1)
  BY <1>1
<1>3. ToKeyT(n) = (m % d) - (INT_MAX + 1)
  BY DEF ToKeyT
<1> HIDE DEF m
<1> QED
  BY <1>2, <1>3 DEF KeyT

\* A key that key_t can hold is used as it is.
LEMMA KeyInRangeIsKept ==
  ASSUME NEW n \in KeyT
  PROVE  ToKeyT(n) = n
<1> DEFINE d == 2 * (INT_MAX + 1)
           m == n + INT_MAX + 1
<1>1. d \in Nat \ {0} /\ m \in Int /\ 0 <= m /\ m < d
  BY DEF KeyT
<1>2. m % d = m
  BY <1>1
<1> QED
  BY <1>2 DEF ToKeyT, KeyT

\* A key one range of int too large opens what the key itself opens: 2**32 + 42
\* the queue of 42, and 2**32 a private one (common.c:70).
THEOREM KeyWraps ==
  ASSUME NEW n \in KeyT
  PROVE  2 * (INT_MAX + 1) + n \in KEY_MIN..KEY_MAX
           => ToKeyT(2 * (INT_MAX + 1) + n) = n
<1> DEFINE d == 2 * (INT_MAX + 1)
           m == n + INT_MAX + 1
<1>1. d \in Nat \ {0} /\ m \in 0..(d - 1)
  BY DEF KeyT
<1>2. (d + n) + INT_MAX + 1 = m + d
  BY <1>1 DEF KeyT
<1> HIDE DEF d, m
<1>3. (m + d) % d = m
  BY <1>1
<1>4. ToKeyT(d + n) = m - (INT_MAX + 1)
  BY <1>2, <1>3 DEF ToKeyT, d
<1> QED
  BY <1>4 DEF KeyT, d, m

LEMMA DrawnKeyIsKey == get_random_key \subseteq KeyT
BY DEF get_random_key, KeyT

----------------------------------------------------------------------------
(* Calls.                                                                  *)

Call    == IdleCall \cup GenkeyCall \cup SendCall \cup ReceiveCall \cup IpcSetCall
Object  == [key : KeyT, id : Ids, max : MaxSizes]
Objects == Object \cup {NoHandle}

KernelTypeOK ==
  /\ idOf \in [KeyT -> Ids \cup {NoId}]
  /\ status \in [Ids -> {"unused", "live", "removed"}]
  /\ mode \in [Ids -> SUBSET {"r", "w"}]
  /\ qbytes \in [Ids -> Nat]
  /\ queue \in [Ids -> Seq(Message)]

CallerTypeOK ==
  /\ handle \in [Procs -> Objects]
  /\ buffer \in [Procs -> Texts]
  /\ call \in [Threads -> Call]

LEMMA TypeParts == TypeOK <=> KernelTypeOK /\ CallerTypeOK
BY DEF TypeOK, KernelTypeOK, CallerTypeOK, Call, Objects, Object

LEMMA IdleIsCall ==
  ASSUME NEW result \in Results, NEW got \in Seq(Message)
  PROVE  Idle(result, got) \in Call
BY DEF Idle, Call, IdleCall

LEMMA NoMessage == <<>> \in Seq(Message)
OBVIOUS

LEMMA SequenceOfOne ==
  ASSUME NEW m \in Message
  PROVE  <<m>> \in Seq(Message)
OBVIOUS

LEMMA ReturnType ==
  ASSUME call \in [Threads -> Call], NEW t \in Threads, NEW result \in Results,
         Return(t, result)
  PROVE  call' \in [Threads -> Call]
<1>1. Idle(result, <<>>) \in Call
  BY IdleIsCall, NoMessage
<1> QED
  BY <1>1 DEF Return

LEMMA FailType ==
  ASSUME TypeOK, NEW t \in Threads, NEW result \in Results, Fail(t, result)
  PROVE  TypeOK'
<1>1. call' \in [Threads -> Call]
  BY ReturnType DEF Fail, TypeOK, Call
<1> QED
  BY <1>1 DEF Fail, TypeOK, kernel, Call

\* What a call under way is, by its pc.
LEMMA CallByPc ==
  ASSUME TypeOK, NEW t \in Threads
  PROVE  /\ call[t].pc = "genkey" => call[t] \in GenkeyCall
         /\ call[t].pc \in InSend => call[t] \in SendCall
         /\ call[t].pc \in InReceive => call[t] \in ReceiveCall
         /\ call[t].pc = "ipcset" => call[t] \in IpcSetCall
         /\ call[t].pc = "idle" => call[t] \in IdleCall
<1>1. call[t] \in Call
  BY DEF TypeOK, Call
<1> QED
  BY <1>1 DEF Call, IdleCall, GenkeyCall, SendCall, ReceiveCall, IpcSetCall,
              InSend, InReceive

\* An object that can be used is one.
LEMMA UsedHandle ==
  ASSUME TypeOK, NEW t \in Threads, CanUse(t)
  PROVE  handle[ProcOf[t]] \in Object
<1>1. handle[ProcOf[t]] \in Objects
  BY DEF TypeOK, Objects, Object
<1> QED
  BY <1>1 DEF CanUse, Objects, NoHandle

LEMMA ErrorsAreResults ==
  /\ \A e \in DOMAIN init_error : init_error[e] \in Results
  /\ \A e \in DOMAIN send_error : send_error[e] \in Results
  /\ \A e \in DOMAIN receive_error : receive_error[e] \in Results
  /\ \A e \in DOMAIN ctl_error : ctl_error[e] \in Results
BY DEF init_error, send_error, receive_error, ctl_error, Results

\* A call that begins, or begins to wait.
LEMMA BeginType ==
  ASSUME TypeOK, NEW t \in Threads, NEW c \in Call,
         call' = [call EXCEPT ![t] = c], UNCHANGED <<kernel, handle, buffer>>
  PROVE  TypeOK'
BY DEF TypeOK, Call, kernel

----------------------------------------------------------------------------
(* Each operation preserves TypeOK.                                        *)

LEMMA NewHandleType ==
  ASSUME CallerTypeOK, NEW t \in Threads, NEW k \in KeyT, NEW i \in Ids,
         NEW max \in MaxSizes, NewHandle(t, k, i, max)
  PROVE  CallerTypeOK'
<1>1. [key |-> k, id |-> i, max |-> max] \in Objects
  BY DEF Objects, Object
<1>2. handle' \in [Procs -> Objects]
  BY <1>1 DEF NewHandle, CallerTypeOK
<1>3. call' \in [Threads -> Call]
  BY ReturnType DEF NewHandle, CallerTypeOK, Results
<1> QED
  BY <1>2, <1>3 DEF NewHandle, CallerTypeOK

LEMMA AllocateType ==
  ASSUME KernelTypeOK, NEW k \in KeyT, NEW i \in Ids, NEW m \in Modes,
         Allocate(k, i, m)
  PROVE  KernelTypeOK'
<1>1. /\ status' \in [Ids -> {"unused", "live", "removed"}]
      /\ mode' \in [Ids -> SUBSET {"r", "w"}]
      /\ qbytes' \in [Ids -> Nat]
      /\ UNCHANGED queue
  BY DEF Allocate, KernelTypeOK
<1>2. idOf' \in [KeyT -> Ids \cup {NoId}]
  BY DEF Allocate, KernelTypeOK
<1> QED
  BY <1>1, <1>2 DEF KernelTypeOK

LEMMA MsggetErrnos ==
  ASSUME NEW k, NEW flags, NEW m
  PROVE  MsggetErrno(k, flags, m) \in DOMAIN init_error \cup {"none"}
BY DEF MsggetErrno, init_error

LEMMA MsggetType ==
  ASSUME TypeOK, NEW t \in Threads, NEW k \in KeyT, NEW flags \in Flags,
         NEW m \in Modes, NEW max \in MaxSizes, Msgget(t, k, flags, m, max)
  PROVE  TypeOK'
<1> DEFINE errno == MsggetErrno(k, flags, m)
<1>1. CASE errno # "none" /\ Fail(t, init_error[errno])
  <2>1. init_error[errno] \in Results
    BY <1>1, MsggetErrnos, ErrorsAreResults
  <2> QED
    BY <1>1, <2>1, FailType
<1>2. CASE Exists(k) /\ NewHandle(t, k, idOf[k], max) /\ UNCHANGED kernel
  <2>1. idOf[k] \in Ids
    BY <1>2 DEF Exists, TypeOK
  <2>2. CallerTypeOK'
    BY <1>2, <2>1, TypeParts, NewHandleType
  <2>3. KernelTypeOK'
    BY <1>2, TypeParts DEF KernelTypeOK, kernel
  <2> QED
    BY <2>2, <2>3, TypeParts DEF TypeOK, KernelTypeOK, CallerTypeOK, Call, Objects, Object
<1>3. ASSUME NEW i \in Ids, Allocate(k, i, m), NewHandle(t, k, i, max)
      PROVE  TypeOK'
  <2>1. CallerTypeOK' /\ KernelTypeOK'
    BY <1>3, TypeParts, NewHandleType, AllocateType
  <2> QED
    BY <2>1, TypeParts DEF TypeOK, KernelTypeOK, CallerTypeOK, Call, Objects, Object
<1> QED
  BY <1>1, <1>2, <1>3 DEF Msgget

LEMMA InitType ==
  ASSUME TypeOK, NEW t \in Threads, NEW arg \in KeyArgs, NEW flags \in Flags,
         NEW m \in Modes, NEW max \in MaxSizes,
         MessageQueue_init(t, arg, flags, m, max)
  PROVE  TypeOK'
<1> DEFINE c == [pc |-> "genkey", flags |-> flags, mode |-> m, max |-> max]
<1>1. CASE Fail(t, "Type") \/ Fail(t, "Value")
  BY <1>1, FailType DEF Results
<1>2. CASE call' = [call EXCEPT ![t] = c] /\ UNCHANGED <<kernel, handle, buffer>>
  <2>1. c \in Call
    BY DEF Call, GenkeyCall
  <2> HIDE DEF c
  <2> QED
    BY <1>2, <2>1, BeginType
<1>3. CASE arg # None /\ Msgget(t, ToKeyT(arg), flags, m, max)
  <2>1. ToKeyT(arg) \in KeyT
    BY <1>3, NarrowedKey
  <2> QED
    BY <1>3, <2>1, MsggetType
<1> QED
  BY <1>1, <1>2, <1>3 DEF MessageQueue_init

LEMMA TryRandomKeyType ==
  ASSUME TypeOK, NEW t \in Threads, TryRandomKey(t)
  PROVE  TypeOK'
<1>1. call[t] \in GenkeyCall
  BY CallByPc DEF TryRandomKey
<1>2. /\ call[t].flags \in Flags /\ call[t].mode \in Modes
      /\ call[t].max \in MaxSizes
  BY <1>1 DEF GenkeyCall
<1>3. PICK k \in KeyT, flags \in Flags, m \in Modes, max \in MaxSizes :
        Msgget(t, k, flags, m, max)
  BY <1>2, DrawnKeyIsKey DEF TryRandomKey
<1> QED
  BY <1>3, MsggetType

LEMMA SendType ==
  ASSUME TypeOK, NEW t \in Threads, NEW type \in Types, NEW block \in BOOLEAN,
         MessageQueue_send(t, type, block)
  PROVE  TypeOK'
<1> DEFINE h == handle[ProcOf[t]]
           text == buffer[ProcOf[t]]
           c == [pc |-> "msgsnd", id |-> h.id, block |-> block,
                 msg |-> [type |-> type, text |-> text, limit |-> h.max]]
<1>1. CASE Fail(t, "Value") \/ Fail(t, "Memory")
  BY <1>1, FailType DEF Results
<1>2. CASE /\ type > 0
           /\ call' = [call EXCEPT ![t] = c]
           /\ UNCHANGED <<kernel, handle, buffer>>
  <2>1. h \in Object
    BY UsedHandle DEF MessageQueue_send
  <2>2. text \in Texts /\ h.id \in Ids /\ h.max \in MaxSizes
    BY <2>1 DEF TypeOK, Object
  <2>3. [type |-> type, text |-> text, limit |-> h.max] \in Message
    BY <1>2, <2>2 DEF Message
  <2>4. c \in SendCall
    BY <2>2, <2>3 DEF SendCall, InSend
  <2> HIDE DEF c
  <2> QED
    BY <1>2, <2>4, BeginType DEF Call
<1>3. ~BadType(type) => type > 0
  BY DEF BadType
<1> QED
  BY <1>1, <1>2, <1>3 DEF MessageQueue_send

LEMMA ReceiveBeginType ==
  ASSUME TypeOK, NEW t \in Threads, NEW want \in Wants, NEW block \in BOOLEAN,
         MessageQueue_receive(t, want, block)
  PROVE  TypeOK'
<1> DEFINE h == handle[ProcOf[t]]
           c == [pc |-> "msgrcv", id |-> h.id, block |-> block,
                 want |-> want, max |-> h.max]
<1>1. CASE Fail(t, "Memory")
  BY <1>1, FailType DEF Results
<1>2. CASE call' = [call EXCEPT ![t] = c] /\ UNCHANGED <<kernel, handle, buffer>>
  <2>1. h \in Object
    BY UsedHandle DEF MessageQueue_receive
  <2>2. c \in ReceiveCall
    BY <2>1 DEF ReceiveCall, InReceive, Object
  <2> HIDE DEF c
  <2> QED
    BY <1>2, <2>2, BeginType DEF Call
<1> QED
  BY <1>1, <1>2 DEF MessageQueue_receive

LEMMA WaitType ==
  ASSUME TypeOK, NEW t \in Threads, NEW pc,
         \/ call[t].pc \in InSend /\ pc \in InSend
         \/ call[t].pc \in InReceive /\ pc \in InReceive,
         Wait(t, pc)
  PROVE  TypeOK'
<1>1. [call[t] EXCEPT !.pc = pc] \in Call
  <2>1. CASE call[t].pc \in InSend /\ pc \in InSend
    BY <2>1, CallByPc DEF Call, SendCall
  <2>2. CASE call[t].pc \in InReceive /\ pc \in InReceive
    BY <2>2, CallByPc DEF Call, ReceiveCall
  <2> QED
    BY <2>1, <2>2
<1>2. PICK c \in Call : c = [call[t] EXCEPT !.pc = pc]
  BY <1>1
<1>3. call' = [call EXCEPT ![t] = c]
  BY <1>2 DEF Wait, TypeOK
<1>4. UNCHANGED <<kernel, handle, buffer>>
  BY DEF Wait
<1> QED
  BY <1>3, <1>4, BeginType

LEMMA PutType ==
  ASSUME TypeOK, NEW t \in Threads, call[t].pc \in InSend, Put(t)
  PROVE  TypeOK'
<1>1. call[t].id \in Ids /\ call[t].msg \in Message
  BY CallByPc DEF SendCall
<1>2. queue' \in [Ids -> Seq(Message)]
  BY <1>1 DEF Put, SentMessage, TypeOK
<1>3. call' \in [Threads -> Call]
  BY ReturnType DEF Put, TypeOK, Call, Results
<1> QED
  BY <1>2, <1>3 DEF Put, TypeOK, Call

LEMMA SendErrnos ==
  ASSUME NEW c
  PROVE  SendErrno(c) \in DOMAIN send_error \cup {"none"}
BY DEF SendErrno, send_error

LEMMA MsgsndType ==
  ASSUME TypeOK, NEW t \in Threads, Msgsnd(t) \/ SendWakes(t)
  PROVE  TypeOK'
<1> DEFINE errno == SendErrno(call[t])
<1>1. call[t].pc \in InSend
  BY DEF Msgsnd, SendWakes, InSend
<1>2. CASE Put(t)
  BY <1>1, <1>2, PutType
<1>3. CASE Wait(t, "sndwait")
  BY <1>1, <1>3, WaitType DEF InSend
<1>4. CASE errno # "none" /\ Fail(t, send_error[errno])
  BY <1>4, SendErrnos, ErrorsAreResults, FailType
<1>5. CASE Fail(t, send_error["EIDRM"])
  BY <1>5, FailType DEF send_error, Results
<1> QED
  BY <1>2, <1>3, <1>4, <1>5 DEF Msgsnd, SendWakes

\* What is left of a queue is a queue.
LEMMA RemoveAtType ==
  ASSUME NEW S, NEW q \in Seq(S), NEW n \in DOMAIN q
  PROVE  RemoveAt(q, n) \in Seq(S)
<1>1. SubSeq(q, 1, n - 1) \in Seq(S) /\ SubSeq(q, n + 1, Len(q)) \in Seq(S)
  OBVIOUS
<1> QED
  BY <1>1 DEF RemoveAt

LEMMA GetType ==
  ASSUME TypeOK, NEW t \in Threads, call[t].pc \in InReceive,
         NEW n \in DOMAIN queue[call[t].id], Get(t, n)
  PROVE  TypeOK'
<1> DEFINE c == call[t]
           m == queue[c.id][n]
<1>1. c.id \in Ids
  BY CallByPc DEF ReceiveCall
<1>2. queue[c.id] \in Seq(Message)
  BY <1>1 DEF TypeOK
<1>3. m \in Message
  BY <1>2
<1>4. CASE Fail(t, receive_error["E2BIG"])
  BY <1>4, FailType DEF receive_error, Results
<1>5. CASE /\ queue' = [queue EXCEPT ![c.id] = RemoveAt(@, n)]
           /\ \/ call' = [call EXCEPT ![t] = Idle("ok", <<m>>)]
              \/ Return(t, "Memory")
           /\ UNCHANGED <<idOf, status, mode, qbytes, handle, buffer>>
  <2>1. RemoveAt(queue[c.id], n) \in Seq(Message)
    BY <1>2, RemoveAtType
  <2>2. queue' \in [Ids -> Seq(Message)]
    BY <1>5, <1>1, <2>1 DEF TypeOK
  <2>3. Idle("ok", <<m>>) \in Call
    BY <1>3, SequenceOfOne, IdleIsCall DEF Results
  <2> HIDE DEF m
  <2>4. call' \in [Threads -> Call]
    <3>1. CASE call' = [call EXCEPT ![t] = Idle("ok", <<m>>)]
      BY <2>3, <3>1 DEF TypeOK, Call
    <3>2. CASE Return(t, "Memory")
      BY <3>2, ReturnType DEF TypeOK, Call, Results
    <3> QED
      BY <1>5, <3>1, <3>2
  <2> QED
    BY <1>5, <2>2, <2>4 DEF TypeOK, Call
<1> QED
  BY <1>4, <1>5 DEF Get

LEMMA ReceiveType ==
  ASSUME TypeOK, NEW t \in Threads, call[t].pc \in InReceive,
         NEW goneErrno \in {"EINVAL", "EIDRM"}, Receive(t, goneErrno)
  PROVE  TypeOK'
<1>1. CASE Fail(t, receive_error[goneErrno]) \/ Fail(t, receive_error["EACCES"])
  BY <1>1, FailType DEF receive_error, Results
<1>2. CASE \E n \in DOMAIN queue[call[t].id] : Get(t, n)
  BY <1>2, GetType
<1> QED
  BY <1>1, <1>2 DEF Receive

LEMMA MsgrcvType ==
  ASSUME TypeOK, NEW t \in Threads, Msgrcv(t) \/ ReceiveWakes(t)
  PROVE  TypeOK'
<1>1. call[t].pc \in InReceive
  BY DEF Msgrcv, ReceiveWakes, InReceive
<1>2. CASE Receive(t, "EINVAL") \/ Receive(t, "EIDRM")
  BY <1>1, <1>2, ReceiveType
<1>3. CASE Wait(t, "rcvwait")
  BY <1>1, <1>3, WaitType DEF InReceive
<1>4. CASE Fail(t, receive_error["ENOMSG"])
  BY <1>4, FailType DEF receive_error, Results
<1> QED
  BY <1>2, <1>3, <1>4 DEF Msgrcv, ReceiveWakes

LEMMA InterruptType ==
  ASSUME TypeOK, NEW t \in Threads, Interrupt(t)
  PROVE  TypeOK'
BY FailType DEF Interrupt, Results

LEMMA StatErrnos ==
  ASSUME NEW i
  PROVE  StatErrno(i) \in DOMAIN ctl_error \cup {"none"}
BY DEF StatErrno, ctl_error

LEMMA GetAValueType ==
  ASSUME TypeOK, NEW t \in Threads, get_a_value(t)
  PROVE  TypeOK'
<1> DEFINE errno == StatErrno(handle[ProcOf[t]].id)
<1>1. CASE errno = "none"
  BY <1>1, FailType DEF get_a_value, Results
<1>2. CASE errno # "none"
  <2>1. ctl_error[errno] \in Results
    BY <1>2, StatErrnos, ErrorsAreResults
  <2> QED
    BY <1>2, <2>1, FailType DEF get_a_value
<1> QED
  BY <1>1, <1>2

LEMMA ULongIsNat ==
  ASSUME NEW n \in Int
  PROVE  ToULong(n) \in Nat
<1>1. 2 * (LONG_MAX + 1) \in Nat \ {0}
  OBVIOUS
<1> QED
  BY <1>1 DEF ToULong

LEMMA SetAValueType ==
  ASSUME TypeOK, NEW t \in Threads, NEW field \in Settable, NEW m \in Modes,
         NEW capacity \in Capacities, set_a_value(t, field, m, capacity)
  PROVE  TypeOK'
<1> DEFINE i == handle[ProcOf[t]].id
           errno == StatErrno(i)
           newMode == IF field = "mode" THEN m ELSE mode[i]
           newQbytes == IF field = "max_size" THEN ToULong(capacity) ELSE qbytes[i]
           c == [pc |-> "ipcset", id |-> i, field |-> field,
                 mode |-> newMode, qbytes |-> newQbytes]
<1>1. CASE errno # "none" /\ Fail(t, ctl_error[errno])
  <2>1. ctl_error[errno] \in Results
    BY <1>1, StatErrnos, ErrorsAreResults
  <2> QED
    BY <1>1, <2>1, FailType
<1>2. CASE call' = [call EXCEPT ![t] = c] /\ UNCHANGED <<kernel, handle, buffer>>
  <2>1. i \in Ids
    BY UsedHandle DEF set_a_value, Object
  <2>2. mode[i] \in SUBSET {"r", "w"} /\ qbytes[i] \in Nat
    BY <2>1 DEF TypeOK
  <2>3. newMode \in SUBSET {"r", "w"}
    BY <2>2
  <2>4. newQbytes \in Nat
    BY <2>2, ULongIsNat
  <2> HIDE DEF newMode, newQbytes
  <2>5. c \in IpcSetCall
    BY <2>1, <2>3, <2>4 DEF IpcSetCall
  <2> HIDE DEF c
  <2> QED
    BY <1>2, <2>5, BeginType DEF Call
<1> QED
  BY <1>1, <1>2 DEF set_a_value

LEMMA IpcSetType ==
  ASSUME TypeOK, NEW t \in Threads, IpcSet(t)
  PROVE  TypeOK'
<1> DEFINE c == call[t]
<1>1. c \in IpcSetCall
  BY CallByPc DEF IpcSet
<1>2. CASE Fail(t, ctl_error["EINVAL"]) \/ Fail(t, ctl_error["EPERM"])
  BY <1>2, FailType DEF ctl_error, Results
<1>3. CASE /\ mode' = [mode EXCEPT ![c.id] = c.mode]
           /\ qbytes' = [qbytes EXCEPT ![c.id] = c.qbytes]
           /\ Return(t, "ok")
           /\ UNCHANGED <<idOf, status, queue, handle, buffer>>
  <2>1. call' \in [Threads -> Call]
    BY <1>3, ReturnType DEF TypeOK, Call, Results
  <2>2. mode' \in [Ids -> SUBSET {"r", "w"}] /\ qbytes' \in [Ids -> Nat]
    BY <1>1, <1>3 DEF TypeOK, IpcSetCall
  <2> QED
    BY <1>3, <2>1, <2>2 DEF TypeOK, Call
<1> QED
  BY <1>2, <1>3 DEF IpcSet

LEMMA RemoveType ==
  ASSUME TypeOK, NEW t \in Threads, NEW i \in Ids, mq_remove(t, i)
  PROVE  TypeOK'
<1>1. CASE Fail(t, "Existential")
  BY <1>1, FailType DEF Results
<1>2. CASE /\ status' = [status EXCEPT ![i] = "removed"]
           /\ idOf' = [k \in KeyT |-> IF idOf[k] = i THEN NoId ELSE idOf[k]]
           /\ mode' = [mode EXCEPT ![i] = {}]
           /\ qbytes' = [qbytes EXCEPT ![i] = 0]
           /\ queue' = [queue EXCEPT ![i] = <<>>]
           /\ Return(t, "ok") /\ UNCHANGED <<handle, buffer>>
  <2>1. call' \in [Threads -> Call]
    BY <1>2, ReturnType DEF TypeOK, Call, Results
  <2>2. idOf' \in [KeyT -> Ids \cup {NoId}]
    BY <1>2 DEF TypeOK
  <2>3. status' \in [Ids -> {"unused", "live", "removed"}]
    BY <1>2 DEF TypeOK
  <2>4. mode' \in [Ids -> SUBSET {"r", "w"}] /\ qbytes' \in [Ids -> Nat]
    BY <1>2 DEF TypeOK
  <2>5. queue' \in [Ids -> Seq(Message)]
    BY <1>2, NoMessage DEF TypeOK
  <2> QED
    BY <1>2, <2>1, <2>2, <2>3, <2>4, <2>5 DEF TypeOK, Call
<1> QED
  BY <1>1, <1>2 DEF mq_remove, ctl_error

LEMMA RewriteType ==
  ASSUME TypeOK, NEW p \in Procs, NEW text \in Texts, Rewrite(p, text)
  PROVE  TypeOK'
BY DEF Rewrite, TypeOK, kernel

LEMMA ExitProcessType ==
  ASSUME TypeOK, NEW p \in Procs, ExitProcess(p)
  PROVE  TypeOK'
<1>1. Idle("none", <<>>) \in Call
  BY NoMessage, IdleIsCall DEF Results
<1>2. call' \in [Threads -> Call]
  BY <1>1 DEF ExitProcess, TypeOK, Call
<1>3. handle' \in [Procs -> Objects]
  BY DEF ExitProcess, TypeOK, Objects, Object
<1> QED
  BY <1>2, <1>3 DEF ExitProcess, TypeOK, kernel, Call, Objects, Object

LEMMA InitialType == Init => TypeOK
<1> SUFFICES ASSUME Init PROVE TypeOK
  OBVIOUS
<1>1. Idle("none", <<>>) \in Call
  BY NoMessage, IdleIsCall DEF Results
<1>2. call \in [Threads -> Call]
  BY <1>1 DEF Init
<1>3. queue \in [Ids -> Seq(Message)]
  BY NoMessage DEF Init
<1> QED
  BY <1>2, <1>3 DEF Init, TypeOK, Call

LEMMA ThreadStepType ==
  ASSUME TypeOK, NEW t \in Threads, ThreadStep(t)
  PROVE  TypeOK'
<1>1. CASE \E arg \in KeyArgs, flags \in Flags, m \in Modes, max \in MaxSizes :
              MessageQueue_init(t, arg, flags, m, max)
  BY <1>1, InitType
<1>2. CASE TryRandomKey(t)
  BY <1>2, TryRandomKeyType
<1>3. CASE \E type \in Types, block \in BOOLEAN : MessageQueue_send(t, type, block)
  BY <1>3, SendType
<1>4. CASE \E want \in Wants, block \in BOOLEAN : MessageQueue_receive(t, want, block)
  BY <1>4, ReceiveBeginType
<1>5. CASE KernelStep(t)
  BY <1>5, MsgsndType, MsgrcvType DEF KernelStep
<1>6. CASE Interrupt(t) \/ get_a_value(t)
  BY <1>6, InterruptType, GetAValueType
<1>7. CASE \E field \in Settable, m \in Modes, capacity \in Capacities :
              set_a_value(t, field, m, capacity)
  BY <1>7, SetAValueType
<1>8. CASE IpcSet(t)
  BY <1>8, IpcSetType
<1>9. CASE \E i \in Ids : mq_remove(t, i)
  BY <1>9, RemoveType
<1> QED
  BY <1>1, <1>2, <1>3, <1>4, <1>5, <1>6, <1>7, <1>8, <1>9 DEF ThreadStep

LEMMA NextType == TypeOK /\ [Next]_vars => TypeOK'
<1> SUFFICES ASSUME TypeOK, [Next]_vars PROVE TypeOK'
  OBVIOUS
<1>1. CASE \E t \in Threads : ThreadStep(t)
  BY <1>1, ThreadStepType
<1>2. CASE \E p \in Procs, text \in Texts : Rewrite(p, text)
  BY <1>2, RewriteType
<1>3. CASE \E p \in Procs : ExitProcess(p)
  BY <1>3, ExitProcessType
<1>4. CASE UNCHANGED vars
  BY <1>4 DEF vars, TypeOK
<1> QED
  BY <1>1, <1>2, <1>3, <1>4 DEF Next

\* Every call and every queue stays of its type, whatever is called, killed,
\* interrupted or removed in between.
THEOREM TypeCorrect == Spec => []TypeOK
<1> QED
  BY InitialType, NextType, PTL DEF Spec

----------------------------------------------------------------------------
(* Keys, queues and objects.                                               *)

\* Whoever keeps these keeps the names.
LEMMA NamesFrame ==
  ASSUME ObjectNamesItsQueue, UNCHANGED <<idOf, status, handle>>
  PROVE  ObjectNamesItsQueue'
BY DEF ObjectNamesItsQueue, KeysNameLiveQueues, Exists

\* The object that MessageQueue_init returns for a queue that is there.
LEMMA AttachNames ==
  ASSUME TypeOK, ObjectNamesItsQueue, NEW t \in Threads, NEW k \in KeyT,
         NEW max \in MaxSizes, Exists(k),
         NewHandle(t, k, idOf[k], max), UNCHANGED kernel
  PROVE  ObjectNamesItsQueue'
<1> DEFINE i == idOf[k]
<1>1. i \in Ids /\ i # NoId /\ status[i] = "live" /\ k # IPC_PRIVATE
  BY DEF ObjectNamesItsQueue, KeysNameLiveQueues, Exists, TypeOK
<1>2. \A l \in KeyT : idOf[l] = i <=> l = k
  BY DEF ObjectNamesItsQueue, KeysNameLiveQueues
<1>3. UNCHANGED <<idOf, status>>
  BY DEF kernel
<1>4. KeysNameLiveQueues'
  BY <1>3 DEF ObjectNamesItsQueue, KeysNameLiveQueues, Exists
<1>5. ASSUME NEW p \in Procs, handle'[p].id # NoId
      PROVE  /\ status'[handle'[p].id] # "unused"
             /\ status'[handle'[p].id] = "live" =>
                  \A l \in KeyT : idOf'[l] = handle'[p].id
                                    <=> l = handle'[p].key /\ l # IPC_PRIVATE
  <2>1. CASE p = ProcOf[t]
    <3>1. handle'[p] = [key |-> k, id |-> i, max |-> max]
      BY <2>1 DEF NewHandle, TypeOK
    <3> QED
      BY <3>1, <1>1, <1>2, <1>3
  <2>2. CASE p # ProcOf[t]
    <3>1. handle'[p] = handle[p]
      BY <2>2 DEF NewHandle, TypeOK
    <3> QED
      BY <3>1, <1>3, <1>5 DEF ObjectNamesItsQueue
  <2> QED
    BY <2>1, <2>2
<1> QED
  BY <1>4, <1>5 DEF ObjectNamesItsQueue

\* The object that MessageQueue_init returns for a queue it has created.
LEMMA CreateNames ==
  ASSUME TypeOK, ObjectNamesItsQueue, NEW t \in Threads, NEW k \in KeyT,
         NEW m \in Modes, NEW max \in MaxSizes, NEW i \in Ids, ~Exists(k),
         Allocate(k, i, m), NewHandle(t, k, i, max)
  PROVE  ObjectNamesItsQueue'
<1>1. i # NoId /\ status[i] = "unused"
  BY DEF Allocate, Ids, NoId
<1>2. \A l \in KeyT : idOf[l] # i
  BY <1>1 DEF ObjectNamesItsQueue, KeysNameLiveQueues, Exists
<1>3. status' = [status EXCEPT ![i] = "live"]
  BY DEF Allocate
<1>4. idOf' \in [KeyT -> Ids \cup {NoId}]
  BY DEF Allocate, TypeOK
<1>5. \A l \in KeyT : idOf'[l] = IF l = k /\ k # IPC_PRIVATE THEN i ELSE idOf[l]
  BY DEF Allocate, TypeOK
<1>6. \A l \in KeyT : idOf'[l] = i <=> l = k /\ l # IPC_PRIVATE
  BY <1>2, <1>5
<1>7. idOf[IPC_PRIVATE] = NoId /\ IPC_PRIVATE \in KeyT
  BY DEF ObjectNamesItsQueue, KeysNameLiveQueues, IPC_PRIVATE, KeyT
<1>8. KeysNameLiveQueues'
  <2>1. idOf'[IPC_PRIVATE] = NoId
    BY <1>5, <1>7
  <2>2. ASSUME NEW l \in KeyT, idOf'[l] # NoId PROVE status'[idOf'[l]] = "live"
    <3>1. CASE l = k /\ k # IPC_PRIVATE
      BY <3>1, <1>3, <1>5 DEF TypeOK
    <3>2. CASE ~(l = k /\ k # IPC_PRIVATE)
      <4>1. idOf'[l] = idOf[l] /\ idOf[l] # i
        BY <3>2, <1>2, <1>5
      <4>2. status[idOf[l]] = "live"
        BY <4>1, <2>2 DEF ObjectNamesItsQueue, KeysNameLiveQueues, Exists
      <4> QED
        BY <4>1, <4>2, <1>3, <2>2, <1>4 DEF TypeOK
    <3> QED
      BY <3>1, <3>2
  <2>3. ASSUME NEW l \in KeyT, NEW n \in KeyT, idOf'[l] # NoId, idOf'[l] = idOf'[n]
        PROVE  l = n
    <3>1. CASE idOf'[l] = i
      BY <3>1, <1>6, <2>3
    <3>2. CASE idOf'[l] # i
      <4>1. idOf'[l] = idOf[l] /\ idOf'[n] = idOf[n]
        BY <3>2, <2>3, <1>5
      <4> QED
        BY <4>1, <2>3 DEF ObjectNamesItsQueue, KeysNameLiveQueues, Exists
    <3> QED
      BY <3>1, <3>2
  <2> QED
    BY <2>1, <2>2, <2>3 DEF KeysNameLiveQueues, Exists
<1>9. ASSUME NEW p \in Procs, handle'[p].id # NoId
      PROVE  /\ status'[handle'[p].id] # "unused"
             /\ status'[handle'[p].id] = "live" =>
                  \A l \in KeyT : idOf'[l] = handle'[p].id
                                    <=> l = handle'[p].key /\ l # IPC_PRIVATE
  <2>1. CASE p = ProcOf[t]
    <3>1. handle'[p] = [key |-> k, id |-> i, max |-> max]
      BY <2>1 DEF NewHandle, TypeOK
    <3>2. status'[i] = "live"
      BY <1>3 DEF TypeOK
    <3> QED
      BY <3>1, <3>2, <1>6
  <2>2. CASE p # ProcOf[t]
    <3>1. handle'[p] = handle[p]
      BY <2>2 DEF NewHandle, TypeOK
    <3>2. status[handle[p].id] # "unused"
      BY <3>1, <1>9 DEF ObjectNamesItsQueue
    <3>3. handle[p].id # i
      BY <3>2, <1>1
    <3>4. status'[handle[p].id] = status[handle[p].id]
      BY <3>3, <1>3 DEF TypeOK
    <3>5. \A l \in KeyT : idOf'[l] = handle[p].id <=> idOf[l] = handle[p].id
      BY <3>1, <3>3, <1>5, <1>9 DEF Exists
    <3> QED
      BY <3>1, <3>2, <3>4, <3>5, <1>9 DEF ObjectNamesItsQueue
  <2> QED
    BY <2>1, <2>2
<1> QED
  BY <1>8, <1>9 DEF ObjectNamesItsQueue

LEMMA FailNames ==
  ASSUME ObjectNamesItsQueue, NEW t, NEW result, Fail(t, result)
  PROVE  ObjectNamesItsQueue'
BY NamesFrame DEF Fail, kernel

LEMMA MsggetNames ==
  ASSUME TypeOK, ObjectNamesItsQueue, NEW t \in Threads, NEW k \in KeyT,
         NEW flags \in Flags, NEW m \in Modes, NEW max \in MaxSizes,
         Msgget(t, k, flags, m, max)
  PROVE  ObjectNamesItsQueue'
<1>1. CASE \E errno : Fail(t, init_error[errno])
  BY <1>1, FailNames
<1>2. CASE Exists(k) /\ NewHandle(t, k, idOf[k], max) /\ UNCHANGED kernel
  BY <1>2, AttachNames
<1>3. CASE ~Exists(k) /\ \E i \in Ids : Allocate(k, i, m) /\ NewHandle(t, k, i, max)
  BY <1>3, CreateNames
<1> QED
  BY <1>1, <1>2, <1>3 DEF Msgget

\* A removed queue has no key.
LEMMA RemoveNames ==
  ASSUME TypeOK, ObjectNamesItsQueue, NEW t \in Threads, NEW i \in Ids,
         mq_remove(t, i)
  PROVE  ObjectNamesItsQueue'
<1>1. CASE \E result : Fail(t, result)
  BY <1>1, FailNames
<1>2. CASE /\ status[i] = "live"
           /\ status' = [status EXCEPT ![i] = "removed"]
           /\ idOf' = [k \in KeyT |-> IF idOf[k] = i THEN NoId ELSE idOf[k]]
           /\ UNCHANGED handle
  <2>1. \A k \in KeyT : idOf'[k] = IF idOf[k] = i THEN NoId ELSE idOf[k]
    BY <1>2
  <2>2. IPC_PRIVATE \in KeyT
    BY DEF IPC_PRIVATE, KeyT
  <2>3. KeysNameLiveQueues'
    <3>1. idOf'[IPC_PRIVATE] = NoId
      BY <2>1, <2>2 DEF ObjectNamesItsQueue, KeysNameLiveQueues
    <3>2. ASSUME NEW k \in KeyT, idOf'[k] # NoId PROVE status'[idOf'[k]] = "live"
      <4>1. idOf'[k] = idOf[k] /\ idOf[k] # i
        BY <3>2, <2>1
      <4>2. status[idOf[k]] = "live"
        BY <4>1, <3>2 DEF ObjectNamesItsQueue, KeysNameLiveQueues, Exists
      <4> QED
        BY <4>1, <4>2, <1>2 DEF TypeOK
    <3>3. ASSUME NEW k \in KeyT, NEW l \in KeyT, idOf'[k] # NoId, idOf'[k] = idOf'[l]
          PROVE  k = l
      <4>1. idOf'[k] = idOf[k] /\ idOf'[l] = idOf[l]
        BY <3>3, <2>1
      <4> QED
        BY <4>1, <3>3 DEF ObjectNamesItsQueue, KeysNameLiveQueues, Exists
    <3> QED
      BY <3>1, <3>2, <3>3 DEF KeysNameLiveQueues, Exists
  <2>4. ASSUME NEW p \in Procs, handle[p].id # NoId
        PROVE  /\ status'[handle[p].id] # "unused"
               /\ status'[handle[p].id] = "live" =>
                    \A k \in KeyT : idOf'[k] = handle[p].id
                                      <=> k = handle[p].key /\ k # IPC_PRIVATE
    <3>1. status[handle[p].id] # "unused"
      BY <2>4 DEF ObjectNamesItsQueue
    <3>2. CASE handle[p].id = i
      BY <3>2, <1>2 DEF TypeOK
    <3>3. CASE handle[p].id # i
      <4>1. status'[handle[p].id] = status[handle[p].id]
        BY <3>3, <1>2 DEF TypeOK
      <4>2. \A k \in KeyT : idOf'[k] = handle[p].id <=> idOf[k] = handle[p].id
        BY <3>3, <2>1, <2>4
      <4> QED
        BY <3>1, <4>1, <4>2, <2>4 DEF ObjectNamesItsQueue
    <3> QED
      BY <3>2, <3>3
  <2> QED
    BY <1>2, <2>3, <2>4 DEF ObjectNamesItsQueue
<1> QED
  BY <1>1, <1>2 DEF mq_remove

LEMMA ExitNames ==
  ASSUME TypeOK, ObjectNamesItsQueue, NEW p \in Procs, ExitProcess(p)
  PROVE  ObjectNamesItsQueue'
<1>1. UNCHANGED <<idOf, status>>
  BY DEF ExitProcess, kernel
<1>2. \A q \in Procs : handle'[q].id = NoId \/ handle'[q] = handle[q]
  BY DEF ExitProcess, TypeOK, NoHandle
<1>3. KeysNameLiveQueues'
  BY <1>1 DEF ObjectNamesItsQueue, KeysNameLiveQueues, Exists
<1> QED
  BY <1>1, <1>2, <1>3 DEF ObjectNamesItsQueue

\* The steps of a thread other than those that make or remove something.
OtherThreadStep(t) ==
  \/ \E type \in Types, block \in BOOLEAN : MessageQueue_send(t, type, block)
  \/ \E want \in Wants, block \in BOOLEAN : MessageQueue_receive(t, want, block)
  \/ KernelStep(t) \/ Interrupt(t) \/ get_a_value(t) \/ IpcSet(t)
  \/ \E field \in Settable, m \in Modes, capacity \in Capacities :
        set_a_value(t, field, m, capacity)

LEMMA OtherThreadStepNames ==
  ASSUME NEW t \in Threads, OtherThreadStep(t)
  PROVE  UNCHANGED <<idOf, status, handle>>
<1> USE DEF Fail, kernel
<1>1. CASE \E type \in Types, block \in BOOLEAN : MessageQueue_send(t, type, block)
  BY <1>1 DEF MessageQueue_send
<1>2. CASE \E want \in Wants, block \in BOOLEAN : MessageQueue_receive(t, want, block)
  BY <1>2 DEF MessageQueue_receive
<1>3. CASE KernelStep(t)
  BY <1>3 DEF KernelStep, Msgsnd, SendWakes, Msgrcv, ReceiveWakes, Put, Wait,
              Receive, Get
<1>4. CASE Interrupt(t) \/ get_a_value(t)
  BY <1>4 DEF Interrupt, get_a_value
<1>5. CASE \E field \in Settable, m \in Modes, capacity \in Capacities :
              set_a_value(t, field, m, capacity)
  BY <1>5 DEF set_a_value
<1>6. CASE IpcSet(t)
  BY <1>6 DEF IpcSet
<1> QED
  BY <1>1, <1>2, <1>3, <1>4, <1>5, <1>6 DEF OtherThreadStep

LEMMA InitNames ==
  ASSUME TypeOK, ObjectNamesItsQueue, NEW t \in Threads, NEW arg \in KeyArgs,
         NEW flags \in Flags, NEW m \in Modes, NEW max \in MaxSizes,
         MessageQueue_init(t, arg, flags, m, max)
  PROVE  ObjectNamesItsQueue'
<1>1. CASE Fail(t, "Type") \/ Fail(t, "Value")
  BY <1>1, FailNames
<1>2. CASE UNCHANGED <<kernel, handle, buffer>>
  BY <1>2, NamesFrame DEF kernel
<1>3. CASE arg # None /\ Msgget(t, ToKeyT(arg), flags, m, max)
  <2>1. ToKeyT(arg) \in KeyT
    BY <1>3, NarrowedKey
  <2> QED
    BY <1>3, <2>1, MsggetNames
<1> QED
  BY <1>1, <1>2, <1>3 DEF MessageQueue_init

LEMMA TryRandomKeyNames ==
  ASSUME TypeOK, ObjectNamesItsQueue, NEW t \in Threads, TryRandomKey(t)
  PROVE  ObjectNamesItsQueue'
<1>1. call[t] \in GenkeyCall
  BY CallByPc DEF TryRandomKey
<1>2. /\ call[t].flags \in Flags /\ call[t].mode \in Modes
      /\ call[t].max \in MaxSizes
  BY <1>1 DEF GenkeyCall
<1>3. PICK k \in KeyT, flags \in Flags, m \in Modes, max \in MaxSizes :
        Msgget(t, k, flags, m, max)
  BY <1>2, DrawnKeyIsKey DEF TryRandomKey
<1> QED
  BY <1>3, MsggetNames

LEMMA NextNames ==
  TypeOK /\ ObjectNamesItsQueue /\ [Next]_vars => ObjectNamesItsQueue'
<1> SUFFICES ASSUME TypeOK, ObjectNamesItsQueue, [Next]_vars
             PROVE  ObjectNamesItsQueue'
  OBVIOUS
<1>1. ASSUME NEW t \in Threads, ThreadStep(t) PROVE ObjectNamesItsQueue'
  <2>1. CASE \E arg \in KeyArgs, flags \in Flags, m \in Modes, max \in MaxSizes :
                MessageQueue_init(t, arg, flags, m, max)
    BY <2>1, InitNames
  <2>2. CASE TryRandomKey(t)
    BY <2>2, TryRandomKeyNames
  <2>3. CASE OtherThreadStep(t)
    BY <2>3, OtherThreadStepNames, NamesFrame
  <2>4. CASE \E i \in Ids : mq_remove(t, i)
    BY <2>4, RemoveNames
  <2> QED
    BY <1>1, <2>1, <2>2, <2>3, <2>4 DEF ThreadStep, OtherThreadStep
<1>2. CASE \E p \in Procs, text \in Texts : Rewrite(p, text)
  BY <1>2, NamesFrame DEF Rewrite, kernel
<1>3. CASE \E p \in Procs : ExitProcess(p)
  BY <1>3, ExitNames
<1>4. CASE UNCHANGED vars
  BY <1>4, NamesFrame DEF vars
<1> QED
  BY <1>1, <1>2, <1>3, <1>4 DEF Next

\* The key of an object leads to its queue, and to no other, as long as the
\* queue is there: whatever int, narrowed or drawn, the key was made from.
THEOREM NamesCorrect == Spec => []ObjectNamesItsQueue
<1>1. Init => ObjectNamesItsQueue
  BY DEF Init, ObjectNamesItsQueue, KeysNameLiveQueues, Exists, NoHandle,
         IPC_PRIVATE, KeyT
<1> QED
  BY <1>1, NextNames, TypeCorrect, PTL DEF Spec

----------------------------------------------------------------------------
(* The lengths of messages.                                                *)

OnQueuesWithinLimit ==
  \A i \in Ids : \A n \in DOMAIN queue[i] : WithinLimit(queue[i][n])

BeingSentWithinLimit ==
  \A t \in Threads : call[t].pc \in InSend => WithinLimit(call[t].msg)

\* Where one thread is no longer in send(), or still is with its message.
LEMMA BeingSentFrame ==
  ASSUME TypeOK, BeingSentWithinLimit, NEW t \in Threads, NEW c,
         c.pc \in InSend => WithinLimit(c.msg), call' = [call EXCEPT ![t] = c]
  PROVE  BeingSentWithinLimit'
<1> SUFFICES ASSUME NEW u \in Threads, call'[u].pc \in InSend
             PROVE  WithinLimit(call'[u].msg)
  BY DEF BeingSentWithinLimit, WithinLimit
<1>1. CASE u = t
  BY <1>1 DEF TypeOK
<1>2. CASE u # t
  BY <1>2 DEF TypeOK, BeingSentWithinLimit
<1> QED
  BY <1>1, <1>2

LEMMA ReturnWithinLimit ==
  ASSUME TypeOK, BeingSentWithinLimit, NEW t \in Threads, NEW result,
         Return(t, result)
  PROVE  BeingSentWithinLimit'
<1>1. PICK c : c = Idle(result, <<>>)
  OBVIOUS
<1>2. c.pc \notin InSend
  BY <1>1 DEF Idle, InSend
<1>3. call' = [call EXCEPT ![t] = c]
  BY <1>1 DEF Return
<1> QED
  BY <1>2, <1>3, BeingSentFrame

LEMMA FailWithinLimit ==
  ASSUME TypeOK, SentWithinLimit, NEW t \in Threads, NEW result, Fail(t, result)
  PROVE  SentWithinLimit'
<1>1. BeingSentWithinLimit /\ OnQueuesWithinLimit
  BY DEF SentWithinLimit, BeingSentWithinLimit, OnQueuesWithinLimit
<1>2. BeingSentWithinLimit'
  BY <1>1, ReturnWithinLimit DEF Fail
<1>3. OnQueuesWithinLimit'
  BY <1>1 DEF OnQueuesWithinLimit, WithinLimit, Fail, kernel
<1> QED
  BY <1>2, <1>3 DEF SentWithinLimit, BeingSentWithinLimit, OnQueuesWithinLimit

LEMMA MsggetWithinLimit ==
  ASSUME TypeOK, SentWithinLimit, NEW t \in Threads, NEW k, NEW flags, NEW m,
         NEW max, Msgget(t, k, flags, m, max)
  PROVE  SentWithinLimit'
<1>1. (\E result : Return(t, result)) /\ UNCHANGED queue
  BY DEF Msgget, Fail, NewHandle, Allocate, kernel
<1>2. BeingSentWithinLimit'
  BY <1>1, ReturnWithinLimit DEF SentWithinLimit, BeingSentWithinLimit
<1> QED
  BY <1>1, <1>2 DEF SentWithinLimit, BeingSentWithinLimit, WithinLimit

\* A call that begins, other than send().
LEMMA BeginWithinLimit ==
  ASSUME TypeOK, SentWithinLimit, NEW t \in Threads, NEW c, c.pc \notin InSend,
         call' = [call EXCEPT ![t] = c], UNCHANGED <<kernel, handle, buffer>>
  PROVE  SentWithinLimit'
<1>1. BeingSentWithinLimit'
  BY BeingSentFrame DEF SentWithinLimit, BeingSentWithinLimit
<1> QED
  BY <1>1 DEF SentWithinLimit, BeingSentWithinLimit, WithinLimit, kernel

LEMMA InitWithinLimit ==
  ASSUME TypeOK, SentWithinLimit, NEW t \in Threads, NEW arg, NEW flags, NEW m,
         NEW max, MessageQueue_init(t, arg, flags, m, max)
  PROVE  SentWithinLimit'
<1>1. CASE \E result : Fail(t, result)
  BY <1>1, FailWithinLimit
<1>2. CASE /\ call' = [call EXCEPT ![t] =
                [pc |-> "genkey", flags |-> flags, mode |-> m, max |-> max]]
           /\ UNCHANGED <<kernel, handle, buffer>>
  <2>1. PICK c : c = [pc |-> "genkey", flags |-> flags, mode |-> m, max |-> max]
    OBVIOUS
  <2>2. c.pc \notin InSend
    BY <2>1 DEF InSend
  <2>3. call' = [call EXCEPT ![t] = c]
    BY <1>2, <2>1
  <2>4. UNCHANGED <<kernel, handle, buffer>>
    BY <1>2
  <2> QED
    BY <2>2, <2>3, <2>4, BeginWithinLimit
<1>3. CASE Msgget(t, ToKeyT(arg), flags, m, max)
  BY <1>3, MsggetWithinLimit
<1> QED
  BY <1>1, <1>2, <1>3 DEF MessageQueue_init

\* send() refuses what is too long for its object.
LEMMA SendWithinLimit ==
  ASSUME TypeOK, SentWithinLimit, NEW t \in Threads, NEW type \in Types,
         NEW block, MessageQueue_send(t, type, block)
  PROVE  SentWithinLimit'
<1> DEFINE h == handle[ProcOf[t]]
           text == buffer[ProcOf[t]]
<1>1. CASE \E result : Fail(t, result)
  BY <1>1, FailWithinLimit
<1>2. CASE /\ ~TooLong(text, h.max)
           /\ call' = [call EXCEPT ![t] =
                [pc |-> "msgsnd", id |-> h.id, block |-> block,
                 msg |-> [type |-> type, text |-> text, limit |-> h.max]]]
           /\ UNCHANGED <<kernel, handle, buffer>>
  <2>1. Size[text] \in Nat /\ h.max \in Nat
    BY UsedHandle DEF MessageQueue_send, Object, TypeOK
  <2>2. Size[text] <= h.max
    BY <1>2, <2>1 DEF TooLong
  <2>3. PICK c : c = [pc |-> "msgsnd", id |-> h.id, block |-> block,
                      msg |-> [type |-> type, text |-> text, limit |-> h.max]]
    OBVIOUS
  <2>4. c.pc \in InSend => WithinLimit(c.msg)
    BY <2>2, <2>3 DEF WithinLimit
  <2>5. BeingSentWithinLimit'
    BY <1>2, <2>3, <2>4, BeingSentFrame DEF SentWithinLimit, BeingSentWithinLimit
  <2> QED
    BY <1>2, <2>5 DEF SentWithinLimit, BeingSentWithinLimit, WithinLimit, kernel
<1> QED
  BY <1>1, <1>2 DEF MessageQueue_send

LEMMA ReceiveBeginWithinLimit ==
  ASSUME TypeOK, SentWithinLimit, NEW t \in Threads, NEW want, NEW block,
         MessageQueue_receive(t, want, block)
  PROVE  SentWithinLimit'
<1> DEFINE h == handle[ProcOf[t]]
<1>1. CASE Fail(t, "Memory")
  BY <1>1, FailWithinLimit
<1>2. CASE /\ call' = [call EXCEPT ![t] =
                [pc |-> "msgrcv", id |-> h.id, block |-> block,
                 want |-> want, max |-> h.max]]
           /\ UNCHANGED <<kernel, handle, buffer>>
  <2>1. PICK c : c = [pc |-> "msgrcv", id |-> h.id, block |-> block,
                      want |-> want, max |-> h.max]
    OBVIOUS
  <2>2. c.pc \notin InSend
    BY <2>1 DEF InSend
  <2>3. call' = [call EXCEPT ![t] = c]
    BY <1>2, <2>1
  <2>4. UNCHANGED <<kernel, handle, buffer>>
    BY <1>2
  <2> QED
    BY <2>2, <2>3, <2>4, BeginWithinLimit
<1> QED
  BY <1>1, <1>2 DEF MessageQueue_receive

\* A call that goes on to wait keeps its message.
LEMMA WaitWithinLimit ==
  ASSUME TypeOK, SentWithinLimit, NEW t \in Threads, NEW pc,
         pc \in InSend => call[t].pc \in InSend, Wait(t, pc)
  PROVE  SentWithinLimit'
<1>1. call[t] \in Call
  BY DEF TypeOK, Call
<1>2. [call[t] EXCEPT !.pc = pc].pc = pc
  BY <1>1 DEF Call, IdleCall, GenkeyCall, SendCall, ReceiveCall, IpcSetCall
<1>3. call[t].pc \in InSend => [call[t] EXCEPT !.pc = pc].msg = call[t].msg
  BY CallByPc DEF SendCall
<1>4. PICK c : c = [call[t] EXCEPT !.pc = pc]
  OBVIOUS
<1>5. c.pc \in InSend => WithinLimit(c.msg)
  BY <1>2, <1>3, <1>4 DEF SentWithinLimit
<1>6. call' = [call EXCEPT ![t] = c]
  BY <1>4 DEF Wait, TypeOK
<1>7. BeingSentWithinLimit'
  BY <1>5, <1>6, BeingSentFrame DEF SentWithinLimit, BeingSentWithinLimit
<1> QED
  BY <1>7 DEF Wait, SentWithinLimit, BeingSentWithinLimit, WithinLimit, kernel

LEMMA PutWithinLimit ==
  ASSUME TypeOK, SentWithinLimit, NEW t \in Threads, call[t].pc \in InSend, Put(t)
  PROVE  SentWithinLimit'
<1>1. BeingSentWithinLimit'
  BY ReturnWithinLimit DEF Put, SentWithinLimit, BeingSentWithinLimit
<1>2. WithinLimit(call[t].msg) /\ call[t].id \in Ids /\ call[t].msg \in Message
  BY CallByPc DEF SentWithinLimit, SendCall
<1>3. ASSUME NEW i \in Ids, NEW n \in DOMAIN queue'[i] PROVE WithinLimit(queue'[i][n])
  <2>1. CASE i = call[t].id
    <3>1. queue'[i] = Append(queue[i], call[t].msg) /\ queue[i] \in Seq(Message)
      BY <2>1 DEF Put, SentMessage, TypeOK
    <3>2. queue'[i][n] = call[t].msg \/ (n \in DOMAIN queue[i] /\ queue'[i][n] = queue[i][n])
      BY <3>1, <1>2, <1>3
    <3> QED
      BY <3>2, <1>2 DEF SentWithinLimit
  <2>2. CASE i # call[t].id
    BY <2>2, <1>3 DEF Put, TypeOK, SentWithinLimit
  <2> QED
    BY <2>1, <2>2
<1> QED
  BY <1>1, <1>3 DEF SentWithinLimit, BeingSentWithinLimit, WithinLimit

\* What RemoveAt leaves was there before.
LEMMA RemoveAtElements ==
  ASSUME NEW S, NEW q \in Seq(S), NEW n \in DOMAIN q,
         NEW k \in DOMAIN RemoveAt(q, n)
  PROVE  \E j \in DOMAIN q : RemoveAt(q, n)[k] = q[j]
<1>1. PICK R : R = {q[j] : j \in DOMAIN q}
  OBVIOUS
<1>2. q \in Seq(R)
  BY <1>1
<1>3. PICK r \in Seq(R) : r = RemoveAt(q, n)
  BY <1>2, RemoveAtType
<1>4. r[k] \in R
  BY <1>3
<1> QED
  BY <1>1, <1>3, <1>4

LEMMA GetWithinLimit ==
  ASSUME TypeOK, SentWithinLimit, NEW t \in Threads, call[t].pc \in InReceive,
         NEW n \in DOMAIN queue[call[t].id], Get(t, n)
  PROVE  SentWithinLimit'
<1> DEFINE j == call[t].id
<1>1. j \in Ids
  BY CallByPc DEF ReceiveCall
<1>2. CASE \E result : Fail(t, result)
  BY <1>2, FailWithinLimit
<1>3. CASE /\ queue' = [queue EXCEPT ![j] = RemoveAt(@, n)]
           /\ \E result, got : call' = [call EXCEPT ![t] = Idle(result, got)]
  <2>1. PICK c : c.pc \notin InSend /\ call' = [call EXCEPT ![t] = c]
    BY <1>3 DEF Idle, InSend
  <2>2. BeingSentWithinLimit'
    BY <2>1, BeingSentFrame DEF SentWithinLimit, BeingSentWithinLimit
  <2>3. ASSUME NEW i \in Ids, NEW k \in DOMAIN queue'[i] PROVE WithinLimit(queue'[i][k])
    <3>1. CASE i = j
      <4>1. queue[i] \in Seq(Message) /\ queue'[i] = RemoveAt(queue[i], n)
        BY <1>3, <3>1 DEF TypeOK
      <4>2. PICK l \in DOMAIN queue[i] : queue'[i][k] = queue[i][l]
        BY <3>1, <4>1, <2>3, RemoveAtElements
      <4> QED
        BY <4>2 DEF SentWithinLimit
    <3>2. CASE i # j
      BY <1>3, <2>3, <3>2 DEF TypeOK, SentWithinLimit
    <3> QED
      BY <3>1, <3>2
  <2> QED
    BY <2>2, <2>3 DEF SentWithinLimit, BeingSentWithinLimit, WithinLimit
<1> QED
  BY <1>2, <1>3 DEF Get, Return

LEMMA KernelStepWithinLimit ==
  ASSUME TypeOK, SentWithinLimit, NEW t \in Threads, KernelStep(t)
  PROVE  SentWithinLimit'
<1>1. CASE \E result : Fail(t, result)
  BY <1>1, FailWithinLimit
<1>2. CASE call[t].pc \in InSend /\ Put(t)
  BY <1>2, PutWithinLimit
<1>3. CASE call[t].pc \in InSend /\ Wait(t, "sndwait")
  BY <1>3, WaitWithinLimit
<1>4. CASE Wait(t, "rcvwait")
  BY <1>4, WaitWithinLimit DEF InSend
<1>5. CASE call[t].pc \in InReceive /\ \E n \in DOMAIN queue[call[t].id] : Get(t, n)
  BY <1>5, GetWithinLimit
<1> QED
  BY <1>1, <1>2, <1>3, <1>4, <1>5
     DEF KernelStep, Msgsnd, SendWakes, Msgrcv, ReceiveWakes, Receive, InSend, InReceive

LEMMA SetAValueWithinLimit ==
  ASSUME TypeOK, SentWithinLimit, NEW t \in Threads, NEW field, NEW m,
         NEW capacity, set_a_value(t, field, m, capacity)
  PROVE  SentWithinLimit'
<1>1. CASE \E result : Fail(t, result)
  BY <1>1, FailWithinLimit
<1>2. ASSUME NEW c, c.pc = "ipcset", call' = [call EXCEPT ![t] = c],
             UNCHANGED <<kernel, handle, buffer>>
      PROVE  SentWithinLimit'
  <2>1. c.pc \notin InSend
    BY <1>2 DEF InSend
  <2> QED
    BY <1>2, <2>1, BeginWithinLimit
<1>3. ASSUME NEW i, NEW newMode, NEW newQbytes,
             call' = [call EXCEPT ![t] =
               [pc |-> "ipcset", id |-> i, field |-> field, mode |-> newMode,
                qbytes |-> newQbytes]],
             UNCHANGED <<kernel, handle, buffer>>
      PROVE  SentWithinLimit'
  <2>1. PICK c : c = [pc |-> "ipcset", id |-> i, field |-> field,
                      mode |-> newMode, qbytes |-> newQbytes]
    OBVIOUS
  <2>2. c.pc = "ipcset" /\ call' = [call EXCEPT ![t] = c]
    BY <1>3, <2>1
  <2> QED
    BY <1>2, <1>3, <2>2
<1> DEFINE i == handle[ProcOf[t]].id
           newMode == IF field = "mode" THEN m ELSE mode[i]
           newQbytes == IF field = "max_size" THEN ToULong(capacity) ELSE qbytes[i]
<1>4. CASE /\ call' = [call EXCEPT ![t] =
                [pc |-> "ipcset", id |-> i, field |-> field, mode |-> newMode,
                 qbytes |-> newQbytes]]
           /\ UNCHANGED <<kernel, handle, buffer>>
  <2>1. PICK i0, m0, q0 : i0 = i /\ m0 = newMode /\ q0 = newQbytes
    OBVIOUS
  <2> HIDE DEF i, newMode, newQbytes
  <2>2. call' = [call EXCEPT ![t] =
          [pc |-> "ipcset", id |-> i0, field |-> field, mode |-> m0, qbytes |-> q0]]
    BY <1>4, <2>1
  <2>3. UNCHANGED <<kernel, handle, buffer>>
    BY <1>4
  <2> QED
    BY <1>3, <2>2, <2>3
<1> QED
  BY <1>1, <1>4 DEF set_a_value

LEMMA CtlWithinLimit ==
  ASSUME TypeOK, SentWithinLimit, NEW t \in Threads,
         IpcSet(t) \/ \E i \in Ids : mq_remove(t, i)
  PROVE  SentWithinLimit'
<1>1. CASE \E result : Fail(t, result)
  BY <1>1, FailWithinLimit
<1>2. CASE /\ UNCHANGED queue \/ \E i \in Ids : queue' = [queue EXCEPT ![i] = <<>>]
           /\ Return(t, "ok")
  <2>1. BeingSentWithinLimit'
    BY <1>2, ReturnWithinLimit DEF SentWithinLimit, BeingSentWithinLimit
  <2>2. OnQueuesWithinLimit'
    <3>1. CASE UNCHANGED queue
      BY <3>1 DEF OnQueuesWithinLimit, WithinLimit, SentWithinLimit
    <3>2. ASSUME NEW i \in Ids, queue' = [queue EXCEPT ![i] = <<>>]
          PROVE  OnQueuesWithinLimit'
      BY <3>2 DEF OnQueuesWithinLimit, WithinLimit, SentWithinLimit, TypeOK
    <3> QED
      BY <1>2, <3>1, <3>2
  <2> QED
    BY <2>1, <2>2 DEF SentWithinLimit, BeingSentWithinLimit, OnQueuesWithinLimit
<1> QED
  BY <1>1, <1>2 DEF IpcSet, mq_remove

LEMMA NextWithinLimit ==
  TypeOK /\ SentWithinLimit /\ [Next]_vars => SentWithinLimit'
<1> SUFFICES ASSUME TypeOK, SentWithinLimit, [Next]_vars PROVE SentWithinLimit'
  OBVIOUS
<1>1. ASSUME NEW t \in Threads, ThreadStep(t) PROVE SentWithinLimit'
  <2>1. CASE \E arg \in KeyArgs, flags \in Flags, m \in Modes, max \in MaxSizes :
                MessageQueue_init(t, arg, flags, m, max)
    BY <2>1, InitWithinLimit
  <2>2. CASE TryRandomKey(t)
    BY <2>2, MsggetWithinLimit DEF TryRandomKey
  <2>3. CASE \E type \in Types, block \in BOOLEAN : MessageQueue_send(t, type, block)
    BY <2>3, SendWithinLimit
  <2>4. CASE \E want \in Wants, block \in BOOLEAN : MessageQueue_receive(t, want, block)
    BY <2>4, ReceiveBeginWithinLimit
  <2>5. CASE KernelStep(t)
    BY <2>5, KernelStepWithinLimit
  <2>6. CASE Interrupt(t) \/ get_a_value(t)
    BY <2>6, FailWithinLimit DEF Interrupt, get_a_value
  <2>7. CASE \E field \in Settable, m \in Modes, capacity \in Capacities :
                set_a_value(t, field, m, capacity)
    BY <2>7, SetAValueWithinLimit
  <2>8. CASE IpcSet(t) \/ \E i \in Ids : mq_remove(t, i)
    BY <2>8, CtlWithinLimit
  <2> QED
    BY <1>1, <2>1, <2>2, <2>3, <2>4, <2>5, <2>6, <2>7, <2>8 DEF ThreadStep
<1>2. CASE \E p \in Procs, text \in Texts : Rewrite(p, text)
  BY <1>2 DEF Rewrite, kernel, SentWithinLimit, WithinLimit
<1>3. CASE \E p \in Procs : ExitProcess(p)
  BY <1>3 DEF ExitProcess, kernel, SentWithinLimit, WithinLimit, Idle, InSend
<1>4. CASE UNCHANGED vars
  BY <1>4 DEF vars, SentWithinLimit, WithinLimit
<1> QED
  BY <1>1, <1>2, <1>3, <1>4 DEF Next

\* No message is longer than what the object it was sent through allows.
THEOREM LimitsCorrect == Spec => []SentWithinLimit
<1>1. Init => SentWithinLimit
  BY DEF Init, SentWithinLimit, Idle, InSend
<1> QED
  BY <1>1, NextWithinLimit, TypeCorrect, PTL DEF Spec

\* Every step of another thread leaves the call of t as it is.
LEMMA OwnStep ==
  ASSUME TypeOK, NEW t \in Threads, NEW u \in Threads, t # u, ThreadStep(u)
  PROVE  call'[t] = call[t]
<1> USE DEF Fail, Return
<1> SUFFICES ASSUME NEW c, call' = [call EXCEPT ![u] = c] PROVE call'[t] = call[t]
  <2>1. CASE \E arg \in KeyArgs, flags \in Flags, m \in Modes, max \in MaxSizes :
                MessageQueue_init(u, arg, flags, m, max)
    BY <2>1 DEF MessageQueue_init, Msgget, NewHandle
  <2>2. CASE TryRandomKey(u)
    BY <2>2 DEF TryRandomKey, Msgget, NewHandle
  <2>3. CASE \E type \in Types, block \in BOOLEAN : MessageQueue_send(u, type, block)
    BY <2>3 DEF MessageQueue_send
  <2>4. CASE \E want \in Wants, block \in BOOLEAN : MessageQueue_receive(u, want, block)
    BY <2>4 DEF MessageQueue_receive
  <2>5. CASE KernelStep(u)
    <3>1. CASE \E result : Fail(u, result)
      BY <3>1
    <3>2. CASE Put(u)
      BY <3>2 DEF Put
    <3>3. CASE \E pc : Wait(u, pc)
      BY <3>3 DEF Wait, TypeOK
    <3>4. CASE \E n \in DOMAIN queue[call[u].id] : Get(u, n)
      BY <3>4 DEF Get
    <3> HIDE DEF Fail
    <3> QED
      BY <2>5, <3>1, <3>2, <3>3, <3>4
         DEF KernelStep, Msgsnd, SendWakes, Msgrcv, ReceiveWakes, Receive
  <2>6. CASE Interrupt(u) \/ get_a_value(u)
    BY <2>6 DEF Interrupt, get_a_value
  <2>7. CASE \E field \in Settable, m \in Modes, capacity \in Capacities :
                set_a_value(u, field, m, capacity)
    BY <2>7 DEF set_a_value
  <2>8. CASE IpcSet(u) \/ \E i \in Ids : mq_remove(u, i)
    BY <2>8 DEF IpcSet, mq_remove
  <2> QED
    BY <2>1, <2>2, <2>3, <2>4, <2>5, <2>6, <2>7, <2>8 DEF ThreadStep
<1> QED
  BY DEF TypeOK

\* What StuckOnlyBehindLargerObject says of a thread.
StuckBehind(t) ==
  call[t].pc \in InReceive /\ call'[t] = Idle("OSError", <<>>) =>
    \E n \in DOMAIN queue[call[t].id] : queue[call[t].id][n].limit > call[t].max

LEMMA OwnReceiveStuck ==
  ASSUME TypeOK, SentWithinLimit, NEW t \in Threads, ThreadStep(t)
  PROVE  StuckBehind(t)
<1> SUFFICES ASSUME call[t].pc \in InReceive, call'[t] = Idle("OSError", <<>>)
             PROVE  \E n \in DOMAIN queue[call[t].id] :
                      queue[call[t].id][n].limit > call[t].max
  BY DEF StuckBehind
<1> DEFINE c == call[t]
<1>1. c \in ReceiveCall
  BY CallByPc
<1>2. ASSUME NEW result, Return(t, result) PROVE result = "OSError"
  BY <1>2 DEF Return, Idle, TypeOK
<1>3. ASSUME NEW n \in DOMAIN queue[c.id], Get(t, n) PROVE Size[queue[c.id][n].text] > c.max
  <2>1. CASE call' = [call EXCEPT ![t] = Idle("ok", <<queue[c.id][n]>>)]
    BY <2>1 DEF Idle, TypeOK
  <2>2. CASE Return(t, "Memory")
    BY <2>2, <1>2
  <2> QED
    BY <1>3, <2>1, <2>2 DEF Get
<1>4. PICK n \in DOMAIN queue[c.id] : Get(t, n)
  <2>1. Receive(t, "EINVAL") \/ Receive(t, "EIDRM")
    <3>1. KernelStep(t)
      <4>1. c.pc \notin {"idle", "genkey", "ipcset"}
        BY DEF InReceive
      <4>2. ~Interrupt(t)
        BY <1>2 DEF Interrupt, Fail
      <4> QED
        BY <4>1, <4>2 DEF ThreadStep, MessageQueue_init, TryRandomKey,
           MessageQueue_send, MessageQueue_receive, get_a_value, set_a_value, IpcSet,
           mq_remove, CanUse, CanCall
    <3>2. Msgrcv(t) \/ ReceiveWakes(t)
      BY <3>1 DEF KernelStep, Msgsnd, SendWakes, InReceive
    <3>3. ~Wait(t, "rcvwait")
      BY <1>1 DEF Wait, Idle, TypeOK, ReceiveCall
    <3>4. ~Fail(t, receive_error["ENOMSG"])
      BY <1>2 DEF Fail, receive_error
    <3> QED
      BY <3>2, <3>3, <3>4 DEF Msgrcv, ReceiveWakes
  <2>2. ~Fail(t, receive_error["EACCES"]) /\ ~Fail(t, receive_error["EINVAL"])
          /\ ~Fail(t, receive_error["EIDRM"])
    BY <1>2 DEF Fail, receive_error
  <2> QED
    BY <2>1, <2>2 DEF Receive
<1>5. Size[queue[c.id][n].text] > c.max
  BY <1>3, <1>4
<1>6. queue[c.id][n] \in Message /\ Size[queue[c.id][n].text] <= queue[c.id][n].limit
  BY <1>1 DEF TypeOK, ReceiveCall, SentWithinLimit, WithinLimit
<1>7. /\ Size[queue[c.id][n].text] \in Nat /\ queue[c.id][n].limit \in Nat
      /\ c.max \in Nat
  BY <1>1, <1>6 DEF Message, ReceiveCall
<1>8. queue[c.id][n].limit > c.max
  BY <1>5, <1>6, <1>7
<1> QED
  BY <1>8

LEMMA NextStuck ==
  TypeOK /\ SentWithinLimit /\ [Next]_vars => \A t \in Threads : StuckBehind(t)
<1> SUFFICES ASSUME TypeOK, SentWithinLimit, [Next]_vars, NEW t \in Threads
             PROVE  StuckBehind(t)
  OBVIOUS
<1>1. CASE ThreadStep(t)
  BY <1>1, OwnReceiveStuck
<1>2. CASE call'[t] = call[t]
  BY <1>2 DEF StuckBehind, Idle, InReceive
<1>3. CASE call'[t] = Idle("none", <<>>)
  BY <1>3 DEF StuckBehind, Idle
<1>4. ASSUME NEW u \in Threads, u # t, ThreadStep(u) PROVE call'[t] = call[t]
  BY <1>4, OwnStep
<1>5. ASSUME NEW p \in Procs, ExitProcess(p)
      PROVE  call'[t] = Idle("none", <<>>) \/ call'[t] = call[t]
  BY <1>5 DEF ExitProcess
<1>6. CASE UNCHANGED vars \/ \E p \in Procs, text \in Texts : Rewrite(p, text)
  BY <1>2, <1>6 DEF vars, Rewrite
<1> QED
  BY <1>1, <1>2, <1>3, <1>4, <1>5, <1>6 DEF Next

\* receive() raises OSError only behind a message of an object with a larger
\* max_message_size.
THEOREM StuckCorrect == Spec => StuckOnlyBehindLargerObject
<1>1. TypeOK /\ SentWithinLimit /\ [Next]_vars =>
        [\A t \in Threads :
           call[t].pc \in InReceive /\ call'[t] = Idle("OSError", <<>>) =>
             \E n \in DOMAIN queue[call[t].id] :
                queue[call[t].id][n].limit > call[t].max]_vars
  BY NextStuck DEF StuckBehind
<1> QED
  BY <1>1, TypeCorrect, LimitsCorrect, PTL DEF Spec, StuckOnlyBehindLargerObject

----------------------------------------------------------------------------
(* The class implements Mailbox.                                           *)

MailNext == TheMailbox!MailNext
MailVars == TheMailbox!mailVars

\* One thread's call becomes c.
LEMMA AskedChange ==
  ASSUME TypeOK, NEW t \in Threads, NEW c, call' = [call EXCEPT ![t] = c]
  PROVE  /\ [u \in Threads |-> Asked(call[u])]' =
              [[u \in Threads |-> Asked(call[u])] EXCEPT ![t] = Asked(c)]
         /\ [u \in Threads |-> Answered(call[u])]' =
              [[u \in Threads |-> Answered(call[u])] EXCEPT ![t] = Answered(c)]
<1>1. \A u \in Threads : call'[u] = IF u = t THEN c ELSE call[u]
  BY DEF TypeOK
<1>2. \A u \in Threads : Asked(call'[u]) = IF u = t THEN Asked(c) ELSE Asked(call[u])
  BY <1>1
<1>3. \A u \in Threads :
        Answered(call'[u]) = IF u = t THEN Answered(c) ELSE Answered(call[u])
  BY <1>1
<1> QED
  BY <1>2, <1>3

\* What a mailbox tells apart in the way a call came back.
Kind(result) ==
  IF result = "ok" THEN "ok" ELSE IF result = "Memory" THEN "memory" ELSE "none"

LEMMA IdleAsks ==
  ASSUME NEW result, NEW got, result = "ok" \/ got = <<>>
  PROVE  /\ Asked(Idle(result, got)) = TheMailbox!NoAsk
         /\ Answered(Idle(result, got)) = [kind |-> Kind(result), got |-> got]
BY DEF Asked, Answered, Idle, Kind, TheMailbox!NoAsk, InSend, InReceive

LEMMA ReplyRefined ==
  ASSUME TypeOK, NEW t \in Threads, NEW result, NEW got,
         result = "ok" \/ got = <<>>,
         call' = [call EXCEPT ![t] = Idle(result, got)]
  PROVE  TheMailbox!Reply(t, Kind(result), got)
<1>1. PICK c : c = Idle(result, got)
  OBVIOUS
<1>2. /\ Asked(c) = TheMailbox!NoAsk
      /\ Answered(c) = [kind |-> Kind(result), got |-> got]
  BY <1>1, IdleAsks
<1>3. call' = [call EXCEPT ![t] = c]
  BY <1>1
<1>4. [u \in Threads |-> Asked(call[u])]' =
        [[u \in Threads |-> Asked(call[u])] EXCEPT ![t] = TheMailbox!NoAsk]
  BY <1>2, <1>3, AskedChange
<1>5. [u \in Threads |-> Answered(call[u])]' =
        [[u \in Threads |-> Answered(call[u])] EXCEPT
           ![t] = [kind |-> Kind(result), got |-> got]]
  <2>1. PICK a : a = Answered(c)
    OBVIOUS
  <2>2. a = [kind |-> Kind(result), got |-> got]
    BY <1>2, <2>1
  <2>3. [u \in Threads |-> Answered(call[u])]' =
          [[u \in Threads |-> Answered(call[u])] EXCEPT ![t] = a]
    BY <1>3, <2>1, AskedChange
  <2> QED
    BY <2>2, <2>3, Zenon
<1> QED
  BY <1>4, <1>5 DEF TheMailbox!Reply

\* A call that is neither in send() nor in receive() asks for nothing.
LEMMA NotAsking ==
  ASSUME NEW t \in Threads, call[t].pc \notin InCall
  PROVE  Asked(call[t]) = TheMailbox!NoAsk
BY DEF Asked, InCall, TheMailbox!NoAsk

\* A call that fails, or that is of no interest to a mailbox.
LEMMA ReturnIsOther ==
  ASSUME TypeOK, NEW t \in Threads, NEW result, Return(t, result), UNCHANGED queue,
         result = "ok" => call[t].pc \notin InCall
  PROVE  MailNext
<1>1. TheMailbox!Reply(t, Kind(result), <<>>)
  BY ReplyRefined DEF Return
<1>2. PICK kind \in {"ok", "memory", "none"} : kind = Kind(result)
  BY DEF Kind
<1>3. kind = "ok" => [u \in Threads |-> Asked(call[u])][t] = TheMailbox!NoAsk
  BY <1>2, NotAsking DEF Kind
<1>4. TheMailbox!Reply(t, kind, <<>>)
  BY <1>1, <1>2
<1>5. TheMailbox!Other(t)
  BY <1>3, <1>4 DEF TheMailbox!Other
<1> QED
  BY <1>5 DEF MailNext, TheMailbox!MailNext

LEMMA FailIsOther ==
  ASSUME TypeOK, NEW t \in Threads, NEW result, Fail(t, result),
         result = "ok" => call[t].pc \notin InCall
  PROVE  MailNext
BY ReturnIsOther DEF Fail, kernel

\* A call that begins and is of no interest to a mailbox.
LEMMA BeginIsOther ==
  ASSUME TypeOK, NEW t \in Threads, NEW c, c.pc = "genkey" \/ c.pc = "ipcset",
         call' = [call EXCEPT ![t] = c], UNCHANGED queue
  PROVE  MailNext
<1>1. /\ Asked(c) = TheMailbox!NoAsk
      /\ Answered(c) = [kind |-> "none", got |-> <<>>]
  BY DEF Asked, Answered, TheMailbox!NoAsk, InSend, InReceive
<1>2. TheMailbox!Reply(t, "none", <<>>)
  BY <1>1, AskedChange DEF TheMailbox!Reply
<1>3. TheMailbox!Other(t)
  BY <1>2 DEF TheMailbox!Other
<1> QED
  BY <1>3 DEF MailNext, TheMailbox!MailNext

\* A call to send() or receive() that begins.
LEMMA BeginIsAsk ==
  ASSUME TypeOK, NEW t \in Threads, NEW c \in SendCall \cup ReceiveCall,
         call[t].pc = "idle", call' = [call EXCEPT ![t] = c], UNCHANGED queue
  PROVE  MailNext
<1>1. Asked(c) \in TheMailbox!Requests
  BY DEF Asked, SendCall, ReceiveCall, InSend, InReceive, TheMailbox!Requests
<1>2. Answered(c) = TheMailbox!NoAnswer
  BY DEF Answered, SendCall, ReceiveCall, InSend, InReceive, TheMailbox!NoAnswer
<1>3. [u \in Threads |-> Asked(call[u])][t] = TheMailbox!NoAsk
  BY NotAsking DEF InCall, InSend, InReceive
<1>4. [u \in Threads |-> Asked(call[u])]'[t] = Asked(c)
  <2>1. [u \in Threads |-> Asked(call[u])]' =
          [[u \in Threads |-> Asked(call[u])] EXCEPT ![t] = Asked(c)]
    BY AskedChange
  <2> QED
    BY <2>1, Zenon
<1>5. [u \in Threads |-> Answered(call[u])]' =
        [[u \in Threads |-> Answered(call[u])] EXCEPT ![t] = TheMailbox!NoAnswer]
  <2>1. [u \in Threads |-> Answered(call[u])]' =
          [[u \in Threads |-> Answered(call[u])] EXCEPT ![t] = Answered(c)]
    BY AskedChange
  <2> QED
    BY <1>2, <2>1, Zenon
<1>6. [u \in Threads |-> Asked(call[u])]' =
        [[u \in Threads |-> Asked(call[u])] EXCEPT ![t] = Asked(c)]
  BY AskedChange
<1>7. TheMailbox!Ask(t)
  BY <1>1, <1>3, <1>4, <1>5, <1>6, Zenon DEF TheMailbox!Ask
<1> QED
  BY <1>7 DEF MailNext, TheMailbox!MailNext

\* A call that goes on to wait.
LEMMA WaitStutters ==
  ASSUME TypeOK, NEW t \in Threads, NEW pc,
         \/ call[t].pc \in InSend /\ pc \in InSend
         \/ call[t].pc \in InReceive /\ pc \in InReceive,
         Wait(t, pc)
  PROVE  UNCHANGED MailVars
<1>1. PICK c : c = [call[t] EXCEPT !.pc = pc]
  OBVIOUS
<1>2. call' = [call EXCEPT ![t] = c]
  BY <1>1 DEF Wait, TypeOK
<1>3. Asked(c) = Asked(call[t]) /\ Answered(c) = Answered(call[t])
  <2>1. CASE call[t].pc \in InSend /\ pc \in InSend
    BY <1>1, <2>1, CallByPc DEF SendCall, Asked, Answered, InSend
  <2>2. CASE call[t].pc \in InReceive /\ pc \in InReceive
    BY <1>1, <2>2, CallByPc DEF ReceiveCall, Asked, Answered, InSend, InReceive
  <2> QED
    BY <2>1, <2>2
<1>4. \A u \in Threads : /\ Asked(call'[u]) = Asked(call[u])
                         /\ Answered(call'[u]) = Answered(call[u])
  BY <1>2, <1>3 DEF TypeOK
<1> QED
  BY <1>4 DEF Wait, kernel, MailVars, TheMailbox!mailVars

LEMMA PutIsPost ==
  ASSUME TypeOK, NEW t \in Threads, call[t].pc \in InSend, Put(t)
  PROVE  MailNext
<1> DEFINE asked == [u \in Threads |-> Asked(call[u])][t]
<1>1. asked = [kind |-> "send", box |-> call[t].id, message |-> call[t].msg]
  BY DEF Asked
<1>2. asked.kind = "send" /\ asked.box = call[t].id /\ asked.message = call[t].msg
  BY <1>1
<1>3. queue' = [queue EXCEPT ![asked.box] = Append(@, asked.message)]
  BY <1>2 DEF Put, SentMessage
<1>4. TheMailbox!Reply(t, "ok", <<>>)
  BY ReplyRefined DEF Put, Return, Kind
<1>5. TheMailbox!Post(t)
  BY <1>2, <1>3, <1>4, Zenon DEF TheMailbox!Post
<1> QED
  BY <1>5 DEF MailNext, TheMailbox!MailNext

\* The message that msgrcv chooses is one that may be taken.
LEMMA NextMayBeTaken ==
  ASSUME TypeOK, NEW box \in Ids, NEW want \in Wants, NEW n \in DOMAIN queue[box],
         IsNext(queue[box], want, n)
  PROVE  TheMailbox!MayTake(box, want, n)
<1> DEFINE q == queue[box]
<1>1. q \in Seq(Message) /\ DOMAIN q = 1..Len(q) /\ Len(q) \in Nat
  BY DEF TypeOK
<1>2. \A type : Matches(want, type) <=> TheMailbox!Acceptable(want, type)
  BY DEF Matches, TheMailbox!Acceptable
<1>3. n \in Nat /\ Matches(want, q[n].type)
  BY <1>1 DEF IsNext, Matching
<1>4. ASSUME want = 0 PROVE n = 1
  <2>1. 1 \in Matching(q, want)
    BY <1>1, <1>4 DEF Matching, Matches
  <2>2. ~(want < 0)
    BY <1>4
  <2>3. n <= 1
    BY <2>1, <2>2 DEF IsNext
  <2> QED
    BY <2>3, <1>1
<1>5. ASSUME NEW k \in 1..(n - 1), q[k].type = q[n].type PROVE FALSE
  <2>1. k \in DOMAIN q /\ ~(n <= k)
    BY <1>1
  <2>2. k \in Matching(q, want)
    BY <2>1, <1>3, <1>5 DEF Matching
  <2>3. n <= k
    BY <2>2, <1>5 DEF IsNext
  <2> QED
    BY <2>1, <2>3
<1> QED
  BY <1>2, <1>3, <1>4, <1>5 DEF TheMailbox!MayTake

LEMMA GetIsTake ==
  ASSUME TypeOK, NEW t \in Threads, call[t].pc \in InReceive,
         NEW n \in DOMAIN queue[call[t].id],
         IsNext(queue[call[t].id], call[t].want, n), Get(t, n)
  PROVE  MailNext
<1>1. call[t].id \in Ids /\ call[t].want \in Wants
  BY CallByPc DEF ReceiveCall
<1>2. PICK box \in Ids, want \in Wants : box = call[t].id /\ want = call[t].want
  BY <1>1
<1>3. TheMailbox!MayTake(box, want, n)
  BY <1>2, NextMayBeTaken
<1> DEFINE asked == [u \in Threads |-> Asked(call[u])][t]
<1>4. asked.kind = "receive" /\ asked.box = box /\ asked.want = want
  <2>1. asked = [kind |-> "receive", box |-> box, want |-> want]
    BY <1>2 DEF Asked, InSend, InReceive
  <2> QED
    BY <2>1
<1>5. CASE Fail(t, receive_error["E2BIG"])
  BY <1>5, FailIsOther DEF receive_error
<1>6. CASE /\ queue' = [queue EXCEPT ![box] = RemoveAt(@, n)]
           /\ call' = [call EXCEPT ![t] = Idle("ok", <<queue[box][n]>>)]
  <2>1. PICK m : m = queue[box][n]
    OBVIOUS
  <2>2. TheMailbox!Reply(t, "ok", <<m>>)
    BY <1>6, <2>1, ReplyRefined DEF Kind
  <2>3. TheMailbox!Take(t, box, n)
    BY <1>3, <1>4, <1>6, <2>1, <2>2, Zenon DEF TheMailbox!Take,
       TheMailbox!RemoveAt, RemoveAt
  <2> QED
    BY <1>2, <2>3 DEF MailNext, TheMailbox!MailNext
<1>7. CASE queue' = [queue EXCEPT ![box] = RemoveAt(@, n)] /\ Return(t, "Memory")
  <2>1. TheMailbox!Reply(t, "memory", <<>>)
    BY <1>7, ReplyRefined DEF Return, Kind
  <2>2. TheMailbox!Lose(t, box, n)
    BY <1>3, <1>4, <1>7, <2>1, Zenon DEF TheMailbox!Lose,
       TheMailbox!RemoveAt, RemoveAt
  <2> QED
    BY <1>2, <2>2 DEF MailNext, TheMailbox!MailNext
<1> QED
  BY <1>2, <1>5, <1>6, <1>7 DEF Get

LEMMA KernelStepRefined ==
  ASSUME TypeOK, NEW t \in Threads, KernelStep(t)
  PROVE  MailNext \/ UNCHANGED MailVars
<1>1. CASE \E result \in Results \ {"ok"} : Fail(t, result)
  BY <1>1, FailIsOther
<1>2. CASE call[t].pc \in InSend /\ Put(t)
  BY <1>2, PutIsPost
<1>3. CASE call[t].pc \in InSend /\ Wait(t, "sndwait")
  BY <1>3, WaitStutters DEF InSend
<1>4. CASE call[t].pc \in InReceive /\ Wait(t, "rcvwait")
  BY <1>4, WaitStutters DEF InReceive
<1>5. CASE call[t].pc \in InReceive /\ \E n \in DOMAIN queue[call[t].id] :
             IsNext(queue[call[t].id], call[t].want, n) /\ Get(t, n)
  BY <1>5, GetIsTake
<1>6. CASE Msgsnd(t) \/ SendWakes(t)
  <2>1. \A e \in DOMAIN send_error : send_error[e] \in Results \ {"ok"}
    BY DEF send_error, Results
  <2>2. SendErrno(call[t]) \in DOMAIN send_error \cup {"none"}
    BY SendErrnos
  <2>3. {"EIDRM", "EACCES"} \subseteq DOMAIN send_error
    BY DEF send_error
  <2> QED
    BY <1>1, <1>2, <1>3, <1>6, <2>1, <2>2, <2>3 DEF Msgsnd, SendWakes, InSend
<1>7. CASE Msgrcv(t) \/ ReceiveWakes(t)
  <2>1. /\ receive_error["EACCES"] \in Results \ {"ok"}
        /\ receive_error["EINVAL"] \in Results \ {"ok"}
        /\ receive_error["EIDRM"] \in Results \ {"ok"}
        /\ receive_error["ENOMSG"] \in Results \ {"ok"}
    BY DEF receive_error, Results
  <2>2. call[t].pc \in InReceive
    BY <1>7 DEF Msgrcv, ReceiveWakes, InReceive
  <2>3. CASE Receive(t, "EINVAL") \/ Receive(t, "EIDRM")
    BY <1>1, <1>5, <2>1, <2>2, <2>3 DEF Receive
  <2> QED
    BY <1>1, <1>4, <1>7, <2>1, <2>2, <2>3 DEF Msgrcv, ReceiveWakes
<1> QED
  BY <1>6, <1>7, KernelStep(t) DEF KernelStep

LEMMA MsggetRefined ==
  ASSUME TypeOK, NEW t \in Threads, call[t].pc \notin InCall, NEW k, NEW flags,
         NEW m, NEW max, Msgget(t, k, flags, m, max)
  PROVE  MailNext
<1>1. (\E result : Return(t, result)) /\ UNCHANGED queue
  BY DEF Msgget, Fail, NewHandle, Allocate, kernel
<1> QED
  BY <1>1, ReturnIsOther

LEMMA ConstructorRefined ==
  ASSUME TypeOK, NEW t \in Threads,
         \/ TryRandomKey(t)
         \/ \E arg \in KeyArgs, flags \in Flags, m \in Modes, max \in MaxSizes :
              MessageQueue_init(t, arg, flags, m, max)
  PROVE  MailNext
<1>1. call[t].pc \notin InCall
  BY DEF TryRandomKey, MessageQueue_init, CanCall, InCall, InSend, InReceive
<1>2. CASE \E result : Fail(t, result)
  BY <1>1, <1>2, FailIsOther
<1>3. CASE \E k, flags, m, max : Msgget(t, k, flags, m, max)
  BY <1>1, <1>3, MsggetRefined
<1>4. ASSUME NEW flags, NEW m, NEW max, UNCHANGED <<kernel, handle, buffer>>,
             call' = [call EXCEPT ![t] =
               [pc |-> "genkey", flags |-> flags, mode |-> m, max |-> max]]
      PROVE  MailNext
  <2>1. PICK c : c = [pc |-> "genkey", flags |-> flags, mode |-> m, max |-> max]
    OBVIOUS
  <2>2. c.pc = "genkey" /\ call' = [call EXCEPT ![t] = c]
    BY <1>4, <2>1
  <2>3. UNCHANGED queue
    BY <1>4 DEF kernel
  <2> QED
    BY <2>2, <2>3, BeginIsOther
<1> QED
  BY <1>2, <1>3, <1>4 DEF TryRandomKey, MessageQueue_init

LEMMA SendRefined ==
  ASSUME TypeOK, NEW t \in Threads, NEW type \in Types, NEW block \in BOOLEAN,
         MessageQueue_send(t, type, block)
  PROVE  MailNext
<1> DEFINE h == handle[ProcOf[t]]
           text == buffer[ProcOf[t]]
<1>1. CASE Fail(t, "Value") \/ Fail(t, "Memory")
  BY <1>1, FailIsOther
<1>2. CASE /\ type > 0
           /\ call' = [call EXCEPT ![t] =
                [pc |-> "msgsnd", id |-> h.id, block |-> block,
                 msg |-> [type |-> type, text |-> text, limit |-> h.max]]]
           /\ UNCHANGED <<kernel, handle, buffer>>
  <2>1. text \in Texts /\ h.id \in Ids /\ h.max \in MaxSizes
    BY UsedHandle DEF MessageQueue_send, TypeOK, Object
  <2>2. PICK m : m = [type |-> type, text |-> text, limit |-> h.max]
    OBVIOUS
  <2>3. m \in Message
    BY <1>2, <2>1, <2>2 DEF Message
  <2>4. PICK c : c = [pc |-> "msgsnd", id |-> h.id, block |-> block, msg |-> m]
    OBVIOUS
  <2>5. c \in SendCall
    BY <2>1, <2>3, <2>4 DEF SendCall, InSend
  <2>6. call' = [call EXCEPT ![t] = c]
    BY <1>2, <2>2, <2>4
  <2>7. UNCHANGED queue
    BY <1>2 DEF kernel
  <2>8. call[t].pc = "idle"
    BY DEF MessageQueue_send, CanUse, CanCall
  <2> QED
    BY <2>5, <2>6, <2>7, <2>8, BeginIsAsk
<1>3. ~BadType(type) => type > 0
  BY DEF BadType
<1> QED
  BY <1>1, <1>2, <1>3 DEF MessageQueue_send

LEMMA ReceiveBeginRefined ==
  ASSUME TypeOK, NEW t \in Threads, NEW want \in Wants, NEW block \in BOOLEAN,
         MessageQueue_receive(t, want, block)
  PROVE  MailNext
<1> DEFINE h == handle[ProcOf[t]]
<1>1. CASE Fail(t, "Memory")
  BY <1>1, FailIsOther
<1>2. CASE /\ call' = [call EXCEPT ![t] =
                [pc |-> "msgrcv", id |-> h.id, block |-> block,
                 want |-> want, max |-> h.max]]
           /\ UNCHANGED <<kernel, handle, buffer>>
  <2>1. h.id \in Ids /\ h.max \in MaxSizes
    BY UsedHandle DEF MessageQueue_receive, Object
  <2>2. PICK c : c = [pc |-> "msgrcv", id |-> h.id, block |-> block,
                      want |-> want, max |-> h.max]
    OBVIOUS
  <2>3. c \in ReceiveCall
    BY <2>1, <2>2 DEF ReceiveCall, InReceive
  <2>4. call' = [call EXCEPT ![t] = c]
    BY <1>2, <2>2
  <2>5. UNCHANGED queue
    BY <1>2 DEF kernel
  <2>6. call[t].pc = "idle"
    BY DEF MessageQueue_receive, CanUse, CanCall
  <2> QED
    BY <2>3, <2>4, <2>5, <2>6, BeginIsAsk
<1> QED
  BY <1>1, <1>2 DEF MessageQueue_receive

LEMMA CtlRefined ==
  ASSUME TypeOK, NEW t \in Threads,
         \/ get_a_value(t) \/ IpcSet(t)
         \/ \E field \in Settable, m \in Modes, capacity \in Capacities :
              set_a_value(t, field, m, capacity)
  PROVE  MailNext
<1>1. call[t].pc \notin InCall
  BY DEF get_a_value, set_a_value, IpcSet, CanUse, CanCall, InCall, InSend, InReceive
<1>2. CASE (\E result : Return(t, result)) /\ UNCHANGED queue
  BY <1>1, <1>2, ReturnIsOther
<1>3. CASE get_a_value(t) \/ IpcSet(t)
  BY <1>2, <1>3 DEF get_a_value, IpcSet, Fail, kernel
<1>4. ASSUME NEW field \in Settable, NEW m \in Modes, NEW capacity \in Capacities,
             set_a_value(t, field, m, capacity)
      PROVE  MailNext
  <2>1. CASE \E result : Fail(t, result)
    BY <2>1, <1>2 DEF Fail, kernel
  <2> DEFINE i == handle[ProcOf[t]].id
             newMode == IF field = "mode" THEN m ELSE mode[i]
             newQbytes == IF field = "max_size" THEN ToULong(capacity) ELSE qbytes[i]
  <2>2. CASE /\ call' = [call EXCEPT ![t] =
                  [pc |-> "ipcset", id |-> i, field |-> field, mode |-> newMode,
                   qbytes |-> newQbytes]]
             /\ UNCHANGED <<kernel, handle, buffer>>
    <3>1. PICK i0, m0, q0 : i0 = i /\ m0 = newMode /\ q0 = newQbytes
      OBVIOUS
    <3>2. PICK c : c = [pc |-> "ipcset", id |-> i0, field |-> field, mode |-> m0,
                        qbytes |-> q0]
      OBVIOUS
    <3> HIDE DEF i, newMode, newQbytes
    <3>3. call' = [call EXCEPT ![t] = c]
      BY <2>2, <3>1, <3>2
    <3>4. UNCHANGED queue
      BY <2>2 DEF kernel
    <3>5. c.pc = "ipcset"
      BY <3>2
    <3> QED
      BY <3>3, <3>4, <3>5, BeginIsOther
  <2> QED
    BY <1>4, <2>1, <2>2 DEF set_a_value
<1> QED
  BY <1>3, <1>4

LEMMA RemoveRefined ==
  ASSUME TypeOK, NEW t \in Threads, NEW i \in Ids, mq_remove(t, i)
  PROVE  MailNext
<1>1. call[t].pc = "idle"
  BY DEF mq_remove, CanCall
<1>2. CASE Fail(t, ctl_error["EINVAL"])
  BY <1>2, FailIsOther DEF ctl_error
<1>3. CASE queue' = [queue EXCEPT ![i] = <<>>] /\ Return(t, "ok")
  <2>1. TheMailbox!Reply(t, "ok", <<>>)
    BY <1>3, ReplyRefined DEF Return, Kind
  <2>2. [u \in Threads |-> Asked(call[u])][t] = TheMailbox!NoAsk
    BY <1>1, NotAsking DEF InCall, InSend, InReceive
  <2>3. TheMailbox!Discard(i)
    BY <1>3, <2>1, <2>2 DEF TheMailbox!Discard
  <2> QED
    BY <2>3 DEF MailNext, TheMailbox!MailNext
<1> QED
  BY <1>2, <1>3 DEF mq_remove

LEMMA ExitRefined ==
  ASSUME TypeOK, NEW p \in Procs, ExitProcess(p)
  PROVE  MailNext
<1>1. PICK gone \in SUBSET Threads : \A t \in Threads : t \in gone <=> ProcOf[t] = p
  <2> DEFINE own == {t \in Threads : ProcOf[t] = p}
  <2>1. own \in SUBSET Threads /\ \A t \in Threads : t \in own <=> ProcOf[t] = p
    OBVIOUS
  <2> HIDE DEF own
  <2> QED
    BY <2>1
<1>2. \A t \in Threads :
        /\ Asked(call'[t]) = IF t \in gone THEN TheMailbox!NoAsk ELSE Asked(call[t])
        /\ Answered(call'[t]) =
             IF t \in gone THEN TheMailbox!NoAnswer ELSE Answered(call[t])
  <2>1. /\ Asked(Idle("none", <<>>)) = TheMailbox!NoAsk
        /\ Answered(Idle("none", <<>>)) = TheMailbox!NoAnswer
    BY IdleAsks DEF TheMailbox!NoAnswer, Kind
  <2> QED
    BY <1>1, <2>1 DEF ExitProcess
<1>3. TheMailbox!Vanish(gone)
  BY <1>2 DEF TheMailbox!Vanish, ExitProcess, kernel
<1> QED
  BY <1>3 DEF MailNext, TheMailbox!MailNext

LEMMA NextRefined ==
  TypeOK /\ [Next]_vars => [MailNext]_MailVars
<1> SUFFICES ASSUME TypeOK, [Next]_vars PROVE MailNext \/ UNCHANGED MailVars
  OBVIOUS
<1>1. ASSUME NEW t \in Threads, ThreadStep(t) PROVE MailNext \/ UNCHANGED MailVars
  <2>1. CASE KernelStep(t)
    BY <2>1, KernelStepRefined
  <2>2. CASE Interrupt(t)
    BY <2>2, FailIsOther DEF Interrupt
  <2> QED
    BY <1>1, <2>1, <2>2, ConstructorRefined, SendRefined, ReceiveBeginRefined,
       CtlRefined, RemoveRefined DEF ThreadStep
<1>2. CASE \E p \in Procs, text \in Texts : Rewrite(p, text)
  BY <1>2 DEF Rewrite, kernel, MailVars, TheMailbox!mailVars
<1>3. CASE \E p \in Procs : ExitProcess(p)
  BY <1>3, ExitRefined
<1>4. CASE UNCHANGED vars
  BY <1>4 DEF vars, MailVars, TheMailbox!mailVars
<1> QED
  BY <1>1, <1>2, <1>3, <1>4 DEF Next

\* Every behaviour of the class is one of a mailbox: send() puts in what it was
\* given when it was called, receive() takes out the oldest that fits, and
\* nothing else adds, drops or changes a message of a queue that stays, but a
\* receive() that raises MemoryError.
THEOREM MailboxImplemented == Spec => ImplementsMailbox
<1>1. Init => TheMailbox!MailInit
  <2> SUFFICES ASSUME Init PROVE TheMailbox!MailInit
    OBVIOUS
  <2>1. \A t \in Threads : /\ Asked(call[t]) = TheMailbox!NoAsk
                           /\ Answered(call[t]) = TheMailbox!NoAnswer
    <3>1. /\ Asked(Idle("none", <<>>)) = TheMailbox!NoAsk
          /\ Answered(Idle("none", <<>>)) = TheMailbox!NoAnswer
      BY IdleAsks DEF TheMailbox!NoAnswer, Kind
    <3> QED
      BY <3>1 DEF Init
  <2> QED
    BY <2>1 DEF Init, TheMailbox!MailInit
<1>2. TypeOK /\ [Next]_vars => [TheMailbox!MailNext]_(TheMailbox!mailVars)
  BY NextRefined DEF MailNext, MailVars
<1> QED
  BY <1>1, <1>2, TypeCorrect, PTL DEF Spec, ImplementsMailbox, TheMailbox!MailSpec

=============================================================================
