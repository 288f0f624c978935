----------------------------- MODULE MessageQueue -----------------------------
(***************************************************************************)
(* The MessageQueue class of sysv_ipc (src/src/mq.c) as the threads of     *)
(* several processes call it, above the kernel's message queues.           *)
(* send() and receive() are two steps at least: the method prepares its    *)
(* arguments under the GIL and releases it (MessageQueue_send, _receive),  *)
(* and later the system call takes effect, fails, or begins to wait        *)
(* (Msgsnd, Msgrcv), to end in another step (SendWakes, ReceiveWakes).     *)
(* Other threads of the same process may run in between.                   *)
(***************************************************************************)
EXTENDS Keys, Sequences, SequencesExt

CONSTANTS
  Procs, Threads, ProcOf,   \* processes, Python threads and whose they are
  KeyArgs,                  \* what a caller passes as key
  MaxQueues,                \* the kernel hands out at most this many ids
  Texts, Size,              \* contents of messages, and how long each is
  Types, Wants,             \* what callers pass as type to send and receive
  MaxSizes,                 \* what callers pass as max_message_size
  QUEUE_MESSAGE_SIZE_MAX,   \* what the module allows there
  MSGMAX, MSGMNB,           \* kernel: longest message, capacity of a queue
  Capacities,               \* what callers assign to max_size
  Modes,                    \* permissions: what the users of a queue may do
  Settable,                 \* the attributes callers assign
  Faults                    \* what may go wrong: "memory", "signal"

ASSUME MessageQueueAssumption ==
  /\ ProcOf \in [Threads -> Procs]
  /\ KeyArgs \subseteq Int \cup {None}
  /\ MaxQueues \in Nat \ {0}
  /\ Size \in [Texts -> Nat]
  /\ Types \subseteq Int /\ Wants \subseteq Int
  /\ MaxSizes \subseteq Nat /\ QUEUE_MESSAGE_SIZE_MAX \in Nat
  /\ MSGMAX \in Nat /\ MSGMNB \in Nat /\ Capacities \subseteq Int
  /\ Modes \subseteq SUBSET {"r", "w"}
  /\ Settable \subseteq {"mode", "max_size", "owner"}
  /\ Faults \subseteq {"memory", "signal"}
  /\ Texts # {}

VARIABLES
  idOf,      \* kernel: the id a key names, or NoId
  status,    \* kernel: "unused", "live" or "removed", per id
  mode,      \* kernel: what the users of each queue may do
  qbytes,    \* kernel: msg_qbytes, the capacity of each queue
  queue,     \* kernel: the messages on each queue
  handle,    \* the MessageQueue object each process works with
  buffer,    \* what is in the bytearray each process sends from
  call       \* what each thread is doing, or how its last call ended

kernel == <<idOf, status, mode, qbytes, queue>>
vars   == <<idOf, status, mode, qbytes, queue, handle, buffer, call>>

Ids  == 1..MaxQueues
NoId == 0

CREX  == {"CREAT", "EXCL"}
Flags == SUBSET CREX

NoHandle == [key |-> 0, id |-> NoId, max |-> 0]

\* limit is the max_message_size of the object that sent the message; neither
\* the program nor the kernel keeps it.
Message == [type : {n \in Types : n > 0}, text : Texts, limit : MaxSizes]

----------------------------------------------------------------------------
(* How calls begin and end.                                                *)

Waiting   == {"sndwait", "rcvwait"}
InSend    == {"msgsnd", "sndwait"}
InReceive == {"msgrcv", "rcvwait"}
InCall    == InSend \cup InReceive

\* The GIL of p is held while a constructor draws keys and from IPC_STAT to
\* IPC_SET, not while msgsnd and msgrcv run.
GilFree(p) ==
  \A t \in Threads : ProcOf[t] = p => call[t].pc \notin {"genkey", "ipcset"}

CanCall(t) == call[t].pc = "idle" /\ GilFree(ProcOf[t])
CanUse(t)  == CanCall(t) /\ handle[ProcOf[t]].id # NoId

Idle(result, got) == [pc |-> "idle", res |-> result, got |-> got]

Return(t, result) == call' = [call EXCEPT ![t] = Idle(result, <<>>)]

Fail(t, result) == Return(t, result) /\ UNCHANGED <<kernel, handle, buffer>>

\* The switches over errno: the constructor, send, receive and msgctl.
init_error ==
  [EACCES |-> "Permissions", EEXIST |-> "Existential",
   ENOENT |-> "Existential", ENOSPC |-> "OSError"]
send_error ==
  [EACCES |-> "Permissions", EAGAIN |-> "Busy", EIDRM |-> "Existential",
   EINTR |-> "Error", EINVAL |-> "OSError"]
receive_error ==
  [EACCES |-> "Permissions", EIDRM |-> "Existential",
   EINVAL |-> "Existential", EINTR |-> "Error", ENOMSG |-> "Busy",
   E2BIG |-> "OSError"]
ctl_error ==
  [EINVAL |-> "Existential", EACCES |-> "Permissions", EPERM |-> "Permissions"]

----------------------------------------------------------------------------
(* The constructor.                                                        *)

Exists(k) == idOf[k] # NoId

MsggetErrno(k, flags, m) ==
  IF Exists(k)
  THEN IF flags = CREX                            THEN "EEXIST"
       ELSE IF ~(m \subseteq mode[idOf[k]])       THEN "EACCES" ELSE "none"
  ELSE IF k # IPC_PRIVATE /\ "CREAT" \notin flags THEN "ENOENT"
       ELSE IF \A i \in Ids : status[i] # "unused" THEN "ENOSPC" ELSE "none"

\* The kernel's part of creating a queue.
Allocate(k, i, m) ==
  /\ status[i] = "unused" /\ \A j \in 1..(i - 1) : status[j] # "unused"
  /\ status' = [status EXCEPT ![i] = "live"]
  /\ mode' = [mode EXCEPT ![i] = m]
  /\ qbytes' = [qbytes EXCEPT ![i] = MSGMNB]
  /\ idOf' = IF k = IPC_PRIVATE THEN idOf ELSE [idOf EXCEPT ![k] = i]
  /\ UNCHANGED queue

\* Variant of NewHandle: self->key stays as MessageQueue_new left it.
NewHandleOldKey(t, k, i, max) ==
  /\ handle' = [handle EXCEPT ![ProcOf[t]] = [key |-> 0, id |-> i, max |-> max]]
  /\ Return(t, "ok") /\ UNCHANGED buffer

\* self->key, self->id and self->max_message_size of the new object.
NewHandle(t, k, i, max) ==
  /\ handle' = [handle EXCEPT ![ProcOf[t]] = [key |-> k, id |-> i, max |-> max]]
  /\ Return(t, "ok") /\ UNCHANGED buffer

Msgget(t, k, flags, m, max) ==
  LET errno == MsggetErrno(k, flags, m) IN
  \/ errno # "none" /\ Fail(t, init_error[errno])
  \/ /\ errno = "none" /\ Exists(k)
     /\ NewHandle(t, k, idOf[k], max) /\ UNCHANGED kernel
  \/ /\ errno = "none" /\ ~Exists(k)
     /\ \E i \in Ids : Allocate(k, i, m) /\ NewHandle(t, k, i, max)

\* What the constructor refuses with ValueError.
BadArguments(arg, flags, max) ==
  \/ max > QUEUE_MESSAGE_SIZE_MAX
  \/ "EXCL" \in flags /\ "CREAT" \notin flags
  \/ arg = None /\ "EXCL" \notin flags

MessageQueue_init(t, arg, flags, m, max) ==
  /\ CanCall(t)
  /\ \/ ~Convertible(arg) /\ Fail(t, "Type")
     \/ Convertible(arg) /\ BadArguments(arg, flags, max) /\ Fail(t, "Value")
     \/ /\ Convertible(arg) /\ ~BadArguments(arg, flags, max) /\ arg = None
        /\ call' = [call EXCEPT ![t] =
                      [pc |-> "genkey", flags |-> flags, mode |-> m, max |-> max]]
        /\ UNCHANGED <<kernel, handle, buffer>>
     \/ /\ Convertible(arg) /\ ~BadArguments(arg, flags, max) /\ arg # None
        /\ Msgget(t, ToKeyT(arg), flags, m, max)

Redraws(errno) == errno = "EEXIST"

\* The last turn of the loop that draws keys; the others change nothing.
TryRandomKey(t) ==
  /\ call[t].pc = "genkey"
  /\ \E k \in get_random_key :
       /\ ~Redraws(MsggetErrno(k, call[t].flags, call[t].mode))
       /\ Msgget(t, k, call[t].flags, call[t].mode, call[t].max)

----------------------------------------------------------------------------
(* send.                                                                   *)

\* Variant of BadType: any type but 0.
BadTypeOnlyZero(type) == type = 0

\* The kernel takes positive types only; the others mean something to receive.
BadType(type) == type <= 0

\* Variant of TooLong: the message is compared with what the module allows,
\* not with what this object does.
TooLongForModule(text, max) == Size[text] > QUEUE_MESSAGE_SIZE_MAX

TooLong(text, max) == Size[text] > max

\* Checks and memcpy into p_msg, under the GIL, which is then released.
MessageQueue_send(t, type, block) ==
  /\ CanUse(t)
  /\ LET h == handle[ProcOf[t]]  text == buffer[ProcOf[t]] IN
     \/ (BadType(type) \/ TooLong(text, h.max)) /\ Fail(t, "Value")
     \/ /\ ~BadType(type) /\ ~TooLong(text, h.max)
        /\ \/ "memory" \in Faults /\ Fail(t, "Memory")
           \/ /\ call' = [call EXCEPT ![t] =
                   [pc |-> "msgsnd", id |-> h.id, block |-> block,
                    msg |-> [type |-> type, text |-> text, limit |-> h.max]]]
              /\ UNCHANGED <<kernel, handle, buffer>>

\* msg_cbytes, which the kernel keeps up to date, as a sum over the queue.
Bytes(q) ==
  LET sum[n \in 0..Len(q)] == IF n = 0 THEN 0 ELSE sum[n - 1] + Size[q[n].text]
  IN  sum[Len(q)]

\* The kernel counts bytes, and messages, which may have none.
Fits(i, text) ==
  /\ Bytes(queue[i]) + Size[text] <= qbytes[i]
  /\ Len(queue[i]) + 1 <= qbytes[i]

SendErrno(c) ==
  IF Size[c.msg.text] > MSGMAX     THEN "EINVAL"
  ELSE IF status[c.id] # "live"    THEN "EINVAL"
  ELSE IF "w" \notin mode[c.id]    THEN "EACCES"
  ELSE IF ~Fits(c.id, c.msg.text)  THEN "EAGAIN" ELSE "none"

\* Variant of SentMessage: msgsnd reads the caller's buffer, not a copy.
SentMessageUncopied(t) == [call[t].msg EXCEPT !.text = buffer[ProcOf[t]]]

\* The message msgsnd finds in p_msg.
SentMessage(t) == call[t].msg

Put(t) ==
  /\ queue' = [queue EXCEPT ![call[t].id] = Append(@, SentMessage(t))]
  /\ Return(t, "ok")
  /\ UNCHANGED <<idOf, status, mode, qbytes, handle, buffer>>

Wait(t, pc) ==
  call' = [call EXCEPT ![t].pc = pc] /\ UNCHANGED <<kernel, handle, buffer>>

Msgsnd(t) ==
  /\ call[t].pc = "msgsnd"
  /\ LET errno == SendErrno(call[t]) IN
     \/ errno = "none" /\ Put(t)
     \/ errno = "EAGAIN" /\ call[t].block /\ Wait(t, "sndwait")
     \/ /\ errno # "none" /\ ~(errno = "EAGAIN" /\ call[t].block)
        /\ Fail(t, send_error[errno])

SendWakes(t) ==
  /\ call[t].pc = "sndwait"
  /\ LET errno == SendErrno(call[t]) IN
     \/ status[call[t].id] # "live" /\ Fail(t, send_error["EIDRM"])
     \/ status[call[t].id] = "live" /\ errno = "EACCES" /\ Fail(t, send_error[errno])
     \/ errno = "none" /\ Put(t)

----------------------------------------------------------------------------
(* receive.                                                                *)

MessageQueue_receive(t, want, block) ==
  /\ CanUse(t)
  /\ \/ "memory" \in Faults /\ Fail(t, "Memory")
     \/ /\ call' = [call EXCEPT ![t] =
                      [pc |-> "msgrcv", id |-> handle[ProcOf[t]].id, block |-> block,
                       want |-> want, max |-> handle[ProcOf[t]].max]]
        /\ UNCHANGED <<kernel, handle, buffer>>

Matches(want, type) ==
  \/ want = 0
  \/ want > 0 /\ type = want
  \/ want < 0 /\ type <= -want

Matching(q, want) == {n \in DOMAIN q : Matches(want, q[n].type)}

\* The nth message is the one msgrcv takes: the first that matches or, for a
\* negative type, the first of the lowest type that matches.
IsNext(q, want, n) ==
  /\ n \in Matching(q, want)
  /\ \A k \in Matching(q, want) :
       IF want < 0 /\ q[k].type # q[n].type THEN q[n].type < q[k].type ELSE n <= k

\* msgrcv finds the message it wants.  One that is longer than the caller's
\* max_message_size stays on the queue.
Get(t, n) ==
  LET c == call[t]  m == queue[c.id][n] IN
  \/ Size[m.text] > c.max /\ Fail(t, receive_error["E2BIG"])
  \/ /\ Size[m.text] <= c.max
     /\ queue' = [queue EXCEPT ![c.id] = RemoveAt(@, n)]
     /\ \/ call' = [call EXCEPT ![t] = Idle("ok", <<m>>)]
        \/ "memory" \in Faults /\ Return(t, "Memory")
     /\ UNCHANGED <<idOf, status, mode, qbytes, handle, buffer>>

\* Variant of Receive: a queue that is gone is waited for.
ReceiveRetries(t, goneErrno) ==
  LET c == call[t] IN
  /\ status[c.id] = "live" /\ "r" \in mode[c.id]
  /\ \E n \in DOMAIN queue[c.id] : IsNext(queue[c.id], c.want, n) /\ Get(t, n)

Receive(t, goneErrno) ==
  LET c == call[t] IN
  \/ status[c.id] # "live" /\ Fail(t, receive_error[goneErrno])
  \/ status[c.id] = "live" /\ "r" \notin mode[c.id] /\ Fail(t, receive_error["EACCES"])
  \/ /\ status[c.id] = "live" /\ "r" \in mode[c.id]
     /\ \E n \in DOMAIN queue[c.id] : IsNext(queue[c.id], c.want, n) /\ Get(t, n)

Msgrcv(t) ==
  /\ call[t].pc = "msgrcv"
  /\ LET c == call[t] IN
     \/ Receive(t, "EINVAL")
     \/ /\ status[c.id] = "live" /\ "r" \in mode[c.id]
        /\ Matching(queue[c.id], c.want) = {}
        /\ IF c.block THEN Wait(t, "rcvwait") ELSE Fail(t, receive_error["ENOMSG"])

ReceiveWakes(t) == call[t].pc = "rcvwait" /\ Receive(t, "EIDRM")

Interrupt(t) ==
  "signal" \in Faults /\ call[t].pc \in Waiting /\ Fail(t, "Error")

----------------------------------------------------------------------------
(* Attributes, removal, the callers' own doings, the end of a process.     *)

StatErrno(i) ==
  IF status[i] # "live" THEN "EINVAL" ELSE IF "r" \notin mode[i] THEN "EACCES" ELSE "none"

\* The attributes that are read: one msgctl, whatever it asks for.
get_a_value(t) ==
  /\ CanUse(t)
  /\ LET errno == StatErrno(handle[ProcOf[t]].id) IN
     IF errno = "none" THEN Fail(t, "ok") ELSE Fail(t, ctl_error[errno])

\* PyLong_AsUnsignedLongMask: what is too large or negative wraps.
ToULong(n) == n % (2 * (LONG_MAX + 1))

\* mode, uid, gid or max_size: IPC_STAT reads all, one is replaced, and IPC_SET
\* writes all.  Who owns the queue is not modelled.
set_a_value(t, field, m, capacity) ==
  /\ CanUse(t)
  /\ LET i == handle[ProcOf[t]].id  errno == StatErrno(i) IN
     \/ errno # "none" /\ Fail(t, ctl_error[errno])
     \/ /\ errno = "none"
        /\ call' = [call EXCEPT ![t] =
             [pc |-> "ipcset", id |-> i, field |-> field,
              mode   |-> IF field = "mode" THEN m ELSE mode[i],
              qbytes |-> IF field = "max_size" THEN ToULong(capacity) ELSE qbytes[i]]]
        /\ UNCHANGED <<kernel, handle, buffer>>

\* The callers are not privileged: a capacity above MSGMNB is refused.
IpcSet(t) ==
  /\ call[t].pc = "ipcset"
  /\ LET c == call[t] IN
     \/ status[c.id] # "live" /\ Fail(t, ctl_error["EINVAL"])
     \/ status[c.id] = "live" /\ c.qbytes > MSGMNB /\ Fail(t, ctl_error["EPERM"])
     \/ /\ status[c.id] = "live" /\ c.qbytes <= MSGMNB
        /\ mode' = [mode EXCEPT ![c.id] = c.mode]
        /\ qbytes' = [qbytes EXCEPT ![c.id] = c.qbytes]
        /\ Return(t, "ok")
        /\ UNCHANGED <<idOf, status, queue, handle, buffer>>

\* MessageQueue.remove() and remove_message_queue(id): any id will do.
mq_remove(t, i) ==
  /\ CanCall(t)
  /\ \/ status[i] # "live" /\ Fail(t, ctl_error["EINVAL"])
     \/ /\ status[i] = "live"
        /\ status' = [status EXCEPT ![i] = "removed"]
        /\ idOf' = [k \in KeyT |-> IF idOf[k] = i THEN NoId ELSE idOf[k]]
        /\ mode' = [mode EXCEPT ![i] = {}]
        /\ qbytes' = [qbytes EXCEPT ![i] = 0]
        /\ queue' = [queue EXCEPT ![i] = <<>>]
        /\ Return(t, "ok") /\ UNCHANGED <<handle, buffer>>

\* Python code of p puts something else in its bytearray.
Rewrite(p, text) ==
  /\ GilFree(p)
  /\ buffer' = [buffer EXCEPT ![p] = text]
  /\ UNCHANGED <<kernel, handle, call>>

\* A process ends, at any point of any call.  The same p may then stand for a
\* new process.
ExitProcess(p) ==
  /\ handle' = [handle EXCEPT ![p] = NoHandle]
  /\ call' = [t \in Threads |-> IF ProcOf[t] = p THEN Idle("none", <<>>) ELSE call[t]]
  /\ UNCHANGED <<kernel, buffer>>

----------------------------------------------------------------------------
(* The specification.                                                      *)

Init ==
  /\ idOf = [k \in KeyT |-> NoId]
  /\ status = [i \in Ids |-> "unused"]
  /\ mode = [i \in Ids |-> {}]
  /\ qbytes = [i \in Ids |-> 0]
  /\ queue = [i \in Ids |-> <<>>]
  /\ handle = [p \in Procs |-> NoHandle]
  /\ buffer \in [Procs -> Texts]
  /\ call = [t \in Threads |-> Idle("none", <<>>)]

KernelStep(t) ==
  Msgsnd(t) \/ SendWakes(t) \/ Msgrcv(t) \/ ReceiveWakes(t)

ThreadStep(t) ==
  \/ \E arg \in KeyArgs, flags \in Flags, m \in Modes, max \in MaxSizes :
        MessageQueue_init(t, arg, flags, m, max)
  \/ TryRandomKey(t)
  \/ \E type \in Types, block \in BOOLEAN : MessageQueue_send(t, type, block)
  \/ \E want \in Wants, block \in BOOLEAN : MessageQueue_receive(t, want, block)
  \/ KernelStep(t)
  \/ Interrupt(t)
  \/ get_a_value(t)
  \/ \E field \in Settable, m \in Modes, capacity \in Capacities :
        set_a_value(t, field, m, capacity)
  \/ IpcSet(t)
  \/ \E i \in Ids : mq_remove(t, i)

Next ==
  \/ \E t \in Threads : ThreadStep(t)
  \/ \E p \in Procs, text \in Texts : Rewrite(p, text)
  \/ \E p \in Procs : ExitProcess(p)

Spec == Init /\ [][Next]_vars

----------------------------------------------------------------------------
(* Properties.                                                             *)

Results ==
  {"none", "ok", "Existential", "Permissions", "Value", "Type", "Memory",
   "Busy", "Error", "OSError"}

IdleCall    == [pc : {"idle"}, res : Results, got : Seq(Message)]
GenkeyCall  == [pc : {"genkey"}, flags : Flags, mode : Modes, max : MaxSizes]
SendCall    == [pc : InSend, id : Ids, block : BOOLEAN, msg : Message]
ReceiveCall == [pc : InReceive, id : Ids, block : BOOLEAN, want : Wants, max : MaxSizes]
IpcSetCall  == [pc : {"ipcset"}, id : Ids, field : Settable,
                mode : SUBSET {"r", "w"}, qbytes : Nat]

\* The types.
TypeOK ==
  /\ idOf \in [KeyT -> Ids \cup {NoId}]
  /\ status \in [Ids -> {"unused", "live", "removed"}]
  /\ mode \in [Ids -> SUBSET {"r", "w"}]
  /\ qbytes \in [Ids -> Nat]
  /\ queue \in [Ids -> Seq(Message)]
  /\ handle \in [Procs -> [key : KeyT, id : Ids, max : MaxSizes] \cup {NoHandle}]
  /\ buffer \in [Procs -> Texts]
  /\ call \in [Threads -> IdleCall \cup GenkeyCall \cup SendCall
                             \cup ReceiveCall \cup IpcSetCall]

KeysNameLiveQueues ==
  /\ idOf[IPC_PRIVATE] = NoId
  /\ \A k \in KeyT : Exists(k) => status[idOf[k]] = "live"
  /\ \A k, l \in KeyT : Exists(k) /\ idOf[k] = idOf[l] => k = l

\* As long as the queue of an object is in the system, the object's key is
\* the one that leads to it, and to no other, also when the constructor was
\* given a key that key_t cannot hold (MessageQueue_init, convert_key_param).
ObjectNamesItsQueue ==
  /\ KeysNameLiveQueues
  /\ \A p \in Procs :
       LET h == handle[p] IN
       h.id # NoId =>
         /\ status[h.id] # "unused"
         /\ status[h.id] = "live" =>
              \A k \in KeyT : idOf[k] = h.id <=> k = h.key /\ k # IPC_PRIVATE

\* No message is longer than the max_message_size of the object that sent it.
WithinLimit(m) == Size[m.text] <= m.limit

SentWithinLimit ==
  /\ \A i \in Ids : \A n \in DOMAIN queue[i] : WithinLimit(queue[i][n])
  /\ \A t \in Threads : call[t].pc \in InSend => WithinLimit(call[t].msg)

\* receive() raises OSError, and leaves a message on the queue that nobody
\* behind it can get past, only if that message was sent through an object
\* with a larger max_message_size than its own: objects that agree on it never
\* block each other (the length check of MessageQueue_send, the size handed to
\* msgrcv by MessageQueue_receive).
StuckOnlyBehindLargerObject ==
  [][\A t \in Threads :
       call[t].pc \in InReceive /\ call'[t] = Idle("OSError", <<>>) =>
         \E n \in DOMAIN queue[call[t].id] :
            queue[call[t].id][n].limit > call[t].max]_vars

\* What a thread has asked for and not yet been answered, and the answer.
Asked(c) ==
  IF c.pc \in InSend THEN [kind |-> "send", box |-> c.id, message |-> c.msg]
  ELSE IF c.pc \in InReceive THEN [kind |-> "receive", box |-> c.id, want |-> c.want]
  ELSE [kind |-> "none"]

Answered(c) ==
  IF c.pc = "idle" /\ c.res = "ok"          THEN [kind |-> "ok", got |-> c.got]
  ELSE IF c.pc = "idle" /\ c.res = "Memory" THEN [kind |-> "memory", got |-> <<>>]
  ELSE [kind |-> "none", got |-> <<>>]

\* The class implements Mailbox: what send() is given is what one receive()
\* returns, even if other threads change the buffer while send() waits, and
\* errors, signals, removals and the ends of processes neither lose nor
\* duplicate a message of a queue that stays.  The one exception is the
\* receive() that raises MemoryError after msgrcv has taken the message.
TheMailbox == INSTANCE Mailbox WITH
                Boxes <- Ids, Messages <- Message,
                mail <- queue,
                ask <- [t \in Threads |-> Asked(call[t])],
                answer <- [t \in Threads |-> Answered(call[t])]

ImplementsMailbox == TheMailbox!MailSpec

=============================================================================
