----------------------------- MODULE MqDemoProofs -----------------------------
(***************************************************************************)
(* The conversation of demos/message_queues, for every ITERATIONS, every   *)
(* size of messages and queues, and with all faults and removals.  DemoInv *)
(* is the inductive invariant: there is one message, on the queue or in    *)
(* the hands of one program, and it is what was said last.                 *)
(***************************************************************************)
EXTENDS MqDemo, MessageQueueProofs

USE DemoAssumption

----------------------------------------------------------------------------
(* The invariant.                                                          *)

Looping    == {"say", "send", "receive", "put_back"}
Statements == Looping \cup {"start", "make", "remove", "done", "raised", "alarm"}

\* Any one message finds room on an empty queue.
RoomForOne == 1 <= MSGMNB /\ \A text \in Texts : Size[text] <= MSGMNB

\* Begin is behind her.
Begun == what_i_sent[Premise] # Blank

Held(p) ==
  IF at[p] = "say" THEN what_i_sent[p]
  ELSE IF call[p].pc = "msgsnd" THEN call[p].msg.text ELSE call[p].got[1].text

DemoTypeOK ==
  /\ at \in [Threads -> Statements]
  /\ what_i_sent \in [Speakers -> Int]
  /\ i \in [Speakers -> Nat]
  /\ iterations \in ITERATIONS

PcsAt(statement) ==
  IF statement \in {"send", "put_back"} THEN {"idle", "msgsnd"}
  ELSE IF statement = "receive" THEN {"idle", "msgrcv", "rcvwait"} ELSE {"idle"}

\* There is one queue, with the id 1.
Placed(p) ==
  /\ call[p].pc \in PcsAt(at[p])
  /\ at[p] \in Looping => p \in Speakers
  /\ at[p] = "alarm" => p = Conclusion
  /\ at[p] \in Looping \/ (at[p] = "make" /\ call[p].res = "ok") => handle[p].id = 1
  /\ call[p].pc # "idle" => call[p].id = 1

PlaceInv == \A p \in Threads : Placed(p)

QueueInv ==
  /\ at[Premise] = "start" => status[1] = "unused"
  /\ \A k \in KeyT : idOf[k] \in {NoId, 1}
  /\ status[1] = "live" => qbytes[1] = MSGMNB

\* Conclusion replies once; the next message makes her assertion fail.
TalkInv ==
  /\ at[Premise] \in {"start", "make"} => ~Begun
  /\ at[Premise] \in Looping => Begun
  /\ what_i_sent[Conclusion] = 2 * i[Conclusion] - 1
  /\ Begun => what_i_sent[Premise] = 2 * i[Premise]
  /\ ~Begun => i[Premise] = 0 /\ i[Conclusion] = 0
  /\ i[Premise] <= i[Conclusion] /\ i[Conclusion] <= i[Premise] + 1 /\ i[Conclusion] <= 1
  /\ \A p \in Speakers : what_i_sent[p] # Blank => buffer[p] = what_i_sent[p]

TokenInv ==
  /\ ~(Holding(Premise) /\ Holding(Conclusion))
  /\ \A p \in Speakers :
       Holding(p) => Begun /\ queue[1] = <<>> /\ Held(p) = what_i_sent[lastSpeaker]
  /\ queue[1] # <<>> =>
       Begun /\ Len(queue[1]) = 1 /\ queue[1][1].text = what_i_sent[lastSpeaker]

DemoInv == TypeOK /\ DemoTypeOK /\ PlaceInv /\ QueueInv /\ TalkInv /\ TokenInv

\* What DemoInv does not say: the message is not lost while neither program
\* has failed or ended.  A program that has not begun is fine, too.
Fine(p) == at[p] \in {"start", "make"} \/ GoesOn(p)

Kept == queue[1] # <<>> \/ \E p \in Speakers : Holding(p)

KeptInv == status[1] = "live" /\ Begun /\ (\A p \in Speakers : Fine(p)) => Kept

----------------------------------------------------------------------------
(* What does not change.                                                   *)

\* What was said last, and by whom.
LEMMA LastWords ==
  ASSUME DemoTypeOK, TalkInv, Begun
  PROVE  /\ lastSpeaker \in Speakers
         /\ what_i_sent[lastSpeaker] \in Nat
         /\ \A p \in Speakers :
              what_i_sent[p] = what_i_sent[lastSpeaker] => p = lastSpeaker
<1>1. i[Premise] \in Nat /\ i[Conclusion] \in Nat
  BY DEF DemoTypeOK, Speakers
<1>2. CASE i[Conclusion] > i[Premise]
  BY <1>1, <1>2 DEF TalkInv, lastSpeaker, Speakers
<1>3. CASE ~(i[Conclusion] > i[Premise])
  BY <1>1, <1>3 DEF TalkInv, lastSpeaker, Speakers
<1> QED
  BY <1>2, <1>3

\* Only p, its call and its object change.
OnlyOf(p) ==
  \A q \in Threads \ {p} :
    at'[q] = at[q] /\ call'[q] = call[q] /\ handle'[q] = handle[q]

LEMMA PlaceFrame ==
  ASSUME PlaceInv, NEW p \in Threads, OnlyOf(p), Placed(p)'
  PROVE  PlaceInv'
<1> SUFFICES ASSUME NEW q \in Threads \ {p} PROVE Placed(q)'
  BY DEF PlaceInv
<1>1. at'[q] = at[q] /\ call'[q] = call[q] /\ handle'[q] = handle[q]
  BY DEF OnlyOf
<1> QED
  BY <1>1 DEF PlaceInv, Placed

LEMMA OthersHold ==
  ASSUME NEW p \in Threads, OnlyOf(p), UNCHANGED what_i_sent
  PROVE  \A q \in Threads \ {p} : (Holding(q)' <=> Holding(q)) /\ Held(q)' = Held(q)
<1> TAKE q \in Threads \ {p}
<1>1. at'[q] = at[q] /\ call'[q] = call[q]
  BY DEF OnlyOf
<1> QED
  BY <1>1 DEF Holding, Held

\* A step that says nothing and neither sends nor receives: p may lose the
\* message.
LEMMA QuietStep ==
  ASSUME DemoInv, TypeOK', NEW p \in Threads, NEW next \in Statements \ {"start", "say"},
         Goto(p, next), Stays, UNCHANGED <<kernel, buffer>>, OnlyOf(p), Placed(p)',
         p = Premise => /\ next = "make" => at[p] = "start"
                        /\ next \in Looping => at[p] \in Looping,
         p \in Speakers /\ Holding(p)' => Holding(p) /\ Held(p)' = Held(p)
  PROVE  DemoInv'
<1>1. DemoTypeOK'
  BY DEF DemoInv, DemoTypeOK, Goto, Stays
<1>2. PlaceInv'
  BY PlaceFrame DEF DemoInv
<1>3. at'[p] = next /\ \A q \in Threads \ {p} : at'[q] = at[q]
  BY DEF DemoInv, DemoTypeOK, Goto
<1>4. QueueInv'
  BY <1>3 DEF DemoInv, QueueInv, kernel
<1>5. Begun' = Begun /\ lastSpeaker' = lastSpeaker
  BY DEF Stays, Begun, lastSpeaker
<1>6. TalkInv'
  <2>1. at'[Premise] \in {"start", "make"} => at[Premise] \in {"start", "make"}
    BY <1>3
  <2>2. at'[Premise] \in Looping => at[Premise] \in Looping
    BY <1>3
  <2> QED
    BY <1>5, <2>1, <2>2 DEF DemoInv, TalkInv, Stays
<1>7. TokenInv'
  <2>1. \A q \in Speakers : Holding(q)' => Holding(q) /\ Held(q)' = Held(q)
    BY OthersHold DEF Stays, Speakers
  <2>2. UNCHANGED <<queue, what_i_sent>>
    BY DEF kernel, Stays
  <2>3. TokenInv
    BY DEF DemoInv
  <2> QED
    BY <1>5, <2>1, <2>2, <2>3, Zenon DEF TokenInv, Speakers
<1> QED
  BY <1>1, <1>2, <1>4, <1>6, <1>7 DEF DemoInv

\* A call that fails.
LEMMA FailOnly ==
  ASSUME TypeOK, NEW p \in Threads, NEW result, Fail(p, result)
  PROVE  /\ call'[p] = Idle(result, <<>>)
         /\ \A q \in Threads \ {p} : call'[q] = call[q]
         /\ UNCHANGED <<kernel, handle, buffer>>
<1>1. call \in [Threads -> Call]
  BY DEF TypeOK, Call
<1> QED
  BY <1>1 DEF Fail, Return

LEMMA FailStep ==
  ASSUME DemoInv, NEW p \in Threads, NEW next \in Statements \ {"start", "say", "alarm"},
         NEW result \in Results \ {"ok"},
         Fail(p, result), Goto(p, next), Stays,
         next \in Looping => p \in Speakers /\ handle[p].id = 1,
         p = Premise => /\ next = "make" => at[p] = "start"
                        /\ next \in Looping => at[p] \in Looping
  PROVE  DemoInv'
<1>1. TypeOK'
  BY FailType DEF DemoInv
<1>2. /\ call'[p] = Idle(result, <<>>)
      /\ \A q \in Threads \ {p} : call'[q] = call[q]
      /\ UNCHANGED <<kernel, handle, buffer>>
  BY FailOnly DEF DemoInv
<1>3. at'[p] = next /\ \A q \in Threads \ {p} : at'[q] = at[q]
  BY DEF DemoInv, DemoTypeOK, Goto
<1>4. call'[p].pc = "idle" /\ call'[p].res # "ok"
  BY <1>2 DEF Idle
<1>5. OnlyOf(p)
  BY <1>2, <1>3 DEF OnlyOf
<1>6. Placed(p)'
  BY <1>2, <1>3, <1>4 DEF Placed, PcsAt
<1>7. ~Holding(p)'
  BY <1>3, <1>4 DEF Holding
<1> QED
  BY <1>1, <1>2, <1>5, <1>6, <1>7, QuietStep

----------------------------------------------------------------------------
(* The statements.                                                         *)

Errors == Results \ {"ok"}

LEMMA FailuresAreErrors ==
  /\ \A e \in DOMAIN init_error : init_error[e] \in Errors
  /\ \A e \in DOMAIN send_error : send_error[e] \in Errors
  /\ \A e \in DOMAIN receive_error : receive_error[e] \in Errors
  /\ \A e \in DOMAIN ctl_error : ctl_error[e] \in Errors
BY DEF init_error, send_error, receive_error, ctl_error, Errors, Results

LEMMA OwnProcess == \A p \in Threads : ProcOf[p] = p /\ p \in Procs
OBVIOUS

\* The object MessageQueue_init returns for the queue that is there.
LEMMA AttachStep ==
  ASSUME DemoInv, NEW p \in Threads, NEW max \in MaxSizes, at[p] = "start",
         Exists(KEY), NewHandle(p, KEY, idOf[KEY], max), UNCHANGED kernel,
         Goto(p, "make"), Stays
  PROVE  DemoInv'
<1>1. KEY \in KeyT /\ idOf[KEY] = 1 /\ idOf[KEY] \in Ids
  BY MessageQueueAssumption DEF DemoInv, QueueInv, Exists, Ids
<1>2. TypeOK'
  <2>1. CallerTypeOK'
    BY <1>1, TypeParts, NewHandleType DEF DemoInv
  <2>2. KernelTypeOK'
    BY TypeParts DEF DemoInv, KernelTypeOK, kernel
  <2> QED
    BY <2>1, <2>2, TypeParts DEF TypeOK, KernelTypeOK, CallerTypeOK, Call, Objects, Object
<1>3. /\ call' = [call EXCEPT ![p] = Idle("ok", <<>>)] /\ UNCHANGED buffer
      /\ handle' = [handle EXCEPT ![p] = [key |-> KEY, id |-> 1, max |-> max]]
  BY <1>1, OwnProcess DEF NewHandle, Return
<1>4. call \in [Threads -> Call] /\ handle \in [Threads -> Objects]
  BY DEF DemoInv, TypeOK, Call, Objects, Object
<1>5. /\ at'[p] = "make" /\ call'[p] = Idle("ok", <<>>) /\ handle'[p].id = 1
      /\ OnlyOf(p)
  BY <1>3, <1>4 DEF DemoInv, DemoTypeOK, Goto, OnlyOf
<1>6. Placed(p)' /\ ~Holding(p)'
  BY <1>5 DEF Placed, PcsAt, Idle, Looping, Holding
<1>7. "make" \in Statements \ {"start", "say"} /\ "make" \notin Looping
  BY DEF Statements, Looping
<1> QED
  BY <1>2, <1>3, <1>5, <1>6, <1>7, QuietStep

\* The queue that premise.py makes.
LEMMA CreateStep ==
  ASSUME DemoInv, NEW m \in Modes, NEW max \in MaxSizes, NEW id \in Ids,
         at[Premise] = "start", Allocate(KEY, id, m), NewHandle(Premise, KEY, id, max),
         Goto(Premise, "make"), Stays
  PROVE  DemoInv'
<1>1. TypeOK'
  <2>1. CallerTypeOK' /\ KernelTypeOK'
    BY TypeParts, NewHandleType, AllocateType DEF DemoInv
  <2> QED
    BY <2>1, TypeParts DEF TypeOK, KernelTypeOK, CallerTypeOK, Call, Objects, Object
<1>2. id = 1
  <2>1. status[1] = "unused"
    BY DEF DemoInv, QueueInv
  <2>2. id # 1 => 1 \in 1..(id - 1)
    BY DEF Ids
  <2> QED
    BY <2>1, <2>2 DEF Allocate
<1>3. /\ call' = [call EXCEPT ![Premise] = Idle("ok", <<>>)] /\ UNCHANGED buffer
      /\ handle' = [handle EXCEPT ![Premise] = [key |-> KEY, id |-> 1, max |-> max]]
  BY <1>2, OwnProcess DEF NewHandle, Return
<1>4. call \in [Threads -> Call] /\ handle \in [Threads -> Objects]
  BY DEF DemoInv, TypeOK, Call, Objects, Object
<1>5. /\ at'[Premise] = "make" /\ call'[Premise] = Idle("ok", <<>>)
      /\ handle'[Premise].id = 1 /\ OnlyOf(Premise)
  BY <1>3, <1>4 DEF DemoInv, DemoTypeOK, Goto, OnlyOf
<1>6. Placed(Premise)' /\ ~Holding(Premise)'
  BY <1>5 DEF Placed, PcsAt, Idle, Looping, Holding
<1>7. "make" \in Statements /\ "make" \notin Looping
  BY DEF Statements, Looping
<1>8. DemoTypeOK'
  BY <1>7 DEF DemoInv, DemoTypeOK, Goto, Stays
<1>9. PlaceInv'
  BY <1>5, <1>6, PlaceFrame DEF DemoInv
<1>10. QueueInv'
  <2>1. qbytes'[1] = MSGMNB
    BY <1>2 DEF DemoInv, TypeOK, Allocate, Ids
  <2>2. \A k \in KeyT : idOf'[k] \in {NoId, 1}
    BY <1>2 DEF DemoInv, TypeOK, QueueInv, Allocate
  <2> QED
    BY <1>5, <2>1, <2>2 DEF QueueInv
<1>11. ~Begun /\ UNCHANGED <<what_i_sent, i, buffer, queue>>
  BY <1>3 DEF DemoInv, TalkInv, Stays, Allocate
<1>12. TalkInv'
  BY <1>5, <1>7, <1>11 DEF DemoInv, TalkInv, Begun, lastSpeaker
<1>13. TokenInv'
  <2>1. queue[1] = <<>> /\ \A q \in Speakers : ~Holding(q)
    BY <1>11 DEF DemoInv, TokenInv
  <2>2. \A q \in Speakers : ~Holding(q)'
    BY <1>5, <1>6, <1>11, <2>1, OthersHold DEF Speakers
  <2> QED
    BY <1>11, <2>1, <2>2 DEF TokenInv, Speakers
<1> QED
  BY <1>1, <1>8, <1>9, <1>10, <1>12, <1>13 DEF DemoInv

LEMMA MakeStep ==
  ASSUME DemoInv, NEW p \in Threads, Make(p)
  PROVE  DemoInv'
<1> DEFINE flags == IF p = Premise THEN CREX ELSE {}
<1>1. PICK max \in MaxSizes : MessageQueue_init(p, KEY, flags, {"r", "w"}, max)
  BY DEF Make
<1>2. at[p] = "start" /\ Goto(p, "make") /\ Stays
  BY DEF Make
<1>3. "make" \in Statements \ {"start", "say", "alarm"} /\ "make" \notin Looping
  BY DEF Statements, Looping
<1>4. ASSUME NEW result \in Errors, Fail(p, result) PROVE DemoInv'
  BY <1>2, <1>3, <1>4, FailStep DEF Errors
<1>5. ToKeyT(KEY) = KEY /\ KEY # None
  BY KeyInRangeIsKept, KeysAssumption DEF KeyT
<1> DEFINE errno == MsggetErrno(KEY, flags, {"r", "w"})
<1>6. CASE Fail(p, "Type") \/ Fail(p, "Value")
  BY <1>4, <1>6 DEF Errors, Results
<1>7. CASE errno # "none" /\ Fail(p, init_error[errno])
  BY <1>4, <1>7, MsggetErrnos, FailuresAreErrors
<1>8. CASE Exists(KEY) /\ NewHandle(p, KEY, idOf[KEY], max) /\ UNCHANGED kernel
  BY <1>2, <1>8, AttachStep
<1>9. ASSUME NEW id \in Ids, errno = "none", ~Exists(KEY),
             Allocate(KEY, id, {"r", "w"}), NewHandle(p, KEY, id, max)
      PROVE  DemoInv'
  <2>1. p = Premise
    BY <1>9 DEF MsggetErrno
  <2> QED
    BY <1>2, <1>9, <2>1, CreateStep
<1> QED
  BY <1>1, <1>5, <1>6, <1>7, <1>8, <1>9 DEF MessageQueue_init, Msgget

\* A program says something: it is alone with the message, or begins.
LEMMA SayStep ==
  ASSUME DemoInv, NEW p \in Speakers, NEW text \in Nat \cap Texts, Say(p, text),
         call[p].pc = "idle", handle[p].id = 1,
         \A q \in Speakers \ {p} : ~Holding(q), queue[1] = <<>>,
         TalkInv', Begun', lastSpeaker' = p, i' \in [Speakers -> Nat]
  PROVE  DemoInv'
<1>1. /\ buffer' = [buffer EXCEPT ![p] = text] /\ UNCHANGED <<kernel, handle, call>>
      /\ at' = [at EXCEPT ![p] = "say"]
      /\ what_i_sent' = [what_i_sent EXCEPT ![p] = text] /\ UNCHANGED iterations
  BY DEF Say, Rewrite, Goto
<1>2. p \in Threads /\ "say" \in Statements /\ "say" \in Looping
  BY DEF Speakers, Statements, Looping
<1>3. TypeOK'
  BY <1>2, OwnProcess, RewriteType DEF DemoInv, Say
<1>4. DemoTypeOK'
  BY <1>1, <1>2 DEF DemoInv, DemoTypeOK
<1>5. at'[p] = "say" /\ what_i_sent'[p] = text /\ OnlyOf(p)
  BY <1>1, <1>2 DEF DemoInv, DemoTypeOK, OnlyOf
<1>6. Placed(p)'
  BY <1>1, <1>5 DEF Placed, PcsAt
<1>7. PlaceInv'
  BY <1>2, <1>5, <1>6, PlaceFrame DEF DemoInv
<1>8. QueueInv'
  BY <1>1 DEF DemoInv, DemoTypeOK, QueueInv, kernel
<1>9. \A q \in Speakers \ {p} : ~Holding(q)'
  BY <1>1, <1>5 DEF OnlyOf, Holding, Speakers
<1>10. Held(p)' = text
  BY <1>5 DEF Held
<1>11. TokenInv'
  BY <1>1, <1>5, <1>9, <1>10 DEF TokenInv, Speakers, kernel
<1> QED
  BY <1>3, <1>4, <1>7, <1>8, <1>11 DEF DemoInv

LEMMA BeginStep ==
  ASSUME DemoInv, Begin
  PROVE  DemoInv' /\ ~Begun /\ Begun' /\ lastSpeaker' = Premise
<1>1. /\ at[Premise] = "make" /\ call[Premise].pc = "idle" /\ call[Premise].res = "ok"
      /\ Say(Premise, 0) /\ UNCHANGED i
  BY DEF Begin, Ended
<1>2. handle[Premise].id = 1
  BY <1>1 DEF DemoInv, PlaceInv, Placed
<1>3. ~Begun /\ i[Premise] = 0 /\ i[Conclusion] = 0
  BY <1>1 DEF DemoInv, TalkInv
<1>4. queue[1] = <<>> /\ \A q \in Speakers : ~Holding(q)
  BY <1>3 DEF DemoInv, TokenInv
<1>5. 0 \in Nat \cap Texts
  BY DEF DemoInv, DemoTypeOK
<1>6. /\ buffer' = [buffer EXCEPT ![Premise] = 0]
      /\ at' = [at EXCEPT ![Premise] = "say"]
      /\ what_i_sent' = [what_i_sent EXCEPT ![Premise] = 0]
  BY <1>1 DEF Say, Rewrite, Goto
<1>7. Begun'
  BY <1>6 DEF DemoInv, DemoTypeOK, Begun, Blank, Speakers
<1>8. lastSpeaker' = Premise
  BY <1>1, <1>3 DEF lastSpeaker
<1>9. TalkInv'
  <2>1. at'[Premise] = "say" /\ what_i_sent'[Premise] = 0
    BY <1>6 DEF DemoInv, DemoTypeOK, Speakers
  <2>2. \A p \in Speakers : what_i_sent'[p] # Blank => buffer'[p] = what_i_sent'[p]
    BY <1>6 DEF DemoInv, DemoTypeOK, TypeOK, TalkInv, Speakers
  <2>3. what_i_sent'[Conclusion] = 2 * i[Conclusion] - 1
    BY <1>6 DEF DemoInv, DemoTypeOK, TalkInv, Speakers
  <2> QED
    BY <1>1, <1>3, <1>7, <2>1, <2>2, <2>3 DEF TalkInv, Looping
<1>10. i' \in [Speakers -> Nat]
  BY <1>1 DEF DemoInv, DemoTypeOK
<1> QED
  BY <1>1, <1>2, <1>3, <1>4, <1>5, <1>7, <1>8, <1>9, <1>10, SayStep DEF Speakers

\* What a program has received is what was said last.
LEMMA ReceivedLast ==
  ASSUME DemoInv, NEW p \in Speakers, NEW s, Received(p, s)
  PROVE  /\ Holding(p) /\ Begun /\ s = what_i_sent[lastSpeaker] /\ s \in Nat
         /\ queue[1] = <<>> /\ (\A q \in Speakers \ {p} : ~Holding(q))
         /\ handle[p].id = 1 /\ call[p].pc = "idle" /\ at[p] = "receive"
<1>1. at[p] = "receive" /\ call[p].pc = "idle" /\ call[p].res = "ok" /\ call[p].got[1].text = s
  BY DEF Received, Ended
<1>2. Holding(p) /\ Held(p) = s
  BY <1>1 DEF Holding, Held
<1>3. handle[p].id = 1
  BY <1>1 DEF DemoInv, PlaceInv, Placed, Looping, Speakers
<1>4. Begun /\ queue[1] = <<>> /\ s = what_i_sent[lastSpeaker]
  BY <1>2 DEF DemoInv, TokenInv
<1>5. \A q \in Speakers \ {p} : ~Holding(q)
  BY <1>2 DEF DemoInv, TokenInv, Speakers
<1> QED
  BY <1>1, <1>2, <1>3, <1>4, <1>5, LastWords DEF DemoInv

\* How the two stand when what p has received is the other's, and passes.
LEMMA PassedText ==
  ASSUME DemoInv, NEW p \in Speakers, NEW s, Received(p, s), s # what_i_sent[p], Passes(p, s)
  PROVE  /\ lastSpeaker # p
         /\ IF p = Premise THEN i[Premise] = 0 /\ i[Conclusion] = 1 /\ s = 1
            ELSE i[Premise] = 0 /\ i[Conclusion] = 0 /\ s = 0
<1>1. /\ Begun /\ s = what_i_sent[lastSpeaker] /\ lastSpeaker # p
  BY ReceivedLast
<1>2. /\ i[Premise] \in Nat /\ i[Conclusion] \in Nat /\ Premise # Conclusion
      /\ what_i_sent[Conclusion] = 2 * i[Conclusion] - 1
      /\ what_i_sent[Premise] = 2 * i[Premise]
      /\ i[Premise] <= i[Conclusion] /\ i[Conclusion] <= 1
  BY <1>1 DEF DemoInv, DemoTypeOK, TalkInv, Speakers
<1>3. CASE p = Premise
  <2>1. i[Conclusion] > i[Premise] /\ lastSpeaker = Conclusion
    BY <1>1, <1>3 DEF lastSpeaker
  <2>2. i[Conclusion] = 1 /\ i[Premise] = 0
    BY <1>2, <2>1
  <2> QED
    BY <1>1, <1>2, <1>3, <2>1, <2>2
<1>4. CASE p = Conclusion
  <2>1. what_i_sent[Conclusion] = -1
    BY <1>2, <1>4 DEF Passes, Blank
  <2> QED
    BY <1>1, <1>2, <1>4, <2>1 DEF lastSpeaker
<1> QED
  BY <1>3, <1>4 DEF Speakers

LEMMA ReplyStep ==
  ASSUME DemoInv, NEW p \in Speakers, Reply(p)
  PROVE  /\ DemoInv' /\ Begun /\ Begun' /\ lastSpeaker # p /\ lastSpeaker' = p
         /\ what_i_sent'[p] = md5[what_i_sent[lastSpeaker]]
<1>1. PICK s \in Texts :
        /\ Received(p, s) /\ s # what_i_sent[p] /\ Passes(p, s)
        /\ Say(p, md5[s]) /\ i' = [i EXCEPT ![p] = @ + 1]
  BY DEF Reply
<1>2. /\ Begun /\ s = what_i_sent[lastSpeaker] /\ s \in Nat
      /\ queue[1] = <<>> /\ (\A q \in Speakers \ {p} : ~Holding(q))
      /\ handle[p].id = 1 /\ call[p].pc = "idle" /\ at[p] = "receive"
  BY <1>1, ReceivedLast
<1>3. /\ lastSpeaker # p
      /\ IF p = Premise THEN i[Premise] = 0 /\ i[Conclusion] = 1 /\ s = 1
         ELSE i[Premise] = 0 /\ i[Conclusion] = 0 /\ s = 0
  BY <1>1, PassedText
<1>4. md5[s] = s + 1
  BY <1>2 DEF md5
<1>5. s + 1 \in Nat \cap Texts
  <2>1. s + 1 \in 0..2 * iterations
    BY <1>3 DEF DemoInv, DemoTypeOK
  <2> QED
    BY <2>1 DEF DemoInv, DemoTypeOK
<1>6. /\ buffer' = [buffer EXCEPT ![p] = s + 1]
      /\ at' = [at EXCEPT ![p] = "say"]
      /\ what_i_sent' = [what_i_sent EXCEPT ![p] = s + 1]
  BY <1>1, <1>4 DEF Say, Rewrite, Goto
<1>7. /\ i' \in [Speakers -> Nat] /\ i'[p] = i[p] + 1 /\ \A q \in Speakers \ {p} : i'[q] = i[q]
      /\ what_i_sent'[p] = s + 1 /\ \A q \in Speakers \ {p} : what_i_sent'[q] = what_i_sent[q]
      /\ at'[p] = "say" /\ \A q \in Threads \ {p} : at'[q] = at[q]
      /\ buffer'[p] = s + 1 /\ \A q \in Speakers \ {p} : buffer'[q] = buffer[q]
  BY <1>1, <1>6 DEF DemoInv, DemoTypeOK, TypeOK, Speakers
<1>8. lastSpeaker' = p
  BY <1>3, <1>7 DEF lastSpeaker, Speakers
<1>9. Begun'
  BY <1>2, <1>7 DEF Begun, Blank, Speakers
<1>10. TalkInv'
  <2>1. \A q \in Speakers : what_i_sent'[q] # Blank => buffer'[q] = what_i_sent'[q]
    BY <1>7 DEF DemoInv, TalkInv
  <2>2. at'[Premise] \notin {"start", "make"}
    BY <1>2, <1>7 DEF DemoInv, TalkInv, Speakers
  <2>3. /\ what_i_sent'[Conclusion] = 2 * i'[Conclusion] - 1
        /\ what_i_sent'[Premise] = 2 * i'[Premise]
        /\ i'[Premise] <= i'[Conclusion] /\ i'[Conclusion] <= i'[Premise] + 1
        /\ i'[Conclusion] <= 1
    <3>1. /\ what_i_sent[Conclusion] = 2 * i[Conclusion] - 1
          /\ what_i_sent[Premise] = 2 * i[Premise]
      BY <1>2 DEF DemoInv, TalkInv
    <3>2. CASE p = Premise
      BY <1>3, <1>7, <3>1, <3>2 DEF Speakers
    <3>3. CASE p = Conclusion
      BY <1>3, <1>7, <3>1, <3>3 DEF Speakers
    <3> QED
      BY <3>2, <3>3 DEF Speakers
  <2> QED
    BY <1>9, <2>1, <2>2, <2>3 DEF TalkInv
<1> QED
  BY <1>1, <1>2, <1>3, <1>4, <1>5, <1>7, <1>8, <1>9, <1>10, SayStep

LEMMA SendBegins ==
  ASSUME DemoInv, NEW p \in Speakers, Holding(p), what_i_sent[p] = what_i_sent[lastSpeaker],
         at[p] \in Looping, NEW next \in {"send", "put_back"},
         MessageQueue_send(p, 1, TRUE), Goto(p, next), Stays
  PROVE  DemoInv'
<1>1. /\ p \in Threads /\ ProcOf[p] = p /\ next \in Looping
      /\ next \in Statements \ {"start", "say", "alarm", "make"}
  BY DEF Speakers, Looping, Statements
<1>2. handle[p].id = 1
  BY <1>1 DEF DemoInv, PlaceInv, Placed
<1>3. Begun /\ Held(p) = what_i_sent[p]
  BY DEF DemoInv, TokenInv
<1>4. buffer[p] = what_i_sent[p]
  <2>1. what_i_sent[p] \in Nat
    BY <1>3, LastWords DEF DemoInv
  <2> QED
    BY <2>1 DEF DemoInv, TalkInv, Blank
<1>5. ASSUME NEW result \in {"Value", "Memory"}, Fail(p, result) PROVE DemoInv'
  <2>1. result \in Results \ {"ok"}
    BY DEF Results
  <2> QED
    BY <1>1, <1>2, <1>5, <2>1, FailStep
<1> DEFINE c == [pc |-> "msgsnd", id |-> 1, block |-> TRUE,
                 msg |-> [type |-> 1, text |-> what_i_sent[p], limit |-> handle[p].max]]
<1>6. CASE call' = [call EXCEPT ![p] = c] /\ UNCHANGED <<kernel, handle, buffer>>
  <2>1. TypeOK'
    BY <1>1, SendType DEF DemoInv
  <2>2. call \in [Threads -> Call]
    BY DEF DemoInv, TypeOK, Call
  <2>3. /\ call'[p] = c /\ \A q \in Threads \ {p} : call'[q] = call[q]
    BY <1>1, <1>6, <2>2
  <2>4. at'[p] = next /\ OnlyOf(p)
    BY <1>1, <1>6, <2>3 DEF DemoInv, DemoTypeOK, Goto, OnlyOf
  <2>5. Placed(p)'
    BY <1>1, <1>2, <1>6, <2>3, <2>4 DEF Placed, PcsAt
  <2>6. Held(p)' = what_i_sent[p]
    BY <2>3, <2>4 DEF Held
  <2> QED
    BY <1>1, <1>3, <1>6, <2>1, <2>4, <2>5, <2>6, QuietStep
<1> QED
  BY <1>1, <1>2, <1>4, <1>5, <1>6 DEF MessageQueue_send

LEMMA SendStep ==
  ASSUME DemoInv, NEW p \in Speakers, Send(p) \/ PutBack(p)
  PROVE  DemoInv'
<1>1. CASE Send(p)
  <2>1. at[p] = "say" /\ MessageQueue_send(p, 1, TRUE) /\ Goto(p, "send") /\ Stays
    BY <1>1 DEF Send
  <2>2. Holding(p) /\ Held(p) = what_i_sent[p]
    BY <2>1 DEF Holding, Held
  <2>3. what_i_sent[p] = what_i_sent[lastSpeaker]
    BY <2>2 DEF DemoInv, TokenInv
  <2> QED
    BY <2>1, <2>2, <2>3, SendBegins DEF Looping
<1>2. CASE PutBack(p)
  <2>1. /\ Received(p, what_i_sent[p])
        /\ MessageQueue_send(p, 1, TRUE) /\ Goto(p, "put_back") /\ Stays
    BY <1>2 DEF PutBack
  <2>2. Holding(p) /\ what_i_sent[p] = what_i_sent[lastSpeaker] /\ at[p] = "receive"
    <3>1. PICK s : s = what_i_sent[p]
      OBVIOUS
    <3> QED
      BY <2>1, <3>1, ReceivedLast
  <2> QED
    BY <2>1, <2>2, SendBegins DEF Looping
<1> QED
  BY <1>1, <1>2

LEMMA ListenStep ==
  ASSUME DemoInv, NEW p \in Speakers, Listen(p)
  PROVE  DemoInv'
<1>1. /\ p \in Threads /\ ProcOf[p] = p
      /\ "receive" \in Looping /\ "receive" \in Statements \ {"start", "say", "alarm", "make"}
  BY DEF Speakers, Looping, Statements
<1>2. /\ MessageQueue_receive(p, 0, TRUE) /\ Goto(p, "receive") /\ Stays
      /\ \/ p = Conclusion /\ at[p] = "make" /\ call[p].res = "ok"
         \/ at[p] \in {"send", "put_back"}
  BY DEF Listen, Ended
<1>3. handle[p].id = 1
  BY <1>1, <1>2 DEF DemoInv, PlaceInv, Placed, Looping
<1>4. p = Premise => at[p] \in Looping
  BY <1>2 DEF Looping
<1>5. CASE Fail(p, "Memory")
  <2>1. "Memory" \in Results \ {"ok"}
    BY DEF Results
  <2> QED
    BY <1>1, <1>2, <1>3, <1>4, <1>5, <2>1, FailStep
<1> DEFINE c == [pc |-> "msgrcv", id |-> 1, block |-> TRUE, want |-> 0, max |-> handle[p].max]
<1>6. CASE call' = [call EXCEPT ![p] = c] /\ UNCHANGED <<kernel, handle, buffer>>
  <2>1. TypeOK'
    BY <1>1, <1>2, ReceiveBeginType DEF DemoInv
  <2>2. call \in [Threads -> Call]
    BY DEF DemoInv, TypeOK, Call
  <2>3. call'[p] = c /\ \A q \in Threads \ {p} : call'[q] = call[q]
    BY <1>1, <1>6, <2>2
  <2>4. at'[p] = "receive" /\ OnlyOf(p)
    BY <1>1, <1>2, <1>6, <2>3 DEF DemoInv, DemoTypeOK, Goto, OnlyOf
  <2>5. Placed(p)' /\ ~Holding(p)'
    BY <1>1, <1>3, <1>6, <2>3, <2>4 DEF Placed, PcsAt, Holding
  <2> QED
    BY <1>1, <1>2, <1>4, <1>6, <2>1, <2>4, <2>5, QuietStep
<1> QED
  BY <1>1, <1>2, <1>3, <1>5, <1>6 DEF MessageQueue_receive

\* A process ends, and takes the message with it if it has it.
LEMMA EndStep ==
  ASSUME DemoInv, NEW p \in Threads, NEW how \in {"done", "raised", "alarm"},
         End(p, how), how = "alarm" => p = Conclusion
  PROVE  DemoInv'
<1>1. /\ how \in Statements \ {"start", "say", "make"} /\ how \notin Looping
      /\ p \in Procs /\ \A q \in Threads : ProcOf[q] = q
  BY DEF Statements, Looping
<1>2. ExitProcess(p) /\ Goto(p, how) /\ Stays
  BY DEF End
<1>3. TypeOK'
  BY <1>1, <1>2, ExitProcessType DEF DemoInv
<1>4. /\ call'[p] = Idle("none", <<>>) /\ \A q \in Threads \ {p} : call'[q] = call[q]
      /\ UNCHANGED <<kernel, buffer>>
  BY <1>1, <1>2 DEF ExitProcess
<1>5. \A q \in Threads \ {p} : handle'[q] = handle[q]
  BY <1>2 DEF ExitProcess, DemoInv, TypeOK
<1>6. at'[p] = how /\ OnlyOf(p)
  BY <1>2, <1>4, <1>5 DEF DemoInv, DemoTypeOK, Goto, OnlyOf
<1>7. Placed(p)' /\ ~Holding(p)'
  BY <1>1, <1>4, <1>6 DEF Placed, PcsAt, Holding, Idle, Looping
<1> QED
  BY <1>1, <1>2, <1>3, <1>4, <1>6, <1>7, QuietStep

\* premise.py finds no message corrupt.
LEMMA AlarmStep ==
  ASSUME DemoInv, NEW p \in Speakers, Alarm(p)
  PROVE  DemoInv' /\ p = Conclusion
<1>1. PICK s \in Texts :
        Received(p, s) /\ s # what_i_sent[p] /\ ~Passes(p, s) /\ End(p, "alarm")
  BY DEF Alarm
<1>2. Begun /\ s = what_i_sent[lastSpeaker] /\ s \in Nat /\ lastSpeaker # p
  BY <1>1, ReceivedLast
<1>3. p = Conclusion
  <2> SUFFICES ASSUME p = Premise PROVE FALSE
    BY DEF Speakers
  <2>1. i[Conclusion] > i[Premise] /\ lastSpeaker = Conclusion
    BY <1>2 DEF lastSpeaker
  <2>2. /\ what_i_sent[Conclusion] = 2 * i[Conclusion] - 1
        /\ what_i_sent[Premise] = 2 * i[Premise]
        /\ i[Conclusion] <= 1 /\ i[Premise] \in Nat /\ i[Conclusion] \in Nat
    BY <1>2 DEF DemoInv, DemoTypeOK, TalkInv, Speakers
  <2>3. s = 1 /\ what_i_sent[Premise] = 0
    BY <1>2, <2>1, <2>2
  <2> QED
    BY <1>1, <2>3 DEF Passes, md5
<1>4. p \in Threads
  BY DEF Speakers
<1> QED
  BY <1>1, <1>3, <1>4, EndStep

\* The queue is gone, with the message that was on it.
LEMMA RemoveStep ==
  ASSUME DemoInv, NEW p \in Threads, RemoveQueue(p)
  PROVE  DemoInv'
<1>1. /\ at[p] \in {"send", "make"} /\ call[p].pc = "idle" /\ call[p].res = "ok"
      /\ mq_remove(p, handle[p].id) /\ Goto(p, "remove") /\ Stays
  BY DEF RemoveQueue, Ended
<1>2. /\ "remove" \in Statements \ {"start", "say", "alarm", "make"} /\ "remove" \notin Looping
      /\ handle[p].id = 1 /\ 1 \in Ids
  BY <1>1, MessageQueueAssumption DEF DemoInv, PlaceInv, Placed, Statements, Looping, Ids
<1>3. CASE Fail(p, ctl_error["EINVAL"])
  <2>1. ctl_error["EINVAL"] \in Results \ {"ok"}
    BY DEF ctl_error, Results
  <2> QED
    BY <1>1, <1>2, <1>3, <2>1, FailStep
<1>4. CASE /\ status[1] = "live"
           /\ status' = [status EXCEPT ![1] = "removed"]
           /\ idOf' = [k \in KeyT |-> IF idOf[k] = 1 THEN NoId ELSE idOf[k]]
           /\ queue' = [queue EXCEPT ![1] = <<>>]
           /\ Return(p, "ok") /\ UNCHANGED <<handle, buffer>>
  <2>1. TypeOK'
    BY <1>1, <1>2, RemoveType DEF DemoInv
  <2>2. DemoTypeOK'
    BY <1>1, <1>2 DEF DemoInv, DemoTypeOK, Goto, Stays
  <2>3. call'[p] = Idle("ok", <<>>) /\ \A q \in Threads \ {p} : call'[q] = call[q]
    BY <1>4 DEF DemoInv, TypeOK, Return
  <2>4. at'[p] = "remove" /\ OnlyOf(p)
    BY <1>1, <1>4, <2>3 DEF DemoInv, DemoTypeOK, Goto, OnlyOf
  <2>5. Placed(p)' /\ ~Holding(p)'
    BY <1>2, <2>3, <2>4 DEF Placed, PcsAt, Holding, Idle
  <2>6. PlaceInv'
    BY <2>4, <2>5, PlaceFrame DEF DemoInv
  <2>7. status'[1] = "removed" /\ queue'[1] = <<>>
    BY <1>2, <1>4 DEF DemoInv, TypeOK
  <2>8. QueueInv'
    <3>1. at'[Premise] # "start"
      BY <1>4, <2>4 DEF DemoInv, QueueInv, OnlyOf
    <3>2. \A k \in KeyT : idOf'[k] \in {NoId, 1}
      BY <1>4 DEF DemoInv, QueueInv
    <3> QED
      BY <2>7, <3>1, <3>2 DEF QueueInv
  <2>9. UNCHANGED <<what_i_sent, i, buffer>> /\ Begun' = Begun
    BY <1>1, <1>4 DEF Stays, Begun
  <2>10. TalkInv'
    BY <1>1, <1>2, <2>4, <2>9 DEF DemoInv, TalkInv, OnlyOf
  <2>11. \A q \in Speakers : Holding(q)' => Holding(q) /\ Held(q)' = Held(q)
    BY <2>4, <2>5, <2>9, OthersHold DEF Speakers
  <2>12. lastSpeaker' = lastSpeaker
    BY <2>9 DEF lastSpeaker
  <2>13. TokenInv'
    BY <2>7, <2>9, <2>11, <2>12 DEF DemoInv, TokenInv, Speakers
  <2> QED
    BY <2>1, <2>2, <2>6, <2>8, <2>10, <2>13 DEF DemoInv
<1> QED
  BY <1>1, <1>2, <1>3, <1>4 DEF mq_remove

----------------------------------------------------------------------------
(* The kernel.                                                             *)

\* A call under way fails.
LEMMA CallFails ==
  ASSUME DemoInv, NEW p \in Threads, call[p].pc # "idle",
         NEW result \in Results \ {"ok"}, Fail(p, result), UNCHANGED demo
  PROVE  DemoInv'
<1>1. PICK next \in Statements : next = at[p]
  BY DEF DemoInv, DemoTypeOK
<1>2. next \in Looping \ {"say"} /\ p \in Speakers /\ handle[p].id = 1
  BY <1>1 DEF DemoInv, PlaceInv, Placed, PcsAt, Looping
<1>3. Goto(p, next) /\ Stays
  BY <1>1 DEF DemoInv, DemoTypeOK, Goto, Stays, demo
<1>4. next \notin {"start", "say", "alarm", "make"}
  BY <1>2 DEF Looping
<1> QED
  BY <1>1, <1>2, <1>3, <1>4, FailStep

LEMMA EmptyHasNoBytes == Bytes(<<>>) = 0
<1> DEFINE Sum(f) == f = [n \in 0..0 |-> IF n = 0 THEN 0 ELSE f[n - 1] + Size[<<>>[n].text]]
<1>1. Sum([n \in 0..0 |-> 0])
  OBVIOUS
<1>2. \A f : Sum(f) => f[0] = 0
  OBVIOUS
<1>3. Sum(CHOOSE f : Sum(f))
  BY <1>1
<1>4. (CHOOSE f : Sum(f))[0] = 0
  BY <1>2, <1>3
<1>5. Len(<<>>) = 0
  OBVIOUS
<1> QED
  BY <1>4, <1>5 DEF Bytes

\* The one message always finds room.
LEMMA NeverFull ==
  ASSUME RoomForOne, DemoInv, NEW p \in Threads, call[p].pc = "msgsnd"
  PROVE  /\ p \in Speakers /\ call[p].id = 1 /\ Holding(p)
         /\ call[p].msg \in Message
         /\ SendErrno(call[p]) # "EAGAIN"
<1>1. /\ p \in Speakers /\ call[p].id = 1 /\ Holding(p)
  BY DEF DemoInv, PlaceInv, Placed, PcsAt, Holding, Looping
<1>2. call[p].msg \in Message
  BY CallByPc DEF DemoInv, InSend, SendCall
<1>3. queue[1] = <<>>
  BY <1>1 DEF DemoInv, TokenInv
<1>4. status[1] = "live" => Fits(1, call[p].msg.text)
  <2>1. call[p].msg.text \in Texts
    BY <1>2 DEF Message
  <2>2. Bytes(queue[1]) = 0 /\ Len(queue[1]) = 0
    BY <1>3, EmptyHasNoBytes
  <2>3. Size[call[p].msg.text] \in Nat
    BY <2>1, MessageQueueAssumption
  <2> QED
    BY <2>1, <2>2, <2>3 DEF Fits, RoomForOne, DemoInv, QueueInv
<1> QED
  BY <1>1, <1>2, <1>4 DEF SendErrno

LEMMA PutStep ==
  ASSUME DemoInv, NEW p \in Speakers, call[p].pc = "msgsnd", call[p].id = 1,
         Put(p), UNCHANGED demo
  PROVE  DemoInv'
<1>1. /\ p \in Threads /\ 1 \in Ids
  BY MessageQueueAssumption DEF Speakers, Ids
<1>2. /\ Holding(p) /\ at[p] \in {"send", "put_back"}
  BY <1>1 DEF DemoInv, PlaceInv, Placed, PcsAt, Holding
<1>3. /\ Begun /\ queue[1] = <<>> /\ call[p].msg.text = what_i_sent[lastSpeaker]
      /\ \A q \in Speakers \ {p} : ~Holding(q)
  BY <1>2 DEF DemoInv, TokenInv, Held, Speakers
<1>4. TypeOK'
  BY <1>1, PutType DEF DemoInv, InSend
<1>5. /\ queue'[1] = <<call[p].msg>>
      /\ UNCHANGED <<idOf, status, mode, qbytes, handle, buffer>>
  BY <1>1, <1>3 DEF Put, SentMessage, DemoInv, TypeOK
<1>6. call'[p] = Idle("ok", <<>>) /\ \A q \in Threads \ {p} : call'[q] = call[q]
  BY <1>1 DEF Put, Return, DemoInv, TypeOK
<1>7. OnlyOf(p) /\ UNCHANGED <<at, what_i_sent, i, iterations>>
  BY <1>5, <1>6 DEF OnlyOf, demo
<1>8. Placed(p)' /\ ~Holding(p)'
  <2>1. Placed(p)
    BY <1>1 DEF DemoInv, PlaceInv
  <2> QED
    BY <1>2, <1>5, <1>6, <1>7, <2>1 DEF Placed, PcsAt, Holding, Idle, Looping
<1>9. DemoTypeOK' /\ QueueInv' /\ TalkInv'
  BY <1>5, <1>7 DEF DemoInv, DemoTypeOK, QueueInv, TalkInv, Begun, lastSpeaker
<1>10. PlaceInv'
  BY <1>1, <1>7, <1>8, PlaceFrame DEF DemoInv
<1>11. TokenInv'
  <2>1. \A q \in Speakers : ~Holding(q)'
    BY <1>1, <1>3, <1>7, <1>8, OthersHold DEF Speakers
  <2>2. Begun' /\ lastSpeaker' = lastSpeaker
    BY <1>3, <1>7 DEF Begun, lastSpeaker
  <2>3. Len(queue'[1]) = 1 /\ queue'[1][1].text = what_i_sent'[lastSpeaker]
    BY <1>3, <1>5, <1>7
  <2> QED
    BY <2>1, <2>2, <2>3 DEF TokenInv, Speakers
<1> QED
  BY <1>4, <1>9, <1>10, <1>11 DEF DemoInv

LEMMA RemoveOnly ==
  ASSUME NEW S, NEW q \in Seq(S), Len(q) = 1
  PROVE  RemoveAt(q, 1) = <<>>
BY DEF RemoveAt

LEMMA GetStep ==
  ASSUME DemoInv, NEW p \in Threads, call[p].pc \in InReceive,
         NEW n \in DOMAIN queue[call[p].id], Get(p, n), UNCHANGED demo
  PROVE  DemoInv'
<1>1. /\ p \in Speakers /\ call[p].id = 1 /\ at[p] = "receive" /\ handle[p].id = 1
  BY DEF DemoInv, PlaceInv, Placed, PcsAt, InReceive, Looping
<1>2. 1 \in Ids /\ queue[1] \in Seq(Message)
  BY MessageQueueAssumption DEF Ids, DemoInv, TypeOK
<1>3. queue[1] # <<>> /\ n \in 1..Len(queue[1])
  BY <1>1, <1>2
<1>4. /\ Begun /\ Len(queue[1]) = 1 /\ n = 1
      /\ queue[1][1].text = what_i_sent[lastSpeaker]
  <2>1. /\ Begun /\ Len(queue[1]) = 1
        /\ queue[1][1].text = what_i_sent[lastSpeaker]
    BY <1>3 DEF DemoInv, TokenInv
  <2>2. n = 1
    BY <1>3, <2>1
  <2> QED
    BY <2>1, <2>2
<1>5. \A q \in Speakers : ~Holding(q)
  BY <1>3 DEF DemoInv, TokenInv
<1>6. CASE Fail(p, receive_error["E2BIG"])
  <2>1. receive_error["E2BIG"] \in Results \ {"ok"} /\ call[p].pc # "idle"
    BY DEF receive_error, Results, InReceive
  <2> QED
    BY <1>6, <2>1, CallFails
<1>7. CASE /\ queue' = [queue EXCEPT ![1] = RemoveAt(@, n)]
           /\ \/ call' = [call EXCEPT ![p] = Idle("ok", <<queue[1][1]>>)]
              \/ Return(p, "Memory")
           /\ UNCHANGED <<idOf, status, mode, qbytes, handle, buffer>>
  <2>1. TypeOK'
    BY GetType DEF DemoInv
  <2>2. queue'[1] = <<>>
    BY <1>2, <1>4, <1>7, RemoveOnly DEF DemoInv, TypeOK
  <2>3. /\ call'[p] = Idle("ok", <<queue[1][1]>>) \/ call'[p] = Idle("Memory", <<>>)
        /\ \A q \in Threads \ {p} : call'[q] = call[q]
    BY <1>7 DEF Return, DemoInv, TypeOK
  <2>4. OnlyOf(p) /\ UNCHANGED <<at, what_i_sent, i, iterations>>
    BY <1>7, <2>3 DEF OnlyOf, demo
  <2>5. Placed(p)'
    BY <1>1, <1>7, <2>3, <2>4 DEF Placed, PcsAt, Idle
  <2>6. Holding(p)' => Held(p)' = what_i_sent[lastSpeaker]
    BY <1>1, <1>4, <2>3, <2>4 DEF Holding, Held, Idle
  <2>7. DemoTypeOK' /\ QueueInv' /\ TalkInv'
    BY <1>7, <2>4 DEF DemoInv, DemoTypeOK, QueueInv, TalkInv, Begun, lastSpeaker
  <2>8. PlaceInv'
    BY <2>4, <2>5, PlaceFrame DEF DemoInv
  <2>9. TokenInv'
    <3>1. \A q \in Speakers \ {p} : ~Holding(q)'
      BY <1>5, <2>4, OthersHold DEF Speakers
    <3>2. Begun' /\ lastSpeaker' = lastSpeaker
      BY <1>4, <2>4 DEF Begun, lastSpeaker
    <3> QED
      BY <1>1, <2>2, <2>4, <2>6, <3>1, <3>2 DEF TokenInv, Speakers
  <2> QED
    BY <2>1, <2>7, <2>8, <2>9 DEF DemoInv
<1> QED
  BY <1>1, <1>4, <1>6, <1>7 DEF Get

LEMMA WaitStep ==
  ASSUME DemoInv, NEW p \in Threads, call[p].pc = "msgrcv", Wait(p, "rcvwait"), UNCHANGED demo
  PROVE  DemoInv'
<1>1. /\ p \in Speakers /\ call[p].id = 1 /\ at[p] = "receive" /\ handle[p].id = 1
  BY DEF DemoInv, PlaceInv, Placed, PcsAt, Looping
<1>2. TypeOK'
  BY WaitType DEF DemoInv, InReceive
<1>3. /\ call'[p].pc = "rcvwait" /\ call'[p].id = 1
      /\ \A q \in Threads \ {p} : call'[q] = call[q]
      /\ UNCHANGED <<kernel, handle, buffer>>
  <2>1. call[p] \in ReceiveCall
    BY CallByPc DEF DemoInv, InReceive
  <2> QED
    BY <1>1, <2>1 DEF Wait, DemoInv, TypeOK, ReceiveCall
<1>4. OnlyOf(p) /\ Stays /\ UNCHANGED at
  BY <1>3 DEF OnlyOf, Stays, demo
<1>5. Placed(p)' /\ ~Holding(p)'
  BY <1>1, <1>3, <1>4 DEF Placed, PcsAt, Holding
<1>6. Goto(p, "receive")
  BY <1>1, <1>4 DEF Goto, DemoInv, DemoTypeOK
<1>7. "receive" \in Statements \ {"start", "say"} /\ "receive" \in Looping
  BY DEF Statements, Looping
<1> QED
  BY <1>1, <1>2, <1>3, <1>4, <1>5, <1>6, <1>7, QuietStep

LEMMA ReceiveStep ==
  ASSUME DemoInv, NEW p \in Threads, call[p].pc \in InReceive,
         NEW goneErrno \in {"EINVAL", "EIDRM"}, Receive(p, goneErrno), UNCHANGED demo
  PROVE  DemoInv'
<1>1. CASE Fail(p, receive_error[goneErrno]) \/ Fail(p, receive_error["EACCES"])
  <2>1. receive_error[goneErrno] \in Errors /\ receive_error["EACCES"] \in Errors
    BY FailuresAreErrors DEF receive_error
  <2> QED
    BY <1>1, <2>1, CallFails DEF Errors, InReceive
<1>2. CASE \E n \in DOMAIN queue[call[p].id] : Get(p, n)
  BY <1>2, GetStep
<1> QED
  BY <1>1, <1>2 DEF Receive

LEMMA ProceedStep ==
  ASSUME RoomForOne, DemoInv, NEW p \in Threads, Proceed(p)
  PROVE  DemoInv'
<1>1. KernelStep(p) /\ UNCHANGED demo
  BY DEF Proceed
<1>2. CASE Msgsnd(p)
  <2>1. call[p].pc = "msgsnd"
    BY <1>2 DEF Msgsnd
  <2>2. p \in Speakers /\ call[p].id = 1 /\ SendErrno(call[p]) # "EAGAIN"
    BY <2>1, NeverFull
  <2>3. CASE Put(p)
    BY <1>1, <2>1, <2>2, <2>3, PutStep
  <2>4. CASE SendErrno(call[p]) # "none" /\ Fail(p, send_error[SendErrno(call[p])])
    <3>1. PICK e \in DOMAIN send_error : e = SendErrno(call[p])
      BY <2>4, SendErrnos
    <3>2. send_error[e] \in Results \ {"ok"}
      BY FailuresAreErrors DEF Errors
    <3> QED
      BY <1>1, <2>1, <2>4, <3>1, <3>2, CallFails
  <2> QED
    BY <1>2, <2>2, <2>3, <2>4 DEF Msgsnd
<1>3. CASE SendWakes(p)
  BY <1>3 DEF SendWakes, DemoInv, PlaceInv, Placed, PcsAt
<1>4. CASE Msgrcv(p)
  <2>1. call[p].pc = "msgrcv"
    BY <1>4 DEF Msgrcv
  <2>2. CASE Receive(p, "EINVAL")
    BY <1>1, <2>1, <2>2, ReceiveStep DEF InReceive
  <2>3. CASE Wait(p, "rcvwait")
    BY <1>1, <2>1, <2>3, WaitStep
  <2>4. CASE Fail(p, receive_error["ENOMSG"])
    <3>1. receive_error["ENOMSG"] \in Results \ {"ok"}
      BY DEF receive_error, Results
    <3> QED
      BY <1>1, <2>1, <2>4, <3>1, CallFails
  <2> QED
    BY <1>4, <2>2, <2>3, <2>4 DEF Msgrcv
<1>5. CASE ReceiveWakes(p)
  BY <1>1, <1>5, ReceiveStep DEF ReceiveWakes, InReceive
<1> QED
  BY <1>1, <1>2, <1>3, <1>4, <1>5 DEF KernelStep

LEMMA SignalStep ==
  ASSUME DemoInv, NEW p \in Threads, Signal(p)
  PROVE  DemoInv'
<1>1. call[p].pc # "idle" /\ Fail(p, "Error") /\ UNCHANGED demo
  BY DEF Signal, Interrupt, Waiting
<1>2. "Error" \in Results \ {"ok"}
  BY DEF Results
<1> QED
  BY <1>1, <1>2, CallFails

----------------------------------------------------------------------------
(* The message is not lost.                                                *)

\* A step of p that leaves the queue alone.
LEMMA KeptFrame ==
  ASSUME KeptInv, NEW p \in Threads, OnlyOf(p), UNCHANGED <<kernel, what_i_sent>>,
         p \in Speakers /\ Fine(p)' => Fine(p) /\ (Holding(p) => Holding(p)')
  PROVE  KeptInv'
<1> SUFFICES ASSUME (status[1] = "live")', Begun', \A q \in Speakers : Fine(q)'
             PROVE  Kept'
  BY DEF KeptInv
<1>1. \A q \in Speakers \ {p} : (Fine(q)' <=> Fine(q)) /\ (Holding(q)' <=> Holding(q))
  <2> TAKE q \in Speakers \ {p}
  <2>1. at'[q] = at[q] /\ call'[q] = call[q]
    BY DEF OnlyOf, Speakers
  <2> QED
    BY <2>1 DEF Fine, GoesOn, InLoop, Holding
<1>2. Kept
  BY <1>1 DEF KeptInv, Begun, kernel
<1>3. queue' = queue
  BY DEF kernel
<1> QED
  BY <1>1, <1>2, <1>3 DEF Kept

\* A call that fails leaves its caller no longer fine, unless that is at its
\* first statement.
LEMMA FailKept ==
  ASSUME DemoInv, KeptInv, NEW p \in Threads, NEW result \in Errors, Fail(p, result),
         UNCHANGED what_i_sent, \A q \in Threads \ {p} : at'[q] = at[q],
         at'[p] \in {"start", "make"} => at[p] = "start"
  PROVE  KeptInv'
<1>1. /\ call'[p] = Idle(result, <<>>)
      /\ \A q \in Threads \ {p} : call'[q] = call[q]
      /\ UNCHANGED <<kernel, handle, buffer>>
  BY FailOnly DEF DemoInv
<1>2. call'[p].pc = "idle" /\ call'[p].res # "ok"
  BY <1>1 DEF Idle, Errors
<1>3. OnlyOf(p)
  BY <1>1 DEF OnlyOf
<1>4. at[p] = "start" => Fine(p) /\ ~Holding(p)
  BY DEF Fine, Holding, DemoInv, PlaceInv, Placed, PcsAt
<1>5. Fine(p)' => at'[p] \in {"start", "make"}
  BY <1>2 DEF Fine, GoesOn
<1> QED
  BY <1>1, <1>3, <1>4, <1>5, KeptFrame

LEMMA MakeKept ==
  ASSUME DemoInv, KeptInv, NEW p \in Threads, Make(p)
  PROVE  KeptInv'
<1> DEFINE flags == IF p = Premise THEN CREX ELSE {}
<1>1. PICK max \in MaxSizes : MessageQueue_init(p, KEY, flags, {"r", "w"}, max)
  BY DEF Make
<1>2. at[p] = "start" /\ Goto(p, "make") /\ UNCHANGED what_i_sent
  BY DEF Make, Stays
<1>3. at'[p] = "make" /\ \A q \in Threads \ {p} : at'[q] = at[q]
  BY <1>2 DEF DemoInv, DemoTypeOK, Goto
<1>4. ASSUME NEW result \in Errors, Fail(p, result) PROVE KeptInv'
  BY <1>2, <1>3, <1>4, FailKept
<1>5. ToKeyT(KEY) = KEY /\ KEY # None
  BY KeyInRangeIsKept, KeysAssumption DEF KeyT
<1> DEFINE errno == MsggetErrno(KEY, flags, {"r", "w"})
<1>6. CASE Fail(p, "Type") \/ Fail(p, "Value")
  BY <1>4, <1>6 DEF Errors, Results
<1>7. CASE errno # "none" /\ Fail(p, init_error[errno])
  BY <1>4, <1>7, MsggetErrnos, FailuresAreErrors
<1>8. CASE Exists(KEY) /\ NewHandle(p, KEY, idOf[KEY], max) /\ UNCHANGED kernel
  <2>1. \A q \in Threads \ {p} : call'[q] = call[q] /\ handle'[q] = handle[q]
    BY <1>8, OwnProcess DEF NewHandle, Return, DemoInv, TypeOK, Call, Objects, Object
  <2>2. OnlyOf(p)
    BY <1>3, <2>1 DEF OnlyOf
  <2>3. Fine(p) /\ ~Holding(p)
    BY <1>2 DEF Fine, Holding, DemoInv, PlaceInv, Placed, PcsAt
  <2> QED
    BY <1>2, <1>8, <2>2, <2>3, KeptFrame
<1>9. ASSUME NEW id \in Ids, errno = "none", ~Exists(KEY),
             Allocate(KEY, id, {"r", "w"}), NewHandle(p, KEY, id, max)
      PROVE  KeptInv'
  <2>1. p = Premise
    BY <1>9 DEF MsggetErrno
  <2>2. ~Begun
    BY <1>2, <2>1 DEF DemoInv, TalkInv
  <2> QED
    BY <1>2, <2>2 DEF KeptInv, Begun
<1> QED
  BY <1>1, <1>5, <1>6, <1>7, <1>8, <1>9 DEF MessageQueue_init, Msgget

LEMMA SayKept ==
  ASSUME DemoInv, KeptInv, Begin \/ \E p \in Speakers : Reply(p)
  PROVE  KeptInv'
<1>1. PICK p \in Speakers : Goto(p, "say")
  BY DEF Begin, Reply, Say, Speakers
<1>2. Holding(p)'
  BY <1>1 DEF Goto, Holding, DemoInv, DemoTypeOK, Speakers
<1> QED
  BY <1>2 DEF KeptInv, Kept

\* send() is called by the program that has the message, which keeps it.
LEMMA SendKept ==
  ASSUME DemoInv, KeptInv, NEW p \in Speakers, Send(p) \/ PutBack(p)
  PROVE  KeptInv'
<1>1. p \in Threads /\ ProcOf[p] = p
  BY DEF Speakers
<1>2. /\ MessageQueue_send(p, 1, TRUE) /\ UNCHANGED what_i_sent
      /\ \E next \in {"send", "put_back"} : Goto(p, next)
  BY DEF Send, PutBack, Stays
<1>3. at'[p] \in {"send", "put_back"} /\ \A q \in Threads \ {p} : at'[q] = at[q]
  BY <1>1, <1>2 DEF Goto, DemoInv, DemoTypeOK
<1>4. CASE \E result \in {"Value", "Memory"} : Fail(p, result)
  BY <1>1, <1>2, <1>3, <1>4, FailKept DEF Errors, Results
<1>5. CASE ~(\E result \in {"Value", "Memory"} : Fail(p, result))
  <2> DEFINE h == handle[ProcOf[p]]
             c == [pc |-> "msgsnd", id |-> h.id, block |-> TRUE,
                   msg |-> [type |-> 1, text |-> buffer[ProcOf[p]], limit |-> h.max]]
  <2>1. call' = [call EXCEPT ![p] = c] /\ c.pc = "msgsnd"
    BY <1>2, <1>5 DEF MessageQueue_send
  <2>2. call'[p].pc = "msgsnd"
    BY <1>1, <2>1 DEF DemoInv, TypeOK
  <2>3. Holding(p)'
    BY <2>2 DEF Holding
  <2> QED
    BY <2>3 DEF KeptInv, Kept
<1> QED
  BY <1>4, <1>5

\* receive() is called by a program that does not have the message.
LEMMA ListenKept ==
  ASSUME DemoInv, KeptInv, NEW p \in Speakers, Listen(p)
  PROVE  KeptInv'
<1>1. p \in Threads /\ ProcOf[p] = p
  BY DEF Speakers
<1>2. /\ MessageQueue_receive(p, 0, TRUE) /\ Goto(p, "receive") /\ UNCHANGED what_i_sent
      /\ at[p] \in {"make", "send", "put_back"} /\ call[p].pc = "idle" /\ call[p].res = "ok"
  BY DEF Listen, Ended, Stays
<1>3. at'[p] = "receive" /\ \A q \in Threads \ {p} : at'[q] = at[q]
  BY <1>1, <1>2 DEF Goto, DemoInv, DemoTypeOK
<1>4. Fine(p) /\ ~Holding(p)
  BY <1>2 DEF Fine, GoesOn, InLoop, Holding
<1>5. CASE Fail(p, "Memory")
  BY <1>1, <1>2, <1>3, <1>5, FailKept DEF Errors, Results
<1>6. CASE ~Fail(p, "Memory")
  <2>1. /\ \E c : call' = [call EXCEPT ![p] = c]
        /\ UNCHANGED <<kernel, handle>>
    BY <1>2, <1>6 DEF MessageQueue_receive
  <2>2. OnlyOf(p)
    BY <1>1, <1>3, <2>1 DEF OnlyOf, DemoInv, TypeOK
  <2> QED
    BY <1>1, <1>2, <1>4, <2>1, <2>2, KeptFrame
<1> QED
  BY <1>5, <1>6

LEMMA EndKept ==
  ASSUME DemoInv, KeptInv, NEW p \in Threads, NEW how \in {"done", "raised", "alarm"},
         End(p, how)
  PROVE  KeptInv'
<1>1. ExitProcess(p) /\ Goto(p, how) /\ UNCHANGED what_i_sent
  BY DEF End, Stays
<1>2. /\ \A q \in Threads \ {p} : call'[q] = call[q] /\ handle'[q] = handle[q]
      /\ UNCHANGED kernel
  BY <1>1 DEF ExitProcess, DemoInv, TypeOK
<1>3. at'[p] = how /\ \A q \in Threads \ {p} : at'[q] = at[q]
  BY <1>1 DEF Goto, DemoInv, DemoTypeOK
<1>4. OnlyOf(p) /\ ~Fine(p)'
  BY <1>2, <1>3 DEF OnlyOf, Fine, GoesOn, InLoop
<1> QED
  BY <1>1, <1>2, <1>4, KeptFrame

LEMMA RemoveKept ==
  ASSUME DemoInv, KeptInv, NEW p \in Threads, RemoveQueue(p)
  PROVE  KeptInv'
<1>1. /\ mq_remove(p, 1) /\ Goto(p, "remove") /\ UNCHANGED what_i_sent
  BY DEF RemoveQueue, Ended, Stays, DemoInv, PlaceInv, Placed, Looping
<1>2. at'[p] = "remove" /\ \A q \in Threads \ {p} : at'[q] = at[q]
  BY <1>1 DEF Goto, DemoInv, DemoTypeOK
<1>3. CASE Fail(p, ctl_error["EINVAL"])
  <2>1. ctl_error["EINVAL"] \in Errors
    BY DEF ctl_error, Errors, Results
  <2> QED
    BY <1>1, <1>2, <1>3, <2>1, FailKept
<1>4. CASE status' = [status EXCEPT ![1] = "removed"]
  <2>1. 1 \in Ids
    BY MessageQueueAssumption DEF Ids
  <2>2. status'[1] # "live"
    BY <1>4, <2>1 DEF DemoInv, TypeOK
  <2> QED
    BY <2>2 DEF KeptInv
<1> QED
  BY <1>1, <1>3, <1>4 DEF mq_remove

\* A call under way fails, and so does its caller.
LEMMA CallFailsKept ==
  ASSUME DemoInv, KeptInv, NEW p \in Threads, call[p].pc # "idle",
         NEW result \in Errors, Fail(p, result), UNCHANGED demo
  PROVE  KeptInv'
<1>1. at[p] \notin {"start", "make"}
  BY DEF DemoInv, PlaceInv, Placed, PcsAt
<1>2. UNCHANGED <<at, what_i_sent>>
  BY DEF demo
<1> QED
  BY <1>1, <1>2, FailKept

\* The message goes from the program to the queue.
LEMMA PutKept ==
  ASSUME DemoInv, NEW p \in Speakers, call[p].id = 1, Put(p)
  PROVE  KeptInv'
<1>1. queue' = [queue EXCEPT ![1] = Append(@, SentMessage(p))] /\ 1 \in Ids
  BY MessageQueueAssumption DEF Put, Ids
<1>2. queue'[1] = Append(queue[1], SentMessage(p)) /\ queue[1] \in Seq(Message)
  BY <1>1 DEF DemoInv, TypeOK
<1>3. Len(queue'[1]) = Len(queue[1]) + 1 /\ Len(queue[1]) \in Nat
  BY <1>2
<1>4. queue'[1] # <<>>
  BY <1>3
<1> QED
  BY <1>4 DEF KeptInv, Kept

\* The message goes from the queue to the program, unless there is no memory
\* for it.
LEMMA GetKept ==
  ASSUME DemoInv, KeptInv, NEW p \in Threads, call[p].pc \in InReceive,
         NEW n, Get(p, n), UNCHANGED demo
  PROVE  KeptInv'
<1>1. p \in Speakers /\ at[p] = "receive" /\ at'[p] = "receive"
  BY DEF DemoInv, PlaceInv, Placed, PcsAt, InReceive, Looping, demo
<1>2. CASE Fail(p, receive_error["E2BIG"])
  BY <1>2, CallFailsKept DEF receive_error, Errors, Results, InReceive
<1>3. CASE \E got : call' = [call EXCEPT ![p] = Idle("ok", got)]
  <2>1. call'[p].pc = "idle" /\ call'[p].res = "ok"
    BY <1>3 DEF DemoInv, TypeOK, Idle
  <2>2. Holding(p)'
    BY <1>1, <2>1 DEF Holding
  <2> QED
    BY <1>1, <2>2 DEF KeptInv, Kept
<1>4. CASE Return(p, "Memory")
  <2>1. call'[p].pc = "idle" /\ call'[p].res = "Memory"
    BY <1>4 DEF Return, DemoInv, TypeOK, Idle
  <2>2. ~Fine(p)'
    BY <1>1, <2>1 DEF Fine, GoesOn
  <2> QED
    BY <1>1, <2>2 DEF KeptInv
<1> QED
  BY <1>2, <1>3, <1>4 DEF Get

LEMMA ReceiveKept ==
  ASSUME DemoInv, KeptInv, NEW p \in Threads, call[p].pc \in InReceive,
         NEW goneErrno \in {"EINVAL", "EIDRM"}, Receive(p, goneErrno), UNCHANGED demo
  PROVE  KeptInv'
<1>1. CASE Fail(p, receive_error[goneErrno]) \/ Fail(p, receive_error["EACCES"])
  <2>1. receive_error[goneErrno] \in Errors /\ receive_error["EACCES"] \in Errors
    BY FailuresAreErrors DEF receive_error
  <2> QED
    BY <1>1, <2>1, CallFailsKept DEF InReceive
<1>2. CASE \E n \in DOMAIN queue[call[p].id] : Get(p, n)
  BY <1>2, GetKept
<1> QED
  BY <1>1, <1>2 DEF Receive

LEMMA ProceedKept ==
  ASSUME RoomForOne, DemoInv, KeptInv, NEW p \in Threads, Proceed(p)
  PROVE  KeptInv'
<1>1. KernelStep(p) /\ UNCHANGED demo
  BY DEF Proceed
<1>2. CASE Msgsnd(p)
  <2>1. call[p].pc = "msgsnd"
    BY <1>2 DEF Msgsnd
  <2>2. p \in Speakers /\ call[p].id = 1 /\ SendErrno(call[p]) # "EAGAIN"
    BY <2>1, NeverFull
  <2>3. CASE Put(p)
    BY <2>2, <2>3, PutKept
  <2>4. CASE SendErrno(call[p]) # "none" /\ Fail(p, send_error[SendErrno(call[p])])
    <3>1. PICK e \in DOMAIN send_error : e = SendErrno(call[p])
      BY <2>4, SendErrnos
    <3>2. send_error[e] \in Errors
      BY FailuresAreErrors
    <3> QED
      BY <1>1, <2>1, <2>4, <3>1, <3>2, CallFailsKept
  <2> QED
    BY <1>2, <2>2, <2>3, <2>4 DEF Msgsnd
<1>3. CASE SendWakes(p)
  BY <1>3 DEF SendWakes, DemoInv, PlaceInv, Placed, PcsAt
<1>4. CASE Msgrcv(p)
  <2>1. call[p].pc = "msgrcv"
    BY <1>4 DEF Msgrcv
  <2>2. CASE Receive(p, "EINVAL")
    BY <1>1, <2>1, <2>2, ReceiveKept DEF InReceive
  <2>3. CASE Wait(p, "rcvwait")
    <3>1. /\ call'[p].pc = "rcvwait" /\ \A q \in Threads \ {p} : call'[q] = call[q]
          /\ UNCHANGED <<kernel, handle, at, what_i_sent>>
      <4>1. call[p] \in ReceiveCall
        BY <2>1, CallByPc DEF DemoInv, InReceive
      <4> QED
        BY <1>1, <2>3, <4>1 DEF Wait, DemoInv, TypeOK, ReceiveCall, demo
    <3>2. OnlyOf(p) /\ (Fine(p)' => Fine(p))
      BY <2>1, <3>1 DEF OnlyOf, Fine, GoesOn, InLoop
    <3>3. ~Holding(p)
      BY <2>1 DEF Holding, DemoInv, PlaceInv, Placed, PcsAt
    <3> QED
      BY <3>1, <3>2, <3>3, KeptFrame
  <2>4. CASE Fail(p, receive_error["ENOMSG"])
    <3>1. receive_error["ENOMSG"] \in Errors
      BY DEF receive_error, Errors, Results
    <3> QED
      BY <1>1, <2>1, <2>4, <3>1, CallFailsKept
  <2> QED
    BY <1>4, <2>2, <2>3, <2>4 DEF Msgrcv
<1>5. CASE ReceiveWakes(p)
  BY <1>1, <1>5, ReceiveKept DEF ReceiveWakes, InReceive
<1> QED
  BY <1>1, <1>2, <1>3, <1>4, <1>5 DEF KernelStep

LEMMA KeptStep ==
  ASSUME RoomForOne, DemoInv, KeptInv, [DemoNext]_demoVars
  PROVE  KeptInv'
<1>1. CASE UNCHANGED demoVars
  <2>1. UNCHANGED <<status, queue, call, at, what_i_sent>>
    BY <1>1 DEF demoVars, vars, demo
  <2> QED
    BY <2>1 DEF KeptInv, Kept, Fine, GoesOn, InLoop, Holding, Begun
<1>2. ASSUME NEW p \in Speakers,
             Begin \/ Reply(p) \/ Send(p) \/ PutBack(p) \/ Listen(p)
      PROVE  KeptInv'
  BY <1>2, SayKept, SendKept, ListenKept
<1>3. ASSUME NEW p \in Threads, Alarm(p) \/ Finish(p) \/ Raise(p) PROVE KeptInv'
  BY <1>3, EndKept DEF Alarm, Finish, Raise
<1>4. ASSUME NEW p \in Threads, Signal(p) PROVE KeptInv'
  <2>1. call[p].pc # "idle" /\ Fail(p, "Error") /\ UNCHANGED demo
    BY <1>4 DEF Signal, Interrupt, Waiting
  <2> QED
    BY <2>1, CallFailsKept DEF Errors, Results
<1>5. ASSUME NEW p \in Threads, Make(p) \/ RemoveQueue(p) \/ Proceed(p) PROVE KeptInv'
  BY <1>5, MakeKept, RemoveKept, ProceedKept
<1>6. Speakers \subseteq Threads /\ Premise \in Speakers
  BY DEF Speakers
<1> QED
  BY <1>1, <1>2, <1>3, <1>4, <1>5, <1>6 DEF DemoNext, Statement

----------------------------------------------------------------------------
(* Theorems.                                                               *)

LEMMA DemoInitInv == DemoInit => DemoInv
<1> SUFFICES ASSUME DemoInit PROVE DemoInv
  OBVIOUS
<1>1. /\ Init /\ buffer = [p \in Procs |-> 0]
      /\ at = [p \in Threads |-> "start"]
      /\ what_i_sent = [p \in Speakers |-> Blank]
      /\ i = [p \in Speakers |-> 0]
      /\ iterations \in ITERATIONS
  BY DEF DemoInit
<1>2. TypeOK
  BY <1>1, InitialType
<1>3. DemoTypeOK
  BY <1>1 DEF DemoTypeOK, Statements, Blank
<1>4. \A p \in Threads : call[p] = Idle("none", <<>>) /\ at[p] = "start"
  BY <1>1 DEF Init
<1>5. PlaceInv
  BY <1>4 DEF PlaceInv, Placed, PcsAt, Idle, Looping
<1>6. 1 \in Ids
  BY MessageQueueAssumption DEF Ids
<1>7. QueueInv
  BY <1>1, <1>6 DEF QueueInv, Init, NoId
<1>8. TalkInv
  BY <1>1, <1>4 DEF TalkInv, Begun, Blank, Looping, Speakers
<1>9. TokenInv
  BY <1>1, <1>4, <1>6 DEF TokenInv, Holding, Idle, Init, Speakers
<1> QED
  BY <1>2, <1>3, <1>5, <1>7, <1>8, <1>9 DEF DemoInv

\* What a step is to the conversation.
Saying ==
  IF what_i_sent[Premise] = Blank THEN [by |-> Conclusion]
  ELSE [by |-> lastSpeaker, text |-> what_i_sent[lastSpeaker]]

LEMMA DemoStep ==
  ASSUME RoomForOne, DemoInv, [DemoNext]_demoVars
  PROVE  /\ DemoInv'
         /\ \/ UNCHANGED <<what_i_sent, i>>
            \/ Begin
            \/ \E p \in Speakers : Reply(p)
<1>1. CASE UNCHANGED demoVars
  <2>1. UNCHANGED <<idOf, status, mode, qbytes, queue, handle, buffer, call,
                    at, what_i_sent, i, iterations>>
    BY <1>1 DEF demoVars, vars, demo
  <2>2. TypeOK' /\ DemoTypeOK' /\ PlaceInv' /\ QueueInv'
    BY <2>1 DEF DemoInv, TypeOK, DemoTypeOK, PlaceInv, Placed, QueueInv
  <2>3. TalkInv' /\ TokenInv'
    BY <2>1 DEF DemoInv, TalkInv, TokenInv, Begun, Holding, Held, lastSpeaker
  <2> QED
    BY <2>1, <2>2, <2>3 DEF DemoInv
<1>2. ASSUME NEW p \in Threads, Make(p) PROVE DemoInv' /\ Stays
  BY <1>2, MakeStep DEF Make
<1>3. ASSUME NEW p \in Speakers, Send(p) \/ Listen(p) \/ PutBack(p) \/ Alarm(p)
      PROVE DemoInv' /\ Stays
  <2>1. DemoInv'
    BY <1>3, SendStep, ListenStep, AlarmStep
  <2>2. Stays
    BY <1>3 DEF Send, Listen, PutBack, Alarm, End
  <2> QED
    BY <2>1, <2>2
<1>4. ASSUME NEW p \in Threads, RemoveQueue(p) PROVE DemoInv' /\ Stays
  BY <1>4, RemoveStep DEF RemoveQueue
<1>5. ASSUME NEW p \in Threads, Finish(p) \/ Raise(p) PROVE DemoInv' /\ Stays
  BY <1>5, EndStep DEF Finish, Raise, End
<1>6. ASSUME NEW p \in Threads, Proceed(p) \/ Signal(p)
      PROVE DemoInv' /\ UNCHANGED <<what_i_sent, i>>
  BY <1>6, ProceedStep, SignalStep DEF Proceed, Signal, demo
<1>7. CASE DemoNext
  BY <1>2, <1>3, <1>4, <1>5, <1>6, <1>7, BeginStep, ReplyStep
     DEF DemoNext, Statement, Stays
<1> QED
  BY <1>1, <1>7

LEMMA DemoInvHolds == ASSUME RoomForOne PROVE DemoSpec => []DemoInv
<1>1. DemoInv /\ [DemoNext]_demoVars => DemoInv'
  BY DemoStep
<1> QED
  BY <1>1, DemoInitInv, PTL DEF DemoSpec

\* If one message fits on the queue, neither program of demos/message_queues
\* ever waits to send, however many signals, errors and removals there are:
\* the two cannot wait for each other.
THEOREM NeverWaits == ASSUME RoomForOne PROVE DemoSpec => []NobodyWaitsToSend
<1>1. DemoInv => NobodyWaitsToSend
  BY DEF DemoInv, PlaceInv, Placed, PcsAt, NobodyWaitsToSend
<1> QED
  BY <1>1, DemoInvHolds, PTL

\* What a program receives is what it sent or the digest of that, and
\* premise.py does not say otherwise.
MessagesAreRight ==
  /\ \A p \in Speakers, s \in Texts :
       Received(p, s) /\ what_i_sent[p] # Blank =>
         s \in {what_i_sent[p], md5[what_i_sent[p]]}
  /\ at[Premise] # "alarm"

\* The assertions (premise.py:46, conclusion.py:37): that of premise.py never
\* fails; that of conclusion.py does, but no message is ever corrupt.
THEOREM MessagesCorrect == ASSUME RoomForOne PROVE DemoSpec => []MessagesAreRight
<1>1. DemoInv => MessagesAreRight
  <2> SUFFICES ASSUME DemoInv PROVE MessagesAreRight
    OBVIOUS
  <2>1. at[Premise] # "alarm"
    BY DEF DemoInv, PlaceInv, Placed
  <2>2. ASSUME NEW p \in Speakers, NEW s \in Texts, Received(p, s), what_i_sent[p] # Blank
        PROVE  s \in {what_i_sent[p], md5[what_i_sent[p]]}
    <3>1. Begun /\ s = what_i_sent[lastSpeaker]
      BY <2>2, ReceivedLast
    <3>2. /\ i[Premise] \in Nat /\ i[Conclusion] \in Nat
          /\ what_i_sent[Conclusion] = 2 * i[Conclusion] - 1
          /\ what_i_sent[Premise] = 2 * i[Premise]
          /\ i[Premise] <= i[Conclusion] /\ i[Conclusion] <= i[Premise] + 1
      BY <3>1 DEF DemoInv, DemoTypeOK, TalkInv, Speakers
    <3>3. CASE p = lastSpeaker
      BY <3>1, <3>3
    <3>4. CASE p = Premise /\ lastSpeaker = Conclusion
      <4>1. i[Conclusion] = i[Premise] + 1
        BY <3>2, <3>4 DEF lastSpeaker
      <4>2. s = what_i_sent[Premise] + 1 /\ what_i_sent[Premise] \in Int
        BY <3>1, <3>2, <3>4, <4>1
      <4> QED
        BY <3>4, <4>2 DEF md5
    <3>5. CASE p = Conclusion /\ lastSpeaker = Premise
      <4>1. i[Conclusion] = i[Premise]
        BY <3>2, <3>5 DEF lastSpeaker
      <4>2. s = what_i_sent[Conclusion] + 1 /\ what_i_sent[Conclusion] \in Int
        BY <3>1, <3>2, <3>5, <4>1
      <4> QED
        BY <3>5, <4>2 DEF md5
    <3> QED
      BY <3>3, <3>4, <3>5 DEF lastSpeaker, Speakers
  <2> QED
    BY <2>1, <2>2 DEF MessagesAreRight
<1> QED
  BY <1>1, DemoInvHolds, PTL

\* While both programs of demos/message_queues are in their loops, no call of
\* either has failed and the queue is there, there is exactly one message, on
\* the queue or with one of them.
THEOREM OneMessageHolds == ASSUME RoomForOne PROVE DemoSpec => []OneMessage
<1>1. DemoInit => KeptInv
  BY DEF DemoInit, KeptInv, Begun, Speakers
<1>2. DemoInv /\ KeptInv /\ [DemoNext]_demoVars => KeptInv'
  BY KeptStep
<1>3. DemoSpec => []KeptInv
  BY <1>1, <1>2, DemoInvHolds, PTL DEF DemoSpec
<1>4. DemoInv /\ KeptInv => OneMessage
  <2> SUFFICES ASSUME DemoInv, KeptInv,
                      \A p \in Speakers : GoesOn(p) /\ status[handle[p].id] = "live"
               PROVE  \A p \in Speakers :
                        Len(queue[handle[p].id]) + InHands(Premise) + InHands(Conclusion) = 1
    BY DEF OneMessage
  <2>1. \A p \in Speakers : handle[p].id = 1 /\ at[p] \in Looping
    BY DEF GoesOn, InLoop, DemoInv, PlaceInv, Placed, Looping, Speakers
  <2>2. Begun /\ Premise \in Speakers /\ Conclusion \in Speakers
    BY <2>1 DEF DemoInv, TalkInv, Speakers
  <2>3. Kept
    BY <2>1, <2>2 DEF KeptInv, Fine
  <2>4. Len(queue[1]) + InHands(Premise) + InHands(Conclusion) = 1
    <3>1. CASE queue[1] # <<>>
      <4>1. Len(queue[1]) = 1 /\ ~Holding(Premise) /\ ~Holding(Conclusion)
        BY <2>2, <3>1 DEF DemoInv, TokenInv
      <4> QED
        BY <4>1 DEF InHands
    <3>2. CASE queue[1] = <<>>
      <4>1. Holding(Premise) \/ Holding(Conclusion)
        BY <2>3, <3>2 DEF Kept, Speakers
      <4>2. ~(Holding(Premise) /\ Holding(Conclusion))
        BY DEF DemoInv, TokenInv
      <4>3. InHands(Premise) + InHands(Conclusion) = 1 /\ InHands(Premise) \in {0, 1}
            /\ InHands(Conclusion) \in {0, 1}
        BY <4>1, <4>2 DEF InHands
      <4> QED
        BY <3>2, <4>3
    <3> QED
      BY <3>1, <3>2
  <2> QED
    BY <2>1, <2>4
<1> QED
  BY <1>3, <1>4, DemoInvHolds, PTL

LEMMA SayingStep ==
  ASSUME RoomForOne, DemoInv, [DemoNext]_demoVars
  PROVE  [TheConversation!ConversationNext]_Saying
<1>1. CASE UNCHANGED <<what_i_sent, i>>
  BY <1>1 DEF Saying, lastSpeaker
<1>2. CASE Begin
  <2>1. ~Begun /\ Begun' /\ lastSpeaker' = Premise
    BY <1>2, BeginStep
  <2>2. what_i_sent'[Premise] = 0
    BY <1>2 DEF Begin, Say, DemoInv, DemoTypeOK, Speakers
  <2>3. Saying = [by |-> Conclusion]
    BY <2>1 DEF Saying, Begun
  <2>4. Saying' = [by |-> Premise, text |-> 0]
    BY <2>1, <2>2 DEF Saying, Begun
  <2> QED
    BY <2>3, <2>4 DEF TheConversation!ConversationNext, TheConversation!Open,
       TheConversation!Silence, Saying
<1>3. ASSUME NEW p \in Speakers, Reply(p) PROVE TheConversation!ConversationNext
  <2>1. /\ Begun /\ Begun' /\ lastSpeaker # p /\ lastSpeaker' = p
        /\ what_i_sent'[p] = md5[what_i_sent[lastSpeaker]]
    BY <1>3, ReplyStep
  <2>2. Saying = [by |-> lastSpeaker, text |-> what_i_sent[lastSpeaker]]
    BY <2>1 DEF Saying, Begun
  <2>3. Saying' = [by |-> p, text |-> md5[what_i_sent[lastSpeaker]]]
    BY <2>1 DEF Saying, Begun
  <2>4. Saying # [by |-> Conclusion]
    <3>1. DOMAIN Saying = {"by", "text"}
      BY <2>2
    <3>2. DOMAIN [by |-> Conclusion] = {"by"}
      OBVIOUS
    <3> QED
      BY <3>1, <3>2
  <2>5. Saying.by # p /\ Saying.text = what_i_sent[lastSpeaker]
    BY <2>1, <2>2
  <2> QED
    BY <2>3, <2>4, <2>5 DEF TheConversation!ConversationNext, TheConversation!Answer,
       TheConversation!Silence, Saying, Speakers
<1> QED
  BY <1>1, <1>2, <1>3, DemoStep

\* As far as the programs of demos/message_queues come, they have the
\* conversation ReadMe.txt describes.
THEOREM QueueConversationHolds ==
  ASSUME RoomForOne PROVE DemoSpec => ImplementsConversation
<1>1. DemoInit => Saying = [by |-> Conclusion]
  BY DEF DemoInit, Saying, Speakers
<1>2. DemoInv /\ [DemoNext]_demoVars => [TheConversation!ConversationNext]_Saying
  BY SayingStep
<1>3. DemoSpec => Saying = [by |-> Conclusion] /\ [][TheConversation!ConversationNext]_Saying
  BY <1>1, <1>2, DemoInvHolds, PTL DEF DemoSpec
<1> QED
  BY <1>3 DEF ImplementsConversation, TheConversation!ConversationSpec,
     TheConversation!Silence, Saying

=============================================================================
