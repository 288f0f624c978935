-------------------------------- MODULE MqDemo --------------------------------
(***************************************************************************)
(* The programs of demos/message_queues: premise.py and conclusion.py talk *)
(* over one queue that knows no addressee, so each may receive what it has *)
(* sent itself and puts that back; cleanup.py may remove the queue at any  *)
(* time.  Every call is a whole action of module MessageQueue.  A text is  *)
(* a number, and what md5 makes of it the next one.                        *)
(***************************************************************************)
EXTENDS MessageQueue

CONSTANTS
  Premise, Conclusion, Cleanup,   \* the programs, each with one thread
  KEY, ITERATIONS                 \* params.txt: the key; what users set there

ASSUME DemoAssumption ==
  /\ Threads = {Premise, Conclusion, Cleanup} /\ Procs = Threads
  /\ Premise # Conclusion /\ Premise # Cleanup /\ Conclusion # Cleanup
  /\ ProcOf = [t \in Threads |-> t]
  /\ KEY \in KeyT /\ KEY # IPC_PRIVATE
  /\ ITERATIONS \subseteq Nat \ {0}
  /\ \A n \in ITERATIONS : 0..2 * n \subseteq Texts
  /\ 1 \in Types /\ 0 \in Wants /\ {"r", "w"} \in Modes

VARIABLES
  at,           \* the statement each program executes or has just executed
  what_i_sent,  \* by program; Blank is conclusion.py's ""
  i,            \* the loop counter of each
  iterations    \* params["ITERATIONS"]

demo     == <<at, what_i_sent, i, iterations>>
demoVars == <<vars, demo>>

Speakers == {Premise, Conclusion}
Blank    == -1
md5      == [text \in Int |-> text + 1]

Goto(p, statement) == at' = [at EXCEPT ![p] = statement]

\* The call of this statement has come back.
Ended(p, statement) == at[p] = statement /\ call[p].pc = "idle" /\ call[p].res = "ok"

Stays == UNCHANGED <<what_i_sent, i, iterations>>

----------------------------------------------------------------------------
(* The statements.                                                         *)

\* mq = sysv_ipc.MessageQueue(...)
Make(p) ==
  /\ at[p] = "start"
  /\ \E max \in MaxSizes :
       MessageQueue_init(p, KEY, IF p = Premise THEN CREX ELSE {}, {"r", "w"}, max)
  /\ Goto(p, "make") /\ Stays

\* What p says next: the text is put into bytes, and sent.
Say(p, text) ==
  /\ Rewrite(p, text) /\ Goto(p, "say")
  /\ what_i_sent' = [what_i_sent EXCEPT ![p] = text] /\ UNCHANGED iterations

\* Variant of Begin: conclusion.py begins with a message, too.
BeginBoth == (\E p \in Speakers : Ended(p, "make") /\ Say(p, 0)) /\ UNCHANGED i

\* s = time.asctime()
Begin == Ended(Premise, "make") /\ Say(Premise, 0) /\ UNCHANGED i

Send(p) ==
  at[p] = "say" /\ MessageQueue_send(p, 1, TRUE) /\ Goto(p, "send") /\ Stays

\* s, _ = mq.receive()
Listen(p) ==
  /\ \/ p = Conclusion /\ Ended(p, "make")
     \/ Ended(p, "send") /\ i[p] < iterations
     \/ Ended(p, "put_back")
  /\ MessageQueue_receive(p, 0, TRUE) /\ Goto(p, "receive") /\ Stays

Received(p, s) == Ended(p, "receive") /\ call[p].got[1].text = s

\* Variant of PutBack: a message of one's own is dropped.
PutBackNothing(p) ==
  /\ Received(p, what_i_sent[p])
  /\ MessageQueue_receive(p, 0, TRUE) /\ Goto(p, "receive") /\ Stays

\* while s == what_i_sent: mq.send(s)
PutBack(p) ==
  /\ Received(p, what_i_sent[p])
  /\ MessageQueue_send(p, 1, TRUE) /\ Goto(p, "put_back") /\ Stays

\* The assertions.  That of conclusion.py compares s + 'x', which is longer
\* than any digest.
Passes(p, s) ==
  IF p = Premise THEN s = md5[what_i_sent[p]] ELSE what_i_sent[p] = Blank

\* Variant of Reply: the message is sent back as it is.
ReplyEchoes(p) ==
  \E s \in Texts :
    /\ Received(p, s) /\ s # what_i_sent[p] /\ Passes(p, s)
    /\ Say(p, s) /\ i' = [i EXCEPT ![p] = @ + 1]

\* s = hashlib.md5(s.encode()).hexdigest()
Reply(p) ==
  \E s \in Texts :
    /\ Received(p, s) /\ s # what_i_sent[p] /\ Passes(p, s)
    /\ Say(p, md5[s]) /\ i' = [i EXCEPT ![p] = @ + 1]

End(p, how) == ExitProcess(p) /\ Goto(p, how) /\ Stays

\* raise AssertionError(f"Message corruption after {i} iterations.")
Alarm(p) ==
  \E s \in Texts :
    Received(p, s) /\ s # what_i_sent[p] /\ ~Passes(p, s) /\ End(p, "alarm")

\* mq.remove()
RemoveQueue(p) ==
  /\ \/ p = Premise /\ Ended(p, "send") /\ i[p] = iterations
     \/ p = Cleanup /\ Ended(p, "make")
  /\ mq_remove(p, handle[p].id) /\ Goto(p, "remove") /\ Stays

Finish(p) ==
  /\ \/ Ended(p, "remove")
     \/ p = Conclusion /\ Ended(p, "send") /\ i[p] = iterations
  /\ End(p, "done")

\* A call has raised an exception that nobody catches, or cleanup.py finds no
\* queue.
Raise(p) ==
  /\ at[p] \notin {"start", "alarm", "done", "raised"}
  /\ call[p].pc = "idle" /\ call[p].res \notin {"none", "ok"}
  /\ End(p, "raised")

Statement(p) ==
  \/ p = Premise /\ Begin
  \/ p \in Speakers /\ (Send(p) \/ Listen(p) \/ PutBack(p) \/ Reply(p) \/ Alarm(p))
  \/ RemoveQueue(p) \/ Finish(p) \/ Raise(p)

Proceed(p) == KernelStep(p) /\ UNCHANGED demo

Signal(p) == Interrupt(p) /\ UNCHANGED demo

DemoInit ==
  /\ Init /\ buffer = [p \in Procs |-> 0]
  /\ at = [p \in Threads |-> "start"]
  /\ what_i_sent = [p \in Speakers |-> Blank]
  /\ i = [p \in Speakers |-> 0]
  /\ iterations \in ITERATIONS

DemoNext == \E p \in Threads : Make(p) \/ Statement(p) \/ Proceed(p) \/ Signal(p)

DemoSpec == DemoInit /\ [][DemoNext]_demoVars

\* Nobody need start a program.  The kernel hands a message to whoever has
\* waited for it, so a receive() that is put off again and again gets one.
FairDemoSpec ==
  /\ DemoSpec
  /\ \A p \in Threads : WF_demoVars(Statement(p)) /\ SF_demoVars(Proceed(p))

----------------------------------------------------------------------------
(* Properties.                                                             *)

\* With room for one message only, nobody ever waits to send: there is never
\* more than the one, on the queue or in the hands of a program.
NobodyWaitsToSend == \A p \in Threads : call[p].pc # "sndwait"

\* ReadMe.txt: the programs never find their messages corrupted.  The second
\* message Mrs. Conclusion receives she says is corrupted (conclusion.py:37).
NoCorruption == \A p \in Speakers : at[p] # "alarm"

lastSpeaker == IF i[Conclusion] > i[Premise] THEN Conclusion ELSE Premise

\* The programs have the conversation ReadMe.txt describes, as far as they
\* come: through send and receive by either in any order, signals, removal.
TheConversation == INSTANCE Conversation WITH
  First <- Premise, Second <- Conclusion, opening <- 0, digest <- md5,
  said <- IF what_i_sent[Premise] = Blank THEN [by |-> Conclusion]
          ELSE [by |-> lastSpeaker, text |-> what_i_sent[lastSpeaker]]

ImplementsConversation == TheConversation!ConversationSpec

InLoop(p) == at[p] \in {"say", "send", "receive", "put_back"}

\* p has the message: it is to send it, is sending it, or has just received it.
Holding(p) ==
  \/ at[p] = "say"
  \/ call[p].pc = "msgsnd"
  \/ at[p] = "receive" /\ call[p].pc = "idle" /\ call[p].res = "ok"

InHands(p) == IF Holding(p) THEN 1 ELSE 0

\* In its loop, and no call has failed.
GoesOn(p) == InLoop(p) /\ (call[p].pc # "idle" \/ call[p].res = "ok")

\* While both programs are in their loops there is one message, on the queue
\* or in the hands of one of them: it is never lost, so the two never both
\* wait for it, and never doubled, whoever takes it and puts it back how often
\* (premise.py:29-40, conclusion.py:22-32).
OneMessage ==
  (\A p \in Speakers : GoesOn(p) /\ status[handle[p].id] = "live") =>
    \A p \in Speakers :
      Len(queue[handle[p].id]) + InHands(Premise) + InHands(Conclusion) = 1

\* Two programs that take back their own messages time and again still get
\* the other's: as long as both are in their loops, both go on.
ConversationGoesOn ==
  \A p \in Speakers, n \in 0..4 :
    (\A q \in Speakers : InLoop(q)) /\ i[p] = n
       ~> i[p] # n \/ \E q \in Speakers : ~InLoop(q)

\* Once the queue is gone, whoever has removed it, a program that has opened it
\* ends, wherever in its loop it is: about to send, about to receive, or in a
\* receive() that waits (the exceptions of send() and receive(), cleanup.py).
RemovalEndsPrograms ==
  \A p \in Speakers :
    handle[p].id # NoId /\ status[handle[p].id] = "removed"
      ~> at[p] \in {"alarm", "done", "raised"}

=============================================================================
