------------------------------ MODULE SemShmDemo ------------------------------
(***************************************************************************)
(* The programs of demos/sem_and_shm: Mrs. Premise and Mrs. Conclusion,    *)
(* each in Python or in C, talk through one shared memory segment and take *)
(* turns at it with a semaphore.  A text is copied in two halves, so one   *)
(* that is read while it is written is torn.  md5 makes of text n text     *)
(* n + 1; what comes of a torn one is negative.                            *)
(***************************************************************************)
EXTENDS Integers

CONSTANTS
  Premise, Conclusion,   \* the programs
  ITERATIONS,            \* what users write into params.txt: how many,
  LIVE_DANGEROUSLY,      \* and whether to do without the semaphore
  Interrupted            \* languages of programs that get signals

ASSUME SemShmAssumption ==
  /\ Premise # Conclusion
  /\ ITERATIONS \subseteq Nat \ {0}
  /\ LIVE_DANGEROUSLY \subseteq BOOLEAN
  /\ Interrupted \subseteq {"C", "Python"}

VARIABLES
  made,        \* of "semaphore" and "memory": "none", "live" or "removed"
  value,       \* the value of the semaphore
  memory,      \* the halves of the text in the segment
  language,    \* of each program
  at,          \* the statement each executes
  copied,      \* how many halves it has copied so far, to or from the segment
  s,           \* what it has read
  i,           \* its loop counter
  last,        \* what_i_wrote, last_message_i_wrote
  alarmed,     \* the programs that have found a message corrupt
  params       \* what both have read from params.txt

vars ==
  <<made, value, memory, language, at, copied, s, i, last, alarmed, params>>

Programs == {Premise, Conclusion}

Halves  == 1..2
Text(n) == [half \in Halves |-> n]
Empty   == Text(0)
Opening == Text(1)

md5 == [text \in [Halves -> Int] |->
          IF text[1] # text[2] THEN Text(-1)
          ELSE IF text[1] < 0 THEN Text(text[1] - 1) ELSE Text(text[1] + 1)]

Goto(p, statement) == at' = [at EXCEPT ![p] = statement]

OnlyGoto(p, statement) ==
  /\ Goto(p, statement)
  /\ UNCHANGED <<made, value, memory, language, copied, s, i, last, alarmed, params>>

----------------------------------------------------------------------------
(* The constructors.                                                       *)

\* Variant of InitialValue: the semaphore is free from the beginning.
InitialValueFree == 1

\* Of a new semaphore: initial_value of the class, and what Linux gives semget.
InitialValue == 0

MadeFirst(p) ==
  IF p = Premise /\ language[p] = "C" THEN "memory" ELSE "semaphore"

MadeSecond(p) == CHOOSE object \in {"semaphore", "memory"} : object # MadeFirst(p)

\* Premise, with IPC_CREX.  The statement after the second constructor writes
\* the opening.
Create(object, next) ==
  /\ made[object] = "none"
  /\ made' = [made EXCEPT ![object] = "live"]
  /\ value' = IF object = "semaphore" THEN InitialValue ELSE value
  /\ Goto(Premise, next)
  /\ UNCHANGED <<memory, language, copied, s, i, last, alarmed, params>>

\* Conclusion, which ends if it finds none, and may be started again.
Open(object, next) ==
  OnlyGoto(Conclusion, IF made[object] = "live" THEN next ELSE "start")

Make(p) ==
  \/ at[p] = "start" /\ IF p = Premise THEN Create(MadeFirst(p), "second")
                                       ELSE Open(MadeFirst(p), "second")
  \/ at[p] = "second" /\ IF p = Premise THEN Create(MadeSecond(p), "begin")
                                        ELSE Open(MadeSecond(p), "acquire")

----------------------------------------------------------------------------
(* The semaphore.                                                          *)

IsLive == made["semaphore"] = "live"
Skips  == params.live_dangerously

\* semop fails: the Python class raises an exception, which ends the program;
\* utils.c says so and returns 0 all the same.
Failed(p, next) == OnlyGoto(p, IF language[p] = "C" THEN next ELSE "raised")

Semop(p, delta, next) ==
  /\ value' = value + delta /\ Goto(p, next)
  /\ UNCHANGED <<made, memory, language, copied, s, i, last, alarmed, params>>

release_semaphore(p, next) ==
  \/ Skips /\ OnlyGoto(p, next)
  \/ ~Skips /\ IsLive /\ Semop(p, 1, next)
  \/ ~Skips /\ ~IsLive /\ Failed(p, next)

acquire_semaphore(p, next) ==
  \/ Skips /\ OnlyGoto(p, next)
  \/ ~Skips /\ IsLive /\ value > 0 /\ Semop(p, -1, next)
  \/ ~Skips /\ ~IsLive /\ Failed(p, next)

\* Variant of Finished: Premise stops one message early.
FinishedEarly(p) == i[p] = IF p = Premise THEN params.iterations - 1 ELSE params.iterations

Finished(p) == i[p] = params.iterations

Release(p) ==
  /\ at[p] = "release"
  /\ release_semaphore(p,
       IF p = Conclusion /\ (Finished(p) \/ p \in alarmed) THEN "done" ELSE "acquire")

AfterAcquire == [acquire |-> "poll", last_acquire |-> "remove_memory"]

Acquire(p) ==
  at[p] \in DOMAIN AfterAcquire /\ acquire_semaphore(p, AfterAcquire[at[p]])

\* EINTR, while the semaphore is not to be had.
Interrupt(p) ==
  /\ at[p] \in DOMAIN AfterAcquire /\ language[p] \in Interrupted
  /\ ~Skips /\ IsLive /\ value = 0
  /\ Failed(p, AfterAcquire[at[p]])

----------------------------------------------------------------------------
(* The memory.                                                             *)

ReadHalf(p) ==
  LET half == copied[p] + 1 IN
  /\ at[p] \in {"poll", "check", "answer"} /\ copied[p] < 2
  /\ copied' = [copied EXCEPT ![p] = half]
  /\ s' = [s EXCEPT ![p] = [@ EXCEPT ![half] = memory[half]]]
  /\ UNCHANGED <<made, value, memory, language, at, i, last, alarmed, params>>

HasRead(p, statement) == at[p] = statement /\ copied[p] = 2

\* What p has read is of no more use.
Forget(p, statement) ==
  /\ copied' = [copied EXCEPT ![p] = 0] /\ s' = [s EXCEPT ![p] = Empty]
  /\ Goto(p, statement)
  /\ UNCHANGED <<made, value, memory, language, params>>

\* while s == what_i_wrote
Again(p) ==
  /\ HasRead(p, "poll") /\ s[p] = last[p]
  /\ Forget(p, "release") /\ UNCHANGED <<i, last, alarmed>>

\* The C programs read the segment anew for each comparison.
Reread(p) ==
  /\ HasRead(p, "poll") /\ s[p] # last[p] /\ language[p] = "C"
  /\ Forget(p, "check") /\ UNCHANGED <<i, last, alarmed>>

Examines(p) ==
  \/ HasRead(p, "check")
  \/ HasRead(p, "poll") /\ s[p] # last[p] /\ language[p] = "Python"

\* Conclusion takes the first message as it is.
Passes(p) == (p = Conclusion /\ i[p] = 0) \/ s[p] = md5[last[p]]

\* Variant of Digested: the message is sent back as it is.
Undigested(text) == text

Digested(text) == md5[text]

Say(p, text) ==
  /\ last' = [last EXCEPT ![p] = text] /\ i' = [i EXCEPT ![p] = @ + 1]
  /\ Forget(p, "write") /\ UNCHANGED alarmed

\* conclusion.c reads the message once more to make its answer.
Accept(p) ==
  /\ Examines(p) /\ Passes(p)
  /\ IF p = Conclusion /\ language[p] = "C"
     THEN Forget(p, "answer") /\ UNCHANGED <<i, last, alarmed>>
     ELSE Say(p, Digested(s[p]))

Answer(p) == HasRead(p, "answer") /\ Say(p, Digested(s[p]))

\* "Shared memory corruption": the Python program ends, the C program goes
\* through its last statements.
Alarm(p) ==
  /\ Examines(p) /\ ~Passes(p)
  /\ alarmed' = alarmed \cup {p}
  /\ Forget(p, IF language[p] = "Python" THEN "raised"
               ELSE IF p = Premise THEN "last_release" ELSE "release")
  /\ UNCHANGED <<i, last>>

\* The opening is written without the semaphore, which is not yet released.
Begin ==
  /\ at[Premise] = "begin"
  /\ last' = [last EXCEPT ![Premise] = Opening]
  /\ Goto(Premise, "write")
  /\ UNCHANGED <<made, value, memory, language, copied, s, i, alarmed, params>>

WriteHalf(p) ==
  LET half == copied[p] + 1 IN
  /\ at[p] = "write"
  /\ memory' = [memory EXCEPT ![half] = last[p][half]]
  /\ IF half < 2
     THEN copied' = [copied EXCEPT ![p] = half] /\ UNCHANGED at
     ELSE /\ copied' = [copied EXCEPT ![p] = 0]
          /\ Goto(p, IF p = Premise /\ Finished(p) THEN "last_release" ELSE "release")
  /\ UNCHANGED <<made, value, language, s, i, last, alarmed, params>>

----------------------------------------------------------------------------
(* The end of Premise.                                                     *)

\* Variant of LastRelease: straight to the last acquire.
NoLastRelease == at[Premise] = "last_release" /\ OnlyGoto(Premise, "last_acquire")

\* "Final release of the semaphore", for Conclusion to end; then five seconds.
LastRelease ==
  at[Premise] = "last_release" /\ release_semaphore(Premise, "last_acquire")

Destroy(object, statement, next) ==
  /\ at[Premise] = statement /\ Goto(Premise, next)
  /\ made' = [made EXCEPT ![object] = "removed"]
  /\ UNCHANGED <<value, memory, language, copied, s, i, last, alarmed, params>>

----------------------------------------------------------------------------
(* The specification.                                                      *)

Init ==
  /\ made = [semaphore |-> "none", memory |-> "none"]
  /\ value = 0 /\ memory = Empty
  /\ language \in [Programs -> {"C", "Python"}]
  /\ at = [p \in Programs |-> "start"]
  /\ copied = [p \in Programs |-> 0]
  /\ s = [p \in Programs |-> Empty]
  /\ i = [p \in Programs |-> 0]
  /\ last = [p \in Programs |-> Empty]
  /\ alarmed = {}
  /\ params \in [iterations : ITERATIONS, live_dangerously : LIVE_DANGEROUSLY]

Statement(p) ==
  \/ at[p] = "second" /\ Make(p)
  \/ Release(p) \/ ReadHalf(p) \/ Again(p) \/ Reread(p)
  \/ Accept(p) \/ Answer(p) \/ Alarm(p) \/ WriteHalf(p)
  \/ /\ p = Premise
     /\ \/ Begin \/ LastRelease
        \/ Destroy("memory", "remove_memory", "remove_semaphore")
        \/ Destroy("semaphore", "remove_semaphore", "done")

Next ==
  \E p \in Programs : Make(p) \/ Statement(p) \/ Acquire(p) \/ Interrupt(p)

Spec == Init /\ [][Next]_vars

\* Nobody need start a program.  A release hands the semaphore to who waits
\* for it, so an acquire that is overtaken again and again succeeds.
FairSpec ==
  Spec /\ \A p \in Programs : WF_vars(Statement(p)) /\ SF_vars(Acquire(p))

----------------------------------------------------------------------------
(* Properties.                                                             *)

\* "Mrs. Premise and Mrs. Conclusion won't ever find their messages corrupted
\* no matter how many messages they exchange" (ReadMe.txt:29-31), as long as
\* they use the semaphore.
NoCorruption == ~params.live_dangerously => alarmed = {}

\* Premise removes the semaphore and the segment only when Conclusion has
\* written its last message and made its last use of the semaphore, however
\* short the pause is (premise.py:81, premise.c:161).
RemovedOnlyAtTheEnd ==
  \A object \in DOMAIN made :
    made[object] = "removed" /\ ~params.live_dangerously =>
      at[Conclusion] = "done" /\ i[Conclusion] = params.iterations

\* Between its acquire and its release.
InTurn(p) ==
  at[p] \in {"begin", "write", "poll", "check", "answer", "release", "last_release"}

\* Only one program at a time is at the memory, and one that waits for the
\* semaphore waits for the other, which is on its way to release it: the
\* permit is never lost, to a signal or at the end (premise.py:82), and the two
\* never both wait for it.
TakeTurns ==
  ~params.live_dangerously =>
    /\ ~(InTurn(Premise) /\ InTurn(Conclusion))
    /\ \A p \in Programs :
         at[p] \in DOMAIN AfterAcquire /\ IsLive /\ value = 0 =>
           \E q \in Programs \ {p} : InTurn(q)

lastSpeaker == IF i[Conclusion] > i[Premise] THEN Conclusion ELSE Premise

\* With the semaphore, in every combination of languages, the programs have
\* the conversation ReadMe.txt describes.
TheConversation == INSTANCE Conversation WITH
  First <- Premise, Second <- Conclusion, opening <- Opening, digest <- md5,
  said <- IF last[Premise] = Empty \/ params.live_dangerously THEN [by |-> Conclusion]
          ELSE [by |-> lastSpeaker, text |-> last[lastSpeaker]]

ImplementsConversation == TheConversation!ConversationSpec

\* Once Conclusion has its handles both say all they have to say and end,
\* although release is followed at once by acquire (premise.py:40-48), unless
\* a signal has ended one.
ConversationEnds ==
  at[Conclusion] = "acquire" /\ ~params.live_dangerously ~>
    \/ \A p \in Programs : at[p] = "done" /\ i[p] = params.iterations
    \/ \E p \in Programs : at[p] = "raised"

=============================================================================
