-------------------------- MODULE SemShmDemoProofs --------------------------
(***************************************************************************)
(* The conversation of demos/sem_and_shm for any number of messages and    *)
(* every combination of languages, when no signal reaches a C program.     *)
(* DemoInv is the inductive invariant: whose turn it is, what exists, how  *)
(* the loop counters of the two stand to each other, and which text each   *)
(* half of the segment holds.  Each action has a lemma.                    *)
(***************************************************************************)
EXTENDS SemShmDemo, TLAPS

USE SemShmAssumption

----------------------------------------------------------------------------
(* The invariant.  Nothing is claimed of programs that live dangerously.   *)

ToOpen  == {"start", "second", "begin"}
Ending  == {"last_release", "last_acquire", "remove_memory", "remove_semaphore", "done"}
Reading == {"poll", "check", "answer"}

Statements ==
  ToOpen \cup Ending \cup Reading \cup {"release", "acquire", "write", "raised"}

Objects == {"semaphore", "memory"}
Texts   == [Halves -> Int]

DemoTypeOK ==
  /\ made \in [Objects -> {"none", "live", "removed"}]
  /\ value \in Int /\ memory \in Texts
  /\ language \in [Programs -> {"C", "Python"}]
  /\ at \in [Programs -> Statements]
  /\ copied \in [Programs -> 0..2]
  /\ s \in [Programs -> Texts] /\ last \in [Programs -> Texts]
  /\ i \in [Programs -> Nat]
  /\ alarmed \subseteq Programs
  /\ params \in [iterations : Nat \ {0}, live_dangerously : BOOLEAN]

\* It is p's turn: Premise's from the beginning, as the value of a new
\* semaphore is 0.
Has(p) ==
  IF p = Premise THEN at[p] \notin {"acquire", "last_acquire", "raised"}
  ELSE at[p] \in Reading \cup {"write", "release"}

TurnInv ==
  /\ ~(Has(Premise) /\ Has(Conclusion))
  /\ value = IF Has(Premise) \/ Has(Conclusion) THEN 0 ELSE 1

MadeInv ==
  /\ at[Premise] = "start" => made["semaphore"] = "none" /\ made["memory"] = "none"
  /\ at[Premise] = "second" =>
       made[MadeFirst(Premise)] = "live" /\ made[MadeSecond(Premise)] = "none"
  /\ at[Premise] \notin {"start", "second", "done"} => made["semaphore"] = "live"
  /\ at[Premise] \notin {"start", "second", "remove_semaphore", "done"} =>
       made["memory"] = "live"
  /\ at[Conclusion] = "second" => made["semaphore"] # "none"
  /\ at[Conclusion] \notin {"start", "second"} => at[Premise] \notin {"start", "second"}

CountInv ==
  LET N == params.iterations IN
  /\ i[Premise] <= i[Conclusion] /\ i[Conclusion] <= i[Premise] + 1
  /\ i[Conclusion] <= N
  /\ at[Premise] \in ToOpen => i[Conclusion] = 0
  /\ at[Premise] \in Ending => i[Premise] = N
  /\ i[Premise] = N => at[Premise] \in Ending \cup {"write", "raised"}
  /\ at[Conclusion] \in {"start", "second"} => i[Conclusion] = 0
  /\ at[Conclusion] = "done" => i[Conclusion] = N
  /\ i[Conclusion] = N => at[Conclusion] \in {"write", "release", "done"}

\* Each program has its own statements.
PlaceInv ==
  /\ at[Premise] # "answer"
  /\ at[Conclusion] \notin (Ending \ {"done"}) \cup {"begin"}

\* The number of the text p has written last.
Number(p) ==
  IF p = Conclusion THEN 2 * i[p] ELSE IF at[p] \in ToOpen THEN 0 ELSE 2 * i[p] + 1

\* The program that writes is the last that spoke, and the one that has found
\* the other's message is not.
SpeakerInv ==
  \A p \in Programs :
    /\ at[p] = "write" => lastSpeaker = p /\ copied[p] < 2
    /\ at[p] \in {"check", "answer"} => lastSpeaker # p
    /\ at[p] \notin Reading \cup {"write"} => copied[p] = 0

\* Where nobody is writing the segment holds what was said last, and this is
\* what a program has read of it.
TextInv ==
  /\ \A p \in Programs : last[p] = Text(Number(p))
  /\ \A half \in Halves :
       (\A p \in Programs : at[p] = "write" => half <= copied[p]) =>
          memory[half] = Number(lastSpeaker)
  /\ \A p \in Programs : at[p] \in Reading =>
       \A half \in 1..copied[p] : s[p][half] = Number(lastSpeaker)

TalkInv ==
  /\ alarmed = {}
  /\ TurnInv /\ MadeInv /\ CountInv /\ PlaceInv /\ SpeakerInv /\ TextInv

DemoInv == DemoTypeOK /\ (~params.live_dangerously => TalkInv)

----------------------------------------------------------------------------
(* Texts.                                                                  *)

LEMMA TextType == \A n \in Int : Text(n) \in Texts
BY DEF Text, Texts, Halves

LEMMA TextsDiffer == \A m, n \in Int : Text(m) = Text(n) => m = n
<1> TAKE m, n \in Int
<1>1. Text(m)[1] = m /\ Text(n)[1] = n
  BY DEF Text, Halves
<1> QED
  BY <1>1

LEMMA TextOfHalves ==
  \A text \in Texts, n \in Int : text[1] = n /\ text[2] = n => text = Text(n)
BY DEF Text, Texts, Halves

LEMMA Digest == \A n \in Nat : md5[Text(n)] = Text(n + 1)
<1> TAKE n \in Nat
<1>1. Text(n) \in Texts /\ Text(n)[1] = n /\ Text(n)[2] = n
  BY DEF Text, Texts, Halves
<1> QED
  BY <1>1 DEF md5, Texts

LEMMA DigestType == \A text \in Texts : md5[text] \in Texts
<1> TAKE text \in Texts
<1>1. text[1] \in Int /\ text[2] \in Int
  BY DEF Texts, Halves
<1>2. md5[text] = IF text[1] # text[2] THEN Text(-1)
                  ELSE IF text[1] < 0 THEN Text(text[1] - 1) ELSE Text(text[1] + 1)
  BY DEF md5, Texts
<1>3. /\ -1 \in Int /\ text[1] - 1 \in Int /\ text[1] + 1 \in Int
  BY <1>1
<1> QED
  BY <1>2, <1>3, TextType

----------------------------------------------------------------------------
(* Types.                                                                  *)

LEMMA DemoInitInv == Init => DemoInv
<1> SUFFICES ASSUME Init PROVE DemoInv
  OBVIOUS
<1> USE DEF Init, Programs
<1>1. DemoTypeOK
  <2>1. Empty \in Texts
    BY TextType DEF Empty
  <2>2. params \in [iterations : Nat \ {0}, live_dangerously : BOOLEAN]
    BY SemShmAssumption
  <2>3. made \in [Objects -> {"none", "live", "removed"}]
    BY DEF Objects
  <2> QED
    BY <2>1, <2>2, <2>3 DEF DemoTypeOK, Statements, ToOpen
<1>2. TurnInv /\ MadeInv /\ CountInv /\ PlaceInv
  <2>1. at[Premise] = "start" /\ at[Conclusion] = "start"
    OBVIOUS
  <2>2. TurnInv
    BY <2>1 DEF TurnInv, Has, Reading
  <2>3. MadeInv
    BY <2>1 DEF MadeInv
  <2>4. params.iterations \in Nat \ {0}
    BY SemShmAssumption
  <2>5. CountInv
    BY <2>1, <2>4 DEF CountInv, ToOpen, Ending
  <2> QED
    BY <2>1, <2>2, <2>3, <2>5 DEF PlaceInv, Ending
<1>3. Number(Premise) = 0 /\ Number(Conclusion) = 0 /\ lastSpeaker = Premise
  BY DEF Number, ToOpen, lastSpeaker
<1>4. SpeakerInv
  BY DEF SpeakerInv, Reading
<1>5. TextInv
  <2>1. \A half \in Halves : memory[half] = 0
    BY DEF Empty, Text, Halves
  <2>2. \A p \in Programs : last[p] = Text(Number(p))
    BY <1>3 DEF Empty
  <2> QED
    BY <1>3, <2>1, <2>2 DEF TextInv, Reading
<1> QED
  BY <1>1, <1>2, <1>4, <1>5 DEF DemoInv, TalkInv

LEMMA TypeStep == DemoTypeOK /\ [Next]_vars => DemoTypeOK'
<1> SUFFICES ASSUME DemoTypeOK, [Next]_vars PROVE DemoTypeOK'
  OBVIOUS
<1> USE DEF DemoTypeOK
<1>1. CASE UNCHANGED vars
  BY <1>1 DEF vars
<1>2. ASSUME NEW p \in Programs, NEW statement \in Statements, OnlyGoto(p, statement)
      PROVE DemoTypeOK'
  BY <1>2 DEF OnlyGoto, Goto
<1>3. ASSUME NEW p \in Programs, Make(p) PROVE DemoTypeOK'
  <2>1. ASSUME NEW object \in Objects, NEW next \in Statements, Create(object, next)
        PROVE DemoTypeOK'
    <3>1. made' \in [Objects -> {"none", "live", "removed"}]
      BY <2>1 DEF Create, Objects
    <3>2. at' \in [Programs -> Statements]
      BY <2>1 DEF Create, Goto, Programs
    <3>3. value' \in Int
      BY <2>1 DEF Create, InitialValue
    <3> QED
      BY <2>1, <3>1, <3>2, <3>3 DEF Create
  <2>2. MadeFirst(p) \in Objects /\ MadeSecond(p) \in Objects
    BY DEF MadeFirst, MadeSecond, Objects
  <2>3. {"start", "second", "begin", "acquire"} \subseteq Statements
    BY DEF Statements, ToOpen
  <2>4. Conclusion \in Programs
    BY DEF Programs
  <2>5. ASSUME NEW object \in Objects, NEW next \in Statements, Open(object, next)
        PROVE DemoTypeOK'
    BY <1>2, <2>3, <2>4, <2>5 DEF Open
  <2> QED
    BY <1>3, <2>1, <2>2, <2>3, <2>5 DEF Make
<1>4. ASSUME NEW p \in Programs, NEW delta \in Int, NEW next \in Statements, Semop(p, delta, next)
      PROVE DemoTypeOK'
  BY <1>4 DEF Semop, Goto
<1>5. ASSUME NEW p \in Programs, NEW next \in Statements, Failed(p, next)
      PROVE DemoTypeOK'
  <2>1. "raised" \in Statements
    BY DEF Statements
  <2> QED
    BY <1>2, <1>5, <2>1 DEF Failed
<1>6. ASSUME NEW p \in Programs, NEW next \in Statements,
             release_semaphore(p, next) \/ acquire_semaphore(p, next)
      PROVE DemoTypeOK'
  BY <1>2, <1>4, <1>5, <1>6 DEF release_semaphore, acquire_semaphore
<1>7. ASSUME NEW p \in Programs, Release(p) \/ Acquire(p) \/ Interrupt(p) PROVE DemoTypeOK'
  <2>1. {"done", "acquire", "poll", "remove_memory"} \subseteq Statements
    BY DEF Statements, Reading, Ending
  <2>2. \A statement \in DOMAIN AfterAcquire : AfterAcquire[statement] \in Statements
    BY <2>1 DEF AfterAcquire
  <2>3. CASE Release(p)
    BY <1>6, <2>1, <2>3 DEF Release
  <2>4. CASE Acquire(p)
    BY <1>6, <2>2, <2>4 DEF Acquire
  <2>5. CASE Interrupt(p)
    BY <1>5, <2>2, <2>5 DEF Interrupt
  <2> QED
    BY <1>7, <2>3, <2>4, <2>5
<1>8. ASSUME NEW p \in Programs, ReadHalf(p) PROVE DemoTypeOK'
  <2> DEFINE half == copied[p] + 1
  <2>1. half \in Halves /\ half \in 0..2
    BY <1>8 DEF ReadHalf, Halves
  <2>2. copied' = [copied EXCEPT ![p] = half]
    BY <1>8 DEF ReadHalf
  <2>3. s' = [s EXCEPT ![p] = [@ EXCEPT ![half] = memory[half]]]
    BY <1>8 DEF ReadHalf
  <2> HIDE DEF half
  <2>4. [s[p] EXCEPT ![half] = memory[half]] \in Texts
    BY <2>1 DEF Texts
  <2> DEFINE read == [s[p] EXCEPT ![half] = memory[half]]
  <2> HIDE DEF read
  <2>5. s' = [s EXCEPT ![p] = read] /\ read \in Texts
    BY <2>3, <2>4 DEF read
  <2>6. s' \in [Programs -> Texts]
    BY <2>5
  <2>7. copied' \in [Programs -> 0..2]
    BY <2>1, <2>2
  <2> QED
    BY <1>8, <2>6, <2>7 DEF ReadHalf
<1>9. ASSUME NEW p \in Programs, NEW statement \in Statements, Forget(p, statement),
             last' \in [Programs -> Texts], i' \in [Programs -> Nat], alarmed' \subseteq Programs
      PROVE DemoTypeOK'
  <2>1. Empty \in Texts
    BY TextType DEF Empty
  <2> QED
    BY <1>9, <2>1 DEF Forget, Goto
<1>10. ASSUME NEW p \in Programs, NEW text \in Texts, Say(p, text) PROVE DemoTypeOK'
  <2>1. last' \in [Programs -> Texts] /\ i' \in [Programs -> Nat] /\ alarmed' \subseteq Programs
    BY <1>10 DEF Say
  <2>2. "write" \in Statements
    BY DEF Statements
  <2> QED
    BY <1>9, <1>10, <2>1, <2>2 DEF Say
<1>11. ASSUME NEW p \in Programs, Again(p) \/ Reread(p) \/ Accept(p) \/ Answer(p) \/ Alarm(p)
       PROVE DemoTypeOK'
  <2>1. {"release", "check", "answer", "raised", "last_release"} \subseteq Statements
    BY DEF Statements, Reading, Ending
  <2>2. Digested(s[p]) \in Texts
    BY DigestType DEF Digested
  <2>3. CASE Again(p)
    BY <1>9, <2>1, <2>3 DEF Again
  <2>4. CASE Reread(p)
    BY <1>9, <2>1, <2>4 DEF Reread
  <2>5. CASE Accept(p)
    BY <1>9, <1>10, <2>1, <2>2, <2>5 DEF Accept
  <2>6. CASE Answer(p)
    BY <1>10, <2>2, <2>6 DEF Answer
  <2>7. CASE Alarm(p)
    BY <1>9, <2>1, <2>7 DEF Alarm
  <2> QED
    BY <1>11, <2>3, <2>4, <2>5, <2>6, <2>7
<1>12. ASSUME Begin PROVE DemoTypeOK'
  <2>1. Opening \in Texts /\ "write" \in Statements
    BY TextType DEF Opening, Statements
  <2> QED
    BY <1>12, <2>1 DEF Begin, Goto
<1>13. ASSUME NEW p \in Programs, WriteHalf(p) PROVE DemoTypeOK'
  <2> DEFINE half == copied[p] + 1
  <2>1. half \in 1..3
    OBVIOUS
  <2>2. memory' \in Texts
    <3>1. CASE half = 3
      <4>1. ASSUME NEW word PROVE [memory EXCEPT ![3] = word] \in Texts
        <5>1. 3 \notin Halves
          BY DEF Halves
        <5>2. memory = [h \in Halves |-> memory[h]]
          BY DEF Texts
        <5>3. [memory EXCEPT ![3] = word] = memory
          BY <5>1, <5>2
        <5> QED
          BY <5>3
      <4> QED
        BY <1>13, <3>1, <4>1 DEF WriteHalf
    <3>2. CASE half \in Halves
      BY <1>13, <3>2 DEF WriteHalf, Texts
    <3> QED
      BY <2>1, <3>1, <3>2 DEF Halves
  <2>3. copied' \in [Programs -> 0..2]
    BY <1>13, <2>1 DEF WriteHalf
  <2>4. at' \in [Programs -> Statements]
    BY <1>13 DEF WriteHalf, Goto, Statements, Ending
  <2> QED
    BY <1>13, <2>2, <2>3, <2>4 DEF WriteHalf
<1>14. ASSUME LastRelease PROVE DemoTypeOK'
  <2>1. "last_acquire" \in Statements /\ Premise \in Programs
    BY DEF Statements, Ending, Programs
  <2> QED
    BY <1>6, <1>14, <2>1 DEF LastRelease
<1>15. ASSUME NEW object \in Objects, NEW statement, NEW next \in Statements,
              Destroy(object, statement, next)
       PROVE DemoTypeOK'
  BY <1>15 DEF Destroy, Goto
<1>16. /\ "memory" \in Objects /\ "semaphore" \in Objects
       /\ "remove_semaphore" \in Statements /\ "done" \in Statements
  BY DEF Objects, Statements, Ending
<1>17. ASSUME NEW p \in Programs, Statement(p) PROVE DemoTypeOK'
  BY <1>3, <1>7, <1>8, <1>11, <1>12, <1>13, <1>14, <1>15, <1>16, <1>17 DEF Statement
<1> QED
  BY <1>1, <1>3, <1>7, <1>17 DEF Next

----------------------------------------------------------------------------
(* The steps that leave the texts alone.                                   *)

Careful == DemoTypeOK /\ TalkInv /\ ~params.live_dangerously

LEMMA TwoPrograms == \A p \in Programs : p = Premise \/ p = Conclusion
BY DEF Programs

LEMMA NumberType == DemoTypeOK => \A p \in Programs : Number(p) \in Nat
BY DEF DemoTypeOK, Number

LEMMA SpeakerType == lastSpeaker \in Programs
BY DEF lastSpeaker, Programs

\* A move of p between statements that are neither reads nor writes, or to the
\* first read.
LEMMA MoveKeepsTexts ==
  ASSUME Careful, NEW p \in Programs, NEW next,
         at' = [at EXCEPT ![p] = next], UNCHANGED <<memory, copied, s, i, last>>,
         at[p] \notin Reading \cup {"write"}, next \notin {"write", "check", "answer"},
         p = Premise => (at[p] \in ToOpen <=> next \in ToOpen)
  PROVE  SpeakerInv' /\ TextInv'
<1> USE DEF Careful, TalkInv
<1>1. at'[p] = next /\ \A q \in Programs : q # p => at'[q] = at[q]
  BY DEF DemoTypeOK
<1>2. copied[p] = 0
  BY DEF SpeakerInv
<1>3. lastSpeaker' = lastSpeaker
  BY DEF lastSpeaker
<1>4. \A q \in Programs : Number(q)' = Number(q)
  <2> TAKE q \in Programs
  <2>1. CASE q = Conclusion
    BY <2>1 DEF Number
  <2>2. CASE q = Premise
    BY <1>1, <2>2 DEF Number
  <2> QED
    BY <2>1, <2>2, TwoPrograms
<1>5. SpeakerInv'
  BY <1>1, <1>2, <1>3 DEF SpeakerInv
<1>6. Number(lastSpeaker)' = Number(lastSpeaker)
  BY <1>3, <1>4, SpeakerType
<1>7. \A q \in Programs : last'[q] = Text(Number(q)')
  BY <1>4 DEF TextInv
<1>8. ASSUME NEW half \in Halves, \A q \in Programs : at'[q] = "write" => half <= copied'[q]
      PROVE  memory'[half] = Number(lastSpeaker)'
  <2>1. \A q \in Programs : at[q] = "write" => half <= copied[q]
    BY <1>1, <1>8
  <2> QED
    BY <1>6, <2>1 DEF TextInv
<1>9. ASSUME NEW q \in Programs, at'[q] \in Reading, NEW half \in 1..copied'[q]
      PROVE  s'[q][half] = Number(lastSpeaker)'
  <2>1. q # p
    BY <1>2, <1>9
  <2>2. at[q] \in Reading /\ half \in 1..copied[q]
    BY <1>1, <1>9, <2>1
  <2> QED
    BY <1>6, <2>2 DEF TextInv
<1>10. TextInv'
  BY <1>7, <1>8, <1>9 DEF TextInv
<1> QED
  BY <1>5, <1>10

\* The same, with what it does to the rest.
LEMMA MoveInv ==
  ASSUME Careful, NEW p \in Programs, NEW next, Goto(p, next),
         UNCHANGED <<memory, copied, s, i, last, alarmed>>,
         at[p] \notin Reading \cup {"write"}, next \notin {"write", "check", "answer"},
         p = Premise => (at[p] \in ToOpen <=> next \in ToOpen),
         TurnInv', MadeInv', CountInv', PlaceInv'
  PROVE  TalkInv'
BY MoveKeepsTexts DEF Goto, Careful, TalkInv

LEMMA MakeInv ==
  ASSUME Careful, NEW p \in Programs, Make(p) PROVE TalkInv'
<1> USE DEF Careful, TalkInv
<1>1. CASE p = Premise
  <2>1. PICK object \in Objects, next \in {"second", "begin"} :
          /\ Create(object, next)
          /\ \/ at[p] = "start" /\ object = MadeFirst(p) /\ next = "second"
             \/ at[p] = "second" /\ object = MadeSecond(p) /\ next = "begin"
    BY <1>1 DEF Make, MadeFirst, MadeSecond, Objects
  <2>2. at'[Premise] = next /\ at'[Conclusion] = at[Conclusion]
    BY <1>1, <2>1 DEF Create, Goto, DemoTypeOK, Programs
  <2>3. made' = [made EXCEPT ![object] = "live"] /\ UNCHANGED <<language, i, params>>
    BY <2>1 DEF Create
  <2>4. Has(Premise) /\ Has(Premise)' /\ ~Has(Conclusion)' /\ value' = 0
    BY <1>1, <2>1, <2>2 DEF Has, TurnInv, Create, InitialValue, Reading
  <2>5. TurnInv'
    BY <2>4 DEF TurnInv
  <2>6. MadeInv'
    <3>1. at[Conclusion] \in {"start", "second"}
      BY <1>1, <2>1 DEF MadeInv
    <3>2. MadeFirst(p)' = MadeFirst(p) /\ MadeSecond(p)' = MadeSecond(p)
      BY <2>3 DEF MadeFirst, MadeSecond
    <3>3. /\ MadeFirst(p) \in Objects /\ MadeSecond(p) \in Objects
          /\ MadeFirst(p) # MadeSecond(p)
      BY DEF MadeFirst, MadeSecond, Objects
    <3>4. \A o \in Objects : made'[o] = IF o = object THEN "live" ELSE made[o]
      BY <2>3 DEF DemoTypeOK
    <3>5. made[MadeFirst(p)] = IF next = "second" THEN "none" ELSE "live"
      BY <1>1, <2>1, <3>3 DEF MadeInv, Objects
    <3>6. made[MadeSecond(p)] = "none"
      BY <1>1, <2>1, <3>3 DEF MadeInv, Objects
    <3>7. made'["semaphore"] = "live" \/ made'["semaphore"] = made["semaphore"]
      BY <3>4 DEF Objects
    <3>8. CASE next = "second"
      BY <1>1, <2>1, <2>2, <3>1, <3>2, <3>3, <3>4, <3>6, <3>7, <3>8 DEF MadeInv
    <3>9. CASE next = "begin"
      <4>1. \A o \in Objects : made'[o] = "live"
        BY <2>1, <3>3, <3>4, <3>5, <3>9 DEF Objects
      <4>2. made'["semaphore"] = "live" /\ made'["memory"] = "live"
        BY <4>1 DEF Objects
      <4> QED
        BY <2>2, <3>9, <4>2 DEF MadeInv
    <3> QED
      BY <3>8, <3>9
  <2>7. CountInv'
    BY <1>1, <2>1, <2>2, <2>3 DEF CountInv, ToOpen, Ending, DemoTypeOK
  <2>8. PlaceInv'
    BY <2>2 DEF PlaceInv
  <2> QED
    BY <1>1, <2>1, <2>5, <2>6, <2>7, <2>8, MoveInv DEF Create, Reading, ToOpen
<1>2. CASE p = Conclusion
  <2>1. PICK object \in Objects, next \in {"second", "acquire"} :
          /\ Open(object, next)
          /\ \/ at[p] = "start" /\ object = "semaphore" /\ next = "second"
             \/ at[p] = "second" /\ object = "memory" /\ next = "acquire"
    BY <1>2 DEF Make, MadeFirst, MadeSecond, Objects
  <2> DEFINE there == IF made[object] = "live" THEN next ELSE "start"
  <2>2. at'[Conclusion] = there /\ at'[Premise] = at[Premise]
    BY <1>2, <2>1 DEF Open, OnlyGoto, Goto, DemoTypeOK, Programs
  <2>3. UNCHANGED <<made, value, language, i, params, alarmed>>
    BY <2>1 DEF Open, OnlyGoto
  <2>4. TurnInv'
    BY <1>2, <2>1, <2>2, <2>3 DEF TurnInv, Has, Reading
  <2>5. MadeInv'
    BY <1>2, <2>1, <2>2, <2>3 DEF MadeInv, MadeFirst, MadeSecond
  <2>6. CountInv'
    BY <1>2, <2>1, <2>2, <2>3 DEF CountInv, DemoTypeOK
  <2>7. PlaceInv'
    BY <2>1, <2>2 DEF PlaceInv, Ending
  <2>8. there \notin {"write", "check", "answer"} /\ at[p] \notin Reading \cup {"write"}
    BY <2>1 DEF Reading
  <2>9. Goto(p, there) /\ UNCHANGED <<memory, copied, s, i, last, alarmed>>
    BY <1>2, <2>1 DEF Open, OnlyGoto
  <2> HIDE DEF there
  <2> QED
    BY <1>2, <2>4, <2>5, <2>6, <2>7, <2>8, <2>9, MoveInv
<1> QED
  BY <1>1, <1>2, TwoPrograms

\* While the two talk the semaphore is there, and the value is as a step of
\* Semop leaves it.
LEMMA SemaphoreIsThere ==
  ASSUME Careful, NEW p \in Programs,
         at[p] \in {"release", "acquire", "last_release", "last_acquire"}
  PROVE  IsLive
<1> USE DEF Careful, TalkInv
<1>1. CASE p = Premise
  BY <1>1 DEF MadeInv, IsLive
<1>2. CASE p = Conclusion
  <2>1. at[Premise] \notin {"start", "second"}
    BY <1>2 DEF MadeInv
  <2>2. at[Premise] = "done" => i[Conclusion] = params.iterations /\ Has(Premise)
    BY DEF CountInv, Ending, Has, DemoTypeOK, Programs
  <2>3. at[Premise] # "done"
    BY <1>2, <2>2 DEF CountInv, TurnInv, Has
  <2> QED
    BY <2>1, <2>3 DEF MadeInv, IsLive
<1> QED
  BY <1>1, <1>2, TwoPrograms

\* p gives its turn away, as Release and LastRelease do.
LEMMA GiveInv ==
  ASSUME Careful, NEW p \in Programs, NEW next, release_semaphore(p, next),
         \/ at[p] = "release" /\ next = "acquire" /\ i[p] # params.iterations
         \/ /\ p = Conclusion /\ at[p] = "release" /\ next = "done"
            /\ i[p] = params.iterations
         \/ p = Premise /\ at[p] = "last_release" /\ next = "last_acquire"
  PROVE  TalkInv'
<1> USE DEF Careful, TalkInv
<1>1. Semop(p, 1, next)
  BY SemaphoreIsThere DEF release_semaphore, Skips
<1>2. at'[p] = next /\ \A q \in Programs : q # p => at'[q] = at[q]
  BY <1>1 DEF Semop, Goto, DemoTypeOK
<1>3. UNCHANGED <<made, language, i, params>> /\ value' = value + 1
  BY <1>1 DEF Semop
<1>4. Has(p) /\ ~Has(p)'
  BY <1>2 DEF Has, Reading
<1>5. \A q \in Programs : q # p => Has(q)' = Has(q)
  BY <1>2 DEF Has
<1>6. Premise \in Programs /\ Conclusion \in Programs /\ Premise # Conclusion
  BY SemShmAssumption DEF Programs
<1>7. TurnInv'
  BY <1>3, <1>4, <1>5, <1>6, TwoPrograms DEF TurnInv
<1>8. MadeInv'
  BY <1>2, <1>3, <1>6, TwoPrograms DEF MadeInv, MadeFirst, MadeSecond
<1>9. CountInv'
  BY <1>2, <1>3, <1>6, TwoPrograms DEF CountInv, ToOpen, Ending, DemoTypeOK
<1>10. PlaceInv'
  BY <1>2, <1>6, TwoPrograms DEF PlaceInv, Ending
<1> QED
  BY <1>1, <1>7, <1>8, <1>9, <1>10, MoveInv DEF Semop, Reading, ToOpen

LEMMA ReleaseInv ==
  ASSUME Careful, NEW p \in Programs, Release(p) PROVE TalkInv'
<1> DEFINE next == IF p = Conclusion /\ (Finished(p) \/ p \in alarmed) THEN "done" ELSE "acquire"
<1>1. at[p] = "release" /\ release_semaphore(p, next)
  BY DEF Release
<1>2. p = Premise => i[p] # params.iterations
  BY <1>1 DEF Careful, TalkInv, CountInv, Ending
<1>3. \/ next = "acquire" /\ i[p] # params.iterations
      \/ p = Conclusion /\ next = "done" /\ i[p] = params.iterations
  BY <1>2, TwoPrograms DEF Careful, TalkInv, Finished
<1> HIDE DEF next
<1> QED
  BY <1>1, <1>3, GiveInv

LEMMA LastReleaseInv == ASSUME Careful, LastRelease PROVE TalkInv'
<1>1. Premise \in Programs
  BY DEF Programs
<1> QED
  BY <1>1, GiveInv DEF LastRelease

\* p takes its turn.
LEMMA AcquireInv ==
  ASSUME Careful, NEW p \in Programs, Acquire(p) PROVE TalkInv'
<1> USE DEF Careful, TalkInv
<1>1. PICK next \in {"poll", "remove_memory"} :
        /\ acquire_semaphore(p, next)
        /\ \/ at[p] = "acquire" /\ next = "poll"
           \/ at[p] = "last_acquire" /\ next = "remove_memory"
  BY DEF Acquire, AfterAcquire
<1>2. Semop(p, -1, next) /\ value > 0
  BY <1>1, SemaphoreIsThere DEF acquire_semaphore, Skips
<1>3. at'[p] = next /\ \A q \in Programs : q # p => at'[q] = at[q]
  BY <1>2 DEF Semop, Goto, DemoTypeOK
<1>4. UNCHANGED <<made, language, i, params>> /\ value' = value - 1
  BY <1>2 DEF Semop
<1>5. ~Has(Premise) /\ ~Has(Conclusion) /\ value = 1
  BY <1>2 DEF TurnInv
<1>6. p = Conclusion => at[p] = "acquire"
  BY <1>1 DEF PlaceInv, Ending
<1>7. Has(p)'
  BY <1>1, <1>3, <1>6, TwoPrograms DEF Has, Reading
<1>8. \A q \in Programs : q # p => Has(q)' = Has(q)
  BY <1>3 DEF Has
<1>9. Premise \in Programs /\ Conclusion \in Programs /\ Premise # Conclusion
  BY SemShmAssumption DEF Programs
<1>10. TurnInv'
  BY <1>4, <1>5, <1>7, <1>8, <1>9, TwoPrograms DEF TurnInv
<1>11. MadeInv'
  BY <1>1, <1>3, <1>4, <1>6, <1>9, TwoPrograms DEF MadeInv, MadeFirst, MadeSecond
<1>12. CountInv'
  BY <1>1, <1>3, <1>4, <1>6, <1>9, TwoPrograms DEF CountInv, ToOpen, Ending, DemoTypeOK
<1>13. PlaceInv'
  BY <1>1, <1>3, <1>6, <1>9, TwoPrograms DEF PlaceInv, Ending
<1> QED
  BY <1>1, <1>2, <1>10, <1>11, <1>12, <1>13, MoveInv DEF Semop, Reading, ToOpen

\* A signal ends a Python program that waits for its turn.
LEMMA InterruptInv ==
  ASSUME Careful, "C" \notin Interrupted, NEW p \in Programs, Interrupt(p) PROVE TalkInv'
<1> USE DEF Careful, TalkInv
<1>1. at[p] \in {"acquire", "last_acquire"} /\ value = 0
  BY DEF Interrupt, AfterAcquire
<1>2. OnlyGoto(p, "raised")
  BY DEF Interrupt, Failed, DemoTypeOK
<1>3. at'[p] = "raised" /\ \A q \in Programs : q # p => at'[q] = at[q]
  BY <1>2 DEF OnlyGoto, Goto, DemoTypeOK
<1>4. UNCHANGED <<made, language, i, params, value>>
  BY <1>2 DEF OnlyGoto
<1>5. p = Conclusion => at[p] = "acquire"
  BY <1>1 DEF PlaceInv, Ending
<1>6. ~Has(p) /\ ~Has(p)'
  BY <1>1, <1>3, <1>5, TwoPrograms DEF Has, Reading
<1>7. \A q \in Programs : q # p => Has(q)' = Has(q)
  BY <1>3 DEF Has
<1>8. Premise \in Programs /\ Conclusion \in Programs /\ Premise # Conclusion
  BY SemShmAssumption DEF Programs
<1>9. TurnInv'
  BY <1>4, <1>6, <1>7, <1>8, TwoPrograms DEF TurnInv
<1>10. MadeInv'
  BY <1>1, <1>3, <1>4, <1>5, <1>8, TwoPrograms DEF MadeInv, MadeFirst, MadeSecond
<1>11. CountInv'
  BY <1>1, <1>3, <1>4, <1>5, <1>8, TwoPrograms DEF CountInv, ToOpen, Ending, DemoTypeOK
<1>12. PlaceInv'
  BY <1>1, <1>3, <1>8, TwoPrograms DEF PlaceInv, Ending
<1> QED
  BY <1>1, <1>2, <1>9, <1>10, <1>11, <1>12, MoveInv DEF OnlyGoto, Reading, ToOpen

LEMMA DestroyInv ==
  ASSUME Careful,
         \/ Destroy("memory", "remove_memory", "remove_semaphore")
         \/ Destroy("semaphore", "remove_semaphore", "done")
  PROVE  TalkInv'
<1> USE DEF Careful, TalkInv
<1>1. PICK object \in Objects, next \in Ending :
        /\ Destroy(object, at[Premise], next)
        /\ \/ object = "memory" /\ at[Premise] = "remove_memory" /\ next = "remove_semaphore"
           \/ object = "semaphore" /\ at[Premise] = "remove_semaphore" /\ next = "done"
  BY DEF Destroy, Objects, Ending
<1>2. at'[Premise] = next /\ at'[Conclusion] = at[Conclusion]
  BY <1>1, SemShmAssumption DEF Destroy, Goto, DemoTypeOK, Programs
<1>3. made' = [made EXCEPT ![object] = "removed"] /\ UNCHANGED <<language, i, params, value>>
  BY <1>1 DEF Destroy
<1>4. Has(Premise) /\ Has(Premise)' /\ Has(Conclusion)' = Has(Conclusion)
  BY <1>1, <1>2, SemShmAssumption DEF Has
<1>5. TurnInv'
  BY <1>3, <1>4 DEF TurnInv
<1>6. MadeInv'
  BY <1>1, <1>2, <1>3 DEF MadeInv, MadeFirst, MadeSecond, DemoTypeOK, Objects
<1>7. CountInv'
  BY <1>1, <1>2, <1>3 DEF CountInv, ToOpen, Ending, DemoTypeOK
<1>8. PlaceInv'
  BY <1>1, <1>2 DEF PlaceInv
<1>9. Premise \in Programs
  BY DEF Programs
<1>10. at[Premise] \notin Reading \cup {"write"} /\ next \notin {"write", "check", "answer"}
  BY <1>1 DEF Reading
<1>11. at[Premise] \notin ToOpen /\ next \notin ToOpen
  BY <1>1 DEF ToOpen
<1>12. Goto(Premise, next) /\ UNCHANGED <<memory, copied, s, i, last, alarmed>>
  BY <1>1 DEF Destroy
<1> QED
  BY <1>5, <1>6, <1>7, <1>8, <1>9, <1>10, <1>11, <1>12, MoveInv

----------------------------------------------------------------------------
(* The steps that read and write.                                          *)

\* Who reads or writes has the turn, and the other does neither.
LEMMA AloneInv ==
  ASSUME Careful, NEW p \in Programs, at[p] \in Reading \cup {"write"},
         NEW q \in Programs, q # p
  PROVE  at[q] \notin Reading \cup {"write"}
<1>1. Has(p)
  BY DEF Has, Reading
<1>2. ~Has(q)
  BY <1>1, TwoPrograms DEF Careful, TalkInv, TurnInv
<1> QED
  BY <1>2 DEF Has, Reading

\* What a program has read is what was said last.
LEMMA ReadText ==
  ASSUME Careful, NEW p \in Programs, at[p] \in Reading, copied[p] = 2
  PROVE  s[p] = Text(Number(lastSpeaker))
<1>1. s[p][1] = Number(lastSpeaker) /\ s[p][2] = Number(lastSpeaker)
  BY DEF Careful, TalkInv, TextInv
<1>2. s[p] \in Texts /\ Number(lastSpeaker) \in Int
  BY NumberType, SpeakerType DEF Careful, DemoTypeOK
<1> QED
  BY <1>1, <1>2, TextOfHalves

\* What was said last is the next text after what the other has said before.
LEMMA NextText ==
  ASSUME Careful, NEW p \in Programs, at[p] \in Reading, lastSpeaker # p
  PROVE  /\ Number(lastSpeaker) = Number(p) + 1
         /\ i[p] < params.iterations
         /\ IF p = Premise THEN i[Conclusion] = i[p] + 1 ELSE i[Premise] = i[p]
         /\ at[Premise] \notin ToOpen
<1> USE DEF Careful, TalkInv
<1>1. i[Premise] \in Nat /\ i[Conclusion] \in Nat /\ params.iterations \in Nat
  BY DEF DemoTypeOK, Programs
<1>2. CASE p = Premise
  <2>1. lastSpeaker = Conclusion /\ i[Conclusion] > i[Premise]
    BY <1>2 DEF lastSpeaker
  <2>2. at[Premise] \notin ToOpen
    BY <1>2 DEF Reading, ToOpen
  <2> QED
    BY <1>1, <1>2, <2>1, <2>2, SemShmAssumption DEF CountInv, Number
<1>3. CASE p = Conclusion
  <2>1. lastSpeaker = Premise /\ ~(i[Conclusion] > i[Premise])
    BY <1>3, SemShmAssumption DEF lastSpeaker
  <2>2. at[Premise] \notin ToOpen
    <3>1. Has(Conclusion)
      BY <1>3, SemShmAssumption DEF Has
    <3>2. ~Has(Premise)
      BY <3>1 DEF TurnInv
    <3> QED
      BY <3>2 DEF Has, ToOpen
  <2>3. i[Premise] = i[Conclusion]
    BY <1>1, <2>1 DEF CountInv
  <2>4. i[Conclusion] # params.iterations
    BY <1>3 DEF CountInv, Reading
  <2> QED
    BY <1>1, <1>3, <2>1, <2>2, <2>3, <2>4, SemShmAssumption DEF CountInv, Number
<1> QED
  BY <1>2, <1>3, TwoPrograms

\* The parts of the invariant that only depend on where the programs are, when
\* p moves and keeps its turn.
LEMMA KeepInv ==
  ASSUME Careful, NEW p \in Programs, NEW next, Goto(p, next),
         UNCHANGED <<made, value, language, params>>,
         at[p] \in Reading \cup {"write"},
         IF p = Premise THEN next \in Reading \cup {"write", "release", "last_release"}
                 ELSE next \in Reading \cup {"write", "release"},
         p = Premise => next # "answer"
  PROVE  TurnInv' /\ MadeInv' /\ PlaceInv'
<1> USE DEF Careful, TalkInv
<1>1. at'[p] = next /\ \A q \in Programs : q # p => at'[q] = at[q]
  BY DEF Goto, DemoTypeOK
<1>2. Premise \in Programs /\ Conclusion \in Programs /\ Premise # Conclusion
  BY SemShmAssumption DEF Programs
<1>3. Has(p) /\ Has(p)'
  BY <1>1, TwoPrograms DEF Has, Reading
<1>4. \A q \in Programs : q # p => Has(q)' = Has(q)
  BY <1>1 DEF Has
<1>5. TurnInv'
  BY <1>2, <1>3, <1>4, TwoPrograms DEF TurnInv
<1>6. PlaceInv'
  BY <1>1, <1>2, TwoPrograms DEF PlaceInv, Reading, Ending
<1>7. MadeInv'
  <2>1. CASE p = Premise
    <3>1. at'[Premise] \notin {"start", "second", "remove_semaphore", "done"}
      BY <1>1, <2>1 DEF Reading
    <3>2. at[Premise] \notin {"start", "second", "remove_semaphore", "done"}
      BY <2>1 DEF Reading
    <3>3. at'[Conclusion] = at[Conclusion]
      BY <1>1, <1>2, <2>1
    <3> QED
      BY <3>1, <3>2, <3>3 DEF MadeInv
  <2>2. CASE p = Conclusion
    <3>1. at'[Conclusion] \notin {"start", "second"} /\ at[Conclusion] \notin {"start", "second"}
      BY <1>1, <2>2 DEF Reading
    <3>2. at'[Premise] = at[Premise]
      BY <1>1, <1>2, <2>2
    <3> QED
      BY <3>1, <3>2 DEF MadeInv
  <2> QED
    BY <2>1, <2>2, TwoPrograms
<1> QED
  BY <1>5, <1>6, <1>7

LEMMA BeginInv == ASSUME Careful, Begin PROVE TalkInv'
<1> USE DEF Careful, TalkInv
<1>1. Premise \in Programs /\ Conclusion \in Programs /\ Premise # Conclusion
  BY SemShmAssumption DEF Programs
<1>2. at[Premise] = "begin" /\ Goto(Premise, "write")
  BY DEF Begin
<1>3. /\ last' = [last EXCEPT ![Premise] = Opening]
      /\ UNCHANGED <<made, value, memory, language, copied, s, i, alarmed, params>>
  BY DEF Begin
<1>4. at'[Premise] = "write" /\ at'[Conclusion] = at[Conclusion]
  BY <1>1, <1>2 DEF Goto, DemoTypeOK
<1>5. Has(Premise) /\ ~Has(Conclusion)
  BY <1>2 DEF Has, TurnInv
<1>6. TurnInv' /\ PlaceInv'
  <2>1. Has(Premise)' /\ ~Has(Conclusion)'
    BY <1>1, <1>4, <1>5 DEF Has
  <2> QED
    BY <1>2, <1>3, <1>4, <1>5, <2>1 DEF TurnInv, PlaceInv
<1>7. MadeInv'
  BY <1>2, <1>3, <1>4 DEF MadeInv, MadeFirst, MadeSecond
<1>8. i[Premise] = 0 /\ i[Conclusion] = 0 /\ params.iterations \in Nat \ {0}
  BY <1>1, <1>2 DEF CountInv, ToOpen, DemoTypeOK
<1>9. CountInv'
  BY <1>2, <1>3, <1>4, <1>8 DEF CountInv, ToOpen, Ending
<1>10. /\ Number(Premise)' = 1 /\ Number(Conclusion)' = Number(Conclusion)
       /\ lastSpeaker' = Premise
  BY <1>1, <1>3, <1>4, <1>8 DEF Number, ToOpen, lastSpeaker
<1>11. copied[Premise] = 0
  BY <1>1, <1>2 DEF SpeakerInv, Reading
<1>12. at[Conclusion] \notin Reading \cup {"write"}
  BY <1>1, <1>5 DEF Has
<1>13. SpeakerInv'
  BY <1>1, <1>3, <1>4, <1>10, <1>11, <1>12, TwoPrograms DEF SpeakerInv, Reading
<1>14. TextInv'
  <2>1. \A q \in Programs : last'[q] = Text(Number(q)')
    BY <1>1, <1>3, <1>10, TwoPrograms DEF TextInv, Opening, DemoTypeOK
  <2>2. \A half \in Halves : ~(half <= copied'[Premise])
    BY <1>3, <1>11 DEF Halves
  <2>3. \A q \in Programs : at'[q] \notin Reading
    BY <1>4, <1>12, TwoPrograms DEF Reading
  <2> QED
    BY <1>1, <1>4, <2>1, <2>2, <2>3 DEF TextInv
<1> QED
  BY <1>3, <1>6, <1>7, <1>9, <1>13, <1>14

LEMMA ReadHalfInv == ASSUME Careful, NEW p \in Programs, ReadHalf(p) PROVE TalkInv'
<1> USE DEF Careful, TalkInv
<1>1. at[p] \in Reading /\ copied[p] \in 0..1
  BY DEF ReadHalf, Reading, DemoTypeOK
<1> DEFINE half == copied[p] + 1
<1>2. half \in Halves /\ half \in 1..2 /\ half > copied[p]
  BY <1>1 DEF Halves
<1>3. /\ copied' = [copied EXCEPT ![p] = half]
      /\ s' = [s EXCEPT ![p] = [@ EXCEPT ![half] = memory[half]]]
      /\ UNCHANGED <<made, value, memory, language, at, i, last, alarmed, params>>
  BY DEF ReadHalf
<1>4. \A h \in Halves : s'[p][h] = IF h = half THEN memory[half] ELSE s[p][h]
  BY <1>2, <1>3 DEF DemoTypeOK, Texts
<1>5. \A q \in Programs : q # p => s'[q] = s[q] /\ copied'[q] = copied[q]
  BY <1>3 DEF DemoTypeOK
<1>6. copied'[p] = half
  BY <1>3 DEF DemoTypeOK
<1>7. \A q \in Programs : at[q] # "write"
  BY <1>1, AloneInv DEF Reading
<1>8. memory[half] = Number(lastSpeaker)
  BY <1>2, <1>7 DEF TextInv
<1>9. half - 1 = copied[p]
  BY <1>1
<1> HIDE DEF half
<1>10. lastSpeaker' = lastSpeaker /\ \A q \in Programs : Number(q)' = Number(q)
  BY <1>3 DEF lastSpeaker, Number
<1>11. Number(lastSpeaker)' = Number(lastSpeaker)
  BY <1>10, SpeakerType
<1>12. TurnInv' /\ MadeInv' /\ CountInv' /\ PlaceInv'
  BY <1>3 DEF TurnInv, Has, MadeInv, MadeFirst, MadeSecond, CountInv, PlaceInv
<1>13. SpeakerInv'
  BY <1>1, <1>3, <1>5, <1>7, <1>10 DEF SpeakerInv
<1>14. ASSUME NEW h \in 1..half PROVE s'[p][h] = Number(lastSpeaker)
  <2>1. CASE h = half
    BY <1>2, <1>4, <1>8, <2>1
  <2>2. CASE h # half
    <3>1. h \in 1..copied[p] /\ h \in Halves
      BY <1>1, <1>2, <1>9, <2>2 DEF Halves
    <3> QED
      BY <1>1, <1>4, <2>2, <3>1 DEF TextInv
  <2> QED
    BY <2>1, <2>2
<1>15. \A q \in Programs : at'[q] \in Reading =>
         \A h \in 1..copied'[q] : s'[q][h] = Number(lastSpeaker)
  BY <1>1, <1>3, <1>6, <1>14, AloneInv
<1>16. TextInv'
  BY <1>3, <1>7, <1>10, <1>11, <1>15 DEF TextInv
<1> QED
  BY <1>3, <1>12, <1>13, <1>16

\* The moves after which p has forgotten what it read, but keeps its turn.
LEMMA ForgetInv ==
  ASSUME Careful, NEW p \in Programs, NEW next \in {"release", "check", "answer"},
         at[p] \in Reading, Forget(p, next), UNCHANGED <<i, last, alarmed>>,
         next \in {"check", "answer"} => lastSpeaker # p,
         next = "answer" => p = Conclusion,
         next = "release" => p = lastSpeaker
  PROVE  TalkInv'
<1> USE DEF Careful, TalkInv
<1>1. at'[p] = next /\ \A q \in Programs : q # p => at'[q] = at[q]
  BY DEF Forget, Goto, DemoTypeOK
<1>2. copied'[p] = 0 /\ \A q \in Programs : q # p => copied'[q] = copied[q] /\ s'[q] = s[q]
  BY DEF Forget, DemoTypeOK
<1>3. UNCHANGED <<made, value, memory, language, params, i, last, alarmed>> /\ Goto(p, next)
  BY DEF Forget
<1>4. Premise \in Programs /\ Conclusion \in Programs /\ Premise # Conclusion
  BY SemShmAssumption DEF Programs
<1>5. TurnInv' /\ MadeInv' /\ PlaceInv'
  BY <1>3, <1>4, KeepInv DEF Has, Reading
<1>6. CountInv'
  BY <1>1, <1>3, <1>4, TwoPrograms DEF CountInv, ToOpen, Ending, Reading
<1>7. \A q \in Programs : q # p => at[q] \notin Reading \cup {"write"}
  BY AloneInv
<1>8. lastSpeaker' = lastSpeaker
  BY <1>3 DEF lastSpeaker
<1>9. ASSUME NEW q \in Programs PROVE Number(q)' = Number(q)
  <2>1. at[q] \in ToOpen <=> at'[q] \in ToOpen
    BY <1>1 DEF ToOpen, Reading
  <2> QED
    BY <1>3, <2>1 DEF Number
<1>10. Number(lastSpeaker)' = Number(lastSpeaker)
  BY <1>8, <1>9, SpeakerType
<1>11. SpeakerInv'
  BY <1>1, <1>2, <1>7, <1>8 DEF SpeakerInv
<1>12. \A half \in Halves : memory[half] = Number(lastSpeaker)
  BY <1>7 DEF TextInv, Reading
<1>13. \A q \in Programs : at'[q] \in Reading => copied'[q] = 0
  BY <1>1, <1>2, <1>7
<1>14. TextInv'
  BY <1>3, <1>9, <1>10, <1>12, <1>13 DEF TextInv
<1> QED
  BY <1>3, <1>5, <1>6, <1>11, <1>14

\* p says what follows on what the other said.
LEMMA SayInv ==
  ASSUME Careful, NEW p \in Programs, at[p] \in Reading, copied[p] = 2, lastSpeaker # p,
         Say(p, Digested(s[p]))
  PROVE  TalkInv'
<1> USE DEF Careful, TalkInv
<1>1. Premise \in Programs /\ Conclusion \in Programs /\ Premise # Conclusion
  BY SemShmAssumption DEF Programs
<1>2. /\ last' = [last EXCEPT ![p] = Digested(s[p])] /\ i' = [i EXCEPT ![p] = @ + 1]
      /\ Forget(p, "write") /\ UNCHANGED alarmed
  BY DEF Say
<1>3. at'[p] = "write" /\ \A q \in Programs : q # p => at'[q] = at[q]
  BY <1>2 DEF Forget, Goto, DemoTypeOK
<1>4. copied'[p] = 0 /\ \A q \in Programs : q # p => copied'[q] = copied[q]
  BY <1>2 DEF Forget, DemoTypeOK
<1>5. UNCHANGED <<made, value, memory, language, params, alarmed>> /\ Goto(p, "write")
  BY <1>2 DEF Forget
<1>6. i'[p] = i[p] + 1 /\ \A q \in Programs : q # p => i'[q] = i[q]
  BY <1>2 DEF DemoTypeOK
<1>7. TurnInv' /\ MadeInv' /\ PlaceInv'
  BY <1>5, KeepInv DEF Has, Reading
<1>8. /\ Number(lastSpeaker) = Number(p) + 1 /\ i[p] < params.iterations
      /\ IF p = Premise THEN i[Conclusion] = i[p] + 1 ELSE i[Premise] = i[p]
      /\ at[Premise] \notin ToOpen
  BY NextText
<1>9. i[Premise] \in Nat /\ i[Conclusion] \in Nat /\ params.iterations \in Nat
  BY <1>1 DEF DemoTypeOK
<1>10. lastSpeaker' = p
  BY <1>1, <1>6, <1>8, <1>9, TwoPrograms DEF lastSpeaker
<1>11. CountInv'
  <2>1. CASE p = Premise
    BY <1>1, <1>3, <1>5, <1>6, <1>8, <1>9, <2>1 DEF CountInv, ToOpen, Ending
  <2>2. CASE p = Conclusion
    BY <1>1, <1>3, <1>5, <1>6, <1>8, <1>9, <2>2 DEF CountInv, ToOpen, Ending, Reading
  <2> QED
    BY <2>1, <2>2, TwoPrograms
<1>12. \A q \in Programs : q # p => at[q] \notin Reading \cup {"write"}
  BY AloneInv
<1>13. SpeakerInv'
  BY <1>3, <1>4, <1>10, <1>12 DEF SpeakerInv, Reading
<1>14. Number(p)' = Number(p) + 2
  <2>1. CASE p = Premise
    BY <1>1, <1>3, <1>6, <1>8, <1>9, <2>1 DEF Number, ToOpen
  <2>2. CASE p = Conclusion
    BY <1>1, <1>6, <1>9, <2>2 DEF Number
  <2> QED
    BY <2>1, <2>2, TwoPrograms
<1>15. \A q \in Programs : q # p => Number(q)' = Number(q)
  BY <1>3, <1>6 DEF Number
<1>16. Digested(s[p]) = Text(Number(p)')
  <2>1. s[p] = Text(Number(lastSpeaker)) /\ Number(lastSpeaker) \in Nat /\ Number(p) \in Nat
    BY ReadText, NumberType, SpeakerType
  <2>2. md5[s[p]] = Text(Number(lastSpeaker) + 1)
    BY <2>1, Digest
  <2>3. Number(lastSpeaker) + 1 = Number(p)'
    BY <1>8, <1>14, <2>1
  <2> QED
    BY <2>2, <2>3 DEF Digested
<1>17. ASSUME NEW q \in Programs PROVE last'[q] = Text(Number(q)')
  <2>1. CASE q = p
    BY <1>2, <1>16, <2>1 DEF DemoTypeOK
  <2>2. CASE q # p
    <3>1. last'[q] = last[q]
      BY <1>2, <2>2 DEF DemoTypeOK
    <3> QED
      BY <1>15, <2>2, <3>1 DEF TextInv
  <2> QED
    BY <2>1, <2>2
<1>18. \A half \in Halves : ~(half <= copied'[p])
  BY <1>4 DEF Halves
<1>19. \A q \in Programs : at'[q] \notin Reading
  BY <1>3, <1>12 DEF Reading
<1>20. TextInv'
  BY <1>3, <1>17, <1>18, <1>19 DEF TextInv
<1> QED
  BY <1>5, <1>7, <1>11, <1>13, <1>20

LEMMA WriteHalfInv == ASSUME Careful, NEW p \in Programs, WriteHalf(p) PROVE TalkInv'
<1> USE DEF Careful, TalkInv
<1>1. at[p] = "write" /\ lastSpeaker = p /\ copied[p] \in 0..1
  BY DEF WriteHalf, SpeakerInv, DemoTypeOK
<1> DEFINE half == copied[p] + 1
           next == IF half < 2 THEN "write"
                   ELSE IF p = Premise /\ Finished(p) THEN "last_release" ELSE "release"
           count == IF half < 2 THEN half ELSE 0
<1>2. half \in Halves /\ half \in 1..2 /\ half - 1 = copied[p]
  BY <1>1 DEF Halves
<1>3. memory' = [memory EXCEPT ![half] = last[p][half]]
  BY DEF WriteHalf
<1>4. copied' = [copied EXCEPT ![p] = count]
  BY DEF WriteHalf
<1>5. Goto(p, next)
  BY <1>1 DEF WriteHalf, Goto, DemoTypeOK
<1>6. UNCHANGED <<made, value, language, s, i, last, alarmed, params>>
  BY DEF WriteHalf
<1>7. /\ next \in {"write", "release", "last_release"}
      /\ next = "last_release" => p = Premise /\ i[p] = params.iterations
      /\ next = "release" => p = Conclusion \/ i[p] # params.iterations
      /\ next = "write" => half = 1 /\ count = 1
      /\ next # "write" => half = 2 /\ count = 0
  BY <1>2, TwoPrograms DEF Finished
<1> HIDE DEF half, next, count
<1>8. at'[p] = next /\ \A q \in Programs : q # p => at'[q] = at[q]
  BY <1>5 DEF Goto, DemoTypeOK
<1>9. copied'[p] = count /\ \A q \in Programs : q # p => copied'[q] = copied[q]
  BY <1>4 DEF DemoTypeOK
<1>10. Premise \in Programs /\ Conclusion \in Programs /\ Premise # Conclusion
  BY SemShmAssumption DEF Programs
<1>11. TurnInv' /\ MadeInv' /\ PlaceInv'
  BY <1>1, <1>5, <1>6, <1>7, <1>10, TwoPrograms, KeepInv DEF Has
<1>12. CountInv'
  BY <1>1, <1>6, <1>7, <1>8, <1>10, TwoPrograms DEF CountInv, ToOpen, Ending
<1>13. \A q \in Programs : q # p => at[q] \notin Reading \cup {"write"}
  BY <1>1, AloneInv
<1>14. lastSpeaker' = p
  BY <1>1, <1>6 DEF lastSpeaker
<1>15. ASSUME NEW q \in Programs PROVE Number(q)' = Number(q)
  <2>1. at[q] \in ToOpen <=> at'[q] \in ToOpen
    BY <1>1, <1>7, <1>8 DEF ToOpen
  <2> QED
    BY <1>6, <2>1 DEF Number
<1>16. SpeakerInv'
  BY <1>7, <1>8, <1>9, <1>13, <1>14 DEF SpeakerInv, Reading
<1>17. last[p] = Text(Number(p)) /\ Number(p) \in Nat
  BY NumberType DEF TextInv
<1>18. \A h \in Halves : memory'[h] = IF h = half THEN Number(p) ELSE memory[h]
  <2>1. last[p][half] = Number(p)
    BY <1>2, <1>17 DEF Text
  <2> QED
    BY <1>3, <2>1 DEF DemoTypeOK, Texts
<1>19. ASSUME NEW h \in Halves, \A q \in Programs : at'[q] = "write" => h <= copied'[q]
       PROVE  memory'[h] = Number(p)
  <2>1. h <= half
    BY <1>7, <1>8, <1>9, <1>19 DEF Halves
  <2>2. CASE h # half
    <3>1. h <= copied[p]
      BY <1>1, <1>2, <2>1, <2>2 DEF Halves
    <3>2. memory[h] = Number(lastSpeaker)
      BY <1>13, <3>1 DEF TextInv
    <3> QED
      BY <1>1, <1>18, <2>2, <3>2
  <2> QED
    BY <1>18, <2>2
<1>20. \A q \in Programs : at'[q] \notin Reading
  BY <1>7, <1>8, <1>13 DEF Reading
<1>21. TextInv'
  <2>1. \A q \in Programs : last'[q] = Text(Number(q)')
    BY <1>6, <1>15 DEF TextInv
  <2>2. Number(lastSpeaker)' = Number(p)
    BY <1>14, <1>15
  <2> QED
    BY <1>19, <1>20, <2>1, <2>2 DEF TextInv
<1> QED
  BY <1>6, <1>11, <1>12, <1>16, <1>21

\* Whoever examines what she has read, examines what the other said, and
\* finds it to be right.
LEMMA Heard ==
  ASSUME Careful, NEW p \in Programs, Examines(p) \/ HasRead(p, "answer")
  PROVE  at[p] \in Reading /\ copied[p] = 2 /\ lastSpeaker # p /\ Passes(p)
<1> USE DEF Careful, TalkInv
<1>1. at[p] \in Reading /\ copied[p] = 2
  BY DEF Examines, HasRead, Reading
<1>2. s[p] = Text(Number(lastSpeaker))
  BY <1>1, ReadText
<1>3. last[p] = Text(Number(p)) /\ Number(p) \in Nat
  BY NumberType DEF TextInv
<1>4. lastSpeaker # p
  <2>1. CASE at[p] \in {"check", "answer"}
    BY <2>1 DEF SpeakerInv
  <2>2. CASE s[p] # last[p]
    BY <1>2, <1>3, <2>2
  <2> QED
    BY <2>1, <2>2 DEF Examines, HasRead
<1>5. Number(lastSpeaker) = Number(p) + 1
  BY <1>1, <1>4, NextText
<1>6. s[p] = md5[last[p]]
  BY <1>2, <1>3, <1>5, Digest
<1> QED
  BY <1>1, <1>4, <1>6 DEF Passes

\* Every step of careful programs keeps the invariant, and says nothing, the
\* opening, or what follows on what the other said.
Answers(p) ==
  /\ at[p] \in Reading /\ copied[p] = 2 /\ lastSpeaker # p
  /\ Say(p, Digested(s[p]))

LEMMA CarefulStep ==
  ASSUME Careful, "C" \notin Interrupted, Next
  PROVE  /\ TalkInv' /\ params' = params
         /\ UNCHANGED <<i, last>> \/ Begin \/ \E p \in Programs : Answers(p)
<1> DEFINE Goal == /\ TalkInv' /\ params' = params
                   /\ UNCHANGED <<i, last>> \/ Begin \/ \E p \in Programs : Answers(p)
<1>1. ASSUME NEW p \in Programs, Make(p) PROVE Goal
  BY <1>1, MakeInv DEF Make, Create, Open, OnlyGoto
<1>2. ASSUME NEW p \in Programs, Acquire(p) PROVE Goal
  BY <1>2, AcquireInv DEF Acquire, acquire_semaphore, OnlyGoto, Semop, Failed
<1>3. ASSUME NEW p \in Programs, Interrupt(p) PROVE Goal
  BY <1>3, InterruptInv DEF Interrupt, Failed, OnlyGoto
<1>4. ASSUME NEW p \in Programs, Release(p) PROVE Goal
  BY <1>4, ReleaseInv DEF Release, release_semaphore, OnlyGoto, Semop, Failed
<1>5. ASSUME NEW p \in Programs, ReadHalf(p) PROVE Goal
  BY <1>5, ReadHalfInv DEF ReadHalf
<1>6. ASSUME NEW p \in Programs, NEW text, Say(p, text) PROVE params' = params
  BY <1>6 DEF Say, Forget
<1>7. ASSUME NEW p \in Programs, Again(p) PROVE Goal
  <2>1. at[p] \in Reading /\ copied[p] = 2
    BY <1>7 DEF Again, HasRead, Reading
  <2>2. s[p] = Text(Number(lastSpeaker)) /\ last[p] = Text(Number(p))
    BY <2>1, ReadText DEF Careful, TalkInv, TextInv
  <2>3. Number(p) \in Int /\ Number(lastSpeaker) \in Int
    BY NumberType, SpeakerType DEF Careful
  <2>4. Number(lastSpeaker) = Number(p)
    BY <1>7, <2>2, <2>3, TextsDiffer DEF Again
  <2>5. lastSpeaker = p
    BY <2>1, <2>3, <2>4, NextText
  <2>6. Forget(p, "release") /\ UNCHANGED <<i, last, alarmed>>
    BY <1>7 DEF Again
  <2>7. TalkInv'
    BY <2>1, <2>5, <2>6, ForgetInv
  <2> QED
    BY <2>6, <2>7 DEF Forget
<1>8. ASSUME NEW p \in Programs, Reread(p) PROVE Goal
  <2>1. at[p] \in Reading /\ copied[p] = 2 /\ s[p] # last[p]
    BY <1>8 DEF Reread, HasRead, Reading
  <2>2. lastSpeaker # p
    BY <2>1, ReadText DEF Careful, TalkInv, TextInv
  <2>3. Forget(p, "check") /\ UNCHANGED <<i, last, alarmed>>
    BY <1>8 DEF Reread
  <2>4. TalkInv'
    BY <2>1, <2>2, <2>3, ForgetInv
  <2> QED
    BY <2>3, <2>4 DEF Forget
<1>9. ASSUME NEW p \in Programs, Accept(p) PROVE Goal
  <2>1. at[p] \in Reading /\ copied[p] = 2 /\ lastSpeaker # p
    BY <1>9, Heard DEF Accept
  <2>2. CASE p = Conclusion /\ language[p] = "C"
    <3>1. Forget(p, "answer") /\ UNCHANGED <<i, last, alarmed>>
      BY <1>9, <2>2 DEF Accept
    <3>2. TalkInv'
      BY <2>1, <2>2, <3>1, ForgetInv
    <3> QED
      BY <3>1, <3>2 DEF Forget
  <2>3. CASE ~(p = Conclusion /\ language[p] = "C")
    <3>1. Say(p, Digested(s[p]))
      BY <1>9, <2>3 DEF Accept
    <3>2. Answers(p)
      BY <2>1, <3>1 DEF Answers
    <3>3. TalkInv'
      BY <2>1, <3>1, SayInv
    <3> QED
      BY <1>6, <3>1, <3>2, <3>3
  <2> QED
    BY <2>2, <2>3
<1>10. ASSUME NEW p \in Programs, Answer(p) PROVE Goal
  <2>1. at[p] \in Reading /\ copied[p] = 2 /\ lastSpeaker # p
    BY <1>10, Heard DEF Answer
  <2>2. Say(p, Digested(s[p]))
    BY <1>10 DEF Answer
  <2>3. TalkInv'
    BY <2>1, <2>2, SayInv
  <2> QED
    BY <1>6, <2>1, <2>2, <2>3 DEF Answers
<1>11. ASSUME NEW p \in Programs, Alarm(p) PROVE Goal
  BY <1>11, Heard DEF Alarm
<1>12. ASSUME NEW p \in Programs, WriteHalf(p) PROVE Goal
  BY <1>12, WriteHalfInv DEF WriteHalf
<1>13. ASSUME Begin PROVE Goal
  BY <1>13, BeginInv DEF Begin
<1>14. ASSUME LastRelease PROVE Goal
  BY <1>14, LastReleaseInv DEF LastRelease, release_semaphore, OnlyGoto, Semop, Failed
<1>15. ASSUME NEW object, NEW statement, NEW next, Destroy(object, statement, next)
       PROVE params' = params /\ UNCHANGED <<i, last>>
  BY <1>15 DEF Destroy
<1>16. ASSUME \/ Destroy("memory", "remove_memory", "remove_semaphore")
              \/ Destroy("semaphore", "remove_semaphore", "done")
       PROVE  Goal
  BY <1>15, <1>16, DestroyInv
<1>17. ASSUME NEW p \in Programs, Statement(p) PROVE Goal
  BY <1>1, <1>4, <1>5, <1>7, <1>8, <1>9, <1>10, <1>11, <1>12, <1>13, <1>14, <1>16, <1>17
     DEF Statement
<1> HIDE DEF Goal
<1>18. Goal
  BY <1>1, <1>2, <1>3, <1>17 DEF Next
<1> QED
  BY <1>18 DEF Goal

\* The parameters never change, of programs that live dangerously either.
LEMMA ParamsStay == [Next]_vars => params' = params
<1> SUFFICES ASSUME [Next]_vars PROVE params' = params
  OBVIOUS
<1> USE DEF OnlyGoto, Semop, Failed, Forget
<1>1. CASE UNCHANGED vars
  BY <1>1 DEF vars
<1>2. ASSUME NEW p \in Programs, Make(p) PROVE params' = params
  BY <1>2 DEF Make, Create, Open
<1>3. ASSUME NEW p, NEW next, release_semaphore(p, next) PROVE params' = params
  BY <1>3 DEF release_semaphore
<1>4. ASSUME NEW p \in Programs, Acquire(p) PROVE params' = params
  BY <1>4 DEF Acquire, acquire_semaphore
<1>5. ASSUME NEW p \in Programs, Interrupt(p) PROVE params' = params
  BY <1>5 DEF Interrupt
<1>6. ASSUME NEW p \in Programs, Accept(p) \/ Answer(p) PROVE params' = params
  BY <1>6 DEF Accept, Answer, Say
<1>7. ASSUME NEW p \in Programs,
             ReadHalf(p) \/ Again(p) \/ Reread(p) \/ Alarm(p) \/ WriteHalf(p)
      PROVE  params' = params
  BY <1>7 DEF ReadHalf, Again, Reread, Alarm, WriteHalf
<1>8. ASSUME NEW p \in Programs, Statement(p) PROVE params' = params
  <2>1. CASE Release(p) \/ LastRelease
    BY <1>3, <2>1 DEF Release, LastRelease
  <2>2. CASE Begin
    BY <2>2 DEF Begin
  <2>3. ASSUME NEW object, NEW statement, NEW next, Destroy(object, statement, next)
        PROVE  params' = params
    BY <2>3 DEF Destroy
  <2> QED
    BY <1>2, <1>6, <1>7, <1>8, <2>1, <2>2, <2>3 DEF Statement
<1> QED
  BY <1>1, <1>2, <1>4, <1>5, <1>8 DEF Next

LEMMA DemoStep == ASSUME "C" \notin Interrupted, DemoInv, [Next]_vars PROVE DemoInv'
<1>1. DemoTypeOK' /\ params' = params
  BY TypeStep, ParamsStay DEF DemoInv
<1>2. CASE params.live_dangerously
  BY <1>1, <1>2 DEF DemoInv
<1>3. CASE ~params.live_dangerously /\ UNCHANGED vars
  <2>1. TalkInv'
    BY <1>3 DEF DemoInv, vars, TalkInv, TurnInv, Has, MadeInv, MadeFirst, MadeSecond,
         CountInv, PlaceInv, SpeakerInv, TextInv, Number, lastSpeaker
  <2> QED
    BY <1>1, <2>1 DEF DemoInv
<1>4. CASE ~params.live_dangerously /\ Next
  <2>1. Careful
    BY <1>4 DEF DemoInv, Careful
  <2> QED
    BY <1>1, <1>4, <2>1, CarefulStep DEF DemoInv
<1> QED
  BY <1>2, <1>3, <1>4

\* If no signal reaches a C program, DemoInv holds throughout.
THEOREM DemoInvHolds == ASSUME "C" \notin Interrupted PROVE Spec => []DemoInv
<1>1. DemoInv /\ [Next]_vars => DemoInv'
  BY DemoStep
<1> QED
  BY <1>1, DemoInitInv, PTL DEF Spec

----------------------------------------------------------------------------
(* What follows.                                                           *)

\* However many messages they exchange and whatever they are written in, Mrs.
\* Premise and Mrs. Conclusion never find one corrupted (ReadMe.txt:29-31).
THEOREM NoCorruptionHolds == ASSUME "C" \notin Interrupted PROVE Spec => []NoCorruption
<1>1. DemoInv => NoCorruption
  BY DEF DemoInv, TalkInv, NoCorruption
<1> QED
  BY <1>1, DemoInvHolds, PTL

\* What Premise removes at her end Conclusion no longer needs (premise.c:161).
THEOREM RemovedOnlyAtTheEndHolds ==
  ASSUME "C" \notin Interrupted PROVE Spec => []RemovedOnlyAtTheEnd
<1>1. DemoInv => RemovedOnlyAtTheEnd
  <2> SUFFICES ASSUME DemoInv, ~params.live_dangerously, NEW object \in Objects,
                      made[object] = "removed"
               PROVE  at[Conclusion] = "done" /\ i[Conclusion] = params.iterations
    BY DEF RemovedOnlyAtTheEnd, DemoInv, DemoTypeOK
  <2> USE DEF DemoInv, TalkInv
  <2>1. MadeFirst(Premise) # MadeSecond(Premise) /\
        {MadeFirst(Premise), MadeSecond(Premise)} = Objects
    BY DEF MadeFirst, MadeSecond, Objects
  <2>2. at[Premise] \in {"remove_semaphore", "done"}
    BY <2>1 DEF MadeInv, Objects
  <2>3. i[Premise] = params.iterations /\ Has(Premise)
    BY <2>2 DEF CountInv, Ending, Has
  <2>4. i[Conclusion] = params.iterations
    BY <2>3 DEF CountInv, DemoTypeOK, Programs
  <2>5. ~Has(Conclusion)
    BY <2>3 DEF TurnInv
  <2> QED
    BY <2>4, <2>5, SemShmAssumption DEF CountInv, Has
<1> QED
  BY <1>1, DemoInvHolds, PTL

\* With no signals to C programs only one program at a time is at the memory,
\* and who waits for the semaphore waits for the other's release.
THEOREM TakeTurnsHolds ==
  ASSUME "C" \notin Interrupted PROVE Spec => []TakeTurns
<1>1. DemoInv => TakeTurns
  <2> SUFFICES ASSUME DemoInv, ~params.live_dangerously PROVE TakeTurns
    BY DEF TakeTurns
  <2> USE DEF DemoInv, TalkInv
  <2>1. Premise \in Programs /\ Conclusion \in Programs /\ Premise # Conclusion
    BY SemShmAssumption DEF Programs
  <2>2. \A p \in Programs : InTurn(p) => Has(p)
    BY <2>1, TwoPrograms DEF InTurn, Has, PlaceInv, Ending, Reading
  <2>3. ~(InTurn(Premise) /\ InTurn(Conclusion))
    BY <2>1, <2>2 DEF TurnInv
  <2>4. ASSUME at[Premise] \in {"acquire", "last_acquire"}, value = 0
        PROVE  InTurn(Conclusion)
    <3>1. ~Has(Premise)
      BY <2>4 DEF Has
    <3>2. Has(Conclusion)
      BY <2>4, <3>1 DEF TurnInv
    <3> QED
      BY <2>1, <3>2 DEF Has, InTurn, Reading
  <2>5. ASSUME at[Conclusion] \in {"acquire", "last_acquire"}, value = 0
        PROVE  InTurn(Premise)
    <3>1. at[Conclusion] = "acquire"
      BY <2>5 DEF PlaceInv, Ending
    <3>2. ~Has(Conclusion)
      BY <2>1, <3>1 DEF Has, Reading
    <3>3. Has(Premise)
      BY <2>5, <3>2 DEF TurnInv
    <3>4. at[Premise] \notin {"start", "second"}
      BY <3>1 DEF MadeInv
    <3>5. at[Premise] \notin {"remove_memory", "remove_semaphore", "done"}
      <4>1. i[Conclusion] # params.iterations
        BY <3>1 DEF CountInv
      <4> QED
        BY <2>1, <4>1 DEF CountInv, Ending, DemoTypeOK
    <3>6. at[Premise] \in Statements /\ at[Premise] \notin {"acquire", "last_acquire", "raised"}
      BY <2>1, <3>3 DEF Has, DemoTypeOK
    <3> QED
      BY <3>4, <3>5, <3>6 DEF InTurn, Statements, ToOpen, Ending, Reading
  <2> QED
    BY <2>1, <2>3, <2>4, <2>5, TwoPrograms DEF TakeTurns, AfterAcquire
<1> QED
  BY <1>1, DemoInvHolds, PTL

\* What an observer of the conversation sees: the mapping of TheConversation.
Saying ==
  IF last[Premise] = Empty \/ params.live_dangerously THEN [by |-> Conclusion]
  ELSE [by |-> lastSpeaker, text |-> last[lastSpeaker]]

LEMMA SayingStep ==
  ASSUME "C" \notin Interrupted, DemoInv, [Next]_vars
  PROVE  [TheConversation!ConversationNext]_Saying
<1>1. params' = params
  BY ParamsStay
<1>2. CASE params.live_dangerously
  BY <1>1, <1>2 DEF Saying
<1>3. CASE UNCHANGED <<i, last>>
  BY <1>1, <1>3 DEF Saying, lastSpeaker
<1>4. CASE ~params.live_dangerously /\ Next
  <2> USE DEF Careful, TalkInv
  <2>1. Careful
    BY <1>4 DEF DemoInv
  <2>2. Premise \in Programs /\ Conclusion \in Programs /\ Premise # Conclusion
    BY SemShmAssumption DEF Programs
  <2>3. Number(Premise) \in Nat /\ Number(Conclusion) \in Nat
    BY <2>1, <2>2, NumberType
  <2>4. last[Premise] = Empty <=> Number(Premise) = 0
    BY <2>1, <2>2, <2>3, TextsDiffer DEF TextInv, Empty
  <2>5. CASE Begin
    <3>1. at[Premise] = "begin" /\ last' = [last EXCEPT ![Premise] = Opening] /\ i' = i
      BY <2>5 DEF Begin
    <3>2. Number(Premise) = 0 /\ i[Premise] = 0 /\ i[Conclusion] = 0
      BY <2>1, <2>2, <3>1 DEF Number, ToOpen, CountInv, DemoTypeOK
    <3>3. Saying = [by |-> Conclusion]
      BY <2>4, <3>2 DEF Saying
    <3>4. last'[Premise] = Opening /\ lastSpeaker' = Premise
      BY <2>1, <2>2, <3>1, <3>2 DEF DemoTypeOK, lastSpeaker
    <3>5. Opening # Empty
      BY TextsDiffer DEF Opening, Empty
    <3>6. Saying' = [by |-> Premise, text |-> Opening]
      BY <1>1, <1>4, <3>4, <3>5 DEF Saying
    <3> QED
      BY <3>3, <3>6 DEF TheConversation!ConversationNext, TheConversation!Open,
         TheConversation!Silence, Saying
  <2>6. ASSUME NEW p \in Programs, Answers(p) PROVE TheConversation!ConversationNext
    <3>1. /\ at[p] \in Reading /\ copied[p] = 2 /\ lastSpeaker # p
          /\ last' = [last EXCEPT ![p] = md5[s[p]]] /\ i' = [i EXCEPT ![p] = @ + 1]
      BY <2>6 DEF Answers, Say, Digested
    <3>2. /\ at[Premise] \notin ToOpen /\ i[p] < params.iterations
          /\ IF p = Premise THEN i[Conclusion] = i[p] + 1 ELSE i[Premise] = i[p]
      BY <2>1, <3>1, NextText
    <3>3. i[Premise] \in Nat /\ i[Conclusion] \in Nat
      BY <2>1, <2>2 DEF DemoTypeOK
    <3>4. Number(Premise) # 0
      BY <2>2, <3>2, <3>3 DEF Number
    <3>5. Saying = [by |-> lastSpeaker, text |-> last[lastSpeaker]]
      BY <1>4, <2>4, <3>4 DEF Saying
    <3>6. s[p] = last[lastSpeaker]
      BY <2>1, <3>1, ReadText, SpeakerType DEF TextInv
    <3>7. lastSpeaker' = p
      BY <2>1, <2>2, <3>1, <3>2, <3>3, TwoPrograms DEF lastSpeaker, DemoTypeOK
    <3>8. last'[p] = md5[last[lastSpeaker]]
      BY <2>1, <3>1, <3>6 DEF DemoTypeOK
    <3>9. last'[Premise] # Empty
      <4>1. TalkInv' /\ DemoTypeOK'
        BY <1>4, <2>1, CarefulStep, TypeStep
      <4>2. Number(Premise)' # 0 /\ Number(Premise)' \in Nat
        <5>1. at'[Premise] \notin ToOpen
          BY <2>1, <2>2, <2>6, <3>2 DEF Answers, Say, Forget, Goto, DemoTypeOK, ToOpen
        <5>2. i'[Premise] \in Nat
          BY <2>2, <4>1 DEF DemoTypeOK
        <5> QED
          BY <2>2, <5>1, <5>2 DEF Number
      <4>3. last'[Premise] = Text(Number(Premise)')
        BY <2>2, <4>1 DEF TextInv
      <4> QED
        BY <4>2, <4>3, TextsDiffer DEF Empty
    <3>10. Saying' = [by |-> p, text |-> md5[last[lastSpeaker]]]
      BY <1>1, <1>4, <3>7, <3>8, <3>9 DEF Saying
    <3>11. Saying # [by |-> Conclusion]
      <4>1. DOMAIN Saying = {"by", "text"}
        BY <3>5
      <4>2. DOMAIN [by |-> Conclusion] = {"by"}
        OBVIOUS
      <4> QED
        BY <4>1, <4>2
    <3>12. Saying.by # p /\ Saying.text = last[lastSpeaker]
      BY <3>1, <3>5
    <3> QED
      BY <3>10, <3>11, <3>12, TwoPrograms DEF TheConversation!ConversationNext,
         TheConversation!Answer, TheConversation!Silence, Saying
  <2> QED
    BY <1>3, <1>4, <2>1, <2>5, <2>6, CarefulStep
<1> QED
  BY <1>2, <1>3, <1>4 DEF vars

\* With the semaphore, in every combination of languages, the programs have
\* the conversation ReadMe.txt describes.
THEOREM ConversationHolds ==
  ASSUME "C" \notin Interrupted PROVE Spec => ImplementsConversation
<1>1. Init => Saying = [by |-> Conclusion]
  BY DEF Init, Saying, Programs
<1>2. DemoInv /\ [Next]_vars => [TheConversation!ConversationNext]_Saying
  BY SayingStep
<1>3. Spec => Saying = [by |-> Conclusion] /\ [][TheConversation!ConversationNext]_Saying
  BY <1>1, <1>2, DemoInvHolds, PTL DEF Spec
<1> QED
  BY <1>3 DEF ImplementsConversation, TheConversation!ConversationSpec,
     TheConversation!Silence, Saying

=============================================================================
