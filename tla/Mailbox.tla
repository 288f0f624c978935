-------------------------------- MODULE Mailbox --------------------------------
(***************************************************************************)
(* What the MessageQueue class promises its callers: a message is put into *)
(* a box once, by a send() that returns, with the content it had when      *)
(* send() was called; it is taken at most once, by a receive() that asked  *)
(* for it and returns it; messages of one type are taken in the order they *)
(* came; a call that fails has done nothing.  The one exception is Lose:   *)
(* a receive() that is told that memory has run out may have taken one.    *)
(***************************************************************************)
EXTENDS Integers, Sequences, SequencesExt

CONSTANTS
  Boxes, Threads,
  Messages,     \* records with a type and what else there is
  Wants         \* the types callers ask receive() for

VARIABLES
  mail,     \* the messages in each box, the oldest first
  ask,      \* what each thread is waiting for
  answer    \* what its last call came back with

mailVars == <<mail, ask, answer>>

NoAsk == [kind |-> "none"]

Requests ==
  [kind : {"send"}, box : Boxes, message : Messages]
    \cup [kind : {"receive"}, box : Boxes, want : Wants]

NoAnswer == [kind |-> "none", got |-> <<>>]

\* The kind is "ok", "memory" for MemoryError, or "none": any other exception.
Reply(t, kind, got) ==
  /\ ask' = [ask EXCEPT ![t] = NoAsk]
  /\ answer' = [answer EXCEPT ![t] = [kind |-> kind, got |-> got]]

\* The types receive(type=want) may return.
Acceptable(want, type) ==
  \/ want = 0
  \/ want > 0 /\ type = want
  \/ want < 0 /\ type <= -want

\* The nth message may be taken: with want = 0 it is the oldest, and always
\* the oldest of its type.
MayTake(box, want, n) ==
  /\ n \in DOMAIN mail[box]
  /\ Acceptable(want, mail[box][n].type)
  /\ want = 0 => n = 1
  /\ \A k \in 1..(n - 1) : mail[box][k].type # mail[box][n].type

----------------------------------------------------------------------------

\* A call to send() or receive() begins.
Ask(t) ==
  /\ ask[t] = NoAsk
  /\ ask'[t] \in Requests /\ ask' = [ask EXCEPT ![t] = ask'[t]]
  /\ answer' = [answer EXCEPT ![t] = NoAnswer]
  /\ UNCHANGED mail

Post(t) ==
  /\ ask[t].kind = "send"
  /\ mail' = [mail EXCEPT ![ask[t].box] = Append(@, ask[t].message)]
  /\ Reply(t, "ok", <<>>)

Take(t, box, n) ==
  /\ ask[t].kind = "receive" /\ ask[t].box = box /\ MayTake(box, ask[t].want, n)
  /\ mail' = [mail EXCEPT ![box] = RemoveAt(@, n)]
  /\ Reply(t, "ok", <<mail[box][n]>>)

\* Memory runs out between taking the message and returning it.
Lose(t, box, n) ==
  /\ ask[t].kind = "receive" /\ ask[t].box = box /\ MayTake(box, ask[t].want, n)
  /\ mail' = [mail EXCEPT ![box] = RemoveAt(@, n)]
  /\ Reply(t, "memory", <<>>)

\* A call fails, or is not one to send() or receive(), or the caller is gone.
Other(t) ==
  /\ UNCHANGED mail
  /\ \E kind \in {"ok", "memory", "none"} :
       (kind = "ok" => ask[t] = NoAsk) /\ Reply(t, kind, <<>>)

\* A box goes with all that is in it.
Discard(box) ==
  /\ mail' = [mail EXCEPT ![box] = <<>>]
  /\ \E t \in Threads : ask[t] = NoAsk /\ Reply(t, "ok", <<>>)

\* The end of a process.
Vanish(gone) ==
  /\ ask' = [t \in Threads |-> IF t \in gone THEN NoAsk ELSE ask[t]]
  /\ answer' = [t \in Threads |-> IF t \in gone THEN NoAnswer ELSE answer[t]]
  /\ UNCHANGED mail

MailInit ==
  /\ mail = [box \in Boxes |-> <<>>]
  /\ ask = [t \in Threads |-> NoAsk]
  /\ answer = [t \in Threads |-> NoAnswer]

MailNext ==
  \/ \E t \in Threads : Other(t) \/ Ask(t) \/ Post(t)
  \/ \E t \in Threads, box \in Boxes :
       \E n \in DOMAIN mail[box] : Take(t, box, n) \/ Lose(t, box, n)
  \/ \E box \in Boxes : Discard(box)
  \/ \E gone \in SUBSET Threads : Vanish(gone)

MailSpec == MailInit /\ [][MailNext]_mailVars

=============================================================================
