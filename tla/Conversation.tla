----------------------------- MODULE Conversation -----------------------------
(***************************************************************************)
(* What Mrs. Premise and Mrs. Conclusion of both demos are to do: the      *)
(* first says something, then each in her turn answers what the other said *)
(* last with its digest (ReadMe.txt of demos/sem_and_shm and               *)
(* demos/message_queues).                                                  *)
(***************************************************************************)
CONSTANTS
  First, Second,   \* the two of them
  opening,         \* what the first begins with
  digest           \* md5, as a function

VARIABLE said   \* by whom the last message was, and its text

Silence == [by |-> Second]

Open == said = Silence /\ said' = [by |-> First, text |-> opening]

Answer(p) ==
  /\ said # Silence /\ said.by # p
  /\ said' = [by |-> p, text |-> digest[said.text]]

ConversationNext == Open \/ \E p \in {First, Second} : Answer(p)

ConversationSpec == said = Silence /\ [][ConversationNext]_said

=============================================================================
