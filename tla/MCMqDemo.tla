------------------------------- MODULE MCMqDemo -------------------------------
(* Small instances of MqDemo for TLC. *)
EXTENDS MqDemo, TLC

MCTexts == 0..4

\* Every text has the length one.
Alike == [text \in MCTexts |-> 1]

Alone == [p \in Procs |-> p]
ReadWrite == {{"r", "w"}}
=============================================================================
