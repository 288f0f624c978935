----------------------------- MODULE MCSemShmDemo -----------------------------
(* Small instances of SemShmDemo for TLC. *)
EXTENDS SemShmDemo, TLC
=============================================================================
