--------------------------------- MODULE Keys ---------------------------------
(***************************************************************************)
(* What becomes of the key a caller passes to a constructor, and the keys  *)
(* the module draws itself (src/src/common.c).  A key is a Python int; the *)
(* module takes it for a long and hands it to the kernel as a key_t, which *)
(* is an int.                                                              *)
(***************************************************************************)
EXTENDS Integers

CONSTANTS
  None,                          \* key=None: the module draws the key
  SHRT_MAX, INT_MAX, LONG_MAX    \* limits of the C types

ASSUME KeysAssumption ==
  /\ None \notin Int
  /\ SHRT_MAX \in Nat /\ INT_MAX \in Nat /\ LONG_MAX \in Nat
  /\ 2 <= SHRT_MAX /\ SHRT_MAX <= INT_MAX /\ INT_MAX <= LONG_MAX

IPC_PRIVATE == 0

\* The limits of a long, although the code calls them those of a key.
KEY_MIN == -(LONG_MAX + 1)
KEY_MAX == LONG_MAX

KeyT == -(INT_MAX + 1)..INT_MAX

\* (key_t)key: a long narrowed to an int.
ToKeyT(n) ==
  ((n + INT_MAX + 1) % (2 * (INT_MAX + 1))) - (INT_MAX + 1)

\* None, or an int that a long holds.
Convertible(arg) == arg = None \/ arg \in KEY_MIN..KEY_MAX

\* rand() over the positive shorts but the largest.
get_random_key == 1..(SHRT_MAX - 1)

=============================================================================
