--------------------------- MODULE ThreadedPlugin ---------------------------
(***************************************************************************)
(* What the two kinds of worker of the threaded signing plugin             *)
(* (lib/plugins/threaded-signing/plugin.c) have in common: the buffers'    *)
(* length, what may fail in them, and their names for the models.          *)
(***************************************************************************)
EXTENDS Naturals, Sequences

CONSTANTS
  MAX_BUFFER_LENGTH,  \* length of in[] and out[] (60 in the code)
  SigningMayFail,     \* openssl_sign_hash() may fail
  AllocMayFail,       \* calloc() may fail
  NoAnswer            \* get_signature() returned false

ASSUME BufferAssumption == MAX_BUFFER_LENGTH \in Nat \ {0}
ASSUME SwitchAssumption == SigningMayFail \in BOOLEAN /\ AllocMayFail \in BOOLEAN

Worker == "worker"

(* The size of memory that has not been allocated. *)
NotAllocated == 0

=============================================================================
