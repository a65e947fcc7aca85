------------------------- MODULE UnthreadedSigning -------------------------
(***************************************************************************)
(* The unthreaded signing plugin (lib/plugins/unthreaded-signing/plugin.c):*)
(* one session, which signs a hash inside plugin_sign() and keeps the      *)
(* signature in the array out[] until get_signature() fetches it.  The     *)
(* memory of a slot is allocated the first time the slot is used and then  *)
(* travels with the signatures when the array is shifted, so the model     *)
(* keeps the whole array, the slots behind out_idx included.               *)
(*                                                                         *)
(* Calls that change nothing are stuttering steps: plugin_sign() with no   *)
(* room, with a failing OpenSSL or a failing malloc.                       *)
(***************************************************************************)
EXTENDS Naturals, Sequences

CONSTANTS
  UNTHREADED_BUFFER_LENGTH,  \* slots of out[] (MAX_BUFFER_LENGTH, 6 in the code)
  UnthreadedHashes,          \* hashes that may be signed
  Unallocated,               \* a slot whose signature pointer is NULL
  Stale,                     \* an allocated slot that holds no signature (size 0)
  Nothing                    \* no signature was copied to the caller

ASSUME UnthreadedBufferAssumption ==
  UNTHREADED_BUFFER_LENGTH \in Nat /\ UNTHREADED_BUFFER_LENGTH >= 2
ASSUME SlotAssumption ==
  /\ Unallocated \notin UnthreadedHashes
  /\ Stale \notin UnthreadedHashes
  /\ Nothing \notin UnthreadedHashes
  /\ Unallocated # Stale

VARIABLES
  isSetUp,   \* the session has a handle
  out,       \* out[i]: the hash whose signature slot i holds
  out_idx,   \* number of signatures waiting
  got        \* the last get_signature(): its result and what it copied

unthreadedVars == <<isSetUp, out, out_idx, got>>

Slots == 0..(UNTHREADED_BUFFER_LENGTH - 1)

NoCall == [found |-> FALSE, copied |-> Nothing]

UnthreadedInit ==
  /\ isSetUp = FALSE
  /\ out = [i \in Slots |-> Unallocated]
  /\ out_idx = 0
  /\ got = NoCall

(* onvif_media_signing_plugin_session_setup(): calloc of the handle. *)
SessionSetup ==
  /\ ~isSetUp
  /\ isSetUp' = TRUE
  /\ UNCHANGED <<out, out_idx, got>>

(* Mutated Sign: every slot is used ("- 1" dropped from the limit). *)
Sign_EverySlot(h) ==
  /\ isSetUp
  /\ out_idx < UNTHREADED_BUFFER_LENGTH
  /\ out' = [out EXCEPT ![out_idx] = h]
  /\ out_idx' = out_idx + 1
  /\ UNCHANGED <<isSetUp, got>>

(* unthreaded_sign_hash(): one slot always stays unused. *)
Sign(h) ==
  /\ isSetUp
  /\ out_idx < UNTHREADED_BUFFER_LENGTH - 1
  /\ out' = [out EXCEPT ![out_idx] = h]
  /\ out_idx' = out_idx + 1
  /\ UNCHANGED <<isSetUp, got>>

(* Slots 1 to i-1 are allocated, so the shift loop of get_signature() gets *)
(* to look at slot i.                                                      *)
Looks(i) == \A j \in 1..(i - 1) : out[j] # Unallocated

(* The loop stops at the first slot without memory or at the array's end.  *)
StopsAt(i) ==
  /\ Looks(i)
  /\ i = UNTHREADED_BUFFER_LENGTH \/ out[i] = Unallocated

(* Mutated Shifted: the size of the slot moved to the end is not reset. *)
Shifted_NoReset(stop) ==
  [i \in Slots |-> IF i < stop - 1 THEN out[i + 1]
                   ELSE IF i = stop - 1 THEN out[0]
                   ELSE out[i]]

(* Mutated Shifted: the newest signature is moved into the freed slot 0    *)
(* instead of shifting them all.                                           *)
Shifted_Swap(stop) ==
  [i \in Slots |-> IF i = out_idx - 1 THEN Stale
                   ELSE IF i = 0 THEN out[out_idx - 1]
                   ELSE out[i]]

(* The array after the shift loop stopped at slot stop: the memory of slot *)
(* 0 moves behind the last allocated slot, emptied.                        *)
Shifted(stop) ==
  [i \in Slots |-> IF i < stop - 1 THEN out[i + 1]
                   ELSE IF i = stop - 1 THEN Stale
                   ELSE out[i]]

(* onvif_media_signing_plugin_get_signature() with a signature waiting.    *)
(* roomy: the caller's memory is large enough for it.                      *)
UnthreadedGetSignature(roomy) ==
  /\ isSetUp
  /\ out_idx > 0
  /\ got' = [found |-> TRUE, copied |-> IF roomy THEN out[0] ELSE Nothing]
  /\ \E stop \in 1..UNTHREADED_BUFFER_LENGTH :
       StopsAt(stop) /\ out' = Shifted(stop)
  /\ out_idx' = out_idx - 1
  /\ UNCHANGED isSetUp

(* The same call when nothing is waiting. *)
UnthreadedGetNothing ==
  /\ isSetUp
  /\ out_idx = 0
  /\ got' = NoCall
  /\ UNCHANGED <<isSetUp, out, out_idx>>

(* onvif_media_signing_plugin_session_teardown(). *)
SessionTeardown ==
  /\ isSetUp
  /\ isSetUp' = FALSE
  /\ out' = [i \in Slots |-> Unallocated]
  /\ out_idx' = 0
  /\ UNCHANGED got

UnthreadedNext ==
  \/ SessionSetup
  \/ \E h \in UnthreadedHashes : Sign(h)
  \/ \E roomy \in BOOLEAN : UnthreadedGetSignature(roomy)
  \/ UnthreadedGetNothing
  \/ SessionTeardown

UnthreadedSpec == UnthreadedInit /\ [][UnthreadedNext]_unthreadedVars

-----------------------------------------------------------------------------
(* Types of the variables. *)
UnthreadedTypeOK ==
  /\ isSetUp \in BOOLEAN
  /\ out \in [Slots -> UnthreadedHashes \cup {Unallocated, Stale}]
  /\ out_idx \in 0..(UNTHREADED_BUFFER_LENGTH - 1)
  /\ got \in [found : BOOLEAN,
              copied : UnthreadedHashes \cup {Unallocated, Stale, Nothing}]

(* The shift loop of get_signature() evaluates out[ii].signature before it *)
(* tests ii < MAX_BUFFER_LENGTH (plugin.c:120).  It never reads behind the *)
(* array, because the slot plugin_sign() leaves unused is never allocated. *)
NoReadPastEnd == ~Looks(UNTHREADED_BUFFER_LENGTH)

(* Shifting and reusing slots never loses a waiting signature and never    *)
(* hands out a slot without one: the first out_idx slots hold signatures   *)
(* and no slot behind them does.                                           *)
WaitingAreSigned ==
  \A i \in Slots : i < out_idx <=> out[i] \in UnthreadedHashes

(* What the session waits for, oldest first. *)
Waiting == [i \in 1..out_idx |-> out[i - 1]]

UnthreadedPromise == INSTANCE SigningQueue WITH
  Sessions <- {"session"},
  Hashes <- UnthreadedHashes,
  NoAnswer <- Nothing,
  pending <- [s \in {"session"} |-> Waiting],
  answer <- [s \in {"session"} |-> got.copied]

(* Every signature fetched is the one of the oldest hash still waiting, in *)
(* spite of the slots being moved around (plugin.c:118-127).  This is      *)
(* about the order alone: for a signature that does not fit get_signature()*)
(* returns true and OMS_OK (got.found), where                              *)
(* onvif_media_signing_plugin.h:79-90 wants false and an error code.       *)
SignaturesInOrder == UnthreadedPromise!Spec

=============================================================================
