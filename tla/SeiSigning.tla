---------------------------- MODULE SeiSigning ----------------------------
(***************************************************************************)
(* Signing sessions (lib/src/oms_signer.c) on top of the central thread.   *)
(* A session keeps the SEIs it generated, in order, in sei_data_buffer[].  *)
(* A SEI that is to be signed is put there incomplete, its hash is handed  *)
(* to the plugin, and onvif_media_signing_get_sei() collects signatures    *)
(* and completes the SEIs.  Nothing in a signature says which SEI it is    *)
(* for: the library relies on their order alone.                           *)
(*                                                                         *)
(* The specification starts when the plugin is initialized and all the     *)
(* sessions are set up, in a state that CentralSigning reaches, and the    *)
(* administrator does not act.  A hash is a pair <<session, number>>.      *)
(***************************************************************************)
EXTENDS CentralSigning

CONSTANTS
  MAX_SEI_DATA_BUFFER,  \* length of sei_data_buffer[] (60 in the code)
  MaxSei,               \* bound: SEIs generated by a session
  Incomplete,           \* the signature of a SEI that waits for it
  Unsigned              \* the signature of a SEI that has none

ASSUME SeiAssumption == MAX_SEI_DATA_BUFFER \in Nat \ {0} /\ MaxSei \in Nat

(* There is an id for every session, the SEIs have hashes, and what says   *)
(* that a SEI has no signature is no signature.                            *)
ASSUME SeiSessionAssumption ==
  /\ IsFiniteSet(Sessions)
  /\ Cardinality(Sessions) <= MaxId
ASSUME SeiHashAssumption ==
  /\ Sessions \X (1..MaxSei) \subseteq Hashes
  /\ Incomplete # Unsigned
  /\ Incomplete \notin Hashes
  /\ Unsigned \notin Hashes

VARIABLES
  seiBuf,     \* seiBuf[s]: the first sei_data_buffer_idx SEIs of s
  generated,  \* generated[s]: how many SEIs s has generated
  polling,    \* polling[s]: s is in the loop of get_sei()
  lost        \* the sessions that the plugin has kept from a signature it owed
              \* them: signing failed, out[] was full, or the thread stopped

seiVars == <<seiBuf, generated, polling>>
allVars == <<vars, seiVars, lost>>

(* The hash of the next SEI of s. *)
NextHash(s) == <<s, generated[s] + 1>>

SeiInit ==
  /\ thread = TRUE /\ hasList = TRUE /\ signData = TRUE /\ isRunning = TRUE
  /\ handle \in [Sessions -> 1..Cardinality(Sessions)]
  /\ \A s, t \in Sessions : s # t => handle[s] # handle[t]
  /\ idList = 1..Cardinality(Sessions)
  /\ lastAddedId = Cardinality(Sessions)
  /\ hashSize = NotAllocated
  /\ inBuf = <<>> /\ outBuf = <<>> /\ signing = <<>>
  /\ inFree = [i \in 1..MAX_BUFFER_LENGTH |-> NotAllocated]
  /\ wpc = "wait" /\ apc = "idle" /\ waiters = {Worker}
  /\ spc = [s \in Sessions |-> "idle"]
  /\ answer = [s \in Sessions |-> NoAnswer]
  /\ seiBuf = [s \in Sessions |-> <<>>]
  /\ generated = [s \in Sessions |-> 0]
  /\ polling = [s \in Sessions |-> FALSE]
  /\ lost = {}

(* generate_sei_and_add_to_buffer() goes beyond its first check. *)
MayGenerate(s) ==
  /\ handle[s] # NoId
  /\ ~polling[s]
  /\ generated[s] < MaxSei
  /\ Len(seiBuf[s]) < MAX_SEI_DATA_BUFFER
  /\ generated' = [generated EXCEPT ![s] = @ + 1]
  /\ UNCHANGED polling

(* add_sei_to_buffer(). *)
AddSei(s, signature) ==
  seiBuf' = [seiBuf EXCEPT ![s] =
               Append(@, [hash |-> NextHash(s), signature |-> signature])]

(* The SEI is to be signed and the plugin takes its hash. *)
GenerateSei(s) ==
  /\ MayGenerate(s)
  /\ PluginSign(s, NextHash(s))
  /\ AddSei(s, Incomplete)

(* The plugin does not take the hash: the SEI is freed. *)
GenerateRefused(s) ==
  /\ MayGenerate(s)
  /\ PluginSignRefused(s, NextHash(s)) \/ PluginSignOutOfMemory(s, NextHash(s))
  /\ UNCHANGED seiBuf

(* A SEI that is not to be signed (the signing frequency) is complete. *)
GenerateUnsigned(s) ==
  /\ MayGenerate(s)
  /\ AddSei(s, Unsigned)
  /\ UNCHANGED vars

(* The SEIs of s that wait for a signature. *)
IncompleteSeis(s) == {i \in DOMAIN seiBuf[s] : seiBuf[s][i].signature = Incomplete}

(* Mutated OldestIncomplete: the oldest SEI, whether complete or not. *)
OldestIncomplete_First(s) == 1

(* The SEI that complete_sei() finds. *)
OldestIncomplete(s) ==
  CHOOSE i \in IncompleteSeis(s) : \A j \in IncompleteSeis(s) : i <= j

(* The loop of onvif_media_signing_get_sei() gets a signature, which       *)
(* complete_sei() adds to the oldest incomplete SEI.                       *)
PollSignature(s) ==
  /\ GetSignature(s)
  /\ seiBuf' = [seiBuf EXCEPT ![s][OldestIncomplete(s)].signature = outBuf[1].hash]
  /\ polling' = [polling EXCEPT ![s] = TRUE]
  /\ UNCHANGED generated

(* Mutated PollDone: whether the first SEI is complete is not asked. *)
PollDone_AnySei(s, peeked) ==
  /\ GetError(s) \/ GetNothing(s)
  /\ seiBuf' = [seiBuf EXCEPT ![s] = IF @ # <<>> /\ ~peeked THEN Tail(@) ELSE @]
  /\ polling' = [polling EXCEPT ![s] = FALSE]
  /\ UNCHANGED generated

(* The loop ends when the plugin returns false, for an error too.  The     *)
(* first SEI is handed to the user if it is complete, unless the user      *)
(* peeked at a NAL Unit that no SEI may precede (peeked).                  *)
PollDone(s, peeked) ==
  /\ GetError(s) \/ GetNothing(s)
  /\ seiBuf' = [seiBuf EXCEPT ![s] =
                  IF @ # <<>> /\ Head(@).signature # Incomplete /\ ~peeked
                  THEN Tail(@) ELSE @]
  /\ polling' = [polling EXCEPT ![s] = FALSE]
  /\ UNCHANGED generated

(* onvif_media_signing_free(): the handle is torn down, the SEIs freed. *)
FreeSession(s) ==
  /\ ~polling[s]
  /\ CentralTeardown(s)
  /\ seiBuf' = [seiBuf EXCEPT ![s] = <<>>]
  /\ UNCHANGED <<generated, polling>>

(* The plugin owes a session less than before, and has not given it a      *)
(* signature.                                                              *)
NoteLost ==
  lost' = lost \cup {s \in Sessions : Len(Pending(s)') < Len(Pending(s))}

(* The worker of the plugin goes on. *)
PluginStep ==
  /\ WorkerStep
  /\ NoteLost
  /\ UNCHANGED seiVars

SeiNext ==
  \/ \E s \in Sessions :
       \/ (GenerateSei(s) \/ GenerateRefused(s) \/ GenerateUnsigned(s)) /\ UNCHANGED lost
       \/ PollSignature(s) /\ UNCHANGED lost
       \/ \E peeked \in BOOLEAN : PollDone(s, peeked) /\ NoteLost
       \/ FreeSession(s) /\ UNCHANGED lost
  \/ PluginStep

SeiSpec == SeiInit /\ [][SeiNext]_allVars

(* The worker goes on, and the user of every open session keeps calling    *)
(* get_sei(), with a NAL Unit that a SEI may precede again and again.      *)
SeiFairness ==
  /\ WF_allVars(PluginStep)
  /\ \A s \in Sessions :
       /\ SF_allVars(PollSignature(s) /\ UNCHANGED lost)
       /\ SF_allVars(PollDone(s, FALSE) /\ NoteLost)

SeiFairSpec == SeiSpec /\ SeiFairness

-----------------------------------------------------------------------------
(* complete_sei() asserts that it finds an incomplete SEI (oms_signer.c:   *)
(* 128) and would otherwise look behind sei_data_buffer[].  It always      *)
(* does: a session never has more signatures coming than incomplete SEIs,  *)
(* even when signing fails, buffers overflow or the thread stops.          *)
SignaturesHaveSeis ==
  \A s \in Sessions : Len(Pending(s)) <= Cardinality(IncompleteSeis(s))

(* oms_signer.c:417 asks if "an older signature could be added by          *)
(* accident": as long as the plugin gives a session the signatures it owes *)
(* it, a SEI gets no signature but its own, whatever SEIs are refused,     *)
(* unsigned or held back, and whatever becomes of the other sessions.      *)
SignatureMatchesSei ==
  \A s \in Sessions \ lost : \A i \in DOMAIN seiBuf[s] :
    seiBuf[s][i].signature \in {Incomplete, Unsigned, seiBuf[s][i].hash}

(* oms_signer.c:134-136: "If the signature could not be generated          *)
(* |signature_size| equals zero.  Free the pending SEI and move on.  This  *)
(* is a valid operation.  What will happen is that the video will have an  *)
(* unsigned GOP."  So the SEI whose signing failed is not left behind to   *)
(* wait for the signature of another one.                                  *)
FailedSeiIsFreed ==
  \A s \in Sessions : \A i \in IncompleteSeis(s) :
    \E k \in DOMAIN Pending(s) : Pending(s)[k] = seiBuf[s][i].hash

(* Every SEI is completed (or the session freed) in the end, if the users  *)
(* of all the sessions keep calling get_sei() and the plugin does not give *)
(* up a signature: a signature of one session at the head of out[] keeps   *)
(* those of the others waiting (onvif_media_signing_get_sei()).            *)
SeisAreCompleted ==
  \A s \in Sessions :
    IncompleteSeis(s) # {} ~> IncompleteSeis(s) = {} \/ s \in lost

=============================================================================
