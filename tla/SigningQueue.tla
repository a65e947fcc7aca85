---------------------------- MODULE SigningQueue ----------------------------
(***************************************************************************)
(* The order in which a signing plugin answers its sessions                *)
(* (lib/src/includes/onvif_media_signing_plugin.h): the hashes a session   *)
(* hands over with onvif_media_signing_plugin_sign() are answered in that  *)
(* order, each at most once, and a signature that                          *)
(* onvif_media_signing_plugin_get_signature() copies is the one of the     *)
(* oldest hash that session is still waiting for.  An answer may be        *)
(* "no signature", and all a session waits for may be given up at once.    *)
(*                                                                         *)
(* What get_signature() returns when it copies no signature, and the error *)
(* code, are left out.                                                     *)
(***************************************************************************)
EXTENDS Sequences

CONSTANTS
  Sessions,   \* the users of the plugin
  Hashes,     \* the hashes that may be signed
  NoAnswer    \* no signature was copied

VARIABLES
  pending,    \* pending[s]: the accepted hashes of s not answered yet, oldest first
  answer      \* answer[s]: the hash whose signature the last get_signature() gave s

vars == <<pending, answer>>

Init ==
  /\ pending = [s \in Sessions |-> <<>>]
  /\ answer = [s \in Sessions |-> NoAnswer]

(* plugin_sign() returns OMS_OK. *)
Accept(s, h) ==
  /\ pending' = [pending EXCEPT ![s] = Append(@, h)]
  /\ UNCHANGED answer

(* get_signature() copies the signature of the oldest hash. *)
Answer(s) ==
  /\ pending[s] # <<>>
  /\ pending' = [pending EXCEPT ![s] = Tail(@)]
  /\ answer' = [answer EXCEPT ![s] = Head(pending[s])]

(* get_signature() drops the oldest hash and copies no signature. *)
Refuse(s) ==
  /\ pending[s] # <<>>
  /\ pending' = [pending EXCEPT ![s] = Tail(@)]
  /\ answer' = [answer EXCEPT ![s] = NoAnswer]

(* get_signature() has nothing available yet. *)
NotYet(s) ==
  /\ answer' = [answer EXCEPT ![s] = NoAnswer]
  /\ UNCHANGED pending

(* All that the sessions in S wait for is given up. *)
GiveUp(S) ==
  /\ pending' = [s \in Sessions |-> IF s \in S THEN <<>> ELSE pending[s]]
  /\ UNCHANGED answer

Next ==
  \/ \E s \in Sessions, h \in Hashes : Accept(s, h)
  \/ \E s \in Sessions : Answer(s) \/ Refuse(s) \/ NotYet(s)
  \/ \E S \in SUBSET Sessions : GiveUp(S)

Spec == Init /\ [][Next]_vars

=============================================================================
