---------------------------- MODULE SigningSetup ----------------------------
(***************************************************************************)
(* The signing session before and between its starts (lib/src/oms_signer.c *)
(* and lib/src/oms_openssl.c): the key pair with its certificates, the     *)
(* hash algorithm, emulation prevention and the certificate SEI, which may *)
(* be set until signing has started and again after a reset; what the SEIs *)
(* tell of them; and the NAL Units, which are hashed in parts.             *)
(*                                                                         *)
(* A key stands for its certificates and the anchor certificate they chain *)
(* up to.  All SEIs are signed (signing frequency 1), and the keys have    *)
(* signatures of the same size.  A call that is refused at once, with      *)
(* nothing changed, is no step: what is set after the start, a key that is *)
(* user provisioned, a chain of less than two certificates, an unknown     *)
(* hash algorithm.  SEIs that fail and full buffers are in GopSigner and   *)
(* SeiSigning.                                                             *)
(***************************************************************************)
EXTENDS Naturals, Sequences, SequencesExt, FiniteSets

CONSTANTS
  Keys,                \* key pairs, numbers from 1 on
  Algos,               \* hash algorithms, numbers from 1 on; 1 is the default
  MAX_SEI_DATA_BUFFER, \* SEIs that can wait (60 in the code)
  MaxNalus,            \* bound: NAL Units
  MaxCalls             \* bound: calls of the setup, and resets

ASSUME SetupAssumption ==
  /\ Keys \subseteq Nat \ {0} /\ Algos \subseteq Nat \ {0} /\ 1 \in Algos
  /\ MAX_SEI_DATA_BUFFER \in Nat \ {0} /\ MaxNalus \in Nat /\ MaxCalls \in Nat

VARIABLES
  started,   \* signing_started
  certificateSei, \* use_certificate_sei
  epb,       \* sei_epb
  algo,      \* hash_algo of the crypto handle
  chain,     \* certificate_chain, 0 for none
  anchor,    \* trust_anchor of the crypto handle, 0 for none
  memory,    \* memory for signatures in sign_data, for a key, 0 for none
  plugin,    \* plugin_handle: the key that it signs with, 0 for none
  queue,     \* signatures of the plugin that are not fetched
  seis,      \* sei_data_buffer
  sent,      \* the SEIs fetched
  inPart,    \* the last part of last_nalu has not come
  context,   \* what the ongoing hash is made of
  list,      \* hash_list
  hasGop,    \* current_partial_gop > 0
  nalus,     \* the number of NAL Units the user has begun
  given,     \* parts of the last one that were given, 0 if all of them
  calls,     \* calls of the setup
  disturbed  \* what was called when it had better not be

keys == <<chain, anchor, memory, plugin>>
settings == <<certificateSei, epb, algo>>
hashing == <<inPart, context, list, hasGop, nalus, given>>
vars == <<started, settings, keys, queue, seis, sent, hashing, calls, disturbed>>

Unsigned == [key |-> 0, of |-> 0, epb |-> FALSE]

(* onvif_media_signing_create() *)
Init ==
  /\ started = FALSE
  /\ certificateSei = FALSE /\ epb = FALSE /\ algo = 1
  /\ chain = 0 /\ anchor = 0 /\ memory = 0 /\ plugin = 0
  /\ queue = <<>> /\ seis = <<>> /\ sent = <<>>
  /\ inPart = FALSE /\ context = <<>> /\ list = <<>> /\ hasGop = FALSE
  /\ nalus = 0 /\ given = 0
  /\ calls = 0 /\ disturbed = {}

-----------------------------------------------------------------------------
(* onvif_media_signing_set_signing_key_pair() replaces the certificates    *)
(* before anything can fail.                                               *)

(* A setup call, which had better not be made if it is disturbing. *)
Call(disturbances) ==
  /\ calls < MaxCalls
  /\ calls' = calls + 1
  /\ disturbed' = disturbed \cup disturbances

(* Mutated BeginKeyPair: certificates that are there stay. *)
BeginKeyPair_KeepsChain(key) ==
  /\ ~started
  /\ Call(IF plugin # 0 THEN {"keys"} ELSE {})
  /\ chain' = IF chain = 0 THEN key ELSE chain
  /\ UNCHANGED <<started, settings, seis, sent, hashing>>

BeginKeyPair(key) ==
  /\ ~started
  /\ Call(IF plugin # 0 THEN {"keys"} ELSE {})
  /\ chain' = key
  /\ UNCHANGED <<started, settings, seis, sent, hashing>>

(* openssl_set_trusted_certificate() fails, as there is one already or the *)
(* new one cannot be read: there is none after that. *)
AnchorFails(key) ==
  /\ BeginKeyPair(key)
  /\ anchor' = 0
  /\ UNCHANGED <<memory, plugin, queue>>

(* openssl_verify_certificate_chain() fails *)
ChainFails(key) ==
  /\ BeginKeyPair(key)
  /\ anchor = 0 /\ anchor' = key
  /\ UNCHANGED <<memory, plugin, queue>>

(* openssl_store_private_key() fails, and frees the memory for signatures. *)
PrivateKeyFails(key) ==
  /\ BeginKeyPair(key)
  /\ anchor = 0 /\ anchor' = key
  /\ memory' = 0
  /\ UNCHANGED <<plugin, queue>>

(* onvif_media_signing_plugin_session_setup() fails or not.  The handle    *)
(* that was there before is forgotten, with all its signatures. *)
SetSigningKeyPair(key, handle) ==
  /\ BeginKeyPair(key)
  /\ anchor = 0 /\ anchor' = key
  /\ memory' = key
  /\ plugin' = handle
  /\ queue' = <<>>

KeyPair(key) ==
  \/ AnchorFails(key) \/ ChainFails(key) \/ PrivateKeyFails(key)
  \/ SetSigningKeyPair(key, 0) \/ SetSigningKeyPair(key, key)

-----------------------------------------------------------------------------
(* The settings.                                                           *)

Setting(disturbances) ==
  /\ ~started
  /\ Call(disturbances)
  /\ UNCHANGED <<started, keys, queue, seis, sent>>

SetUseCertificateSei(enable) ==
  /\ Setting({})
  /\ certificateSei' = enable
  /\ UNCHANGED <<epb, algo, hashing>>

SetEmulationPrevention(enable) ==
  /\ Setting(IF enable # epb /\ (\E sei \in Range(seis) : sei.signature = Unsigned)
              THEN {"waiting"} ELSE {})
  /\ epb' = enable
  /\ UNCHANGED <<certificateSei, algo, hashing>>

(* A certificate SEI has been generated. *)
IsCertified == \E sei \in Range(seis) \cup Range(sent) : sei.isCertificate

(* openssl_set_hash_algo() makes new hash contexts. *)
SetHashAlgo(new) ==
  /\ Setting((IF given > 0 THEN {"part"} ELSE {})
              \cup (IF new # algo /\ IsCertified THEN {"certified"} ELSE {}))
  /\ algo' = new
  /\ context' = <<>>
  /\ UNCHANGED <<certificateSei, epb, inPart, list, hasGop, nalus, given>>

(* Mutated Reset: that parts of a NAL Unit are to come is not forgotten. *)
Reset_KeepsPart ==
  /\ Call({})
  /\ started' = FALSE
  /\ certificateSei' = FALSE
  /\ context' = <<>>
  /\ list' = <<>>
  /\ hasGop' = FALSE
  /\ given' = 0
  /\ UNCHANGED <<epb, algo, keys, queue, seis, sent, inPart, nalus>>

(* onvif_media_signing_reset() *)
Reset ==
  /\ Call({})
  /\ started' = FALSE
  /\ certificateSei' = FALSE
  /\ inPart' = FALSE
  /\ context' = <<>>
  /\ list' = <<>>
  /\ hasGop' = FALSE
  /\ given' = 0
  /\ UNCHANGED <<epb, algo, keys, queue, seis, sent, nalus>>

-----------------------------------------------------------------------------
(* SEIs and NAL Units.                                                     *)

(* generate_sei_and_add_to_buffer(): the optional tags, which tell of keys *)
(* and hash algorithm, may be left to the certificate SEI. *)
GenerateSei(isCertificate) ==
  /\ Len(seis) < MAX_SEI_DATA_BUFFER
  /\ LET number == Len(sent) + Len(seis) + 1
         tells == isCertificate \/ ~certificateSei
     IN  /\ seis' = Append(seis,
               [number |-> number, isCertificate |-> isCertificate,
                chain |-> IF tells THEN chain ELSE 0, algo |-> IF tells THEN algo ELSE 0,
                hashedWith |-> algo, epb |-> epb,
                list |-> IF isCertificate THEN <<>> ELSE list,
                signature |-> Unsigned])
         /\ queue' = Append(queue, [key |-> plugin, of |-> number])

GenerateCertificateSei ==
  /\ plugin # 0
  /\ Call({})
  /\ GenerateSei(TRUE)
  /\ list' = <<>>
  /\ UNCHANGED <<started, settings, keys, sent, inPart, context, hasGop, nalus, given>>

(* The user gives a NAL Unit in one or two parts.  What is taken for the   *)
(* first one is parsed, and hashed from its header on. *)
Part(isLast) ==
  [nalu |-> IF given = 0 THEN nalus + 1 ELSE nalus, first |-> given = 0, last |-> isLast,
   parsed |-> ~inPart]

GivePart(isLast) ==
  /\ given = 0 => nalus < MaxNalus
  /\ nalus' = Part(isLast).nalu
  /\ inPart' = ~isLast
  /\ UNCHANGED <<settings, keys, sent, calls>>

(* Without a key it is refused, but only after it was taken for the NAL    *)
(* Unit whose further parts will come. *)
AddPartRefused(isLast) ==
  /\ plugin = 0
  /\ given > 0 => isLast
  /\ GivePart(isLast)
  /\ given' = 0
  /\ disturbed' = IF isLast THEN disturbed ELSE disturbed \cup {"refused"}
  /\ UNCHANGED <<started, queue, seis, context, list, hasGop>>

(* update_hash() *)
AddPart ==
  /\ plugin # 0
  /\ given = 0
  /\ GivePart(FALSE)
  /\ given' = 1
  /\ context' = IF inPart THEN Append(context, Part(FALSE)) ELSE <<Part(FALSE)>>
  /\ UNCHANGED <<started, queue, seis, list, hasGop, disturbed>>

(* simply_hash(): in one go if the NAL Unit is complete. *)
Digest ==
  [parts |-> IF inPart THEN Append(context, Part(TRUE)) ELSE <<Part(TRUE)>>, algo |-> algo]

AddLastPart ==
  /\ plugin # 0
  /\ GivePart(TRUE)
  /\ given' = 0
  /\ started' = TRUE
  /\ context' = IF inPart THEN <<>> ELSE context
  /\ list' = Append(list, Digest)
  /\ UNCHANGED <<queue, seis, hasGop, disturbed>>

(* The first NAL Unit of a GOP, after the SEI of the GOP before. *)
AddFirstOfGop ==
  /\ plugin # 0
  /\ GivePart(TRUE)
  /\ given' = 0
  /\ started' = TRUE
  /\ context' = IF inPart THEN <<>> ELSE context
  /\ hasGop' = TRUE
  /\ IF started /\ hasGop
     THEN /\ GenerateSei(FALSE)
          /\ list' = <<Digest>>
          /\ disturbed' = disturbed \cup (IF certificateSei /\ ~IsCertified
                                         THEN {"uncertified"} ELSE {})
     ELSE /\ list' = Append(list, Digest)
          /\ UNCHANGED <<queue, seis, disturbed>>

(* onvif_media_signing_get_sei() when some signatures are ready: they are  *)
(* for the oldest SEIs that have none, and are encoded the way that is set *)
(* now.  No SEI is fetched for a NAL Unit that is not a primary slice.     *)
GetSei(ready, isPrimary) ==
  LET complete == {i \in DOMAIN seis : seis[i].signature # Unsigned}
      Completed(i) ==
        LET k == i - Cardinality(complete)
        IN  IF k \in 1..ready
            THEN [seis[i] EXCEPT !.signature =
                    [key |-> queue[k].key, of |-> queue[k].of, epb |-> epb]]
            ELSE seis[i]
      completed == [i \in DOMAIN seis |-> Completed(i)]
      fetches == isPrimary /\ completed # <<>> /\ completed[1].signature # Unsigned
  IN  /\ ready <= Len(queue)
      /\ ready > 0 => memory # 0
      /\ queue' = SubSeq(queue, ready + 1, Len(queue))
      /\ seis' = IF fetches THEN Tail(completed) ELSE completed
      /\ sent' = IF fetches THEN Append(sent, completed[1]) ELSE sent
      /\ UNCHANGED <<started, settings, keys, hashing, calls, disturbed>>

Next ==
  \/ \E key \in Keys : KeyPair(key)
  \/ \E enable \in BOOLEAN : SetUseCertificateSei(enable) \/ SetEmulationPrevention(enable)
  \/ \E new \in Algos : SetHashAlgo(new)
  \/ Reset \/ GenerateCertificateSei
  \/ \E isLast \in BOOLEAN : AddPartRefused(isLast)
  \/ AddPart \/ AddLastPart \/ AddFirstOfGop
  \/ \E ready \in 0..MAX_SEI_DATA_BUFFER, isPrimary \in BOOLEAN : GetSei(ready, isPrimary)

Spec == Init /\ [][Next]_vars

-----------------------------------------------------------------------------
(* The SEI that tells of keys and hash algorithm, for the SEI i that was   *)
(* sent: itself or the last one before, 0 if there is none. *)
TellerOf(i) ==
  LET tellers == {j \in 1..i : sent[j].chain # 0}
  IN  IF tellers = {} THEN 0 ELSE CHOOSE j \in tellers : \A k \in tellers : k <= j

(* A SEI that is sent has the signature of its own hash, encoded as it     *)
(* says itself, by the key whose certificates the other side was told last *)
(* (encode_certificates()), of a hash of the algorithm it was told last    *)
(* (encode_crypto_info()), whatever was set, refused, failed and reset in  *)
(* which order before.  Exceptions are what set_signing_key_pair() does to *)
(* keys that are set, emulation prevention that is set while SEIs wait for *)
(* their signatures, a hash algorithm that is set after a certificate SEI  *)
(* told of another, and SEIs that leave it to a certificate SEI which was  *)
(* never generated.                                                        *)
SeisCanBeVerified ==
  \A i \in DOMAIN sent :
    LET sei == sent[i]
        teller == TellerOf(i)
    IN  /\ "keys" \notin disturbed =>
             /\ sei.signature.of = sei.number
             /\ teller # 0 => sei.signature.key = sent[teller].chain
        /\ "waiting" \notin disturbed => sei.signature.epb = sei.epb
        /\ disturbed \cap {"certified", "uncertified"} = {} /\ teller # 0 =>
             sei.hashedWith = sent[teller].algo

IsWhole(parts) ==
  \A k \in DOMAIN parts :
    /\ parts[k].nalu = parts[1].nalu
    /\ parts[k].first = (k = 1) /\ parts[k].parsed = (k = 1)
    /\ parts[k].last = (k = Len(parts))

(* A hash that a SEI lists is of one NAL Unit, all of its parts and no     *)
(* others, and by the algorithm of the SEI (hash_and_add()).  Exceptions   *)
(* are a hash algorithm that is set between two parts, and a first part    *)
(* that was refused as there was no key.                                   *)
NalusAreHashedWhole ==
  disturbed \cap {"part", "refused"} = {} =>
    \A i \in DOMAIN seis : \A k \in DOMAIN seis[i].list :
      /\ IsWhole(seis[i].list[k].parts)
      /\ seis[i].list[k].algo = seis[i].hashedWith

=============================================================================
