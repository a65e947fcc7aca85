----------------------------- MODULE SeiWriting -----------------------------
(***************************************************************************)
(* The bytes of a SEI as the signer writes them (lib/src/oms_signer.c,     *)
(* write_byte() and the TLV encoding of lib/src/oms_tlv.c).  A SEI that    *)
(* waits for its signature has the first part written and the last part    *)
(* not, while other SEIs are written: the bytes that emulation prevention  *)
(* depends on are kept with it.  How the other side reads the bytes is in  *)
(* SeiBytes.                                                               *)
(*                                                                         *)
(* A start code and the second header byte of H.265 are left out.  UUID    *)
(* stands for the 16 bytes of kUuidMediaSigning: they begin with 0, hold   *)
(* nothing to escape and do not end with 0.  A document is what a SEI says *)
(* before its signature: its TLVs, and whether it is a certificate SEI.    *)
(* The values are taken from a small set of bytes; what they mean is in    *)
(* GopSigner and Validator.                                                *)
(***************************************************************************)
EXTENDS Naturals, Integers, Sequences, SequencesExt

CONSTANTS
  Documents,          \* what there is to sign: [certificate, tlvs]
  NextDocuments,      \* the same for all SEIs but the first
  Signatures,         \* what the plugin returns: sequences of bytes
  MaxSignatureSize,   \* max_signature_size
  SizeUnit,           \* 255 in the code: the largest byte of a payload size
  MAX_SEI_DATA_BUFFER \* SEIs that are written (60 in the code)

UUID == <<0, 91>>
UNDEFINED_TAG == 0
SIGNATURE_TAG == 3
STOP_BYTE_VALUE == 128
LAST_TWO_BYTES_INIT_VALUE == <<1, 1>>
Bytes == 0..255
LengthRange == 65536

ASSUME BytesAssumption ==
  /\ MaxSignatureSize \in Nat \ {0} /\ 3 + MaxSignatureSize < LengthRange
  /\ SizeUnit \in Nat \ {0}
  /\ MAX_SEI_DATA_BUFFER \in Nat \ {0}
  /\ \A document \in Documents \cup NextDocuments :
       /\ document.certificate \in BOOLEAN
       /\ document.tlvs \in Seq([tag : Bytes \ {UNDEFINED_TAG, SIGNATURE_TAG},
                                 value : Seq(Bytes) \ {<<>>}])
       /\ \A i \in DOMAIN document.tlvs : Len(document.tlvs[i].value) < LengthRange
  /\ \A signature \in Signatures :
       signature \in Seq(Bytes) /\ Len(signature) \in 1..MaxSignatureSize

VARIABLES
  sei_epb,      \* whether the signer applies emulation prevention
  lastTwoBytes, \* last_two_bytes of the session
  seis          \* sei_data_buffer, with what each SEI was made from

vars == <<sei_epb, lastTwoBytes, seis>>

-----------------------------------------------------------------------------
(* Writing.  A writer is the bytes so far and the last two of them.        *)

Nothing == [bytes |-> <<>>, last |-> LAST_TWO_BYTES_INIT_VALUE]

(* Mutated WriteByte: only a zero is escaped. *)
WriteByte_OnlyZero(w, byte, epb) ==
  LET escape == epb /\ byte = 0 /\ w.last = <<0, 0>>
  IN  [bytes |-> w.bytes \o (IF escape THEN <<3, byte>> ELSE <<byte>>),
       last  |-> <<IF escape THEN 3 ELSE w.last[2], byte>>]

WriteByte(w, byte, epb) ==
  LET escape == epb /\ byte \in 0..3 /\ w.last = <<0, 0>>
  IN  [bytes |-> w.bytes \o (IF escape THEN <<3, byte>> ELSE <<byte>>),
       last  |-> <<IF escape THEN 3 ELSE w.last[2], byte>>]

WriteMany(w, bytes, epb) ==
  LET after[i \in 0..Len(bytes)] ==
        IF i = 0 THEN w ELSE WriteByte(after[i - 1], bytes[i], epb)
  IN  after[Len(bytes)]

(* tlv_encode_or_get_size_generic(): tag, two bytes of length, value *)
Encoded(tlv) ==
  <<tlv.tag, (Len(tlv.value) \div 256) % 256, Len(tlv.value) % 256>> \o tlv.value

EncodedList(tlvs) == FlattenSeq([i \in DOMAIN tlvs |-> Encoded(tlvs[i])])

(* encode_signature(): version, size, the signature and ones up to the     *)
(* size that was allocated *)
SignatureTlv(signature) ==
  [tag   |-> SIGNATURE_TAG,
   value |-> <<1, 0, Len(signature)>> \o signature
               \o [i \in 1..(MaxSignatureSize - Len(signature)) |-> 1]]

SizeBytes(size) == [i \in 1..(size \div SizeUnit) |-> SizeUnit] \o <<size % SizeUnit>>

Reserved(certificate) ==
  (IF certificate THEN 128 ELSE 0) + (IF sei_epb THEN 64 ELSE 0)

-----------------------------------------------------------------------------
(* The signer.                                                             *)

Init ==
  /\ sei_epb \in BOOLEAN
  /\ lastTwoBytes = LAST_TWO_BYTES_INIT_VALUE
  /\ seis = <<>>

Complete(sei) == sei.completed # <<>>

WithStopBit(w) == WriteByte(w, STOP_BYTE_VALUE, FALSE)

(* add_signature_to_sei() *)
WithSignature(w, signature) ==
  WithStopBit(WriteMany(w, Encoded(SignatureTlv(signature)), sei_epb))

(* generate_sei_and_add_to_buffer(): everything up to the signature is     *)
(* written. *)
Begun(tlvs, certificate, signed) ==
  LET size    == Len(UUID) + 1 + Len(EncodedList(tlvs))
                   + (IF signed THEN 6 + MaxSignatureSize ELSE 0)
      head    == WriteMany(Nothing, <<6, 5>> \o SizeBytes(size), FALSE)
      uuid    == WriteMany(head, UUID, TRUE)
      flagged == [uuid EXCEPT !.bytes = Append(@, Reserved(certificate))]
  IN  WriteMany(flagged, EncodedList(tlvs), sei_epb)

GenerateSei(document, signed) ==
  LET written == Begun(document.tlvs, document.certificate, signed)
      end     == IF signed THEN written ELSE WithStopBit(written)
  IN  /\ Len(seis) < MAX_SEI_DATA_BUFFER
      /\ lastTwoBytes' = end.last
      /\ seis' = Append(seis,
           [bytes |-> end.bytes, last |-> end.last,
            completed |-> IF signed THEN <<>> ELSE end.bytes,
            tlvs |-> document.tlvs, certificate |-> document.certificate,
            signed |-> signed])
      /\ UNCHANGED sei_epb

(* Mutated CompleteSei: what the session has written last is taken for     *)
(* what this SEI ends with. *)
CompleteSei_SessionBytes(signature) ==
  \E i \in DOMAIN seis :
    LET w == WithSignature([bytes |-> seis[i].bytes, last |-> lastTwoBytes], signature)
    IN  /\ ~Complete(seis[i]) /\ (\A j \in 1..(i - 1) : Complete(seis[j]))
        /\ seis' = [seis EXCEPT ![i].completed = w.bytes,
                                ![i].tlvs = Append(@, SignatureTlv(signature))]
        /\ lastTwoBytes' = w.last
        /\ UNCHANGED sei_epb

(* complete_sei(): the oldest SEI that waits gets its signature and the    *)
(* stop bit. *)
CompleteSei(signature) ==
  \E i \in DOMAIN seis :
    LET w == WithSignature([bytes |-> seis[i].bytes, last |-> seis[i].last], signature)
    IN  /\ ~Complete(seis[i]) /\ (\A j \in 1..(i - 1) : Complete(seis[j]))
        /\ seis' = [seis EXCEPT ![i].completed = w.bytes,
                                ![i].tlvs = Append(@, SignatureTlv(signature))]
        /\ lastTwoBytes' = w.last
        /\ UNCHANGED sei_epb

Next ==
  \/ \E document \in (IF seis = <<>> THEN Documents ELSE NextDocuments),
        signed \in BOOLEAN : GenerateSei(document, signed)
  \/ \E signature \in Signatures : CompleteSei(signature)

Spec == Init /\ [][Next]_vars

-----------------------------------------------------------------------------
(* With emulation prevention no SEI, complete or not, holds anything that  *)
(* looks like a start code to a decoder: two zeros and then 0, 1 or 2. *)
NoStartCode ==
  sei_epb => \A i \in DOMAIN seis :
    LET bytes == IF Complete(seis[i]) THEN seis[i].completed ELSE seis[i].bytes
    IN  \A j \in 1..(Len(bytes) - 2) :
          bytes[j] = 0 /\ bytes[j + 1] = 0 => bytes[j + 2] > 2
=============================================================================
