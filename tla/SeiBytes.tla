------------------------------ MODULE SeiBytes ------------------------------
(***************************************************************************)
(* The bytes of the SEIs that SeiWriting writes, on their way to the other *)
(* side, and how it reads them (parse_nalu_info() of lib/src/oms_common.c  *)
(* and the TLV decoding of lib/src/oms_tlv.c).  The signer reads them the  *)
(* same way to tell what is hashed.                                        *)
(***************************************************************************)
EXTENDS SeiWriting

-----------------------------------------------------------------------------
(* Reading.  A reader is a position, the last two bytes and what was read. *)

(* What is behind the end is not known; nothing depends on it. *)
ByteAt(data, i) == IF i <= Len(data) THEN data[i] ELSE 0

Slice(data, from, to) == SubSeq(data, from, Min({to, Len(data)}))

Reader(at) == [at |-> at, last |-> LAST_TWO_BYTES_INIT_VALUE, read |-> <<>>]

ReadByte(data, r, epb) ==
  LET skip == epb /\ ByteAt(data, r.at) = 3 /\ r.last = <<0, 0>>
      at   == IF skip THEN r.at + 1 ELSE r.at
      byte == ByteAt(data, at)
  IN  [at   |-> at + 1,
       last |-> <<IF skip THEN 3 ELSE r.last[2], byte>>,
       read |-> Append(r.read, byte)]

ReadMany(data, r, n, epb) ==
  LET after[i \in 0..n] == IF i = 0 THEN r ELSE ReadByte(data, after[i - 1], epb)
  IN  after[n]

(* tlv_find_tag() for the signature: where the tag is, before a byte of    *)
(* emulation prevention that precedes it; 0 if it is not found before end. *)
(* A length that leads behind the end of the data need not be read.        *)
TlvHeader(data, r, epb) == ReadMany(data, [r EXCEPT !.read = <<>>], 3, epb)

BehindTlv(data, r, epb) ==
  LET header == TlvHeader(data, r, epb)
      length == Min({256 * header.read[2] + header.read[3], Len(data)})
  IN  ReadMany(data, header, length, epb)

FindSignature(data, r, end, epb) ==
  LET at[i \in 0..end] == IF i = 0 THEN r ELSE BehindTlv(data, at[i - 1], epb)
      Stops(i) == at[i].at >= end \/ TlvHeader(data, at[i], epb).read[1] = SIGNATURE_TAG
      last == CHOOSE i \in 0..end : Stops(i) /\ (\A j \in 0..(i - 1) : ~Stops(j))
  IN  IF at[last].at < end THEN at[last].at ELSE 0

(* tlv_decode() *)
Decoded(bytes) ==
  LET Length(at) == 256 * ByteAt(bytes, at + 1) + ByteAt(bytes, at + 2)
      Behind(at) == at + 3 + Length(at)
      at[i \in 1..(Len(bytes) + 1)] == IF i = 1 THEN 1 ELSE Behind(at[i - 1])
      count == Cardinality({i \in DOMAIN at : at[i] <= Len(bytes)})
  IN  [i \in 1..count |-> [tag |-> bytes[at[i]],
                           value |-> Slice(bytes, at[i] + 3, at[i] + 2 + Length(at[i]))]]

(* The position of the last byte of the payload size, and that size *)
SizeEnd(nalu) ==
  CHOOSE i \in 3..Len(nalu) :
    nalu[i] # SizeUnit /\ (\A j \in 3..(i - 1) : nalu[j] = SizeUnit)

PayloadSize(nalu) == (SizeEnd(nalu) - 3) * SizeUnit + nalu[SizeEnd(nalu)]

(* What is longer than the payload size is emulation prevention, whoever   *)
(* has put it there. *)
EmulationBytes(nalu) ==
  Len(nalu) - SizeEnd(nalu) - PayloadSize(nalu)
    - (IF Last(nalu) = STOP_BYTE_VALUE THEN 1 ELSE 0)

(* parse_nalu_info() and remove_epb_from_sei_payload(): what is hashed,    *)
(* without emulation prevention if it was applied after the SEI was made,  *)
(* and the TLVs. *)
Parsed(nalu) ==
  LET reserved == ByteAt(nalu, SizeEnd(nalu) + Len(UUID) + 1)
      withEpb  == (reserved \div 64) % 2 = 1
      escaped  == EmulationBytes(nalu) > 0
      tlvStart == SizeEnd(nalu) + Len(UUID) + 2
      tlvSize  == PayloadSize(nalu) - Len(UUID) - 1
      tag      == IF Len(nalu) > tlvSize
                  THEN FindSignature(nalu, Reader(tlvStart), tlvStart + tlvSize, escaped)
                  ELSE 0
      plain    == ReadMany(nalu, Reader(1), tlvStart + tlvSize, TRUE).read
      plainTag == FindSignature(plain, Reader(tlvStart), tlvStart + tlvSize, FALSE)
      rehash   == escaped /\ ~withEpb
  IN  [isSigned    |-> tag # 0,
       certificate |-> reserved \div 128 = 1,
       withEpb     |-> withEpb,
       hashable    |-> SubSeq(IF rehash THEN plain ELSE nalu, 1,
                         CASE tag = 0 -> Len(IF rehash THEN plain ELSE nalu)
                           [] tag # 0 /\ rehash -> plainTag - 1
                           [] OTHER -> tag - 1),
       tlvs        |-> Slice(IF escaped THEN plain ELSE nalu,
                             tlvStart, tlvStart + tlvSize - 1)]

(* With check_trailing_bytes zeros behind the stop bit do not count. *)
Trimmed(nalu) == SubSeq(nalu, 1, CHOOSE i \in 1..Len(nalu) :
                   nalu[i] # 0 /\ (\A j \in (i + 1)..Len(nalu) : nalu[j] = 0))

(* What generate_sei_and_add_to_buffer() hashes: everything up to the      *)
(* signature, of a SEI that has none everything.                           *)
Hashed(sei) == Parsed(sei.bytes).hashable

-----------------------------------------------------------------------------
(* Between the sides: if the signer has not applied emulation prevention   *)
(* the encoder may, to the whole NAL Unit, and a container may add a zero. *)

Ways == [escape : IF sei_epb THEN {FALSE} ELSE BOOLEAN, zero : BOOLEAN]

Carried(nalu, way) ==
  (IF way.escape THEN WriteMany(Nothing, nalu, TRUE).bytes ELSE nalu)
    \o (IF way.zero THEN <<0>> ELSE <<>>)

-----------------------------------------------------------------------------
(* Whichever way a SEI has taken, the validator hashes the bytes that the  *)
(* signer has hashed, sees whether it is signed and whether it is a        *)
(* certificate SEI, and decodes the TLVs that were encoded, the signature  *)
(* last: although another SEI was begun before this one was completed, and *)
(* although emulation prevention moves the place of the signature. *)
AgreeOn(sei) ==
  \A way \in Ways :
    LET parsed == Parsed(Trimmed(Carried(sei.completed, way)))
    IN  /\ parsed.isSigned = sei.signed
        /\ parsed.certificate = sei.certificate
        /\ parsed.withEpb = sei_epb
        /\ parsed.hashable = Hashed(sei)
        /\ Decoded(parsed.tlvs) = sei.tlvs

SidesAgree == \A i \in DOMAIN seis : Complete(seis[i]) => AgreeOn(seis[i])

(* The condition on sizes that this rests on.  parse_nalu_info() only      *)
(* looks for a signature if the data is longer than the TLVs, and as far   *)
(* as the size of the TLVs reaches; the data counts emulation prevention   *)
(* and the size of the TLVs does not.  What is in front of the signature   *)
(* must, with emulation prevention, not be longer than the TLVs without,   *)
(* the signature among them. *)
HasRoom(sei) ==
  LET begun == IF sei_epb THEN sei.bytes ELSE WriteMany(Nothing, sei.bytes, TRUE).bytes
  IN  Len(begun) <= PayloadSize(sei.bytes) - Len(UUID) - 1

AllHaveRoom == \A i \in DOMAIN seis : seis[i].signed => HasRoom(seis[i])
=============================================================================
