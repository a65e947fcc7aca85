--------------------------- MODULE SeiBytesProofs ---------------------------
(***************************************************************************)
(* What is proved of the bytes of SEIs, for all documents and signatures,  *)
(* whatever their bytes, all sizes, and every order in which SEIs are      *)
(* begun and completed: no SEI that is written with emulation prevention   *)
(* holds a start code, and what the other side reads is what was written.  *)
(*                                                                         *)
(* A SEI that waits for its signature is a writer that was put aside. For  *)
(* the first, the two bytes it remembers say enough about the end of its   *)
(* bytes to go on from there (SafeWriters): two zeros at the end are       *)
(* remembered, and one zero is, if it is the last byte. They need not be   *)
(* the last two bytes: a byte of reserved flags is added without being     *)
(* remembered.                                                             *)
(*                                                                         *)
(* For the second, every SEI is a head and a list of TLVs written by one   *)
(* writer (AsWritten), as if it had never been put aside, and a complete   *)
(* one has the stop bit behind them. An encoder that puts the bytes of     *)
(* emulation prevention in afterwards writes what that writer would have   *)
(* written with them (EscapedLater), so whichever way a SEI takes it       *)
(* arrives as one writer's work, with emulation prevention or without      *)
(* (Travels). A reader that stands where a writer stood reads back what    *)
(* was written from there (Near, ReadBack); from there the list is walked  *)
(* TLV by TLV (Walk), the signature is found at its place in the bytes     *)
(* with emulation prevention and in those without (SignedFound), and the   *)
(* list is decoded again (DecodesBack). The reader's bytes are not the     *)
(* writer's: it starts behind the flags with two ones in mind, where the   *)
(* writer remembers the end of the UUID, and the first byte of a TLV is    *)
(* not 0.                                                                  *)
(***************************************************************************)
EXTENDS SeiBytes, DataLemmas

-----------------------------------------------------------------------------
(* Writers.                                                                *)

Writers == [bytes : Seq(Nat), last : Nat \X Nat]

NoStart(bytes) ==
  \A j \in 1..(Len(bytes) - 2) : bytes[j] = 0 /\ bytes[j + 1] = 0 => bytes[j + 2] > 2

EndsWithZero(bytes) == Len(bytes) > 0 /\ bytes[Len(bytes)] = 0

EndsWithZeros(bytes) ==
  Len(bytes) > 1 /\ bytes[Len(bytes)] = 0 /\ bytes[Len(bytes) - 1] = 0

SafeWriters ==
  {w \in Writers : /\ NoStart(w.bytes)
                   /\ EndsWithZero(w.bytes) => w.last[2] = 0
                   /\ EndsWithZeros(w.bytes) => w.last[1] = 0 /\ w.last[2] = 0}

(* What a byte more does to a sequence of bytes. *)
LEMMA ByteMore ==
  ASSUME NEW bytes \in Seq(Nat), NEW byte \in Nat
  PROVE  LET new == bytes \o <<byte>>
         IN  /\ new \in Seq(Nat)
             /\ EndsWithZero(new) <=> byte = 0
             /\ EndsWithZeros(new) <=> byte = 0 /\ EndsWithZero(bytes)
             /\ NoStart(bytes) /\ (EndsWithZeros(bytes) => byte > 2) => NoStart(new)
<1> DEFINE new == bytes \o <<byte>>
           n == Len(bytes)
<1>1. n \in Nat /\ new \in Seq(Nat) /\ Len(new) = n + 1 /\ new[n + 1] = byte
      /\ \A j \in 1..n : new[j] = bytes[j]
  OBVIOUS
<1> HIDE DEF new
<1>2. EndsWithZero(new) <=> byte = 0
  BY <1>1 DEF EndsWithZero
<1>3. EndsWithZeros(new) <=> byte = 0 /\ EndsWithZero(bytes)
  BY <1>1 DEF EndsWithZeros, EndsWithZero
<1>4. ASSUME NoStart(bytes), EndsWithZeros(bytes) => byte > 2
      PROVE  NoStart(new)
  <2> SUFFICES ASSUME NEW j \in 1..(n - 1), new[j] = 0, new[j + 1] = 0
               PROVE  new[j + 2] > 2
    BY <1>1 DEF NoStart
  <2>1. bytes[j] = 0 /\ bytes[j + 1] = 0
    BY <1>1
  <2>2. CASE j = n - 1
    BY <1>1, <1>4, <2>1, <2>2 DEF EndsWithZeros
  <2>3. CASE j < n - 1
    <3>1. j \in 1..(n - 2)
      BY <1>1, <2>3
    <3>2. bytes[j + 2] > 2 /\ new[j + 2] = bytes[j + 2]
      BY <1>1, <1>4, <2>1, <3>1, SMTT(30) DEF NoStart
    <3> QED
      BY <3>2
  <2> QED
    BY <1>1, <2>2, <2>3
<1> QED
  BY <1>1, <1>2, <1>3, <1>4 DEF new

(* The same for a writer that puts the byte there as it is. *)
With(w, byte) == [bytes |-> w.bytes \o <<byte>>, last |-> <<w.last[2], byte>>]

LEMMA WithByte ==
  ASSUME NEW w \in Writers, NEW byte \in Nat
  PROVE  /\ With(w, byte) \in Writers
         /\ EndsWithZero(With(w, byte).bytes) <=> byte = 0
         /\ w \in SafeWriters /\ (EndsWithZeros(w.bytes) => byte > 2)
              => With(w, byte) \in SafeWriters
<1> DEFINE new == With(w, byte)
           bytes == w.bytes \o <<byte>>
<1>1. w.bytes \in Seq(Nat) /\ w.last[1] \in Nat /\ w.last[2] \in Nat
  BY DEF Writers
<1>2. /\ bytes \in Seq(Nat)
      /\ EndsWithZero(bytes) <=> byte = 0
      /\ EndsWithZeros(bytes) <=> byte = 0 /\ EndsWithZero(w.bytes)
      /\ NoStart(w.bytes) /\ (EndsWithZeros(w.bytes) => byte > 2) => NoStart(bytes)
  BY <1>1, ByteMore
<1>3. new = [bytes |-> bytes, last |-> <<w.last[2], byte>>]
  BY DEF With
<1> HIDE DEF new, bytes
<1>4. new \in Writers /\ new.bytes = bytes /\ new.last[1] = w.last[2] /\ new.last[2] = byte
  BY <1>1, <1>2, <1>3 DEF Writers
<1>5. ASSUME w \in SafeWriters, EndsWithZeros(w.bytes) => byte > 2
      PROVE  new \in SafeWriters
  BY <1>2, <1>4, <1>5 DEF SafeWriters
<1> QED
  BY <1>2, <1>4, <1>5 DEF new

(* write_byte() puts one or two bytes there. *)
LEMMA WriteByteIs ==
  ASSUME NEW w \in Writers, NEW byte \in Nat, NEW epb \in BOOLEAN
  PROVE  WriteByte(w, byte, epb) = IF epb /\ byte \in 0..3 /\ w.last = <<0, 0>>
                                   THEN With(With(w, 3), byte)
                                   ELSE With(w, byte)
<1>1. w.bytes \in Seq(Nat)
  BY DEF Writers
<1>2. (w.bytes \o <<3>>) \o <<byte>> = w.bytes \o <<3, byte>>
  BY <1>1
<1>3. With(With(w, 3), byte) = [bytes |-> w.bytes \o <<3, byte>>, last |-> <<3, byte>>]
  BY <1>2 DEF With
<1>4. CASE epb /\ byte \in 0..3 /\ w.last = <<0, 0>>
  BY <1>3, <1>4, Zenon DEF WriteByte
<1>5. CASE ~(epb /\ byte \in 0..3 /\ w.last = <<0, 0>>)
  BY <1>5, Zenon DEF WriteByte, With
<1> QED
  BY <1>4, <1>5

(* write_byte() keeps what a writer knows about its bytes.                 *)
LEMMA WriteByteTyped ==
  ASSUME NEW w \in Writers, NEW byte \in Nat, NEW epb \in BOOLEAN
  PROVE  WriteByte(w, byte, epb) \in Writers
<1>1. With(w, byte) \in Writers /\ With(w, 3) \in Writers
  BY WithByte
<1>2. With(With(w, 3), byte) \in Writers
  BY <1>1, WithByte
<1> QED
  BY <1>1, <1>2, WriteByteIs

(* With emulation prevention a safe writer stays safe. *)
LEMMA WriteByteSafe ==
  ASSUME NEW w \in SafeWriters, NEW byte \in Nat
  PROVE  WriteByte(w, byte, TRUE) \in SafeWriters
<1> DEFINE escaped == With(w, 3)
<1>1. w \in Writers /\ w.last = <<w.last[1], w.last[2]>>
  BY DEF SafeWriters, Writers
<1>2. CASE byte \in 0..3 /\ w.last = <<0, 0>>
  <2>1. escaped \in SafeWriters /\ escaped \in Writers /\ ~EndsWithZero(escaped.bytes)
    BY <1>1, WithByte
  <2>2. escaped.bytes \in Seq(Nat)
    BY <2>1 DEF Writers
  <2> HIDE DEF escaped
  <2>3. ~EndsWithZeros(escaped.bytes)
    BY <2>1, <2>2 DEF EndsWithZeros, EndsWithZero
  <2>4. With(escaped, byte) \in SafeWriters
    BY <2>1, <2>3, WithByte
  <2> QED
    BY <1>1, <1>2, <2>4, WriteByteIs DEF escaped
<1>3. CASE ~(byte \in 0..3 /\ w.last = <<0, 0>>)
  <2>1. EndsWithZeros(w.bytes) => byte > 2
    BY <1>1, <1>3 DEF SafeWriters
  <2>2. With(w, byte) \in SafeWriters
    BY <1>1, <2>1, WithByte
  <2> QED
    BY <1>1, <1>3, <2>2, WriteByteIs
<1> QED
  BY <1>2, <1>3

(* A byte that is written as it is must not be one that starts a code.     *)
LEMMA WritePlainSafe ==
  ASSUME NEW w \in SafeWriters, NEW byte \in Nat, EndsWithZeros(w.bytes) => byte > 2
  PROVE  /\ WriteByte(w, byte, FALSE) \in SafeWriters
         /\ EndsWithZero(WriteByte(w, byte, FALSE).bytes) <=> byte = 0
<1>1. w \in Writers
  BY DEF SafeWriters
<1>2. WriteByte(w, byte, FALSE) = With(w, byte)
  BY <1>1, WriteByteIs
<1> QED
  BY <1>1, <1>2, WithByte

-----------------------------------------------------------------------------
(* Many bytes.                                                             *)

(* What is written byte by byte. *)
Writes(f, w, bytes, epb) ==
  /\ f \in [0..Len(bytes) -> Writers]
  /\ f[0] = w /\ f[Len(bytes)] = WriteMany(w, bytes, epb)
  /\ \A i \in 1..Len(bytes) : f[i] = WriteByte(f[i - 1], bytes[i], epb)

LEMMA ByteByByte ==
  ASSUME NEW w \in Writers, NEW bytes \in Seq(Nat), NEW epb \in BOOLEAN
  PROVE  \E f : Writes(f, w, bytes, epb)
<1> DEFINE n == Len(bytes)
           step == [p \in (1..n) \X Writers |-> WriteByte(p[2], bytes[p[1]], epb)]
           Body(f, i) == IF i = 0 THEN w ELSE WriteByte(f[i - 1], bytes[i], epb)
           IsAfter(f) == f = [i \in 0..n |-> Body(f, i)]
           after == CHOOSE f : IsAfter(f)
<1>1. n \in Nat /\ \A i \in 1..n : bytes[i] \in Nat
  OBVIOUS
<1>2. step \in [(1..n) \X Writers -> Writers]
  <2>1. \A p \in (1..n) \X Writers : WriteByte(p[2], bytes[p[1]], epb) \in Writers
    BY <1>1, WriteByteTyped
  <2> QED
    BY <2>1
<1> HIDE DEF n, step
<1>3. PICK g : GoesBy(g, n, Writers, w, step)
  BY <1>1, <1>2, StepByStep
<1>4. g \in [0..n -> Writers] /\ g[0] = w /\ \A i \in 1..n : g[i] = step[<<i, g[i - 1]>>]
  BY <1>3 DEF GoesBy
<1>5. \A i \in 1..n : g[i] = WriteByte(g[i - 1], bytes[i], epb)
  <2> TAKE i \in 1..n
  <2>1. g[i - 1] \in Writers
    BY <1>1, <1>4
  <2>2. <<i, g[i - 1]>> \in (1..n) \X Writers
    BY <2>1
  <2> QED
    BY <1>4, <2>2 DEF step
<1>6. IsAfter(g)
  <2>1. \A i \in 0..n : g[i] = Body(g, i)
    BY <1>1, <1>4, <1>5
  <2> QED
    BY <1>4, <2>1
<1>7. IsAfter(after)
  <2> HIDE DEF IsAfter
  <2> QED
    BY <1>6
<1>8. WriteMany(w, bytes, epb) = after[n]
  BY Zenon DEF WriteMany, n
<1> HIDE DEF after
<1>9. after[0] = w /\ \A i \in 1..n : after[i] = WriteByte(after[i - 1], bytes[i], epb)
  BY <1>1, <1>7
<1> DEFINE T == {i \in 0..n : after[i] \in Writers}
<1>10. 0 \in T
  BY <1>1, <1>9
<1>11. ASSUME NEW i \in 1..n, i - 1 \in T
       PROVE  i \in T
  <2>1. after[i] \in Writers
    BY <1>1, <1>9, <1>11, WriteByteTyped
  <2> QED
    BY <1>1, <2>1
<1> HIDE DEF T
<1>12. 0..n \subseteq T
  BY <1>1, <1>10, <1>11, UpToAll
<1>13. after \in [0..n -> Writers]
  BY <1>7, <1>12 DEF T
<1>14. Writes(after, w, bytes, epb)
  BY <1>8, <1>9, <1>13 DEF Writes, n
<1> QED
  BY <1>14

(* What every byte keeps is kept by all of them. *)
LEMMA WriteManyKeeps ==
  ASSUME NEW w \in Writers, NEW bytes \in Seq(Nat), NEW epb \in BOOLEAN,
         NEW S, w \in S, \A x \in S, byte \in Nat : WriteByte(x, byte, epb) \in S
  PROVE  WriteMany(w, bytes, epb) \in S
<1> DEFINE n == Len(bytes)
<1>1. n \in Nat /\ \A i \in 1..n : bytes[i] \in Nat
  OBVIOUS
<1>2. PICK f : Writes(f, w, bytes, epb)
  BY ByteByByte
<1>3. /\ f[0] = w /\ f[n] = WriteMany(w, bytes, epb)
      /\ \A i \in 1..n : f[i] = WriteByte(f[i - 1], bytes[i], epb)
  BY <1>2 DEF Writes
<1> HIDE DEF n
<1> DEFINE T == {i \in 0..n : f[i] \in S}
<1>4. 0 \in T
  BY <1>1, <1>3
<1>5. ASSUME NEW i \in 1..n, i - 1 \in T
      PROVE  i \in T
  <2>1. f[i - 1] \in S /\ bytes[i] \in Nat
    BY <1>1, <1>5
  <2>2. WriteByte(f[i - 1], bytes[i], epb) \in S
    BY <2>1
  <2> QED
    BY <1>1, <1>3, <2>2
<1> HIDE DEF T
<1>6. 0..n \subseteq T
  BY <1>1, <1>4, <1>5, UpToAll
<1>7. f[n] \in S
  BY <1>1, <1>6 DEF T
<1> QED
  BY <1>3, <1>7

(* The same for types. *)
LEMMA WriteManyTyped ==
  ASSUME NEW w \in Writers, NEW bytes \in Seq(Nat), NEW epb \in BOOLEAN
  PROVE  WriteMany(w, bytes, epb) \in Writers
<1>1. \A x \in Writers, byte \in Nat : WriteByte(x, byte, epb) \in Writers
  BY WriteByteTyped
<1> QED
  BY <1>1, WriteManyKeeps

(* The same for safety. *)
LEMMA WriteManySafe ==
  ASSUME NEW w \in SafeWriters, NEW bytes \in Seq(Nat)
  PROVE  WriteMany(w, bytes, TRUE) \in SafeWriters
<1>1. \A x \in SafeWriters, byte \in Nat : WriteByte(x, byte, TRUE) \in SafeWriters
  BY WriteByteSafe
<1>2. w \in Writers
  BY DEF SafeWriters
<1> QED
  BY <1>1, <1>2, WriteManyKeeps

(* The head of a NAL Unit is written as it is.  At most its last byte is 0. *)
LEMMA WriteHeadSafe ==
  ASSUME NEW bytes \in Seq(Nat), \A i \in 1..(Len(bytes) - 1) : bytes[i] # 0
  PROVE  WriteMany(Nothing, bytes, FALSE) \in SafeWriters
<1> DEFINE n == Len(bytes)
<1>1. n \in Nat /\ \A i \in 1..n : bytes[i] \in Nat
  OBVIOUS
<1>2. Nothing \in SafeWriters /\ Nothing \in Writers /\ ~EndsWithZero(Nothing.bytes)
  BY DEF Nothing, LAST_TWO_BYTES_INIT_VALUE, SafeWriters, Writers, NoStart, EndsWithZero,
         EndsWithZeros
<1>3. PICK f : Writes(f, Nothing, bytes, FALSE)
  BY <1>2, ByteByByte
<1>4. /\ f[0] = Nothing /\ f[n] = WriteMany(Nothing, bytes, FALSE)
      /\ \A i \in 1..n : f[i] = WriteByte(f[i - 1], bytes[i], FALSE)
  BY <1>3 DEF Writes
<1>5. \A i \in 1..(n - 1) : bytes[i] # 0
  OBVIOUS
<1> HIDE DEF n
<1> DEFINE T == {i \in 0..n : f[i] \in SafeWriters /\ (i < n => ~EndsWithZero(f[i].bytes))}
<1>6. 0 \in T
  BY <1>1, <1>2, <1>4
<1>7. ASSUME NEW i \in 1..n, i - 1 \in T
      PROVE  i \in T
  <2>1. f[i - 1] \in SafeWriters /\ ~EndsWithZero(f[i - 1].bytes) /\ bytes[i] \in Nat
    BY <1>1, <1>7
  <2>2. ~EndsWithZeros(f[i - 1].bytes)
    <3>1. f[i - 1].bytes \in Seq(Nat)
      BY <2>1 DEF SafeWriters, Writers
    <3> QED
      BY <2>1, <3>1 DEF EndsWithZero, EndsWithZeros
  <2>3. f[i] \in SafeWriters /\ (EndsWithZero(f[i].bytes) <=> bytes[i] = 0)
    BY <1>4, <2>1, <2>2, WritePlainSafe
  <2>4. i < n => bytes[i] # 0
    BY <1>1, <1>5
  <2> QED
    BY <1>1, <2>3, <2>4
<1> HIDE DEF T
<1>8. 0..n \subseteq T
  BY <1>1, <1>6, <1>7, UpToAll
<1>9. f[n] \in SafeWriters
  BY <1>1, <1>8 DEF T
<1> QED
  BY <1>4, <1>9

-----------------------------------------------------------------------------
(* What is written.                                                        *)

Tlvs == [tag : Nat, value : Seq(Nat)]

(* A TLV is a sequence of bytes. *)
LEMMA EncodedTyped ==
  ASSUME NEW tlv \in Tlvs
  PROVE  Encoded(tlv) \in Seq(Nat)
<1> DEFINE size == Len(tlv.value)
           head == <<tlv.tag, (size \div 256) % 256, size % 256>>
<1>1. tlv.tag \in Nat /\ tlv.value \in Seq(Nat) /\ size \in Nat
  BY DEF Tlvs
<1>2. Encoded(tlv) = head \o tlv.value
  BY DEF Encoded
<1> HIDE DEF size
<1>3. (size \div 256) % 256 \in Nat /\ size % 256 \in Nat
  BY <1>1
<1>4. head \in Seq(Nat)
  BY <1>1, <1>3
<1> HIDE DEF head
<1> QED
  BY <1>1, <1>2, <1>4

(* What is put together sequence by sequence. *)
Flattens(g, seqs, n, S) ==
  /\ g \in [0..n -> Seq(S)] /\ g[0] = <<>> /\ g[n] = FlattenSeq(seqs)
  /\ \A i \in 1..n : g[i] = g[i - 1] \o seqs[i]

LEMMA SequenceBySequence ==
  ASSUME NEW S, NEW n \in Nat, NEW seqs \in [1..n -> Seq(S)]
  PROVE  \E g : Flattens(g, seqs, n, S)
<1> DEFINE step == [p \in (1..n) \X Seq(S) |-> p[2] \o seqs[p[1]]]
           Body(f, i) == IF i = 1 THEN seqs[i] ELSE f[i - 1] \o seqs[i]
           IsFlat(f) == f = [i \in 1..n |-> Body(f, i)]
           flatten == CHOOSE f : IsFlat(f)
<1>1. Len(seqs) = n /\ seqs \in Seq(Seq(S))
  OBVIOUS
<1>2. CASE n = 0
  <2>1. FlattenSeq(seqs) = seqs
    BY <1>1, <1>2, Zenon DEF FlattenSeq
  <2>2. seqs = <<>>
    BY <1>1, <1>2
  <2> DEFINE g == [i \in 0..n |-> <<>>]
  <2>3. g \in [0..n -> Seq(S)] /\ g[0] = <<>> /\ g[n] = <<>> /\ 1..n = {}
    BY <1>2
  <2> HIDE DEF g
  <2>4. Flattens(g, seqs, n, S)
    BY <2>1, <2>2, <2>3 DEF Flattens
  <2> QED
    BY <2>4
<1>3. CASE n > 0
  <2>1. step \in [(1..n) \X Seq(S) -> Seq(S)]
    <3>1. \A p \in (1..n) \X Seq(S) : p[2] \o seqs[p[1]] \in Seq(S)
      OBVIOUS
    <3> QED
      BY <3>1
  <2> HIDE DEF step
  <2>2. PICK g : GoesBy(g, n, Seq(S), <<>>, step)
    <3>1. <<>> \in Seq(S)
      OBVIOUS
    <3> QED
      BY <2>1, <3>1, StepByStep
  <2>3. /\ g \in [0..n -> Seq(S)] /\ g[0] = <<>>
        /\ \A i \in 1..n : g[i] = step[<<i, g[i - 1]>>]
    BY <2>2 DEF GoesBy
  <2>4. \A i \in 1..n : g[i] = g[i - 1] \o seqs[i]
    <3> TAKE i \in 1..n
    <3>1. g[i - 1] \in Seq(S)
      BY <2>3
    <3>2. <<i, g[i - 1]>> \in (1..n) \X Seq(S)
      BY <3>1
    <3> QED
      BY <2>3, <3>2 DEF step
  <2> DEFINE h == [i \in 1..n |-> g[i]]
  <2>5. IsFlat(h)
    <3>1. ASSUME NEW i \in 1..n
          PROVE  h[i] = Body(h, i)
      <4>1. CASE i = 1
        <5>1. 1 \in 1..n /\ 1 - 1 = 0 /\ seqs[1] \in Seq(S)
          BY <1>3
        <5>2. g[1] = g[1 - 1] \o seqs[1]
          BY <2>4, <5>1
        <5>3. \A x \in Seq(S) : <<>> \o x = x
          OBVIOUS
        <5>4. g[1] = seqs[1]
          BY <2>3, <5>1, <5>2, <5>3
        <5> QED
          BY <4>1, <5>1, <5>4
      <4>2. CASE i # 1
        <5>1. h[i - 1] = g[i - 1] /\ g[i] = g[i - 1] \o seqs[i]
          BY <2>4, <4>2, SMTT(30)
        <5> QED
          BY <4>2, <5>1
      <4> QED
        BY <4>1, <4>2
    <3> QED
      BY <3>1
  <2>6. IsFlat(flatten)
    <3> HIDE DEF IsFlat, h
    <3> QED
      BY <2>5
  <2>7. FlattenSeq(seqs) = flatten[n]
    BY <1>1, <1>3 DEF FlattenSeq
  <2> HIDE DEF flatten, h
  <2> DEFINE T == {i \in 0..n : i = 0 \/ flatten[i] = g[i]}
  <2>8. 0 \in T
    OBVIOUS
  <2>9. ASSUME NEW i \in 1..n, i - 1 \in T
        PROVE  i \in T
    <3>1. flatten[i] = Body(flatten, i) /\ seqs[i] \in Seq(S)
      BY <2>6
    <3>2. g[i] = g[i - 1] \o seqs[i]
      BY <2>4
    <3>3. CASE i = 1
      <4>1. g[i - 1] = <<>> /\ flatten[i] = seqs[i]
        BY <2>3, <3>1, <3>3
      <4>2. \A x \in Seq(S) : <<>> \o x = x
        OBVIOUS
      <4>3. flatten[i] = g[i]
        BY <3>1, <3>2, <4>1, <4>2
      <4> QED
        BY <4>3
    <3>4. CASE i # 1
      <4>1. flatten[i - 1] = g[i - 1]
        <5>1. i - 1 # 0
          BY <3>4
        <5> QED
          BY <2>9, <5>1
      <4>2. flatten[i] = flatten[i - 1] \o seqs[i]
        BY <3>1, <3>4
      <4>3. flatten[i] = g[i]
        BY <3>2, <4>1, <4>2
      <4> QED
        BY <4>3
    <3> QED
      BY <3>3, <3>4
  <2> HIDE DEF T
  <2>10. 0..n \subseteq T
    BY <2>8, <2>9, UpToAll
  <2>11. flatten[n] = g[n]
    BY <1>3, <2>10 DEF T
  <2>12. Flattens(g, seqs, n, S)
    BY <2>3, <2>4, <2>7, <2>11 DEF Flattens
  <2> QED
    BY <2>12
<1> QED
  BY <1>2, <1>3

(* The whole of it. *)
LEMMA FlattenTyped ==
  ASSUME NEW S, NEW n \in Nat, NEW seqs \in [1..n -> Seq(S)]
  PROVE  FlattenSeq(seqs) \in Seq(S)
<1>1. PICK g : Flattens(g, seqs, n, S)
  BY SequenceBySequence
<1>2. g \in [0..n -> Seq(S)] /\ g[n] = FlattenSeq(seqs) /\ n \in 0..n
  BY <1>1 DEF Flattens
<1> QED
  BY <1>2

(* A list of TLVs is a sequence of bytes. *)
LEMMA EncodedListTyped ==
  ASSUME NEW tlvs \in Seq(Tlvs)
  PROVE  EncodedList(tlvs) \in Seq(Nat)
<1>1. Len(tlvs) \in Nat /\ DOMAIN tlvs = 1..Len(tlvs) /\ \A i \in DOMAIN tlvs : tlvs[i] \in Tlvs
  OBVIOUS
<1>2. \A i \in DOMAIN tlvs : Encoded(tlvs[i]) \in Seq(Nat)
  BY <1>1, EncodedTyped
<1>3. [i \in DOMAIN tlvs |-> Encoded(tlvs[i])] \in [1..Len(tlvs) -> Seq(Nat)]
  BY <1>1, <1>2
<1> QED
  BY <1>1, <1>3, FlattenTyped DEF EncodedList

(* Of the bytes of a payload size only the last may be 0. *)
LEMMA SizeBytesAre ==
  ASSUME NEW size \in Nat
  PROVE  /\ SizeBytes(size) \in Seq(Nat)
         /\ \A i \in 1..(Len(SizeBytes(size)) - 1) : SizeBytes(size)[i] # 0
<1> DEFINE k == size \div SizeUnit
           units == [i \in 1..k |-> SizeUnit]
<1>1. SizeUnit \in Nat \ {0} /\ k \in Nat /\ size % SizeUnit \in Nat
  BY BytesAssumption
<1> HIDE DEF k
<1>2. units \in Seq(Nat) /\ Len(units) = k /\ \A i \in 1..k : units[i] # 0
  BY <1>1
<1>3. SizeBytes(size) = units \o <<size % SizeUnit>>
  BY DEF SizeBytes, k
<1> HIDE DEF units
<1> QED
  BY <1>1, <1>2, <1>3

(* The signature is a TLV. *)
LEMMA SignatureTlvTyped ==
  ASSUME NEW signature \in Signatures
  PROVE  SignatureTlv(signature) \in Tlvs
<1> DEFINE rest == [i \in 1..(MaxSignatureSize - Len(signature)) |-> 1]
<1>1. /\ MaxSignatureSize \in Nat /\ signature \in Seq(Nat)
      /\ Len(signature) \in 1..MaxSignatureSize
  <2>1. /\ MaxSignatureSize \in Nat /\ signature \in Seq(Bytes)
        /\ Len(signature) \in 1..MaxSignatureSize
    BY BytesAssumption
  <2>2. Bytes \subseteq Nat
    BY DEF Bytes
  <2>3. signature \in [1..Len(signature) -> Bytes] /\ Len(signature) \in Nat
    BY <2>1
  <2>4. signature \in [1..Len(signature) -> Nat]
    BY <2>2, <2>3
  <2>5. signature \in Seq(Nat)
    BY <2>3, <2>4
  <2> QED
    BY <2>1, <2>5
<1>2. rest \in Seq(Nat)
  BY <1>1
<1>3. <<1, 0, Len(signature)>> \in Seq(Nat)
  BY <1>1
<1> HIDE DEF rest
<1>4. <<1, 0, Len(signature)>> \o signature \o rest \in Seq(Nat)
  BY <1>1, <1>2, <1>3
<1>5. SignatureTlv(signature)
        = [tag |-> 3, value |-> <<1, 0, Len(signature)>> \o signature \o rest]
  BY DEF SignatureTlv, SIGNATURE_TAG, rest
<1> QED
  BY <1>4, <1>5 DEF Tlvs

-----------------------------------------------------------------------------
(* The SEIs.                                                               *)

SeiRecords ==
  [bytes : Seq(Nat), last : Nat \X Nat, completed : Seq(Nat), tlvs : Seq(Tlvs),
   certificate : BOOLEAN, signed : BOOLEAN]

Typed ==
  /\ sei_epb \in BOOLEAN /\ lastTwoBytes \in Nat \X Nat /\ seis \in Seq(SeiRecords)

(* A SEI that waits can be gone on with. *)
IsSafe(sei) ==
  IF Complete(sei) THEN NoStart(sei.completed)
  ELSE [bytes |-> sei.bytes, last |-> sei.last] \in SafeWriters

IInv == Typed /\ (sei_epb => \A i \in DOMAIN seis : IsSafe(seis[i]))

(* The stop bit and the signature before it.                               *)
LEMMA StopBitSafe ==
  ASSUME NEW w \in Writers
  PROVE  /\ WithStopBit(w) \in Writers
         /\ w \in SafeWriters => WithStopBit(w) \in SafeWriters
<1>1. STOP_BYTE_VALUE \in Nat /\ STOP_BYTE_VALUE > 2
  BY DEF STOP_BYTE_VALUE
<1>2. WithStopBit(w) \in Writers
  BY <1>1, WriteByteTyped DEF WithStopBit
<1>3. w \in SafeWriters => WithStopBit(w) \in SafeWriters
  BY <1>1, WritePlainSafe DEF WithStopBit
<1> QED
  BY <1>2, <1>3

(* The signature is written with emulation prevention, as the TLVs before  *)
(* it. *)
LEMMA SignatureSafe ==
  ASSUME Typed, NEW w \in Writers, NEW signature \in Signatures
  PROVE  /\ WithSignature(w, signature) \in Writers
         /\ sei_epb /\ w \in SafeWriters => WithSignature(w, signature) \in SafeWriters
<1> DEFINE bytes == Encoded(SignatureTlv(signature))
           written == WriteMany(w, bytes, sei_epb)
<1>1. bytes \in Seq(Nat)
  BY SignatureTlvTyped, EncodedTyped
<1>2. WithSignature(w, signature) = WithStopBit(written)
  BY DEF WithSignature
<1> HIDE DEF bytes
<1>3. written \in Writers
  BY <1>1, WriteManyTyped DEF Typed
<1>4. ASSUME sei_epb, w \in SafeWriters
      PROVE  written \in SafeWriters
  <2>1. sei_epb = TRUE
    BY <1>4 DEF Typed
  <2> QED
    BY <1>1, <1>4, <2>1, WriteManySafe
<1> HIDE DEF written
<1> QED
  BY <1>2, <1>3, <1>4, StopBitSafe

(* The flags are added without being remembered. *)
LEMMA FlagsSafe ==
  ASSUME Typed, NEW w \in Writers, NEW certificate \in BOOLEAN
  PROVE  LET flagged == [w EXCEPT !.bytes = Append(@, Reserved(certificate))]
         IN  /\ flagged \in Writers
             /\ sei_epb /\ w \in SafeWriters => flagged \in SafeWriters
<1> DEFINE flags == Reserved(certificate)
           flagged == [w EXCEPT !.bytes = Append(@, flags)]
           bytes == w.bytes \o <<flags>>
<1>1. flags \in Nat /\ (sei_epb => flags > 2)
  BY DEF Reserved, Typed
<1> HIDE DEF flags
<1>2. w.bytes \in Seq(Nat) /\ w.last \in Nat \X Nat
  BY DEF Writers
<1>3. Append(w.bytes, flags) = bytes
  BY <1>1, <1>2, SMTT(30)
<1>4. /\ bytes \in Seq(Nat)
      /\ EndsWithZero(bytes) <=> flags = 0
      /\ EndsWithZeros(bytes) <=> flags = 0 /\ EndsWithZero(w.bytes)
      /\ NoStart(w.bytes) /\ (EndsWithZeros(w.bytes) => flags > 2) => NoStart(bytes)
  BY <1>1, <1>2, ByteMore
<1>5. flagged = [w EXCEPT !.bytes = bytes]
  BY <1>3, Zenon
<1> HIDE DEF bytes, flagged
<1>6. flagged \in Writers /\ flagged.bytes = bytes /\ flagged.last = w.last
  BY ONLY <1>2, <1>4, <1>5, w \in Writers DEF Writers
<1>7. ASSUME sei_epb, w \in SafeWriters
      PROVE  flagged \in SafeWriters
  <2>1. flags > 2 /\ NoStart(w.bytes)
    BY <1>1, <1>7 DEF SafeWriters
  <2>2. NoStart(bytes) /\ ~EndsWithZero(bytes) /\ ~EndsWithZeros(bytes)
    BY <1>1, <1>4, <2>1
  <2> QED
    BY <1>6, <2>2 DEF SafeWriters
<1> QED
  BY <1>6, <1>7 DEF flags, flagged

-----------------------------------------------------------------------------
(* A SEI is begun.                                                         *)

(* What documents are made of. *)
LEMMA DocumentTyped ==
  ASSUME NEW document \in Documents \cup NextDocuments
  PROVE  document.certificate \in BOOLEAN /\ document.tlvs \in Seq(Tlvs)
<1> DEFINE Allowed == [tag : Bytes \ {UNDEFINED_TAG, SIGNATURE_TAG}, value : Seq(Bytes) \ {<<>>}]
           tlvs == document.tlvs
<1>1. document.certificate \in BOOLEAN /\ tlvs \in Seq(Allowed)
  BY BytesAssumption
<1>2. Allowed \subseteq Tlvs
  <2> SUFFICES ASSUME NEW tlv \in Allowed PROVE tlv \in Tlvs
    OBVIOUS
  <2> DEFINE tag == tlv.tag
             value == tlv.value
  <2>1. tag \in Bytes /\ value \in Seq(Bytes) /\ tlv = [tag |-> tag, value |-> value]
    OBVIOUS
  <2> HIDE DEF tag, value
  <2>2. Bytes \subseteq Nat
    BY DEF Bytes
  <2>3. value \in [1..Len(value) -> Bytes] /\ Len(value) \in Nat
    BY <2>1
  <2>4. value \in [1..Len(value) -> Nat]
    BY <2>2, <2>3
  <2>5. value \in Seq(Nat) /\ tag \in Nat
    BY <2>1, <2>2, <2>3, <2>4
  <2> QED
    BY <2>1, <2>5 DEF Tlvs
<1> HIDE DEF Allowed, tlvs
<1>3. tlvs \in [1..Len(tlvs) -> Allowed] /\ Len(tlvs) \in Nat
  BY <1>1
<1>4. tlvs \in [1..Len(tlvs) -> Tlvs]
  BY <1>2, <1>3
<1>5. tlvs \in Seq(Tlvs)
  BY <1>3, <1>4
<1> QED
  BY <1>1, <1>5 DEF tlvs

(* Everything up to the signature is written. *)
LEMMA BegunSafe ==
  ASSUME Typed, NEW tlvs \in Seq(Tlvs), NEW certificate \in BOOLEAN, NEW signed \in BOOLEAN
  PROVE  LET written == Begun(tlvs, certificate, signed)
         IN  written \in Writers /\ (sei_epb => written \in SafeWriters)
<1> DEFINE size    == Len(UUID) + 1 + Len(EncodedList(tlvs))
                        + (IF signed THEN 6 + MaxSignatureSize ELSE 0)
           head    == <<6, 5>> \o SizeBytes(size)
           begun   == WriteMany(Nothing, head, FALSE)
           uuid    == WriteMany(begun, UUID, TRUE)
           flagged == [uuid EXCEPT !.bytes = Append(@, Reserved(certificate))]
           list    == EncodedList(tlvs)
           written == WriteMany(flagged, list, sei_epb)
<1>0. size \in Nat
  <2>1. Len(EncodedList(tlvs)) \in Nat
    BY EncodedListTyped
  <2>2. Len(UUID) = 2 /\ MaxSignatureSize \in Nat
    BY BytesAssumption DEF UUID
  <2> QED
    BY <2>1, <2>2
<1>10. Begun(tlvs, certificate, signed) = written
  BY Zenon DEF Begun
<1> HIDE DEF size
<1>1. head \in Seq(Nat) /\ \A i \in 1..(Len(head) - 1) : head[i] # 0
  <2> DEFINE sizes == SizeBytes(size)
  <2>1. sizes \in Seq(Nat) /\ \A i \in 1..(Len(sizes) - 1) : sizes[i] # 0
    BY <1>0, SizeBytesAre
  <2> HIDE DEF sizes
  <2>2. head \in Seq(Nat) /\ Len(head) = 2 + Len(sizes)
        /\ head[1] = 6 /\ head[2] = 5 /\ \A i \in 3..Len(head) : head[i] = sizes[i - 2]
    BY <2>1 DEF sizes
  <2> HIDE DEF head
  <2>3. ASSUME NEW i \in 1..(Len(head) - 1)
        PROVE  head[i] # 0
    <3>1. Len(sizes) \in Nat
      BY <2>1
    <3>2. i < 3 => i = 1 \/ i = 2
      BY <2>2, <3>1
    <3>3. i >= 3 => i - 2 \in 1..(Len(sizes) - 1) /\ i \in 3..Len(head)
      BY <2>2, <3>1
    <3>4. i >= 3 => head[i] = sizes[i - 2] /\ sizes[i - 2] # 0
      BY <2>1, <2>2, <3>3
    <3>5. i < 3 \/ i >= 3
      BY <2>2, <3>1
    <3>6. CASE i < 3
      <4>1. i = 1 \/ i = 2
        BY <3>2, <3>6
      <4> QED
        BY <2>2, <4>1
    <3> QED
      BY <3>4, <3>5, <3>6
  <2> QED
    BY <2>2, <2>3
<1> HIDE DEF head
<1>2. begun \in SafeWriters
  BY <1>1, WriteHeadSafe
<1> HIDE DEF begun
<1>3. UUID \in Seq(Nat)
  BY DEF UUID
<1>4. uuid \in SafeWriters
  BY <1>2, <1>3, WriteManySafe
<1> HIDE DEF uuid
<1>5. uuid \in Writers
  BY <1>4 DEF SafeWriters
<1>6. list \in Seq(Nat)
  BY EncodedListTyped
<1> HIDE DEF list
<1>7. flagged \in Writers /\ (sei_epb => flagged \in SafeWriters)
  BY <1>4, <1>5, <1>6, FlagsSafe
<1> HIDE DEF flagged
<1>8. written \in Writers
  BY <1>6, <1>7, WriteManyTyped DEF Typed
<1>9. ASSUME sei_epb
      PROVE  written \in SafeWriters
  <2>1. sei_epb = TRUE
    BY <1>9 DEF Typed
  <2> QED
    BY <1>6, <1>7, <2>1, WriteManySafe
<1> QED
  BY <1>8, <1>9, <1>10

(* generate_sei_and_add_to_buffer() keeps the invariant. *)
LEMMA GenerateSeiKeeps ==
  ASSUME IInv, NEW document \in Documents \cup NextDocuments, NEW signed \in BOOLEAN,
         GenerateSei(document, signed)
  PROVE  IInv'
<1> DEFINE written == Begun(document.tlvs, document.certificate, signed)
           end     == IF signed THEN written ELSE WithStopBit(written)
           sei     == [bytes |-> end.bytes, last |-> end.last,
                       completed |-> IF signed THEN <<>> ELSE end.bytes,
                       tlvs |-> document.tlvs, certificate |-> document.certificate,
                       signed |-> signed]
<1>1. document.certificate \in BOOLEAN /\ document.tlvs \in Seq(Tlvs)
  BY DocumentTyped
<1>3. lastTwoBytes' = end.last /\ seis' = Append(seis, sei) /\ sei_epb' = sei_epb
  BY Zenon DEF GenerateSei
<1>4. Typed /\ (sei_epb => \A i \in DOMAIN seis : IsSafe(seis[i]))
  BY DEF IInv
<1>5. written \in Writers /\ (sei_epb => written \in SafeWriters)
  BY <1>1, <1>4, BegunSafe
<1> HIDE DEF written
<1>6. end \in Writers /\ (sei_epb => end \in SafeWriters)
  BY <1>5, StopBitSafe
<1> HIDE DEF end
<1>7. end.bytes \in Seq(Nat) /\ end.last \in Nat \X Nat
      /\ [bytes |-> end.bytes, last |-> end.last] = end
  BY <1>6 DEF Writers
<1>8. sei \in SeiRecords
  BY <1>1, <1>7 DEF SeiRecords
<1>9. ASSUME sei_epb
      PROVE  IsSafe(sei)
  <2>1. CASE Complete(sei)
    <3>1. sei.completed = end.bytes
      BY <2>1 DEF Complete
    <3>2. NoStart(end.bytes)
      BY <1>6, <1>9 DEF SafeWriters
    <3> QED
      BY <2>1, <3>1, <3>2 DEF IsSafe
  <2>2. CASE ~Complete(sei)
    <3>1. sei.bytes = end.bytes /\ sei.last = end.last
      OBVIOUS
    <3> QED
      BY <1>6, <1>7, <1>9, <2>2, <3>1 DEF IsSafe
  <2> QED
    BY <2>1, <2>2
<1> HIDE DEF sei
<1>10. Typed'
  BY <1>3, <1>4, <1>7, <1>8 DEF Typed
<1>11. ASSUME sei_epb, NEW i \in DOMAIN seis'
       PROVE  IsSafe(seis'[i])
  <2>1. seis \in Seq(SeiRecords) /\ DOMAIN seis' = 1..(Len(seis) + 1)
        /\ seis'[Len(seis) + 1] = sei /\ \A j \in DOMAIN seis : seis'[j] = seis[j]
    BY <1>3, <1>4, <1>8 DEF Typed
  <2>2. i = Len(seis) + 1 \/ i \in DOMAIN seis
    BY <2>1
  <2> QED
    BY <1>4, <1>9, <1>11, <2>1, <2>2
<1>12. sei_epb' => \A i \in DOMAIN seis' : IsSafe(seis'[i])
  BY <1>3, <1>11
<1>13. (\A i \in DOMAIN seis : IsSafe(seis[i]))' <=> \A i \in DOMAIN seis' : IsSafe(seis'[i])
  BY DEF IsSafe, Complete
<1> QED
  BY <1>10, <1>12, <1>13 DEF IInv

-----------------------------------------------------------------------------
(* A SEI is completed.                                                     *)

(* complete_sei() keeps the invariant. *)
LEMMA CompleteSeiKeeps ==
  ASSUME IInv, NEW signature \in Signatures, CompleteSei(signature)
  PROVE  IInv'
<1>1. PICK i \in DOMAIN seis :
        LET w == WithSignature([bytes |-> seis[i].bytes, last |-> seis[i].last], signature)
        IN  /\ ~Complete(seis[i])
            /\ seis' = [seis EXCEPT ![i].completed = w.bytes,
                                    ![i].tlvs = Append(@, SignatureTlv(signature))]
            /\ lastTwoBytes' = w.last /\ sei_epb' = sei_epb
  BY Zenon DEF CompleteSei
<1> DEFINE begun == [bytes |-> seis[i].bytes, last |-> seis[i].last]
           w == WithSignature(begun, signature)
           tlvs == Append(seis[i].tlvs, SignatureTlv(signature))
           sei == [seis[i] EXCEPT !.completed = w.bytes, !.tlvs = tlvs]
<1>2. Typed /\ (sei_epb => \A j \in DOMAIN seis : IsSafe(seis[j]))
  BY DEF IInv
<1>3. seis \in Seq(SeiRecords) /\ seis[i] \in SeiRecords
  BY <1>2 DEF Typed
<1>4. begun \in Writers /\ (sei_epb => begun \in SafeWriters)
  <2>1. begun \in Writers
    BY <1>3 DEF SeiRecords, Writers
  <2>2. sei_epb => begun \in SafeWriters
    BY <1>1, <1>2 DEF IsSafe
  <2> QED
    BY <2>1, <2>2
<1>5. seis' = [seis EXCEPT ![i] = sei] /\ lastTwoBytes' = w.last /\ sei_epb' = sei_epb
  BY <1>1, <1>3
<1> HIDE DEF begun
<1>6. w \in Writers /\ (sei_epb => w \in SafeWriters)
  BY <1>2, <1>4, SignatureSafe
<1> HIDE DEF w
<1>7. w.bytes \in Seq(Nat) /\ w.last \in Nat \X Nat
  BY <1>6 DEF Writers
<1>8. tlvs \in Seq(Tlvs)
  <2>1. SignatureTlv(signature) \in Tlvs /\ seis[i].tlvs \in Seq(Tlvs)
    BY <1>3, SignatureTlvTyped DEF SeiRecords
  <2> QED
    BY <2>1
<1> HIDE DEF tlvs
<1>9. sei \in SeiRecords /\ sei.completed = w.bytes /\ sei.bytes = seis[i].bytes
      /\ sei.last = seis[i].last
  BY ONLY <1>3, <1>7, <1>8 DEF SeiRecords
<1> HIDE DEF sei
<1>10. ASSUME sei_epb
       PROVE  IsSafe(sei)
  <2>1. NoStart(w.bytes)
    BY <1>6, <1>10 DEF SafeWriters
  <2>2. [bytes |-> sei.bytes, last |-> sei.last] \in SafeWriters
    BY <1>4, <1>9, <1>10 DEF begun
  <2> QED
    BY <1>9, <2>1, <2>2 DEF IsSafe
<1>11. Typed'
  BY <1>3, <1>2, <1>5, <1>7, <1>9 DEF Typed
<1>12. ASSUME sei_epb, NEW j \in DOMAIN seis'
       PROVE  IsSafe(seis'[j])
  <2>1. DOMAIN seis' = DOMAIN seis /\ seis'[i] = sei
        /\ \A k \in DOMAIN seis : k # i => seis'[k] = seis[k]
    BY <1>3, <1>5
  <2> QED
    BY <1>2, <1>10, <1>12, <2>1
<1>13. sei_epb' => \A j \in DOMAIN seis' : IsSafe(seis'[j])
  BY <1>5, <1>12
<1> QED
  BY <1>11, <1>13 DEF IInv, IsSafe, Complete

-----------------------------------------------------------------------------

(* It holds at first. *)
LEMMA InitSafe == Init => IInv
BY DEF Init, IInv, Typed, LAST_TWO_BYTES_INIT_VALUE

(* With emulation prevention no SEI that the signer hands out, and none    *)
(* that waits for its signature, holds two zeros that are followed by 0, 1 *)
(* or 2 (write_byte(), complete_sei()): for all documents and signatures,  *)
(* whatever the order in which SEIs are begun and completed.               *)
THEOREM NothingLooksLikeAStartCode == Spec => []NoStartCode
<1>1. Init => IInv
  BY InitSafe
<1>2. IInv /\ [Next]_vars => IInv'
  <2> SUFFICES ASSUME IInv, [Next]_vars PROVE IInv'
    OBVIOUS
  <2>1. ASSUME NEW document \in (IF seis = <<>> THEN Documents ELSE NextDocuments),
               NEW signed \in BOOLEAN, GenerateSei(document, signed)
        PROVE  IInv'
    <3>1. document \in Documents \cup NextDocuments
      OBVIOUS
    <3> QED
      BY <2>1, <3>1, GenerateSeiKeeps
  <2>2. ASSUME NEW signature \in Signatures, CompleteSei(signature)
        PROVE  IInv'
    BY <2>2, CompleteSeiKeeps
  <2>3. CASE UNCHANGED vars
    BY <2>3 DEF vars, IInv, Typed, IsSafe, Complete
  <2> QED
    BY <2>1, <2>2, <2>3 DEF Next
<1>3. IInv => NoStartCode
  <2> SUFFICES ASSUME IInv, sei_epb, NEW i \in DOMAIN seis
               PROVE  IF Complete(seis[i]) THEN NoStart(seis[i].completed)
                      ELSE NoStart(seis[i].bytes)
    BY DEF NoStartCode, NoStart
  <2>1. IsSafe(seis[i])
    BY DEF IInv
  <2> QED
    BY <2>1 DEF IsSafe, SafeWriters
<1> QED
  BY <1>1, <1>2, <1>3, PTL DEF Spec

-----------------------------------------------------------------------------
(* Readers.                                                                *)

Readers == [at : Nat \ {0}, last : Nat \X Nat, read : Seq(Nat)]

(* A reader stands where a writer stood, and knows of two zeros before, as *)
(* the writer does; or of one zero as well.  The two need not remember the *)
(* same bytes.                                                             *)
Near(r, w) ==
  /\ r.at = Len(w.bytes) + 1
  /\ r.last[1] = 0 /\ r.last[2] = 0 <=> w.last[1] = 0 /\ w.last[2] = 0

Mirrors(r, w) == Near(r, w) /\ (r.last[2] = 0 <=> w.last[2] = 0)

(* What data starts with. *)
Begins(data, bytes) ==
  Len(bytes) <= Len(data) /\ \A j \in 1..Len(bytes) : data[j] = bytes[j]

(* A byte of the data. *)
LEMMA ByteAtIs ==
  ASSUME NEW data \in Seq(Nat), NEW i \in Nat \ {0}
  PROVE  ByteAt(data, i) \in Nat /\ (i <= Len(data) => ByteAt(data, i) = data[i])
BY DEF ByteAt

(* read_byte() in words of positions. *)
LEMMA ReadByteIs ==
  ASSUME NEW data \in Seq(Nat), NEW r \in Readers, NEW epb \in BOOLEAN
  PROVE  LET skip == epb /\ ByteAt(data, r.at) = 3 /\ r.last[1] = 0 /\ r.last[2] = 0
             at   == IF skip THEN r.at + 1 ELSE r.at
             s    == ReadByte(data, r, epb)
         IN  /\ s \in Readers
             /\ s.at = at + 1
             /\ s.last[1] = (IF skip THEN 3 ELSE r.last[2])
             /\ s.last[2] = ByteAt(data, at)
             /\ s.read = Append(r.read, ByteAt(data, at))
<1> DEFINE skip == epb /\ ByteAt(data, r.at) = 3 /\ r.last[1] = 0 /\ r.last[2] = 0
           at   == IF skip THEN r.at + 1 ELSE r.at
           byte == ByteAt(data, at)
           s    == ReadByte(data, r, epb)
           first == IF skip THEN 3 ELSE r.last[2]
<1>1. r.at \in Nat \ {0} /\ r.last \in Nat \X Nat /\ r.read \in Seq(Nat)
      /\ r.last[1] \in Nat /\ r.last[2] \in Nat
  BY DEF Readers
<1>2. r.last = <<0, 0>> <=> r.last[1] = 0 /\ r.last[2] = 0
  BY <1>1
<1>3. s = [at |-> at + 1, last |-> <<first, byte>>, read |-> Append(r.read, byte)]
  BY <1>2, Zenon DEF ReadByte
<1>4. at \in Nat \ {0} /\ first \in Nat
  BY <1>1
<1> HIDE DEF at, first
<1>5. byte \in Nat
  BY <1>4, ByteAtIs
<1> HIDE DEF byte
<1>6. Append(r.read, byte) \in Seq(Nat)
  BY <1>1, <1>5
<1>7. s \in Readers /\ s.at = at + 1 /\ s.last[1] = first /\ s.last[2] = byte
      /\ s.read = Append(r.read, byte)
  BY <1>3, <1>4, <1>5, <1>6 DEF Readers
<1> QED
  BY <1>7 DEF at, first, byte

(* read_byte() undoes write_byte(). *)
LEMMA ByteReadBack ==
  ASSUME NEW w \in Writers, NEW byte \in Nat, NEW epb \in BOOLEAN,
         NEW r \in Readers, Near(r, w), Mirrors(r, w) \/ byte # 0,
         NEW data \in Seq(Nat), Begins(data, WriteByte(w, byte, epb).bytes)
  PROVE  LET s == ReadByte(data, r, epb)
         IN  s \in Readers /\ Mirrors(s, WriteByte(w, byte, epb))
             /\ s.read = Append(r.read, byte)
<1> DEFINE s == ReadByte(data, r, epb)
           new == WriteByte(w, byte, epb)
           n == Len(w.bytes)
           skip == epb /\ ByteAt(data, r.at) = 3 /\ r.last[1] = 0 /\ r.last[2] = 0
           at   == IF skip THEN r.at + 1 ELSE r.at
<1>1. w.bytes \in Seq(Nat) /\ w.last \in Nat \X Nat /\ n \in Nat /\ r.at = n + 1
      /\ r.at \in Nat \ {0}
  BY DEF Writers, Near, Readers
<1>2. w.last = <<0, 0>> <=> w.last[1] = 0 /\ w.last[2] = 0
  BY <1>1
<1>3. /\ s \in Readers
      /\ s.at = at + 1
      /\ s.last[1] = (IF skip THEN 3 ELSE r.last[2])
      /\ s.last[2] = ByteAt(data, at)
      /\ s.read = Append(r.read, ByteAt(data, at))
  BY ReadByteIs, Zenon
<1>4. /\ (r.last[2] = 0 <=> w.last[2] = 0) \/ byte # 0
      /\ (r.last[1] = 0 /\ r.last[2] = 0 <=> w.last[1] = 0 /\ w.last[2] = 0)
  BY DEF Mirrors, Near
<1> HIDE DEF s
<1>5. CASE epb /\ byte \in 0..3 /\ w.last = <<0, 0>>
  <2>1. new = [bytes |-> w.bytes \o <<3, byte>>, last |-> <<3, byte>>]
    BY <1>5, Zenon DEF WriteByte
  <2>2. new.last[1] = 3 /\ new.last[2] = byte /\ new.bytes = w.bytes \o <<3, byte>>
    BY <2>1
  <2>3. Len(new.bytes) = n + 2 /\ new.bytes[n + 1] = 3 /\ new.bytes[n + 2] = byte
    BY <1>1, <2>2
  <2> HIDE DEF new
  <2>4. n + 2 <= Len(data) /\ data[n + 1] = 3 /\ data[n + 2] = byte
    <3>1. Begins(data, new.bytes)
      BY DEF new
    <3>2. n + 1 \in 1..(n + 2) /\ n + 2 \in 1..(n + 2)
      BY <1>1
    <3> QED
      BY <2>3, <3>1, <3>2 DEF Begins
  <2>5. ByteAt(data, n + 1) = 3 /\ ByteAt(data, n + 2) = byte
    <3>1. n + 1 \in Nat \ {0} /\ n + 2 \in Nat \ {0} /\ n + 1 <= Len(data)
      BY <1>1, <2>4
    <3>2. ByteAt(data, n + 1) = 3
      BY <2>4, <3>1, ByteAtIs
    <3>3. ByteAt(data, n + 2) = byte
      BY <2>4, <3>1, ByteAtIs
    <3> QED
      BY <3>2, <3>3
  <2>6. skip /\ at = n + 2
    BY <1>1, <1>2, <1>4, <1>5, <2>5
  <2>7. s.at = n + 3 /\ s.last[1] = 3 /\ s.last[2] = byte /\ s.read = Append(r.read, byte)
    BY <1>1, <1>3, <2>5, <2>6
  <2>8. Mirrors(s, new)
    BY <1>1, <2>2, <2>3, <2>7 DEF Mirrors, Near
  <2> QED
    BY <1>3, <2>7, <2>8 DEF s, new
<1>6. CASE ~(epb /\ byte \in 0..3 /\ w.last = <<0, 0>>)
  <2>1. new = [bytes |-> w.bytes \o <<byte>>, last |-> <<w.last[2], byte>>]
    BY <1>6, Zenon DEF WriteByte
  <2>2. new.last[1] = w.last[2] /\ new.last[2] = byte /\ new.bytes = w.bytes \o <<byte>>
    BY <2>1
  <2>3. Len(new.bytes) = n + 1 /\ new.bytes[n + 1] = byte
    BY <1>1, <2>2
  <2> HIDE DEF new
  <2>4. n + 1 <= Len(data) /\ data[n + 1] = byte
    <3>1. Begins(data, new.bytes)
      BY DEF new
    <3>2. n + 1 \in 1..(n + 1)
      BY <1>1
    <3> QED
      BY <2>3, <3>1, <3>2 DEF Begins
  <2>5. ByteAt(data, n + 1) = byte
    BY <1>1, <2>4, ByteAtIs
  <2>6. ~skip /\ at = n + 1
    BY <1>1, <1>2, <1>4, <1>6, <2>5
  <2>7. s.at = n + 2 /\ s.last[1] = r.last[2] /\ s.last[2] = byte
        /\ s.read = Append(r.read, byte)
    BY <1>1, <1>3, <2>5, <2>6
  <2>8. Mirrors(s, new)
    BY <1>1, <1>4, <2>2, <2>3, <2>7 DEF Mirrors, Near
  <2> QED
    BY <1>3, <2>7, <2>8 DEF s, new
<1> QED
  BY <1>5, <1>6

(* What is written byte by byte begins with what was written before. *)
LEMMA WriteByteExtends ==
  ASSUME NEW w \in Writers, NEW byte \in Nat, NEW epb \in BOOLEAN, NEW data,
         Len(data) \in Nat, Begins(data, WriteByte(w, byte, epb).bytes)
  PROVE  Begins(data, w.bytes) /\ Len(WriteByte(w, byte, epb).bytes) > Len(w.bytes)
<1> DEFINE new == WriteByte(w, byte, epb).bytes
           n == Len(w.bytes)
<1>1. w.bytes \in Seq(Nat) /\ n \in Nat
  BY DEF Writers
<1>2. new = w.bytes \o <<3, byte>> \/ new = w.bytes \o <<byte>>
  BY Zenon DEF WriteByte
<1>3. Len(new) \in Nat /\ Len(new) > n /\ \A j \in 1..n : new[j] = w.bytes[j]
  <2>1. CASE new = w.bytes \o <<3, byte>>
    BY <1>1, <2>1
  <2>2. CASE new = w.bytes \o <<byte>>
    BY <1>1, <2>2
  <2> QED
    BY <1>2, <2>1, <2>2
<1>4. Begins(data, new)
  OBVIOUS
<1> HIDE DEF new
<1>5. Begins(data, w.bytes)
  BY <1>1, <1>3, <1>4 DEF Begins
<1> QED
  BY <1>3, <1>5 DEF new

(* What is read byte by byte.                                              *)
Reads(f, data, r, n, epb) ==
  /\ f \in [0..n -> Readers]
  /\ f[0] = r /\ f[n] = ReadMany(data, r, n, epb)
  /\ \A i \in 1..n : f[i] = ReadByte(data, f[i - 1], epb)

(* A reader stays a reader. *)
LEMMA ReadByteTyped ==
  ASSUME NEW data \in Seq(Nat), NEW r \in Readers, NEW epb \in BOOLEAN
  PROVE  ReadByte(data, r, epb) \in Readers
BY ReadByteIs

(* Reading many bytes is reading them one by one. *)
LEMMA ReadByByte ==
  ASSUME NEW data \in Seq(Nat), NEW r \in Readers, NEW n \in Nat, NEW epb \in BOOLEAN
  PROVE  \E f : Reads(f, data, r, n, epb)
<1> DEFINE step == [p \in (1..n) \X Readers |-> ReadByte(data, p[2], epb)]
           Body(f, i) == IF i = 0 THEN r ELSE ReadByte(data, f[i - 1], epb)
           IsAfter(f) == f = [i \in 0..n |-> Body(f, i)]
           after == CHOOSE f : IsAfter(f)
<1>1. step \in [(1..n) \X Readers -> Readers]
  <2>1. \A p \in (1..n) \X Readers : ReadByte(data, p[2], epb) \in Readers
    BY ReadByteTyped
  <2> QED
    BY <2>1
<1> HIDE DEF step
<1>2. PICK g : GoesBy(g, n, Readers, r, step)
  BY <1>1, StepByStep
<1>3. g \in [0..n -> Readers] /\ g[0] = r /\ \A i \in 1..n : g[i] = step[<<i, g[i - 1]>>]
  BY <1>2 DEF GoesBy
<1>4. \A i \in 1..n : g[i] = ReadByte(data, g[i - 1], epb)
  <2> TAKE i \in 1..n
  <2>1. g[i - 1] \in Readers
    BY <1>3
  <2>2. <<i, g[i - 1]>> \in (1..n) \X Readers
    BY <2>1
  <2> QED
    BY <1>3, <2>2 DEF step
<1>5. IsAfter(g)
  <2>1. \A i \in 0..n : g[i] = Body(g, i)
    BY <1>3, <1>4
  <2> QED
    BY <1>3, <2>1
<1>6. IsAfter(after)
  <2> HIDE DEF IsAfter
  <2> QED
    BY <1>5
<1>7. ReadMany(data, r, n, epb) = after[n]
  BY Zenon DEF ReadMany
<1> HIDE DEF after
<1>8. after[0] = r /\ \A i \in 1..n : after[i] = ReadByte(data, after[i - 1], epb)
  BY <1>6
<1> DEFINE T == {i \in 0..n : after[i] \in Readers}
<1>9. 0 \in T
  BY <1>8
<1>10. ASSUME NEW i \in 1..n, i - 1 \in T
       PROVE  i \in T
  <2>1. after[i] \in Readers
    BY <1>8, <1>10, ReadByteTyped
  <2> QED
    BY <2>1
<1> HIDE DEF T
<1>11. 0..n \subseteq T
  BY <1>9, <1>10, UpToAll
<1>12. after \in [0..n -> Readers]
  BY <1>6, <1>11 DEF T
<1>13. Reads(after, data, r, n, epb)
  BY <1>7, <1>8, <1>12 DEF Reads
<1> QED
  BY <1>13

(* Appending to the second part. *)
LEMMA AppendToConcat ==
  ASSUME NEW a \in Seq(Nat), NEW b \in Seq(Nat), NEW x \in Nat
  PROVE  Append(a \o b, x) = a \o Append(b, x)
<1>1. Append(b, x) = b \o <<x>> /\ a \o b \in Seq(Nat) /\ <<x>> \in Seq(Nat)
  OBVIOUS
<1>2. Append(a \o b, x) = (a \o b) \o <<x>>
  BY <1>1, AppendIsConcat
<1>3. (a \o b) \o <<x>> = a \o (b \o <<x>>)
  BY <1>1, ConcatAssociative
<1> QED
  BY <1>1, <1>2, <1>3

(* read_byte_many() undoes write_byte_many(). *)
LEMMA ManyReadBack ==
  ASSUME NEW w \in Writers, NEW bytes \in Seq(Nat), NEW epb \in BOOLEAN,
         NEW r \in Readers, Near(r, w), Mirrors(r, w) \/ (Len(bytes) > 0 /\ bytes[1] # 0),
         NEW data \in Seq(Nat), Begins(data, WriteMany(w, bytes, epb).bytes)
  PROVE  LET s == ReadMany(data, r, Len(bytes), epb)
         IN  s \in Readers /\ Mirrors(s, WriteMany(w, bytes, epb))
             /\ s.read = r.read \o bytes
<1> DEFINE n == Len(bytes)
<1>1. n \in Nat /\ \A i \in 1..n : bytes[i] \in Nat
  OBVIOUS
<1>2. PICK f : Writes(f, w, bytes, epb)
  BY ByteByByte
<1>3. /\ f \in [0..n -> Writers] /\ f[0] = w /\ f[n] = WriteMany(w, bytes, epb)
      /\ \A i \in 1..n : f[i] = WriteByte(f[i - 1], bytes[i], epb)
  BY <1>2 DEF Writes
<1>4. PICK g : Reads(g, data, r, n, epb)
  BY <1>1, ReadByByte
<1>5. /\ g \in [0..n -> Readers] /\ g[0] = r /\ g[n] = ReadMany(data, r, n, epb)
      /\ \A i \in 1..n : g[i] = ReadByte(data, g[i - 1], epb)
  BY <1>4 DEF Reads
<1> DEFINE B == {i \in 0..n : Begins(data, f[n - i].bytes)}
<1>6. 0..n \subseteq B
  <2>1. 0 \in B
    BY <1>1, <1>3
  <2>2. ASSUME NEW i \in 1..n, i - 1 \in B
        PROVE  i \in B
    <3> DEFINE k == n - i + 1
    <3>1. k \in 1..n /\ n - (i - 1) = k /\ k - 1 = n - i
      BY <1>1
    <3>2. Begins(data, f[k].bytes)
      BY <2>2, <3>1
    <3>3. f[k] = WriteByte(f[k - 1], bytes[k], epb) /\ f[k - 1] \in Writers /\ bytes[k] \in Nat
      <4>1. k - 1 \in 0..n
        BY <1>1, <3>1
      <4> QED
        BY <1>1, <1>3, <3>1, <4>1
    <3> HIDE DEF k
    <3> DEFINE old == f[k - 1]
               byte == bytes[k]
    <3>4. old \in Writers /\ byte \in Nat /\ Begins(data, WriteByte(old, byte, epb).bytes)
          /\ Len(data) \in Nat
      BY <3>2, <3>3
    <3> HIDE DEF old, byte
    <3>5. Begins(data, old.bytes)
      BY <3>4, WriteByteExtends
    <3>6. Begins(data, f[k - 1].bytes)
      BY <3>5 DEF old
    <3> QED
      BY <3>1, <3>6
  <2> HIDE DEF B
  <2> QED
    BY <1>1, <2>1, <2>2, UpToAll
<1>7. \A i \in 0..n : Begins(data, f[i].bytes)
  <2> TAKE i \in 0..n
  <2>1. n - i \in 0..n /\ n - (n - i) = i
    BY <1>1
  <2> QED
    BY <1>6, <2>1
<1> DEFINE Back(i) == Near(g[i], f[i]) /\ (i > 0 \/ Mirrors(r, w) => Mirrors(g[i], f[i]))
                      /\ g[i].read = r.read \o SubSeq(bytes, 1, i)
           T == {i \in 0..n : Back(i)}
<1>8. 0 \in T
  <2>1. r.read \in Seq(Nat) /\ SubSeq(bytes, 1, 0) = <<>>
    BY DEF Readers
  <2>2. r.read \o <<>> = r.read
    BY <2>1
  <2> QED
    BY <1>1, <1>3, <1>5, <2>1, <2>2
<1>9. ASSUME NEW i \in 1..n, i - 1 \in T
      PROVE  i \in T
  <2>1. i - 1 \in 0..n /\ i \in 0..n
    BY <1>1
  <2>2. f[i - 1] \in Writers /\ g[i - 1] \in Readers /\ bytes[i] \in Nat
    BY <1>1, <1>3, <1>5, <2>1
  <2>3. Near(g[i - 1], f[i - 1]) /\ (Mirrors(g[i - 1], f[i - 1]) \/ bytes[i] # 0)
        /\ g[i - 1].read = r.read \o SubSeq(bytes, 1, i - 1)
    <3>1. CASE i = 1
      BY <1>1, <1>9, <3>1
    <3>2. CASE i # 1
      <4>1. i - 1 > 0
        BY <1>1, <3>2
      <4>2. Back(i - 1)
        <5> HIDE DEF Back
        <5> QED
          BY <1>9
      <4> QED
        BY <4>1, <4>2
    <3> QED
      BY <3>1, <3>2
  <2>4. Begins(data, WriteByte(f[i - 1], bytes[i], epb).bytes)
    BY <1>3, <1>7, <2>1
  <2>5. Mirrors(g[i], f[i]) /\ g[i].read = Append(g[i - 1].read, bytes[i])
    <3> DEFINE x == f[i - 1]
               y == g[i - 1]
               byte == bytes[i]
    <3>1. f[i] = WriteByte(x, byte, epb) /\ g[i] = ReadByte(data, y, epb)
      BY <1>3, <1>5
    <3>2. /\ x \in Writers /\ y \in Readers /\ byte \in Nat
          /\ Near(y, x) /\ (Mirrors(y, x) \/ byte # 0)
          /\ Begins(data, WriteByte(x, byte, epb).bytes)
      BY <2>2, <2>3, <2>4
    <3> HIDE DEF x, y, byte
    <3>3. LET new == ReadByte(data, y, epb)
          IN  Mirrors(new, WriteByte(x, byte, epb)) /\ new.read = Append(y.read, byte)
      BY <3>2, ByteReadBack
    <3> QED
      BY <3>1, <3>3 DEF y, byte
  <2>6. Append(r.read \o SubSeq(bytes, 1, i - 1), bytes[i]) = r.read \o SubSeq(bytes, 1, i)
    <3>1. r.read \in Seq(Nat) /\ SubSeq(bytes, 1, i - 1) \in Seq(Nat)
      BY <1>1 DEF Readers
    <3>2. SubSeq(bytes, 1, i) = Append(SubSeq(bytes, 1, i - 1), bytes[i])
      BY <1>1
    <3> HIDE DEF n
    <3> DEFINE a == r.read
               b == SubSeq(bytes, 1, i - 1)
               x == bytes[i]
    <3>3. a \in Seq(Nat) /\ b \in Seq(Nat) /\ x \in Nat
      BY <2>2, <3>1
    <3> HIDE DEF a, b, x
    <3>4. Append(a \o b, x) = a \o Append(b, x)
      BY <3>3, AppendToConcat
    <3> QED
      BY <3>2, <3>4 DEF a, b, x
  <2> QED
    BY <2>1, <2>3, <2>5, <2>6 DEF Mirrors
<1>10. 0..n \subseteq T
  <2> HIDE DEF T
  <2> QED
    BY <1>1, <1>8, <1>9, UpToAll
<1>11. Back(n)
  <2> HIDE DEF Back
  <2>1. n \in 0..n
    BY <1>1
  <2> QED
    BY <1>10, <2>1
<1>14. Mirrors(g[n], f[n])
  BY <1>1, <1>11
<1>12. SubSeq(bytes, 1, n) = bytes
  OBVIOUS
<1>13. g[n] \in Readers
  BY <1>1, <1>5
<1> QED
  BY <1>3, <1>5, <1>11, <1>12, <1>13, <1>14

(* The same with names for what it needs and gives. *)
(* A reader stands where the bytes were written, and what comes is there   *)
(* to read. *)
CanRead(data, r, w, bytes, epb) ==
  /\ Near(r, w) /\ (Mirrors(r, w) \/ (Len(bytes) > 0 /\ bytes[1] # 0))
  /\ Begins(data, WriteMany(w, bytes, epb).bytes)

(* It has read them and stands where the writer has stood then. *)
HasRead(s, r, w, bytes, epb) ==
  s \in Readers /\ Mirrors(s, WriteMany(w, bytes, epb)) /\ s.read = r.read \o bytes

(* What a writer has written from a place is read from that place. *)
LEMMA ReadBack ==
  ASSUME NEW w \in Writers, NEW bytes \in Seq(Nat), NEW epb \in BOOLEAN,
         NEW r \in Readers, NEW data \in Seq(Nat), CanRead(data, r, w, bytes, epb)
  PROVE  HasRead(ReadMany(data, r, Len(bytes), epb), r, w, bytes, epb)
BY ManyReadBack DEF CanRead, HasRead

-----------------------------------------------------------------------------
(* Writing and reading in parts.                                           *)

LEMMA WriteInParts ==
  ASSUME NEW w \in Writers, NEW a \in Seq(Nat), NEW b \in Seq(Nat), NEW epb \in BOOLEAN
  PROVE  WriteMany(w, a \o b, epb) = WriteMany(WriteMany(w, a, epb), b, epb)
<1> DEFINE v == WriteMany(w, a, epb)
           both == a \o b
           m == Len(a)
           n == Len(b)
<1>1. /\ both \in Seq(Nat) /\ Len(both) = m + n /\ m \in Nat /\ n \in Nat
      /\ \A i \in 1..m : both[i] = a[i]
      /\ \A i \in 1..n : both[m + i] = b[i]
  OBVIOUS
<1>2. v \in Writers
  BY WriteManyTyped
<1> HIDE DEF v, both
<1>3. PICK f : Writes(f, w, both, epb)
  BY <1>1, ByteByByte
<1>4. PICK g : Writes(g, w, a, epb)
  BY ByteByByte
<1>5. PICK h : Writes(h, v, b, epb)
  BY <1>2, ByteByByte
<1>6. /\ f[0] = w /\ f[m + n] = WriteMany(w, both, epb)
      /\ \A i \in 1..(m + n) : f[i] = WriteByte(f[i - 1], both[i], epb)
      /\ g[0] = w /\ g[m] = v /\ \A i \in 1..m : g[i] = WriteByte(g[i - 1], a[i], epb)
      /\ h[0] = v /\ h[n] = WriteMany(v, b, epb)
      /\ \A i \in 1..n : h[i] = WriteByte(h[i - 1], b[i], epb)
  BY <1>1, <1>3, <1>4, <1>5 DEF Writes, v
<1> HIDE DEF m, n
<1> DEFINE T == {i \in 0..m : f[i] = g[i]}
           U == {i \in 0..n : f[m + i] = h[i]}
<1>7. 0..m \subseteq T
  <2>1. 0 \in T
    BY <1>1, <1>6
  <2>2. ASSUME NEW i \in 1..m, i - 1 \in T
        PROVE  i \in T
    <3>1. i \in 1..(m + n) /\ both[i] = a[i] /\ f[i - 1] = g[i - 1]
      BY <1>1, <2>2
    <3>2. f[i] = g[i]
      BY <1>6, <3>1
    <3> QED
      BY <1>1, <3>2
  <2> HIDE DEF T
  <2> QED
    BY <1>1, <2>1, <2>2, UpToAll
<1>8. f[m] = v
  <2>1. m \in 0..m
    BY <1>1
  <2> QED
    BY <1>6, <1>7, <2>1
<1>9. 0..n \subseteq U
  <2>1. 0 \in U
    BY <1>1, <1>6, <1>8
  <2>2. ASSUME NEW i \in 1..n, i - 1 \in U
        PROVE  i \in U
    <3>1. m + i \in 1..(m + n) /\ both[m + i] = b[i] /\ (m + i) - 1 = m + (i - 1)
      BY <1>1
    <3>2. f[(m + i) - 1] = h[i - 1]
      BY <2>2, <3>1
    <3>3. f[m + i] = h[i]
      <4> DEFINE j == m + i
      <4>1. j \in 1..(m + n) /\ both[j] = b[i] /\ f[j - 1] = h[i - 1]
        BY <3>1, <3>2
      <4> HIDE DEF j
      <4>2. f[j] = WriteByte(f[j - 1], both[j], epb)
        BY <1>6, <4>1
      <4>3. h[i] = WriteByte(h[i - 1], b[i], epb)
        BY <1>6
      <4>4. f[j] = h[i]
        BY <4>1, <4>2, <4>3
      <4> QED
        BY <4>4 DEF j
    <3> QED
      BY <1>1, <3>3
  <2> HIDE DEF U
  <2> QED
    BY <1>1, <2>1, <2>2, UpToAll
<1>10. f[m + n] = h[n]
  <2>1. n \in 0..n
    BY <1>1
  <2> QED
    BY <1>9, <2>1
<1> QED
  BY <1>6, <1>10 DEF v, both

(* The same of reading. *)
LEMMA ReadInParts ==
  ASSUME NEW data \in Seq(Nat), NEW r \in Readers, NEW m \in Nat, NEW n \in Nat,
         NEW epb \in BOOLEAN
  PROVE  ReadMany(data, r, m + n, epb) = ReadMany(data, ReadMany(data, r, m, epb), n, epb)
<1> DEFINE s == ReadMany(data, r, m, epb)
<1>1. m + n \in Nat
  OBVIOUS
<1>2. PICK f : Reads(f, data, r, m + n, epb)
  BY <1>1, ReadByByte
<1>3. PICK g : Reads(g, data, r, m, epb)
  BY ReadByByte
<1>4. s \in Readers
  <2>1. g \in [0..m -> Readers] /\ g[m] = s /\ m \in 0..m
    BY <1>3 DEF Reads
  <2> HIDE DEF s
  <2> QED
    BY <2>1
<1> HIDE DEF s
<1>5. PICK h : Reads(h, data, s, n, epb)
  BY <1>4, ReadByByte
<1>6. /\ f[0] = r /\ f[m + n] = ReadMany(data, r, m + n, epb)
      /\ \A i \in 1..(m + n) : f[i] = ReadByte(data, f[i - 1], epb)
      /\ g[0] = r /\ g[m] = s /\ \A i \in 1..m : g[i] = ReadByte(data, g[i - 1], epb)
      /\ h[0] = s /\ h[n] = ReadMany(data, s, n, epb)
      /\ \A i \in 1..n : h[i] = ReadByte(data, h[i - 1], epb)
  BY <1>2, <1>3, <1>5 DEF Reads, s
<1> DEFINE T == {i \in 0..m : f[i] = g[i]}
           U == {i \in 0..n : f[m + i] = h[i]}
<1>7. 0..m \subseteq T
  <2>1. 0 \in T
    BY <1>6
  <2>2. ASSUME NEW i \in 1..m, i - 1 \in T
        PROVE  i \in T
    <3>1. i \in 1..(m + n) /\ f[i - 1] = g[i - 1]
      BY <2>2
    <3>2. f[i] = g[i]
      BY <1>6, <3>1
    <3> QED
      BY <3>2
  <2> HIDE DEF T
  <2> QED
    BY <2>1, <2>2, UpToAll
<1>8. f[m] = s
  <2>1. m \in 0..m
    OBVIOUS
  <2> QED
    BY <1>6, <1>7, <2>1
<1>9. 0..n \subseteq U
  <2>1. 0 \in U
    BY <1>6, <1>8
  <2>2. ASSUME NEW i \in 1..n, i - 1 \in U
        PROVE  i \in U
    <3>1. m + i \in 1..(m + n) /\ (m + i) - 1 = m + (i - 1)
      OBVIOUS
    <3>2. f[(m + i) - 1] = h[i - 1]
      BY <2>2, <3>1
    <3>3. f[m + i] = h[i]
      BY <1>6, <3>1, <3>2
    <3> QED
      BY <3>3
  <2> HIDE DEF U
  <2> QED
    BY <2>1, <2>2, UpToAll
<1>10. f[m + n] = h[n]
  <2>1. n \in 0..n
    OBVIOUS
  <2> QED
    BY <1>9, <2>1
<1> QED
  BY <1>6, <1>10 DEF s

-----------------------------------------------------------------------------
(* What begins with what.                                                  *)

LEMMA BeginsTransitive ==
  ASSUME NEW a \in Seq(Nat), NEW b \in Seq(Nat), NEW c \in Seq(Nat), Begins(a, b), Begins(b, c)
  PROVE  Begins(a, c)
<1>1. Len(a) \in Nat /\ Len(b) \in Nat /\ Len(c) \in Nat
  OBVIOUS
<1> QED
  BY <1>1 DEF Begins

(* Where the bytes of two parts are. *)
LEMMA ConcatIs ==
  ASSUME NEW a \in Seq(Nat), NEW b \in Seq(Nat)
  PROVE  /\ a \o b \in Seq(Nat) /\ Len(a \o b) = Len(a) + Len(b)
         /\ Len(a) \in Nat /\ Len(b) \in Nat
         /\ \A i \in 1..Len(a) : (a \o b)[i] = a[i]
         /\ \A i \in 1..Len(b) : (a \o b)[Len(a) + i] = b[i]
OBVIOUS

(* What comes behind does not matter for what data starts with. *)
LEMMA BeginsConcat ==
  ASSUME NEW a \in Seq(Nat), NEW b \in Seq(Nat)
  PROVE  Begins(a \o b, a) /\ Begins(a, a)
BY DEF Begins

(* Cut at its length it is what the data starts with. *)
LEMMA BeginsIsCut ==
  ASSUME NEW a \in Seq(Nat), NEW b \in Seq(Nat), Begins(a, b)
  PROVE  SubSeq(a, 1, Len(b)) = b
<1>1. SubSeq(a, 1, Len(b)) \in Seq(Nat) /\ Len(SubSeq(a, 1, Len(b))) = Len(b)
      /\ \A i \in 1..Len(b) : SubSeq(a, 1, Len(b))[i] = a[i]
  BY DEF Begins
<1> QED
  BY <1>1, SeqEqual DEF Begins

(* Writing leaves what was written before. *)
LEMMA WritingExtends ==
  ASSUME NEW w \in Writers, NEW bytes \in Seq(Nat), NEW epb \in BOOLEAN
  PROVE  Begins(WriteMany(w, bytes, epb).bytes, w.bytes)
<1> DEFINE S == {x \in Writers : Begins(x.bytes, w.bytes)}
<1>1. w.bytes \in Seq(Nat)
  BY DEF Writers
<1>2. w \in S
  BY <1>1, BeginsConcat
<1>3. ASSUME NEW x \in S, NEW byte \in Nat
      PROVE  WriteByte(x, byte, epb) \in S
  <2> DEFINE new == WriteByte(x, byte, epb)
  <2>1. x \in Writers /\ Begins(x.bytes, w.bytes)
    BY <1>3
  <2>2. new \in Writers
    BY <2>1, WriteByteTyped
  <2>3. new.bytes \in Seq(Nat) /\ x.bytes \in Seq(Nat)
    BY <2>1, <2>2 DEF Writers
  <2>4. Begins(new.bytes, x.bytes)
    <3> DEFINE data == new.bytes
    <3>1. Len(data) \in Nat /\ Begins(data, data)
      BY <2>3, BeginsConcat
    <3> HIDE DEF data
    <3>2. ASSUME data = new.bytes PROVE Begins(data, x.bytes)
      BY <2>1, <3>1, <3>2, WriteByteExtends
    <3> QED
      BY <3>2 DEF data
  <2> HIDE DEF new
  <2>5. Begins(new.bytes, w.bytes)
    BY <1>1, <2>1, <2>3, <2>4, BeginsTransitive
  <2> QED
    BY <2>2, <2>5 DEF new
<1> HIDE DEF S
<1>4. WriteMany(w, bytes, epb) \in S
  BY <1>2, <1>3, WriteManyKeeps
<1> QED
  BY <1>4 DEF S

-----------------------------------------------------------------------------
(* With and without emulation prevention.                                  *)

LEMMA WriteByteLength ==
  ASSUME NEW w \in Writers, NEW byte \in Nat
  PROVE  /\ WriteByte(w, byte, FALSE).bytes = w.bytes \o <<byte>>
         /\ Len(WriteByte(w, byte, FALSE).bytes) = Len(w.bytes) + 1
         /\ WriteByte(w, byte, TRUE) = WriteByte(w, byte, FALSE)
              \/ Len(WriteByte(w, byte, TRUE).bytes) = Len(w.bytes) + 2
         /\ byte > 3 \/ w.last[1] # 0 \/ w.last[2] # 0
              => WriteByte(w, byte, TRUE) = WriteByte(w, byte, FALSE)
<1> DEFINE plain == w.bytes \o <<byte>>
           more  == w.bytes \o <<3, byte>>
           bare  == WriteByte(w, byte, FALSE)
           new   == WriteByte(w, byte, TRUE)
<1>1. w.bytes \in Seq(Nat) /\ w.last \in Nat \X Nat
  BY DEF Writers
<1>2. Len(more) = Len(w.bytes) + 2 /\ Len(plain) = Len(w.bytes) + 1
  BY <1>1
<1>3. bare = [bytes |-> plain, last |-> <<w.last[2], byte>>]
  BY Zenon DEF WriteByte
<1>4. byte \in 0..3 /\ w.last = <<0, 0>> => new = [bytes |-> more, last |-> <<3, byte>>]
  BY Zenon DEF WriteByte
<1>5. ~(byte \in 0..3 /\ w.last = <<0, 0>>) => new = bare
  BY <1>3, Zenon DEF WriteByte
<1>6. byte > 3 \/ w.last[1] # 0 \/ w.last[2] # 0 => ~(byte \in 0..3 /\ w.last = <<0, 0>>)
  OBVIOUS
<1> HIDE DEF plain, more, bare, new
<1>7. bare.bytes = plain
  BY <1>3
<1>8. byte \in 0..3 /\ w.last = <<0, 0>> => new.bytes = more
  BY <1>4
<1>9. /\ bare.bytes = plain
      /\ Len(bare.bytes) = Len(w.bytes) + 1
      /\ new = bare \/ Len(new.bytes) = Len(w.bytes) + 2
      /\ byte > 3 \/ w.last[1] # 0 \/ w.last[2] # 0 => new = bare
  BY <1>2, <1>5, <1>6, <1>7, <1>8, Zenon
<1> QED
  BY <1>9, Zenon DEF plain, bare, new

(* Without, the bytes are written as they are. *)
LEMMA WritePlain ==
  ASSUME NEW w \in Writers, NEW bytes \in Seq(Nat)
  PROVE  WriteMany(w, bytes, FALSE).bytes = w.bytes \o bytes
<1> DEFINE n == Len(bytes)
           old == w.bytes
<1>1. n \in Nat /\ (\A i \in 1..n : bytes[i] \in Nat) /\ old \in Seq(Nat)
  BY DEF Writers
<1>2. PICK f : Writes(f, w, bytes, FALSE)
  BY ByteByByte
<1>3. /\ f \in [0..n -> Writers] /\ f[0] = w /\ f[n] = WriteMany(w, bytes, FALSE)
      /\ \A i \in 1..n : f[i] = WriteByte(f[i - 1], bytes[i], FALSE)
  BY <1>2 DEF Writes
<1> DEFINE Goes(i) == f[i].bytes = old \o SubSeq(bytes, 1, i)
           T == {i \in 0..n : Goes(i)}
<1>4. 0 \in T
  <2>1. SubSeq(bytes, 1, 0) = <<>> /\ old \o <<>> = old
    BY <1>1
  <2> QED
    BY <1>1, <1>3, <2>1
<1>5. ASSUME NEW i \in 1..n, i - 1 \in T
      PROVE  i \in T
  <2>1. i - 1 \in 0..n /\ i \in 0..n
    BY <1>1
  <2>2. f[i - 1] \in Writers /\ bytes[i] \in Nat /\ Goes(i - 1)
        /\ f[i] = WriteByte(f[i - 1], bytes[i], FALSE)
    BY <1>1, <1>3, <1>5, <2>1
  <2>3. f[i].bytes = f[i - 1].bytes \o <<bytes[i]>>
    <3> DEFINE x == f[i - 1]
               byte == bytes[i]
    <3>1. x \in Writers /\ byte \in Nat /\ f[i] = WriteByte(x, byte, FALSE)
      BY <2>2
    <3> HIDE DEF x, byte
    <3>2. f[i].bytes = x.bytes \o <<byte>>
      BY <3>1, WriteByteLength
    <3> QED
      BY <3>2 DEF x, byte
  <2>4. (old \o SubSeq(bytes, 1, i - 1)) \o <<bytes[i]>> = old \o SubSeq(bytes, 1, i)
    <3> DEFINE a == SubSeq(bytes, 1, i - 1)
               byte == bytes[i]
    <3>1. a \in Seq(Nat) /\ byte \in Nat /\ SubSeq(bytes, 1, i) = Append(a, byte)
      BY <1>1
    <3> HIDE DEF a, byte, old
    <3>2. Append(old \o a, byte) = old \o Append(a, byte)
      BY <1>1, <3>1, AppendToConcat
    <3>3. old \o a \in Seq(Nat)
      BY <1>1, <3>1
    <3>4. Append(old \o a, byte) = (old \o a) \o <<byte>>
      BY <3>1, <3>3, AppendIsConcat
    <3> QED
      BY <3>1, <3>2, <3>4 DEF a, byte
  <2> QED
    BY <2>1, <2>2, <2>3, <2>4
<1>6. 0..n \subseteq T
  <2> HIDE DEF T
  <2> QED
    BY <1>1, <1>4, <1>5, UpToAll
<1>7. Goes(n)
  <2> HIDE DEF Goes
  <2>1. n \in 0..n
    BY <1>1
  <2> QED
    BY <1>6, <2>1
<1>8. SubSeq(bytes, 1, n) = bytes
  OBVIOUS
<1> QED
  BY <1>3, <1>7, <1>8

(* With it they get no fewer, and if they get no more they are the same. *)
LEMMA EscapesShow ==
  ASSUME NEW w \in Writers, NEW bytes \in Seq(Nat)
  PROVE  LET escaped == WriteMany(w, bytes, TRUE)
         IN  /\ Len(escaped.bytes) >= Len(w.bytes) + Len(bytes)
             /\ Len(escaped.bytes) = Len(w.bytes) + Len(bytes)
                  => escaped = WriteMany(w, bytes, FALSE)
<1> DEFINE n == Len(bytes)
           k == Len(w.bytes)
<1>1. n \in Nat /\ (\A i \in 1..n : bytes[i] \in Nat) /\ k \in Nat
  BY DEF Writers
<1>2. PICK f : Writes(f, w, bytes, TRUE)
  BY ByteByByte
<1>3. PICK g : Writes(g, w, bytes, FALSE)
  BY ByteByByte
<1>4. /\ f \in [0..n -> Writers] /\ f[0] = w /\ f[n] = WriteMany(w, bytes, TRUE)
      /\ \A i \in 1..n : f[i] = WriteByte(f[i - 1], bytes[i], TRUE)
      /\ g[0] = w /\ g[n] = WriteMany(w, bytes, FALSE)
      /\ \A i \in 1..n : g[i] = WriteByte(g[i - 1], bytes[i], FALSE)
  BY <1>2, <1>3 DEF Writes
<1> HIDE DEF n
<1> DEFINE Shows(i) == Len(f[i].bytes) >= k + i /\ (Len(f[i].bytes) = k + i => f[i] = g[i])
           T == {i \in 0..n : Shows(i)}
<1>5. 0 \in T
  BY <1>1, <1>4
<1>6. ASSUME NEW i \in 1..n, i - 1 \in T
      PROVE  i \in T
  <2> DEFINE x == f[i - 1]
             byte == bytes[i]
  <2>1. i - 1 \in 0..n /\ i \in 0..n
    BY <1>1
  <2>2. /\ x \in Writers /\ byte \in Nat /\ f[i] = WriteByte(x, byte, TRUE)
        /\ g[i] = WriteByte(g[i - 1], byte, FALSE)
    BY <1>1, <1>4, <2>1
  <2>3. Len(x.bytes) >= k + (i - 1) /\ (Len(x.bytes) = k + (i - 1) => x = g[i - 1])
    BY <1>6
  <2> HIDE DEF x, byte
  <2>4. x.bytes \in Seq(Nat) /\ Len(x.bytes) \in Nat
    BY <2>2 DEF Writers
  <2>5. /\ Len(WriteByte(x, byte, FALSE).bytes) = Len(x.bytes) + 1
        /\ f[i] = WriteByte(x, byte, FALSE) \/ Len(f[i].bytes) = Len(x.bytes) + 2
    BY <2>2, WriteByteLength
  <2>6. Shows(i)
    <3>1. CASE f[i] = WriteByte(x, byte, FALSE)
      <4>1. Len(f[i].bytes) = Len(x.bytes) + 1
        BY <2>5, <3>1
      <4>2. ASSUME Len(f[i].bytes) = k + i PROVE f[i] = g[i]
        <5>1. Len(x.bytes) = k + (i - 1)
          BY <1>1, <2>4, <4>1, <4>2
        <5>2. x = g[i - 1]
          BY <2>3, <5>1
        <5> QED
          BY <2>2, <3>1, <5>2
      <4>3. Len(f[i].bytes) >= k + i
        BY <1>1, <2>3, <2>4, <4>1
      <4> QED
        BY <4>2, <4>3
    <3>2. CASE Len(f[i].bytes) = Len(x.bytes) + 2
      BY <1>1, <2>3, <2>4, <3>2
    <3> QED
      BY <2>5, <3>1, <3>2
  <2> QED
    BY <2>1, <2>6
<1>7. 0..n \subseteq T
  <2> HIDE DEF T
  <2> QED
    BY <1>1, <1>5, <1>6, UpToAll
<1>8. Shows(n)
  <2> HIDE DEF Shows
  <2>1. n \in 0..n
    BY <1>1
  <2> QED
    BY <1>7, <2>1
<1> QED
  BY <1>4, <1>8 DEF n

-----------------------------------------------------------------------------
(* TLVs.                                                                   *)

LEMMA EncodedListGrows ==
  ASSUME NEW tlvs \in Seq(Tlvs), NEW tlv \in Tlvs
  PROVE  EncodedList(Append(tlvs, tlv)) = EncodedList(tlvs) \o Encoded(tlv)
<1> DEFINE n == Len(tlvs)
           more == Append(tlvs, tlv)
           old == [i \in DOMAIN tlvs |-> Encoded(tlvs[i])]
           new == [i \in DOMAIN more |-> Encoded(more[i])]
<1>1. /\ n \in Nat /\ DOMAIN tlvs = 1..n /\ DOMAIN more = 1..(n + 1)
      /\ (\A i \in 1..n : tlvs[i] \in Tlvs /\ more[i] = tlvs[i]) /\ more[n + 1] = tlv
  OBVIOUS
<1> HIDE DEF n, more
<1>2. \A i \in 1..(n + 1) : more[i] \in Tlvs
  BY <1>1
<1>3. old \in [1..n -> Seq(Nat)] /\ \A i \in 1..n : old[i] = Encoded(tlvs[i])
  <2>1. \A i \in 1..n : Encoded(tlvs[i]) \in Seq(Nat)
    BY <1>1, EncodedTyped
  <2> QED
    BY <1>1, <2>1
<1>4. new \in [1..(n + 1) -> Seq(Nat)] /\ \A i \in 1..(n + 1) : new[i] = Encoded(more[i])
  <2>1. \A i \in 1..(n + 1) : Encoded(more[i]) \in Seq(Nat)
    BY <1>2, EncodedTyped
  <2> QED
    BY <1>1, <2>1
<1>5. EncodedList(tlvs) = FlattenSeq(old) /\ EncodedList(more) = FlattenSeq(new)
  BY Zenon DEF EncodedList
<1> HIDE DEF old, new
<1>6. PICK g : Flattens(g, old, n, Nat)
  BY <1>1, <1>3, SequenceBySequence
<1>7. PICK h : Flattens(h, new, n + 1, Nat)
  <2>1. n + 1 \in Nat
    BY <1>1
  <2> QED
    BY <1>4, <2>1, SequenceBySequence
<1>8. /\ g[0] = <<>> /\ g[n] = FlattenSeq(old) /\ \A i \in 1..n : g[i] = g[i - 1] \o old[i]
      /\ h[0] = <<>> /\ h[n + 1] = FlattenSeq(new)
      /\ \A i \in 1..(n + 1) : h[i] = h[i - 1] \o new[i]
  BY <1>6, <1>7 DEF Flattens
<1> DEFINE T == {i \in 0..n : g[i] = h[i]}
<1>9. 0 \in T
  BY <1>1, <1>8
<1>10. ASSUME NEW i \in 1..n, i - 1 \in T
       PROVE  i \in T
  <2>1. i \in 1..(n + 1) /\ g[i - 1] = h[i - 1] /\ more[i] = tlvs[i]
    BY <1>1, <1>10
  <2>2. old[i] = new[i]
    BY <1>3, <1>4, <2>1
  <2>3. g[i] = g[i - 1] \o old[i] /\ h[i] = h[i - 1] \o new[i]
    BY <1>8, <2>1
  <2>4. g[i] = h[i]
    BY <2>1, <2>2, <2>3
  <2> QED
    BY <1>1, <2>4
<1> HIDE DEF T
<1>11. 0..n \subseteq T
  BY <1>1, <1>9, <1>10, UpToAll
<1>12. g[n] = h[n]
  BY <1>1, <1>11 DEF T
<1>13. h[n + 1] = h[n] \o new[n + 1]
  <2>1. n + 1 \in 1..(n + 1) /\ (n + 1) - 1 = n
    BY <1>1
  <2>2. h[n + 1] = h[(n + 1) - 1] \o new[n + 1]
    BY <1>8, <2>1
  <2> QED
    BY <2>1, <2>2
<1>14. new[n + 1] = Encoded(tlv)
  BY <1>1, <1>4
<1> QED
  BY <1>5, <1>8, <1>12, <1>13, <1>14 DEF more

(* No TLVs are no bytes. *)
LEMMA EncodedListEmpty == EncodedList(<<>>) = <<>>
<1>1. [i \in DOMAIN <<>> |-> Encoded(<<>>[i])] = <<>>
  OBVIOUS
<1>2. FlattenSeq(<<>>) = <<>>
  BY DEF FlattenSeq
<1> QED
  BY <1>1, <1>2, Zenon DEF EncodedList

(* TLVs as they are encoded: a tag is not 0, and two bytes tell the length. *)
(* The TLVs that tlv_find_tag() and tlv_decode() can tell: their tag is    *)
(* not 0 and their length fits in two bytes. *)
Told == {tlv \in Tlvs : tlv.tag # 0 /\ Len(tlv.value) < LengthRange}

(* Tag and length. *)
HeadOf(tlv) == <<tlv.tag, (Len(tlv.value) \div 256) % 256, Len(tlv.value) % 256>>

(* A TLV in bytes. *)
LEMMA EncodedIs ==
  ASSUME NEW tlv \in Told
  PROVE  /\ tlv \in Tlvs /\ tlv.value \in Seq(Nat) /\ HeadOf(tlv) \in Seq(Nat)
         /\ Len(HeadOf(tlv)) = 3 /\ HeadOf(tlv)[1] = tlv.tag /\ tlv.tag # 0
         /\ 256 * HeadOf(tlv)[2] + HeadOf(tlv)[3] = Len(tlv.value)
         /\ Encoded(tlv) = HeadOf(tlv) \o tlv.value
         /\ Encoded(tlv) \in Seq(Nat) /\ Len(Encoded(tlv)) = 3 + Len(tlv.value)
<1> DEFINE size == Len(tlv.value)
           high == (size \div 256) % 256
           low == size % 256
           head == HeadOf(tlv)
<1>1. /\ tlv \in Tlvs /\ tlv.tag \in Nat /\ tlv.tag # 0 /\ tlv.value \in Seq(Nat)
      /\ size \in Nat /\ size < 65536
  BY DEF Told, Tlvs, LengthRange
<1>2. head = <<tlv.tag, high, low>>
  BY DEF HeadOf
<1>3. Encoded(tlv) = head \o tlv.value
  BY DEF Encoded, HeadOf
<1> HIDE DEF head
<1>4. high \in Nat /\ low \in Nat /\ 256 * high + low = size
  <2> HIDE DEF size
  <2> QED
    BY <1>1
<1> HIDE DEF high, low
<1>5. head \in Seq(Nat) /\ Len(head) = 3 /\ head[1] = tlv.tag /\ head[2] = high /\ head[3] = low
  BY <1>1, <1>2, <1>4
<1>6. Encoded(tlv) \in Seq(Nat) /\ Len(Encoded(tlv)) = 3 + size
  <2> DEFINE value == tlv.value
  <2>1. value \in Seq(Nat) /\ size = Len(value) /\ Encoded(tlv) = head \o value
    BY <1>1, <1>3
  <2> HIDE DEF value, size
  <2>2. head \o value \in Seq(Nat) /\ Len(head \o value) = Len(head) + Len(value)
    <3>1. head \in Seq(Nat)
      BY <1>5
    <3>2. value \in Seq(Nat)
      BY <2>1
    <3> QED
      BY ONLY <3>1, <3>2, ConcatIs
  <2> QED
    BY <1>5, <2>1, <2>2
<1> QED
  BY <1>1, <1>3, <1>4, <1>5, <1>6 DEF head

(* Writing adds at least the bytes that are written. *)
LEMMA WritingGrows ==
  ASSUME NEW w \in Writers, NEW bytes \in Seq(Nat), NEW epb \in BOOLEAN
  PROVE  /\ WriteMany(w, bytes, epb) \in Writers
         /\ WriteMany(w, bytes, epb).bytes \in Seq(Nat)
         /\ Len(WriteMany(w, bytes, epb).bytes) >= Len(w.bytes) + Len(bytes)
<1>1. WriteMany(w, bytes, epb) \in Writers
  BY WriteManyTyped
<1>2. WriteMany(w, bytes, epb).bytes \in Seq(Nat)
  BY <1>1 DEF Writers
<1>3. CASE epb = TRUE
  BY <1>1, <1>2, <1>3, EscapesShow
<1>4. CASE epb = FALSE
  <2> DEFINE old == w.bytes
             new == WriteMany(w, bytes, FALSE).bytes
  <2>1. new = old \o bytes /\ old \in Seq(Nat)
    BY WritePlain DEF Writers
  <2> HIDE DEF old, new
  <2>2. Len(old \o bytes) = Len(old) + Len(bytes) /\ Len(old) \in Nat /\ Len(bytes) \in Nat
    BY <2>1, ConcatIs
  <2>3. Len(new) >= Len(old) + Len(bytes)
    BY <2>1, <2>2
  <2> QED
    BY <1>1, <1>2, <1>4, <2>3 DEF old, new
<1> QED
  BY <1>3, <1>4

(* The smaller of two. *)
LEMMA MinIs ==
  ASSUME NEW a \in Nat, NEW b \in Nat
  PROVE  Min({a, b}) = IF a <= b THEN a ELSE b
<1> DEFINE m == IF a <= b THEN a ELSE b
<1>1. m \in {a, b} /\ \A y \in {a, b} : m =< y
  OBVIOUS
<1>2. \A x \in {a, b} : (\A y \in {a, b} : x =< y) => x = m
  OBVIOUS
<1> HIDE DEF m
<1>3. Min({a, b}) = CHOOSE x \in {a, b} : \A y \in {a, b} : x =< y
  BY Zenon DEF Min
<1> QED
  BY <1>1, <1>2, <1>3 DEF m

(* Many bytes read are so many. *)
LEMMA ReadManyTyped ==
  ASSUME NEW data \in Seq(Nat), NEW r \in Readers, NEW n \in Nat, NEW epb \in BOOLEAN
  PROVE  ReadMany(data, r, n, epb) \in Readers
         /\ Len(ReadMany(data, r, n, epb).read) = Len(r.read) + n
<1>1. PICK f : Reads(f, data, r, n, epb)
  BY ReadByByte
<1>2. /\ f \in [0..n -> Readers] /\ f[0] = r /\ f[n] = ReadMany(data, r, n, epb)
      /\ \A i \in 1..n : f[i] = ReadByte(data, f[i - 1], epb)
  BY <1>1 DEF Reads
<1> DEFINE k == Len(r.read)
           T == {i \in 0..n : Len(f[i].read) = k + i}
<1>3. k \in Nat
  BY DEF Readers
<1>4. 0 \in T
  BY <1>2, <1>3
<1>5. ASSUME NEW i \in 1..n, i - 1 \in T
      PROVE  i \in T
  <2> DEFINE x == f[i - 1]
  <2>1. x \in Readers /\ Len(x.read) = k + (i - 1) /\ f[i] = ReadByte(data, x, epb)
    BY <1>2, <1>5
  <2> HIDE DEF x
  <2>2. x.read \in Seq(Nat)
    BY <2>1 DEF Readers
  <2>3. \E byte \in Nat : f[i].read = Append(x.read, byte)
    <3> DEFINE at == IF epb /\ ByteAt(data, x.at) = 3 /\ x.last[1] = 0 /\ x.last[2] = 0
                     THEN x.at + 1 ELSE x.at
    <3>1. f[i].read = Append(x.read, ByteAt(data, at))
      BY <2>1, ReadByteIs
    <3>2. at \in Nat \ {0}
      BY <2>1 DEF Readers
    <3> HIDE DEF at
    <3>3. ByteAt(data, at) \in Nat
      BY <3>2, ByteAtIs
    <3> QED
      BY <3>1, <3>3
  <2>4. Len(f[i].read) = k + i
    BY <1>3, <2>1, <2>2, <2>3
  <2> QED
    BY <2>4
<1> HIDE DEF T
<1>6. 0..n \subseteq T
  BY <1>4, <1>5, UpToAll
<1>7. f[n] \in Readers /\ Len(f[n].read) = k + n
  BY <1>2, <1>6 DEF T
<1> QED
  BY <1>2, <1>7 DEF k

-----------------------------------------------------------------------------
(* Looking for the signature.                                              *)

(* A reader that starts anew at the same place. *)
LEMMA Anew ==
  ASSUME NEW r \in Readers
  PROVE  LET s == [r EXCEPT !.read = <<>>]
         IN  s \in Readers /\ s.read = <<>>
             /\ \A w : (Near(r, w) => Near(s, w)) /\ (Mirrors(r, w) => Mirrors(s, w))
<1> DEFINE s == [r EXCEPT !.read = <<>>]
<1>1. <<>> \in Seq(Nat)
  OBVIOUS
<1>2. s \in Readers /\ s.read = <<>> /\ s.at = r.at /\ s.last = r.last
  BY <1>1 DEF Readers
<1> HIDE DEF s
<1>3. \A w : (Near(r, w) => Near(s, w)) /\ (Mirrors(r, w) => Mirrors(s, w))
  BY <1>2 DEF Near, Mirrors
<1> QED
  BY <1>2, <1>3 DEF s

(* The reader of a TLV is behind it when the writer is. *)
LEMMA TlvReadBack ==
  ASSUME NEW tlv \in Told, NEW w \in Writers, NEW epb \in BOOLEAN,
         NEW r \in Readers, Near(r, w),
         NEW data \in Seq(Nat), Begins(data, WriteMany(w, Encoded(tlv), epb).bytes)
  PROVE  /\ TlvHeader(data, r, epb).read[1] = tlv.tag
         /\ Near(BehindTlv(data, r, epb), WriteMany(w, Encoded(tlv), epb))
<1> DEFINE head == HeadOf(tlv)
           value == tlv.value
           v == WriteMany(w, head, epb)
           end == WriteMany(v, value, epb)
           s == [r EXCEPT !.read = <<>>]
           t == ReadMany(data, s, 3, epb)
<1>1. /\ head \in Seq(Nat) /\ Len(head) = 3 /\ head[1] = tlv.tag /\ head[1] # 0
      /\ value \in Seq(Nat) /\ 256 * head[2] + head[3] = Len(value)
      /\ Encoded(tlv) = head \o value
  BY EncodedIs
<1> HIDE DEF head, value
<1>2. WriteMany(w, Encoded(tlv), epb) = end
  BY <1>1, WriteInParts
<1>3. v \in Writers
  BY <1>1, WriteManyTyped
<1>4. s \in Readers /\ s.read = <<>> /\ Near(s, w)
  BY Anew
<1> HIDE DEF v, s
<1>5. /\ end.bytes \in Seq(Nat) /\ v.bytes \in Seq(Nat)
      /\ Begins(end.bytes, v.bytes)
      /\ Len(end.bytes) >= Len(v.bytes) + Len(value)
  BY <1>1, <1>3, WritingGrows, WritingExtends DEF Writers
<1>6. Begins(data, end.bytes)
  BY <1>2
<1>7. Begins(data, v.bytes)
  BY <1>5, <1>6, BeginsTransitive
<1>8. t \in Readers /\ Mirrors(t, v) /\ t.read = <<>> \o head
  <2>1. CanRead(data, s, w, head, epb)
    BY <1>1, <1>4, <1>7 DEF CanRead, v
  <2>2. HasRead(ReadMany(data, s, Len(head), epb), s, w, head, epb)
    BY <1>1, <1>4, <2>1, ReadBack
  <2>3. HasRead(t, s, w, head, epb)
    BY <1>1, <2>2
  <2> HIDE DEF t
  <2> QED
    BY <1>4, <2>3 DEF HasRead, v
<1> HIDE DEF t
<1>9. t.read = head
  BY <1>1, <1>8
<1>10. Len(value) <= Len(data) /\ Len(value) \in Nat /\ Len(data) \in Nat
  BY <1>1, <1>5, <1>6 DEF Begins
<1>11. Min({256 * t.read[2] + t.read[3], Len(data)}) = Len(value)
  BY <1>1, <1>9, <1>10, MinIs
<1>12. TlvHeader(data, r, epb) = t
  BY Zenon DEF TlvHeader, t, s
<1>13. BehindTlv(data, r, epb) = ReadMany(data, t, Len(value), epb)
  BY <1>11, <1>12, Zenon DEF BehindTlv
<1>14. Near(t, v)
  BY <1>8 DEF Mirrors
<1>15. Mirrors(ReadMany(data, t, Len(value), epb), end)
  <2>1. CanRead(data, t, v, value, epb)
    BY <1>6, <1>8, <1>14 DEF CanRead
  <2> QED
    BY <1>1, <1>3, <1>8, <2>1, ReadBack DEF HasRead
<1>16. Near(ReadMany(data, t, Len(value), epb), end)
  BY <1>15 DEF Mirrors
<1> QED
  BY <1>1, <1>2, <1>9, <1>12, <1>13, <1>16

(* A reader that steps over a TLV stays a reader. *)
LEMMA BehindTyped ==
  ASSUME NEW data \in Seq(Nat), NEW r \in Readers, NEW epb \in BOOLEAN
  PROVE  BehindTlv(data, r, epb) \in Readers
<1> DEFINE s == [r EXCEPT !.read = <<>>]
           t == ReadMany(data, s, 3, epb)
           length == Min({256 * t.read[2] + t.read[3], Len(data)})
<1>1. s \in Readers /\ s.read = <<>>
  BY Anew
<1>2. BehindTlv(data, r, epb) = ReadMany(data, t, length, epb)
  BY Zenon DEF BehindTlv, TlvHeader
<1> HIDE DEF s
<1>3. t \in Readers /\ Len(t.read) = 3
  <2>1. 3 \in Nat
    OBVIOUS
  <2>2. t \in Readers /\ Len(t.read) = Len(s.read) + 3
    BY <1>1, <2>1, ReadManyTyped
  <2> HIDE DEF t
  <2>3. Len(s.read) = 0
    BY <1>1
  <2> QED
    BY <2>2, <2>3
<1> HIDE DEF t
<1>4. t.read \in Seq(Nat)
  BY <1>3 DEF Readers
<1>5. t.read[2] \in Nat /\ t.read[3] \in Nat
  BY <1>3, <1>4
<1>6. 256 * t.read[2] + t.read[3] \in Nat /\ Len(data) \in Nat
  BY <1>5
<1>7. length \in Nat
  BY <1>6, MinIs
<1> HIDE DEF length
<1> QED
  BY <1>2, <1>3, <1>7, ReadManyTyped

(* The readers of a search, one in front of each TLV. *)
StopsAt(g, i, data, end, epb) ==
  g[i].at >= end \/ TlvHeader(data, g[i], epb).read[1] = SIGNATURE_TAG

(* The places of the search, and what it finds. *)
Searches(g, data, r, end, epb) ==
  /\ g \in [0..end -> Readers] /\ g[0] = r
  /\ \A i \in 1..end : g[i] = BehindTlv(data, g[i - 1], epb)
  /\ LET last == CHOOSE i \in 0..end : /\ StopsAt(g, i, data, end, epb)
                                       /\ \A j \in 0..(i - 1) : ~StopsAt(g, j, data, end, epb)
     IN  FindSignature(data, r, end, epb) = IF g[last].at < end THEN g[last].at ELSE 0

(* FindSignature goes through such places. *)
LEMMA SearchExists ==
  ASSUME NEW data \in Seq(Nat), NEW r \in Readers, NEW end \in Nat, NEW epb \in BOOLEAN
  PROVE  \E g : Searches(g, data, r, end, epb)
<1> DEFINE step == [p \in (1..end) \X Readers |-> BehindTlv(data, p[2], epb)]
           Body(f, i) == IF i = 0 THEN r ELSE BehindTlv(data, f[i - 1], epb)
           IsAt(f) == f = [i \in 0..end |-> Body(f, i)]
           at == CHOOSE f : IsAt(f)
<1>1. step \in [(1..end) \X Readers -> Readers]
  <2>1. \A p \in (1..end) \X Readers : BehindTlv(data, p[2], epb) \in Readers
    BY BehindTyped
  <2> QED
    BY <2>1
<1> HIDE DEF step
<1>2. PICK g : GoesBy(g, end, Readers, r, step)
  BY <1>1, StepByStep
<1>3. g \in [0..end -> Readers] /\ g[0] = r /\ \A i \in 1..end : g[i] = step[<<i, g[i - 1]>>]
  BY <1>2 DEF GoesBy
<1>4. \A i \in 1..end : g[i] = BehindTlv(data, g[i - 1], epb)
  <2> TAKE i \in 1..end
  <2>1. g[i - 1] \in Readers
    BY <1>3
  <2>2. <<i, g[i - 1]>> \in (1..end) \X Readers
    BY <2>1
  <2> QED
    BY <1>3, <2>2 DEF step
<1>5. IsAt(g)
  <2>1. \A i \in 0..end : g[i] = Body(g, i)
    BY <1>3, <1>4
  <2> QED
    BY <1>3, <2>1
<1>6. IsAt(at)
  <2> HIDE DEF IsAt
  <2> QED
    BY <1>5
<1>7. LET last == CHOOSE i \in 0..end : /\ StopsAt(at, i, data, end, epb)
                                        /\ \A j \in 0..(i - 1) : ~StopsAt(at, j, data, end, epb)
      IN  FindSignature(data, r, end, epb) = IF at[last].at < end THEN at[last].at ELSE 0
  BY Zenon DEF FindSignature, StopsAt
<1> HIDE DEF at
<1>8. at[0] = r /\ \A i \in 1..end : at[i] = BehindTlv(data, at[i - 1], epb)
  BY <1>6
<1> DEFINE T == {i \in 0..end : at[i] \in Readers}
<1>9. 0 \in T
  BY <1>8
<1>10. ASSUME NEW i \in 1..end, i - 1 \in T
       PROVE  i \in T
  <2>1. at[i] \in Readers
    BY <1>8, <1>10, BehindTyped
  <2> QED
    BY <2>1
<1> HIDE DEF T
<1>11. 0..end \subseteq T
  BY <1>9, <1>10, UpToAll
<1>12. at \in [0..end -> Readers]
  BY <1>6, <1>11 DEF T
<1>13. Searches(at, data, r, end, epb)
  BY <1>7, <1>8, <1>12, Zenon DEF Searches
<1> QED
  BY <1>13

-----------------------------------------------------------------------------
(* From one TLV to the next, as far as the list reaches.                   *)

(* What is written when i of the TLVs are.                                 *)
Written(w, tlvs, i, epb) == WriteMany(w, EncodedList(SubSeq(tlvs, 1, i)), epb)

(* The first TLVs of a list. *)
LEMMA WrittenTyped ==
  ASSUME NEW w \in Writers, NEW tlvs \in Seq(Told), NEW i \in 0..Len(tlvs), NEW epb \in BOOLEAN
  PROVE  /\ SubSeq(tlvs, 1, i) \in Seq(Tlvs)
         /\ EncodedList(SubSeq(tlvs, 1, i)) \in Seq(Nat)
         /\ Written(w, tlvs, i, epb) \in Writers
<1>1. SubSeq(tlvs, 1, i) \in Seq(Told)
  OBVIOUS
<1>2. SubSeq(tlvs, 1, i) \in Seq(Tlvs)
  BY <1>1 DEF Told
<1> DEFINE some == SubSeq(tlvs, 1, i)
<1> HIDE DEF some
<1>3. EncodedList(some) \in Seq(Nat)
  BY <1>2, EncodedListTyped DEF some
<1>4. WriteMany(w, EncodedList(some), epb) \in Writers
  BY <1>3, WriteManyTyped
<1> QED
  BY <1>2, <1>3, <1>4 DEF some, Written

(* Before the first TLV. *)
LEMMA WrittenNone ==
  ASSUME NEW w \in Writers, NEW tlvs \in Seq(Told), NEW epb \in BOOLEAN
  PROVE  Written(w, tlvs, 0, epb) = w
<1>1. SubSeq(tlvs, 1, 0) = <<>>
  OBVIOUS
<1>2. Written(w, tlvs, 0, epb) = WriteMany(w, <<>>, epb)
  BY <1>1, EncodedListEmpty, Zenon DEF Written
<1>3. <<>> \in Seq(Nat) /\ Len(<<>>) = 0
  OBVIOUS
<1>4. PICK f : Writes(f, w, <<>>, epb)
  BY <1>3, ByteByByte
<1>5. f[0] = w /\ f[Len(<<>>)] = WriteMany(w, <<>>, epb)
  BY <1>4 DEF Writes
<1> QED
  BY <1>2, <1>3, <1>5

(* From one TLV to the next. *)
LEMMA WrittenMore ==
  ASSUME NEW w \in Writers, NEW tlvs \in Seq(Told), NEW i \in 1..Len(tlvs), NEW epb \in BOOLEAN
  PROVE  LET before == Written(w, tlvs, i - 1, epb)
             after  == Written(w, tlvs, i, epb)
         IN  /\ before \in Writers /\ tlvs[i] \in Told
             /\ after = WriteMany(before, Encoded(tlvs[i]), epb)
             /\ Begins(after.bytes, before.bytes)
             /\ Len(after.bytes) >= Len(before.bytes) + 3
<1> DEFINE some == SubSeq(tlvs, 1, i - 1)
           tlv == tlvs[i]
           before == Written(w, tlvs, i - 1, epb)
           after == Written(w, tlvs, i, epb)
           old == EncodedList(some)
           new == Encoded(tlv)
<1>1. i - 1 \in 0..Len(tlvs) /\ tlv \in Told /\ SubSeq(tlvs, 1, i) = Append(some, tlv)
  OBVIOUS
<1>2. some \in Seq(Tlvs) /\ old \in Seq(Nat) /\ before \in Writers
  BY <1>1, WrittenTyped
<1>3. tlv \in Tlvs /\ tlv.value \in Seq(Nat) /\ new \in Seq(Nat) /\ Len(new) = 3 + Len(tlv.value)
  BY <1>1, EncodedIs
<1>4. Written(w, tlvs, i, epb) = WriteMany(w, EncodedList(Append(some, tlv)), epb)
      /\ before = WriteMany(w, old, epb)
  BY <1>1, Zenon DEF Written
<1> HIDE DEF some, tlv, before
<1>5. EncodedList(Append(some, tlv)) = old \o new
  BY <1>2, <1>3, EncodedListGrows
<1> HIDE DEF old, new
<1>6. after = WriteMany(before, new, epb)
  BY <1>2, <1>3, <1>4, <1>5, WriteInParts
<1> HIDE DEF after
<1>7. Begins(after.bytes, before.bytes) /\ Len(after.bytes) >= Len(before.bytes) + Len(new)
      /\ after.bytes \in Seq(Nat)
  BY <1>2, <1>3, <1>6, WritingGrows, WritingExtends
<1>8. Len(after.bytes) >= Len(before.bytes) + 3
  <2>1. before.bytes \in Seq(Nat) /\ Len(before.bytes) \in Nat
    BY <1>2 DEF Writers
  <2>2. Len(tlv.value) \in Nat /\ Len(after.bytes) \in Nat
    BY <1>3, <1>7
  <2> DEFINE a == Len(after.bytes)
             b == Len(before.bytes)
             c == Len(new)
             d == Len(tlv.value)
  <2>3. a \in Nat /\ b \in Nat /\ d \in Nat /\ c = 3 + d /\ a >= b + c
    BY <1>3, <1>7, <2>1, <2>2
  <2> HIDE DEF a, b, c, d
  <2>4. a >= b + 3
    BY ONLY <2>3
  <2> QED
    BY <2>4 DEF a, b
<1> QED
  BY <1>1, <1>2, <1>6, <1>7, <1>8 DEF tlv, before, after, new

(* Behind the last TLV. *)
LEMMA WrittenAll ==
  ASSUME NEW w \in Writers, NEW tlvs \in Seq(Told), NEW epb \in BOOLEAN
  PROVE  Written(w, tlvs, Len(tlvs), epb) = WriteMany(w, EncodedList(tlvs), epb)
<1>1. SubSeq(tlvs, 1, Len(tlvs)) = tlvs
  OBVIOUS
<1> QED
  BY <1>1, Zenon DEF Written

(* The data begins with all that was written on the way. *)
LEMMA WrittenBegins ==
  ASSUME NEW w \in Writers, NEW tlvs \in Seq(Told), NEW epb \in BOOLEAN,
         NEW data \in Seq(Nat), Begins(data, WriteMany(w, EncodedList(tlvs), epb).bytes)
  PROVE  \A i \in 0..Len(tlvs) : Begins(data, Written(w, tlvs, i, epb).bytes)
<1> DEFINE n == Len(tlvs)
           At(i) == Written(w, tlvs, i, epb)
           T == {i \in 0..n : Begins(data, At(n - i).bytes)}
<1>1. n \in Nat
  OBVIOUS
<1>2. 0 \in T
  BY <1>1, WrittenAll
<1>3. ASSUME NEW i \in 1..n, i - 1 \in T
      PROVE  i \in T
  <2> DEFINE k == (n - i) + 1
  <2>1. k \in 1..n /\ n - (i - 1) = k /\ k - 1 = n - i /\ n - i \in 0..n
    BY <1>1
  <2>2. Begins(data, At(k).bytes)
    BY <1>3, <2>1
  <2> HIDE DEF k
  <2>3. At(k - 1) \in Writers /\ Begins(At(k).bytes, At(k - 1).bytes)
    BY <2>1, WrittenMore
  <2>4. At(k) \in Writers
    <3>1. k \in 0..n
      BY <2>1, <1>1
    <3> QED
      BY <3>1, WrittenTyped
  <2>5. At(k).bytes \in Seq(Nat) /\ At(k - 1).bytes \in Seq(Nat)
    <3> HIDE DEF At
    <3> QED
      BY <2>3, <2>4 DEF Writers
  <2>6. Begins(data, At(k - 1).bytes)
    <3> HIDE DEF At
    <3> QED
      BY <2>2, <2>3, <2>5, BeginsTransitive
  <2> QED
    BY <2>1, <2>6
<1> HIDE DEF T
<1>4. 0..n \subseteq T
  BY <1>1, <1>2, <1>3, UpToAll
<1>5. ASSUME NEW i \in 0..n PROVE Begins(data, At(i).bytes)
  <2>1. n - i \in 0..n /\ n - (n - i) = i
    BY <1>1
  <2>2. n - i \in T
    BY <1>4, <2>1
  <2> HIDE DEF At
  <2> QED
    BY <2>1, <2>2 DEF T
<1> QED
  BY <1>5

(* The readers of a search are where the writer was. *)
LEMMA Walk ==
  ASSUME NEW w \in Writers, NEW tlvs \in Seq(Told), NEW epb \in BOOLEAN,
         NEW r \in Readers, Near(r, w), NEW end \in Nat, Len(tlvs) <= end,
         NEW data \in Seq(Nat), Begins(data, WriteMany(w, EncodedList(tlvs), epb).bytes),
         NEW g, Searches(g, data, r, end, epb)
  PROVE  /\ \A i \in 0..Len(tlvs) : Near(g[i], Written(w, tlvs, i, epb))
         /\ \A i \in 1..Len(tlvs) : TlvHeader(data, g[i - 1], epb).read[1] = tlvs[i].tag
<1> DEFINE n == Len(tlvs)
           At(i) == Written(w, tlvs, i, epb)
           T == {i \in 0..n : Near(g[i], At(i))}
<1>1. n \in Nat
  OBVIOUS
<1>2. /\ g \in [0..end -> Readers] /\ g[0] = r
      /\ \A i \in 1..end : g[i] = BehindTlv(data, g[i - 1], epb)
  BY DEF Searches
<1>3. \A i \in 0..n : Begins(data, At(i).bytes)
  BY WrittenBegins
<1>4. 0 \in T
  <2>1. At(0) = w
    BY WrittenNone
  <2> HIDE DEF At
  <2> QED
    BY <1>1, <1>2, <2>1
<1>5. ASSUME NEW i \in 1..n, Near(g[i - 1], At(i - 1))
      PROVE  Near(g[i], At(i)) /\ TlvHeader(data, g[i - 1], epb).read[1] = tlvs[i].tag
  <2>1. i \in 1..end /\ i - 1 \in 0..end /\ i \in 0..n
    BY <1>1
  <2> DEFINE before == At(i - 1)
             tlv == tlvs[i]
             old == g[i - 1]
  <2>2. before \in Writers /\ tlv \in Told /\ At(i) = WriteMany(before, Encoded(tlv), epb)
    BY WrittenMore
  <2>3. old \in Readers /\ g[i] = BehindTlv(data, old, epb)
    BY <1>2, <2>1
  <2>4. Begins(data, At(i).bytes) /\ Near(old, before)
    BY <1>3, <1>5, <2>1
  <2> HIDE DEF At, before, tlv, old
  <2>5. /\ TlvHeader(data, old, epb).read[1] = tlv.tag
        /\ Near(BehindTlv(data, old, epb), WriteMany(before, Encoded(tlv), epb))
    BY <2>2, <2>3, <2>4, TlvReadBack
  <2> QED
    BY <2>2, <2>3, <2>5 DEF tlv, old
<1> HIDE DEF At
<1>6. \A i \in 1..n : i - 1 \in T => i \in T
  BY <1>1, <1>5
<1>7. 0..n \subseteq T
  <2> HIDE DEF T
  <2> QED
    BY <1>1, <1>4, <1>6, UpToAll
<1>8. \A i \in 1..n : TlvHeader(data, g[i - 1], epb).read[1] = tlvs[i].tag
  <2> TAKE i \in 1..n
  <2>1. i - 1 \in T
    BY <1>1, <1>7
  <2> QED
    BY <1>5, <2>1
<1> QED
  BY <1>7, <1>8 DEF At

(* The first that stops a search is the one that is chosen. *)
LEMMA FirstStop ==
  ASSUME NEW data \in Seq(Nat), NEW r \in Readers, NEW end \in Nat, NEW epb \in BOOLEAN,
         NEW g, Searches(g, data, r, end, epb),
         NEW k \in 0..end, StopsAt(g, k, data, end, epb),
         \A j \in 0..(k - 1) : ~StopsAt(g, j, data, end, epb)
  PROVE  FindSignature(data, r, end, epb) = IF g[k].at < end THEN g[k].at ELSE 0
<1> DEFINE Stops(i) == StopsAt(g, i, data, end, epb)
           First(i) == Stops(i) /\ \A j \in 0..(i - 1) : ~Stops(j)
           last == CHOOSE i \in 0..end : First(i)
<1>1. FindSignature(data, r, end, epb) = IF g[last].at < end THEN g[last].at ELSE 0
  BY Zenon DEF Searches
<1> HIDE DEF Stops
<1>2. First(k)
  BY DEF Stops
<1>3. \A i \in 0..end : First(i) => i = k
  <2> SUFFICES ASSUME NEW i \in 0..end, First(i), i # k
               PROVE  FALSE
    OBVIOUS
  <2>1. i < k \/ k < i
    OBVIOUS
  <2>2. CASE i < k
    BY <1>2, <2>2
  <2>3. CASE k < i
    BY <1>2, <2>3
  <2> QED
    BY <2>1, <2>2, <2>3
<1> HIDE DEF First
<1>4. last = k
  BY <1>2, <1>3
<1> QED
  BY <1>1, <1>4

-----------------------------------------------------------------------------
(* The search for the signature.                                           *)

(* Every TLV takes at least three bytes. *)
LEMMA WrittenLength ==
  ASSUME NEW w \in Writers, NEW tlvs \in Seq(Told), NEW epb \in BOOLEAN
  PROVE  /\ Len(WriteMany(w, EncodedList(tlvs), epb).bytes) >= 3 * Len(tlvs)
         /\ \A i \in 0..Len(tlvs) : Len(Written(w, tlvs, i, epb).bytes)
                                      <= Len(WriteMany(w, EncodedList(tlvs), epb).bytes)
<1> DEFINE n == Len(tlvs)
           At(i) == Written(w, tlvs, i, epb)
           all == WriteMany(w, EncodedList(tlvs), epb)
           T == {i \in 0..n : Len(At(i).bytes) >= 3 * i}
<1>1. n \in Nat /\ n \in 0..n
  OBVIOUS
<1>2. \A i \in 0..n : At(i) \in Writers
  BY WrittenTyped
<1>3. \A i \in 1..n : Len(At(i).bytes) >= Len(At(i - 1).bytes) + 3
  BY WrittenMore
<1>4. At(n) = all
  BY WrittenAll
<1> HIDE DEF At
<1>5. \A i \in 0..n : At(i).bytes \in Seq(Nat) /\ Len(At(i).bytes) \in Nat
  BY <1>2 DEF Writers
<1>6. 0 \in T
  BY <1>1, <1>5
<1>7. ASSUME NEW i \in 1..n, i - 1 \in T
      PROVE  i \in T
  <2> DEFINE a == Len(At(i).bytes)
             b == Len(At(i - 1).bytes)
  <2>1. a \in Nat /\ b \in Nat /\ a >= b + 3 /\ b >= 3 * (i - 1)
    BY <1>3, <1>5, <1>7
  <2> HIDE DEF a, b
  <2>2. a >= 3 * i
    BY <2>1
  <2> QED
    BY <1>1, <2>2 DEF a
<1> HIDE DEF T
<1>8. 0..n \subseteq T
  BY <1>1, <1>6, <1>7, UpToAll
<1>9. Len(At(n).bytes) >= 3 * n
  BY <1>1, <1>8 DEF T
<1>10. Begins(all.bytes, all.bytes) /\ all.bytes \in Seq(Nat)
  BY <1>1, <1>4, <1>5, BeginsConcat
<1>11. \A i \in 0..n : Begins(all.bytes, At(i).bytes)
  BY <1>10, WrittenBegins DEF At
<1>12. \A i \in 0..n : Len(At(i).bytes) <= Len(all.bytes)
  BY <1>11 DEF Begins
<1> QED
  BY <1>4, <1>9, <1>12 DEF At

(* No TLV of the list is a signature. *)
NoSignature(tlvs) == \A i \in 1..Len(tlvs) : tlvs[i].tag # SIGNATURE_TAG

(* While the search is in front of the TLVs that are no signature it only  *)
(* stops at the end. *)
LEMMA GoesOn ==
  ASSUME NEW w \in Writers, NEW tlvs \in Seq(Told), NEW epb \in BOOLEAN, NoSignature(tlvs),
         NEW r \in Readers, Near(r, w), NEW end \in Nat, Len(tlvs) <= end,
         NEW data \in Seq(Nat), Begins(data, WriteMany(w, EncodedList(tlvs), epb).bytes),
         NEW g, Searches(g, data, r, end, epb)
  PROVE  /\ \A i \in 0..Len(tlvs) : g[i].at <= Len(WriteMany(w, EncodedList(tlvs), epb).bytes) + 1
         /\ \A i \in 0..(Len(tlvs) - 1) : StopsAt(g, i, data, end, epb) <=> g[i].at >= end
         /\ g[Len(tlvs)] \in Readers
         /\ Near(g[Len(tlvs)], WriteMany(w, EncodedList(tlvs), epb))
<1> DEFINE n == Len(tlvs)
           At(i) == Written(w, tlvs, i, epb)
           all == WriteMany(w, EncodedList(tlvs), epb)
<1>1. n \in Nat /\ n \in 0..n /\ g \in [0..end -> Readers]
  BY DEF Searches
<1>2. /\ \A i \in 0..n : Near(g[i], At(i))
      /\ \A i \in 1..n : TlvHeader(data, g[i - 1], epb).read[1] = tlvs[i].tag
  BY Walk
<1>3. At(n) = all
  BY WrittenAll
<1>4. \A i \in 0..n : Len(At(i).bytes) <= Len(all.bytes) /\ At(i) \in Writers
  BY WrittenLength, WrittenTyped
<1> HIDE DEF At, all
<1>5. \A i \in 0..n : g[i].at <= Len(all.bytes) + 1
  <2> TAKE i \in 0..n
  <2>1. At(i).bytes \in Seq(Nat) /\ all.bytes \in Seq(Nat)
    BY <1>1, <1>3, <1>4 DEF Writers
  <2>2. g[i].at = Len(At(i).bytes) + 1
    BY <1>2 DEF Near
  <2>3. Len(At(i).bytes) <= Len(all.bytes)
    BY <1>4
  <2> DEFINE a == Len(At(i).bytes)
             b == Len(all.bytes)
  <2>4. a \in Nat /\ b \in Nat /\ a <= b /\ g[i].at = a + 1
    BY <2>1, <2>2, <2>3
  <2> HIDE DEF a, b
  <2>5. g[i].at <= b + 1
    BY <2>4
  <2> QED
    BY <2>5 DEF b
<1>6. ASSUME NEW i \in 0..(n - 1) PROVE StopsAt(g, i, data, end, epb) <=> g[i].at >= end
  <2>1. i + 1 \in 1..n /\ (i + 1) - 1 = i
    BY <1>1
  <2>2. TlvHeader(data, g[i], epb).read[1] = tlvs[i + 1].tag
    BY <1>2, <2>1
  <2>3. tlvs[i + 1].tag # SIGNATURE_TAG
    BY <2>1 DEF NoSignature
  <2> QED
    BY <2>2, <2>3 DEF StopsAt
<1>7. g[n] \in Readers /\ Near(g[n], all)
  BY <1>1, <1>2, <1>3
<1> QED
  BY <1>5, <1>6, <1>7 DEF all

(* The signature behind TLVs that are none is found where it was written,  *)
(* if the end lies behind that place. *)
LEMMA FindsSignature ==
  ASSUME NEW w \in Writers, NEW tlvs \in Seq(Told), NEW epb \in BOOLEAN, NoSignature(tlvs),
         NEW tlv \in Told, tlv.tag = SIGNATURE_TAG,
         NEW r \in Readers, Near(r, w), NEW end \in Nat,
         Len(WriteMany(w, EncodedList(tlvs), epb).bytes) + 1 < end,
         NEW data \in Seq(Nat),
         Begins(data, WriteMany(WriteMany(w, EncodedList(tlvs), epb), Encoded(tlv), epb).bytes)
  PROVE  FindSignature(data, r, end, epb)
           = Len(WriteMany(w, EncodedList(tlvs), epb).bytes) + 1
<1> DEFINE n == Len(tlvs)
           list == EncodedList(tlvs)
           before == WriteMany(w, list, epb)
           new == Encoded(tlv)
           after == WriteMany(before, new, epb)
<1>1. n \in Nat /\ n \in 0..n /\ tlvs \in Seq(Tlvs)
  BY DEF Told
<1>2. list \in Seq(Nat) /\ before \in Writers /\ before.bytes \in Seq(Nat)
  BY <1>1, EncodedListTyped, WritingGrows
<1>3. Len(before.bytes) >= 3 * n /\ Len(before.bytes) + 1 < end
  BY WrittenLength
<1>4. new \in Seq(Nat)
  BY EncodedIs
<1>5. Begins(data, after.bytes)
  OBVIOUS
<1> HIDE DEF list, before, new
<1>6. after.bytes \in Seq(Nat) /\ Begins(after.bytes, before.bytes)
  BY <1>2, <1>4, WritingGrows, WritingExtends
<1>7. Begins(data, before.bytes)
  <2> HIDE DEF after
  <2> QED
    BY <1>2, <1>5, <1>6, BeginsTransitive
<1>8. n <= end /\ n \in 0..end
  BY <1>1, <1>2, <1>3
<1>9. PICK g : Searches(g, data, r, end, epb)
  BY SearchExists
<1>10. /\ \A i \in 0..n : g[i].at <= Len(before.bytes) + 1
       /\ \A i \in 0..(n - 1) : StopsAt(g, i, data, end, epb) <=> g[i].at >= end
       /\ g[n] \in Readers /\ Near(g[n], before)
  BY <1>7, <1>8, <1>9, GoesOn DEF before, list
<1>11. TlvHeader(data, g[n], epb).read[1] = SIGNATURE_TAG
  <2> DEFINE s == g[n]
  <2>1. s \in Readers /\ Near(s, before)
    BY <1>10
  <2> HIDE DEF s
  <2>2. TlvHeader(data, s, epb).read[1] = tlv.tag
    BY <1>2, <1>5, <2>1, TlvReadBack DEF new
  <2> QED
    BY <2>2 DEF s
<1>12. StopsAt(g, n, data, end, epb)
  BY <1>11 DEF StopsAt
<1>13. g[n].at = Len(before.bytes) + 1
  BY <1>10 DEF Near
<1>14. ASSUME NEW j \in 0..(n - 1) PROVE ~StopsAt(g, j, data, end, epb)
  <2>1. g[j].at <= Len(before.bytes) + 1 /\ j \in 0..end
    BY <1>1, <1>8, <1>10
  <2>2. g[j].at \in Nat
    BY <1>9, <2>1 DEF Searches, Readers
  <2>3. Len(before.bytes) \in Nat
    BY <1>2
  <2>4. ~(g[j].at >= end)
    BY <1>3, <2>1, <2>2, <2>3
  <2> QED
    BY <1>10, <2>4
<1>15. FindSignature(data, r, end, epb) = IF g[n].at < end THEN g[n].at ELSE 0
  BY <1>8, <1>9, <1>12, <1>14, FirstStop
<1> QED
  BY <1>3, <1>13, <1>15 DEF before, list

(* Without a signature the search ends at the end and finds none. *)
LEMMA FindsNone ==
  ASSUME NEW w \in Writers, NEW tlvs \in Seq(Told), NEW epb \in BOOLEAN, NoSignature(tlvs),
         NEW r \in Readers, Near(r, w), NEW end \in Nat, Len(tlvs) <= end,
         Len(WriteMany(w, EncodedList(tlvs), epb).bytes) + 1 >= end,
         NEW data \in Seq(Nat), Begins(data, WriteMany(w, EncodedList(tlvs), epb).bytes)
  PROVE  FindSignature(data, r, end, epb) = 0
<1> DEFINE n == Len(tlvs)
           all == WriteMany(w, EncodedList(tlvs), epb)
<1>1. n \in Nat /\ n \in 0..n /\ n \in 0..end
  OBVIOUS
<1>2. PICK g : Searches(g, data, r, end, epb)
  BY SearchExists
<1>3. /\ \A i \in 0..(n - 1) : StopsAt(g, i, data, end, epb) <=> g[i].at >= end
      /\ Near(g[n], all)
  BY <1>2, GoesOn
<1> HIDE DEF all
<1>4. g[n].at >= end
  BY <1>3 DEF Near, all
<1> DEFINE T == {i \in 0..n : g[i].at >= end}
<1>5. PICK m \in T : \A k \in T : m <= k
  <2>1. n \in T /\ T \subseteq Nat
    BY <1>1, <1>4
  <2> HIDE DEF T
  <2> QED
    BY <2>1, LeastExists
<1>6. m \in 0..n /\ m \in 0..end /\ g[m].at >= end
  BY <1>1, <1>5
<1>7. StopsAt(g, m, data, end, epb)
  BY <1>6 DEF StopsAt
<1>8. ASSUME NEW j \in 0..(m - 1) PROVE ~StopsAt(g, j, data, end, epb)
  <2>1. j \in 0..(n - 1) /\ j \in 0..n /\ j < m
    BY <1>1, <1>6
  <2>2. j \notin T
    <3> HIDE DEF T
    <3> QED
      BY <1>5, <1>6, <2>1
  <2> QED
    BY <1>3, <2>1, <2>2
<1>9. FindSignature(data, r, end, epb) = IF g[m].at < end THEN g[m].at ELSE 0
  BY <1>2, <1>6, <1>7, <1>8, FirstStop
<1>10. g[m].at \in Nat
  BY <1>2, <1>6 DEF Searches, Readers
<1>11. ~(g[m].at < end)
  BY <1>6, <1>10
<1> QED
  BY <1>9, <1>11

-----------------------------------------------------------------------------
(* tlv_decode(): where each TLV of the list begins.                        *)

(* The bytes of a part. *)
LEMMA CutIs ==
  ASSUME NEW data \in Seq(Nat), NEW from, NEW to, NEW n \in Nat,
         from \in 1..(Len(data) + 1), to \in (from - 1)..Len(data), (to - from) + 1 = n
  PROVE  /\ SubSeq(data, from, to) \in Seq(Nat) /\ Len(SubSeq(data, from, to)) = n
         /\ \A i \in 1..n : SubSeq(data, from, to)[i] = data[(from + i) - 1]
<1> DEFINE x == SubSeq(data, from, to)
<1>1. from \in Nat \ {0} /\ to \in Nat /\ Len(data) \in Nat /\ n = (to - from) + 1
  OBVIOUS
<1>2. \A i \in from..to : data[i] \in Nat
  BY <1>1
<1>3. x = [i \in 1..n |-> data[(from + i) - 1]]
  BY <1>1
<1>4. \A i \in 1..n : (from + i) - 1 \in from..to
  BY <1>1
<1>5. x \in [1..n -> Nat]
  BY <1>2, <1>3, <1>4
<1>6. x \in Seq(Nat) /\ Len(x) = n
  BY <1>5
<1> QED
  BY <1>3, <1>6

(* Decoding.                                                               *)
Listed(tlvs, i) == EncodedList(SubSeq(tlvs, 1, i))

(* The bytes up to a TLV, and that TLV. *)
LEMMA ListedIs ==
  ASSUME NEW tlvs \in Seq(Told)
  PROVE  /\ \A i \in 0..Len(tlvs) : Listed(tlvs, i) \in Seq(Nat)
                                    /\ Begins(EncodedList(tlvs), Listed(tlvs, i))
         /\ Listed(tlvs, 0) = <<>> /\ Listed(tlvs, Len(tlvs)) = EncodedList(tlvs)
         /\ \A i \in 1..Len(tlvs) : /\ tlvs[i] \in Told
                                    /\ Listed(tlvs, i) = Listed(tlvs, i - 1) \o Encoded(tlvs[i])
<1> DEFINE n == Len(tlvs)
           list == EncodedList(tlvs)
           At(i) == Written(Nothing, tlvs, i, FALSE)
<1>1. n \in Nat /\ Nothing \in Writers /\ Nothing.bytes = <<>> /\ FALSE \in BOOLEAN
  BY DEF Nothing, LAST_TWO_BYTES_INIT_VALUE, Writers
<1>2. SubSeq(tlvs, 1, n) = tlvs /\ SubSeq(tlvs, 1, 0) = <<>>
  OBVIOUS
<1>3. ASSUME NEW i \in 0..n
      PROVE  SubSeq(tlvs, 1, i) \in Seq(Tlvs) /\ Listed(tlvs, i) \in Seq(Nat)
             /\ At(i).bytes = Listed(tlvs, i)
  <2>1. SubSeq(tlvs, 1, i) \in Seq(Tlvs) /\ Listed(tlvs, i) \in Seq(Nat)
    BY <1>1, WrittenTyped DEF Listed
  <2> DEFINE x == Listed(tlvs, i)
  <2>2. At(i) = WriteMany(Nothing, x, FALSE)
    BY Zenon DEF Written, Listed
  <2> HIDE DEF x, At
  <2>3. WriteMany(Nothing, x, FALSE).bytes = <<>> \o x
    BY <1>1, <2>1, WritePlain DEF x
  <2>4. <<>> \o x = x
    BY <2>1 DEF x
  <2> QED
    BY <2>1, <2>2, <2>3, <2>4 DEF x
<1>4. list = Listed(tlvs, n)
  BY <1>2, Zenon DEF Listed
<1>5. ASSUME NEW i \in 0..n
      PROVE  Begins(list, Listed(tlvs, i))
  <2>0. n \in 0..n
    BY <1>1
  <2> DEFINE all == WriteMany(Nothing, list, FALSE).bytes
  <2>1. list \in Seq(Nat)
    BY <1>3, <1>4, <2>0
  <2> HIDE DEF list
  <2>2. all = <<>> \o list
    BY <1>1, <2>1, WritePlain
  <2>3. <<>> \o list = list
    BY <2>1
  <2>4. Begins(list, all)
    BY <2>1, <2>2, <2>3, BeginsConcat
  <2>5. \A j \in 0..n : Begins(list, At(j).bytes)
    BY <1>1, <2>1, <2>4, WrittenBegins DEF list
  <2> HIDE DEF At
  <2> QED
    BY <1>3, <2>5
<1>6. Listed(tlvs, 0) = <<>>
  BY <1>2, EncodedListEmpty, Zenon DEF Listed
<1>7. ASSUME NEW i \in 1..n
      PROVE  tlvs[i] \in Told /\ Listed(tlvs, i) = Listed(tlvs, i - 1) \o Encoded(tlvs[i])
  <2> DEFINE some == SubSeq(tlvs, 1, i - 1)
             tlv == tlvs[i]
  <2>1. i - 1 \in 0..n /\ tlv \in Told /\ tlv \in Tlvs /\ SubSeq(tlvs, 1, i) = Append(some, tlv)
    BY <1>1 DEF Told
  <2>2. some \in Seq(Tlvs)
    BY <1>3, <2>1
  <2>3. Listed(tlvs, i) = EncodedList(Append(some, tlv)) /\ Listed(tlvs, i - 1) = EncodedList(some)
    BY <2>1, Zenon DEF Listed
  <2> HIDE DEF some, tlv
  <2>4. EncodedList(Append(some, tlv)) = EncodedList(some) \o Encoded(tlv)
    BY <2>1, <2>2, EncodedListGrows
  <2> QED
    BY <2>1, <2>3, <2>4 DEF tlv
<1> QED
  BY <1>3, <1>4, <1>5, <1>6, <1>7 DEF list

(* Where the TLVs are taken to be.                                         *)
LengthAt(bytes, p) == 256 * ByteAt(bytes, p + 1) + ByteAt(bytes, p + 2)
NextAt(bytes, p) == p + 3 + LengthAt(bytes, p)

(* A TLV behind other bytes. *)
LEMMA TlvAt ==
  ASSUME NEW a \in Seq(Nat), NEW tlv \in Told, NEW data \in Seq(Nat),
         Begins(data, a \o Encoded(tlv))
  PROVE  LET p == Len(a) + 1
         IN  /\ p <= Len(data) /\ data[p] = tlv.tag
             /\ Slice(data, p + 3, p + 2 + LengthAt(data, p)) = tlv.value
             /\ Len(a \o Encoded(tlv)) + 1 = NextAt(data, p)
<1> DEFINE p == Len(a) + 1
           k == Len(tlv.value)
           value == tlv.value
           head == HeadOf(tlv)
           new == Encoded(tlv)
           both == a \o new
<1>1. /\ value \in Seq(Nat) /\ k \in Nat
      /\ head \in Seq(Nat) /\ Len(head) = 3 /\ head[1] = tlv.tag
      /\ 256 * head[2] + head[3] = k
      /\ new = head \o value /\ new \in Seq(Nat) /\ Len(new) = 3 + k
  <2>1. /\ value \in Seq(Nat)
        /\ head \in Seq(Nat) /\ Len(head) = 3 /\ head[1] = tlv.tag
        /\ 256 * head[2] + head[3] = k
        /\ new = head \o value /\ new \in Seq(Nat) /\ Len(new) = 3 + k
    BY EncodedIs
  <2>2. k \in Nat
    BY <2>1
  <2> QED
    BY <2>1, <2>2
<1>2. Begins(data, both)
  OBVIOUS
<1>3. k = Len(value)
  OBVIOUS
<1> HIDE DEF new, k, value, head
<1>4. /\ Len(both) = Len(a) + Len(new) /\ Len(a) \in Nat
      /\ \A i \in 1..Len(new) : both[Len(a) + i] = new[i]
  BY <1>1, ConcatIs
<1>5. /\ \A i \in 1..3 : new[i] = head[i]
      /\ \A i \in 1..k : new[3 + i] = value[i]
  <2> DEFINE x == head \o value
  <2>1. /\ \A i \in 1..Len(head) : x[i] = head[i]
        /\ \A i \in 1..Len(value) : x[Len(head) + i] = value[i]
    BY <1>1, ConcatIs
  <2> HIDE DEF x
  <2> QED
    BY <1>1, <1>3, <2>1 DEF x
<1> HIDE DEF both
<1>6. p \in Nat \ {0} /\ Len(both) = (p + 2) + k /\ Len(both) <= Len(data) /\ Len(data) \in Nat
      /\ \A j \in 1..Len(both) : data[j] = both[j]
  <2> DEFINE q == Len(a)
             l == Len(both)
  <2>1. q \in Nat /\ l = q + (3 + k) /\ p = q + 1
    BY <1>1, <1>4
  <2> HIDE DEF q, l, p
  <2>2. p \in Nat \ {0} /\ l = (p + 2) + k
    BY <1>1, <2>1
  <2> QED
    BY <1>2, <2>2 DEF Begins, l
<1>7. ASSUME NEW i \in 1..(3 + k) PROVE data[(p - 1) + i] = new[i]
  <2> DEFINE q == Len(a)
  <2>0. q \in Nat /\ p = q + 1 /\ i \in 1..Len(new)
    BY <1>1, <1>4
  <2> HIDE DEF q, p
  <2>1. (p - 1) + i = q + i /\ q + i \in 1..Len(both)
    BY <1>1, <1>6, <2>0
  <2>2. both[q + i] = new[i]
    BY <1>4, <2>0 DEF q
  <2>3. data[q + i] = both[q + i]
    BY <1>6, <2>1
  <2> QED
    BY <2>1, <2>2, <2>3
<1> HIDE DEF p
<1>8. data[p] = head[1] /\ data[p + 1] = head[2] /\ data[p + 2] = head[3]
  <2>1. 1 \in 1..(3 + k) /\ 2 \in 1..(3 + k) /\ 3 \in 1..(3 + k)
        /\ (p - 1) + 1 = p /\ (p - 1) + 2 = p + 1 /\ (p - 1) + 3 = p + 2
    BY <1>1, <1>6
  <2>2. 1 \in 1..3 /\ 2 \in 1..3 /\ 3 \in 1..3
    OBVIOUS
  <2>3. data[(p - 1) + 1] = new[1] /\ data[(p - 1) + 2] = new[2] /\ data[(p - 1) + 3] = new[3]
    BY <1>7, <2>1
  <2> QED
    BY <1>5, <2>1, <2>2, <2>3
<1>9. ByteAt(data, p + 1) = head[2] /\ ByteAt(data, p + 2) = head[3]
  <2>1. p + 1 \in Nat \ {0} /\ p + 2 \in Nat \ {0} /\ p + 1 <= Len(data) /\ p + 2 <= Len(data)
    BY <1>1, <1>6
  <2>2. ByteAt(data, p + 1) = data[p + 1]
    BY <2>1, ByteAtIs
  <2>3. ByteAt(data, p + 2) = data[p + 2]
    BY <2>1, ByteAtIs
  <2> QED
    BY <1>8, <2>2, <2>3
<1>10. Slice(data, p + 3, (p + 2) + k) = value
  <2>1. Min({(p + 2) + k, Len(data)}) = (p + 2) + k
    <3>1. (p + 2) + k \in Nat /\ (p + 2) + k <= Len(data)
      BY <1>1, <1>6
    <3> QED
      BY <1>6, <3>1, MinIs
  <2> DEFINE x == SubSeq(data, p + 3, (p + 2) + k)
  <2>2. Slice(data, p + 3, (p + 2) + k) = x
    BY <2>1, Zenon DEF Slice
  <2>3. x \in Seq(Nat) /\ Len(x) = k /\ \A i \in 1..k : x[i] = data[(p + 2) + i]
    <3>1. p + 3 \in 1..(Len(data) + 1) /\ (p + 2) + k \in (p + 2)..Len(data)
      BY <1>1, <1>6
    <3> DEFINE from == p + 3
               to == (p + 2) + k
    <3>2. /\ from \in 1..(Len(data) + 1) /\ to \in (from - 1)..Len(data)
          /\ (to - from) + 1 = k /\ k \in Nat
      BY <1>1, <1>6, <3>1
    <3>3. \A i \in 1..k : (from + i) - 1 = (p + 2) + i
      BY <1>1, <1>6
    <3> HIDE DEF from, to
    <3>4. /\ SubSeq(data, from, to) \in Seq(Nat) /\ Len(SubSeq(data, from, to)) = k
          /\ \A i \in 1..k : SubSeq(data, from, to)[i] = data[(from + i) - 1]
      BY ONLY <3>2, data \in Seq(Nat), CutIs
    <3> QED
      BY <3>3, <3>4 DEF from, to
  <2> HIDE DEF x
  <2>4. ASSUME NEW i \in 1..k PROVE x[i] = value[i]
    <3>1. 3 + i \in 1..(3 + k) /\ (p - 1) + (3 + i) = (p + 2) + i
      BY <1>1, <1>6
    <3>2. data[(p - 1) + (3 + i)] = new[3 + i]
      BY <1>7, <3>1
    <3> QED
      BY <1>5, <2>3, <3>1, <3>2
  <2>5. x = value
    BY <1>1, <1>3, <2>3, <2>4, SeqEqual
  <2> QED
    BY <2>2, <2>5
<1>11. p <= Len(data) /\ Len(both) + 1 = p + 3 + k
  BY <1>1, <1>6
<1>12. LengthAt(data, p) = k
  BY <1>1, <1>9 DEF LengthAt
<1>13. p + 2 + LengthAt(data, p) = (p + 2) + k /\ p + 3 + k = NextAt(data, p)
  <2> DEFINE l == LengthAt(data, p)
  <2>1. l = k /\ NextAt(data, p) = p + 3 + l
    BY <1>12 DEF NextAt
  <2> HIDE DEF l
  <2>2. p + 2 + l = (p + 2) + k /\ p + 3 + k = NextAt(data, p)
    BY <1>1, <1>6, <2>1
  <2> QED
    BY <2>2 DEF l
<1> QED
  BY <1>1, <1>8, <1>10, <1>11, <1>13 DEF p, value, both, new

(* The places of tlv_decode(). *)
Decodes(at, bytes) ==
  /\ at \in [1..(Len(bytes) + 1) -> Nat \ {0}] /\ at[1] = 1
  /\ \A i \in 1..Len(bytes) : at[i + 1] = NextAt(bytes, at[i])
  /\ Decoded(bytes) =
       [i \in 1..Cardinality({j \in 1..(Len(bytes) + 1) : at[j] <= Len(bytes)}) |->
          [tag |-> bytes[at[i]],
           value |-> Slice(bytes, at[i] + 3, at[i] + 2 + LengthAt(bytes, at[i]))]]

(* The next place lies behind. *)
LEMMA NextAtTyped ==
  ASSUME NEW bytes \in Seq(Nat), NEW p \in Nat \ {0}
  PROVE  NextAt(bytes, p) \in Nat \ {0} /\ NextAt(bytes, p) > p
<1>1. p + 1 \in Nat \ {0} /\ p + 2 \in Nat \ {0}
  OBVIOUS
<1> DEFINE a == ByteAt(bytes, p + 1)
           b == ByteAt(bytes, p + 2)
<1>2. a \in Nat /\ b \in Nat
  BY <1>1, ByteAtIs
<1>3. NextAt(bytes, p) = p + 3 + (256 * a + b)
  BY Zenon DEF NextAt, LengthAt
<1> HIDE DEF a, b
<1> QED
  BY <1>2, <1>3

(* Decoded goes through such places. *)
LEMMA DecodesExists ==
  ASSUME NEW bytes \in Seq(Nat)
  PROVE  \E at : Decodes(at, bytes)
<1> DEFINE n == Len(bytes)
           S == Nat \ {0}
           step == [p \in (1..n) \X S |-> NextAt(bytes, p[2])]
           Body(f, i) == IF i = 1 THEN 1 ELSE NextAt(bytes, f[i - 1])
           IsAt(f) == f = [i \in 1..(n + 1) |-> Body(f, i)]
           at == CHOOSE f : IsAt(f)
<1>1. n \in Nat /\ 1 \in S
  OBVIOUS
<1>2. step \in [(1..n) \X S -> S]
  <2>1. \A p \in (1..n) \X S : NextAt(bytes, p[2]) \in S
    BY NextAtTyped
  <2> QED
    BY <2>1
<1> HIDE DEF step, n
<1>3. PICK g : GoesBy(g, n, S, 1, step)
  <2> HIDE DEF S
  <2> QED
    BY <1>1, <1>2, StepByStep
<1>4. g \in [0..n -> S] /\ g[0] = 1 /\ \A i \in 1..n : g[i] = step[<<i, g[i - 1]>>]
  BY <1>3 DEF GoesBy
<1>5. \A i \in 1..n : g[i] = NextAt(bytes, g[i - 1])
  <2> TAKE i \in 1..n
  <2>1. g[i - 1] \in S
    BY <1>1, <1>4
  <2>2. <<i, g[i - 1]>> \in (1..n) \X S
    BY <2>1
  <2> HIDE DEF S
  <2> QED
    BY <1>4, <2>2 DEF step
<1> DEFINE h == [i \in 1..(n + 1) |-> g[i - 1]]
<1>6. IsAt(h)
  <2>1. ASSUME NEW i \in 1..(n + 1) PROVE h[i] = Body(h, i)
    <3>1. CASE i = 1
      BY <1>1, <1>4, <3>1
    <3>2. CASE i # 1
      <4>1. i - 1 \in 1..n /\ i - 1 \in 1..(n + 1)
        BY <1>1, <3>2
      <4>2. g[i - 1] = NextAt(bytes, g[(i - 1) - 1]) /\ h[i - 1] = g[(i - 1) - 1] /\ h[i] = g[i - 1]
        BY <1>5, <4>1
      <4> QED
        BY <3>2, <4>2
    <3> QED
      BY <3>1, <3>2
  <2>2. h = [i \in 1..(n + 1) |-> h[i]]
    OBVIOUS
  <2> HIDE DEF h
  <2> QED
    BY <2>1, <2>2
<1>7. IsAt(at)
  <2> HIDE DEF IsAt
  <2> QED
    BY <1>6
<1>8. Decoded(bytes) =
       [i \in 1..Cardinality({j \in DOMAIN at : at[j] <= Len(bytes)}) |->
          [tag |-> bytes[at[i]],
           value |-> Slice(bytes, at[i] + 3, at[i] + 2 + LengthAt(bytes, at[i]))]]
  BY Zenon DEF Decoded, LengthAt, NextAt, n
<1> HIDE DEF at
<1>9. DOMAIN at = 1..(n + 1) /\ \A i \in 1..(n + 1) : at[i] = Body(at, i)
  BY <1>7
<1>10. at[1] = 1 /\ \A i \in 1..n : at[i + 1] = NextAt(bytes, at[i])
  <2>1. at[1] = 1
    BY <1>1, <1>9
  <2>2. ASSUME NEW i \in 1..n PROVE at[i + 1] = NextAt(bytes, at[i])
    <3>1. i + 1 \in 1..(n + 1) /\ i + 1 # 1 /\ (i + 1) - 1 = i
      BY <1>1
    <3>2. at[i + 1] = NextAt(bytes, at[(i + 1) - 1])
      BY <1>9, <3>1
    <3> QED
      BY <3>1, <3>2
  <2> QED
    BY <2>1, <2>2
<1> DEFINE T == {i \in 0..n : at[i + 1] \in S}
<1>11. 0 \in T
  BY <1>1, <1>10
<1>12. ASSUME NEW i \in 1..n, i - 1 \in T
       PROVE  i \in T
  <2>1. (i - 1) + 1 = i /\ at[(i - 1) + 1] \in S
    BY <1>1, <1>12
  <2>2. at[i] \in S
    BY <2>1
  <2>3. at[i + 1] \in S
    BY <1>10, <2>2, NextAtTyped
  <2> QED
    BY <1>1, <2>3
<1> HIDE DEF T
<1>13. 0..n \subseteq T
  BY <1>1, <1>11, <1>12, UpToAll
<1>14. ASSUME NEW i \in 1..(n + 1) PROVE at[i] \in S
  <2>1. i - 1 \in 0..n /\ (i - 1) + 1 = i
    BY <1>1
  <2>2. at[(i - 1) + 1] \in S
    BY <1>13, <2>1 DEF T
  <2> QED
    BY <2>1, <2>2
<1>15. at = [i \in 1..(n + 1) |-> at[i]]
  <2> DEFINE new == [i \in 1..(n + 1) |-> Body(at, i)]
  <2>1. at = new /\ \A i \in 1..(n + 1) : new[i] = at[i]
    BY <1>7, <1>9
  <2> HIDE DEF Body
  <2> QED
    BY <2>1
<1>16. at \in [1..(n + 1) -> Nat \ {0}]
  BY <1>14, <1>15
<1>17. Decodes(at, bytes)
  BY <1>8, <1>9, <1>10, <1>16 DEF Decodes, n
<1> QED
  BY <1>17

(* What was encoded is decoded, TLV by TLV. *)
LEMMA DecodesBack ==
  ASSUME NEW tlvs \in Seq(Told)
  PROVE  Decoded(EncodedList(tlvs)) = tlvs
<1> DEFINE n == Len(tlvs)
           bytes == EncodedList(tlvs)
           N == Len(bytes)
           P(i) == Len(Listed(tlvs, i)) + 1
<1>1. /\ \A i \in 0..n : Listed(tlvs, i) \in Seq(Nat) /\ Begins(bytes, Listed(tlvs, i))
      /\ Listed(tlvs, 0) = <<>> /\ Listed(tlvs, n) = bytes
      /\ \A i \in 1..n : /\ tlvs[i] \in Told
                         /\ Listed(tlvs, i) = Listed(tlvs, i - 1) \o Encoded(tlvs[i])
  BY ListedIs
<1>2. n \in Nat /\ n \in 0..n
  OBVIOUS
<1>3. bytes \in Seq(Nat) /\ N \in Nat
  BY <1>1, <1>2
<1> HIDE DEF bytes
<1>4. PICK at : Decodes(at, bytes)
  BY <1>3, DecodesExists
<1>5. /\ at \in [1..(N + 1) -> Nat \ {0}] /\ at[1] = 1
      /\ \A i \in 1..N : at[i + 1] = NextAt(bytes, at[i])
      /\ Decoded(bytes) =
           [i \in 1..Cardinality({j \in 1..(N + 1) : at[j] <= N}) |->
              [tag |-> bytes[at[i]],
               value |-> Slice(bytes, at[i] + 3, at[i] + 2 + LengthAt(bytes, at[i]))]]
  BY <1>4 DEF Decodes
<1>6. ASSUME NEW i \in 1..n
      PROVE  /\ P(i - 1) <= N /\ bytes[P(i - 1)] = tlvs[i].tag
             /\ Slice(bytes, P(i - 1) + 3, P(i - 1) + 2 + LengthAt(bytes, P(i - 1)))
                  = tlvs[i].value
             /\ P(i) = NextAt(bytes, P(i - 1))
  <2> DEFINE a == Listed(tlvs, i - 1)
             tlv == tlvs[i]
  <2>1. i - 1 \in 0..n /\ i \in 0..n
    BY <1>2
  <2>2. a \in Seq(Nat) /\ tlv \in Told /\ Listed(tlvs, i) = a \o Encoded(tlv)
        /\ Begins(bytes, a \o Encoded(tlv))
    BY <1>1, <2>1
  <2> HIDE DEF a, tlv
  <2> DEFINE p == Len(a) + 1
  <2>3. /\ p <= Len(bytes) /\ bytes[p] = tlv.tag
        /\ Slice(bytes, p + 3, p + 2 + LengthAt(bytes, p)) = tlv.value
        /\ Len(a \o Encoded(tlv)) + 1 = NextAt(bytes, p)
    BY <1>3, <2>2, TlvAt
  <2> QED
    BY <2>2, <2>3, Zenon DEF a, tlv
<1>7. \A i \in 0..n : P(i) \in Nat \ {0}
  BY <1>1
<1>8. P(0) = 1 /\ P(n) = N + 1
  BY <1>1
<1> HIDE DEF P, N
<1>9. ASSUME NEW i \in 1..n PROVE P(i) > P(i - 1)
  <2>1. i - 1 \in 0..n
    BY <1>2
  <2> DEFINE p == P(i - 1)
  <2>2. p \in Nat \ {0} /\ P(i) = NextAt(bytes, p)
    BY <1>6, <1>7, <2>1
  <2> HIDE DEF p
  <2>3. NextAt(bytes, p) > p
    BY <1>3, <2>2, NextAtTyped
  <2> QED
    BY <2>2, <2>3 DEF p
<1> DEFINE T == {i \in 0..n : i <= N /\ P(i) >= i + 1 /\ at[i + 1] = P(i)}
<1>10. 0 \in T
  BY <1>2, <1>3, <1>5, <1>7, <1>8
<1>11. ASSUME NEW i \in 1..n, i - 1 \in T
       PROVE  i \in T
  <2>1. /\ i - 1 <= N /\ P(i - 1) >= i /\ at[i] = P(i - 1) /\ i - 1 \in 0..n /\ i \in 0..n
    BY <1>2, <1>11
  <2>2. P(i - 1) <= N /\ P(i) > P(i - 1) /\ P(i) = NextAt(bytes, P(i - 1))
    BY <1>6, <1>9
  <2>3. P(i - 1) \in Nat /\ P(i) \in Nat
    BY <1>7, <2>1
  <2>4. i <= N /\ P(i) >= i + 1
    BY <1>3, <2>1, <2>2, <2>3
  <2>5. at[i + 1] = P(i)
    <3>1. i \in 1..N
      BY <1>3, <2>4
    <3> QED
      BY <1>5, <2>1, <2>2, <3>1
  <2> QED
    BY <2>1, <2>4, <2>5
<1> HIDE DEF T
<1>12. 0..n \subseteq T
  BY <1>2, <1>10, <1>11, UpToAll
<1>13. n <= N /\ \A i \in 1..n : at[i] = P(i - 1)
  <2>1. n <= N
    BY <1>2, <1>12 DEF T
  <2>2. ASSUME NEW i \in 1..n PROVE at[i] = P(i - 1)
    <3>1. i - 1 \in 0..n /\ (i - 1) + 1 = i
      BY <1>2
    <3>2. at[(i - 1) + 1] = P(i - 1)
      BY <1>12, <3>1 DEF T
    <3> QED
      BY <3>1, <3>2
  <2> QED
    BY <2>1, <2>2
<1>14. at[n + 1] = N + 1
  BY <1>2, <1>8, <1>12 DEF T
<1> DEFINE U == {k \in 0..(N - n) : at[(n + 1) + k] > N}
<1>15. 0 \in U
  BY <1>2, <1>3, <1>13, <1>14
<1>16. ASSUME NEW k \in 1..(N - n), k - 1 \in U
       PROVE  k \in U
  <2> DEFINE j == n + k
  <2>1. j \in 1..N /\ (n + 1) + (k - 1) = j /\ (n + 1) + k = j + 1 /\ j \in 1..(N + 1)
    BY <1>2, <1>3, <1>13
  <2>2. at[j] > N
    BY <1>16, <2>1
  <2>3. at[j] \in Nat \ {0} /\ at[j + 1] = NextAt(bytes, at[j])
    BY <1>5, <2>1
  <2> DEFINE p == at[j]
  <2>4. NextAt(bytes, p) > p /\ NextAt(bytes, p) \in Nat
    <3> HIDE DEF p
    <3>1. ASSUME p \in Nat \ {0} PROVE NextAt(bytes, p) > p /\ NextAt(bytes, p) \in Nat
      BY <1>3, <3>1, NextAtTyped
    <3> QED
      BY <2>3, <3>1 DEF p
  <2>5. at[j + 1] > N
    BY <1>3, <2>2, <2>3, <2>4
  <2> HIDE DEF j
  <2> QED
    BY <2>1, <2>5
<1> HIDE DEF U
<1>17. 0..(N - n) \subseteq U
  <2>1. N - n \in Nat
    BY <1>2, <1>3, <1>13
  <2> QED
    BY <1>15, <1>16, <2>1, UpToAll
<1>18. {j \in 1..(N + 1) : at[j] <= N} = 1..n
  <2>1. ASSUME NEW j \in 1..(N + 1), j > n PROVE ~(at[j] <= N)
    <3>1. j - (n + 1) \in 0..(N - n) /\ (n + 1) + (j - (n + 1)) = j
      BY <1>2, <1>3, <1>13, <2>1
    <3>2. at[(n + 1) + (j - (n + 1))] > N
      BY <1>17, <3>1 DEF U
    <3>3. at[j] \in Nat
      BY <1>5
    <3> QED
      BY <1>3, <3>1, <3>2, <3>3
  <2>2. ASSUME NEW j \in 1..n PROVE j \in 1..(N + 1) /\ at[j] <= N
    <3>1. P(j - 1) <= N
      BY <1>6 DEF N
    <3> QED
      BY <1>2, <1>3, <1>13, <3>1
  <2>3. \A j \in 1..(N + 1) : at[j] <= N => j <= n
    BY <1>2, <1>3, <2>1
  <2> QED
    BY <1>2, <1>3, <2>2, <2>3
<1>19. Cardinality(1..n) = n
  <2>1. Cardinality(1..n) = IF 1 > n THEN 0 ELSE n - 1 + 1
    BY <1>2, FS_Interval
  <2> QED
    BY <1>2, <2>1
<1> DEFINE out == [i \in 1..n |->
              [tag |-> bytes[at[i]],
               value |-> Slice(bytes, at[i] + 3, at[i] + 2 + LengthAt(bytes, at[i]))]]
<1>20. Decoded(bytes) = out
  <2> DEFINE C == Cardinality({j \in 1..(N + 1) : at[j] <= N})
  <2>1. C = n
    BY <1>18, <1>19
  <2> HIDE DEF C
  <2>2. Decoded(bytes) = [i \in 1..C |->
              [tag |-> bytes[at[i]],
               value |-> Slice(bytes, at[i] + 3, at[i] + 2 + LengthAt(bytes, at[i]))]]
    BY <1>5 DEF C
  <2> QED
    BY <2>1, <2>2
<1>21. ASSUME NEW i \in 1..n
       PROVE  out[i] = tlvs[i]
  <2>1. tlvs[i] \in Tlvs
    BY <1>1 DEF Told
  <2>2. tlvs[i] = [tag |-> tlvs[i].tag, value |-> tlvs[i].value]
    BY <2>1 DEF Tlvs
  <2>3. at[i] = P(i - 1)
    BY <1>13
  <2>4. bytes[at[i]] = tlvs[i].tag
        /\ Slice(bytes, at[i] + 3, at[i] + 2 + LengthAt(bytes, at[i])) = tlvs[i].value
    BY <1>6, <2>3
  <2>5. out[i] = [tag |-> bytes[at[i]],
                  value |-> Slice(bytes, at[i] + 3, at[i] + 2 + LengthAt(bytes, at[i]))]
    OBVIOUS
  <2> HIDE DEF out
  <2> QED
    BY <2>2, <2>4, <2>5
<1>22. out = tlvs
  <2>1. out = [i \in 1..n |-> out[i]] /\ tlvs = [i \in 1..n |-> tlvs[i]]
    OBVIOUS
  <2> HIDE DEF out
  <2> QED
    BY <1>21, <2>1
<1> QED
  BY <1>20, <1>22 DEF bytes

-----------------------------------------------------------------------------
(* What holds nothing to escape is written as it is: the head of a SEI.    *)

(* What needs no emulation prevention is written as it is.                 *)
NeedsNone(bytes) ==
  \A j \in 1..(Len(bytes) - 2) : bytes[j] = 0 /\ bytes[j + 1] = 0 => bytes[j + 2] > 3

(* The last two bytes of what was written from the start. *)
LastOf(bytes, i) == <<IF i >= 2 THEN bytes[i - 1] ELSE 1, IF i >= 1 THEN bytes[i] ELSE 1>>

(* What needs no emulation prevention is written as it is, with it or      *)
(* without. *)
LEMMA WrittenAsItIs ==
  ASSUME NEW bytes \in Seq(Nat), NEW epb \in BOOLEAN, epb => NeedsNone(bytes)
  PROVE  WriteMany(Nothing, bytes, epb) = [bytes |-> bytes, last |-> LastOf(bytes, Len(bytes))]
<1> DEFINE n == Len(bytes)
           As(i) == [bytes |-> SubSeq(bytes, 1, i), last |-> LastOf(bytes, i)]
<1>1. n \in Nat /\ Nothing \in Writers
  BY DEF Nothing, LAST_TWO_BYTES_INIT_VALUE, Writers
<1>2. PICK f : Writes(f, Nothing, bytes, epb)
  BY <1>1, ByteByByte
<1>3. /\ f[0] = Nothing /\ f[n] = WriteMany(Nothing, bytes, epb)
      /\ \A i \in 1..n : f[i] = WriteByte(f[i - 1], bytes[i], epb)
  BY <1>2 DEF Writes
<1> DEFINE T == {i \in 0..n : f[i] = As(i)}
<1>4. 0 \in T
  <2>1. SubSeq(bytes, 1, 0) = <<>> /\ LastOf(bytes, 0) = <<1, 1>>
    BY DEF LastOf
  <2>2. As(0) = Nothing
    BY <2>1 DEF Nothing, LAST_TWO_BYTES_INIT_VALUE
  <2> HIDE DEF As
  <2> QED
    BY <1>1, <1>3, <2>2
<1>5. ASSUME NEW i \in 1..n, i - 1 \in T
      PROVE  i \in T
  <2> DEFINE w == f[i - 1]
             byte == bytes[i]
             last == LastOf(bytes, i - 1)
  <2>1. w = As(i - 1) /\ f[i] = WriteByte(w, byte, epb)
    BY <1>3, <1>5
  <2>2. w.last = last /\ w.bytes = SubSeq(bytes, 1, i - 1)
    BY <2>1
  <2>3. last = <<0, 0>> => i - 2 \in 1..(n - 2) /\ bytes[i - 2] = 0 /\ bytes[i - 1] = 0
    BY <1>1 DEF LastOf
  <2>4. ASSUME epb, last = <<0, 0>> PROVE byte > 3
    <3>1. NeedsNone(bytes)
      BY <2>4
    <3>2. i - 2 \in 1..(n - 2) /\ (i - 2) + 1 = i - 1 /\ (i - 2) + 2 = i
      BY <2>3, <2>4
    <3>3. bytes[i - 2] = 0 /\ bytes[(i - 2) + 1] = 0 => bytes[(i - 2) + 2] > 3
      BY <3>1, <3>2 DEF NeedsNone
    <3> QED
      BY <2>3, <2>4, <3>2, <3>3
  <2>5. ~(epb /\ byte \in 0..3 /\ w.last = <<0, 0>>)
    <3>1. byte \in 0..3 => ~(byte > 3)
      OBVIOUS
    <3> HIDE DEF byte, w, last
    <3> QED
      BY <2>2, <2>4, <3>1
  <2> HIDE DEF w
  <2>6. f[i] = [bytes |-> w.bytes \o <<byte>>, last |-> <<w.last[2], byte>>]
    BY <2>1, <2>5, Zenon DEF WriteByte
  <2>7. w.bytes \o <<byte>> = SubSeq(bytes, 1, i)
    <3> DEFINE a == SubSeq(bytes, 1, i - 1)
    <3>1. a \in Seq(Nat) /\ byte \in Nat /\ SubSeq(bytes, 1, i) = Append(a, byte)
      BY <1>1
    <3>2. w.bytes = a
      BY <2>2
    <3> HIDE DEF a, byte
    <3>3. Append(a, byte) = a \o <<byte>>
      BY <3>1, AppendIsConcat
    <3> QED
      BY <3>1, <3>2, <3>3
  <2>8. <<w.last[2], byte>> = LastOf(bytes, i)
    <3>1. last[2] = IF i >= 2 THEN bytes[i - 1] ELSE 1
      BY <1>1 DEF LastOf
    <3>2. LastOf(bytes, i) = <<IF i >= 2 THEN bytes[i - 1] ELSE 1, byte>>
      BY <1>1 DEF LastOf
    <3> HIDE DEF last, byte
    <3> QED
      BY <2>2, <3>1, <3>2
  <2>9. f[i] = As(i)
    BY <2>6, <2>7, <2>8
  <2> HIDE DEF As
  <2> QED
    BY <1>1, <2>9
<1> HIDE DEF T
<1>6. 0..n \subseteq T
  BY <1>1, <1>4, <1>5, UpToAll
<1>7. f[n] = As(n)
  BY <1>1, <1>6 DEF T
<1>8. SubSeq(bytes, 1, n) = bytes
  OBVIOUS
<1> QED
  BY <1>3, <1>7, <1>8

-----------------------------------------------------------------------------
(* The bytes in front of the TLVs.                                         *)
SizedHead(size) == <<6, 5>> \o SizeBytes(size)
HeadBytes(size, flags) == (SizedHead(size) \o UUID) \o <<flags>>

(* The layout of the head: type, payload size, UUID, flags. *)
IsHead(k, size, flags, sized, both, head) ==
  /\ k \in Nat /\ size % SizeUnit \in Nat /\ size % SizeUnit < SizeUnit
  /\ k * SizeUnit + (size % SizeUnit) = size
  /\ sized \in Seq(Nat) /\ both \in Seq(Nat) /\ head \in Seq(Nat)
  /\ Len(sized) = k + 3 /\ Len(both) = k + 5 /\ Len(head) = k + 6
  /\ head[1] = 6 /\ head[2] = 5
  /\ \A i \in 3..(k + 2) : head[i] = SizeUnit
  /\ head[k + 3] = size % SizeUnit /\ head[k + 4] = 0 /\ head[k + 5] = 91
  /\ head[k + 6] = flags
  /\ \A i \in 1..(k + 3) : sized[i] = head[i]
  /\ \A i \in 1..(k + 5) : both[i] = head[i]
  /\ head = both \o <<flags>>

(* The head has this layout. *)
LEMMA HeadIs ==
  ASSUME NEW size \in Nat, NEW flags \in Nat
  PROVE  IsHead(size \div SizeUnit, size, flags, SizedHead(size), SizedHead(size) \o UUID,
                HeadBytes(size, flags))
<1> DEFINE k == size \div SizeUnit
           rest == size % SizeUnit
           units == [i \in 1..k |-> SizeUnit]
           bytes == SizeBytes(size)
           sized == SizedHead(size)
           both == sized \o UUID
           head == HeadBytes(size, flags)
<1>1. SizeUnit \in Nat \ {0}
  BY BytesAssumption
<1>2. k \in Nat /\ rest \in Nat /\ rest < SizeUnit /\ k * SizeUnit + rest = size
  BY <1>1
<1>3. bytes = units \o <<rest>>
  BY DEF SizeBytes
<1> HIDE DEF k, rest
<1>4. units \in Seq(Nat) /\ Len(units) = k /\ \A i \in 1..k : units[i] = SizeUnit
  BY <1>1, <1>2
<1> HIDE DEF units
<1>5. bytes \in Seq(Nat) /\ Len(bytes) = k + 1 /\ bytes[k + 1] = rest
      /\ \A i \in 1..k : bytes[i] = SizeUnit
  BY <1>2, <1>3, <1>4
<1> HIDE DEF bytes
<1>6. sized = <<6, 5>> \o bytes
  BY DEF SizedHead, bytes
<1> HIDE DEF sized
<1>7. /\ sized \in Seq(Nat) /\ Len(sized) = k + 3 /\ sized[1] = 6 /\ sized[2] = 5
      /\ \A i \in 1..(k + 1) : sized[2 + i] = bytes[i]
  BY <1>2, <1>5, <1>6
<1>8. UUID \in Seq(Nat) /\ Len(UUID) = 2 /\ UUID[1] = 0 /\ UUID[2] = 91
  BY DEF UUID
<1>9. /\ both \in Seq(Nat) /\ Len(both) = k + 5 /\ both[k + 4] = 0 /\ both[k + 5] = 91
      /\ \A i \in 1..(k + 3) : both[i] = sized[i]
  <2>1. /\ both \in Seq(Nat) /\ Len(both) = Len(sized) + Len(UUID)
        /\ \A i \in 1..Len(sized) : both[i] = sized[i]
        /\ \A i \in 1..Len(UUID) : both[Len(sized) + i] = UUID[i]
    BY <1>7, <1>8, ConcatIs
  <2> HIDE DEF both
  <2>2. both[(k + 3) + 1] = 0 /\ both[(k + 3) + 2] = 91
    BY <1>7, <1>8, <2>1
  <2>3. (k + 3) + 1 = k + 4 /\ (k + 3) + 2 = k + 5
    BY <1>2
  <2> QED
    BY <1>2, <1>7, <1>8, <2>1, <2>2, <2>3
<1>10. head = both \o <<flags>>
  BY DEF HeadBytes, sized
<1> HIDE DEF both, head
<1>11. /\ head \in Seq(Nat) /\ Len(head) = k + 6 /\ head[k + 6] = flags
       /\ \A i \in 1..(k + 5) : head[i] = both[i]
  BY <1>2, <1>9, <1>10
<1>12. \A i \in 1..(k + 3) : sized[i] = head[i]
  BY <1>2, <1>9, <1>11
<1>13. head[1] = 6 /\ head[2] = 5 /\ head[k + 3] = rest
       /\ \A i \in 3..(k + 2) : head[i] = SizeUnit
  <2>1. 1 \in 1..(k + 3) /\ 2 \in 1..(k + 3) /\ k + 3 \in 1..(k + 3)
    BY <1>2
  <2>2. sized[k + 3] = rest
    <3>1. k + 1 \in 1..(k + 1) /\ 2 + (k + 1) = k + 3
      BY <1>2
    <3> QED
      BY <1>5, <1>7, <3>1
  <2>3. ASSUME NEW i \in 3..(k + 2) PROVE head[i] = SizeUnit
    <3>1. i - 2 \in 1..k /\ i - 2 \in 1..(k + 1) /\ 2 + (i - 2) = i /\ i \in 1..(k + 3)
      BY <1>2
    <3>2. sized[i] = SizeUnit
      BY <1>5, <1>7, <3>1
    <3> QED
      BY <1>12, <3>1, <3>2
  <2> QED
    BY <1>7, <1>12, <2>1, <2>2, <2>3
<1>14. head[k + 4] = 0 /\ head[k + 5] = 91
  BY <1>2, <1>9, <1>11
<1>15. \A i \in 1..(k + 5) : both[i] = head[i]
  BY <1>11
<1>16. IsHead(k, size, flags, sized, both, head)
  <2>1. size % SizeUnit = rest
    BY DEF rest
  <2> QED
    BY <1>2, <1>7, <1>9, <1>10, <1>11, <1>12, <1>13, <1>14, <1>15, <2>1 DEF IsHead
<1> QED
  BY <1>16 DEF k, sized, both, head

(* Nothing in it needs emulation prevention. *)
LEMMA HeadNeedsNone ==
  ASSUME NEW size \in Nat, NEW flags \in Nat
  PROVE  /\ NeedsNone(HeadBytes(size, flags))
         /\ NeedsNone(SizedHead(size))
         /\ NeedsNone(SizedHead(size) \o UUID)
<1> DEFINE k == size \div SizeUnit
           head == HeadBytes(size, flags)
           sized == SizedHead(size)
           both == sized \o UUID
<1>1. /\ k \in Nat
      /\ head \in Seq(Nat) /\ Len(head) = k + 6
      /\ Len(sized) = k + 3 /\ Len(both) = k + 5
      /\ head[1] = 6 /\ head[2] = 5 /\ head[k + 5] = 91
      /\ \A i \in 3..(k + 2) : head[i] = SizeUnit
      /\ \A i \in 1..(k + 3) : sized[i] = head[i]
      /\ \A i \in 1..(k + 5) : both[i] = head[i]
  <2> HIDE DEF k, head, sized, both
  <2>1. IsHead(k, size, flags, sized, both, head)
    BY HeadIs DEF k, head, sized, both
  <2> QED
    BY <2>1 DEF IsHead
<1>2. SizeUnit \in Nat \ {0}
  BY BytesAssumption
<1> HIDE DEF k, head, sized, both
<1>3. ASSUME NEW j \in 1..(k + 4), head[j] = 0, head[j + 1] = 0
      PROVE  head[j + 2] > 3
  <2>1. j \notin 3..(k + 2) /\ j # 1 /\ j # 2 /\ j + 1 # k + 5
    BY <1>1, <1>2, <1>3
  <2>2. j = k + 3
    BY <1>1, <2>1
  <2>3. j + 2 = k + 5
    BY <1>1, <2>2
  <2> QED
    BY <1>1, <2>3
<1>4. NeedsNone(head)
  BY <1>1, <1>3 DEF NeedsNone
<1>5. NeedsNone(sized)
  <2> SUFFICES ASSUME NEW j \in 1..((k + 3) - 2), sized[j] = 0, sized[j + 1] = 0
               PROVE  sized[j + 2] > 3
    BY <1>1 DEF NeedsNone
  <2>1. j \in 1..(k + 3) /\ j + 1 \in 1..(k + 3) /\ j + 2 \in 1..(k + 3) /\ j \in 1..(k + 4)
    BY <1>1
  <2> QED
    BY <1>1, <1>3, <2>1
<1>6. NeedsNone(both)
  <2> SUFFICES ASSUME NEW j \in 1..((k + 5) - 2), both[j] = 0, both[j + 1] = 0
               PROVE  both[j + 2] > 3
    BY <1>1 DEF NeedsNone
  <2>1. j \in 1..(k + 5) /\ j + 1 \in 1..(k + 5) /\ j + 2 \in 1..(k + 5) /\ j \in 1..(k + 4)
    BY <1>1
  <2> QED
    BY <1>1, <1>3, <2>1
<1> QED
  BY <1>4, <1>5, <1>6 DEF head, sized, both

-----------------------------------------------------------------------------
(* What a SEI begins with, and the size that is read back from it.         *)

(* A writer behind the head, whatever it has as the last two bytes.        *)
Fresh(w, head) == w \in Writers /\ w.bytes = head /\ ~(w.last[1] = 0 /\ w.last[2] = 0)

(* The payload size that generate_sei_and_add_to_buffer() computes, of all *)
(* TLVs and the signature that is to come. *)
SizeOf(tlvs, signed) ==
  Len(UUID) + 1 + Len(EncodedList(tlvs)) + (IF signed THEN 6 + MaxSignatureSize ELSE 0)

(* The head of a SEI. *)
HeadOfSei(tlvs, certificate, signed) ==
  HeadBytes(SizeOf(tlvs, signed), Reserved(certificate))

(* Whoever writes the head from the start is a fresh writer. *)
LEMMA HeadFresh ==
  ASSUME NEW size \in Nat, NEW flags \in Nat, NEW epb \in BOOLEAN
  PROVE  Fresh(WriteMany(Nothing, HeadBytes(size, flags), epb), HeadBytes(size, flags))
<1> DEFINE k == size \div SizeUnit
           head == HeadBytes(size, flags)
           sized == SizedHead(size)
           both == sized \o UUID
           w == WriteMany(Nothing, head, epb)
<1>1. IsHead(k, size, flags, sized, both, head)
  BY HeadIs
<1>2. NeedsNone(head)
  BY HeadNeedsNone
<1> HIDE DEF k, head, sized, both
<1>3. head \in Seq(Nat) /\ Len(head) = k + 6 /\ k \in Nat /\ head[k + 5] = 91
  BY <1>1 DEF IsHead
<1>4. w = [bytes |-> head, last |-> LastOf(head, Len(head))]
  BY <1>2, <1>3, WrittenAsItIs
<1>5. Nothing \in Writers
  BY DEF Nothing, LAST_TWO_BYTES_INIT_VALUE, Writers
<1>6. w \in Writers
  BY <1>3, <1>5, WriteManyTyped
<1>7. LastOf(head, Len(head))[1] = 91
  <2>1. Len(head) >= 2 /\ Len(head) - 1 = k + 5
    BY <1>3
  <2> QED
    BY <1>3, <2>1 DEF LastOf
<1> HIDE DEF w
<1>8. Fresh(w, head)
  BY <1>4, <1>6, <1>7 DEF Fresh
<1> QED
  BY <1>8 DEF w, head

(* A SEI that is begun is its head and its TLVs, written by one writer. *)
LEMMA BegunIs ==
  ASSUME Typed, NEW tlvs \in Seq(Tlvs), NEW certificate \in BOOLEAN, NEW signed \in BOOLEAN
  PROVE  \E w : /\ Fresh(w, HeadOfSei(tlvs, certificate, signed))
                /\ Begun(tlvs, certificate, signed) = WriteMany(w, EncodedList(tlvs), sei_epb)
<1> DEFINE list    == EncodedList(tlvs)
           size    == Len(UUID) + 1 + Len(list) + (IF signed THEN 6 + MaxSignatureSize ELSE 0)
           flags   == Reserved(certificate)
           k       == size \div SizeUnit
           sized   == SizedHead(size)
           both    == sized \o UUID
           head    == HeadBytes(size, flags)
           begun   == WriteMany(Nothing, sized, FALSE)
           uuid    == WriteMany(begun, UUID, TRUE)
           flagged == [uuid EXCEPT !.bytes = Append(@, flags)]
<1>1. Begun(tlvs, certificate, signed) = WriteMany(flagged, list, sei_epb)
  BY Zenon DEF Begun, SizedHead
<1>2. HeadOfSei(tlvs, certificate, signed) = head
  BY Zenon DEF HeadOfSei, SizeOf
<1>3. size \in Nat /\ flags \in Nat
  <2>1. list \in Seq(Nat)
    BY EncodedListTyped
  <2>2. Len(list) \in Nat /\ Len(UUID) = 2 /\ MaxSignatureSize \in Nat
    BY <2>1, BytesAssumption DEF UUID
  <2>3. size \in Nat
    <3> HIDE DEF list
    <3> QED
      BY <2>2
  <2>4. flags \in Nat
    BY DEF Reserved
  <2> QED
    BY <2>3, <2>4
<1> HIDE DEF size, flags
<1>4. IsHead(k, size, flags, sized, both, head)
  BY <1>3, HeadIs
<1>5. NeedsNone(sized) /\ NeedsNone(both)
  BY <1>3, HeadNeedsNone
<1> HIDE DEF k, sized, head
<1>6. /\ k \in Nat /\ sized \in Seq(Nat) /\ both \in Seq(Nat) /\ head \in Seq(Nat)
      /\ Len(both) = k + 5 /\ head[k + 4] = 0 /\ head[k + 5] = 91
      /\ \A i \in 1..(k + 5) : both[i] = head[i]
      /\ head = both \o <<flags>>
  BY <1>4 DEF IsHead
<1>7. begun = WriteMany(Nothing, sized, TRUE)
  <2>1. begun = [bytes |-> sized, last |-> LastOf(sized, Len(sized))]
    BY <1>6, WrittenAsItIs
  <2>2. WriteMany(Nothing, sized, TRUE) = [bytes |-> sized, last |-> LastOf(sized, Len(sized))]
    BY <1>5, <1>6, WrittenAsItIs
  <2> QED
    BY <2>1, <2>2
<1>8. Nothing \in Writers /\ UUID \in Seq(Nat)
  BY DEF Nothing, LAST_TWO_BYTES_INIT_VALUE, Writers, UUID
<1>9. uuid = WriteMany(Nothing, both, TRUE)
  <2>1. WriteMany(Nothing, sized \o UUID, TRUE)
          = WriteMany(WriteMany(Nothing, sized, TRUE), UUID, TRUE)
    BY <1>6, <1>8, WriteInParts
  <2> QED
    BY <1>7, <2>1
<1> HIDE DEF both
<1>10. uuid = [bytes |-> both, last |-> LastOf(both, Len(both))]
  BY <1>5, <1>6, <1>9, WrittenAsItIs
<1> HIDE DEF uuid
<1>11. LastOf(both, Len(both)) = <<0, 91>>
  <2>1. Len(both) >= 2 /\ Len(both) - 1 = k + 4 /\ Len(both) = k + 5
    BY <1>6
  <2>2. both[k + 4] = 0 /\ both[k + 5] = 91
    BY <1>6
  <2> QED
    BY <2>1, <2>2 DEF LastOf
<1>12. flagged = [bytes |-> head, last |-> <<0, 91>>]
  <2>1. Append(both, flags) = both \o <<flags>>
    BY <1>3, <1>6, AppendIsConcat
  <2>2. Append(uuid.bytes, flags) = head
    BY <1>6, <1>10, <2>1
  <2>3. uuid.last = <<0, 91>>
    BY <1>10, <1>11
  <2>4. flagged = [bytes |-> Append(uuid.bytes, flags), last |-> uuid.last]
    <3> DEFINE last == LastOf(both, Len(both))
    <3>1. uuid = [bytes |-> both, last |-> last]
      BY <1>10
    <3> HIDE DEF last
    <3>2. [uuid EXCEPT !.bytes = Append(@, flags)] = [bytes |-> Append(both, flags), last |-> last]
      BY ONLY <3>1
    <3> QED
      BY <3>1, <3>2
  <2> HIDE DEF flagged
  <2> QED
    BY <2>2, <2>3, <2>4
<1> HIDE DEF flagged
<1>13. Fresh(flagged, head)
  BY <1>6, <1>12 DEF Fresh, Writers
<1>14. Fresh(flagged, HeadOfSei(tlvs, certificate, signed))
  BY <1>2, <1>13
<1>15. Begun(tlvs, certificate, signed) = WriteMany(flagged, EncodedList(tlvs), sei_epb)
  BY <1>1
<1> QED
  BY <1>14, <1>15

(* The payload size is read back. *)
LEMMA SizeReadBack ==
  ASSUME NEW size \in Nat, NEW flags \in Nat, NEW data \in Seq(Nat),
         Begins(data, HeadBytes(size, flags))
  PROVE  /\ SizeEnd(data) = Len(HeadBytes(size, flags)) - 3
         /\ SizeEnd(data) \in Nat \ {0}
         /\ PayloadSize(data) = size
         /\ data[SizeEnd(data) + 3] = flags
         /\ SizeEnd(data) + 3 <= Len(data)
<1> DEFINE k == size \div SizeUnit
           head == HeadBytes(size, flags)
           sized == SizedHead(size)
           both == sized \o UUID
           IsEnd(i) == data[i] # SizeUnit /\ (\A j \in 3..(i - 1) : data[j] = SizeUnit)
           end == CHOOSE i \in 3..Len(data) : IsEnd(i)
<1>1. IsHead(k, size, flags, sized, both, head)
  BY HeadIs
<1> HIDE DEF k, head, sized, both
<1>2. /\ k \in Nat /\ head \in Seq(Nat) /\ Len(head) = k + 6
      /\ \A i \in 3..(k + 2) : head[i] = SizeUnit
      /\ head[k + 3] = size % SizeUnit /\ head[k + 6] = flags
      /\ size % SizeUnit \in Nat /\ size % SizeUnit < SizeUnit
      /\ k * SizeUnit + (size % SizeUnit) = size
  BY <1>1 DEF IsHead
<1> DEFINE rest == size % SizeUnit
<1> HIDE DEF rest
<1>3. SizeUnit \in Nat
  BY BytesAssumption
<1>4. Len(data) \in Nat /\ k + 6 <= Len(data) /\ \A i \in 1..(k + 6) : data[i] = head[i]
  BY <1>2 DEF Begins, head
<1>5. /\ \A i \in 3..(k + 2) : data[i] = SizeUnit
      /\ data[k + 3] = rest /\ data[k + 6] = flags /\ rest \in Nat /\ rest < SizeUnit
      /\ k * SizeUnit + rest = size
  <2>1. /\ \A i \in 3..(k + 2) : head[i] = SizeUnit
        /\ head[k + 3] = rest /\ head[k + 6] = flags /\ rest \in Nat /\ rest < SizeUnit
        /\ k * SizeUnit + rest = size
    BY <1>2 DEF rest
  <2>2. ASSUME NEW i \in 3..(k + 2) PROVE data[i] = SizeUnit
    <3>1. i \in 1..(k + 6)
      BY <1>2
    <3>2. data[i] = head[i]
      BY <1>4, <3>1
    <3> QED
      BY <2>1, <3>2
  <2>3. data[k + 3] = rest /\ data[k + 6] = flags
    BY <1>2, <1>4, <2>1
  <2> QED
    BY <2>1, <2>2, <2>3
<1>6. k + 3 \in 3..Len(data) /\ IsEnd(k + 3)
  BY <1>2, <1>3, <1>4, <1>5
<1>7. \A i \in 3..Len(data) : IsEnd(i) => i = k + 3
  <2> SUFFICES ASSUME NEW i \in 3..Len(data), IsEnd(i), i # k + 3
               PROVE  FALSE
    OBVIOUS
  <2>1. CASE i < k + 3
    <3>1. i \in 3..(k + 2)
      BY <1>2, <2>1
    <3> QED
      BY <1>5, <3>1
  <2>2. CASE i > k + 3
    <3>1. k + 3 \in 3..(i - 1)
      BY <1>2, <1>4, <2>2
    <3> QED
      BY <1>3, <1>5, <3>1
  <2> QED
    BY <1>2, <2>1, <2>2
<1>8. SizeEnd(data) = end
  BY Zenon DEF SizeEnd
<1> HIDE DEF IsEnd
<1>9. end = k + 3
  BY <1>6, <1>7
<1> HIDE DEF end
<1>10. PayloadSize(data) = (SizeEnd(data) - 3) * SizeUnit + data[SizeEnd(data)]
  BY Zenon DEF PayloadSize
<1>11. SizeEnd(data) = k + 3
  BY <1>8, <1>9
<1>12. PayloadSize(data) = size
  <2>1. (k + 3) - 3 = k
    BY <1>2
  <2> QED
    BY <1>5, <1>10, <1>11, <2>1
<1>13. SizeEnd(data) = Len(head) - 3 /\ SizeEnd(data) \in Nat \ {0}
       /\ SizeEnd(data) + 3 = k + 6
  BY <1>2, <1>11
<1> QED
  BY <1>4, <1>5, <1>12, <1>13 DEF head

-----------------------------------------------------------------------------
(* Until the stop bit; what emulation prevention adds can be counted.      *)

(* The stop bit.                                                           *)
Stop == <<STOP_BYTE_VALUE>>

(* The stop bit is written as it is. *)
LEMMA StopIs ==
  ASSUME NEW w \in Writers, NEW epb \in BOOLEAN
  PROVE  /\ Stop \in Seq(Nat) /\ Len(Stop) = 1 /\ Stop[1] = 128
         /\ WriteMany(w, Stop, epb) = WithStopBit(w)
         /\ WithStopBit(w).bytes = w.bytes \o Stop
<1>1. Stop \in Seq(Nat) /\ Len(Stop) = 1 /\ Stop[1] = 128 /\ STOP_BYTE_VALUE \in Nat
      /\ STOP_BYTE_VALUE > 3
  BY DEF Stop, STOP_BYTE_VALUE
<1>2. PICK f : Writes(f, w, Stop, epb)
  BY <1>1, ByteByByte
<1>3. f[0] = w /\ f[1] = WriteMany(w, Stop, epb) /\ f[1] = WriteByte(f[0], Stop[1], epb)
  <2>1. /\ f[0] = w /\ f[Len(Stop)] = WriteMany(w, Stop, epb)
        /\ \A i \in 1..Len(Stop) : f[i] = WriteByte(f[i - 1], Stop[i], epb)
    BY <1>2 DEF Writes
  <2>2. 1 \in 1..Len(Stop) /\ 1 - 1 = 0
    BY <1>1
  <2>3. f[1] = WriteByte(f[1 - 1], Stop[1], epb)
    BY <2>1, <2>2
  <2> QED
    BY <1>1, <2>1, <2>2, <2>3
<1>4. WriteMany(w, Stop, epb) = WriteByte(w, STOP_BYTE_VALUE, epb)
  BY <1>1, <1>3 DEF STOP_BYTE_VALUE
<1>5. WriteByte(w, STOP_BYTE_VALUE, TRUE) = WriteByte(w, STOP_BYTE_VALUE, FALSE)
      /\ WriteByte(w, STOP_BYTE_VALUE, FALSE).bytes = w.bytes \o <<STOP_BYTE_VALUE>>
  BY <1>1, WriteByteLength
<1>6. WriteMany(w, Stop, epb) = WithStopBit(w)
  <2>1. CASE epb = TRUE
    BY <1>4, <1>5, <2>1 DEF WithStopBit
  <2>2. CASE epb = FALSE
    BY <1>4, <2>2 DEF WithStopBit
  <2> QED
    BY <2>1, <2>2
<1>7. WithStopBit(w).bytes = w.bytes \o Stop
  BY <1>5, Zenon DEF WithStopBit, Stop
<1> QED
  BY <1>1, <1>6, <1>7

(* A SEI on its way.  What the payload size does not count shows whether   *)
(* there is emulation prevention in it.                                    *)
Wire(w, list, epb) == WriteMany(w, list, epb).bytes \o Stop

(* How many bytes of emulation prevention there are can be told from the   *)
(* payload size. *)
Shows(data, bytes, head, list) ==
  /\ data \in Seq(Nat) /\ bytes \in Seq(Nat) /\ Len(data) = Len(bytes) + 1
  /\ head \in Seq(Nat) /\ Len(bytes) >= Len(head) + Len(list)
  /\ Begins(data, bytes) /\ Begins(data, head)
  /\ EmulationBytes(data) = Len(bytes) - (Len(head) + Len(list))

(* This holds of all that was written with the right payload size. *)
LEMMA WireIs ==
  ASSUME NEW size \in Nat, NEW flags \in Nat, NEW w, Fresh(w, HeadBytes(size, flags)),
         NEW list \in Seq(Nat), size = 3 + Len(list), NEW epb \in BOOLEAN
  PROVE  Shows(Wire(w, list, epb), WriteMany(w, list, epb).bytes, HeadBytes(size, flags), list)
<1> DEFINE head == HeadBytes(size, flags)
           bytes == WriteMany(w, list, epb).bytes
           data == bytes \o Stop
<1>1. w \in Writers /\ w.bytes = head
  BY DEF Fresh
<1>2. head \in Seq(Nat)
  BY <1>1 DEF Writers
<1>3. Stop \in Seq(Nat) /\ Len(Stop) = 1 /\ Stop[1] = 128
  BY <1>1, StopIs
<1>4. bytes \in Seq(Nat) /\ Len(bytes) >= Len(head) + Len(list) /\ Begins(bytes, head)
  BY <1>1, WritingGrows, WritingExtends
<1> HIDE DEF bytes, head
<1>5. data \in Seq(Nat) /\ Len(data) = Len(bytes) + 1 /\ data[Len(bytes) + 1] = 128
      /\ Begins(data, bytes)
  <2>1. /\ data \in Seq(Nat) /\ Len(data) = Len(bytes) + Len(Stop)
        /\ \A i \in 1..Len(Stop) : data[Len(bytes) + i] = Stop[i]
    <3>1. bytes \in Seq(Nat) /\ Stop \in Seq(Nat)
      BY <1>3, <1>4
    <3> QED
      BY ONLY <3>1, ConcatIs
  <2>2. Begins(data, bytes)
    BY <1>3, <1>4, BeginsConcat
  <2> HIDE DEF data
  <2>3. 1 \in 1..Len(Stop)
    BY <1>3
  <2> QED
    BY <1>3, <2>1, <2>2, <2>3
<1> HIDE DEF data
<1>6. Begins(data, head)
  BY <1>2, <1>4, <1>5, BeginsTransitive
<1>7. SizeEnd(data) = Len(head) - 3 /\ PayloadSize(data) = size
  BY <1>5, <1>6, SizeReadBack DEF head
<1>8. Last(data) = STOP_BYTE_VALUE
  BY <1>5 DEF Last, STOP_BYTE_VALUE
<1>9. EmulationBytes(data) = Len(data) - SizeEnd(data) - PayloadSize(data) - 1
  BY <1>8 DEF EmulationBytes
<1>10. EmulationBytes(data) = Len(bytes) - (Len(head) + Len(list))
  <2> DEFINE a == Len(bytes)
             b == Len(head)
             c == Len(list)
             d == Len(data)
             x == SizeEnd(data)
             y == PayloadSize(data)
  <2>1. a \in Nat /\ b \in Nat /\ c \in Nat /\ d = a + 1 /\ x = b - 3 /\ y = 3 + c
    BY <1>2, <1>4, <1>5, <1>7
  <2>2. EmulationBytes(data) = d - x - y - 1
    BY <1>9
  <2> HIDE DEF a, b, c, d, x, y
  <2>3. EmulationBytes(data) = a - (b + c)
    BY <2>1, <2>2
  <2> QED
    BY <2>3 DEF a, b, c
<1>11. Wire(w, list, epb) = data
  BY DEF Wire, data, bytes
<1>12. Shows(data, bytes, head, list)
  BY <1>2, <1>4, <1>5, <1>6, <1>10 DEF Shows
<1> QED
  BY <1>11, <1>12 DEF bytes, head

(* If there are none to be seen none were put in. *)
LEMMA WireShows ==
  ASSUME NEW size \in Nat, NEW flags \in Nat, NEW w, Fresh(w, HeadBytes(size, flags)),
         NEW list \in Seq(Nat), size = 3 + Len(list), NEW epb \in BOOLEAN
  PROVE  LET data == Wire(w, list, epb)
             shown == EmulationBytes(data) > 0
         IN  /\ shown \in BOOLEAN /\ (shown => epb)
             /\ Wire(w, list, shown) = data
             /\ WriteMany(w, list, shown) = WriteMany(w, list, epb)
<1> DEFINE head == HeadBytes(size, flags)
           out == WriteMany(w, list, epb)
           data == Wire(w, list, epb)
           shown == EmulationBytes(data) > 0
<1>1. w \in Writers /\ w.bytes = head
  BY DEF Fresh
<1>2. out.bytes \in Seq(Nat) /\ head \in Seq(Nat)
      /\ EmulationBytes(data) = Len(out.bytes) - (Len(head) + Len(list))
      /\ Len(out.bytes) \in Nat /\ Len(head) \in Nat /\ Len(list) \in Nat
  <2>1. out.bytes \in Seq(Nat) /\ head \in Seq(Nat)
        /\ EmulationBytes(data) = Len(out.bytes) - (Len(head) + Len(list))
    <3>1. Shows(data, out.bytes, head, list)
      BY WireIs
    <3> HIDE DEF data, out, head
    <3> QED
      BY <3>1 DEF Shows
  <2> QED
    BY <2>1
<1>3. ~epb \/ ~shown => out = WriteMany(w, list, FALSE)
  <2>1. CASE epb = FALSE
    BY <2>1
  <2>2. CASE epb = TRUE
    <3> DEFINE escaped == WriteMany(w, list, TRUE)
    <3>1. Len(escaped.bytes) >= Len(head) + Len(list)
          /\ (Len(escaped.bytes) = Len(head) + Len(list) => escaped = WriteMany(w, list, FALSE))
      BY <1>1, EscapesShow
    <3>2. out = escaped
      BY <2>2
    <3> DEFINE a == Len(out.bytes)
               b == Len(head)
               c == Len(list)
               m == EmulationBytes(data)
    <3>3. a \in Nat /\ b \in Nat /\ c \in Nat /\ m = a - (b + c) /\ a >= b + c
          /\ (a = b + c => out = WriteMany(w, list, FALSE))
      <4>1. a >= b + c /\ (a = b + c => out = WriteMany(w, list, FALSE))
        BY <3>1, <3>2
      <4>2. a \in Nat /\ b \in Nat /\ c \in Nat /\ m = a - (b + c)
        BY <1>2
      <4> QED
        BY <4>1, <4>2
    <3> HIDE DEF a, b, c, m, out
    <3>4. ASSUME ~(m > 0) PROVE a = b + c
      BY <3>3, <3>4
    <3> QED
      BY <2>2, <3>3, <3>4 DEF m
  <2> QED
    BY <2>1, <2>2
<1>4. shown => epb
  <2>1. CASE epb = TRUE
    BY <2>1
  <2>2. CASE epb = FALSE
    <3>1. out.bytes = head \o list
      BY <1>1, <2>2, WritePlain
    <3>2. Len(head \o list) = Len(head) + Len(list) /\ Len(head) \in Nat /\ Len(list) \in Nat
      <4> HIDE DEF head
      <4> QED
        BY <1>2, ConcatIs
    <3> DEFINE a == Len(out.bytes)
               b == Len(head)
               c == Len(list)
               m == EmulationBytes(data)
    <3>3. a = b + c /\ b \in Nat /\ c \in Nat /\ m = a - (b + c)
      BY <1>2, <3>1, <3>2
    <3> HIDE DEF a, b, c, m
    <3>4. ~(m > 0)
      BY <3>3
    <3> QED
      BY <3>4 DEF m
  <2> QED
    BY <2>1, <2>2
<1> HIDE DEF shown
<1>5. WriteMany(w, list, shown) = out
  <2>1. CASE shown = TRUE
    <3>1. epb = TRUE
      BY <1>4, <2>1
    <3> QED
      BY <2>1, <3>1
  <2>2. CASE shown = FALSE
    BY <1>3, <2>2
  <2>3. shown \in BOOLEAN
    BY DEF shown
  <2> QED
    BY <2>1, <2>2, <2>3
<1>6. Wire(w, list, shown) = data
  BY <1>5 DEF Wire
<1>7. shown \in BOOLEAN
  BY DEF shown
<1> QED
  BY <1>4, <1>5, <1>6, <1>7 DEF shown, data, out

(* Without emulation prevention the head, the list and the stop bit remain. *)
LEMMA PlainReadBack ==
  ASSUME NEW size \in Nat, NEW flags \in Nat, NEW w, Fresh(w, HeadBytes(size, flags)),
         NEW list \in Seq(Nat), Len(list) > 0 => list[1] # 0
  PROVE  LET head == HeadBytes(size, flags)
         IN  ReadMany(Wire(w, list, TRUE), Reader(1), Len(head) + (Len(list) + 1), TRUE).read
               = head \o (list \o Stop)
<1> DEFINE head == HeadBytes(size, flags)
           tail == list \o Stop
           v == WriteMany(Nothing, head, TRUE)
           data == Wire(w, list, TRUE)
           r == Reader(1)
           s == ReadMany(data, r, Len(head), TRUE)
           t == ReadMany(data, s, Len(tail), TRUE)
<1>1. w \in Writers /\ w.bytes = head /\ ~(w.last[1] = 0 /\ w.last[2] = 0)
  BY DEF Fresh
<1>2. v \in Writers /\ v.bytes = head /\ ~(v.last[1] = 0 /\ v.last[2] = 0)
  BY HeadFresh DEF Fresh
<1>3. head \in Seq(Nat) /\ Len(head) \in Nat
  BY <1>1 DEF Writers
<1>4. Stop \in Seq(Nat) /\ Len(Stop) = 1 /\ Stop[1] = 128
  BY <1>1, StopIs
<1>5. tail \in Seq(Nat) /\ Len(tail) = Len(list) + 1 /\ Len(list) \in Nat /\ tail[1] # 0
  <2>1. /\ tail \in Seq(Nat) /\ Len(tail) = Len(list) + Len(Stop) /\ Len(list) \in Nat
        /\ \A i \in 1..Len(list) : tail[i] = list[i]
        /\ \A i \in 1..Len(Stop) : tail[Len(list) + i] = Stop[i]
    BY <1>4, ConcatIs
  <2> HIDE DEF tail
  <2>2. CASE Len(list) > 0
    <3>1. 1 \in 1..Len(list)
      BY <2>1, <2>2
    <3>2. tail[1] = list[1]
      BY <2>1, <3>1
    <3>3. list[1] # 0
      BY <2>2
    <3> QED
      BY <1>4, <2>1, <3>2, <3>3
  <2>3. CASE ~(Len(list) > 0)
    <3>1. Len(list) = 0
      BY <2>1, <2>3
    <3>2. 1 \in 1..Len(Stop) /\ Len(list) + 1 = 1
      BY <1>4, <3>1
    <3>3. tail[Len(list) + 1] = Stop[1]
      BY <2>1, <3>2
    <3> QED
      BY <1>4, <2>1, <3>2, <3>3
  <2> QED
    BY <2>2, <2>3
<1>6. data = WriteMany(w, tail, TRUE).bytes /\ data \in Seq(Nat) /\ Begins(data, head)
  <2> DEFINE x == WriteMany(w, list, TRUE)
  <2>1. x \in Writers
    BY <1>1, WriteManyTyped
  <2>2. WriteMany(w, tail, TRUE) = WriteMany(x, Stop, TRUE)
    BY <1>1, <1>4, WriteInParts
  <2> HIDE DEF tail
  <2>3. data = x.bytes \o Stop
    BY DEF Wire
  <2> HIDE DEF x, data
  <2>4. WriteMany(x, Stop, TRUE).bytes = x.bytes \o Stop
    BY <2>1, StopIs
  <2>5. data = WriteMany(w, tail, TRUE).bytes
    BY <2>2, <2>3, <2>4
  <2>6. WriteMany(w, tail, TRUE).bytes \in Seq(Nat)
        /\ Begins(WriteMany(w, tail, TRUE).bytes, w.bytes)
    BY <1>1, <1>5, WritingGrows, WritingExtends
  <2> QED
    BY <1>1, <2>5, <2>6
<1>7. r \in Readers /\ r.read = <<>> /\ Nothing \in Writers /\ Mirrors(r, Nothing) /\ Near(r, Nothing)
  BY DEF Reader, Readers, Nothing, Writers, LAST_TWO_BYTES_INIT_VALUE, Mirrors, Near
<1> HIDE DEF v, data, r, head, tail
<1>8. s \in Readers /\ Near(s, v) /\ s.read = head
  <2>1. Begins(data, WriteMany(Nothing, head, TRUE).bytes)
    BY <1>2, <1>6 DEF v
  <2>2. CanRead(data, r, Nothing, head, TRUE)
    BY <1>7, <2>1 DEF CanRead
  <2>3. HasRead(s, r, Nothing, head, TRUE)
    BY <1>3, <1>6, <1>7, <2>2, ReadBack
  <2> HIDE DEF s
  <2>4. <<>> \o head = head
    BY <1>3
  <2> QED
    BY <1>7, <2>3, <2>4 DEF HasRead, Mirrors, v
<1> HIDE DEF s
<1>9. Near(s, w)
  BY <1>1, <1>2, <1>8 DEF Near
<1>10. t.read = head \o tail
  <2>1. Begins(data, WriteMany(w, tail, TRUE).bytes)
    BY <1>6, BeginsConcat
  <2>2. CanRead(data, s, w, tail, TRUE)
    <3>1. Len(tail) > 0 /\ tail[1] # 0
      BY <1>5
    <3> QED
      BY <1>9, <2>1, <3>1, Zenon DEF CanRead
  <2>3. HasRead(t, s, w, tail, TRUE)
    BY <1>1, <1>5, <1>6, <1>8, <2>2, ReadBack
  <2> HIDE DEF t
  <2> QED
    BY <1>8, <2>3 DEF HasRead
<1>11. ReadMany(data, r, Len(head) + Len(tail), TRUE) = t
  <2>1. Len(tail) \in Nat
    BY <1>5
  <2> QED
    BY <1>3, <1>6, <1>7, <2>1, ReadInParts DEF s
<1> HIDE DEF t
<1>12. Len(head) + Len(tail) = Len(head) + (Len(list) + 1)
  BY <1>5
<1>13. ReadMany(data, r, Len(head) + (Len(list) + 1), TRUE).read = head \o tail
  BY <1>10, <1>11, <1>12
<1> QED
  BY <1>13 DEF data, r, head, tail

-----------------------------------------------------------------------------
(* parse_nalu_info(): the parts of what is read.                           *)

(* The parts of what is parsed.                                            *)
ReservedOf(nalu) == ByteAt(nalu, SizeEnd(nalu) + Len(UUID) + 1)
TlvStart(nalu) == SizeEnd(nalu) + Len(UUID) + 2
TlvSize(nalu) == PayloadSize(nalu) - Len(UUID) - 1
TagOf(nalu) ==
  IF Len(nalu) > TlvSize(nalu)
  THEN FindSignature(nalu, Reader(TlvStart(nalu)), TlvStart(nalu) + TlvSize(nalu),
                     EmulationBytes(nalu) > 0)
  ELSE 0
PlainOf(nalu) == ReadMany(nalu, Reader(1), TlvStart(nalu) + TlvSize(nalu), TRUE).read
PlainTagOf(nalu) ==
  FindSignature(PlainOf(nalu), Reader(TlvStart(nalu)), TlvStart(nalu) + TlvSize(nalu), FALSE)
WithEpb(nalu) == (ReservedOf(nalu) \div 64) % 2 = 1
Rehash(nalu) == EmulationBytes(nalu) > 0 /\ ~WithEpb(nalu)

(* parse_nalu_info() in its parts. *)
LEMMA ParsedIs ==
  ASSUME NEW nalu
  PROVE  Parsed(nalu) =
           [isSigned    |-> TagOf(nalu) # 0,
            certificate |-> ReservedOf(nalu) \div 128 = 1,
            withEpb     |-> WithEpb(nalu),
            hashable    |-> SubSeq(IF Rehash(nalu) THEN PlainOf(nalu) ELSE nalu, 1,
              CASE TagOf(nalu) = 0 -> Len(IF Rehash(nalu) THEN PlainOf(nalu) ELSE nalu)
                [] TagOf(nalu) # 0 /\ Rehash(nalu) -> PlainTagOf(nalu) - 1
                [] OTHER -> TagOf(nalu) - 1),
            tlvs        |-> Slice(IF EmulationBytes(nalu) > 0 THEN PlainOf(nalu) ELSE nalu,
                                  TlvStart(nalu), TlvStart(nalu) + TlvSize(nalu) - 1)]
BY Zenon DEF Parsed, TagOf, ReservedOf, WithEpb, Rehash, PlainOf, PlainTagOf, TlvStart, TlvSize

(* What begins with the head is parsed with its payload size and its flags. *)
Framed(nalu, head, size, flags) ==
  /\ TlvStart(nalu) = Len(head) + 1 /\ TlvSize(nalu) = size - 3
  /\ ReservedOf(nalu) = flags /\ Len(head) \in Nat
  /\ SizeEnd(nalu) = Len(head) - 3 /\ PayloadSize(nalu) = size

(* Where the TLVs start, and how long they are. *)
LEMMA FrameIs ==
  ASSUME NEW size \in Nat, NEW flags \in Nat, NEW nalu \in Seq(Nat),
         Begins(nalu, HeadBytes(size, flags))
  PROVE  Framed(nalu, HeadBytes(size, flags), size, flags)
<1> DEFINE head == HeadBytes(size, flags)
           end == SizeEnd(nalu)
           n == Len(head)
           m == Len(nalu)
<1>1. /\ end = n - 3 /\ end \in Nat \ {0} /\ PayloadSize(nalu) = size
      /\ nalu[end + 3] = flags /\ end + 3 <= m
  BY SizeReadBack
<1>2. n \in Nat
  <2>1. head \in Seq(Nat)
    <3> DEFINE k == size \div SizeUnit
               sized == SizedHead(size)
               both == sized \o UUID
    <3>1. IsHead(k, size, flags, sized, both, head)
      BY HeadIs
    <3> HIDE DEF k, sized, both, head
    <3> QED
      BY <3>1 DEF IsHead
  <2> HIDE DEF head
  <2> QED
    BY <2>1
<1> HIDE DEF head
<1>3. Len(UUID) = 2
  BY DEF UUID
<1>4. ReservedOf(nalu) = ByteAt(nalu, end + 3)
  <2>1. ReservedOf(nalu) = ByteAt(nalu, end + 2 + 1)
    BY <1>3 DEF ReservedOf
  <2> HIDE DEF end
  <2>2. end + 2 + 1 = end + 3
    BY <1>1
  <2> QED
    BY <2>1, <2>2
<1>5. ByteAt(nalu, end + 3) = flags
  <2> HIDE DEF end
  <2> DEFINE i == end + 3
  <2>1. i \in Nat \ {0} /\ i <= Len(nalu) /\ nalu[i] = flags
    BY <1>1
  <2> HIDE DEF i
  <2>2. ByteAt(nalu, i) = flags
    BY <2>1, ByteAtIs
  <2> QED
    BY <2>2 DEF i
<1>6. TlvStart(nalu) = end + 2 + 2 /\ TlvSize(nalu) = size - 2 - 1
  BY <1>1, <1>3 DEF TlvStart, TlvSize
<1> HIDE DEF end, n
<1>7. TlvStart(nalu) = n + 1 /\ TlvSize(nalu) = size - 3
  BY <1>1, <1>2, <1>6
<1> QED
  BY <1>1, <1>2, <1>4, <1>5, <1>7 DEF Framed, n, head, end

(* The flags are told apart. *)
LEMMA FlagsAre ==
  ASSUME Typed, NEW certificate \in BOOLEAN
  PROVE  LET flags == Reserved(certificate)
         IN  /\ flags \in Nat
             /\ flags \div 128 = 1 <=> certificate
             /\ (flags \div 64) % 2 = 1 <=> sei_epb
<1>1. sei_epb \in BOOLEAN
  BY DEF Typed
<1> DEFINE flags == Reserved(certificate)
<1>2. CASE certificate = TRUE /\ sei_epb = TRUE
  <2>1. flags = 192
    BY <1>2 DEF Reserved
  <2>2. 192 \div 128 = 1 /\ (192 \div 64) % 2 = 1
    OBVIOUS
  <2>3. flags \in Nat /\ flags \div 128 = 1 /\ (flags \div 64) % 2 = 1
    BY <2>1, <2>2
  <2> HIDE DEF flags
  <2>4. flags \in Nat /\ (flags \div 128 = 1 <=> certificate)
        /\ ((flags \div 64) % 2 = 1 <=> sei_epb)
    BY <2>3, <1>2, Zenon
  <2> QED
    BY <2>4, Zenon DEF flags
<1>3. CASE certificate = TRUE /\ sei_epb = FALSE
  <2>1. flags = 128
    BY <1>3 DEF Reserved
  <2>2. 128 \div 128 = 1 /\ (128 \div 64) % 2 # 1
    OBVIOUS
  <2>3. flags \in Nat /\ flags \div 128 = 1 /\ (flags \div 64) % 2 # 1
    BY <2>1, <2>2
  <2> HIDE DEF flags
  <2>4. flags \in Nat /\ (flags \div 128 = 1 <=> certificate)
        /\ ((flags \div 64) % 2 = 1 <=> sei_epb)
    BY <2>3, <1>3, Zenon
  <2> QED
    BY <2>4, Zenon DEF flags
<1>4. CASE certificate = FALSE /\ sei_epb = TRUE
  <2>1. flags = 64
    BY <1>4 DEF Reserved
  <2>2. 64 \div 128 # 1 /\ (64 \div 64) % 2 = 1
    OBVIOUS
  <2>3. flags \in Nat /\ flags \div 128 # 1 /\ (flags \div 64) % 2 = 1
    BY <2>1, <2>2
  <2> HIDE DEF flags
  <2>4. flags \in Nat /\ (flags \div 128 = 1 <=> certificate)
        /\ ((flags \div 64) % 2 = 1 <=> sei_epb)
    BY <2>3, <1>4, Zenon
  <2> QED
    BY <2>4, Zenon DEF flags
<1>5. CASE certificate = FALSE /\ sei_epb = FALSE
  <2>1. flags = 0
    BY <1>5 DEF Reserved
  <2>2. 0 \div 128 # 1 /\ (0 \div 64) % 2 # 1
    OBVIOUS
  <2>3. flags \in Nat /\ flags \div 128 # 1 /\ (flags \div 64) % 2 # 1
    BY <2>1, <2>2
  <2> HIDE DEF flags
  <2>4. flags \in Nat /\ (flags \div 128 = 1 <=> certificate)
        /\ ((flags \div 64) % 2 = 1 <=> sei_epb)
    BY <2>3, <1>5, Zenon
  <2> QED
    BY <2>4, Zenon DEF flags
<1> QED
  BY <1>1, <1>2, <1>3, <1>4, <1>5

(* If all that is written needs no emulation prevention its beginning does *)
(* not. *)
LEMMA BeginningAlike ==
  ASSUME NEW w \in Writers, NEW a \in Seq(Nat), NEW b \in Seq(Nat),
         WriteMany(w, a \o b, TRUE) = WriteMany(w, a \o b, FALSE)
  PROVE  WriteMany(w, a, TRUE) = WriteMany(w, a, FALSE)
<1> DEFINE x == WriteMany(w, a, TRUE)
           y == WriteMany(x, b, TRUE)
           old == w.bytes
           both == a \o b
<1>1. both \in Seq(Nat) /\ Len(both) = Len(a) + Len(b) /\ Len(a) \in Nat /\ Len(b) \in Nat
  BY ConcatIs
<1>2. x \in Writers /\ x.bytes \in Seq(Nat) /\ Len(x.bytes) >= Len(old) + Len(a)
      /\ (Len(x.bytes) = Len(old) + Len(a) => x = WriteMany(w, a, FALSE))
  BY EscapesShow, WritingGrows
<1>3. old \in Seq(Nat)
  BY DEF Writers
<1>4. WriteMany(w, both, TRUE) = y
  BY WriteInParts
<1>5. WriteMany(w, both, TRUE) = WriteMany(w, both, FALSE)
  OBVIOUS
<1> HIDE DEF x, both
<1>6. Len(y.bytes) >= Len(x.bytes) + Len(b)
  BY <1>2, WritingGrows
<1>7. y.bytes = old \o both
  BY <1>1, <1>4, <1>5, WritePlain
<1> HIDE DEF y, old
<1>8. Len(y.bytes) = Len(old) + Len(both)
  BY <1>1, <1>3, <1>7, ConcatIs
<1> DEFINE l == Len(x.bytes)
           m == Len(old)
           i == Len(a)
           j == Len(b)
           k == Len(y.bytes)
<1>9. l \in Nat /\ m \in Nat /\ i \in Nat /\ j \in Nat /\ l >= m + i /\ k >= l + j
      /\ k = m + (i + j)
  BY <1>1, <1>2, <1>3, <1>6, <1>8
<1> HIDE DEF l, m, i, j, k
<1>10. l = m + i
  BY <1>9
<1> QED
  BY <1>2, <1>10 DEF l, m, i, x

(* The reader starts where the TLVs do. *)
LEMMA StartIsNear ==
  ASSUME NEW w, NEW head, Fresh(w, head)
  PROVE  Reader(Len(head) + 1) \in Readers /\ Near(Reader(Len(head) + 1), w)
         /\ Len(head) \in Nat
<1>1. w \in Writers /\ w.bytes = head /\ ~(w.last[1] = 0 /\ w.last[2] = 0)
  BY DEF Fresh
<1>2. head \in Seq(Nat)
  BY <1>1 DEF Writers
<1> DEFINE n == Len(head)
<1>3. n \in Nat
  BY <1>2
<1> DEFINE r == Reader(n + 1)
<1>4. r = [at |-> n + 1, last |-> <<1, 1>>, read |-> <<>>]
  BY DEF Reader, LAST_TWO_BYTES_INIT_VALUE
<1> HIDE DEF r, n
<1>5. r \in Readers /\ r.at = n + 1 /\ r.last[1] = 1
  BY <1>3, <1>4 DEF Readers
<1>6. Near(r, w)
  BY <1>1, <1>5 DEF Near, n
<1> QED
  BY <1>3, <1>5, <1>6 DEF r, n

-----------------------------------------------------------------------------
(* The list of TLVs on its way.                                            *)

(* The first byte of a list of TLVs is a tag, and no 0. *)
LEMMA FirstIsTag ==
  ASSUME NEW tlvs \in Seq(Told)
  PROVE  /\ EncodedList(tlvs) \in Seq(Nat)
         /\ Len(EncodedList(tlvs)) > 0 => EncodedList(tlvs)[1] # 0
         /\ Len(tlvs) <= Len(EncodedList(tlvs))
<1> DEFINE n == Len(tlvs)
           list == EncodedList(tlvs)
           none == Listed(tlvs, 0)
<1>1. n \in Nat /\ FALSE \in BOOLEAN
  OBVIOUS
<1>2. /\ \A i \in 0..n : Listed(tlvs, i) \in Seq(Nat) /\ Begins(list, Listed(tlvs, i))
      /\ none = <<>> /\ Listed(tlvs, n) = list
      /\ \A i \in 1..n : /\ tlvs[i] \in Told
                         /\ Listed(tlvs, i) = Listed(tlvs, i - 1) \o Encoded(tlvs[i])
  BY ListedIs
<1>3. list \in Seq(Nat)
  BY <1>1, <1>2
<1>4. n <= Len(list)
  <2>1. Nothing \in Writers /\ Nothing.bytes = <<>>
    BY DEF Nothing, LAST_TWO_BYTES_INIT_VALUE, Writers
  <2> DEFINE bytes == WriteMany(Nothing, list, FALSE).bytes
  <2>2. Len(bytes) >= 3 * n
    BY <1>1, <2>1, WrittenLength
  <2> HIDE DEF list
  <2>3. bytes = <<>> \o list
    BY <1>3, <2>1, WritePlain
  <2>4. <<>> \o list = list
    BY <1>3
  <2>5. bytes = list
    BY <2>3, <2>4
  <2> HIDE DEF bytes, n
  <2>6. Len(list) >= 3 * n /\ Len(list) \in Nat
    BY <1>3, <2>2, <2>5
  <2> QED
    BY <1>1, <2>6
<1> HIDE DEF list, none
<1>5. ASSUME Len(list) > 0 PROVE list[1] # 0
  <2>1. n # 0
    <3> SUFFICES ASSUME n = 0 PROVE FALSE
      OBVIOUS
    <3>1. list = <<>>
      BY <1>2 DEF none
    <3> QED
      BY <1>5, <3>1
  <2> DEFINE tlv == tlvs[1]
             first == Listed(tlvs, 1)
  <2>2. 1 \in 1..n /\ 1 \in 0..n /\ 1 - 1 = 0
    BY <1>1, <2>1
  <2>3. tlv \in Told /\ first = Listed(tlvs, 1 - 1) \o Encoded(tlv) /\ Begins(list, first)
    BY <1>2, <2>2
  <2>4. first = <<>> \o Encoded(tlv)
    BY <1>2, <2>2, <2>3 DEF none
  <2> HIDE DEF tlv, first
  <2>5. <<>> \in Seq(Nat) /\ Begins(list, <<>> \o Encoded(tlv)) /\ Len(<<>>) + 1 = 1
    <3>1. Begins(list, <<>> \o Encoded(tlv))
      BY <2>3, <2>4, Zenon
    <3>2. <<>> \in Seq(Nat) /\ Len(<<>>) + 1 = 1
      OBVIOUS
    <3> QED
      BY <3>1, <3>2, Zenon
  <2>6. list[Len(<<>>) + 1] = tlv.tag
    BY <1>3, <2>3, <2>5, TlvAt
  <2>7. tlv.tag # 0
    BY <2>3 DEF Told
  <2> QED
    BY <2>5, <2>6, <2>7
<1> QED
  BY <1>3, <1>4, <1>5 DEF list

(* What is cut out as the TLVs. *)
LEMMA TlvsCut ==
  ASSUME NEW head \in Seq(Nat), NEW list \in Seq(Nat), NEW tail \in Seq(Nat)
  PROVE  Slice((head \o list) \o tail, Len(head) + 1, Len(head) + 1 + Len(list) - 1) = list
<1> DEFINE n == Len(head)
           m == Len(list)
           both == head \o list
           data == both \o tail
           to == n + 1 + m - 1
<1>1. n \in Nat /\ m \in Nat
  OBVIOUS
<1>2. both \in Seq(Nat) /\ Len(both) = n + m /\ \A i \in 1..m : both[n + i] = list[i]
  BY ConcatIs
<1>3. m = Len(list)
  OBVIOUS
<1> HIDE DEF n, m, both
<1>4. /\ data \in Seq(Nat) /\ Len(data) = Len(both) + Len(tail) /\ Len(tail) \in Nat
      /\ \A i \in 1..Len(both) : data[i] = both[i]
  BY <1>2, ConcatIs
<1> HIDE DEF data
<1>5. to = n + m /\ to \in Nat /\ to <= Len(data) /\ Len(data) \in Nat
  BY <1>1, <1>2, <1>4
<1> HIDE DEF to
<1>6. Min({to, Len(data)}) = to
  BY <1>5, MinIs
<1> DEFINE x == SubSeq(data, n + 1, to)
<1>7. Slice(data, n + 1, to) = x
  BY <1>6, Zenon DEF Slice
<1>8. x \in Seq(Nat) /\ Len(x) = m /\ \A i \in 1..m : x[i] = data[n + i]
  <2>1. n + 1 \in 1..(Len(data) + 1) /\ to \in n..Len(data)
    BY <1>1, <1>5
  <2>2. x \in Seq(Nat) /\ Len(x) = (to - (n + 1)) + 1
        /\ \A i \in 1..Len(x) : x[i] = data[((n + 1) + i) - 1]
    BY ONLY <1>1, <1>4, <1>5, <2>1
  <2> HIDE DEF x
  <2>3. (to - (n + 1)) + 1 = m
    BY <1>1, <1>5
  <2>4. ASSUME NEW i \in 1..m PROVE x[i] = data[n + i]
    <3>1. ((n + 1) + i) - 1 = n + i
      BY <1>1
    <3> QED
      BY <2>2, <2>3, <3>1
  <2> QED
    BY <2>2, <2>3, <2>4
<1> HIDE DEF x
<1>9. ASSUME NEW i \in 1..m PROVE x[i] = list[i]
  <2>1. n + i \in 1..Len(both)
    BY <1>1, <1>2
  <2> QED
    BY <1>2, <1>4, <1>8, <2>1
<1>10. x = list
  BY <1>1, <1>3, <1>8, <1>9, SeqEqual
<1> QED
  BY <1>7, <1>10 DEF data, both, n, m, to

(* Without emulation prevention the parts stand side by side. *)
LEMMA WirePlain ==
  ASSUME NEW w \in Writers, NEW list \in Seq(Nat)
  PROVE  Wire(w, list, FALSE) = (w.bytes \o list) \o Stop
BY WritePlain DEF Wire

(* The place of the signature, written either way. *)
SignedList(tlvs, tlv, list) ==
  /\ tlvs \in Seq(Told) /\ NoSignature(tlvs)
  /\ tlv \in Told /\ tlv.tag = SIGNATURE_TAG
  /\ list = EncodedList(Append(tlvs, tlv))

(* What is in front of the signature is not longer than the list. *)
Room(w, tlvs, list) == Len(WriteMany(w, EncodedList(tlvs), TRUE).bytes) <= Len(list)

(* Such a list is the TLVs before and the signature. *)
LEMMA SignedListIs ==
  ASSUME NEW tlvs, NEW tlv, NEW list, SignedList(tlvs, tlv, list)
  PROVE  /\ Append(tlvs, tlv) \in Seq(Told) /\ EncodedList(tlvs) \in Seq(Nat)
         /\ Encoded(tlv) \in Seq(Nat)
         /\ list = EncodedList(tlvs) \o Encoded(tlv) /\ list \in Seq(Nat)
<1>1. tlvs \in Seq(Told) /\ tlv \in Told /\ list = EncodedList(Append(tlvs, tlv))
  BY DEF SignedList
<1>2. tlvs \in Seq(Tlvs) /\ tlv \in Tlvs /\ Append(tlvs, tlv) \in Seq(Told)
  BY <1>1 DEF Told
<1>3. EncodedList(Append(tlvs, tlv)) = EncodedList(tlvs) \o Encoded(tlv)
  BY <1>2, EncodedListGrows
<1>4. EncodedList(tlvs) \in Seq(Nat)
  BY <1>1, FirstIsTag
<1>5. EncodedList(Append(tlvs, tlv)) \in Seq(Nat)
  BY <1>2, FirstIsTag
<1>6. Encoded(tlv) \in Seq(Nat)
  BY <1>1, EncodedIs
<1> QED
  BY <1>1, <1>2, <1>3, <1>4, <1>5, <1>6

(* The signature is found at its place, with emulation prevention and      *)
(* without. *)
LEMMA SignedFound ==
  ASSUME NEW tlvs, NEW tlv, NEW list, SignedList(tlvs, tlv, list),
         NEW w, NEW head, Fresh(w, head), Len(head) > 0, Room(w, tlvs, list),
         NEW epb \in BOOLEAN
  PROVE  LET before == WriteMany(w, EncodedList(tlvs), epb)
         IN  /\ FindSignature(Wire(w, list, epb), Reader(Len(head) + 1),
                              Len(head) + 1 + Len(list), epb) = Len(before.bytes) + 1
             /\ Begins(Wire(w, list, epb), before.bytes)
             /\ before.bytes \in Seq(Nat) /\ Wire(w, list, epb) \in Seq(Nat)
<1> DEFINE some == EncodedList(tlvs)
           new == Encoded(tlv)
           before == WriteMany(w, some, epb)
           after == WriteMany(before, new, epb)
           data == Wire(w, list, epb)
           r == Reader(Len(head) + 1)
           end == Len(head) + 1 + Len(list)
<1>1. some \in Seq(Nat) /\ new \in Seq(Nat) /\ list = some \o new /\ list \in Seq(Nat)
  BY SignedListIs
<1>2. w \in Writers /\ w.bytes = head
  BY DEF Fresh
<1>3. r \in Readers /\ Near(r, w) /\ Len(head) \in Nat
  BY StartIsNear
<1>4. Len(WriteMany(w, some, TRUE).bytes) <= Len(list)
  BY DEF Room
<1>5. tlvs \in Seq(Told) /\ NoSignature(tlvs) /\ tlv \in Told /\ tlv.tag = SIGNATURE_TAG
  BY DEF SignedList
<1>6. before \in Writers /\ before.bytes \in Seq(Nat)
      /\ Len(before.bytes) <= Len(WriteMany(w, some, TRUE).bytes)
      /\ Len(WriteMany(w, some, TRUE).bytes) \in Nat
  <2> HIDE DEF some
  <2>1. before \in Writers /\ before.bytes \in Seq(Nat)
    BY <1>1, <1>2, WritingGrows
  <2>2. WriteMany(w, some, TRUE).bytes \in Seq(Nat)
        /\ Len(WriteMany(w, some, TRUE).bytes) >= Len(w.bytes) + Len(some)
    BY <1>1, <1>2, WritingGrows
  <2>3. CASE epb = TRUE
    <3>1. before = WriteMany(w, some, TRUE)
      BY <2>3
    <3> HIDE DEF before
    <3> DEFINE n == Len(before.bytes)
    <3>2. n \in Nat /\ n <= n
      BY <2>1
    <3> QED
      BY <2>1, <3>1, <3>2
  <2>4. CASE epb = FALSE
    <3> DEFINE x == WriteMany(w, some, TRUE).bytes
               old == w.bytes
    <3>1. before.bytes = old \o some /\ old \in Seq(Nat)
      BY <1>1, <1>2, <2>4, WritePlain DEF Writers
    <3> HIDE DEF before, x, old
    <3>2. Len(old \o some) = Len(old) + Len(some)
      BY <1>1, <3>1, ConcatIs
    <3>3. x \in Seq(Nat) /\ Len(x) >= Len(old) + Len(some)
      BY <2>2 DEF x, old
    <3>4. Len(before.bytes) = Len(old) + Len(some)
      BY <3>1, <3>2
    <3>5. Len(before.bytes) <= Len(x) /\ Len(x) \in Nat
      BY <3>3, <3>4
    <3> QED
      BY <2>1, <3>5 DEF x
  <2> QED
    BY <2>3, <2>4
<1> HIDE DEF some, new, before, r, data
<1>7. WriteMany(w, list, epb) = after
  BY <1>1, <1>2, WriteInParts DEF before
<1>8. after.bytes \in Seq(Nat) /\ after \in Writers /\ Begins(after.bytes, before.bytes)
  BY <1>1, <1>6, WritingGrows, WritingExtends
<1>9. data = after.bytes \o Stop
  BY <1>7 DEF data, Wire
<1>10. Stop \in Seq(Nat)
  BY <1>2, StopIs
<1> HIDE DEF after
<1>11. data \in Seq(Nat) /\ Begins(data, after.bytes)
  BY <1>8, <1>9, <1>10, ConcatIs, BeginsConcat
<1>12. Begins(data, before.bytes)
  BY <1>6, <1>8, <1>11, BeginsTransitive
<1>13. end \in Nat /\ Len(before.bytes) + 1 < end
  <2> DEFINE a == Len(head)
             b == Len(list)
             c == Len(WriteMany(w, some, TRUE).bytes)
             d == Len(before.bytes)
  <2>1. a \in Nat /\ b \in Nat /\ c \in Nat /\ d \in Nat /\ d <= c /\ c <= b /\ end = a + 1 + b
    <3>1. a \in Nat /\ b \in Nat /\ c \in Nat /\ d \in Nat
      <4>1. d \in Nat /\ b \in Nat
        BY <1>1, <1>6
      <4> QED
        BY <1>3, <1>6, <4>1
    <3>2. d <= c /\ c <= b
      BY <1>4, <1>6
    <3> QED
      BY <3>1, <3>2
  <2>2. a > 0
    OBVIOUS
  <2> HIDE DEF a, b, c, d, end
  <2> QED
    BY <2>1, <2>2 DEF d
<1> HIDE DEF end
<1>14. FindSignature(data, r, end, epb) = Len(before.bytes) + 1
  <2>1. Begins(data, WriteMany(WriteMany(w, some, epb), new, epb).bytes)
    BY <1>11 DEF after, before
  <2>2. Len(WriteMany(w, some, epb).bytes) + 1 < end
    BY <1>13 DEF before
  <2>3. FindSignature(data, r, end, epb) = Len(WriteMany(w, some, epb).bytes) + 1
    BY <1>2, <1>3, <1>5, <1>11, <1>13, <2>1, <2>2, FindsSignature DEF some, new
  <2> QED
    BY <2>3 DEF before
<1> QED
  BY <1>6, <1>11, <1>12, <1>14 DEF data, r, end, before, some

(* In an unsigned SEI no signature is found. *)
LEMMA NoneFound ==
  ASSUME NEW tlvs \in Seq(Told), NoSignature(tlvs),
         NEW w, NEW head, Fresh(w, head), NEW epb \in BOOLEAN
  PROVE  FindSignature(Wire(w, EncodedList(tlvs), epb), Reader(Len(head) + 1),
                       Len(head) + 1 + Len(EncodedList(tlvs)), epb) = 0
<1> DEFINE list == EncodedList(tlvs)
           out == WriteMany(w, list, epb)
           data == Wire(w, list, epb)
           r == Reader(Len(head) + 1)
           end == Len(head) + 1 + Len(list)
<1>1. list \in Seq(Nat) /\ Len(tlvs) <= Len(list)
  BY FirstIsTag
<1>2. w \in Writers /\ w.bytes = head
  BY DEF Fresh
<1>3. r \in Readers /\ Near(r, w) /\ Len(head) \in Nat
  BY StartIsNear
<1> HIDE DEF list, r
<1>4. out \in Writers /\ out.bytes \in Seq(Nat) /\ Len(out.bytes) >= Len(head) + Len(list)
  BY <1>1, <1>2, WritingGrows
<1>5. data = out.bytes \o Stop /\ Stop \in Seq(Nat)
  BY <1>2, StopIs DEF Wire
<1> HIDE DEF out, data
<1>6. data \in Seq(Nat) /\ Begins(data, out.bytes)
  BY <1>4, <1>5, ConcatIs, BeginsConcat
<1>7. end \in Nat /\ Len(tlvs) <= end /\ Len(out.bytes) + 1 >= end
  <2> DEFINE a == Len(head)
             b == Len(list)
             c == Len(out.bytes)
             d == Len(tlvs)
  <2>1. a \in Nat /\ b \in Nat /\ c \in Nat /\ d \in Nat /\ c >= a + b /\ d <= b /\ end = a + 1 + b
    <3>1. b \in Nat /\ c \in Nat /\ d \in Nat
      BY <1>1, <1>4
    <3>2. a \in Nat /\ c >= a + b /\ d <= b
      BY <1>1, <1>3, <1>4
    <3> QED
      BY <3>1, <3>2
  <2> HIDE DEF a, b, c, d, end
  <2>2. end \in Nat /\ d <= end /\ c + 1 >= end
    BY <2>1
  <2> QED
    BY <2>2 DEF c, d
<1> HIDE DEF end
<1>8. FindSignature(data, r, end, epb) = 0
  BY <1>2, <1>3, <1>6, <1>7, FindsNone DEF list, out
<1> QED
  BY <1>8 DEF data, list, r, end

(* A SEI on its way: a head, TLVs, the stop bit. *)
Carries(nalu, w, size, flags, list, epb) ==
  /\ size \in Nat /\ flags \in Nat /\ epb \in BOOLEAN
  /\ list \in Seq(Nat) /\ size = 3 + Len(list) /\ (Len(list) > 0 => list[1] # 0)
  /\ Fresh(w, HeadBytes(size, flags)) /\ nalu = Wire(w, list, epb)

(* What the parts of parse_nalu_info() are for such a NAL Unit. *)
HasParts(nalu, w, head, flags, list, epb) ==
  LET shown == EmulationBytes(nalu) > 0
      plain == Wire(w, list, FALSE)
  IN  /\ nalu \in Seq(Nat) /\ shown \in BOOLEAN /\ (shown => epb) /\ Len(head) > 0
      /\ Wire(w, list, shown) = nalu
      /\ WriteMany(w, list, shown) = WriteMany(w, list, epb)
      /\ ReservedOf(nalu) = flags
      /\ TagOf(nalu)
           = FindSignature(nalu, Reader(Len(head) + 1), Len(head) + 1 + Len(list), shown)
      /\ shown => PlainOf(nalu) = plain
      /\ shown => PlainTagOf(nalu)
           = FindSignature(plain, Reader(Len(head) + 1), Len(head) + 1 + Len(list), FALSE)
      /\ Slice(IF shown THEN PlainOf(nalu) ELSE nalu,
               TlvStart(nalu), TlvStart(nalu) + TlvSize(nalu) - 1) = list

(* They are that. *)
LEMMA PartsAre ==
  ASSUME NEW nalu, NEW w, NEW size, NEW flags, NEW list, NEW epb,
         Carries(nalu, w, size, flags, list, epb)
  PROVE  HasParts(nalu, w, HeadBytes(size, flags), flags, list, epb)
<1> DEFINE head == HeadBytes(size, flags)
           shown == EmulationBytes(nalu) > 0
           plain == Wire(w, list, FALSE)
           bytes == WriteMany(w, list, epb).bytes
<1>1. /\ size \in Nat /\ flags \in Nat /\ epb \in BOOLEAN
      /\ list \in Seq(Nat) /\ size = 3 + Len(list) /\ (Len(list) > 0 => list[1] # 0)
      /\ Fresh(w, head) /\ nalu = Wire(w, list, epb)
  BY DEF Carries
<1>2. w \in Writers /\ w.bytes = head
  BY <1>1 DEF Fresh
<1>3. Shows(nalu, bytes, head, list)
  BY <1>1, WireIs
<1>4. shown \in BOOLEAN /\ (shown => epb) /\ Wire(w, list, shown) = nalu
      /\ WriteMany(w, list, shown) = WriteMany(w, list, epb)
  BY <1>1, WireShows
<1> HIDE DEF shown, bytes
<1>5. nalu \in Seq(Nat) /\ bytes \in Seq(Nat) /\ head \in Seq(Nat) /\ Begins(nalu, head)
      /\ Len(nalu) = Len(bytes) + 1 /\ Len(bytes) >= Len(head) + Len(list)
  BY <1>3 DEF Shows
<1>6. Framed(nalu, head, size, flags)
  BY <1>1, <1>5, FrameIs
<1>7. SizeEnd(nalu) = Len(head) - 3 /\ SizeEnd(nalu) \in Nat \ {0}
  BY <1>1, <1>5, SizeReadBack
<1> HIDE DEF head
<1>8. TlvStart(nalu) = Len(head) + 1 /\ TlvSize(nalu) = Len(list) /\ ReservedOf(nalu) = flags
      /\ Len(head) \in Nat
  BY <1>1, <1>6 DEF Framed
<1>9. Len(head) > 0
  BY <1>7, <1>8
<1>10. Len(nalu) > TlvSize(nalu)
  <2> DEFINE a == Len(head)
             b == Len(list)
             c == Len(bytes)
             d == Len(nalu)
  <2>1. a \in Nat /\ b \in Nat /\ c \in Nat /\ d = c + 1 /\ c >= a + b
    <3>1. b \in Nat /\ c \in Nat
      BY <1>1, <1>5
    <3> QED
      BY <1>5, <1>8, <3>1
  <2> HIDE DEF a, b, c, d
  <2>2. d > b
    BY <2>1
  <2> QED
    BY <1>8, <2>2 DEF b, d
<1>11. TagOf(nalu)
         = FindSignature(nalu, Reader(Len(head) + 1), Len(head) + 1 + Len(list), shown)
  BY <1>8, <1>10, Zenon DEF TagOf, shown
<1>12. plain = (head \o list) \o Stop /\ Stop \in Seq(Nat)
  BY <1>1, <1>2, WirePlain, StopIs
<1>13. ASSUME shown PROVE PlainOf(nalu) = plain
  <2>1. nalu = Wire(w, list, TRUE)
    <3>1. shown = TRUE
      BY <1>13, <1>4
    <3> QED
      BY <1>4, <3>1
  <2>2. ReadMany(nalu, Reader(1), Len(head) + (Len(list) + 1), TRUE).read
          = head \o (list \o Stop)
    <3>1. Fresh(w, HeadBytes(size, flags)) /\ size \in Nat /\ flags \in Nat /\ list \in Seq(Nat)
          /\ (Len(list) > 0 => list[1] # 0)
      BY <1>1 DEF head
    <3>2. ReadMany(Wire(w, list, TRUE), Reader(1),
                   Len(HeadBytes(size, flags)) + (Len(list) + 1), TRUE).read
            = HeadBytes(size, flags) \o (list \o Stop)
      BY ONLY <3>1, PlainReadBack
    <3> QED
      BY <2>1, <3>2, Zenon DEF head
  <2>3. TlvStart(nalu) + TlvSize(nalu) = Len(head) + (Len(list) + 1)
    <3> DEFINE a == Len(head)
               b == Len(list)
    <3>1. a \in Nat /\ b \in Nat /\ TlvStart(nalu) = a + 1 /\ TlvSize(nalu) = b
      BY <1>1, <1>8
    <3> HIDE DEF a, b
    <3>2. TlvStart(nalu) + TlvSize(nalu) = a + (b + 1)
      BY <3>1
    <3> QED
      BY <3>2 DEF a, b
  <2>4. PlainOf(nalu) = head \o (list \o Stop)
    BY <2>2, <2>3 DEF PlainOf
  <2>5. (head \o list) \o Stop = head \o (list \o Stop)
    <3>1. head \in Seq(Nat) /\ list \in Seq(Nat) /\ Stop \in Seq(Nat)
      BY <1>1, <1>5, <1>12
    <3> QED
      BY ONLY <3>1, ConcatAssociative
  <2> QED
    BY <1>12, <2>4, <2>5
<1>14. ASSUME shown
       PROVE  PlainTagOf(nalu)
                = FindSignature(plain, Reader(Len(head) + 1), Len(head) + 1 + Len(list), FALSE)
  BY <1>8, <1>13, <1>14, Zenon DEF PlainTagOf
<1>15. (IF shown THEN PlainOf(nalu) ELSE nalu) = plain
  <2>1. CASE shown = TRUE
    BY <1>13, <2>1
  <2>2. CASE shown = FALSE
    <3>1. Wire(w, list, FALSE) = nalu
      BY <1>4, <2>2
    <3> QED
      BY <2>2, <3>1
  <2> QED
    BY <1>4, <2>1, <2>2
<1>16. Slice(plain, Len(head) + 1, Len(head) + 1 + Len(list) - 1) = list
  <2> HIDE DEF plain
  <2> QED
    BY <1>1, <1>5, <1>12, TlvsCut
<1> HIDE DEF plain
<1>17. Slice(IF shown THEN PlainOf(nalu) ELSE nalu,
             TlvStart(nalu), TlvStart(nalu) + TlvSize(nalu) - 1) = list
  BY <1>8, <1>15, <1>16
<1>18. HasParts(nalu, w, head, flags, list, epb)
  BY <1>4, <1>5, <1>8, <1>9, <1>11, <1>13, <1>14, <1>17, Zenon DEF HasParts, shown, plain
<1> QED
  BY <1>18 DEF head

-----------------------------------------------------------------------------
(* All that is read of a SEI.                                              *)

(* What is told of a NAL Unit by reading it. *)
ReadsAs(nalu, signed, certificate, hashed, tlvs) ==
  LET parsed == Parsed(nalu)
  IN  /\ parsed.isSigned = signed
      /\ parsed.certificate = certificate
      /\ parsed.withEpb = sei_epb
      /\ parsed.hashable = hashed
      /\ Decoded(parsed.tlvs) = tlvs

(* From its parts. *)
LEMMA ReadsFromParts ==
  ASSUME Typed, NEW certificate \in BOOLEAN, NEW nalu, NEW w, NEW size, NEW list, NEW epb,
         Carries(nalu, w, size, Reserved(certificate), list, epb),
         NEW tlvs \in Seq(Told), list = EncodedList(tlvs)
  PROVE  LET rehash == EmulationBytes(nalu) > 0 /\ ~sei_epb
             hashed == IF rehash THEN Wire(w, list, FALSE) ELSE nalu
         IN  /\ TagOf(nalu) = 0 => ReadsAs(nalu, FALSE, certificate,
                                           SubSeq(hashed, 1, Len(hashed)), tlvs)
             /\ TagOf(nalu) # 0 => ReadsAs(nalu, TRUE, certificate,
                  SubSeq(hashed, 1, IF rehash THEN PlainTagOf(nalu) - 1 ELSE TagOf(nalu) - 1),
                  tlvs)
<1> DEFINE flags == Reserved(certificate)
           head == HeadBytes(size, flags)
           tag == TagOf(nalu)
           plainTag == PlainTagOf(nalu)
           plain == PlainOf(nalu)
           shown == EmulationBytes(nalu) > 0
           rehash == shown /\ ~sei_epb
           hashed == IF rehash THEN Wire(w, list, FALSE) ELSE nalu
           isCert == ReservedOf(nalu) \div 128 = 1
           cut == Slice(IF shown THEN plain ELSE nalu,
                        TlvStart(nalu), TlvStart(nalu) + TlvSize(nalu) - 1)
           parsed == Parsed(nalu)
<1>1. HasParts(nalu, w, head, flags, list, epb)
  BY PartsAre
<1> HIDE DEF head
<1>2. shown \in BOOLEAN /\ ReservedOf(nalu) = flags
      /\ (shown => plain = Wire(w, list, FALSE)) /\ cut = list
  BY <1>1, Zenon DEF HasParts
<1>3. flags \in Nat /\ (flags \div 128 = 1 <=> certificate)
      /\ ((flags \div 64) % 2 = 1 <=> sei_epb) /\ sei_epb \in BOOLEAN
  BY FlagsAre DEF Typed
<1> HIDE DEF flags
<1>4. WithEpb(nalu) = sei_epb
  <2>1. WithEpb(nalu) <=> sei_epb
    BY <1>2, <1>3 DEF WithEpb
  <2>2. WithEpb(nalu) \in BOOLEAN
    BY DEF WithEpb
  <2> QED
    BY <1>3, <2>1, <2>2
<1>5. isCert = certificate
  <2>1. isCert <=> certificate
    BY <1>2, <1>3
  <2>2. isCert \in BOOLEAN
    OBVIOUS
  <2> QED
    BY <2>1, <2>2
<1>6. Rehash(nalu) = rehash
  BY <1>4, Zenon DEF Rehash
<1> DEFINE taken == SubSeq(IF rehash THEN plain ELSE nalu, 1,
              CASE tag = 0 -> Len(IF rehash THEN plain ELSE nalu)
                [] tag # 0 /\ rehash -> plainTag - 1
                [] OTHER -> tag - 1)
<1>7. parsed = [isSigned |-> tag # 0, certificate |-> isCert, withEpb |-> WithEpb(nalu),
                hashable |-> taken, tlvs |-> cut]
  <2>1. parsed =
           [isSigned    |-> tag # 0,
            certificate |-> isCert,
            withEpb     |-> WithEpb(nalu),
            hashable    |-> SubSeq(IF Rehash(nalu) THEN plain ELSE nalu, 1,
              CASE tag = 0 -> Len(IF Rehash(nalu) THEN plain ELSE nalu)
                [] tag # 0 /\ Rehash(nalu) -> plainTag - 1
                [] OTHER -> tag - 1),
            tlvs        |-> cut]
    BY ParsedIs
  <2> HIDE DEF tag, isCert, plain, plainTag, cut, rehash, parsed
  <2> QED
    BY <1>6, <2>1
<1> HIDE DEF tag, isCert, plain, plainTag, cut, parsed
<1>8. (IF rehash THEN plain ELSE nalu) = hashed
  BY <1>2
<1> HIDE DEF shown, hashed
<1>9. rehash \in BOOLEAN
  OBVIOUS
<1> HIDE DEF rehash
<1>10. tag = 0 => taken = SubSeq(hashed, 1, Len(hashed))
  BY <1>8
<1>11. tag # 0 => taken = SubSeq(hashed, 1, IF rehash THEN plainTag - 1 ELSE tag - 1)
  <2>1. ASSUME tag # 0, rehash PROVE taken = SubSeq(hashed, 1, plainTag - 1)
    BY <1>8, <2>1
  <2>2. ASSUME tag # 0, ~rehash PROVE taken = SubSeq(hashed, 1, tag - 1)
    BY <1>8, <2>2
  <2> HIDE DEF taken
  <2> QED
    BY <2>1, <2>2
<1> HIDE DEF taken
<1>12. /\ parsed.isSigned = (tag # 0) /\ parsed.certificate = certificate
       /\ parsed.withEpb = sei_epb /\ parsed.hashable = taken /\ parsed.tlvs = list
  BY <1>2, <1>4, <1>5, <1>7
<1>13. Decoded(parsed.tlvs) = tlvs
  BY <1>12, DecodesBack
<1>14. ASSUME tag = 0
       PROVE  ReadsAs(nalu, FALSE, certificate, SubSeq(hashed, 1, Len(hashed)), tlvs)
  BY <1>10, <1>12, <1>13, <1>14 DEF ReadsAs, parsed
<1>15. ASSUME tag # 0
       PROVE  ReadsAs(nalu, TRUE, certificate,
                SubSeq(hashed, 1, IF rehash THEN plainTag - 1 ELSE tag - 1), tlvs)
  BY <1>11, <1>12, <1>13, <1>15 DEF ReadsAs, parsed
<1> QED
  BY <1>14, <1>15, Zenon DEF tag, plainTag, rehash, hashed, shown

(* Cut at its own length data is itself. *)
LEMMA CutWhole ==
  ASSUME NEW data \in Seq(Nat)
  PROVE  SubSeq(data, 1, Len(data)) = data
OBVIOUS

(* An unsigned SEI is read as what was written, and everything is hashed   *)
(* as the signer has it. *)
LEMMA UnsignedRead ==
  ASSUME Typed, NEW certificate \in BOOLEAN, NEW nalu, NEW w, NEW size, NEW list, NEW epb,
         Carries(nalu, w, size, Reserved(certificate), list, epb), sei_epb => epb,
         NEW tlvs \in Seq(Told), NoSignature(tlvs), list = EncodedList(tlvs)
  PROVE  ReadsAs(nalu, FALSE, certificate, Wire(w, list, sei_epb), tlvs)
<1> DEFINE flags == Reserved(certificate)
           head == HeadBytes(size, flags)
           shown == EmulationBytes(nalu) > 0
           rehash == shown /\ ~sei_epb
           hashed == IF rehash THEN Wire(w, list, FALSE) ELSE nalu
<1>1. HasParts(nalu, w, head, flags, list, epb)
  BY PartsAre
<1>2. Fresh(w, head) /\ nalu = Wire(w, list, epb) /\ epb \in BOOLEAN /\ sei_epb \in BOOLEAN
      /\ list \in Seq(Nat)
  BY DEF Carries, Typed
<1> HIDE DEF head
<1>3. /\ nalu \in Seq(Nat) /\ shown \in BOOLEAN /\ (shown => epb)
      /\ Wire(w, list, shown) = nalu
      /\ TagOf(nalu)
           = FindSignature(nalu, Reader(Len(head) + 1), Len(head) + 1 + Len(list), shown)
  BY <1>1, Zenon DEF HasParts
<1>4. FindSignature(Wire(w, list, shown), Reader(Len(head) + 1),
                    Len(head) + 1 + Len(list), shown) = 0
  <2> HIDE DEF shown
  <2> QED
    BY <1>2, <1>3, NoneFound
<1>5. TagOf(nalu) = 0
  BY <1>3, <1>4
<1> HIDE DEF shown
<1>6. hashed = Wire(w, list, sei_epb)
  <2>1. CASE sei_epb = TRUE
    BY <1>2, <2>1
  <2>2. CASE sei_epb = FALSE
    <3>1. CASE shown = TRUE
      BY <2>2, <3>1
    <3>2. CASE shown = FALSE
      BY <1>3, <2>2, <3>2
    <3> QED
      BY <1>3, <3>1, <3>2
  <2> QED
    BY <1>2, <2>1, <2>2
<1>7. hashed \in Seq(Nat)
  <2>1. w \in Writers
    BY <1>2 DEF Fresh
  <2>2. w.bytes \in Seq(Nat) /\ Stop \in Seq(Nat)
    BY <2>1, StopIs DEF Writers
  <2>3. WriteMany(w, list, sei_epb).bytes \in Seq(Nat)
    BY <1>2, <2>1, WritingGrows
  <2> HIDE DEF hashed
  <2>4. Wire(w, list, sei_epb) \in Seq(Nat)
    BY <2>2, <2>3, ConcatIs DEF Wire
  <2> QED
    BY <1>6, <2>4
<1>8. ReadsAs(nalu, FALSE, certificate, SubSeq(hashed, 1, Len(hashed)), tlvs)
  BY <1>5, ReadsFromParts, Zenon DEF shown
<1> HIDE DEF hashed
<1>9. SubSeq(hashed, 1, Len(hashed)) = hashed
  BY <1>7, CutWhole
<1> QED
  BY <1>6, <1>8, <1>9

(* A signed SEI is read as what was written, and hashed up to its          *)
(* signature. *)
LEMMA SignedRead ==
  ASSUME Typed, NEW certificate \in BOOLEAN, NEW nalu, NEW w, NEW size, NEW list, NEW epb,
         Carries(nalu, w, size, Reserved(certificate), list, epb), sei_epb => epb,
         NEW tlvs, NEW tlv, SignedList(tlvs, tlv, list), Room(w, tlvs, list)
  PROVE  ReadsAs(nalu, TRUE, certificate, WriteMany(w, EncodedList(tlvs), sei_epb).bytes,
                 Append(tlvs, tlv))
<1> DEFINE flags == Reserved(certificate)
           head == HeadBytes(size, flags)
           shown == EmulationBytes(nalu) > 0
           rehash == shown /\ ~sei_epb
           hashed == IF rehash THEN Wire(w, list, FALSE) ELSE nalu
           some == EncodedList(tlvs)
           new == Encoded(tlv)
           Before(e) == WriteMany(w, some, e).bytes
           place == IF rehash THEN PlainTagOf(nalu) - 1 ELSE TagOf(nalu) - 1
<1>1. HasParts(nalu, w, head, flags, list, epb)
  BY PartsAre
<1>2. Fresh(w, head) /\ nalu = Wire(w, list, epb) /\ epb \in BOOLEAN /\ sei_epb \in BOOLEAN
      /\ list \in Seq(Nat) /\ w \in Writers
  BY DEF Carries, Typed, Fresh
<1> HIDE DEF head
<1>3. /\ nalu \in Seq(Nat) /\ shown \in BOOLEAN /\ (shown => epb) /\ Len(head) > 0
      /\ Wire(w, list, shown) = nalu
      /\ WriteMany(w, list, shown) = WriteMany(w, list, epb)
      /\ TagOf(nalu)
           = FindSignature(nalu, Reader(Len(head) + 1), Len(head) + 1 + Len(list), shown)
      /\ shown => PlainTagOf(nalu)
           = FindSignature(Wire(w, list, FALSE), Reader(Len(head) + 1),
                           Len(head) + 1 + Len(list), FALSE)
  BY <1>1, Zenon DEF HasParts
<1> HIDE DEF shown
<1>4. some \in Seq(Nat) /\ new \in Seq(Nat) /\ list = some \o new
      /\ Append(tlvs, tlv) \in Seq(Told) /\ list = EncodedList(Append(tlvs, tlv))
  BY SignedListIs DEF SignedList
<1>5. ASSUME NEW e \in BOOLEAN
      PROVE  /\ FindSignature(Wire(w, list, e), Reader(Len(head) + 1),
                              Len(head) + 1 + Len(list), e) = Len(Before(e)) + 1
             /\ Begins(Wire(w, list, e), Before(e))
             /\ Before(e) \in Seq(Nat) /\ Wire(w, list, e) \in Seq(Nat)
  BY <1>2, <1>3, SignedFound
<1>6. TagOf(nalu) = Len(Before(shown)) + 1 /\ Begins(nalu, Before(shown))
      /\ Before(shown) \in Seq(Nat)
  <2>1. /\ FindSignature(Wire(w, list, shown), Reader(Len(head) + 1),
                         Len(head) + 1 + Len(list), shown) = Len(Before(shown)) + 1
        /\ Begins(Wire(w, list, shown), Before(shown)) /\ Before(shown) \in Seq(Nat)
    <3> HIDE DEF Before
    <3> QED
      BY <1>3, <1>5
  <2> HIDE DEF Before
  <2> QED
    BY <1>3, <2>1
<1>7. SubSeq(hashed, 1, place) = Before(sei_epb)
  <2>1. CASE rehash
    <3>1. shown = TRUE /\ sei_epb = FALSE /\ FALSE \in BOOLEAN
      BY <1>2, <1>3, <2>1
    <3>2. PlainTagOf(nalu) = Len(Before(FALSE)) + 1 /\ Begins(Wire(w, list, FALSE), Before(FALSE))
          /\ Before(FALSE) \in Seq(Nat) /\ Wire(w, list, FALSE) \in Seq(Nat)
      BY <1>3, <1>5, <3>1
    <3> DEFINE x == Before(FALSE)
               data == Wire(w, list, FALSE)
    <3>3. hashed = data /\ place = PlainTagOf(nalu) - 1 /\ Before(sei_epb) = x
      BY <2>1, <3>1
    <3>4. PlainTagOf(nalu) = Len(x) + 1 /\ Begins(data, x) /\ x \in Seq(Nat) /\ data \in Seq(Nat)
      BY <3>2
    <3> HIDE DEF x, data, hashed, place, Before
    <3>5. place = Len(x)
      <4>1. Len(x) \in Nat
        BY <3>4
      <4> QED
        BY <3>3, <3>4, <4>1
    <3>6. SubSeq(data, 1, Len(x)) = x
      BY <3>4, BeginsIsCut
    <3> QED
      BY <3>3, <3>5, <3>6
  <2>2. CASE ~rehash
    <3>1. hashed = nalu /\ place = TagOf(nalu) - 1
      BY <2>2
    <3> DEFINE x == Before(shown)
    <3>2. TagOf(nalu) = Len(x) + 1 /\ Begins(nalu, x) /\ x \in Seq(Nat)
      BY <1>6
    <3>3. x = Before(sei_epb)
      <4>1. CASE shown = sei_epb
        BY <4>1
      <4>2. CASE shown = FALSE /\ sei_epb = TRUE
        <5>1. epb = TRUE
          BY <1>2, <4>2
        <5>2. WriteMany(w, list, TRUE) = WriteMany(w, list, FALSE)
          BY <1>3, <4>2, <5>1
        <5>3. WriteMany(w, some \o new, TRUE) = WriteMany(w, some \o new, FALSE)
          BY <1>4, <5>2
        <5> HIDE DEF some, new
        <5>4. WriteMany(w, some, TRUE) = WriteMany(w, some, FALSE)
          BY <1>2, <1>4, <5>3, BeginningAlike
        <5> QED
          BY <4>2, <5>4
      <4>3. shown = sei_epb \/ (shown = FALSE /\ sei_epb = TRUE)
        BY <1>2, <1>3, <2>2
      <4> QED
        BY <4>1, <4>2, <4>3
    <3> HIDE DEF x, hashed, place, Before
    <3>5. place = Len(x)
      <4>1. Len(x) \in Nat
        BY <3>2
      <4> QED
        BY <3>1, <3>2, <4>1
    <3>6. SubSeq(nalu, 1, Len(x)) = x
      BY <1>3, <3>2, BeginsIsCut
    <3> QED
      BY <3>1, <3>3, <3>5, <3>6
  <2> QED
    BY <2>1, <2>2
<1>8. TagOf(nalu) # 0
  <2> DEFINE x == Before(shown)
  <2>1. TagOf(nalu) = Len(x) + 1 /\ x \in Seq(Nat)
    BY <1>6
  <2> HIDE DEF x
  <2> QED
    BY <2>1
<1>9. ReadsAs(nalu, TRUE, certificate, SubSeq(hashed, 1, place), Append(tlvs, tlv))
  <2> DEFINE all == Append(tlvs, tlv)
  <2>1. all \in Seq(Told) /\ list = EncodedList(all)
    BY <1>4
  <2> HIDE DEF all
  <2>2. ReadsAs(nalu, TRUE, certificate, SubSeq(hashed, 1, place), all)
    BY <1>8, <2>1, ReadsFromParts, Zenon DEF shown
  <2> QED
    BY <2>2 DEF all
<1> QED
  BY <1>7, <1>9

(* A SEI that waits is taken for one without a signature, and all of it is *)
(* hashed. *)
LEMMA WaitingHashed ==
  ASSUME NEW size \in Nat, NEW flags \in Nat, NEW nalu \in Seq(Nat),
         Begins(nalu, HeadBytes(size, flags)), Len(nalu) <= size - 3
  PROVE  Parsed(nalu).hashable = nalu
<1> DEFINE n == Len(nalu)
           head == HeadBytes(size, flags)
           end == SizeEnd(nalu)
           paid == PayloadSize(nalu)
           more == IF Last(nalu) = STOP_BYTE_VALUE THEN 1 ELSE 0
           taken == SubSeq(IF Rehash(nalu) THEN PlainOf(nalu) ELSE nalu, 1,
              CASE TagOf(nalu) = 0 -> Len(IF Rehash(nalu) THEN PlainOf(nalu) ELSE nalu)
                [] TagOf(nalu) # 0 /\ Rehash(nalu) -> PlainTagOf(nalu) - 1
                [] OTHER -> TagOf(nalu) - 1)
<1>1. Framed(nalu, head, size, flags)
  BY FrameIs
<1>2. end \in Nat \ {0} /\ paid = size
  BY SizeReadBack
<1> HIDE DEF head
<1>3. TlvSize(nalu) = size - 3
  BY <1>1 DEF Framed
<1>4. n \in Nat /\ n <= size - 3
  OBVIOUS
<1>5. EmulationBytes(nalu) = n - end - paid - more
  BY DEF EmulationBytes
<1>6. more \in Nat
  OBVIOUS
<1> HIDE DEF n, end, paid, more
<1>7. ~(EmulationBytes(nalu) > 0)
  BY <1>2, <1>4, <1>5, <1>6
<1>8. ~(n > TlvSize(nalu))
  BY <1>3, <1>4
<1>9. TagOf(nalu) = 0
  BY <1>8, Zenon DEF TagOf, n
<1>10. Rehash(nalu) = FALSE
  BY <1>7, Zenon DEF Rehash
<1>11. Parsed(nalu).hashable = taken
  BY ParsedIs
<1>12. taken = SubSeq(nalu, 1, Len(nalu))
  BY <1>9, <1>10
<1> HIDE DEF taken
<1> QED
  BY <1>11, <1>12, CutWhole

-----------------------------------------------------------------------------
(* What is known of documents and signatures.                              *)

(* Documents can be told, and have no signature of their own. *)
LEMMA DocumentTold ==
  ASSUME NEW document \in Documents \cup NextDocuments
  PROVE  document.tlvs \in Seq(Told) /\ NoSignature(document.tlvs)
<1> DEFINE Allowed == [tag : Bytes \ {UNDEFINED_TAG, SIGNATURE_TAG}, value : Seq(Bytes) \ {<<>>}]
           tlvs == document.tlvs
<1>1. tlvs \in Seq(Allowed) /\ \A i \in DOMAIN tlvs : Len(tlvs[i].value) < LengthRange
  BY BytesAssumption
<1>2. tlvs \in Seq(Tlvs)
  BY DocumentTyped
<1> HIDE DEF tlvs
<1>3. tlvs \in [1..Len(tlvs) -> Allowed] /\ Len(tlvs) \in Nat /\ DOMAIN tlvs = 1..Len(tlvs)
  <2>1. tlvs \in Seq(Allowed)
    BY <1>1
  <2> HIDE DEF Allowed
  <2> QED
    BY ONLY <2>1
<1>4. ASSUME NEW i \in 1..Len(tlvs)
      PROVE  tlvs[i] \in Told /\ tlvs[i].tag # SIGNATURE_TAG
  <2> DEFINE tlv == tlvs[i]
  <2>1. tlv \in Allowed /\ tlv \in Tlvs /\ Len(tlv.value) < LengthRange
    BY <1>1, <1>2, <1>3
  <2> HIDE DEF tlv
  <2>2. tlv.tag # 0 /\ tlv.tag # SIGNATURE_TAG
    BY <2>1 DEF UNDEFINED_TAG
  <2> QED
    BY <2>1, <2>2 DEF Told, tlv
<1>5. tlvs \in [1..Len(tlvs) -> Told]
  <2> HIDE DEF Allowed
  <2> QED
    BY <1>3, <1>4
<1>6. tlvs \in Seq(Told)
  BY <1>3, <1>5
<1> QED
  BY <1>4, <1>6 DEF NoSignature, tlvs

(* A signature can be told, and has the size that was allocated for it. *)
LEMMA SignatureTold ==
  ASSUME NEW signature \in Signatures
  PROVE  /\ SignatureTlv(signature) \in Told
         /\ SignatureTlv(signature).tag = SIGNATURE_TAG
         /\ Len(SignatureTlv(signature).value) = 3 + MaxSignatureSize
<1> DEFINE tlv == SignatureTlv(signature)
           head == <<1, 0, Len(signature)>>
           rest == [i \in 1..(MaxSignatureSize - Len(signature)) |-> 1]
<1>1. tlv \in Tlvs
  BY SignatureTlvTyped
<1>2. signature \in Seq(Bytes) /\ Len(signature) \in 1..MaxSignatureSize
      /\ MaxSignatureSize \in Nat /\ 3 + MaxSignatureSize < LengthRange
  BY BytesAssumption
<1>3. tlv.tag = SIGNATURE_TAG /\ tlv.value = (head \o signature) \o rest
  BY DEF SignatureTlv
<1>4. head \in Seq(Nat) /\ Len(head) = 3
  BY <1>2
<1>5. signature \in Seq(Nat)
  <2>1. signature \in Seq(Bytes)
    BY <1>2
  <2>2. signature \in [1..Len(signature) -> Bytes] /\ Len(signature) \in Nat
    BY ONLY <2>1
  <2>3. Bytes \subseteq Nat
    BY DEF Bytes
  <2>4. signature \in [1..Len(signature) -> Nat]
    BY ONLY <2>2, <2>3
  <2> QED
    BY ONLY <2>2, <2>4
<1>6. rest \in Seq(Nat) /\ Len(rest) = MaxSignatureSize - Len(signature)
  <2>1. MaxSignatureSize - Len(signature) \in Nat
    BY <1>2
  <2> QED
    BY <2>1
<1> HIDE DEF head, rest, tlv
<1>7. head \o signature \in Seq(Nat) /\ Len(head \o signature) = 3 + Len(signature)
  <2>1. head \o signature \in Seq(Nat) /\ Len(head \o signature) = Len(head) + Len(signature)
    BY <1>4, <1>5, ConcatIs
  <2> QED
    BY <1>4, <2>1
<1> DEFINE both == head \o signature
<1>8. Len(both \o rest) = Len(both) + Len(rest)
  <2> HIDE DEF both
  <2>1. both \in Seq(Nat)
    BY <1>7 DEF both
  <2> QED
    BY <1>6, <2>1, ConcatIs
<1>9. Len(tlv.value) = 3 + MaxSignatureSize
  <2>1. Len(both) = 3 + Len(signature) /\ tlv.value = both \o rest
    BY <1>3, <1>7
  <2> HIDE DEF both
  <2> DEFINE m == Len(signature)
  <2>2. m \in Nat /\ Len(rest) = MaxSignatureSize - m /\ Len(both) = 3 + m
        /\ Len(tlv.value) = Len(both) + Len(rest) /\ MaxSignatureSize \in Nat
    BY <1>2, <1>6, <1>8, <2>1
  <2> HIDE DEF m
  <2> QED
    BY ONLY <2>2
<1>10. tlv.tag # 0
  BY <1>3 DEF SIGNATURE_TAG
<1> QED
  BY <1>1, <1>2, <1>3, <1>9, <1>10 DEF Told, tlv

(* The payload size of a SEI that waits is that of the complete one. *)
LEMMA SizesAre ==
  ASSUME NEW tlvs \in Seq(Told), NEW signature \in Signatures
  PROVE  /\ SizeOf(tlvs, TRUE)
              = 3 + Len(EncodedList(Append(tlvs, SignatureTlv(signature))))
         /\ Len(EncodedList(Append(tlvs, SignatureTlv(signature)))) \in Nat
<1> DEFINE tlv == SignatureTlv(signature)
           list == EncodedList(tlvs)
           new == Encoded(tlv)
<1>1. tlv \in Told /\ Len(tlv.value) = 3 + MaxSignatureSize
  BY SignatureTold
<1> HIDE DEF tlv
<1>2. tlvs \in Seq(Tlvs)
  BY DEF Told
<1>3. EncodedList(Append(tlvs, tlv)) = list \o new
  BY <1>1, <1>2, EncodedListGrows DEF Told
<1>4. list \in Seq(Nat)
  BY <1>2, EncodedListTyped
<1>5. new \in Seq(Nat) /\ Len(new) = 3 + Len(tlv.value)
  BY <1>1, EncodedIs
<1>6. SizeOf(tlvs, TRUE) = 2 + 1 + Len(list) + (6 + MaxSignatureSize)
  <2>1. Len(UUID) = 2
    BY DEF UUID
  <2> QED
    BY <2>1 DEF SizeOf
<1> HIDE DEF list, new
<1>7. Len(list \o new) = Len(list) + Len(new) /\ Len(list) \in Nat
  BY <1>4, <1>5, ConcatIs
<1>8. MaxSignatureSize \in Nat
  BY BytesAssumption
<1>9. 3 + Len(list \o new) = SizeOf(tlvs, TRUE) /\ Len(list \o new) \in Nat
  <2> DEFINE m == Len(new)
             n == Len(list)
             size == SizeOf(tlvs, TRUE)
             total == Len(list \o new)
  <2>1. m = 3 + (3 + MaxSignatureSize) /\ size = 2 + 1 + n + (6 + MaxSignatureSize)
        /\ total = n + m /\ n \in Nat /\ MaxSignatureSize \in Nat
    BY <1>1, <1>5, <1>6, <1>7, <1>8
  <2> HIDE DEF m, n, size, total
  <2>2. 3 + total = size /\ total \in Nat
    BY ONLY <2>1
  <2> QED
    BY <2>2 DEF size, total
<1> QED
  BY <1>3, <1>9 DEF tlv

(* The payload size of a SEI without a signature. *)
LEMMA SizeIs ==
  ASSUME NEW tlvs \in Seq(Told), NEW signed \in BOOLEAN
  PROVE  /\ SizeOf(tlvs, signed) \in Nat
         /\ ~signed => SizeOf(tlvs, signed) = 3 + Len(EncodedList(tlvs))
<1>1. EncodedList(tlvs) \in Seq(Nat)
  BY FirstIsTag
<1>2. Len(EncodedList(tlvs)) \in Nat /\ MaxSignatureSize \in Nat /\ Len(UUID) = 2
  BY <1>1, BytesAssumption DEF UUID
<1> QED
  BY <1>2 DEF SizeOf

-----------------------------------------------------------------------------

(* The flags as a function of the setting, which no step changes. *)
FlagsOf(certificate, epb) == (IF certificate THEN 128 ELSE 0) + (IF epb THEN 64 ELSE 0)

(* They are the flags of the code. *)
LEMMA FlagsOfIs ==
  ASSUME NEW certificate \in BOOLEAN, NEW epb \in BOOLEAN
  PROVE  FlagsOf(certificate, epb) \in Nat
         /\ (epb = sei_epb => FlagsOf(certificate, epb) = Reserved(certificate))
BY DEF FlagsOf, Reserved

(* A SEI was written by writer w from its head on, from tlvs and, once     *)
(* complete, a signature behind them. *)
WrittenFrom(sei, epb, w, tlvs) ==
  /\ tlvs \in Seq(Told) /\ NoSignature(tlvs)
  /\ Fresh(w, HeadBytes(SizeOf(tlvs, sei.signed), FlagsOf(sei.certificate, epb)))
  /\ sei.signed =>
       /\ [bytes |-> sei.bytes, last |-> sei.last] = WriteMany(w, EncodedList(tlvs), epb)
       /\ IF Complete(sei)
          THEN \E signature \in Signatures :
                 /\ sei.tlvs = Append(tlvs, SignatureTlv(signature))
                 /\ sei.completed = Wire(w, EncodedList(sei.tlvs), epb)
          ELSE sei.tlvs = tlvs
  /\ ~sei.signed =>
       /\ sei.tlvs = tlvs /\ Complete(sei)
       /\ sei.completed = sei.bytes /\ sei.bytes = Wire(w, EncodedList(tlvs), epb)

(* The invariant, of one SEI and of all. *)
AsWritten(sei, epb) == \E w, tlvs : WrittenFrom(sei, epb, w, tlvs)

AllAsWritten(all, epb) == \A i \in DOMAIN all : AsWritten(all[i], epb)

(* A NAL Unit ends with the stop bit. *)
LEMMA WireTyped ==
  ASSUME NEW w \in Writers, NEW list \in Seq(Nat), NEW epb \in BOOLEAN
  PROVE  /\ Wire(w, list, epb) \in Seq(Nat) /\ Wire(w, list, epb) # <<>>
         /\ Wire(w, list, epb) = WithStopBit(WriteMany(w, list, epb)).bytes
         /\ Len(Wire(w, list, epb)) \in Nat \ {0}
         /\ Wire(w, list, epb)[Len(Wire(w, list, epb))] = STOP_BYTE_VALUE
<1> DEFINE v == WriteMany(w, list, epb)
<1>1. v \in Writers /\ v.bytes \in Seq(Nat)
  BY WritingGrows
<1>2. Wire(w, list, epb) = v.bytes \o Stop
  BY Zenon DEF Wire
<1> HIDE DEF v
<1>3. Stop \in Seq(Nat) /\ Len(Stop) = 1 /\ Stop[1] = 128 /\ WithStopBit(v).bytes = v.bytes \o Stop
  BY <1>1, StopIs
<1> DEFINE bytes == v.bytes
           data == bytes \o Stop
<1>4. data \in Seq(Nat) /\ Len(data) = Len(bytes) + Len(Stop) /\ Len(bytes) \in Nat
      /\ \A i \in 1..Len(Stop) : data[Len(bytes) + i] = Stop[i]
  <2> HIDE DEF bytes
  <2>1. bytes \in Seq(Nat)
    BY <1>1 DEF bytes
  <2> QED
    BY <1>3, <2>1, ConcatIs
<1>5. data = Wire(w, list, epb) /\ data = WithStopBit(v).bytes
  BY <1>2, <1>3
<1> HIDE DEF data, bytes
<1>6. Len(data) = Len(bytes) + 1
  BY <1>3, <1>4
<1>7. 1 \in 1..Len(Stop) /\ data[Len(bytes) + 1] = 128
  BY <1>3, <1>4
<1>8. data # <<>> /\ Len(data) \in Nat \ {0} /\ data[Len(data)] = 128
  BY <1>4, <1>6, <1>7
<1> QED
  BY <1>4, <1>5, <1>8, Zenon DEF v, STOP_BYTE_VALUE

-----------------------------------------------------------------------------
(* The steps of the signer.                                                *)

(* A SEI that is begun, or complete at once, is as it was written; the     *)
(* others stay as they are. *)
LEMMA GenerateWrites ==
  ASSUME Typed, AllAsWritten(seis, sei_epb),
         NEW document \in Documents \cup NextDocuments, NEW signed \in BOOLEAN,
         GenerateSei(document, signed)
  PROVE  AllAsWritten(seis', sei_epb')
<1> DEFINE tlvs    == document.tlvs
           certificate == document.certificate
           written == Begun(tlvs, certificate, signed)
           end     == IF signed THEN written ELSE WithStopBit(written)
           sei     == [bytes |-> end.bytes, last |-> end.last,
                       completed |-> IF signed THEN <<>> ELSE end.bytes,
                       tlvs |-> tlvs, certificate |-> certificate, signed |-> signed]
           size    == SizeOf(tlvs, signed)
           flags   == FlagsOf(certificate, sei_epb)
           head    == HeadBytes(size, flags)
           list    == EncodedList(tlvs)
<1>1. certificate \in BOOLEAN /\ tlvs \in Seq(Tlvs)
  BY DocumentTyped
<1>2. tlvs \in Seq(Told) /\ NoSignature(tlvs)
  BY DocumentTold
<1>3. seis' = Append(seis, sei) /\ sei_epb' = sei_epb
  BY Zenon DEF GenerateSei
<1> HIDE DEF tlvs, certificate
<1>4. sei_epb \in BOOLEAN /\ seis \in Seq(SeiRecords)
  BY DEF Typed
<1>5. flags = Reserved(certificate) /\ flags \in Nat
  BY <1>1, <1>4, FlagsOfIs
<1>6. PICK w : Fresh(w, head) /\ written = WriteMany(w, list, sei_epb)
  <2>1. \E w : /\ Fresh(w, HeadOfSei(tlvs, certificate, signed))
               /\ Begun(tlvs, certificate, signed) = WriteMany(w, EncodedList(tlvs), sei_epb)
    BY <1>1, BegunIs
  <2>2. HeadOfSei(tlvs, certificate, signed) = head
    BY <1>5, Zenon DEF HeadOfSei
  <2> HIDE DEF head
  <2> QED
    BY <2>1, <2>2
<1> HIDE DEF head
<1>7. list \in Seq(Nat)
  BY <1>2, FirstIsTag
<1>8. w \in Writers /\ WriteMany(w, list, sei_epb) \in Writers
  BY <1>4, <1>6, <1>7, WritingGrows DEF Fresh
<1> HIDE DEF written, list
<1>9. WrittenFrom(sei, sei_epb, w, tlvs)
  <2>1. Fresh(w, HeadBytes(SizeOf(tlvs, sei.signed), FlagsOf(sei.certificate, sei_epb)))
    <3>1. sei.signed = signed /\ sei.certificate = certificate
      OBVIOUS
    <3> HIDE DEF sei
    <3> QED
      BY <1>6, <3>1 DEF head
  <2>2. ASSUME signed
        PROVE  /\ sei.signed /\ ~Complete(sei) /\ sei.tlvs = tlvs
               /\ [bytes |-> sei.bytes, last |-> sei.last] = WriteMany(w, list, sei_epb)
    <3>1. sei.bytes = written.bytes /\ sei.last = written.last /\ sei.completed = <<>>
          /\ sei.tlvs = tlvs /\ sei.signed
      BY <2>2
    <3> HIDE DEF sei
    <3>2. written = [bytes |-> written.bytes, last |-> written.last]
      BY <1>6, <1>8 DEF Writers
    <3> QED
      BY <1>6, <3>1, <3>2 DEF Complete
  <2>3. ASSUME ~signed
        PROVE  /\ ~sei.signed /\ sei.tlvs = tlvs /\ Complete(sei)
               /\ sei.completed = sei.bytes /\ sei.bytes = Wire(w, list, sei_epb)
    <3>1. sei.bytes = WithStopBit(written).bytes /\ sei.completed = sei.bytes
          /\ sei.tlvs = tlvs /\ ~sei.signed
      BY <2>3
    <3> HIDE DEF sei
    <3>2. Wire(w, list, sei_epb) = WithStopBit(written).bytes /\ Wire(w, list, sei_epb) # <<>>
      BY <1>4, <1>6, <1>7, <1>8, WireTyped
    <3> QED
      BY <3>1, <3>2 DEF Complete
  <2> HIDE DEF sei
  <2>4. CASE signed
    BY <1>2, <2>1, <2>2, <2>4 DEF WrittenFrom, list
  <2>5. CASE ~signed
    BY <1>2, <2>1, <2>3, <2>5 DEF WrittenFrom, list
  <2> QED
    BY <2>4, <2>5
<1> HIDE DEF sei
<1>10. AsWritten(sei, sei_epb)
  BY <1>9, Zenon DEF AsWritten
<1>11. ASSUME NEW i \in DOMAIN seis'
       PROVE  AsWritten(seis'[i], sei_epb)
  <2>1. DOMAIN seis' = 1..(Len(seis) + 1)
        /\ seis'[Len(seis) + 1] = sei /\ \A j \in DOMAIN seis : seis'[j] = seis[j]
    BY <1>3, <1>4
  <2>2. i = Len(seis) + 1 \/ i \in DOMAIN seis
    BY <1>4, <2>1
  <2> QED
    BY <1>10, <2>1, <2>2 DEF AllAsWritten
<1> QED
  BY <1>3, <1>11 DEF AllAsWritten

(* The SEI that gets its signature is as if it had not waited: its writer  *)
(* goes on where it has stopped, whatever was written since. *)
LEMMA CompleteWrites ==
  ASSUME Typed, AllAsWritten(seis, sei_epb),
         NEW signature \in Signatures, CompleteSei(signature)
  PROVE  AllAsWritten(seis', sei_epb')
<1>1. PICK i \in DOMAIN seis :
        LET w == WithSignature([bytes |-> seis[i].bytes, last |-> seis[i].last], signature)
        IN  /\ ~Complete(seis[i])
            /\ seis' = [seis EXCEPT ![i].completed = w.bytes,
                                    ![i].tlvs = Append(@, SignatureTlv(signature))]
            /\ sei_epb' = sei_epb
  BY Zenon DEF CompleteSei
<1> DEFINE begun == [bytes |-> seis[i].bytes, last |-> seis[i].last]
           end == WithSignature(begun, signature)
           tlv == SignatureTlv(signature)
           new == Append(seis[i].tlvs, tlv)
           sei == [seis[i] EXCEPT !.completed = end.bytes, !.tlvs = new]
<1>2. sei_epb \in BOOLEAN /\ seis \in Seq(SeiRecords) /\ seis[i] \in SeiRecords
  BY DEF Typed
<1>3. seis' = [seis EXCEPT ![i] = sei] /\ sei_epb' = sei_epb
  BY <1>1, <1>2
<1>4. PICK w, tlvs : WrittenFrom(seis[i], sei_epb, w, tlvs)
  BY Zenon DEF AllAsWritten, AsWritten
<1> DEFINE list == EncodedList(tlvs)
<1>5. /\ tlvs \in Seq(Told) /\ NoSignature(tlvs)
      /\ Fresh(w, HeadBytes(SizeOf(tlvs, seis[i].signed), FlagsOf(seis[i].certificate, sei_epb)))
      /\ seis[i].signed /\ begun = WriteMany(w, list, sei_epb) /\ seis[i].tlvs = tlvs
  BY <1>1, <1>4, Zenon DEF WrittenFrom
<1> HIDE DEF begun
<1>6. tlv \in Told
  BY SignatureTold
<1>7. w \in Writers
  BY <1>5 DEF Fresh
<1>8. list \in Seq(Nat) /\ Encoded(tlv) \in Seq(Nat)
  <2>1. list \in Seq(Nat)
    BY <1>5, FirstIsTag
  <2> HIDE DEF tlv
  <2> QED
    BY <1>6, <2>1, EncodedIs
<1>9. EncodedList(new) = list \o Encoded(tlv)
  <2> HIDE DEF tlv
  <2>1. tlvs \in Seq(Tlvs) /\ tlv \in Tlvs
    BY <1>5, <1>6 DEF Told
  <2> QED
    BY <1>5, <2>1, EncodedListGrows
<1>10. end.bytes = Wire(w, EncodedList(new), sei_epb)
  <2> DEFINE all == list \o Encoded(tlv)
  <2>1. end = WithStopBit(WriteMany(begun, Encoded(tlv), sei_epb))
    BY Zenon DEF WithSignature
  <2> HIDE DEF tlv, list
  <2>2. WriteMany(w, all, sei_epb) = WriteMany(begun, Encoded(tlv), sei_epb)
    BY <1>2, <1>5, <1>7, <1>8, WriteInParts
  <2>3. all \in Seq(Nat)
    BY <1>8, ConcatIs
  <2> HIDE DEF all
  <2>4. Wire(w, all, sei_epb) = WithStopBit(WriteMany(w, all, sei_epb)).bytes
    BY <1>2, <1>7, <2>3, WireTyped
  <2> QED
    BY <1>9, <2>1, <2>2, <2>4 DEF all
<1>11. Wire(w, EncodedList(new), sei_epb) # <<>>
  <2> DEFINE all == list \o Encoded(tlv)
  <2> HIDE DEF tlv, list
  <2>1. all \in Seq(Nat)
    BY <1>8, ConcatIs
  <2> HIDE DEF all
  <2>2. Wire(w, all, sei_epb) # <<>>
    BY <1>2, <1>7, <2>1, WireTyped
  <2> QED
    BY <1>9, <2>2 DEF all
<1>12. /\ sei.signed = seis[i].signed /\ sei.certificate = seis[i].certificate
       /\ sei.bytes = seis[i].bytes /\ sei.last = seis[i].last
       /\ sei.completed = end.bytes /\ sei.tlvs = new
  BY <1>2 DEF SeiRecords
<1> HIDE DEF end, sei
<1>13. WrittenFrom(sei, sei_epb, w, tlvs)
  <2>1. Complete(sei)
    BY <1>10, <1>11, <1>12 DEF Complete
  <2>2. sei.tlvs = Append(tlvs, SignatureTlv(signature))
        /\ sei.completed = Wire(w, EncodedList(sei.tlvs), sei_epb)
    BY <1>5, <1>10, <1>12
  <2>3. [bytes |-> sei.bytes, last |-> sei.last] = WriteMany(w, EncodedList(tlvs), sei_epb)
    BY <1>5, <1>12 DEF begun
  <2> QED
    BY <1>5, <1>12, <2>1, <2>2, <2>3, Zenon DEF WrittenFrom
<1>14. AsWritten(sei, sei_epb)
  BY <1>13, Zenon DEF AsWritten
<1>15. ASSUME NEW j \in DOMAIN seis'
       PROVE  AsWritten(seis'[j], sei_epb)
  <2>1. DOMAIN seis' = DOMAIN seis /\ seis'[i] = sei
        /\ \A k \in DOMAIN seis : k # i => seis'[k] = seis[k]
    BY <1>2, <1>3
  <2> QED
    BY <1>14, <2>1 DEF AllAsWritten
<1> QED
  BY <1>3, <1>15 DEF AllAsWritten

-----------------------------------------------------------------------------
(* On the way.                                                             *)

(* A zero that a container has added is taken away, and nothing else. *)
LEMMA TrimIs ==
  ASSUME NEW data \in Seq(Nat), Len(data) > 0, data[Len(data)] # 0, NEW zero \in BOOLEAN
  PROVE  Trimmed(data \o (IF zero THEN <<0>> ELSE <<>>)) = data
<1> DEFINE n == Len(data)
           tail == IF zero THEN <<0>> ELSE <<>>
           nalu == data \o tail
           IsEnd(i) == nalu[i] # 0 /\ (\A j \in (i + 1)..Len(nalu) : nalu[j] = 0)
           end == CHOOSE i \in 1..Len(nalu) : IsEnd(i)
<1>1. tail \in Seq(Nat) /\ (Len(tail) = 0 \/ (Len(tail) = 1 /\ tail[1] = 0))
  OBVIOUS
<1> HIDE DEF tail
<1>2. /\ nalu \in Seq(Nat) /\ Len(nalu) = n + Len(tail) /\ n \in Nat
      /\ \A i \in 1..n : nalu[i] = data[i]
      /\ \A i \in 1..Len(tail) : nalu[n + i] = tail[i]
  BY <1>1, ConcatIs
<1>3. n > 0 /\ data[n] # 0
  OBVIOUS
<1>4. Trimmed(nalu) = SubSeq(nalu, 1, end)
  BY Zenon DEF Trimmed
<1>5. Begins(nalu, data)
  BY <1>1, BeginsConcat
<1>6. SubSeq(nalu, 1, n) = data
  BY <1>2, <1>5, BeginsIsCut
<1> HIDE DEF nalu, n
<1>7. n \in 1..Len(nalu) /\ IsEnd(n)
  <2>1. n \in 1..n /\ nalu[n] # 0 /\ n \in 1..Len(nalu)
    BY <1>1, <1>2, <1>3
  <2>2. ASSUME NEW j \in (n + 1)..Len(nalu) PROVE nalu[j] = 0
    <3>1. Len(tail) = 1 /\ j = n + 1
      <4> DEFINE m == Len(tail)
                 l == Len(nalu)
      <4>1. (m = 0 \/ m = 1) /\ l = n + m /\ n \in Nat /\ j \in (n + 1)..l
        BY <1>1, <1>2
      <4> HIDE DEF m, l
      <4>2. m = 1 /\ j = n + 1
        BY ONLY <4>1
      <4> QED
        BY <4>2 DEF m
    <3>2. tail[1] = 0 /\ 1 \in 1..Len(tail)
      BY <1>1, <3>1
    <3>3. nalu[n + 1] = tail[1]
      BY <1>2, <3>2
    <3> QED
      BY <3>1, <3>2, <3>3
  <2> QED
    BY <2>1, <2>2
<1>8. ASSUME NEW i \in 1..Len(nalu), IsEnd(i) PROVE i = n
  <2>1. CASE i < n
    <3>1. n \in (i + 1)..Len(nalu)
      BY <1>1, <1>2, <2>1
    <3> QED
      BY <1>7, <1>8, <3>1
  <2>2. CASE i > n
    <3>1. i \in (n + 1)..Len(nalu)
      BY <1>2, <2>2
    <3> QED
      BY <1>7, <1>8, <3>1
  <2> QED
    BY <1>2, <2>1, <2>2
<1> HIDE DEF IsEnd
<1>9. end = n
  BY <1>7, <1>8
<1> HIDE DEF end
<1>10. Trimmed(nalu) = data
  BY <1>4, <1>6, <1>9
<1> QED
  BY <1>10 DEF nalu, tail

(* Whoever applies emulation prevention to what was written without it,    *)
(* writes what the signer would have written with it. *)
LEMMA EscapedLater ==
  ASSUME NEW size \in Nat, NEW flags \in Nat, NEW list \in Seq(Nat)
  PROVE  LET head == HeadBytes(size, flags)
             v == WriteMany(Nothing, head, TRUE)
         IN  /\ Fresh(v, head)
             /\ WriteMany(v, list, FALSE).bytes = head \o list
             /\ \A w : Fresh(w, head) =>
                  /\ WriteMany(w, list, FALSE).bytes = head \o list
                  /\ Wire(w, list, FALSE) = Wire(v, list, FALSE)
             /\ WriteMany(Nothing, head \o list, TRUE) = WriteMany(v, list, TRUE)
             /\ WriteMany(Nothing, Wire(v, list, FALSE), TRUE).bytes = Wire(v, list, TRUE)
<1> DEFINE head == HeadBytes(size, flags)
           v == WriteMany(Nothing, head, TRUE)
<1>1. Fresh(v, head)
  BY HeadFresh
<1>2. head \in Seq(Nat)
  <2>1. IsHead(size \div SizeUnit, size, flags, SizedHead(size), SizedHead(size) \o UUID, head)
    BY HeadIs
  <2> HIDE DEF head
  <2> QED
    BY <2>1, Zenon DEF IsHead
<1> HIDE DEF head
<1>3. Nothing \in Writers
  BY DEF Nothing, LAST_TWO_BYTES_INIT_VALUE, Writers
<1>4. ASSUME NEW w, Fresh(w, head)
      PROVE  w \in Writers /\ WriteMany(w, list, FALSE).bytes = head \o list
  <2>1. w \in Writers /\ w.bytes = head
    BY <1>4 DEF Fresh
  <2>2. WriteMany(w, list, FALSE).bytes = w.bytes \o list
    BY <2>1, WritePlain
  <2> QED
    BY <2>1, <2>2
<1>5. ASSUME NEW w, Fresh(w, head)
      PROVE  Wire(w, list, FALSE) = Wire(v, list, FALSE)
  BY <1>1, <1>4, <1>5 DEF Wire
<1>6. WriteMany(Nothing, head \o list, TRUE) = WriteMany(v, list, TRUE)
  BY <1>2, <1>3, WriteInParts
<1>7. WriteMany(Nothing, Wire(v, list, FALSE), TRUE).bytes = Wire(v, list, TRUE)
  <2> DEFINE plain == head \o list
             u == WriteMany(v, list, TRUE)
  <2>1. Wire(v, list, FALSE) = plain \o Stop
    BY <1>1, <1>4 DEF Wire
  <2>2. plain \in Seq(Nat)
    BY <1>2, ConcatIs
  <2>3. u = WriteMany(Nothing, plain, TRUE)
    BY <1>6
  <2>4. u \in Writers
    BY <1>1, <1>4, WritingGrows
  <2>5. Wire(v, list, TRUE) = u.bytes \o Stop
    BY Zenon DEF Wire
  <2> HIDE DEF plain, u
  <2>6. Stop \in Seq(Nat) /\ WriteMany(u, Stop, TRUE).bytes = u.bytes \o Stop
    BY <2>4, StopIs
  <2>7. WriteMany(Nothing, plain \o Stop, TRUE) = WriteMany(u, Stop, TRUE)
    BY <1>3, <2>2, <2>3, <2>6, WriteInParts
  <2> QED
    BY <2>1, <2>5, <2>6, <2>7
<1> HIDE DEF v
<1>8. /\ Fresh(v, head)
      /\ WriteMany(v, list, FALSE).bytes = head \o list
      /\ \A w : Fresh(w, head) =>
           /\ WriteMany(w, list, FALSE).bytes = head \o list
           /\ Wire(w, list, FALSE) = Wire(v, list, FALSE)
      /\ WriteMany(Nothing, head \o list, TRUE) = WriteMany(v, list, TRUE)
      /\ WriteMany(Nothing, Wire(v, list, FALSE), TRUE).bytes = Wire(v, list, TRUE)
  BY <1>1, <1>4, <1>5, <1>6, <1>7
<1> QED
  BY <1>8, Zenon DEF head, v

-----------------------------------------------------------------------------

(* A complete SEI, by a writer that knows what emulation prevention would  *)
(* have done to its head. *)
Sent(sei, v, tlvs) ==
  LET size  == SizeOf(tlvs, sei.signed)
      head  == HeadBytes(size, Reserved(sei.certificate))
  IN  /\ tlvs \in Seq(Told) /\ NoSignature(tlvs)
      /\ Fresh(v, head) /\ (~sei_epb => v = WriteMany(Nothing, head, TRUE))
      /\ sei.completed = Wire(v, EncodedList(sei.tlvs), sei_epb)
      /\ IF sei.signed
         THEN /\ sei.bytes = WriteMany(v, EncodedList(tlvs), sei_epb).bytes
              /\ \E signature \in Signatures : sei.tlvs = Append(tlvs, SignatureTlv(signature))
         ELSE sei.bytes = sei.completed /\ sei.tlvs = tlvs

(* Flags are a byte. *)
LEMMA FlagsTyped ==
  ASSUME NEW certificate \in BOOLEAN
  PROVE  Reserved(certificate) \in Nat
BY DEF Reserved

(* A complete SEI of the signer is such a SEI. *)
LEMMA SentIs ==
  ASSUME Typed, NEW sei \in SeiRecords, Complete(sei), AsWritten(sei, sei_epb)
  PROVE  \E v, tlvs : Sent(sei, v, tlvs)
<1>1. PICK w, tlvs : WrittenFrom(sei, sei_epb, w, tlvs)
  BY Zenon DEF AsWritten
<1> DEFINE size == SizeOf(tlvs, sei.signed)
           flags == Reserved(sei.certificate)
           head == HeadBytes(size, flags)
           some == EncodedList(tlvs)
           list == EncodedList(sei.tlvs)
           v == IF sei_epb THEN w ELSE WriteMany(Nothing, head, TRUE)
<1>2. sei_epb \in BOOLEAN /\ sei.signed \in BOOLEAN /\ sei.certificate \in BOOLEAN
      /\ sei.tlvs \in Seq(Tlvs)
  BY DEF Typed, SeiRecords
<1>3. tlvs \in Seq(Told) /\ NoSignature(tlvs)
  BY <1>1 DEF WrittenFrom
<1>4. Fresh(w, head)
  <2>1. FlagsOf(sei.certificate, sei_epb) = flags
    BY <1>2, FlagsOfIs
  <2> HIDE DEF flags
  <2> QED
    BY <1>1, <2>1, Zenon DEF WrittenFrom
<1>5. sei.completed = Wire(w, list, sei_epb)
  BY <1>1, <1>2 DEF WrittenFrom
<1>6. sei.signed => [bytes |-> sei.bytes, last |-> sei.last] = WriteMany(w, some, sei_epb)
                    /\ \E signature \in Signatures : sei.tlvs = Append(tlvs, SignatureTlv(signature))
  BY <1>1, Zenon DEF WrittenFrom
<1>7. ~sei.signed => sei.bytes = sei.completed /\ sei.tlvs = tlvs
  BY <1>1, Zenon DEF WrittenFrom
<1>8. size \in Nat /\ flags \in Nat /\ some \in Seq(Nat) /\ list \in Seq(Nat)
  BY <1>2, <1>3, SizeIs, FlagsTyped, FirstIsTag, EncodedListTyped
<1>9. ASSUME NEW l \in Seq(Nat), ~sei_epb
      PROVE  Fresh(v, head) /\ Wire(w, l, sei_epb) = Wire(v, l, sei_epb)
             /\ WriteMany(w, l, sei_epb).bytes = WriteMany(v, l, sei_epb).bytes
  <2>1. sei_epb = FALSE
    BY <1>2, <1>9
  <2>2. v = WriteMany(Nothing, head, TRUE)
    BY <1>9
  <2> HIDE DEF size, flags, v
  <2>3. LET h == HeadBytes(size, flags)
            u == WriteMany(Nothing, h, TRUE)
        IN  /\ Fresh(u, h)
            /\ WriteMany(u, l, FALSE).bytes = h \o l
            /\ \A x : Fresh(x, h) => /\ WriteMany(x, l, FALSE).bytes = h \o l
                                     /\ Wire(x, l, FALSE) = Wire(u, l, FALSE)
    BY <1>8, EscapedLater
  <2>4. Fresh(v, head) /\ WriteMany(v, l, FALSE).bytes = head \o l
        /\ WriteMany(w, l, FALSE).bytes = head \o l /\ Wire(w, l, FALSE) = Wire(v, l, FALSE)
    BY <1>4, <2>2, <2>3
  <2> QED
    BY <2>1, <2>4
<1>10. sei_epb => v = w
  OBVIOUS
<1>11. ~sei_epb => v = WriteMany(Nothing, head, TRUE)
  OBVIOUS
<1> HIDE DEF v, some, list, head
<1>12. Fresh(v, head) /\ sei.completed = Wire(v, list, sei_epb)
       /\ WriteMany(w, some, sei_epb).bytes = WriteMany(v, some, sei_epb).bytes
  <2>1. CASE sei_epb
    BY <1>4, <1>5, <1>10, <2>1
  <2>2. CASE ~sei_epb
    BY <1>5, <1>8, <1>9, <2>2
  <2> QED
    BY <2>1, <2>2
<1>13. ASSUME sei.signed PROVE sei.bytes = WriteMany(v, some, sei_epb).bytes
  BY <1>6, <1>12, <1>13
<1>14. Sent(sei, v, tlvs)
  BY <1>3, <1>6, <1>7, <1>11, <1>12, <1>13, Zenon DEF Sent, head, size, flags, some, list
<1> QED
  BY <1>14

-----------------------------------------------------------------------------
(* At the other side.                                                      *)

(* What a complete SEI is made of. *)
IsSent(sei, v, tlvs, size, flags, list) ==
  /\ size = SizeOf(tlvs, sei.signed) /\ size \in Nat /\ size = 3 + Len(list)
  /\ flags = Reserved(sei.certificate) /\ flags \in Nat
  /\ list = EncodedList(sei.tlvs) /\ list \in Seq(Nat) /\ (Len(list) > 0 => list[1] # 0)
  /\ Fresh(v, HeadBytes(size, flags))
  /\ sei.completed = Wire(v, list, sei_epb)
  /\ sei.tlvs \in Seq(Told)
  /\ sei.signed => \E tlv : sei.tlvs = Append(tlvs, tlv) /\ SignedList(tlvs, tlv, list)

(* These are its parts. *)
LEMMA PartsOfSent ==
  ASSUME Typed, NEW sei \in SeiRecords, NEW v, NEW tlvs, Sent(sei, v, tlvs)
  PROVE  IsSent(sei, v, tlvs, SizeOf(tlvs, sei.signed), Reserved(sei.certificate),
                EncodedList(sei.tlvs))
<1> DEFINE size == SizeOf(tlvs, sei.signed)
           flags == Reserved(sei.certificate)
           list == EncodedList(sei.tlvs)
<1>1. sei.signed \in BOOLEAN /\ sei.certificate \in BOOLEAN
  BY DEF SeiRecords
<1>2. tlvs \in Seq(Told) /\ NoSignature(tlvs)
  BY DEF Sent
<1>3. Fresh(v, HeadBytes(size, flags)) /\ sei.completed = Wire(v, list, sei_epb)
  BY Zenon DEF Sent
<1>4. flags \in Nat /\ size \in Nat
  BY <1>1, <1>2, FlagsTyped, SizeIs
<1>5. ASSUME sei.signed
      PROVE  /\ sei.tlvs \in Seq(Told) /\ size = 3 + Len(list)
             /\ \E tlv : sei.tlvs = Append(tlvs, tlv) /\ SignedList(tlvs, tlv, list)
  <2>1. PICK signature \in Signatures : sei.tlvs = Append(tlvs, SignatureTlv(signature))
    BY <1>5 DEF Sent
  <2> DEFINE tlv == SignatureTlv(signature)
  <2>2. tlv \in Told /\ tlv.tag = SIGNATURE_TAG
    BY SignatureTold
  <2>3. size = 3 + Len(list)
    <3>1. SizeOf(tlvs, TRUE) = 3 + Len(EncodedList(Append(tlvs, SignatureTlv(signature))))
      BY <1>2, SizesAre
    <3>2. sei.signed = TRUE
      BY <1>1, <1>5
    <3> QED
      BY <2>1, <3>1, <3>2
  <2> HIDE DEF tlv
  <2>4. SignedList(tlvs, tlv, list) /\ sei.tlvs = Append(tlvs, tlv)
    BY <1>2, <2>1, <2>2 DEF SignedList, tlv
  <2>5. sei.tlvs \in Seq(Told)
    BY <1>2, <2>2, <2>4
  <2> QED
    BY <2>3, <2>4, <2>5
<1>6. ASSUME ~sei.signed
      PROVE  sei.tlvs \in Seq(Told) /\ size = 3 + Len(list)
  <2>1. sei.tlvs = tlvs
    BY <1>6 DEF Sent
  <2> QED
    BY <1>1, <1>2, <1>6, <2>1, SizeIs
<1>7. sei.tlvs \in Seq(Told) /\ size = 3 + Len(list)
  BY <1>5, <1>6
<1>8. list \in Seq(Nat) /\ (Len(list) > 0 => list[1] # 0)
  BY <1>7, FirstIsTag
<1> HIDE DEF size, flags, list
<1>9. IsSent(sei, v, tlvs, size, flags, list)
  BY <1>3, <1>4, <1>5, <1>7, <1>8, Zenon DEF IsSent, size, flags, list
<1> QED
  BY <1>9, Zenon DEF size, flags, list

(* Whichever way it takes, it arrives as the signer would have written it, *)
(* with emulation prevention or without. *)
LEMMA Travels ==
  ASSUME Typed, NEW sei \in SeiRecords, NEW v, NEW tlvs, Sent(sei, v, tlvs),
         NEW size, NEW flags, NEW list, IsSent(sei, v, tlvs, size, flags, list),
         NEW way \in Ways
  PROVE  \E epb : /\ Carries(Trimmed(Carried(sei.completed, way)), v, size, flags, list, epb)
                  /\ (sei_epb => epb)
<1> DEFINE epb == sei_epb \/ way.escape
           nalu == Wire(v, list, epb)
           head == HeadBytes(size, flags)
<1>1. sei_epb \in BOOLEAN /\ way.escape \in BOOLEAN /\ way.zero \in BOOLEAN
      /\ (way.escape => sei_epb = FALSE)
  BY DEF Typed, Ways
<1>2. /\ size \in Nat /\ flags \in Nat /\ list \in Seq(Nat) /\ size = 3 + Len(list)
      /\ (Len(list) > 0 => list[1] # 0) /\ Fresh(v, head)
      /\ sei.completed = Wire(v, list, sei_epb)
      /\ size = SizeOf(tlvs, sei.signed) /\ flags = Reserved(sei.certificate)
  BY Zenon DEF IsSent
<1>3. v \in Writers
  BY <1>2 DEF Fresh
<1>4. ~sei_epb => v = WriteMany(Nothing, head, TRUE)
  BY <1>2, Zenon DEF Sent
<1> HIDE DEF head
<1>5. (IF way.escape THEN WriteMany(Nothing, sei.completed, TRUE).bytes ELSE sei.completed)
        = nalu
  <2>1. CASE way.escape
    <3>1. sei_epb = FALSE /\ epb = TRUE
      BY <1>1, <2>1
    <3>2. LET h == HeadBytes(size, flags)
              u == WriteMany(Nothing, h, TRUE)
          IN  WriteMany(Nothing, Wire(u, list, FALSE), TRUE).bytes = Wire(u, list, TRUE)
      BY <1>2, EscapedLater
    <3>3. WriteMany(Nothing, Wire(v, list, FALSE), TRUE).bytes = Wire(v, list, TRUE)
      BY <1>4, <3>1, <3>2 DEF head
    <3> QED
      BY <1>2, <2>1, <3>1, <3>3
  <2>2. CASE ~way.escape
    <3>1. epb = sei_epb
      BY <1>1, <2>2
    <3> QED
      BY <1>2, <2>2, <3>1
  <2> QED
    BY <2>1, <2>2
<1>6. epb \in BOOLEAN /\ (sei_epb => epb)
  BY <1>1
<1> HIDE DEF epb
<1>7. nalu \in Seq(Nat) /\ Len(nalu) > 0 /\ nalu[Len(nalu)] # 0
  <2>1. Wire(v, list, epb) \in Seq(Nat) /\ Len(Wire(v, list, epb)) \in Nat \ {0}
        /\ Wire(v, list, epb)[Len(Wire(v, list, epb))] = STOP_BYTE_VALUE
    BY <1>2, <1>3, <1>6, WireTyped
  <2> HIDE DEF nalu
  <2> QED
    BY <2>1 DEF nalu, STOP_BYTE_VALUE
<1> HIDE DEF nalu
<1>8. Carried(sei.completed, way) = nalu \o (IF way.zero THEN <<0>> ELSE <<>>)
  BY <1>5 DEF Carried
<1>9. Trimmed(Carried(sei.completed, way)) = nalu
  BY <1>1, <1>7, <1>8, TrimIs
<1>10. Carries(nalu, v, size, flags, list, epb)
  BY <1>2, <1>6 DEF Carries, nalu, head
<1> QED
  BY <1>6, <1>9, <1>10

(* The sides agree on a SEI without a signature. *)
LEMMA UnsignedAgree ==
  ASSUME Typed, NEW sei \in SeiRecords, NEW v, NEW tlvs, Sent(sei, v, tlvs), ~sei.signed
  PROVE  AgreeOn(sei)
<1> DEFINE size == SizeOf(tlvs, sei.signed)
           flags == Reserved(sei.certificate)
           list == EncodedList(sei.tlvs)
<1>1. IsSent(sei, v, tlvs, size, flags, list)
  BY PartsOfSent
<1>2. sei_epb \in BOOLEAN /\ sei.certificate \in BOOLEAN /\ sei.signed = FALSE
  BY DEF Typed, SeiRecords
<1>3. tlvs \in Seq(Told) /\ NoSignature(tlvs) /\ sei.bytes = sei.completed /\ sei.tlvs = tlvs
  BY <1>2, Zenon DEF Sent
<1> HIDE DEF size, list
<1>4. /\ size \in Nat /\ flags \in Nat /\ list \in Seq(Nat) /\ size = 3 + Len(list)
      /\ (Len(list) > 0 => list[1] # 0) /\ Fresh(v, HeadBytes(size, flags))
      /\ sei.completed = Wire(v, list, sei_epb)
  BY <1>1, Zenon DEF IsSent
<1>5. Carries(sei.bytes, v, size, flags, list, sei_epb)
  BY <1>2, <1>3, <1>4 DEF Carries
<1>6. ASSUME NEW nalu, NEW epb, Carries(nalu, v, size, flags, list, epb), sei_epb => epb
      PROVE  ReadsAs(nalu, FALSE, sei.certificate, Wire(v, list, sei_epb), tlvs)
  <2>1. list = EncodedList(tlvs)
    BY <1>3 DEF list
  <2> QED
    BY <1>2, <1>3, <1>6, <2>1, UnsignedRead
<1>7. Hashed(sei) = Wire(v, list, sei_epb)
  <2>1. ReadsAs(sei.bytes, FALSE, sei.certificate, Wire(v, list, sei_epb), tlvs)
    BY <1>5, <1>6
  <2> QED
    BY <2>1, Zenon DEF ReadsAs, Hashed
<1>8. ASSUME NEW way \in Ways
      PROVE  ReadsAs(Trimmed(Carried(sei.completed, way)), sei.signed, sei.certificate,
                     Hashed(sei), sei.tlvs)
  <2>1. \E epb : /\ Carries(Trimmed(Carried(sei.completed, way)), v, size, flags, list, epb)
                 /\ (sei_epb => epb)
    BY <1>1, Travels
  <2> HIDE DEF flags
  <2> QED
    BY <1>2, <1>3, <1>6, <1>7, <2>1
<1> QED
  BY <1>8, Zenon DEF AgreeOn, ReadsAs

(* The room there is, as the search for the signature needs it, and for a  *)
(* SEI that waits for its signature. *)
LEMMA RoomIs ==
  ASSUME Typed, NEW sei \in SeiRecords, NEW v, NEW tlvs, Sent(sei, v, tlvs),
         sei.signed, HasRoom(sei),
         NEW size, NEW flags, NEW list, IsSent(sei, v, tlvs, size, flags, list)
  PROVE  /\ Room(v, tlvs, list) /\ sei.bytes \in Seq(Nat)
         /\ Begins(sei.bytes, HeadBytes(size, flags)) /\ Len(sei.bytes) <= size - 3
<1> DEFINE some == EncodedList(tlvs)
           head == HeadBytes(size, flags)
           begun == IF sei_epb THEN sei.bytes ELSE WriteMany(Nothing, sei.bytes, TRUE).bytes
           escaped == WriteMany(v, some, TRUE).bytes
<1>1. sei_epb \in BOOLEAN /\ sei.bytes \in Seq(Nat)
  BY DEF Typed, SeiRecords
<1>2. /\ size \in Nat /\ flags \in Nat /\ list \in Seq(Nat) /\ size = 3 + Len(list)
      /\ Fresh(v, head)
      /\ size = SizeOf(tlvs, sei.signed) /\ flags = Reserved(sei.certificate)
  BY Zenon DEF IsSent
<1>3. /\ tlvs \in Seq(Told) /\ sei.bytes = WriteMany(v, some, sei_epb).bytes
      /\ (~sei_epb => v = WriteMany(Nothing, head, TRUE))
  BY <1>2, Zenon DEF Sent
<1>4. v \in Writers /\ v.bytes = head
  BY <1>2 DEF Fresh
<1>5. some \in Seq(Nat)
  BY <1>3, FirstIsTag
<1> HIDE DEF head, some
<1>6. Begins(sei.bytes, head)
  BY <1>1, <1>3, <1>4, <1>5, WritingExtends
<1>7. PayloadSize(sei.bytes) = size
  BY <1>1, <1>2, <1>6, SizeReadBack DEF head
<1>8. begun = escaped /\ Len(sei.bytes) <= Len(escaped)
  <2>1. CASE sei_epb = TRUE
    <3>1. begun = sei.bytes /\ escaped = sei.bytes
      BY <1>3, <2>1
    <3>2. Len(sei.bytes) \in Nat
      BY <1>1
    <3> HIDE DEF begun, escaped
    <3> QED
      BY <3>1, <3>2
  <2>2. CASE sei_epb = FALSE
    <3>1. LET h == HeadBytes(size, flags)
              u == WriteMany(Nothing, h, TRUE)
          IN  /\ WriteMany(u, some, FALSE).bytes = h \o some
              /\ WriteMany(Nothing, h \o some, TRUE) = WriteMany(u, some, TRUE)
      BY <1>2, <1>5, EscapedLater
    <3>2. WriteMany(v, some, FALSE).bytes = head \o some
          /\ WriteMany(Nothing, head \o some, TRUE) = WriteMany(v, some, TRUE)
      BY <1>3, <2>2, <3>1 DEF head
    <3>3. sei.bytes = head \o some
      BY <1>3, <2>2, <3>2
    <3>4. begun = escaped
      BY <2>2, <3>2, <3>3
    <3>5. head \in Seq(Nat)
      BY <1>4 DEF Writers
    <3>6. Len(sei.bytes) = Len(head) + Len(some)
      BY <1>5, <3>3, <3>5, ConcatIs
    <3>7. Len(escaped) >= Len(v.bytes) + Len(some)
      BY <1>4, <1>5, WritingGrows
    <3>8. Len(sei.bytes) <= Len(escaped)
      <4>1. escaped \in Seq(Nat)
        BY <1>4, <1>5, WritingGrows
      <4> DEFINE m == Len(head)
                 n == Len(some)
                 e == Len(escaped)
      <4> HIDE DEF escaped
      <4>2. m \in Nat /\ n \in Nat /\ e \in Nat
        BY <1>5, <3>5, <4>1
      <4>4. e >= m + n /\ Len(sei.bytes) = m + n
        BY <1>4, <3>6, <3>7 DEF escaped
      <4> HIDE DEF m, n, e
      <4>3. m + n <= e
        BY ONLY <4>2, <4>4
      <4> QED
        BY <4>3, <4>4 DEF e
    <3> QED
      BY <3>4, <3>8
  <2> QED
    BY <1>1, <2>1, <2>2
<1>9. Len(begun) <= (size - Len(UUID)) - 1
  BY <1>7 DEF HasRoom
<1>10. Len(UUID) = 2
  BY DEF UUID
<1>11. Len(escaped) <= size - 3 /\ Len(escaped) \in Nat
  <2>1. escaped \in Seq(Nat)
    BY <1>4, <1>5, WritingGrows
  <2> HIDE DEF begun, escaped
  <2> QED
    BY <1>2, <1>8, <1>9, <1>10, <2>1
<1>12. Room(v, tlvs, list) /\ Len(sei.bytes) <= size - 3
  <2>1. Len(sei.bytes) \in Nat /\ Len(list) \in Nat /\ Room(v, tlvs, list) = (Len(escaped) <= Len(list))
    BY <1>1, <1>2 DEF Room, some
  <2> DEFINE m == Len(sei.bytes)
             n == Len(list)
             e == Len(escaped)
  <2>2. /\ m \in Nat /\ n \in Nat /\ e \in Nat /\ m <= e /\ e <= size - 3
        /\ size = 3 + n /\ Room(v, tlvs, list) = (e <= n)
    BY <1>2, <1>8, <1>11, <2>1
  <2> HIDE DEF m, n, e
  <2>3. e <= n /\ m <= size - 3
    BY ONLY <2>2
  <2> QED
    BY <2>2, <2>3 DEF m
<1> QED
  BY <1>1, <1>6, <1>12 DEF head

(* The sides agree on a signed SEI that has room. *)
LEMMA SignedAgree ==
  ASSUME Typed, NEW sei \in SeiRecords, NEW v, NEW tlvs, Sent(sei, v, tlvs),
         sei.signed, HasRoom(sei)
  PROVE  AgreeOn(sei)
<1> DEFINE size == SizeOf(tlvs, sei.signed)
           flags == Reserved(sei.certificate)
           list == EncodedList(sei.tlvs)
<1>1. IsSent(sei, v, tlvs, size, flags, list)
  BY PartsOfSent
<1>2. sei_epb \in BOOLEAN /\ sei.certificate \in BOOLEAN /\ sei.signed = TRUE
  BY DEF Typed, SeiRecords
<1>3. sei.bytes = WriteMany(v, EncodedList(tlvs), sei_epb).bytes
  BY <1>2, Zenon DEF Sent
<1> HIDE DEF size, list
<1>4. size \in Nat /\ flags \in Nat
  BY <1>1, Zenon DEF IsSent
<1>5. PICK tlv : sei.tlvs = Append(tlvs, tlv) /\ SignedList(tlvs, tlv, list)
  BY <1>1, <1>2, Zenon DEF IsSent
<1>6. /\ Room(v, tlvs, list) /\ sei.bytes \in Seq(Nat)
      /\ Begins(sei.bytes, HeadBytes(size, flags)) /\ Len(sei.bytes) <= size - 3
  BY <1>1, RoomIs
<1>7. Hashed(sei) = sei.bytes
  <2>1. Parsed(sei.bytes).hashable = sei.bytes
    BY <1>4, <1>6, WaitingHashed
  <2> QED
    BY <2>1 DEF Hashed
<1>8. ASSUME NEW way \in Ways
      PROVE  ReadsAs(Trimmed(Carried(sei.completed, way)), sei.signed, sei.certificate,
                     Hashed(sei), sei.tlvs)
  <2> DEFINE nalu == Trimmed(Carried(sei.completed, way))
  <2>1. PICK epb : Carries(nalu, v, size, flags, list, epb) /\ (sei_epb => epb)
    BY <1>1, Travels
  <2> HIDE DEF nalu
  <2>2. ReadsAs(nalu, TRUE, sei.certificate, WriteMany(v, EncodedList(tlvs), sei_epb).bytes,
                Append(tlvs, tlv))
    BY <1>2, <1>5, <1>6, <2>1, SignedRead
  <2> QED
    BY <1>2, <1>3, <1>5, <1>7, <2>2 DEF nalu
<1> QED
  BY <1>8, Zenon DEF AgreeOn, ReadsAs

-----------------------------------------------------------------------------

(* The sides agree on every SEI that has room for its emulation prevention *)
(* bytes: what parse_nalu_info() and tlv_decode() make of the bytes is     *)
(* what generate_sei_and_add_to_buffer() and complete_sei() have put into  *)
(* them, for all documents, signatures and sizes, however many SEIs are    *)
(* begun in between, and whoever applies emulation prevention.  A SEI      *)
(* without a signature needs no room. *)
AgreeWhereRoom ==
  \A i \in DOMAIN seis :
    Complete(seis[i]) /\ (seis[i].signed => HasRoom(seis[i])) => AgreeOn(seis[i])

(* For every reachable state, whatever the constants: parse_nalu_info()    *)
(* and tlv_decode() take apart what generate_sei_and_add_to_buffer() and   *)
(* complete_sei() have put together. *)
THEOREM RoomIsEnough == Spec => []AgreeWhereRoom
<1>1. Init => IInv /\ AllAsWritten(seis, sei_epb)
  <2>1. Init => AllAsWritten(seis, sei_epb)
    BY DEF Init, AllAsWritten
  <2> QED
    BY <2>1, InitSafe
<1>2. IInv /\ AllAsWritten(seis, sei_epb) /\ [Next]_vars => (IInv /\ AllAsWritten(seis, sei_epb))'
  <2> SUFFICES ASSUME IInv, AllAsWritten(seis, sei_epb), [Next]_vars
               PROVE  IInv' /\ AllAsWritten(seis', sei_epb')
    BY DEF AllAsWritten, AsWritten, WrittenFrom, Complete
  <2>0. Typed
    BY DEF IInv
  <2>1. ASSUME NEW document \in (IF seis = <<>> THEN Documents ELSE NextDocuments),
               NEW signed \in BOOLEAN, GenerateSei(document, signed)
        PROVE  IInv' /\ AllAsWritten(seis', sei_epb')
    <3>1. document \in Documents \cup NextDocuments
      OBVIOUS
    <3> QED
      BY <2>0, <2>1, <3>1, GenerateSeiKeeps, GenerateWrites
  <2>2. ASSUME NEW signature \in Signatures, CompleteSei(signature)
        PROVE  IInv' /\ AllAsWritten(seis', sei_epb')
    BY <2>0, <2>2, CompleteSeiKeeps, CompleteWrites
  <2>3. CASE UNCHANGED vars
    <3>1. IInv'
      BY <2>3 DEF vars, IInv, Typed, IsSafe, Complete
    <3>2. seis' = seis /\ sei_epb' = sei_epb
      BY <2>3 DEF vars
    <3> QED
      BY <3>1, <3>2
  <2> QED
    BY <2>1, <2>2, <2>3 DEF Next
<1>3. IInv /\ AllAsWritten(seis, sei_epb) => AgreeWhereRoom
  <2> SUFFICES ASSUME IInv, AllAsWritten(seis, sei_epb), NEW i \in DOMAIN seis,
                      Complete(seis[i]), seis[i].signed => HasRoom(seis[i])
               PROVE  AgreeOn(seis[i])
    BY DEF AgreeWhereRoom
  <2> DEFINE sei == seis[i]
  <2>1. Typed /\ sei \in SeiRecords /\ AsWritten(sei, sei_epb)
    BY DEF IInv, Typed, AllAsWritten
  <2>2. Complete(sei) /\ (sei.signed => HasRoom(sei))
    OBVIOUS
  <2> HIDE DEF sei
  <2>3. PICK v, tlvs : Sent(sei, v, tlvs)
    BY <2>1, <2>2, SentIs
  <2>4. AgreeOn(sei)
    BY <2>1, <2>2, <2>3, SignedAgree, UnsignedAgree
  <2> QED
    BY <2>4 DEF sei
<1> QED
  BY <1>1, <1>2, <1>3, PTL DEF Spec

(* SidesAgree as the run checks it, as long as all SEIs have room. *)
THEOREM WhatIsWrittenIsRead == Spec => [](AllHaveRoom => SidesAgree)
<1>1. AgreeWhereRoom => (AllHaveRoom => SidesAgree)
  BY DEF AgreeWhereRoom, AllHaveRoom, SidesAgree
<1> QED
  BY <1>1, RoomIsEnough, PTL
=============================================================================
