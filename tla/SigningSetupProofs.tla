------------------------ MODULE SigningSetupProofs --------------------------
(***************************************************************************)
(* What SEIs tell of keys, hash algorithm and emulation prevention fits    *)
(* their signatures, and their hashes are of whole NAL Units, for every    *)
(* number of keys, algorithms, calls and NAL Units and every size of       *)
(* sei_data_buffer.                                                        *)
(*                                                                         *)
(* The SEIs that were sent and those that wait are one sequence, AllSeis:  *)
(* a call of the setup leaves it alone, generating a SEI appends to it,    *)
(* and get_sei() completes its next SEIs and moves the border of what was  *)
(* sent (StepKinds, Generated, Fetched).  Everything is said of that       *)
(* sequence.                                                               *)
(***************************************************************************)
EXTENDS SigningSetup, Integers, DataLemmas

-----------------------------------------------------------------------------
(* Types.                                                                  *)

PartType == [nalu : Nat, first : BOOLEAN, last : BOOLEAN, parsed : BOOLEAN]
DigestType == [parts : Seq(PartType), algo : Algos]
OwedType == [key : Keys, of : Nat]
SignatureType == [key : Keys \cup {0}, of : Nat, epb : BOOLEAN]
SeiType ==
  [number : Nat, isCertificate : BOOLEAN, chain : Keys \cup {0}, algo : Algos \cup {0},
   hashedWith : Algos, epb : BOOLEAN, list : Seq(DigestType), signature : SignatureType]

Typed ==
  /\ started \in BOOLEAN /\ certificateSei \in BOOLEAN /\ epb \in BOOLEAN
  /\ inPart \in BOOLEAN /\ hasGop \in BOOLEAN
  /\ algo \in Algos
  /\ chain \in Keys \cup {0} /\ anchor \in Keys \cup {0}
  /\ memory \in Keys \cup {0} /\ plugin \in Keys \cup {0}
  /\ queue \in Seq(OwedType)
  /\ seis \in Seq(SeiType) /\ sent \in Seq(SeiType)
  /\ context \in Seq(PartType) /\ list \in Seq(DigestType)
  /\ nalus \in Nat /\ given \in {0, 1}
  /\ plugin # 0 => chain # 0

(* The SEIs that were sent, and then those that wait. *)
AllSeis == sent \o seis

(* The SEI that is generated. *)
NewSei(isCertificate) ==
  [number |-> Len(sent) + Len(seis) + 1, isCertificate |-> isCertificate,
   chain |-> IF isCertificate \/ ~certificateSei THEN chain ELSE 0,
   algo |-> IF isCertificate \/ ~certificateSei THEN algo ELSE 0,
   hashedWith |-> algo, epb |-> epb,
   list |-> IF isCertificate THEN <<>> ELSE list,
   signature |-> Unsigned]

(* What is owed for it. *)
NewOwed == [key |-> plugin, of |-> Len(sent) + Len(seis) + 1]

(* A SEI with its signature. *)
WithSignature(sei, owed, before) ==
  [sei EXCEPT !.signature = [key |-> owed.key, of |-> owed.of, epb |-> before]]

-----------------------------------------------------------------------------
(* The order of SEIs and signatures: the first ones, c of them, have their *)
(* signatures, among them all that were sent, and the plugin owes those of *)
(* the next ones.  It owes all of them, in order, unless keys were set     *)
(* again.                                                                  *)

SignedUpTo(all, c) == \A n \in DOMAIN all : all[n].signature # Unsigned <=> n <= c

Owes(all, q, c) ==
  /\ c + Len(q) = Len(all)
  /\ \A k \in DOMAIN q : q[k].of = all[c + k].number

InTurnAt(c) ==
  /\ Len(sent) <= c /\ c + Len(queue) <= Len(AllSeis)
  /\ SignedUpTo(AllSeis, c)
  /\ "keys" \notin disturbed => Owes(AllSeis, queue, c)

InTurn == \E c \in Nat : InTurnAt(c)

(* The keys: there is one, which every SEI tells and signatures are of. *)
FitsKey(sei, key) ==
  /\ sei.chain \in {0, key}
  /\ sei.signature # Unsigned =>
       sei.signature.key = key /\ sei.signature.of = sei.number

OneKey ==
  "keys" \notin disturbed =>
    /\ plugin = 0 => Len(AllSeis) = 0
    /\ plugin # 0 => chain = plugin
    /\ \A n \in DOMAIN AllSeis : FitsKey(AllSeis[n], plugin)
    /\ \A k \in DOMAIN queue : queue[k].key = plugin

(* Emulation prevention, of the SEI and of its signature. *)
EncodedAs(sei, before) ==
  IF sei.signature = Unsigned THEN sei.epb = before ELSE sei.signature.epb = sei.epb

EncodedAlike ==
  "waiting" \notin disturbed => \A n \in DOMAIN AllSeis : EncodedAs(AllSeis[n], epb)

(* The hash algorithm.  A SEI tells of its own, or comes after a           *)
(* certificate SEI; from the first of these on it is always the same.      *)
Told(all, n, now) ==
  /\ all[n].isCertificate => all[n].chain # 0
  /\ all[n].chain # 0 => all[n].algo = all[n].hashedWith
  /\ all[n].chain = 0 => \E m \in 1..n : all[m].isCertificate
  /\ (\E m \in 1..n : all[m].isCertificate) => all[n].hashedWith = now

AlgorithmIsTold ==
  disturbed \cap {"certified", "uncertified"} = {} =>
    \A n \in DOMAIN AllSeis : Told(AllSeis, n, algo)

(* The parts of NAL Units. *)
WholeDigest(digest, by) == IsWhole(digest.parts) /\ digest.algo = by
WholeList(digests, by) == \A k \in DOMAIN digests : WholeDigest(digests[k], by)

FirstPart(nalu) == [nalu |-> nalu, first |-> TRUE, last |-> FALSE, parsed |-> TRUE]

Whole ==
  disturbed \cap {"part", "refused"} = {} =>
    /\ inPart <=> given = 1
    /\ given = 1 => context = <<FirstPart(nalus)>>
    /\ ~started => list = <<>>
    /\ WholeList(list, algo)
    /\ \A n \in DOMAIN AllSeis : WholeList(AllSeis[n].list, AllSeis[n].hashedWith)

IInv == Typed /\ InTurn /\ OneKey /\ EncodedAlike /\ AlgorithmIsTold /\ Whole
-----------------------------------------------------------------------------
(* The steps, as far as they concern SEIs, keys and settings.              *)

Quiet ==
  /\ UNCHANGED <<sent, seis, queue, plugin, chain, epb, algo>>
  /\ disturbed \subseteq disturbed'

Generates(isCertificate) ==
  /\ plugin # 0
  /\ GenerateSei(isCertificate)
  /\ UNCHANGED <<sent, plugin, chain, epb, algo>>
  /\ disturbed \subseteq disturbed'
  /\ ~isCertificate /\ certificateSei /\ ~IsCertified => "uncertified" \in disturbed'

LEMMA StepKinds ==
  ASSUME [Next]_vars
  PROVE  \/ Quiet
         \/ \E key \in Keys : KeyPair(key)
         \/ \E enable \in BOOLEAN : SetEmulationPrevention(enable)
         \/ \E new \in Algos : SetHashAlgo(new)
         \/ \E isCertificate \in BOOLEAN : Generates(isCertificate)
         \/ \E ready \in 0..MAX_SEI_DATA_BUFFER, isPrimary \in BOOLEAN :
               GetSei(ready, isPrimary)
<1>1. CASE UNCHANGED vars
  BY <1>1 DEF Quiet, vars, keys, settings
<1>2. CASE \E enable \in BOOLEAN : SetUseCertificateSei(enable)
  BY <1>2 DEF Quiet, SetUseCertificateSei, Setting, Call, keys
<1>3. CASE Reset
  BY <1>3 DEF Quiet, Reset, Call, keys
<1>4. CASE GenerateCertificateSei
  <2>1. Generates(TRUE)
    BY <1>4 DEF Generates, GenerateCertificateSei, Call, keys, settings
  <2> QED BY <2>1
<1>5. CASE \E isLast \in BOOLEAN : AddPartRefused(isLast)
  BY <1>5 DEF Quiet, AddPartRefused, GivePart, keys, settings
<1>6. CASE AddPart
  BY <1>6 DEF Quiet, AddPart, GivePart, keys, settings
<1>7. CASE AddLastPart
  BY <1>7 DEF Quiet, AddLastPart, GivePart, keys, settings
<1>8. CASE AddFirstOfGop
  <2>1. UNCHANGED <<sent, plugin, chain, epb, algo>> /\ plugin # 0
    BY <1>8 DEF AddFirstOfGop, GivePart, keys, settings
  <2>2. CASE started /\ hasGop
    <3>1. Generates(FALSE)
      BY <1>8, <2>1, <2>2 DEF Generates, AddFirstOfGop
    <3> QED BY <3>1
  <2>3. CASE ~(started /\ hasGop)
    BY <1>8, <2>1, <2>3 DEF Quiet, AddFirstOfGop
  <2> QED BY <2>2, <2>3
<1> QED
  BY <1>1, <1>2, <1>3, <1>4, <1>5, <1>6, <1>7, <1>8 DEF Next

(* Whatever fails, only keys, certificates and what is owed change.        *)
LEMMA KeyPairStep ==
  ASSUME NEW key \in Keys, KeyPair(key)
  PROVE  /\ UNCHANGED <<started, settings, seis, sent, hashing>>
         /\ chain' = key
         /\ disturbed' = IF plugin # 0 THEN disturbed \cup {"keys"} ELSE disturbed
         /\ calls' = calls + 1
         /\ anchor' \in {0, key} /\ memory' \in {0, key, memory}
         /\ \/ plugin' = plugin /\ queue' = queue
            \/ plugin' \in {0, key} /\ queue' = <<>>
  BY DEF KeyPair, AnchorFails, ChainFails, PrivateKeyFails, SetSigningKeyPair,
         BeginKeyPair, Call

-----------------------------------------------------------------------------
(* Types, and the sequence of all SEIs.                                    *)

LEMMA KeysNotZero == Keys \subseteq Nat \ {0} /\ Algos \subseteq Nat \ {0} /\ 1 \in Algos
  BY SetupAssumption

LEMMA JoinedElements ==
  ASSUME NEW S, NEW s \in Seq(S), NEW t \in Seq(S)
  PROVE  /\ s \o t \in Seq(S)
         /\ Len(s) \in Nat /\ Len(t) \in Nat
         /\ Len(s \o t) = Len(s) + Len(t)
         /\ DOMAIN s = 1..Len(s) /\ DOMAIN t = 1..Len(t)
         /\ DOMAIN (s \o t) = 1..(Len(s) + Len(t))
         /\ \A n \in DOMAIN s : n \in DOMAIN (s \o t) /\ (s \o t)[n] = s[n]
         /\ \A i \in DOMAIN t :
              Len(s) + i \in DOMAIN (s \o t) /\ (s \o t)[Len(s) + i] = t[i]
         /\ \A n \in DOMAIN (s \o t) :
              \/ n \in DOMAIN s /\ (s \o t)[n] = s[n]
              \/ n - Len(s) \in DOMAIN t /\ (s \o t)[n] = t[n - Len(s)]
<1>1. s \o t \in Seq(S) /\ Len(s \o t) = Len(s) + Len(t)
      /\ \A i \in 1 .. Len(s) + Len(t) :
           (s \o t)[i] = IF i <= Len(s) THEN s[i] ELSE t[i - Len(s)]
  BY ConcatProperties
<1>2. Len(s) \in Nat /\ Len(t) \in Nat /\ DOMAIN s = 1..Len(s) /\ DOMAIN t = 1..Len(t)
  BY LenProperties
<1>3. DOMAIN (s \o t) = 1..(Len(s) + Len(t))
  BY <1>1, LenProperties
<1>4. ASSUME NEW n \in DOMAIN s
      PROVE  n \in DOMAIN (s \o t) /\ (s \o t)[n] = s[n]
  <2>1. n \in 1..(Len(s) + Len(t)) /\ n <= Len(s)
    BY <1>2
  <2> QED BY <1>1, <1>3, <2>1
<1>5. ASSUME NEW i \in DOMAIN t
      PROVE  Len(s) + i \in DOMAIN (s \o t) /\ (s \o t)[Len(s) + i] = t[i]
  <2>1. Len(s) + i \in 1..(Len(s) + Len(t)) /\ ~(Len(s) + i <= Len(s))
        /\ (Len(s) + i) - Len(s) = i
    BY <1>2
  <2> QED BY <1>1, <1>3, <2>1
<1>6. ASSUME NEW n \in DOMAIN (s \o t)
      PROVE  \/ n \in DOMAIN s /\ (s \o t)[n] = s[n]
             \/ n - Len(s) \in DOMAIN t /\ (s \o t)[n] = t[n - Len(s)]
  <2>1. n \in 1..(Len(s) + Len(t))
    BY <1>3
  <2>2. CASE n <= Len(s)
    BY <1>1, <1>2, <2>1, <2>2
  <2>3. CASE ~(n <= Len(s))
    <3>1. n - Len(s) \in 1..Len(t)
      BY <1>2, <2>1, <2>3
    <3> QED BY <1>1, <1>2, <2>1, <2>3, <3>1
  <2> QED BY <2>2, <2>3
<1> QED BY <1>1, <1>2, <1>3, <1>4, <1>5, <1>6

LEMMA JoinedAppend ==
  ASSUME NEW S, NEW s \in Seq(S), NEW t \in Seq(S), NEW e \in S
  PROVE  s \o Append(t, e) = Append(s \o t, e)
<1>1. <<e>> \in Seq(S)
  OBVIOUS
<1>2. Append(t, e) = t \o <<e>>
  BY AppendIsConcat
<1>3. s \o (t \o <<e>>) = (s \o t) \o <<e>>
  BY <1>1, ConcatAssociative
<1>4. (s \o t) \in Seq(S)
  BY ConcatProperties
<1>5. (s \o t) \o <<e>> = Append(s \o t, e)
  BY <1>4, AppendIsConcat
<1> QED BY <1>2, <1>3, <1>5

LEMMA HeadMoves ==
  ASSUME NEW S, NEW s \in Seq(S), NEW t \in Seq(S), t # <<>>
  PROVE  Append(s, t[1]) \o Tail(t) = s \o t
<1>1. t[1] \in S /\ Tail(t) \in Seq(S) /\ Len(t) \in Nat /\ Len(t) # 0
      /\ Len(Tail(t)) = Len(t) - 1 /\ \A i \in 1..Len(Tail(t)) : Tail(t)[i] = t[i + 1]
  BY HeadTailProperties, EmptySeq, LenProperties, ElementOfSeq
<1>2. <<t[1]>> \in Seq(S) /\ Len(<<t[1]>>) = 1 /\ <<t[1]>>[1] = t[1]
  BY <1>1
<1>3. Append(s, t[1]) = s \o <<t[1]>>
  BY <1>1, AppendIsConcat
<1>4. (s \o <<t[1]>>) \o Tail(t) = s \o (<<t[1]>> \o Tail(t))
  BY <1>1, <1>2, ConcatAssociative
<1>5. <<t[1]>> \o Tail(t) = t
  <2> DEFINE u == <<t[1]>> \o Tail(t)
  <2>1. u \in Seq(S) /\ Len(u) = 1 + Len(Tail(t))
        /\ \A i \in 1..(1 + Len(Tail(t))) :
             u[i] = IF i <= 1 THEN <<t[1]>>[i] ELSE Tail(t)[i - 1]
    BY <1>1, <1>2, ConcatProperties
  <2>2. Len(u) = Len(t)
    BY <1>1, <2>1
  <2>3. ASSUME NEW i \in 1..Len(t)
        PROVE  u[i] = t[i]
    <3>1. i \in 1..(1 + Len(Tail(t)))
      BY <1>1
    <3>2. CASE i = 1
      BY <1>2, <2>1, <3>1, <3>2
    <3>3. CASE i # 1
      <4>1. i - 1 \in 1..Len(Tail(t)) /\ ~(i <= 1) /\ (i - 1) + 1 = i
        BY <1>1, <3>3
      <4> QED BY <1>1, <2>1, <3>1, <4>1
    <3> QED BY <3>2, <3>3
  <2> QED BY <2>1, <2>2, <2>3, SeqEqual
<1> QED BY <1>3, <1>4, <1>5

LEMMA WithoutFirst ==
  ASSUME NEW S, NEW q \in Seq(S), NEW r \in Nat, r <= Len(q)
  PROVE  /\ SubSeq(q, r + 1, Len(q)) \in Seq(S)
         /\ Len(SubSeq(q, r + 1, Len(q))) = Len(q) - r
         /\ DOMAIN SubSeq(q, r + 1, Len(q)) = 1..(Len(q) - r)
         /\ \A k \in 1..(Len(q) - r) :
              r + k \in DOMAIN q /\ SubSeq(q, r + 1, Len(q))[k] = q[r + k]
<1> DEFINE t == SubSeq(q, r + 1, Len(q))
<1>1. Len(q) \in Nat /\ DOMAIN q = 1..Len(q)
  BY LenProperties
<1>2. \A k \in (r + 1)..Len(q) : q[k] \in S
  <2>1. ASSUME NEW k \in (r + 1)..Len(q)
        PROVE  k \in 1..Len(q)
    BY <1>1
  <2> QED BY <2>1, ElementOfSeq
<1>3. r + 1 \in 1..(Len(q) + 1)
  BY <1>1
<1>4. /\ t \in Seq(S)
      /\ Len(t) = IF r + 1 <= Len(q) THEN Len(q) - (r + 1) + 1 ELSE 0
      /\ \A k \in 1..(Len(q) - (r + 1) + 1) : t[k] = q[(r + 1) + k - 1]
  BY <1>1, <1>2, <1>3, SubSeqProperties
<1> HIDE DEF t
<1>5. Len(t) = Len(q) - r
  <2>1. CASE r + 1 <= Len(q)
    <3>1. Len(t) = Len(q) - (r + 1) + 1
      BY <1>4, <2>1
    <3>2. Len(q) - (r + 1) + 1 = Len(q) - r
      BY <1>1
    <3> QED BY <3>1, <3>2
  <2>2. CASE ~(r + 1 <= Len(q))
    <3>1. Len(q) \in Nat /\ r <= Len(q) /\ ~(r + 1 <= Len(q))
      BY <1>1, <2>2
    <3>2. Len(q) - r = 0
      BY ONLY <3>1, r \in Nat
    <3> QED BY <1>4, <2>2, <3>2
  <2> QED BY <2>1, <2>2
<1>6. DOMAIN t = 1..Len(t)
  BY <1>4, LenProperties
<1>7. ASSUME NEW k \in 1..(Len(q) - r)
      PROVE  r + k \in DOMAIN q /\ t[k] = q[r + k]
  <2>1. k \in 1..(Len(q) - (r + 1) + 1) /\ (r + 1) + k - 1 = r + k
    BY <1>1
  <2>2. r + k \in 1..Len(q)
    BY <1>1
  <2> QED BY <1>1, <1>4, <2>1, <2>2
<1>8. t \in Seq(S) /\ Len(t) = Len(q) - r /\ DOMAIN t = 1..(Len(q) - r)
  BY <1>4, <1>5, <1>6
<1> QED BY <1>7, <1>8 DEF t

LEMMA AllSeisType ==
  ASSUME Typed
  PROVE  /\ seis \in Seq(SeiType) /\ sent \in Seq(SeiType) /\ queue \in Seq(OwedType)
         /\ AllSeis \in Seq(SeiType)
         /\ Len(sent) \in Nat /\ Len(seis) \in Nat /\ Len(queue) \in Nat
         /\ Len(AllSeis) = Len(sent) + Len(seis)
         /\ DOMAIN AllSeis = 1..Len(AllSeis)
         /\ DOMAIN sent = 1..Len(sent)
         /\ \A n \in DOMAIN sent : n \in DOMAIN AllSeis /\ AllSeis[n] = sent[n]
         /\ DOMAIN seis = 1..Len(seis)
         /\ \A i \in DOMAIN seis :
              Len(sent) + i \in DOMAIN AllSeis /\ AllSeis[Len(sent) + i] = seis[i]
<1>1. seis \in Seq(SeiType) /\ sent \in Seq(SeiType) /\ queue \in Seq(OwedType)
  BY DEF Typed
<1>2. Len(queue) \in Nat
  BY <1>1, LenProperties
<1> QED BY <1>1, <1>2, JoinedElements DEF AllSeis

LEMMA CertifiedInAll ==
  ASSUME Typed
  PROVE  IsCertified <=> \E n \in DOMAIN AllSeis : AllSeis[n].isCertificate
<1>1. IsCertified <=> \/ \E i \in DOMAIN seis : seis[i].isCertificate
                      \/ \E i \in DOMAIN sent : sent[i].isCertificate
  BY DEF IsCertified, Range
<1>2. seis \in Seq(SeiType) /\ sent \in Seq(SeiType)
  BY DEF Typed
<1>3. ASSUME NEW n \in DOMAIN AllSeis
      PROVE  \/ n \in DOMAIN sent /\ AllSeis[n] = sent[n]
             \/ \E i \in DOMAIN seis : AllSeis[n] = seis[i]
  BY <1>2, JoinedElements DEF AllSeis
<1> QED BY <1>1, <1>3, AllSeisType

LEMMA NewSeiType ==
  ASSUME Typed, plugin # 0, NEW isCertificate \in BOOLEAN
  PROVE  NewSei(isCertificate) \in SeiType /\ NewOwed \in OwedType
<1>1. Len(sent) + Len(seis) + 1 \in Nat
  BY LenProperties DEF Typed
<1>2. list \in Seq(DigestType) /\ <<>> \in Seq(DigestType)
  BY DEF Typed
<1>3. Unsigned \in SignatureType
  BY DEF Unsigned, SignatureType
<1>4. chain \in Keys \cup {0} /\ plugin \in Keys /\ algo \in Algos /\ epb \in BOOLEAN
  BY DEF Typed
<1>5. (IF isCertificate THEN <<>> ELSE list) \in Seq(DigestType)
  BY <1>2
<1>6. NewOwed \in OwedType
  BY <1>1, <1>4 DEF NewOwed, OwedType
<1>7. (IF isCertificate \/ ~certificateSei THEN chain ELSE 0) \in Keys \cup {0}
  BY <1>4
<1>8. (IF isCertificate \/ ~certificateSei THEN algo ELSE 0) \in Algos \cup {0}
  BY <1>4
<1> QED BY <1>1, <1>3, <1>4, <1>5, <1>6, <1>7, <1>8 DEF NewSei, SeiType

LEMMA SameSeis == UNCHANGED <<sent, seis>> => AllSeis' = AllSeis
  BY DEF AllSeis

(* Generating a SEI appends it, and the plugin owes its signature.         *)
LEMMA Generated ==
  ASSUME Typed, NEW isCertificate \in BOOLEAN, Generates(isCertificate)
  PROVE  /\ seis' \in Seq(SeiType) /\ queue' \in Seq(OwedType)
         /\ queue' = Append(queue, NewOwed)
         /\ AllSeis' \in Seq(SeiType)
         /\ Len(AllSeis') = Len(AllSeis) + 1
         /\ \A n \in DOMAIN AllSeis : n \in DOMAIN AllSeis' /\ AllSeis'[n] = AllSeis[n]
         /\ Len(AllSeis) + 1 \in DOMAIN AllSeis'
         /\ AllSeis'[Len(AllSeis) + 1] = NewSei(isCertificate)
         /\ \A n \in DOMAIN AllSeis' : n \in DOMAIN AllSeis \/ n = Len(AllSeis) + 1
<1>1. seis' = Append(seis, NewSei(isCertificate)) /\ queue' = Append(queue, NewOwed)
      /\ sent' = sent
  BY DEF Generates, GenerateSei, NewSei, NewOwed
<1>2. NewSei(isCertificate) \in SeiType /\ NewOwed \in OwedType
  BY NewSeiType DEF Generates
<1>3. seis \in Seq(SeiType) /\ sent \in Seq(SeiType) /\ queue \in Seq(OwedType)
  BY DEF Typed
<1>4. queue' \in Seq(OwedType) /\ seis' \in Seq(SeiType)
  BY <1>1, <1>2, <1>3, AppendProperties
<1>5. PICK x : x = AllSeis
  OBVIOUS
<1>6. x \in Seq(SeiType) /\ DOMAIN x = 1..Len(x) /\ Len(x) \in Nat
  BY <1>5, AllSeisType, LenProperties
<1>7. AllSeis' = Append(x, NewSei(isCertificate))
  <2>1. sent \o Append(seis, NewSei(isCertificate)) = Append(sent \o seis, NewSei(isCertificate))
    BY <1>2, <1>3, JoinedAppend
  <2> QED BY <1>1, <1>5, <2>1 DEF AllSeis
<1>8. /\ AllSeis' \in Seq(SeiType) /\ Len(AllSeis') = Len(x) + 1
      /\ AllSeis'[Len(x) + 1] = NewSei(isCertificate)
      /\ \A n \in 1..Len(x) : AllSeis'[n] = x[n]
  BY <1>2, <1>6, <1>7, AppendProperties
<1>9. DOMAIN AllSeis' = 1..(Len(x) + 1)
  BY <1>8, LenProperties
<1>10. \A n \in DOMAIN x : n \in DOMAIN AllSeis' /\ AllSeis'[n] = x[n]
  BY <1>6, <1>8, <1>9
<1>11. \A n \in DOMAIN AllSeis' : n \in DOMAIN x \/ n = Len(x) + 1
  BY <1>6, <1>9
<1>12. Len(x) + 1 \in DOMAIN AllSeis'
  BY <1>6, <1>9
<1> QED BY <1>1, <1>4, <1>5, <1>8, <1>10, <1>11, <1>12
LEMMA WithSignatureType ==
  ASSUME NEW sei \in SeiType, NEW owed \in OwedType, NEW before \in BOOLEAN
  PROVE  /\ WithSignature(sei, owed, before) \in SeiType
         /\ WithSignature(sei, owed, before).signature # Unsigned
         /\ WithSignature(sei, owed, before).signature.key = owed.key
         /\ WithSignature(sei, owed, before).signature.of = owed.of
         /\ WithSignature(sei, owed, before).signature.epb = before
         /\ WithSignature(sei, owed, before).number = sei.number
         /\ WithSignature(sei, owed, before).chain = sei.chain
         /\ WithSignature(sei, owed, before).epb = sei.epb
         /\ WithSignature(sei, owed, before).isCertificate = sei.isCertificate
         /\ WithSignature(sei, owed, before).algo = sei.algo
         /\ WithSignature(sei, owed, before).hashedWith = sei.hashedWith
         /\ WithSignature(sei, owed, before).list = sei.list
<1> DEFINE new == [key |-> owed.key, of |-> owed.of, epb |-> before]
<1>1. owed.key \in Keys /\ owed.of \in Nat
  BY DEF OwedType
<1>2. owed.key # 0
  BY <1>1, KeysNotZero
<1>3. new # Unsigned
  BY <1>2 DEF Unsigned
<1>4. new \in SignatureType
  BY <1>1 DEF SignatureType
<1> HIDE DEF new
<1>5. [sei EXCEPT !.signature = new] \in SeiType
  BY <1>4 DEF SeiType
<1>6. WithSignature(sei, owed, before) = [sei EXCEPT !.signature = new]
  BY DEF WithSignature, new
<1>7. /\ [sei EXCEPT !.signature = new].signature = new
      /\ [sei EXCEPT !.signature = new].number = sei.number
      /\ [sei EXCEPT !.signature = new].chain = sei.chain
      /\ [sei EXCEPT !.signature = new].epb = sei.epb
      /\ [sei EXCEPT !.signature = new].isCertificate = sei.isCertificate
      /\ [sei EXCEPT !.signature = new].algo = sei.algo
      /\ [sei EXCEPT !.signature = new].hashedWith = sei.hashedWith
      /\ [sei EXCEPT !.signature = new].list = sei.list
  BY DEF SeiType
<1>8. new.key = owed.key /\ new.of = owed.of /\ new.epb = before
  BY DEF new
<1> QED BY <1>3, <1>5, <1>6, <1>7, <1>8

(* complete_sei() goes from the oldest SEI without a signature on, and a   *)
(* SEI is fetched only with its signature.                                 *)
LEMMA Fetched ==
  ASSUME Typed, NEW c \in Nat, InTurnAt(c), NEW ready \in Nat, NEW isPrimary \in BOOLEAN,
         GetSei(ready, isPrimary)
  PROVE  /\ ready <= Len(queue)
         /\ queue' = SubSeq(queue, ready + 1, Len(queue))
         /\ seis' \in Seq(SeiType) /\ sent' \in Seq(SeiType)
         /\ AllSeis' \in Seq(SeiType)
         /\ Len(AllSeis') = Len(AllSeis) /\ DOMAIN AllSeis' = DOMAIN AllSeis
         /\ Len(sent') <= c + ready
         /\ \A n \in DOMAIN AllSeis :
              AllSeis'[n] = IF n - c \in 1..ready
                            THEN WithSignature(AllSeis[n], queue[n - c], epb)
                            ELSE AllSeis[n]
<1> DEFINE d == c - Len(sent)
           complete == {i \in DOMAIN seis : seis[i].signature # Unsigned}
           Completed(i) ==
             LET k == i - Cardinality(complete)
             IN  IF k \in 1..ready
                 THEN [seis[i] EXCEPT !.signature =
                         [key |-> queue[k].key, of |-> queue[k].of, epb |-> epb]]
                 ELSE seis[i]
           completed == [i \in DOMAIN seis |-> Completed(i)]
           fetches == isPrimary /\ completed # <<>> /\ completed[1].signature # Unsigned
<1>0. /\ ready <= Len(queue)
      /\ queue' = SubSeq(queue, ready + 1, Len(queue))
      /\ seis' = IF fetches THEN Tail(completed) ELSE completed
      /\ sent' = IF fetches THEN Append(sent, completed[1]) ELSE sent
  BY DEF GetSei
<1> HIDE DEF completed, fetches
<1>1. /\ seis \in Seq(SeiType) /\ sent \in Seq(SeiType) /\ queue \in Seq(OwedType)
      /\ AllSeis \in Seq(SeiType)
      /\ Len(sent) \in Nat /\ Len(seis) \in Nat /\ Len(queue) \in Nat
      /\ Len(AllSeis) = Len(sent) + Len(seis)
      /\ DOMAIN AllSeis = 1..Len(AllSeis)
      /\ DOMAIN seis = 1..Len(seis)
      /\ \A i \in DOMAIN seis :
           Len(sent) + i \in DOMAIN AllSeis /\ AllSeis[Len(sent) + i] = seis[i]
  BY AllSeisType
<1>2. Len(sent) <= c /\ c + Len(queue) <= Len(AllSeis) /\ SignedUpTo(AllSeis, c)
  BY DEF InTurnAt
<1>3. d \in Nat /\ d + Len(queue) <= Len(seis)
  BY <1>1, <1>2
<1>4. \A i \in DOMAIN seis : seis[i].signature # Unsigned <=> i <= d
  <2>1. ASSUME NEW i \in DOMAIN seis
        PROVE  seis[i].signature # Unsigned <=> i <= d
    <3>1. seis[i].signature # Unsigned <=> Len(sent) + i <= c
      BY <1>1, <1>2 DEF SignedUpTo
    <3> QED BY <1>1, <3>1
  <2> QED BY <2>1
<1>5. complete = 1..d
  BY <1>1, <1>3, <1>4
<1> HIDE DEF d, complete, Completed
<1>6. Cardinality(complete) = d
  <2>1. 1 \in Int /\ d \in Int
    BY <1>3
  <2>2. Cardinality(1..d) = IF 1 > d THEN 0 ELSE d - 1 + 1
    BY ONLY <2>1, FS_Interval
  <2>3. Cardinality(1..d) = d
    BY ONLY <1>3, <2>2
  <2> QED BY <1>5, <2>3
<1>7. \A i : Completed(i) = IF i - d \in 1..ready
                           THEN WithSignature(seis[i], queue[i - d], epb) ELSE seis[i]
  BY <1>6 DEF WithSignature, Completed
<1>8. ASSUME NEW i \in DOMAIN seis
      PROVE  Completed(i) \in SeiType
  <2>1. seis[i] \in SeiType
    BY <1>1, ElementOfSeq
  <2>2. CASE i - d \in 1..ready
    <3>1. i - d \in 1..Len(queue)
      BY <1>0, <1>1, <2>2
    <3>2. queue[i - d] \in OwedType
      BY <1>1, <3>1, ElementOfSeq
    <3>3. epb \in BOOLEAN
      BY DEF Typed
    <3>4. WithSignature(seis[i], queue[i - d], epb) \in SeiType
      BY <2>1, <3>2, <3>3, WithSignatureType
    <3> QED BY <1>7, <2>2, <3>4
  <2>3. CASE ~(i - d \in 1..ready)
    BY <1>7, <2>1, <2>3
  <2> QED BY <2>2, <2>3
<1>9. completed \in Seq(SeiType) /\ Len(completed) = Len(seis)
  <2>1. completed \in [1..Len(seis) -> SeiType]
    BY <1>1, <1>8 DEF completed
  <2>2. completed \in Seq(SeiType)
    BY <1>1, <2>1, SeqDef
  <2>3. DOMAIN completed = 1..Len(seis)
    BY <1>1 DEF completed
  <2>4. DOMAIN completed = 1..Len(completed) /\ Len(completed) \in Nat
    BY <2>2, LenProperties
  <2> QED BY ONLY <1>1, <2>2, <2>3, <2>4
<1>10. DOMAIN completed = DOMAIN seis /\ \A i \in DOMAIN seis : completed[i] = Completed(i)
  BY DEF completed
<1>11. completed # <<>> => completed[1] = Completed(1) /\ 1 \in DOMAIN seis
  <2>1. ASSUME completed # <<>>
        PROVE  1 \in DOMAIN seis
    <3>1. Len(completed) # 0
      BY <1>9, <2>1, EmptySeq
    <3> QED BY <1>1, <1>9, <3>1
  <2> QED BY <2>1, <1>10
<1>12. fetches => Len(sent) + 1 <= c + ready
  <2>1. ASSUME fetches, ~(Len(sent) + 1 <= c + ready)
        PROVE  FALSE
    <3>1. d = 0 /\ ready = 0
      BY <1>1, <1>2, <2>1 DEF d
    <3>2. 1 \in DOMAIN seis /\ completed[1] = Completed(1)
      BY <1>11, <2>1 DEF fetches
    <3>3. Completed(1) = seis[1]
      BY <1>7, <3>1
    <3>4. seis[1].signature = Unsigned
      BY <1>4, <3>1, <3>2
    <3> QED BY <2>1, <3>2, <3>3, <3>4 DEF fetches
  <2> QED BY <2>1
<1>13. AllSeis' = sent \o completed /\ seis' \in Seq(SeiType) /\ sent' \in Seq(SeiType)
       /\ Len(sent') <= c + ready
  <2>1. CASE fetches
    <3>1. completed # <<>> /\ completed[1] \in SeiType /\ Tail(completed) \in Seq(SeiType)
      BY <1>1, <1>8, <1>9, <1>11, <2>1, HeadTailProperties DEF fetches
    <3>2. Append(sent, completed[1]) \o Tail(completed) = sent \o completed
      BY <1>1, <1>9, <3>1, HeadMoves
    <3>3. Append(sent, completed[1]) \in Seq(SeiType)
          /\ Len(Append(sent, completed[1])) = Len(sent) + 1
      BY <1>1, <3>1, AppendProperties
    <3> QED BY <1>0, <1>12, <2>1, <3>1, <3>2, <3>3 DEF AllSeis
  <2>2. CASE ~fetches
    <3>1. seis' = completed /\ sent' = sent
      BY <1>0, <2>2
    <3>2. Len(sent) <= c + ready
      BY <1>1, <1>2
    <3> QED BY <1>1, <1>9, <3>1, <3>2 DEF AllSeis
  <2> QED BY <2>1, <2>2
<1>14. /\ sent \o completed \in Seq(SeiType)
       /\ Len(sent \o completed) = Len(AllSeis)
       /\ DOMAIN (sent \o completed) = DOMAIN AllSeis
       /\ DOMAIN completed = DOMAIN seis
       /\ \A n \in DOMAIN sent : (sent \o completed)[n] = sent[n]
       /\ \A i \in DOMAIN completed : (sent \o completed)[Len(sent) + i] = completed[i]
  <2>1. /\ sent \o completed \in Seq(SeiType)
        /\ Len(sent \o completed) = Len(sent) + Len(completed)
        /\ DOMAIN (sent \o completed) = 1..(Len(sent) + Len(completed))
        /\ \A n \in DOMAIN sent : (sent \o completed)[n] = sent[n]
        /\ \A i \in DOMAIN completed : (sent \o completed)[Len(sent) + i] = completed[i]
    <3>1. sent \in Seq(SeiType) /\ completed \in Seq(SeiType)
      BY <1>1, <1>9
    <3> QED BY ONLY <3>1, JoinedElements
  <2> QED BY <1>1, <1>9, <1>10, <2>1
<1>15. ASSUME NEW n \in DOMAIN AllSeis
       PROVE  (sent \o completed)[n] =
                IF n - c \in 1..ready THEN WithSignature(AllSeis[n], queue[n - c], epb)
                ELSE AllSeis[n]
  <2>1. CASE n \in DOMAIN sent /\ AllSeis[n] = sent[n]
    <3>1. ~(n - c \in 1..ready)
      <4>1. n \in 1..Len(sent)
        BY <1>1, <2>1, LenProperties
      <4> QED BY <1>1, <1>2, <4>1
    <3> QED BY <1>14, <2>1, <3>1
  <2>2. CASE n - Len(sent) \in DOMAIN seis /\ AllSeis[n] = seis[n - Len(sent)]
    <3> DEFINE i == n - Len(sent)
    <3>1. n \in Int /\ i \in Int /\ n = Len(sent) + i /\ i - d = n - c
      BY <1>1 DEF d
    <3>2. (sent \o completed)[n] = Completed(i)
      BY <1>10, <1>14, <2>2, <3>1
    <3>3. AllSeis[n] = seis[i]
      BY <2>2
    <3> QED BY <1>7, <3>1, <3>2, <3>3
  <2>3. \/ n \in DOMAIN sent /\ (sent \o seis)[n] = sent[n]
        \/ n - Len(sent) \in DOMAIN seis /\ (sent \o seis)[n] = seis[n - Len(sent)]
    BY <1>1, JoinedElements DEF AllSeis
  <2> QED BY <2>1, <2>2, <2>3 DEF AllSeis
<1>16. \A n \in DOMAIN AllSeis :
         AllSeis'[n] = IF n - c \in 1..ready
                       THEN WithSignature(AllSeis[n], queue[n - c], epb)
                       ELSE AllSeis[n]
  BY <1>13, <1>15
<1>17. AllSeis' \in Seq(SeiType) /\ Len(AllSeis') = Len(AllSeis)
       /\ DOMAIN AllSeis' = DOMAIN AllSeis
  BY <1>13, <1>14
<1> QED BY <1>0, <1>13, <1>16, <1>17
LEMMA SingleTyped ==
  ASSUME NEW S, NEW e \in S
  PROVE  <<e>> \in Seq(S)
  OBVIOUS

LEMMA PartTyped ==
  ASSUME Typed, NEW isLast \in BOOLEAN
  PROVE  Part(isLast) \in PartType
<1>1. nalus + 1 \in Nat /\ nalus \in Nat /\ given \in {0, 1}
  BY DEF Typed
<1>2. (~inPart) \in BOOLEAN /\ (given = 0) \in BOOLEAN
  OBVIOUS
<1> QED BY <1>1, <1>2 DEF Part, PartType

LEMMA DigestTyped ==
  ASSUME Typed
  PROVE  Digest \in DigestType
<1>1. Part(TRUE) \in PartType
  BY PartTyped
<1>2. context \in Seq(PartType) /\ algo \in Algos
  BY DEF Typed
<1>3. Append(context, Part(TRUE)) \in Seq(PartType)
  BY <1>1, <1>2, AppendProperties
<1>4. <<Part(TRUE)>> \in Seq(PartType)
  BY <1>1, SingleTyped
<1> QED BY <1>2, <1>3, <1>4 DEF Digest, DigestType

LEMMA GivePartTyped ==
  ASSUME Typed, NEW isLast \in BOOLEAN, GivePart(isLast)
  PROVE  /\ nalus' \in Nat /\ inPart' \in BOOLEAN
         /\ UNCHANGED <<certificateSei, epb, algo, chain, anchor, memory, plugin, sent>>
<1>1. Part(isLast) \in PartType
  BY PartTyped
<1>2. inPart' \in BOOLEAN
  BY DEF GivePart
<1> QED BY <1>1, <1>2 DEF GivePart, PartType, settings, keys

LEMMA TypedStep == Typed /\ InTurn /\ [Next]_vars => Typed'
<1> SUFFICES ASSUME Typed, InTurn, [Next]_vars PROVE Typed'
  OBVIOUS
<1>1. CASE UNCHANGED vars
  BY <1>1 DEF Typed, vars, keys, settings, hashing
<1>2. ASSUME NEW key \in Keys, KeyPair(key)
      PROVE  Typed'
  <2>1. <<>> \in Seq(OwedType)
    OBVIOUS
  <2>2. queue' \in Seq(OwedType)
    BY <1>2, <2>1, KeyPairStep DEF Typed
  <2>3. plugin' \in Keys \cup {0} /\ anchor' \in Keys \cup {0} /\ memory' \in Keys \cup {0}
    BY <1>2, KeyPairStep DEF Typed
  <2>4. key # 0
    BY KeysNotZero
  <2> QED BY <1>2, <2>2, <2>3, <2>4, KeyPairStep DEF Typed, settings, hashing
<1>3. ASSUME NEW enable \in BOOLEAN, SetUseCertificateSei(enable)
      PROVE  Typed'
  BY <1>3 DEF Typed, SetUseCertificateSei, Setting, Call, keys, hashing
<1>4. ASSUME NEW enable \in BOOLEAN, SetEmulationPrevention(enable)
      PROVE  Typed'
  BY <1>4 DEF Typed, SetEmulationPrevention, Setting, Call, keys, hashing
<1>5. ASSUME NEW new \in Algos, SetHashAlgo(new)
      PROVE  Typed'
  <2>1. <<>> \in Seq(PartType)
    OBVIOUS
  <2> QED BY <1>5, <2>1 DEF Typed, SetHashAlgo, Setting, Call, keys
<1>6. CASE Reset
  <2>1. <<>> \in Seq(PartType) /\ <<>> \in Seq(DigestType)
    OBVIOUS
  <2> QED BY <1>6, <2>1 DEF Typed, Reset, Call, keys
<1>7. CASE GenerateCertificateSei
  <2>1. Generates(TRUE)
    BY <1>7 DEF Generates, GenerateCertificateSei, Call, keys, settings
  <2>2. <<>> \in Seq(DigestType)
    OBVIOUS
  <2>3. seis' \in Seq(SeiType) /\ queue' \in Seq(OwedType)
    BY <2>1, Generated
  <2> QED BY <1>7, <2>2, <2>3 DEF Typed, GenerateCertificateSei, Call, keys, settings
<1>8. ASSUME NEW isLast \in BOOLEAN, AddPartRefused(isLast)
      PROVE  Typed'
  <2>1. GivePart(isLast)
    BY <1>8 DEF AddPartRefused
  <2> QED BY <1>8, <2>1, GivePartTyped DEF Typed, AddPartRefused
<1>9. CASE AddPart
  <2>1. GivePart(FALSE)
    BY <1>9 DEF AddPart
  <2>2. Part(FALSE) \in PartType /\ context \in Seq(PartType)
    BY PartTyped DEF Typed
  <2>3. Append(context, Part(FALSE)) \in Seq(PartType) /\ <<Part(FALSE)>> \in Seq(PartType)
    BY <2>2, AppendProperties, SingleTyped
  <2>4. context' \in Seq(PartType)
    BY <1>9, <2>3 DEF AddPart
  <2> QED BY <1>9, <2>1, <2>4, GivePartTyped DEF Typed, AddPart
<1>10. ASSUME AddLastPart \/ AddFirstOfGop
       PROVE  Typed'
  <2>1. GivePart(TRUE) /\ given' = 0 /\ started' = TRUE /\ hasGop' \in BOOLEAN
    BY <1>10 DEF AddLastPart, AddFirstOfGop, Typed
  <2>2. Digest \in DigestType /\ list \in Seq(DigestType)
    BY DigestTyped DEF Typed
  <2>3. Append(list, Digest) \in Seq(DigestType) /\ <<Digest>> \in Seq(DigestType)
    BY <2>2, AppendProperties, SingleTyped
  <2>4. <<>> \in Seq(PartType) /\ context \in Seq(PartType)
    BY DEF Typed
  <2>5. context' \in Seq(PartType) /\ list' \in Seq(DigestType)
    BY <1>10, <2>3, <2>4 DEF AddLastPart, AddFirstOfGop
  <2>6. seis' \in Seq(SeiType) /\ queue' \in Seq(OwedType)
    <3>1. CASE UNCHANGED <<queue, seis>>
      BY <3>1 DEF Typed
    <3>2. CASE AddFirstOfGop /\ started /\ hasGop
      <4>1. UNCHANGED <<sent, plugin, chain, epb, algo>>
        BY <2>1, GivePartTyped
      <4>2. Generates(FALSE)
        BY <3>2, <4>1 DEF Generates, AddFirstOfGop
      <4> QED BY <4>2, Generated
    <3> QED BY <1>10, <3>1, <3>2 DEF AddLastPart, AddFirstOfGop
  <2> QED BY <2>1, <2>5, <2>6, GivePartTyped DEF Typed
<1>11. ASSUME NEW ready \in 0..MAX_SEI_DATA_BUFFER, NEW isPrimary \in BOOLEAN,
              GetSei(ready, isPrimary)
       PROVE  Typed'
  <2>1. PICK c \in Nat : InTurnAt(c)
    BY DEF InTurn
  <2>2. ready \in Nat
    BY SetupAssumption
  <2>3. seis' \in Seq(SeiType) /\ sent' \in Seq(SeiType) /\ ready <= Len(queue)
        /\ queue' = SubSeq(queue, ready + 1, Len(queue))
    BY <1>11, <2>1, <2>2, Fetched
  <2>4. queue \in Seq(OwedType) /\ Len(queue) \in Nat
    BY AllSeisType
  <2>6. queue' \in Seq(OwedType)
    BY <2>2, <2>3, <2>4, WithoutFirst
  <2>7. UNCHANGED <<started, settings, keys, hashing>>
    BY <1>11 DEF GetSei
  <2> QED BY <2>3, <2>6, <2>7 DEF Typed, settings, keys, hashing
<1> QED
  BY <1>1, <1>2, <1>3, <1>4, <1>5, <1>6, <1>7, <1>8, <1>9, <1>10, <1>11 DEF Next

LEMMA InitHolds == Init => IInv
<1> SUFFICES ASSUME Init PROVE IInv
  OBVIOUS
<1>1. seis = <<>> /\ sent = <<>> /\ queue = <<>> /\ list = <<>> /\ context = <<>>
  BY DEF Init
<1>2. /\ <<>> \in Seq(SeiType) /\ <<>> \in Seq(OwedType)
      /\ <<>> \in Seq(DigestType) /\ <<>> \in Seq(PartType)
  OBVIOUS
<1>3. Typed
  BY <1>1, <1>2, KeysNotZero DEF Init, Typed
<1>4. Len(queue) = 0 /\ Len(sent) = 0 /\ DOMAIN queue = {} /\ DOMAIN list = {}
  BY <1>1
<1>5. AllSeis = <<>>
  BY <1>1, <1>2, ConcatEmptySeq DEF AllSeis
<1>6. Len(AllSeis) = 0 /\ DOMAIN AllSeis = {}
  BY <1>5
<1>7. InTurnAt(0)
  BY <1>4, <1>6 DEF InTurnAt, SignedUpTo, Owes
<1>8. OneKey /\ EncodedAlike /\ AlgorithmIsTold
  BY <1>4, <1>6 DEF Init, OneKey, EncodedAlike, AlgorithmIsTold
<1>9. Whole
  <2>1. given # 1 /\ inPart = FALSE
    BY DEF Init
  <2>2. inPart <=> given = 1
    BY <2>1
  <2> QED BY <1>1, <1>4, <1>6, <2>1, <2>2 DEF Whole, WholeList
<1> QED BY <1>3, <1>7, <1>8, <1>9 DEF IInv, InTurn
-----------------------------------------------------------------------------
(* The order is kept.                                                      *)

LEMMA SettingStep ==
  ASSUME \/ \E enable \in BOOLEAN : SetEmulationPrevention(enable)
         \/ \E new \in Algos : SetHashAlgo(new)
  PROVE  UNCHANGED <<sent, seis, queue, plugin, chain>> /\ disturbed \subseteq disturbed'
<1>1. ASSUME NEW enable \in BOOLEAN, SetEmulationPrevention(enable)
      PROVE  UNCHANGED <<sent, seis, queue, plugin, chain>> /\ disturbed \subseteq disturbed'
  BY <1>1 DEF SetEmulationPrevention, Setting, Call, keys
<1>2. ASSUME NEW new \in Algos, SetHashAlgo(new)
      PROVE  UNCHANGED <<sent, seis, queue, plugin, chain>> /\ disturbed \subseteq disturbed'
  BY <1>2 DEF SetHashAlgo, Setting, Call, keys
<1> QED BY <1>1, <1>2

LEMMA KeyPairInTurn ==
  ASSUME Typed, OneKey, NEW c \in Nat, InTurnAt(c), NEW key \in Keys, KeyPair(key)
  PROVE  InTurnAt(c)'
<1>1. UNCHANGED <<sent, seis>> /\ AllSeis' = AllSeis
  BY KeyPairStep, SameSeis
<1>2. Len(queue') \in {0, Len(queue)}
  <2>1. queue' = queue \/ queue' = <<>>
    BY KeyPairStep
  <2> QED BY <2>1
<1>3. /\ Len(queue) \in Nat /\ Len(AllSeis) \in Nat /\ Len(sent) \in Nat
      /\ queue \in Seq(OwedType)
  BY AllSeisType
<1>4. Len(sent') <= c /\ c + Len(queue') <= Len(AllSeis') /\ SignedUpTo(AllSeis', c)
  BY <1>1, <1>2, <1>3 DEF InTurnAt
<1>5. ASSUME "keys" \notin disturbed'
      PROVE  Owes(AllSeis', queue', c)
  <2>1. plugin = 0 /\ "keys" \notin disturbed
    BY <1>5, KeyPairStep
  <2>2. Len(AllSeis) = 0
    BY <2>1 DEF OneKey
  <2>3. c = 0 /\ Len(queue) = 0
    BY <1>3, <2>2 DEF InTurnAt
  <2>4. queue = <<>>
    BY <1>3, <2>3, EmptySeq
  <2>5. queue' = <<>>
    BY <2>4, KeyPairStep
  <2> QED BY <1>1, <2>2, <2>3, <2>5 DEF Owes
<1> QED BY <1>4, <1>5 DEF InTurnAt

LEMMA GeneratedInTurn ==
  ASSUME Typed, NEW c \in Nat, InTurnAt(c),
         NEW isCertificate \in BOOLEAN, Generates(isCertificate)
  PROVE  InTurnAt(c)'
<1> DEFINE new == NewSei(isCertificate)
<1>1. /\ queue' = Append(queue, NewOwed)
      /\ Len(AllSeis') = Len(AllSeis) + 1
      /\ \A n \in DOMAIN AllSeis : n \in DOMAIN AllSeis' /\ AllSeis'[n] = AllSeis[n]
      /\ Len(AllSeis) + 1 \in DOMAIN AllSeis'
      /\ AllSeis'[Len(AllSeis) + 1] = new
      /\ \A n \in DOMAIN AllSeis' : n \in DOMAIN AllSeis \/ n = Len(AllSeis) + 1
  BY Generated
<1>2. /\ queue \in Seq(OwedType) /\ Len(queue) \in Nat /\ Len(sent) \in Nat
      /\ Len(seis) \in Nat /\ Len(AllSeis) = Len(sent) + Len(seis)
      /\ DOMAIN AllSeis = 1..Len(AllSeis)
  BY AllSeisType
<1>3. NewOwed \in OwedType
  BY NewSeiType DEF Generates
<1>4. Len(queue') = Len(queue) + 1 /\ DOMAIN queue = 1..Len(queue)
      /\ DOMAIN queue' = 1..(Len(queue) + 1)
      /\ queue'[Len(queue) + 1] = NewOwed /\ \A k \in 1..Len(queue) : queue'[k] = queue[k]
  <2>1. Append(queue, NewOwed) \in Seq(OwedType)
    BY <1>2, <1>3, AppendProperties
  <2> QED BY <1>1, <1>2, <1>3, <2>1, AppendProperties, LenProperties
<1>5. new.signature = Unsigned /\ new.number = Len(AllSeis) + 1
      /\ NewOwed.of = Len(AllSeis) + 1
  BY <1>2 DEF NewSei, NewOwed
<1>6. Len(sent) <= c /\ c + Len(queue) <= Len(AllSeis) /\ SignedUpTo(AllSeis, c)
      /\ ("keys" \notin disturbed => Owes(AllSeis, queue, c))
  BY DEF InTurnAt
<1> HIDE DEF new
<1>7. SignedUpTo(AllSeis', c)
  <2>1. ASSUME NEW n \in DOMAIN AllSeis'
        PROVE  AllSeis'[n].signature # Unsigned <=> n <= c
    <3>1. CASE n \in DOMAIN AllSeis
      BY <1>1, <1>6, <3>1 DEF SignedUpTo
    <3>2. CASE n = Len(AllSeis) + 1
      <4>1. ~(n <= c)
        BY <1>2, <1>6, <3>2
      <4> QED BY <1>1, <1>5, <3>2, <4>1
    <3> QED BY <1>1, <3>1, <3>2
  <2> QED BY <2>1 DEF SignedUpTo
<1>8. ASSUME "keys" \notin disturbed'
      PROVE  Owes(AllSeis', queue', c)
  <2>1. Owes(AllSeis, queue, c)
    BY <1>6, <1>8 DEF Generates
  <2>2. c + Len(queue) = Len(AllSeis)
    BY <2>1 DEF Owes
  <2>3. c + Len(queue') = Len(AllSeis')
    BY <1>1, <1>2, <1>4, <2>2
  <2>4. ASSUME NEW k \in DOMAIN queue'
        PROVE  queue'[k].of = AllSeis'[c + k].number
    <3>1. CASE k \in 1..Len(queue)
      <4>1. c + k \in DOMAIN AllSeis
        BY <1>2, <2>2, <3>1
      <4>2. queue[k].of = AllSeis[c + k].number
        BY <1>4, <2>1, <3>1 DEF Owes
      <4> QED BY <1>1, <1>4, <3>1, <4>1, <4>2
    <3>2. CASE k = Len(queue) + 1
      <4>1. c + k = Len(AllSeis) + 1
        BY <1>2, <2>2, <3>2
      <4> QED BY <1>1, <1>4, <1>5, <3>2, <4>1
    <3>3. k \in 1..(Len(queue) + 1)
      BY <1>4
    <3> QED BY <1>2, <3>1, <3>2, <3>3
  <2> QED BY <2>3, <2>4 DEF Owes
<1>9. sent' = sent
  BY DEF Generates
<1>10. Len(sent') <= c /\ c + Len(queue') <= Len(AllSeis')
  BY <1>1, <1>2, <1>4, <1>6, <1>9
<1> QED BY <1>7, <1>8, <1>10 DEF InTurnAt

LEMMA FetchedInTurn ==
  ASSUME Typed, NEW c \in Nat, InTurnAt(c), NEW ready \in Nat, NEW isPrimary \in BOOLEAN,
         GetSei(ready, isPrimary)
  PROVE  InTurnAt(c + ready)'
<1>1. /\ ready <= Len(queue)
      /\ queue' = SubSeq(queue, ready + 1, Len(queue))
      /\ AllSeis' \in Seq(SeiType)
      /\ Len(AllSeis') = Len(AllSeis) /\ DOMAIN AllSeis' = DOMAIN AllSeis
      /\ Len(sent') <= c + ready
      /\ \A n \in DOMAIN AllSeis :
           AllSeis'[n] = IF n - c \in 1..ready
                         THEN WithSignature(AllSeis[n], queue[n - c], epb)
                         ELSE AllSeis[n]
  BY Fetched
<1>2. /\ queue \in Seq(OwedType) /\ Len(queue) \in Nat
      /\ AllSeis \in Seq(SeiType) /\ Len(AllSeis) \in Nat /\ DOMAIN AllSeis = 1..Len(AllSeis)
  BY AllSeisType, LenProperties
<1>3. Len(sent) <= c /\ c + Len(queue) <= Len(AllSeis) /\ SignedUpTo(AllSeis, c)
      /\ ("keys" \notin disturbed => Owes(AllSeis, queue, c))
  BY DEF InTurnAt
<1>4. /\ Len(queue') = Len(queue) - ready
      /\ DOMAIN queue' = 1..(Len(queue) - ready)
      /\ \A k \in 1..(Len(queue) - ready) : queue'[k] = queue[ready + k]
  BY <1>1, <1>2, WithoutFirst
<1>5. \A n \in DOMAIN AllSeis : n - c \in 1..ready => queue[n - c] \in OwedType
  <2>1. ASSUME NEW n \in DOMAIN AllSeis, n - c \in 1..ready
        PROVE  n - c \in 1..Len(queue)
    BY <1>1, <1>2, <2>1
  <2> QED BY <1>2, <2>1, ElementOfSeq
<1>6. \A n \in DOMAIN AllSeis : AllSeis[n] \in SeiType
  BY <1>2, ElementOfSeq
<1>7. epb \in BOOLEAN
  BY DEF Typed
<1>8. ASSUME NEW n \in DOMAIN AllSeis
      PROVE  /\ AllSeis'[n].number = AllSeis[n].number
             /\ AllSeis'[n].signature # Unsigned <=> n <= c + ready
  <2>1. n \in Int
    BY <1>2
  <2>2. CASE n - c \in 1..ready
    <3>1. AllSeis'[n] = WithSignature(AllSeis[n], queue[n - c], epb)
      BY <1>1, <2>2
    <3>2. n <= c + ready
      BY <2>1, <2>2
    <3> QED BY <1>5, <1>6, <1>7, <2>2, <3>1, <3>2, WithSignatureType
  <2>3. CASE ~(n - c \in 1..ready)
    <3>1. AllSeis'[n] = AllSeis[n]
      BY <1>1, <2>3
    <3>2. n <= c <=> n <= c + ready
      BY <2>1, <2>3
    <3> QED BY <1>3, <3>1, <3>2 DEF SignedUpTo
  <2> QED BY <2>2, <2>3
<1>9. SignedUpTo(AllSeis', c + ready)
  BY <1>1, <1>8 DEF SignedUpTo
<1>10. disturbed' = disturbed
  BY DEF GetSei
<1>11. ASSUME "keys" \notin disturbed'
       PROVE  Owes(AllSeis', queue', c + ready)
  <2>1. Owes(AllSeis, queue, c) /\ DOMAIN queue = 1..Len(queue)
    BY <1>2, <1>3, <1>10, <1>11, LenProperties
  <2>2. c + Len(queue) = Len(AllSeis)
    BY <2>1 DEF Owes
  <2>3. (c + ready) + Len(queue') = Len(AllSeis')
    BY <1>1, <1>2, <1>4, <2>2
  <2>4. ASSUME NEW k \in DOMAIN queue'
        PROVE  queue'[k].of = AllSeis'[(c + ready) + k].number
    <3>1. k \in 1..(Len(queue) - ready) /\ ready + k \in 1..Len(queue)
          /\ c + (ready + k) = (c + ready) + k
      BY <1>2, <1>4
    <3>2. queue'[k].of = AllSeis[c + (ready + k)].number
      BY <1>4, <2>1, <3>1 DEF Owes
    <3>3. c + (ready + k) \in DOMAIN AllSeis
      BY <1>2, <2>2, <3>1
    <3> QED BY <1>8, <3>1, <3>2, <3>3
  <2> QED BY <2>3, <2>4 DEF Owes
<1>12. (c + ready) + Len(queue') <= Len(AllSeis')
  <2>1. Len(AllSeis') = Len(AllSeis) /\ Len(queue') = Len(queue) - ready
    BY <1>1, <1>4
  <2>2. Len(queue) \in Nat /\ Len(AllSeis) \in Nat /\ c + Len(queue) <= Len(AllSeis)
    BY <1>2, <1>3
  <2>3. (c + ready) + (Len(queue) - ready) <= Len(AllSeis)
    BY ONLY <2>2, c \in Nat, ready \in Nat
  <2> QED BY <2>1, <2>3
<1> QED BY <1>1, <1>9, <1>11, <1>12 DEF InTurnAt

LEMMA InTurnStep == Typed /\ InTurn /\ OneKey /\ [Next]_vars => InTurn'
<1> SUFFICES ASSUME Typed, InTurn, OneKey, [Next]_vars PROVE InTurn'
  OBVIOUS
<1>1. PICK c \in Nat : InTurnAt(c)
  BY DEF InTurn
<1>2. ASSUME UNCHANGED <<sent, seis, queue>>, disturbed \subseteq disturbed'
      PROVE  InTurnAt(c)'
  BY <1>1, <1>2, SameSeis DEF InTurnAt
<1>3. CASE Quiet
  BY <1>2, <1>3 DEF Quiet, InTurn
<1>4. ASSUME NEW key \in Keys, KeyPair(key)
      PROVE  InTurn'
  BY <1>1, <1>4, KeyPairInTurn DEF InTurn
<1>5. CASE \/ \E enable \in BOOLEAN : SetEmulationPrevention(enable)
           \/ \E new \in Algos : SetHashAlgo(new)
  BY <1>2, <1>5, SettingStep DEF InTurn
<1>6. ASSUME NEW isCertificate \in BOOLEAN, Generates(isCertificate)
      PROVE  InTurn'
  BY <1>1, <1>6, GeneratedInTurn DEF InTurn
<1>7. ASSUME NEW ready \in 0..MAX_SEI_DATA_BUFFER, NEW isPrimary \in BOOLEAN,
             GetSei(ready, isPrimary)
      PROVE  InTurn'
  <2>1. ready \in Nat /\ c + ready \in Nat
    BY SetupAssumption
  <2>2. InTurnAt(c + ready)'
    BY <1>1, <1>7, <2>1, FetchedInTurn
  <2> QED BY <2>1, <2>2 DEF InTurn
<1> QED BY <1>3, <1>4, <1>5, <1>6, <1>7, StepKinds
-----------------------------------------------------------------------------
(* What SEIs say, and their signatures.                                    *)

LEMMA FetchedSeis ==
  ASSUME Typed, NEW c \in Nat, InTurnAt(c), NEW ready \in Nat, NEW isPrimary \in BOOLEAN,
         GetSei(ready, isPrimary), NEW n \in DOMAIN AllSeis
  PROVE  /\ AllSeis'[n].number = AllSeis[n].number
         /\ AllSeis'[n].chain = AllSeis[n].chain
         /\ AllSeis'[n].epb = AllSeis[n].epb
         /\ AllSeis'[n].isCertificate = AllSeis[n].isCertificate
         /\ AllSeis'[n].algo = AllSeis[n].algo
         /\ AllSeis'[n].hashedWith = AllSeis[n].hashedWith
         /\ AllSeis'[n].list = AllSeis[n].list
         /\ \/ AllSeis'[n].signature = AllSeis[n].signature
            \/ /\ n - c \in DOMAIN queue
               /\ AllSeis[n].signature = Unsigned
               /\ AllSeis'[n].signature # Unsigned
               /\ AllSeis'[n].signature.key = queue[n - c].key
               /\ AllSeis'[n].signature.of = queue[n - c].of
               /\ AllSeis'[n].signature.epb = epb
<1>1. /\ ready <= Len(queue)
      /\ AllSeis'[n] = IF n - c \in 1..ready
                       THEN WithSignature(AllSeis[n], queue[n - c], epb)
                       ELSE AllSeis[n]
  BY Fetched
<1>2. /\ queue \in Seq(OwedType) /\ Len(queue) \in Nat /\ DOMAIN queue = 1..Len(queue)
      /\ AllSeis \in Seq(SeiType) /\ DOMAIN AllSeis = 1..Len(AllSeis) /\ n \in Int
  BY AllSeisType, LenProperties
<1>3. CASE n - c \in 1..ready
  <2>1. n - c \in DOMAIN queue
    BY <1>1, <1>2, <1>3
  <2>2. queue[n - c] \in OwedType /\ AllSeis[n] \in SeiType
    BY <1>2, <2>1, ElementOfSeq
  <2>3. epb \in BOOLEAN
    BY DEF Typed
  <2>4. AllSeis[n].signature = Unsigned
    <3>1. ~(n <= c)
      BY <1>2, <1>3
    <3> QED BY <3>1 DEF InTurnAt, SignedUpTo
  <2>5. AllSeis'[n] = WithSignature(AllSeis[n], queue[n - c], epb)
    BY <1>1, <1>3
  <2> QED BY <2>1, <2>2, <2>3, <2>4, <2>5, WithSignatureType
<1>4. CASE ~(n - c \in 1..ready)
  BY <1>1, <1>4
<1> QED BY <1>3, <1>4

LEMMA GeneratedSeis ==
  ASSUME Typed, NEW isCertificate \in BOOLEAN, Generates(isCertificate),
         NEW n \in DOMAIN AllSeis'
  PROVE  \/ n \in DOMAIN AllSeis /\ AllSeis'[n] = AllSeis[n]
         \/ n = Len(AllSeis) + 1 /\ AllSeis'[n] = NewSei(isCertificate)
  BY Generated

LEMMA OneKeyStep == Typed /\ InTurn /\ OneKey /\ [Next]_vars => OneKey'
<1> SUFFICES ASSUME Typed, InTurn, OneKey, [Next]_vars, "keys" \notin disturbed'
             PROVE  /\ plugin' = 0 => Len(AllSeis') = 0
                    /\ plugin' # 0 => chain' = plugin'
                    /\ \A n \in DOMAIN AllSeis' : FitsKey(AllSeis'[n], plugin')
                    /\ \A k \in DOMAIN queue' : queue'[k].key = plugin'
  BY DEF OneKey
<1> DEFINE Goal ==
      /\ plugin' = 0 => Len(AllSeis') = 0
      /\ plugin' # 0 => chain' = plugin'
      /\ \A n \in DOMAIN AllSeis' : FitsKey(AllSeis'[n], plugin')
      /\ \A k \in DOMAIN queue' : queue'[k].key = plugin'
<1>1. PICK c \in Nat : InTurnAt(c)
  BY DEF InTurn
<1>2. ASSUME UNCHANGED <<sent, seis, queue, plugin, chain>>, disturbed \subseteq disturbed'
      PROVE  Goal
  BY <1>2, SameSeis DEF OneKey
<1>3. CASE Quiet
  BY <1>2, <1>3 DEF Quiet
<1>4. ASSUME NEW key \in Keys, KeyPair(key)
      PROVE  Goal
  <2>1. plugin = 0 /\ "keys" \notin disturbed /\ AllSeis' = AllSeis
    BY <1>4, KeyPairStep, SameSeis
  <2>2. Len(AllSeis) = 0 /\ AllSeis \in Seq(SeiType) /\ DOMAIN AllSeis = {}
    <3>1. Len(AllSeis) = 0
      BY <2>1 DEF OneKey
    <3>2. AllSeis \in Seq(SeiType) /\ DOMAIN AllSeis = 1..Len(AllSeis)
      BY AllSeisType
    <3> QED BY <3>1, <3>2
  <2>3. queue' = <<>>
    <3>1. Len(queue) = 0
      BY <1>1, <2>2, AllSeisType DEF InTurnAt
    <3>2. queue = <<>>
      BY <3>1, AllSeisType, EmptySeq
    <3> QED BY <1>4, <3>2, KeyPairStep
  <2>4. plugin' # 0 => chain' = plugin'
    BY <1>4, <2>1, KeyPairStep
  <2> QED BY <2>1, <2>2, <2>3, <2>4
<1>5. CASE \/ \E enable \in BOOLEAN : SetEmulationPrevention(enable)
           \/ \E new \in Algos : SetHashAlgo(new)
  BY <1>2, <1>5, SettingStep
<1>6. ASSUME NEW isCertificate \in BOOLEAN, Generates(isCertificate)
      PROVE  Goal
  <2>1. plugin # 0 /\ plugin' = plugin /\ chain' = chain /\ "keys" \notin disturbed
    BY <1>6 DEF Generates
  <2>2. chain = plugin /\ (\A n \in DOMAIN AllSeis : FitsKey(AllSeis[n], plugin))
        /\ (\A k \in DOMAIN queue : queue[k].key = plugin)
    BY <2>1 DEF OneKey
  <2>3. FitsKey(NewSei(isCertificate), plugin)
    BY <2>2 DEF FitsKey, NewSei
  <2>4. \A n \in DOMAIN AllSeis' : FitsKey(AllSeis'[n], plugin')
    BY <1>6, <2>1, <2>2, <2>3, GeneratedSeis
  <2>5. \A k \in DOMAIN queue' : queue'[k].key = plugin
    <3>1. queue' = Append(queue, NewOwed) /\ queue' \in Seq(OwedType)
      BY <1>6, Generated
    <3>2. queue \in Seq(OwedType) /\ NewOwed \in OwedType
      BY <2>1, AllSeisType, NewSeiType
    <3>3. DOMAIN queue' = 1..(Len(queue) + 1) /\ DOMAIN queue = 1..Len(queue)
          /\ Len(queue) \in Nat
          /\ queue'[Len(queue) + 1] = NewOwed /\ \A k \in 1..Len(queue) : queue'[k] = queue[k]
      BY <3>1, <3>2, AppendProperties, LenProperties
    <3>4. ASSUME NEW k \in DOMAIN queue'
          PROVE  queue'[k].key = plugin
      <4>1. CASE k \in 1..Len(queue)
        BY <2>2, <3>3, <4>1
      <4>2. CASE k = Len(queue) + 1
        BY <3>3, <4>2 DEF NewOwed
      <4> QED BY <3>3, <4>1, <4>2
    <3> QED BY <3>4
  <2> QED BY <2>1, <2>2, <2>4, <2>5
<1>7. ASSUME NEW ready \in 0..MAX_SEI_DATA_BUFFER, NEW isPrimary \in BOOLEAN,
             GetSei(ready, isPrimary)
      PROVE  Goal
  <2>1. ready \in Nat
    BY SetupAssumption
  <2>2. UNCHANGED <<plugin, chain, disturbed>>
    BY <1>7 DEF GetSei, keys
  <2>3. /\ plugin = 0 => Len(AllSeis) = 0
        /\ plugin # 0 => chain = plugin
        /\ \A n \in DOMAIN AllSeis : FitsKey(AllSeis[n], plugin)
        /\ \A k \in DOMAIN queue : queue[k].key = plugin
    BY <2>2 DEF OneKey
  <2>4. Len(AllSeis') = Len(AllSeis) /\ DOMAIN AllSeis' = DOMAIN AllSeis
        /\ queue' = SubSeq(queue, ready + 1, Len(queue)) /\ ready <= Len(queue)
    BY <1>1, <1>7, <2>1, Fetched
  <2>5. ASSUME NEW n \in DOMAIN AllSeis
        PROVE  FitsKey(AllSeis'[n], plugin)
    <3>1. AllSeis'[n].number = AllSeis[n].number /\ AllSeis'[n].chain = AllSeis[n].chain
          /\ \/ AllSeis'[n].signature = AllSeis[n].signature
             \/ /\ n - c \in DOMAIN queue
                /\ AllSeis'[n].signature.key = queue[n - c].key
                /\ AllSeis'[n].signature.of = queue[n - c].of
      BY <1>1, <1>7, <2>1, FetchedSeis
    <3>2. FitsKey(AllSeis[n], plugin)
      BY <2>3
    <3>3. CASE AllSeis'[n].signature = AllSeis[n].signature
      BY <3>1, <3>2, <3>3 DEF FitsKey
    <3>4. CASE /\ n - c \in DOMAIN queue
               /\ AllSeis'[n].signature.key = queue[n - c].key
               /\ AllSeis'[n].signature.of = queue[n - c].of
      <4>1. queue[n - c].key = plugin
        BY <2>3, <3>4
      <4>2. queue[n - c].of = AllSeis[c + (n - c)].number
        BY <1>1, <2>2, <3>4 DEF InTurnAt, Owes
      <4>3. n \in Int /\ c + (n - c) = n
        BY AllSeisType
      <4> QED BY <3>1, <3>2, <3>4, <4>1, <4>2, <4>3 DEF FitsKey
    <3> QED BY <3>1, <3>3, <3>4
  <2>6. \A k \in DOMAIN queue' : queue'[k].key = plugin
    <3>1. queue \in Seq(OwedType) /\ Len(queue) \in Nat /\ DOMAIN queue = 1..Len(queue)
      BY AllSeisType, LenProperties
    <3>3. DOMAIN queue' = 1..(Len(queue) - ready)
          /\ \A k \in 1..(Len(queue) - ready) :
               ready + k \in DOMAIN queue /\ queue'[k] = queue[ready + k]
      BY <2>1, <2>4, <3>1, WithoutFirst
    <3>4. ASSUME NEW k \in DOMAIN queue'
          PROVE  queue'[k].key = plugin
      <4>1. ready + k \in DOMAIN queue
        BY <2>1, <3>1, <3>3
      <4> QED BY <2>3, <3>3, <4>1
    <3> QED BY <3>4
  <2> QED BY <2>2, <2>3, <2>4, <2>5, <2>6
<1> QED BY <1>3, <1>4, <1>5, <1>6, <1>7, StepKinds
LEMMA EncodedStep == Typed /\ InTurn /\ EncodedAlike /\ [Next]_vars => EncodedAlike'
<1> SUFFICES ASSUME Typed, InTurn, EncodedAlike, [Next]_vars, "waiting" \notin disturbed'
             PROVE  \A n \in DOMAIN AllSeis' : EncodedAs(AllSeis'[n], epb')
  BY DEF EncodedAlike
<1> DEFINE Goal == \A n \in DOMAIN AllSeis' : EncodedAs(AllSeis'[n], epb')
<1>1. PICK c \in Nat : InTurnAt(c)
  BY DEF InTurn
<1>2. ASSUME UNCHANGED <<sent, seis, epb>>, disturbed \subseteq disturbed'
      PROVE  Goal
  BY <1>2, SameSeis DEF EncodedAlike
<1>3. CASE Quiet
  BY <1>2, <1>3 DEF Quiet
<1>4. ASSUME NEW key \in Keys, KeyPair(key)
      PROVE  Goal
  <2>1. disturbed \subseteq disturbed'
    BY <1>4, KeyPairStep
  <2>2. UNCHANGED <<sent, seis, epb>>
    BY <1>4, KeyPairStep DEF settings
  <2> QED BY <1>2, <2>1, <2>2
<1>5. ASSUME NEW enable \in BOOLEAN, SetEmulationPrevention(enable)
      PROVE  Goal
  <2>1. UNCHANGED <<sent, seis>> /\ disturbed \subseteq disturbed' /\ epb' = enable
        /\ disturbed' = disturbed \cup
             (IF enable # epb /\ (\E sei \in Range(seis) : sei.signature = Unsigned)
              THEN {"waiting"} ELSE {})
    BY <1>5 DEF SetEmulationPrevention, Setting, Call
  <2>2. CASE enable = epb
    BY <1>2, <2>1, <2>2
  <2>3. CASE enable # epb
    <3>1. ~(\E sei \in Range(seis) : sei.signature = Unsigned)
      BY <2>1, <2>3
    <3>2. \A i \in DOMAIN seis : seis[i].signature # Unsigned
      BY <3>1 DEF Range
    <3>3. AllSeis' = AllSeis /\ "waiting" \notin disturbed
      BY <2>1, SameSeis
    <3>4. ASSUME NEW n \in DOMAIN AllSeis
          PROVE  AllSeis[n].signature # Unsigned
      <4>1. CASE n \in DOMAIN sent /\ AllSeis[n] = sent[n]
        <5>1. n <= c
          BY <1>1, <4>1, AllSeisType DEF InTurnAt
        <5> QED BY <1>1, <5>1 DEF InTurnAt, SignedUpTo
      <4>2. CASE n - Len(sent) \in DOMAIN seis /\ AllSeis[n] = seis[n - Len(sent)]
        BY <3>2, <4>2
      <4>3. seis \in Seq(SeiType) /\ sent \in Seq(SeiType)
        BY DEF Typed
      <4>4. \/ n \in DOMAIN sent /\ AllSeis[n] = sent[n]
            \/ n - Len(sent) \in DOMAIN seis /\ AllSeis[n] = seis[n - Len(sent)]
        BY <4>3, JoinedElements DEF AllSeis
      <4> QED BY <4>1, <4>2, <4>4
    <3> QED BY <3>3, <3>4 DEF EncodedAlike, EncodedAs
  <2> QED BY <2>2, <2>3
<1>6. ASSUME NEW new \in Algos, SetHashAlgo(new)
      PROVE  Goal
  <2>1. UNCHANGED <<sent, seis, epb>> /\ disturbed \subseteq disturbed'
    BY <1>6 DEF SetHashAlgo, Setting, Call
  <2> QED BY <1>2, <2>1
<1>7. ASSUME NEW isCertificate \in BOOLEAN, Generates(isCertificate)
      PROVE  Goal
  <2>1. epb' = epb /\ "waiting" \notin disturbed
    BY <1>7 DEF Generates
  <2>2. \A n \in DOMAIN AllSeis : EncodedAs(AllSeis[n], epb)
    BY <2>1 DEF EncodedAlike
  <2>3. EncodedAs(NewSei(isCertificate), epb)
    BY DEF EncodedAs, NewSei
  <2> QED BY <1>7, <2>1, <2>2, <2>3, GeneratedSeis
<1>8. ASSUME NEW ready \in 0..MAX_SEI_DATA_BUFFER, NEW isPrimary \in BOOLEAN,
             GetSei(ready, isPrimary)
      PROVE  Goal
  <2>1. ready \in Nat
    BY SetupAssumption
  <2>2. UNCHANGED <<epb, disturbed>> /\ DOMAIN AllSeis' = DOMAIN AllSeis
    <3>1. UNCHANGED <<epb, disturbed>>
      BY <1>8 DEF GetSei, settings
    <3> QED BY <1>1, <1>8, <2>1, <3>1, Fetched
  <2>3. ASSUME NEW n \in DOMAIN AllSeis
        PROVE  EncodedAs(AllSeis'[n], epb)
    <3>1. /\ AllSeis'[n].epb = AllSeis[n].epb
          /\ \/ AllSeis'[n].signature = AllSeis[n].signature
             \/ /\ AllSeis[n].signature = Unsigned
                /\ AllSeis'[n].signature # Unsigned
                /\ AllSeis'[n].signature.epb = epb
      BY <1>1, <1>8, <2>1, FetchedSeis
    <3>2. EncodedAs(AllSeis[n], epb)
      BY <2>2 DEF EncodedAlike
    <3> QED BY <3>1, <3>2 DEF EncodedAs
  <2> QED BY <2>2, <2>3
<1> QED BY <1>3, <1>4, <1>5, <1>6, <1>7, <1>8, StepKinds

LEMMA ToldStep == Typed /\ InTurn /\ AlgorithmIsTold /\ [Next]_vars => AlgorithmIsTold'
<1> SUFFICES ASSUME Typed, InTurn, AlgorithmIsTold, [Next]_vars,
                    disturbed' \cap {"certified", "uncertified"} = {}
             PROVE  \A n \in DOMAIN AllSeis' : Told(AllSeis', n, algo')
  BY DEF AlgorithmIsTold
<1> DEFINE Goal == \A n \in DOMAIN AllSeis' : Told(AllSeis', n, algo')
<1>1. PICK c \in Nat : InTurnAt(c)
  BY DEF InTurn
<1>2. ASSUME disturbed \subseteq disturbed'
      PROVE  \A n \in DOMAIN AllSeis : Told(AllSeis, n, algo)
  BY <1>2 DEF AlgorithmIsTold
<1>3. ASSUME UNCHANGED <<sent, seis, algo>>, disturbed \subseteq disturbed'
      PROVE  Goal
  BY <1>2, <1>3, SameSeis
<1>4. CASE Quiet
  BY <1>3, <1>4 DEF Quiet
<1>5. ASSUME NEW key \in Keys, KeyPair(key)
      PROVE  Goal
  <2>1. disturbed \subseteq disturbed'
    BY <1>5, KeyPairStep
  <2>2. UNCHANGED <<sent, seis, algo>>
    BY <1>5, KeyPairStep DEF settings
  <2> QED BY <1>3, <2>1, <2>2
<1>6. ASSUME NEW enable \in BOOLEAN, SetEmulationPrevention(enable)
      PROVE  Goal
  <2>1. UNCHANGED <<sent, seis, algo>> /\ disturbed \subseteq disturbed'
    BY <1>6 DEF SetEmulationPrevention, Setting, Call
  <2> QED BY <1>3, <2>1
<1>7. ASSUME NEW new \in Algos, SetHashAlgo(new)
      PROVE  Goal
  <2>1. UNCHANGED <<sent, seis>> /\ disturbed \subseteq disturbed' /\ algo' = new
        /\ (new # algo /\ IsCertified => "certified" \in disturbed')
    BY <1>7 DEF SetHashAlgo, Setting, Call
  <2>2. CASE new = algo
    BY <1>3, <2>1, <2>2
  <2>3. CASE new # algo
    <3>1. \A m \in DOMAIN AllSeis : ~AllSeis[m].isCertificate
      BY <2>1, <2>3, CertifiedInAll
    <3>2. AllSeis' = AllSeis /\ DOMAIN AllSeis = 1..Len(AllSeis) /\ Len(AllSeis) \in Nat
      BY <2>1, SameSeis, AllSeisType
    <3>3. ASSUME NEW n \in DOMAIN AllSeis
          PROVE  Told(AllSeis, n, new)
      <4>1. \A m \in 1..n : m \in DOMAIN AllSeis
        BY <3>2
      <4> QED BY <1>2, <2>1, <3>1, <4>1 DEF Told
    <3> QED BY <2>1, <3>2, <3>3
  <2> QED BY <2>2, <2>3
<1>8. ASSUME NEW isCertificate \in BOOLEAN, Generates(isCertificate)
      PROVE  Goal
  <2>1. algo' = algo /\ plugin # 0 /\ disturbed \subseteq disturbed'
        /\ (~isCertificate /\ certificateSei => IsCertified)
    BY <1>8 DEF Generates
  <2>2. \A n \in DOMAIN AllSeis : Told(AllSeis, n, algo)
    BY <1>2, <2>1
  <2>3. /\ \A n \in DOMAIN AllSeis : n \in DOMAIN AllSeis' /\ AllSeis'[n] = AllSeis[n]
        /\ AllSeis'[Len(AllSeis) + 1] = NewSei(isCertificate)
        /\ \A n \in DOMAIN AllSeis' : n \in DOMAIN AllSeis \/ n = Len(AllSeis) + 1
    BY <1>8, Generated
  <2>4. DOMAIN AllSeis = 1..Len(AllSeis) /\ Len(AllSeis) \in Nat
    BY AllSeisType
  <2>5. ASSUME NEW n \in DOMAIN AllSeis
        PROVE  Told(AllSeis', n, algo)
    <3>1. \A m \in 1..n : m \in DOMAIN AllSeis
      BY <2>4
    <3> QED BY <2>2, <2>3, <3>1 DEF Told
  <2>6. Told(AllSeis', Len(AllSeis) + 1, algo)
    <3> DEFINE l == Len(AllSeis) + 1
               new == NewSei(isCertificate)
    <3>1. chain # 0
      BY <2>1 DEF Typed
    <3>2. /\ new.hashedWith = algo /\ new.isCertificate = isCertificate
          /\ new.chain = IF isCertificate \/ ~certificateSei THEN chain ELSE 0
          /\ new.algo = IF isCertificate \/ ~certificateSei THEN algo ELSE 0
      BY DEF NewSei
    <3>3. AllSeis'[l] = new
      BY <2>3
    <3>4. ASSUME new.chain = 0
          PROVE  \E m \in 1..l : AllSeis'[m].isCertificate
      <4>1. IsCertified
        BY <2>1, <3>1, <3>2, <3>4
      <4>2. PICK m \in DOMAIN AllSeis : AllSeis[m].isCertificate
        BY <4>1, CertifiedInAll
      <4>3. m \in 1..l /\ AllSeis'[m].isCertificate
        BY <2>3, <2>4, <4>2
      <4> QED BY <4>3
    <3> HIDE DEF l, new
    <3>5. Told(AllSeis', l, algo)
      BY <3>1, <3>2, <3>3, <3>4 DEF Told
    <3> QED BY <3>5 DEF l
  <2> QED BY <2>1, <2>3, <2>5, <2>6
<1>9. ASSUME NEW ready \in 0..MAX_SEI_DATA_BUFFER, NEW isPrimary \in BOOLEAN,
             GetSei(ready, isPrimary)
      PROVE  Goal
  <2>1. ready \in Nat
    BY SetupAssumption
  <2>2. UNCHANGED <<algo, disturbed>>
    BY <1>9 DEF GetSei, settings
  <2>3. DOMAIN AllSeis' = DOMAIN AllSeis
    BY <1>1, <1>9, <2>1, Fetched
  <2>4. DOMAIN AllSeis = 1..Len(AllSeis) /\ Len(AllSeis) \in Nat
    BY AllSeisType
  <2>5. \A n \in DOMAIN AllSeis :
          /\ AllSeis'[n].chain = AllSeis[n].chain
          /\ AllSeis'[n].isCertificate = AllSeis[n].isCertificate
          /\ AllSeis'[n].algo = AllSeis[n].algo
          /\ AllSeis'[n].hashedWith = AllSeis[n].hashedWith
    BY <1>1, <1>9, <2>1, FetchedSeis
  <2>6. ASSUME NEW n \in DOMAIN AllSeis
        PROVE  Told(AllSeis', n, algo)
    <3>1. \A m \in 1..n : m \in DOMAIN AllSeis
      BY <2>4
    <3>2. Told(AllSeis, n, algo)
      BY <1>2, <2>2
    <3> QED BY <2>5, <3>1, <3>2 DEF Told
  <2> QED BY <2>2, <2>3, <2>6
<1> QED BY <1>4, <1>5, <1>6, <1>7, <1>8, <1>9, StepKinds
-----------------------------------------------------------------------------
(* The parts of NAL Units.                                                 *)

LEMMA PairElements ==
  ASSUME NEW S, NEW a \in S, NEW b \in S
  PROVE  /\ Append(<<a>>, b) \in Seq(S)
         /\ Len(Append(<<a>>, b)) = 2 /\ DOMAIN Append(<<a>>, b) = {1, 2}
         /\ Append(<<a>>, b)[1] = a /\ Append(<<a>>, b)[2] = b
<1>1. <<a>> \in Seq(S) /\ Len(<<a>>) = 1 /\ <<a>>[1] = a
  BY SingleTyped
<1>2. /\ Append(<<a>>, b) \in Seq(S) /\ Len(Append(<<a>>, b)) = 2
      /\ Append(<<a>>, b)[1] = a /\ Append(<<a>>, b)[2] = b
  BY <1>1, AppendProperties
<1>3. DOMAIN Append(<<a>>, b) = 1..2
  BY <1>2, LenProperties
<1>4. 1..2 = {1, 2}
  OBVIOUS
<1> QED BY <1>2, <1>3, <1>4

LEMMA DigestIsWhole ==
  ASSUME Typed, inPart <=> given = 1, given = 1 => context = <<FirstPart(nalus)>>
  PROVE  WholeDigest(Digest, algo)
<1>1. given \in {0, 1} /\ Part(TRUE) \in PartType
  BY PartTyped DEF Typed
<1>2. Digest.algo = algo
  BY DEF Digest
<1>3. CASE given = 0
  <2>1. inPart = FALSE
    BY <1>3
  <2>2. Digest.parts = <<Part(TRUE)>>
    BY <2>1 DEF Digest
  <2>3. Part(TRUE).first = TRUE /\ Part(TRUE).last = TRUE /\ Part(TRUE).parsed = TRUE
    BY <1>3, <2>1 DEF Part
  <2>4. \A p : Len(<<p>>) = 1 /\ DOMAIN <<p>> = {1} /\ <<p>>[1] = p
    OBVIOUS
  <2>5. IsWhole(Digest.parts)
    BY <2>2, <2>3, <2>4 DEF IsWhole
  <2> QED BY <1>2, <2>5 DEF WholeDigest
<1>4. CASE given = 1
  <2> DEFINE a == FirstPart(nalus)
             b == Part(TRUE)
  <2>1. inPart = TRUE /\ context = <<a>>
    BY <1>4
  <2>2. Digest.parts = Append(<<a>>, b)
    BY <2>1 DEF Digest
  <2>3. b.nalu = nalus /\ b.first = FALSE /\ b.last = TRUE /\ b.parsed = FALSE
    <3>1. (given = 0) = FALSE /\ (~inPart) = FALSE
      BY <1>4, <2>1
    <3>2. b = [nalu |-> nalus, first |-> FALSE, last |-> TRUE, parsed |-> FALSE]
      BY <1>4, <3>1 DEF Part
    <3> HIDE DEF b
    <3>3. b.nalu = nalus
      BY <3>2
    <3>4. b.first = FALSE /\ b.last = TRUE /\ b.parsed = FALSE
      BY ONLY <3>2, Zenon
    <3> QED BY <3>3, <3>4
  <2>4. a.nalu = nalus /\ a.first = TRUE /\ a.last = FALSE /\ a.parsed = TRUE
    BY DEF FirstPart
  <2>5. a \in PartType
    BY DEF FirstPart, PartType, Typed
  <2>6. b \in PartType
    BY <1>1
  <2> HIDE DEF a, b
  <2>7. /\ Len(Append(<<a>>, b)) = 2 /\ DOMAIN Append(<<a>>, b) = {1, 2}
        /\ Append(<<a>>, b)[1] = a /\ Append(<<a>>, b)[2] = b
    BY <2>5, <2>6, PairElements
  <2>8. IsWhole(Append(<<a>>, b))
    <3> DEFINE parts == Append(<<a>>, b)
    <3>1. (1 = 1) = TRUE /\ (2 = 1) = FALSE /\ (1 = 2) = FALSE /\ (2 = 2) = TRUE
      OBVIOUS
    <3>2. /\ parts[1].nalu = parts[1].nalu
          /\ parts[1].first = (1 = 1) /\ parts[1].parsed = (1 = 1) /\ parts[1].last = (1 = 2)
      BY <2>4, <2>7, <3>1
    <3>3. /\ parts[2].nalu = parts[1].nalu
          /\ parts[2].first = (2 = 1) /\ parts[2].parsed = (2 = 1) /\ parts[2].last = (2 = 2)
      BY <2>3, <2>4, <2>7, <3>1
    <3> QED BY <2>7, <3>2, <3>3, Zenon DEF IsWhole
  <2> QED BY <1>2, <2>2, <2>8 DEF WholeDigest
<1> QED BY <1>1, <1>3, <1>4

LEMMA WholeListAppended ==
  ASSUME NEW digests \in Seq(DigestType), NEW new \in DigestType, NEW by,
         WholeList(digests, by), WholeDigest(new, by)
  PROVE  WholeList(Append(digests, new), by) /\ WholeList(<<new>>, by)
<1>1. Append(digests, new) \in Seq(DigestType) /\ Len(digests) \in Nat
      /\ Append(digests, new)[Len(digests) + 1] = new
      /\ \A k \in 1..Len(digests) : Append(digests, new)[k] = digests[k]
      /\ Len(Append(digests, new)) = Len(digests) + 1
      /\ DOMAIN digests = 1..Len(digests)
  BY AppendProperties, LenProperties
<1>2. DOMAIN Append(digests, new) = 1..(Len(digests) + 1)
  BY <1>1, LenProperties
<1>3. WholeList(Append(digests, new), by)
  <2>1. ASSUME NEW k \in 1..(Len(digests) + 1)
        PROVE  WholeDigest(Append(digests, new)[k], by)
    <3>1. CASE k \in 1..Len(digests)
      BY <1>1, <3>1 DEF WholeList
    <3>2. CASE k = Len(digests) + 1
      BY <1>1, <3>2
    <3> QED BY <1>1, <3>1, <3>2
  <2> QED BY <1>2, <2>1 DEF WholeList
<1>4. DOMAIN <<new>> = {1} /\ <<new>>[1] = new
  OBVIOUS
<1> QED BY <1>3, <1>4 DEF WholeList

LEMMA NoneIsWhole == \A by : WholeList(<<>>, by)
<1>1. DOMAIN <<>> = {}
  OBVIOUS
<1> QED BY <1>1 DEF WholeList

(* What is given in whole or in part.                                      *)
WholeSession ==
  /\ inPart <=> given = 1
  /\ given = 1 => context = <<FirstPart(nalus)>>
  /\ ~started => list = <<>>
  /\ WholeList(list, algo)

WholeSeis == \A n \in DOMAIN AllSeis : WholeList(AllSeis[n].list, AllSeis[n].hashedWith)

LEMMA WholeParts ==
  Whole <=> (disturbed \cap {"part", "refused"} = {} => WholeSession /\ WholeSeis)
  BY DEF Whole, WholeSession, WholeSeis

LEMMA GeneratedWhole ==
  ASSUME Typed, WholeSession, WholeSeis, NEW isCertificate \in BOOLEAN,
         Generates(isCertificate)
  PROVE  WholeSeis'
<1>1. WholeList(NewSei(isCertificate).list, NewSei(isCertificate).hashedWith)
  BY NoneIsWhole DEF NewSei, WholeSession
<1> QED BY <1>1, GeneratedSeis DEF WholeSeis

LEMMA WholeStep == Typed /\ InTurn /\ Whole /\ [Next]_vars => Whole'
<1> SUFFICES ASSUME Typed, InTurn, Whole, [Next]_vars,
                    disturbed' \cap {"part", "refused"} = {}
             PROVE  WholeSession' /\ WholeSeis'
  BY DEF Whole, WholeSession, WholeSeis
<1>1. ASSUME disturbed \subseteq disturbed'
      PROVE  WholeSession /\ WholeSeis
  BY <1>1, WholeParts
<1>2. ASSUME UNCHANGED <<started, seis, sent, inPart, context, list, nalus, given, algo>>,
             disturbed \subseteq disturbed'
      PROVE  WholeSession' /\ WholeSeis'
  <2>1. WholeSession /\ WholeSeis
    BY <1>1, <1>2
  <2> QED BY <1>2, <2>1, SameSeis DEF WholeSession, WholeSeis
<1>3. CASE UNCHANGED vars
  BY <1>2, <1>3 DEF vars, settings, hashing
<1>4. ASSUME NEW key \in Keys, KeyPair(key)
      PROVE  WholeSession' /\ WholeSeis'
  <2>1. disturbed \subseteq disturbed'
    BY <1>4, KeyPairStep
  <2>2. UNCHANGED <<started, seis, sent, inPart, context, list, nalus, given, algo>>
    BY <1>4, KeyPairStep DEF settings, hashing
  <2> QED BY <1>2, <2>1, <2>2
<1>5. ASSUME NEW enable \in BOOLEAN,
             SetUseCertificateSei(enable) \/ SetEmulationPrevention(enable)
      PROVE  WholeSession' /\ WholeSeis'
  <2>1. UNCHANGED <<started, seis, sent, inPart, context, list, nalus, given, algo>>
        /\ disturbed \subseteq disturbed'
    BY <1>5 DEF SetUseCertificateSei, SetEmulationPrevention, Setting, Call, hashing
  <2> QED BY <1>2, <2>1
<1>6. ASSUME NEW new \in Algos, SetHashAlgo(new)
      PROVE  WholeSession' /\ WholeSeis'
  <2>1. /\ ~started /\ UNCHANGED <<started, seis, sent, inPart, list, nalus, given>>
        /\ disturbed \subseteq disturbed' /\ (given > 0 => "part" \in disturbed')
    BY <1>6 DEF SetHashAlgo, Setting, Call
  <2>2. WholeSession /\ WholeSeis
    BY <1>1, <2>1
  <2>3. given = 0
    BY <2>1 DEF Typed
  <2>4. list = <<>>
    BY <2>1, <2>2 DEF WholeSession
  <2> QED BY <2>1, <2>2, <2>3, <2>4, SameSeis, NoneIsWhole DEF WholeSession, WholeSeis
<1>7. CASE Reset
  <2>1. /\ UNCHANGED <<seis, sent>> /\ disturbed \subseteq disturbed'
        /\ inPart' = FALSE /\ given' = 0 /\ list' = <<>>
    BY <1>7 DEF Reset, Call
  <2>2. WholeSeis
    BY <1>1, <2>1
  <2>3. inPart' <=> given' = 1
    BY <2>1
  <2> QED BY <2>1, <2>2, <2>3, SameSeis, NoneIsWhole DEF WholeSession, WholeSeis
<1>8. CASE GenerateCertificateSei
  <2>1. Generates(TRUE)
    BY <1>8 DEF Generates, GenerateCertificateSei, Call, keys, settings
  <2>2. /\ UNCHANGED <<started, inPart, context, nalus, given, algo>> /\ list' = <<>>
        /\ disturbed \subseteq disturbed'
    BY <1>8 DEF GenerateCertificateSei, Call, settings
  <2>3. WholeSession /\ WholeSeis
    BY <1>1, <2>2
  <2>4. WholeSeis'
    BY <2>1, <2>3, GeneratedWhole
  <2>5. WholeSession'
    BY <2>2, <2>3, NoneIsWhole DEF WholeSession
  <2> QED BY <2>4, <2>5
<1>9. ASSUME NEW isLast \in BOOLEAN, AddPartRefused(isLast)
      PROVE  WholeSession' /\ WholeSeis'
  <2>1. /\ UNCHANGED <<started, seis, sent, list, algo>> /\ disturbed \subseteq disturbed'
        /\ given' = 0 /\ inPart' = ~isLast /\ (~isLast => "refused" \in disturbed')
    BY <1>9 DEF AddPartRefused, GivePart, settings
  <2>2. WholeSession /\ WholeSeis
    BY <1>1, <2>1
  <2>3. inPart' = FALSE
    BY <2>1
  <2>4. inPart' <=> given' = 1
    BY <2>1, <2>3
  <2> QED BY <2>1, <2>2, <2>4, SameSeis DEF WholeSession, WholeSeis
<1>10. CASE AddPart
  <2>1. /\ UNCHANGED <<started, seis, sent, list, algo, disturbed>>
        /\ given = 0 /\ given' = 1 /\ inPart' = TRUE /\ nalus' = Part(FALSE).nalu
        /\ context' = IF inPart THEN Append(context, Part(FALSE)) ELSE <<Part(FALSE)>>
    BY <1>10 DEF AddPart, GivePart, settings
  <2>2. WholeSession /\ WholeSeis
    BY <1>1, <2>1
  <2>3. inPart = FALSE
    BY <2>1, <2>2 DEF WholeSession
  <2>4. nalus' = nalus + 1
    BY <2>1 DEF Part
  <2>5. Part(FALSE) = FirstPart(nalus + 1)
    BY <2>1, <2>3 DEF Part, FirstPart
  <2>6. context' = <<FirstPart(nalus')>>
    BY <2>1, <2>3, <2>4, <2>5
  <2>7. inPart' <=> given' = 1
    BY <2>1
  <2> QED BY <2>1, <2>2, <2>6, <2>7, SameSeis DEF WholeSession, WholeSeis
<1>11. ASSUME AddLastPart \/ AddFirstOfGop
       PROVE  WholeSession' /\ WholeSeis'
  <2>1. /\ given' = 0 /\ inPart' = FALSE /\ started' = TRUE /\ algo' = algo
        /\ plugin # 0 /\ UNCHANGED <<sent, plugin, chain, epb>>
        /\ disturbed \subseteq disturbed'
        /\ list' \in {Append(list, Digest), <<Digest>>}
    BY <1>11 DEF AddLastPart, AddFirstOfGop, GivePart, settings, keys
  <2>2. WholeSession /\ WholeSeis
    BY <1>1, <2>1
  <2>3. WholeDigest(Digest, algo)
    BY <2>2, DigestIsWhole DEF WholeSession
  <2>4. list \in Seq(DigestType) /\ Digest \in DigestType
    BY DigestTyped DEF Typed
  <2>5. WholeList(list', algo')
    BY <2>1, <2>2, <2>3, <2>4, WholeListAppended DEF WholeSession
  <2>6. inPart' <=> given' = 1
    BY <2>1
  <2>7. WholeSeis'
    <3>1. CASE UNCHANGED <<queue, seis>>
      BY <2>1, <2>2, <3>1, SameSeis DEF WholeSeis
    <3>2. CASE AddFirstOfGop /\ started /\ hasGop
      <4>1. Generates(FALSE)
        BY <2>1, <3>2 DEF Generates, AddFirstOfGop
      <4> QED BY <2>2, <4>1, GeneratedWhole
    <3> QED BY <1>11, <3>1, <3>2 DEF AddLastPart, AddFirstOfGop
  <2> QED BY <2>1, <2>5, <2>6, <2>7 DEF WholeSession
<1>12. ASSUME NEW ready \in 0..MAX_SEI_DATA_BUFFER, NEW isPrimary \in BOOLEAN,
              GetSei(ready, isPrimary)
       PROVE  WholeSession' /\ WholeSeis'
  <2>1. PICK c \in Nat : InTurnAt(c)
    BY DEF InTurn
  <2>2. ready \in Nat
    BY SetupAssumption
  <2>3. UNCHANGED <<started, inPart, context, list, nalus, given, algo, disturbed>>
    BY <1>12 DEF GetSei, settings, hashing
  <2>4. WholeSession /\ WholeSeis
    BY <1>1, <2>3
  <2>5. DOMAIN AllSeis' = DOMAIN AllSeis
    BY <1>12, <2>1, <2>2, Fetched
  <2>6. \A n \in DOMAIN AllSeis :
          /\ AllSeis'[n].hashedWith = AllSeis[n].hashedWith
          /\ AllSeis'[n].list = AllSeis[n].list
    BY <1>12, <2>1, <2>2, FetchedSeis
  <2> QED BY <2>3, <2>4, <2>5, <2>6 DEF WholeSession, WholeSeis
<1> QED
  BY <1>3, <1>4, <1>5, <1>6, <1>7, <1>8, <1>9, <1>10, <1>11, <1>12 DEF Next

-----------------------------------------------------------------------------
(* The invariant, and what follows.                                        *)

LEMMA Invariant == Spec => []IInv
<1>1. IInv /\ [Next]_vars => IInv'
  BY TypedStep, InTurnStep, OneKeyStep, EncodedStep, ToldStep, WholeStep DEF IInv
<1> QED BY InitHolds, <1>1, PTL DEF Spec

LEMMA GreatestExists ==
  ASSUME NEW i \in Nat, NEW T, T \subseteq 1..i, T # {}
  PROVE  \E m \in T : \A k \in T : k <= m
<1> DEFINE D == {i - k : k \in T}
<1>1. D \subseteq Nat /\ D # {}
  <2>1. \A k \in T : i - k \in Nat
    OBVIOUS
  <2>2. PICK k \in T : TRUE
    OBVIOUS
  <2>3. i - k \in D
    OBVIOUS
  <2> QED BY <2>1, <2>3
<1>2. \A k \in T : i - k \in D
  OBVIOUS
<1>3. \A d \in D : \E k \in T : d = i - k
  OBVIOUS
<1> HIDE DEF D
<1>4. PICK d \in D : \A e \in D : d <= e
  BY <1>1, LeastExists
<1>5. PICK m \in T : d = i - m
  BY <1>3, <1>4
<1>6. ASSUME NEW k \in T
      PROVE  k <= m
  <2>1. i - m <= i - k
    BY <1>2, <1>4, <1>5
  <2>2. k \in Int /\ m \in Int
    OBVIOUS
  <2> QED BY <2>1, <2>2
<1> QED BY <1>6

(* TellerOf() is the last SEI up to i that tells, if there is one.         *)
LEMMA TellerIsLast ==
  ASSUME Typed, NEW i \in DOMAIN sent, TellerOf(i) # 0
  PROVE  /\ TellerOf(i) \in 1..i /\ sent[TellerOf(i)].chain # 0
         /\ \A j \in 1..i : sent[j].chain # 0 => j <= TellerOf(i)
<1> DEFINE tellers == {j \in 1..i : sent[j].chain # 0}
<1>1. i \in Nat
  BY AllSeisType
<1>2. tellers # {}
  BY DEF TellerOf
<1>3. \E m \in tellers : \A k \in tellers : k <= m
  <2>1. tellers \subseteq 1..i
    OBVIOUS
  <2> HIDE DEF tellers
  <2> QED BY <1>1, <1>2, <2>1, GreatestExists
<1>4. TellerOf(i) = CHOOSE j \in tellers : \A k \in tellers : k <= j
  BY <1>2 DEF TellerOf
<1>5. TellerOf(i) \in tellers /\ \A k \in tellers : k <= TellerOf(i)
  <2> HIDE DEF tellers
  <2> QED BY <1>3, <1>4
<1> QED BY <1>5
LEMMA SentVerified ==
  ASSUME IInv, NEW i \in DOMAIN sent, NEW teller, teller = TellerOf(i)
  PROVE  /\ "keys" \notin disturbed =>
              /\ sent[i].signature.of = sent[i].number
              /\ teller # 0 => sent[i].signature.key = sent[teller].chain
         /\ "waiting" \notin disturbed => sent[i].signature.epb = sent[i].epb
         /\ disturbed \cap {"certified", "uncertified"} = {} /\ teller # 0 =>
              sent[i].hashedWith = sent[teller].algo
<1>1. Typed /\ OneKey /\ EncodedAlike /\ AlgorithmIsTold
  BY DEF IInv
<1>2. PICK c \in Nat : InTurnAt(c)
  BY DEF IInv, InTurn
<1>3. /\ DOMAIN sent = 1..Len(sent) /\ Len(sent) \in Nat
      /\ \A n \in DOMAIN sent : n \in DOMAIN AllSeis /\ AllSeis[n] = sent[n]
      /\ i \in Nat
  BY <1>1, AllSeisType
<1>4. sent[i].signature # Unsigned
  <2>1. i <= c
    BY <1>2, <1>3 DEF InTurnAt
  <2> QED BY <1>2, <1>3, <2>1 DEF InTurnAt, SignedUpTo
<1>5. teller # 0 => teller \in 1..i /\ sent[teller].chain # 0
                    /\ \A j \in 1..i : sent[j].chain # 0 => j <= teller
  BY <1>1, TellerIsLast
<1>6. \A j \in 1..i : j \in DOMAIN sent
  BY <1>3
<1>7. ASSUME "keys" \notin disturbed
      PROVE  /\ sent[i].signature.of = sent[i].number
             /\ teller # 0 => sent[i].signature.key = sent[teller].chain
  <2>1. \A n \in DOMAIN sent : FitsKey(sent[n], plugin)
    BY <1>1, <1>3, <1>7 DEF OneKey
  <2>2. sent[i].signature.of = sent[i].number /\ sent[i].signature.key = plugin
    BY <1>4, <2>1 DEF FitsKey
  <2>3. teller # 0 => sent[teller].chain = plugin
    BY <1>5, <1>6, <2>1 DEF FitsKey
  <2> QED BY <2>2, <2>3
<1>8. ASSUME "waiting" \notin disturbed
      PROVE  sent[i].signature.epb = sent[i].epb
  BY <1>1, <1>3, <1>4, <1>8 DEF EncodedAlike, EncodedAs
<1>9. ASSUME disturbed \cap {"certified", "uncertified"} = {}, teller # 0
      PROVE  sent[i].hashedWith = sent[teller].algo
  <2>1. \A n \in DOMAIN sent : Told(sent, n, algo)
    <3>1. ASSUME NEW n \in DOMAIN sent
          PROVE  Told(sent, n, algo)
      <4>1. Told(AllSeis, n, algo)
        BY <1>1, <1>3, <1>9 DEF AlgorithmIsTold
      <4>2. n \in Nat /\ \A m \in 1..n : m \in DOMAIN sent
        BY <1>3
      <4>3. AllSeis[n] = sent[n] /\ \A m \in 1..n : AllSeis[m] = sent[m]
        BY <1>3, <4>2
      <4> QED BY <4>1, <4>3 DEF Told
    <3> QED BY <3>1
  <2>2. teller \in 1..i /\ teller \in DOMAIN sent /\ sent[teller].chain # 0
    BY <1>5, <1>6, <1>9
  <2>3. sent[teller].algo = sent[teller].hashedWith
    BY <2>1, <2>2 DEF Told
  <2>4. CASE sent[i].chain # 0
    <3>1. i \in 1..i /\ i <= teller
      BY <1>3, <1>5, <1>9, <2>4
    <3>2. teller = i
      BY <1>3, <2>2, <3>1
    <3> QED BY <2>3, <3>2
  <2>5. CASE sent[i].chain = 0
    <3>1. PICK m \in 1..i : sent[m].isCertificate
      BY <2>1, <2>5 DEF Told
    <3>2. sent[m].chain # 0
      BY <1>6, <2>1, <3>1 DEF Told
    <3>3. m \in 1..teller
      BY <1>3, <1>5, <1>9, <2>2, <3>1, <3>2
    <3>4. sent[teller].hashedWith = algo
      BY <2>1, <2>2, <3>1, <3>3 DEF Told
    <3>5. sent[i].hashedWith = algo
      BY <2>1, <3>1 DEF Told
    <3> QED BY <2>3, <3>4, <3>5
  <2> QED BY <2>4, <2>5
<1> QED BY <1>7, <1>8, <1>9

(* Every SEI that get_sei() returns has the signature of its own hash, by  *)
(* the key and of the hash algorithm that it or the last SEI before it     *)
(* that tells of them told, whatever is set and reset around it, but for   *)
(* the exceptions that are named.                                          *)
THEOREM SeisAlwaysVerifiable == Spec => []SeisCanBeVerified
<1>1. IInv => SeisCanBeVerified
  <2> SUFFICES ASSUME IInv PROVE SeisCanBeVerified
    OBVIOUS
  <2> QED BY SentVerified DEF SeisCanBeVerified
<1> QED BY Invariant, <1>1, PTL

(* Every hash in a SEI is of one whole NAL Unit, by the algorithm of the   *)
(* SEI: update_hash() and simply_hash() never join parts of two.           *)
THEOREM NalusAlwaysHashedWhole == Spec => []NalusAreHashedWhole
<1>1. IInv => NalusAreHashedWhole
  <2> SUFFICES ASSUME IInv, disturbed \cap {"part", "refused"} = {},
                      NEW i \in DOMAIN seis, NEW k \in DOMAIN seis[i].list
               PROVE  /\ IsWhole(seis[i].list[k].parts)
                      /\ seis[i].list[k].algo = seis[i].hashedWith
    BY DEF NalusAreHashedWhole
  <2>1. Len(sent) + i \in DOMAIN AllSeis /\ AllSeis[Len(sent) + i] = seis[i]
    BY AllSeisType DEF IInv
  <2>2. WholeList(seis[i].list, seis[i].hashedWith)
    BY <2>1 DEF IInv, Whole
  <2> QED BY <2>2 DEF WholeList, WholeDigest
<1> QED BY Invariant, <1>1, PTL
=============================================================================
