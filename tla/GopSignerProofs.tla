-------------------------- MODULE GopSignerProofs --------------------------
(***************************************************************************)
(* What SEIs say about their GOPs, for streams of every length, hash lists *)
(* of every size, every signing frequency and frame limit, and whatever    *)
(* fails or is reset in between.                                           *)
(*                                                                         *)
(* The properties are about the SEIs that are there; the invariants below  *)
(* relate them to the GOP that is being built.  Counting says what the     *)
(* counters of the session are good for before the first GOP, Order that   *)
(* the hash context continues where the SEIs end, Numbering which number   *)
(* the next SEI gets, and Undistorted, for a stream that nothing disturbs, *)
(* what the context, the linked hashes, the anchor and the timestamps have *)
(* to do with each other.                                                  *)
(***************************************************************************)
EXTENDS GopSigner, FiniteSetTheorems, SequenceTheorems, TLAPS

(* The counters and positions do not run ahead of the stream, and          *)
(* num_gops_until_signing is not zero before the first GOP, when it is     *)
(* decremented without a SEI.                                              *)
Counting ==
  /\ gop.numFrames <= Len(stream)
  /\ gop.current <= Len(stream)
  /\ gop.endTime <= Len(stream)
  /\ gop.anchor <= Len(stream)
  /\ ~started => gop.current = -1
  /\ gop.current = -1 => untilSigning > 0

(* The NAL Units of a sequence of hashes are in order, they come before    *)
(* those of another one, and they are among the first n of the stream.     *)
Ascending(h) == \A i, j \in DOMAIN h : i < j => h[i].nalu < h[j].nalu
Before(g, h) == \A i \in DOMAIN g, j \in DOMAIN h : g[i].nalu < h[j].nalu
UpTo(h, n) == \A i \in DOMAIN h : h[i].nalu <= n

(* Behind the hashes of the SEIs come those in the context. *)
Order ==
  /\ Ascending(gop.context) /\ UpTo(gop.context, Len(stream))
  /\ \A k \in GopSeis : /\ Ascending(seis[k].gopHash)
                        /\ UpTo(seis[k].gopHash, Len(stream))
                        /\ Before(seis[k].gopHash, gop.context)
  /\ \A k, l \in GopSeis : k < l => Before(seis[k].gopHash, seis[l].gopHash)

(* The last SEI generated because a GOP has started, and a reset after it. *)
IsLast(k) == k \in GopSeis /\ \A i \in GopSeis : i <= k
ResetSince(k) == \E n \in seis[k].endTime .. Len(stream) : stream[n] = "reset"

(* The number of the GOP at hand continues the one of the last SEI. *)
Numbering ==
  /\ CountersAreConsecutive
  /\ \A k \in GopSeis : seis[k].endTime \in DOMAIN stream
  /\ IF GopSeis = {}
     THEN gop.current \in {-1, 1}
     ELSE \E k \in GopSeis :
            /\ IsLast(k)
            /\ IF ResetSince(k) THEN gop.current \in {-1, 1} ELSE gop.current = seis[k].counter + 1

(* The hash is the one that the validator computes, of NAL Units that are  *)
(* in stream s.                                                            *)
AnchoredIn(s, h) ==
  /\ h.nalu \in DOMAIN s /\ h.anchor \in DOMAIN s
  /\ IF s[h.nalu] \in {"I", "sei"}
     THEN h.anchor = h.nalu
     ELSE s[h.anchor] = "I" /\ \A n \in (h.anchor + 1)..h.nalu : s[n] # "I"

(* What SeisDescribeTheirGops says of a SEI, with room for max hashes. *)
Describes(sei, s, max) ==
  /\ ~sei.atEnd
  /\ sei.list \in {<<>>, sei.gopHash}
  /\ Len(sei.gopHash) <= max => sei.numNalus = Len(sei.gopHash)
  /\ sei.gopHash # <<>>
  /\ sei.startTime = sei.gopHash[1].nalu
  /\ \A i \in DOMAIN sei.gopHash : /\ sei.gopHash[i].nalu \in sei.startTime..(sei.endTime - 1)
                                   /\ AnchoredIn(s, sei.gopHash[i])

(* A GOP is being built: its hashes are those in the context. *)
InGop ==
  /\ gop.context # <<>>
  /\ gop.endTime = gop.context[1].nalu
  /\ gop.anchor \in DOMAIN stream /\ stream[gop.anchor] = "I"
  /\ \A n \in (gop.anchor + 1) .. Len(stream) : stream[n] # "I"
  /\ gop.linked[2] = <<gop.context[1]>>
  /\ gop.linked[1] = IF seis = <<>> THEN <<>> ELSE <<seis[Len(seis)].gopHash[1]>>

(* The stream has had no I-frame. *)
BeforeGops ==
  /\ gop.context = <<>>
  /\ ~gop.hasAnchor
  /\ gop.linked = <<<<>>, <<>>>>
  /\ seis = <<>>
  /\ \A n \in DOMAIN stream : stream[n] = "other"

Undistorted ==
  /\ gop.listOk => gop.list = gop.context
  /\ ~gop.listOk => Len(gop.context) > MaxHashes
  /\ \A i \in DOMAIN gop.context : AnchoredIn(stream, gop.context[i])
  /\ \A k \in DOMAIN seis :
       /\ Describes(seis[k], stream, MaxHashes)
       /\ seis[k].linked = IF k = 1 THEN <<>> ELSE <<seis[k - 1].gopHash[1]>>
  /\ IF gop.current = -1 THEN BeforeGops ELSE InGop

-----------------------------------------------------------------------------
(* What the functions of the library do to gop_info, field by field.       *)

LEMMA ScenarioBounds ==
  ASSUME scenario \in Scenarios
  PROVE  MaxNalus \in Nat /\ MaxHashes \in Nat /\ MaxHashes > 0
BY ScenarioAssumption DEF MaxNalus, MaxHashes

LEMMA CloseGopFields ==
  ASSUME NEW g \in GopInfos, NEW n, NEW triggered
  PROVE  LET c == CloseGop(g, n, triggered)
             isEmpty == g.listOk /\ g.list = <<>>
         IN  /\ c.context = (IF isEmpty THEN g.context ELSE <<>>)
             /\ c.gopHash = (IF isEmpty THEN <<>> ELSE g.context)
             /\ c.list = g.list /\ c.listOk = g.listOk
             /\ c.hasAnchor = g.hasAnchor /\ c.anchor = g.anchor
             /\ c.linked = g.linked
             /\ c.numNalus = (IF g.listOk THEN Len(g.list) ELSE OverflowCount)
             /\ c.numFrames = g.numFrames /\ c.current = g.current
             /\ c.triggered = triggered
             /\ c.startTime = g.endTime /\ c.endTime = n
BY DEF GopInfos, CloseGop

LEMMA StartGopFields ==
  ASSUME NEW g \in GopInfos
  PROVE  LET c == StartGop(g)
         IN  /\ c.context = <<>> /\ c.gopHash = g.gopHash
             /\ c.list = <<>> /\ c.listOk = TRUE
             /\ c.hasAnchor = FALSE /\ c.anchor = g.anchor
             /\ c.linked = g.linked
             /\ c.numNalus = g.numNalus /\ c.numFrames = 0 /\ c.current = g.current
             /\ c.triggered = g.triggered
             /\ c.startTime = g.startTime /\ c.endTime = g.endTime
BY DEF GopInfos, StartGop

LEMMA CountGopFields ==
  ASSUME NEW g \in GopInfos
  PROVE  LET c == CountGop(g)
         IN  /\ c.context = g.context /\ c.gopHash = g.gopHash
             /\ c.list = g.list /\ c.listOk = g.listOk
             /\ c.hasAnchor = g.hasAnchor /\ c.anchor = g.anchor
             /\ c.linked = g.linked
             /\ c.numNalus = g.numNalus /\ c.numFrames = g.numFrames
             /\ c.current = (IF g.current < 0 THEN 1 ELSE g.current + 1)
             /\ c.triggered = g.triggered
             /\ c.startTime = g.startTime /\ c.endTime = g.endTime
BY DEF GopInfos, CountGop

(* The hash of NAL Unit n, and what hashing it does. *)
LEMMA HashOfType ==
  ASSUME scenario \in Scenarios, NEW g \in GopInfos, NEW n \in 1..MaxNalus, NEW kind
  PROVE  /\ HashOf(g, n, kind) \in Hashes
         /\ HashOf(g, n, kind).nalu = n
         /\ HashOf(g, n, kind).anchor = IF kind = "sei" \/ IsAnchor(g, kind) THEN n ELSE g.anchor
<1>1. MaxNalus \in Nat /\ g.anchor \in 0..MaxNalus
  BY ScenarioBounds DEF GopInfos
<1> QED BY <1>1 DEF HashOf, Hashes

LEMMA HashWrapperFields ==
  ASSUME scenario \in Scenarios, NEW g \in GopInfos, NEW n \in 1..MaxNalus, NEW kind
  PROVE  LET w == HashWrapper(g, n, kind)
         IN  /\ w \in GopInfos
             /\ w.context = g.context /\ w.gopHash = g.gopHash
             /\ w.list = g.list /\ w.listOk = g.listOk
             /\ w.hasAnchor = (IsAnchor(g, kind) \/ g.hasAnchor)
             /\ w.anchor = (IF IsAnchor(g, kind) THEN n ELSE g.anchor)
             /\ w.linked = (IF IsAnchor(g, kind) \/ (kind # "sei" /\ g.triggered)
                            THEN <<g.linked[2], <<HashOf(g, n, kind)>>>> ELSE g.linked)
             /\ w.numNalus = g.numNalus /\ w.numFrames = g.numFrames /\ w.current = g.current
             /\ w.triggered = g.triggered
             /\ w.startTime = g.startTime /\ w.endTime = g.endTime
<1> DEFINE h == HashOf(g, n, kind)
           l == <<g.linked[2], <<h>>>>
<1>1. h \in Hashes /\ MaxNalus \in Nat
  BY HashOfType, ScenarioBounds
<1>2. l \in Seq(Hashes) \X Seq(Hashes)
  <2>1. g.linked[2] \in Seq(Hashes)
    BY DEF GopInfos
  <2>2. \A x \in Hashes : <<x>> \in Seq(Hashes)
    OBVIOUS
  <2>3. <<h>> \in Seq(Hashes)
    <3> HIDE DEF h
    <3> QED BY <1>1, <2>2
  <2> HIDE DEF h
  <2> QED BY ONLY <2>1, <2>3
<1>3. n \in 0..MaxNalus
  BY <1>1
<1> HIDE DEF h, l
<1>4. [g EXCEPT !.linked = l] \in GopInfos
  BY <1>2 DEF GopInfos
<1>5. [[g EXCEPT !.linked = l] EXCEPT !.anchor = n, !.hasAnchor = TRUE] \in GopInfos
  BY <1>3, <1>4 DEF GopInfos
<1>6. HashWrapper(g, n, kind) \in GopInfos
  BY <1>4, <1>5 DEF HashWrapper, UpdateLinkedHash, l, h
<1> QED BY <1>6 DEF GopInfos, HashWrapper, UpdateLinkedHash

LEMMA CopyToHashListFields ==
  ASSUME NEW g \in GopInfos, NEW h \in Hashes
  PROVE  LET c == CopyToHashList(g, h)
             fits == g.listOk /\ Len(g.list) < MaxHashes
         IN  /\ c \in GopInfos
             /\ c.context = g.context /\ c.gopHash = g.gopHash
             /\ c.list = (IF fits THEN Append(g.list, h) ELSE g.list)
             /\ c.listOk = fits
             /\ c.hasAnchor = g.hasAnchor /\ c.anchor = g.anchor /\ c.linked = g.linked
             /\ c.numNalus = g.numNalus /\ c.numFrames = g.numFrames /\ c.current = g.current
             /\ c.triggered = g.triggered /\ c.startTime = g.startTime /\ c.endTime = g.endTime
<1> DEFINE l == Append(g.list, h)
<1>1. l \in Seq(Hashes)
  BY DEF GopInfos
<1>2. FALSE \in BOOLEAN
  OBVIOUS
<1> HIDE DEF l
<1>3. [g EXCEPT !.list = l] \in GopInfos
  BY <1>1 DEF GopInfos
<1>4. [g EXCEPT !.listOk = FALSE] \in GopInfos
  BY <1>2 DEF GopInfos
<1>5. CopyToHashList(g, h) \in GopInfos
  BY <1>3, <1>4 DEF CopyToHashList, l
<1> QED BY <1>5 DEF GopInfos, CopyToHashList

LEMMA HashAndAddFields ==
  ASSUME scenario \in Scenarios, NEW g \in GopInfos, NEW n \in 1..MaxNalus, NEW kind \in Hashable
  PROVE  LET h == HashOf(g, n, kind)
             c == HashAndAdd(g, n, kind)
             fits == g.listOk /\ Len(g.list) < MaxHashes
         IN  /\ c \in GopInfos
             /\ c.context = Append(g.context, h) /\ c.gopHash = g.gopHash
             /\ c.list = (IF fits THEN Append(g.list, h) ELSE g.list)
             /\ c.listOk = fits
             /\ c.hasAnchor = (IsAnchor(g, kind) \/ g.hasAnchor)
             /\ c.anchor = (IF IsAnchor(g, kind) THEN n ELSE g.anchor)
             /\ c.linked = (IF IsAnchor(g, kind) \/ (kind # "sei" /\ g.triggered)
                            THEN <<g.linked[2], <<h>>>> ELSE g.linked)
             /\ c.numNalus = g.numNalus /\ c.numFrames = g.numFrames /\ c.current = g.current
             /\ c.triggered = g.triggered
             /\ c.startTime = g.startTime /\ c.endTime = g.endTime
<1> DEFINE h == HashOf(g, n, kind)
           w == HashWrapper(g, n, kind)
           l == Append(w.context, h)
           a == [w EXCEPT !.context = l]
<1>1. h \in Hashes /\ w \in GopInfos
  BY HashOfType, HashWrapperFields
<1>2. HashAndAdd(g, n, kind) = CopyToHashList(a, h)
  BY DEF HashAndAdd
<1> HIDE DEF h, w
<1>3. l \in Seq(Hashes)
  BY <1>1 DEF GopInfos
<1> HIDE DEF l
<1>4. /\ a \in GopInfos /\ a.context = l
      /\ a.gopHash = w.gopHash /\ a.list = w.list /\ a.listOk = w.listOk
      /\ a.hasAnchor = w.hasAnchor /\ a.anchor = w.anchor /\ a.linked = w.linked
      /\ a.numNalus = w.numNalus /\ a.numFrames = w.numFrames /\ a.current = w.current
      /\ a.triggered = w.triggered /\ a.startTime = w.startTime /\ a.endTime = w.endTime
  BY <1>1, <1>3 DEF GopInfos
<1> HIDE DEF a
<1>5. LET c == CopyToHashList(a, h)
          fits == a.listOk /\ Len(a.list) < MaxHashes
      IN  /\ c \in GopInfos
          /\ c.context = a.context /\ c.gopHash = a.gopHash
          /\ c.list = (IF fits THEN Append(a.list, h) ELSE a.list)
          /\ c.listOk = fits
          /\ c.hasAnchor = a.hasAnchor /\ c.anchor = a.anchor /\ c.linked = a.linked
          /\ c.numNalus = a.numNalus /\ c.numFrames = a.numFrames /\ c.current = a.current
          /\ c.triggered = a.triggered /\ c.startTime = a.startTime /\ c.endTime = a.endTime
  BY <1>1, <1>4, CopyToHashListFields
<1>6. /\ w.context = g.context /\ w.gopHash = g.gopHash
      /\ w.list = g.list /\ w.listOk = g.listOk
      /\ w.hasAnchor = (IsAnchor(g, kind) \/ g.hasAnchor)
      /\ w.anchor = (IF IsAnchor(g, kind) THEN n ELSE g.anchor)
      /\ w.linked = (IF IsAnchor(g, kind) \/ (kind # "sei" /\ g.triggered)
                     THEN <<g.linked[2], <<h>>>> ELSE g.linked)
      /\ w.numNalus = g.numNalus /\ w.numFrames = g.numFrames /\ w.current = g.current
      /\ w.triggered = g.triggered
      /\ w.startTime = g.startTime /\ w.endTime = g.endTime
  BY HashWrapperFields DEF w, h
<1> QED BY <1>2, <1>4, <1>5, <1>6 DEF h, l

LEMMA CloseGopType ==
  ASSUME scenario \in Scenarios, NEW g \in GopInfos, Len(g.list) <= MaxHashes,
         NEW n \in 0..MaxNalus, NEW triggered \in BOOLEAN
  PROVE  CloseGop(g, n, triggered) \in GopInfos
<1> DEFINE isEmpty == g.listOk /\ g.list = <<>>
           counted == IF g.listOk THEN Len(g.list) ELSE OverflowCount
           hash == IF isEmpty THEN <<>> ELSE g.context
           rest == IF isEmpty THEN g.context ELSE <<>>
<1>1. counted \in HashCounts
  <2>1. Len(g.list) \in Nat /\ MaxHashes \in Nat
    BY ScenarioBounds DEF GopInfos
  <2> QED BY <2>1 DEF HashCounts
<1>2. hash \in Seq(Hashes) /\ rest \in Seq(Hashes)
  BY DEF GopInfos
<1>3. CloseGop(g, n, triggered) =
        [g EXCEPT !.triggered = triggered, !.startTime = g.endTime, !.endTime = n,
                  !.numNalus = counted, !.gopHash = hash, !.context = rest]
  BY DEF CloseGop
<1> HIDE DEF counted, hash, rest
<1>4. [g EXCEPT !.triggered = triggered] \in GopInfos
  BY Zenon DEF GopInfos
<1>5. triggered \in BOOLEAN
  OBVIOUS
<1> QED BY <1>1, <1>2, <1>3, <1>5 DEF GopInfos

LEMMA StartGopType ==
  ASSUME scenario \in Scenarios, NEW g \in GopInfos
  PROVE  StartGop(g) \in GopInfos
<1>1. <<>> \in Seq(Hashes) /\ 0 \in 0..MaxNalus /\ TRUE \in BOOLEAN /\ FALSE \in BOOLEAN
  BY ScenarioBounds
<1> QED BY <1>1 DEF GopInfos, StartGop

LEMMA CountGopType ==
  ASSUME scenario \in Scenarios, NEW g \in GopInfos, g.current < MaxNalus, MaxNalus >= 1
  PROVE  CountGop(g) \in GopInfos
<1> DEFINE c == IF g.current < 0 THEN 1 ELSE g.current + 1
<1>1. MaxNalus \in Nat /\ g.current \in GopCounts
  BY ScenarioBounds DEF GopInfos
<1>2. c \in GopCounts
  <2>1. CASE g.current = -1
    BY <1>1, <2>1 DEF GopCounts
  <2>2. CASE g.current \in 1..MaxNalus
    BY <1>1, <2>2 DEF GopCounts
  <2> QED BY <1>1, <2>1, <2>2 DEF GopCounts
<1>3. CountGop(g) = [g EXCEPT !.current = c]
  BY DEF CountGop
<1> HIDE DEF c
<1> QED BY <1>2, <1>3 DEF GopInfos

LEMMA GopInfoResetFields ==
  ASSUME NEW g \in GopInfos
  PROVE  LET c == GopInfoReset(g)
         IN  /\ c \in GopInfos
             /\ c.context = g.context /\ c.gopHash = g.gopHash
             /\ c.list = <<>> /\ c.listOk = TRUE
             /\ c.hasAnchor = FALSE /\ c.anchor = g.anchor
             /\ c.numNalus = g.numNalus /\ c.numFrames = g.numFrames /\ c.current = -1
             /\ c.triggered = g.triggered
             /\ c.startTime = g.startTime /\ c.endTime = g.endTime
<1> DEFINE m == -1
           l == <<<<>>, <<>>>>
<1>1. <<>> \in Seq(Hashes)
  OBVIOUS
<1>2. m \in GopCounts
  BY DEF GopCounts
<1>3. l \in Seq(Hashes) \X Seq(Hashes)
  BY <1>1
<1>4. TRUE \in BOOLEAN /\ FALSE \in BOOLEAN
  OBVIOUS
<1>5. GopInfoReset(g) = [g EXCEPT !.list = <<>>, !.listOk = TRUE, !.hasAnchor = FALSE,
                                  !.current = m, !.linked = l]
  BY DEF GopInfoReset
<1> HIDE DEF m, l
<1>6. /\ GopInfoReset(g) \in GopInfos
      /\ GopInfoReset(g).current = m
  BY <1>1, <1>2, <1>3, <1>4, <1>5 DEF GopInfos
<1>7. GopInfoReset(g).current = -1
  BY <1>6 DEF m
<1> QED BY <1>5, <1>6, <1>7 DEF GopInfos

(* The NAL Unit is hashed and counted. *)
Added(g, kind) ==
  LET h == HashOf(g, Position, kind)
      fits == g.listOk /\ Len(g.list) < MaxHashes
  IN  /\ gop' \in GopInfos
      /\ started' = TRUE
      /\ kind \in Hashable =>
           /\ gop'.context = Append(g.context, h)
           /\ gop'.list = (IF fits THEN Append(g.list, h) ELSE g.list)
           /\ gop'.listOk = fits
           /\ gop'.hasAnchor = (IsAnchor(g, kind) \/ g.hasAnchor)
           /\ gop'.anchor = (IF IsAnchor(g, kind) THEN Position ELSE g.anchor)
           /\ gop'.linked = (IF IsAnchor(g, kind) \/ (kind # "sei" /\ g.triggered)
                             THEN <<g.linked[2], <<h>>>> ELSE g.linked)
      /\ kind \notin Hashable =>
           /\ gop'.context = g.context /\ gop'.list = g.list
           /\ gop'.listOk = g.listOk /\ gop'.hasAnchor = g.hasAnchor
           /\ gop'.anchor = g.anchor /\ gop'.linked = g.linked
      /\ gop'.gopHash = g.gopHash
      /\ gop'.numNalus = g.numNalus /\ gop'.current = g.current
      /\ gop'.numFrames = (IF kind \in PrimarySlices THEN g.numFrames + 1 ELSE g.numFrames)
      /\ gop'.triggered = g.triggered
      /\ gop'.startTime = g.startTime /\ gop'.endTime = g.endTime

LEMMA AddFields ==
  ASSUME scenario \in Scenarios, NEW g \in GopInfos, g.numFrames < MaxNalus,
         Position \in 1..MaxNalus, NEW kind, Add(g, kind)
  PROVE  Added(g, kind)
<1> DEFINE c == HashAndAdd(g, Position, kind)
           f == IF kind \in PrimarySlices THEN c.numFrames + 1 ELSE c.numFrames
<1>1. gop' = [c EXCEPT !.numFrames = f] /\ started' = TRUE
  BY DEF Add
<1>2. CASE kind \in Hashable
  <2>1. LET h == HashOf(g, Position, kind)
            fits == g.listOk /\ Len(g.list) < MaxHashes
        IN  /\ c \in GopInfos
            /\ c.context = Append(g.context, h) /\ c.gopHash = g.gopHash
            /\ c.list = (IF fits THEN Append(g.list, h) ELSE g.list)
            /\ c.listOk = fits
            /\ c.hasAnchor = (IsAnchor(g, kind) \/ g.hasAnchor)
            /\ c.anchor = (IF IsAnchor(g, kind) THEN Position ELSE g.anchor)
            /\ c.linked = (IF IsAnchor(g, kind) \/ (kind # "sei" /\ g.triggered)
                           THEN <<g.linked[2], <<h>>>> ELSE g.linked)
            /\ c.numNalus = g.numNalus /\ c.numFrames = g.numFrames /\ c.current = g.current
            /\ c.triggered = g.triggered
            /\ c.startTime = g.startTime /\ c.endTime = g.endTime
    BY <1>2, HashAndAddFields
  <2>2. c.numFrames + 1 \in 0..MaxNalus
    BY <2>1, ScenarioBounds, SMTT(30) DEF GopInfos
  <2> HIDE DEF c
  <2>3. f \in 0..MaxNalus
    BY <2>1, <2>2 DEF GopInfos
  <2> HIDE DEF f
  <2>4. /\ gop' \in GopInfos /\ gop'.numFrames = f
        /\ gop'.context = c.context /\ gop'.gopHash = c.gopHash /\ gop'.list = c.list
        /\ gop'.listOk = c.listOk /\ gop'.hasAnchor = c.hasAnchor /\ gop'.anchor = c.anchor
        /\ gop'.linked = c.linked /\ gop'.numNalus = c.numNalus /\ gop'.current = c.current
        /\ gop'.triggered = c.triggered
        /\ gop'.startTime = c.startTime /\ gop'.endTime = c.endTime
    BY <1>1, <2>1, <2>3 DEF GopInfos
  <2> QED BY <1>1, <1>2, <2>1, <2>4 DEF f, Added
<1>3. CASE kind \notin Hashable
  <2>1. c = g /\ kind \notin PrimarySlices
    BY <1>3 DEF HashAndAdd, Hashable, Kinds, PrimarySlices
  <2>2. gop' = g
    BY <1>1, <2>1 DEF GopInfos
  <2> QED BY <1>1, <1>3, <2>1, <2>2 DEF Added
<1> QED BY <1>2, <1>3

-----------------------------------------------------------------------------
(* What the operations do to gop_info and to the SEIs.                     *)

LEMMA MayComeFields ==
  ASSUME TypeOK, Counting, NEW kind \in Kinds, MayCome(kind)
  PROVE  /\ MaxNalus \in Nat /\ MaxNalus >= 1
         /\ Position \in 1..MaxNalus /\ Position = Len(stream) + 1
         /\ stream \in Seq(Kinds \cup {"reset"})
         /\ stream' \in Seq(Kinds \cup {"reset"})
         /\ Len(stream') = Position
         /\ stream'[Position] = kind
         /\ \A n \in 1..Len(stream) : stream'[n] = stream[n]
<1>1. stream \in Seq(Kinds \cup {"reset"}) /\ stream' = Append(stream, kind)
  BY DEF TypeOK, MayCome
<1>2. Len(stream) \in Nat /\ MaxNalus \in Nat /\ Len(stream) < MaxNalus
  BY <1>1, ScenarioBounds DEF TypeOK, MayCome
<1>3. Position \in 1..MaxNalus /\ MaxNalus >= 1
  BY <1>2 DEF Position
<1>4. kind \in Kinds \cup {"reset"}
  OBVIOUS
<1> QED BY ONLY <1>1, <1>2, <1>3, <1>4 DEF Position

LEMMA AddNaluFields ==
  ASSUME TypeOK, Counting, NEW kind \in Kinds, AddNalu(kind)
  PROVE  LET h == HashOf(gop, Position, kind)
             fits == gop.listOk /\ Len(gop.list) < MaxHashes
         IN  /\ gop' \in GopInfos /\ started' = TRUE
             /\ kind # "I"
             /\ kind \in Hashable =>
                  /\ h \in Hashes /\ h.nalu = Position
                  /\ h.anchor = (IF kind = "sei" THEN Position ELSE gop.anchor)
                  /\ gop'.context = Append(gop.context, h)
                  /\ gop'.list = (IF fits THEN Append(gop.list, h) ELSE gop.list)
                  /\ gop'.listOk = fits
             /\ kind \notin Hashable =>
                  /\ gop'.context = gop.context /\ gop'.list = gop.list
                  /\ gop'.listOk = gop.listOk
             /\ gop'.hasAnchor = gop.hasAnchor /\ gop'.anchor = gop.anchor
             /\ gop'.linked = gop.linked
             /\ gop'.current = gop.current /\ gop'.endTime = gop.endTime
             /\ gop'.numFrames = (IF kind \in PrimarySlices THEN gop.numFrames + 1 ELSE gop.numFrames)
<1> DEFINE g == [gop EXCEPT !.triggered = FALSE]
<1>1. Position \in 1..MaxNalus /\ Position = Len(stream) + 1 /\ MaxNalus \in Nat
  BY MayComeFields DEF AddNalu
<1>2. FALSE \in BOOLEAN /\ gop \in GopInfos /\ scenario \in Scenarios
  BY DEF TypeOK
<1>3. /\ g \in GopInfos /\ g.triggered = FALSE
      /\ g.context = gop.context /\ g.gopHash = gop.gopHash
      /\ g.list = gop.list /\ g.listOk = gop.listOk
      /\ g.hasAnchor = gop.hasAnchor /\ g.anchor = gop.anchor /\ g.linked = gop.linked
      /\ g.numFrames = gop.numFrames /\ g.current = gop.current
      /\ g.endTime = gop.endTime
  BY <1>2 DEF GopInfos
<1>4. kind # "I" /\ Add(g, kind)
  BY DEF AddNalu, StartsGop
<1> HIDE DEF g
<1>5. HashOf(g, Position, kind) = HashOf(gop, Position, kind)
  BY <1>3 DEF HashOf, IsAnchor
<1>6. g.numFrames < MaxNalus
  BY <1>1, <1>2, <1>3 DEF Counting, GopInfos
<1>7. ~IsAnchor(g, kind) /\ ~IsAnchor(gop, kind)
  BY <1>4 DEF IsAnchor
<1>8. Added(g, kind)
  BY <1>1, <1>2, <1>3, <1>4, <1>6, AddFields
<1>9. /\ HashOf(gop, Position, kind) \in Hashes
      /\ HashOf(gop, Position, kind).nalu = Position
      /\ HashOf(gop, Position, kind).anchor = IF kind = "sei" THEN Position ELSE gop.anchor
  BY <1>1, <1>2, <1>7, HashOfType
<1>10. gop.hasAnchor \in BOOLEAN /\ gop'.hasAnchor = gop.hasAnchor
  <2>1. gop.hasAnchor \in BOOLEAN
    BY <1>2 DEF GopInfos
  <2>2. gop'.hasAnchor = (IF kind \in Hashable THEN IsAnchor(g, kind) \/ g.hasAnchor ELSE g.hasAnchor)
    BY <1>8 DEF Added
  <2> QED BY <1>3, <1>7, <2>1, <2>2
<1>11. /\ gop'.anchor = gop.anchor /\ gop'.linked = gop.linked
  BY <1>3, <1>7, <1>8 DEF Added
<1> QED BY <1>3, <1>4, <1>5, <1>7, <1>8, <1>9, <1>10, <1>11 DEF Added

LEMMA ClosedType ==
  ASSUME TypeOK, Counting, Position \in 1..MaxNalus, NEW kind \in Kinds
  PROVE  LET closed == CloseGop(gop, Position, kind # "I")
         IN  closed \in GopInfos /\ StartGop(closed) \in GopInfos /\ StartGop(gop) \in GopInfos
<1>1. MaxNalus \in Nat /\ scenario \in Scenarios /\ gop \in GopInfos /\ Len(gop.list) <= MaxHashes
  BY ScenarioBounds DEF TypeOK
<1>2. Position \in 0..MaxNalus
  BY <1>1
<1>3. (kind # "I") \in BOOLEAN
  OBVIOUS
<1>4. CloseGop(gop, Position, kind # "I") \in GopInfos
  BY <1>1, <1>2, <1>3, CloseGopType
<1> QED BY <1>1, <1>4, StartGopType

(* Starting the first GOP. *)
LEMMA AddFirstOfStreamFields ==
  ASSUME TypeOK, Counting, NEW kind \in Kinds, AddFirstOfStream(kind)
  PROVE  LET h == HashOf(gop, Position, kind)
             isEmpty == gop.listOk /\ gop.list = <<>>
             rest == IF isEmpty THEN gop.context ELSE <<>>
             fits == gop.listOk /\ Len(gop.list) < MaxHashes
         IN  /\ gop' \in GopInfos /\ started' = TRUE
             /\ gop.current = -1
             /\ kind \in {"I", "P"}
             /\ h \in Hashes /\ h.nalu = Position
             /\ h.anchor = (IF IsAnchor(gop, kind) THEN Position ELSE gop.anchor)
             /\ gop'.context = Append(rest, h)
             /\ gop'.list = (IF fits THEN Append(gop.list, h) ELSE gop.list)
             /\ gop'.listOk = fits
             /\ gop'.hasAnchor = (IsAnchor(gop, kind) \/ gop.hasAnchor)
             /\ gop'.anchor = (IF IsAnchor(gop, kind) THEN Position ELSE gop.anchor)
             /\ gop'.linked = (IF IsAnchor(gop, kind) \/ kind = "P"
                               THEN <<gop.linked[2], <<h>>>> ELSE gop.linked)
             /\ gop'.current = 1
             /\ gop'.endTime = Position
             /\ gop'.numFrames = gop.numFrames + 1
<1> DEFINE closed == CloseGop(gop, Position, kind # "I")
           g == CountGop(closed)
<1>1. Position \in 1..MaxNalus /\ Position = Len(stream) + 1 /\ MaxNalus \in Nat /\ MaxNalus >= 1
  BY MayComeFields DEF AddFirstOfStream
<1>2. gop \in GopInfos /\ scenario \in Scenarios
  BY DEF TypeOK
<1>3. kind \in {"I", "P"} /\ kind \in Hashable /\ kind \in PrimarySlices
  BY DEF AddFirstOfStream, StartsGop, Hashable, Kinds, PrimarySlices
<1>4. gop.current = -1
  BY <1>2 DEF AddFirstOfStream, GeneratesSei, Counting, GopInfos, GopCounts
<1>5. Add(g, kind)
  BY DEF AddFirstOfStream
<1>6. closed \in GopInfos
  BY <1>1, ClosedType
<1>7. /\ closed.context = (IF gop.listOk /\ gop.list = <<>> THEN gop.context ELSE <<>>)
      /\ closed.list = gop.list /\ closed.listOk = gop.listOk
      /\ closed.hasAnchor = gop.hasAnchor /\ closed.anchor = gop.anchor
      /\ closed.linked = gop.linked
      /\ closed.numFrames = gop.numFrames /\ closed.current = gop.current
      /\ closed.triggered = (kind # "I") /\ closed.endTime = Position
  BY <1>2, CloseGopFields
<1> HIDE DEF closed
<1>8. g \in GopInfos
  BY <1>1, <1>2, <1>4, <1>6, <1>7, CountGopType
<1>9. /\ g.context = closed.context
      /\ g.list = gop.list /\ g.listOk = gop.listOk
      /\ g.hasAnchor = gop.hasAnchor /\ g.anchor = gop.anchor
      /\ g.linked = gop.linked
      /\ g.numFrames = gop.numFrames /\ g.current = 1
      /\ g.triggered = (kind # "I") /\ g.endTime = Position
  BY <1>4, <1>6, <1>7, CountGopFields
<1> HIDE DEF g
<1>10. HashOf(g, Position, kind) = HashOf(gop, Position, kind) /\ (IsAnchor(g, kind) <=> IsAnchor(gop, kind))
  BY <1>9 DEF HashOf, IsAnchor
<1>11. g.numFrames < MaxNalus
  BY <1>1, <1>2, <1>9 DEF Counting, GopInfos
<1>12. kind # "sei" /\ (kind # "I" <=> kind = "P")
  BY <1>3
<1>13. Added(g, kind)
  BY <1>1, <1>2, <1>5, <1>8, <1>11, AddFields
<1>14. /\ HashOf(gop, Position, kind) \in Hashes
       /\ HashOf(gop, Position, kind).nalu = Position
       /\ HashOf(gop, Position, kind).anchor = IF IsAnchor(gop, kind) THEN Position ELSE gop.anchor
  BY <1>1, <1>2, <1>12, HashOfType
<1> QED BY <1>3, <1>4, <1>7, <1>9, <1>10, <1>12, <1>13, <1>14 DEF Added

(* Ending a GOP with a SEI, and starting the next one. *)
LEMMA AddFirstOfGopFields ==
  ASSUME TypeOK, Counting, NEW kind \in Kinds, AddFirstOfGop(kind)
  PROVE  LET h == [nalu |-> Position, anchor |-> IF kind = "I" THEN Position ELSE gop.anchor]
             isEmpty == gop.listOk /\ gop.list = <<>>
         IN  /\ gop' \in GopInfos /\ started' = TRUE
             /\ started /\ gop.current \in 1..MaxNalus
             /\ kind \in {"I", "P"}
             /\ h \in Hashes
             /\ gop'.context = <<h>> /\ gop'.list = <<h>> /\ gop'.listOk = TRUE
             /\ gop'.anchor = (IF kind = "I" THEN Position ELSE gop.anchor)
             /\ gop'.linked = <<gop.linked[2], <<h>>>>
             /\ gop'.current = gop.current + 1
             /\ gop'.endTime = Position
             /\ gop'.numFrames = 1
             /\ \E s \in Seis :
                  /\ seis' = Append(seis, s)
                  /\ s.counter = gop.current
                  /\ s.gopHash = (IF isEmpty THEN <<>> ELSE gop.context)
                  /\ s.numNalus = (IF gop.listOk THEN Len(gop.list) ELSE OverflowCount)
                  /\ s.list \in {<<>>, gop.list} /\ (~gop.listOk => s.list = <<>>)
                  /\ s.linked = gop.linked[1]
                  /\ s.startTime = gop.endTime /\ s.endTime = Position
                  /\ s.signed = IsSigned(LimitReached)
                  /\ s.atEnd = FALSE
<1> DEFINE closed == CloseGop(gop, Position, kind # "I")
           next == StartGop(closed)
           g == CountGop(next)
           h == [nalu |-> Position, anchor |-> IF kind = "I" THEN Position ELSE gop.anchor]
<1>1. Position \in 1..MaxNalus /\ Position = Len(stream) + 1 /\ MaxNalus \in Nat /\ MaxNalus >= 1
  BY MayComeFields DEF AddFirstOfGop
<1>2. gop \in GopInfos /\ scenario \in Scenarios /\ gop.anchor \in 0..MaxNalus
  BY DEF TypeOK, GopInfos
<1>3. kind \in {"I", "P"} /\ kind \in Hashable /\ kind \in PrimarySlices
  BY DEF AddFirstOfGop, StartsGop, Hashable, Kinds, PrimarySlices
<1>4. started /\ gop.current \in 1..MaxNalus /\ gop.current < MaxNalus
  BY <1>1, <1>2 DEF AddFirstOfGop, GeneratesSei, Counting, GopInfos, GopCounts
<1>5. Add(g, kind)
  BY DEF AddFirstOfGop
<1>6. closed \in GopInfos /\ next \in GopInfos
  BY <1>1, ClosedType
<1>7. /\ closed.gopHash = (IF gop.listOk /\ gop.list = <<>> THEN <<>> ELSE gop.context)
      /\ closed.list = gop.list /\ closed.listOk = gop.listOk
      /\ closed.hasAnchor = gop.hasAnchor /\ closed.anchor = gop.anchor
      /\ closed.linked = gop.linked
      /\ closed.numNalus = (IF gop.listOk THEN Len(gop.list) ELSE OverflowCount)
      /\ closed.current = gop.current
      /\ closed.triggered = (kind # "I")
      /\ closed.startTime = gop.endTime /\ closed.endTime = Position
  BY <1>2, CloseGopFields
<1>8. \E s \in Seis :
        /\ seis' = Append(seis, s)
        /\ s.counter = gop.current
        /\ s.gopHash = closed.gopHash
        /\ s.numNalus = closed.numNalus
        /\ s.list \in {<<>>, gop.list} /\ (~gop.listOk => s.list = <<>>)
        /\ s.linked = gop.linked[1]
        /\ s.startTime = gop.endTime /\ s.endTime = Position
        /\ s.signed = IsSigned(LimitReached)
        /\ s.atEnd = FALSE
  <2>1. PICK dropped : seis' = Append(seis, SeiOf(closed, IsSigned(LimitReached), dropped, FALSE))
    BY DEF AddFirstOfGop
  <2> DEFINE s == SeiOf(closed, IsSigned(LimitReached), dropped, FALSE)
             isSigned == IsSigned(LimitReached)
             l == IF closed.listOk /\ ~dropped THEN closed.list ELSE <<>>
  <2>2. isSigned \in BOOLEAN /\ FALSE \in BOOLEAN /\ (IsSigned(LimitReached) \in BOOLEAN)
    BY DEF IsSigned
  <2>3. l \in Seq(Hashes) /\ closed.linked[1] \in Seq(Hashes)
    BY <1>6, SMTT(30) DEF GopInfos
  <2>4. /\ s.list = l /\ s.counter = closed.current /\ s.gopHash = closed.gopHash
        /\ s.numNalus = closed.numNalus /\ s.linked = closed.linked[1]
        /\ s.startTime = closed.startTime /\ s.endTime = closed.endTime
        /\ s.signed = isSigned /\ s.atEnd = FALSE
    BY DEF SeiOf
  <2>5. s = [counter |-> closed.current, gopHash |-> closed.gopHash,
             numNalus |-> closed.numNalus, list |-> l, linked |-> closed.linked[1],
             triggered |-> closed.triggered, startTime |-> closed.startTime,
             endTime |-> closed.endTime, signed |-> isSigned, atEnd |-> FALSE]
    BY DEF SeiOf
  <2>6. l \in {<<>>, gop.list} /\ (~gop.listOk => l = <<>>)
    BY <1>7
  <2> HIDE DEF s, isSigned, l
  <2>7. s \in Seis
    BY <1>6, <2>2, <2>3, <2>5 DEF GopInfos, Seis
  <2> QED BY <1>7, <2>1, <2>4, <2>6, <2>7 DEF s, isSigned
<1> HIDE DEF closed
<1>9. /\ next.context = <<>> /\ next.list = <<>> /\ next.listOk = TRUE
      /\ next.hasAnchor = FALSE /\ next.anchor = gop.anchor
      /\ next.linked = gop.linked
      /\ next.numFrames = 0 /\ next.current = gop.current
      /\ next.triggered = (kind # "I") /\ next.endTime = Position
  BY <1>6, <1>7, StartGopFields
<1> HIDE DEF next
<1>10. g \in GopInfos
  BY <1>1, <1>2, <1>4, <1>6, <1>9, CountGopType
<1>11. /\ g.context = <<>> /\ g.list = <<>> /\ g.listOk = TRUE
       /\ g.hasAnchor = FALSE /\ g.anchor = gop.anchor
       /\ g.linked = gop.linked
       /\ g.numFrames = 0 /\ g.current = gop.current + 1
       /\ g.triggered = (kind # "I") /\ g.endTime = Position
  BY <1>1, <1>4, <1>6, <1>9, CountGopFields
<1> HIDE DEF g
<1>12. /\ HashOf(g, Position, kind) = h
       /\ IsAnchor(g, kind) <=> kind = "I"
  BY <1>3, <1>11 DEF HashOf, IsAnchor
<1>13. h \in Hashes
  BY <1>1, <1>2, <1>10, <1>12, HashOfType
<1> HIDE DEF h
<1>14. g.numFrames < MaxNalus /\ Len(g.list) < MaxHashes /\ Len(<<>>) = 0
  BY <1>1, <1>2, <1>11, ScenarioBounds
<1>15. Append(<<>>, h) = <<h>>
  OBVIOUS
<1>16. kind # "sei" /\ (kind # "I" <=> kind = "P")
  BY <1>3
<1>17. Added(g, kind)
  BY <1>1, <1>2, <1>5, <1>10, <1>14, AddFields
<1>18. gop'.listOk = TRUE /\ gop'.list = <<h>>
  <2>1. /\ gop'.listOk = (g.listOk /\ Len(g.list) < MaxHashes)
        /\ gop'.list = (IF g.listOk /\ Len(g.list) < MaxHashes THEN Append(g.list, h) ELSE g.list)
    BY <1>3, <1>12, <1>17 DEF Added
  <2>2. Len(g.list) < MaxHashes /\ Append(g.list, h) = <<h>>
    BY <1>11, <1>14, <1>15
  <2> QED BY <1>11, <2>1, <2>2
<1>19. gop'.linked = <<gop.linked[2], <<h>>>>
  BY <1>3, <1>11, <1>12, <1>16, <1>17 DEF Added
<1>20. /\ gop' \in GopInfos /\ started' = TRUE
       /\ gop'.context = <<h>>
       /\ gop'.anchor = (IF kind = "I" THEN Position ELSE gop.anchor)
       /\ gop'.current = gop.current + 1
       /\ gop'.endTime = Position
       /\ gop'.numFrames = 1
  BY <1>3, <1>11, <1>12, <1>14, <1>15, <1>16, <1>17 DEF Added
<1> QED BY <1>3, <1>4, <1>7, <1>8, <1>13, <1>18, <1>19, <1>20 DEF h

(* Failing to end a GOP, the SEI of the end of the stream, and the         *)
(* certificate SEI: what the GOP at hand has collected may get lost.       *)
Emptied(g) ==
  /\ g.context \in {gop.context, <<>>}
  /\ g.list \in {gop.list, <<>>}
  /\ g.numFrames \in {gop.numFrames, 0}
  /\ g.current = gop.current /\ g.anchor = gop.anchor

LEMMA AddFailsFields ==
  ASSUME TypeOK, Counting, NEW kind \in Kinds, AddFails(kind)
  PROVE  gop' \in GopInfos /\ Emptied(gop') /\ gop'.endTime = Position
<1> DEFINE closed == CloseGop(gop, Position, kind # "I")
<1>1. gop \in GopInfos /\ Position \in 1..MaxNalus
  BY MayComeFields DEF TypeOK, AddFails
<1>2. closed \in GopInfos /\ StartGop(closed) \in GopInfos
  BY <1>1, ClosedType
<1>3. /\ closed.context \in {gop.context, <<>>} /\ closed.list = gop.list
      /\ closed.numFrames = gop.numFrames /\ closed.current = gop.current
      /\ closed.anchor = gop.anchor /\ closed.endTime = Position
  BY <1>1, CloseGopFields
<1>4. gop' \in {closed, [closed EXCEPT !.listOk = FALSE], StartGop(closed)}
  BY DEF AddFails
<1> HIDE DEF closed
<1>5. CASE gop' = closed
  BY <1>2, <1>3, <1>5 DEF Emptied
<1>6. CASE gop' = [closed EXCEPT !.listOk = FALSE]
  <2>1. FALSE \in BOOLEAN
    OBVIOUS
  <2>2. /\ gop' \in GopInfos
        /\ gop'.context = closed.context /\ gop'.list = closed.list
        /\ gop'.numFrames = closed.numFrames /\ gop'.current = closed.current
        /\ gop'.anchor = closed.anchor /\ gop'.endTime = closed.endTime
    BY <1>2, <1>6, <2>1 DEF GopInfos
  <2> QED BY <1>3, <2>2 DEF Emptied
<1>7. CASE gop' = StartGop(closed)
  BY <1>2, <1>3, <1>7, StartGopFields DEF Emptied
<1> QED BY <1>4, <1>5, <1>6, <1>7

LEMMA EmptyingFields ==
  ASSUME TypeOK, gop' \in {gop, [gop EXCEPT !.listOk = FALSE], StartGop(gop)}
  PROVE  gop' \in GopInfos /\ Emptied(gop') /\ gop'.endTime = gop.endTime
<1>1. gop \in GopInfos /\ scenario \in Scenarios
  BY DEF TypeOK
<1>2. CASE gop' = gop
  BY <1>1, <1>2 DEF Emptied
<1>3. CASE gop' = [gop EXCEPT !.listOk = FALSE]
  <2>1. FALSE \in BOOLEAN
    OBVIOUS
  <2>2. /\ gop' \in GopInfos
        /\ gop'.context = gop.context /\ gop'.list = gop.list
        /\ gop'.numFrames = gop.numFrames /\ gop'.current = gop.current
        /\ gop'.anchor = gop.anchor /\ gop'.endTime = gop.endTime
    BY <1>1, <1>3, <2>1 DEF GopInfos
  <2> QED BY <2>2 DEF Emptied
<1>4. CASE gop' = StartGop(gop)
  <2>1. StartGop(gop) \in GopInfos
    BY <1>1, StartGopType
  <2>2. /\ gop'.context = <<>> /\ gop'.list = <<>> /\ gop'.numFrames = 0
        /\ gop'.current = gop.current /\ gop'.anchor = gop.anchor
        /\ gop'.endTime = gop.endTime
    BY <1>1, <1>4, StartGopFields
  <2> QED BY <1>4, <2>1, <2>2 DEF Emptied
<1> QED BY <1>2, <1>3, <1>4

LEMMA EndSei ==
  ASSUME TypeOK, SetEndOfStream
  PROVE  seis' = seis \/ \E s \in Seis : seis' = Append(seis, s) /\ s.atEnd = TRUE
<1>1. CASE seis' = seis
  BY <1>1
<1>2. ASSUME NEW dropped, seis' = Append(seis, SeiOf(gop, TRUE, dropped, TRUE))
      PROVE  \E s \in Seis : seis' = Append(seis, s) /\ s.atEnd = TRUE
  <2> DEFINE s == SeiOf(gop, TRUE, dropped, TRUE)
             l == IF gop.listOk /\ ~dropped THEN gop.list ELSE <<>>
  <2>1. gop \in GopInfos
    BY DEF TypeOK
  <2>2. l \in Seq(Hashes) /\ gop.linked[1] \in Seq(Hashes) /\ TRUE \in BOOLEAN
    BY <2>1 DEF GopInfos
  <2>3. s = [counter |-> gop.current, gopHash |-> gop.gopHash,
             numNalus |-> gop.numNalus, list |-> l, linked |-> gop.linked[1],
             triggered |-> gop.triggered, startTime |-> gop.startTime,
             endTime |-> gop.endTime, signed |-> TRUE, atEnd |-> TRUE]
    BY DEF SeiOf
  <2> HIDE DEF s, l
  <2>4. s \in Seis /\ s.atEnd = TRUE
    BY <2>1, <2>2, <2>3 DEF GopInfos, Seis
  <2> QED BY <1>2, <2>4 DEF s
<1> QED BY <1>1, <1>2 DEF SetEndOfStream

-----------------------------------------------------------------------------
(* Types.                                                                  *)

LEMMA ScenarioStays ==
  ASSUME [Next]_vars
  PROVE  /\ scenario' = scenario
         /\ MaxNalus' = MaxNalus /\ MaxHashes' = MaxHashes /\ Events' = Events
         /\ Hashes' = Hashes /\ GopInfos' = GopInfos /\ Seis' = Seis
<1>1. scenario' = scenario
  BY DEF Next, AddNalu, AddFirstOfStream, AddFirstOfGop, AddFails, SetEndOfStream,
         GenerateCertificateSei, Reset, SetSigningFrequency, SetMaxSigningFrames, vars
<1>2. MaxNalus' = MaxNalus /\ MaxHashes' = MaxHashes /\ Events' = Events
  BY <1>1 DEF MaxNalus, MaxHashes, Events
<1>3. Hashes' = Hashes
  BY <1>2 DEF Hashes
<1> QED BY <1>1, <1>2, <1>3 DEF GopInfos, Seis, HashCounts, GopCounts

LEMMA FrequencyBounds == \A f \in Frequencies : f \in Nat /\ f >= 1
BY BoundAssumption

(* num_gops_until_signing stays below a signing frequency if it is not     *)
(* zero when it is decremented.                                            *)
LEMMA DecrementedType ==
  ASSUME NEW n, NEW f \in Frequencies, n \in 1..f
  PROVE  Decremented(n) \in 0..f
BY FrequencyBounds DEF Decremented

(* The step leaves no hash_list that is too long, and no counter that      *)
(* is ahead of the stream.                                                 *)
GopFits ==
  /\ gop' \in GopInfos
  /\ Len(gop'.list) <= MaxHashes
  /\ gop'.numFrames <= Len(stream') /\ gop'.current <= Len(stream')
  /\ gop'.endTime <= Len(stream') /\ gop'.anchor <= Len(stream')

LEMMA AppendedFits ==
  ASSUME scenario \in Scenarios, NEW l \in Seq(Hashes), NEW h \in Hashes, Len(l) < MaxHashes
  PROVE  Len(Append(l, h)) <= MaxHashes
<1>1. Len(l) \in Nat /\ Len(Append(l, h)) = Len(l) + 1 /\ MaxHashes \in Nat
  BY ScenarioBounds
<1> QED BY <1>1

LEMMA AddedFits ==
  ASSUME TypeOK, Counting, NEW kind \in Kinds,
         AddNalu(kind) \/ AddFirstOfStream(kind) \/ AddFirstOfGop(kind)
  PROVE  GopFits /\ gop'.current >= gop.current /\ started' = TRUE
<1>1. /\ gop \in GopInfos /\ Len(gop.list) <= MaxHashes /\ scenario \in Scenarios
      /\ gop.numFrames \in Nat /\ gop.current \in Int /\ gop.current >= -1
      /\ gop.endTime \in Nat /\ gop.anchor \in Nat
      /\ gop.list \in Seq(Hashes) /\ gop.listOk \in BOOLEAN
  BY ScenarioBounds DEF TypeOK, GopInfos, GopCounts
<1>2. /\ Len(stream) \in Nat /\ Len(stream') = Len(stream) + 1 /\ Position = Len(stream) + 1
      /\ Len(stream) <= MaxNalus /\ MaxNalus \in Nat
  <2>1. MayCome(kind)
    BY DEF AddNalu, AddFirstOfStream, AddFirstOfGop
  <2>2. Len(stream) \in Nat
    BY DEF TypeOK
  <2> QED BY <2>1, <2>2, MayComeFields
<1>3. /\ gop.numFrames <= Len(stream) /\ gop.current <= Len(stream)
      /\ gop.endTime <= Len(stream) /\ gop.anchor <= Len(stream)
  BY DEF Counting
<1> DEFINE h == HashOf(gop, Position, kind)
<1>4. CASE AddNalu(kind)
  <2>1. /\ gop' \in GopInfos /\ started' = TRUE
        /\ gop'.anchor = gop.anchor
        /\ gop'.current = gop.current /\ gop'.endTime = gop.endTime
        /\ gop'.numFrames \in {gop.numFrames, gop.numFrames + 1}
    BY <1>4, AddNaluFields
  <2>2. gop'.list = gop.list \/ (h \in Hashes /\ Len(gop.list) < MaxHashes /\ gop'.list = Append(gop.list, h))
    BY <1>4, AddNaluFields
  <2>3. Len(gop'.list) <= MaxHashes
    BY <1>1, <2>2, AppendedFits
  <2> QED BY <1>1, <1>2, <1>3, <2>1, <2>3 DEF GopFits
<1>5. CASE AddFirstOfStream(kind)
  <2>1. /\ gop' \in GopInfos /\ started' = TRUE
        /\ gop'.anchor \in {Position, gop.anchor}
        /\ gop.current = -1 /\ gop'.current = 1 /\ gop'.endTime = Position
        /\ gop'.numFrames = gop.numFrames + 1
    BY <1>5, AddFirstOfStreamFields
  <2>2. gop'.list = gop.list \/ (h \in Hashes /\ Len(gop.list) < MaxHashes /\ gop'.list = Append(gop.list, h))
    BY <1>5, AddFirstOfStreamFields
  <2>3. Len(gop'.list) <= MaxHashes
    BY <1>1, <2>2, AppendedFits
  <2> QED BY <1>1, <1>2, <1>3, <2>1, <2>3 DEF GopFits
<1>6. CASE AddFirstOfGop(kind)
  <2>1. /\ gop' \in GopInfos /\ started' = TRUE
        /\ gop'.anchor \in {Position, gop.anchor}
        /\ gop'.current = gop.current + 1 /\ gop'.endTime = Position
        /\ gop'.numFrames = 1
    BY <1>6, AddFirstOfGopFields
  <2>2. \E x : gop'.list = <<x>>
    BY <1>6, AddFirstOfGopFields
  <2>3. Len(gop'.list) <= MaxHashes
    BY <1>1, <2>2, ScenarioBounds
  <2> QED BY <1>1, <1>2, <1>3, <2>1, <2>3 DEF GopFits
<1> QED BY <1>4, <1>5, <1>6

LEMMA OthersFit ==
  ASSUME TypeOK, Counting, NEW kind \in Kinds,
         AddFails(kind) \/ SetEndOfStream \/ GenerateCertificateSei
  PROVE  GopFits /\ gop'.current = gop.current
<1>1. /\ gop \in GopInfos /\ Len(gop.list) <= MaxHashes /\ scenario \in Scenarios
      /\ MaxHashes \in Nat
      /\ gop.numFrames \in Nat /\ gop.current \in Int
      /\ gop.endTime \in Nat /\ gop.anchor \in Nat
      /\ gop.list \in Seq(Hashes)
  BY ScenarioBounds DEF TypeOK, GopInfos, GopCounts
<1>2. Len(stream) \in Nat /\ Len(<<>>) = 0
  BY DEF TypeOK
<1>3. /\ gop.numFrames <= Len(stream) /\ gop.current <= Len(stream)
      /\ gop.endTime <= Len(stream) /\ gop.anchor <= Len(stream)
  BY DEF Counting
<1>4. CASE AddFails(kind)
  <2>1. Len(stream') = Len(stream) + 1 /\ Position = Len(stream) + 1
    BY <1>2, <1>4, MayComeFields DEF AddFails
  <2> QED BY <1>1, <1>2, <1>3, <1>4, <2>1, AddFailsFields DEF GopFits, Emptied
<1>5. CASE SetEndOfStream \/ GenerateCertificateSei
  <2>1. stream' = stream /\ gop' \in {gop, [gop EXCEPT !.listOk = FALSE], StartGop(gop)}
    BY <1>5 DEF SetEndOfStream, GenerateCertificateSei
  <2> QED BY <1>1, <1>2, <1>3, <2>1, EmptyingFields DEF GopFits, Emptied
<1> QED BY <1>4, <1>5

LEMMA ResetFits ==
  ASSUME TypeOK, Counting, Reset
  PROVE  GopFits /\ gop'.current = -1
<1>1. /\ gop \in GopInfos /\ scenario \in Scenarios /\ MaxHashes \in Nat
      /\ gop.numFrames \in Nat /\ gop.endTime \in Nat /\ gop.anchor \in Nat
  BY ScenarioBounds DEF TypeOK, GopInfos
<1>2. Len(stream) \in Nat /\ Len(<<>>) = 0 /\ Len(stream') = Len(stream) + 1
  BY DEF TypeOK, Reset
<1>3. gop.numFrames <= Len(stream) /\ gop.endTime <= Len(stream) /\ gop.anchor <= Len(stream)
  BY DEF Counting
<1>4. gop' = GopInfoReset(gop)
  BY DEF Reset
<1>5. /\ gop' \in GopInfos
      /\ gop'.list = <<>> /\ gop'.anchor = gop.anchor
      /\ gop'.numFrames = gop.numFrames /\ gop'.current = -1
      /\ gop'.endTime = gop.endTime
  BY <1>1, <1>4, GopInfoResetFields
<1> QED BY <1>1, <1>2, <1>3, <1>5 DEF GopFits

(* The SEIs of a step. *)
LEMMA SeisType ==
  ASSUME TypeOK, Counting, [Next]_vars
  PROVE  seis' \in Seq(Seis)
<1>1. seis' = seis \/ \E s \in Seis : seis' = Append(seis, s)
  <2>1. CASE \E kind \in Kinds : AddFirstOfGop(kind)
    BY <2>1, AddFirstOfGopFields
  <2>2. CASE SetEndOfStream
    BY <2>2, EndSei
  <2>3. CASE ~(\E kind \in Kinds : AddFirstOfGop(kind)) /\ ~SetEndOfStream
    BY <2>3 DEF Next, AddNalu, AddFirstOfStream, AddFails,
         GenerateCertificateSei, Reset, SetSigningFrequency, SetMaxSigningFrames, vars
  <2> QED BY <2>1, <2>2, <2>3
<1>2. seis \in Seq(Seis)
  BY DEF TypeOK
<1> QED BY <1>1, <1>2

LEMMA StreamType ==
  ASSUME TypeOK, Counting, [Next]_vars
  PROVE  /\ stream' \in Seq(Kinds \cup {"reset"})
         /\ \/ stream' = stream
            \/ \E k \in Kinds \cup {"reset"} : stream' = Append(stream, k)
<1>1. stream \in Seq(Kinds \cup {"reset"})
  BY DEF TypeOK
<1>2. \/ stream' = stream
      \/ \E k \in Kinds \cup {"reset"} : stream' = Append(stream, k)
  BY DEF Next, AddNalu, AddFirstOfStream, AddFirstOfGop, AddFails, SetEndOfStream, MayCome,
         GenerateCertificateSei, Reset, SetSigningFrequency, SetMaxSigningFrames, vars
<1> QED BY <1>1, <1>2

LEMMA SettingsType ==
  ASSUME TypeOK, Counting, [Next]_vars
  PROVE  /\ signingFrequency' \in Frequencies /\ maxSigningFrames' \in FrameLimits
         /\ ended' \in BOOLEAN /\ started' \in BOOLEAN
<1>1. /\ signingFrequency \in Frequencies /\ maxSigningFrames \in FrameLimits
      /\ ended \in BOOLEAN /\ started \in BOOLEAN
  BY Zenon DEF TypeOK
<1>2. started' = started \/ started' = TRUE \/ started' = FALSE
  <2>1. CASE \E kind \in Kinds : AddNalu(kind) \/ AddFirstOfStream(kind) \/ AddFirstOfGop(kind)
    BY <2>1, AddedFits
  <2>2. CASE Reset
    BY <2>2 DEF Reset
  <2>3. CASE UNCHANGED started
    BY <2>3
  <2> QED BY <2>1, <2>2, <2>3 DEF Next, AddFails, SetEndOfStream,
         GenerateCertificateSei, SetSigningFrequency, SetMaxSigningFrames, vars
<1>3. ended' = ended \/ ended' = TRUE
  BY DEF Next, AddNalu, AddFirstOfStream, AddFirstOfGop, AddFails, SetEndOfStream, Add,
         GenerateCertificateSei, Reset, SetSigningFrequency, SetMaxSigningFrames, vars
<1>4. signingFrequency' \in Frequencies /\ maxSigningFrames' \in FrameLimits
  BY <1>1 DEF Next, AddNalu, AddFirstOfStream, AddFirstOfGop, AddFails, SetEndOfStream, Add, settings,
         GenerateCertificateSei, Reset, SetSigningFrequency, SetMaxSigningFrames, vars
<1>5. started' \in BOOLEAN /\ ended' \in BOOLEAN
  BY <1>1, <1>2, <1>3, Zenon
<1> QED BY <1>4, <1>5

(* The counter of GOPs until signing. *)
LEMMA UntilSigningType ==
  ASSUME TypeOK, Counting, [Next]_vars
  PROVE  /\ \E frequency \in Frequencies : untilSigning' \in 0..frequency
         /\ ~started' => gop'.current = -1
         /\ gop'.current = -1 => untilSigning' > 0
<1>1. PICK f \in Frequencies : untilSigning \in 0..f
  BY DEF TypeOK
<1>2. f \in Nat /\ signingFrequency \in Frequencies /\ gop \in GopInfos
  BY <1>1, FrequencyBounds DEF TypeOK
<1>3. (~started => gop.current = -1) /\ (gop.current = -1 => untilSigning > 0)
  BY DEF Counting
<1>4. gop.current \in Int /\ gop.current >= -1
  BY <1>2, ScenarioBounds, SMTT(30) DEF GopInfos, GopCounts, TypeOK
<1>5. ASSUME NEW kind \in Kinds, AddNalu(kind)
      PROVE  UNCHANGED untilSigning /\ started' = TRUE /\ gop'.current = gop.current
  BY <1>5, AddNaluFields DEF AddNalu
<1>6. ASSUME NEW kind \in Kinds, AddFirstOfStream(kind)
      PROVE  /\ untilSigning' \in 0..f /\ started' = TRUE /\ gop'.current = 1
  <2>1. gop.current = -1 /\ gop'.current = 1 /\ started' = TRUE
    BY <1>6, AddFirstOfStreamFields
  <2>2. untilSigning \in 1..f
    BY <1>1, <1>2, <1>3, <2>1
  <2>3. Decremented(untilSigning) \in 0..f
    BY <1>1, <2>2, DecrementedType
  <2> QED BY <1>1, <1>6, <2>1, <2>3 DEF AddFirstOfStream
<1>7. ASSUME NEW kind \in Kinds, AddFirstOfGop(kind)
      PROVE  /\ untilSigning' \in 0..f \/ untilSigning' \in 0..signingFrequency
             /\ started' = TRUE /\ gop'.current = gop.current + 1 /\ gop.current >= 1
  <2>1. started' = TRUE /\ gop'.current = gop.current + 1 /\ gop.current \in 1..MaxNalus
    BY <1>7, AddFirstOfGopFields
  <2>2. gop.current >= 1
    BY <2>1, ScenarioBounds DEF TypeOK
  <2>3. CASE untilSigning = 0
    <3>1. signingFrequency \in 1..signingFrequency
      BY <1>2, FrequencyBounds
    <3>2. Decremented(signingFrequency) \in 0..signingFrequency
      BY <1>2, <3>1, DecrementedType
    <3>3. untilSigning' \in 0..f \/ untilSigning' \in 0..signingFrequency
      BY <1>1, <1>7, <2>3, <3>2 DEF AddFirstOfGop
    <3> QED BY <2>1, <2>2, <3>3
  <2>4. CASE untilSigning # 0
    <3>1. untilSigning \in 1..f
      BY <1>1, <1>2, <2>4
    <3>2. Decremented(untilSigning) \in 0..f
      BY <1>1, <3>1, DecrementedType
    <3>3. untilSigning' \in 0..f \/ untilSigning' \in 0..signingFrequency
      BY <1>1, <1>7, <2>4, <3>2 DEF AddFirstOfGop
    <3> QED BY <2>1, <2>2, <3>3
  <2> QED BY <2>3, <2>4
<1>8. ASSUME NEW kind \in Kinds, AddFails(kind) \/ SetEndOfStream \/ GenerateCertificateSei
      PROVE  UNCHANGED <<untilSigning, started>> /\ gop'.current = gop.current
  BY <1>8, OthersFit DEF AddFails, SetEndOfStream, GenerateCertificateSei
<1>9. CASE Reset
  <2>1. gop'.current = -1 /\ untilSigning' = signingFrequency
    BY <1>9, ResetFits DEF Reset
  <2>2. signingFrequency \in 0..signingFrequency /\ signingFrequency > 0
    BY <1>2, FrequencyBounds
  <2> QED BY <1>2, <2>1, <2>2
<1>10. ASSUME NEW frequency \in Frequencies, SetSigningFrequency(frequency)
       PROVE  /\ UNCHANGED <<started, gop>>
              /\ untilSigning' = untilSigning \/ (frequency \in 0..frequency /\ untilSigning' = frequency /\ frequency > 0)
  BY <1>10, FrequencyBounds DEF SetSigningFrequency
<1>11. CASE \E limit \in FrameLimits : SetMaxSigningFrames(limit)
  BY <1>1, <1>3, <1>11 DEF SetMaxSigningFrames
<1>12. CASE UNCHANGED vars
  BY <1>1, <1>3, <1>12 DEF vars
<1>13. CASE \E kind \in Kinds : AddNalu(kind)
  BY <1>1, <1>3, <1>5, <1>13
<1>14. CASE \E kind \in Kinds : AddFirstOfStream(kind)
  <2>1. untilSigning' \in 0..f /\ started' = TRUE /\ gop'.current = 1
    BY <1>6, <1>14
  <2> QED BY <1>1, <2>1
<1>15. CASE \E kind \in Kinds : AddFirstOfGop(kind)
  <2>1. /\ untilSigning' \in 0..f \/ untilSigning' \in 0..signingFrequency
        /\ started' = TRUE /\ gop'.current = gop.current + 1 /\ gop.current >= 1
    BY <1>7, <1>15
  <2>2. gop'.current # -1
    BY <1>4, <2>1
  <2> QED BY <1>1, <1>2, <2>1, <2>2
<1>16. CASE (\E kind \in Kinds : AddFails(kind)) \/ SetEndOfStream \/ GenerateCertificateSei
  <2>1. UNCHANGED <<untilSigning, started>> /\ gop'.current = gop.current
    <3>1. "I" \in Kinds
      BY DEF Kinds
    <3> QED BY <1>8, <1>16, <3>1
  <2> QED BY <1>1, <1>3, <2>1
<1>17. CASE \E frequency \in Frequencies : SetSigningFrequency(frequency)
  BY <1>1, <1>3, <1>10, <1>17
<1> QED BY <1>9, <1>11, <1>12, <1>13, <1>14, <1>15, <1>16, <1>17 DEF Next

LEMMA GopType ==
  ASSUME TypeOK, Counting, [Next]_vars
  PROVE  GopFits
<1>1. CASE \E kind \in Kinds : AddNalu(kind) \/ AddFirstOfStream(kind) \/ AddFirstOfGop(kind)
  BY <1>1, AddedFits
<1>2. CASE (\E kind \in Kinds : AddFails(kind)) \/ SetEndOfStream \/ GenerateCertificateSei
  <2>1. "I" \in Kinds
    BY DEF Kinds
  <2> QED BY <1>2, <2>1, OthersFit
<1>3. CASE Reset
  BY <1>3, ResetFits
<1>4. CASE UNCHANGED <<gop, stream>>
  BY <1>4 DEF TypeOK, Counting, GopFits
<1> QED BY <1>1, <1>2, <1>3, <1>4 DEF Next, SetSigningFrequency, SetMaxSigningFrames, vars

LEMMA InitTyped == Init => TypeOK /\ Counting
<1> SUFFICES ASSUME Init PROVE TypeOK /\ Counting
  OBVIOUS
<1>1. scenario \in Scenarios /\ MaxNalus \in Nat /\ MaxHashes \in Nat
  BY ScenarioBounds DEF Init
<1>2. NewGopInfo \in GopInfos
  <2> DEFINE m == -1
             l == <<<<>>, <<>>>>
  <2>1. m \in GopCounts /\ 0 \in HashCounts /\ 0 \in 0..MaxNalus
    BY <1>1 DEF GopCounts, HashCounts
  <2>2. <<>> \in Seq(Hashes)
    OBVIOUS
  <2>3. l \in Seq(Hashes) \X Seq(Hashes)
    BY <2>2
  <2>4. TRUE \in BOOLEAN /\ FALSE \in BOOLEAN
    OBVIOUS
  <2>5. NewGopInfo = [context |-> <<>>, list |-> <<>>, listOk |-> TRUE, hasAnchor |-> FALSE,
                      anchor |-> 0, linked |-> l, gopHash |-> <<>>, numNalus |-> 0,
                      numFrames |-> 0, current |-> m, triggered |-> FALSE,
                      startTime |-> 0, endTime |-> 0]
    BY DEF NewGopInfo, None
  <2> HIDE DEF m, l
  <2> QED BY <2>1, <2>2, <2>3, <2>4, <2>5 DEF GopInfos
<1>3. /\ NewGopInfo.list = <<>> /\ Len(<<>>) = 0
      /\ NewGopInfo.numFrames = 0 /\ NewGopInfo.current = -1
      /\ NewGopInfo.endTime = 0 /\ NewGopInfo.anchor = 0
  BY DEF NewGopInfo, None
<1>4. /\ signingFrequency \in Frequencies /\ untilSigning = signingFrequency
      /\ untilSigning \in 0..signingFrequency /\ untilSigning > 0
  BY FrequencyBounds DEF Init
<1>5. started \in BOOLEAN /\ ended \in BOOLEAN
  BY DEF Init
<1>6. stream \in Seq(Kinds \cup {"reset"}) /\ seis \in Seq(Seis) /\ Len(stream) = 0
  BY DEF Init
<1> QED BY <1>1, <1>2, <1>3, <1>4, <1>5, <1>6 DEF Init, TypeOK, Counting

LEMMA TypeStep == TypeOK /\ Counting /\ [Next]_vars => TypeOK' /\ Counting'
<1> SUFFICES ASSUME TypeOK, Counting, [Next]_vars PROVE TypeOK' /\ Counting'
  OBVIOUS
<1>1. /\ scenario' = scenario /\ scenario \in Scenarios
      /\ MaxNalus' = MaxNalus /\ MaxHashes' = MaxHashes
      /\ GopInfos' = GopInfos /\ Seis' = Seis
  BY ScenarioStays DEF TypeOK
<1>2. GopFits
  BY GopType
<1>3. /\ gop' \in GopInfos' /\ Len(gop'.list) <= MaxHashes'
  BY <1>1, <1>2 DEF GopFits
<1>4. seis' \in Seq(Seis')
  BY <1>1, SeisType
<1>5. TypeOK'
  BY <1>1, <1>3, <1>4, StreamType, SettingsType, UntilSigningType DEF TypeOK
<1>6. Counting'
  BY <1>1, <1>2, StreamType, UntilSigningType DEF Counting, GopFits
<1> QED BY <1>5, <1>6

(* The types hold in every session: the signing counter, which is          *)
(* decremented without asking, never wraps around, whatever frequencies    *)
(* are set and whatever is reset, and hash_list never overflows, however   *)
(* many NAL Units a GOP has.                                               *)
THEOREM TypesAreKept == Spec => []TypeOK
<1>1. Init => TypeOK /\ Counting
  BY InitTyped
<1>2. (TypeOK /\ Counting) /\ [Next]_vars => (TypeOK /\ Counting)'
  BY TypeStep
<1> QED BY <1>1, <1>2, PTL DEF Spec

-----------------------------------------------------------------------------
(* The order of the hashes.                                                *)

LEMMA EmptyInOrder ==
  ASSUME NEW n, NEW g
  PROVE  Ascending(<<>>) /\ UpTo(<<>>, n) /\ Before(g, <<>>) /\ Before(<<>>, g)
BY DEF Ascending, UpTo, Before

LEMMA NaluType ==
  ASSUME MaxNalus \in Nat, NEW c \in Seq(Hashes), NEW i \in DOMAIN c
  PROVE  c[i] \in Hashes /\ c[i].nalu \in Int /\ c[i].nalu \in Nat /\ c[i].nalu >= 1
<1>1. c[i] \in Hashes
  OBVIOUS
<1> QED BY <1>1 DEF Hashes

(* A hash behind all that there are. *)
LEMMA AppendInOrder ==
  ASSUME MaxNalus \in Nat, NEW c \in Seq(Hashes), NEW n \in Nat, NEW h \in Hashes, h.nalu = n + 1,
         Ascending(c), UpTo(c, n)
  PROVE  /\ Ascending(Append(c, h)) /\ UpTo(Append(c, h), n + 1)
         /\ \A g \in Seq(Hashes) : UpTo(g, n) /\ Before(g, c) => Before(g, Append(c, h))
<1> DEFINE a == Append(c, h)
<1>1. /\ DOMAIN c = 1..Len(c) /\ Len(c) \in Nat
      /\ DOMAIN a = 1..(Len(c) + 1)
      /\ \A i \in 1..Len(c) : a[i] = c[i]
      /\ a[Len(c) + 1] = h
  OBVIOUS
<1> HIDE DEF a
<1>2. \A i \in DOMAIN a : a[i].nalu \in Int /\ a[i].nalu <= n + 1
                          /\ (i # Len(c) + 1 => i \in DOMAIN c /\ a[i] = c[i] /\ a[i].nalu <= n)
  BY <1>1, NaluType DEF UpTo
<1>3. Ascending(a)
  <2> SUFFICES ASSUME NEW i \in DOMAIN a, NEW j \in DOMAIN a, i < j PROVE a[i].nalu < a[j].nalu
    BY DEF Ascending
  <2>1. i \in DOMAIN c /\ a[i] = c[i] /\ a[i].nalu <= n /\ a[i].nalu \in Int
    BY <1>1, <1>2
  <2>2. CASE j = Len(c) + 1
    BY <1>1, <2>1, <2>2
  <2>3. CASE j # Len(c) + 1
    BY <1>2, <2>1, <2>3 DEF Ascending
  <2> QED BY <2>2, <2>3
<1>4. ASSUME NEW g \in Seq(Hashes), UpTo(g, n), Before(g, c), NEW i \in DOMAIN g, NEW j \in DOMAIN a
      PROVE  g[i].nalu < a[j].nalu
  <2>1. g[i].nalu <= n /\ g[i].nalu \in Int
    BY <1>4, NaluType DEF UpTo
  <2>2. CASE j = Len(c) + 1
    BY <1>1, <2>1, <2>2
  <2>3. CASE j # Len(c) + 1
    BY <1>2, <1>4, <2>3 DEF Before
  <2> QED BY <2>2, <2>3
<1> QED BY <1>2, <1>3, <1>4 DEF UpTo, Before, a

LEMMA UpToMore ==
  ASSUME MaxNalus \in Nat, NEW c \in Seq(Hashes), NEW n \in Nat, NEW m \in Nat, UpTo(c, n), n <= m
  PROVE  UpTo(c, m)
<1>1. \A i \in DOMAIN c : c[i].nalu \in Int
  BY NaluType
<1> QED BY <1>1 DEF UpTo

(* What a step does to the context and to the SEIs. *)
OrderedStep ==
  \/ /\ gop'.context \in {gop.context, <<>>}
     /\ stream' = stream \/ Len(stream') = Len(stream) + 1
     /\ \/ seis' = seis
        \/ \E s \in Seis : seis' = Append(seis, s) /\ s.atEnd = TRUE
  \/ /\ \E h \in Hashes : /\ h.nalu = Len(stream) + 1
                          /\ gop'.context \in {Append(gop.context, h), Append(<<>>, h)}
     /\ Len(stream') = Len(stream) + 1
     /\ seis' = seis
  \/ /\ \E h \in Hashes : /\ h.nalu = Len(stream) + 1
                          /\ gop'.context = <<h>>
     /\ Len(stream') = Len(stream) + 1
     /\ \E s \in Seis : /\ seis' = Append(seis, s) /\ s.atEnd = FALSE
                        /\ s.gopHash \in {gop.context, <<>>}

LEMMA EveryStepIsOrdered ==
  ASSUME TypeOK, Counting, [Next]_vars
  PROVE  OrderedStep
<1>1. "I" \in Kinds /\ stream \in Seq(Kinds \cup {"reset"}) /\ Len(stream) \in Nat
  BY DEF Kinds, TypeOK
<1>2. ASSUME NEW kind \in Kinds, AddNalu(kind)
      PROVE  OrderedStep
  <2>1. MayCome(kind) /\ seis' = seis
    BY <1>2 DEF AddNalu
  <2>2. Len(stream') = Len(stream) + 1 /\ Position = Len(stream) + 1
    BY <2>1, MayComeFields
  <2>3. CASE kind \in Hashable
    <3>1. PICK h : h \in Hashes /\ h.nalu = Position /\ gop'.context = Append(gop.context, h)
      BY <1>2, <2>3, AddNaluFields
    <3> QED BY <2>1, <2>2, <3>1 DEF OrderedStep
  <2>4. CASE kind \notin Hashable
    <3>1. gop'.context = gop.context
      BY <1>2, <2>4, AddNaluFields
    <3> QED BY <2>1, <2>2, <3>1 DEF OrderedStep
  <2> QED BY <2>3, <2>4
<1>3. ASSUME NEW kind \in Kinds, AddFirstOfStream(kind)
      PROVE  OrderedStep
  <2>1. MayCome(kind) /\ seis' = seis
    BY <1>3 DEF AddFirstOfStream
  <2>2. Len(stream') = Len(stream) + 1 /\ Position = Len(stream) + 1
    BY <2>1, MayComeFields
  <2>3. PICK h : /\ h \in Hashes /\ h.nalu = Position
                 /\ gop'.context \in {Append(gop.context, h), Append(<<>>, h)}
    <3>1. PICK rest \in {gop.context, <<>>} :
            LET h == HashOf(gop, Position, kind)
            IN  h \in Hashes /\ h.nalu = Position /\ gop'.context = Append(rest, h)
      BY <1>3, AddFirstOfStreamFields
    <3> QED BY <3>1
  <2> QED BY <2>1, <2>2, <2>3 DEF OrderedStep
<1>4. ASSUME NEW kind \in Kinds, AddFirstOfGop(kind)
      PROVE  OrderedStep
  <2>1. MayCome(kind)
    BY <1>4 DEF AddFirstOfGop
  <2>2. Len(stream') = Len(stream) + 1 /\ Position = Len(stream) + 1
    BY <2>1, MayComeFields
  <2>3. PICK h : h \in Hashes /\ h.nalu = Position /\ gop'.context = <<h>>
    BY <1>4, AddFirstOfGopFields
  <2>4. PICK s \in Seis : /\ seis' = Append(seis, s) /\ s.atEnd = FALSE
                          /\ s.gopHash \in {gop.context, <<>>}
    BY <1>4, AddFirstOfGopFields
  <2> QED BY <2>2, <2>3, <2>4 DEF OrderedStep
<1>5. ASSUME NEW kind \in Kinds, AddFails(kind)
      PROVE  OrderedStep
  <2>1. MayCome(kind) /\ seis' = seis
    BY <1>5 DEF AddFails
  <2>2. Len(stream') = Len(stream) + 1
    BY <2>1, MayComeFields
  <2>3. gop'.context \in {gop.context, <<>>}
    BY <1>5, AddFailsFields DEF Emptied
  <2> QED BY <2>1, <2>2, <2>3 DEF OrderedStep
<1>6. CASE SetEndOfStream \/ GenerateCertificateSei
  <2>1. stream' = stream /\ gop' \in {gop, [gop EXCEPT !.listOk = FALSE], StartGop(gop)}
    BY <1>6 DEF SetEndOfStream, GenerateCertificateSei
  <2>2. gop'.context \in {gop.context, <<>>}
    BY <2>1, EmptyingFields DEF Emptied
  <2>3. seis' = seis \/ \E s \in Seis : seis' = Append(seis, s) /\ s.atEnd = TRUE
    BY <1>6, EndSei DEF GenerateCertificateSei
  <2> QED BY <2>1, <2>2, <2>3 DEF OrderedStep
<1>7. CASE Reset
  <2>1. gop \in GopInfos /\ gop' = GopInfoReset(gop)
    BY <1>7 DEF Reset, TypeOK
  <2>2. gop'.context = gop.context
    BY <2>1, GopInfoResetFields
  <2> QED BY <1>1, <1>7, <2>2 DEF OrderedStep, Reset
<1>8. CASE UNCHANGED <<stream, gop, seis>>
  BY <1>8 DEF OrderedStep
<1> QED BY <1>2, <1>3, <1>4, <1>5, <1>6, <1>7, <1>8 DEF Next, SetSigningFrequency, SetMaxSigningFrames, vars

(* Appending a SEI. *)
LEMMA SeiAppended ==
  ASSUME seis \in Seq(Seis), NEW s \in Seis, seis' = Append(seis, s)
  PROVE  /\ Len(seis) \in Nat /\ Len(seis') = Len(seis) + 1
         /\ \A k \in 1..Len(seis) : seis'[k] = seis[k]
         /\ seis'[Len(seis) + 1] = s
         /\ s.atEnd = TRUE => GopSeis' = GopSeis
         /\ s.atEnd = FALSE => GopSeis' = GopSeis \cup {Len(seis) + 1}
<1>1. /\ Len(seis) \in Nat /\ DOMAIN seis = 1..Len(seis)
      /\ DOMAIN seis' = 1..(Len(seis) + 1) /\ Len(seis') = Len(seis) + 1
      /\ \A k \in 1..Len(seis) : seis'[k] = seis[k]
      /\ seis'[Len(seis) + 1] = s
  OBVIOUS
<1> QED BY <1>1 DEF GopSeis

LEMMA GopSeisFacts ==
  ASSUME seis \in Seq(Seis), NEW k \in GopSeis
  PROVE  /\ k \in 1..Len(seis) /\ k \in DOMAIN seis /\ k \in Nat /\ k <= Len(seis)
         /\ Len(seis) \in Nat
         /\ seis[k] \in Seis /\ seis[k].gopHash \in Seq(Hashes) /\ ~seis[k].atEnd
<1>1. k \in DOMAIN seis /\ ~seis[k].atEnd
  BY DEF GopSeis
<1>2. seis[k] \in Seis
  BY <1>1
<1> QED BY <1>1, <1>2, SMTT(30) DEF Seis

LEMMA OrderStep == TypeOK /\ Counting /\ Order /\ [Next]_vars => Order'
<1> SUFFICES ASSUME TypeOK, Counting, Order, [Next]_vars PROVE Order'
  OBVIOUS
<1> DEFINE n == Len(stream)
           m == Len(stream')
           new == Len(seis) + 1
<1>1. /\ seis \in Seq(Seis) /\ MaxNalus \in Nat /\ n \in Nat
      /\ gop \in GopInfos /\ gop.context \in Seq(Hashes)
  BY ScenarioBounds DEF TypeOK, GopInfos
<1>2. OrderedStep
  BY EveryStepIsOrdered
<1>3. m \in Nat /\ n <= m
  BY <1>1, <1>2 DEF OrderedStep
<1>4. /\ Ascending(gop.context) /\ UpTo(gop.context, n)
      /\ \A k \in GopSeis : /\ Ascending(seis[k].gopHash)
                            /\ UpTo(seis[k].gopHash, n)
                            /\ Before(seis[k].gopHash, gop.context)
      /\ \A k, l \in GopSeis : k < l => Before(seis[k].gopHash, seis[l].gopHash)
  BY DEF Order
<1> HIDE DEF n, m
(* The new context is in order, whatever is behind it. *)
<1>5. /\ Ascending(gop'.context) /\ UpTo(gop'.context, m)
      /\ \A g \in Seq(Hashes) : UpTo(g, n) /\ Before(g, gop.context) => Before(g, gop'.context)
  <2>1. CASE gop'.context = gop.context
    BY <1>1, <1>3, <1>4, <2>1, UpToMore
  <2>2. CASE gop'.context = <<>>
    BY <2>2, EmptyInOrder
  <2>3. ASSUME NEW h \in Hashes, h.nalu = n + 1, m = n + 1, NEW c \in {gop.context, <<>>},
               gop'.context = Append(c, h)
        PROVE  /\ Ascending(gop'.context) /\ UpTo(gop'.context, m)
               /\ \A g \in Seq(Hashes) : UpTo(g, n) /\ Before(g, gop.context) => Before(g, gop'.context)
    <3>1. c \in Seq(Hashes) /\ Ascending(c) /\ UpTo(c, n)
          /\ \A g \in Seq(Hashes) : Before(g, gop.context) => Before(g, c)
      <4>1. CASE c = gop.context
        BY <1>1, <1>4, <4>1
      <4>2. CASE c = <<>>
        <5>1. <<>> \in Seq(Hashes)
          OBVIOUS
        <5> QED BY <4>2, <5>1, EmptyInOrder
      <4> QED BY <2>3, <4>1, <4>2
    <3> QED BY <1>1, <2>3, <3>1, AppendInOrder
  <2>4. /\ m = n + 1 \/ gop'.context \in {gop.context, <<>>}
        /\ gop'.context \in {gop.context, <<>>}
             \/ \E h \in Hashes, c \in {gop.context, <<>>} : h.nalu = n + 1 /\ gop'.context = Append(c, h)
    <3>1. \A h : <<h>> = Append(<<>>, h)
      OBVIOUS
    <3> QED BY <1>2, <3>1 DEF OrderedStep, n, m
  <2> QED BY <2>1, <2>2, <2>3, <2>4
<1>6. \A k \in GopSeis : k \in 1..Len(seis) /\ seis[k].gopHash \in Seq(Hashes)
  BY <1>1, GopSeisFacts
(* The SEIs that there were. *)
<1>7. \A k \in GopSeis : /\ Ascending(seis[k].gopHash)
                         /\ UpTo(seis[k].gopHash, m)
                         /\ Before(seis[k].gopHash, gop'.context)
  BY <1>1, <1>3, <1>4, <1>5, <1>6, UpToMore
<1>8. CASE GopSeis' = GopSeis /\ \A k \in GopSeis : seis'[k] = seis[k]
  BY <1>4, <1>5, <1>7, <1>8 DEF Order, m
<1>9. ASSUME NEW s \in Seis, seis' = Append(seis, s), s.atEnd = FALSE,
             s.gopHash \in {gop.context, <<>>},
             NEW h \in Hashes, h.nalu = n + 1, gop'.context = <<h>>
      PROVE  Order'
  <2>1. /\ Len(seis) \in Nat
        /\ \A k \in GopSeis : seis'[k] = seis[k] /\ k < new
        /\ seis'[new] = s /\ GopSeis' = GopSeis \cup {new}
    <3>1. /\ Len(seis) \in Nat
          /\ \A k \in 1..Len(seis) : seis'[k] = seis[k]
          /\ seis'[new] = s /\ GopSeis' = GopSeis \cup {new}
      BY <1>1, <1>9, SeiAppended
    <3> QED BY <1>6, <3>1
  <2>2. s.gopHash \in Seq(Hashes) /\ Ascending(s.gopHash) /\ UpTo(s.gopHash, n)
    <3>1. CASE s.gopHash = gop.context
      BY <1>1, <1>4, <3>1
    <3>2. CASE s.gopHash = <<>>
      <4>1. <<>> \in Seq(Hashes)
        OBVIOUS
      <4> QED BY <3>2, <4>1, EmptyInOrder
    <3> QED BY <1>9, <3>1, <3>2
  <2>3. UpTo(s.gopHash, m)
    BY <1>1, <1>3, <2>2, UpToMore
  <2>4. Before(s.gopHash, gop'.context)
    <3> SUFFICES ASSUME NEW i \in DOMAIN s.gopHash PROVE s.gopHash[i].nalu < h.nalu
      BY <1>9 DEF Before
    <3>1. s.gopHash[i].nalu <= n /\ s.gopHash[i].nalu \in Int
      BY <1>1, <2>2, NaluType DEF UpTo
    <3> QED BY <1>1, <1>9, <3>1
  <2>5. \A k \in GopSeis : Before(seis[k].gopHash, s.gopHash)
    <3>1. CASE s.gopHash = gop.context
      BY <1>4, <3>1
    <3>2. CASE s.gopHash = <<>>
      BY <3>2, EmptyInOrder
    <3> QED BY <1>9, <3>1, <3>2
  <2>6. ASSUME NEW k \in GopSeis', NEW l \in GopSeis', k < l
        PROVE  Before(seis'[k].gopHash, seis'[l].gopHash)
    <3>1. k \in GopSeis
      <4>1. Len(seis) \in Nat /\ l \in Nat /\ l <= new
        BY <1>6, <2>1
      <4> QED BY <2>1, <2>6, <4>1
    <3> QED BY <1>4, <2>1, <2>5, <2>6, <3>1
  <2>7. \A k \in GopSeis' : /\ Ascending(seis'[k].gopHash)
                            /\ UpTo(seis'[k].gopHash, m)
                            /\ Before(seis'[k].gopHash, gop'.context)
    BY <1>7, <2>1, <2>2, <2>3, <2>4
  <2> QED BY <1>5, <2>6, <2>7 DEF Order, m
<1>10. CASE seis' = seis
  <2>1. GopSeis' = GopSeis
    BY <1>10 DEF GopSeis
  <2> QED BY <1>8, <1>10, <2>1
<1>11. CASE \E s \in Seis : seis' = Append(seis, s) /\ s.atEnd = TRUE
  BY <1>1, <1>6, <1>8, <1>11, SeiAppended
<1> QED BY <1>2, <1>9, <1>10, <1>11 DEF OrderedStep, n

LEMMA OrderSuffices == TypeOK /\ Order => NothingIsCoveredTwice
<1> SUFFICES ASSUME TypeOK, Order,
                    NEW k \in GopSeis \cup {Len(seis) + 1}, NEW l \in GopSeis \cup {Len(seis) + 1},
                    NEW i \in DOMAIN Parts[k], NEW j \in DOMAIN Parts[l],
                    k < l \/ (k = l /\ i < j)
             PROVE  Parts[k][i].nalu < Parts[l][j].nalu
  BY DEF NothingIsCoveredTwice, InOrder
<1> DEFINE hashes == [p \in DOMAIN seis |-> seis[p].gopHash]
<1>1. seis \in Seq(Seis) /\ Len(seis) \in Nat
  BY DEF TypeOK
<1>2. \A p \in GopSeis : p \in 1..Len(seis)
  BY <1>1, GopSeisFacts
<1>3. /\ \A p \in 1..Len(seis) : Parts[p] = seis[p].gopHash
      /\ Parts[Len(seis) + 1] = gop.context
  <2>1. hashes = [p \in 1..Len(seis) |-> seis[p].gopHash] /\ hashes \in Seq({seis[p].gopHash : p \in 1..Len(seis)})
    BY <1>1
  <2>2. Len(hashes) = Len(seis) /\ \A p \in 1..Len(seis) : hashes[p] = seis[p].gopHash
    BY <1>1, <2>1
  <2>3. Parts = Append(hashes, gop.context)
    BY DEF Parts
  <2> HIDE DEF hashes
  <2> QED BY <1>1, <2>1, <2>2, <2>3
<1>4. CASE k = Len(seis) + 1
  <2>1. l = k
    BY <1>1, <1>2, <1>4
  <2> QED BY <1>1, <1>3, <1>4, <2>1 DEF Order, Ascending
<1>5. CASE k \in GopSeis /\ l = Len(seis) + 1
  <2>1. Before(seis[k].gopHash, gop.context)
    BY <1>5 DEF Order
  <2> QED BY <1>1, <1>2, <1>3, <1>5, <2>1 DEF Before
<1>6. CASE k \in GopSeis /\ l \in GopSeis
  <2>1. Parts[k] = seis[k].gopHash /\ Parts[l] = seis[l].gopHash
    BY <1>2, <1>3, <1>6
  <2>2. CASE k < l
    <3>1. Before(seis[k].gopHash, seis[l].gopHash)
      BY <1>6, <2>2 DEF Order
    <3> QED BY <2>1, <3>1 DEF Before
  <2>3. CASE k = l /\ i < j
    <3>1. Ascending(seis[k].gopHash)
      BY <1>6 DEF Order
    <3> QED BY <2>1, <2>3, <3>1 DEF Ascending
  <2> QED BY <2>2, <2>3
<1> QED BY <1>4, <1>5, <1>6

LEMMA InitOrdered == Init => Order
<1> SUFFICES ASSUME Init PROVE Order
  OBVIOUS
<1>1. seis = <<>> /\ gop.context = <<>> /\ GopSeis = {}
  BY DEF Init, NewGopInfo, GopSeis
<1> QED BY <1>1, EmptyInOrder DEF Order

(* However generating SEIs fails, and whatever is reset, cleared or ended, *)
(* no NAL Unit is part of the hashes of two GOPs or out of order: the hash *)
(* context is cleared whenever its hashes went into a SEI                  *)
(* (generate_sei_and_add_to_buffer(), gop_info_reset()).                   *)
THEOREM NaluNeverCoveredTwice == Spec => []NothingIsCoveredTwice
<1> DEFINE IInv == TypeOK /\ Counting /\ Order
<1>1. Init => IInv
  BY InitTyped, InitOrdered
<1>2. IInv /\ [Next]_vars => IInv'
  BY TypeStep, OrderStep
<1>3. IInv => NothingIsCoveredTwice
  BY OrderSuffices
<1> QED BY <1>1, <1>2, <1>3, PTL DEF Spec

-----------------------------------------------------------------------------
(* The numbers of the SEIs.                                                *)

(* What a step does to the stream, the number of the GOP and the SEIs. *)
NumberedStep ==
  \/ /\ gop'.current = gop.current
     /\ stream' = stream \/ \E kind \in Kinds : stream' = Append(stream, kind)
     /\ \/ seis' = seis
        \/ \E s \in Seis : seis' = Append(seis, s) /\ s.atEnd = TRUE
  \/ /\ gop'.current = -1 /\ stream' = Append(stream, "reset") /\ seis' = seis
  \/ /\ gop.current = -1 /\ gop'.current = 1
     /\ \E kind \in Kinds : stream' = Append(stream, kind)
     /\ seis' = seis
  \/ /\ gop.current > 0 /\ gop'.current = gop.current + 1
     /\ \E kind \in Kinds : stream' = Append(stream, kind)
     /\ \E s \in Seis : /\ seis' = Append(seis, s) /\ s.atEnd = FALSE
                        /\ s.counter = gop.current /\ s.endTime = Len(stream) + 1

LEMMA EveryStepIsNumbered ==
  ASSUME TypeOK, Counting, [Next]_vars
  PROVE  NumberedStep
<1>1. ASSUME NEW kind \in Kinds, AddNalu(kind)
      PROVE  NumberedStep
  <2>1. gop'.current = gop.current
    BY <1>1, AddNaluFields
  <2> QED BY <1>1, <2>1 DEF NumberedStep, AddNalu, MayCome
<1>2. ASSUME NEW kind \in Kinds, AddFirstOfStream(kind)
      PROVE  NumberedStep
  <2>1. gop.current = -1 /\ gop'.current = 1
    BY <1>2, AddFirstOfStreamFields
  <2> QED BY <1>2, <2>1 DEF NumberedStep, AddFirstOfStream, MayCome
<1>3. ASSUME NEW kind \in Kinds, AddFirstOfGop(kind)
      PROVE  NumberedStep
  <2>1. gop.current \in 1..MaxNalus /\ gop'.current = gop.current + 1
    BY <1>3, AddFirstOfGopFields
  <2>2. gop.current > 0
    BY <2>1, ScenarioBounds DEF TypeOK
  <2>3. PICK s \in Seis : /\ seis' = Append(seis, s) /\ s.atEnd = FALSE
                          /\ s.counter = gop.current /\ s.endTime = Position
    BY <1>3, AddFirstOfGopFields
  <2>4. stream' = Append(stream, kind)
    BY <1>3 DEF AddFirstOfGop, MayCome
  <2> QED BY <2>1, <2>2, <2>3, <2>4 DEF NumberedStep, Position
<1>4. ASSUME NEW kind \in Kinds, AddFails(kind)
      PROVE  NumberedStep
  <2>1. gop'.current = gop.current
    BY <1>4, AddFailsFields DEF Emptied
  <2> QED BY <1>4, <2>1 DEF NumberedStep, AddFails, MayCome
<1>5. CASE SetEndOfStream \/ GenerateCertificateSei
  <2>1. stream' = stream /\ gop' \in {gop, [gop EXCEPT !.listOk = FALSE], StartGop(gop)}
    BY <1>5 DEF SetEndOfStream, GenerateCertificateSei
  <2>2. gop'.current = gop.current
    BY <2>1, EmptyingFields DEF Emptied
  <2>3. seis' = seis \/ \E s \in Seis : seis' = Append(seis, s) /\ s.atEnd = TRUE
    BY <1>5, EndSei DEF GenerateCertificateSei
  <2> QED BY <2>1, <2>2, <2>3 DEF NumberedStep
<1>6. CASE Reset
  <2>1. gop'.current = -1
    BY <1>6, ResetFits
  <2> QED BY <1>6, <2>1 DEF NumberedStep, Reset
<1>7. CASE UNCHANGED <<stream, gop, seis>>
  BY <1>7 DEF NumberedStep
<1> QED BY <1>1, <1>2, <1>3, <1>4, <1>5, <1>6, <1>7
        DEF Next, SetSigningFrequency, SetMaxSigningFrames, vars

(* The resets among the NAL Units that there were. *)
LEMMA ResetsStay ==
  ASSUME stream \in Seq(Kinds \cup {"reset"}), seis \in Seq(Seis),
         \A k \in GopSeis : seis[k].endTime \in DOMAIN stream /\ seis'[k] = seis[k],
         NEW j \in GopSeis
  PROVE  /\ stream' = stream => (ResetSince(j)' <=> ResetSince(j))
         /\ \A x : stream' = Append(stream, x) /\ x # "reset" => (ResetSince(j)' <=> ResetSince(j))
         /\ stream' = Append(stream, "reset") => ResetSince(j)'
         /\ \A k \in GopSeis : \A x : stream' = stream \/ stream' = Append(stream, x)
              => (ResetBetween(j, k)' <=> ResetBetween(j, k))
<1>1. /\ Len(stream) \in Nat /\ DOMAIN stream = 1..Len(stream)
      /\ \A x : stream' = Append(stream, x) =>
           /\ Len(stream') = Len(stream) + 1 /\ stream'[Len(stream) + 1] = x
           /\ \A n \in 1..Len(stream) : stream'[n] = stream[n]
  <2>1. ASSUME NEW x, stream' = Append(stream, x)
        PROVE  /\ Len(stream') = Len(stream) + 1 /\ stream'[Len(stream) + 1] = x
               /\ \A n \in 1..Len(stream) : stream'[n] = stream[n]
    BY <2>1
  <2> QED BY <2>1
<1>2. \A k \in GopSeis : seis'[k].endTime = seis[k].endTime /\ seis[k].endTime \in 1..Len(stream)
  BY <1>1
<1>3. ASSUME stream' = stream
      PROVE  ResetSince(j)' <=> ResetSince(j)
  BY <1>2, <1>3 DEF ResetSince
<1>4. ASSUME NEW x, stream' = Append(stream, x), x # "reset"
      PROVE  ResetSince(j)' <=> ResetSince(j)
  <2>1. \A n : n \in seis'[j].endTime .. Len(stream') <=>
                 n \in seis[j].endTime .. Len(stream) \/ n = Len(stream) + 1
    BY <1>1, <1>2, <1>4
  <2>2. \A n \in seis[j].endTime .. Len(stream) : stream'[n] = stream[n]
    BY <1>1, <1>2, <1>4
  <2>3. stream'[Len(stream) + 1] = x
    BY <1>1, <1>4
  <2> QED BY <1>4, <2>1, <2>2, <2>3 DEF ResetSince
<1>5. ASSUME stream' = Append(stream, "reset")
      PROVE  ResetSince(j)'
  <2>1. Len(stream) + 1 \in seis'[j].endTime .. Len(stream')
    BY <1>1, <1>2, <1>5
  <2> QED BY <1>1, <1>5, <2>1 DEF ResetSince
<1>6. ASSUME NEW k \in GopSeis, NEW x, stream' = stream \/ stream' = Append(stream, x)
      PROVE  ResetBetween(j, k)' <=> ResetBetween(j, k)
  <2>1. \A n \in seis[j].endTime .. seis[k].endTime : stream'[n] = stream[n]
    BY <1>1, <1>2, <1>6
  <2> QED BY <1>2, <2>1 DEF ResetBetween
<1> QED BY <1>3, <1>4, <1>5, <1>6

(* A SEI for the start of a GOP adds to GopSeis. *)
LEMMA NewGopSei ==
  ASSUME TypeOK, NEW s \in Seis, seis' = Append(seis, s), s.atEnd = FALSE
  PROVE  GopSeis' # GopSeis
<1>1. seis \in Seq(Seis)
  BY DEF TypeOK
<1>2. Len(seis) \in Nat /\ GopSeis' = GopSeis \cup {Len(seis) + 1} /\ \A k \in GopSeis : k <= Len(seis)
  BY <1>1, SeiAppended, GopSeisFacts
<1> QED BY <1>2

(* The number of SEI k continues the one before. *)
FollowsPrevious(k) ==
  LET before == {j \in GopSeis : j < k}
  IN  IF before = {}
      THEN seis[k].counter = 1
      ELSE \E j \in before :
             /\ \A i \in before : i <= j
             /\ seis[k].counter = IF ResetBetween(j, k) THEN 1 ELSE seis[j].counter + 1

LEMMA NumberingStep == TypeOK /\ Counting /\ Numbering /\ [Next]_vars => Numbering'
<1> SUFFICES ASSUME TypeOK, Counting, Numbering, [Next]_vars PROVE Numbering'
  OBVIOUS
<1> DEFINE Continues(k) == IF ResetSince(k) THEN gop.current \in {-1, 1}
                           ELSE gop.current = seis[k].counter + 1
<1>1. /\ seis \in Seq(Seis) /\ MaxNalus \in Nat /\ Len(seis) \in Nat
      /\ stream \in Seq(Kinds \cup {"reset"}) /\ Len(stream) \in Nat
      /\ gop.current \in Int /\ gop.current >= -1
  BY ScenarioBounds, SMTT(30) DEF TypeOK, GopInfos, GopCounts
<1>0. PICK new \in Nat : new = Len(seis) + 1
  BY <1>1
<1>2. NumberedStep
  BY EveryStepIsNumbered
<1>3. "reset" \notin Kinds
  BY DEF Kinds
<1>4. \A k \in GopSeis : /\ k \in 1..Len(seis) /\ seis[k].endTime \in DOMAIN stream
                         /\ seis[k].counter \in Int /\ seis[k].counter >= -1
  <2> SUFFICES ASSUME NEW k \in GopSeis
               PROVE  /\ k \in 1..Len(seis) /\ seis[k].endTime \in DOMAIN stream
                      /\ seis[k].counter \in Int /\ seis[k].counter >= -1
    OBVIOUS
  <2>1. k \in 1..Len(seis) /\ seis[k] \in Seis
    BY <1>1, GopSeisFacts
  <2>2. seis[k].counter \in GopCounts
    BY <2>1 DEF Seis
  <2> QED BY <1>1, <2>1, <2>2 DEF Numbering, GopCounts
<1>5. \A k \in GopSeis : seis'[k] = seis[k]
  <2>1. seis' = seis \/ \E s \in Seis : seis' = Append(seis, s)
    BY <1>2 DEF NumberedStep
  <2> QED BY <1>1, <1>4, <2>1
<1>6. stream' = stream \/ \E x \in Kinds \cup {"reset"} : stream' = Append(stream, x)
  BY <1>2 DEF NumberedStep
(* What the SEIs that there were have to do with each other. *)
<1>7. \A k \in GopSeis : seis'[k].endTime \in DOMAIN stream'
  BY <1>1, <1>4, <1>5, <1>6
<1>8. \A j, k \in GopSeis : ResetBetween(j, k)' <=> ResetBetween(j, k)
  BY <1>1, <1>4, <1>5, <1>6, ResetsStay
<1>9. GopSeis' = GopSeis \/ GopSeis' = GopSeis \cup {new}
  <2>1. CASE seis' = seis
    BY <2>1 DEF GopSeis
  <2>2. ASSUME NEW s \in Seis, seis' = Append(seis, s), s.atEnd = TRUE \/ s.atEnd = FALSE
        PROVE  GopSeis' = GopSeis \/ GopSeis' = GopSeis \cup {new}
    BY <1>0, <1>1, <2>2, SeiAppended
  <2> QED BY <1>2, <2>1, <2>2 DEF NumberedStep
<1>10. \A k \in GopSeis : FollowsPrevious(k)'
  <2> SUFFICES ASSUME NEW k \in GopSeis PROVE FollowsPrevious(k)'
    OBVIOUS
  <2>1. FollowsPrevious(k)
    BY DEF Numbering, CountersAreConsecutive, FollowsPrevious
  <2>2. {j \in GopSeis' : j < k} = {j \in GopSeis : j < k}
    BY <1>0, <1>1, <1>4, <1>9
  <2> QED BY <1>5, <1>8, <2>1, <2>2 DEF FollowsPrevious
<1>11. CASE GopSeis' = GopSeis
  <2>1. CountersAreConsecutive'
    BY <1>10, <1>11 DEF CountersAreConsecutive, FollowsPrevious
  <2>2. CASE GopSeis = {}
    <3>1. gop'.current \in {-1, 1}
      BY <1>2, <1>11, <2>2, NewGopSei DEF Numbering, NumberedStep
    <3> QED BY <1>7, <1>11, <2>1, <2>2, <3>1 DEF Numbering
  <2>3. ASSUME NEW k \in GopSeis, IsLast(k), Continues(k)
        PROVE  IsLast(k)' /\ (IF ResetSince(k)' THEN gop'.current \in {-1, 1}
                              ELSE gop'.current = seis'[k].counter + 1)
    <3>1. IsLast(k)'
      BY <1>11, <2>3 DEF IsLast
    <3>2. CASE gop'.current = gop.current /\ (stream' = stream \/ \E kind \in Kinds : stream' = Append(stream, kind))
      <4>1. ResetSince(k)' <=> ResetSince(k)
        BY <1>1, <1>3, <1>4, <1>5, <3>2, ResetsStay
      <4> QED BY <1>5, <2>3, <3>1, <3>2, <4>1
    <3>3. CASE gop'.current = -1 /\ stream' = Append(stream, "reset")
      <4>1. ResetSince(k)'
        BY <1>1, <1>4, <1>5, <3>3, ResetsStay
      <4> QED BY <3>1, <3>3, <4>1
    <3>4. CASE gop.current = -1 /\ gop'.current = 1 /\ \E kind \in Kinds : stream' = Append(stream, kind)
      <4>1. ResetSince(k)' <=> ResetSince(k)
        BY <1>1, <1>3, <1>4, <1>5, <3>4, ResetsStay
      <4>2. ResetSince(k)
        BY <1>4, <2>3, <3>4
      <4> QED BY <3>1, <3>4, <4>1, <4>2
    <3> QED BY <1>2, <1>11, <3>2, <3>3, <3>4, NewGopSei DEF NumberedStep
  <2>4. CASE GopSeis # {}
    <3>1. PICK k \in GopSeis : IsLast(k) /\ Continues(k)
      BY <2>4 DEF Numbering
    <3>2. IsLast(k)' /\ (IF ResetSince(k)' THEN gop'.current \in {-1, 1}
                          ELSE gop'.current = seis'[k].counter + 1)
      BY <2>3, <3>1
    <3> QED BY <1>7, <1>11, <2>1, <2>4, <3>2 DEF Numbering
  <2> QED BY <2>2, <2>4
<1>12. ASSUME NEW s \in Seis, seis' = Append(seis, s), s.atEnd = FALSE,
              s.counter = gop.current, s.endTime = Len(stream) + 1, gop.current > 0,
              gop'.current = gop.current + 1,
              NEW kind \in Kinds, stream' = Append(stream, kind)
       PROVE  Numbering'
  <2>1. GopSeis' = GopSeis \cup {new} /\ seis'[new] = s
    BY <1>0, <1>1, <1>12, SeiAppended
  <2>2. /\ Len(stream') = Len(stream) + 1 /\ s.endTime \in DOMAIN stream'
        /\ stream'[Len(stream) + 1] # "reset"
    BY <1>0, <1>1, <1>3, <1>12
  <2>3. IsLast(new)' /\ new \in GopSeis' /\ GopSeis' # {}
    BY <1>0, <1>1, <1>4, <2>1 DEF IsLast
  <2>4. ~ResetSince(new)'
    BY <1>0, <1>1, <1>12, <2>1, <2>2 DEF ResetSince
  <2>5. gop'.current = seis'[new].counter + 1
    BY <1>0, <1>12, <2>1
  <2>6. {j \in GopSeis' : j < new} = GopSeis
    BY <1>0, <1>1, <1>4, <2>1
  <2>7. FollowsPrevious(new)'
    <3>1. CASE GopSeis = {}
      <4>1. s.counter = 1
        BY <1>12, <3>1 DEF Numbering
      <4> QED BY <1>0, <2>1, <2>6, <3>1, <4>1 DEF FollowsPrevious
    <3>2. CASE GopSeis # {}
      <4>1. PICK j \in GopSeis : IsLast(j) /\ Continues(j)
        BY <3>2 DEF Numbering
      <4>2. ResetBetween(j, new)' <=> ResetSince(j)
        <5>1. seis'[j].endTime = seis[j].endTime /\ seis[j].endTime \in 1..Len(stream)
          BY <1>1, <1>4, <1>5
        <5>2. \A n : n \in seis'[j].endTime .. seis'[new].endTime <=>
                       n \in seis[j].endTime .. Len(stream) \/ n = Len(stream) + 1
          BY <1>0, <1>1, <1>12, <2>1, <5>1
        <5>3. \A n \in seis[j].endTime .. Len(stream) : stream'[n] = stream[n]
          BY <1>1, <1>12, <5>1
        <5> QED BY <2>2, <5>2, <5>3 DEF ResetBetween, ResetSince
      <4>3. seis'[new].counter = gop.current /\ seis'[j] = seis[j]
        BY <1>5, <1>12, <2>1
      <4>4. seis'[new].counter = IF ResetSince(j) THEN 1 ELSE seis[j].counter + 1
        BY <1>1, <1>12, <4>1, <4>3
      <4>5. seis'[new].counter = IF ResetBetween(j, new)' THEN 1 ELSE seis'[j].counter + 1
        BY <4>2, <4>3, <4>4
      <4> QED BY <2>6, <3>2, <4>1, <4>5 DEF FollowsPrevious, IsLast
    <3> QED BY <3>1, <3>2
  <2>8. CountersAreConsecutive'
    BY <1>10, <2>1, <2>7 DEF CountersAreConsecutive, FollowsPrevious
  <2>9. \A k \in GopSeis' : seis'[k].endTime \in DOMAIN stream'
    BY <1>7, <2>1, <2>2
  <2> QED BY <2>3, <2>4, <2>5, <2>8, <2>9 DEF Numbering
<1>13. CASE seis' = seis
  BY <1>11, <1>13 DEF GopSeis
<1>14. CASE \E s \in Seis : seis' = Append(seis, s) /\ s.atEnd = TRUE
  BY <1>1, <1>11, <1>14, SeiAppended
<1> QED BY <1>2, <1>12, <1>13, <1>14 DEF NumberedStep

LEMMA InitNumbered == Init => Numbering
<1> SUFFICES ASSUME Init PROVE Numbering
  OBVIOUS
<1>1. gop.current = -1 /\ GopSeis = {}
  BY DEF Init, NewGopInfo, GopSeis
<1> QED BY <1>1 DEF Numbering, CountersAreConsecutive

(* The SEIs are numbered 1, 2, ... from the start and from every reset on, *)
(* however generating them fails; the number is incremented by            *)
(* onvif_media_signing_add_nalu_part_for_signing()).                       *)
THEOREM NoNumberIsSkipped == Spec => []CountersAreConsecutive
<1> DEFINE IInv == TypeOK /\ Counting /\ Numbering
<1>1. Init => IInv
  BY InitTyped, InitNumbered
<1>2. IInv /\ [Next]_vars => IInv'
  BY TypeStep, NumberingStep
<1>3. IInv => CountersAreConsecutive
  BY DEF Numbering
<1> QED BY <1>1, <1>2, <1>3, PTL DEF Spec

-----------------------------------------------------------------------------
(* A stream that nothing disturbs.                                         *)

LEMMA UndisturbedStep ==
  ASSUME Undisturbed, [Next]_vars
  PROVE  \/ \E kind \in Kinds : AddNalu(kind) \/ AddFirstOfStream(kind) \/ AddFirstOfGop(kind)
         \/ UNCHANGED vars
BY DEF Undisturbed, Next, AddFails, SetEndOfStream, GenerateCertificateSei, Reset,
       SetSigningFrequency, SetMaxSigningFrames

(* A longer stream has the same NAL Units. *)
LEMMA AnchoredStays ==
  ASSUME NEW s \in Seq(Kinds \cup {"reset"}), NEW x, NEW h, AnchoredIn(s, h)
  PROVE  AnchoredIn(Append(s, x), h)
<1> DEFINE t == Append(s, x)
<1>1. /\ Len(s) \in Nat /\ DOMAIN s = 1..Len(s) /\ DOMAIN t = 1..(Len(s) + 1)
      /\ \A n \in 1..Len(s) : t[n] = s[n]
  OBVIOUS
<1> HIDE DEF t
<1>2. h.nalu \in 1..Len(s) /\ h.anchor \in 1..Len(s)
  BY <1>1 DEF AnchoredIn
<1>3. \A n \in (h.anchor + 1)..h.nalu : n \in 1..Len(s)
  BY <1>1, <1>2
<1>4. h.nalu \in DOMAIN t /\ h.anchor \in DOMAIN t
  BY <1>1, <1>2
<1>5. AnchoredIn(t, h)
  BY <1>1, <1>2, <1>3, <1>4 DEF AnchoredIn
<1> QED BY <1>5 DEF t

LEMMA DescribesStays ==
  ASSUME NEW s \in Seq(Kinds \cup {"reset"}), NEW x, NEW sei, NEW max, Describes(sei, s, max)
  PROVE  Describes(sei, Append(s, x), max)
BY AnchoredStays DEF Describes

(* The hash of the NAL Unit that is added to stream s. *)
LEMMA AnchoredNext ==
  ASSUME NEW s \in Seq(Kinds \cup {"reset"}), NEW kind, NEW h,
         h.nalu = Len(s) + 1,
         IF kind \in {"I", "sei"}
         THEN h.anchor = Len(s) + 1
         ELSE /\ h.anchor \in DOMAIN s /\ s[h.anchor] = "I"
              /\ \A n \in (h.anchor + 1)..Len(s) : s[n] # "I"
  PROVE  AnchoredIn(Append(s, kind), h)
<1> DEFINE t == Append(s, kind)
<1>1. /\ Len(s) \in Nat /\ DOMAIN s = 1..Len(s) /\ DOMAIN t = 1..(Len(s) + 1)
      /\ \A n \in 1..Len(s) : t[n] = s[n]
      /\ t[Len(s) + 1] = kind
  OBVIOUS
<1> HIDE DEF t
<1>2. CASE kind \in {"I", "sei"}
  BY <1>1, <1>2 DEF AnchoredIn, t
<1>3. CASE kind \notin {"I", "sei"}
  <2>1. h.anchor \in 1..Len(s) /\ h.nalu \in DOMAIN t /\ h.anchor \in DOMAIN t /\ t[h.nalu] = kind
    BY <1>1, <1>3
  <2>2. \A n \in (h.anchor + 1)..h.nalu : t[n] # "I"
    <3> SUFFICES ASSUME NEW n \in (h.anchor + 1)..h.nalu PROVE t[n] # "I"
      OBVIOUS
    <3>1. CASE n = Len(s) + 1
      BY <1>1, <1>3, <3>1
    <3>2. CASE n # Len(s) + 1
      <4>1. n \in 1..Len(s) /\ n \in (h.anchor + 1)..Len(s)
        BY <1>1, <2>1, <3>2
      <4> QED BY <1>1, <1>3, <4>1
    <3> QED BY <3>1, <3>2
  <2>3. t[h.anchor] = "I"
    BY <1>1, <1>3, <2>1
  <2>4. AnchoredIn(t, h)
    BY <1>3, <2>1, <2>2, <2>3 DEF AnchoredIn
  <2> QED BY <2>4 DEF t
<1> QED BY <1>2, <1>3

(* What all steps that add a NAL Unit have in common. *)
LEMMA UndisturbedMayCome ==
  ASSUME TypeOK, Counting, Undisturbed, NEW kind \in Kinds, MayCome(kind)
  PROVE  /\ stream \in Seq(Kinds \cup {"reset"}) /\ stream' = Append(stream, kind)
         /\ Len(stream) \in Nat /\ DOMAIN stream = 1..Len(stream)
         /\ Position = Len(stream) + 1
         /\ Len(stream') = Len(stream) + 1 /\ DOMAIN stream' = 1..(Len(stream) + 1)
         /\ stream'[Position] = kind
         /\ \A n \in 1..Len(stream) : stream'[n] = stream[n]
         /\ kind \in {"I", "other"} \/ \E i \in DOMAIN stream : stream[i] = "I"
<1>1. stream \in Seq(Kinds \cup {"reset"}) /\ stream' = Append(stream, kind)
  BY DEF TypeOK, MayCome
<1>2. kind \in {"I", "other"} \/ \E i \in DOMAIN stream : stream[i] = "I"
  BY DEF MayCome, Undisturbed
<1>3. kind \in Kinds \cup {"reset"}
  OBVIOUS
<1> QED BY <1>1, <1>2, <1>3 DEF Position

(* The SEIs that there were. *)
LEMMA OldSeisUndistorted ==
  ASSUME TypeOK, Counting, Undistorted, NEW kind \in Kinds, stream' = Append(stream, kind)
  PROVE  /\ \A i \in DOMAIN gop.context : AnchoredIn(stream', gop.context[i])
         /\ \A k \in DOMAIN seis : Describes(seis[k], stream', MaxHashes)
BY AnchoredStays, DescribesStays DEF TypeOK, Undistorted

(* In a GOP a NAL Unit is added at the end of the context. *)
LEMMA AddNaluUndistorted ==
  ASSUME TypeOK, Counting, Undisturbed, Undistorted, NEW kind \in Kinds, AddNalu(kind),
         MaxHashes' = MaxHashes
  PROVE  Undistorted'
<1> DEFINE h == HashOf(gop, Position, kind)
           fits == gop.listOk /\ Len(gop.list) < MaxHashes
<1>1. MayCome(kind) /\ seis' = seis /\ kind # "I"
  BY DEF AddNalu, StartsGop
<1>2. /\ stream \in Seq(Kinds \cup {"reset"}) /\ stream' = Append(stream, kind)
      /\ Len(stream) \in Nat /\ DOMAIN stream = 1..Len(stream)
      /\ Position = Len(stream) + 1
      /\ Len(stream') = Len(stream) + 1 /\ DOMAIN stream' = 1..(Len(stream) + 1)
      /\ stream'[Position] = kind
      /\ \A n \in 1..Len(stream) : stream'[n] = stream[n]
      /\ kind \in {"I", "other"} \/ \E i \in DOMAIN stream : stream[i] = "I"
  BY <1>1, UndisturbedMayCome
<1>3. /\ \A i \in DOMAIN gop.context : AnchoredIn(stream', gop.context[i])
      /\ \A k \in DOMAIN seis : Describes(seis[k], stream', MaxHashes)
  BY <1>2, OldSeisUndistorted
<1>4. /\ gop.context \in Seq(Hashes) /\ gop.list \in Seq(Hashes) /\ Len(gop.context) \in Nat
      /\ gop.listOk \in BOOLEAN /\ MaxHashes \in Nat
      /\ Len(gop.list) \in Nat /\ Len(gop.list) <= MaxHashes
  BY ScenarioBounds DEF TypeOK, GopInfos
<1>5. /\ gop'.hasAnchor = gop.hasAnchor /\ gop'.anchor = gop.anchor
      /\ gop'.linked = gop.linked
      /\ gop'.current = gop.current /\ gop'.endTime = gop.endTime
      /\ kind \notin Hashable => /\ gop'.context = gop.context /\ gop'.list = gop.list
                                 /\ gop'.listOk = gop.listOk
  BY AddNaluFields
<1>6. \A k \in DOMAIN seis' :
        /\ Describes(seis'[k], stream', MaxHashes')
        /\ seis'[k].linked = IF k = 1 THEN <<>> ELSE <<seis'[k - 1].gopHash[1]>>
  BY <1>1, <1>3 DEF Undistorted
<1>7. CASE gop.current = -1
  <2>1. BeforeGops
    BY <1>7 DEF Undistorted
  <2>2. kind = "other" /\ kind \notin Hashable
    BY <1>1, <1>2, <2>1 DEF BeforeGops, Hashable, Kinds
  <2>3. BeforeGops'
    <3>1. \A n \in DOMAIN stream' : stream'[n] = "other"
      BY <1>2, <2>1, <2>2 DEF BeforeGops
    <3> QED BY <1>1, <1>5, <2>1, <2>2, <3>1 DEF BeforeGops
  <2>4. gop'.context = gop.context /\ gop'.list = gop.list /\ gop'.listOk = gop.listOk
    BY <1>5, <2>2
  <2> QED BY <1>3, <1>5, <1>6, <1>7, <2>3, <2>4 DEF Undistorted
<1>8. CASE gop.current # -1
  <2>1. InGop
    BY <1>8 DEF Undistorted
  <2>2. /\ gop'.anchor \in DOMAIN stream' /\ stream'[gop'.anchor] = "I"
        /\ \A n \in (gop'.anchor + 1) .. Len(stream') : stream'[n] # "I"
    <3>1. gop.anchor \in 1..Len(stream)
      BY <1>2, <2>1 DEF InGop
    <3>2. ASSUME NEW n \in (gop.anchor + 1) .. (Len(stream) + 1)
          PROVE  stream'[n] # "I"
      <4>1. CASE n = Len(stream) + 1
        BY <1>1, <1>2, <4>1
      <4>2. CASE n # Len(stream) + 1
        <5>1. n \in (gop.anchor + 1) .. Len(stream) /\ n \in 1..Len(stream)
          BY <1>2, <3>1, <4>2
        <5> QED BY <1>2, <2>1, <5>1 DEF InGop
      <4> QED BY <4>1, <4>2
    <3> QED BY <1>2, <1>5, <2>1, <3>1, <3>2 DEF InGop
  <2>3. CASE kind \notin Hashable
    <3>1. gop'.context = gop.context /\ gop'.list = gop.list /\ gop'.listOk = gop.listOk
      BY <1>5, <2>3
    <3>2. InGop'
      BY <1>1, <1>5, <2>1, <2>2, <3>1 DEF InGop
    <3> QED BY <1>3, <1>5, <1>6, <1>8, <3>1, <3>2 DEF Undistorted
  <2>4. CASE kind \in Hashable
    <3>1. /\ h \in Hashes /\ h.nalu = Position
          /\ h.anchor = (IF kind = "sei" THEN Position ELSE gop.anchor)
          /\ gop'.context = Append(gop.context, h)
          /\ gop'.list = (IF fits THEN Append(gop.list, h) ELSE gop.list)
          /\ gop'.listOk = fits
      BY <2>4, AddNaluFields
    <3> HIDE DEF h
    <3>2. AnchoredIn(stream', h)
      <4>1. IF kind \in {"I", "sei"}
            THEN h.anchor = Len(stream) + 1
            ELSE /\ h.anchor \in DOMAIN stream /\ stream[h.anchor] = "I"
                 /\ \A n \in (h.anchor + 1)..Len(stream) : stream[n] # "I"
        BY <1>1, <1>2, <2>1, <3>1 DEF InGop
      <4> QED BY <1>2, <3>1, <4>1, AnchoredNext
    <3>3. /\ \A i \in DOMAIN gop'.context : \/ i \in DOMAIN gop.context /\ gop'.context[i] = gop.context[i]
                                           \/ gop'.context[i] = h
          /\ gop'.context # <<>> /\ Len(gop'.context) = Len(gop.context) + 1
          /\ gop.context # <<>> => gop'.context[1] = gop.context[1]
      <4>1. DOMAIN gop.context = 1..Len(gop.context) /\ DOMAIN gop'.context = 1..(Len(gop.context) + 1)
        BY <1>4, <3>1
      <4>2. /\ \A i \in 1..Len(gop.context) : gop'.context[i] = gop.context[i]
            /\ gop'.context[Len(gop.context) + 1] = h
        BY <1>4, <3>1
      <4>3. Len(gop'.context) = Len(gop.context) + 1 /\ gop'.context # <<>>
        BY <1>4, <3>1
      <4>4. gop.context # <<>> => 1 \in 1..Len(gop.context)
        BY <1>4
      <4> QED BY <1>4, <4>1, <4>2, <4>3, <4>4
    <3>4. \A i \in DOMAIN gop'.context : AnchoredIn(stream', gop'.context[i])
      BY <1>3, <3>2, <3>3
    <3>5. InGop'
      BY <1>1, <1>5, <2>1, <2>2, <3>3 DEF InGop
    <3>6. /\ gop'.listOk => gop'.list = gop'.context
          /\ ~gop'.listOk => Len(gop'.context) > MaxHashes'
      <4>1. CASE fits
        BY <3>1, <4>1 DEF Undistorted
      <4>2. CASE ~fits
        <5>1. Len(gop.context) >= MaxHashes
          BY <1>4, <4>2 DEF Undistorted
        <5>2. ~gop'.listOk
          <6>1. gop'.listOk = fits
            BY <3>1
          <6> QED BY <4>2, <6>1
        <5>3. Len(gop'.context) > MaxHashes
          <6>1. Len(gop'.context) = Len(gop.context) + 1
            BY <3>3
          <6> QED BY <1>4, <5>1, <6>1
        <5> QED BY <5>2, <5>3
      <4> QED BY <4>1, <4>2
    <3> QED BY <1>5, <1>6, <1>8, <3>4, <3>5, <3>6 DEF Undistorted
  <2> QED BY <2>3, <2>4
<1> QED BY <1>7, <1>8

(* The first I-frame of the stream. *)
LEMMA FirstGopUndistorted ==
  ASSUME TypeOK, Counting, Undisturbed, Undistorted, NEW kind \in Kinds, AddFirstOfStream(kind),
         MaxHashes' = MaxHashes
  PROVE  Undistorted'
<1> DEFINE h == HashOf(gop, Position, kind)
<1>1. MayCome(kind) /\ seis' = seis
  BY DEF AddFirstOfStream
<1>2. /\ stream \in Seq(Kinds \cup {"reset"}) /\ stream' = Append(stream, kind)
      /\ Len(stream) \in Nat /\ DOMAIN stream = 1..Len(stream)
      /\ Position = Len(stream) + 1
      /\ Len(stream') = Len(stream) + 1 /\ DOMAIN stream' = 1..(Len(stream) + 1)
      /\ stream'[Position] = kind
      /\ kind \in {"I", "other"} \/ \E i \in DOMAIN stream : stream[i] = "I"
  BY <1>1, UndisturbedMayCome
<1>3. gop.current = -1 /\ gop'.current = 1 /\ kind \in {"I", "P"}
  BY AddFirstOfStreamFields
<1>4. BeforeGops
  BY <1>3 DEF Undistorted
<1>5. kind = "I" /\ IsAnchor(gop, kind)
  BY <1>2, <1>3, <1>4 DEF BeforeGops, IsAnchor
<1>6. gop.listOk /\ gop.list = <<>> /\ gop.context = <<>> /\ Len(<<>>) = 0 /\ MaxHashes > 0
  <2>1. Len(<<>>) = 0 /\ MaxHashes > 0 /\ MaxHashes \in Nat /\ gop.context = <<>>
    BY <1>4, ScenarioBounds DEF TypeOK, BeforeGops
  <2> QED BY <2>1 DEF Undistorted
<1>7. /\ h \in Hashes /\ h.nalu = Position /\ h.anchor = Position
      /\ gop'.context = Append(<<>>, h) /\ gop'.list = Append(<<>>, h) /\ gop'.listOk
      /\ gop'.anchor = Position
      /\ gop'.linked = <<gop.linked[2], <<h>>>>
      /\ gop'.endTime = Position
  BY <1>5, <1>6, AddFirstOfStreamFields
<1> HIDE DEF h
<1>8. gop'.context = <<h>> /\ gop'.context # <<>> /\ gop'.context[1] = h /\ DOMAIN gop'.context = {1}
  BY <1>7
<1>9. AnchoredIn(stream', h)
  BY <1>2, <1>5, <1>7, AnchoredNext
<1>10. InGop'
  <2>1. gop'.linked[1] = <<>> /\ gop'.linked[2] = <<h>> /\ seis' = <<>>
    BY <1>1, <1>4, <1>7 DEF BeforeGops
  <2>2. \A n \in (Position + 1) .. Len(stream') : FALSE
    BY <1>2
  <2> QED BY <1>2, <1>5, <1>7, <1>8, <2>1, <2>2 DEF InGop
<1>11. DOMAIN seis' = {}
  BY <1>1, <1>4 DEF BeforeGops
<1>12. gop'.current # -1
  BY <1>3
<1> QED BY <1>7, <1>8, <1>9, <1>10, <1>11, <1>12 DEF Undistorted

(* A SEI for the GOP at hand, and the next GOP. *)
LEMMA NextGopUndistorted ==
  ASSUME TypeOK, Counting, Order, Undisturbed, Undistorted, NEW kind \in Kinds, AddFirstOfGop(kind),
         MaxHashes' = MaxHashes
  PROVE  Undistorted'
<1> DEFINE h == [nalu |-> Position, anchor |-> IF kind = "I" THEN Position ELSE gop.anchor]
<1>1. MayCome(kind)
  BY DEF AddFirstOfGop
<1>2. /\ stream \in Seq(Kinds \cup {"reset"}) /\ stream' = Append(stream, kind)
      /\ Len(stream) \in Nat /\ DOMAIN stream = 1..Len(stream)
      /\ Position = Len(stream) + 1
      /\ Len(stream') = Len(stream) + 1 /\ DOMAIN stream' = 1..(Len(stream) + 1)
      /\ stream'[Position] = kind
      /\ \A n \in 1..Len(stream) : stream'[n] = stream[n]
  BY <1>1, UndisturbedMayCome
<1>3. /\ gop.current \in 1..MaxNalus /\ gop'.current = gop.current + 1 /\ kind \in {"I", "P"}
      /\ h \in Hashes
      /\ gop'.context = <<h>> /\ gop'.list = <<h>> /\ gop'.listOk = TRUE
      /\ gop'.anchor = (IF kind = "I" THEN Position ELSE gop.anchor)
      /\ gop'.linked = <<gop.linked[2], <<h>>>>
      /\ gop'.endTime = Position
  BY AddFirstOfGopFields
<1>4. gop.current # -1 /\ gop'.current # -1
  BY <1>3, ScenarioBounds DEF TypeOK
<1>5. InGop
  BY <1>4 DEF Undistorted
<1>6. /\ gop.context \in Seq(Hashes) /\ Len(gop.context) \in Nat
      /\ gop.listOk \in BOOLEAN /\ MaxHashes \in Nat /\ MaxNalus \in Nat
      /\ seis \in Seq(Seis) /\ Len(seis) \in Nat /\ DOMAIN seis = 1..Len(seis)
  BY ScenarioBounds DEF TypeOK, GopInfos
<1>7. /\ \A i \in DOMAIN gop.context : AnchoredIn(stream', gop.context[i])
      /\ \A k \in DOMAIN seis : Describes(seis[k], stream', MaxHashes)
  BY <1>2, OldSeisUndistorted
<1>8. gop.context # <<>> /\ (gop.listOk => gop.list = gop.context)
  BY <1>5 DEF InGop, Undistorted
<1>9. PICK s \in Seis :
        /\ seis' = Append(seis, s)
        /\ s.gopHash = gop.context
        /\ s.numNalus = (IF gop.listOk THEN Len(gop.list) ELSE OverflowCount)
        /\ s.list \in {<<>>, gop.list} /\ (~gop.listOk => s.list = <<>>)
        /\ s.linked = gop.linked[1]
        /\ s.startTime = gop.endTime /\ s.endTime = Position
        /\ s.atEnd = FALSE
  BY <1>8, AddFirstOfGopFields
<1> HIDE DEF h
<1>10. h.nalu = Position /\ h.anchor = (IF kind = "I" THEN Position ELSE gop.anchor)
  BY DEF h
<1>11. gop'.context[1] = h /\ gop'.context # <<>> /\ DOMAIN gop'.context = {1}
  BY <1>3
<1>12. AnchoredIn(stream', h)
  <2>1. IF kind \in {"I", "sei"}
        THEN h.anchor = Len(stream) + 1
        ELSE /\ h.anchor \in DOMAIN stream /\ stream[h.anchor] = "I"
             /\ \A n \in (h.anchor + 1)..Len(stream) : stream[n] # "I"
    BY <1>2, <1>3, <1>5, <1>10 DEF InGop
  <2> QED BY <1>2, <1>10, <2>1, AnchoredNext
<1>13. /\ seis' # <<>> /\ Len(seis') = Len(seis) + 1 /\ DOMAIN seis' = 1..(Len(seis) + 1)
       /\ seis'[Len(seis) + 1] = s
       /\ \A k \in 1..Len(seis) : seis'[k] = seis[k]
  BY <1>6, <1>9
<1>14. InGop'
  <2>1. gop'.linked[2] = <<h>> /\ gop'.linked[1] = <<gop.context[1]>>
    BY <1>3, <1>5 DEF InGop
  <2>2. gop'.anchor \in DOMAIN stream' /\ stream'[gop'.anchor] = "I"
    BY <1>2, <1>3, <1>5 DEF InGop
  <2>3. ASSUME NEW n \in (gop'.anchor + 1) .. Len(stream')
        PROVE  stream'[n] # "I"
    <3>1. kind = "P" /\ gop'.anchor = gop.anchor
      BY <1>2, <1>3, <2>3
    <3>2. CASE n = Len(stream) + 1
      BY <1>2, <3>1, <3>2
    <3>3. CASE n # Len(stream) + 1
      <4>1. n \in (gop.anchor + 1) .. Len(stream) /\ n \in 1..Len(stream)
        BY <1>2, <1>5, <2>3, <3>1, <3>3 DEF InGop
      <4> QED BY <1>2, <1>5, <4>1 DEF InGop
    <3> QED BY <3>2, <3>3
  <2>4. gop'.linked[1] = <<seis'[Len(seis')].gopHash[1]>>
    BY <1>9, <1>13, <2>1
  <2> QED BY <1>3, <1>10, <1>11, <1>13, <2>1, <2>2, <2>3, <2>4 DEF InGop
<1>15. Describes(s, stream', MaxHashes)
  <2>1. s.list \in {<<>>, s.gopHash}
    BY <1>6, <1>8, <1>9
  <2>2. Len(s.gopHash) <= MaxHashes => s.numNalus = Len(s.gopHash)
    <3>1. CASE gop.listOk
      BY <1>8, <1>9, <3>1
    <3>2. CASE ~gop.listOk
      BY <1>6, <1>9, <3>2 DEF Undistorted
    <3> QED BY <3>1, <3>2
  <2>3. s.startTime = s.gopHash[1].nalu /\ s.gopHash # <<>>
    BY <1>5, <1>9 DEF InGop
  <2>4. ASSUME NEW i \in DOMAIN s.gopHash
        PROVE  s.gopHash[i].nalu \in s.startTime..(s.endTime - 1)
    <3>1. i \in DOMAIN gop.context /\ 1 \in DOMAIN gop.context /\ i >= 1 /\ i \in Nat
      BY <1>6, <1>8, <1>9
    <3>2. /\ gop.context[i].nalu \in Int /\ gop.context[1].nalu \in Int
          /\ gop.context[i].nalu <= Len(stream)
      BY <1>6, <3>1, NaluType DEF Order, UpTo
    <3>3. gop.context[1].nalu <= gop.context[i].nalu
      <4>1. CASE i = 1
        BY <3>2, <4>1
      <4>2. CASE 1 < i
        BY <3>1, <3>2, <4>2 DEF Order, Ascending
      <4> QED BY <3>1, <4>1, <4>2
    <3> QED BY <1>2, <1>9, <2>3, <3>2, <3>3
  <2>5. \A i \in DOMAIN s.gopHash : AnchoredIn(stream', s.gopHash[i])
    BY <1>7, <1>9
  <2> QED BY <1>9, <2>1, <2>2, <2>3, <2>4, <2>5 DEF Describes
<1>16. s.linked = IF Len(seis) + 1 = 1 THEN <<>> ELSE <<seis[Len(seis)].gopHash[1]>>
  <2>1. seis = <<>> <=> Len(seis) + 1 = 1
    BY <1>6
  <2> QED BY <1>5, <1>9, <2>1 DEF InGop
<1>17. ASSUME NEW k \in DOMAIN seis'
       PROVE  /\ Describes(seis'[k], stream', MaxHashes')
              /\ seis'[k].linked = IF k = 1 THEN <<>> ELSE <<seis'[k - 1].gopHash[1]>>
  <2>1. CASE k = Len(seis) + 1
    <3>1. k = 1 \/ k - 1 \in 1..Len(seis)
      BY <1>6, <2>1
    <3>2. k - 1 = Len(seis)
      BY <1>6, <2>1
    <3> QED BY <1>13, <1>15, <1>16, <2>1, <3>1, <3>2
  <2>2. CASE k # Len(seis) + 1
    <3>1. k \in 1..Len(seis) /\ (k = 1 \/ k - 1 \in 1..Len(seis))
      BY <1>6, <1>13, <2>2
    <3> QED BY <1>6, <1>7, <1>13, <3>1 DEF Undistorted
  <2> QED BY <2>1, <2>2
<1>18. \A i \in DOMAIN gop'.context : AnchoredIn(stream', gop'.context[i])
  BY <1>11, <1>12
<1> QED BY <1>3, <1>4, <1>14, <1>17, <1>18 DEF Undistorted

LEMMA UndistortedStep ==
  TypeOK /\ Counting /\ Order /\ (Undisturbed => Undistorted) /\ [Next]_vars
    => (Undisturbed => Undistorted)'
<1> SUFFICES ASSUME TypeOK, Counting, Order, Undisturbed => Undistorted, [Next]_vars, Undisturbed'
             PROVE  Undistorted'
  OBVIOUS
<1>1. Undisturbed /\ MaxHashes' = MaxHashes
  BY ScenarioStays DEF Undisturbed
<1>2. CASE UNCHANGED vars
  BY <1>1, <1>2 DEF vars, Undistorted, InGop, BeforeGops
<1>3. ASSUME NEW kind \in Kinds, AddNalu(kind) \/ AddFirstOfStream(kind) \/ AddFirstOfGop(kind)
      PROVE  Undistorted'
  BY <1>1, <1>3, AddNaluUndistorted, FirstGopUndistorted, NextGopUndistorted
<1> QED BY <1>1, <1>2, <1>3, UndisturbedStep

LEMMA InitUndistorted == Init => Undistorted
<1> SUFFICES ASSUME Init PROVE Undistorted
  OBVIOUS
<1>1. /\ gop.context = <<>> /\ gop.list = <<>> /\ gop.listOk /\ gop.current = -1
      /\ ~gop.hasAnchor /\ gop.linked = <<<<>>, <<>>>> /\ seis = <<>> /\ stream = <<>>
  BY DEF Init, NewGopInfo
<1> QED BY <1>1 DEF Undistorted, BeforeGops

LEMMA UndistortedInvariant ==
  Spec => [](TypeOK /\ Counting /\ Order /\ (Undisturbed => Undistorted))
<1> DEFINE IInv == TypeOK /\ Counting /\ Order /\ (Undisturbed => Undistorted)
<1>1. Init => IInv
  BY InitTyped, InitOrdered, InitUndistorted
<1>2. IInv /\ [Next]_vars => IInv'
  BY TypeStep, OrderStep, UndistortedStep
<1> QED BY <1>1, <1>2, PTL DEF Spec

(* A SEI is about one GOP: its hash list, if not left out, has the very    *)
(* hashes of the GOP hash, the number is theirs if they fit in hash_list,  *)
(* and the timestamps are those of the first NAL Unit of the GOP and of    *)
(* the first one after it; each hash is the one that the validator         *)
(* computes (get_hash_wrapper(), generate_sei()), for streams and GOPs of  *)
(* every length.                                                           *)
THEOREM SeisAlwaysDescribe == Spec => []SeisDescribeTheirGops
<1>1. ASSUME Undistorted
      PROVE  SeisDescribeTheirGops
  <2>1. ASSUME NEW k \in DOMAIN seis
        PROVE  LET sei == seis[k]
               IN  /\ sei.list \in {<<>>, sei.gopHash}
                   /\ Len(sei.gopHash) <= MaxHashes => sei.numNalus = Len(sei.gopHash)
                   /\ sei.gopHash # <<>>
                   /\ sei.startTime = sei.gopHash[1].nalu
                   /\ \A i \in DOMAIN sei.gopHash :
                        /\ sei.gopHash[i].nalu \in sei.startTime..(sei.endTime - 1)
                        /\ IsAnchored(sei.gopHash[i])
    BY <1>1 DEF Undistorted, Describes, AnchoredIn, IsAnchored
  <2> QED BY <2>1 DEF SeisDescribeTheirGops
<1>2. (Undisturbed => Undistorted) => SeisDescribeTheirGops
  BY <1>1 DEF SeisDescribeTheirGops
<1> QED BY <1>2, UndistortedInvariant, PTL

(* The linked hash of a SEI is the hash that the GOP before it starts      *)
(* with, whether an I-frame or the frame limit has cut the stream, and     *)
(* zeros in the first SEI (update_linked_hash()), however many GOPs there  *)
(* are.                                                                    *)
THEOREM LinksAlwaysFormAChain == Spec => []LinksFormAChain
<1>1. (Undisturbed => Undistorted) => LinksFormAChain
  BY DEF LinksFormAChain, Undistorted
<1> QED BY <1>1, UndistortedInvariant, PTL

-----------------------------------------------------------------------------
(* Every NAL Unit is hashed.                                               *)

NalusOf(h) == {h[i].nalu : i \in DOMAIN h}

(* The NAL Units of the SEIs and of the context are all that are to be     *)
(* hashed.                                                                 *)
AllCovered ==
  \A n : n \in DOMAIN stream /\ stream[n] \in Hashable <=>
           n \in NalusOf(gop.context) \/ \E k \in DOMAIN seis : n \in NalusOf(seis[k].gopHash)

LEMMA NalusOfAppended ==
  ASSUME NEW c \in Seq(Hashes), NEW h
  PROVE  \A n : n \in NalusOf(Append(c, h)) <=> n \in NalusOf(c) \/ n = h.nalu
<1> DEFINE a == Append(c, h)
<1>1. /\ Len(c) \in Nat /\ DOMAIN c = 1..Len(c) /\ DOMAIN a = 1..(Len(c) + 1)
      /\ \A i \in 1..Len(c) : a[i] = c[i]
      /\ a[Len(c) + 1] = h
  OBVIOUS
<1> HIDE DEF a
<1>2. \A i : i \in 1..(Len(c) + 1) <=> i \in 1..Len(c) \/ i = Len(c) + 1
  BY <1>1
<1>3. \A n : n \in NalusOf(a) <=> n \in NalusOf(c) \/ n = h.nalu
  BY <1>1, <1>2 DEF NalusOf
<1> QED BY <1>3 DEF a

(* What a step of an undisturbed session covers. *)
LEMMA CoveringStep ==
  ASSUME TypeOK, Counting, Undisturbed, Undistorted, [Next]_vars
  PROVE  \/ UNCHANGED <<stream, gop, seis>>
         \/ /\ \E kind \in Kinds \ Hashable : stream' = Append(stream, kind)
            /\ gop'.context = gop.context /\ seis' = seis
         \/ \E kind \in Hashable, h \in Hashes :
              /\ stream' = Append(stream, kind)
              /\ h.nalu = Len(stream) + 1
              /\ \/ gop'.context = Append(gop.context, h) /\ seis' = seis
                 \/ /\ gop'.context = Append(<<>>, h)
                    /\ \E s \in Seis : seis' = Append(seis, s) /\ s.gopHash = gop.context
<1> DEFINE Goal ==
       \/ UNCHANGED <<stream, gop, seis>>
       \/ /\ \E kind \in Kinds \ Hashable : stream' = Append(stream, kind)
          /\ gop'.context = gop.context /\ seis' = seis
       \/ \E kind \in Hashable, h \in Hashes :
            /\ stream' = Append(stream, kind)
            /\ h.nalu = Len(stream) + 1
            /\ \/ gop'.context = Append(gop.context, h) /\ seis' = seis
               \/ /\ gop'.context = Append(<<>>, h)
                  /\ \E s \in Seis : seis' = Append(seis, s) /\ s.gopHash = gop.context
<1>1. ASSUME NEW kind \in Kinds, AddNalu(kind) PROVE Goal
  <2>1. stream' = Append(stream, kind) /\ seis' = seis
    BY <1>1 DEF AddNalu, MayCome
  <2>2. CASE kind \notin Hashable
    <3>1. gop'.context = gop.context
      BY <1>1, <2>2, AddNaluFields
    <3> QED BY <2>1, <2>2, <3>1
  <2>3. CASE kind \in Hashable
    <3>1. PICK h \in Hashes : h.nalu = Position /\ gop'.context = Append(gop.context, h)
      BY <1>1, <2>3, AddNaluFields
    <3> QED BY <2>1, <2>3, <3>1 DEF Position
  <2> QED BY <2>2, <2>3
<1>2. ASSUME NEW kind \in Kinds, AddFirstOfStream(kind) PROVE Goal
  <2>1. stream' = Append(stream, kind) /\ seis' = seis
    BY <1>2 DEF AddFirstOfStream, MayCome
  <2>2. gop.current = -1 /\ kind \in {"I", "P"}
    BY <1>2, AddFirstOfStreamFields
  <2>3. gop.context = <<>>
    BY <2>2 DEF Undistorted, BeforeGops
  <2>4. PICK h \in Hashes : h.nalu = Position /\ gop'.context = Append(gop.context, h)
    BY <1>2, <2>3, AddFirstOfStreamFields
  <2>5. kind \in Hashable
    BY <2>2 DEF Hashable, Kinds
  <2> QED BY <2>1, <2>4, <2>5 DEF Position
<1>3. ASSUME NEW kind \in Kinds, AddFirstOfGop(kind) PROVE Goal
  <2>1. stream' = Append(stream, kind)
    BY <1>3 DEF AddFirstOfGop, MayCome
  <2>2. gop.current \in 1..MaxNalus /\ kind \in {"I", "P"}
    BY <1>3, AddFirstOfGopFields
  <2>3. gop.current # -1
    BY <2>2, ScenarioBounds DEF TypeOK
  <2>4. gop.context # <<>> /\ (gop.listOk => gop.list = gop.context)
    BY <2>3 DEF Undistorted, InGop
  <2>5. PICK s \in Seis : seis' = Append(seis, s) /\ s.gopHash = gop.context
    BY <1>3, <2>4, AddFirstOfGopFields
  <2>6. PICK h \in Hashes : h.nalu = Position /\ gop'.context = Append(<<>>, h)
    <3>1. PICK h \in Hashes : h.nalu = Position /\ gop'.context = <<h>>
      BY <1>3, AddFirstOfGopFields
    <3>2. <<h>> = Append(<<>>, h)
      OBVIOUS
    <3> QED BY <3>1, <3>2
  <2>7. kind \in Hashable
    BY <2>2 DEF Hashable, Kinds
  <2> QED BY <2>1, <2>5, <2>6, <2>7 DEF Position
<1>4. CASE UNCHANGED vars
  BY <1>4 DEF vars
<1> HIDE DEF Goal
<1>5. Goal
  BY <1>1, <1>2, <1>3, <1>4, UndisturbedStep DEF Goal, vars
<1> QED BY <1>5 DEF Goal

LEMMA AllCoveredStep ==
  ASSUME TypeOK, Counting, Undisturbed, Undistorted, AllCovered, [Next]_vars
  PROVE  AllCovered'
<1>1. /\ stream \in Seq(Kinds \cup {"reset"}) /\ Len(stream) \in Nat /\ DOMAIN stream = 1..Len(stream)
      /\ gop.context \in Seq(Hashes)
      /\ seis \in Seq(Seis) /\ Len(seis) \in Nat /\ DOMAIN seis = 1..Len(seis)
  BY DEF TypeOK, GopInfos
<1>2. ASSUME NEW kind \in Kinds, stream' = Append(stream, kind)
      PROVE  \A n : n \in DOMAIN stream' /\ stream'[n] \in Hashable <=>
                      \/ n \in DOMAIN stream /\ stream[n] \in Hashable
                      \/ n = Len(stream) + 1 /\ kind \in Hashable
  <2>1. /\ DOMAIN stream' = 1..(Len(stream) + 1)
        /\ \A n \in 1..Len(stream) : stream'[n] = stream[n]
        /\ stream'[Len(stream) + 1] = kind
    BY <1>1, <1>2
  <2>2. \A n : n \in 1..(Len(stream) + 1) <=> n \in 1..Len(stream) \/ n = Len(stream) + 1
    BY <1>1
  <2>3. Len(stream) + 1 \notin 1..Len(stream)
    BY <1>1
  <2> QED BY <1>1, <2>1, <2>2, <2>3
<1>3. CASE UNCHANGED <<stream, gop, seis>>
  BY <1>3 DEF AllCovered
<1>4. ASSUME NEW kind \in Kinds \ Hashable, stream' = Append(stream, kind),
             gop'.context = gop.context, seis' = seis
      PROVE  AllCovered'
  BY <1>2, <1>4 DEF AllCovered
<1>5. ASSUME NEW kind \in Hashable, NEW h \in Hashes, stream' = Append(stream, kind),
             h.nalu = Len(stream) + 1,
             gop'.context = Append(gop.context, h), seis' = seis
      PROVE  AllCovered'
  <2>1. kind \in Kinds
    BY DEF Hashable
  <2>2. \A n : n \in NalusOf(gop'.context) <=> n \in NalusOf(gop.context) \/ n = Len(stream) + 1
    BY <1>1, <1>5, NalusOfAppended
  <2> QED BY <1>2, <1>5, <2>1, <2>2 DEF AllCovered
<1>6. ASSUME NEW kind \in Hashable, NEW h \in Hashes, stream' = Append(stream, kind),
             h.nalu = Len(stream) + 1,
             gop'.context = Append(<<>>, h),
             NEW s \in Seis, seis' = Append(seis, s), s.gopHash = gop.context
      PROVE  AllCovered'
  <2>1. kind \in Kinds
    BY DEF Hashable
  <2>2. \A n : n \in NalusOf(gop'.context) <=> n = Len(stream) + 1
    <3>1. <<>> \in Seq(Hashes) /\ NalusOf(<<>>) = {}
      BY DEF NalusOf
    <3> QED BY <1>6, <3>1, NalusOfAppended
  <2>3. \A n : (\E k \in DOMAIN seis' : n \in NalusOf(seis'[k].gopHash)) <=>
                 n \in NalusOf(gop.context) \/ \E k \in DOMAIN seis : n \in NalusOf(seis[k].gopHash)
    <3>1. /\ DOMAIN seis' = 1..(Len(seis) + 1)
          /\ \A k \in 1..Len(seis) : seis'[k] = seis[k]
          /\ seis'[Len(seis) + 1].gopHash = gop.context
      BY <1>1, <1>6
    <3>2. \A k : k \in 1..(Len(seis) + 1) <=> k \in 1..Len(seis) \/ k = Len(seis) + 1
      BY <1>1
    <3> QED BY <1>1, <3>1, <3>2
  <2> QED BY <1>2, <1>6, <2>1, <2>2, <2>3 DEF AllCovered
<1> QED BY <1>3, <1>4, <1>5, <1>6, CoveringStep

LEMMA AllCoveredSuffices ==
  ASSUME TypeOK, Order, Undistorted, AllCovered
  PROVE  EveryNaluIsCovered
<1> DEFINE hashes == [k \in DOMAIN seis |-> seis[k].gopHash]
<1>1. seis \in Seq(Seis) /\ Len(seis) \in Nat /\ DOMAIN seis = 1..Len(seis)
  BY DEF TypeOK
<1>2. /\ DOMAIN Parts = 1..(Len(seis) + 1)
      /\ \A k \in 1..Len(seis) : Parts[k] = seis[k].gopHash
      /\ Parts[Len(seis) + 1] = gop.context
  <2>1. hashes = [k \in 1..Len(seis) |-> seis[k].gopHash] /\ hashes \in Seq({seis[k].gopHash : k \in 1..Len(seis)})
    BY <1>1
  <2>2. Len(hashes) = Len(seis) /\ \A k \in 1..Len(seis) : hashes[k] = seis[k].gopHash
    BY <1>1, <2>1
  <2>3. Parts = Append(hashes, gop.context)
    BY DEF Parts
  <2> HIDE DEF hashes
  <2> QED BY <1>1, <2>1, <2>2, <2>3
<1>3. DOMAIN Parts = GopSeis \cup {Len(seis) + 1}
  <2>1. GopSeis = DOMAIN seis
    BY DEF GopSeis, Undistorted, Describes
  <2> QED BY <1>1, <1>2, <2>1
<1>4. InOrder(DOMAIN Parts)
  BY <1>3, OrderSuffices DEF NothingIsCoveredTwice
<1>5. ASSUME NEW n
      PROVE  n \in Covered <=> n \in DOMAIN stream /\ stream[n] \in Hashable
  <2>1. n \in Covered <=> \E k \in DOMAIN Parts : n \in NalusOf(Parts[k])
    BY DEF Covered, NalusOf
  <2>2. \A k : k \in 1..(Len(seis) + 1) <=> k \in 1..Len(seis) \/ k = Len(seis) + 1
    BY <1>1
  <2>3. (\E k \in DOMAIN Parts : n \in NalusOf(Parts[k])) <=>
          n \in NalusOf(gop.context) \/ \E k \in DOMAIN seis : n \in NalusOf(seis[k].gopHash)
    BY <1>1, <1>2, <2>2
  <2> QED BY <2>1, <2>3 DEF AllCovered
<1>6. Covered = {n \in DOMAIN stream : stream[n] \in Hashable}
  BY <1>5
<1> QED BY <1>4, <1>6 DEF EveryNaluIsCovered

(* Every hashable NAL Unit is part of exactly one GOP hash, in the order   *)
(* of the stream, wherever the stream is cut and however long the GOPs     *)
(* are: none is left out at a boundary and none counted on both sides      *)
(* (onvif_media_signing_add_nalu_part_for_signing()).                      *)
THEOREM NaluAlwaysCovered == Spec => []EveryNaluIsCovered
<1> DEFINE IInv == /\ TypeOK /\ Counting /\ Order
                   /\ Undisturbed => Undistorted /\ AllCovered
<1>1. Init => IInv
  <2>1. Init => AllCovered
    BY DEF Init, NewGopInfo, AllCovered, NalusOf
  <2> QED BY <2>1, InitTyped, InitOrdered, InitUndistorted
<1>2. IInv /\ [Next]_vars => IInv'
  <2> SUFFICES ASSUME IInv, [Next]_vars PROVE IInv'
    OBVIOUS
  <2>1. TypeOK' /\ Counting' /\ Order' /\ (Undisturbed => Undistorted)'
    BY TypeStep, OrderStep, UndistortedStep
  <2>2. (Undisturbed => AllCovered)'
    BY ScenarioStays, AllCoveredStep DEF Undisturbed
  <2> QED BY <2>1, <2>2
<1>3. IInv => EveryNaluIsCovered
  BY AllCoveredSuffices DEF EveryNaluIsCovered
<1> QED BY <1>1, <1>2, <1>3, PTL DEF Spec

-----------------------------------------------------------------------------
(* Every signing_frequency-th GOP is signed.                               *)

(* Division with remainder. *)
LEMMA DivUnique ==
  ASSUME NEW f \in Nat \ {0}, NEW p \in Int, NEW q \in Int,
         NEW r \in 0..(f-1), NEW s \in 0..(f-1), f * p + r = f * q + s
  PROVE  p = q /\ r = s
<1>1. ASSUME p < q PROVE FALSE
  <2>1. f * p + f <= f * q
    <3>1. PICK d \in Nat : q = p + 1 + d
      <4>1. q - p - 1 \in Nat /\ q = p + 1 + (q - p - 1)
        BY <1>1
      <4> QED BY <4>1
    <3>2. f * q = f * p + f + f * d
      BY <3>1
    <3>3. f * d >= 0 /\ f*d \in Int
      OBVIOUS
    <3>4. f*p \in Int
      OBVIOUS
    <3> QED BY <3>2, <3>3, <3>4
  <2> QED BY <2>1
<1>2. ASSUME q < p PROVE FALSE
  <2>1. f * q + f <= f * p
    <3>1. PICK d \in Nat : p = q + 1 + d
      <4>1. p - q - 1 \in Nat /\ p = q + 1 + (p - q - 1)
        BY <1>2
      <4> QED BY <4>1
    <3>2. f * p = f * q + f + f * d
      BY <3>1
    <3>3. f * d >= 0 /\ f*d \in Int
      OBVIOUS
    <3>4. f*q \in Int
      OBVIOUS
    <3> QED BY <3>2, <3>3, <3>4
  <2> QED BY <2>1
<1>3. p = q
  BY <1>1, <1>2
<1> QED BY <1>3

LEMMA DivMod ==
  ASSUME NEW f \in Nat \ {0}, NEW c \in Nat
  PROVE  c % f \in 0..(f-1) /\ c \div f \in Int /\ c = f * (c \div f) + (c % f)
OBVIOUS

LEMMA ModUnique ==
  ASSUME NEW f \in Nat \ {0}, NEW c \in Nat, NEW q \in Int, NEW r \in 0..(f-1), c = f * q + r
  PROVE  c % f = r
BY DivMod, DivUnique

LEMMA ModStep ==
  ASSUME NEW f \in Nat \ {0}, NEW c \in Nat
  PROVE  (c + 1) % f = IF (c % f) = f - 1 THEN 0 ELSE (c % f) + 1
<1> DEFINE q == c \div f
           r == c % f
<1>1. r \in 0..(f-1) /\ q \in Int /\ c = f * q + r
  BY DivMod
<1> HIDE DEF q, r
<1>2. CASE r = f - 1
  <2>1. c + 1 = f * (q + 1) + 0
    BY <1>1, <1>2
  <2>2. 0 \in 0..(f-1) /\ q + 1 \in Int /\ c + 1 \in Nat
    BY <1>1
  <2> QED BY <1>2, <2>1, <2>2, ModUnique DEF r
<1>3. CASE r # f - 1
  <2>1. c + 1 = f * q + (r + 1)
    BY <1>1
  <2>2. r + 1 \in 0..(f-1) /\ c + 1 \in Nat
    BY <1>1, <1>3
  <2> QED BY <1>1, <1>3, <2>1, <2>2, ModUnique DEF r
<1> QED BY <1>2, <1>3

LEMMA ModZero ==
  ASSUME NEW f \in Nat \ {0}
  PROVE  0 % f = 0
<1>1. 0 = f * 0 + 0 /\ 0 \in 0..(f-1)
  OBVIOUS
<1> QED BY <1>1, ModUnique

(* The primary slices among the hashes h, in stream s. *)
FramesIn(h, s) == {i \in DOMAIN h : s[h[i].nalu] \in PrimarySlices}

(* num_frames_in_partial_gop counts the frames of the GOP at hand, and     *)
(* num_gops_until_signing the GOPs that have ended.                        *)
Due ==
  /\ gop.numFrames = Cardinality(FramesIn(gop.context, stream))
  /\ maxSigningFrames > 0 => gop.numFrames <= maxSigningFrames
  /\ untilSigning = IF gop.current = -1
                    THEN signingFrequency
                    ELSE signingFrequency - 1 - (Cardinality(GopEnds) % signingFrequency)
  /\ \A k \in DOMAIN seis :
       /\ seis[k].signed <=> \/ /\ k \in GopEnds
                                /\ Cardinality(GopEnds \cap 1..k) % signingFrequency = 0
                             \/ /\ maxSigningFrames > 0
                                /\ Cardinality(FramesIn(seis[k].gopHash, stream)) = maxSigningFrames
       /\ maxSigningFrames > 0 =>
            Cardinality(FramesIn(seis[k].gopHash, stream)) <= maxSigningFrames

LEMMA FramesFinite ==
  ASSUME NEW c \in Seq(Hashes), NEW s
  PROVE  /\ IsFiniteSet(FramesIn(c, s)) /\ Cardinality(FramesIn(c, s)) \in Nat
         /\ FramesIn(c, s) \subseteq 1..Len(c) /\ Len(c) \in Nat
<1>1. FramesIn(c, s) \in SUBSET (1..Len(c)) /\ Len(c) \in Nat
  BY DEF FramesIn
<1>2. IsFiniteSet(1..Len(c))
  BY <1>1, FS_Interval
<1>3. IsFiniteSet(FramesIn(c, s))
  BY <1>1, <1>2, FS_Subset
<1> QED BY <1>1, <1>3, FS_CardinalityType

LEMMA FramesStay ==
  ASSUME NEW s \in Seq(Kinds \cup {"reset"}), NEW kind, NEW c,
         \A i \in DOMAIN c : c[i].nalu \in DOMAIN s
  PROVE  FramesIn(c, Append(s, kind)) = FramesIn(c, s)
<1>1. \A n \in DOMAIN s : Append(s, kind)[n] = s[n]
  OBVIOUS
<1> QED BY <1>1 DEF FramesIn

LEMMA FramesAppended ==
  ASSUME NEW s \in Seq(Kinds \cup {"reset"}), NEW kind, NEW c \in Seq(Hashes), NEW h,
         \A i \in DOMAIN c : c[i].nalu \in DOMAIN s, h.nalu = Len(s) + 1
  PROVE  Cardinality(FramesIn(Append(c, h), Append(s, kind))) =
           Cardinality(FramesIn(c, s)) + IF kind \in PrimarySlices THEN 1 ELSE 0
<1> DEFINE t == Append(s, kind)
           a == Append(c, h)
           new == Len(c) + 1
<1>1. /\ Len(c) \in Nat /\ DOMAIN c = 1..Len(c) /\ DOMAIN a = 1..(Len(c) + 1)
      /\ \A i \in 1..Len(c) : a[i] = c[i]
      /\ a[Len(c) + 1] = h
  OBVIOUS
<1>2. t[Len(s) + 1] = kind /\ FramesIn(c, t) = FramesIn(c, s)
  BY FramesStay
<1> HIDE DEF t, a
<1>3. \A i : i \in 1..(Len(c) + 1) <=> i \in 1..Len(c) \/ i = new
  BY <1>1
<1>4. new \notin FramesIn(c, t)
  BY <1>1 DEF FramesIn
<1>5. FramesIn(a, t) = FramesIn(c, t) \cup (IF kind \in PrimarySlices THEN {new} ELSE {})
  BY <1>1, <1>2, <1>3 DEF FramesIn
<1>6. IsFiniteSet(FramesIn(c, t)) /\ Cardinality(FramesIn(c, t)) \in Nat
  BY FramesFinite
<1>7. Cardinality(FramesIn(a, t)) = Cardinality(FramesIn(c, t)) + IF kind \in PrimarySlices THEN 1 ELSE 0
  <2>1. CASE kind \in PrimarySlices
    <3>1. FramesIn(a, t) = FramesIn(c, t) \cup {new}
      BY <1>5, <2>1
    <3>2. Cardinality(FramesIn(c, t) \cup {new}) = Cardinality(FramesIn(c, t)) + 1
      BY <1>4, <1>6, FS_AddElement
    <3> QED BY <2>1, <3>1, <3>2
  <2>2. CASE kind \notin PrimarySlices
    BY <1>5, <1>6, <2>2
  <2> QED BY <2>1, <2>2
<1> QED BY <1>2, <1>7 DEF a, t

LEMMA GopEndsFinite ==
  ASSUME seis \in Seq(Seis)
  PROVE  /\ GopEnds \subseteq 1..Len(seis) /\ IsFiniteSet(GopEnds)
         /\ Cardinality(GopEnds) \in Nat /\ Len(seis) \in Nat
<1>1. GopEnds \in SUBSET (1..Len(seis)) /\ Len(seis) \in Nat
  BY DEF GopEnds
<1>2. IsFiniteSet(1..Len(seis))
  BY <1>1, FS_Interval
<1>3. IsFiniteSet(GopEnds)
  BY <1>1, <1>2, FS_Subset
<1> QED BY <1>1, <1>3, FS_CardinalityType

LEMMA FrequencyType ==
  ASSUME TypeOK
  PROVE  /\ signingFrequency \in Nat \ {0} /\ maxSigningFrames \in Nat
<1>1. signingFrequency \in Frequencies /\ maxSigningFrames \in FrameLimits
  BY DEF TypeOK
<1>2. signingFrequency \in Nat /\ signingFrequency >= 1
  BY <1>1, FrequencyBounds
<1>3. maxSigningFrames \in Nat
  BY <1>1, BoundAssumption
<1> QED BY <1>2, <1>3

(* The SEIs that there were, and the GOPs that they end. *)
LEMMA OldSeisDue ==
  ASSUME TypeOK, Undistorted, NEW kind \in Kinds, stream' = Append(stream, kind),
         \A k \in DOMAIN seis : seis[k].endTime \in DOMAIN stream
  PROVE  /\ FramesIn(gop.context, stream') = FramesIn(gop.context, stream)
         /\ \A k \in DOMAIN seis :
              /\ FramesIn(seis[k].gopHash, stream') = FramesIn(seis[k].gopHash, stream)
              /\ stream'[seis[k].endTime] = stream[seis[k].endTime]
<1>1. stream \in Seq(Kinds \cup {"reset"})
  BY DEF TypeOK
<1>2. FramesIn(gop.context, stream') = FramesIn(gop.context, stream)
  <2>1. \A i \in DOMAIN gop.context : gop.context[i].nalu \in DOMAIN stream
    BY DEF Undistorted, AnchoredIn
  <2> QED BY <1>1, <2>1, FramesStay
<1>3. ASSUME NEW k \in DOMAIN seis
      PROVE  FramesIn(seis[k].gopHash, stream') = FramesIn(seis[k].gopHash, stream)
  <2>1. \A i \in DOMAIN seis[k].gopHash : seis[k].gopHash[i].nalu \in DOMAIN stream
    BY DEF Undistorted, Describes, AnchoredIn
  <2> QED BY <1>1, <2>1, FramesStay
<1>4. \A n \in DOMAIN stream : stream'[n] = stream[n]
  BY <1>1
<1> QED BY <1>2, <1>3, <1>4

LEMMA AddNaluDue ==
  ASSUME TypeOK, Counting, Undisturbed, Undistorted, Numbering, Due,
         NEW kind \in Kinds, AddNalu(kind)
  PROVE  Due'
<1> DEFINE frames == Cardinality(FramesIn(gop.context, stream))
<1>1. /\ stream' = Append(stream, kind) /\ seis' = seis /\ untilSigning' = untilSigning
      /\ signingFrequency' = signingFrequency /\ maxSigningFrames' = maxSigningFrames
      /\ kind \in PrimarySlices => ~LimitReached
  BY DEF AddNalu, MayCome, settings, StartsGop, PrimarySlices
<1>2. /\ stream \in Seq(Kinds \cup {"reset"}) /\ gop.context \in Seq(Hashes)
      /\ maxSigningFrames \in Nat /\ gop.numFrames \in Nat
  BY FrequencyType, ScenarioBounds DEF TypeOK, GopInfos
<1>3. \A k \in DOMAIN seis : seis[k].endTime \in DOMAIN stream
  <2>1. GopSeis = DOMAIN seis
    BY DEF GopSeis, Undistorted, Describes
  <2> QED BY <2>1 DEF Numbering
<1>4. /\ FramesIn(gop.context, stream') = FramesIn(gop.context, stream)
      /\ \A k \in DOMAIN seis :
           /\ FramesIn(seis[k].gopHash, stream') = FramesIn(seis[k].gopHash, stream)
           /\ stream'[seis[k].endTime] = stream[seis[k].endTime]
  BY <1>1, <1>3, OldSeisDue
<1>5. GopEnds' = GopEnds
  BY <1>1, <1>4 DEF GopEnds
<1>6. gop'.current = gop.current
      /\ gop'.numFrames = (IF kind \in PrimarySlices THEN gop.numFrames + 1 ELSE gop.numFrames)
  BY AddNaluFields
<1>7. gop'.numFrames = Cardinality(FramesIn(gop'.context, stream'))
  <2>1. CASE kind \notin Hashable
    <3>1. gop'.context = gop.context /\ kind \notin PrimarySlices
      BY <2>1, AddNaluFields DEF Hashable, Kinds, PrimarySlices
    <3> QED BY <1>4, <1>6, <3>1 DEF Due
  <2>2. CASE kind \in Hashable
    <3>1. PICK h \in Hashes : h.nalu = Position /\ gop'.context = Append(gop.context, h)
      BY <2>2, AddNaluFields
    <3>2. \A i \in DOMAIN gop.context : gop.context[i].nalu \in DOMAIN stream
      BY DEF Undistorted, AnchoredIn
    <3>3. h.nalu = Len(stream) + 1
      BY <3>1 DEF Position
    <3>4. Cardinality(FramesIn(Append(gop.context, h), Append(stream, kind))) =
            frames + IF kind \in PrimarySlices THEN 1 ELSE 0
      BY <1>2, <3>2, <3>3, FramesAppended
    <3>5. frames = gop.numFrames
      BY DEF Due
    <3> HIDE DEF frames
    <3>6. Cardinality(FramesIn(gop'.context, stream')) = frames + IF kind \in PrimarySlices THEN 1 ELSE 0
      BY <1>1, <3>1, <3>4
    <3> QED BY <1>2, <1>6, <3>5, <3>6
  <2> QED BY <2>1, <2>2
<1>8. maxSigningFrames > 0 => gop'.numFrames <= maxSigningFrames
  BY <1>1, <1>2, <1>6 DEF Due, LimitReached
<1> QED BY <1>1, <1>4, <1>5, <1>6, <1>7, <1>8 DEF Due

LEMMA FirstGopDue ==
  ASSUME TypeOK, Counting, Undisturbed, Undistorted, Due,
         NEW kind \in Kinds, AddFirstOfStream(kind)
  PROVE  Due'
<1>1. /\ stream' = Append(stream, kind) /\ seis' = seis /\ MayCome(kind)
      /\ signingFrequency' = signingFrequency /\ maxSigningFrames' = maxSigningFrames
      /\ untilSigning' = IF kind = "I" THEN Decremented(untilSigning) ELSE untilSigning
  BY DEF AddFirstOfStream, MayCome, settings
<1>2. /\ signingFrequency \in Nat \ {0} /\ maxSigningFrames \in Nat
      /\ stream \in Seq(Kinds \cup {"reset"})
  BY FrequencyType DEF TypeOK
<1>3. gop.current = -1 /\ gop'.current = 1 /\ kind \in {"I", "P"}
      /\ gop'.numFrames = gop.numFrames + 1
  BY AddFirstOfStreamFields
<1>4. BeforeGops
  BY <1>3 DEF Undistorted
<1>5. kind = "I"
  BY <1>1, <1>3, <1>4, UndisturbedMayCome DEF BeforeGops
<1>6. untilSigning = signingFrequency /\ untilSigning' = signingFrequency - 1
  <2>1. untilSigning = signingFrequency
    BY <1>3 DEF Due
  <2> QED BY <1>1, <1>2, <1>5, <2>1 DEF Decremented
<1>7. seis' = <<>> /\ GopEnds' = {} /\ Cardinality({}) = 0
  BY <1>1, <1>4, FS_EmptySet DEF BeforeGops, GopEnds
<1>8. 0 % signingFrequency = 0
  BY <1>2, ModZero
<1>9. gop.context = <<>>
  BY <1>4 DEF BeforeGops
<1>10. PICK h \in Hashes : h.nalu = Position /\ gop'.context = Append(gop.context, h)
  BY <1>9, AddFirstOfStreamFields
<1>11. gop'.numFrames = Cardinality(FramesIn(gop'.context, stream')) /\ gop'.numFrames = 1
  <2>1. gop.context \in Seq(Hashes) /\ \A i \in DOMAIN gop.context : gop.context[i].nalu \in DOMAIN stream
    BY <1>9
  <2>2. kind \in PrimarySlices
    BY <1>5 DEF PrimarySlices
  <2>3. Cardinality(FramesIn(gop'.context, stream')) = Cardinality(FramesIn(gop.context, stream)) + 1
    BY <1>1, <1>2, <1>10, <2>1, <2>2, FramesAppended DEF Position
  <2>4. FramesIn(gop.context, stream) = {}
    BY <1>9 DEF FramesIn
  <2>5. gop.numFrames = 0
    BY <1>7, <2>4 DEF Due
  <2> QED BY <1>3, <1>7, <2>3, <2>4, <2>5
<1>12. maxSigningFrames > 0 => gop'.numFrames <= maxSigningFrames
  BY <1>2, <1>11
<1>13. untilSigning' = signingFrequency - 1 - (Cardinality(GopEnds') % signingFrequency)
  BY <1>2, <1>6, <1>7, <1>8
<1>14. DOMAIN seis' = {} /\ gop'.current # -1
  BY <1>3, <1>7
<1> QED BY <1>1, <1>11, <1>12, <1>13, <1>14 DEF Due

LEMMA NextGopDue ==
  ASSUME TypeOK, Counting, Undisturbed, Undistorted, Numbering, Due,
         NEW kind \in Kinds, AddFirstOfGop(kind)
  PROVE  Due'
<1> DEFINE c == Cardinality(GopEnds)
           f == signingFrequency
<1>1. /\ stream' = Append(stream, kind) /\ MayCome(kind)
      /\ signingFrequency' = signingFrequency /\ maxSigningFrames' = maxSigningFrames
      /\ StartsGop(kind)
      /\ untilSigning' =
           IF kind # "I" THEN untilSigning
           ELSE Decremented(IF untilSigning = 0 THEN signingFrequency ELSE untilSigning)
  BY DEF AddFirstOfGop, MayCome, settings
<1>2. /\ f \in Nat \ {0} /\ maxSigningFrames \in Nat
      /\ stream \in Seq(Kinds \cup {"reset"}) /\ Len(stream) \in Nat
      /\ seis \in Seq(Seis) /\ Len(seis) \in Nat /\ DOMAIN seis = 1..Len(seis)
      /\ gop.context \in Seq(Hashes) /\ gop.numFrames \in Nat
  BY FrequencyType, ScenarioBounds, SMTT(30) DEF TypeOK, GopInfos
<1>3. /\ gop.current \in 1..MaxNalus /\ gop'.current = gop.current + 1 /\ kind \in {"I", "P"}
      /\ gop'.numFrames = 1
  BY AddFirstOfGopFields
<1>4. gop.current # -1 /\ gop'.current # -1
  BY <1>3, ScenarioBounds DEF TypeOK
<1>5. gop.context # <<>> /\ (gop.listOk => gop.list = gop.context)
  BY <1>4 DEF InGop, Undistorted
<1>6. PICK s \in Seis : /\ seis' = Append(seis, s) /\ s.gopHash = gop.context
                        /\ s.endTime = Position /\ s.signed = IsSigned(LimitReached)
  BY <1>5, AddFirstOfGopFields
<1>7. PICK h \in Hashes : h.nalu = Position /\ gop'.context = <<h>>
  BY AddFirstOfGopFields
<1>8. PICK new \in Nat : new = Len(seis) + 1
  BY <1>2
<1>9. /\ DOMAIN seis' = 1..new
      /\ seis'[new] = s
      /\ \A k \in DOMAIN seis : seis'[k] = seis[k]
      /\ \A k : k \in 1..new <=> k \in DOMAIN seis \/ k = new
      /\ new \notin DOMAIN seis
  BY <1>2, <1>6, <1>8
<1>10. \A k \in DOMAIN seis : seis[k].endTime \in DOMAIN stream
  <2>1. GopSeis = DOMAIN seis
    BY DEF GopSeis, Undistorted, Describes
  <2> QED BY <2>1 DEF Numbering
<1>11. /\ FramesIn(gop.context, stream') = FramesIn(gop.context, stream)
       /\ \A k \in DOMAIN seis :
            /\ FramesIn(seis[k].gopHash, stream') = FramesIn(seis[k].gopHash, stream)
            /\ stream'[seis[k].endTime] = stream[seis[k].endTime]
  BY <1>1, <1>10, OldSeisDue
<1>12. stream'[Position] = kind
  BY <1>1, <1>2 DEF Position
(* The GOP of the new SEI counts if an I-frame has ended it. *)
<1>13. GopEnds' = IF kind = "I" THEN GopEnds \cup {new} ELSE GopEnds
  <2>1. \A k \in DOMAIN seis : k \in GopEnds' <=> k \in GopEnds
    BY <1>9, <1>11 DEF GopEnds
  <2>2. new \in GopEnds' <=> kind = "I"
    BY <1>6, <1>9, <1>12 DEF GopEnds
  <2>3. GopEnds' \subseteq 1..new /\ GopEnds \subseteq DOMAIN seis
    BY <1>9 DEF GopEnds
  <2>4. CASE kind = "I"
    <3>1. GopEnds' = GopEnds \cup {new}
      BY <1>9, <2>1, <2>2, <2>3, <2>4
    <3> QED BY <2>4, <3>1
  <2>5. CASE kind # "I"
    <3>1. GopEnds' = GopEnds
      BY <1>9, <2>1, <2>2, <2>3, <2>5
    <3> QED BY <2>5, <3>1
  <2> QED BY <2>4, <2>5
<1>14. /\ GopEnds \subseteq 1..Len(seis) /\ IsFiniteSet(GopEnds) /\ c \in Nat
       /\ new \notin GopEnds
  BY <1>2, <1>8, GopEndsFinite
<1>15. Cardinality(GopEnds') = IF kind = "I" THEN c + 1 ELSE c
  <2>1. Cardinality(GopEnds \cup {new}) = c + 1
    BY <1>14, FS_AddElement
  <2> QED BY <1>13, <2>1
<1>16. /\ GopEnds' \cap 1..new = GopEnds'
       /\ \A k \in DOMAIN seis : GopEnds' \cap 1..k = GopEnds \cap 1..k
  <2>1. 1..Len(seis) \subseteq 1..new /\ new \in 1..new /\ \A k \in DOMAIN seis : new \notin 1..k
    BY <1>2, <1>8
  <2>2. GopEnds' = GopEnds \/ GopEnds' = GopEnds \cup {new}
    BY <1>13
  <2> QED BY <1>14, <2>1, <2>2
<1>17. untilSigning = f - 1 - (c % f)
  BY <1>4 DEF Due
<1>18. c % f \in 0..(f-1) /\ (c + 1) % f = IF (c % f) = f - 1 THEN 0 ELSE (c % f) + 1
  BY <1>2, <1>14, DivMod, ModStep
<1>19. PICK r \in 0..(f-1) : r = c % f
  BY <1>18
<1> HIDE DEF c, f
(* The count goes on. *)
<1>20. untilSigning' = f' - 1 - (Cardinality(GopEnds') % f')
  <2>1. f' = f
    BY <1>1 DEF f
  <2>2. CASE kind = "I"
    <3>1. Cardinality(GopEnds') % f' = IF r = f - 1 THEN 0 ELSE r + 1
      BY <1>15, <1>18, <1>19, <2>1, <2>2
    <3>2. untilSigning' = IF untilSigning = 0 THEN f - 1 ELSE untilSigning - 1
      BY <1>1, <1>2, <2>2 DEF Decremented, f
    <3>3. untilSigning = f - 1 - r
      BY <1>17, <1>19
    <3> QED BY <1>2, <1>19, <2>1, <3>1, <3>2, <3>3
  <2>3. CASE kind # "I"
    BY <1>1, <1>15, <1>17, <2>1, <2>3
  <2> QED BY <2>2, <2>3
<1>21. gop'.numFrames = Cardinality(FramesIn(gop'.context, stream'))
  <2>1. Append(<<>>, h) = gop'.context /\ <<>> \in Seq(Hashes)
    BY <1>7
  <2>2. FramesIn(<<>>, stream) = {} /\ Cardinality({}) = 0
    BY FS_EmptySet DEF FramesIn
  <2>3. kind \in PrimarySlices
    BY <1>3 DEF PrimarySlices
  <2>4. \A i \in DOMAIN <<>> : <<>>[i].nalu \in DOMAIN stream
    OBVIOUS
  <2>5. Cardinality(FramesIn(Append(<<>>, h), Append(stream, kind))) =
          Cardinality(FramesIn(<<>>, stream)) + 1
    BY <1>2, <1>7, <2>1, <2>3, <2>4, FramesAppended DEF Position
  <2>6. FramesIn(gop'.context, stream') = FramesIn(Append(<<>>, h), Append(stream, kind))
    BY <1>1, <2>1
  <2>7. Cardinality(FramesIn(<<>>, stream)) = 0
    BY <2>2
  <2>8. Cardinality(FramesIn(gop'.context, stream')) = 0 + 1
    BY <2>5, <2>6, <2>7, Zenon
  <2> QED BY <1>3, <2>8
<1>22. maxSigningFrames' > 0 => gop'.numFrames <= maxSigningFrames'
  BY <1>1, <1>2, <1>3
(* The new SEI. *)
<1>23. LET frames == Cardinality(FramesIn(s.gopHash, stream'))
       IN  /\ s.signed <=> \/ /\ new \in GopEnds'
                              /\ Cardinality(GopEnds' \cap 1..new) % signingFrequency' = 0
                           \/ /\ maxSigningFrames' > 0
                              /\ frames = maxSigningFrames'
           /\ maxSigningFrames' > 0 => frames <= maxSigningFrames'
  <2> DEFINE frames == Cardinality(FramesIn(s.gopHash, stream'))
  <2>1. frames = gop.numFrames
    BY <1>6, <1>11 DEF Due
  <2> HIDE DEF frames
  <2>2. maxSigningFrames > 0 => frames <= maxSigningFrames
    BY <2>1 DEF Due
  <2>3. LimitReached <=> maxSigningFrames > 0 /\ frames = maxSigningFrames
    BY <1>2, <2>1, <2>2 DEF LimitReached
  <2>4. s.signed <=> untilSigning = 0 \/ LimitReached
    BY <1>6 DEF IsSigned
  <2>5. CASE kind = "I"
    <3>1. new \in GopEnds' /\ Cardinality(GopEnds' \cap 1..new) = c + 1
      BY <1>13, <1>15, <1>16, <2>5
    <3>2. untilSigning = 0 <=> r = f - 1
      BY <1>2, <1>17, <1>19
    <3>3. (c + 1) % f = 0 <=> r = f - 1
      BY <1>2, <1>18, <1>19
    <3> QED BY <1>1, <2>2, <2>3, <2>4, <3>1, <3>2, <3>3 DEF f, frames
  <2>6. CASE kind # "I"
    <3>1. new \notin GopEnds' /\ LimitReached
      BY <1>1, <1>13, <1>14, <2>6 DEF StartsGop
    <3> QED BY <1>1, <2>2, <2>3, <2>4, <3>1 DEF frames
  <2> QED BY <2>5, <2>6
(* The SEIs that there were. *)
<1>24. ASSUME NEW k \in DOMAIN seis
       PROVE  LET frames == Cardinality(FramesIn(seis'[k].gopHash, stream'))
              IN  /\ seis'[k].signed <=> \/ /\ k \in GopEnds'
                                            /\ Cardinality(GopEnds' \cap 1..k) % signingFrequency' = 0
                                         \/ /\ maxSigningFrames' > 0
                                            /\ frames = maxSigningFrames'
                  /\ maxSigningFrames' > 0 => frames <= maxSigningFrames'
  <2>1. k \in GopEnds' <=> k \in GopEnds
    BY <1>9, <1>13
  <2> QED BY <1>1, <1>9, <1>11, <1>16, <2>1 DEF Due
<1> QED BY <1>4, <1>9, <1>20, <1>21, <1>22, <1>23, <1>24 DEF Due, f

LEMMA DueStep ==
  ASSUME TypeOK, Counting, Undisturbed, Undistorted, Numbering, Due, [Next]_vars
  PROVE  Due'
<1>1. CASE UNCHANGED vars
  BY <1>1 DEF vars, settings, Due, GopEnds
<1>2. ASSUME NEW kind \in Kinds, AddNalu(kind) \/ AddFirstOfStream(kind) \/ AddFirstOfGop(kind)
      PROVE  Due'
  BY <1>2, AddNaluDue, FirstGopDue, NextGopDue
<1> QED BY <1>1, <1>2, UndisturbedStep

(* Every signing_frequency-th GOP is signed and so is every SEI generated  *)
(* at the frame limit, which does not disturb the count of the GOPs; the   *)
(* other SEIs are not.  No SEI covers more frames than the limit, for all  *)
(* frequencies and limits                                                  *)
(* (onvif_media_signing_add_nalu_part_for_signing()).                      *)
THEOREM AlwaysSignedWhenDue == Spec => []SignedWhenDue
<1> DEFINE IInv == /\ TypeOK /\ Counting /\ Order /\ Numbering
                   /\ Undisturbed => Undistorted /\ Due
<1>1. Init => IInv
  <2>1. Init => Due
    <3> SUFFICES ASSUME Init PROVE Due
      OBVIOUS
    <3>1. /\ gop.context = <<>> /\ gop.numFrames = 0 /\ gop.current = -1
          /\ seis = <<>> /\ untilSigning = signingFrequency
      BY DEF Init, NewGopInfo
    <3>2. FramesIn(gop.context, stream) = {} /\ Cardinality({}) = 0
      BY <3>1, FS_EmptySet DEF FramesIn
    <3>3. maxSigningFrames \in Nat
      BY FrequencyType, InitTyped
    <3> QED BY <3>1, <3>2, <3>3 DEF Due
  <2> QED BY <2>1, InitTyped, InitOrdered, InitNumbered, InitUndistorted
<1>2. IInv /\ [Next]_vars => IInv'
  <2> SUFFICES ASSUME IInv, [Next]_vars PROVE IInv'
    OBVIOUS
  <2>1. TypeOK' /\ Counting' /\ Order' /\ Numbering' /\ (Undisturbed => Undistorted)'
    BY TypeStep, OrderStep, NumberingStep, UndistortedStep
  <2>2. (Undisturbed => Due)'
    BY ScenarioStays, DueStep DEF Undisturbed
  <2> QED BY <2>1, <2>2
<1>3. IInv => SignedWhenDue
  <2>1. Due => SignedWhenDue
    BY DEF Due, SignedWhenDue, NumFrames, FramesIn
  <2> QED BY <2>1 DEF SignedWhenDue
<1> QED BY <1>1, <1>2, <1>3, PTL DEF Spec

=============================================================================
