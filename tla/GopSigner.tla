----------------------------- MODULE GopSigner -----------------------------
(***************************************************************************)
(* The signing session (lib/src/oms_signer.c, lib/src/oms_common.c) from   *)
(* NAL Units to SEIs: how the stream is cut into (partial) GOPs, what      *)
(* every SEI says of its GOP, and which SEIs are signed.  What becomes of  *)
(* a SEI once it is in sei_data_buffer[] is the subject of SeiSigning.     *)
(*                                                                         *)
(* A NAL Unit is known by its position in the stream and by its kind.  Its *)
(* hash is [nalu |-> n, anchor |-> a], where a is the NAL Unit n is hashed *)
(* together with: n itself for one hashed on its own, None if there has    *)
(* been no I-frame.  A GOP hash is the sequence of the hashes it is the    *)
(* hash of; all zeros is <<>>.  The timestamp of a NAL Unit is its number. *)
(* A NAL Unit in parts does all this when its last part is given.          *)
(*                                                                         *)
(* The specification starts when the keys are set.  Calls that are refused *)
(* at once are stuttering steps; OpenSSL's digests do not fail.            *)
(***************************************************************************)
EXTENDS Integers, Sequences, FiniteSets

CONSTANTS
  Scenarios,   \* what a session is faced with, records of
               \*   maxNalus: bound, the length of the stream
               \*   maxHashes: hashes that hash_list has room for
               \*   maxEnds: bound, the SEIs generated for an end of the stream
               \*   events: what may happen besides, a subset of AllEvents
  Frequencies, \* values of signing_frequency
  FrameLimits, \* values of max_signing_frames, 0 for none
  UINT_MAX     \* the largest unsigned (2^32 - 1 in the code)

AllEvents == {"leading", "settings", "droplist", "failure", "certificate",
              "reset", "end", "afterend"}

ASSUME ScenarioAssumption ==
  \A s \in Scenarios : /\ s.maxNalus \in Nat
                       /\ s.maxHashes \in Nat \ {0}
                       /\ s.maxEnds \in Nat
                       /\ s.events \subseteq AllEvents
ASSUME BoundAssumption ==
  /\ UINT_MAX \in Nat
  /\ Frequencies \subseteq 1..UINT_MAX
  /\ FrameLimits \subseteq 0..UINT_MAX

(* Primary slices, secondary slices, unsigned SEIs of this library that    *)
(* the user puts in the stream, and all other NAL Units, signed SEIs       *)
(* included.                                                               *)
Kinds == {"I", "P", "slice", "sei", "other"}
PrimarySlices == {"I", "P"}
Hashable == Kinds \ {"other"}

None == 0

(* num_nalus_in_partial_gop for a hash_list_idx of -1: the index is        *)
(* divided by a size_t and cut to 16 bits.                                 *)
OverflowCount == 65535

VARIABLES
  scenario,         \* one of Scenarios, which never changes
  stream,           \* the NAL Units given to the library, and the resets
  gop,              \* gop_info, with the state of the primary hash context
  started,          \* signing_started
  ended,            \* set_end_of_stream() was called (unknown to the code,
                    \* which does as it is told, also several times)
  untilSigning,     \* num_gops_until_signing
  signingFrequency, \* signing_frequency
  maxSigningFrames, \* max_signing_frames
  seis              \* what the generated SEIs say, certificate SEIs left out

settings == <<signingFrequency, maxSigningFrames>>
vars == <<scenario, stream, gop, started, ended, untilSigning, settings, seis>>

(* The bounds of the session at hand, and what may happen in it. *)
MaxNalus == scenario.maxNalus
MaxHashes == scenario.maxHashes
Events == scenario.events

(* gop_info_create() *)
NewGopInfo ==
  [context |-> <<>>,          \* hashes in the primary hash context
   list |-> <<>>,             \* hashes in hash_list
   listOk |-> TRUE,           \* hash_list_idx is not -1
   hasAnchor |-> FALSE,       \* has_anchor_hash
   anchor |-> None,           \* the anchor in hash_buddies
   linked |-> <<<<>>, <<>>>>, \* linked_hash and the pending one
   gopHash |-> <<>>,          \* partial_gop_hash
   numNalus |-> 0,            \* num_nalus_in_partial_gop
   numFrames |-> 0,           \* num_frames_in_partial_gop
   current |-> -1,            \* current_partial_gop
   triggered |-> FALSE,       \* triggered_partial_gop
   startTime |-> 0, endTime |-> 0]

Init ==
  /\ scenario \in Scenarios
  /\ stream = <<>>
  /\ gop = NewGopInfo
  /\ started = FALSE
  /\ ended = FALSE
  /\ signingFrequency \in Frequencies
  /\ untilSigning = signingFrequency
  /\ maxSigningFrames \in FrameLimits
  /\ seis = <<>>

-----------------------------------------------------------------------------
(* What the functions of the library do to gop_info.                       *)

(* update_linked_hash() *)
UpdateLinkedHash(g, h) == [g EXCEPT !.linked = <<g.linked[2], <<h>>>>]

(* Mutated CopyToHashList: whether there is room is not asked. *)
CopyToHashList_NoLimit(g, h) == [g EXCEPT !.list = Append(@, h)]

(* check_and_copy_hash_to_hash_list() *)
CopyToHashList(g, h) ==
  IF g.listOk /\ Len(g.list) < MaxHashes
  THEN [g EXCEPT !.list = Append(@, h)]
  ELSE [g EXCEPT !.listOk = FALSE]

(* get_hash_wrapper() and the function it picks *)
IsAnchor(g, kind) == kind = "I" /\ ~g.hasAnchor

HashOf(g, n, kind) ==
  [nalu |-> n, anchor |-> IF kind = "sei" \/ IsAnchor(g, kind) THEN n ELSE g.anchor]

(* Mutated HashWrapper: a partial GOP is not linked. *)
HashWrapper_OnlyAnchors(g, n, kind) ==
  IF IsAnchor(g, kind)
  THEN [UpdateLinkedHash(g, HashOf(g, n, kind)) EXCEPT !.anchor = n, !.hasAnchor = TRUE]
  ELSE g

HashWrapper(g, n, kind) ==
  LET linking == IsAnchor(g, kind) \/ (kind # "sei" /\ g.triggered)
      linked == IF linking THEN UpdateLinkedHash(g, HashOf(g, n, kind)) ELSE g
  IN  IF IsAnchor(g, kind)
      THEN [linked EXCEPT !.anchor = n, !.hasAnchor = TRUE]
      ELSE linked

(* hash_and_add() *)
HashAndAdd(g, n, kind) ==
  IF kind \notin Hashable
  THEN g
  ELSE LET h == HashOf(g, n, kind)
           hashed == HashWrapper(g, n, kind)
       IN  CopyToHashList([hashed EXCEPT !.context = Append(@, h)], h)

(* Mutated CloseGop: the GOP hash is not finalized. *)
CloseGop_NotFinalized(g, n, triggered) ==
  [g EXCEPT
    !.triggered = triggered,
    !.startTime = g.endTime,
    !.endTime = n,
    !.numNalus = IF g.listOk THEN Len(g.list) ELSE OverflowCount]

(* Mutated CloseGop: the hash of an empty GOP is not set to zeros. *)
CloseGop_NotCleared(g, n, triggered) ==
  LET isEmpty == g.listOk /\ g.list = <<>>
  IN  [g EXCEPT
        !.triggered = triggered,
        !.startTime = g.endTime,
        !.endTime = n,
        !.numNalus = IF g.listOk THEN Len(g.list) ELSE OverflowCount,
        !.gopHash = IF isEmpty THEN g.gopHash ELSE g.context,
        !.context = IF isEmpty THEN g.context ELSE <<>>]

(* What onvif_media_signing_add_nalu_part_for_signing() does for NAL Unit  *)
(* n when a new (partial) GOP starts, up to the generation of the SEI.     *)
CloseGop(g, n, triggered) ==
  LET isEmpty == g.listOk /\ g.list = <<>>
  IN  [g EXCEPT
        !.triggered = triggered,
        !.startTime = g.endTime,
        !.endTime = n,
        !.numNalus = IF g.listOk THEN Len(g.list) ELSE OverflowCount,
        !.gopHash = IF isEmpty THEN <<>> ELSE g.context,
        !.context = IF isEmpty THEN g.context ELSE <<>>]

(* What the SEI says of the GOP, the number modulo 2^32.  The list is left *)
(* out in low bitrate mode, and if it makes the SEI larger than            *)
(* max_sei_payload_size (dropped).  That a SEI is the last one of the      *)
(* stream (atEnd) is not part of it, but for the properties to tell.       *)
SeiOf(g, signed, dropped, atEnd) ==
  [counter |-> g.current,
   gopHash |-> g.gopHash,
   numNalus |-> g.numNalus,
   list |-> IF g.listOk /\ ~dropped THEN g.list ELSE <<>>,
   linked |-> g.linked[1],
   triggered |-> g.triggered,
   startTime |-> g.startTime, endTime |-> g.endTime,
   signed |-> signed, atEnd |-> atEnd]

(* Mutated StartGop: hash_list is not rewound. *)
StartGop_KeepsList(g) ==
  [g EXCEPT !.numFrames = 0, !.context = <<>>, !.hasAnchor = FALSE]

(* The end of generate_sei_and_add_to_buffer(). *)
StartGop(g) ==
  [g EXCEPT !.numFrames = 0, !.list = <<>>, !.listOk = TRUE, !.context = <<>>,
            !.hasAnchor = FALSE]

CountGop(g) == [g EXCEPT !.current = IF @ < 0 THEN 1 ELSE @ + 1]

(* Mutated GopInfoReset: the GOPs go on being counted. *)
GopInfoReset_KeepsCounter(g) ==
  [g EXCEPT !.list = <<>>, !.listOk = TRUE, !.hasAnchor = FALSE,
            !.linked = <<<<>>, <<>>>>]

(* gop_info_reset() *)
GopInfoReset(g) ==
  [g EXCEPT !.list = <<>>, !.listOk = TRUE, !.hasAnchor = FALSE,
            !.current = -1, !.linked = <<<<>>, <<>>>>]

-----------------------------------------------------------------------------
(* onvif_media_signing_add_nalu_for_signing()                              *)

Position == Len(stream) + 1

(* A NAL Unit of this kind may come, not after the end of the stream. *)
MayCome(kind) ==
  /\ Len(stream) < MaxNalus
  /\ ended => "afterend" \in Events
  /\ "leading" \in Events \/ kind \in {"I", "other"} \/ \E i \in DOMAIN stream : stream[i] = "I"
  /\ kind = "sei" =>
       Cardinality({i \in DOMAIN stream : stream[i] = "sei"})
         < Cardinality({k \in DOMAIN seis : ~seis[k].signed})
  /\ stream' = Append(stream, kind)

LimitReached == maxSigningFrames > 0 /\ gop.numFrames >= maxSigningFrames

StartsGop(kind) == kind = "I" \/ (kind = "P" /\ LimitReached)

GeneratesSei == started /\ gop.current > 0

(* The NAL Unit is hashed and counted. *)
Add(g, kind) ==
  /\ gop' = [HashAndAdd(g, Position, kind) EXCEPT
               !.numFrames = IF kind \in PrimarySlices THEN @ + 1 ELSE @]
  /\ started' = TRUE

Decremented(count) == IF count = 0 THEN UINT_MAX ELSE count - 1

(* The NAL Unit belongs to the GOP at hand. *)
AddNalu(kind) ==
  /\ MayCome(kind)
  /\ ~StartsGop(kind)
  /\ Add([gop EXCEPT !.triggered = FALSE], kind)
  /\ UNCHANGED <<scenario, ended, untilSigning, settings, seis>>

(* It starts a GOP, and there is none to generate a SEI for. *)
AddFirstOfStream(kind) ==
  /\ MayCome(kind)
  /\ StartsGop(kind) /\ ~GeneratesSei
  /\ Add(CountGop(CloseGop(gop, Position, kind # "I")), kind)
  /\ untilSigning' = IF kind = "I" THEN Decremented(untilSigning) ELSE untilSigning
  /\ UNCHANGED <<scenario, ended, settings, seis>>

(* Mutated IsSigned: only the signing frequency counts. *)
IsSigned_NotForced(force) == untilSigning = 0

(* sign_this_sei *)
IsSigned(force) == untilSigning = 0 \/ force

(* It starts a GOP and a SEI is generated for the last one. *)
AddFirstOfGop(kind) ==
  /\ MayCome(kind)
  /\ StartsGop(kind) /\ GeneratesSei
  /\ LET closed == CloseGop(gop, Position, kind # "I")
     IN  /\ \E dropped \in {FALSE, "droplist" \in Events} :
              seis' = Append(seis, SeiOf(closed, IsSigned(LimitReached), dropped, FALSE))
         /\ Add(CountGop(StartGop(closed)), kind)
  /\ untilSigning' =
       IF kind # "I" THEN untilSigning
       ELSE Decremented(IF untilSigning = 0 THEN signingFrequency ELSE untilSigning)
  /\ UNCHANGED <<scenario, ended, settings>>

(* It starts a GOP, but generating the SEI fails: sei_data_buffer[] is     *)
(* full, there is no memory for the SEI (by then the list may have been    *)
(* left out), or the plugin refuses the hash.  The NAL Unit is not hashed. *)
AddFails(kind) ==
  /\ "failure" \in Events
  /\ MayCome(kind)
  /\ StartsGop(kind) /\ GeneratesSei
  /\ LET closed == CloseGop(gop, Position, kind # "I")
     IN  \/ gop' = closed
         \/ "droplist" \in Events /\ gop' = [closed EXCEPT !.listOk = FALSE]
         \/ IsSigned(LimitReached) /\ gop' = StartGop(closed)
  /\ UNCHANGED <<scenario, started, ended, untilSigning, settings, seis>>

-----------------------------------------------------------------------------
(* The other calls.                                                        *)

(* onvif_media_signing_set_end_of_stream(): a SEI for what there is. *)
SetEndOfStream ==
  /\ "end" \in Events
  /\ started
  /\ Cardinality({k \in DOMAIN seis : seis[k].atEnd}) < scenario.maxEnds
  /\ ended' = TRUE
  /\ \/ /\ \E dropped \in {FALSE, "droplist" \in Events} :
             seis' = Append(seis, SeiOf(gop, TRUE, dropped, TRUE))
        /\ gop' = StartGop(gop)
     \/ /\ "failure" \in Events
        /\ \/ gop' \in {gop, StartGop(gop)}
           \/ "droplist" \in Events /\ gop' = [gop EXCEPT !.listOk = FALSE]
        /\ UNCHANGED seis
  /\ UNCHANGED <<scenario, stream, started, untilSigning, settings>>

(* onvif_media_signing_generate_certificate_sei() *)
GenerateCertificateSei ==
  /\ "certificate" \in Events
  /\ gop' = StartGop(gop)
  /\ UNCHANGED <<scenario, stream, started, ended, untilSigning, settings, seis>>

(* onvif_media_signing_reset() *)
Reset ==
  /\ "reset" \in Events
  /\ Len(stream) < MaxNalus
  /\ stream' = Append(stream, "reset")
  /\ gop' = GopInfoReset(gop)
  /\ started' = FALSE
  /\ untilSigning' = signingFrequency
  /\ UNCHANGED <<scenario, ended, settings, seis>>

(* onvif_media_signing_set_signing_frequency() *)
SetSigningFrequency(frequency) ==
  /\ "settings" \in Events
  /\ signingFrequency' = frequency
  /\ untilSigning' = IF started THEN untilSigning ELSE frequency
  /\ UNCHANGED <<scenario, stream, gop, started, ended, maxSigningFrames, seis>>

(* onvif_media_signing_set_max_signing_frames() *)
SetMaxSigningFrames(limit) ==
  /\ "settings" \in Events
  /\ maxSigningFrames' = limit
  /\ UNCHANGED <<scenario, stream, gop, started, ended, untilSigning, signingFrequency, seis>>

Next ==
  \/ \E kind \in Kinds :
       AddNalu(kind) \/ AddFirstOfStream(kind) \/ AddFirstOfGop(kind) \/ AddFails(kind)
  \/ SetEndOfStream \/ GenerateCertificateSei \/ Reset
  \/ \E frequency \in Frequencies : SetSigningFrequency(frequency)
  \/ \E limit \in FrameLimits : SetMaxSigningFrames(limit)

Spec == Init /\ [][Next]_vars

-----------------------------------------------------------------------------
Hashes == [nalu : 1..MaxNalus, anchor : 0..MaxNalus]
HashCounts == 0..MaxHashes \cup {OverflowCount}
GopCounts == {-1} \cup 1..MaxNalus

GopInfos ==
  [context : Seq(Hashes), list : Seq(Hashes), listOk : BOOLEAN,
   hasAnchor : BOOLEAN, anchor : 0..MaxNalus,
   linked : Seq(Hashes) \X Seq(Hashes), gopHash : Seq(Hashes),
   numNalus : HashCounts, numFrames : 0..MaxNalus, current : GopCounts,
   triggered : BOOLEAN, startTime : 0..MaxNalus, endTime : 0..MaxNalus]

Seis ==
  [counter : GopCounts, gopHash : Seq(Hashes), numNalus : HashCounts,
   list : Seq(Hashes), linked : Seq(Hashes), triggered : BOOLEAN,
   startTime : 0..MaxNalus, endTime : 0..MaxNalus,
   signed : BOOLEAN, atEnd : BOOLEAN]

(* Types of the variables.  In particular the signing counter, which the   *)
(* code decrements without asking, never wraps around to UINT_MAX, and     *)
(* hash_list never overflows.                                              *)
TypeOK ==
  /\ scenario \in Scenarios
  /\ stream \in Seq(Kinds \cup {"reset"})
  /\ gop \in GopInfos
  /\ Len(gop.list) <= MaxHashes
  /\ started \in BOOLEAN
  /\ ended \in BOOLEAN
  /\ signingFrequency \in Frequencies /\ maxSigningFrames \in FrameLimits
  /\ \E frequency \in Frequencies : untilSigning \in 0..frequency
  /\ seis \in Seq(Seis)

(* The hashes behind the GOP hash of one SEI after the other, and in the   *)
(* end those of the hash context.                                          *)
Parts == Append([k \in DOMAIN seis |-> seis[k].gopHash], gop.context)

(* The NAL Units of the parts K are in the order of the stream.            *)
InOrder(K) ==
  \A k, l \in K : \A i \in DOMAIN Parts[k], j \in DOMAIN Parts[l] :
    k < l \/ (k = l /\ i < j) => Parts[k][i].nalu < Parts[l][j].nalu

Covered == UNION {{Parts[k][i].nalu : i \in DOMAIN Parts[k]} : k \in DOMAIN Parts}

(* Nothing disturbs the session: the stream starts with an I-frame, and    *)
(* NAL Units are added, nothing else.                                      *)
Undisturbed == Events \subseteq {"droplist"}

(* Every hashable NAL Unit is part of exactly one GOP hash, in the order   *)
(* of the stream, wherever the stream is cut: none is left out at a        *)
(* boundary and none counted on both sides                                 *)
(* (onvif_media_signing_add_nalu_part_for_signing()).                      *)
EveryNaluIsCovered ==
  Undisturbed => /\ InOrder(DOMAIN Parts)
                 /\ Covered = {n \in DOMAIN stream : stream[n] \in Hashable}

(* Every slice is hashed together with the last I-frame before it, also in *)
(* a partial GOP that does not start with an I-frame, and every I-frame    *)
(* and every SEI on its own: what the validator expects.                   *)
IsAnchored(h) ==
  IF stream[h.nalu] \in {"I", "sei"}
  THEN h.anchor = h.nalu
  ELSE /\ stream[h.anchor] = "I"
       /\ \A n \in (h.anchor + 1)..h.nalu : stream[n] # "I"

(* A SEI is about one GOP: its hash list, if not left out, has the very    *)
(* hashes of the GOP hash, the number is theirs if they fit in hash_list,  *)
(* and the timestamps are those of the first NAL Unit of the GOP and of    *)
(* the first one after it; each hash is the one that the validator         *)
(* computes (get_hash_wrapper(), generate_sei()).                          *)
SeisDescribeTheirGops ==
  Undisturbed => \A k \in DOMAIN seis : LET sei == seis[k] IN
    /\ sei.list \in {<<>>, sei.gopHash}
    /\ Len(sei.gopHash) <= MaxHashes => sei.numNalus = Len(sei.gopHash)
    /\ sei.gopHash # <<>>
    /\ sei.startTime = sei.gopHash[1].nalu
    /\ \A i \in DOMAIN sei.gopHash :
         LET h == sei.gopHash[i]
         IN  h.nalu \in sei.startTime..(sei.endTime - 1) /\ IsAnchored(h)

(* The linked hash of a SEI is the hash that the GOP before it starts      *)
(* with, whether an I-frame or the frame limit has cut the stream, and     *)
(* zeros in the first SEI: a validator can tell if a GOP was taken out     *)
(* (update_linked_hash()).                                                 *)
LinksFormAChain ==
  Undisturbed => \A k \in DOMAIN seis :
    seis[k].linked = IF k = 1 THEN <<>> ELSE <<seis[k - 1].gopHash[1]>>

(* The SEIs that end a GOP, as opposed to the ones that cut it. *)
GopEnds == {k \in DOMAIN seis : stream[seis[k].endTime] = "I"}

(* The number of primary slices that SEI k covers. *)
NumFrames(k) ==
  Cardinality({i \in DOMAIN seis[k].gopHash :
                 stream[seis[k].gopHash[i].nalu] \in PrimarySlices})

(* Every signing_frequency-th GOP is signed and so is every SEI that       *)
(* covers as many frames as the limit allows, without disturbing the count *)
(* of the GOPs; the other SEIs are not.  No SEI covers more frames than    *)
(* the limit, which the code compares with num_frames_in_partial_gop, a    *)
(* number that starts again with every SEI, signed or not                  *)
(* (onvif_media_signing_add_nalu_part_for_signing()).                      *)
SignedWhenDue ==
  Undisturbed => \A k \in DOMAIN seis :
    LET isDue == k \in GopEnds
                 /\ Cardinality(GopEnds \cap 1..k) % signingFrequency = 0
        isAtLimit == maxSigningFrames > 0 /\ NumFrames(k) = maxSigningFrames
    IN  /\ seis[k].signed <=> isDue \/ isAtLimit
        /\ maxSigningFrames > 0 => NumFrames(k) <= maxSigningFrames

(* What the limit is for: no more frames than max_signing_frames are added *)
(* from one signing request to the next, with the frames of the SEIs in    *)
(* between that are not signed ("Maximum number of frames covered by a     *)
(* signature", onvif_media_signing_signer.h:397-413).                      *)
LimitIsKept ==
  Undisturbed /\ maxSigningFrames > 0 =>
    \A k \in DOMAIN seis : seis[k].signed =>
      LET covered == {j \in 1..k : \A i \in j..(k - 1) : ~seis[i].signed}
          nalus == UNION {{seis[j].gopHash[i].nalu : i \in DOMAIN seis[j].gopHash} :
                           j \in covered}
      IN  Cardinality({n \in nalus : stream[n] \in PrimarySlices}) <= maxSigningFrames

(* The SEIs that were generated because a GOP has started. *)
GopSeis == {k \in DOMAIN seis : ~seis[k].atEnd}

(* However generating SEIs fails, and whatever is reset, cleared or ended, *)
(* no NAL Unit is part of the hashes of two GOPs or out of order.          *)
NothingIsCoveredTwice == InOrder(GopSeis \cup {Len(seis) + 1})

(* There was a reset between the ends of the GOPs of SEIs j and k. *)
ResetBetween(j, k) ==
  \E n \in seis[j].endTime .. seis[k].endTime : stream[n] = "reset"

(* The SEIs are numbered 1, 2, ... from the start and from every reset on, *)
(* although the number is incremented apart from generating the SEI, and   *)
(* though generating may fail: to a validator a gap is a lost SEI.  The    *)
(* SEI of the end of the stream does not disturb the count.                *)
CountersAreConsecutive ==
  \A k \in GopSeis :
    LET before == {j \in GopSeis : j < k}
    IN  IF before = {}
        THEN seis[k].counter = 1
        ELSE \E j \in before :
               /\ \A i \in before : i <= j
               /\ seis[k].counter = IF ResetBetween(j, k) THEN 1 ELSE seis[j].counter + 1

=============================================================================
