----------------------------- MODULE Validator -----------------------------
(***************************************************************************)
(* The validation session (lib/src/oms_validator.c and the report of       *)
(* lib/src/oms_authenticity_report.c): what becomes of every NAL Unit      *)
(* given to onvif_media_signing_add_nalu_and_authenticate().               *)
(*                                                                         *)
(* Hashes are as in GopSigner, and the SEIs say what SeiOf says there and  *)
(* besides: the key they are signed with (key), whose certificates they    *)
(* bring (cert, 0 for none), and whether they are certificate SEIs.  A key *)
(* stands for its certificates; the trusted certificate that they chain up *)
(* to is known by the same number.  Other versions of the signing side are *)
(* left out.  A NAL Unit is hashed when it arrives: hashing it later, when *)
(* the hash algorithm is known, gives the same, unless a reset came in     *)
(* between.                                                                *)
(***************************************************************************)
EXTENDS NaluList

CONSTANT CounterRange \* numbers that a GOP counter has (2^32 in the code)

(* MediaSigningAuthenticityResult; the lower the worse from NotOk on. *)
NotSigned == 0
NotFeasible == 1
NotOk == 2
OkWithMissing == 3
Ok == 4

(* MediaSigningProvenanceResult *)
ProvenanceNotFeasible == 0
ProvenanceNotOk == 1
ProvenanceWithoutTrusted == 2
ProvenanceOk == 3

(* MediaSigningAuthenticityAndProvenance, the lower the worse. *)
BothNotOk == 0
BothOkWithMissing == 1
BothOk == 2
BothNotFeasible == 3

NUM_UNSIGNED_GOPS_BEFORE_VALIDATION == 2
MAX_NUM_UNHASHED_GOPS == 5
MaxLoop == 10

VARIABLES
  session, \* the session, see NewSession
  report   \* the last report given, <<>> if the last call gave none

NoSei == [counter |-> 0, gopHash |-> <<>>, numNalus |-> 0, list |-> <<>>,
          linked |-> <<>>, triggered |-> FALSE, signed |-> FALSE,
          isCertificate |-> FALSE, key |-> 0, cert |-> 0]

NewSession ==
  [list |-> <<>>,               \* nalu_list
   anchor |-> 0,                \* the anchor in hash_buddies
   hashAlgoKnown |-> FALSE,
   key |-> 0,                   \* of the certificates decoded last, 0 for none
   verifiedPubkey |-> -1,       \* the verdict on those certificates
   trusted |-> 0,               \* the trusted certificate, 0 for none
   signingPresent |-> FALSE,
   gopStarts |-> 0,             \* num_gop_starts
   isFirstValidation |-> TRUE,
   isFirstSei |-> TRUE,
   resetFirst |-> FALSE,        \* reset_first_validation
   waiting |-> FALSE,           \* waiting_for_signature
   inSync |-> FALSE,            \* sei_in_sync
   lost |-> 0,                  \* num_lost_seis
   numInvalid |-> 0,            \* num_invalid_nalus
   hasResult |-> FALSE,         \* has_auth_result
   data |-> NoSei,              \* what was decoded last, next_partial_gop included
   current |-> -1,              \* current_partial_gop
   wraps |-> 0,                 \* num_partial_gop_wraparounds
   linked |-> <<<<>>, <<>>>>,   \* linked_hash and the pending one
   gopHash |-> <<>>,            \* tmp_partial_gop_hash
   numNalus |-> 0,              \* tmp_num_nalus_in_partial_gop
   latest |-> [authenticity |-> NotSigned, provenance |-> ProvenanceNotFeasible,
               keyChanged |-> FALSE, expected |-> -1, received |-> -1,
               pending |-> 0],
   accumulated |-> [authenticity |-> NotSigned, provenance |-> ProvenanceNotFeasible,
                    both |-> BothNotFeasible, keyChanged |-> FALSE,
                    received |-> 0, validated |-> 0]]

(* A difference of counters, as an int. *)
AsInt(n) == ((n + CounterRange \div 2) % CounterRange) - CounterRange \div 2

-----------------------------------------------------------------------------
(* Associations between SEIs and items.                                    *)

(* The items that no SEI is associated with yet, signed SEIs apart: they   *)
(* are verified by their signatures.                                       *)
Unassociated(item) == item.tmp = Pending /\ item.sei = 0
Candidates(list) == {k \in DOMAIN list : Unassociated(list[k]) /\ ~IsSigned(list[k])}

(* The n smallest elements of a set of numbers. *)
Oldest(set, n) == {k \in set : Cardinality({j \in set : j < k}) < n}

(* The elements of a set of numbers in order. *)
InOrder(set) ==
  [i \in 1..Cardinality(set) |->
     CHOOSE k \in set : Cardinality({j \in set : j <= k}) = i]

(* remove_sei_association(), sei = 0 for NULL: what stood for missing NAL   *)
(* Units goes.                                                             *)
RemoveAssociation(list, sei) ==
  LET IsOf(item) == sei # 0 /\ item.sei = sei
      kept == InOrder({k \in DOMAIN list : ~(IsOf(list[k]) /\ list[k].tmp = Missing)})
  IN  [i \in DOMAIN kept |->
         IF IsOf(list[kept[i]])
         THEN [list[kept[i]] EXCEPT !.sei = 0, !.ifSeiOk = Unset]
         ELSE list[kept[i]]]

(* The items at some places become associated with a SEI. *)
Associate(s, places, sei) ==
  [s EXCEPT
    !.list = [k \in DOMAIN s.list |->
                IF k \in places THEN [s.list[k] EXCEPT !.sei = sei] ELSE s.list[k]],
    !.numNalus = @ + Cardinality(places)]

(* Mutated ComputeGopHash: items that came after the SEI are not left out. *)
ComputeGopHash_PastSei(s, place) ==
  LET all == Candidates(s.list) \ {place}
      gop == {k \in all : \A j \in all : j <= k /\ IsFirstInGop(s.list[j])
                             => \A i \in all : i >= j}
      ordered == InOrder(gop)
  IN  [Associate([s EXCEPT !.numNalus = 0], gop, s.list[place].at) EXCEPT
         !.gopHash = [i \in DOMAIN ordered |-> s.list[ordered[i]].hash]]

(* compute_gop_hash() for the SEI at a place: the oldest GOP before it, of *)
(* a GOP cut by the frame limit no more than the SEI says that it covers.  *)
ComputeGopHash(s, place) ==
  LET before == {k \in Candidates(s.list) : k < place}
      gop == {k \in before :
                \A j \in before : j <= k /\ IsFirstInGop(s.list[j])
                                    => \A i \in before : i >= j}
      places == IF s.data.triggered THEN Oldest(gop, s.data.numNalus) ELSE gop
      ordered == InOrder(places)
  IN  [Associate([s EXCEPT !.numNalus = 0], places, s.list[place].at) EXCEPT
         !.gopHash = [i \in DOMAIN ordered |-> s.list[ordered[i]].hash]]

(* associate_gop(): more items, up to the last one of the GOP. *)
AssociateGop(s, place) ==
  LET list == s.list
      pending == {k \in 1..(place - 1) : Unassociated(list[k])}
      EndsGop(k) ==
        \/ IsFirstInGop(list[k])
        \/ LET next == NextHashable(list, k) IN next # 0 /\ IsFirstInGop(list[next])
      places == {k \in pending : ~IsSigned(list[k]) /\ \A j \in pending : j <= k => ~EndsGop(j)}
  IN  IF s.data.triggered THEN Associate(s, places, list[place].at) ELSE s

(* Mutated Reached: what a SEI verified later covers is forgotten. *)
Reached_Directly(list, sei, deep) == [k \in DOMAIN list |-> list[k].sei = sei]

(* The items that a SEI is associated with, if deep also through other     *)
(* SEIs, which are items themselves.                                       *)
Reached(list, sei, deep) ==
  LET isReached[k \in DOMAIN list] ==
        \/ list[k].sei = sei
        \/ deep /\ list[k].sei # 0
                /\ LET q == PlaceOf(list, list[k].sei) IN q # 0 /\ isReached[q]
  IN  isReached

(* Mutated MayBeGood: that its own hash has failed is forgotten. *)
MayBeGood_Forgives(list, k, linkOk) ==
  (\A j \in 1..(k - 1) : list[j].sei # list[k].sei) => linkOk

(* The first item of a SEI is as good as the link to the GOP before; none  *)
(* is good again that failed before.                                       *)
MayBeGood(list, k, linkOk) ==
  /\ (\A j \in 1..(k - 1) : list[j].sei # list[k].sei) => linkOk
  /\ list[k].ifSeiOk # Invalid

(* mark_associated_items(): an item is as good as its SEI. *)
MarkAssociated(list, valid, linkOk, sei) ==
  LET deep == list[PlaceOf(list, sei)].ifSeiOk = Unset
      isReached == Reached(list, sei, deep)
      isGood[k \in {j \in DOMAIN list : isReached[j]}] ==
        /\ MayBeGood(list, k, linkOk)
        /\ IF list[k].sei = sei THEN valid ELSE isGood[PlaceOf(list, list[k].sei)]
      Mark(k) ==
        LET verdict == IF isGood[k] THEN Valid ELSE Invalid
        IN  IF deep
            THEN [list[k] EXCEPT !.ifSeiOk = Unset,
                                 !.tmp = IF @ = Pending THEN verdict ELSE @]
            ELSE [list[k] EXCEPT !.ifSeiOk = verdict]
  IN  [k \in DOMAIN list |-> IF isReached[k] THEN Mark(k) ELSE list[k]]

-----------------------------------------------------------------------------
(* Verification of hashes.                                                 *)

(* The place of a hash in the hash list, after the latest match, or 0. *)
Match(expected, latest, hash) ==
  LET places == {c \in DOMAIN expected : c > latest /\ expected[c] = hash}
  IN  IF places = {} THEN 0 ELSE CHOOSE c \in places : \A d \in places : c <= d

(* One item of the loop of verify_indiviual_hashes(), given the list up to *)
(* it, the place of the latest match, and how many hashes were invalid     *)
(* since, were verified, or are not in the list of the SEI any more.       *)
VerifyItem(s, sei, acc, item) ==
  LET expected == s.data.list
      match == Match(expected, acc.latest, item.hash)
      missing == match - acc.latest - 1 - acc.invalid
      Verdict(ok) ==
        IF IsSigned(sei) THEN [item EXCEPT !.tmp = IF ok THEN sei.tmp ELSE Invalid]
                         ELSE [item EXCEPT !.ifSeiOk = IF ok THEN sei.ifSeiOk ELSE Invalid]
  IN  IF s.data.triggered /\ acc.verified >= Len(expected)
      THEN IF item.sei # sei.at
           THEN [acc EXCEPT !.list = Append(@, item)]
           ELSE [acc EXCEPT !.list = Append(@, [item EXCEPT !.sei = 0]),
                            !.unused = @ + 1]
      ELSE IF item.tmp # Pending \/ item.sei # sei.at \/ IsSigned(item)
      THEN [acc EXCEPT !.list = Append(@, item)]
      ELSE IF match = 0
      THEN [acc EXCEPT !.list = Append(@, Verdict(FALSE)),
                       !.verified = @ + 1, !.invalid = @ + 1]
      ELSE [acc EXCEPT
              !.list = Append(@ \o [i \in 1..missing |-> MissingItem(sei.at)],
                              Verdict(TRUE)),
              !.verified = @ + 1 + missing, !.invalid = 0, !.latest = match]

(* That loop, over the items before the SEI at a place. *)
VerifiedItems(s, place) ==
  LET after[i \in 0..(place - 1)] ==
        IF i = 0
        THEN [list |-> <<>>, latest |-> 0, invalid |-> 0, verified |-> 0, unused |-> 0]
        ELSE VerifyItem(s, s.list[place], after[i - 1], s.list[i])
  IN  after

(* verify_indiviual_hashes(), with the SEI at a place *)
VerifyIndividualHashes(s, place) ==
  LET verified == VerifiedItems(s, place)[place - 1]
  IN  [s EXCEPT
        !.list = AddMissingAtEnd(verified.list \o SubSeq(s.list, place, Len(s.list)),
                                 Len(s.data.list) - verified.verified, s.list[place].at),
        !.numNalus = @ - verified.unused]

(* An item that is not covered by a SEI that could be verified. *)
MarkItem(s, list, k) ==
  LET item == [list[k] EXCEPT !.tmp = IF s.signingPresent THEN Invalid ELSE Unknown,
                              !.ifSeiOk = Unset]
      changed == WithItem(list, k, item)
  IN  IF IsSei(item) THEN MarkAssociated(changed, FALSE, FALSE, item.at) ELSE changed

(* The items at these places are marked, one after the other. *)
MarkedItems(s, places) ==
  LET after[i \in 0..Len(places)] ==
        IF i = 0 THEN s.list ELSE MarkItem(s, after[i - 1], places[i])
  IN  after

(* verify_hashes_without_sei(): the oldest GOP is not authentic, or not    *)
(* signed; of the GOP at hand the items to skip are left.                  *)
VerifyHashesWithoutSei(s, skip) ==
  LET items == InOrder(Candidates(s.list))
      starts == {i \in DOMAIN items : IsFirstInGop(s.list[items[i]])}
      cuts == {i \in starts : \E j \in starts : j < i}
      inFirst == IF cuts = {} THEN 0 ELSE (CHOOSE i \in cuts : \A j \in cuts : i <= j) - 1
      inAll == IF cuts = {} THEN 0 ELSE (CHOOSE i \in cuts : \A j \in cuts : i >= j) - 1
      max == IF inAll = inFirst THEN inFirst - skip ELSE inFirst
      extra == IF max < 0 /\ ~s.inSync THEN 1 ELSE 0
      marked == InOrder(Oldest(Candidates(s.list), (IF max < 0 THEN 0 ELSE max) + extra))
  IN  [list |-> MarkedItems(s, marked)[Len(marked)],
       success |-> Len(marked) > extra]

-----------------------------------------------------------------------------
(* One SEI.                                                                *)

(* decode_certificates(), if there are any.  They are verified, and their  *)
(* key stored, if they are not the ones that are known.                    *)
DecodeCertificates(s, cert) ==
  IF cert \in {0, s.key} THEN s
  ELSE [s EXCEPT !.key = cert,
                 !.verifiedPubkey = IF s.trusted = cert THEN 1 ELSE 0,
                 !.latest.keyChanged = @ \/ s.key # 0]

(* What is known after tlv_decode(): a certificate SEI tells nothing of a  *)
(* GOP.                                                                    *)
Decoded(s, data) == IF data.isCertificate THEN [s.data EXCEPT !.list = <<>>] ELSE data

(* Mutated DecodeSei: that the counter has wrapped around is not noticed. *)
DecodeSei_NoWrap(s, says) ==
  LET data == Decoded(s, says)
  IN  [DecodeCertificates(s, says.cert) EXCEPT
        !.data = data,
        !.lost = IF s.inSync
                 THEN (IF data.counter < s.data.counter THEN s.data.counter ELSE data.counter)
                        - (s.current + 1)
                 ELSE 0]

(* decode_sei_data(): a lower number than the last one is an old SEI, or   *)
(* the counter has wrapped around.  The number of lost SEIs is cut to an   *)
(* int, current_partial_gop is kept without the wraparounds.               *)
DecodeSei(s, says) ==
  LET data == Decoded(s, says)
      isLower == data.counter < s.data.counter
      hasWrapped == isLower /\ s.data.counter - data.counter > CounterRange \div 2
      wraps == IF hasWrapped THEN s.wraps + 1 ELSE s.wraps
      number == (IF isLower /\ ~hasWrapped THEN s.data.counter ELSE data.counter)
                  + wraps * CounterRange
  IN  [DecodeCertificates(s, says.cert) EXCEPT
        !.data = data,
        !.wraps = wraps,
        !.lost = IF s.inSync THEN AsInt(number - (s.current + 1)) ELSE 0]

(* maybe_update_linked_hash() *)
UpdateLinkedHash(s, place) ==
  LET k == First(s.list, 1, LAMBDA item : item.tmp = Pending /\ item.ifSeiOk = Unset)
  IN  IF k \in {0, place} THEN s ELSE [s EXCEPT !.linked = <<@[2], <<s.list[k].hash>>>>]

(* prepare_for_validation(), with the SEI at a place, and whether it sets  *)
(* validate_certificate_sei: the SEI is about no GOP.                      *)
PrepareForValidation(s, place) ==
  LET sei == s.list[place]
      decoded == IF sei.decoded THEN s ELSE DecodeSei(s, sei.nalu.data)
      verdict == IF decoded.lost < 0 \/ (IsSigned(sei) /\ ~sei.verified)
                 THEN Invalid ELSE Valid
      marked == [sei EXCEPT
                  !.inValidation = TRUE, !.decoded = TRUE,
                  !.tmp = IF decoded.lost <= 0 /\ IsSigned(sei) THEN verdict ELSE @,
                  !.ifSeiOk = IF decoded.lost <= 0 /\ ~IsSigned(sei) THEN verdict ELSE @]
      prepared == [decoded EXCEPT !.list = WithItem(@, place, marked),
                                  !.waiting = ~IsSigned(sei)]
  IN  IF decoded.lost <= 0 /\ IsCertificate(sei)
      THEN [s |-> [prepared EXCEPT !.latest.authenticity = IF sei.verified THEN Ok ELSE NotOk],
            isCertificate |-> TRUE]
      ELSE [s |-> UpdateLinkedHash(ComputeGopHash(prepared, place), place),
            isCertificate |-> FALSE]

(* The part of validate_authenticity() that verifies hashes, of the GOP of *)
(* the SEI or, if a SEI is lost or this one is old, of the oldest GOP.     *)
VerifyWithoutSei(s, sei) ==
  LET free == [s EXCEPT !.list = RemoveAssociation(s.list, sei)]
      verified == VerifyHashesWithoutSei(free, IF s.lost > 0 THEN s.data.numNalus ELSE 0)
  IN  [free EXCEPT !.list = verified.list,
                   !.current = IF s.lost > 0 /\ verified.success THEN @ + 1 ELSE @]

VerifyWithSei(s, place) ==
  LET sei == s.list[place]
      gopHashOk == s.gopHash = s.data.gopHash
      linkOk == s.linked[1] \in {s.data.linked, <<>>}
      maybeOk == IsSigned(sei) => sei.verified
  IN  IF linkOk /\ ~gopHashOk /\ s.data.list # <<>>
      THEN LET verified == VerifyIndividualHashes(AssociateGop(s, place), place)
           IN  IF IsSigned(sei)
               THEN [verified EXCEPT !.list = MarkAssociated(@, TRUE, linkOk, sei.at)]
               ELSE verified
      ELSE [s EXCEPT !.list = MarkAssociated(
                        AddMissingAtEnd(@, s.data.numNalus - s.numNalus, sei.at),
                        gopHashOk /\ maybeOk, linkOk, sei.at)]

(* The worse of a result and the one so far, if there is one. *)
Worse(soFar, result) == IF soFar <= NotFeasible \/ result < soFar THEN result ELSE soFar

(* The verdict on what was verified, a session that differs from the one   *)
(* before in its list at least: the result, and whether SEIs and GOPs are  *)
(* in sync.  A first validation that is not ok and not in sync is taken    *)
(* back.  A new key makes any result not ok.                               *)
Judge(s, verified, place, sei) ==
  LET hasValid == HasValid(verified.list, sei)
      invalid == LET new == NumInvalid(verified.list, sei) - s.numInvalid
                 IN  IF new < 0 THEN 0 ELSE new
      result == IF invalid > 0 THEN NotOk
                ELSE IF NumMissed(verified.list, sei) > 0 THEN OkWithMissing ELSE Ok
      inSync == s.inSync \/ hasValid
                  \/ (s.data.linked # <<>> /\ verified.linked[1] = s.data.linked)
      reverted == s.isFirstValidation /\ ~inSync /\ result # Ok /\ ~hasValid
      expected == IF reverted \/ s.lost # 0 THEN -1 ELSE s.data.numNalus
      received == IF reverted THEN -1 ELSE verified.numNalus
      final == IF s.latest.keyChanged THEN NotOk
               ELSE IF reverted THEN NotFeasible ELSE result
  IN  [verified EXCEPT
        !.list = IF reverted THEN RemoveAssociation(@, sei) ELSE @,
        !.linked = IF reverted /\ sei # 0 /\ ~IsSigned(s.list[place])
                   THEN <<@[1], @[1]>> ELSE @,
        !.numInvalid = @ + invalid,
        !.inSync = inSync,
        !.resetFirst = @ \/ reverted,
        !.latest = [verified.latest EXCEPT
          !.authenticity = Worse(@, final),
          !.received = @ + received,
          !.expected = IF s.lost > 0 THEN -1 ELSE IF @ = -1 THEN -1 ELSE @ + expected],
        !.current = IF s.lost >= 0 /\ inSync THEN s.data.counter ELSE @,
        !.lost = IF s.lost < 0 THEN @
                 ELSE IF inSync THEN 0 ELSE AsInt(s.data.counter - verified.current - 1)]

(* validate_authenticity() *)
ValidateAuthenticity(s, place) ==
  IF s.lost = 0
  THEN Judge(s, VerifyWithSei(s, place), place, s.list[place].at)
  ELSE Judge(s, VerifyWithoutSei(s, s.list[place].at), place, 0)

-----------------------------------------------------------------------------
(* One NAL Unit.                                                           *)

(* has_pending_partial_gop() *)
HasPendingGop(s) ==
  LET pending == {k \in DOMAIN s.list : LET item == s.list[k] IN
                    item.ifSeiOk = Unset /\ item.tmp = Pending /\ IsHashable(item)}
  IN  \/ \E k \in pending : IsCertificate(s.list[k])
      \/ /\ s.signingPresent
         /\ \E k \in pending : IsSei(s.list[k])
         /\ \E k \in pending : ~IsSei(s.list[k])
      \/ /\ ~s.signingPresent
         /\ Cardinality({k \in pending : IsFirstInGop(s.list[k])}) >= 2

(* The SEI that update_sei_in_validation() finds, 0 for none. *)
SeiInValidation(list) == First(list, 1, LAMBDA item : IsSei(item) /\ item.inValidation)

(* The start of a validation that is not about one more unsigned SEI, with *)
(* what the earlier rounds know of a new key.                              *)
StartValidation(s, keyChanged) ==
  LET k == SeiInValidation(s.list)
      started == [s EXCEPT
                   !.latest = [@ EXCEPT !.authenticity = NotFeasible,
                                        !.keyChanged = keyChanged, !.expected = 0,
                                        !.received = 0, !.pending = -1],
                   !.numInvalid = 0]
  IN  IF s.waiting \/ s.hasResult THEN s
      ELSE IF k = 0 THEN started
      ELSE [started EXCEPT !.list = WithItem(@, k, [@[k] EXCEPT !.inValidation = FALSE])]

(* update_sei_in_validation() when it gets the status of the SEI *)
StatusOfSei(item, status) ==
  IF item.tmp # Pending THEN item.tmp
  ELSE IF ~IsSigned(item) /\ item.ifSeiOk # Unset THEN item.ifSeiOk
  ELSE status

(* The GOP of the next SEI, at a place (0 if there is none), is validated, *)
(* or the certificate SEI itself.                                          *)
ValidateNext(s, place) ==
  IF ~s.signingPresent
  THEN [s EXCEPT !.latest.authenticity = NotSigned,
                 !.latest.expected = -1, !.latest.received = -1]
  ELSE LET prepared == PrepareForValidation(s, place)
       IN  IF prepared.isCertificate THEN prepared.s
           ELSE ValidateAuthenticity(prepared.s, place)

(* The verdict on the certificates decoded last. *)
Provenance(s) ==
  CASE s.verifiedPubkey = 1 ->
         IF s.trusted # 0 THEN ProvenanceOk ELSE ProvenanceWithoutTrusted
    [] s.verifiedPubkey = 0 -> ProvenanceNotOk
    [] OTHER -> ProvenanceNotFeasible

(* The rest of a round: as long as the first validation is not in sync the *)
(* SEI is left pending and its status remembered.                          *)
EndRound(acc, validated, nalu) ==
  LET k == SeiInValidation(validated.list)
      fetches == validated.isFirstValidation /\ ~validated.inSync /\ k # 0
      ended == [validated EXCEPT
        !.list = IF fetches THEN WithItem(@, k, [@[k] EXCEPT !.tmp = validated.list[k].status]) ELSE @,
        !.isFirstValidation = validated.resetFirst \/ ~validated.signingPresent,
        !.isFirstSei = @ /\ nalu.kind # "sei",
        !.resetFirst = FALSE,
        !.latest.provenance = Provenance(validated)]
      result == ended.latest.authenticity
  IN  [s |-> [ended EXCEPT
          !.latest.pending = IF ended.waiting THEN @ ELSE NumPending(ended.list),
          !.hasResult = IF result = NotSigned THEN FALSE
                        ELSE IF result = NotFeasible THEN ended.accumulated.authenticity # result
                        ELSE @ \/ ~ended.waiting],
       update |-> acc.update \/ ~validated.resetFirst,
       keyChanged |-> acc.keyChanged \/ ended.latest.keyChanged,
       seiStatus |-> IF fetches THEN StatusOfSei(validated.list[k], acc.seiStatus)
                                ELSE acc.seiStatus,
       stop |-> ~validated.signingPresent]

(* One round of the loop of maybe_validate_gop(). *)
Round(acc, nalu) ==
  LET started == StartValidation(acc.s, acc.keyChanged)
  IN  EndRound(acc, ValidateNext(started, NextSei(started.list)), nalu)

(* The end of maybe_validate_gop(). *)
EndValidation(acc) ==
  LET s == [acc.s EXCEPT !.list = UpdateStatus(@, acc.update)]
      k == SeiInValidation(s.list)
      settled == IF k = 0 \/ s.list[k].status # Pending THEN s.list
                 ELSE IF IsSigned(s.list[k])
                 THEN WithItem(s.list, k, [s.list[k] EXCEPT !.status = acc.seiStatus,
                                                            !.tmp = acc.seiStatus])
                 ELSE WithItem(s.list, k, [s.list[k] EXCEPT !.ifSeiOk = acc.seiStatus])
  IN  IF ~s.isFirstValidation THEN s
      ELSE [s EXCEPT !.list = settled, !.linked = <<<<>>, <<>>>>,
                     !.latest.pending = NumPending(settled)]

(* Mutated IsFeasible: a SEI alone starts no validation. *)
IsFeasible_OnlyAtGops(s, nalu) ==
  /\ nalu.kind = "I"
  /\ \/ s.key # 0
     \/ ~s.signingPresent /\ s.gopStarts > NUM_UNSIGNED_GOPS_BEFORE_VALIDATION

(* validation_is_feasible() and the conditions maybe_validate_gop() adds *)
IsFeasible(s, nalu) ==
  /\ nalu.kind \in {"I", "sei"}
  /\ \/ s.key # 0
     \/ ~s.signingPresent /\ s.gopStarts > NUM_UNSIGNED_GOPS_BEFORE_VALIDATION

(* The loop of maybe_validate_gop(): what is known after each round, of at *)
(* most MaxLoop. *)
Rounds(s, nalu) ==
  LET after[i \in 0..MaxLoop] ==
        IF i = 0
        THEN [s |-> s, update |-> FALSE, keyChanged |-> FALSE, seiStatus |-> Unknown,
              stop |-> FALSE]
        ELSE LET acc == after[i - 1]
             IN  IF HasPendingGop(acc.s) /\ ~acc.stop THEN Round(acc, nalu) ELSE acc
  IN  after

(* maybe_validate_gop() *)
MaybeValidateGop(s, nalu) ==
  IF IsFeasible(s, nalu)
  THEN EndValidation(Rounds(s, nalu)[MaxLoop])
  ELSE IF s.isFirstSei /\ nalu.kind = "sei"
  THEN [s EXCEPT !.latest = [@ EXCEPT !.authenticity = NotFeasible,
                                      !.keyChanged = FALSE, !.expected = -1,
                                      !.received = -1, !.pending = NumPending(s.list)],
                 !.hasResult = TRUE,
                 !.isFirstSei = FALSE,
                 !.list = UpdateStatus(@, TRUE)]
  ELSE s

(* The first steps of add_nalu_and_validate(): the NAL Unit is added to    *)
(* the list, the certificates of a signed SEI are decoded, it is hashed,   *)
(* and its signature verified.                                             *)
AddNalu(s, nalu) ==
  LET received == s.accumulated.received + 1
      isSigned == nalu.kind = "sei" /\ nalu.data.signed
      registered == IF isSigned THEN DecodeCertificates(s, nalu.data.cert) ELSE s
      verified == isSigned /\ nalu.intact /\ nalu.data.key = registered.key
      isPresent == s.signingPresent \/ nalu.kind = "sei"
      gopStarts == IF nalu.kind = "I" THEN s.gopStarts + 1 ELSE s.gopStarts
      hash == [nalu |-> nalu.id,
               anchor |-> IF nalu.kind \in {"I", "sei"} THEN nalu.id ELSE s.anchor]
  IN  [registered EXCEPT
        !.accumulated.received = received,
        !.list = Append(@, NewItem(received, nalu, hash, verified)),
        !.anchor = IF nalu.kind = "I" THEN nalu.id ELSE @,
        !.hasResult = FALSE,
        !.signingPresent = isPresent,
        !.hashAlgoKnown = @ \/ (isSigned /\ nalu.data.cert # 0)
                            \/ (~isPresent /\ gopStarts > MAX_NUM_UNHASHED_GOPS),
        !.gopStarts = gopStarts]

(* A signature cannot be verified without a key. *)
LacksKey(s, nalu) == s.key = 0 /\ nalu.kind = "sei" /\ nalu.data.signed

(* The call fails: the NAL Unit keeps a status that tells. *)
Fail(s) ==
  [s EXCEPT !.list[Len(s.list)] = [@ EXCEPT !.status = Error, !.tmp = Error]]

(* The combined result, of the authenticity and the provenance. *)
Both(latest) ==
  IF \/ latest.provenance \in {ProvenanceNotOk, ProvenanceWithoutTrusted}
     \/ latest.authenticity = NotOk
  THEN BothNotOk
  ELSE IF \/ latest.provenance = ProvenanceNotFeasible
          \/ latest.authenticity \in {NotFeasible, NotSigned}
  THEN BothNotFeasible
  ELSE IF latest.authenticity = OkWithMissing THEN BothOkWithMissing ELSE BothOk

(* Mutated Accumulate: the last result counts. *)
Accumulate_Latest(soFar, latest) ==
  [soFar EXCEPT
    !.authenticity = latest.authenticity,
    !.provenance = latest.provenance,
    !.both = Both(latest),
    !.keyChanged = latest.keyChanged]

(* Mutated Accumulate: the combined result leaves out the provenance. *)
Accumulate_Authenticity(soFar, latest) ==
  LET both == Both([latest EXCEPT !.provenance = ProvenanceOk])
  IN  [soFar EXCEPT
        !.authenticity = Worse(@, latest.authenticity),
        !.provenance = IF @ = ProvenanceNotFeasible \/ latest.provenance < @
                       THEN latest.provenance ELSE @,
        !.both = IF both < @ THEN both ELSE @,
        !.keyChanged = @ \/ latest.keyChanged]

(* update_accumulated_validation() *)
Accumulate(soFar, latest) ==
  [soFar EXCEPT
    !.authenticity = Worse(@, latest.authenticity),
    !.provenance = IF @ = ProvenanceNotFeasible \/ latest.provenance < @
                   THEN latest.provenance ELSE @,
    !.both = IF Both(latest) < @ THEN Both(latest) ELSE @,
    !.keyChanged = @ \/ latest.keyChanged]

(* Mutated UpdateReport: what was missing counts as validated. *)
UpdateReport_CountsMissing(s) ==
  LET num == Len(Validated(s.list))
      accumulated == Accumulate(s.accumulated, s.latest)
  IN  IF ~s.hasResult THEN s
      ELSE [s EXCEPT
             !.list = SubSeq(@, num + 1, Len(@)),
             !.accumulated = [accumulated EXCEPT
               !.validated = IF accumulated.authenticity # NotSigned THEN @ + num ELSE @]]

(* update_authenticity_report(), if there is a result *)
UpdateReport(s) ==
  LET validated == Validated(s.list)
      accumulated == Accumulate(s.accumulated, s.latest)
      num == Cardinality({k \in DOMAIN validated : validated[k].status # Missing})
  IN  IF ~s.hasResult THEN s
      ELSE [s EXCEPT
             !.list = SubSeq(@, Len(validated) + 1, Len(@)),
             !.accumulated = [accumulated EXCEPT
               !.validated = IF accumulated.authenticity # NotSigned THEN @ + num ELSE @]]

(* The report, if there is one, has the items with their statuses, the     *)
(* latest result and the accumulated one.                                  *)
Answer(s) ==
  /\ session' = UpdateReport(s)
  /\ report' = IF ~s.hasResult THEN <<>>
               ELSE <<[items |-> s.list, validated |-> Len(Validated(s.list)),
                       latest |-> s.latest, accumulated |-> UpdateReport(s).accumulated]>>

(* onvif_media_signing_add_nalu_and_authenticate() *)
AddNaluAndAuthenticate(nalu) ==
  LET added == AddNalu(session, nalu)
  IN  IF LacksKey(added, nalu)
      THEN session' = Fail(added) /\ report' = <<>>
      ELSE Answer(MaybeValidateGop(added, nalu))

(* onvif_media_signing_set_trusted_certificate(): a second call is refused *)
(* and the first certificate dropped.  What was verified is not verified   *)
(* again.                                                                  *)
SetTrustedCertificate(certificate) ==
  /\ session' = [session EXCEPT !.trusted = IF @ = 0 THEN certificate ELSE 0]
  /\ UNCHANGED report

(* onvif_media_signing_reset() on the validation side: some of what the    *)
(* session knows is kept.  What was never hashed has left no anchor.       *)
Reset ==
  /\ session' = [NewSession EXCEPT
       !.anchor = IF session.hashAlgoKnown THEN session.anchor ELSE 0,
       !.hashAlgoKnown = session.hashAlgoKnown,
       !.key = session.key,
       !.verifiedPubkey = session.verifiedPubkey,
       !.trusted = session.trusted,
       !.signingPresent = session.signingPresent,
       !.accumulated.authenticity =
         IF session.accumulated.authenticity = NotSigned THEN NotSigned ELSE NotFeasible]
  /\ report' = <<>>

=============================================================================
