------------------------- MODULE SignedStreamProofs -------------------------
(* What the other side may rely on, for streams of any length, any losses  *)
(* and changes on the way and any restarts of both sides.                  *)
EXTENDS SignedStream, GopSignerProofs, DataLemmas

Fields == DOMAIN Other!NewSession
LatestFields == DOMAIN Other!NewSession.latest
AccumulatedFields == DOMAIN Other!NewSession.accumulated

(* A record with these fields, whatever their values. *)
HasFields(record, fields) == record = [f \in fields |-> record[f]]

IsSession(s) ==
  /\ HasFields(s, Fields)
  /\ HasFields(s.latest, LatestFields)
  /\ HasFields(s.accumulated, AccumulatedFields)
  /\ s.isFirstValidation \in BOOLEAN /\ s.resetFirst \in BOOLEAN
  /\ s.signingPresent \in BOOLEAN /\ s.hasResult \in BOOLEAN
  /\ s.latest.authenticity \in 0..4 /\ s.latest.provenance \in 0..3
  /\ s.accumulated.authenticity \in 0..4 /\ s.accumulated.provenance \in 0..3
  /\ s.accumulated.both \in 0..3

(* The key that is known has a verdict, a good one only if its             *)
(* certificates chain up to one that was trusted.                          *)
KeyIsJudged(s, trusted) ==
  /\ s.key # 0 => s.verifiedPubkey \in {0, 1}
  /\ s.verifiedPubkey = 1 => s.key \in trusted
  /\ s.trusted # 0 => s.trusted \in trusted

(* Until the first validation is over no result is OK; after it none is    *)
(* unfeasible, and there is a key with a verdict.                          *)
FirstIsTold(s) ==
  /\ ~s.resetFirst
  /\ s.isFirstValidation => s.latest.authenticity \in {0, 1, 2}
  /\ ~s.isFirstValidation =>
       /\ s.signingPresent /\ s.key # 0
       /\ s.latest.authenticity \in {2, 3, 4} /\ s.latest.provenance \in {1, 2, 3}

(* How the overall result goes with its parts, also before it is one. *)
PartsAgree(s) ==
  LET overall == s.accumulated
  IN  /\ overall.both \in {1, 2} =>
           /\ ~s.isFirstValidation
           /\ overall.authenticity \in {3, 4} /\ overall.provenance = 3
           /\ overall.both = 2 => overall.authenticity = 4
      /\ overall.both = 3 =>
           overall.authenticity \in {0, 1} /\ overall.provenance \in {0, 3}

SessionInv(s, trusted) ==
  IsSession(s) /\ KeyIsJudged(s, trusted) /\ FirstIsTold(s) /\ PartsAgree(s)

ReportIsTrusted ==
  session.accumulated.both \in {1, 2} /\ report # <<>> => session.key \in anchors

IInv == SessionInv(session, anchors) /\ ReportIsTrusted

-----------------------------------------------------------------------------
(* What the functions of the validator leave as it is.                     *)

Frame == {"key", "verifiedPubkey", "trusted", "signingPresent", "isFirstValidation",
          "resetFirst", "latest", "accumulated", "hasResult"}

(* All but the list and what belongs to it. *)
SameFrame(s, t) == HasFields(t, Fields) /\ \A f \in Frame : t[f] = s[f]

LEMMA FieldsAre ==
  /\ Fields = {"list", "anchor", "hashAlgoKnown", "key", "verifiedPubkey", "trusted",
               "signingPresent", "gopStarts", "isFirstValidation", "isFirstSei",
               "resetFirst", "waiting", "inSync", "lost", "numInvalid", "hasResult",
               "data", "current", "wraps", "linked", "gopHash", "numNalus", "latest",
               "accumulated"}
  /\ LatestFields = {"authenticity", "provenance", "keyChanged", "expected", "received",
                     "pending"}
  /\ AccumulatedFields = {"authenticity", "provenance", "both", "keyChanged", "received",
                          "validated"}
BY DEF Fields, LatestFields, AccumulatedFields, Other!NewSession

LEMMA AssociateFrame ==
  ASSUME NEW s, HasFields(s, Fields), NEW places, NEW sei
  PROVE  SameFrame(s, Other!Associate(s, places, sei))
BY FieldsAre DEF HasFields, SameFrame, Frame, Other!Associate

LEMMA ComputeGopHashFrame ==
  ASSUME NEW s, HasFields(s, Fields), NEW place
  PROVE  SameFrame(s, Other!ComputeGopHash(s, place))
BY FieldsAre, ZenonT(30) DEF HasFields, SameFrame, Frame, Other!ComputeGopHash, Other!Associate

LEMMA UpdateLinkedHashFrame ==
  ASSUME NEW s, HasFields(s, Fields), NEW place
  PROVE  SameFrame(s, Other!UpdateLinkedHash(s, place))
BY FieldsAre DEF HasFields, SameFrame, Frame, Other!UpdateLinkedHash

LEMMA VerifyWithoutSeiFrame ==
  ASSUME NEW s, HasFields(s, Fields), NEW sei
  PROVE  SameFrame(s, Other!VerifyWithoutSei(s, sei))
BY FieldsAre DEF HasFields, SameFrame, Frame, Other!VerifyWithoutSei

LEMMA SameFrameTwice ==
  ASSUME NEW s, NEW t, NEW u, SameFrame(s, t), SameFrame(t, u)
  PROVE  SameFrame(s, u)
BY DEF SameFrame

LEMMA VerifyIndividualHashesFrame ==
  ASSUME NEW s, HasFields(s, Fields), NEW place
  PROVE  SameFrame(s, Other!VerifyIndividualHashes(s, place))
BY FieldsAre, ZenonT(30) DEF HasFields, SameFrame, Frame, Other!VerifyIndividualHashes

LEMMA AssociateGopFrame ==
  ASSUME NEW s, HasFields(s, Fields), NEW place
  PROVE  SameFrame(s, Other!AssociateGop(s, place))
<1>1. SameFrame(s, s)
  BY DEF SameFrame
<1> QED
  BY <1>1, AssociateFrame DEF Other!AssociateGop

LEMMA VerifyWithSeiFrame ==
  ASSUME NEW s, HasFields(s, Fields), NEW place
  PROVE  SameFrame(s, Other!VerifyWithSei(s, place))
<1> DEFINE associated == Other!AssociateGop(s, place)
           verified == Other!VerifyIndividualHashes(associated, place)
<1>1. SameFrame(s, verified)
  <2>1. SameFrame(s, associated)
    BY AssociateGopFrame
  <2>2. SameFrame(associated, verified)
    BY <2>1, VerifyIndividualHashesFrame DEF SameFrame
  <2> QED
    BY <2>1, <2>2, SameFrameTwice
<1>2. \A list : SameFrame(s, [verified EXCEPT !.list = list])
  BY <1>1, FieldsAre DEF HasFields, SameFrame, Frame
<1>3. \A list : SameFrame(s, [s EXCEPT !.list = list])
  BY FieldsAre DEF HasFields, SameFrame, Frame
<1> QED
  BY <1>1, <1>2, <1>3 DEF Other!VerifyWithSei

-----------------------------------------------------------------------------
(* What decoding a SEI and the verdict on it may change.                   *)

(* The session at a later point of a round. *)
Follows(s, t) ==
  /\ HasFields(t, Fields) /\ HasFields(t.latest, LatestFields)
  /\ t.accumulated = s.accumulated /\ t.trusted = s.trusted
  /\ t.signingPresent = s.signingPresent /\ t.hasResult = s.hasResult
  /\ t.isFirstValidation = s.isFirstValidation
  /\ s.key # 0 => t.key # 0

(* Only what does not belong to the results has changed. *)
KeepsResults(s, t) ==
  /\ Follows(s, t)
  /\ t.resetFirst = s.resetFirst
  /\ t.latest.authenticity = s.latest.authenticity
  /\ t.latest.provenance = s.latest.provenance

LEMMA SameFrameKeepsResults ==
  ASSUME NEW s, NEW t, NEW trusted, SameFrame(s, t),
         HasFields(s.latest, LatestFields), KeyIsJudged(s, trusted)
  PROVE  KeepsResults(s, t) /\ KeyIsJudged(t, trusted)
<1>1. \A f \in Frame : t[f] = s[f]
  BY DEF SameFrame
<1>2. /\ t.key = s.key /\ t.verifiedPubkey = s.verifiedPubkey /\ t.trusted = s.trusted
      /\ t.signingPresent = s.signingPresent /\ t.resetFirst = s.resetFirst
      /\ t.isFirstValidation = s.isFirstValidation /\ t.latest = s.latest
      /\ t.accumulated = s.accumulated /\ t.hasResult = s.hasResult
  BY <1>1 DEF Frame
<1> QED
  BY <1>2 DEF SameFrame, KeepsResults, Follows, KeyIsJudged

LEMMA KeepsResultsTwice ==
  ASSUME NEW s, NEW t, NEW u, KeepsResults(s, t), KeepsResults(t, u)
  PROVE  KeepsResults(s, u)
BY DEF KeepsResults, Follows

(* A key is taken over from certificates with the verdict on them.         *)
LEMMA DecodeCertificatesKeeps ==
  ASSUME NEW s, NEW trusted, NEW cert,
         HasFields(s, Fields), HasFields(s.latest, LatestFields), KeyIsJudged(s, trusted)
  PROVE  /\ KeepsResults(s, Other!DecodeCertificates(s, cert))
         /\ KeyIsJudged(Other!DecodeCertificates(s, cert), trusted)
<1> DEFINE t == Other!DecodeCertificates(s, cert)
<1>1. CASE cert \in {0, s.key}
  <2>1. t = s
    BY <1>1 DEF Other!DecodeCertificates
  <2> QED
    BY <2>1 DEF KeepsResults, Follows
<1>2. CASE cert \notin {0, s.key}
  <2>1. /\ HasFields(t, Fields)
        /\ t.key = cert /\ t.verifiedPubkey = (IF s.trusted = cert THEN 1 ELSE 0)
        /\ t.accumulated = s.accumulated /\ t.trusted = s.trusted
        /\ t.signingPresent = s.signingPresent /\ t.hasResult = s.hasResult
        /\ t.isFirstValidation = s.isFirstValidation /\ t.resetFirst = s.resetFirst
        /\ t.latest = [s.latest EXCEPT !.keyChanged = @ \/ s.key # 0]
    BY <1>2, FieldsAre DEF HasFields, Other!DecodeCertificates
  <2>2. /\ HasFields(t.latest, LatestFields)
        /\ t.latest.authenticity = s.latest.authenticity
        /\ t.latest.provenance = s.latest.provenance
    BY <2>1, FieldsAre DEF HasFields
  <2>3. KeyIsJudged(t, trusted)
    BY <1>2, <2>1 DEF KeyIsJudged
  <2>4. KeepsResults(s, t)
    BY <1>2, <2>1, <2>2 DEF KeepsResults, Follows
  <2> QED
    BY <2>3, <2>4
<1> QED
  BY <1>1, <1>2

LEMMA DecodeSeiKeeps ==
  ASSUME NEW s, NEW trusted, NEW says,
         HasFields(s, Fields), HasFields(s.latest, LatestFields), KeyIsJudged(s, trusted)
  PROVE  /\ KeepsResults(s, Other!DecodeSei(s, says))
         /\ KeyIsJudged(Other!DecodeSei(s, says), trusted)
<1> DEFINE t == Other!DecodeCertificates(s, says.cert)
<1>1. KeepsResults(s, t) /\ KeyIsJudged(t, trusted)
  BY DecodeCertificatesKeeps
<1>2. HasFields(t, Fields) /\ HasFields(t.latest, LatestFields)
  BY <1>1 DEF KeepsResults, Follows
<1> HIDE DEF t
<1>3. \A data, wraps, lost :
        SameFrame(t, [t EXCEPT !.data = data, !.wraps = wraps, !.lost = lost])
  <2>1. HasFields(t, Fields)
    BY <1>2
  <2> TAKE data, wraps, lost
  <2> QED
    BY ONLY <2>1, FieldsAre DEF HasFields, SameFrame, Frame
<1>4. SameFrame(t, Other!DecodeSei(s, says))
  BY <1>3 DEF Other!DecodeSei, t
<1> QED
  BY <1>1, <1>2, <1>4, SameFrameKeepsResults, KeepsResultsTwice

(* A certificate SEI has its own verdict, any other SEI gets none yet.     *)
LEMMA PrepareForValidationKeeps ==
  ASSUME NEW s, NEW trusted, NEW place,
         HasFields(s, Fields), HasFields(s.latest, LatestFields), KeyIsJudged(s, trusted)
  PROVE  LET prepared == Other!PrepareForValidation(s, place)
         IN  /\ prepared.isCertificate \in BOOLEAN
             /\ Follows(s, prepared.s) /\ KeyIsJudged(prepared.s, trusted)
             /\ prepared.s.resetFirst = s.resetFirst
             /\ IF prepared.isCertificate THEN prepared.s.latest.authenticity \in {2, 4}
                ELSE KeepsResults(s, prepared.s)
<1> DEFINE sei == s.list[place]
           decoded == IF sei.decoded THEN s ELSE Other!DecodeSei(s, sei.nalu.data)
           At(list, waiting) == [decoded EXCEPT !.list = list, !.waiting = waiting]
           AboutGop(u) == Other!UpdateLinkedHash(Other!ComputeGopHash(u, place), place)
           Verdict(u) ==
             [u EXCEPT !.latest.authenticity = IF sei.verified THEN Other!Ok ELSE Other!NotOk]
<1>1. KeepsResults(s, decoded) /\ KeyIsJudged(decoded, trusted)
  BY DecodeSeiKeeps DEF KeepsResults, Follows
<1>2. HasFields(decoded, Fields) /\ HasFields(decoded.latest, LatestFields)
  BY <1>1 DEF KeepsResults, Follows
<1>3. PICK list, waiting :
        Other!PrepareForValidation(s, place)
          = IF decoded.lost <= 0 /\ Other!IsCertificate(sei)
            THEN [s |-> Verdict(At(list, waiting)), isCertificate |-> TRUE]
            ELSE [s |-> AboutGop(At(list, waiting)), isCertificate |-> FALSE]
  <2> DEFINE bad == decoded.lost < 0 \/ (Other!IsSigned(sei) /\ ~sei.verified)
             verdict == IF bad THEN Other!Invalid ELSE Other!Valid
             marked ==
               [sei EXCEPT
                 !.inValidation = TRUE, !.decoded = TRUE,
                 !.tmp = IF decoded.lost <= 0 /\ Other!IsSigned(sei) THEN verdict ELSE @,
                 !.ifSeiOk = IF decoded.lost <= 0 /\ ~Other!IsSigned(sei) THEN verdict ELSE @]
  <2> WITNESS Other!WithItem(decoded.list, place, marked), ~Other!IsSigned(sei)
  <2> QED
    BY Zenon DEF Other!PrepareForValidation
<1> HIDE DEF decoded
<1> DEFINE u == At(list, waiting)
<1>4. SameFrame(decoded, u)
  BY <1>2, FieldsAre DEF HasFields, SameFrame, Frame
<1> HIDE DEF At
<1>5. KeepsResults(decoded, u) /\ KeyIsJudged(u, trusted)
  BY <1>1, <1>2, <1>4, SameFrameKeepsResults
<1>6. KeepsResults(s, u)
  BY <1>1, <1>5, KeepsResultsTwice
<1>7. HasFields(u, Fields) /\ HasFields(u.latest, LatestFields)
  BY <1>6 DEF KeepsResults, Follows
<1> HIDE DEF u
<1>8. CASE decoded.lost <= 0 /\ Other!IsCertificate(sei)
  <2>1. /\ Other!PrepareForValidation(s, place).s = Verdict(u)
        /\ Other!PrepareForValidation(s, place).isCertificate = TRUE
    BY <1>3, <1>8 DEF u
  <2>2. /\ HasFields(Verdict(u), Fields)
        /\ Verdict(u).key = u.key /\ Verdict(u).verifiedPubkey = u.verifiedPubkey
        /\ Verdict(u).accumulated = u.accumulated /\ Verdict(u).trusted = u.trusted
        /\ Verdict(u).signingPresent = u.signingPresent
        /\ Verdict(u).hasResult = u.hasResult /\ Verdict(u).resetFirst = u.resetFirst
        /\ Verdict(u).isFirstValidation = u.isFirstValidation
        /\ Verdict(u).latest = [u.latest EXCEPT
              !.authenticity = IF sei.verified THEN Other!Ok ELSE Other!NotOk]
    BY <1>7, FieldsAre DEF HasFields
  <2>3. /\ HasFields(Verdict(u).latest, LatestFields)
        /\ Verdict(u).latest.authenticity \in {2, 4}
    BY <1>7, <2>2, FieldsAre DEF HasFields, Other!Ok, Other!NotOk
  <2> HIDE DEF Verdict
  <2>4. KeyIsJudged(Verdict(u), trusted)
    BY <1>5, <2>2 DEF KeyIsJudged
  <2>5. Follows(s, Verdict(u)) /\ Verdict(u).resetFirst = s.resetFirst
    BY <1>6, <2>2, <2>3 DEF KeepsResults, Follows
  <2> QED
    BY <2>1, <2>3, <2>4, <2>5
<1>9. CASE ~(decoded.lost <= 0 /\ Other!IsCertificate(sei))
  <2> DEFINE v == Other!ComputeGopHash(u, place)
             w == Other!UpdateLinkedHash(v, place)
  <2>1. /\ Other!PrepareForValidation(s, place).s = w
        /\ Other!PrepareForValidation(s, place).isCertificate = FALSE
    BY <1>3, <1>9 DEF u
  <2>2. SameFrame(u, v)
    BY <1>7, ComputeGopHashFrame
  <2>3. SameFrame(v, w)
    BY <2>2, UpdateLinkedHashFrame DEF SameFrame
  <2>4. SameFrame(u, w)
    BY <2>2, <2>3, SameFrameTwice
  <2>5. KeepsResults(u, w) /\ KeyIsJudged(w, trusted)
    BY <1>5, <1>7, <2>4, SameFrameKeepsResults
  <2>6. KeepsResults(s, w)
    BY <1>6, <2>5, KeepsResultsTwice
  <2> HIDE DEF w
  <2> QED
    BY <2>1, <2>5, <2>6 DEF KeepsResults
<1> QED
  BY <1>8, <1>9

LEMMA WorseIs ==
  ASSUME NEW soFar \in 0..4, NEW result \in 0..4
  PROVE  /\ Other!Worse(soFar, result) \in {soFar, result}
         /\ result \in {2, 3, 4} => Other!Worse(soFar, result) \in {2, 3, 4}
         /\ soFar <= 2 /\ result \in {1, 2} => Other!Worse(soFar, result) \in {1, 2}
         /\ soFar = 2 /\ result \in {2, 3, 4} => Other!Worse(soFar, result) = 2
         /\ soFar <= 1 => Other!Worse(soFar, result) = result
BY DEF Other!Worse, Other!NotFeasible

(* A verdict is taken back only before the first validation is over.       *)
LEMMA JudgeKeeps ==
  ASSUME NEW s, NEW verified, NEW trusted, NEW place, NEW sei,
         HasFields(s.latest, LatestFields), SameFrame(s, verified),
         KeyIsJudged(s, trusted), ~s.resetFirst, s.isFirstValidation \in BOOLEAN,
         s.latest.authenticity \in 0..4,
         s.isFirstValidation => s.latest.authenticity \in {0, 1, 2}
  PROVE  LET t == Other!Judge(s, verified, place, sei)
         IN  /\ Follows(s, t) /\ KeyIsJudged(t, trusted) /\ t.resetFirst \in BOOLEAN
             /\ t.resetFirst => s.isFirstValidation /\ t.latest.authenticity \in {1, 2}
             /\ ~t.resetFirst => t.latest.authenticity \in {2, 3, 4}
<1> DEFINE t == Other!Judge(s, verified, place, sei)
           Final(reverted, result) ==
             IF s.latest.keyChanged THEN 2 ELSE IF reverted THEN 1 ELSE result
<1>1. /\ HasFields(verified, Fields)
      /\ verified.key = s.key /\ verified.verifiedPubkey = s.verifiedPubkey
      /\ verified.trusted = s.trusted /\ verified.signingPresent = s.signingPresent
      /\ verified.isFirstValidation = s.isFirstValidation
      /\ verified.resetFirst = s.resetFirst /\ verified.latest = s.latest
      /\ verified.accumulated = s.accumulated /\ verified.hasResult = s.hasResult
  BY DEF SameFrame, Frame
<1>2. PICK reverted, result :
        /\ reverted \in BOOLEAN /\ (reverted => s.isFirstValidation)
        /\ result \in {2, 3, 4}
        /\ HasFields(t, Fields)
        /\ t.key = s.key /\ t.verifiedPubkey = s.verifiedPubkey /\ t.trusted = s.trusted
        /\ t.signingPresent = s.signingPresent /\ t.hasResult = s.hasResult
        /\ t.isFirstValidation = s.isFirstValidation /\ t.accumulated = s.accumulated
        /\ t.resetFirst = (s.resetFirst \/ reverted)
        /\ HasFields(t.latest, LatestFields)
        /\ t.latest.authenticity
             = Other!Worse(s.latest.authenticity, Final(reverted, result))
  <2> DEFINE hasValid == Other!HasValid(verified.list, sei)
             new == Other!NumInvalid(verified.list, sei) - s.numInvalid
             invalid == IF new < 0 THEN 0 ELSE new
             result == IF invalid > 0 THEN 2
                       ELSE IF Other!NumMissed(verified.list, sei) > 0 THEN 3 ELSE 4
             inSync == s.inSync \/ hasValid
                         \/ (s.data.linked # <<>> /\ verified.linked[1] = s.data.linked)
             reverted == s.isFirstValidation /\ ~inSync /\ result # 4 /\ ~hasValid
             expected == IF reverted \/ s.lost # 0 THEN -1 ELSE s.data.numNalus
             received == IF reverted THEN -1 ELSE verified.numNalus
  <2>1. reverted \in BOOLEAN /\ (reverted => s.isFirstValidation)
    OBVIOUS
  <2>2. result \in {2, 3, 4}
    OBVIOUS
  <2>3. t = [verified EXCEPT
              !.list = IF reverted THEN Other!RemoveAssociation(@, sei) ELSE @,
              !.linked = IF reverted /\ sei # 0 /\ ~Other!IsSigned(s.list[place])
                         THEN <<@[1], @[1]>> ELSE @,
              !.numInvalid = @ + invalid,
              !.inSync = inSync,
              !.resetFirst = @ \/ reverted,
              !.latest = [verified.latest EXCEPT
                !.authenticity = Other!Worse(@, Final(reverted, result)),
                !.received = @ + received,
                !.expected = IF s.lost > 0 THEN -1 ELSE IF @ = -1 THEN -1 ELSE @ + expected],
              !.current = IF s.lost >= 0 /\ inSync THEN s.data.counter ELSE @,
              !.lost = IF s.lost < 0 THEN @
                       ELSE IF inSync THEN 0
                       ELSE Other!AsInt(s.data.counter - verified.current - 1)]
    BY Zenon DEF Other!Judge, Other!NotOk, Other!OkWithMissing, Other!Ok, Other!NotFeasible
  <2> HIDE DEF reverted, result, inSync, t, Final, invalid, expected, received
  <2>4. HasFields(verified, Fields) /\ HasFields(verified.latest, LatestFields)
    BY <1>1
  <2>5. /\ HasFields(t, Fields)
        /\ t.key = verified.key /\ t.verifiedPubkey = verified.verifiedPubkey
        /\ t.trusted = verified.trusted /\ t.signingPresent = verified.signingPresent
        /\ t.isFirstValidation = verified.isFirstValidation
        /\ t.hasResult = verified.hasResult /\ t.accumulated = verified.accumulated
        /\ t.resetFirst = (verified.resetFirst \/ reverted)
        /\ HasFields(t.latest, LatestFields)
        /\ t.latest.authenticity
             = Other!Worse(verified.latest.authenticity, Final(reverted, result))
    BY ONLY <2>3, <2>4, FieldsAre, ZenonT(30) DEF HasFields
  <2> QED
    BY <1>1, <2>1, <2>2, <2>5
<1> HIDE DEF t
<1> DEFINE final == Final(reverted, result)
<1>3. t.resetFirst = reverted
  BY <1>2
<1>4. final \in 1..4 /\ (reverted => final <= 2) /\ (~reverted => final # 1)
  BY <1>2
<1> HIDE DEF final
<1>5. t.latest.authenticity = Other!Worse(s.latest.authenticity, final)
  BY <1>2 DEF final
<1>6. reverted => t.latest.authenticity \in {1, 2}
  BY <1>2, <1>4, <1>5, WorseIs
<1>7. ~reverted => t.latest.authenticity \in {2, 3, 4}
  BY <1>4, <1>5, WorseIs
<1>8. KeyIsJudged(t, trusted)
  BY <1>2 DEF KeyIsJudged
<1>9. Follows(s, t)
  BY <1>2 DEF Follows
<1> QED
  BY <1>2, <1>3, <1>6, <1>7, <1>8, <1>9 DEF t

LEMMA FollowsTwice ==
  ASSUME NEW s, NEW t, NEW u, Follows(s, t), Follows(t, u)
  PROVE  Follows(s, u)
BY DEF Follows

-----------------------------------------------------------------------------
(* A round.                                                                *)

(* A session before a round. *)
IsReady(s, trusted) ==
  /\ HasFields(s, Fields) /\ HasFields(s.latest, LatestFields)
  /\ KeyIsJudged(s, trusted) /\ s.resetFirst = FALSE
  /\ s.isFirstValidation \in BOOLEAN /\ s.signingPresent \in BOOLEAN
  /\ s.latest.authenticity \in 0..4
  /\ s.isFirstValidation => s.latest.authenticity \in {0, 1, 2}

LEMMA StartValidationKeeps ==
  ASSUME NEW s, NEW trusted, NEW keyChanged, IsReady(s, trusted)
  PROVE  LET t == Other!StartValidation(s, keyChanged)
         IN  Follows(s, t) /\ IsReady(t, trusted)
<1> DEFINE latest == [s.latest EXCEPT !.authenticity = 1, !.keyChanged = keyChanged,
                                      !.expected = 0, !.received = 0, !.pending = -1]
           begun == [s EXCEPT !.latest = latest, !.numInvalid = 0]
           Listed(list) == [begun EXCEPT !.list = list]
           t == Other!StartValidation(s, keyChanged)
<1>1. t = s \/ t = begun \/ \E list : t = Listed(list)
  BY DEF Other!StartValidation, Other!NotFeasible
<1>2. HasFields(s, Fields) /\ HasFields(s.latest, LatestFields)
  BY DEF IsReady
<1>3. HasFields(latest, LatestFields) /\ latest.authenticity = 1
  BY ONLY <1>2, FieldsAre DEF HasFields
<1> HIDE DEF latest
<1>4. CASE t = s
  <2>1. Follows(s, s)
    BY <1>2 DEF Follows
  <2> HIDE DEF t
  <2> QED
    BY <1>4, <2>1 DEF t
<1>5. CASE t # s
  <2>1. /\ HasFields(t, Fields) /\ t.latest = latest
        /\ t.key = s.key /\ t.verifiedPubkey = s.verifiedPubkey /\ t.trusted = s.trusted
        /\ t.signingPresent = s.signingPresent /\ t.hasResult = s.hasResult
        /\ t.isFirstValidation = s.isFirstValidation /\ t.accumulated = s.accumulated
        /\ t.resetFirst = s.resetFirst
    <3>1. /\ HasFields(begun, Fields) /\ begun.latest = latest
          /\ \A f \in Frame \ {"latest"} : begun[f] = s[f]
      BY ONLY <1>2, FieldsAre DEF HasFields, Frame
    <3> HIDE DEF begun
    <3>2. \A list : /\ HasFields(Listed(list), Fields) /\ Listed(list).latest = latest
                    /\ \A f \in Frame \ {"latest"} : Listed(list)[f] = s[f]
      BY ONLY <3>1, FieldsAre DEF HasFields, Frame
    <3> HIDE DEF t, Listed
    <3>3. /\ HasFields(t, Fields) /\ t.latest = latest
          /\ \A f \in Frame \ {"latest"} : t[f] = s[f]
      BY <1>1, <1>5, <3>1, <3>2
    <3> QED
      BY <3>3 DEF Frame
  <2> HIDE DEF t
  <2>2. KeyIsJudged(t, trusted)
    BY <2>1 DEF IsReady, KeyIsJudged
  <2> QED
    BY <1>3, <2>1, <2>2 DEF IsReady, Follows, t
<1> QED
  BY <1>4, <1>5

LEMMA ValidateAuthenticityKeeps ==
  ASSUME NEW s, NEW trusted, NEW place, IsReady(s, trusted)
  PROVE  LET t == Other!ValidateAuthenticity(s, place)
         IN  /\ Follows(s, t) /\ KeyIsJudged(t, trusted) /\ t.resetFirst \in BOOLEAN
             /\ t.resetFirst => s.isFirstValidation /\ t.latest.authenticity \in {1, 2}
             /\ ~t.resetFirst => t.latest.authenticity \in {2, 3, 4}
<1> DEFINE with == Other!VerifyWithSei(s, place)
           without == Other!VerifyWithoutSei(s, s.list[place].at)
<1>1. SameFrame(s, with) /\ SameFrame(s, without)
  BY VerifyWithSeiFrame, VerifyWithoutSeiFrame DEF IsReady
<1> HIDE DEF with, without
<1>2. Other!ValidateAuthenticity(s, place)
        \in {Other!Judge(s, with, place, s.list[place].at), Other!Judge(s, without, place, 0)}
  BY DEF Other!ValidateAuthenticity, with, without
<1>3. \A verified, sei : SameFrame(s, verified) =>
        LET t == Other!Judge(s, verified, place, sei)
        IN  /\ Follows(s, t) /\ KeyIsJudged(t, trusted) /\ t.resetFirst \in BOOLEAN
            /\ t.resetFirst => s.isFirstValidation /\ t.latest.authenticity \in {1, 2}
            /\ ~t.resetFirst => t.latest.authenticity \in {2, 3, 4}
  BY JudgeKeeps DEF IsReady
<1> QED
  BY <1>1, <1>2, <1>3

(* The result of a round, before it is known whether it counts.            *)
LEMMA ValidateNextKeeps ==
  ASSUME NEW s, NEW trusted, NEW place, IsReady(s, trusted)
  PROVE  LET t == Other!ValidateNext(s, place)
         IN  /\ Follows(s, t) /\ KeyIsJudged(t, trusted) /\ t.resetFirst \in BOOLEAN
             /\ t.resetFirst => s.isFirstValidation /\ t.latest.authenticity \in {1, 2}
             /\ ~t.resetFirst =>
                  t.latest.authenticity \in (IF s.signingPresent THEN {2, 3, 4} ELSE {0})
<1> DEFINE t == Other!ValidateNext(s, place)
<1>1. CASE ~s.signingPresent
  <2> DEFINE latest == [s.latest EXCEPT !.authenticity = 0, !.expected = -1, !.received = -1]
  <2>1. t = [s EXCEPT !.latest = latest]
    BY <1>1, FieldsAre DEF IsReady, HasFields, Other!ValidateNext, Other!NotSigned
  <2>2. HasFields(latest, LatestFields) /\ latest.authenticity = 0
    BY FieldsAre DEF IsReady, HasFields
  <2> HIDE DEF latest, t
  <2>3. /\ HasFields(t, Fields) /\ t.latest = latest
        /\ t.key = s.key /\ t.verifiedPubkey = s.verifiedPubkey /\ t.trusted = s.trusted
        /\ t.signingPresent = s.signingPresent /\ t.hasResult = s.hasResult
        /\ t.isFirstValidation = s.isFirstValidation /\ t.accumulated = s.accumulated
        /\ t.resetFirst = s.resetFirst
    BY <2>1, FieldsAre DEF IsReady, HasFields
  <2>4. KeyIsJudged(t, trusted)
    BY <2>3 DEF IsReady, KeyIsJudged
  <2>5. Follows(s, t)
    BY <2>2, <2>3 DEF Follows
  <2>6. t.resetFirst = FALSE
    BY <2>3 DEF IsReady
  <2> QED
    BY <1>1, <2>2, <2>3, <2>4, <2>5, <2>6 DEF t
<1>2. CASE s.signingPresent
  <2> DEFINE prepared == Other!PrepareForValidation(s, place)
             p == prepared.s
  <2>1. /\ prepared.isCertificate \in BOOLEAN
        /\ Follows(s, p) /\ KeyIsJudged(p, trusted) /\ p.resetFirst = s.resetFirst
        /\ IF prepared.isCertificate THEN p.latest.authenticity \in {2, 4}
           ELSE KeepsResults(s, p)
    BY PrepareForValidationKeeps DEF IsReady
  <2>2. t = IF prepared.isCertificate THEN p ELSE Other!ValidateAuthenticity(p, place)
    BY <1>2 DEF Other!ValidateNext
  <2> HIDE DEF prepared, p, t
  <2>3. CASE prepared.isCertificate
    <3>1. t = p /\ p.resetFirst = FALSE
      BY <2>1, <2>2, <2>3 DEF IsReady
    <3> QED
      BY <1>2, <2>1, <2>3, <3>1 DEF t
  <2>4. CASE ~prepared.isCertificate
    <3>1. t = Other!ValidateAuthenticity(p, place)
      BY <2>2, <2>4
    <3>2. IsReady(p, trusted)
      BY <2>1, <2>4 DEF IsReady, KeepsResults, Follows
    <3>3. /\ Follows(p, t) /\ KeyIsJudged(t, trusted) /\ t.resetFirst \in BOOLEAN
          /\ t.resetFirst => p.isFirstValidation /\ t.latest.authenticity \in {1, 2}
          /\ ~t.resetFirst => t.latest.authenticity \in {2, 3, 4}
      BY <3>1, <3>2, ValidateAuthenticityKeeps
    <3>4. Follows(s, t) /\ p.isFirstValidation = s.isFirstValidation
      BY <2>1, <3>3, FollowsTwice DEF Follows
    <3> QED
      BY <1>2, <3>3, <3>4 DEF t
  <2> QED
    BY <2>1, <2>3, <2>4
<1> QED
  BY <1>1, <1>2 DEF IsReady

LEMMA ProvenanceIs ==
  ASSUME NEW s, NEW trusted, KeyIsJudged(s, trusted)
  PROVE  /\ Other!Provenance(s) \in 0..3
         /\ s.key # 0 => Other!Provenance(s) \in {1, 2, 3}
         /\ Other!Provenance(s) = 3 => s.key \in trusted
<1>1. CASE s.verifiedPubkey = 1
  BY <1>1 DEF KeyIsJudged, Other!Provenance, Other!ProvenanceOk,
              Other!ProvenanceWithoutTrusted
<1>2. CASE s.verifiedPubkey # 1
  BY <1>2 DEF KeyIsJudged, Other!Provenance, Other!ProvenanceNotOk,
              Other!ProvenanceNotFeasible
<1> QED
  BY <1>1, <1>2

(* A session between two rounds of a call. *)
IsInLoop(s, before, trusted) ==
  /\ IsReady(s, trusted) /\ s.hasResult \in BOOLEAN /\ s.latest.provenance \in 0..3
  /\ s.accumulated = before.accumulated
  /\ s.key # 0 \/ ~s.signingPresent
  /\ s.isFirstValidation => before.isFirstValidation
  /\ ~s.isFirstValidation =>
       s.signingPresent /\ s.latest.authenticity \in {2, 3, 4}
         /\ s.latest.provenance \in {1, 2, 3}
  /\ s.hasResult => s.latest.provenance = Other!Provenance(s)

(* What the end of a round makes of the session. *)
Ends(v, t) ==
  /\ HasFields(t, Fields) /\ HasFields(t.latest, LatestFields)
  /\ t.key = v.key /\ t.verifiedPubkey = v.verifiedPubkey /\ t.trusted = v.trusted
  /\ t.signingPresent = v.signingPresent /\ t.accumulated = v.accumulated
  /\ t.isFirstValidation \in BOOLEAN
  /\ t.isFirstValidation <=> (v.resetFirst \/ ~v.signingPresent)
  /\ t.resetFirst = FALSE /\ t.hasResult \in BOOLEAN
  /\ t.latest.authenticity = v.latest.authenticity
  /\ t.latest.provenance = Other!Provenance(v)

LEMMA EndRoundIs ==
  ASSUME NEW acc, NEW v, NEW nalu, HasFields(v, Fields), HasFields(v.latest, LatestFields),
         v.hasResult \in BOOLEAN
  PROVE  Ends(v, Other!EndRound(acc, v, nalu).s)
<1> DEFINE k == Other!SeiInValidation(v.list)
           fetches == v.isFirstValidation /\ ~v.inSync /\ k # 0
           list == IF fetches
                   THEN Other!WithItem(v.list, k, [v.list[k] EXCEPT !.tmp = v.list[k].status])
                   ELSE v.list
           provenance == Other!Provenance(v)
           first == v.resetFirst \/ ~v.signingPresent
           firstSei == v.isFirstSei /\ nalu.kind # "sei"
           over == [v EXCEPT !.list = list, !.isFirstValidation = first,
                              !.isFirstSei = firstSei, !.resetFirst = FALSE,
                              !.latest.provenance = provenance]
           result == over.latest.authenticity
           pending == IF over.waiting THEN over.latest.pending
                      ELSE Other!NumPending(over.list)
           hasResult == IF result = Other!NotSigned THEN FALSE
                        ELSE IF result = Other!NotFeasible
                        THEN over.accumulated.authenticity # result
                        ELSE over.hasResult \/ ~over.waiting
           t == [over EXCEPT !.latest.pending = pending, !.hasResult = hasResult]
<1>1. Other!EndRound(acc, v, nalu).s = t
  BY DEF Other!EndRound
<1> HIDE DEF list, provenance, first, firstSei
<1>2. /\ HasFields(over, Fields)
      /\ over.key = v.key /\ over.verifiedPubkey = v.verifiedPubkey
      /\ over.trusted = v.trusted /\ over.signingPresent = v.signingPresent
      /\ over.accumulated = v.accumulated /\ over.hasResult = v.hasResult
      /\ over.isFirstValidation = first /\ over.resetFirst = FALSE
      /\ HasFields(over.latest, LatestFields)
      /\ over.latest.authenticity = v.latest.authenticity
      /\ over.latest.provenance = provenance
  BY FieldsAre DEF HasFields
<1> HIDE DEF over
<1>3. hasResult \in BOOLEAN
  BY <1>2
<1> HIDE DEF pending, hasResult
<1>4. /\ HasFields(t, Fields)
      /\ t.key = over.key /\ t.verifiedPubkey = over.verifiedPubkey
      /\ t.trusted = over.trusted /\ t.signingPresent = over.signingPresent
      /\ t.accumulated = over.accumulated /\ t.hasResult = hasResult
      /\ t.isFirstValidation = over.isFirstValidation /\ t.resetFirst = over.resetFirst
      /\ HasFields(t.latest, LatestFields)
      /\ t.latest.authenticity = over.latest.authenticity
      /\ t.latest.provenance = over.latest.provenance
  BY ONLY <1>2, FieldsAre DEF HasFields
<1>5. first \in BOOLEAN /\ (first <=> (v.resetFirst \/ ~v.signingPresent))
  BY DEF first
<1> HIDE DEF t
<1> QED
  BY <1>1, <1>2, <1>3, <1>4, <1>5 DEF provenance, Ends

LEMMA RoundKeeps ==
  ASSUME NEW acc, NEW before, NEW trusted, NEW nalu, IsInLoop(acc.s, before, trusted)
  PROVE  IsInLoop(Other!Round(acc, nalu).s, before, trusted)
<1> DEFINE begun == Other!StartValidation(acc.s, acc.keyChanged)
           place == Other!NextSei(begun.list)
           validated == Other!ValidateNext(begun, place)
           t == Other!Round(acc, nalu).s
<1>1. t = Other!EndRound(acc, validated, nalu).s
  BY DEF Other!Round
<1>2. Follows(acc.s, begun) /\ IsReady(begun, trusted)
  BY StartValidationKeeps DEF IsInLoop
<1> HIDE DEF begun, place
<1>3. /\ Follows(begun, validated) /\ KeyIsJudged(validated, trusted)
      /\ validated.resetFirst \in BOOLEAN
      /\ validated.resetFirst =>
           begun.isFirstValidation /\ validated.latest.authenticity \in {1, 2}
      /\ ~validated.resetFirst =>
           validated.latest.authenticity \in (IF begun.signingPresent THEN {2, 3, 4} ELSE {0})
  BY <1>2, ValidateNextKeeps
<1>4. Follows(acc.s, validated)
  BY <1>2, <1>3, FollowsTwice
<1> HIDE DEF validated, t
<1>5. /\ validated.signingPresent = acc.s.signingPresent
      /\ validated.signingPresent = begun.signingPresent
      /\ begun.isFirstValidation = acc.s.isFirstValidation
      /\ validated.hasResult \in BOOLEAN /\ validated.signingPresent \in BOOLEAN
      /\ validated.accumulated = before.accumulated
      /\ validated.key # 0 \/ ~validated.signingPresent
      /\ HasFields(validated, Fields) /\ HasFields(validated.latest, LatestFields)
  BY <1>2, <1>3, <1>4 DEF Follows, IsInLoop, IsReady
<1>6. Ends(validated, t)
  <2>1. HasFields(validated, Fields)
    BY <1>5
  <2>2. HasFields(validated.latest, LatestFields)
    BY <1>5
  <2>3. validated.hasResult \in BOOLEAN
    BY <1>5
  <2> QED
    BY <1>1, <2>1, <2>2, <2>3, EndRoundIs
<1>7. Other!Provenance(t) = Other!Provenance(validated)
  BY <1>6 DEF Ends, Other!Provenance
<1>8. KeyIsJudged(t, trusted)
  BY <1>3, <1>6 DEF Ends, KeyIsJudged
<1>9. /\ t.latest.provenance = Other!Provenance(t) /\ t.latest.provenance \in 0..3
      /\ t.key # 0 => t.latest.provenance \in {1, 2, 3}
  BY <1>6, <1>7, <1>8, ProvenanceIs DEF Ends
<1>10. acc.s.isFirstValidation => before.isFirstValidation
  BY DEF IsInLoop
<1>11. ~acc.s.isFirstValidation => acc.s.signingPresent
  BY DEF IsInLoop
<1>12. t.isFirstValidation => acc.s.isFirstValidation
  BY <1>3, <1>5, <1>6, <1>11 DEF Ends
<1>13. /\ t.isFirstValidation \in BOOLEAN /\ t.latest.authenticity \in 0..4
       /\ t.isFirstValidation => t.latest.authenticity \in {0, 1, 2}
       /\ ~t.isFirstValidation => t.signingPresent /\ t.latest.authenticity \in {2, 3, 4}
  BY <1>3, <1>5, <1>6 DEF Ends
<1>14. IsReady(t, trusted)
  BY <1>5, <1>6, <1>8, <1>13 DEF IsReady, Ends
<1> QED
  BY <1>5, <1>6, <1>9, <1>10, <1>12, <1>13, <1>14 DEF IsInLoop, Ends, t

(* The rounds of a call: a function that is defined by what it is before.  *)
LEMMA RoundsKeep ==
  ASSUME NEW s, NEW trusted, NEW nalu, IsInLoop(s, s, trusted)
  PROVE  IsInLoop(Other!Rounds(s, nalu)[10].s, s, trusted)
<1> DEFINE Step(acc) == IF Other!HasPendingGop(acc.s) /\ ~acc.stop
                        THEN Other!Round(acc, nalu) ELSE acc
           x0 == [s |-> s, update |-> FALSE, keyChanged |-> FALSE,
                  seiStatus |-> Other!Unknown, stop |-> FALSE]
           x1 == Step(x0)
           x2 == Step(x1)
           x3 == Step(x2)
           x4 == Step(x3)
           x5 == Step(x4)
           x6 == Step(x5)
           x7 == Step(x6)
           x8 == Step(x7)
           x9 == Step(x8)
           x10 == Step(x9)
           IsRounds(f) == f = [i \in 0..10 |-> IF i = 0 THEN x0 ELSE Step(f[i - 1])]
           f == Other!Rounds(s, nalu)
           IsKept(acc) == IsInLoop(acc.s, s, trusted)
<1>1. f = CHOOSE g : IsRounds(g)
  BY DEF Other!Rounds, Other!MaxLoop
<1>2. IsKept(x0)
  OBVIOUS
<1>3. \A acc : IsKept(acc) => IsKept(Step(acc))
  BY RoundKeeps
<1> HIDE DEF Step, x0, IsKept
<1>4. \E g : IsRounds(g)
  <2> DEFINE g == <<x1, x2, x3, x4, x5, x6, x7, x8, x9, x10>>
             h == [i \in 0..10 |-> IF i = 0 THEN x0 ELSE g[i]]
  <2>1. \A i \in 1..10 : g[i] = Step(IF i = 1 THEN x0 ELSE g[i - 1])
    <3> TAKE i \in 1..10
    <3> QED
      OBVIOUS
  <2> HIDE DEF g
  <2>2. IsRounds(h)
    BY <2>1
  <2> QED
    BY <2>2
<1>5. IsRounds(f)
  <2> HIDE DEF IsRounds, f
  <2> QED
    BY <1>1, <1>4
<1> HIDE DEF f
<1>6. f[0] = x0 /\ \A i \in 1..10 : f[i] = Step(f[i - 1])
  BY <1>5
<1>7. /\ f[1] = Step(f[0]) /\ f[2] = Step(f[1]) /\ f[3] = Step(f[2])
      /\ f[4] = Step(f[3]) /\ f[5] = Step(f[4]) /\ f[6] = Step(f[5])
      /\ f[7] = Step(f[6]) /\ f[8] = Step(f[7]) /\ f[9] = Step(f[8])
      /\ f[10] = Step(f[9])
  BY ONLY <1>6
<1>8. IsKept(f[10])
  BY ONLY <1>2, <1>3, <1>6, <1>7
<1> QED
  BY <1>8 DEF IsKept, f

-----------------------------------------------------------------------------
(* A call.                                                                 *)

(* A session at the end of a call, before its report. *)
IsDone(s, before, trusted) ==
  /\ IsReady(s, trusted) /\ s.hasResult \in BOOLEAN /\ s.latest.provenance \in 0..3
  /\ s.accumulated = before.accumulated
  /\ s.isFirstValidation => before.isFirstValidation
  /\ ~s.isFirstValidation =>
       s.signingPresent /\ s.key # 0 /\ s.latest.authenticity \in {2, 3, 4}
         /\ s.latest.provenance \in {1, 2, 3}
  /\ s.hasResult /\ ~s.isFirstValidation => s.latest.provenance = Other!Provenance(s)

LEMMA EndValidationKeeps ==
  ASSUME NEW acc, NEW before, NEW trusted, IsInLoop(acc.s, before, trusted)
  PROVE  IsDone(Other!EndValidation(acc), before, trusted)
<1> DEFINE s == acc.s
           t == Other!EndValidation(acc)
           Listed(list) == [s EXCEPT !.list = list]
           Cleared(list, linked, pending) ==
             [s EXCEPT !.list = list, !.linked = linked, !.latest.pending = pending]
<1>1. \/ \E list : t = Listed(list)
      \/ \E list, linked, pending : t = Cleared(list, linked, pending)
  <2> DEFINE updated == [s EXCEPT !.list = Other!UpdateStatus(@, acc.update)]
             k == Other!SeiInValidation(updated.list)
             settled ==
               IF k = 0 \/ updated.list[k].status # Other!Pending THEN updated.list
               ELSE IF Other!IsSigned(updated.list[k])
               THEN Other!WithItem(updated.list, k,
                      [updated.list[k] EXCEPT !.status = acc.seiStatus,
                                              !.tmp = acc.seiStatus])
               ELSE Other!WithItem(updated.list, k,
                      [updated.list[k] EXCEPT !.ifSeiOk = acc.seiStatus])
             pending == Other!NumPending(settled)
             cleared == [updated EXCEPT !.list = settled, !.linked = <<<<>>, <<>>>>,
                                        !.latest.pending = pending]
  <2>1. t = IF ~updated.isFirstValidation THEN updated ELSE cleared
    BY Zenon DEF Other!EndValidation
  <2> HIDE DEF settled, pending, t
  <2>2. HasFields(s, Fields)
    BY DEF IsInLoop, IsReady
  <2> HIDE DEF s
  <2>3. cleared = Cleared(settled, <<<<>>, <<>>>>, pending)
    BY <2>2, FieldsAre DEF HasFields
  <2>4. updated = Listed(Other!UpdateStatus(s.list, acc.update))
    OBVIOUS
  <2> HIDE DEF cleared, updated, Listed, Cleared
  <2> QED
    BY <2>1, <2>3, <2>4
<1>2. HasFields(s, Fields) /\ HasFields(s.latest, LatestFields)
  BY DEF IsInLoop, IsReady
<1> HIDE DEF s, t
<1>3. \A list : /\ HasFields(Listed(list), Fields)
                /\ Listed(list).latest = s.latest
                /\ \A f \in Frame \ {"latest"} : Listed(list)[f] = s[f]
  BY ONLY <1>2, FieldsAre DEF HasFields, Frame
<1>4. \A list, linked, pending :
        LET u == Cleared(list, linked, pending)
        IN  /\ HasFields(u, Fields) /\ HasFields(u.latest, LatestFields)
            /\ u.latest.authenticity = s.latest.authenticity
            /\ u.latest.provenance = s.latest.provenance
            /\ \A f \in Frame \ {"latest"} : u[f] = s[f]
  <2> TAKE list, linked, pending
  <2> DEFINE u == Cleared(list, linked, pending)
             latest == [s.latest EXCEPT !.pending = pending]
  <2>1. /\ HasFields(latest, LatestFields)
        /\ latest.authenticity = s.latest.authenticity
        /\ latest.provenance = s.latest.provenance
    BY ONLY <1>2, FieldsAre DEF HasFields
  <2>2. u = [s EXCEPT !.list = list, !.linked = linked, !.latest = latest]
    BY ONLY <1>2, FieldsAre DEF HasFields
  <2> HIDE DEF u, latest
  <2>3. HasFields(u, Fields) /\ u.latest = latest
    BY ONLY <1>2, <2>2, FieldsAre DEF HasFields
  <2>4. \A f \in Frame \ {"latest"} : u[f] = s[f]
    BY ONLY <1>2, <2>2, FieldsAre DEF HasFields, Frame
  <2> QED
    BY <2>1, <2>3, <2>4 DEF u
<1> HIDE DEF Listed, Cleared
<1>5. /\ HasFields(t, Fields) /\ HasFields(t.latest, LatestFields)
      /\ t.latest.authenticity = s.latest.authenticity
      /\ t.latest.provenance = s.latest.provenance
      /\ \A f \in Frame \ {"latest"} : t[f] = s[f]
  BY <1>1, <1>2, <1>3, <1>4
<1>6. /\ t.key = s.key /\ t.verifiedPubkey = s.verifiedPubkey /\ t.trusted = s.trusted
      /\ t.signingPresent = s.signingPresent /\ t.resetFirst = s.resetFirst
      /\ t.isFirstValidation = s.isFirstValidation
      /\ t.accumulated = s.accumulated /\ t.hasResult = s.hasResult
  BY <1>5 DEF Frame
<1>7. IsInLoop(s, before, trusted)
  BY DEF s
<1>8. KeyIsJudged(t, trusted)
  BY <1>6, <1>7 DEF KeyIsJudged, IsInLoop, IsReady
<1>9. IsReady(t, trusted)
  BY <1>5, <1>6, <1>7, <1>8 DEF IsInLoop, IsReady
<1>10. Other!Provenance(t) = Other!Provenance(s)
  BY <1>6 DEF Other!Provenance
<1> QED
  BY <1>5, <1>6, <1>7, <1>9, <1>10 DEF IsInLoop, IsDone, t

LEMMA MaybeValidateGopKeeps ==
  ASSUME NEW s, NEW trusted, NEW nalu, SessionInv(s, trusted), s.hasResult = FALSE
  PROVE  IsDone(Other!MaybeValidateGop(s, nalu), s, trusted)
<1> DEFINE t == Other!MaybeValidateGop(s, nalu)
<1>1. IsReady(s, trusted)
  BY DEF SessionInv, IsSession, FirstIsTold, IsReady
<1>2. IsDone(s, s, trusted)
  BY <1>1 DEF SessionInv, IsSession, FirstIsTold, IsDone
<1>3. CASE Other!IsFeasible(s, nalu)
  <2>1. s.key # 0 \/ ~s.signingPresent
    BY <1>3 DEF Other!IsFeasible
  <2>2. IsInLoop(s, s, trusted)
    BY <1>2, <2>1 DEF IsInLoop, IsDone
  <2>3. IsInLoop(Other!Rounds(s, nalu)[10].s, s, trusted)
    BY <2>2, RoundsKeep
  <2>4. IsDone(Other!EndValidation(Other!Rounds(s, nalu)[10]), s, trusted)
    BY <2>3, EndValidationKeeps
  <2>5. t = Other!EndValidation(Other!Rounds(s, nalu)[10])
    BY <1>3 DEF Other!MaybeValidateGop, Other!MaxLoop
  <2> QED
    BY <2>4, <2>5
<1>4. CASE ~Other!IsFeasible(s, nalu) /\ s.isFirstSei /\ nalu.kind = "sei"
  <2>1. s.key = 0 /\ s.isFirstValidation
    BY <1>4 DEF Other!IsFeasible, SessionInv, FirstIsTold
  <2> DEFINE pending == Other!NumPending(s.list)
             list == Other!UpdateStatus(s.list, TRUE)
             latest == [s.latest EXCEPT !.authenticity = 1, !.keyChanged = FALSE,
                                        !.expected = -1, !.received = -1,
                                        !.pending = pending]
  <2>2. t = [s EXCEPT !.latest = latest, !.hasResult = TRUE, !.isFirstSei = FALSE,
                      !.list = list]
    BY <1>4 DEF Other!MaybeValidateGop, Other!NotFeasible
  <2>3. /\ HasFields(latest, LatestFields) /\ latest.authenticity = 1
        /\ latest.provenance = s.latest.provenance
    BY <1>1, FieldsAre DEF IsReady, HasFields
  <2>4. HasFields(s, Fields)
    BY <1>1 DEF IsReady
  <2> HIDE DEF latest, list, t
  <2>5. /\ HasFields(t, Fields) /\ t.latest = latest
        /\ t.key = s.key /\ t.verifiedPubkey = s.verifiedPubkey /\ t.trusted = s.trusted
        /\ t.signingPresent = s.signingPresent /\ t.hasResult = TRUE
        /\ t.isFirstValidation = s.isFirstValidation /\ t.accumulated = s.accumulated
        /\ t.resetFirst = s.resetFirst
    BY ONLY <2>2, <2>4, FieldsAre DEF HasFields
  <2>6. KeyIsJudged(t, trusted)
    BY <1>1, <2>5 DEF IsReady, KeyIsJudged
  <2>7. IsReady(t, trusted)
    BY <1>1, <2>3, <2>5, <2>6 DEF IsReady
  <2> QED
    BY <1>2, <2>1, <2>3, <2>5, <2>7 DEF IsDone, t
<1>5. CASE ~Other!IsFeasible(s, nalu) /\ ~(s.isFirstSei /\ nalu.kind = "sei")
  <2>1. t = s
    BY <1>5 DEF Other!MaybeValidateGop
  <2> QED
    BY <1>2, <2>1
<1> QED
  BY <1>3, <1>4, <1>5

(* The NAL Unit is added to the list, a key perhaps taken over.            *)
LEMMA AddNaluKeeps ==
  ASSUME NEW s, NEW trusted, NEW nalu, SessionInv(s, trusted)
  PROVE  LET t == Other!AddNalu(s, nalu)
         IN  /\ SessionInv(t, trusted) /\ t.hasResult = FALSE
             /\ t.isFirstValidation = s.isFirstValidation
             /\ t.accumulated.authenticity = s.accumulated.authenticity
             /\ t.accumulated.both = s.accumulated.both
<1> DEFINE isSigned == nalu.kind = "sei" /\ nalu.data.signed
           registered == IF isSigned THEN Other!DecodeCertificates(s, nalu.data.cert) ELSE s
           isPresent == s.signingPresent \/ nalu.kind = "sei"
           received == s.accumulated.received + 1
           t == Other!AddNalu(s, nalu)
<1>1. /\ HasFields(s, Fields) /\ HasFields(s.latest, LatestFields)
      /\ HasFields(s.accumulated, AccumulatedFields) /\ KeyIsJudged(s, trusted)
  BY DEF SessionInv, IsSession
<1>2. KeepsResults(s, registered) /\ KeyIsJudged(registered, trusted)
  <2>1. KeepsResults(s, s)
    BY <1>1 DEF KeepsResults, Follows
  <2> QED
    BY <1>1, <2>1, DecodeCertificatesKeeps
<1>3. isPresent \in BOOLEAN /\ (s.signingPresent => isPresent)
  OBVIOUS
<1> HIDE DEF registered, isPresent, received
<1>4. /\ HasFields(t, Fields)
      /\ t.accumulated = [registered.accumulated EXCEPT !.received = received]
      /\ t.hasResult = FALSE /\ t.signingPresent = isPresent
      /\ t.key = registered.key /\ t.verifiedPubkey = registered.verifiedPubkey
      /\ t.trusted = registered.trusted /\ t.resetFirst = registered.resetFirst
      /\ t.isFirstValidation = registered.isFirstValidation
      /\ t.latest = registered.latest
  <2> DEFINE verified == isSigned /\ nalu.intact /\ nalu.data.key = registered.key
             gopStarts == IF nalu.kind = "I" THEN s.gopStarts + 1 ELSE s.gopStarts
             hash == [nalu |-> nalu.id,
                      anchor |-> IF nalu.kind \in {"I", "sei"} THEN nalu.id ELSE s.anchor]
             item == Other!NewItem(received, nalu, hash, verified)
             known == registered.hashAlgoKnown \/ (isSigned /\ nalu.data.cert # 0)
                        \/ (~isPresent /\ gopStarts > Other!MAX_NUM_UNHASHED_GOPS)
             anchor == IF nalu.kind = "I" THEN nalu.id ELSE registered.anchor
  <2>1. t = [registered EXCEPT
              !.accumulated.received = received, !.list = Append(@, item),
              !.anchor = anchor, !.hasResult = FALSE, !.signingPresent = isPresent,
              !.hashAlgoKnown = known, !.gopStarts = gopStarts]
    BY Zenon DEF Other!AddNalu, registered, isPresent, received
  <2>2. HasFields(registered, Fields)
    BY <1>2 DEF KeepsResults, Follows
  <2> HIDE DEF item, known, anchor, gopStarts, t
  <2> QED
    BY ONLY <2>1, <2>2, FieldsAre DEF HasFields
<1> HIDE DEF t
<1>5. /\ registered.accumulated = s.accumulated /\ registered.resetFirst = s.resetFirst
      /\ registered.isFirstValidation = s.isFirstValidation
      /\ registered.signingPresent = s.signingPresent
      /\ registered.latest.authenticity = s.latest.authenticity
      /\ registered.latest.provenance = s.latest.provenance
      /\ HasFields(registered.latest, LatestFields)
      /\ s.key # 0 => registered.key # 0
  BY <1>2 DEF KeepsResults, Follows
<1>6. /\ HasFields(t.accumulated, AccumulatedFields)
      /\ t.accumulated.authenticity = s.accumulated.authenticity
      /\ t.accumulated.provenance = s.accumulated.provenance
      /\ t.accumulated.both = s.accumulated.both
  BY <1>1, <1>4, <1>5, FieldsAre DEF HasFields
<1>7. IsSession(t)
  BY <1>3, <1>4, <1>5, <1>6 DEF SessionInv, IsSession
<1>8. KeyIsJudged(t, trusted)
  BY <1>2, <1>4 DEF KeyIsJudged
<1>9. FirstIsTold(t)
  BY <1>3, <1>4, <1>5 DEF SessionInv, FirstIsTold
<1>10. PartsAgree(t)
  BY <1>4, <1>5, <1>6 DEF SessionInv, PartsAgree
<1> QED
  BY <1>4, <1>5, <1>6, <1>7, <1>8, <1>9, <1>10 DEF SessionInv, t

LEMMA BothIs ==
  ASSUME NEW latest, latest.authenticity \in 0..4, latest.provenance \in 0..3
  PROVE  /\ Other!Both(latest) \in 0..3
         /\ Other!Both(latest) \in {1, 2} =>
              /\ latest.provenance = 3 /\ latest.authenticity \in {3, 4}
              /\ Other!Both(latest) = 2 => latest.authenticity = 4
         /\ Other!Both(latest) = 3 =>
              /\ latest.provenance \in {0, 3}
              /\ latest.provenance = 0 \/ latest.authenticity \in {0, 1}
              /\ latest.authenticity # 2
BY DEF Other!Both, Other!BothNotOk, Other!BothNotFeasible, Other!BothOkWithMissing,
       Other!BothOk, Other!ProvenanceNotOk, Other!ProvenanceWithoutTrusted,
       Other!ProvenanceNotFeasible, Other!NotOk, Other!NotFeasible, Other!NotSigned,
       Other!OkWithMissing

(* The results of a call, and what they make of those so far. *)
LEMMA AccumulateKeeps ==
  ASSUME NEW s, NEW trusted, IsReady(s, trusted), s.hasResult = TRUE,
         HasFields(s.accumulated, AccumulatedFields),
         s.latest.authenticity \in 0..4, s.latest.provenance \in 0..3,
         s.accumulated.authenticity \in 0..4, s.accumulated.provenance \in 0..3,
         s.accumulated.both \in 0..3, PartsAgree(s),
         ~s.isFirstValidation =>
           s.latest.authenticity \in {2, 3, 4} /\ s.latest.provenance \in {1, 2, 3}
  PROVE  LET new == Other!Accumulate(s.accumulated, s.latest)
         IN  /\ HasFields(new, AccumulatedFields)
             /\ new.authenticity = Other!Worse(s.accumulated.authenticity,
                                               s.latest.authenticity)
             /\ new.authenticity \in 0..4 /\ new.provenance \in 0..3 /\ new.both \in 0..3
             /\ new.both \in {1, 2} =>
                  /\ ~s.isFirstValidation
                  /\ new.authenticity \in {3, 4} /\ new.provenance = 3
                  /\ s.latest.provenance = 3
                  /\ new.both = 2 => new.authenticity = 4
             /\ new.both = 3 => new.authenticity \in {0, 1} /\ new.provenance \in {0, 3}
<1> DEFINE old == s.accumulated
           both == Other!Both(s.latest)
           worse == Other!Worse(old.authenticity, s.latest.authenticity)
           new == Other!Accumulate(old, s.latest)
<1>1. /\ HasFields(new, AccumulatedFields) /\ new.authenticity = worse
      /\ new.provenance = IF old.provenance = 0 \/ s.latest.provenance < old.provenance
                          THEN s.latest.provenance ELSE old.provenance
      /\ new.both = IF both < old.both THEN both ELSE old.both
  <2> HIDE DEF worse, both
  <2>1. new = [old EXCEPT
                !.authenticity = worse,
                !.provenance = IF @ = 0 \/ s.latest.provenance < @
                               THEN s.latest.provenance ELSE @,
                !.both = IF both < @ THEN both ELSE @,
                !.keyChanged = @ \/ s.latest.keyChanged]
    BY Zenon DEF Other!Accumulate, Other!ProvenanceNotFeasible, worse, both
  <2> HIDE DEF new
  <2> QED
    BY ONLY <2>1, HasFields(s.accumulated, AccumulatedFields), FieldsAre DEF HasFields
<1>2. /\ both \in 0..3
      /\ both \in {1, 2} =>
           /\ s.latest.provenance = 3 /\ s.latest.authenticity \in {3, 4}
           /\ both = 2 => s.latest.authenticity = 4
      /\ both = 3 =>
           /\ s.latest.provenance \in {0, 3}
           /\ s.latest.provenance = 0 \/ s.latest.authenticity \in {0, 1}
           /\ s.latest.authenticity # 2
  BY BothIs
<1>3. /\ old.both \in {1, 2} =>
           /\ ~s.isFirstValidation
           /\ old.authenticity \in {3, 4} /\ old.provenance = 3
           /\ old.both = 2 => old.authenticity = 4
      /\ old.both = 3 => old.authenticity \in {0, 1} /\ old.provenance \in {0, 3}
  BY DEF PartsAgree
<1>4. s.isFirstValidation => s.latest.authenticity \in {0, 1, 2}
  BY DEF IsReady
<1>5. /\ old.authenticity <= 1 => worse = s.latest.authenticity
      /\ worse \in {old.authenticity, s.latest.authenticity}
  BY WorseIs
<1> HIDE DEF new, both, worse
<1>6. CASE both < old.both
  <2>1. new.both = both
    BY <1>1, <1>6
  <2>2. ASSUME both \in {1, 2}
        PROVE  /\ ~s.isFirstValidation
               /\ new.authenticity \in {3, 4} /\ new.provenance = 3
               /\ both = 2 => new.authenticity = 4
    BY <1>1, <1>2, <1>3, <1>4, <1>5, <1>6, <2>2
  <2> QED
    BY <1>1, <1>2, <1>5, <1>6, <2>1, <2>2 DEF new, worse
<1>7. CASE ~(both < old.both)
  <2>1. new.both = old.both
    BY <1>1, <1>7
  <2>2. ASSUME old.both \in {1, 2}
        PROVE  /\ ~s.isFirstValidation /\ s.latest.provenance = 3
               /\ new.authenticity \in {3, 4} /\ new.provenance = 3
               /\ old.both = 2 => new.authenticity = 4
    BY <1>1, <1>2, <1>3, <1>4, <1>5, <1>7, <2>2
  <2>3. ASSUME old.both = 3
        PROVE  new.authenticity \in {0, 1} /\ new.provenance \in {0, 3}
    BY <1>1, <1>2, <1>3, <1>4, <1>5, <1>7, <2>3
  <2> QED
    BY <1>1, <1>2, <1>5, <1>7, <2>1, <2>2, <2>3 DEF new, worse
<1> QED
  BY <1>6, <1>7

LEMMA UpdateReportKeeps ==
  ASSUME NEW s, NEW before, NEW trusted, IsDone(s, before, trusted),
         SessionInv(before, trusted)
  PROVE  LET t == Other!UpdateReport(s)
         IN  /\ SessionInv(t, trusted)
             /\ t.isFirstValidation = s.isFirstValidation /\ t.key = s.key
             /\ s.hasResult /\ t.accumulated.both \in {1, 2} => t.key \in trusted
             /\ t.accumulated.authenticity = 2
                 \/ before.accumulated.authenticity # 2 \/ s.isFirstValidation
<1> DEFINE t == Other!UpdateReport(s)
           new == Other!Accumulate(s.accumulated, s.latest)
<1>1. /\ HasFields(s, Fields) /\ HasFields(s.latest, LatestFields)
      /\ s.isFirstValidation \in BOOLEAN /\ s.hasResult \in BOOLEAN
      /\ s.signingPresent \in BOOLEAN /\ s.resetFirst = FALSE
      /\ s.latest.authenticity \in 0..4 /\ s.latest.provenance \in 0..3
      /\ s.isFirstValidation => s.latest.authenticity \in {0, 1, 2}
      /\ ~s.isFirstValidation =>
           s.signingPresent /\ s.key # 0 /\ s.latest.authenticity \in {2, 3, 4}
             /\ s.latest.provenance \in {1, 2, 3}
      /\ s.hasResult /\ ~s.isFirstValidation => s.latest.provenance = Other!Provenance(s)
      /\ IsReady(s, trusted) /\ KeyIsJudged(s, trusted)
  BY DEF IsDone, IsReady
<1>2. /\ s.accumulated = before.accumulated
      /\ HasFields(s.accumulated, AccumulatedFields)
      /\ s.accumulated.authenticity \in 0..4 /\ s.accumulated.provenance \in 0..3
      /\ s.accumulated.both \in 0..3
      /\ s.isFirstValidation => before.isFirstValidation
  BY DEF IsDone, SessionInv, IsSession
<1>3. PartsAgree(s)
  BY <1>2 DEF SessionInv, PartsAgree
<1>4. CASE ~s.hasResult
  <2>1. t = s
    BY <1>4 DEF Other!UpdateReport
  <2>2. IsSession(s)
    BY <1>1, <1>2 DEF IsSession
  <2>3. FirstIsTold(s)
    BY <1>1 DEF FirstIsTold
  <2> QED
    BY <1>1, <1>2, <1>3, <1>4, <2>1, <2>2, <2>3 DEF SessionInv
<1>5. CASE s.hasResult
  <2>1. /\ HasFields(new, AccumulatedFields)
        /\ new.authenticity = Other!Worse(s.accumulated.authenticity,
                                          s.latest.authenticity)
        /\ new.authenticity \in 0..4 /\ new.provenance \in 0..3 /\ new.both \in 0..3
        /\ new.both \in {1, 2} =>
             /\ ~s.isFirstValidation
             /\ new.authenticity \in {3, 4} /\ new.provenance = 3
             /\ s.latest.provenance = 3
             /\ new.both = 2 => new.authenticity = 4
        /\ new.both = 3 => new.authenticity \in {0, 1} /\ new.provenance \in {0, 3}
    BY <1>1, <1>2, <1>3, <1>5, AccumulateKeeps
  <2> DEFINE validated == Other!Validated(s.list)
             num == Other!Cardinality({k \in DOMAIN validated : validated[k].status # Other!Missing})
             list == SubSeq(s.list, Len(validated) + 1, Len(s.list))
             count == IF new.authenticity # 0 THEN new.validated + num ELSE new.validated
             overall == [new EXCEPT !.validated = count]
  <2>2. t = [s EXCEPT !.list = list, !.accumulated = overall]
    BY <1>5 DEF Other!UpdateReport, Other!NotSigned
  <2> HIDE DEF new, list, count
  <2>3. /\ HasFields(overall, AccumulatedFields)
        /\ overall.authenticity = new.authenticity
        /\ overall.provenance = new.provenance /\ overall.both = new.both
    BY ONLY <2>1, FieldsAre DEF HasFields
  <2>4. HasFields(s, Fields)
    BY <1>1
  <2> HIDE DEF overall, t
  <2>5. /\ HasFields(t, Fields) /\ t.accumulated = overall /\ t.latest = s.latest
        /\ t.key = s.key /\ t.verifiedPubkey = s.verifiedPubkey /\ t.trusted = s.trusted
        /\ t.signingPresent = s.signingPresent /\ t.hasResult = s.hasResult
        /\ t.isFirstValidation = s.isFirstValidation /\ t.resetFirst = s.resetFirst
    BY ONLY <2>2, <2>4, FieldsAre DEF HasFields
  <2>6. IsSession(t)
    BY <1>1, <2>1, <2>3, <2>5 DEF IsSession
  <2>7. KeyIsJudged(t, trusted)
    BY <1>1, <2>5 DEF KeyIsJudged
  <2>8. FirstIsTold(t)
    BY <1>1, <2>5 DEF FirstIsTold
  <2>9. PartsAgree(t)
    BY <2>1, <2>3, <2>5 DEF PartsAgree
  <2>10. ASSUME t.accumulated.both \in {1, 2} PROVE t.key \in trusted
    <3>1. Other!Provenance(s) = 3
      BY <1>1, <1>5, <2>1, <2>3, <2>5, <2>10
    <3> QED
      BY <1>1, <2>5, <3>1, ProvenanceIs
  <2>11. ASSUME ~s.isFirstValidation, before.accumulated.authenticity = 2
         PROVE  t.accumulated.authenticity = 2
    BY <1>1, <1>2, <2>1, <2>3, <2>5, <2>11, WorseIs
  <2> QED
    BY <1>1, <2>5, <2>6, <2>7, <2>8, <2>9, <2>10, <2>11 DEF SessionInv, t
<1> QED
  BY <1>1, <1>4, <1>5

-----------------------------------------------------------------------------
(* The steps.                                                              *)

(* What one step may not do: what NotOkStays says of it. *)
StaysNotOk ==
  Authenticity = Other!NotOk /\ ~session.isFirstValidation =>
    Authenticity' = Other!NotOk \/ session'.accumulated.received = 0

LEMMA NewSessionIs ==
  LET new == Other!NewSession
  IN  /\ HasFields(new, Fields) /\ HasFields(new.latest, LatestFields)
      /\ HasFields(new.accumulated, AccumulatedFields)
      /\ new.isFirstValidation = TRUE /\ new.resetFirst = FALSE
      /\ new.signingPresent = FALSE /\ new.hasResult = FALSE
      /\ new.key = 0 /\ new.verifiedPubkey = -1
      /\ new.latest.authenticity = 0 /\ new.latest.provenance = 0
      /\ new.accumulated.authenticity = 0 /\ new.accumulated.provenance = 0
      /\ new.accumulated.both = 3 /\ new.accumulated.received = 0
<1> DEFINE new == Other!NewSession
<1>1. new.latest = [authenticity |-> 0, provenance |-> 0, keyChanged |-> FALSE,
                    expected |-> -1, received |-> -1, pending |-> 0]
  BY DEF Other!NewSession, Other!NotSigned, Other!ProvenanceNotFeasible
<1>2. new.accumulated = [authenticity |-> 0, provenance |-> 0, both |-> 3,
                         keyChanged |-> FALSE, received |-> 0, validated |-> 0]
  BY DEF Other!NewSession, Other!NotSigned, Other!ProvenanceNotFeasible,
         Other!BothNotFeasible
<1>3. /\ new.isFirstValidation = TRUE /\ new.resetFirst = FALSE
      /\ new.signingPresent = FALSE /\ new.hasResult = FALSE
      /\ new.key = 0 /\ new.verifiedPubkey = -1
  BY DEF Other!NewSession
<1>4. HasFields(new, Fields)
  BY Zenon DEF Fields, HasFields, Other!NewSession
<1> HIDE DEF new
<1>5. HasFields(new.latest, LatestFields)
  BY <1>1, FieldsAre DEF HasFields
<1>6. HasFields(new.accumulated, AccumulatedFields)
  BY <1>2, FieldsAre DEF HasFields
<1> QED
  BY <1>1, <1>2, <1>3, <1>4, <1>5, <1>6 DEF new

LEMMA InitHolds == StreamInit => IInv
<1> SUFFICES ASSUME StreamInit PROVE IInv
  OBVIOUS
<1>1. /\ session = [Other!NewSession EXCEPT !.trusted = scenario.trusted]
      /\ report = <<>> /\ anchors = {scenario.trusted} \ {0}
  BY DEF StreamInit
<1> DEFINE new == Other!NewSession
<1>2. /\ HasFields(new, Fields) /\ HasFields(new.latest, LatestFields)
      /\ HasFields(new.accumulated, AccumulatedFields)
      /\ new.isFirstValidation = TRUE /\ new.resetFirst = FALSE
      /\ new.signingPresent = FALSE /\ new.hasResult = FALSE
      /\ new.key = 0 /\ new.verifiedPubkey = -1
      /\ new.latest.authenticity = 0 /\ new.latest.provenance = 0
      /\ new.accumulated.authenticity = 0 /\ new.accumulated.provenance = 0
      /\ new.accumulated.both = 3
  BY NewSessionIs
<1> HIDE DEF new
<1>3. /\ HasFields(session, Fields) /\ session.trusted = scenario.trusted
      /\ \A f \in Frame \ {"trusted"} : session[f] = new[f]
  BY <1>1, <1>2, FieldsAre DEF HasFields, Frame, new
<1>4. /\ session.key = new.key /\ session.verifiedPubkey = new.verifiedPubkey
      /\ session.signingPresent = new.signingPresent
      /\ session.isFirstValidation = new.isFirstValidation
      /\ session.resetFirst = new.resetFirst /\ session.latest = new.latest
      /\ session.accumulated = new.accumulated /\ session.hasResult = new.hasResult
  BY <1>3 DEF Frame
<1>5. IsSession(session)
  <2>1. /\ session.isFirstValidation = TRUE /\ session.resetFirst = FALSE
        /\ session.signingPresent = FALSE /\ session.hasResult = FALSE
    BY ONLY <1>2, <1>4
  <2>2. /\ HasFields(session.latest, LatestFields)
        /\ HasFields(session.accumulated, AccumulatedFields)
    BY ONLY <1>2, <1>4
  <2>3. /\ session.latest.authenticity = 0 /\ session.latest.provenance = 0
        /\ session.accumulated.authenticity = 0 /\ session.accumulated.provenance = 0
        /\ session.accumulated.both = 3
    BY ONLY <1>2, <1>4
  <2> QED
    <3>1. /\ session.isFirstValidation \in BOOLEAN /\ session.resetFirst \in BOOLEAN
          /\ session.signingPresent \in BOOLEAN /\ session.hasResult \in BOOLEAN
      BY ONLY <2>1
    <3>2. /\ session.latest.authenticity \in 0..4 /\ session.latest.provenance \in 0..3
          /\ session.accumulated.authenticity \in 0..4
          /\ session.accumulated.provenance \in 0..3 /\ session.accumulated.both \in 0..3
      BY ONLY <2>3
    <3>3. HasFields(session, Fields)
      BY ONLY <1>3
    <3> QED
      BY ONLY <2>2, <3>1, <3>2, <3>3 DEF IsSession
<1>6. KeyIsJudged(session, anchors)
  BY <1>1, <1>2, <1>3, <1>4 DEF KeyIsJudged
<1>7. FirstIsTold(session)
  BY <1>2, <1>4 DEF FirstIsTold
<1>8. PartsAgree(session)
  BY <1>2, <1>4 DEF PartsAgree
<1> QED
  BY <1>1, <1>5, <1>6, <1>7, <1>8 DEF IInv, SessionInv, ReportIsTrusted

LEMMA ReceiveKeeps == IInv /\ Receive => IInv' /\ StaysNotOk
<1> SUFFICES ASSUME IInv, Receive PROVE IInv' /\ StaysNotOk
  OBVIOUS
<1> DEFINE added == Other!AddNalu(session, wire[1])
           done == Other!MaybeValidateGop(added, wire[1])
<1>1. SessionInv(session, anchors) /\ anchors' = anchors
  BY DEF IInv, Receive
<1>2. /\ SessionInv(added, anchors) /\ added.hasResult = FALSE
      /\ added.isFirstValidation = session.isFirstValidation
      /\ added.accumulated.authenticity = session.accumulated.authenticity
  <2>1. \A s, trusted, nalu : SessionInv(s, trusted) =>
          LET t == Other!AddNalu(s, nalu)
          IN  /\ SessionInv(t, trusted) /\ t.hasResult = FALSE
              /\ t.isFirstValidation = s.isFirstValidation
              /\ t.accumulated.authenticity = s.accumulated.authenticity
    BY AddNaluKeeps
  <2> QED
    BY <1>1, <2>1, Zenon
<1>3. \/ session' = Other!Fail(added) /\ report' = <<>>
      \/ /\ session' = Other!UpdateReport(done)
         /\ ~done.hasResult => report' = <<>>
  BY DEF Receive, Other!AddNaluAndAuthenticate, Other!Answer
<1> HIDE DEF added
<1>4. CASE session' = Other!Fail(added) /\ report' = <<>>
  <2> DEFINE last == Len(added.list)
             item == [added.list[last] EXCEPT !.status = Other!Error, !.tmp = Other!Error]
             list == [added.list EXCEPT ![last] = item]
  <2>1. session' = [added EXCEPT !.list = list]
    BY <1>4 DEF Other!Fail
  <2> HIDE DEF list
  <2>2. HasFields(added, Fields)
    BY <1>2 DEF SessionInv, IsSession
  <2>3. HasFields(session', Fields) /\ \A f \in Frame : session'[f] = added[f]
    BY ONLY <2>1, <2>2, FieldsAre DEF HasFields, Frame
  <2>4. /\ session'.key = added.key /\ session'.verifiedPubkey = added.verifiedPubkey
        /\ session'.trusted = added.trusted
        /\ session'.signingPresent = added.signingPresent
        /\ session'.isFirstValidation = added.isFirstValidation
        /\ session'.resetFirst = added.resetFirst /\ session'.latest = added.latest
        /\ session'.accumulated = added.accumulated
        /\ session'.hasResult = added.hasResult
    BY <2>3 DEF Frame
  <2>5. SessionInv(session', anchors)
    BY <1>2, <2>3, <2>4 DEF SessionInv, IsSession, KeyIsJudged, FirstIsTold, PartsAgree
  <2>6. StaysNotOk
    BY <1>2, <2>4 DEF StaysNotOk, Authenticity
  <2> QED
    BY <1>1, <1>4, <2>5, <2>6 DEF IInv, ReportIsTrusted
<1>5. CASE session' = Other!UpdateReport(done) /\ (~done.hasResult => report' = <<>>)
  <2>1. IsDone(done, added, anchors)
    BY <1>2, MaybeValidateGopKeeps
  <2> HIDE DEF done
  <2>2. /\ SessionInv(session', anchors)
        /\ done.hasResult /\ session'.accumulated.both \in {1, 2} => session'.key \in anchors
        /\ session'.accumulated.authenticity = 2
            \/ added.accumulated.authenticity # 2 \/ done.isFirstValidation
    BY <1>2, <1>5, <2>1, UpdateReportKeeps
  <2>3. ReportIsTrusted'
    BY <1>1, <1>5, <2>2 DEF ReportIsTrusted
  <2>4. done.isFirstValidation => session.isFirstValidation
    BY <1>2, <2>1 DEF IsDone
  <2>5. StaysNotOk
    BY <1>2, <2>2, <2>4 DEF StaysNotOk, Authenticity, Other!NotOk
  <2> QED
    BY <1>1, <2>2, <2>3, <2>5 DEF IInv
<1> QED
  BY <1>3, <1>4, <1>5

LEMMA StartOverKeeps == IInv /\ StartOver => IInv' /\ StaysNotOk
<1> SUFFICES ASSUME IInv, StartOver PROVE IInv' /\ StaysNotOk
  OBVIOUS
<1> DEFINE known == IF session.hashAlgoKnown THEN session.anchor ELSE 0
           authenticity ==
             IF session.accumulated.authenticity = Other!NotSigned THEN 0 ELSE 1
<1>1. /\ session' = [Other!NewSession EXCEPT
           !.anchor = known, !.hashAlgoKnown = session.hashAlgoKnown, !.key = session.key,
           !.verifiedPubkey = session.verifiedPubkey, !.trusted = session.trusted,
           !.signingPresent = session.signingPresent,
           !.accumulated.authenticity = authenticity]
      /\ report' = <<>> /\ anchors' = anchors
  BY DEF StartOver, Other!Reset, Other!NotSigned, Other!NotFeasible
<1>2. authenticity \in {0, 1}
  OBVIOUS
<1>3. /\ IsSession(session) /\ KeyIsJudged(session, anchors)
  BY DEF IInv, SessionInv
<1> HIDE DEF known, authenticity
<1> DEFINE new == Other!NewSession
           overall == [new.accumulated EXCEPT !.authenticity = authenticity]
<1>4. /\ HasFields(new, Fields) /\ HasFields(new.latest, LatestFields)
      /\ HasFields(new.accumulated, AccumulatedFields)
      /\ new.isFirstValidation = TRUE /\ new.resetFirst = FALSE /\ new.hasResult = FALSE
      /\ new.latest.authenticity = 0 /\ new.latest.provenance = 0
      /\ new.accumulated.provenance = 0 /\ new.accumulated.both = 3
      /\ new.accumulated.received = 0
  BY NewSessionIs
<1>5. session' = [new EXCEPT
        !.anchor = known, !.hashAlgoKnown = session.hashAlgoKnown, !.key = session.key,
        !.verifiedPubkey = session.verifiedPubkey, !.trusted = session.trusted,
        !.signingPresent = session.signingPresent, !.accumulated = overall]
  BY <1>1
<1> HIDE DEF new
<1>6. /\ HasFields(overall, AccumulatedFields) /\ overall.authenticity = authenticity
      /\ overall.provenance = 0 /\ overall.both = 3 /\ overall.received = 0
  BY ONLY <1>4, FieldsAre DEF HasFields
<1> HIDE DEF overall
<1>7. /\ HasFields(session', Fields)
      /\ session'.key = session.key /\ session'.verifiedPubkey = session.verifiedPubkey
      /\ session'.trusted = session.trusted
      /\ session'.signingPresent = session.signingPresent
      /\ session'.accumulated = overall /\ session'.latest = new.latest
      /\ session'.isFirstValidation = new.isFirstValidation
      /\ session'.resetFirst = new.resetFirst /\ session'.hasResult = new.hasResult
  BY ONLY <1>4, <1>5, FieldsAre DEF HasFields
<1>8. IsSession(session')
  <2>1. /\ session'.isFirstValidation = TRUE /\ session'.resetFirst = FALSE
        /\ session'.hasResult = FALSE
    BY ONLY <1>4, <1>7
  <2>2. session.signingPresent \in BOOLEAN
    BY ONLY <1>3 DEF IsSession
  <2>3. session'.signingPresent \in BOOLEAN
    BY ONLY <1>7, <2>2
  <2>4. /\ HasFields(session'.latest, LatestFields)
        /\ HasFields(session'.accumulated, AccumulatedFields)
        /\ session'.latest.authenticity = 0 /\ session'.latest.provenance = 0
        /\ session'.accumulated.provenance = 0 /\ session'.accumulated.both = 3
        /\ session'.accumulated.authenticity \in {0, 1}
    BY ONLY <1>2, <1>4, <1>6, <1>7
  <2> QED
    <3>1. /\ session'.isFirstValidation \in BOOLEAN /\ session'.resetFirst \in BOOLEAN
          /\ session'.hasResult \in BOOLEAN
      BY ONLY <2>1
    <3>2. /\ session'.latest.authenticity \in 0..4 /\ session'.latest.provenance \in 0..3
          /\ session'.accumulated.authenticity \in 0..4
          /\ session'.accumulated.provenance \in 0..3 /\ session'.accumulated.both \in 0..3
      BY ONLY <2>4
    <3>3. HasFields(session', Fields)
      BY ONLY <1>7
    <3> QED
      BY ONLY <2>3, <2>4, <3>1, <3>2, <3>3 DEF IsSession
<1>9. KeyIsJudged(session', anchors)
  BY <1>3, <1>7 DEF KeyIsJudged
<1>10. FirstIsTold(session')
  BY <1>4, <1>7 DEF FirstIsTold
<1>11. PartsAgree(session')
  BY <1>2, <1>6, <1>7 DEF PartsAgree
<1> QED
  BY <1>1, <1>6, <1>7, <1>8, <1>9, <1>10, <1>11
     DEF IInv, SessionInv, ReportIsTrusted, StaysNotOk

LEMMA SetTrustedKeeps ==
  ASSUME NEW certificate, IInv, SetTrusted(certificate)
  PROVE  IInv' /\ StaysNotOk
<1>1. /\ session' = [session EXCEPT !.trusted = IF @ = 0 THEN certificate ELSE 0]
      /\ report' = report /\ anchors' = anchors \cup ({session'.trusted} \ {0})
  BY DEF SetTrusted, Other!SetTrustedCertificate
<1>2. SessionInv(session, anchors) /\ ReportIsTrusted
  BY DEF IInv
<1>3. /\ HasFields(session', Fields)
      /\ \A f \in Frame \ {"trusted"} : session'[f] = session[f]
  BY <1>1, <1>2, FieldsAre DEF SessionInv, IsSession, HasFields, Frame
<1>4. /\ session'.key = session.key /\ session'.verifiedPubkey = session.verifiedPubkey
      /\ session'.signingPresent = session.signingPresent
      /\ session'.isFirstValidation = session.isFirstValidation
      /\ session'.resetFirst = session.resetFirst /\ session'.latest = session.latest
      /\ session'.accumulated = session.accumulated
      /\ session'.hasResult = session.hasResult
  BY <1>3 DEF Frame
<1>5. KeyIsJudged(session', anchors')
  BY <1>1, <1>2, <1>4 DEF SessionInv, KeyIsJudged
<1>6. SessionInv(session', anchors')
  BY <1>2, <1>3, <1>4, <1>5 DEF SessionInv, IsSession, FirstIsTold, PartsAgree
<1>7. ReportIsTrusted'
  BY <1>1, <1>2, <1>4 DEF ReportIsTrusted
<1>8. StaysNotOk
  BY <1>4 DEF StaysNotOk, Authenticity
<1> QED
  BY <1>6, <1>7, <1>8 DEF IInv

(* No other step touches the validation session. *)
LEMMA NextKeeps == IInv /\ [StreamNext]_streamVars => IInv' /\ StaysNotOk
<1> SUFFICES ASSUME IInv, [StreamNext]_streamVars PROVE IInv' /\ StaysNotOk
  OBVIOUS
<1>1. ASSUME UNCHANGED <<validator, anchors>> PROVE IInv' /\ StaysNotOk
  <2>1. session' = session /\ report' = report /\ anchors' = anchors
    BY <1>1 DEF validator
  <2> QED
    BY <2>1 DEF IInv, ReportIsTrusted, StaysNotOk, Authenticity
<1>2. ASSUME NEW kind \in scenario.kinds, Sign(kind) PROVE UNCHANGED <<validator, anchors>>
  BY <1>2 DEF Sign, Send
<1>3. CASE FetchCertificateSei
  BY <1>1, <1>3 DEF FetchCertificateSei, Send
<1>4. CASE FetchSei
  BY <1>1, <1>4 DEF FetchSei, Send
<1>5. CASE End
  BY <1>1, <1>5 DEF End
<1>6. CASE RestartWithNewKey
  BY <1>1, <1>6 DEF RestartWithNewKey
<1>7. CASE Lose \/ Change \/ Delay \/ Release \/ TuneIn
  BY <1>1, <1>7 DEF Lose, Change, Delay, Release, TuneIn
<1>8. CASE UNCHANGED streamVars
  BY <1>1, <1>8 DEF streamVars
<1> QED
  BY <1>1, <1>2, <1>3, <1>4, <1>5, <1>6, <1>7, <1>8, ReceiveKeeps, StartOverKeeps,
     SetTrustedKeeps DEF StreamNext

(* The invariant that the theorems below rest on holds of every session,   *)
(* however the parts of the validator change its results in one call.      *)
THEOREM Invariance == StreamSpec => []IInv
<1>1. StreamInit => IInv
  BY InitHolds
<1>2. IInv /\ [StreamNext]_streamVars => IInv'
  BY NextKeeps
<1> QED
  BY <1>1, <1>2, PTL DEF StreamSpec

(* However much of the stream is lost, changed or delayed, and whichever   *)
(* side starts over: the overall result is never better than its parts     *)
(* (update_accumulated_validation(), openssl_verify_certificate_chain()).  *)
THEOREM OkIsEarned == StreamSpec => []OverallOkIsEarned
<1>1. IInv => OverallOkIsEarned
  BY DEF IInv, SessionInv, PartsAgree, ReportIsTrusted, OverallOkIsEarned,
     Other!BothOk, Other!BothOkWithMissing, Other!Ok, Other!OkWithMissing,
     Other!ProvenanceOk
<1> QED
  BY <1>1, Invariance, PTL

(* And once the first validation is over a stream that is found not        *)
(* authentic stays that (maybe_validate_gop(), update_accumulated_validation()). *)
THEOREM NotOkIsKept == StreamSpec => NotOkStays
<1>1. IInv /\ [StreamNext]_streamVars =>
        [Authenticity = Other!NotOk /\ ~session.isFirstValidation =>
           Authenticity' = Other!NotOk \/ session'.accumulated.received = 0]_streamVars
  BY NextKeeps DEF StaysNotOk
<1> QED
  BY <1>1, Invariance, PTL DEF StreamSpec, NotOkStays

-----------------------------------------------------------------------------
(* The items of the list.                                                  *)

Hash == [nalu : Int, anchor : Int]
SeiData ==
  [counter : 0..(CounterRange - 1), gopHash : Seq(Hash), numNalus : Nat, list : Seq(Hash),
   linked : Seq(Hash), triggered : BOOLEAN, signed : BOOLEAN, isCertificate : BOOLEAN,
   key : {0} \cup Keys, cert : {0} \cup Keys]
Nalus == [kind : Kinds, id : Int, data : SeiData, intact : BOOLEAN]

Verdicts == {Other!Unset, Other!Valid, Other!Invalid, Other!Unknown}
SeiStatuses == {Other!Pending, Other!Valid, Other!Invalid, Other!Unknown}

Items ==
  [at : Nat, nalu : Nalus \cup {[kind |-> "missing"]}, hash : Hash \cup {<<>>},
   status : Statuses, tmp : Statuses, verified : BOOLEAN, ifSeiOk : Verdicts, sei : Nat,
   decoded : BOOLEAN, inValidation : BOOLEAN]

(* Only the items that stand for missing NAL Units have not arrived; a     *)
(* status that differs from the one before, or that is of a SEI in         *)
(* validation, is one that a SEI can have.                                 *)
SoundItems ==
  {item \in Items :
     /\ item.at = 0 <=> item.status = Other!Missing
     /\ item.at = 0 => item.nalu = [kind |-> "missing"]
     /\ item.at # 0 => item.nalu \in Nalus
     /\ item.status = item.tmp \/ (item.status \in SeiStatuses /\ item.tmp \in SeiStatuses)
     /\ item.inValidation => Other!IsSei(item) /\ item.status \in SeiStatuses}

Arrived(list) == {list[k].at : k \in DOMAIN list} \ {0}

(* The items are in the order of their arrival, and the SEI that an item   *)
(* is associated with comes after it.                                      *)
Ordered(list) ==
  \A j, k \in DOMAIN list :
    /\ j < k /\ list[k].at # 0 => list[j].at < list[k].at
    /\ j <= k /\ list[k].sei # 0 => list[j].at < list[k].sei

PointsInto(list, numbers) == \A k \in DOMAIN list : list[k].sei \in {0} \cup numbers

ListOK(list) ==
  list \in Seq(SoundItems) /\ Ordered(list) /\ PointsInto(list, Arrived(list))

(* A list after something was done to it, without an arrival. *)
Reshaped(list, new) == ListOK(new) /\ Arrived(new) = Arrived(list)

(* An item whose statuses have changed, or whose association is lost. *)
Preserved(item, new) == new \in SoundItems /\ new.at = item.at /\ new.sei \in {item.sei, 0}

LEMMA Characters ==
  /\ Other!Pending = "P" /\ Other!Valid = "." /\ Other!Invalid = "N" /\ Other!Unknown = "U"
  /\ Other!Ignored = "_" /\ Other!Missing = "M" /\ Other!Error = "E" /\ Other!Unset = " "
BY DEF Other!Pending, Other!Valid, Other!Invalid, Other!Unknown, Other!Ignored, Other!Missing,
       Other!Error, Other!Unset

LEMMA SeqFacts ==
  ASSUME NEW S, NEW list \in Seq(S)
  PROVE  /\ Len(list) \in Nat /\ DOMAIN list = 1..Len(list)
         /\ \A k \in DOMAIN list : list[k] \in S
OBVIOUS

LEMMA FunctionIsSeq ==
  ASSUME NEW S, NEW list, NEW n \in Nat, list = [k \in 1..n |-> list[k]],
         \A k \in 1..n : list[k] \in S
  PROVE  list \in Seq(S) /\ Len(list) = n
<1>1. list \in [1..n -> S]
  OBVIOUS
<1> QED
  BY <1>1

LEMMA ReshapedTwice ==
  ASSUME NEW list, NEW new, NEW newer, Reshaped(list, new), Reshaped(new, newer)
  PROVE  Reshaped(list, newer)
BY DEF Reshaped

LEMMA ReshapedItself ==
  ASSUME NEW list, ListOK(list)
  PROVE  Reshaped(list, list)
BY DEF Reshaped

LEMMA KeepsItself ==
  ASSUME NEW item \in SoundItems
  PROVE  Preserved(item, item)
BY DEF Preserved

(* Every item is changed where it is. *)
LEMMA EachKept ==
  ASSUME NEW list, ListOK(list), NEW new, new = [k \in DOMAIN list |-> new[k]],
         \A k \in DOMAIN list : Preserved(list[k], new[k])
  PROVE  Reshaped(list, new) /\ DOMAIN new = DOMAIN list /\ Len(new) = Len(list)
<1>1. list \in Seq(SoundItems)
  BY DEF ListOK
<1>2. Len(list) \in Nat /\ DOMAIN list = 1..Len(list)
  BY <1>1
<1>3. \A k \in DOMAIN list : /\ new[k] \in SoundItems /\ new[k].at = list[k].at
                             /\ new[k].sei \in {list[k].sei, 0}
  BY DEF Preserved
<1>4. DOMAIN new = DOMAIN list
  OBVIOUS
<1>5. new \in Seq(SoundItems) /\ Len(new) = Len(list)
  BY <1>2, <1>3, FunctionIsSeq
<1>6. Arrived(new) = Arrived(list)
  BY <1>3, <1>4 DEF Arrived
<1>7. Ordered(new)
  BY <1>3, <1>4 DEF Ordered, ListOK
<1>8. PointsInto(new, Arrived(list))
  BY <1>3, <1>4 DEF PointsInto, ListOK
<1> QED
  BY <1>4, <1>5, <1>6, <1>7, <1>8 DEF Reshaped, ListOK

LEMMA WithItemKeeps ==
  ASSUME NEW list, ListOK(list), NEW k, NEW item, k \in DOMAIN list => Preserved(list[k], item)
  PROVE  Reshaped(list, Other!WithItem(list, k, item))
<1> DEFINE new == Other!WithItem(list, k, item)
<1>1. new = [j \in DOMAIN list |-> new[j]]
      /\ \A j \in DOMAIN list : new[j] = IF j = k THEN item ELSE list[j]
  BY DEF Other!WithItem
<1>2. \A j \in DOMAIN list : Preserved(list[j], list[j])
  BY KeepsItself DEF ListOK
<1> HIDE DEF new
<1> QED
  BY <1>1, <1>2, EachKept DEF new

-----------------------------------------------------------------------------
(* The changes of an item.                                                 *)

LEMMA ItemTyped ==
  ASSUME NEW item \in SoundItems
  PROVE  /\ item \in Items
         /\ item.at \in Nat /\ item.sei \in Nat /\ item.ifSeiOk \in Verdicts
         /\ item.status \in Statuses /\ item.tmp \in Statuses
         /\ item.at # 0 => item.nalu \in Nalus
         /\ Other!IsSei(item) => item.at # 0
         /\ item.tmp \in SeiStatuses <=> item.status \in SeiStatuses
         /\ item.at # 0 <=> item.tmp # Other!Missing
         /\ item.tmp = Other!Pending => item.at # 0 /\ item.status \in SeiStatuses
<1>1. /\ item \in Items
      /\ item.at \in Nat /\ item.sei \in Nat /\ item.ifSeiOk \in Verdicts
      /\ item.status \in Statuses /\ item.tmp \in Statuses
  BY DEF SoundItems, Items
<1>2. /\ item.at = 0 <=> item.status = Other!Missing
      /\ item.at = 0 => item.nalu = [kind |-> "missing"]
      /\ item.at # 0 => item.nalu \in Nalus
      /\ item.status = item.tmp \/ (item.status \in SeiStatuses /\ item.tmp \in SeiStatuses)
  BY DEF SoundItems
<1>3. Other!IsSei(item) => item.nalu # [kind |-> "missing"]
  BY DEF Other!IsSei
<1>4. Other!Missing \notin SeiStatuses /\ Other!Pending \in SeiStatuses
  BY Characters DEF SeiStatuses
<1> QED
  BY <1>1, <1>2, <1>3, <1>4

(* What has to be shown of a changed item. *)
LEMMA ChangeKeeps ==
  ASSUME NEW item \in SoundItems, NEW new \in Items,
         new.at = item.at, new.nalu = item.nalu, new.sei \in {item.sei, 0},
         \/ new.status = item.status /\ new.tmp = item.tmp
         \/ /\ item.at # 0
            /\ \/ new.status \in SeiStatuses /\ new.tmp \in SeiStatuses
               \/ /\ new.status = Other!Error /\ new.tmp = Other!Error
                  /\ ~new.inValidation,
         new.inValidation => item.inValidation \/ (Other!IsSei(item) /\ new.status \in SeiStatuses)
  PROVE  Preserved(item, new)
<1>1. Other!IsSei(new) <=> Other!IsSei(item)
  BY DEF Other!IsSei
<1>2. Other!Missing \notin SeiStatuses /\ Other!Missing # Other!Error
  BY Characters DEF SeiStatuses
<1>3. /\ item.at = 0 <=> item.status = Other!Missing
      /\ item.at = 0 => item.nalu = [kind |-> "missing"]
      /\ item.at # 0 => item.nalu \in Nalus
      /\ item.status = item.tmp \/ (item.status \in SeiStatuses /\ item.tmp \in SeiStatuses)
      /\ item.inValidation => Other!IsSei(item) /\ item.status \in SeiStatuses
  BY DEF SoundItems
<1> QED
  BY <1>1, <1>2, <1>3 DEF SoundItems, Preserved

LEMMA AssociationLost ==
  ASSUME NEW item \in SoundItems
  PROVE  /\ Preserved(item, [item EXCEPT !.sei = 0, !.ifSeiOk = Other!Unset])
         /\ Preserved(item, [item EXCEPT !.sei = 0])
<1> DEFINE new == [item EXCEPT !.sei = 0, !.ifSeiOk = Other!Unset]
           other == [item EXCEPT !.sei = 0]
<1>1. item \in Items /\ Other!Unset \in Verdicts
  BY DEF SoundItems, Verdicts
<1>2. /\ new \in Items /\ new.at = item.at /\ new.nalu = item.nalu /\ new.sei = 0
      /\ new.status = item.status /\ new.tmp = item.tmp
      /\ new.inValidation = item.inValidation
  BY ONLY <1>1 DEF Items
<1>3. /\ other \in Items /\ other.at = item.at /\ other.nalu = item.nalu /\ other.sei = 0
      /\ other.status = item.status /\ other.tmp = item.tmp
      /\ other.inValidation = item.inValidation
  BY ONLY <1>1 DEF Items
<1> HIDE DEF new, other
<1>4. Preserved(item, new)
  BY <1>2, ChangeKeeps
<1>5. Preserved(item, other)
  BY <1>3, ChangeKeeps
<1> QED
  BY <1>4, <1>5 DEF new, other

LEMMA OkIfSeiChanged ==
  ASSUME NEW item \in SoundItems, NEW verdict \in Verdicts
  PROVE  Preserved(item, [item EXCEPT !.ifSeiOk = verdict])
<1> DEFINE new == [item EXCEPT !.ifSeiOk = verdict]
<1>1. item \in Items
  BY DEF SoundItems
<1>2. /\ new \in Items /\ new.at = item.at /\ new.nalu = item.nalu /\ new.sei = item.sei
      /\ new.status = item.status /\ new.tmp = item.tmp
      /\ new.inValidation = item.inValidation
  BY ONLY <1>1, verdict \in Verdicts DEF Items
<1> HIDE DEF new
<1>3. Preserved(item, new)
  BY <1>2, ChangeKeeps
<1> QED
  BY <1>3 DEF new

LEMMA StatusChanged ==
  ASSUME NEW item \in SoundItems, item.at # 0, item.status \in SeiStatuses,
         NEW status \in SeiStatuses, NEW verdict \in Verdicts
  PROVE  /\ Preserved(item, [item EXCEPT !.tmp = status])
         /\ Preserved(item, [item EXCEPT !.tmp = status, !.ifSeiOk = verdict])
         /\ Preserved(item, [item EXCEPT !.status = status, !.tmp = status])
<1> DEFINE new == [item EXCEPT !.tmp = status]
           judged == [item EXCEPT !.tmp = status, !.ifSeiOk = verdict]
           settled == [item EXCEPT !.status = status, !.tmp = status]
<1>1. item \in Items /\ status \in Statuses
  BY DEF SoundItems, SeiStatuses, Statuses
<1>2. /\ new \in Items /\ new.at = item.at /\ new.nalu = item.nalu /\ new.sei = item.sei
      /\ new.status = item.status /\ new.tmp = status
      /\ new.inValidation = item.inValidation
  BY ONLY <1>1 DEF Items
<1>3. /\ judged \in Items /\ judged.at = item.at /\ judged.nalu = item.nalu
      /\ judged.sei = item.sei /\ judged.status = item.status /\ judged.tmp = status
      /\ judged.inValidation = item.inValidation
  BY ONLY <1>1, verdict \in Verdicts DEF Items
<1>4. /\ settled \in Items /\ settled.at = item.at /\ settled.nalu = item.nalu
      /\ settled.sei = item.sei /\ settled.status = status /\ settled.tmp = status
      /\ settled.inValidation = item.inValidation
  BY ONLY <1>1 DEF Items
<1> HIDE DEF new, judged, settled
<1>5. Preserved(item, new)
  BY <1>2, ChangeKeeps
<1>6. Preserved(item, judged)
  BY <1>3, ChangeKeeps
<1>7. Preserved(item, settled)
  BY <1>4, ChangeKeeps
<1> QED
  BY <1>5, <1>6, <1>7 DEF new, judged, settled

LEMMA StatusCopied ==
  ASSUME NEW item \in SoundItems
  PROVE  /\ Preserved(item, [item EXCEPT !.status = item.tmp])
         /\ Preserved(item, [item EXCEPT !.tmp = item.status])
<1> DEFINE new == [item EXCEPT !.status = item.tmp]
           old == [item EXCEPT !.tmp = item.status]
<1>1. item \in Items
  BY DEF SoundItems
<1>2. /\ new \in Items /\ new.at = item.at /\ new.nalu = item.nalu /\ new.sei = item.sei
      /\ new.status = item.tmp /\ new.tmp = item.tmp
      /\ new.inValidation = item.inValidation
  BY ONLY <1>1 DEF Items
<1>3. /\ old \in Items /\ old.at = item.at /\ old.nalu = item.nalu /\ old.sei = item.sei
      /\ old.status = item.status /\ old.tmp = item.status
      /\ old.inValidation = item.inValidation
  BY ONLY <1>1 DEF Items
<1>4. \/ item.status = item.tmp
      \/ item.at # 0 /\ item.status \in SeiStatuses /\ item.tmp \in SeiStatuses
  BY ItemTyped DEF SoundItems
<1> HIDE DEF new, old
<1>5. Preserved(item, new)
  BY <1>2, <1>4, ChangeKeeps
<1>6. Preserved(item, old)
  BY <1>3, <1>4, ChangeKeeps
<1> QED
  BY <1>5, <1>6 DEF new, old

LEMMA ItemFailed ==
  ASSUME NEW item \in SoundItems, item.at # 0, ~item.inValidation
  PROVE  Preserved(item, [item EXCEPT !.status = Other!Error, !.tmp = Other!Error])
<1> DEFINE new == [item EXCEPT !.status = Other!Error, !.tmp = Other!Error]
<1>1. item \in Items /\ Other!Error \in Statuses
  BY DEF SoundItems, Statuses
<1>2. /\ new \in Items /\ new.at = item.at /\ new.nalu = item.nalu /\ new.sei = item.sei
      /\ new.status = Other!Error /\ new.tmp = Other!Error
      /\ new.inValidation = item.inValidation
  BY ONLY <1>1 DEF Items
<1> HIDE DEF new
<1>3. Preserved(item, new)
  BY <1>2, ChangeKeeps
<1> QED
  BY <1>3 DEF new

LEMMA ValidationLeft ==
  ASSUME NEW item \in SoundItems
  PROVE  Preserved(item, [item EXCEPT !.inValidation = FALSE])
<1> DEFINE new == [item EXCEPT !.inValidation = FALSE]
<1>1. item \in Items
  BY DEF SoundItems
<1>2. /\ new \in Items /\ new.at = item.at /\ new.nalu = item.nalu /\ new.sei = item.sei
      /\ new.status = item.status /\ new.tmp = item.tmp
      /\ new.inValidation = FALSE
  BY ONLY <1>1 DEF Items
<1> HIDE DEF new
<1>3. Preserved(item, new)
  BY <1>2, ChangeKeeps
<1> QED
  BY <1>3 DEF new

LEMMA ValidationEntered ==
  ASSUME NEW item \in SoundItems, Other!IsSei(item), item.status \in SeiStatuses,
         NEW status \in SeiStatuses, NEW verdict \in Verdicts
  PROVE  Preserved(item, [item EXCEPT !.inValidation = TRUE, !.decoded = TRUE,
                                 !.tmp = status, !.ifSeiOk = verdict])
<1> DEFINE new == [item EXCEPT !.inValidation = TRUE, !.decoded = TRUE,
                               !.tmp = status, !.ifSeiOk = verdict]
<1>1. item \in Items /\ status \in Statuses
  BY DEF SoundItems, SeiStatuses, Statuses
<1>2. /\ new \in Items /\ new.at = item.at /\ new.nalu = item.nalu /\ new.sei = item.sei
      /\ new.status = item.status /\ new.tmp = status
      /\ new.inValidation = TRUE
  BY ONLY <1>1, verdict \in Verdicts DEF Items
<1> HIDE DEF new
<1>3. Preserved(item, new)
  BY <1>2, ItemTyped, ChangeKeeps
<1> QED
  BY <1>3 DEF new

-----------------------------------------------------------------------------
(* Places in the list.                                                     *)

LEMMA OtherCardinality ==
  ASSUME NEW S
  PROVE  Other!Cardinality(S) = Cardinality(S)
BY DEF Cardinality, Other!Cardinality, IsFiniteSet, Other!IsFiniteSet

LEMMA LeastIs ==
  ASSUME NEW T, T \subseteq Nat, T # {}
  PROVE  Other!Min(T) \in T /\ \A k \in T : Other!Min(T) <= k
<1>1. \E m \in T : \A k \in T : m <= k
  BY LeastExists
<1> QED
  BY <1>1 DEF Other!Min

LEMMA PlaceIs ==
  ASSUME NEW list, ListOK(list), NEW at \in Arrived(list)
  PROVE  /\ Other!PlaceOf(list, at) \in DOMAIN list
         /\ list[Other!PlaceOf(list, at)].at = at
         /\ Other!PlaceOf(list, at) # 0
<1> DEFINE T == {k \in 1..Len(list) : list[k].at = at}
<1>1. Len(list) \in Nat /\ DOMAIN list = 1..Len(list)
  BY SeqFacts DEF ListOK
<1>2. T # {} /\ T \subseteq Nat
  BY <1>1 DEF Arrived
<1>3. Other!PlaceOf(list, at) = Other!Min(T)
  BY <1>2 DEF Other!PlaceOf, Other!First, Other!SelectInSubSeq
<1>4. Other!Min(T) \in T
  BY <1>2, LeastIs
<1> QED
  BY <1>1, <1>3, <1>4

LEMMA NextSeiIs ==
  ASSUME NEW list \in Seq(SoundItems)
  PROVE  LET k == Other!NextSei(list)
             IsNext(item) == Other!IsSei(item) /\ item.tmp = Other!Pending
                               /\ item.ifSeiOk = Other!Unset
         IN  /\ k # 0 => k \in DOMAIN list /\ IsNext(list[k])
             /\ k = 0 => \A j \in DOMAIN list : ~IsNext(list[j])
<1> DEFINE IsNext(item) == Other!IsSei(item) /\ item.tmp = Other!Pending
                             /\ item.ifSeiOk = Other!Unset
           T == {k \in 1..Len(list) : IsNext(list[k])}
<1>1. Len(list) \in Nat /\ DOMAIN list = 1..Len(list)
  OBVIOUS
<1>2. Other!NextSei(list) = IF T # {} THEN Other!Min(T) ELSE 0
  BY DEF Other!NextSei, Other!First, Other!SelectInSubSeq
<1>3. T # {} => Other!Min(T) \in T
  <2>1. T \subseteq Nat
    OBVIOUS
  <2> HIDE DEF T
  <2> QED
    BY <2>1, LeastIs
<1> HIDE DEF IsNext
<1>4. Other!NextSei(list) # 0 =>
        Other!NextSei(list) \in DOMAIN list /\ IsNext(list[Other!NextSei(list)])
  BY <1>1, <1>2, <1>3
<1>5. Other!NextSei(list) = 0 => \A j \in DOMAIN list : ~IsNext(list[j])
  BY <1>1, <1>2, <1>3
<1> QED
  BY <1>4, <1>5 DEF IsNext

LEMMA SeiInValidationIs ==
  ASSUME NEW list \in Seq(SoundItems), Other!SeiInValidation(list) # 0
  PROVE  LET k == Other!SeiInValidation(list)
         IN  k \in DOMAIN list /\ Other!IsSei(list[k]) /\ list[k].inValidation
<1> DEFINE T == {k \in 1..Len(list) : Other!IsSei(list[k]) /\ list[k].inValidation}
<1>1. Len(list) \in Nat /\ DOMAIN list = 1..Len(list)
  OBVIOUS
<1>2. Other!SeiInValidation(list) = IF T # {} THEN Other!Min(T) ELSE 0
  BY DEF Other!SeiInValidation, Other!First, Other!SelectInSubSeq
<1>3. T # {} => Other!Min(T) \in T
  <2>1. T \subseteq Nat
    OBVIOUS
  <2> HIDE DEF T
  <2> QED
    BY <2>1, LeastIs
<1> QED
  BY <1>1, <1>2, <1>3

LEMMA ValidatedIs ==
  ASSUME NEW list \in Seq(SoundItems)
  PROVE  \E n \in 0..Len(list) : /\ Other!Validated(list) = SubSeq(list, 1, n)
                                 /\ Len(Other!Validated(list)) = n
<1> DEFINE T == {k \in 1..Len(list) : list[k].status = Other!Pending}
           pending == IF T # {} THEN Other!Min(T) ELSE 0
<1>1. Other!Validated(list) = IF pending = 0 THEN list ELSE SubSeq(list, 1, pending - 1)
  BY DEF Other!Validated, Other!First, Other!SelectInSubSeq
<1>2. T # {} => Other!Min(T) \in T
  <2>1. T \subseteq Nat
    OBVIOUS
  <2> HIDE DEF T
  <2> QED
    BY <2>1, LeastIs
<1>3. pending \in 0..Len(list)
  BY <1>2
<1> HIDE DEF pending
<1>4. CASE pending = 0
  <2>1. \A j \in 1..Len(list) : list[j] = SubSeq(list, 1, Len(list))[j]
    OBVIOUS
  <2>2. SubSeq(list, 1, Len(list)) = list /\ Len(list) \in 0..Len(list)
    BY <2>1
  <2> QED
    BY <1>1, <1>4, <2>2
<1>5. CASE pending # 0
  <2>1. pending - 1 \in 0..Len(list)
    BY <1>3, <1>5
  <2>2. Len(SubSeq(list, 1, pending - 1)) = pending - 1
    BY <2>1
  <2> QED
    BY <1>1, <1>5, <2>1, <2>2
<1> QED
  BY <1>4, <1>5

(* The elements of a set of numbers in order: all of them, each once. *)
LEMMA InOrderIs ==
  ASSUME NEW n \in Nat, NEW S, S \subseteq 1..n
  PROVE  LET f == Other!InOrder(S)
         IN  /\ Cardinality(S) \in Nat
             /\ f \in [1..Cardinality(S) -> S]
             /\ \A i, j \in 1..Cardinality(S) : i < j => f[i] < f[j]
             /\ \A k \in S : \E i \in 1..Cardinality(S) : f[i] = k
<1> DEFINE c == Cardinality(S)
           Below(k) == {j \in S : j <= k}
           rank == [k \in S |-> Cardinality(Below(k))]
           f == Other!InOrder(S)
<1>1. IsFiniteSet(1..n)
  BY FS_Interval
<1>2. IsFiniteSet(S) /\ c \in Nat
  BY <1>1, FS_Subset, FS_CardinalityType
<1>3. \A k \in S : IsFiniteSet(Below(k)) /\ Cardinality(Below(k)) \in 1..c
  <2> TAKE k \in S
  <2>1. Below(k) \subseteq S /\ k \in Below(k)
    OBVIOUS
  <2> HIDE DEF Below
  <2>2. IsFiniteSet(Below(k)) /\ Cardinality(Below(k)) \in Nat /\ Cardinality(Below(k)) <= c
    BY <1>2, <2>1, FS_Subset, FS_CardinalityType
  <2>3. Cardinality(Below(k)) # 0
    BY <2>1, <2>2, FS_EmptySet
  <2> QED
    BY <2>2, <2>3, <1>2
<1>4. \A j, k \in S : j < k => Cardinality(Below(j)) < Cardinality(Below(k))
  <2> TAKE j, k \in S
  <2> HAVE j < k
  <2>1. Below(j) \subseteq Below(k) /\ k \in Below(k) /\ k \notin Below(j)
    <3>1. j \in Int /\ k \in Int /\ \A i \in S : i \in Int
      OBVIOUS
    <3>2. \A i \in S : i <= j => i <= k
      BY ONLY <3>1, j < k
    <3>3. k <= k /\ ~(k <= j)
      BY ONLY <3>1, j < k
    <3> QED
      BY <3>2, <3>3
  <2> HIDE DEF Below
  <2>2. Below(j) # Below(k)
    BY <2>1
  <2>3. IsFiniteSet(Below(k)) /\ Cardinality(Below(j)) \in Nat /\ Cardinality(Below(k)) \in Nat
    BY <1>3, <1>2
  <2> QED
    BY <2>1, <2>2, <2>3, FS_Subset
<1> HIDE DEF Below
<1>5. rank \in Injection(S, 1..c)
  <2>1. rank \in [S -> 1..c]
    BY <1>3
  <2>2. \A j, k \in S : j # k => rank[j] # rank[k]
    BY <1>3, <1>4, <1>2
  <2> QED
    BY <2>1, <2>2 DEF Injection, IsInjective
<1> HIDE DEF rank
<1>6. rank \in Surjection(S, 1..c)
  <2>1. IsFiniteSet(1..c) /\ Cardinality(1..c) = c
    BY <1>2, FS_Interval
  <2> QED
    BY <1>5, <2>1, FS_Injection
<1>7. \A i \in 1..c : \E k \in S : Cardinality(Below(k)) = i
  BY <1>6 DEF Surjection, rank
<1> HIDE DEF c
<1>8. \A i \in 1..c : \E k \in S : Other!Cardinality({j \in S : j <= k}) = i
  BY <1>7, OtherCardinality DEF Below
<1>9. f \in [1..c -> S] /\ \A i \in 1..c : Cardinality(Below(f[i])) = i
  <2>1. f = [i \in 1..c |-> CHOOSE k \in S : Other!Cardinality({j \in S : j <= k}) = i]
    BY OtherCardinality DEF f, c, Other!InOrder
  <2>2. \A i \in 1..c : f[i] \in S /\ Other!Cardinality({j \in S : j <= f[i]}) = i
    BY <1>8, <2>1
  <2>3. \A i \in 1..c : Cardinality(Below(f[i])) = i
    BY <2>2, OtherCardinality DEF Below
  <2> QED
    BY <2>1, <2>2, <2>3
<1>10. \A i, j \in 1..c : i < j => f[i] < f[j]
  <2> TAKE i, j \in 1..c
  <2> HAVE i < j
  <2>1. f[i] \in S /\ f[j] \in S
    BY <1>9
  <2>0. f[i] \in Int /\ f[j] \in Int
    <3>1. \A k \in S : k \in Int
      BY ONLY n \in Nat, S \subseteq 1..n
    <3> HIDE DEF f
    <3> QED
      BY ONLY <2>1, <3>1
  <2>2. f[i] # f[j] /\ ~(f[j] < f[i])
    <3>1. f[j] < f[i] => Cardinality(Below(f[j])) < Cardinality(Below(f[i]))
      BY <1>4, <2>1
    <3>2. Cardinality(Below(f[i])) = i /\ Cardinality(Below(f[j])) = j
      BY <1>9
    <3>3. i \in Int /\ j \in Int
      BY <1>2
    <3>4. ~(f[j] < f[i])
      BY ONLY <3>1, <3>2, <3>3, i < j
    <3> QED
      BY <3>2, <3>3, <3>4
  <2> QED
    BY <2>0, <2>2
<1>11. \A k \in S : \E i \in 1..c : f[i] = k
  <2> TAKE k \in S
  <2>1. Cardinality(Below(k)) \in 1..c
    BY <1>3
  <2> DEFINE i == Cardinality(Below(k))
  <2>2. f[i] \in S /\ Cardinality(Below(f[i])) = Cardinality(Below(k))
    BY <1>9, <2>1
  <2>3. f[i] = k
    <3>1. f[i] \in Int /\ k \in Int
      <4>1. f[i] \in 1..n /\ k \in 1..n
        BY ONLY <2>2, n \in Nat, S \subseteq 1..n, k \in S
      <4> QED
        BY ONLY <4>1
    <3> HIDE DEF i
    <3> QED
      BY <1>4, <2>1, <2>2, <3>1
  <2> QED
    BY <2>1, <2>3
<1> QED
  BY <1>2, <1>9, <1>10, <1>11 DEF f, c

-----------------------------------------------------------------------------
(* Parts of a list, and lists made of parts.                               *)

(* What has arrived in some places of the list. *)
ArrivedAt(list, places) == {list[k].at : k \in places} \ {0}

(* A list whose associations point to what is elsewhere. *)
PartOK(list, numbers) ==
  list \in Seq(SoundItems) /\ Ordered(list) /\ PointsInto(list, numbers)

(* One list can follow another one. *)
After(a, b) ==
  \A x \in Arrived(a), k \in DOMAIN b :
    (b[k].at # 0 => x < b[k].at) /\ (b[k].sei # 0 => x < b[k].sei)

LEMMA ListIsPart ==
  ASSUME NEW list
  PROVE  ListOK(list) <=> PartOK(list, Arrived(list))
BY DEF ListOK, PartOK

LEMMA PartOfList ==
  ASSUME NEW list, NEW numbers, PartOK(list, numbers), NEW m \in 1..(Len(list) + 1),
         NEW n \in (m - 1)..Len(list)
  PROVE  /\ PartOK(SubSeq(list, m, n), numbers)
         /\ Arrived(SubSeq(list, m, n)) = ArrivedAt(list, m..n)
<1> DEFINE part == SubSeq(list, m, n)
<1>1. list \in Seq(SoundItems) /\ Len(list) \in Nat /\ DOMAIN list = 1..Len(list)
  BY SeqFacts DEF PartOK
<1>2. part = [i \in 1..(n - m + 1) |-> list[i + m - 1]]
  BY <1>1
<1>3. part \in Seq(SoundItems) /\ DOMAIN part = 1..(n - m + 1)
  <2>1. \A i \in 1..(n - m + 1) : i + m - 1 \in DOMAIN list
    BY <1>1
  <2>2. n - m + 1 \in Nat
    BY <1>1
  <2> HIDE DEF part
  <2> QED
    BY <1>1, <1>2, <2>1, <2>2
<1> HIDE DEF part
<1>4. \A i \in DOMAIN part : i + m - 1 \in m..n /\ i + m - 1 \in DOMAIN list
                             /\ part[i] = list[i + m - 1]
  BY <1>1, <1>2, <1>3
<1>5. \A k \in m..n : k - m + 1 \in DOMAIN part /\ part[k - m + 1] = list[k]
  <2> TAKE k \in m..n
  <2>1. k - m + 1 \in 1..(n - m + 1) /\ (k - m + 1) + m - 1 = k
    BY <1>1
  <2> QED
    BY <1>3, <1>4, <2>1
<1>6. Arrived(part) = ArrivedAt(list, m..n)
  <2>1. \A i \in DOMAIN part : \E k \in m..n : part[i].at = list[k].at
    BY <1>4
  <2>2. \A k \in m..n : \E i \in DOMAIN part : part[i].at = list[k].at
    BY <1>5
  <2> QED
    BY <2>1, <2>2 DEF Arrived, ArrivedAt
<1>7. Ordered(part)
  <2>1. ASSUME NEW j \in DOMAIN part, NEW k \in DOMAIN part
        PROVE  /\ j < k => j + m - 1 < k + m - 1
               /\ j <= k => j + m - 1 <= k + m - 1
    BY <1>3, <1>1
  <2>2. Ordered(list)
    BY DEF PartOK
  <2> QED
    BY <1>4, <2>1, <2>2 DEF Ordered
<1>8. PointsInto(part, numbers)
  BY <1>4 DEF PointsInto, PartOK
<1> QED
  BY <1>3, <1>6, <1>7, <1>8 DEF PartOK, part

LEMMA Joined ==
  ASSUME NEW numbers, NEW a, NEW b, PartOK(a, numbers), PartOK(b, numbers), After(a, b)
  PROVE  PartOK(a \o b, numbers) /\ Arrived(a \o b) = Arrived(a) \cup Arrived(b)
<1> DEFINE new == a \o b
           la == Len(a)
<1>1. /\ a \in Seq(SoundItems) /\ b \in Seq(SoundItems) /\ la \in Nat /\ Len(b) \in Nat
      /\ DOMAIN a = 1..la /\ DOMAIN b = 1..Len(b)
  BY SeqFacts DEF PartOK
<1>2. /\ new \in Seq(SoundItems) /\ DOMAIN new = 1..(la + Len(b))
      /\ \A k \in DOMAIN a : new[k] = a[k]
      /\ \A k \in DOMAIN b : new[la + k] = b[k]
  BY <1>1
<1> HIDE DEF new, la
<1>3. \A k \in DOMAIN new : \/ k \in DOMAIN a /\ new[k] = a[k]
                            \/ k > la /\ k - la \in DOMAIN b /\ new[k] = b[k - la]
  <2> TAKE k \in DOMAIN new
  <2>1. CASE k <= la
    BY <1>1, <1>2, <2>1
  <2>2. CASE ~(k <= la)
    <3>1. k - la \in DOMAIN b /\ la + (k - la) = k /\ k > la
      BY <1>1, <1>2, <2>2
    <3> QED
      BY <1>2, <3>1
  <2> QED
    BY <2>1, <2>2
<1>4. /\ \A k \in DOMAIN a : k \in DOMAIN new
      /\ \A k \in DOMAIN b : la + k \in DOMAIN new
  BY <1>1, <1>2
<1>5. Arrived(new) = Arrived(a) \cup Arrived(b)
  <2>1. ASSUME NEW x \in Arrived(new) PROVE x \in Arrived(a) \cup Arrived(b)
    BY <1>3 DEF Arrived
  <2>2. ASSUME NEW x \in Arrived(a) PROVE x \in Arrived(new)
    BY <1>2, <1>4 DEF Arrived
  <2>3. ASSUME NEW x \in Arrived(b) PROVE x \in Arrived(new)
    BY <1>2, <1>4 DEF Arrived
  <2> QED
    BY <2>1, <2>2, <2>3
<1>6. PointsInto(new, numbers)
  BY <1>3 DEF PointsInto, PartOK
<1>7. Ordered(new)
  <2>1. SUFFICES ASSUME NEW j \in DOMAIN new, NEW k \in DOMAIN new
                 PROVE  /\ j < k /\ new[k].at # 0 => new[j].at < new[k].at
                        /\ j <= k /\ new[k].sei # 0 => new[j].at < new[k].sei
    BY DEF Ordered
  <2>2. j \in Int /\ k \in Int
    BY <1>1, <1>2
  <2>3. CASE j \in DOMAIN a /\ new[j] = a[j] /\ k \in DOMAIN a /\ new[k] = a[k]
    BY <2>3 DEF Ordered, PartOK
  <2>4. CASE /\ j > la /\ j - la \in DOMAIN b /\ new[j] = b[j - la]
             /\ k > la /\ k - la \in DOMAIN b /\ new[k] = b[k - la]
    <3>1. (j < k => j - la < k - la) /\ (j <= k => j - la <= k - la)
      BY <1>1, <2>2
    <3> QED
      BY <2>4, <3>1 DEF Ordered, PartOK
  <2>5. CASE /\ j \in DOMAIN a /\ new[j] = a[j]
             /\ k > la /\ k - la \in DOMAIN b /\ new[k] = b[k - la]
    <3> DEFINE y == b[k - la]
    <3>1. y \in SoundItems /\ y.at \in Nat /\ y.sei \in Nat
      BY <1>1, <2>5, ItemTyped
    <3>2. CASE a[j].at = 0
      <4> HIDE DEF y
      <4>1. (y.at # 0 => 0 < y.at) /\ (y.sei # 0 => 0 < y.sei)
        BY <3>1
      <4> QED
        BY <2>5, <3>2, <4>1 DEF y
    <3>3. CASE a[j].at # 0
      <4>1. a[j].at \in Arrived(a)
        BY <2>5, <3>3 DEF Arrived
      <4> QED
        BY <2>5, <4>1 DEF After
    <3> QED
      BY <3>2, <3>3
  <2>6. CASE j > la /\ k \in DOMAIN a
    BY <1>1, <2>2, <2>6
  <2> QED
    BY <1>3, <2>3, <2>4, <2>5, <2>6
<1> QED
  BY <1>2, <1>5, <1>6, <1>7 DEF PartOK, new

LEMMA JoinedIsPart ==
  ASSUME NEW numbers, NEW a, NEW b, PartOK(a, numbers), PartOK(b, numbers), After(a, b)
  PROVE  PartOK(a \o b, numbers)
BY Joined

LEMMA JoinedArrived ==
  ASSUME NEW numbers, NEW a, NEW b, PartOK(a, numbers), PartOK(b, numbers), After(a, b)
  PROVE  Arrived(a \o b) = Arrived(a) \cup Arrived(b)
<1>1. \A n, x, y : PartOK(x, n) /\ PartOK(y, n) /\ After(x, y)
                    => Arrived(x \o y) = Arrived(x) \cup Arrived(y)
  BY Joined
<1> QED
  BY <1>1

LEMMA OneItem ==
  ASSUME NEW numbers, NEW item \in SoundItems, item.sei \in {0} \cup numbers,
         item.sei # 0 => item.at < item.sei
  PROVE  PartOK(<<item>>, numbers) /\ Arrived(<<item>>) = {item.at} \ {0}
<1>1. /\ <<item>> \in Seq(SoundItems) /\ DOMAIN <<item>> = {1}
      /\ <<item>>[1] = item
  OBVIOUS
<1>2. Ordered(<<item>>)
  BY <1>1 DEF Ordered
<1>3. PointsInto(<<item>>, numbers)
  BY <1>1 DEF PointsInto
<1>4. Arrived(<<item>>) = {item.at} \ {0}
  BY <1>1 DEF Arrived
<1> QED
  BY <1>1, <1>2, <1>3, <1>4 DEF PartOK

LEMMA MissingItemIs ==
  ASSUME NEW sei \in Nat
  PROVE  /\ Other!MissingItem(sei) \in SoundItems
         /\ Other!MissingItem(sei).at = 0 /\ Other!MissingItem(sei).sei = sei
<1> DEFINE item == Other!MissingItem(sei)
<1>1. Other!Missing \in Statuses /\ Other!Unset \in Verdicts
  BY DEF Statuses, Verdicts
<1>2. /\ item \in Items /\ item.at = 0 /\ item.nalu = [kind |-> "missing"]
      /\ item.status = Other!Missing /\ item.tmp = Other!Missing
      /\ item.inValidation = FALSE /\ item.sei = sei
  BY <1>1 DEF Other!MissingItem, Items
<1> HIDE DEF item
<1> QED
  BY <1>2 DEF SoundItems, item

LEMMA MissingRun ==
  ASSUME NEW numbers, numbers \subseteq Nat, NEW num \in Int, NEW sei \in numbers, sei # 0
  PROVE  LET run == [i \in 1..num |-> Other!MissingItem(sei)]
         IN  PartOK(run, numbers) /\ Arrived(run) = {}
<1> DEFINE run == [i \in 1..num |-> Other!MissingItem(sei)]
           item == Other!MissingItem(sei)
           n == IF num < 0 THEN 0 ELSE num
<1>1. n \in Nat /\ 1..n = 1..num
  OBVIOUS
<1>2. item \in SoundItems /\ item.at = 0 /\ item.sei = sei
  BY MissingItemIs
<1> HIDE DEF item, n
<1>3. run = [i \in 1..n |-> item]
  BY <1>1 DEF item
<1>4. run \in Seq(SoundItems) /\ DOMAIN run = 1..n
  <2> HIDE DEF run
  <2> QED
    BY <1>1, <1>2, <1>3
<1>5. \A i \in DOMAIN run : run[i] = item
  BY DEF item
<1> HIDE DEF run
<1>6. Ordered(run) /\ PointsInto(run, numbers) /\ Arrived(run) = {}
  BY <1>2, <1>5 DEF Ordered, PointsInto, Arrived
<1> QED
  BY <1>4, <1>6 DEF PartOK, run

(* A list cut in two, with or without something between. *)
LEMMA CutInTwo ==
  ASSUME NEW list, NEW numbers, PartOK(list, numbers), NEW k \in 1..(Len(list) + 1)
  PROVE  LET a == SubSeq(list, 1, k - 1)
             b == SubSeq(list, k, Len(list))
         IN  /\ PartOK(a, numbers) /\ PartOK(b, numbers) /\ After(a, b)
             /\ Arrived(a) \cup Arrived(b) = Arrived(list)
             /\ Arrived(a) = ArrivedAt(list, 1..(k - 1))
             /\ Arrived(b) = ArrivedAt(list, k..Len(list))
<1> DEFINE a == SubSeq(list, 1, k - 1)
           b == SubSeq(list, k, Len(list))
<1>1. /\ list \in Seq(SoundItems) /\ Len(list) \in Nat /\ DOMAIN list = 1..Len(list)
      /\ Ordered(list)
  BY SeqFacts DEF PartOK
<1>2. PartOK(a, numbers) /\ Arrived(a) = ArrivedAt(list, 1..(k - 1))
  <2>1. 1 \in 1..(Len(list) + 1) /\ k - 1 \in (1 - 1)..Len(list)
    BY <1>1
  <2> QED
    BY <2>1, PartOfList
<1>3. PartOK(b, numbers) /\ Arrived(b) = ArrivedAt(list, k..Len(list))
  <2>1. Len(list) \in (k - 1)..Len(list)
    BY <1>1
  <2> QED
    BY <2>1, PartOfList
<1>4. DOMAIN b = 1..(Len(list) - k + 1) /\ \A i \in DOMAIN b : b[i] = list[i + k - 1]
  BY <1>1
<1> HIDE DEF a, b
<1>5. After(a, b)
  <2>1. SUFFICES ASSUME NEW x \in Arrived(a), NEW i \in DOMAIN b
                 PROVE  (b[i].at # 0 => x < b[i].at) /\ (b[i].sei # 0 => x < b[i].sei)
    BY DEF After
  <2>2. PICK j \in 1..(k - 1) : x = list[j].at
    BY <1>2 DEF ArrivedAt
  <2>3. /\ j \in DOMAIN list /\ i + k - 1 \in DOMAIN list
        /\ j < i + k - 1 /\ j <= i + k - 1
    BY <1>1, <1>4
  <2> QED
    BY <1>1, <1>4, <2>2, <2>3 DEF Ordered
<1>6. Arrived(a) \cup Arrived(b) = Arrived(list)
  <2>1. DOMAIN list = 1..(k - 1) \cup k..Len(list)
    BY <1>1
  <2> QED
    BY <1>2, <1>3, <2>1 DEF Arrived, ArrivedAt
<1> QED
  BY <1>2, <1>3, <1>5, <1>6 DEF a, b

LEMMA AddMissingKeeps ==
  ASSUME NEW list, ListOK(list), NEW num \in Int, NEW k \in 1..(Len(list) + 1),
         NEW sei \in Arrived(list), \A x \in ArrivedAt(list, 1..(k - 1)) : x < sei
  PROVE  Reshaped(list, Other!AddMissing(list, num, k, sei))
<1> DEFINE a == SubSeq(list, 1, k - 1)
           b == SubSeq(list, k, Len(list))
           run == [i \in 1..num |-> Other!MissingItem(sei)]
           numbers == Arrived(list)
<1>1. /\ PartOK(a, numbers) /\ PartOK(b, numbers) /\ After(a, b)
      /\ Arrived(a) \cup Arrived(b) = numbers
      /\ Arrived(a) = ArrivedAt(list, 1..(k - 1))
  BY ListIsPart, CutInTwo
<1>2. numbers \subseteq Nat /\ 0 \notin numbers
  BY ItemTyped DEF Arrived, ListOK
<1>3. PartOK(run, numbers) /\ Arrived(run) = {}
  BY <1>2, MissingRun
<1>4. After(a, run)
  <2>1. \A i \in DOMAIN run : run[i].at = 0 /\ run[i].sei = sei
    BY <1>2, MissingItemIs
  <2> HIDE DEF run, a
  <2> QED
    BY <1>1, <2>1 DEF After
<1> HIDE DEF a, b, run, numbers
<1>5. PartOK(a \o run, numbers) /\ Arrived(a \o run) = Arrived(a)
  <2>1. PartOK(a, numbers) /\ PartOK(run, numbers) /\ After(a, run)
    BY <1>1, <1>3, <1>4
  <2>2. PartOK(a \o run, numbers)
    BY <2>1, JoinedIsPart, Zenon
  <2>3. Arrived(a \o run) = Arrived(a) \cup Arrived(run)
    BY <2>1, JoinedArrived
  <2> QED
    BY <1>3, <2>2, <2>3
<1> DEFINE front == a \o run
<1> HIDE DEF front
<1>6. PartOK(front, numbers) /\ Arrived(front) = Arrived(a) /\ After(front, b)
  BY <1>1, <1>5 DEF After, front
<1>7. PartOK(front \o b, numbers) /\ Arrived(front \o b) = numbers
  <2>1. PartOK(front, numbers) /\ PartOK(b, numbers) /\ After(front, b)
    BY <1>1, <1>6
  <2>2. PartOK(front \o b, numbers)
    BY <2>1, JoinedIsPart, Zenon
  <2>3. Arrived(front \o b) = Arrived(front) \cup Arrived(b)
    BY <2>1, JoinedArrived
  <2> QED
    BY <1>1, <1>6, <2>2, <2>3
<1>8. Other!AddMissing(list, num, k, sei) = front \o b
  BY DEF Other!AddMissing, front, a, b, run
<1> QED
  BY <1>7, <1>8, ListIsPart DEF Reshaped, numbers

LEMMA AddMissingAtEndKeeps ==
  ASSUME NEW list, ListOK(list), NEW num \in Int, NEW sei \in Arrived(list)
  PROVE  Reshaped(list, Other!AddMissingAtEnd(list, num, sei))
<1> DEFINE ends == {k \in 2..Len(list) : list[k - 1].sei = sei /\ list[k].sei # sei}
           k == CHOOSE k \in ends : \A j \in ends : k <= j
<1>1. CASE num <= 0 \/ ends = {}
  BY <1>1, ReshapedItself DEF Other!AddMissingAtEnd
<1>2. CASE ~(num <= 0 \/ ends = {})
  <2>1. Other!AddMissingAtEnd(list, num, sei) = Other!AddMissing(list, num, k, sei)
    BY <1>2 DEF Other!AddMissingAtEnd
  <2>2. Len(list) \in Nat /\ DOMAIN list = 1..Len(list) /\ sei # 0
    BY SeqFacts DEF ListOK, Arrived
  <2>3. ends \subseteq Nat /\ ends # {}
    BY <1>2, <2>2
  <2>4. k \in ends
    <3>1. \E m \in ends : \A j \in ends : m <= j
      <4> HIDE DEF ends
      <4> QED
        BY <2>3, LeastExists
    <3> QED
      BY <3>1
  <2> HIDE DEF k
  <2>5. k \in 1..(Len(list) + 1) /\ k - 1 \in DOMAIN list /\ list[k - 1].sei = sei
    BY <2>2, <2>4
  <2>6. \A x \in ArrivedAt(list, 1..(k - 1)) : x < sei
    <3>1. SUFFICES ASSUME NEW j \in 1..(k - 1) PROVE list[j].at < sei
      BY DEF ArrivedAt
    <3>2. j \in DOMAIN list /\ j <= k - 1
      BY <2>2, <2>5
    <3> QED
      BY <2>2, <2>5, <3>2 DEF Ordered, ListOK
  <2> QED
    BY <2>1, <2>5, <2>6, AddMissingKeeps
<1> QED
  BY <1>1, <1>2

(* Some items are left out that stand for missing NAL Units.               *)
LEMMA RemoveAssociationKeeps ==
  ASSUME NEW list, ListOK(list), NEW sei
  PROVE  Reshaped(list, Other!RemoveAssociation(list, sei))
<1> DEFINE IsOf(item) == sei # 0 /\ item.sei = sei
           S == {k \in DOMAIN list : ~(IsOf(list[k]) /\ list[k].tmp = Other!Missing)}
           kept == Other!InOrder(S)
           c == Cardinality(S)
           Changed(item) == IF IsOf(item)
                            THEN [item EXCEPT !.sei = 0, !.ifSeiOk = Other!Unset]
                            ELSE item
           new == Other!RemoveAssociation(list, sei)
<1>1. /\ list \in Seq(SoundItems) /\ Len(list) \in Nat /\ DOMAIN list = 1..Len(list)
      /\ Ordered(list)
  BY SeqFacts DEF ListOK
<1>2. S \subseteq DOMAIN list /\ \A k \in DOMAIN list \ S : list[k].at = 0
  BY <1>1, ItemTyped
<1>3. \A k \in DOMAIN list : Preserved(list[k], Changed(list[k]))
  <2> TAKE k \in DOMAIN list
  <2>1. list[k] \in SoundItems
    BY <1>1
  <2> QED
    BY <2>1, AssociationLost, KeepsItself
<1>4. new = [i \in DOMAIN kept |-> Changed(list[kept[i]])]
  BY DEF Other!RemoveAssociation
<1> HIDE DEF S, Changed, new
<1>5. /\ c \in Nat /\ kept \in [1..c -> S]
      /\ \A i, j \in 1..c : i < j => kept[i] < kept[j]
      /\ \A k \in S : \E i \in 1..c : kept[i] = k
  BY <1>1, <1>2, InOrderIs
<1> HIDE DEF kept, c
<1>6. DOMAIN new = 1..c /\ \A i \in 1..c : /\ kept[i] \in DOMAIN list
                                           /\ new[i] = Changed(list[kept[i]])
  BY <1>2, <1>4, <1>5
<1>7. \A i \in 1..c : /\ new[i] \in SoundItems /\ new[i].at = list[kept[i]].at
                      /\ new[i].sei \in {list[kept[i]].sei, 0}
  BY <1>3, <1>6 DEF Preserved
<1>8. new \in Seq(SoundItems)
  <2>1. new = [i \in 1..c |-> new[i]]
    BY <1>4, <1>5
  <2> QED
    BY <1>5, <1>7, <2>1, FunctionIsSeq
<1>9. Arrived(new) = Arrived(list)
  <2>1. ASSUME NEW x \in Arrived(new) PROVE x \in Arrived(list)
    BY <1>6, <1>7 DEF Arrived
  <2>2. ASSUME NEW x \in Arrived(list) PROVE x \in Arrived(new)
    <3>1. PICK k \in DOMAIN list : x = list[k].at /\ x # 0
      BY DEF Arrived
    <3>2. k \in S
      BY <1>2, <3>1
    <3>3. PICK i \in 1..c : kept[i] = k
      BY <1>5, <3>2
    <3> QED
      BY <1>6, <1>7, <3>1, <3>3 DEF Arrived
  <2> QED
    BY <2>1, <2>2
<1>10. Ordered(new)
  <2>1. \A i, j \in 1..c : (i < j => kept[i] < kept[j]) /\ (i <= j => kept[i] <= kept[j])
    <3> TAKE i, j \in 1..c
    <3>1. i \in Int /\ j \in Int /\ kept[i] \in Int /\ kept[j] \in Int
      BY <1>1, <1>6
    <3>2. i < j => kept[i] < kept[j]
      BY <1>5
    <3>3. i = j => kept[i] = kept[j]
      OBVIOUS
    <3> QED
      BY <3>1, <3>2, <3>3
  <2>2. \A j \in 1..c : new[j].sei # 0 => new[j].sei = list[kept[j]].sei
    BY <1>7
  <2> QED
    BY <1>1, <1>6, <1>7, <2>1, <2>2 DEF Ordered
<1>11. PointsInto(new, Arrived(list))
  BY <1>6, <1>7 DEF PointsInto, ListOK
<1> QED
  BY <1>8, <1>9, <1>10, <1>11 DEF Reshaped, ListOK, new

(* Items before a SEI become associated with it. *)
LEMMA AssociateKeeps ==
  ASSUME NEW s, HasFields(s, Fields), ListOK(s.list), NEW places,
         NEW place \in DOMAIN s.list, s.list[place].at # 0,
         \A k \in DOMAIN s.list \cap places : k < place
  PROVE  Reshaped(s.list, Other!Associate(s, places, s.list[place].at).list)
<1> DEFINE list == s.list
           sei == list[place].at
           new == Other!Associate(s, places, sei).list
           Put(item) == [item EXCEPT !.sei = sei]
<1>1. /\ list \in Seq(SoundItems) /\ Len(list) \in Nat /\ DOMAIN list = 1..Len(list)
      /\ Ordered(list) /\ PointsInto(list, Arrived(list))
  BY SeqFacts DEF ListOK
<1>2. new = [k \in DOMAIN list |-> IF k \in places THEN Put(list[k]) ELSE list[k]]
  BY FieldsAre DEF HasFields, Other!Associate
<1>3. sei \in Nat /\ sei \in Arrived(list)
  BY <1>1, ItemTyped DEF Arrived
<1> HIDE DEF new, list, sei
<1>4. ASSUME NEW item \in SoundItems
      PROVE  Put(item) \in SoundItems /\ Put(item).at = item.at /\ Put(item).sei = sei
  <2>1. item \in Items
    BY DEF SoundItems
  <2>2. /\ Put(item) \in Items /\ Put(item).at = item.at /\ Put(item).nalu = item.nalu
        /\ Put(item).sei = sei /\ Put(item).status = item.status /\ Put(item).tmp = item.tmp
        /\ Put(item).inValidation = item.inValidation
    BY ONLY <1>3, <2>1 DEF Items
  <2> HIDE DEF Put
  <2>3. Other!IsSei(Put(item)) <=> Other!IsSei(item)
    BY <2>2 DEF Other!IsSei
  <2> QED
    BY <2>2, <2>3 DEF SoundItems
<1> HIDE DEF Put
<1>5. /\ DOMAIN new = DOMAIN list
      /\ \A k \in DOMAIN list : /\ new[k] \in SoundItems /\ new[k].at = list[k].at
                                /\ new[k].sei = IF k \in places THEN sei ELSE list[k].sei
  BY <1>1, <1>2, <1>4
<1>6. new \in Seq(SoundItems)
  <2>1. new = [k \in 1..Len(list) |-> new[k]]
    BY <1>1, <1>2
  <2> QED
    BY <1>1, <1>5, <2>1, FunctionIsSeq
<1>7. Arrived(new) = Arrived(list)
  BY <1>5 DEF Arrived
<1>8. PointsInto(new, Arrived(list))
  BY <1>1, <1>3, <1>5 DEF PointsInto
<1>9. Ordered(new)
  <2>1. SUFFICES ASSUME NEW j \in DOMAIN list, NEW k \in DOMAIN list
                 PROVE  /\ j < k /\ new[k].at # 0 => new[j].at < new[k].at
                        /\ j <= k /\ new[k].sei # 0 => new[j].at < new[k].sei
    BY <1>5 DEF Ordered
  <2>2. j < k /\ new[k].at # 0 => new[j].at < new[k].at
    BY <1>1, <1>5 DEF Ordered
  <2>3. CASE k \in places /\ j <= k
    <3>1. k < place /\ place \in DOMAIN list
      BY <2>3 DEF list
    <3>2. j < place
      BY <1>1, <2>3, <3>1
    <3>3. list[j].at < sei
      BY <1>1, <3>1, <3>2 DEF Ordered, sei, list
    <3> QED
      BY <1>5, <2>2, <2>3, <3>3
  <2>4. CASE ~(k \in places /\ j <= k)
    BY <1>1, <1>5, <2>2, <2>4 DEF Ordered
  <2> QED
    BY <2>3, <2>4
<1> QED
  BY <1>6, <1>7, <1>8, <1>9 DEF Reshaped, ListOK, new, list, sei

(* An item whose status before is not touched, and all items of a list.    *)
Judged(item, new) == Preserved(item, new) /\ new.status = item.status

AllJudged(list, new) ==
  new = [k \in DOMAIN list |-> new[k]] /\ \A k \in DOMAIN list : Judged(list[k], new[k])

LEMMA JudgedItself ==
  ASSUME NEW item \in SoundItems
  PROVE  Judged(item, item)
BY KeepsItself DEF Judged

LEMMA JudgedTwice ==
  ASSUME NEW a, NEW b, NEW c, Judged(a, b), Judged(b, c)
  PROVE  Judged(a, c)
BY DEF Judged, Preserved

LEMMA AllJudgedTwice ==
  ASSUME NEW a, NEW b, NEW c, AllJudged(a, b), AllJudged(b, c)
  PROVE  AllJudged(a, c)
<1>1. DOMAIN b = DOMAIN a
  BY DEF AllJudged
<1>2. \A k \in DOMAIN a : Judged(a[k], b[k]) /\ Judged(b[k], c[k])
  BY <1>1 DEF AllJudged
<1>3. \A k \in DOMAIN a : Judged(a[k], c[k])
  BY <1>2, JudgedTwice
<1> QED
  BY <1>1, <1>3 DEF AllJudged

LEMMA AllJudgedReshapes ==
  ASSUME NEW list, ListOK(list), NEW new, AllJudged(list, new)
  PROVE  Reshaped(list, new) /\ DOMAIN new = DOMAIN list /\ Len(new) = Len(list)
<1>1. new = [k \in DOMAIN list |-> new[k]] /\ \A k \in DOMAIN list : Preserved(list[k], new[k])
  BY DEF AllJudged, Judged
<1> QED
  BY <1>1, EachKept

LEMMA JudgedIs ==
  ASSUME NEW item \in SoundItems, NEW verdict \in Verdicts
  PROVE  /\ Judged(item, [item EXCEPT !.ifSeiOk = verdict])
         /\ Judged(item, [item EXCEPT !.sei = 0])
         /\ Judged(item, [item EXCEPT !.tmp = item.status])
         /\ \A status \in SeiStatuses : item.tmp \in SeiStatuses =>
              /\ Judged(item, [item EXCEPT !.tmp = status])
              /\ Judged(item, [item EXCEPT !.tmp = status, !.ifSeiOk = verdict])
<1>1. item \in Items
  BY DEF SoundItems
<1>2. /\ [item EXCEPT !.ifSeiOk = verdict].status = item.status
      /\ [item EXCEPT !.sei = 0].status = item.status
      /\ [item EXCEPT !.tmp = item.status].status = item.status
  BY ONLY <1>1 DEF Items
<1>3. \A status : /\ [item EXCEPT !.tmp = status].status = item.status
                  /\ [item EXCEPT !.tmp = status, !.ifSeiOk = verdict].status = item.status
  BY ONLY <1>1 DEF Items
<1>4. Preserved(item, [item EXCEPT !.ifSeiOk = verdict])
  BY OkIfSeiChanged
<1>5. Preserved(item, [item EXCEPT !.sei = 0]) /\ Preserved(item, [item EXCEPT !.tmp = item.status])
  BY AssociationLost, StatusCopied
<1>6. ASSUME NEW status \in SeiStatuses, item.tmp \in SeiStatuses
      PROVE  /\ Preserved(item, [item EXCEPT !.tmp = status])
             /\ Preserved(item, [item EXCEPT !.tmp = status, !.ifSeiOk = verdict])
  <2>1. item.status \in SeiStatuses /\ item.at # 0
    <3>1. Other!Missing \notin SeiStatuses
      BY Characters DEF SeiStatuses
    <3> QED
      BY <1>6, <3>1, ItemTyped
  <2> QED
    BY <2>1, StatusChanged
<1> QED
  BY <1>2, <1>3, <1>4, <1>5, <1>6 DEF Judged

-----------------------------------------------------------------------------
(* An item is marked as its SEI is.                                        *)

LEMMA ItemMarked ==
  ASSUME NEW item \in SoundItems, NEW verdict \in {Other!Valid, Other!Invalid}
  PROVE  Judged(item, [item EXCEPT !.ifSeiOk = Other!Unset,
                                   !.tmp = IF @ = Other!Pending THEN verdict ELSE @])
<1> DEFINE tmp == IF item.tmp = Other!Pending THEN verdict ELSE item.tmp
           new == [item EXCEPT !.ifSeiOk = Other!Unset, !.tmp = tmp]
<1>1. item \in Items /\ Other!Unset \in Verdicts /\ tmp \in Statuses
  BY DEF SoundItems, Items, Verdicts, Statuses
<1>2. item.tmp = Other!Pending =>
        item.at # 0 /\ item.status \in SeiStatuses /\ tmp \in SeiStatuses
  BY ItemTyped DEF SeiStatuses
<1>3. item.tmp # Other!Pending => tmp = item.tmp
  OBVIOUS
<1> HIDE DEF tmp
<1>4. /\ new \in Items /\ new.at = item.at /\ new.nalu = item.nalu /\ new.sei = item.sei
      /\ new.status = item.status /\ new.tmp = tmp
      /\ new.inValidation = item.inValidation
  BY ONLY <1>1 DEF Items
<1>5. new = [item EXCEPT !.ifSeiOk = Other!Unset,
                         !.tmp = IF @ = Other!Pending THEN verdict ELSE @]
  BY DEF tmp
<1> HIDE DEF new
<1>6. Preserved(item, new)
  BY <1>2, <1>3, <1>4, ChangeKeeps
<1> QED
  BY <1>4, <1>5, <1>6 DEF Judged

LEMMA MarkAssociatedJudges ==
  ASSUME NEW list \in Seq(SoundItems), NEW valid, NEW linkOk, NEW sei
  PROVE  AllJudged(list, Other!MarkAssociated(list, valid, linkOk, sei))
<1> DEFINE deep == list[Other!PlaceOf(list, sei)].ifSeiOk = Other!Unset
           isReached == Other!Reached(list, sei, deep)
           Mark(item, verdict) ==
             IF deep
             THEN [item EXCEPT !.ifSeiOk = Other!Unset,
                               !.tmp = IF @ = Other!Pending THEN verdict ELSE @]
             ELSE [item EXCEPT !.ifSeiOk = verdict]
           new == Other!MarkAssociated(list, valid, linkOk, sei)
           isGood[k \in {j \in DOMAIN list : isReached[j]}] ==
             /\ Other!MayBeGood(list, k, linkOk)
             /\ IF list[k].sei = sei THEN valid ELSE isGood[Other!PlaceOf(list, list[k].sei)]
           Verdict(k) == IF isGood[k] THEN Other!Valid ELSE Other!Invalid
<1>1. new = [k \in DOMAIN list |-> IF isReached[k] THEN Mark(list[k], Verdict(k)) ELSE list[k]]
  BY DEF Other!MarkAssociated
<1>2. \A k : Verdict(k) \in {Other!Valid, Other!Invalid}
  OBVIOUS
<1>3. ASSUME NEW item \in SoundItems, NEW verdict \in {Other!Valid, Other!Invalid}
      PROVE  Judged(item, Mark(item, verdict))
  <2>1. verdict \in Verdicts
    BY DEF Verdicts
  <2> QED
    BY <2>1, ItemMarked, JudgedIs
<1> HIDE DEF isReached, isGood, Mark, Verdict, new
<1>4. \A k \in DOMAIN list : list[k] \in SoundItems
  OBVIOUS
<1>5. \A k \in DOMAIN list : Judged(list[k], new[k])
  BY <1>1, <1>2, <1>3, <1>4, JudgedItself
<1> QED
  BY <1>1, <1>5 DEF AllJudged, new

LEMMA WithItemJudges ==
  ASSUME NEW list \in Seq(SoundItems), NEW k, NEW item,
         k \in DOMAIN list => Judged(list[k], item)
  PROVE  AllJudged(list, Other!WithItem(list, k, item))
<1>1. \A j \in DOMAIN list : Judged(list[j], list[j])
  BY JudgedItself
<1> QED
  BY <1>1 DEF Other!WithItem, AllJudged

-----------------------------------------------------------------------------
(* Items that no SEI covers are marked.                                    *)

LEMMA AllJudgedTyped ==
  ASSUME NEW list \in Seq(SoundItems), NEW new, AllJudged(list, new)
  PROVE  new \in Seq(SoundItems) /\ DOMAIN new = DOMAIN list
<1>1. Len(list) \in Nat /\ DOMAIN list = 1..Len(list)
  OBVIOUS
<1>2. new = [k \in 1..Len(list) |-> new[k]] /\ \A k \in 1..Len(list) : new[k] \in SoundItems
  BY <1>1 DEF AllJudged, Judged, Preserved
<1>3. new \in Seq(SoundItems)
  BY <1>1, <1>2, FunctionIsSeq
<1> QED
  BY <1>1, <1>2, <1>3

LEMMA MarkItemJudges ==
  ASSUME NEW s, NEW list \in Seq(SoundItems), NEW k \in DOMAIN list,
         list[k].status \in SeiStatuses
  PROVE  AllJudged(list, Other!MarkItem(s, list, k))
<1> DEFINE tmp == IF s.signingPresent THEN Other!Invalid ELSE Other!Unknown
           item == [list[k] EXCEPT !.tmp = tmp, !.ifSeiOk = Other!Unset]
           changed == Other!WithItem(list, k, item)
           new == Other!MarkItem(s, list, k)
<1>1. list[k] \in SoundItems /\ list[k].tmp \in SeiStatuses
  BY ItemTyped
<1>2. tmp \in SeiStatuses /\ Other!Unset \in Verdicts
  BY DEF SeiStatuses, Verdicts
<1>3. Judged(list[k], item)
  <2> HIDE DEF tmp
  <2> QED
    BY <1>1, <1>2, JudgedIs
<1>4. \/ new = changed
      \/ new = Other!MarkAssociated(changed, FALSE, FALSE, item.at)
  BY DEF Other!MarkItem
<1> HIDE DEF item, new
<1>5. AllJudged(list, changed)
  BY <1>3, WithItemJudges
<1>6. changed \in Seq(SoundItems)
  BY <1>5, AllJudgedTyped
<1> HIDE DEF changed
<1>7. AllJudged(changed, Other!MarkAssociated(changed, FALSE, FALSE, item.at))
  BY <1>6, MarkAssociatedJudges
<1>8. AllJudged(list, Other!MarkAssociated(changed, FALSE, FALSE, item.at))
  BY <1>5, <1>7, AllJudgedTwice, Zenon
<1> QED
  BY <1>4, <1>5, <1>8 DEF new

(* One after the other. *)
LEMMA MarkedItemsGo ==
  ASSUME NEW s, s.list \in Seq(SoundItems), NEW places, NEW n \in Nat, Len(places) = n,
         \A i \in 1..n : /\ places[i] \in DOMAIN s.list
                         /\ s.list[places[i]].status \in SeiStatuses
  PROVE  LET f == Other!MarkedItems(s, places)
         IN  /\ f[0] = s.list
             /\ \A i \in 1..n : f[i] = Other!MarkItem(s, f[i - 1], places[i])
             /\ \A i \in 0..n : AllJudged(s.list, f[i])
<1> DEFINE S == {new \in Seq(SoundItems) : AllJudged(s.list, new)}
           step == [p \in (1..n) \X S |-> Other!MarkItem(s, p[2], places[p[1]])]
           Body(f, i) == IF i = 0 THEN s.list ELSE Other!MarkItem(s, f[i - 1], places[i])
<1>1. s.list \in S
  <2>1. \A k \in DOMAIN s.list : Judged(s.list[k], s.list[k])
    BY JudgedItself
  <2> QED
    BY <2>1 DEF AllJudged
<1>2. ASSUME NEW i \in 1..n, NEW list \in S
      PROVE  Other!MarkItem(s, list, places[i]) \in S
  <2>1. list \in Seq(SoundItems) /\ AllJudged(s.list, list) /\ DOMAIN list = DOMAIN s.list
    BY AllJudgedTyped
  <2>2. places[i] \in DOMAIN list /\ list[places[i]].status \in SeiStatuses
    BY <2>1 DEF AllJudged, Judged
  <2>3. AllJudged(list, Other!MarkItem(s, list, places[i]))
    BY <2>1, <2>2, MarkItemJudges
  <2> QED
    BY <2>1, <2>3, AllJudgedTwice, AllJudgedTyped
<1>3. step \in [(1..n) \X S -> S]
  <2>1. \A p \in (1..n) \X S : Other!MarkItem(s, p[2], places[p[1]]) \in S
    BY <1>2
  <2> HIDE DEF S
  <2> QED
    BY <2>1
<1> HIDE DEF S, step
<1>4. PICK g : GoesBy(g, n, S, s.list, step)
  BY <1>1, <1>3, StepByStep
<1>11. g \in [0..n -> S] /\ g[0] = s.list /\ \A i \in 1..n : g[i] = step[<<i, g[i - 1]>>]
  BY <1>4 DEF GoesBy
<1>5. \A i \in 1..n : g[i] = Other!MarkItem(s, g[i - 1], places[i])
  <2> TAKE i \in 1..n
  <2>1. g[i - 1] \in S
    BY <1>11
  <2>2. <<i, g[i - 1]>> \in (1..n) \X S
    BY <2>1
  <2> QED
    BY <1>11, <2>2 DEF step
<1>6. g = [i \in 0..n |-> Body(g, i)]
  <2>1. \A i \in 0..n : g[i] = Body(g, i)
    BY <1>11, <1>5
  <2> QED
    BY <1>11, <2>1
<1> DEFINE f == Other!MarkedItems(s, places)
<1>7. f = [i \in 0..n |-> Body(f, i)]
  BY <1>6 DEF Other!MarkedItems
<1> HIDE DEF f
<1>12. f[0] = s.list /\ \A i \in 1..n : f[i] = Other!MarkItem(s, f[i - 1], places[i])
  BY <1>7
<1> DEFINE T == {i \in 0..n : f[i] \in S}
<1>8. 0 \in T
  BY <1>1, <1>12
<1>9. ASSUME NEW i \in 1..n, i - 1 \in T
      PROVE  i \in T
  BY <1>2, <1>9, <1>12
<1> HIDE DEF T
<1>10. 0..n \subseteq T
  BY <1>8, <1>9, UpToAll
<1> QED
  BY <1>10, <1>12 DEF T, S, f

(* The marked items are candidates. *)
IsMarking(s, places, n, list) ==
  /\ n \in Nat /\ Len(places) = n
  /\ \A i \in 1..n : places[i] \in Other!Candidates(s.list)
  /\ list = Other!MarkedItems(s, places)[n]

LEMMA VerifyHashesWithoutSeiIs ==
  ASSUME NEW s, ListOK(s.list), NEW skip
  PROVE  \E places, n : IsMarking(s, places, n, Other!VerifyHashesWithoutSei(s, skip).list)
<1> DEFINE candidates == Other!Candidates(s.list)
<1>1. PICK number :
        LET places == Other!InOrder(Other!Oldest(candidates, number))
        IN  Other!VerifyHashesWithoutSei(s, skip).list
              = Other!MarkedItems(s, places)[Len(places)]
  BY DEF Other!VerifyHashesWithoutSei
<1> DEFINE oldest == Other!Oldest(candidates, number)
           places == Other!InOrder(oldest)
           n == Cardinality(oldest)
           list == Other!VerifyHashesWithoutSei(s, skip).list
<1>2. Len(s.list) \in Nat /\ DOMAIN s.list = 1..Len(s.list)
  BY SeqFacts DEF ListOK
<1>3. oldest \subseteq candidates /\ candidates \subseteq 1..Len(s.list)
  BY <1>2 DEF Other!Oldest, Other!Candidates
<1>4. list = Other!MarkedItems(s, places)[Len(places)]
  BY <1>1
<1> HIDE DEF oldest, list
<1>5. n \in Nat /\ places \in [1..n -> oldest]
  <2> HIDE DEF candidates
  <2> QED
    BY <1>2, <1>3, InOrderIs
<1> HIDE DEF places, n
<1>6. Len(places) = n
  BY <1>5
<1>7. \A i \in 1..n : places[i] \in candidates
  BY <1>3, <1>5
<1>8. IsMarking(s, places, n, list)
  BY <1>4, <1>5, <1>6, <1>7 DEF IsMarking
<1> QED
  BY <1>8 DEF list

LEMMA MarkingTyped ==
  ASSUME NEW s, ListOK(s.list), NEW k \in Other!Candidates(s.list)
  PROVE  k \in DOMAIN s.list /\ s.list[k].status \in SeiStatuses
BY SeqFacts, ItemTyped DEF ListOK, Other!Candidates, Other!Unassociated

LEMMA VerifyHashesWithoutSeiJudges ==
  ASSUME NEW s, ListOK(s.list), NEW skip
  PROVE  AllJudged(s.list, Other!VerifyHashesWithoutSei(s, skip).list)
<1> DEFINE list == Other!VerifyHashesWithoutSei(s, skip).list
<1>1. PICK places, n : IsMarking(s, places, n, list)
  BY VerifyHashesWithoutSeiIs
<1> HIDE DEF list
<1>2. s.list \in Seq(SoundItems)
  BY DEF ListOK
<1>3. /\ n \in Nat /\ Len(places) = n /\ n \in 0..n /\ list = Other!MarkedItems(s, places)[n]
      /\ \A i \in 1..n : /\ places[i] \in DOMAIN s.list
                         /\ s.list[places[i]].status \in SeiStatuses
  BY <1>1, MarkingTyped DEF IsMarking
<1>4. AllJudged(s.list, Other!MarkedItems(s, places)[n])
  BY <1>2, <1>3, MarkedItemsGo
<1> QED
  BY <1>3, <1>4 DEF list

-----------------------------------------------------------------------------
(* Hashes are verified one after the other.                                *)

Progress ==
  [list : Seq(SoundItems), latest : Int, invalid : Int, verified : Int, unused : Int]

(* The SEI at a place, in validation or about to be. *)
SeiAt(list, place) ==
  place \in DOMAIN list /\ Other!IsSei(list[place]) /\ list[place].status \in SeiStatuses

LEMMA SeiAtIs ==
  ASSUME NEW list \in Seq(SoundItems), NEW place, SeiAt(list, place)
  PROVE  /\ place \in DOMAIN list /\ place \in 1..Len(list)
         /\ list[place].at # 0 /\ list[place].at \in Arrived(list)
         /\ list[place].tmp \in SeiStatuses
BY ItemTyped DEF SeiAt, Arrived

LEMMA MatchIs ==
  ASSUME NEW expected \in Seq(Hash), NEW latest, NEW hash
  PROVE  Other!Match(expected, latest, hash) \in Nat
<1> DEFINE places == {c \in DOMAIN expected : c > latest /\ expected[c] = hash}
<1>1. places \subseteq Nat
  OBVIOUS
<1>2. places # {} => \E c \in places : \A d \in places : c <= d
  <2> HIDE DEF places
  <2> QED
    BY <1>1, LeastExists
<1> QED
  BY <1>1, <1>2 DEF Other!Match

MissingItems(num, sei) == [i \in 1..num |-> Other!MissingItem(sei)]

(* An item is added to a list, perhaps with items for missing NAL Units    *)
(* before it.                                                              *)
IsLonger(list, sei, x, new) ==
  \/ new = Append(list, x)
  \/ \E missing \in Int : new = Append(list \o MissingItems(missing, sei), x)

LEMMA VerifyItemIs ==
  ASSUME NEW s, s.data.list \in Seq(Hash), NEW sei \in SoundItems, sei.tmp \in SeiStatuses,
         NEW acc \in Progress, NEW item \in SoundItems, sei.at # 0
  PROVE  LET new == Other!VerifyItem(s, sei, acc, item)
         IN  /\ new \in Progress
             /\ \E x : Judged(item, x) /\ IsLonger(acc.list, sei.at, x, new.list)
<1> DEFINE new == Other!VerifyItem(s, sei, acc, item)
           match == Other!Match(s.data.list, acc.latest, item.hash)
           missing == match - acc.latest - 1 - acc.invalid
           run == MissingItems(missing, sei.at)
           Verdict(ok) ==
             IF Other!IsSigned(sei)
             THEN [item EXCEPT !.tmp = IF ok THEN sei.tmp ELSE Other!Invalid]
             ELSE [item EXCEPT !.ifSeiOk = IF ok THEN sei.ifSeiOk ELSE Other!Invalid]
           freed == [item EXCEPT !.sei = 0]
<1>1. match \in Int /\ missing \in Int
  <2>1. match \in Nat
    BY MatchIs
  <2>2. acc.latest \in Int /\ acc.invalid \in Int
    BY DEF Progress
  <2> HIDE DEF match
  <2> QED
    BY <2>1, <2>2
<1>2. run \in Seq(SoundItems)
  <2>1. sei.at \in Nat
    BY ItemTyped
  <2>2. {sei.at} \subseteq Nat /\ sei.at \in {sei.at}
    BY <2>1
  <2>3. PartOK(run, {sei.at})
    BY <1>1, <2>2, MissingRun DEF MissingItems
  <2> QED
    BY <2>3 DEF PartOK
<1>3. Judged(item, item) /\ Judged(item, freed)
  BY JudgedItself, JudgedIs DEF Verdicts
<1>4. item.tmp = Other!Pending => Judged(item, Verdict(TRUE)) /\ Judged(item, Verdict(FALSE))
  <2>1. sei.ifSeiOk \in Verdicts /\ Other!Invalid \in Verdicts /\ Other!Invalid \in SeiStatuses
    BY ItemTyped DEF Verdicts, SeiStatuses
  <2>2. Other!Pending \in SeiStatuses
    BY DEF SeiStatuses
  <2> QED
    BY <2>1, <2>2, JudgedIs
<1>5. \/ new = [acc EXCEPT !.list = Append(@, item)]
      \/ new = [acc EXCEPT !.list = Append(@, freed), !.unused = @ + 1]
      \/ /\ item.tmp = Other!Pending
         /\ \/ new = [acc EXCEPT !.list = Append(@, Verdict(FALSE)),
                                 !.verified = @ + 1, !.invalid = @ + 1]
            \/ new = [acc EXCEPT !.list = Append(@ \o run, Verdict(TRUE)),
                                 !.verified = @ + 1 + missing, !.invalid = 0,
                                 !.latest = match]
  BY DEF Other!VerifyItem, MissingItems
<1> HIDE DEF new, match, missing, run, Verdict, freed
<1>6. \A x : Judged(item, x) => x \in SoundItems
  BY DEF Judged, Preserved
<1>11. /\ acc.list \in Seq(SoundItems) /\ acc.latest \in Int /\ acc.invalid \in Int
       /\ acc.verified \in Int
  BY DEF Progress
<1>12. /\ \A l \in Seq(SoundItems), x \in SoundItems : Append(l, x) \in Seq(SoundItems)
       /\ acc.list \o run \in Seq(SoundItems)
  BY <1>2, <1>11
<1>7. CASE new = [acc EXCEPT !.list = Append(@, item)]
  <2>1. new \in Progress /\ new.list = Append(acc.list, item)
    BY <1>7, SMTT(30) DEF Progress
  <2> QED
    BY <1>3, <2>1 DEF new, IsLonger
<1>8. CASE new = [acc EXCEPT !.list = Append(@, freed), !.unused = @ + 1]
  <2>1. new \in Progress /\ new.list = Append(acc.list, freed)
    <3>1. Append(acc.list, freed) \in Seq(SoundItems)
      BY <1>3, <1>6, <1>11, <1>12
    <3>2. acc.unused + 1 \in Int
      BY DEF Progress
    <3> QED
      BY <1>8, <3>1, <3>2 DEF Progress
  <2> QED
    BY <1>3, <2>1 DEF new, IsLonger
<1>9. CASE /\ item.tmp = Other!Pending
           /\ new = [acc EXCEPT !.list = Append(@, Verdict(FALSE)),
                                !.verified = @ + 1, !.invalid = @ + 1]
  <2>1. new \in Progress /\ new.list = Append(acc.list, Verdict(FALSE))
    <3>1. Append(acc.list, Verdict(FALSE)) \in Seq(SoundItems)
      BY <1>4, <1>6, <1>9, <1>11, <1>12
    <3>2. acc.verified + 1 \in Int /\ acc.invalid + 1 \in Int
      BY <1>11
    <3> QED
      BY <1>9, <3>1, <3>2 DEF Progress
  <2> QED
    BY <1>4, <1>9, <2>1 DEF new, IsLonger
<1>10. CASE /\ item.tmp = Other!Pending
            /\ new = [acc EXCEPT !.list = Append(@ \o run, Verdict(TRUE)),
                                 !.verified = @ + 1 + missing, !.invalid = 0,
                                 !.latest = match]
  <2>1. new \in Progress /\ new.list = Append(acc.list \o run, Verdict(TRUE))
    <3>1. Append(acc.list \o run, Verdict(TRUE)) \in Seq(SoundItems)
      BY <1>4, <1>6, <1>10, <1>12
    <3>2. acc.verified + 1 + missing \in Int
      BY <1>1, <1>11
    <3> DEFINE longer == Append(acc.list \o run, Verdict(TRUE))
               verified == acc.verified + 1 + missing
    <3>3. new = [acc EXCEPT !.list = longer, !.verified = verified, !.invalid = 0,
                            !.latest = match]
      BY <1>10
    <3> HIDE DEF longer, verified
    <3> QED
      <4>1. longer \in Seq(SoundItems) /\ verified \in Int
        BY <3>1, <3>2 DEF longer, verified
      <4>2. acc = [list |-> acc.list, latest |-> acc.latest, invalid |-> acc.invalid,
                   verified |-> acc.verified, unused |-> acc.unused] /\ acc.unused \in Int
        BY ONLY acc \in Progress DEF Progress
      <4>3. new = [list |-> longer, latest |-> match, invalid |-> 0, verified |-> verified,
                   unused |-> acc.unused]
        BY ONLY <3>3, <4>2
      <4>4. new \in Progress /\ new.list = longer
        BY ONLY <1>1, <4>1, <4>2, <4>3 DEF Progress
      <4> QED
        BY <4>4 DEF longer
  <2> QED
    <3>1. IsLonger(acc.list, sei.at, Verdict(TRUE), new.list)
      BY <1>1, <2>1 DEF run, IsLonger
    <3> QED
      BY <1>4, <1>10, <2>1, <3>1 DEF new
<1> QED
  BY <1>5, <1>7, <1>8, <1>9, <1>10

(* An item is added behind those that came before it, perhaps with items   *)
(* for missing NAL Units between.                                          *)
CanFollow(numbers, list, sei, x) ==
  /\ numbers \subseteq Nat /\ 0 \notin numbers /\ PartOK(list, numbers) /\ sei \in numbers
  /\ x \in SoundItems /\ x.sei \in {0} \cup numbers /\ (x.sei # 0 => x.at < x.sei)
  /\ \A y \in Arrived(list) :
       y < sei /\ (x.at # 0 => y < x.at) /\ (x.sei # 0 => y < x.sei)

LEMMA ItemAdded ==
  ASSUME NEW numbers, NEW list, NEW sei, NEW x, NEW new,
         CanFollow(numbers, list, sei, x), IsLonger(list, sei, x, new)
  PROVE  PartOK(new, numbers) /\ Arrived(new) = Arrived(list) \cup ({x.at} \ {0})
<1> DEFINE one == <<x>>
<1>7. /\ numbers \subseteq Nat /\ 0 \notin numbers /\ PartOK(list, numbers)
      /\ sei \in numbers /\ x \in SoundItems /\ x.sei \in {0} \cup numbers
      /\ (x.sei # 0 => x.at < x.sei)
      /\ \A y \in Arrived(list) :
           y < sei /\ (x.at # 0 => y < x.at) /\ (x.sei # 0 => y < x.sei)
  BY DEF CanFollow
<1>1. PartOK(one, numbers) /\ Arrived(one) = {x.at} \ {0}
  BY <1>7, OneItem
<1>2. DOMAIN one = {1} /\ one[1] = x
  OBVIOUS
<1>3. list \in Seq(SoundItems)
  BY <1>7 DEF PartOK
<1> HIDE DEF one
<1>4. ASSUME NEW l, PartOK(l, numbers), Arrived(l) = Arrived(list)
      PROVE  /\ PartOK(Append(l, x), numbers)
             /\ Arrived(Append(l, x)) = Arrived(list) \cup ({x.at} \ {0})
  <2>1. After(l, one)
    BY <1>2, <1>4, <1>7 DEF After
  <2>2. PartOK(l, numbers) /\ PartOK(one, numbers) /\ After(l, one)
    BY <1>1, <1>4, <2>1
  <2>3. PartOK(l \o one, numbers)
    BY <2>2, JoinedIsPart, Zenon
  <2>4. Arrived(l \o one) = Arrived(l) \cup Arrived(one)
    BY ONLY <2>2, JoinedArrived
  <2>5. Append(l, x) = l \o one
    <3>1. l \in Seq(SoundItems)
      BY <1>4 DEF PartOK
    <3> QED
      BY <3>1, AppendIsConcat DEF one
  <2> QED
    BY <1>1, <1>4, <2>3, <2>4, <2>5
<1>5. CASE new = Append(list, x)
  BY <1>4, <1>5, <1>7
<1>6. CASE \E missing \in Int : new = Append(list \o MissingItems(missing, sei), x)
  <2>1. PICK missing \in Int : new = Append(list \o MissingItems(missing, sei), x)
    BY <1>6
  <2> DEFINE run == MissingItems(missing, sei)
             both == list \o run
  <2>2. PartOK(run, numbers) /\ Arrived(run) = {}
    BY <1>7, MissingRun DEF MissingItems
  <2>3. After(list, run)
    <3>1. \A i \in DOMAIN run : run[i].at = 0 /\ run[i].sei = sei
      BY <1>7, MissingItemIs DEF MissingItems
    <3> HIDE DEF run
    <3> QED
      BY <1>7, <3>1 DEF After
  <2> HIDE DEF run
  <2>4. PartOK(list, numbers) /\ PartOK(run, numbers) /\ After(list, run)
    BY <1>7, <2>2, <2>3
  <2>5. PartOK(both, numbers)
    BY <2>4, JoinedIsPart, Zenon
  <2>6. Arrived(both) = Arrived(list) \cup Arrived(run)
    BY ONLY <2>4, JoinedArrived
  <2>7. new = Append(both, x) /\ Arrived(both) = Arrived(list)
    BY <2>1, <2>2, <2>6 DEF run
  <2> HIDE DEF both
  <2> QED
    BY <1>4, <2>5, <2>7
<1> QED
  BY <1>5, <1>6 DEF IsLonger

(* One item more, of the items before a SEI.                               *)
LEMMA VerifyItemKeeps ==
  ASSUME NEW s, ListOK(s.list), s.data.list \in Seq(Hash), NEW place, SeiAt(s.list, place),
         NEW i \in 1..(place - 1), NEW acc \in Progress,
         PartOK(acc.list, Arrived(s.list)), Arrived(acc.list) = ArrivedAt(s.list, 1..(i - 1))
  PROVE  LET new == Other!VerifyItem(s, s.list[place], acc, s.list[i])
         IN  /\ new \in Progress /\ PartOK(new.list, Arrived(s.list))
             /\ Arrived(new.list) = ArrivedAt(s.list, 1..i)
<1> DEFINE list == s.list
           sei == list[place]
           item == list[i]
           numbers == Arrived(list)
           new == Other!VerifyItem(s, sei, acc, item)
<1>1. /\ list \in Seq(SoundItems) /\ Len(list) \in Nat /\ DOMAIN list = 1..Len(list)
      /\ Ordered(list) /\ PointsInto(list, numbers)
  BY SeqFacts DEF ListOK
<1>2. /\ place \in DOMAIN list /\ place \in 1..Len(list) /\ sei \in SoundItems
      /\ sei.at # 0 /\ sei.at \in numbers /\ sei.tmp \in SeiStatuses
  BY <1>1, SeiAtIs
<1>3. numbers \subseteq Nat /\ 0 \notin numbers
  BY <1>1, ItemTyped DEF Arrived
<1>4. i \in DOMAIN list /\ i < place /\ i \in Int /\ item \in SoundItems
  BY <1>1, <1>2
<1>5. new \in Progress /\ \E x : Judged(item, x) /\ IsLonger(acc.list, sei.at, x, new.list)
  <2> HIDE DEF sei, item
  <2> QED
    BY <1>2, <1>4, VerifyItemIs
<1> HIDE DEF new
<1>11. PICK x : Judged(item, x) /\ IsLonger(acc.list, sei.at, x, new.list)
  BY <1>5
<1>6. x \in SoundItems /\ x.at = item.at /\ x.sei \in {item.sei, 0}
  BY <1>11 DEF Judged, Preserved
<1>7. x.sei \in {0} \cup numbers /\ (x.sei # 0 => x.at < x.sei)
  BY <1>1, <1>4, <1>6 DEF PointsInto, Ordered
<1>8. \A y \in Arrived(acc.list) :
        y < sei.at /\ (x.at # 0 => y < x.at) /\ (x.sei # 0 => y < x.sei)
  <2> TAKE y \in Arrived(acc.list)
  <2>1. PICK j \in 1..(i - 1) : y = list[j].at
    BY DEF ArrivedAt
  <2>2. j \in DOMAIN list /\ j < i /\ j <= i /\ j < place
    BY <1>1, <1>2, <1>4
  <2> QED
    BY <1>1, <1>2, <1>4, <1>6, <2>1, <2>2 DEF Ordered
<1>9. /\ PartOK(new.list, numbers)
      /\ Arrived(new.list) = Arrived(acc.list) \cup ({x.at} \ {0})
  <2>1. PartOK(acc.list, numbers) /\ sei.at \in numbers
    BY <1>2
  <2> DEFINE front == acc.list
             back == new.list
             at == sei.at
  <2>2. CanFollow(numbers, front, at, x) /\ IsLonger(front, at, x, back)
    BY <1>3, <1>11, <1>6, <1>7, <1>8, <2>1 DEF CanFollow
  <2> HIDE DEF numbers, front, back, at
  <2>3. PartOK(back, numbers) /\ Arrived(back) = Arrived(front) \cup ({x.at} \ {0})
    BY ONLY <2>2, ItemAdded
  <2> QED
    BY <2>3 DEF front, back
<1>10. Arrived(new.list) = ArrivedAt(list, 1..i)
  <2>1. 1..i = (1..(i - 1)) \cup {i}
    BY <1>4
  <2> QED
    BY <1>6, <1>9, <2>1 DEF ArrivedAt
<1> QED
  BY <1>5, <1>9, <1>10 DEF new

(* What is known after each item. *)
LEMMA VerifiedItemsGo ==
  ASSUME NEW s, ListOK(s.list), s.data.list \in Seq(Hash), NEW place, SeiAt(s.list, place)
  PROVE  LET f == Other!VerifiedItems(s, place)
         IN  /\ place - 1 \in Nat /\ place - 1 < Len(s.list)
             /\ f[0] = [list |-> <<>>, latest |-> 0, invalid |-> 0, verified |-> 0,
                        unused |-> 0]
             /\ \A i \in 1..(place - 1) :
                  f[i] = Other!VerifyItem(s, s.list[place], f[i - 1], s.list[i])
             /\ \A i \in 0..(place - 1) : f[i] \in Progress
<1> DEFINE n == place - 1
           sei == s.list[place]
           base == [list |-> <<>>, latest |-> 0, invalid |-> 0, verified |-> 0, unused |-> 0]
           step == [p \in (1..n) \X Progress |-> Other!VerifyItem(s, sei, p[2], s.list[p[1]])]
           Body(f, i) == IF i = 0 THEN base ELSE Other!VerifyItem(s, sei, f[i - 1], s.list[i])
<1>1. /\ s.list \in Seq(SoundItems) /\ Len(s.list) \in Nat
      /\ DOMAIN s.list = 1..Len(s.list)
  BY SeqFacts DEF ListOK
<1>2. place \in 1..Len(s.list) /\ sei \in SoundItems /\ sei.at # 0 /\ sei.tmp \in SeiStatuses
  BY <1>1, SeiAtIs
<1>3. n \in Nat /\ n < Len(s.list) /\ \A i \in 1..n : s.list[i] \in SoundItems
  BY <1>1, <1>2
<1>4. base \in Progress
  BY DEF Progress
<1>5. \A i \in 1..n, acc \in Progress : Other!VerifyItem(s, sei, acc, s.list[i]) \in Progress
  BY <1>2, <1>3, VerifyItemIs
<1>6. step \in [(1..n) \X Progress -> Progress]
  BY <1>5
<1> HIDE DEF base, step, n, sei
<1>7. PICK g : GoesBy(g, n, Progress, base, step)
  BY <1>3, <1>4, <1>6, StepByStep
<1>8. /\ g \in [0..n -> Progress] /\ g[0] = base
      /\ \A i \in 1..n : g[i] = step[<<i, g[i - 1]>>]
  BY <1>7 DEF GoesBy
<1>9. \A i \in 1..n : g[i] = Other!VerifyItem(s, sei, g[i - 1], s.list[i])
  <2> TAKE i \in 1..n
  <2>1. i - 1 \in 0..n
    BY <1>3
  <2>2. g[i - 1] \in Progress
    BY <1>8, <2>1
  <2>3. <<i, g[i - 1]>> \in (1..n) \X Progress
    BY <2>2
  <2> QED
    BY <1>8, <2>3 DEF step
<1>10. g = [i \in 0..n |-> Body(g, i)]
  <2>1. \A i \in 0..n : g[i] = Body(g, i)
    BY <1>3, <1>8, <1>9
  <2> QED
    BY <1>8, <2>1
<1> DEFINE f == Other!VerifiedItems(s, place)
<1>11. f = [i \in 0..n |-> Body(f, i)]
  BY <1>10 DEF Other!VerifiedItems, n, sei, base
<1> HIDE DEF f
<1>12. f[0] = base /\ \A i \in 1..n : f[i] = Other!VerifyItem(s, sei, f[i - 1], s.list[i])
  BY <1>3, <1>11
<1> DEFINE T == {i \in 0..n : f[i] \in Progress}
<1>13. 0 \in T
  BY <1>3, <1>4, <1>12
<1>14. ASSUME NEW i \in 1..n, i - 1 \in T
       PROVE  i \in T
  BY <1>3, <1>5, <1>12, <1>14
<1> HIDE DEF T
<1>15. 0..n \subseteq T
  BY <1>3, <1>13, <1>14, UpToAll
<1> QED
  BY <1>3, <1>12, <1>15 DEF T, f, n, sei, base

LEMMA VerifiedItemsAre ==
  ASSUME NEW s, ListOK(s.list), s.data.list \in Seq(Hash), NEW place, SeiAt(s.list, place)
  PROVE  LET end == Other!VerifiedItems(s, place)[place - 1]
         IN  /\ end \in Progress /\ PartOK(end.list, Arrived(s.list))
             /\ Arrived(end.list) = ArrivedAt(s.list, 1..(place - 1))
<1> DEFINE n == place - 1
           numbers == Arrived(s.list)
           sei == s.list[place]
           base == [list |-> <<>>, latest |-> 0, invalid |-> 0, verified |-> 0, unused |-> 0]
           f == Other!VerifiedItems(s, place)
<1>1. /\ n \in Nat /\ f[0] = base
      /\ \A i \in 1..n : f[i] = Other!VerifyItem(s, sei, f[i - 1], s.list[i])
      /\ \A i \in 0..n : f[i] \in Progress
  BY VerifiedItemsGo
<1> HIDE DEF base, n, sei, f
<1> DEFINE T == {i \in 0..n : /\ PartOK(f[i].list, numbers)
                              /\ Arrived(f[i].list) = ArrivedAt(s.list, 1..i)}
<1>2. 0 \in T
  <2>1. base.list = <<>> /\ 0 \in 0..n
    BY <1>1 DEF base
  <2>2. /\ <<>> \in Seq(SoundItems) /\ Ordered(<<>>) /\ PointsInto(<<>>, numbers)
        /\ Arrived(<<>>) = {} /\ ArrivedAt(s.list, 1..0) = {}
    BY DEF Ordered, PointsInto, Arrived, ArrivedAt
  <2>3. PartOK(<<>>, numbers)
    BY <2>2 DEF PartOK
  <2> HIDE DEF numbers
  <2> QED
    BY <1>1, <2>1, <2>2, <2>3
<1>3. ASSUME NEW i \in 1..n, i - 1 \in T
      PROVE  i \in T
  <2>1. f[i] = Other!VerifyItem(s, sei, f[i - 1], s.list[i])
    BY <1>1
  <2>2. /\ f[i - 1] \in Progress /\ PartOK(f[i - 1].list, numbers)
        /\ Arrived(f[i - 1].list) = ArrivedAt(s.list, 1..(i - 1))
    BY <1>1, <1>3
  <2> HIDE DEF T
  <2>3. PartOK(f[i].list, numbers) /\ Arrived(f[i].list) = ArrivedAt(s.list, 1..i)
    BY <2>1, <2>2, VerifyItemKeeps DEF n, sei
  <2>4. i \in 0..n
    BY <1>1
  <2> QED
    BY <2>3, <2>4 DEF T
<1> HIDE DEF T
<1>4. n \in T
  <2>1. 0..n \subseteq T
    BY <1>1, <1>2, <1>3, UpToAll
  <2> QED
    BY <1>1, <2>1
<1>5. f[n] \in Progress
  BY <1>1
<1> QED
  BY <1>4, <1>5 DEF T, f, n

LEMMA VerifyIndividualHashesKeeps ==
  ASSUME NEW s, HasFields(s, Fields), ListOK(s.list), s.data.list \in Seq(Hash),
         s.numNalus \in Int, NEW place, SeiAt(s.list, place)
  PROVE  LET t == Other!VerifyIndividualHashes(s, place)
         IN  Reshaped(s.list, t.list) /\ t.numNalus \in Int /\ t.data = s.data
               /\ t.anchor = s.anchor
<1> DEFINE end == Other!VerifiedItems(s, place)[place - 1]
           numbers == Arrived(s.list)
           rest == SubSeq(s.list, place, Len(s.list))
           list == end.list \o rest
           num == Len(s.data.list) - end.verified
           new == Other!AddMissingAtEnd(list, num, s.list[place].at)
           numNalus == s.numNalus - end.unused
           t == Other!VerifyIndividualHashes(s, place)
<1>1. /\ s.list \in Seq(SoundItems) /\ Len(s.list) \in Nat
      /\ DOMAIN s.list = 1..Len(s.list)
  BY SeqFacts DEF ListOK
<1>2. /\ end \in Progress /\ PartOK(end.list, numbers)
      /\ Arrived(end.list) = ArrivedAt(s.list, 1..(place - 1))
  BY VerifiedItemsAre
<1>3. t = [s EXCEPT !.list = new, !.numNalus = numNalus]
  BY DEF Other!VerifyIndividualHashes
<1> HIDE DEF end
<1>4. num \in Int /\ numNalus \in Int
  <2>1. end.verified \in Int /\ end.unused \in Int /\ Len(s.data.list) \in Nat
    BY <1>2 DEF Progress
  <2> QED
    BY <2>1
<1>5. place \in 1..Len(s.list) /\ s.list[place].at \in numbers
  BY <1>1, SeiAtIs
<1>6. /\ PartOK(rest, numbers) /\ After(SubSeq(s.list, 1, place - 1), rest)
      /\ Arrived(SubSeq(s.list, 1, place - 1)) \cup Arrived(rest) = numbers
      /\ Arrived(SubSeq(s.list, 1, place - 1)) = ArrivedAt(s.list, 1..(place - 1))
  <2>1. place \in 1..(Len(s.list) + 1) /\ PartOK(s.list, numbers)
    BY <1>1, <1>5, ListIsPart
  <2> QED
    BY <2>1, CutInTwo
<1> HIDE DEF rest, numbers, num, numNalus
<1>7. After(end.list, rest)
  BY <1>2, <1>6 DEF After
<1>8. ListOK(list) /\ Arrived(list) = numbers
  <2> DEFINE front == end.list
  <2> HIDE DEF front
  <2>1. PartOK(front, numbers) /\ PartOK(rest, numbers) /\ After(front, rest)
    BY <1>2, <1>6, <1>7 DEF front
  <2>2. PartOK(front \o rest, numbers)
    BY <2>1, JoinedIsPart, Zenon
  <2>3. Arrived(front \o rest) = Arrived(front) \cup Arrived(rest)
    BY ONLY <2>1, JoinedArrived
  <2>4. Arrived(front \o rest) = numbers
    BY <1>2, <1>6, <2>3 DEF front
  <2> QED
    BY <2>2, <2>4, ListIsPart DEF front
<1> HIDE DEF list
<1>9. Reshaped(list, new)
  BY <1>4, <1>5, <1>8, AddMissingAtEndKeeps
<1> HIDE DEF new
<1>10. Reshaped(s.list, new)
  BY <1>8, <1>9 DEF Reshaped, numbers
<1>11. t.list = new /\ t.numNalus = numNalus /\ t.data = s.data /\ t.anchor = s.anchor
  BY <1>3, FieldsAre DEF HasFields
<1> QED
  BY <1>4, <1>10, <1>11

-----------------------------------------------------------------------------
(* The session with its list.                                              *)

Typed(s) ==
  /\ HasFields(s, Fields) /\ ListOK(s.list) /\ s.data \in SeiData
  /\ s.numNalus \in Int /\ s.anchor \in Int

(* The session at a later point of a call, after no arrival. *)
Continues(s, t) == Typed(t) /\ Arrived(t.list) = Arrived(s.list)

(* And the SEI in validation is where it was. *)
ContinuesAt(s, t, place) ==
  Continues(s, t) /\ SeiAt(t.list, place) /\ t.list[place].at = s.list[place].at

LEMMA ContinuesTwice ==
  ASSUME NEW s, NEW t, NEW u, Continues(s, t), Continues(t, u)
  PROVE  Continues(s, u)
BY DEF Continues

LEMMA ContinuesAtTwice ==
  ASSUME NEW s, NEW t, NEW u, NEW place, ContinuesAt(s, t, place), ContinuesAt(t, u, place)
  PROVE  ContinuesAt(s, u, place)
BY DEF ContinuesAt, Continues

(* All but the list and the counter of its NAL Units is the same. *)
Relisted(s, t) ==
  /\ HasFields(t, Fields) /\ Reshaped(s.list, t.list) /\ t.data = s.data
  /\ t.anchor = s.anchor /\ t.numNalus \in Int

LEMMA RelistedContinues ==
  ASSUME NEW s, NEW t, Typed(s), Relisted(s, t)
  PROVE  Continues(s, t)
BY DEF Typed, Relisted, Continues, Reshaped

LEMMA WithList ==
  ASSUME NEW s, Typed(s), NEW list, Reshaped(s.list, list)
  PROVE  Continues(s, [s EXCEPT !.list = list])
<1> DEFINE t == [s EXCEPT !.list = list]
<1>1. HasFields(s, Fields) /\ s.numNalus \in Int
  BY DEF Typed
<1>2. /\ HasFields(t, Fields) /\ t.list = list /\ t.data = s.data /\ t.anchor = s.anchor
      /\ t.numNalus = s.numNalus
  BY ONLY <1>1, FieldsAre DEF HasFields
<1> HIDE DEF t
<1>3. Relisted(s, t)
  BY <1>1, <1>2 DEF Relisted
<1> QED
  BY <1>3, RelistedContinues DEF t

(* Nothing of what the list needs is changed. *)
Untouched(s, t) ==
  /\ HasFields(t, Fields) /\ t.list = s.list /\ t.data = s.data /\ t.anchor = s.anchor
  /\ t.numNalus = s.numNalus

LEMMA UntouchedContinues ==
  ASSUME NEW s, NEW t, Typed(s), Untouched(s, t)
  PROVE  Continues(s, t) /\ t.list = s.list
BY DEF Typed, Untouched, Continues

LEMMA AssociateContinues ==
  ASSUME NEW s, Typed(s), NEW place, SeiAt(s.list, place), NEW places,
         places \subseteq 1..(place - 1)
  PROVE  ContinuesAt(s, Other!Associate(s, places, s.list[place].at), place)
<1> DEFINE sei == s.list[place].at
           t == Other!Associate(s, places, sei)
           Put(item) == [item EXCEPT !.sei = sei]
<1>1. /\ HasFields(s, Fields) /\ ListOK(s.list) /\ s.list \in Seq(SoundItems)
      /\ DOMAIN s.list = 1..Len(s.list) /\ Len(s.list) \in Nat /\ s.numNalus \in Int
  BY SeqFacts DEF Typed, ListOK
<1>2. /\ place \in DOMAIN s.list /\ place \in 1..Len(s.list) /\ sei # 0
      /\ s.list[place] \in SoundItems
  BY <1>1, SeiAtIs
<1>3. \A k \in DOMAIN s.list \cap places : k < place
  BY <1>1, <1>2
<1>4. Reshaped(s.list, t.list)
  BY <1>1, <1>2, <1>3, AssociateKeeps
<1>5. Other!Cardinality(places) \in Nat
  <2>1. IsFiniteSet(1..(place - 1))
    BY <1>1, <1>2, FS_Interval
  <2>2. Cardinality(places) \in Nat
    BY <2>1, FS_Subset, FS_CardinalityType
  <2> QED
    BY <2>2, OtherCardinality
<1>6. /\ HasFields(t, Fields) /\ t.data = s.data /\ t.anchor = s.anchor
      /\ t.numNalus = s.numNalus + Other!Cardinality(places)
      /\ t.list = [k \in DOMAIN s.list |->
                     IF k \in places THEN Put(s.list[k]) ELSE s.list[k]]
  BY <1>1, FieldsAre DEF HasFields, Other!Associate
<1>7. place \notin places
  BY <1>1, <1>2
<1>8. t.list[place] = s.list[place] /\ DOMAIN t.list = DOMAIN s.list
  BY <1>2, <1>6, <1>7
<1> HIDE DEF t, sei
<1>9. Relisted(s, t)
  BY <1>1, <1>4, <1>5, <1>6 DEF Relisted
<1>10. SeiAt(t.list, place) /\ t.list[place].at = s.list[place].at
  BY <1>8 DEF SeiAt
<1> QED
  BY <1>9, <1>10, RelistedContinues DEF ContinuesAt, t, sei

LEMMA ComputeGopHashContinues ==
  ASSUME NEW s, Typed(s), NEW place, SeiAt(s.list, place)
  PROVE  ContinuesAt(s, Other!ComputeGopHash(s, place), place)
<1> DEFINE none == [s EXCEPT !.numNalus = 0]
<1>1. PICK places, gopHash :
        /\ places \subseteq 1..(place - 1)
        /\ Other!ComputeGopHash(s, place)
             = [Other!Associate(none, places, s.list[place].at) EXCEPT !.gopHash = gopHash]
  <2> DEFINE before == {k \in Other!Candidates(s.list) : k < place}
             ofGop == {k \in before :
                         \A j \in before : j <= k /\ Other!IsFirstInGop(s.list[j])
                                             => \A i \in before : i >= j}
             places == IF s.data.triggered THEN Other!Oldest(ofGop, s.data.numNalus) ELSE ofGop
             ordered == Other!InOrder(places)
             gopHash == [i \in DOMAIN ordered |-> s.list[ordered[i]].hash]
  <2>1. Other!ComputeGopHash(s, place)
          = [Other!Associate(none, places, s.list[place].at) EXCEPT !.gopHash = gopHash]
    BY DEF Other!ComputeGopHash
  <2>2. before \subseteq 1..(place - 1)
    <3>1. DOMAIN s.list = 1..Len(s.list) /\ place \in DOMAIN s.list /\ Len(s.list) \in Nat
      BY SeqFacts DEF Typed, ListOK, SeiAt
    <3> QED
      BY <3>1 DEF Other!Candidates
  <2> HIDE DEF before, gopHash
  <2>3. places \subseteq before
    BY DEF Other!Oldest
  <2> HIDE DEF places
  <2> QED
    BY <2>1, <2>2, <2>3
<1> DEFINE associated == Other!Associate(none, places, s.list[place].at)
           t == Other!ComputeGopHash(s, place)
<1>2. /\ Typed(none) /\ none.list = s.list
  <2>1. HasFields(s, Fields)
    BY DEF Typed
  <2>2. /\ HasFields(none, Fields) /\ none.list = s.list /\ none.data = s.data
        /\ none.anchor = s.anchor /\ none.numNalus = 0
    BY ONLY <2>1, FieldsAre DEF HasFields
  <2> HIDE DEF none
  <2> QED
    BY <2>2 DEF Typed
<1> HIDE DEF none
<1>3. ContinuesAt(none, associated, place)
  BY <1>1, <1>2, AssociateContinues
<1> HIDE DEF associated
<1>4. HasFields(associated, Fields)
  BY <1>3 DEF ContinuesAt, Continues, Typed
<1>5. t = [associated EXCEPT !.gopHash = gopHash]
  BY <1>1 DEF associated
<1> HIDE DEF t
<1>6. Untouched(associated, t)
  BY ONLY <1>4, <1>5, FieldsAre DEF HasFields, Untouched
<1>7. Continues(associated, t) /\ t.list = associated.list
  BY <1>3, <1>6, UntouchedContinues DEF ContinuesAt, Continues
<1> QED
  BY <1>2, <1>3, <1>7 DEF ContinuesAt, Continues, t

LEMMA AssociateGopContinues ==
  ASSUME NEW s, Typed(s), NEW place, SeiAt(s.list, place)
  PROVE  ContinuesAt(s, Other!AssociateGop(s, place), place)
<1> DEFINE pending == {k \in 1..(place - 1) : Other!Unassociated(s.list[k])}
<1>1. \/ Other!AssociateGop(s, place) = s
      \/ \E places : /\ places \subseteq pending
                     /\ Other!AssociateGop(s, place)
                          = Other!Associate(s, places, s.list[place].at)
  BY DEF Other!AssociateGop
<1>2. pending \subseteq 1..(place - 1)
  OBVIOUS
<1> HIDE DEF pending
<1>3. ContinuesAt(s, s, place)
  BY DEF ContinuesAt, Continues
<1> QED
  BY <1>1, <1>2, <1>3, AssociateContinues

LEMMA UpdateLinkedHashContinues ==
  ASSUME NEW s, Typed(s), NEW place
  PROVE  Continues(s, Other!UpdateLinkedHash(s, place))
           /\ Other!UpdateLinkedHash(s, place).list = s.list
<1> DEFINE t == Other!UpdateLinkedHash(s, place)
<1>1. HasFields(s, Fields)
  BY DEF Typed
<1>2. t = s \/ \E linked : t = [s EXCEPT !.linked = linked]
  BY <1>1, FieldsAre DEF Other!UpdateLinkedHash, HasFields
<1> HIDE DEF t
<1>3. Untouched(s, t)
  BY ONLY <1>1, <1>2, FieldsAre DEF HasFields, Untouched
<1> QED
  BY <1>3, UntouchedContinues DEF t

LEMMA DecodeCertificatesTouches ==
  ASSUME NEW s, HasFields(s, Fields), NEW cert
  PROVE  Untouched(s, Other!DecodeCertificates(s, cert))
<1> DEFINE t == Other!DecodeCertificates(s, cert)
           verifiedPubkey == IF s.trusted = cert THEN 1 ELSE 0
           latest == [s.latest EXCEPT !.keyChanged = s.latest.keyChanged \/ s.key # 0]
<1>1. t = s \/ t = [s EXCEPT !.key = cert, !.verifiedPubkey = verifiedPubkey,
                             !.latest = latest]
  BY FieldsAre DEF Other!DecodeCertificates, HasFields
<1> HIDE DEF t, verifiedPubkey, latest
<1> QED
  BY <1>1, FieldsAre DEF HasFields, Untouched, t

LEMMA DecodeSeiContinues ==
  ASSUME NEW s, Typed(s), NEW says \in SeiData
  PROVE  Continues(s, Other!DecodeSei(s, says)) /\ Other!DecodeSei(s, says).list = s.list
<1> DEFINE certified == Other!DecodeCertificates(s, says.cert)
           data == Other!Decoded(s, says)
           t == Other!DecodeSei(s, says)
<1>1. HasFields(s, Fields) /\ s.data \in SeiData
  BY DEF Typed
<1>2. Untouched(s, certified)
  BY <1>1, DecodeCertificatesTouches
<1>3. data \in SeiData
  <2>1. ASSUME NEW known \in SeiData PROVE [known EXCEPT !.list = <<>>] \in SeiData
    <3> DEFINE S == Seq(Hash)
               none == <<>>
    <3>1. none \in S
      OBVIOUS
    <3>2. known \in [counter : 0..(CounterRange - 1), gopHash : S, numNalus : Nat, list : S,
             linked : S, triggered : BOOLEAN, signed : BOOLEAN, isCertificate : BOOLEAN,
             key : {0} \cup Keys, cert : {0} \cup Keys]
      BY DEF SeiData
    <3> HIDE DEF S, none
    <3>3. [known EXCEPT !.list = none] \in
            [counter : 0..(CounterRange - 1), gopHash : S, numNalus : Nat, list : S,
             linked : S, triggered : BOOLEAN, signed : BOOLEAN, isCertificate : BOOLEAN,
             key : {0} \cup Keys, cert : {0} \cup Keys]
      BY ONLY <3>1, <3>2
    <3> QED
      BY <3>3 DEF SeiData, S, none
  <2> QED
    BY <1>1, <2>1 DEF Other!Decoded
<1>4. PICK wraps, lost :
        t = [certified EXCEPT !.data = data, !.wraps = wraps, !.lost = lost]
  BY DEF Other!DecodeSei
<1> HIDE DEF certified, data, t
<1>5. HasFields(certified, Fields)
  BY <1>2 DEF Untouched
<1>6. /\ HasFields(t, Fields) /\ t.list = certified.list /\ t.data = data
      /\ t.anchor = certified.anchor /\ t.numNalus = certified.numNalus
  BY ONLY <1>4, <1>5, FieldsAre DEF HasFields
<1>7. t.list = s.list /\ t.anchor = s.anchor /\ t.numNalus = s.numNalus
  BY <1>2, <1>6 DEF Untouched
<1> QED
  BY <1>3, <1>6, <1>7 DEF Typed, Continues, t

(* The SEI enters its validation. *)
LEMMA MarkedIsKept ==
  ASSUME NEW list \in Seq(SoundItems), NEW place, SeiAt(list, place),
         NEW tmp \in {list[place].tmp} \cup SeiStatuses,
         NEW ok \in {list[place].ifSeiOk} \cup Verdicts
  PROVE  LET marked == [list[place] EXCEPT !.inValidation = TRUE, !.decoded = TRUE,
                                           !.tmp = tmp, !.ifSeiOk = ok]
         IN  Preserved(list[place], marked) /\ SeiAt(Other!WithItem(list, place, marked), place)
<1> DEFINE item == list[place]
           marked == [item EXCEPT !.inValidation = TRUE, !.decoded = TRUE,
                                  !.tmp = tmp, !.ifSeiOk = ok]
<1>1. item \in SoundItems /\ Other!IsSei(item) /\ item.status \in SeiStatuses
      /\ place \in DOMAIN list
  BY DEF SeiAt
<1>2. item.tmp \in SeiStatuses /\ item.ifSeiOk \in Verdicts /\ item \in Items
  BY <1>1, ItemTyped
<1> HIDE DEF item
<1>3. Preserved(item, marked)
  BY <1>1, <1>2, ValidationEntered DEF item
<1>4. marked.nalu = item.nalu /\ marked.status = item.status
  BY ONLY <1>2 DEF Items
<1> HIDE DEF marked
<1>5. Other!IsSei(marked) /\ marked.status \in SeiStatuses
  BY <1>1, <1>4 DEF Other!IsSei
<1>6. SeiAt(Other!WithItem(list, place, marked), place)
  BY <1>1, <1>5 DEF Other!WithItem, SeiAt
<1> QED
  BY <1>3, <1>6 DEF item, marked

LEMMA PrepareForValidationContinues ==
  ASSUME NEW s, Typed(s), NEW place, SeiAt(s.list, place)
  PROVE  LET prepared == Other!PrepareForValidation(s, place)
         IN  /\ prepared.isCertificate \in BOOLEAN
             /\ Continues(s, prepared.s)
             /\ ~prepared.isCertificate => SeiAt(prepared.s.list, place)
<1> DEFINE sei == s.list[place]
           decoded == IF sei.decoded THEN s ELSE Other!DecodeSei(s, sei.nalu.data)
           verdict == IF decoded.lost < 0 \/ (Other!IsSigned(sei) /\ ~sei.verified)
                      THEN Other!Invalid ELSE Other!Valid
           tmp == IF decoded.lost <= 0 /\ Other!IsSigned(sei) THEN verdict ELSE sei.tmp
           ok == IF decoded.lost <= 0 /\ ~Other!IsSigned(sei) THEN verdict ELSE sei.ifSeiOk
           marked == [sei EXCEPT !.inValidation = TRUE, !.decoded = TRUE,
                                 !.tmp = tmp, !.ifSeiOk = ok]
           waiting == ~Other!IsSigned(sei)
           list == Other!WithItem(decoded.list, place, marked)
           started0 == [decoded EXCEPT !.list = list, !.waiting = waiting]
           authenticity == IF sei.verified THEN Other!Ok ELSE Other!NotOk
           certified == [started0 EXCEPT !.latest.authenticity = authenticity]
           hashed == Other!ComputeGopHash(started0, place)
           linked == Other!UpdateLinkedHash(hashed, place)
           prepared == Other!PrepareForValidation(s, place)
<1>1. /\ s.list \in Seq(SoundItems) /\ place \in DOMAIN s.list /\ sei \in SoundItems
      /\ sei.at # 0
  BY SeiAtIs, SeqFacts DEF Typed, ListOK
<1>2. Continues(s, decoded) /\ decoded.list = s.list
  <2>1. sei.nalu.data \in SeiData
    BY <1>1, ItemTyped DEF Nalus
  <2>2. Continues(s, s)
    BY DEF Continues
  <2> HIDE DEF sei
  <2> QED
    BY <2>1, <2>2, DecodeSeiContinues
<1>3. prepared \in {[s |-> certified, isCertificate |-> TRUE],
                    [s |-> linked, isCertificate |-> FALSE]}
  BY DEF Other!PrepareForValidation
<1> HIDE DEF prepared
<1>4. verdict \in SeiStatuses /\ verdict \in Verdicts
  BY DEF SeiStatuses, Verdicts
<1>5. tmp \in {s.list[place].tmp} \cup SeiStatuses /\ ok \in {s.list[place].ifSeiOk} \cup Verdicts
  <2> HIDE DEF verdict, decoded
  <2> QED
    BY <1>4
<1> HIDE DEF tmp, ok, verdict, waiting, authenticity, decoded
<1>6. Reshaped(decoded.list, list) /\ SeiAt(list, place)
  <2>1. Preserved(s.list[place], marked) /\ SeiAt(Other!WithItem(s.list, place, marked), place)
    BY <1>1, <1>5, MarkedIsKept
  <2>2. ListOK(s.list)
    BY DEF Typed
  <2> HIDE DEF marked
  <2> QED
    BY <1>2, <2>1, <2>2, WithItemKeeps
<1> HIDE DEF list
<1>7. Continues(decoded, started0) /\ started0.list = list
  <2>1. HasFields(decoded, Fields) /\ decoded.numNalus \in Int /\ Typed(decoded)
    BY <1>2 DEF Continues, Typed
  <2>2. /\ HasFields(started0, Fields) /\ started0.list = list /\ started0.data = decoded.data
        /\ started0.anchor = decoded.anchor /\ started0.numNalus = decoded.numNalus
    BY ONLY <2>1, FieldsAre DEF HasFields
  <2> HIDE DEF started0
  <2>3. Relisted(decoded, started0)
    BY <1>6, <2>1, <2>2 DEF Relisted
  <2> QED
    BY <2>1, <2>2, <2>3, RelistedContinues
<1>8. Continues(started0, certified)
  <2>1. HasFields(started0, Fields) /\ Typed(started0)
    BY <1>7 DEF Continues, Typed
  <2> HIDE DEF started0
  <2>2. Untouched(started0, certified)
    BY ONLY <2>1, FieldsAre DEF HasFields, Untouched
  <2> QED
    BY <2>1, <2>2, UntouchedContinues
<1> HIDE DEF certified, started0
<1>9. ContinuesAt(started0, hashed, place)
  BY <1>6, <1>7, ComputeGopHashContinues DEF Continues
<1> HIDE DEF hashed
<1>10. Continues(hashed, linked) /\ linked.list = hashed.list
  BY <1>9, UpdateLinkedHashContinues DEF ContinuesAt, Continues
<1> HIDE DEF linked
<1>11. Continues(s, started0)
  BY <1>2, <1>7 DEF Continues
<1>12. Continues(s, certified)
  BY <1>8, <1>11 DEF Continues
<1>13. Continues(s, linked) /\ SeiAt(linked.list, place)
  BY <1>9, <1>10, <1>11 DEF Continues, ContinuesAt
<1>14. CASE prepared = [s |-> certified, isCertificate |-> TRUE]
  BY <1>12, <1>14 DEF prepared
<1>15. CASE prepared = [s |-> linked, isCertificate |-> FALSE]
  BY <1>13, <1>15 DEF prepared
<1> QED
  BY <1>3, <1>14, <1>15

-----------------------------------------------------------------------------
(* The verdict.                                                            *)

LEMMA VerifyWithoutSeiContinues ==
  ASSUME NEW s, Typed(s), NEW sei
  PROVE  Continues(s, Other!VerifyWithoutSei(s, sei))
<1> DEFINE list == Other!RemoveAssociation(s.list, sei)
           free == [s EXCEPT !.list = list]
           t == Other!VerifyWithoutSei(s, sei)
<1>1. HasFields(s, Fields) /\ ListOK(s.list)
  BY DEF Typed
<1>2. Continues(s, free)
  BY <1>1, RemoveAssociationKeeps, WithList
<1>3. HasFields(free, Fields) /\ Typed(free)
  BY <1>2 DEF Continues, Typed
<1>4. PICK skip, current :
        t = [free EXCEPT !.list = Other!VerifyHashesWithoutSei(free, skip).list,
                         !.current = current]
  BY <1>3, FieldsAre DEF Other!VerifyWithoutSei, HasFields
<1> HIDE DEF free, t
<1> DEFINE verified == Other!VerifyHashesWithoutSei(free, skip).list
<1>5. Reshaped(free.list, verified)
  BY <1>3, VerifyHashesWithoutSeiJudges, AllJudgedReshapes DEF Typed
<1> HIDE DEF verified
<1>6. t = [free EXCEPT !.list = verified, !.current = current]
  BY <1>4 DEF verified
<1>7. /\ HasFields(t, Fields) /\ t.list = verified /\ t.data = free.data
      /\ t.anchor = free.anchor /\ t.numNalus = free.numNalus
  BY ONLY <1>3, <1>6, FieldsAre DEF HasFields
<1>8. Continues(free, t)
  BY <1>3, <1>5, <1>7, RelistedContinues DEF Relisted, Typed
<1> QED
  BY <1>2, <1>8, ContinuesTwice DEF t

LEMMA VerifyWithSeiContinues ==
  ASSUME NEW s, Typed(s), NEW place, SeiAt(s.list, place)
  PROVE  Continues(s, Other!VerifyWithSei(s, place))
<1> DEFINE sei == s.list[place]
           associated == Other!AssociateGop(s, place)
           verified == Other!VerifyIndividualHashes(associated, place)
           filled == Other!AddMissingAtEnd(s.list, s.data.numNalus - s.numNalus, sei.at)
<1>1. PICK valid, linkOk :
        Other!VerifyWithSei(s, place) \in
          {verified,
           [verified EXCEPT !.list = Other!MarkAssociated(@, TRUE, linkOk, sei.at)],
           [s EXCEPT !.list = Other!MarkAssociated(filled, valid, linkOk, sei.at)]}
  <2>1. HasFields(s, Fields)
    BY DEF Typed
  <2> QED
    BY <2>1, FieldsAre DEF Other!VerifyWithSei, HasFields
<1>2. /\ s.list \in Seq(SoundItems) /\ ListOK(s.list) /\ sei.at \in Arrived(s.list)
      /\ s.data.numNalus - s.numNalus \in Int
  BY SeiAtIs DEF Typed, ListOK, SeiData
<1>3. ContinuesAt(s, associated, place)
  BY AssociateGopContinues
<1>4. Continues(associated, verified)
  <2>1. /\ HasFields(associated, Fields) /\ ListOK(associated.list) /\ associated.data.list \in Seq(Hash)
        /\ associated.numNalus \in Int /\ SeiAt(associated.list, place) /\ Typed(associated)
    BY <1>3 DEF ContinuesAt, Continues, Typed, SeiData
  <2> HIDE DEF associated
  <2>2. /\ Reshaped(associated.list, verified.list) /\ verified.numNalus \in Int
        /\ verified.data = associated.data /\ verified.anchor = associated.anchor
    BY <2>1, VerifyIndividualHashesKeeps
  <2>3. HasFields(verified, Fields)
    BY <2>1, VerifyIndividualHashesFrame DEF SameFrame
  <2> HIDE DEF verified
  <2> QED
    BY <2>1, <2>2, <2>3, RelistedContinues DEF Relisted
<1>5. Continues(s, verified)
  <2> HIDE DEF verified, associated
  <2> QED
    BY <1>3, <1>4, ContinuesTwice DEF ContinuesAt
<1> HIDE DEF verified
<1>6. \A list : ListOK(list) =>
        Reshaped(list, Other!MarkAssociated(list, TRUE, linkOk, sei.at))
        /\ Reshaped(list, Other!MarkAssociated(list, valid, linkOk, sei.at))
  BY MarkAssociatedJudges, AllJudgedReshapes DEF ListOK
<1>7. Continues(s, [verified EXCEPT !.list = Other!MarkAssociated(@, TRUE, linkOk, sei.at)])
  <2> DEFINE list == Other!MarkAssociated(verified.list, TRUE, linkOk, sei.at)
  <2>1. Typed(verified) /\ Reshaped(verified.list, list)
    BY <1>5, <1>6 DEF Continues, Typed
  <2> HIDE DEF list
  <2>2. Continues(verified, [verified EXCEPT !.list = list])
    BY <2>1, WithList
  <2>3. Continues(s, [verified EXCEPT !.list = list])
    BY <1>5, <2>2, ContinuesTwice
  <2> QED
    BY <2>3 DEF list
<1>8. Continues(s, [s EXCEPT !.list = Other!MarkAssociated(filled, valid, linkOk, sei.at)])
  <2>1. Reshaped(s.list, filled)
    BY <1>2, AddMissingAtEndKeeps
  <2> HIDE DEF filled
  <2>2. Reshaped(s.list, Other!MarkAssociated(filled, valid, linkOk, sei.at))
    BY <1>6, <2>1 DEF Reshaped
  <2> QED
    BY <2>2, WithList
<1> QED
  BY <1>1, <1>5, <1>7, <1>8

LEMMA JudgeContinues ==
  ASSUME NEW s, NEW verified, Typed(verified), NEW place, NEW sei
  PROVE  Continues(verified, Other!Judge(s, verified, place, sei))
<1> DEFINE t == Other!Judge(s, verified, place, sei)
<1>1. HasFields(verified, Fields) /\ ListOK(verified.list)
  BY DEF Typed
<1>2. /\ t.list \in {verified.list, Other!RemoveAssociation(verified.list, sei)}
      /\ HasFields(t, Fields) /\ t.data = verified.data /\ t.anchor = verified.anchor
      /\ t.numNalus = verified.numNalus
  <2> DEFINE hasValid == Other!HasValid(verified.list, sei)
             new == Other!NumInvalid(verified.list, sei) - s.numInvalid
             invalid == IF new < 0 THEN 0 ELSE new
             result == IF invalid > 0 THEN Other!NotOk
                       ELSE IF Other!NumMissed(verified.list, sei) > 0
                       THEN Other!OkWithMissing ELSE Other!Ok
             isSynced == s.inSync \/ hasValid
                           \/ (s.data.linked # <<>> /\ verified.linked[1] = s.data.linked)
             reverted == s.isFirstValidation /\ ~isSynced /\ result # Other!Ok /\ ~hasValid
             expected == IF reverted \/ s.lost # 0 THEN -1 ELSE s.data.numNalus
             received == IF reverted THEN -1 ELSE verified.numNalus
             final == IF s.latest.keyChanged THEN Other!NotOk
                      ELSE IF reverted THEN Other!NotFeasible ELSE result
  <2>1. t = [verified EXCEPT
              !.list = IF reverted THEN Other!RemoveAssociation(@, sei) ELSE @,
              !.linked = IF reverted /\ sei # 0 /\ ~Other!IsSigned(s.list[place])
                         THEN <<@[1], @[1]>> ELSE @,
              !.numInvalid = @ + invalid,
              !.inSync = isSynced,
              !.resetFirst = @ \/ reverted,
              !.latest = [verified.latest EXCEPT
                !.authenticity = Other!Worse(@, final),
                !.received = @ + received,
                !.expected = IF s.lost > 0 THEN -1 ELSE IF @ = -1 THEN -1 ELSE @ + expected],
              !.current = IF s.lost >= 0 /\ isSynced THEN s.data.counter ELSE @,
              !.lost = IF s.lost < 0 THEN @
                       ELSE IF isSynced THEN 0
                       ELSE Other!AsInt(s.data.counter - verified.current - 1)]
    BY Zenon DEF Other!Judge
  <2> DEFINE newList == IF reverted THEN Other!RemoveAssociation(verified.list, sei)
                                    ELSE verified.list
             newLinked == IF reverted /\ sei # 0 /\ ~Other!IsSigned(s.list[place])
                          THEN <<verified.linked[1], verified.linked[1]>> ELSE verified.linked
             newInvalid == verified.numInvalid + invalid
             newReset == verified.resetFirst \/ reverted
             newLatest == [verified.latest EXCEPT
                !.authenticity = Other!Worse(@, final),
                !.received = @ + received,
                !.expected = IF s.lost > 0 THEN -1 ELSE IF @ = -1 THEN -1 ELSE @ + expected]
             newCurrent == IF s.lost >= 0 /\ isSynced THEN s.data.counter ELSE verified.current
             newLost == IF s.lost < 0 THEN verified.lost
                        ELSE IF isSynced THEN 0
                        ELSE Other!AsInt(s.data.counter - verified.current - 1)
  <2>2. newList \in {verified.list, Other!RemoveAssociation(verified.list, sei)}
    OBVIOUS
  <2> HIDE DEF isSynced, reverted, invalid, final, received, expected, t
  <2>3. t = [verified EXCEPT !.list = newList, !.linked = newLinked,
                  !.numInvalid = newInvalid, !.inSync = isSynced, !.resetFirst = newReset,
                  !.latest = newLatest, !.current = newCurrent, !.lost = newLost]
    BY <2>1
  <2> HIDE DEF newList, newLinked, newInvalid, newReset, newLatest, newCurrent, newLost
  <2>4. /\ HasFields(t, Fields) /\ t.list = newList /\ t.data = verified.data
        /\ t.anchor = verified.anchor /\ t.numNalus = verified.numNalus
    BY ONLY <1>1, <2>3, FieldsAre DEF HasFields
  <2> QED
    BY <2>2, <2>4
<1> HIDE DEF t
<1>3. Reshaped(verified.list, t.list)
  BY <1>1, <1>2, RemoveAssociationKeeps, ReshapedItself
<1>5. Relisted(verified, t)
  BY <1>2, <1>3 DEF Relisted, Typed
<1> QED
  BY <1>5, RelistedContinues DEF t

LEMMA ValidateAuthenticityContinues ==
  ASSUME NEW s, Typed(s), NEW place, SeiAt(s.list, place)
  PROVE  Continues(s, Other!ValidateAuthenticity(s, place))
<1> DEFINE with == Other!VerifyWithSei(s, place)
           without == Other!VerifyWithoutSei(s, s.list[place].at)
<1>1. Continues(s, with) /\ Continues(s, without)
  BY VerifyWithSeiContinues, VerifyWithoutSeiContinues
<1>2. Other!ValidateAuthenticity(s, place)
        \in {Other!Judge(s, with, place, s.list[place].at), Other!Judge(s, without, place, 0)}
  BY DEF Other!ValidateAuthenticity
<1> HIDE DEF with, without
<1>3. /\ Continues(with, Other!Judge(s, with, place, s.list[place].at))
      /\ Continues(without, Other!Judge(s, without, place, 0))
  BY <1>1, JudgeContinues DEF Continues
<1> QED
  BY <1>1, <1>2, <1>3, ContinuesTwice

-----------------------------------------------------------------------------
(* A round, and its place.                                                 *)

LEMMA StartValidationContinues ==
  ASSUME NEW s, Typed(s), NEW keyChanged
  PROVE  LET t == Other!StartValidation(s, keyChanged)
         IN  Continues(s, t) /\ (Other!NextSei(t.list) = 0 => Other!NextSei(s.list) = 0)
<1> DEFINE k == Other!SeiInValidation(s.list)
           item == [s.list[k] EXCEPT !.inValidation = FALSE]
           list == Other!WithItem(s.list, k, item)
           latest == [s.latest EXCEPT !.authenticity = Other!NotFeasible,
                                      !.keyChanged = keyChanged, !.expected = 0,
                                      !.received = 0, !.pending = -1]
           begun == [s EXCEPT !.latest = latest, !.numInvalid = 0]
           t == Other!StartValidation(s, keyChanged)
<1>1. t = s \/ t = begun \/ (k # 0 /\ t = [begun EXCEPT !.list = list])
  <2> DEFINE x == [begun EXCEPT !.list = Other!WithItem(@, k, [@[k] EXCEPT !.inValidation = FALSE])]
  <2>1. t = IF s.waiting \/ s.hasResult THEN s ELSE IF k = 0 THEN begun ELSE x
    BY DEF Other!StartValidation
  <2>2. x = [begun EXCEPT !.list = list]
    BY FieldsAre DEF Typed, HasFields
  <2> HIDE DEF x, begun, t
  <2> QED
    BY <2>1, <2>2
<1>2. HasFields(s, Fields) /\ ListOK(s.list) /\ s.list \in Seq(SoundItems)
  BY DEF Typed, ListOK
<1> HIDE DEF t, latest
<1>3. Untouched(s, begun)
  BY ONLY <1>2, FieldsAre DEF HasFields, Untouched
<1>4. Continues(s, begun) /\ begun.list = s.list
  BY <1>3, UntouchedContinues
<1> HIDE DEF begun
<1>5. ASSUME k # 0 PROVE Reshaped(s.list, list) /\ (Other!NextSei(list) = 0 => Other!NextSei(s.list) = 0)
  <2>1. k \in DOMAIN s.list /\ s.list[k] \in SoundItems
    BY <1>2, <1>5, SeiInValidationIs
  <2>2. Preserved(s.list[k], item)
    BY <2>1, ValidationLeft
  <2>3. Reshaped(s.list, list)
    BY <1>2, <2>2, WithItemKeeps
  <2>4. item.nalu = s.list[k].nalu /\ item.tmp = s.list[k].tmp /\ item.ifSeiOk = s.list[k].ifSeiOk
    BY <2>1, ItemTyped DEF Items
  <2>5. ASSUME Other!NextSei(list) = 0, Other!NextSei(s.list) # 0 PROVE FALSE
    <3> DEFINE n == Other!NextSei(s.list)
    <3>1. /\ n \in DOMAIN s.list /\ Other!IsSei(s.list[n])
          /\ s.list[n].tmp = Other!Pending /\ s.list[n].ifSeiOk = Other!Unset
      BY <1>2, <2>5, NextSeiIs
    <3>2. /\ list[n].tmp = Other!Pending /\ list[n].ifSeiOk = Other!Unset
          /\ list[n].nalu = s.list[n].nalu /\ n \in DOMAIN list
      BY <2>4, <3>1 DEF Other!WithItem
    <3>3. Other!IsSei(list[n])
      BY <3>1, <3>2 DEF Other!IsSei
    <3>4. list \in Seq(SoundItems)
      BY <2>3 DEF Reshaped, ListOK
    <3> HIDE DEF n, list
    <3> QED
      BY <2>5, <3>2, <3>3, <3>4, NextSeiIs
  <2> QED
    BY <2>3, <2>5
<1> HIDE DEF k, list
<1>6. CASE t = s
  BY <1>6 DEF Continues, t
<1>7. CASE t = begun
  BY <1>4, <1>7 DEF t
<1>8. CASE k # 0 /\ t = [begun EXCEPT !.list = list]
  <2>1. Continues(begun, t)
    BY <1>4, <1>5, <1>8, WithList DEF Continues
  <2>2. Continues(s, t)
    BY <1>4, <2>1, ContinuesTwice
  <2>3. t.list = list
    BY <1>4, <1>8, FieldsAre DEF Continues, Typed, HasFields
  <2> QED
    BY <1>5, <1>8, <2>2, <2>3 DEF t
<1> QED
  BY <1>1, <1>6, <1>7, <1>8

(* There is a SEI if there is something to validate and the stream is signed. *)
LEMMA PendingGopHasSei ==
  ASSUME NEW s, Typed(s), Other!HasPendingGop(s), s.signingPresent
  PROVE  Other!NextSei(s.list) # 0
<1>1. PICK k \in DOMAIN s.list :
        /\ s.list[k].ifSeiOk = Other!Unset /\ s.list[k].tmp = Other!Pending
        /\ Other!IsSei(s.list[k])
  BY DEF Other!HasPendingGop, Other!IsCertificate
<1>2. s.list \in Seq(SoundItems)
  BY DEF Typed, ListOK
<1> QED
  BY <1>1, <1>2, NextSeiIs

LEMMA NextSeiIsAt ==
  ASSUME NEW list \in Seq(SoundItems), Other!NextSei(list) # 0
  PROVE  SeiAt(list, Other!NextSei(list))
<1>1. LET k == Other!NextSei(list)
      IN k \in DOMAIN list /\ Other!IsSei(list[k]) /\ list[k].tmp = Other!Pending
  BY NextSeiIs
<1> QED
  BY <1>1, ItemTyped DEF SeiAt

LEMMA ValidateNextContinues ==
  ASSUME NEW s, Typed(s), NEW place, s.signingPresent => SeiAt(s.list, place)
  PROVE  Continues(s, Other!ValidateNext(s, place))
<1> DEFINE t == Other!ValidateNext(s, place)
<1>1. CASE ~s.signingPresent
  <2>1. HasFields(s, Fields)
    BY DEF Typed
  <2>2. \E latest : t = [s EXCEPT !.latest = latest]
    BY <1>1, <2>1, FieldsAre DEF Other!ValidateNext, HasFields
  <2> HIDE DEF t
  <2>3. Untouched(s, t)
    BY ONLY <2>1, <2>2, FieldsAre DEF HasFields, Untouched
  <2> QED
    BY <2>3, UntouchedContinues DEF t
<1>2. CASE s.signingPresent
  <2> DEFINE prepared == Other!PrepareForValidation(s, place)
  <2>1. /\ prepared.isCertificate \in BOOLEAN
        /\ Continues(s, prepared.s)
        /\ ~prepared.isCertificate => SeiAt(prepared.s.list, place)
    BY <1>2, PrepareForValidationContinues
  <2>2. t = IF prepared.isCertificate THEN prepared.s
            ELSE Other!ValidateAuthenticity(prepared.s, place)
    BY <1>2 DEF Other!ValidateNext
  <2> HIDE DEF prepared, t
  <2>3. CASE prepared.isCertificate
    BY <2>1, <2>2, <2>3 DEF t
  <2>4. CASE ~prepared.isCertificate
    <3>1. Continues(prepared.s, t)
      BY <2>1, <2>2, <2>4, ValidateAuthenticityContinues DEF Continues
    <3> QED
      BY <2>1, <3>1, ContinuesTwice DEF t
  <2> QED
    BY <2>3, <2>4
<1> QED
  BY <1>1, <1>2

-----------------------------------------------------------------------------
(* The rounds of a call.                                                   *)

(* The statuses that are remembered for a SEI. *)
KnownStatuses == {Other!Valid, Other!Invalid, Other!Unknown}

(* What is known between two rounds; a result says more than that the      *)
(* stream is not signed.                                                   *)
LoopOK(acc, numbers) ==
  /\ Typed(acc.s) /\ Arrived(acc.s.list) = numbers
  /\ acc.seiStatus \in KnownStatuses
  /\ acc.s.hasResult => acc.s.latest.authenticity # 0

LEMMA EndRoundLoops ==
  ASSUME NEW acc, acc.seiStatus \in KnownStatuses, NEW v, NEW nalu, Typed(v),
         HasFields(v.latest, LatestFields), v.hasResult \in BOOLEAN
  PROVE  LoopOK(Other!EndRound(acc, v, nalu), Arrived(v.list))
<1> DEFINE k == Other!SeiInValidation(v.list)
           fetches == v.isFirstValidation /\ ~v.inSync /\ k # 0
           list == IF fetches
                   THEN Other!WithItem(v.list, k, [v.list[k] EXCEPT !.tmp = v.list[k].status])
                   ELSE v.list
           provenance == Other!Provenance(v)
           first == v.resetFirst \/ ~v.signingPresent
           firstSei == v.isFirstSei /\ nalu.kind # "sei"
           over == [v EXCEPT !.list = list, !.isFirstValidation = first,
                              !.isFirstSei = firstSei, !.resetFirst = FALSE,
                              !.latest.provenance = provenance]
           result == over.latest.authenticity
           pending == IF over.waiting THEN over.latest.pending
                      ELSE Other!NumPending(over.list)
           hasResult == IF result = Other!NotSigned THEN FALSE
                        ELSE IF result = Other!NotFeasible
                        THEN over.accumulated.authenticity # result
                        ELSE over.hasResult \/ ~over.waiting
           t == [over EXCEPT !.latest.pending = pending, !.hasResult = hasResult]
           seiStatus == IF fetches THEN Other!StatusOfSei(v.list[k], acc.seiStatus)
                                   ELSE acc.seiStatus
           new == Other!EndRound(acc, v, nalu)
<1>1. new.s = t /\ new.seiStatus = seiStatus
  BY DEF Other!EndRound
<1>2. /\ HasFields(v, Fields) /\ ListOK(v.list) /\ v.list \in Seq(SoundItems)
  BY DEF Typed, ListOK
<1>3. k # 0 => k \in DOMAIN v.list /\ v.list[k] \in SoundItems /\ v.list[k].inValidation
  BY <1>2, SeiInValidationIs
<1>4. seiStatus \in KnownStatuses
  <2>1. CASE ~fetches
    BY <2>1
  <2>2. CASE fetches
    <3> DEFINE item == v.list[k]
    <3>1. item \in SoundItems /\ item.status \in SeiStatuses
      BY <1>3, <2>2 DEF SoundItems
    <3>2. item.tmp \in SeiStatuses /\ item.ifSeiOk \in Verdicts
      BY <3>1, ItemTyped
    <3>3. seiStatus = Other!StatusOfSei(item, acc.seiStatus)
      BY <2>2
    <3> HIDE DEF item, seiStatus
    <3> QED
      BY <3>2, <3>3 DEF Other!StatusOfSei, SeiStatuses, Verdicts, KnownStatuses
  <2> QED
    BY <2>1, <2>2
<1>5. Reshaped(v.list, list)
  <2>1. k # 0 => Preserved(v.list[k], [v.list[k] EXCEPT !.tmp = v.list[k].status])
    BY <1>3, StatusCopied
  <2>2. k # 0 => Reshaped(v.list, Other!WithItem(v.list, k, [v.list[k] EXCEPT !.tmp = v.list[k].status]))
    BY <1>2, <2>1, WithItemKeeps
  <2>3. Reshaped(v.list, v.list)
    BY <1>2, ReshapedItself
  <2> QED
    BY <2>2, <2>3
<1> HIDE DEF list, provenance, first, firstSei, seiStatus, new
<1>6. /\ HasFields(over, Fields) /\ over.list = list /\ over.data = v.data
      /\ over.anchor = v.anchor /\ over.numNalus = v.numNalus
      /\ HasFields(over.latest, LatestFields)
  BY ONLY <1>2, HasFields(v.latest, LatestFields), FieldsAre DEF HasFields
<1> HIDE DEF over
<1>7. hasResult => result # 0
  BY DEF Other!NotSigned
<1> HIDE DEF pending, hasResult
<1>8. /\ HasFields(t, Fields) /\ t.list = over.list /\ t.data = over.data
      /\ t.anchor = over.anchor /\ t.numNalus = over.numNalus
      /\ t.hasResult = hasResult /\ t.latest.authenticity = over.latest.authenticity
  BY ONLY <1>6, FieldsAre DEF HasFields
<1> HIDE DEF t
<1>9. Relisted(v, t)
  BY <1>5, <1>6, <1>8 DEF Relisted, Typed
<1>10. Typed(t) /\ Arrived(t.list) = Arrived(v.list)
  BY <1>9, RelistedContinues DEF Continues
<1> QED
  BY <1>1, <1>4, <1>7, <1>8, <1>10 DEF LoopOK, new

LEMMA RoundLoops ==
  ASSUME NEW acc, NEW before, NEW trusted, NEW nalu, NEW numbers,
         IsInLoop(acc.s, before, trusted), LoopOK(acc, numbers), Other!HasPendingGop(acc.s)
  PROVE  LoopOK(Other!Round(acc, nalu), numbers)
<1> DEFINE begun == Other!StartValidation(acc.s, acc.keyChanged)
           place == Other!NextSei(begun.list)
           validated == Other!ValidateNext(begun, place)
           t == Other!Round(acc, nalu)
<1>1. t = Other!EndRound(acc, validated, nalu)
  BY DEF Other!Round
<1>2. Follows(acc.s, begun) /\ IsReady(begun, trusted)
  BY StartValidationKeeps DEF IsInLoop
<1>3. Continues(acc.s, begun) /\ (Other!NextSei(begun.list) = 0 => Other!NextSei(acc.s.list) = 0)
  BY StartValidationContinues DEF LoopOK
<1>4. begun.signingPresent => SeiAt(begun.list, place)
  <2>1. begun.signingPresent = acc.s.signingPresent
    BY <1>2 DEF Follows
  <2>2. acc.s.signingPresent => Other!NextSei(acc.s.list) # 0
    BY PendingGopHasSei DEF LoopOK
  <2>3. begun.list \in Seq(SoundItems)
    BY <1>3 DEF Continues, Typed, ListOK
  <2> HIDE DEF begun
  <2> QED
    BY <1>3, <2>1, <2>2, <2>3, NextSeiIsAt
<1> HIDE DEF begun, place
<1>5. Follows(begun, validated)
  BY <1>2, ValidateNextKeeps
<1>6. Continues(begun, validated)
  BY <1>3, <1>4, ValidateNextContinues DEF Continues
<1> HIDE DEF validated
<1>7. /\ Typed(validated) /\ Arrived(validated.list) = numbers
      /\ HasFields(validated.latest, LatestFields) /\ validated.hasResult \in BOOLEAN
  BY <1>2, <1>3, <1>5, <1>6 DEF Continues, LoopOK, Follows, IsInLoop
<1> QED
  BY <1>1, <1>7, EndRoundLoops DEF LoopOK

(* The session at the end of a call. *)
CallOK(s, numbers) ==
  /\ Typed(s) /\ Arrived(s.list) = numbers
  /\ s.hasResult => s.latest.authenticity # 0

LEMMA RoundsLoop ==
  ASSUME NEW s, NEW trusted, NEW nalu, NEW numbers, IsInLoop(s, s, trusted),
         CallOK(s, numbers)
  PROVE  /\ IsInLoop(Other!Rounds(s, nalu)[10].s, s, trusted)
         /\ LoopOK(Other!Rounds(s, nalu)[10], numbers)
<1> DEFINE Step(acc) == IF Other!HasPendingGop(acc.s) /\ ~acc.stop
                        THEN Other!Round(acc, nalu) ELSE acc
           x0 == [s |-> s, update |-> FALSE, keyChanged |-> FALSE,
                  seiStatus |-> Other!Unknown, stop |-> FALSE]
           x1 == Step(x0)
           x2 == Step(x1)
           x3 == Step(x2)
           x4 == Step(x3)
           x5 == Step(x4)
           x6 == Step(x5)
           x7 == Step(x6)
           x8 == Step(x7)
           x9 == Step(x8)
           x10 == Step(x9)
           IsRounds(f) == f = [i \in 0..10 |-> IF i = 0 THEN x0 ELSE Step(f[i - 1])]
           f == Other!Rounds(s, nalu)
           Holds(acc) == IsInLoop(acc.s, s, trusted) /\ LoopOK(acc, numbers)
<1>1. f = CHOOSE g : IsRounds(g)
  BY DEF Other!Rounds, Other!MaxLoop
<1>2. Holds(x0)
  BY DEF CallOK, LoopOK, KnownStatuses
<1>3. \A acc : Holds(acc) => Holds(Step(acc))
  BY RoundKeeps, RoundLoops
<1> HIDE DEF Step, x0, Holds
<1>4. \E g : IsRounds(g)
  <2> DEFINE g == <<x1, x2, x3, x4, x5, x6, x7, x8, x9, x10>>
             h == [i \in 0..10 |-> IF i = 0 THEN x0 ELSE g[i]]
  <2>1. \A i \in 1..10 : g[i] = Step(IF i = 1 THEN x0 ELSE g[i - 1])
    <3> TAKE i \in 1..10
    <3> QED
      OBVIOUS
  <2> HIDE DEF g
  <2>2. IsRounds(h)
    BY <2>1
  <2> QED
    BY <2>2
<1>5. IsRounds(f)
  <2> HIDE DEF IsRounds, f
  <2> QED
    BY <1>1, <1>4
<1> HIDE DEF f
<1>6. f[0] = x0 /\ \A i \in 1..10 : f[i] = Step(f[i - 1])
  BY <1>5
<1>7. /\ f[1] = Step(f[0]) /\ f[2] = Step(f[1]) /\ f[3] = Step(f[2])
      /\ f[4] = Step(f[3]) /\ f[5] = Step(f[4]) /\ f[6] = Step(f[5])
      /\ f[7] = Step(f[6]) /\ f[8] = Step(f[7]) /\ f[9] = Step(f[8])
      /\ f[10] = Step(f[9])
  BY ONLY <1>6
<1>8. Holds(f[10])
  BY ONLY <1>2, <1>3, <1>6, <1>7
<1> QED
  BY <1>8 DEF Holds, f

LEMMA UpdateStatusKeeps ==
  ASSUME NEW list, ListOK(list), NEW update
  PROVE  Reshaped(list, Other!UpdateStatus(list, update))
<1> DEFINE new == Other!UpdateStatus(list, update)
<1>1. new = [k \in DOMAIN list |-> IF update THEN [list[k] EXCEPT !.status = list[k].tmp]
                                             ELSE [list[k] EXCEPT !.tmp = list[k].status]]
  BY DEF Other!UpdateStatus
<1>2. \A k \in DOMAIN list : /\ Preserved(list[k], [list[k] EXCEPT !.status = list[k].tmp])
                             /\ Preserved(list[k], [list[k] EXCEPT !.tmp = list[k].status])
  <2>1. \A k \in DOMAIN list : list[k] \in SoundItems
    BY DEF ListOK
  <2> QED
    BY <2>1, StatusCopied
<1>3. \A k \in DOMAIN list : Preserved(list[k], new[k])
  BY <1>1, <1>2
<1>4. new = [k \in DOMAIN list |-> new[k]]
  BY <1>1
<1> HIDE DEF new
<1> QED
  BY <1>3, <1>4, EachKept DEF new

LEMMA EndValidationIsDone ==
  ASSUME NEW acc, NEW numbers, LoopOK(acc, numbers), HasFields(acc.s.latest, LatestFields)
  PROVE  CallOK(Other!EndValidation(acc), numbers)
<1> DEFINE s == acc.s
           list == Other!UpdateStatus(s.list, acc.update)
           k == Other!SeiInValidation(list)
           item == list[k]
           settled == IF k = 0 \/ list[k].status # Other!Pending THEN list
                      ELSE IF Other!IsSigned(list[k])
                      THEN Other!WithItem(list, k, [list[k] EXCEPT !.status = acc.seiStatus,
                                                                  !.tmp = acc.seiStatus])
                      ELSE Other!WithItem(list, k, [list[k] EXCEPT !.ifSeiOk = acc.seiStatus])
           updated == [s EXCEPT !.list = list]
           pending == Other!NumPending(settled)
           t == Other!EndValidation(acc)
<1>1. Typed(s) /\ HasFields(s, Fields) /\ ListOK(s.list) /\ HasFields(s.latest, LatestFields)
  BY DEF LoopOK, Typed
<1>2. updated = [s EXCEPT !.list = Other!UpdateStatus(@, acc.update)]
  OBVIOUS
<1>3. updated.list = list /\ updated.isFirstValidation = s.isFirstValidation
  BY <1>1, FieldsAre DEF HasFields
<1>4. t = IF ~s.isFirstValidation THEN updated
          ELSE [updated EXCEPT !.list = settled, !.linked = <<<<>>, <<>>>>,
                               !.latest.pending = pending]
  <2> DEFINE u == [s EXCEPT !.list = Other!UpdateStatus(@, acc.update)]
             m == Other!SeiInValidation(u.list)
             set == IF m = 0 \/ u.list[m].status # Other!Pending THEN u.list
                    ELSE IF Other!IsSigned(u.list[m])
                    THEN Other!WithItem(u.list, m,
                           [u.list[m] EXCEPT !.status = acc.seiStatus, !.tmp = acc.seiStatus])
                    ELSE Other!WithItem(u.list, m, [u.list[m] EXCEPT !.ifSeiOk = acc.seiStatus])
  <2>1. t = IF ~u.isFirstValidation THEN u
            ELSE [u EXCEPT !.list = set, !.linked = <<<<>>, <<>>>>,
                           !.latest.pending = Other!NumPending(set)]
    BY Zenon DEF Other!EndValidation
  <2>2. u = updated /\ set = settled
    <3>1. u = updated
      OBVIOUS
    <3>2. u.list = list
      BY <1>3, <3>1
    <3> HIDE DEF u
    <3> QED
      BY <3>1, <3>2
  <2> HIDE DEF u, set, settled, t, updated
  <2> QED
    BY <1>3, <2>1, <2>2
<1>5. Reshaped(s.list, list)
  BY <1>1, UpdateStatusKeeps
<1>6. Reshaped(list, settled)
  <2>1. ListOK(list) /\ list \in Seq(SoundItems)
    BY <1>5 DEF Reshaped, ListOK
  <2>2. acc.seiStatus \in SeiStatuses /\ acc.seiStatus \in Verdicts
    BY DEF LoopOK, KnownStatuses, SeiStatuses, Verdicts
  <2> HIDE DEF list
  <2>3. CASE k = 0 \/ item.status # Other!Pending
    BY <2>1, <2>3, ReshapedItself
  <2>4. CASE k # 0 /\ item.status = Other!Pending
    <3>1. k \in DOMAIN list /\ item \in SoundItems
      BY <2>1, <2>4, SeiInValidationIs
    <3>2. item.at # 0 /\ item.status \in SeiStatuses
      BY <2>4, <3>1, Characters DEF SoundItems, SeiStatuses
    <3>3. /\ Preserved(item, [item EXCEPT !.status = acc.seiStatus, !.tmp = acc.seiStatus])
          /\ Preserved(item, [item EXCEPT !.ifSeiOk = acc.seiStatus])
      <4> HIDE DEF item
      <4> QED
        BY <2>2, <3>1, <3>2, StatusChanged, OkIfSeiChanged
    <3>4. /\ Reshaped(list, Other!WithItem(list, k, [item EXCEPT !.status = acc.seiStatus,
                                                                 !.tmp = acc.seiStatus]))
          /\ Reshaped(list, Other!WithItem(list, k, [item EXCEPT !.ifSeiOk = acc.seiStatus]))
      BY <2>1, <3>3, WithItemKeeps
    <3> QED
      BY <2>4, <3>4
  <2> QED
    BY <2>3, <2>4
<1> HIDE DEF list, settled, pending, t, s
<1>7. /\ HasFields(updated, Fields) /\ updated.list = list /\ updated.data = s.data
      /\ updated.anchor = s.anchor /\ updated.numNalus = s.numNalus
      /\ updated.latest = s.latest /\ updated.hasResult = s.hasResult
  BY ONLY <1>1, FieldsAre DEF HasFields
<1> HIDE DEF updated
<1>8. /\ HasFields(t, Fields) /\ t.list \in {list, settled} /\ t.data = s.data
      /\ t.anchor = s.anchor /\ t.numNalus = s.numNalus
      /\ t.latest.authenticity = s.latest.authenticity /\ t.hasResult = s.hasResult
  BY ONLY <1>1, <1>4, <1>7, FieldsAre DEF HasFields
<1>9. Relisted(s, t)
  BY <1>1, <1>5, <1>6, <1>8, ReshapedTwice DEF Relisted, Typed
<1>10. Typed(t) /\ Arrived(t.list) = Arrived(s.list)
  BY <1>1, <1>9, RelistedContinues DEF Continues
<1>11. LoopOK(acc, numbers)
  OBVIOUS
<1> QED
  BY <1>8, <1>10, <1>11 DEF LoopOK, CallOK, t, s

LEMMA MaybeValidateGopIsDone ==
  ASSUME NEW s, NEW trusted, NEW nalu, NEW numbers, SessionInv(s, trusted),
         s.hasResult = FALSE, CallOK(s, numbers)
  PROVE  CallOK(Other!MaybeValidateGop(s, nalu), numbers)
<1> DEFINE t == Other!MaybeValidateGop(s, nalu)
<1>1. IsReady(s, trusted)
  BY DEF SessionInv, IsSession, FirstIsTold, IsReady
<1>2. CASE Other!IsFeasible(s, nalu)
  <2>1. s.key # 0 \/ ~s.signingPresent
    BY <1>2 DEF Other!IsFeasible
  <2>2. IsInLoop(s, s, trusted)
    BY <1>1, <2>1 DEF SessionInv, IsSession, FirstIsTold, IsInLoop
  <2>3. /\ IsInLoop(Other!Rounds(s, nalu)[10].s, s, trusted)
        /\ LoopOK(Other!Rounds(s, nalu)[10], numbers)
    BY <2>2, RoundsLoop
  <2>4. CallOK(Other!EndValidation(Other!Rounds(s, nalu)[10]), numbers)
    BY <2>3, EndValidationIsDone DEF IsInLoop, IsReady
  <2> QED
    BY <1>2, <2>4 DEF Other!MaybeValidateGop, Other!MaxLoop
<1>3. CASE ~Other!IsFeasible(s, nalu) /\ s.isFirstSei /\ nalu.kind = "sei"
  <2> DEFINE list == Other!UpdateStatus(s.list, TRUE)
             pending == Other!NumPending(s.list)
             latest == [s.latest EXCEPT !.authenticity = 1, !.keyChanged = FALSE,
                                        !.expected = -1, !.received = -1,
                                        !.pending = pending]
  <2>1. t = [s EXCEPT !.latest = latest, !.hasResult = TRUE, !.isFirstSei = FALSE,
                      !.list = list]
    BY <1>3 DEF Other!MaybeValidateGop, Other!NotFeasible
  <2>2. HasFields(s, Fields) /\ HasFields(s.latest, LatestFields) /\ ListOK(s.list)
    BY <1>1 DEF IsReady, CallOK, Typed
  <2>3. Reshaped(s.list, list)
    BY <2>2, UpdateStatusKeeps
  <2>4. latest.authenticity = 1
    BY ONLY <2>2, FieldsAre DEF HasFields
  <2> HIDE DEF list, latest, t
  <2>5. /\ HasFields(t, Fields) /\ t.list = list /\ t.data = s.data
        /\ t.anchor = s.anchor /\ t.numNalus = s.numNalus
        /\ t.latest = latest
    BY ONLY <2>1, <2>2, FieldsAre DEF HasFields
  <2>6. Relisted(s, t)
    BY <2>3, <2>5 DEF Relisted, CallOK, Typed
  <2>7. Typed(t) /\ Arrived(t.list) = Arrived(s.list)
    BY <2>6, RelistedContinues DEF Continues, CallOK
  <2> QED
    BY <2>4, <2>5, <2>7 DEF CallOK, t
<1>4. CASE ~Other!IsFeasible(s, nalu) /\ ~(s.isFirstSei /\ nalu.kind = "sei")
  BY <1>4 DEF Other!MaybeValidateGop
<1> QED
  BY <1>2, <1>3, <1>4

-----------------------------------------------------------------------------
(* The items that have arrived are counted.                                *)

HaveArrived(list) == {k \in DOMAIN list : list[k].status # Other!Missing}

LEMMA AsManyAsArrived ==
  ASSUME NEW list \in Seq(SoundItems), Ordered(list), IsFiniteSet(Arrived(list))
  PROVE  Other!Cardinality(HaveArrived(list)) = Cardinality(Arrived(list))
<1> DEFINE P == HaveArrived(list)
           f == [k \in P |-> list[k].at]
<1>1. \A k \in DOMAIN list : list[k] \in SoundItems /\ list[k].at \in Nat
                             /\ (list[k].status # Other!Missing <=> list[k].at # 0)
  <2>1. \A k \in DOMAIN list : list[k] \in SoundItems
    OBVIOUS
  <2> QED
    BY <2>1 DEF SoundItems, Items
<1>2. DOMAIN list \subseteq Nat
  OBVIOUS
<1>3. P \subseteq DOMAIN list /\ \A k \in P : list[k].at \in Arrived(list) /\ list[k].at # 0
  BY <1>1 DEF HaveArrived, Arrived
<1>4. f \in [P -> Arrived(list)]
  BY <1>3
<1>5. \A j, k \in P : j # k => f[j] # f[k]
  <2> SUFFICES ASSUME NEW j \in P, NEW k \in P, j < k
               PROVE  list[j].at # list[k].at
    BY <1>2, <1>3
  <2> QED
    BY <1>1, <1>3 DEF Ordered
<1>6. \A x \in Arrived(list) : \E k \in P : f[k] = x
  BY <1>1 DEF Arrived, HaveArrived
<1> HIDE DEF f, P
<1>7. f \in Injection(P, Arrived(list)) /\ f \in Surjection(P, Arrived(list))
  BY <1>4, <1>5, <1>6 DEF Injection, IsInjective, Surjection
<1>8. Cardinality(P) = Cardinality(Arrived(list))
  BY <1>7, FS_Injection
<1> QED
  BY <1>8, OtherCardinality DEF P

(* What has arrived is cut in two at a number.                             *)
CutInNumbers(A, B, m, n) == \E c \in m..n : A = (m + 1)..c /\ B = (c + 1)..n

LEMMA IntervalCut ==
  ASSUME NEW m \in Nat, NEW n \in Nat, m <= n, NEW A, NEW B, A \cup B = (m + 1)..n,
         \A x \in A, y \in B : x < y
  PROVE  CutInNumbers(A, B, m, n)
<1>1. A \subseteq Nat /\ B \subseteq Nat
  OBVIOUS
<1>2. CASE B = {}
  <2>1. A = (m + 1)..n /\ B = (n + 1)..n /\ n \in m..n
    BY <1>2
  <2> QED
    BY <2>1 DEF CutInNumbers
<1>3. CASE B # {}
  <2>1. PICK b \in B : \A y \in B : b <= y
    BY <1>1, <1>3, LeastExists
  <2>2. b \in (m + 1)..n /\ b - 1 \in m..n
    OBVIOUS
  <2>3. ASSUME NEW x \in (m + 1)..n
        PROVE  /\ x \in A <=> x < b
               /\ x \in B <=> x >= b
    BY <2>1, <2>2
  <2>4. A \subseteq (m + 1)..n /\ B \subseteq (m + 1)..n
    BY ONLY A \cup B = (m + 1)..n, Zenon
  <2>5. A = (m + 1)..(b - 1)
    <3>1. \A x : x \in A <=> x \in (m + 1)..(b - 1)
      <4>1. \A x : x \in (m + 1)..(b - 1) <=> x \in (m + 1)..n /\ x < b
        BY <2>2
      <4> QED
        BY <2>3, <2>4, <4>1
    <3> QED
      BY <3>1
  <2>6. B = ((b - 1) + 1)..n
    <3>1. \A x : x \in B <=> x \in ((b - 1) + 1)..n
      <4>1. \A x : x \in ((b - 1) + 1)..n <=> x \in (m + 1)..n /\ x >= b
        BY <2>2
      <4> QED
        BY <2>3, <2>4, <4>1
    <3> QED
      BY <3>1
  <2> QED
    BY <2>2, <2>5, <2>6 DEF CutInNumbers
<1> QED
  BY <1>2, <1>3

(* The list without what is before a place.                                *)
LEMMA RestIsList ==
  ASSUME NEW list, ListOK(list), NEW k \in 1..(Len(list) + 1)
  PROVE  ListOK(SubSeq(list, k, Len(list)))
<1> DEFINE a == SubSeq(list, 1, k - 1)
           b == SubSeq(list, k, Len(list))
           numbers == Arrived(list)
<1>1. /\ PartOK(b, numbers) /\ After(a, b) /\ Arrived(a) \cup Arrived(b) = numbers
  BY ListIsPart, CutInTwo
<1> HIDE DEF a, b
<1>2. ASSUME NEW i \in DOMAIN b, b[i].sei # 0
      PROVE  b[i].sei \in Arrived(b)
  <2>1. b[i] \in SoundItems
    BY <1>1, SeqFacts DEF PartOK
  <2>2. b[i].sei \in Nat
    BY <2>1, ItemTyped
  <2>3. b[i].sei \in Arrived(a) \cup Arrived(b)
    BY <1>1, <1>2 DEF PartOK, PointsInto
  <2>4. b[i].sei \notin Arrived(a)
    BY <1>1, <1>2, <2>2 DEF After
  <2> QED
    BY <2>3, <2>4
<1> QED
  BY <1>1, <1>2 DEF PartOK, PointsInto, ListOK, b

-----------------------------------------------------------------------------
(* The report.                                                             *)

(* A session between two calls.                                            *)
SessionOK(s) ==
  /\ Typed(s)
  /\ s.accumulated.received \in Nat
  /\ s.accumulated.validated \in 0..s.accumulated.received
  /\ Arrived(s.list) = (s.accumulated.validated + 1)..s.accumulated.received

LEMMA AccumulateCounts ==
  ASSUME NEW s, HasFields(s.accumulated, AccumulatedFields),
         s.latest.authenticity \in 0..4, s.accumulated.authenticity \in 0..4
  PROVE  LET new == Other!Accumulate(s.accumulated, s.latest)
         IN  /\ HasFields(new, AccumulatedFields)
             /\ new.authenticity = Other!Worse(s.accumulated.authenticity, s.latest.authenticity)
             /\ new.received = s.accumulated.received
             /\ new.validated = s.accumulated.validated
<1> DEFINE old == s.accumulated
           both == Other!Both(s.latest)
           worse == Other!Worse(old.authenticity, s.latest.authenticity)
           provenance == IF old.provenance = Other!ProvenanceNotFeasible
                            \/ s.latest.provenance < old.provenance
                         THEN s.latest.provenance ELSE old.provenance
           worst == IF both < old.both THEN both ELSE old.both
           changed == old.keyChanged \/ s.latest.keyChanged
           new == Other!Accumulate(old, s.latest)
<1>1. new = [old EXCEPT !.authenticity = worse, !.provenance = provenance, !.both = worst,
                        !.keyChanged = changed]
  BY DEF Other!Accumulate
<1> HIDE DEF worse, provenance, worst, changed, new
<1>2. /\ HasFields(new, AccumulatedFields) /\ new.authenticity = worse
      /\ new.received = old.received /\ new.validated = old.validated
  BY ONLY <1>1, HasFields(s.accumulated, AccumulatedFields), FieldsAre DEF HasFields
<1> QED
  BY <1>2 DEF worse, new

LEMMA UpdateReportCounts ==
  ASSUME NEW s, HasFields(s.accumulated, AccumulatedFields), s.hasResult \in BOOLEAN,
         s.latest.authenticity \in 0..4, s.accumulated.authenticity \in 0..4,
         SessionOK(s), s.hasResult => s.latest.authenticity # 0
  PROVE  SessionOK(Other!UpdateReport(s))
<1> DEFINE new == Other!Accumulate(s.accumulated, s.latest)
           validated == Other!Validated(s.list)
           n == Len(validated)
           num == Other!Cardinality({k \in DOMAIN validated : validated[k].status # Other!Missing})
           list == SubSeq(s.list, n + 1, Len(s.list))
           r == s.accumulated.received
           v == s.accumulated.validated
           t == Other!UpdateReport(s)
<1>1. CASE ~s.hasResult
  BY <1>1 DEF Other!UpdateReport
<1>2. CASE s.hasResult
  <2>1. /\ HasFields(new, AccumulatedFields) /\ new.received = r /\ new.validated = v
        /\ new.authenticity = Other!Worse(s.accumulated.authenticity, s.latest.authenticity)
    BY AccumulateCounts
  <2>2. new.authenticity # 0
    BY <1>2, <2>1 DEF Other!Worse, Other!NotFeasible
  <2>3. t = [s EXCEPT !.list = list,
                      !.accumulated = [new EXCEPT !.validated =
                        IF new.authenticity # Other!NotSigned THEN new.validated + num
                                                              ELSE new.validated]]
    BY <1>2 DEF Other!UpdateReport
  <2> DEFINE overall == [new EXCEPT !.validated = v + num]
  <2>4. t = [s EXCEPT !.list = list, !.accumulated = overall]
    <3> HIDE DEF new, num, list, t
    <3> QED
      BY <2>1, <2>2, <2>3 DEF Other!NotSigned
  <2>5. /\ HasFields(s, Fields) /\ ListOK(s.list) /\ s.list \in Seq(SoundItems)
        /\ Len(s.list) \in Nat /\ r \in Nat /\ v \in 0..r /\ Arrived(s.list) = (v + 1)..r
    BY DEF SessionOK, Typed, ListOK
  <2>6. n \in 0..Len(s.list) /\ validated = SubSeq(s.list, 1, n)
    BY <2>5, ValidatedIs
  <2> HIDE DEF validated, n, new
  <2>7. n + 1 \in 1..(Len(s.list) + 1) /\ (n + 1) - 1 = n
    BY <2>5, <2>6
  <2> DEFINE numbers == Arrived(s.list)
  <2>8. /\ PartOK(validated, numbers) /\ After(validated, list)
        /\ Arrived(validated) \cup Arrived(list) = numbers
    <3> DEFINE a == SubSeq(s.list, 1, (n + 1) - 1)
    <3>1. PartOK(s.list, numbers)
      BY <2>5, ListIsPart
    <3>2. /\ PartOK(a, numbers) /\ After(a, list) /\ Arrived(a) \cup Arrived(list) = numbers
      BY <2>7, <3>1, CutInTwo
    <3> QED
      BY <2>6, <2>7, <3>2
  <2>9. ListOK(list)
    BY <2>5, <2>7, RestIsList
  <2>10. \A x \in Arrived(validated), y \in Arrived(list) : x < y
    BY <2>8 DEF After, Arrived
  <2> HIDE DEF list
  <2>11. PICK c \in v..r : Arrived(validated) = (v + 1)..c /\ Arrived(list) = (c + 1)..r
    <3>1. v \in Nat /\ r \in Nat /\ v <= r
      BY <2>5
    <3>2. Arrived(validated) \cup Arrived(list) = (v + 1)..r
      BY <2>5, <2>8
    <3> DEFINE A == Arrived(validated)
               B == Arrived(list)
    <3>3. A \cup B = (v + 1)..r /\ \A x \in A, y \in B : x < y
      BY <2>10, <3>2
    <3> HIDE DEF v, r, A, B
    <3>4. CutInNumbers(A, B, v, r)
      BY <3>1, <3>3, IntervalCut
    <3> QED
      BY <3>4 DEF CutInNumbers, A, B
  <2>12. IsFiniteSet(Arrived(validated)) /\ Cardinality(Arrived(validated)) = c - v
    <3>1. v + 1 \in Int /\ c \in Int /\ v <= c /\ v \in Int
      BY <2>5, <2>11
    <3>2. /\ IsFiniteSet((v + 1)..c)
          /\ Cardinality((v + 1)..c) = IF v + 1 > c THEN 0 ELSE c - (v + 1) + 1
      BY <3>1, FS_Interval
    <3> QED
      BY <2>11, <3>1, <3>2
  <2>13. num = c - v
    BY <2>8, <2>12, AsManyAsArrived DEF PartOK, HaveArrived
  <2> HIDE DEF num, t
  <2>14. /\ HasFields(t, Fields) /\ t.list = list /\ t.data = s.data /\ t.anchor = s.anchor
         /\ t.numNalus = s.numNalus /\ t.accumulated = overall
    BY ONLY <2>4, <2>5, FieldsAre DEF HasFields
  <2>15. overall.received = r /\ overall.validated = c
    <3>1. overall.received = new.received /\ overall.validated = v + num
      BY ONLY <2>1, FieldsAre DEF HasFields
    <3> QED
      BY <2>1, <2>5, <2>13, <3>1
  <2>16. Typed(t)
    BY <2>9, <2>14 DEF SessionOK, Typed
  <2> QED
    BY <2>5, <2>11, <2>14, <2>15, <2>16 DEF SessionOK, t
<1> QED
  BY <1>1, <1>2

-----------------------------------------------------------------------------
(* A NAL Unit is added to the list.                                        *)

LEMMA NewItemIs ==
  ASSUME NEW at \in Nat, at # 0, NEW nalu \in Nalus, NEW hash \in Hash, NEW verified \in BOOLEAN
  PROVE  LET item == Other!NewItem(at, nalu, hash, verified)
         IN  /\ item \in SoundItems /\ item.at = at /\ item.sei = 0
             /\ item.inValidation = FALSE
<1> DEFINE item == Other!NewItem(at, nalu, hash, verified)
           status == IF nalu.kind = "other" THEN Other!Ignored ELSE Other!Pending
<1>1. item = [at |-> at, nalu |-> nalu, hash |-> hash, status |-> status, tmp |-> status,
              verified |-> verified, ifSeiOk |-> Other!Unset, sei |-> 0, decoded |-> FALSE,
              inValidation |-> FALSE]
  BY DEF Other!NewItem
<1>2. status \in Statuses /\ status # Other!Missing
  BY Characters DEF Statuses
<1>3. Other!Unset \in Verdicts
  BY DEF Verdicts
<1> HIDE DEF item, status
<1>4. item \in Items
  BY <1>1, <1>2, <1>3 DEF Items
<1>5. /\ item.at = at /\ item.sei = 0 /\ item.inValidation = FALSE /\ item.nalu = nalu
      /\ item.status = status /\ item.tmp = status
  BY <1>1
<1> QED
  BY <1>2, <1>4, <1>5 DEF SoundItems, item

LEMMA AppendedIsList ==
  ASSUME NEW list, ListOK(list), NEW m \in Nat, NEW n \in Nat, m <= n,
         Arrived(list) = (m + 1)..n,
         NEW item \in SoundItems, item.at = n + 1, item.sei = 0
  PROVE  ListOK(Append(list, item)) /\ Arrived(Append(list, item)) = (m + 1)..(n + 1)
<1> DEFINE numbers == (m + 1)..(n + 1)
           one == <<item>>
<1>1. list \in Seq(SoundItems) /\ Ordered(list) /\ PointsInto(list, (m + 1)..n)
  BY DEF ListOK
<1>2. PartOK(list, numbers)
  BY <1>1 DEF PartOK, PointsInto
<1>3. PartOK(one, numbers) /\ Arrived(one) = {n + 1}
  <2>1. item.sei \in {0} \cup numbers /\ (item.sei # 0 => item.at < item.sei)
    OBVIOUS
  <2>2. PartOK(one, numbers) /\ Arrived(one) = {item.at} \ {0}
    <3> HIDE DEF numbers
    <3> QED
      BY <2>1, OneItem
  <2> QED
    BY <2>2
<1>4. After(list, one)
  <2>1. DOMAIN one = {1} /\ one[1] = item
    OBVIOUS
  <2> HIDE DEF one
  <2> QED
    BY <2>1 DEF After
<1>5. Append(list, item) = list \o one
  BY <1>1
<1> HIDE DEF one
<1>6. PartOK(list \o one, numbers) /\ Arrived(list \o one) = Arrived(list) \cup Arrived(one)
  BY <1>2, <1>3, <1>4, JoinedIsPart, JoinedArrived
<1>7. Arrived(list \o one) = numbers
  BY <1>3, <1>6
<1> QED
  BY <1>5, <1>6, <1>7 DEF ListOK, PartOK

LEMMA AddNaluCounts ==
  ASSUME NEW s, HasFields(s.accumulated, AccumulatedFields), SessionOK(s), NEW nalu \in Nalus
  PROVE  LET t == Other!AddNalu(s, nalu)
             last == t.list[Len(t.list)]
         IN  /\ SessionOK(t) /\ t.hasResult = FALSE
             /\ Len(t.list) \in DOMAIN t.list
             /\ last.at # 0 /\ ~last.inValidation
<1> DEFINE isSigned == nalu.kind = "sei" /\ nalu.data.signed
           registered == IF isSigned THEN Other!DecodeCertificates(s, nalu.data.cert) ELSE s
           isPresent == s.signingPresent \/ nalu.kind = "sei"
           received == s.accumulated.received + 1
           validated == s.accumulated.validated
           verified == isSigned /\ nalu.intact /\ nalu.data.key = registered.key
           gopStarts == IF nalu.kind = "I" THEN s.gopStarts + 1 ELSE s.gopStarts
           hash == [nalu |-> nalu.id,
                    anchor |-> IF nalu.kind \in {"I", "sei"} THEN nalu.id ELSE s.anchor]
           item == Other!NewItem(received, nalu, hash, verified)
           known == registered.hashAlgoKnown \/ (isSigned /\ nalu.data.cert # 0)
                      \/ (~isPresent /\ gopStarts > Other!MAX_NUM_UNHASHED_GOPS)
           anchor == IF nalu.kind = "I" THEN nalu.id ELSE registered.anchor
           t == Other!AddNalu(s, nalu)
<1>1. t = [registered EXCEPT
            !.accumulated.received = received, !.list = Append(@, item),
            !.anchor = anchor, !.hasResult = FALSE, !.signingPresent = isPresent,
            !.hashAlgoKnown = known, !.gopStarts = gopStarts]
  BY Zenon DEF Other!AddNalu
<1>2. /\ HasFields(s, Fields) /\ ListOK(s.list) /\ s.anchor \in Int /\ Typed(s)
      /\ s.accumulated.received \in Nat /\ validated \in 0..s.accumulated.received
      /\ Arrived(s.list) = (validated + 1)..s.accumulated.received
  BY DEF SessionOK, Typed
<1>3. Untouched(s, registered) /\ registered.accumulated = s.accumulated
  <2>1. Untouched(s, s)
    BY <1>2 DEF Untouched
  <2>2. Other!DecodeCertificates(s, nalu.data.cert).accumulated = s.accumulated
    BY <1>2, FieldsAre DEF HasFields, Other!DecodeCertificates
  <2> QED
    BY <1>2, <2>1, <2>2, DecodeCertificatesTouches
<1>4. nalu.id \in Int /\ hash \in Hash /\ verified \in BOOLEAN
  BY <1>2 DEF Nalus, Hash
<1>5. received \in Nat /\ received # 0 /\ received = s.accumulated.received + 1
      /\ validated \in 0..received
  BY <1>2
<1> HIDE DEF received, hash, verified
<1>6. item \in SoundItems /\ item.at = received /\ item.sei = 0 /\ item.inValidation = FALSE
  BY <1>4, <1>5, NewItemIs, ZenonT(30)
<1>7. anchor \in Int
  BY <1>2, <1>3, <1>4 DEF Untouched
<1> HIDE DEF item, anchor, known, gopStarts, isPresent, registered, t
<1> DEFINE list == Append(s.list, item)
<1>8. ListOK(list) /\ Arrived(list) = (validated + 1)..received
  BY <1>2, <1>5, <1>6, AppendedIsList
<1>9. Len(list) \in DOMAIN list /\ list[Len(list)] = item
  <2>1. s.list \in Seq(SoundItems)
    BY <1>2 DEF ListOK
  <2> QED
    BY <1>6, <2>1
<1>10. /\ HasFields(registered, Fields) /\ registered.list = s.list
       /\ registered.data = s.data /\ registered.numNalus = s.numNalus
  BY <1>3 DEF Untouched
<1>11. /\ HasFields(t, Fields) /\ t.list = Append(registered.list, item)
       /\ t.data = registered.data /\ t.anchor = anchor /\ t.numNalus = registered.numNalus
       /\ t.accumulated = [registered.accumulated EXCEPT !.received = received]
       /\ t.hasResult = FALSE
  BY ONLY <1>1, <1>10, FieldsAre DEF HasFields
<1>12. t.list = list
  BY <1>10, <1>11
<1> HIDE DEF list
<1>13. t.accumulated.received = received /\ t.accumulated.validated = s.accumulated.validated
  BY <1>3, <1>11, FieldsAre DEF HasFields
<1>14. Typed(t)
  BY <1>2, <1>7, <1>8, <1>10, <1>11, <1>12 DEF Typed
<1>15. SessionOK(t)
  BY <1>5, <1>8, <1>12, <1>13, <1>14 DEF SessionOK
<1> QED
  BY <1>5, <1>6, <1>9, <1>11, <1>12, <1>15 DEF t

LEMMA FailCounts ==
  ASSUME NEW s, SessionOK(s), Len(s.list) \in DOMAIN s.list,
         s.list[Len(s.list)].at # 0, ~s.list[Len(s.list)].inValidation
  PROVE  SessionOK(Other!Fail(s))
<1> DEFINE last == Len(s.list)
           item == [s.list[last] EXCEPT !.status = Other!Error, !.tmp = Other!Error]
           list == Other!WithItem(s.list, last, item)
           t == Other!Fail(s)
<1>1. Typed(s) /\ HasFields(s, Fields) /\ ListOK(s.list) /\ s.list \in Seq(SoundItems)
  BY DEF SessionOK, Typed, ListOK
<1>2. Preserved(s.list[last], item)
  <2> DEFINE old == s.list[last]
  <2>1. old \in SoundItems /\ old.at # 0 /\ ~old.inValidation
    BY <1>1
  <2> HIDE DEF old
  <2>2. Preserved(old, [old EXCEPT !.status = Other!Error, !.tmp = Other!Error])
    BY <2>1, ItemFailed
  <2> QED
    BY <2>2 DEF old
<1>3. Reshaped(s.list, list)
  BY <1>1, <1>2, WithItemKeeps
<1>4. t = [s EXCEPT !.list = list]
  <2>1. list = [s.list EXCEPT ![last] = item]
    <3> HIDE DEF item, last
    <3> QED
      BY <1>1 DEF Other!WithItem
  <2> QED
    BY <2>1, Zenon DEF Other!Fail
<1>5. Continues(s, t)
  <2> HIDE DEF list, t
  <2> QED
    BY <1>1, <1>3, <1>4, WithList
<1> HIDE DEF list, t
<1>6. t.accumulated = s.accumulated
  BY ONLY <1>1, <1>4, FieldsAre DEF HasFields
<1> QED
  BY <1>5, <1>6 DEF SessionOK, Continues, t

(* A call of onvif_media_signing_add_nalu_and_authenticate().              *)
LEMMA ReceiveCounts ==
  ASSUME IInv, SessionOK(session), wire[1] \in Nalus, Receive
  PROVE  SessionOK(session')
<1> DEFINE added == Other!AddNalu(session, wire[1])
           done == Other!MaybeValidateGop(added, wire[1])
<1>1. SessionInv(session, anchors) /\ HasFields(session.accumulated, AccumulatedFields)
  BY DEF IInv, SessionInv, IsSession
<1>2. SessionInv(added, anchors) /\ added.hasResult = FALSE
  <2>1. \A s, trusted, nalu : SessionInv(s, trusted) =>
          SessionInv(Other!AddNalu(s, nalu), trusted) /\ Other!AddNalu(s, nalu).hasResult = FALSE
    BY AddNaluKeeps
  <2> QED
    BY <1>1, <2>1, Zenon
<1>3. /\ SessionOK(added) /\ Len(added.list) \in DOMAIN added.list
      /\ added.list[Len(added.list)].at # 0 /\ ~added.list[Len(added.list)].inValidation
  BY <1>1, AddNaluCounts
<1>4. session' \in {Other!Fail(added), Other!UpdateReport(done)}
  BY DEF Receive, Other!AddNaluAndAuthenticate, Other!Answer
<1> HIDE DEF added
<1>5. SessionOK(Other!Fail(added))
  BY <1>3, FailCounts
<1>6. IsDone(done, added, anchors)
  BY <1>2, MaybeValidateGopKeeps
<1>7. CallOK(done, Arrived(added.list))
  <2>1. CallOK(added, Arrived(added.list))
    BY <1>2, <1>3 DEF CallOK, SessionOK
  <2> QED
    BY <1>2, <2>1, MaybeValidateGopIsDone
<1> HIDE DEF done
<1>8. SessionOK(done) /\ (done.hasResult => done.latest.authenticity # 0)
  BY <1>3, <1>6, <1>7 DEF IsDone, CallOK, SessionOK
<1>9. /\ HasFields(done.accumulated, AccumulatedFields) /\ done.hasResult \in BOOLEAN
      /\ done.latest.authenticity \in 0..4 /\ done.accumulated.authenticity \in 0..4
  BY <1>2, <1>6 DEF IsDone, IsReady, SessionInv, IsSession
<1>10. SessionOK(Other!UpdateReport(done))
  BY <1>8, <1>9, UpdateReportCounts
<1> QED
  BY <1>4, <1>5, <1>10

LEMMA NewSessionCounts ==
  LET new == Other!NewSession
  IN  /\ new.list = <<>> /\ new.data = Other!NoSei /\ new.anchor = 0 /\ new.numNalus = 0
      /\ new.accumulated.received = 0 /\ new.accumulated.validated = 0
<1> DEFINE new == Other!NewSession
<1>1. new.list = <<>> /\ new.data = Other!NoSei /\ new.anchor = 0 /\ new.numNalus = 0
  BY Zenon DEF Other!NewSession
<1>2. new.accumulated = [authenticity |-> 0, provenance |-> 0, both |-> 3,
                         keyChanged |-> FALSE, received |-> 0, validated |-> 0]
  BY Zenon DEF Other!NewSession, Other!NotSigned, Other!ProvenanceNotFeasible,
         Other!BothNotFeasible
<1> HIDE DEF new
<1>3. new.accumulated.received = 0 /\ new.accumulated.validated = 0
  BY <1>2
<1> QED
  BY <1>1, <1>3 DEF new

LEMMA NoSeiType == Other!NoSei \in SeiData
<1>1. 0 \in 0..(CounterRange - 1)
  BY StreamAssumption
<1>2. <<>> \in Seq(Hash) /\ 0 \in {0} \cup Keys /\ FALSE \in BOOLEAN /\ 0 \in Nat
  OBVIOUS
<1>3. Other!NoSei =
        [counter |-> 0, gopHash |-> <<>>, numNalus |-> 0, list |-> <<>>,
         linked |-> <<>>, triggered |-> FALSE, signed |-> FALSE,
         isCertificate |-> FALSE, key |-> 0, cert |-> 0]
  BY Zenon DEF Other!NoSei
<1> QED
  BY ONLY <1>1, <1>2, <1>3 DEF SeiData

LEMMA EmptyList == ListOK(<<>>) /\ Arrived(<<>>) = 1..0
BY DEF ListOK, Ordered, PointsInto, Arrived

(* A session without items that has received nothing. *)
LEMMA EmptySession ==
  ASSUME NEW s, HasFields(s, Fields), s.list = <<>>, s.data = Other!NoSei,
         s.anchor \in Int, s.numNalus = 0,
         s.accumulated.received = 0, s.accumulated.validated = 0
  PROVE  SessionOK(s)
<1>1. Typed(s)
  BY NoSeiType, EmptyList DEF Typed
<1>2. 0 \in Nat /\ 0 \in 0..0 /\ 0 + 1 = 1
  OBVIOUS
<1>3. Arrived(s.list) = (0 + 1)..0
  BY EmptyList, <1>2
<1> QED
  BY ONLY <1>1, <1>2, <1>3, s.accumulated.received = 0, s.accumulated.validated = 0 DEF SessionOK

LEMMA InitCounts == StreamInit => SessionOK(session)
<1> SUFFICES ASSUME StreamInit PROVE SessionOK(session)
  OBVIOUS
<1> DEFINE new == Other!NewSession
<1>1. session = [new EXCEPT !.trusted = scenario.trusted]
  BY DEF StreamInit
<1>2. /\ HasFields(new, Fields)
      /\ new.list = <<>> /\ new.data = Other!NoSei /\ new.anchor = 0 /\ new.numNalus = 0
      /\ new.accumulated.received = 0 /\ new.accumulated.validated = 0
  BY NewSessionIs, NewSessionCounts
<1> HIDE DEF new
<1>3. /\ HasFields(session, Fields) /\ session.list = new.list /\ session.data = new.data
      /\ session.anchor = new.anchor /\ session.numNalus = new.numNalus
      /\ session.accumulated = new.accumulated
  BY ONLY <1>1, <1>2, FieldsAre DEF HasFields
<1> QED
  BY <1>2, <1>3, EmptySession

LEMMA StartOverCounts ==
  ASSUME SessionOK(session), StartOver
  PROVE  SessionOK(session')
<1> DEFINE known == IF session.hashAlgoKnown THEN session.anchor ELSE 0
           authenticity ==
             IF session.accumulated.authenticity = Other!NotSigned THEN Other!NotSigned
             ELSE Other!NotFeasible
           new == Other!NewSession
           overall == [new.accumulated EXCEPT !.authenticity = authenticity]
<1>1. session' = [new EXCEPT
        !.anchor = known, !.hashAlgoKnown = session.hashAlgoKnown, !.key = session.key,
        !.verifiedPubkey = session.verifiedPubkey, !.trusted = session.trusted,
        !.signingPresent = session.signingPresent, !.accumulated = overall]
  BY DEF StartOver, Other!Reset
<1>2. known \in Int
  BY DEF SessionOK, Typed
<1>3. /\ HasFields(new, Fields) /\ HasFields(new.accumulated, AccumulatedFields)
      /\ new.list = <<>> /\ new.data = Other!NoSei /\ new.anchor = 0 /\ new.numNalus = 0
      /\ new.accumulated.received = 0 /\ new.accumulated.validated = 0
  BY NewSessionIs, NewSessionCounts
<1> HIDE DEF new, known, authenticity
<1>4. overall.received = 0 /\ overall.validated = 0
  BY ONLY <1>3, FieldsAre DEF HasFields
<1> HIDE DEF overall
<1>5. /\ HasFields(session', Fields) /\ session'.list = new.list /\ session'.data = new.data
      /\ session'.anchor = known /\ session'.numNalus = new.numNalus
      /\ session'.accumulated = overall
  BY ONLY <1>1, <1>3, FieldsAre DEF HasFields
<1> QED
  BY <1>2, <1>3, <1>4, <1>5, EmptySession

LEMMA SetTrustedCounts ==
  ASSUME NEW certificate, SessionOK(session), SetTrusted(certificate)
  PROVE  SessionOK(session')
<1> DEFINE trusted == IF session.trusted = 0 THEN certificate ELSE 0
<1>1. session' = [session EXCEPT !.trusted = trusted]
  BY Zenon DEF SetTrusted, Other!SetTrustedCertificate
<1>2. Typed(session) /\ HasFields(session, Fields)
  BY DEF SessionOK, Typed
<1> HIDE DEF trusted
<1>3. Untouched(session, session') /\ session'.accumulated = session.accumulated
  BY ONLY <1>1, <1>2, FieldsAre DEF HasFields, Untouched
<1>4. Typed(session') /\ session'.list = session.list
  BY <1>2, <1>3, UntouchedContinues DEF Continues
<1> QED
  BY <1>3, <1>4 DEF SessionOK

-----------------------------------------------------------------------------
(* The side that signs, and the way.                                       *)

OnWire == {<<>>} \cup {<<nalu>> : nalu \in Nalus}

SignerOK == TypeOK /\ Counting /\ fetched \in 0..Len(seis)
WayOK == wire \in OnWire /\ held \in OnWire /\ faults \in Seq(Faults)

LEMMA SignerStep ==
  ASSUME SignerOK, [Next]_vars, seis' = seis \/ \E sei : seis' = Append(seis, sei)
  PROVE  TypeOK' /\ Counting' /\ Len(seis) \in Nat /\ Len(seis') \in Nat
         /\ Len(seis) <= Len(seis')
<1>1. TypeOK' /\ Counting'
  BY TypeStep DEF SignerOK
<1>2. seis \in Seq(Seis) /\ seis' \in Seq(Seis')
  BY <1>1 DEF SignerOK, TypeOK
<1>3. Len(seis) \in Nat /\ Len(seis') \in Nat
  BY <1>2
<1>4. Len(seis) <= Len(seis')
  BY <1>2, <1>3
<1> QED
  BY <1>1, <1>3, <1>4

LEMMA KindsOfScenario ==
  ASSUME TypeOK, NEW kind \in scenario.kinds
  PROVE  kind \in Kinds
BY StreamAssumption DEF TypeOK

LEMMA SignIsNext ==
  ASSUME SignerOK, NEW kind \in scenario.kinds, Sign(kind)
  PROVE  SignerOK'
<1>1. kind \in Kinds
  BY KindsOfScenario DEF SignerOK
<1>2. [Next]_vars
  BY <1>1 DEF Sign, Next
<1>3. (seis' = seis \/ \E sei : seis' = Append(seis, sei)) /\ fetched' = fetched
  BY DEF Sign, AddNalu, AddFirstOfStream, AddFirstOfGop
<1>4. /\ TypeOK' /\ Counting' /\ Len(seis) \in Nat /\ Len(seis') \in Nat
      /\ Len(seis) <= Len(seis')
  BY <1>2, <1>3, SignerStep
<1>5. fetched' \in 0..Len(seis')
  BY <1>3, <1>4 DEF SignerOK
<1> QED
  BY <1>4, <1>5 DEF SignerOK

LEMMA EndIsNext ==
  ASSUME SignerOK, End
  PROVE  SignerOK'
<1>2. [Next]_vars
  BY DEF End, Next
<1>3. (seis' = seis \/ \E sei : seis' = Append(seis, sei)) /\ fetched' = fetched
  BY DEF End, SetEndOfStream, user
<1>4. /\ TypeOK' /\ Counting' /\ Len(seis) \in Nat /\ Len(seis') \in Nat
      /\ Len(seis) <= Len(seis')
  BY <1>2, <1>3, SignerStep
<1>5. fetched' \in 0..Len(seis')
  BY <1>3, <1>4 DEF SignerOK
<1> QED
  BY <1>4, <1>5 DEF SignerOK

(* A NAL Unit of the GOP at hand that comes while the number of fetched SEIs *)
(* changes.                                                                *)
LEMMA AddNaluIsNext ==
  ASSUME SignerOK, NEW kind \in Kinds, AddNalu(kind), fetched' \in 0..Len(seis)
  PROVE  SignerOK'
<1>1. [Next]_vars
  BY DEF Next
<1>2. seis' = seis
  BY DEF AddNalu
<1>3. TypeOK' /\ Counting'
  BY <1>1, <1>2, SignerStep
<1> QED
  BY <1>2, <1>3 DEF SignerOK

LEMMA FetchCertificateSeiKeepsSigner ==
  ASSUME SignerOK, FetchCertificateSei
  PROVE  SignerOK'
<1>1. AddNalu("other") /\ fetched' = fetched /\ "other" \in Kinds
  BY DEF FetchCertificateSei, Kinds
<1> QED
  BY <1>1, AddNaluIsNext DEF SignerOK

LEMMA FetchSeiKeepsSigner ==
  ASSUME SignerOK, FetchSei
  PROVE  SignerOK'
<1> DEFINE sei == seis[fetched + 1]
<1>1. fetched < Len(seis) /\ fetched' = fetched + 1 /\ seis \in Seq(Seis)
  BY DEF FetchSei, SignerOK, TypeOK
<1>2. Len(seis) \in Nat
  BY <1>1
<1>3. fetched' \in 0..Len(seis)
  BY <1>1, <1>2 DEF SignerOK
<1>4. \/ ~ended /\ AddNalu(IF sei.signed THEN "other" ELSE "sei")
      \/ ended /\ stream' = Append(stream, "other")
               /\ UNCHANGED <<scenario, gop, started, ended, untilSigning, settings, seis>>
  BY DEF FetchSei
<1>5. CASE AddNalu(IF sei.signed THEN "other" ELSE "sei")
  <2>1. (IF sei.signed THEN "other" ELSE "sei") \in Kinds
    BY DEF Kinds
  <2> HIDE DEF sei
  <2> QED
    BY <1>3, <1>5, <2>1, AddNaluIsNext
<1>6. CASE ended /\ stream' = Append(stream, "other")
               /\ UNCHANGED <<scenario, gop, started, ended, untilSigning, settings, seis>>
  <2>1. TypeOK /\ Counting /\ stream \in Seq(Kinds \cup {"reset"}) /\ "other" \in Kinds
    BY DEF SignerOK, TypeOK, Kinds
  <2>2. stream' \in Seq(Kinds \cup {"reset"}) /\ Len(stream') = Len(stream) + 1
        /\ Len(stream) \in Nat
    BY <1>6, <2>1
  <2>3. /\ scenario' = scenario /\ gop' = gop /\ started' = started /\ ended' = ended
        /\ untilSigning' = untilSigning /\ signingFrequency' = signingFrequency
        /\ maxSigningFrames' = maxSigningFrames /\ seis' = seis
    BY <1>6 DEF settings
  <2>4. GopInfos' = GopInfos /\ Seis' = Seis /\ MaxHashes' = MaxHashes
    BY <2>3 DEF GopInfos, Seis, Hashes, HashCounts, GopCounts, MaxNalus, MaxHashes
  <2>5. TypeOK'
    BY <2>1, <2>2, <2>3, <2>4 DEF TypeOK
  <2>6. /\ gop.numFrames \in Int /\ gop.current \in Int /\ gop.endTime \in Int
        /\ gop.anchor \in Int
    <3>1. gop \in GopInfos /\ MaxNalus \in Nat
      BY <2>1, ScenarioBounds DEF TypeOK
    <3> QED
      BY <3>1 DEF GopInfos, GopCounts
  <2>7. Counting'
    BY <2>1, <2>2, <2>3, <2>6 DEF Counting
  <2> QED
    BY <1>3, <2>3, <2>5, <2>7 DEF SignerOK
<1> QED
  BY <1>4, <1>5, <1>6

LEMMA NewGopInfoType ==
  ASSUME scenario \in Scenarios
  PROVE  /\ NewGopInfo \in GopInfos /\ NewGopInfo.list = <<>>
         /\ NewGopInfo.numFrames = 0 /\ NewGopInfo.current = -1
         /\ NewGopInfo.endTime = 0 /\ NewGopInfo.anchor = 0
<1> DEFINE m == -1
           l == <<<<>>, <<>>>>
<1>1. m \in GopCounts /\ 0 \in HashCounts /\ 0 \in 0..MaxNalus
  BY ScenarioBounds DEF GopCounts, HashCounts
<1>2. <<>> \in Seq(Hashes)
  OBVIOUS
<1>3. l \in Seq(Hashes) \X Seq(Hashes)
  BY <1>2
<1>4. TRUE \in BOOLEAN /\ FALSE \in BOOLEAN
  OBVIOUS
<1>5. NewGopInfo = [context |-> <<>>, list |-> <<>>, listOk |-> TRUE, hasAnchor |-> FALSE,
                    anchor |-> 0, linked |-> l, gopHash |-> <<>>, numNalus |-> 0,
                    numFrames |-> 0, current |-> m, triggered |-> FALSE,
                    startTime |-> 0, endTime |-> 0]
  BY DEF NewGopInfo, None
<1>6. NewGopInfo.current = -1
  BY DEF NewGopInfo
<1> HIDE DEF m, l
<1>7. NewGopInfo \in GopInfos
  BY <1>1, <1>2, <1>3, <1>4, <1>5 DEF GopInfos
<1> QED
  BY <1>5, <1>6, <1>7

LEMMA RestartKeepsSigner ==
  ASSUME SignerOK, RestartWithNewKey
  PROVE  SignerOK'
<1>1. /\ gop' = NewGopInfo /\ started' = FALSE /\ untilSigning' = signingFrequency
      /\ fetched' = Len(seis) /\ scenario' = scenario /\ stream' = stream /\ ended' = ended
      /\ signingFrequency' = signingFrequency /\ maxSigningFrames' = maxSigningFrames
      /\ seis' = seis
  BY DEF RestartWithNewKey, settings
<1>2. TypeOK /\ scenario \in Scenarios /\ stream \in Seq(Kinds \cup {"reset"})
      /\ seis \in Seq(Seis) /\ signingFrequency \in Frequencies
  BY DEF SignerOK, TypeOK
<1>3. Len(stream) \in Nat /\ Len(seis) \in Nat /\ signingFrequency \in Nat
      /\ signingFrequency > 0
  BY <1>2, FrequencyBounds
<1>4. GopInfos' = GopInfos /\ Seis' = Seis /\ MaxHashes' = MaxHashes
  BY <1>1 DEF GopInfos, Seis, Hashes, HashCounts, GopCounts, MaxNalus, MaxHashes
<1>5. MaxHashes \in Nat /\ Len(<<>>) = 0
  BY <1>2, ScenarioBounds
<1>6. /\ gop' \in GopInfos /\ Len(gop'.list) <= MaxHashes
  BY <1>1, <1>2, <1>5, NewGopInfoType
<1>7. signingFrequency \in 0..signingFrequency
  BY <1>3
<1>8. TypeOK'
  BY <1>1, <1>2, <1>4, <1>6, <1>7 DEF TypeOK
<1>9. Counting'
  BY <1>1, <1>2, <1>3, NewGopInfoType DEF Counting
<1>10. fetched' \in 0..Len(seis')
  BY <1>1, <1>3
<1> QED
  BY <1>8, <1>9, <1>10 DEF SignerOK

(* No other step touches the side that signs. *)
LEMMA SignerKept ==
  ASSUME SignerOK, [StreamNext]_streamVars
  PROVE  SignerOK'
<1>1. ASSUME UNCHANGED <<signer, user>> PROVE SignerOK'
  <2>1. [Next]_vars /\ seis' = seis /\ fetched' = fetched
    BY <1>1 DEF signer, user, vars
  <2> QED
    BY <2>1, SignerStep DEF SignerOK
<1>2. CASE Lose \/ Change \/ Delay \/ Release \/ TuneIn
  BY <1>1, <1>2 DEF Lose, Change, Delay, Release, TuneIn
<1>3. CASE Receive \/ StartOver \/ \E certificate \in Keys : SetTrusted(certificate)
  BY <1>1, <1>3 DEF Receive, StartOver, SetTrusted
<1>4. CASE UNCHANGED streamVars
  BY <1>1, <1>4 DEF streamVars
<1> QED
  BY <1>2, <1>3, <1>4, SignIsNext, EndIsNext, FetchCertificateSeiKeepsSigner,
     FetchSeiKeepsSigner, RestartKeepsSigner DEF StreamNext

(* What a SEI says reaches the other side as data. *)
LEMMA SeiReaches ==
  ASSUME SignerOK, FetchSei
  PROVE  \E data \in SeiData, kind \in Kinds :
           wire' = <<[kind |-> kind, id |-> Position, data |-> data, intact |-> TRUE]>>
<1> DEFINE sei == seis[fetched + 1]
           data == [counter |-> sei.counter % CounterRange, gopHash |-> sei.gopHash,
                    numNalus |-> sei.numNalus, list |-> sei.list, linked |-> sei.linked,
                    triggered |-> sei.triggered, signed |-> sei.signed,
                    isCertificate |-> FALSE, key |-> SigningKey,
                    cert |-> IF scenario.certificateSei THEN 0 ELSE SigningKey]
<1>1. seis \in Seq(Seis) /\ fetched \in 0..Len(seis) /\ fetched < Len(seis)
      /\ scenario \in Scenarios
  BY DEF SignerOK, TypeOK, FetchSei
<1>2. sei \in Seis
  BY <1>1
<1>3. wire' = <<[kind |-> "sei", id |-> Position, data |-> data, intact |-> TRUE]>>
  BY DEF FetchSei, Send
<1>4. SigningKey \in {0} \cup Keys
  BY DEF SigningKey, Keys
<1> HIDE DEF sei
<1>5. sei.counter \in Int /\ sei.counter % CounterRange \in 0..(CounterRange - 1)
  <2>1. sei.counter \in Int
    <3>1. MaxNalus \in Nat
      BY <1>1, ScenarioBounds
    <3> QED
      BY <1>2, <3>1 DEF Seis, GopCounts
  <2> QED
    BY <2>1, StreamAssumption
<1>6. sei.gopHash \in Seq(Hash) /\ sei.list \in Seq(Hash) /\ sei.linked \in Seq(Hash)
  <2>1. MaxNalus \in Nat
    BY <1>1, ScenarioBounds
  <2>2. Hashes \subseteq Hash
    BY <2>1 DEF Hashes, Hash
  <2>3. \A s \in Seq(Hashes) : s \in Seq(Hash)
    BY <2>2
  <2>4. sei.gopHash \in Seq(Hashes) /\ sei.list \in Seq(Hashes) /\ sei.linked \in Seq(Hashes)
    BY <1>2 DEF Seis
  <2> QED
    BY <2>3, <2>4
<1>7. sei.numNalus \in Nat
  <2>1. MaxHashes \in Nat
    BY <1>1, ScenarioBounds
  <2> QED
    BY <1>2, <2>1 DEF Seis, HashCounts, OverflowCount
<1>8. sei.triggered \in BOOLEAN /\ sei.signed \in BOOLEAN
  BY <1>2 DEF Seis
<1>9. data \in SeiData
  <2> DEFINE counter == sei.counter % CounterRange
             cert == IF scenario.certificateSei THEN 0 ELSE SigningKey
  <2>1. cert \in {0} \cup Keys
    BY <1>4
  <2>2. counter \in 0..(CounterRange - 1)
    BY <1>5
  <2> HIDE DEF counter, cert
  <2>3. FALSE \in BOOLEAN
    OBVIOUS
  <2>4. [counter |-> counter, gopHash |-> sei.gopHash,
                    numNalus |-> sei.numNalus, list |-> sei.list, linked |-> sei.linked,
                    triggered |-> sei.triggered, signed |-> sei.signed,
                    isCertificate |-> FALSE, key |-> SigningKey, cert |-> cert] \in SeiData
    BY ONLY <1>4, <1>6, <1>7, <1>8, <2>1, <2>2, <2>3 DEF SeiData
  <2> QED
    BY <2>4 DEF counter, cert
<1> HIDE DEF data
<1> QED
  BY <1>3, <1>9 DEF Kinds

LEMMA SentIsOnWire ==
  ASSUME SignerOK, NEW kind \in Kinds, NEW data \in SeiData,
         wire' = <<[kind |-> kind, id |-> Position, data |-> data, intact |-> TRUE]>>
  PROVE  wire' \in OnWire
<1>1. Position \in Int
  BY DEF SignerOK, TypeOK, Position
<1>2. [kind |-> kind, id |-> Position, data |-> data, intact |-> TRUE] \in Nalus
  BY <1>1 DEF Nalus
<1> QED
  BY <1>2 DEF OnWire

LEMMA WireIs ==
  ASSUME wire \in OnWire, wire # <<>>
  PROVE  wire[1] \in Nalus /\ wire = <<wire[1]>>
BY DEF OnWire

LEMMA ChangedIsOnWire ==
  ASSUME WayOK, Change
  PROVE  wire' \in OnWire
<1>1. wire \in OnWire /\ wire # <<>>
  BY DEF WayOK, Change
<1> DEFINE old == wire[1]
           nalu == [old EXCEPT !.id = -@, !.intact = FALSE]
           emptied == [nalu EXCEPT !.data.gopHash = <<>>]
<1>2. wire' \in {<<nalu>>, <<emptied>>}
  BY Zenon DEF Change
<1>3. old \in Nalus
  BY <1>1, WireIs
<1> HIDE DEF old
<1> DEFINE id == -old.id
<1>4. nalu = [old EXCEPT !.id = id, !.intact = FALSE]
  OBVIOUS
<1>5. id \in Int /\ FALSE \in BOOLEAN
  BY <1>3 DEF Nalus
<1> HIDE DEF nalu, id
<1>6. nalu \in Nalus
  BY <1>3, <1>4, <1>5 DEF Nalus
<1>7. emptied \in Nalus
  <2> DEFINE data == [nalu.data EXCEPT !.gopHash = <<>>]
  <2>1. nalu.data \in SeiData /\ <<>> \in Seq(Hash)
    BY <1>6 DEF Nalus
  <2>2. data \in SeiData
    BY <2>1 DEF SeiData
  <2>3. emptied = [nalu EXCEPT !.data = data]
    OBVIOUS
  <2> HIDE DEF data
  <2> QED
    BY <1>6, <2>2, <2>3 DEF Nalus
<1> HIDE DEF emptied
<1> QED
  BY <1>2, <1>6, <1>7 DEF OnWire

LEMMA CertificateIsData ==
  [Other!NoSei EXCEPT !.signed = TRUE, !.isCertificate = TRUE,
                      !.key = SigningKey, !.cert = SigningKey] \in SeiData
<1>1. Other!NoSei \in SeiData /\ SigningKey \in {0} \cup Keys /\ TRUE \in BOOLEAN
  BY NoSeiType DEF SigningKey, Keys
<1> DEFINE no == Other!NoSei
<1> HIDE DEF no
<1>2. no \in SeiData
  BY <1>1 DEF no
<1>3. [no EXCEPT !.signed = TRUE, !.isCertificate = TRUE,
                 !.key = SigningKey, !.cert = SigningKey] \in SeiData
  BY ONLY <1>1, <1>2 DEF SeiData
<1> QED
  BY <1>3 DEF no

LEMMA FaultOccurs ==
  ASSUME WayOK, scenario' = scenario, NEW fault, Occurs(fault)
  PROVE  faults' \in Seq(Faults')
<1>1. faults \in Seq(Faults) /\ fault \in Faults /\ faults' = Append(faults, fault)
      /\ Faults' = Faults
  BY DEF WayOK, Occurs, Faults
<1> QED
  BY <1>1

(* What is on the way, step by step. *)
LEMMA WayKept ==
  ASSUME SignerOK, WayOK, [StreamNext]_streamVars
  PROVE  WayOK'
<1> USE DEF WayOK
<1>1. <<>> \in OnWire
  BY DEF OnWire
<1>2. ASSUME scenario' = scenario, faults' = faults PROVE faults' \in Seq(Faults')
  BY <1>2 DEF Faults
<1>3. ASSUME NEW kind \in scenario.kinds, Sign(kind) PROVE WayOK'
  <2>1. wire' = <<[kind |-> kind, id |-> Position, data |-> Other!NoSei, intact |-> TRUE]>>
        /\ held' = held /\ faults' = faults
    BY <1>3 DEF Sign, Send
  <2>2. scenario' = scenario
    BY <1>3 DEF Sign, AddNalu, AddFirstOfStream, AddFirstOfGop
  <2>3. kind \in Kinds
    BY KindsOfScenario DEF SignerOK
  <2>4. wire' \in OnWire
    BY <2>1, <2>3, NoSeiType, SentIsOnWire
  <2> QED
    BY <1>2, <2>1, <2>2, <2>4
<1>4. CASE FetchCertificateSei
  <2> DEFINE data == [Other!NoSei EXCEPT !.signed = TRUE, !.isCertificate = TRUE,
                                         !.key = SigningKey, !.cert = SigningKey]
  <2>1. wire' = <<[kind |-> "sei", id |-> Position, data |-> data, intact |-> TRUE]>>
        /\ held' = held /\ faults' = faults
    BY <1>4, Zenon DEF FetchCertificateSei, Send
  <2>2. scenario' = scenario
    BY <1>4 DEF FetchCertificateSei, AddNalu
  <2>3. data \in SeiData /\ "sei" \in Kinds
    BY CertificateIsData DEF Kinds
  <2> HIDE DEF data
  <2>4. wire' \in OnWire
    BY <2>1, <2>3, SentIsOnWire
  <2> QED
    BY <1>2, <2>1, <2>2, <2>4
<1>5. CASE FetchSei
  <2>1. held' = held /\ faults' = faults
    BY <1>5 DEF FetchSei, Send
  <2>2. scenario' = scenario
    BY <1>5 DEF FetchSei, AddNalu
  <2>3. wire' \in OnWire
    BY <1>5, SeiReaches, SentIsOnWire
  <2> QED
    BY <1>2, <2>1, <2>2, <2>3
<1>6. CASE End
  BY <1>2, <1>6 DEF End, SetEndOfStream
<1>7. CASE RestartWithNewKey
  BY <1>7, FaultOccurs DEF RestartWithNewKey
<1>8. CASE Lose \/ Delay
  BY <1>1, <1>8, FaultOccurs DEF Lose, Delay, signer
<1>9. CASE Change
  <2>1. scenario' = scenario /\ held' = held /\ Occurs("change")
    BY <1>9 DEF Change, signer
  <2> QED
    BY <1>9, <2>1, FaultOccurs, ChangedIsOnWire
<1>10. CASE Release
  BY <1>1, <1>2, <1>10 DEF Release, signer
<1>11. CASE TuneIn
  <2>1. wire' = <<>> /\ held' = held /\ faults' = <<"late">> /\ "late" \in Faults
        /\ scenario' = scenario
    BY <1>11 DEF TuneIn, signer
  <2>2. Faults' = Faults
    BY <2>1 DEF Faults
  <2>3. faults' \in Seq(Faults')
    BY <2>1, <2>2
  <2> QED
    BY <1>1, <2>1, <2>3
<1>12. CASE Receive
  BY <1>1, <1>2, <1>12 DEF Receive, signer
<1>13. CASE StartOver
  BY <1>13, FaultOccurs DEF StartOver, signer
<1>14. ASSUME NEW certificate, SetTrusted(certificate) PROVE WayOK'
  BY <1>14, FaultOccurs DEF SetTrusted, signer
<1>15. CASE UNCHANGED streamVars
  BY <1>2, <1>15 DEF streamVars, signer
<1> QED
  BY <1>3, <1>4, <1>5, <1>6, <1>7, <1>8, <1>9, <1>10, <1>11, <1>12, <1>13, <1>14, <1>15
     DEF StreamNext

(* The inductive invariant of the whole stream. *)
StreamInv == IInv /\ SignerOK /\ WayOK /\ SessionOK(session)

LEMMA InitStreamInv == StreamInit => StreamInv
<1> SUFFICES ASSUME StreamInit PROVE StreamInv
  OBVIOUS
<1>1. IInv /\ SessionOK(session)
  BY InitHolds, InitCounts
<1>2. Init /\ fetched = 0 /\ wire = <<>> /\ held = <<>> /\ faults = <<>>
  BY DEF StreamInit
<1>3. TypeOK /\ Counting
  BY <1>2, InitTyped
<1>4. SignerOK
  <2>1. seis = <<>> /\ Len(<<>>) = 0
    BY <1>2 DEF Init
  <2> QED
    BY <1>2, <1>3, <2>1 DEF SignerOK
<1>5. WayOK
  BY <1>2 DEF WayOK, OnWire
<1> QED
  BY <1>1, <1>4, <1>5 DEF StreamInv

(* The session goes on as it was, but for the calls of the other side. *)
LEMMA SessionKept ==
  ASSUME StreamInv, [StreamNext]_streamVars
  PROVE  SessionOK(session')
<1>1. IInv /\ SessionOK(session) /\ WayOK
  BY DEF StreamInv
<1>2. ASSUME session' = session PROVE SessionOK(session')
  BY <1>1, <1>2
<1>3. ASSUME NEW kind \in scenario.kinds, Sign(kind) PROVE session' = session
  BY <1>3 DEF Sign, Send, validator
<1>4. CASE FetchCertificateSei \/ FetchSei \/ End
  BY <1>2, <1>4 DEF FetchCertificateSei, FetchSei, End, Send, validator
<1>5. CASE RestartWithNewKey
  BY <1>2, <1>5 DEF RestartWithNewKey, validator
<1>6. CASE Lose \/ Change \/ Delay \/ Release \/ TuneIn
  BY <1>2, <1>6 DEF Lose, Change, Delay, Release, TuneIn, validator
<1>7. CASE Receive
  <2>1. wire[1] \in Nalus
    BY <1>1, <1>7, WireIs DEF WayOK, Receive
  <2> QED
    BY <1>1, <1>7, <2>1, ReceiveCounts
<1>8. CASE UNCHANGED streamVars
  BY <1>2, <1>8 DEF streamVars, validator
<1> QED
  BY <1>1, <1>2, <1>3, <1>4, <1>5, <1>6, <1>7, <1>8, StartOverCounts, SetTrustedCounts
     DEF StreamNext

LEMMA NextStreamInv == StreamInv /\ [StreamNext]_streamVars => StreamInv'
<1> SUFFICES ASSUME StreamInv, [StreamNext]_streamVars PROVE StreamInv'
  OBVIOUS
<1>1. SignerOK' /\ WayOK'
  BY SignerKept, WayKept DEF StreamInv
<1>2. IInv'
  BY NextKeeps DEF StreamInv
<1>3. SessionOK(session')
  BY SessionKept
<1> QED
  BY <1>1, <1>2, <1>3 DEF StreamInv

(* The list of a validation session is in the order of arrival, what is    *)
(* associated with a SEI comes before it, and what has arrived and was not *)
(* validated is in it, each NAL Unit once.                                 *)
THEOREM ListStaysInOrder == StreamSpec => []StreamInv
BY InitStreamInv, NextStreamInv, PTL DEF StreamSpec

(* Whatever is cleaned up, associated anew, added for missing NAL Units or *)
(* taken back: no item of the list points to a SEI that is gone            *)
(* (nalu_list_clean_up(), remove_sei_association()).                       *)
THEOREM NothingDangles == StreamSpec => []NoDanglingSei
<1>1. StreamInv => NoDanglingSei
  <2> SUFFICES ASSUME StreamInv, NEW k \in DOMAIN session.list, session.list[k].sei # 0
               PROVE  Other!PlaceOf(session.list, session.list[k].sei) # 0
    BY DEF NoDanglingSei
  <2> DEFINE list == session.list
             sei == list[k].sei
  <2>1. ListOK(list)
    BY DEF StreamInv, SessionOK, Typed
  <2>2. sei \in Arrived(list)
    BY <2>1 DEF ListOK, PointsInto
  <2>3. DOMAIN list = 1..Len(list)
    BY <2>1, SeqFacts DEF ListOK
  <2> HIDE DEF sei, list
  <2>4. Other!PlaceOf(list, sei) \in DOMAIN list
    BY <2>1, <2>2, PlaceIs
  <2>5. Other!PlaceOf(list, sei) # 0
    BY <2>3, <2>4
  <2> QED
    BY <2>5 DEF sei, list
<1> QED
  BY <1>1, ListStaysInOrder, PTL

(* Every NAL Unit received was either reported as validated, once, or      *)
(* waits in the list, for streams of any length, however often the first   *)
(* validation is taken back and whatever is added for missing NAL Units    *)
(* (update_authenticity_report(), validate_authenticity()).                *)
THEOREM NaluAlwaysAccountedFor == StreamSpec => []ReceivedIsAccountedFor
<1>1. StreamInv => ReceivedIsAccountedFor
  <2> SUFFICES ASSUME StreamInv PROVE ReceivedIsAccountedFor
    OBVIOUS
  <2> DEFINE list == session.list
             received == session.accumulated.received
             validated == session.accumulated.validated
  <2>1. /\ ListOK(list) /\ list \in Seq(SoundItems) /\ Ordered(list)
        /\ received \in Nat /\ validated \in 0..received
        /\ Arrived(list) = (validated + 1)..received
    BY DEF StreamInv, SessionOK, Typed, ListOK
  <2> HIDE DEF list, received, validated
  <2>2. /\ IsFiniteSet(Arrived(list))
        /\ Cardinality(Arrived(list)) = received - validated
    <3>1. validated + 1 \in Int /\ received \in Int /\ validated \in Int
      BY <2>1
    <3>2. /\ IsFiniteSet((validated + 1)..received)
          /\ Cardinality((validated + 1)..received)
               = IF validated + 1 > received THEN 0 ELSE received - (validated + 1) + 1
      BY <3>1, FS_Interval
    <3> QED
      BY <2>1, <3>1, <3>2
  <2>3. Cardinality(HaveArrived(list)) = received - validated
    BY <2>1, <2>2, AsManyAsArrived, OtherCardinality
  <2>4. received = validated + Cardinality(HaveArrived(list))
    BY <2>1, <2>3
  <2> QED
    BY <2>4 DEF ReceivedIsAccountedFor, HaveArrived, list, received, validated
<1> QED
  BY <1>1, ListStaysInOrder, PTL

(* Both sides keep to their types: items have the statuses they may have,  *)
(* and no more is validated than was received.                             *)
THEOREM SidesStayTyped == StreamSpec => []SidesTyped
<1>1. StreamInv => SidesTyped
  <2> SUFFICES ASSUME StreamInv PROVE SidesTyped
    OBVIOUS
  <2> DEFINE list == session.list
             received == session.accumulated.received
  <2>1. TypeOK /\ fetched \in 0..Len(seis)
    BY DEF StreamInv, SignerOK
  <2>2. Len(wire) <= 1 /\ Len(held) <= 1
    <3>1. \A w \in OnWire : Len(w) <= 1
      <4>1. \A nalu : Len(<<nalu>>) = 1
        OBVIOUS
      <4>2. Len(<<>>) = 0
        OBVIOUS
      <4>3. \A nalu : Len(<<nalu>>) <= 1
        BY <4>1
      <4>4. Len(<<>>) <= 1
        BY <4>2
      <4> SUFFICES ASSUME NEW w \in OnWire PROVE Len(w) <= 1
        OBVIOUS
      <4>5. w = <<>> \/ \E nalu \in Nalus : w = <<nalu>>
        BY DEF OnWire
      <4> QED
        BY <4>3, <4>4, <4>5
    <3> QED
      BY <3>1 DEF StreamInv, WayOK
  <2>3. \A i \in DOMAIN faults : faults[i] \in Faults
    BY DEF StreamInv, WayOK
  <2>4. Authenticity \in Other!NotSigned..Other!Ok
    BY DEF StreamInv, IInv, SessionInv, IsSession, Authenticity, Other!NotSigned, Other!Ok
  <2>5. /\ ListOK(list) /\ received \in Nat
        /\ session.accumulated.validated \in 0..received
        /\ Arrived(list) = (session.accumulated.validated + 1)..received
    BY DEF StreamInv, SessionOK, Typed
  <2>6. Arrived(list) \subseteq 0..received
    BY <2>5
  <2>7. ASSUME NEW k \in DOMAIN list
        PROVE  /\ list[k].status \in Statuses /\ list[k].tmp \in Statuses
               /\ list[k].ifSeiOk \in Verdicts
               /\ list[k].at \in 0..received /\ list[k].sei \in 0..received
    <3> HIDE DEF list, received
    <3>1. list[k] \in SoundItems /\ list[k].sei \in {0} \cup Arrived(list)
      BY <2>5 DEF ListOK, PointsInto
    <3>2. list[k].at \in {0} \cup Arrived(list)
      BY DEF Arrived
    <3>3. 0 \in 0..received
      BY <2>5
    <3> QED
      BY <2>6, <3>1, <3>2, <3>3 DEF SoundItems, Items
  <2> QED
    BY <2>1, <2>2, <2>3, <2>4, <2>5, <2>7 DEF SidesTyped, Verdicts
<1> QED
  BY <1>1, ListStaysInOrder, PTL

-----------------------------------------------------------------------------
(* Changed NAL Units.  One that was changed on the way has another hash    *)
(* than any that a SEI says, as that are hashes of NAL Units as they were  *)
(* signed. So it never is what a SEI has hashed; the question is whether   *)
(* it can get the verdict of a SEI that it only waits for.  It is          *)
(* associated with a SEI, fails, and the verdict of that SEI may still be  *)
(* taken back, or given again, once the first validation is repeated: from *)
(* the functions on items and lists up to a call, the lemmas show that it  *)
(* stays failed, or that it is free again, as if it had never been         *)
(* associated.                                                             *)

IsFollowed(L, D, direct, also, next) ==
  /\ L \in SUBSET D
  /\ \A k \in D : k \in L <=> k \in direct \/ (k \in also /\ next[k] \in L)

(* A recursive test that follows one item after the other has a solution:  *)
(* the smallest set that is closed.                                        *)
LEMMA Reachable ==
  ASSUME NEW D, NEW direct, NEW also \in SUBSET D, NEW next \in [also -> D]
  PROVE  \E L : IsFollowed(L, D, direct, also, next)
<1> DEFINE IsClosed(X) == /\ \A k \in D \cap direct : k \in X
                          /\ \A k \in also : next[k] \in X => k \in X
           L == {k \in D : \A X \in SUBSET D : IsClosed(X) => k \in X}
           M == {k \in D : k \in direct \/ (k \in also /\ next[k] \in L)}
<1>1. IsClosed(L)
  OBVIOUS
<1>2. M \subseteq L
  BY <1>1
<1>3. IsClosed(M)
  BY <1>2
<1>4. L \subseteq M
  BY <1>3
<1>5. L \in SUBSET D
  OBVIOUS
<1>6. \A k \in D : k \in L <=> k \in direct \/ (k \in also /\ next[k] \in L)
  BY <1>2, <1>4
<1> QED
  BY <1>5, <1>6 DEF IsFollowed

-----------------------------------------------------------------------------
(* Items that were changed on the way.                                     *)

(* Signed SEIs are not covered by hashes. *)
Damaged(item) == item.at # 0 /\ ~Other!IsSigned(item) /\ item.nalu.id <= 0

(* The hashes that the signing side has calculated. *)
TrueHashes(seq) == \A i \in DOMAIN seq : seq[i].nalu > 0
TrueData(data) == TrueHashes(data.gopHash) /\ TrueHashes(data.list)

(* An item that arrived has the hash of its NAL Unit as it came; a signed  *)
(* SEI is covered by no SEI; a changed NAL Unit is not valid.              *)
HonestItem(item) ==
  /\ item.at # 0 => item.hash.nalu = item.nalu.id /\ TrueData(item.nalu.data)
  /\ Other!IsSigned(item) => item.sei = 0
  /\ Damaged(item) => item.tmp # Other!Valid /\ item.status # Other!Valid

Honest(list) == \A k \in DOMAIN list : HonestItem(list[k])

(* Its SEI is signed and was validated before. *)
Closed(list, at) ==
  \A k \in DOMAIN list :
    list[k].at = at => Other!IsSigned(list[k]) /\ list[k].tmp # Other!Pending

(* A changed item that waits for what its SEI will turn out to be has      *)
(* failed already, or its SEI tells nothing any more.                      *)
CoveredBut(list, at) ==
  \A k \in DOMAIN list :
    Damaged(list[k]) /\ list[k].tmp = Other!Pending /\ list[k].sei \notin {0, at}
      => list[k].ifSeiOk = Other!Invalid \/ Closed(list, list[k].sei)

ListCovered(list) == CoveredBut(list, 0)

(* Of the items of the SEI at, the changed ones that wait for it have      *)
(* failed already.                                                         *)
Doubted(list, at) ==
  \A k \in DOMAIN list :
    Damaged(list[k]) /\ list[k].tmp = Other!Pending /\ list[k].sei = at
      => list[k].ifSeiOk = Other!Invalid

(* The items are associated with the SEI at, or with none; with none.      *)
Near(list, at) == \A k \in DOMAIN list : list[k].sei \in {0, at}
AllFree(list) == \A k \in DOMAIN list : list[k].sei = 0

(* No item of the SEI at was judged.                                       *)
Fresh(list, at) ==
  \A k \in DOMAIN list :
    list[k].at # 0 /\ list[k].sei = at => list[k].tmp = Other!Pending

(* What becomes of an item while the SEI at is validated; if that is not   *)
(* loud the item is not judged yet.                                        *)
Stem(item, new, at, loud) ==
  /\ new.at = item.at /\ new.nalu = item.nalu /\ new.hash = item.hash
  /\ new.status = item.status
  /\ new.sei \in {item.sei, 0, at}
  /\ Other!IsSigned(item) /\ item.sei = 0 => new.sei = 0 /\ new.tmp = item.tmp
  /\ Damaged(item) /\ item.tmp # Other!Valid => new.tmp # Other!Valid
  /\ Damaged(item) /\ new.tmp = Other!Pending /\ new.sei \notin {0, at} =>
       /\ item.tmp = Other!Pending /\ new.sei = item.sei
       /\ item.ifSeiOk = Other!Invalid => new.ifSeiOk = Other!Invalid
  /\ loud \/ (new.tmp = item.tmp /\ (new.sei = at => item.sei = at \/ item.tmp = Other!Pending))

(* A list new is made of items of the list and of ones for missing NAL     *)
(* Units.                                                                  *)
IsNewcomer(new, at) == new.at = 0 /\ new.sei \in {0, at} /\ new.nalu = [kind |-> "missing"]

Comes(list, new, at, loud) ==
  IsNewcomer(new, at) \/ \E j \in DOMAIN list : Stem(list[j], new, at, loud)

Stems(list, new, at, loud) == \A k \in DOMAIN new : Comes(list, new[k], at, loud)

LEMMA SameNalu ==
  ASSUME NEW a, NEW b, a.nalu = b.nalu, a.at = b.at
  PROVE  /\ Other!IsSigned(a) <=> Other!IsSigned(b)
         /\ Damaged(a) <=> Damaged(b)
BY DEF Other!IsSigned, Other!IsSei, Damaged

LEMMA StemItself ==
  ASSUME NEW item, NEW at, NEW loud
  PROVE  Stem(item, item, at, loud)
BY DEF Stem

LEMMA StemTwice ==
  ASSUME NEW a, NEW b, NEW c, NEW at, NEW loud \in BOOLEAN,
         Stem(a, b, at, loud), Stem(b, c, at, loud)
  PROVE  Stem(a, c, at, loud)
<1>1. (Other!IsSigned(a) <=> Other!IsSigned(b)) /\ (Damaged(a) <=> Damaged(b))
  BY SameNalu DEF Stem
<1> QED
  BY <1>1 DEF Stem

LEMMA StemLoud ==
  ASSUME NEW a, NEW b, NEW at, NEW loud \in BOOLEAN, Stem(a, b, at, loud)
  PROVE  Stem(a, b, at, TRUE)
BY DEF Stem

(* What becomes of a list goes step by step.                               *)
LEMMA StemsTwice ==
  ASSUME NEW a, NEW b, NEW c, NEW at, NEW loud \in BOOLEAN,
         Stems(a, b, at, loud), Stems(b, c, at, loud)
  PROVE  Stems(a, c, at, loud)
<1>1. SUFFICES ASSUME NEW k \in DOMAIN c PROVE Comes(a, c[k], at, loud)
  BY DEF Stems
<1>2. CASE IsNewcomer(c[k], at)
  BY <1>2 DEF Comes
<1>3. CASE \E j \in DOMAIN b : Stem(b[j], c[k], at, loud)
  <2>1. PICK j \in DOMAIN b : Stem(b[j], c[k], at, loud)
    BY <1>3
  <2>2. CASE IsNewcomer(b[j], at)
    BY <2>1, <2>2 DEF Stem, IsNewcomer, Comes
  <2>3. CASE \E i \in DOMAIN a : Stem(a[i], b[j], at, loud)
    BY <2>1, <2>3, StemTwice DEF Comes
  <2> QED
    BY <2>2, <2>3 DEF Stems, Comes
<1> QED
  BY <1>2, <1>3 DEF Stems, Comes

LEMMA StemsItself ==
  ASSUME NEW list, NEW at, NEW loud
  PROVE  Stems(list, list, at, loud)
BY StemItself DEF Stems, Comes

(* What is kept while a SEI is validated. *)
LEMMA StemsKeep ==
  ASSUME NEW list, NEW new, NEW at, NEW loud \in BOOLEAN, Stems(list, new, at, loud),
         Honest(list)
  PROVE  /\ Honest(new)
         /\ CoveredBut(list, at) => CoveredBut(new, at)
         /\ Near(list, at) => Near(new, at)
         /\ ~loud /\ Fresh(list, at) => Fresh(new, at)
         /\ \A x : x # 0 /\ Closed(list, x) => Closed(new, x)
<1>1. \A k \in DOMAIN new : \/ IsNewcomer(new[k], at)
                            \/ \E j \in DOMAIN list : Stem(list[j], new[k], at, loud)
  BY DEF Stems, Comes
<1>2. \A j \in DOMAIN list : HonestItem(list[j])
  BY DEF Honest
<1>3. Honest(new)
  <2>1. SUFFICES ASSUME NEW k \in DOMAIN new PROVE HonestItem(new[k])
    BY DEF Honest
  <2>2. CASE IsNewcomer(new[k], at)
    BY <2>2 DEF IsNewcomer, HonestItem, Damaged, Other!IsSigned, Other!IsSei
  <2>3. ASSUME NEW j \in DOMAIN list, Stem(list[j], new[k], at, loud)
        PROVE  HonestItem(new[k])
    <3>1. /\ Other!IsSigned(list[j]) <=> Other!IsSigned(new[k])
          /\ Damaged(list[j]) <=> Damaged(new[k])
      BY <2>3, SameNalu DEF Stem
    <3> QED
      BY <1>2, <2>3, <3>1 DEF Stem, HonestItem
  <2> QED
    BY <1>1, <2>2, <2>3
<1>4. ASSUME NEW x, x # 0, Closed(list, x) PROVE Closed(new, x)
  <2>1. SUFFICES ASSUME NEW k \in DOMAIN new, new[k].at = x
                 PROVE  Other!IsSigned(new[k]) /\ new[k].tmp # Other!Pending
    BY DEF Closed
  <2>2. PICK j \in DOMAIN list : Stem(list[j], new[k], at, loud)
    BY <1>1, <1>4, <2>1 DEF IsNewcomer
  <2>3. Other!IsSigned(list[j]) /\ list[j].tmp # Other!Pending /\ list[j].sei = 0
    BY <1>2, <1>4, <2>1, <2>2 DEF Closed, Stem, HonestItem
  <2>4. Other!IsSigned(new[k])
    BY <2>2, <2>3, SameNalu DEF Stem
  <2> QED
    BY <2>2, <2>3, <2>4 DEF Stem
<1>5. ASSUME CoveredBut(list, at) PROVE CoveredBut(new, at)
  <2>1. SUFFICES ASSUME NEW k \in DOMAIN new, Damaged(new[k]), new[k].tmp = Other!Pending,
                        new[k].sei \notin {0, at}
                 PROVE  new[k].ifSeiOk = Other!Invalid \/ Closed(new, new[k].sei)
    BY DEF CoveredBut
  <2>2. PICK j \in DOMAIN list : Stem(list[j], new[k], at, loud)
    BY <1>1, <2>1 DEF IsNewcomer
  <2>3. Damaged(list[j])
    BY <2>1, <2>2, SameNalu DEF Stem
  <2>4. /\ list[j].tmp = Other!Pending /\ new[k].sei = list[j].sei
        /\ list[j].ifSeiOk = Other!Invalid => new[k].ifSeiOk = Other!Invalid
    BY <2>1, <2>2, <2>3 DEF Stem
  <2>5. list[j].ifSeiOk = Other!Invalid \/ Closed(list, list[j].sei)
    BY <1>5, <2>1, <2>3, <2>4 DEF CoveredBut
  <2> QED
    BY <1>4, <2>1, <2>4, <2>5
<1>6. Near(list, at) => Near(new, at)
  BY <1>1 DEF Near, IsNewcomer, Stem
<1>7. ~loud /\ Fresh(list, at) => Fresh(new, at)
  BY <1>1 DEF Fresh, IsNewcomer, Stem
<1> QED
  BY <1>3, <1>4, <1>5, <1>6, <1>7
-----------------------------------------------------------------------------
(* The items that are marked as their SEI is, and those that become valid. *)

IsReachedBy(list, sei, deep, R) ==
  \A k \in DOMAIN list :
    k \in R <=> \/ list[k].sei = sei
                \/ deep /\ list[k].sei # 0 /\ Other!PlaceOf(list, list[k].sei) \in R

AreGood(list, sei, valid, linkOk, R, G) ==
  \A k \in R :
    k \in G => /\ Other!MayBeGood(list, k, linkOk)
               /\ list[k].sei = sei => valid

MarkedItem(item, deep, verdict) ==
  IF deep
  THEN [item EXCEPT !.ifSeiOk = Other!Unset,
                    !.tmp = IF @ = Other!Pending THEN verdict ELSE @]
  ELSE [item EXCEPT !.ifSeiOk = verdict]

SeiIsUnset(list, sei) == list[Other!PlaceOf(list, sei)].ifSeiOk = Other!Unset

IsMarked(list, sei, valid, linkOk, R, G, new) ==
  /\ R \subseteq DOMAIN list
  /\ IsReachedBy(list, sei, SeiIsUnset(list, sei), R)
  /\ AreGood(list, sei, valid, linkOk, R, G)
  /\ new = [k \in DOMAIN list |->
              IF k \in R
              THEN MarkedItem(list[k], SeiIsUnset(list, sei),
                              IF k \in G THEN Other!Valid ELSE Other!Invalid)
              ELSE list[k]]

(* The items that mark_associated_sei_items() reaches.                     *)
LEMMA ReachedIs ==
  ASSUME NEW list, ListOK(list), NEW sei \in Arrived(list), NEW deep \in BOOLEAN
  PROVE  \A k \in DOMAIN list :
           LET f == Other!Reached(list, sei, deep)
           IN  /\ f[k] \in BOOLEAN
               /\ f[k] <=> \/ list[k].sei = sei
                           \/ /\ deep /\ list[k].sei # 0
                              /\ Other!PlaceOf(list, list[k].sei) \in DOMAIN list
                              /\ f[Other!PlaceOf(list, list[k].sei)]
<1> DEFINE D == DOMAIN list
           Place(k) == Other!PlaceOf(list, list[k].sei)
           direct == {k \in D : list[k].sei = sei}
           also == {k \in D : deep /\ list[k].sei # 0}
           next == [k \in also |-> Place(k)]
           Body(f, k) == \/ list[k].sei = sei
                         \/ deep /\ list[k].sei # 0 /\ Place(k) # 0 /\ f[Place(k)]
<1>1. \A k \in also : Place(k) \in D /\ Place(k) # 0
  <2> TAKE k \in also
  <2>1. list[k].sei \in Arrived(list)
    BY DEF ListOK, PointsInto
  <2> QED
    BY <2>1, PlaceIs
<1>2. next \in [also -> D] /\ also \in SUBSET D
  BY <1>1
<1> HIDE DEF Place
<1>10. PICK L : IsFollowed(L, D, direct, also, next)
  <2>1. also \in SUBSET D
    BY <1>2
  <2>2. next \in [also -> D]
    BY <1>2
  <2> HIDE DEF D, direct, also, next
  <2> QED
    BY <2>1, <2>2, Reachable
<1>3. \A k \in D : k \in L <=> k \in direct \/ (k \in also /\ next[k] \in L)
  BY <1>10 DEF IsFollowed
<1> DEFINE g == [k \in D |-> IF k \in L THEN TRUE ELSE FALSE]
<1>4. g = [k \in D |-> Body(g, k)]
  <2>1. \A k \in D : g[k] = Body(g, k)
    <3> TAKE k \in D
    <3>0. g[k] \in BOOLEAN /\ (g[k] <=> k \in L)
      OBVIOUS
    <3>1. CASE k \in also
      <4>1. Place(k) \in D /\ Place(k) # 0 /\ next[k] = Place(k)
        BY <1>1, <3>1
      <4>2. g[Place(k)] <=> Place(k) \in L
        BY <4>1
      <4>3. k \in L <=> list[k].sei = sei \/ Place(k) \in L
        BY <1>3, <3>1, <4>1
      <4> QED
        <5>1. g[k] <=> Body(g, k)
          BY <3>0, <3>1, <4>1, <4>2, <4>3
        <5> HIDE DEF g
        <5>2. Body(g, k) \in BOOLEAN
          OBVIOUS
        <5> HIDE DEF Body
        <5> QED
          BY <3>0, <5>1, <5>2
    <3>2. CASE k \notin also
      <4>1. k \in L <=> list[k].sei = sei
        BY <1>3, <3>2
      <4>2. ~(deep /\ list[k].sei # 0)
        BY <3>2
      <4> QED
        <5>1. g[k] <=> Body(g, k)
          BY <3>0, <4>1, <4>2
        <5> HIDE DEF g
        <5>2. Body(g, k) \in BOOLEAN
          OBVIOUS
        <5> HIDE DEF Body
        <5> QED
          BY <3>0, <5>1, <5>2
    <3> QED
      BY <3>1, <3>2
  <2> HIDE DEF Body
  <2> QED
    BY <2>1
<1> DEFINE f == Other!Reached(list, sei, deep)
<1>5. f = [k \in D |-> Body(f, k)]
  BY <1>4 DEF Other!Reached, Place
<1> HIDE DEF f, g
<1>6. \A k \in D : f[k] = Body(f, k)
  BY <1>5
<1>7. SUFFICES ASSUME NEW k \in D
               PROVE  /\ f[k] \in BOOLEAN
                      /\ f[k] <=> \/ list[k].sei = sei
                                  \/ /\ deep /\ list[k].sei # 0
                                     /\ Place(k) \in D /\ f[Place(k)]
  BY DEF f, Place
<1>8. f[k] = Body(f, k)
  BY <1>6
<1>9. deep /\ list[k].sei # 0 => Place(k) \in D /\ Place(k) # 0
  BY <1>1
<1> QED
  BY <1>8, <1>9

LEMMA MarkedIs ==
  ASSUME NEW list, ListOK(list), NEW sei \in Arrived(list), NEW valid \in BOOLEAN, NEW linkOk
  PROVE  \E R, G : IsMarked(list, sei, valid, linkOk, R, G,
                           Other!MarkAssociated(list, valid, linkOk, sei))
<1> DEFINE D == DOMAIN list
           Place(k) == Other!PlaceOf(list, list[k].sei)
           deep == SeiIsUnset(list, sei)
           isReached == Other!Reached(list, sei, deep)
           R == {k \in D : isReached[k]}
           May(k) == Other!MayBeGood(list, k, linkOk)
           Body(f, k) == May(k) /\ IF list[k].sei = sei THEN valid ELSE f[Place(k)]
           isGood[k \in R] == Body(isGood, k)
           G == {k \in R : isGood[k]}
           direct == {k \in R : May(k) /\ list[k].sei = sei /\ valid}
           also == {k \in R : May(k) /\ list[k].sei # sei}
           next == [k \in also |-> Place(k)]
           new == Other!MarkAssociated(list, valid, linkOk, sei)
<1>1. new = [k \in D |-> IF isReached[k]
                        THEN MarkedItem(list[k], deep,
                                        IF isGood[k] THEN Other!Valid ELSE Other!Invalid)
                        ELSE list[k]]
  BY DEF Other!MarkAssociated, SeiIsUnset, MarkedItem
<1>2. deep \in BOOLEAN
  BY DEF SeiIsUnset
<1>3. \A k \in D : /\ isReached[k] \in BOOLEAN
                   /\ isReached[k] <=> \/ list[k].sei = sei
                                       \/ /\ deep /\ list[k].sei # 0
                                          /\ Place(k) \in D /\ isReached[Place(k)]
  <2> HIDE DEF deep
  <2> QED
    BY <1>2, ReachedIs
<1> HIDE DEF isReached, Place, new, deep, May
<1>4. \A k \in also : Place(k) \in R
  BY <1>3
<1>5. next \in [also -> R] /\ also \in SUBSET R
  BY <1>4
<1> HIDE DEF R
<1>6. PICK L : IsFollowed(L, R, direct, also, next)
  <2>1. next \in [also -> R]
    BY <1>5
  <2>2. also \in SUBSET R
    BY <1>5
  <2> HIDE DEF direct, also, next
  <2> QED
    BY <2>1, <2>2, Reachable
<1>7. \A k \in R : k \in L <=> k \in direct \/ (k \in also /\ next[k] \in L)
  BY <1>6 DEF IsFollowed
<1> DEFINE g == [k \in R |-> IF k \in L THEN TRUE ELSE FALSE]
<1>8. g = [k \in R |-> Body(g, k)]
  <2>1. \A k \in R : g[k] = Body(g, k)
    <3> TAKE k \in R
    <3>1. g[k] \in BOOLEAN /\ (g[k] <=> k \in L)
      OBVIOUS
    <3>2. k \in also => Place(k) \in R /\ next[k] = Place(k)
      BY <1>4
    <3>3. k \in also => (g[Place(k)] <=> next[k] \in L)
      BY <3>2
    <3>4. k \in L <=> k \in direct \/ (k \in also /\ next[k] \in L)
      BY <1>7
    <3>7. /\ k \in direct <=> May(k) /\ list[k].sei = sei /\ valid
          /\ k \in also <=> May(k) /\ list[k].sei # sei
      OBVIOUS
    <3> HIDE DEF g, also, direct, next
    <3>5. g[k] <=> Body(g, k)
      BY <3>1, <3>3, <3>4, <3>7
    <3>6. Body(g, k) \in BOOLEAN
      OBVIOUS
    <3> HIDE DEF Body
    <3> QED
      BY <3>1, <3>5, <3>6
  <2> HIDE DEF Body
  <2> QED
    BY <2>1
<1> HIDE DEF g
<1>9. isGood = [k \in R |-> Body(isGood, k)]
  BY <1>8
<1> HIDE DEF isGood
<1>10. \A k \in R : isGood[k] = Body(isGood, k)
  BY <1>9
<1>11. \A k \in R : k \in G => May(k) /\ (list[k].sei = sei => valid)
  BY <1>10
<1>12. AreGood(list, sei, valid, linkOk, R, G)
  BY <1>11 DEF AreGood, May
<1>13. IsReachedBy(list, sei, deep, R)
  <2>1. \A k : k \in R <=> k \in D /\ isReached[k]
    BY DEF R
  <2>2. \A k \in D : k \in R <=> \/ list[k].sei = sei
                                 \/ deep /\ list[k].sei # 0 /\ Place(k) \in R
    <3> TAKE k \in D
    <3>1. k \in R <=> isReached[k]
      BY <2>1
    <3>2. isReached[k] <=> \/ list[k].sei = sei
                           \/ /\ deep /\ list[k].sei # 0
                              /\ Place(k) \in D /\ isReached[Place(k)]
      BY <1>3
    <3>3. Place(k) \in R <=> Place(k) \in D /\ isReached[Place(k)]
      BY <2>1
    <3> QED
      BY <3>1, <3>2, <3>3
  <2> QED
    BY <2>2 DEF IsReachedBy, Place
<1>14. /\ R \subseteq D
       /\ \A k \in D : k \in R <=> isReached[k]
       /\ \A k \in R : k \in G <=> isGood[k]
  BY DEF R
<1>15. new = [k \in D |-> IF k \in R
                         THEN MarkedItem(list[k], deep,
                                         IF k \in G THEN Other!Valid ELSE Other!Invalid)
                         ELSE list[k]]
  <2> HIDE DEF G
  <2> QED
    BY <1>1, <1>14
<1> HIDE DEF G
<1>16. IsMarked(list, sei, valid, linkOk, R, G, new)
  BY <1>12, <1>13, <1>14, <1>15 DEF IsMarked, deep
<1> QED
  BY <1>16 DEF new

LEMMA MarkedItemIs ==
  ASSUME NEW item \in SoundItems, NEW deep \in BOOLEAN,
         NEW verdict \in {Other!Valid, Other!Invalid}
  PROVE  LET new == MarkedItem(item, deep, verdict)
         IN  /\ new.at = item.at /\ new.nalu = item.nalu /\ new.hash = item.hash
             /\ new.status = item.status /\ new.sei = item.sei
             /\ new.tmp = IF deep /\ item.tmp = Other!Pending THEN verdict ELSE item.tmp
             /\ new.ifSeiOk = IF deep THEN Other!Unset ELSE verdict
<1>1. item \in Items
  BY DEF SoundItems
<1> QED
  BY ONLY <1>1, deep \in BOOLEAN DEF Items, MarkedItem

(* Marked items: what failed does not become valid. *)
LEMMA MarkingStems ==
  ASSUME NEW list, ListOK(list), Honest(list), NEW sei \in Arrived(list),
         CoveredBut(list, sei), NEW valid \in BOOLEAN, NEW linkOk,
         valid => Doubted(list, sei)
  PROVE  LET new == Other!MarkAssociated(list, valid, linkOk, sei)
         IN  /\ DOMAIN new = DOMAIN list
             /\ \A k \in DOMAIN list : \A at :
                  Stem(list[k], new[k], at, SeiIsUnset(list, sei))
             /\ Doubted(new, sei)
<1> DEFINE new == Other!MarkAssociated(list, valid, linkOk, sei)
           deep == SeiIsUnset(list, sei)
<1>1. PICK R, G : IsMarked(list, sei, valid, linkOk, R, G, new)
  BY MarkedIs
<1> HIDE DEF new
<1> DEFINE Verdict(k) == IF k \in G THEN Other!Valid ELSE Other!Invalid
<1>2. /\ R \subseteq DOMAIN list
      /\ \A k \in DOMAIN list :
           k \in R <=> \/ list[k].sei = sei
                       \/ deep /\ list[k].sei # 0 /\ Other!PlaceOf(list, list[k].sei) \in R
      /\ AreGood(list, sei, valid, linkOk, R, G)
      /\ new = [k \in DOMAIN list |->
                  IF k \in R THEN MarkedItem(list[k], deep, Verdict(k)) ELSE list[k]]
  BY <1>1 DEF IsMarked, IsReachedBy
<1>15. /\ AreGood(list, sei, valid, linkOk, R, G)
       /\ \A k \in DOMAIN list : list[k].sei = sei => k \in R
  BY <1>2
<1>3. deep \in BOOLEAN
  BY DEF SeiIsUnset
<1>4. sei # 0
  BY DEF Arrived
<1>5. \A k \in DOMAIN list : list[k] \in SoundItems /\ HonestItem(list[k])
  BY SeqFacts DEF ListOK, Honest
<1> HIDE DEF deep
(* A signed SEI is covered by none, and what it covered alone is left.     *)
<1>6. \A k \in R : Other!IsSigned(list[k]) => FALSE
  BY <1>2, <1>4, <1>5 DEF HonestItem
<1>7. ASSUME NEW k \in R, Damaged(list[k]), list[k].tmp = Other!Pending, k \in G
      PROVE  FALSE
  <2>1. Other!MayBeGood(list, k, linkOk) /\ (list[k].sei = sei => valid)
    BY <1>7, <1>15 DEF AreGood
  <2>2. list[k].ifSeiOk # Other!Invalid
    BY <2>1 DEF Other!MayBeGood
  <2>3. CASE list[k].sei = sei
    BY <1>2, <1>7, <2>1, <2>2, <2>3 DEF Doubted
  <2>4. CASE list[k].sei # sei
    <3> DEFINE q == Other!PlaceOf(list, list[k].sei)
    <3>1. list[k].sei # 0 /\ q \in R
      BY <1>2, <2>4
    <3>2. Closed(list, list[k].sei)
      BY <1>2, <1>7, <2>2, <2>4, <3>1 DEF CoveredBut
    <3>3. q \in DOMAIN list /\ list[q].at = list[k].sei
      <4>1. list[k].sei \in Arrived(list)
        BY <1>2, <3>1 DEF ListOK, PointsInto
      <4> QED
        BY <4>1, PlaceIs
    <3>4. Other!IsSigned(list[q])
      BY <3>2, <3>3 DEF Closed
    <3> QED
      BY <1>6, <3>1, <3>4
  <2> QED
    BY <2>3, <2>4
<1>8. \A k : Verdict(k) \in {Other!Valid, Other!Invalid}
  OBVIOUS
<1>9. \A k \in R : Damaged(list[k]) /\ list[k].tmp = Other!Pending => Verdict(k) = Other!Invalid
  BY <1>7
<1>10. DOMAIN new = DOMAIN list
  BY <1>2
<1>11. \A k \in R :
         /\ new[k].at = list[k].at /\ new[k].nalu = list[k].nalu
         /\ new[k].hash = list[k].hash /\ new[k].status = list[k].status
         /\ new[k].sei = list[k].sei
         /\ new[k].tmp = IF deep /\ list[k].tmp = Other!Pending THEN Verdict(k) ELSE list[k].tmp
         /\ new[k].ifSeiOk = IF deep THEN Other!Unset ELSE Verdict(k)
  <2> TAKE k \in R
  <2>1. new[k] = MarkedItem(list[k], deep, Verdict(k)) /\ list[k] \in SoundItems
    BY <1>2, <1>5
  <2> DEFINE verdict == Verdict(k)
  <2>2. verdict \in {Other!Valid, Other!Invalid}
    BY <1>8
  <2> HIDE DEF verdict
  <2>3. MarkedItem(list[k], deep, verdict) = new[k]
    BY <2>1 DEF verdict
  <2> QED
    BY <1>3, <2>1, <2>2, <2>3, MarkedItemIs DEF verdict
<1>12. \A k \in DOMAIN list : k \notin R => new[k] = list[k]
  BY <1>2
<1> HIDE DEF Verdict
<1>13. ASSUME NEW k \in DOMAIN list, NEW at
       PROVE  Stem(list[k], new[k], at, deep)
  <2>1. CASE k \notin R
    BY <1>12, <2>1, StemItself
  <2>2. CASE k \in R
    <3>1. ~Other!IsSigned(list[k])
      BY <1>6, <2>2
    <3>2. Damaged(list[k]) /\ list[k].tmp # Other!Valid => new[k].tmp # Other!Valid
      <4>1. Other!Invalid # Other!Valid
        BY Characters
      <4> QED
        BY <1>9, <1>11, <2>2, <4>1
    <3>3. new[k].tmp = Other!Pending => ~deep \/ FALSE
      <4>1. Other!Invalid # Other!Pending /\ Other!Valid # Other!Pending
        BY Characters
      <4> QED
        BY <1>8, <1>11, <2>2, <4>1 DEF Verdict
    <3>4. Damaged(list[k]) /\ new[k].tmp = Other!Pending =>
            /\ list[k].tmp = Other!Pending
            /\ list[k].ifSeiOk = Other!Invalid => new[k].ifSeiOk = Other!Invalid
      BY <1>9, <1>11, <2>2, <3>3
    <3>5. deep \/ (new[k].tmp = list[k].tmp /\ new[k].sei = list[k].sei)
      BY <1>11, <2>2
    <3> QED
      BY <1>11, <2>2, <3>1, <3>2, <3>4, <3>5 DEF Stem
  <2> QED
    BY <2>1, <2>2
<1>14. Doubted(new, sei)
  <2>1. SUFFICES ASSUME NEW k \in DOMAIN list, Damaged(new[k]), new[k].tmp = Other!Pending,
                        new[k].sei = sei
                 PROVE  new[k].ifSeiOk = Other!Invalid
    BY <1>10 DEF Doubted
  <2>2. k \in R
    BY <1>12, <1>15, <2>1
  <2>3. Damaged(list[k])
    BY <1>11, <2>1, <2>2, SameNalu
  <2>4. Other!Invalid # Other!Pending /\ Other!Valid # Other!Pending
    BY Characters
  <2>5. ~deep /\ list[k].tmp = Other!Pending
    BY <1>8, <1>11, <2>1, <2>2, <2>4 DEF Verdict
  <2> QED
    BY <1>9, <1>11, <2>2, <2>3, <2>5
<1> QED
  BY <1>10, <1>13, <1>14 DEF new, deep

-----------------------------------------------------------------------------
(* Items are left out of the list, and others put in that stand for        *)
(* missing NAL Units.                                                      *)

(* The SEI was judged, but is not signed. *)
Open(list, at) == \A k \in DOMAIN list : list[k].at = at => list[k].ifSeiOk # Other!Unset

Members(list) == {list[j] : j \in DOMAIN list}

FromList(list, new, sei) ==
  \A k \in DOMAIN new : new[k] \in Members(list) \cup {Other!MissingItem(sei)}

(* Items that are moved, and ones that stand for missing NAL Units.        *)
LEMMA FromListStems ==
  ASSUME NEW list, NEW new, NEW sei, sei # 0, FromList(list, new, sei)
  PROVE  /\ Stems(list, new, sei, FALSE)
         /\ Doubted(list, sei) => Doubted(new, sei)
         /\ Open(list, sei) => Open(new, sei)
<1> DEFINE missing == Other!MissingItem(sei)
<1>1. IsNewcomer(missing, sei) /\ missing.at = 0
  BY DEF Other!MissingItem, IsNewcomer
<1> HIDE DEF missing
<1>2. \A k \in DOMAIN new : new[k] = missing \/ \E j \in DOMAIN list : new[k] = list[j]
  BY DEF FromList, Members, missing
<1>3. Stems(list, new, sei, FALSE)
  BY <1>1, <1>2, StemItself DEF Stems, Comes
<1>4. Doubted(list, sei) => Doubted(new, sei)
  BY <1>1, <1>2 DEF Doubted, Damaged
<1>5. Open(list, sei) => Open(new, sei)
  BY <1>1, <1>2 DEF Open
<1> QED
  BY <1>3, <1>4, <1>5

LEMMA AddMissingFrom ==
  ASSUME NEW list \in Seq(SoundItems), NEW num \in Int, NEW sei
  PROVE  FromList(list, Other!AddMissingAtEnd(list, num, sei), sei)
<1> DEFINE ends == {k \in 2..Len(list) : list[k - 1].sei = sei /\ list[k].sei # sei}
           k == CHOOSE k \in ends : \A j \in ends : k <= j
           T == Members(list) \cup {Other!MissingItem(sei)}
           new == Other!AddMissingAtEnd(list, num, sei)
<1>1. Len(list) \in Nat /\ DOMAIN list = 1..Len(list) /\ \A j \in DOMAIN list : list[j] \in T
  BY DEF Members
<1>2. list \in Seq(T)
  <2>1. list = [j \in 1..Len(list) |-> list[j]] /\ \A j \in 1..Len(list) : list[j] \in T
    BY <1>1
  <2> HIDE DEF T
  <2> QED
    BY <1>1, <2>1, FunctionIsSeq
<1>3. CASE num <= 0 \/ ends = {}
  <2>1. new = list
    BY <1>3 DEF Other!AddMissingAtEnd
  <2> QED
    BY <1>1, <2>1 DEF FromList
<1>4. CASE ~(num <= 0 \/ ends = {})
  <2>1. new = Other!AddMissing(list, num, k, sei)
    BY <1>4 DEF Other!AddMissingAtEnd
  <2>2. k \in ends
    <3>1. \E m \in ends : \A j \in ends : m <= j
      <4>1. ends \subseteq Nat /\ ends # {}
        BY <1>1, <1>4
      <4> HIDE DEF ends
      <4> QED
        BY <4>1, LeastExists
    <3> QED
      BY <3>1
  <2> HIDE DEF k
  <2>3. k \in 1..Len(list)
    BY <1>1, <2>2
  <2> DEFINE a == SubSeq(list, 1, k - 1)
             b == SubSeq(list, k, Len(list))
             run == [i \in 1..num |-> Other!MissingItem(sei)]
  <2>4. a \in Seq(T) /\ b \in Seq(T)
    <3> HIDE DEF T
    <3> QED
      BY <1>1, <1>2, <2>3
  <2>5. run \in Seq(T)
    <3>1. num \in Nat /\ Other!MissingItem(sei) \in T
      BY <1>4
    <3> DEFINE item == Other!MissingItem(sei)
    <3>2. item \in T
      BY <3>1
    <3> HIDE DEF T, item
    <3>3. [i \in 1..num |-> item] \in Seq(T)
      BY <3>1, <3>2
    <3> QED
      BY <3>3 DEF item
  <2> HIDE DEF a, b, run, T
  <2>6. a \o run \o b \in Seq(T)
    BY <2>4, <2>5
  <2>7. new = a \o run \o b
    BY <2>1 DEF Other!AddMissing, a, b, run
  <2> HIDE DEF new
  <2>8. \A i \in DOMAIN new : new[i] \in T
    BY <2>6, <2>7
  <2> QED
    BY <2>8 DEF FromList, T, new
<1> QED
  BY <1>3, <1>4

(* What a SEI is not associated with any more waits for no SEI.            *)
LEMMA RemoveAssociationStems ==
  ASSUME NEW list, ListOK(list), NEW sei, NEW at, at # 0
  PROVE  LET new == Other!RemoveAssociation(list, sei)
         IN  /\ Stems(list, new, at, FALSE)
             /\ sei # 0 => \A k \in DOMAIN new : new[k].sei # sei
             /\ Doubted(list, at) => Doubted(new, at)
<1> DEFINE IsOf(item) == sei # 0 /\ item.sei = sei
           S == {k \in DOMAIN list : ~(IsOf(list[k]) /\ list[k].tmp = Other!Missing)}
           kept == Other!InOrder(S)
           c == Cardinality(S)
           Freed(item) == [item EXCEPT !.sei = 0, !.ifSeiOk = Other!Unset]
           new == Other!RemoveAssociation(list, sei)
<1>1. /\ list \in Seq(SoundItems) /\ Len(list) \in Nat /\ DOMAIN list = 1..Len(list)
  BY SeqFacts DEF ListOK
<1>2. new = [i \in DOMAIN kept |-> IF IsOf(list[kept[i]]) THEN Freed(list[kept[i]])
                                   ELSE list[kept[i]]]
  BY DEF Other!RemoveAssociation
<1>3. S \subseteq DOMAIN list
  OBVIOUS
<1> HIDE DEF S, new
<1>4. c \in Nat /\ kept \in [1..c -> S]
  BY <1>1, <1>3, InOrderIs
<1> HIDE DEF kept, c
<1>5. \A i \in DOMAIN new :
        \E j \in DOMAIN list : new[i] = IF IsOf(list[j]) THEN Freed(list[j]) ELSE list[j]
  BY <1>2, <1>3, <1>4
<1>6. ASSUME NEW item \in SoundItems
      PROVE  /\ Freed(item).at = item.at /\ Freed(item).nalu = item.nalu
             /\ Freed(item).hash = item.hash /\ Freed(item).status = item.status
             /\ Freed(item).sei = 0 /\ Freed(item).tmp = item.tmp
  <2>1. item \in Items
    BY DEF SoundItems
  <2> QED
    BY ONLY <2>1 DEF Items
<1> HIDE DEF Freed
<1>7. \A j \in DOMAIN list : list[j] \in SoundItems
  BY <1>1
<1>8. \A j \in DOMAIN list : Stem(list[j], Freed(list[j]), at, FALSE)
  BY <1>6, <1>7 DEF Stem
<1>9. Stems(list, new, at, FALSE)
  BY <1>5, <1>8, StemItself DEF Stems, Comes
<1>10. sei # 0 => \A k \in DOMAIN new : new[k].sei # sei
  BY <1>5, <1>6, <1>7
<1>11. Doubted(list, at) => Doubted(new, at)
  <2>1. \A k \in DOMAIN new : new[k].sei = at => \E j \in DOMAIN list : new[k] = list[j]
    BY <1>5, <1>6, <1>7
  <2> QED
    BY <2>1 DEF Doubted
<1> QED
  BY <1>9, <1>10, <1>11 DEF new

-----------------------------------------------------------------------------
(* Items become associated with a SEI.                                     *)

(* Only what waits for no SEI becomes associated with one.                 *)
LEMMA AssociateStems ==
  ASSUME NEW s, HasFields(s, Fields), s.list \in Seq(SoundItems), NEW at, NEW places,
         \A k \in places : k \in DOMAIN s.list /\ Other!Unassociated(s.list[k])
                             /\ ~Other!IsSigned(s.list[k])
  PROVE  LET new == Other!Associate(s, places, at).list
         IN  /\ DOMAIN new = DOMAIN s.list
             /\ Stems(s.list, new, at, FALSE)
             /\ Open(s.list, at) => Open(new, at)
             /\ \A k \in DOMAIN new : k \notin places => new[k] = s.list[k]
             /\ \A k \in DOMAIN new : Damaged(new[k]) <=> Damaged(s.list[k])
<1> DEFINE list == s.list
           new == Other!Associate(s, places, at).list
           Put(item) == [item EXCEPT !.sei = at]
<1>1. new = [k \in DOMAIN list |-> IF k \in places THEN Put(list[k]) ELSE list[k]]
  BY FieldsAre DEF HasFields, Other!Associate
<1>2. \A k \in DOMAIN list : list[k] \in SoundItems
  BY SeqFacts
<1> HIDE DEF new
<1>3. ASSUME NEW item \in SoundItems
      PROVE  /\ Put(item).at = item.at /\ Put(item).nalu = item.nalu
             /\ Put(item).hash = item.hash /\ Put(item).status = item.status
             /\ Put(item).sei = at /\ Put(item).tmp = item.tmp
             /\ Put(item).ifSeiOk = item.ifSeiOk
  <2>1. item \in Items
    BY DEF SoundItems
  <2> QED
    BY ONLY <2>1 DEF Items
<1> HIDE DEF Put
<1>4. \A k \in places : Stem(list[k], Put(list[k]), at, FALSE)
  BY <1>2, <1>3 DEF Stem, Other!Unassociated
<1>5. DOMAIN new = DOMAIN list
  BY <1>1
<1>6. Stems(list, new, at, FALSE)
  BY <1>1, <1>4, StemItself DEF Stems, Comes
<1>7. Open(list, at) => Open(new, at)
  BY <1>1, <1>2, <1>3 DEF Open
<1>8. \A k \in DOMAIN new : Damaged(new[k]) <=> Damaged(list[k])
  BY <1>1, <1>2, <1>3, SameNalu
<1> QED
  BY <1>1, <1>5, <1>6, <1>7, <1>8 DEF new

(* If the hashes of the GOP are all true, none of its items is a changed   *)
(* one.                                                                    *)
LEMMA ComputeGopHashStems ==
  ASSUME NEW s, Typed(s), Honest(s.list), NEW place, SeiAt(s.list, place),
         Doubted(s.list, s.list[place].at)
  PROVE  LET at == s.list[place].at
             t == Other!ComputeGopHash(s, place)
         IN  /\ Stems(s.list, t.list, at, FALSE)
             /\ Open(s.list, at) => Open(t.list, at)
             /\ TrueHashes(t.gopHash) => Doubted(t.list, at)
             /\ t.data = s.data
<1> DEFINE at == s.list[place].at
           none == [s EXCEPT !.numNalus = 0]
           before == {k \in Other!Candidates(s.list) : k < place}
           ofGop == {k \in before :
                       \A j \in before : j <= k /\ Other!IsFirstInGop(s.list[j])
                                           => \A i \in before : i >= j}
           places == IF s.data.triggered THEN Other!Oldest(ofGop, s.data.numNalus) ELSE ofGop
           ordered == Other!InOrder(places)
           gopHash == [i \in DOMAIN ordered |-> s.list[ordered[i]].hash]
           associated == Other!Associate(none, places, at)
           t == Other!ComputeGopHash(s, place)
<1>1. t = [associated EXCEPT !.gopHash = gopHash]
  BY DEF Other!ComputeGopHash
<1>2. /\ HasFields(s, Fields) /\ ListOK(s.list) /\ s.list \in Seq(SoundItems)
      /\ Len(s.list) \in Nat /\ DOMAIN s.list = 1..Len(s.list)
  BY SeqFacts DEF Typed, ListOK
<1>3. HasFields(none, Fields) /\ none.list = s.list /\ none.data = s.data
  BY ONLY <1>2, FieldsAre DEF HasFields
<1> HIDE DEF none
<1>4. before \subseteq Other!Candidates(s.list)
  OBVIOUS
<1> HIDE DEF before
<1>5. places \subseteq before
  BY DEF Other!Oldest
<1> HIDE DEF places
<1>6. \A k \in places : k \in DOMAIN s.list /\ Other!Unassociated(s.list[k])
                          /\ ~Other!IsSigned(s.list[k])
  BY <1>4, <1>5 DEF Other!Candidates
<1>7. /\ HasFields(associated, Fields) /\ associated.data = s.data
  BY <1>3, FieldsAre DEF HasFields, Other!Associate
<1>8. /\ DOMAIN associated.list = DOMAIN s.list
      /\ Stems(s.list, associated.list, at, FALSE)
      /\ Open(s.list, at) => Open(associated.list, at)
      /\ \A k \in DOMAIN s.list : k \notin places => associated.list[k] = s.list[k]
      /\ \A k \in DOMAIN s.list : Damaged(associated.list[k]) <=> Damaged(s.list[k])
  <2>1. none.list \in Seq(SoundItems)
    BY <1>2, <1>3
  <2>2. \A k \in places : k \in DOMAIN none.list /\ Other!Unassociated(none.list[k])
                            /\ ~Other!IsSigned(none.list[k])
    BY <1>3, <1>6
  <2> HIDE DEF at
  <2> DEFINE new == Other!Associate(none, places, at).list
             old == none.list
  <2>3. /\ DOMAIN new = DOMAIN old
        /\ Stems(old, new, at, FALSE)
        /\ Open(old, at) => Open(new, at)
        /\ \A k \in DOMAIN new : k \notin places => new[k] = old[k]
        /\ \A k \in DOMAIN new : Damaged(new[k]) <=> Damaged(old[k])
    BY <1>3, <2>1, <2>2, AssociateStems, Zenon
  <2>4. old = s.list /\ new = associated.list
    BY <1>3
  <2> HIDE DEF new, old, associated
  <2> QED
    BY <2>3, <2>4
<1> HIDE DEF associated
<1>9. t.list = associated.list /\ t.data = s.data /\ t.gopHash = gopHash
  BY <1>1, <1>7, FieldsAre DEF HasFields
<1> HIDE DEF t
<1>10. ASSUME TrueHashes(gopHash), NEW k \in places
       PROVE  ~Damaged(s.list[k])
  <2>1. places \subseteq 1..Len(s.list)
    BY <1>2, <1>6
  <2>2. ordered \in [1..Cardinality(places) -> places]
        /\ \E i \in 1..Cardinality(places) : ordered[i] = k
    BY <1>2, <2>1, InOrderIs
  <2> HIDE DEF ordered
  <2>3. PICK i \in 1..Cardinality(places) : ordered[i] = k
    BY <2>2
  <2>4. i \in DOMAIN gopHash /\ gopHash[i] = s.list[k].hash
    BY <2>2, <2>3
  <2>5. s.list[k].hash.nalu > 0
    BY <1>10, <2>4 DEF TrueHashes
  <2>6. HonestItem(s.list[k]) /\ s.list[k] \in SoundItems
    BY <1>2, <1>6 DEF Honest
  <2>7. s.list[k].at # 0 => s.list[k].nalu.id > 0 /\ s.list[k].nalu.id \in Int
    BY <2>5, <2>6, ItemTyped DEF HonestItem, Nalus
  <2> QED
    BY <2>7 DEF Damaged
<1> HIDE DEF gopHash
<1>11. ASSUME TrueHashes(gopHash) PROVE Doubted(associated.list, at)
  BY <1>8, <1>10, <1>11 DEF Doubted
<1> QED
  BY <1>8, <1>9, <1>11 DEF t

LEMMA AssociateGopStems ==
  ASSUME NEW s, Typed(s), NEW place, SeiAt(s.list, place)
  PROVE  LET at == s.list[place].at
             t == Other!AssociateGop(s, place)
         IN  Stems(s.list, t.list, at, FALSE) /\ t.data = s.data
<1> DEFINE at == s.list[place].at
           t == Other!AssociateGop(s, place)
           free == {k \in 1..(place - 1) : Other!Unassociated(s.list[k])
                                              /\ ~Other!IsSigned(s.list[k])}
<1>1. \/ t = s
      \/ \E places : /\ places \subseteq free
                     /\ t = Other!Associate(s, places, at)
  BY DEF Other!AssociateGop
<1>2. /\ HasFields(s, Fields) /\ s.list \in Seq(SoundItems) /\ Len(s.list) \in Nat
      /\ DOMAIN s.list = 1..Len(s.list) /\ place \in DOMAIN s.list
  BY SeqFacts DEF Typed, ListOK, SeiAt
<1>3. \A k \in free : k \in DOMAIN s.list /\ Other!Unassociated(s.list[k])
                        /\ ~Other!IsSigned(s.list[k])
  BY <1>2
<1> HIDE DEF free, t, at
<1>4. CASE t = s
  BY <1>4, StemsItself DEF t, at
<1>5. ASSUME NEW places, places \subseteq free, t = Other!Associate(s, places, at)
      PROVE  Stems(s.list, t.list, at, FALSE) /\ t.data = s.data
  <2>1. t.data = s.data
    BY <1>2, <1>5, FieldsAre DEF HasFields, Other!Associate
  <2>2. \A k \in places : k \in DOMAIN s.list /\ Other!Unassociated(s.list[k])
                        /\ ~Other!IsSigned(s.list[k])
    BY <1>3, <1>5
  <2> QED
    BY <1>2, <1>5, <2>1, <2>2, AssociateStems
<1> QED
  BY <1>1, <1>4, <1>5 DEF t, at

-----------------------------------------------------------------------------
(* Hashes that are verified one after the other.                           *)

(* The hash that is found in a list of a SEI is the hash that was looked   *)
(* for.                                                                    *)
LEMMA MatchFinds ==
  ASSUME NEW expected \in Seq(Hash), NEW latest, NEW hash,
         Other!Match(expected, latest, hash) # 0
  PROVE  LET c == Other!Match(expected, latest, hash)
         IN  c \in DOMAIN expected /\ expected[c] = hash
<1> DEFINE places == {c \in DOMAIN expected : c > latest /\ expected[c] = hash}
<1>1. places # {}
  BY DEF Other!Match
<1>2. places \subseteq Nat
  OBVIOUS
<1>3. \E c \in places : \A d \in places : c <= d
  <2> HIDE DEF places
  <2> QED
    BY <1>1, <1>2, LeastExists
<1>4. Other!Match(expected, latest, hash) \in places
  BY <1>1, <1>3 DEF Other!Match
<1> QED
  BY <1>4

DoubtedItem(item, at) ==
  Damaged(item) /\ item.tmp = Other!Pending /\ item.sei = at => item.ifSeiOk = Other!Invalid

Grown(item, new, at, loud) == Stem(item, new, at, loud) /\ DoubtedItem(new, at)

(* What the verdict on a hash does. *)
LEMMA VerdictGrows ==
  ASSUME NEW item \in SoundItems, ~Other!IsSigned(item), NEW at, item.sei = at,
         NEW tmp \in SeiStatuses, Damaged(item) => tmp = Other!Invalid
  PROVE  Grown(item, [item EXCEPT !.tmp = tmp], at, TRUE)
<1> DEFINE new == [item EXCEPT !.tmp = tmp]
<1>1. item \in Items /\ tmp \in Statuses
  BY DEF SoundItems, SeiStatuses, Statuses
<1>2. /\ new.at = item.at /\ new.nalu = item.nalu /\ new.hash = item.hash
      /\ new.status = item.status /\ new.sei = item.sei /\ new.tmp = tmp
  BY ONLY <1>1 DEF Items
<1> HIDE DEF new
<1>3. Other!Invalid # Other!Valid /\ Other!Invalid # Other!Pending
  BY Characters
<1>4. (Damaged(new) <=> Damaged(item))
  BY <1>2, SameNalu
<1> QED
  BY <1>2, <1>3, <1>4 DEF Grown, Stem, DoubtedItem, new

LEMMA DoubtGrows ==
  ASSUME NEW item \in SoundItems, ~Other!IsSigned(item), NEW at, item.sei = at,
         NEW verdict, Damaged(item) => verdict = Other!Invalid
  PROVE  Grown(item, [item EXCEPT !.ifSeiOk = verdict], at, FALSE)
<1> DEFINE new == [item EXCEPT !.ifSeiOk = verdict]
<1>1. item \in Items
  BY DEF SoundItems
<1>2. /\ new.at = item.at /\ new.nalu = item.nalu /\ new.hash = item.hash
      /\ new.status = item.status /\ new.sei = item.sei /\ new.tmp = item.tmp
      /\ new.ifSeiOk = verdict
  BY ONLY <1>1 DEF Items
<1> HIDE DEF new
<1>4. (Damaged(new) <=> Damaged(item))
  BY <1>2, SameNalu
<1> QED
  BY <1>2, <1>4 DEF Grown, Stem, DoubtedItem, new

LEMMA LeavingGrows ==
  ASSUME NEW item \in SoundItems, NEW at, at # 0
  PROVE  Grown(item, [item EXCEPT !.sei = 0], at, FALSE)
<1> DEFINE new == [item EXCEPT !.sei = 0]
<1>1. item \in Items
  BY DEF SoundItems
<1>2. /\ new.at = item.at /\ new.nalu = item.nalu /\ new.hash = item.hash
      /\ new.status = item.status /\ new.sei = 0 /\ new.tmp = item.tmp
  BY ONLY <1>1 DEF Items
<1> HIDE DEF new
<1> QED
  BY <1>2 DEF Grown, Stem, DoubtedItem, new

LEMMA GrownLoud ==
  ASSUME NEW a, NEW b, NEW at, NEW loud \in BOOLEAN, Grown(a, b, at, FALSE)
  PROVE  Grown(a, b, at, loud)
BY DEF Grown, Stem

(* A changed NAL Unit has a hash that the list of the SEI does not have.   *)
LEMMA VerifyItemGrows ==
  ASSUME NEW s, s.data.list \in Seq(Hash), TrueHashes(s.data.list),
         NEW sei \in SoundItems, sei.tmp \in SeiStatuses, sei.at # 0,
         NEW acc \in Progress, NEW item \in SoundItems, HonestItem(item)
  PROVE  LET new == Other!VerifyItem(s, sei, acc, item)
         IN  \E x : /\ Grown(item, x, sei.at, Other!IsSigned(sei))
                    /\ IsLonger(acc.list, sei.at, x, new.list)
<1> DEFINE new == Other!VerifyItem(s, sei, acc, item)
           match == Other!Match(s.data.list, acc.latest, item.hash)
           missing == match - acc.latest - 1 - acc.invalid
           run == MissingItems(missing, sei.at)
           Verdict(ok) ==
             IF Other!IsSigned(sei)
             THEN [item EXCEPT !.tmp = IF ok THEN sei.tmp ELSE Other!Invalid]
             ELSE [item EXCEPT !.ifSeiOk = IF ok THEN sei.ifSeiOk ELSE Other!Invalid]
           freed == [item EXCEPT !.sei = 0]
           signed == Other!IsSigned(sei)
           IsNew(x) == Grown(item, x, sei.at, signed) /\ IsLonger(acc.list, sei.at, x, new.list)
<1>1. missing \in Int
  <2>1. match \in Nat
    BY MatchIs
  <2>2. acc.latest \in Int /\ acc.invalid \in Int
    BY DEF Progress
  <2> HIDE DEF match
  <2> QED
    BY <2>1, <2>2
<1>2. match # 0 => ~Damaged(item)
  <2>1. ASSUME match # 0, item.at # 0 PROVE item.nalu.id > 0 /\ item.nalu.id \in Int
    <3>1. match \in DOMAIN s.data.list /\ s.data.list[match] = item.hash
      BY <2>1, MatchFinds
    <3>2. item.hash.nalu > 0
      BY <3>1 DEF TrueHashes
    <3> QED
      BY <2>1, <3>2, ItemTyped DEF HonestItem, Nalus
  <2> HIDE DEF match
  <2> QED
    BY <2>1 DEF Damaged
<1>3. signed \in BOOLEAN
  <2>1. sei.at # 0 => sei.nalu.data.signed \in BOOLEAN
    BY ItemTyped DEF Nalus, SeiData
  <2> QED
    BY <2>1 DEF Other!IsSigned, Other!IsSei
<1>4. Grown(item, freed, sei.at, signed)
  BY <1>3, LeavingGrows, GrownLoud
<1>5. item.sei # sei.at \/ item.tmp # Other!Pending \/ Other!IsSigned(item)
        => Grown(item, item, sei.at, signed)
  BY StemItself DEF Grown, DoubtedItem, Damaged
<1>6. ASSUME item.tmp = Other!Pending, item.sei = sei.at, ~Other!IsSigned(item),
             NEW ok \in BOOLEAN, ok => ~Damaged(item)
      PROVE  Grown(item, Verdict(ok), sei.at, signed)
  <2>1. CASE signed
    <3> DEFINE tmp == IF ok THEN sei.tmp ELSE Other!Invalid
    <3>1. tmp \in SeiStatuses /\ (Damaged(item) => tmp = Other!Invalid)
      BY <1>6 DEF SeiStatuses
    <3>2. Verdict(ok) = [item EXCEPT !.tmp = tmp]
      BY <2>1
    <3> HIDE DEF tmp, Verdict
    <3>3. Grown(item, [item EXCEPT !.tmp = tmp], sei.at, TRUE)
      BY <1>6, <3>1, VerdictGrows
    <3> QED
      BY <1>3, <2>1, <3>2, <3>3
  <2>2. CASE ~signed
    <3> DEFINE verdict == IF ok THEN sei.ifSeiOk ELSE Other!Invalid
    <3>1. Damaged(item) => verdict = Other!Invalid
      BY <1>6
    <3>2. Verdict(ok) = [item EXCEPT !.ifSeiOk = verdict]
      BY <2>2
    <3> HIDE DEF verdict, Verdict
    <3> QED
      BY <1>3, <1>6, <2>2, <3>1, <3>2, DoubtGrows, GrownLoud
  <2> QED
    BY <2>1, <2>2
<1>7. \/ item.sei # sei.at /\ new = [acc EXCEPT !.list = Append(@, item)]
      \/ new = [acc EXCEPT !.list = Append(@, freed), !.unused = @ + 1]
      \/ /\ item.sei # sei.at \/ item.tmp # Other!Pending \/ Other!IsSigned(item)
         /\ new = [acc EXCEPT !.list = Append(@, item)]
      \/ /\ item.tmp = Other!Pending /\ item.sei = sei.at /\ ~Other!IsSigned(item)
         /\ new = [acc EXCEPT !.list = Append(@, Verdict(FALSE)),
                              !.verified = @ + 1, !.invalid = @ + 1]
      \/ /\ item.tmp = Other!Pending /\ item.sei = sei.at /\ ~Other!IsSigned(item)
         /\ match # 0
         /\ new = [acc EXCEPT !.list = Append(@ \o run, Verdict(TRUE)),
                              !.verified = @ + 1 + missing, !.invalid = 0,
                              !.latest = match]
  BY DEF Other!VerifyItem, MissingItems
<1> HIDE DEF new, match, missing, run, Verdict, freed, signed
<1>11. acc = [list |-> acc.list, latest |-> acc.latest, invalid |-> acc.invalid,
              verified |-> acc.verified, unused |-> acc.unused]
  BY ONLY acc \in Progress DEF Progress
<1>8. CASE new = [acc EXCEPT !.list = Append(@, freed), !.unused = @ + 1]
  <2>1. new.list = Append(acc.list, freed)
    BY <1>8, <1>11
  <2>2. IsNew(freed)
    BY <1>4, <2>1 DEF IsLonger
  <2> QED
    BY <2>2 DEF new, signed
<1>9. CASE /\ item.sei # sei.at \/ item.tmp # Other!Pending \/ Other!IsSigned(item)
           /\ new = [acc EXCEPT !.list = Append(@, item)]
  <2>1. new.list = Append(acc.list, item)
    BY <1>9, <1>11
  <2>2. IsNew(item)
    BY <1>5, <1>9, <2>1 DEF IsLonger
  <2> QED
    BY <2>2 DEF new, signed
<1>10. CASE /\ item.tmp = Other!Pending /\ item.sei = sei.at /\ ~Other!IsSigned(item)
            /\ new = [acc EXCEPT !.list = Append(@, Verdict(FALSE)),
                              !.verified = @ + 1, !.invalid = @ + 1]
  <2>1. new.list = Append(acc.list, Verdict(FALSE))
    BY <1>10, <1>11
  <2>3. Grown(item, Verdict(FALSE), sei.at, signed)
    BY <1>6, <1>10
  <2>2. IsNew(Verdict(FALSE))
    BY <2>1, <2>3 DEF IsLonger
  <2> QED
    BY <2>2 DEF new, signed
<1>12. CASE /\ item.tmp = Other!Pending /\ item.sei = sei.at /\ ~Other!IsSigned(item)
            /\ match # 0
            /\ new = [acc EXCEPT !.list = Append(@ \o run, Verdict(TRUE)),
                              !.verified = @ + 1 + missing, !.invalid = 0,
                              !.latest = match]
  <2>1. new.list = Append(acc.list \o run, Verdict(TRUE))
    <3> DEFINE longer == Append(acc.list \o run, Verdict(TRUE))
               verified == acc.verified + 1 + missing
    <3>1. new = [acc EXCEPT !.list = longer, !.verified = verified, !.invalid = 0,
                            !.latest = match]
      BY <1>11, <1>12
    <3> HIDE DEF longer, verified
    <3>2. new.list = longer
      BY ONLY <1>11, <3>1
    <3> QED
      BY <3>2 DEF longer
  <2>3. Grown(item, Verdict(TRUE), sei.at, signed)
    BY <1>2, <1>6, <1>12
  <2>2. IsNew(Verdict(TRUE))
    BY <1>1, <2>1, <2>3 DEF IsLonger, run
  <2> QED
    BY <2>2 DEF new, signed
<1> QED
  BY <1>7, <1>8, <1>9, <1>10, <1>12

LEMMA LongerIsFrom ==
  ASSUME NEW list \in Seq(SoundItems), NEW at, NEW x, NEW new, IsLonger(list, at, x, new)
  PROVE  \A k \in DOMAIN new : new[k] \in Members(list) \cup {x, Other!MissingItem(at)}
<1> DEFINE T == Members(list) \cup {x, Other!MissingItem(at)}
<1>1. list \in Seq(T)
  <2>1. Len(list) \in Nat /\ DOMAIN list = 1..Len(list) /\ \A j \in DOMAIN list : list[j] \in T
    BY DEF Members
  <2>2. list = [j \in 1..Len(list) |-> list[j]] /\ \A j \in 1..Len(list) : list[j] \in T
    BY <2>1
  <2> HIDE DEF T
  <2> QED
    BY <2>1, <2>2, FunctionIsSeq
<1>2. x \in T
  OBVIOUS
<1>3. new \in Seq(T)
  <2>1. CASE new = Append(list, x)
    <3> HIDE DEF T
    <3> QED
      BY <1>1, <1>2, <2>1
  <2>2. ASSUME NEW missing \in Int, new = Append(list \o MissingItems(missing, at), x)
        PROVE  new \in Seq(T)
    <3> DEFINE item == Other!MissingItem(at)
               run == MissingItems(missing, at)
    <3>1. item \in T
      OBVIOUS
    <3>2. run = [i \in 1..missing |-> item]
      BY DEF MissingItems
    <3> HIDE DEF T, item
    <3>3. run \in Seq(T)
      <4>1. CASE missing >= 0
        <5>1. run = [i \in 1..missing |-> run[i]] /\ \A i \in 1..missing : run[i] \in T
          BY <3>1, <3>2
        <5> HIDE DEF run
        <5> QED
          BY <4>1, <5>1, FunctionIsSeq
      <4>2. CASE missing < 0
        <5>1. 1..missing = 1..0
          BY <4>2
        <5>2. run = [i \in 1..0 |-> run[i]] /\ \A i \in 1..0 : run[i] \in T
          BY <3>2, <5>1
        <5> HIDE DEF run
        <5> QED
          BY <5>2, FunctionIsSeq
      <4> QED
        BY <4>1, <4>2
    <3> HIDE DEF run
    <3>4. list \o run \in Seq(T)
      BY <1>1, <3>3
    <3> QED
      BY <1>2, <2>2, <3>4 DEF run
  <2> QED
    BY <2>1, <2>2 DEF IsLonger
<1> HIDE DEF T
<1>4. \A k \in DOMAIN new : new[k] \in T
  BY <1>3
<1> QED
  BY <1>4 DEF T

LEMMA LongerGrows ==
  ASSUME NEW list, NEW old \in Seq(SoundItems), NEW at, NEW loud, Stems(list, old, at, loud),
         Doubted(old, at), NEW j \in DOMAIN list, NEW x, Grown(list[j], x, at, loud),
         NEW new, IsLonger(old, at, x, new)
  PROVE  Stems(list, new, at, loud) /\ Doubted(new, at)
<1> DEFINE missing == Other!MissingItem(at)
<1>1. IsNewcomer(missing, at) /\ missing.at = 0
  BY DEF Other!MissingItem, IsNewcomer
<1> HIDE DEF missing
<1>2. \A k \in DOMAIN new : new[k] = x \/ new[k] = missing \/ \E i \in DOMAIN old : new[k] = old[i]
  BY LongerIsFrom DEF Members, missing
<1>3. Comes(list, x, at, loud) /\ Comes(list, missing, at, loud) /\ DoubtedItem(x, at)
  BY <1>1 DEF Comes, Grown
<1>4. \A i \in DOMAIN old : Comes(list, old[i], at, loud) /\ DoubtedItem(old[i], at)
  BY DEF Stems, Doubted, DoubtedItem
<1>5. \A k \in DOMAIN new : Comes(list, new[k], at, loud)
  BY <1>2, <1>3, <1>4
<1>6. DoubtedItem(missing, at)
  BY <1>1 DEF DoubtedItem, Damaged
<1>7. \A k \in DOMAIN new : DoubtedItem(new[k], at)
  BY <1>2, <1>3, <1>4, <1>6
<1> QED
  BY <1>5, <1>7 DEF Stems, Doubted, DoubtedItem

(* All items of the GOP are verified, one after the other.                 *)
LEMMA VerifiedItemsStem ==
  ASSUME NEW s, ListOK(s.list), Honest(s.list), s.data.list \in Seq(Hash),
         TrueHashes(s.data.list), NEW place, SeiAt(s.list, place)
  PROVE  LET at == s.list[place].at
             end == Other!VerifiedItems(s, place)[place - 1]
         IN  /\ end \in Progress
             /\ Stems(s.list, end.list, at, Other!IsSigned(s.list[place]))
             /\ Doubted(end.list, at)
<1> DEFINE n == place - 1
           sei == s.list[place]
           at == sei.at
           loud == Other!IsSigned(sei)
           base == [list |-> <<>>, latest |-> 0, invalid |-> 0, verified |-> 0, unused |-> 0]
           f == Other!VerifiedItems(s, place)
<1>1. /\ n \in Nat /\ n < Len(s.list) /\ f[0] = base
      /\ \A i \in 1..n : f[i] = Other!VerifyItem(s, sei, f[i - 1], s.list[i])
      /\ \A i \in 0..n : f[i] \in Progress
  BY VerifiedItemsGo
<1>2. /\ s.list \in Seq(SoundItems) /\ Len(s.list) \in Nat /\ DOMAIN s.list = 1..Len(s.list)
      /\ \A k \in DOMAIN s.list : s.list[k] \in SoundItems /\ HonestItem(s.list[k])
  BY SeqFacts DEF ListOK, Honest
<1>3. sei \in SoundItems /\ sei.tmp \in SeiStatuses /\ at # 0
  BY <1>2, SeiAtIs
<1> DEFINE T == {i \in 0..n : Stems(s.list, f[i].list, at, loud) /\ Doubted(f[i].list, at)}
<1>4. 0 \in T
  <2>1. f[0].list = <<>> /\ 0 \in 0..n
    BY <1>1
  <2>2. DOMAIN <<>> = {}
    OBVIOUS
  <2>3. Stems(s.list, <<>>, at, loud) /\ Doubted(<<>>, at)
    BY <2>2 DEF Stems, Doubted
  <2> HIDE DEF f, at, loud
  <2> QED
    BY <2>1, <2>3
<1> HIDE DEF base, n, f, at, loud
<1>5. ASSUME NEW i \in 1..n, i - 1 \in T
      PROVE  i \in T
  <2> DEFINE acc == f[i - 1]
  <2>1. /\ f[i] = Other!VerifyItem(s, sei, acc, s.list[i])
        /\ acc \in Progress /\ i \in DOMAIN s.list /\ i \in 0..n
    BY <1>1, <1>2, <1>5
  <2>2. Stems(s.list, acc.list, at, loud) /\ Doubted(acc.list, at)
    BY <1>5
  <2>3. acc.list \in Seq(SoundItems)
    BY <2>1 DEF Progress
  <2> HIDE DEF acc, T
  <2>4. s.list[i] \in SoundItems /\ HonestItem(s.list[i])
    BY <1>2, <2>1
  <2> DEFINE item == s.list[i]
  <2>5. PICK x : /\ Grown(item, x, at, loud)
                 /\ IsLonger(acc.list, at, x, Other!VerifyItem(s, sei, acc, item).list)
    <3> HIDE DEF item
    <3>1. item \in SoundItems /\ HonestItem(item)
      BY <2>4 DEF item
    <3> HIDE DEF sei
    <3> QED
      BY <1>3, <2>1, <3>1, VerifyItemGrows DEF at, loud
  <2>6. Stems(s.list, f[i].list, at, loud) /\ Doubted(f[i].list, at)
    <3> HIDE DEF f
    <3> QED
      BY <2>1, <2>2, <2>3, <2>5, LongerGrows
  <2> QED
    BY <2>1, <2>6 DEF T
<1> HIDE DEF T
<1>6. n \in T
  <2>1. 0..n \subseteq T
    BY <1>1, <1>4, <1>5, UpToAll
  <2> QED
    BY <1>1, <2>1
<1>7. f[n] \in Progress
  BY <1>1
<1> QED
  BY <1>6, <1>7 DEF T, f, n, at, loud

LEMMA StemsLoud ==
  ASSUME NEW list, NEW new, NEW at, NEW loud \in BOOLEAN, Stems(list, new, at, FALSE)
  PROVE  Stems(list, new, at, loud)
BY DEF Stems, Comes, Stem

LEMMA VerifyIndividualHashesStems ==
  ASSUME NEW s, Typed(s), Honest(s.list), TrueHashes(s.data.list),
         NEW place, SeiAt(s.list, place)
  PROVE  LET at == s.list[place].at
             t == Other!VerifyIndividualHashes(s, place)
         IN  /\ Stems(s.list, t.list, at, Other!IsSigned(s.list[place]))
             /\ Doubted(t.list, at)
<1> DEFINE end == Other!VerifiedItems(s, place)[place - 1]
           at == s.list[place].at
           loud == Other!IsSigned(s.list[place])
           rest == SubSeq(s.list, place, Len(s.list))
           list == end.list \o rest
           num == Len(s.data.list) - end.verified
           new == Other!AddMissingAtEnd(list, num, at)
           numNalus == s.numNalus - end.unused
           t == Other!VerifyIndividualHashes(s, place)
<1>1. /\ HasFields(s, Fields) /\ ListOK(s.list) /\ s.list \in Seq(SoundItems)
      /\ Len(s.list) \in Nat /\ DOMAIN s.list = 1..Len(s.list) /\ s.data.list \in Seq(Hash)
      /\ \A k \in DOMAIN s.list : s.list[k] \in SoundItems
  BY SeqFacts DEF Typed, ListOK, SeiData
<1>2. /\ end \in Progress /\ Stems(s.list, end.list, at, loud) /\ Doubted(end.list, at)
  BY <1>1, VerifiedItemsStem
<1>3. t = [s EXCEPT !.list = new, !.numNalus = numNalus]
  BY DEF Other!VerifyIndividualHashes
<1>4. t.list = new
  BY <1>1, <1>3, FieldsAre DEF HasFields
<1> HIDE DEF end, t
<1>5. num \in Int /\ end.list \in Seq(SoundItems)
  <2>1. end.verified \in Int /\ Len(s.data.list) \in Nat /\ end.list \in Seq(SoundItems)
    BY <1>1, <1>2 DEF Progress
  <2> QED
    BY <2>1
<1>6. place \in 1..Len(s.list) /\ at # 0 /\ at \in Int
  BY <1>1, SeiAtIs, ItemTyped
<1>7. rest \in Seq(SoundItems)
  BY <1>1, <1>6
<1>8. \A k \in DOMAIN rest : \E j \in DOMAIN s.list : rest[k] = s.list[j] /\ s.list[j].sei # at
  <2> TAKE k \in DOMAIN rest
  <2>1. /\ place + k - 1 \in DOMAIN s.list /\ rest[k] = s.list[place + k - 1]
        /\ place <= place + k - 1
    BY <1>1, <1>6
  <2>2. Ordered(s.list) /\ place \in DOMAIN s.list
    BY <1>1, <1>6 DEF ListOK
  <2> DEFINE j == place + k - 1
  <2> HIDE DEF j, rest
  <2>3. s.list[j].sei # 0 => at < s.list[j].sei
    BY <2>1, <2>2 DEF Ordered, j
  <2>4. s.list[j].sei # at
    BY <1>6, <2>3
  <2> QED
    BY <2>1, <2>4 DEF j
<1>9. loud \in BOOLEAN
  <2>1. s.list[place] \in SoundItems /\ s.list[place].at # 0
    BY <1>1, <1>6
  <2>2. s.list[place].nalu.data.signed \in BOOLEAN
    BY <2>1, ItemTyped DEF Nalus, SeiData
  <2> QED
    BY <2>2 DEF Other!IsSigned, Other!IsSei
<1> HIDE DEF rest, at, loud, num
<1>10. /\ list \in Seq(SoundItems)
       /\ \A k \in DOMAIN list : \/ \E j \in DOMAIN end.list : list[k] = end.list[j]
                                 \/ \E j \in DOMAIN rest : list[k] = rest[j]
  <2> DEFINE front == end.list
  <2>1. front \in Seq(SoundItems)
    BY <1>5
  <2> HIDE DEF front
  <2>2. /\ front \o rest \in Seq(SoundItems)
        /\ \A k \in DOMAIN (front \o rest) : \/ \E j \in DOMAIN front : (front \o rest)[k] = front[j]
                                             \/ \E j \in DOMAIN rest : (front \o rest)[k] = rest[j]
    <3>1. (front \o rest) \in Seq(SoundItems)
      BY <1>7, <2>1
    <3>2. ASSUME NEW k \in DOMAIN (front \o rest)
          PROVE  \/ \E j \in DOMAIN front : (front \o rest)[k] = front[j]
                 \/ \E j \in DOMAIN rest : (front \o rest)[k] = rest[j]
      <4>1. CASE k <= Len(front)
        <5>1. k \in DOMAIN front /\ (front \o rest)[k] = front[k]
          BY <1>7, <2>1, <4>1
        <5> QED
          BY <5>1
      <4>2. CASE ~(k <= Len(front))
        <5>1. k - Len(front) \in DOMAIN rest /\ (front \o rest)[k] = rest[k - Len(front)]
          BY <1>7, <2>1, <4>2
        <5> QED
          BY <5>1
      <4> QED
        BY <4>1, <4>2
    <3> QED
      BY <3>1, <3>2
  <2> QED
    BY <2>2 DEF front
<1> HIDE DEF list
<1>11. Stems(s.list, list, at, loud)
  BY <1>2, <1>8, <1>10, StemItself DEF Stems, Comes
<1>12. Doubted(list, at)
  <2> SUFFICES ASSUME NEW k \in DOMAIN list, list[k].sei = at
               PROVE  \E j \in DOMAIN end.list : list[k] = end.list[j]
    BY <1>2 DEF Doubted
  <2> QED
    BY <1>8, <1>10
<1>13. FromList(list, new, at)
  BY <1>5, <1>10, AddMissingFrom
<1> HIDE DEF new
<1>14. Stems(list, new, at, loud) /\ Doubted(new, at)
  BY <1>6, <1>9, <1>12, <1>13, FromListStems, StemsLoud
<1>15. Stems(s.list, new, at, loud)
  BY <1>9, <1>11, <1>14, StemsTwice
<1> QED
  BY <1>4, <1>14, <1>15 DEF t, at, loud

-----------------------------------------------------------------------------
(* Items that no SEI covers are marked.                                    *)

AllStem(list, new, at, loud) ==
  DOMAIN new = DOMAIN list /\ \A k \in DOMAIN list : Stem(list[k], new[k], at, loud)

LEMMA AllStemTwice ==
  ASSUME NEW a, NEW b, NEW c, NEW at, NEW loud \in BOOLEAN, AllStem(a, b, at, loud),
         AllStem(b, c, at, loud)
  PROVE  AllStem(a, c, at, loud)
BY StemTwice DEF AllStem

LEMMA AllStemStems ==
  ASSUME NEW list, NEW new, NEW at, NEW loud, AllStem(list, new, at, loud)
  PROVE  Stems(list, new, at, loud)
BY DEF AllStem, Stems, Comes

LEMMA MarkItemStems ==
  ASSUME NEW s, NEW list, ListOK(list), Honest(list), ListCovered(list), NEW k \in DOMAIN list,
         ~Other!IsSigned(list[k]), list[k].status \in SeiStatuses
  PROVE  AllStem(list, Other!MarkItem(s, list, k), 0, TRUE)
<1> DEFINE tmp == IF s.signingPresent THEN Other!Invalid ELSE Other!Unknown
           item == [list[k] EXCEPT !.tmp = tmp, !.ifSeiOk = Other!Unset]
           changed == Other!WithItem(list, k, item)
           marked == Other!MarkAssociated(changed, FALSE, FALSE, item.at)
           new == Other!MarkItem(s, list, k)
<1>1. /\ list \in Seq(SoundItems) /\ list[k] \in SoundItems /\ list[k] \in Items
      /\ list[k].tmp \in SeiStatuses
  BY SeqFacts, ItemTyped DEF ListOK
<1>2. tmp \in SeiStatuses /\ Other!Unset \in Verdicts
  BY DEF SeiStatuses, Verdicts
<1>3. tmp # Other!Pending /\ tmp # Other!Valid
  BY Characters
<1>4. Judged(list[k], item)
  <2> HIDE DEF tmp
  <2> QED
    BY <1>1, <1>2, JudgedIs
<1>5. new = IF Other!IsSei(item) THEN marked ELSE changed
  BY DEF Other!MarkItem
<1> HIDE DEF tmp, new
<1>6. /\ item.at = list[k].at /\ item.nalu = list[k].nalu /\ item.hash = list[k].hash
      /\ item.status = list[k].status /\ item.sei = list[k].sei /\ item.tmp = tmp
  BY ONLY <1>1 DEF Items
<1> HIDE DEF item
<1>7. Stem(list[k], item, 0, TRUE)
  BY <1>3, <1>6 DEF Stem
<1>8. AllStem(list, changed, 0, TRUE)
  BY <1>7, StemItself DEF AllStem, Other!WithItem
<1>9. ListOK(changed) /\ changed[k] = item /\ k \in DOMAIN changed
  <2>1. AllJudged(list, changed)
    BY <1>1, <1>4, WithItemJudges
  <2>2. Reshaped(list, changed) /\ DOMAIN changed = DOMAIN list
    <3> HIDE DEF changed
    <3> QED
      BY <2>1, AllJudgedReshapes
  <2> QED
    BY <2>2 DEF Reshaped, Other!WithItem
<1>10. CASE Other!IsSei(item)
  <2>1. item.at \in Arrived(changed)
    <3>1. item \in SoundItems
      BY <1>4 DEF Judged, Preserved
    <3>2. item.at # 0
      BY <1>10, <3>1, ItemTyped
    <3> QED
      BY <1>9, <3>2 DEF Arrived
  <2> HIDE DEF changed
  <2>2. Honest(changed) /\ CoveredBut(changed, 0)
    BY <1>8, AllStemStems, StemsKeep DEF ListCovered
  <2>3. CoveredBut(changed, item.at)
    BY <2>2 DEF CoveredBut
  <2> DEFINE at == item.at
  <2>4. /\ DOMAIN marked = DOMAIN changed
        /\ \A j \in DOMAIN changed : \A x : Stem(changed[j], marked[j], x, SeiIsUnset(changed, at))
    <3> HIDE DEF at
    <3> QED
      BY <1>9, <2>1, <2>2, <2>3, MarkingStems DEF at
  <2>5. AllStem(changed, marked, 0, TRUE)
    <3>1. SeiIsUnset(changed, at) \in BOOLEAN
      BY DEF SeiIsUnset
    <3> HIDE DEF marked, at
    <3> QED
      BY <2>4, <3>1, StemLoud DEF AllStem
  <2> HIDE DEF marked
  <2>6. AllStem(list, marked, 0, TRUE)
    BY <1>8, <2>5, AllStemTwice
  <2> QED
    BY <1>5, <1>10, <2>6 DEF new
<1>11. CASE ~Other!IsSei(item)
  BY <1>5, <1>8, <1>11 DEF new
<1> QED
  BY <1>10, <1>11

(* Without a SEI an item becomes invalid or unknown.                       *)
LEMMA VerifyHashesWithoutSeiStems ==
  ASSUME NEW s, ListOK(s.list), Honest(s.list), ListCovered(s.list), NEW skip
  PROVE  AllStem(s.list, Other!VerifyHashesWithoutSei(s, skip).list, 0, TRUE)
<1> DEFINE list == Other!VerifyHashesWithoutSei(s, skip).list
<1>1. PICK places, n : IsMarking(s, places, n, list)
  BY VerifyHashesWithoutSeiIs
<1> HIDE DEF list
<1> DEFINE f == Other!MarkedItems(s, places)
<1>2. s.list \in Seq(SoundItems)
  BY DEF ListOK
<1>3. /\ n \in Nat /\ Len(places) = n /\ list = f[n]
      /\ \A i \in 1..n : /\ places[i] \in DOMAIN s.list
                         /\ s.list[places[i]].status \in SeiStatuses
  BY <1>1, MarkingTyped DEF IsMarking
<1>4. /\ f[0] = s.list
      /\ \A i \in 1..n : f[i] = Other!MarkItem(s, f[i - 1], places[i])
      /\ \A i \in 0..n : AllJudged(s.list, f[i])
  BY <1>2, <1>3, MarkedItemsGo
<1>5. \A i \in 1..n : ~Other!IsSigned(s.list[places[i]])
  BY <1>1 DEF IsMarking, Other!Candidates
<1> HIDE DEF f
<1> DEFINE T == {i \in 0..n : AllStem(s.list, f[i], 0, TRUE)}
<1>6. 0 \in T
  <2>1. AllStem(s.list, s.list, 0, TRUE)
    BY StemItself DEF AllStem
  <2>2. f[0] = s.list /\ 0 \in 0..n
    BY <1>3, <1>4
  <2>3. AllStem(s.list, f[0], 0, TRUE)
    BY ONLY <2>1, <2>2
  <2> QED
    BY <2>2, <2>3
<1>7. ASSUME NEW i \in 1..n, i - 1 \in T
      PROVE  i \in T
  <2> DEFINE old == f[i - 1]
             k == places[i]
  <2>1. /\ f[i] = Other!MarkItem(s, old, k) /\ AllJudged(s.list, old)
        /\ k \in DOMAIN s.list /\ i \in 0..n
        /\ ~Other!IsSigned(s.list[k]) /\ s.list[k].status \in SeiStatuses
    BY <1>3, <1>4, <1>5
  <2>2. AllStem(s.list, old, 0, TRUE)
    BY <1>7
  <2> HIDE DEF old, k, T
  <2>3. ListOK(old) /\ DOMAIN old = DOMAIN s.list
    BY <2>1, AllJudgedReshapes DEF Reshaped
  <2>4. Honest(old) /\ ListCovered(old)
    BY <2>2, AllStemStems, StemsKeep DEF ListCovered
  <2>5. Stem(s.list[k], old[k], 0, TRUE)
    BY <2>1, <2>2 DEF AllStem
  <2>6. old[k].status \in SeiStatuses /\ ~Other!IsSigned(old[k])
    BY <2>1, <2>5, SameNalu DEF Stem
  <2>7. AllStem(old, f[i], 0, TRUE)
    BY <2>1, <2>3, <2>4, <2>6, MarkItemStems
  <2>8. AllStem(s.list, f[i], 0, TRUE)
    BY <2>2, <2>7, AllStemTwice
  <2> QED
    BY <2>1, <2>8 DEF T
<1> HIDE DEF T
<1>8. n \in T
  <2>1. 0..n \subseteq T
    BY <1>3, <1>6, <1>7, UpToAll
  <2> QED
    BY <1>3, <2>1
<1> QED
  BY <1>3, <1>8 DEF T, list

-----------------------------------------------------------------------------
(* A SEI enters its validation.                                            *)

(* A place in the order of arrival is that of one item.                    *)
LEMMA AtOnce ==
  ASSUME NEW list, ListOK(list), NEW j \in DOMAIN list, NEW k \in DOMAIN list,
         list[j].at = list[k].at, list[k].at # 0
  PROVE  j = k
<1>1. /\ DOMAIN list = 1..Len(list) /\ Len(list) \in Nat
      /\ \A i \in DOMAIN list : list[i].at \in Nat
  BY SeqFacts, ItemTyped DEF ListOK
<1>2. j \in Nat /\ k \in Nat
  BY <1>1
<1>3. /\ j < k => list[j].at < list[k].at
      /\ k < j => list[k].at < list[j].at
  BY DEF ListOK, Ordered
<1>4. list[j].at \in Nat /\ list[k].at \in Nat
  BY <1>1
<1> QED
  BY <1>2, <1>3, <1>4

(* The list when the verdict of the SEI on itself is noted.                *)
Entered(list, new, place, tmp, ok) ==
  LET at == list[place].at
  IN  /\ Honest(new) /\ ListCovered(new) /\ Doubted(new, at)
      /\ new[place].at = at
      /\ Other!IsSigned(new[place]) <=> Other!IsSigned(list[place])
      /\ AllFree(list) => AllFree(new)
      /\ Other!IsSigned(list[place]) /\ tmp # Other!Pending => Closed(new, at)
      /\ ok # Other!Unset => Open(new, at)

LEMMA SeiEnters ==
  ASSUME NEW list, ListOK(list), Honest(list), ListCovered(list), NEW place, SeiAt(list, place),
         list[place].tmp = Other!Pending, list[place].ifSeiOk = Other!Unset,
         NEW tmp, NEW ok, ~Other!IsSigned(list[place]) => tmp = Other!Pending
  PROVE  LET marked == [list[place] EXCEPT !.inValidation = TRUE, !.decoded = TRUE,
                                           !.tmp = tmp, !.ifSeiOk = ok]
         IN  Entered(list, Other!WithItem(list, place, marked), place, tmp, ok)
<1> DEFINE sei == list[place]
           at == sei.at
           marked == [sei EXCEPT !.inValidation = TRUE, !.decoded = TRUE,
                                 !.tmp = tmp, !.ifSeiOk = ok]
           new == Other!WithItem(list, place, marked)
<1>1. /\ list \in Seq(SoundItems) /\ place \in DOMAIN list /\ at # 0 /\ sei \in SoundItems
      /\ sei \in Items
  BY SeiAtIs, SeqFacts, ItemTyped DEF ListOK
<1>2. /\ DOMAIN new = DOMAIN list /\ new[place] = marked
      /\ \A k \in DOMAIN list : k # place => new[k] = list[k]
  BY <1>1 DEF Other!WithItem
<1> HIDE DEF new
<1>3. /\ marked.at = at /\ marked.nalu = sei.nalu /\ marked.hash = sei.hash
      /\ marked.status = sei.status /\ marked.sei = sei.sei
      /\ marked.tmp = tmp /\ marked.ifSeiOk = ok
  BY ONLY <1>1 DEF Items
<1> HIDE DEF marked
<1>4. /\ Other!IsSigned(marked) <=> Other!IsSigned(sei)
      /\ Damaged(marked) <=> Damaged(sei)
  BY <1>3, SameNalu
<1>5. Damaged(sei) => tmp = Other!Pending /\ ~Other!IsSigned(sei)
  BY DEF Damaged
<1>6. HonestItem(sei) /\ sei.tmp = Other!Pending /\ sei.ifSeiOk = Other!Unset
  BY <1>1 DEF Honest
<1>7. \A k \in DOMAIN list : list[k].at = at => k = place
  BY <1>1, AtOnce
<1>8. Honest(new)
  <2>1. HonestItem(marked)
    BY <1>3, <1>4, <1>5, <1>6 DEF HonestItem
  <2> QED
    BY <1>2, <2>1 DEF Honest
<1>9. \A x : x # at /\ Closed(list, x) => Closed(new, x)
  BY <1>2, <1>3 DEF Closed
<1>10. ~Closed(list, at)
  BY <1>1, <1>6 DEF Closed
<1>11. Other!Invalid # Other!Unset
  BY Characters
<1>12. ListCovered(new) /\ Doubted(new, at)
  <2>1. ASSUME NEW k \in DOMAIN list, Damaged(new[k]), new[k].tmp = Other!Pending, new[k].sei # 0
        PROVE  \/ new[k].ifSeiOk = Other!Invalid
               \/ new[k].sei # at /\ Closed(new, new[k].sei)
    <3>1. CASE k # place
      BY <1>2, <1>9, <1>10, <2>1, <3>1 DEF ListCovered, CoveredBut
    <3>2. CASE k = place
      <4>1. Damaged(sei) /\ sei.sei # 0 /\ new[k].sei = sei.sei
        BY <1>2, <1>3, <1>4, <2>1, <3>2
      <4>2. Closed(list, sei.sei)
        BY <1>1, <1>6, <1>11, <4>1 DEF ListCovered, CoveredBut
      <4> QED
        BY <1>9, <1>10, <4>1, <4>2
    <3> QED
      BY <3>1, <3>2
  <2>2. ListCovered(new)
    BY <1>2, <2>1 DEF ListCovered, CoveredBut
  <2>3. Doubted(new, at)
    BY <1>1, <1>2, <2>1 DEF Doubted
  <2> QED
    BY <2>2, <2>3
<1>13. AllFree(list) => AllFree(new)
  BY <1>1, <1>2, <1>3 DEF AllFree
<1>14. Other!IsSigned(sei) /\ tmp # Other!Pending => Closed(new, at)
  BY <1>2, <1>3, <1>4, <1>7 DEF Closed
<1>15. ok # Other!Unset => Open(new, at)
  BY <1>2, <1>3, <1>7 DEF Open
<1>16. Entered(list, new, place, tmp, ok)
  BY <1>2, <1>3, <1>4, <1>8, <1>12, <1>13, <1>14, <1>15 DEF Entered
<1> QED
  BY <1>16 DEF new, marked

LEMMA StemsSameSei ==
  ASSUME NEW list, ListOK(list), NEW new, NEW at, NEW loud, Stems(list, new, at, loud),
         NEW place \in DOMAIN list, list[place].at # 0, NEW k \in DOMAIN new,
         new[k].at = list[place].at
  PROVE  Other!IsSigned(new[k]) <=> Other!IsSigned(list[place])
<1>1. PICK j \in DOMAIN list : Stem(list[j], new[k], at, loud)
  BY DEF Stems, Comes, IsNewcomer
<1>2. j = place
  BY <1>1, AtOnce DEF Stem
<1> QED
  BY <1>1, <1>2, SameNalu DEF Stem

LEMMA LostIsKept ==
  ASSUME NEW s, HasFields(s, Fields), NEW place
  PROVE  /\ Other!ComputeGopHash(s, place).lost = s.lost
         /\ HasFields(Other!ComputeGopHash(s, place), Fields)
BY FieldsAre, ZenonT(30) DEF HasFields, Other!ComputeGopHash, Other!Associate

LEMMA LinkedAloneChanges ==
  ASSUME NEW s, HasFields(s, Fields), NEW place
  PROVE  LET t == Other!UpdateLinkedHash(s, place)
         IN  /\ t.list = s.list /\ t.data = s.data /\ t.gopHash = s.gopHash
             /\ t.lost = s.lost
<1> DEFINE t == Other!UpdateLinkedHash(s, place)
<1>1. t = s \/ \E linked : t = [s EXCEPT !.linked = linked]
  BY FieldsAre DEF Other!UpdateLinkedHash, HasFields
<1> HIDE DEF t
<1> QED
  BY ONLY <1>1, HasFields(s, Fields), FieldsAre DEF HasFields, t

(* What was decoded last is what some SEI says.                            *)
LEMMA DecodedIsTrue ==
  ASSUME NEW s, Typed(s), TrueData(s.data), NEW says \in SeiData, TrueData(says)
  PROVE  TrueData(Other!DecodeSei(s, says).data)
<1> DEFINE data == Other!Decoded(s, says)
           certified == Other!DecodeCertificates(s, says.cert)
<1>1. TrueData(data)
  <2>1. s.data \in SeiData
    BY DEF Typed
  <2>2. [s.data EXCEPT !.list = <<>>].list = <<>>
        /\ [s.data EXCEPT !.list = <<>>].gopHash = s.data.gopHash
    BY <2>1 DEF SeiData
  <2>3. TrueHashes(<<>>)
    BY DEF TrueHashes
  <2>4. TrueData([s.data EXCEPT !.list = <<>>])
    BY ONLY TrueData(s.data), <2>2, <2>3 DEF TrueData
  <2> QED
    BY <2>4 DEF Other!Decoded
<1>2. HasFields(certified, Fields)
  BY DecodeCertificatesTouches DEF Untouched, Typed
<1>3. PICK wraps, lost :
        Other!DecodeSei(s, says) = [certified EXCEPT !.data = data, !.wraps = wraps, !.lost = lost]
  BY DEF Other!DecodeSei
<1> HIDE DEF data, certified
<1>4. Other!DecodeSei(s, says).data = data
  BY ONLY <1>2, <1>3, FieldsAre DEF HasFields
<1> QED
  BY <1>1, <1>4

(* What is known when the GOP of a SEI is about to be verified. *)
IsPrepared(s, t, place) ==
  LET at == s.list[place].at
      signed == Other!IsSigned(s.list[place])
  IN  /\ Typed(t) /\ SeiAt(t.list, place) /\ t.list[place].at = at
      /\ Other!IsSigned(t.list[place]) <=> signed
      /\ Honest(t.list) /\ CoveredBut(t.list, at) /\ TrueData(t.data)
      /\ TrueHashes(t.gopHash) => Doubted(t.list, at)
      /\ t.lost <= 0 /\ signed => Closed(t.list, at)
      /\ t.lost <= 0 /\ ~signed => Open(t.list, at)
      /\ AllFree(s.list) => Near(t.list, at) /\ Fresh(t.list, at)

IsTrue(t) == Honest(t.list) /\ ListCovered(t.list) /\ TrueData(t.data)

LEMMA PrepareStems ==
  ASSUME NEW s, Typed(s), IsTrue(s), NEW place, SeiAt(s.list, place),
         s.list[place].tmp = Other!Pending, s.list[place].ifSeiOk = Other!Unset
  PROVE  LET prepared == Other!PrepareForValidation(s, place)
         IN  /\ prepared.isCertificate =>
                  IsTrue(prepared.s) /\ (AllFree(s.list) => AllFree(prepared.s.list))
             /\ ~prepared.isCertificate => IsPrepared(s, prepared.s, place)
<1> DEFINE sei == s.list[place]
           at == sei.at
           signed == Other!IsSigned(sei)
           decoded == IF sei.decoded THEN s ELSE Other!DecodeSei(s, sei.nalu.data)
           verdict == IF decoded.lost < 0 \/ (signed /\ ~sei.verified)
                      THEN Other!Invalid ELSE Other!Valid
           tmp == IF decoded.lost <= 0 /\ signed THEN verdict ELSE sei.tmp
           ok == IF decoded.lost <= 0 /\ ~signed THEN verdict ELSE sei.ifSeiOk
           marked == [sei EXCEPT !.inValidation = TRUE, !.decoded = TRUE,
                                 !.tmp = tmp, !.ifSeiOk = ok]
           waiting == ~signed
           list == Other!WithItem(decoded.list, place, marked)
           started0 == [decoded EXCEPT !.list = list, !.waiting = waiting]
           authenticity == IF sei.verified THEN Other!Ok ELSE Other!NotOk
           certified == [started0 EXCEPT !.latest.authenticity = authenticity]
           hashed == Other!ComputeGopHash(started0, place)
           linked == Other!UpdateLinkedHash(hashed, place)
           prepared == Other!PrepareForValidation(s, place)
<1>1. /\ s.list \in Seq(SoundItems) /\ place \in DOMAIN s.list /\ sei \in SoundItems
      /\ at # 0 /\ ListOK(s.list) /\ HonestItem(sei)
      /\ sei.tmp = Other!Pending /\ sei.ifSeiOk = Other!Unset
  BY SeiAtIs, SeqFacts DEF Typed, ListOK, IsTrue, Honest
<1>2. Continues(s, decoded) /\ decoded.list = s.list /\ TrueData(decoded.data)
  <2>1. sei.nalu.data \in SeiData /\ TrueData(sei.nalu.data)
    BY <1>1, ItemTyped DEF Nalus, HonestItem
  <2>2. Continues(s, s)
    BY DEF Continues
  <2> HIDE DEF sei
  <2> QED
    BY <2>1, <2>2, DecodeSeiContinues, DecodedIsTrue DEF IsTrue
<1>3. prepared \in {[s |-> certified, isCertificate |-> TRUE],
                    [s |-> linked, isCertificate |-> FALSE]}
  BY DEF Other!PrepareForValidation
<1> HIDE DEF prepared
<1>4. /\ verdict \in SeiStatuses /\ verdict \in Verdicts
      /\ verdict # Other!Pending /\ verdict # Other!Unset
  BY Characters DEF SeiStatuses, Verdicts
<1> HIDE DEF verdict
<1>5. /\ tmp \in {s.list[place].tmp} \cup SeiStatuses
      /\ ok \in {s.list[place].ifSeiOk} \cup Verdicts
      /\ ~signed => tmp = Other!Pending
      /\ decoded.lost <= 0 /\ signed => tmp # Other!Pending
      /\ decoded.lost <= 0 /\ ~signed => ok # Other!Unset
  <2> HIDE DEF decoded, signed
  <2> QED
    BY <1>1, <1>4
<1> HIDE DEF tmp, ok, waiting, authenticity, decoded
<1>6. /\ Honest(list) /\ ListCovered(list) /\ Doubted(list, at) /\ list[place].at = at
      /\ Other!IsSigned(list[place]) <=> signed
      /\ AllFree(s.list) => AllFree(list)
      /\ signed /\ tmp # Other!Pending => Closed(list, at)
      /\ ok # Other!Unset => Open(list, at)
  <2>1. Honest(s.list) /\ ListCovered(s.list)
    BY DEF IsTrue
  <2>2. list = Other!WithItem(s.list, place, marked)
    BY <1>2
  <2>3. ~Other!IsSigned(s.list[place]) => tmp = Other!Pending
    BY <1>5
  <2>4. Entered(s.list, Other!WithItem(s.list, place, marked), place, tmp, ok)
    BY <1>1, <2>1, <2>3, SeiEnters
  <2> HIDE DEF list, marked
  <2>5. Entered(s.list, list, place, tmp, ok)
    BY <2>2, <2>4
  <2> QED
    BY <2>5 DEF Entered
<1>7. Reshaped(s.list, list) /\ SeiAt(list, place)
  <2>1. Preserved(s.list[place], marked) /\ SeiAt(Other!WithItem(s.list, place, marked), place)
    BY <1>1, <1>5, MarkedIsKept
  <2> HIDE DEF marked
  <2> QED
    BY <1>1, <1>2, <2>1, WithItemKeeps
<1> HIDE DEF list, signed
<1>8. /\ Typed(started0) /\ started0.list = list /\ started0.data = decoded.data
      /\ started0.lost = decoded.lost
  <2>1. /\ HasFields(decoded, Fields) /\ decoded.numNalus \in Int /\ decoded.anchor \in Int
        /\ decoded.data \in SeiData
    BY <1>2 DEF Continues, Typed
  <2>2. /\ HasFields(started0, Fields) /\ started0.list = list /\ started0.data = decoded.data
        /\ started0.anchor = decoded.anchor /\ started0.numNalus = decoded.numNalus
        /\ started0.lost = decoded.lost
    BY ONLY <2>1, FieldsAre DEF HasFields
  <2> HIDE DEF started0
  <2> QED
    BY <1>7, <2>1, <2>2 DEF Typed, Reshaped
<1>9. HasFields(started0, Fields)
  BY <1>8 DEF Typed
<1>10. certified.list = list /\ certified.data = decoded.data
  <2> HIDE DEF started0
  <2>1. certified.list = started0.list /\ certified.data = started0.data
    BY ONLY <1>9, FieldsAre DEF HasFields
  <2> QED
    BY <1>8, <2>1
<1> HIDE DEF certified, started0
<1>11. /\ Stems(list, hashed.list, at, FALSE)
       /\ Open(list, at) => Open(hashed.list, at)
       /\ TrueHashes(hashed.gopHash) => Doubted(hashed.list, at)
       /\ hashed.data = decoded.data /\ hashed.lost = decoded.lost
       /\ HasFields(hashed, Fields)
  <2>1. started0.list[place].at = at /\ Honest(started0.list) /\ SeiAt(started0.list, place)
        /\ Doubted(started0.list, started0.list[place].at)
    BY <1>6, <1>7, <1>8
  <2>2. /\ Stems(started0.list, hashed.list, at, FALSE)
        /\ Open(started0.list, at) => Open(hashed.list, at)
        /\ TrueHashes(hashed.gopHash) => Doubted(hashed.list, at)
        /\ hashed.data = started0.data
    <3> HIDE DEF at
    <3>1. LET x == started0.list[place].at
          IN  /\ Stems(started0.list, hashed.list, x, FALSE)
              /\ Open(started0.list, x) => Open(hashed.list, x)
              /\ TrueHashes(hashed.gopHash) => Doubted(hashed.list, x)
              /\ hashed.data = started0.data
      BY <1>8, <2>1, ComputeGopHashStems
    <3> HIDE DEF hashed
    <3> QED
      BY <2>1, <3>1
  <2>3. hashed.lost = started0.lost /\ HasFields(hashed, Fields)
    BY <1>9, LostIsKept
  <2> HIDE DEF hashed
  <2> QED
    BY <1>8, <2>2, <2>3
<1>12. ContinuesAt(started0, hashed, place)
  BY <1>7, <1>8, ComputeGopHashContinues
<1> HIDE DEF hashed
<1>13. Typed(linked) /\ linked.list = hashed.list
  BY <1>12, UpdateLinkedHashContinues DEF ContinuesAt, Continues
<1>14. linked.data = decoded.data /\ linked.gopHash = hashed.gopHash /\ linked.lost = decoded.lost
  BY <1>11, LinkedAloneChanges
<1> HIDE DEF linked
<1>15. IsTrue(certified) /\ (AllFree(s.list) => AllFree(certified.list))
  BY <1>2, <1>6, <1>10 DEF IsTrue
<1>16. IsPrepared(s, linked, place)
  <2>1. SeiAt(linked.list, place) /\ linked.list[place].at = at
    BY <1>6, <1>8, <1>12, <1>13 DEF ContinuesAt
  <2>2. ListOK(list) /\ place \in DOMAIN list /\ place \in DOMAIN linked.list
        /\ Stems(list, linked.list, at, FALSE)
    BY <1>7, <1>11, <1>13, <2>1 DEF Reshaped, SeiAt
  <2>3. Other!IsSigned(linked.list[place]) <=> signed
    <3> DEFINE new == linked.list
    <3>1. /\ Stems(list, new, at, FALSE) /\ place \in DOMAIN new /\ new[place].at = list[place].at
          /\ ListOK(list) /\ place \in DOMAIN list /\ list[place].at # 0
      BY <1>1, <1>6, <2>1, <2>2
    <3> HIDE DEF new, at
    <3>2. Other!IsSigned(new[place]) <=> Other!IsSigned(list[place])
      BY <3>1, StemsSameSei
    <3> QED
      BY <1>6, <3>2 DEF new
  <2>4. CoveredBut(list, at)
    BY <1>6 DEF ListCovered, CoveredBut
  <2>5. AllFree(list) => Near(list, at) /\ Fresh(list, at)
    BY <1>1 DEF AllFree, Near, Fresh
  <2> DEFINE new == linked.list
  <2>6. /\ Honest(new) /\ CoveredBut(new, at)
        /\ AllFree(s.list) => Near(new, at) /\ Fresh(new, at)
        /\ signed /\ tmp # Other!Pending => Closed(new, at)
    <3>1. Stems(list, new, at, FALSE)
      BY <2>2
    <3> HIDE DEF new, at
    <3>2. /\ Honest(new) /\ CoveredBut(new, at)
          /\ Near(list, at) => Near(new, at)
          /\ Fresh(list, at) => Fresh(new, at)
          /\ \A x : x # 0 /\ Closed(list, x) => Closed(new, x)
      BY <1>6, <2>4, <3>1, StemsKeep
    <3> QED
      BY <1>1, <1>6, <2>5, <3>2
  <2>7. linked.lost <= 0 /\ signed => Closed(new, at)
    BY <1>5, <1>14, <2>6
  <2>8. linked.lost <= 0 /\ ~signed => Open(new, at)
    BY <1>5, <1>6, <1>11, <1>13, <1>14
  <2>9. TrueHashes(linked.gopHash) => Doubted(new, at)
    BY <1>11, <1>13, <1>14
  <2>10. TrueData(linked.data)
    BY <1>2, <1>14
  <2> QED
    BY <1>13, <2>1, <2>3, <2>6, <2>7, <2>8, <2>9, <2>10 DEF IsPrepared, signed
<1>17. CASE prepared = [s |-> certified, isCertificate |-> TRUE]
  BY <1>15, <1>17 DEF prepared
<1>18. CASE prepared = [s |-> linked, isCertificate |-> FALSE]
  BY <1>16, <1>18 DEF prepared
<1> QED
  BY <1>3, <1>17, <1>18

-----------------------------------------------------------------------------
(* The items of the GOP of a SEI are verified.                             *)

LEMMA SignedIsBoolean ==
  ASSUME NEW list, ListOK(list), NEW place, SeiAt(list, place)
  PROVE  Other!IsSigned(list[place]) \in BOOLEAN
<1>1. list[place] \in SoundItems /\ list[place].at # 0
  BY SeqFacts, SeiAtIs DEF ListOK
<1>2. list[place].nalu.data.signed \in BOOLEAN
  BY <1>1, ItemTyped DEF Nalus, SeiData
<1> QED
  BY <1>2 DEF Other!IsSigned, Other!IsSei

LEMMA MarkedStems ==
  ASSUME NEW old, NEW list, ListOK(list), NEW at \in Arrived(list), NEW loud \in BOOLEAN,
         Honest(old), CoveredBut(old, at), Stems(old, list, at, loud),
         NEW valid \in BOOLEAN, NEW linkOk, valid => Doubted(list, at),
         loud \/ Open(list, at)
  PROVE  LET new == Other!MarkAssociated(list, valid, linkOk, at)
         IN  Stems(old, new, at, loud) /\ Doubted(new, at)
<1> DEFINE new == Other!MarkAssociated(list, valid, linkOk, at)
<1>1. Honest(list) /\ CoveredBut(list, at)
  BY StemsKeep
<1>2. /\ DOMAIN new = DOMAIN list
      /\ \A k \in DOMAIN list : \A x : Stem(list[k], new[k], x, SeiIsUnset(list, at))
      /\ Doubted(new, at)
  BY <1>1, MarkingStems
<1> HIDE DEF new
<1>3. SeiIsUnset(list, at) \in BOOLEAN
  BY DEF SeiIsUnset
<1>4. Open(list, at) => ~SeiIsUnset(list, at)
  BY PlaceIs DEF Open, SeiIsUnset
<1>5. \A k \in DOMAIN list : Stem(list[k], new[k], at, loud)
  <2> TAKE k \in DOMAIN list
  <2>1. Stem(list[k], new[k], at, SeiIsUnset(list, at))
    BY <1>2
  <2>2. CASE loud
    BY <1>3, <2>1, <2>2, StemLoud
  <2>3. CASE ~loud
    BY <1>3, <1>4, <2>1, <2>3
  <2> QED
    BY <2>2, <2>3
<1>6. Stems(list, new, at, loud)
  BY <1>2, <1>5, AllStemStems DEF AllStem
<1>7. Stems(old, new, at, loud)
  BY <1>6, StemsTwice
<1> QED
  BY <1>2, <1>7 DEF new

LEMMA VerifiedOfGop ==
  ASSUME NEW s, Typed(s), NEW place, SeiAt(s.list, place), Honest(s.list), TrueData(s.data)
  PROVE  LET at == s.list[place].at
             t == Other!VerifyIndividualHashes(Other!AssociateGop(s, place), place)
         IN  /\ Stems(s.list, t.list, at, Other!IsSigned(s.list[place]))
             /\ Doubted(t.list, at) /\ Continues(s, t) /\ t.data = s.data
<1> DEFINE at == s.list[place].at
           signed == Other!IsSigned(s.list[place])
           old == s.list
           associated == Other!AssociateGop(s, place)
           list == associated.list
           t == Other!VerifyIndividualHashes(associated, place)
           new == t.list
<1>1. ListOK(old) /\ at # 0 /\ place \in DOMAIN old /\ signed \in BOOLEAN
  BY SeqFacts, SeiAtIs, SignedIsBoolean DEF Typed, ListOK
<1>2. Stems(old, list, at, FALSE) /\ associated.data = s.data
  BY AssociateGopStems
<1>3. ContinuesAt(s, associated, place)
  BY AssociateGopContinues
<1> HIDE DEF associated, t
<1>4. /\ Typed(associated) /\ SeiAt(list, place) /\ list[place].at = at
      /\ HasFields(associated, Fields) /\ ListOK(list) /\ associated.data.list \in Seq(Hash)
      /\ associated.numNalus \in Int
  BY <1>3 DEF ContinuesAt, Continues, Typed, SeiData
<1>5. place \in DOMAIN list
  BY <1>4 DEF SeiAt
<1>6. Continues(associated, t) /\ t.data = associated.data
  <2>1. /\ Reshaped(list, t.list) /\ t.numNalus \in Int
        /\ t.data = associated.data /\ t.anchor = associated.anchor
    BY <1>4, VerifyIndividualHashesKeeps DEF t
  <2>2. HasFields(t, Fields)
    BY <1>4, VerifyIndividualHashesFrame DEF SameFrame, t
  <2> QED
    BY <1>4, <2>1, <2>2, RelistedContinues DEF Relisted
<1>7. Honest(list)
  BY <1>2, StemsKeep
<1>8. Other!IsSigned(list[place]) <=> signed
  <2> HIDE DEF list, at, signed, old
  <2>1. Other!IsSigned(list[place]) <=> Other!IsSigned(old[place])
    BY <1>1, <1>2, <1>4, <1>5, StemsSameSei DEF at, old
  <2> QED
    BY <2>1 DEF signed, old
<1>9. Other!IsSigned(list[place]) = signed
  <2>1. Other!IsSigned(list[place]) \in BOOLEAN
    BY <1>4, SignedIsBoolean
  <2> HIDE DEF signed
  <2> QED
    BY <1>1, <1>8, <2>1
<1>10. Stems(list, new, at, signed) /\ Doubted(new, at)
  <2>1. TrueHashes(associated.data.list)
    BY <1>2 DEF TrueData
  <2>2. /\ Stems(list, new, list[place].at, Other!IsSigned(list[place]))
        /\ Doubted(new, list[place].at)
    BY <1>4, <1>7, <2>1, VerifyIndividualHashesStems DEF t
  <2> HIDE DEF list, at, signed, new
  <2> QED
    BY <1>4, <1>9, <2>2
<1>11. Stems(old, new, at, signed)
  <2> HIDE DEF old, list, at, signed, new
  <2>1. Stems(old, list, at, signed)
    BY <1>1, <1>2, StemsLoud
  <2> QED
    BY <1>1, <1>10, <2>1, StemsTwice
<1>12. Continues(s, t)
  BY <1>3, <1>6, ContinuesTwice DEF ContinuesAt
<1> QED
  BY <1>2, <1>6, <1>10, <1>11, <1>12 DEF t, associated

(* If the GOP hash is equal to that of the SEI all its hashes are true,    *)
(* so none of the items is a changed one; if it is not, either each item   *)
(* is verified on its own or the whole GOP becomes invalid.                *)
LEMMA VerifyWithSeiStems ==
  ASSUME NEW s, Typed(s), NEW place, SeiAt(s.list, place), Honest(s.list), TrueData(s.data),
         CoveredBut(s.list, s.list[place].at),
         TrueHashes(s.gopHash) => Doubted(s.list, s.list[place].at),
         Other!IsSigned(s.list[place]) \/ Open(s.list, s.list[place].at)
  PROVE  LET at == s.list[place].at
             t == Other!VerifyWithSei(s, place)
         IN  /\ Stems(s.list, t.list, at, Other!IsSigned(s.list[place]))
             /\ Doubted(t.list, at) /\ t.data = s.data
<1> DEFINE sei == s.list[place]
           at == sei.at
           old == s.list
           signed == Other!IsSigned(sei)
           verified == Other!VerifyIndividualHashes(Other!AssociateGop(s, place), place)
           num == s.data.numNalus - s.numNalus
           filled == Other!AddMissingAtEnd(s.list, num, at)
           t == Other!VerifyWithSei(s, place)
           IsOf(u) == Stems(old, u.list, at, signed) /\ Doubted(u.list, at) /\ u.data = s.data
<1>1. PICK valid \in BOOLEAN, linkOk \in BOOLEAN :
        /\ valid => s.gopHash = s.data.gopHash
        /\ \/ ~signed /\ t = verified
           \/ signed /\ t = [verified EXCEPT !.list = Other!MarkAssociated(@, TRUE, linkOk, at)]
           \/ t = [s EXCEPT !.list = Other!MarkAssociated(filled, valid, linkOk, at)]
  <2> DEFINE gopHashOk == s.gopHash = s.data.gopHash
             link == s.linked[1] \in {s.data.linked, <<>>}
             maybeOk == signed => sei.verified
             isGood == IF gopHashOk /\ maybeOk THEN TRUE ELSE FALSE
  <2>1. HasFields(s, Fields)
    BY DEF Typed
  <2>2. \/ ~signed /\ t = verified
        \/ signed /\ t = [verified EXCEPT !.list = Other!MarkAssociated(@, TRUE, link, at)]
        \/ t = [s EXCEPT !.list = Other!MarkAssociated(
                          Other!AddMissingAtEnd(@, s.data.numNalus - s.numNalus, at),
                          gopHashOk /\ maybeOk, link, at)]
    BY DEF Other!VerifyWithSei
  <2>3. (gopHashOk /\ maybeOk) = isGood
    OBVIOUS
  <2>4. isGood => gopHashOk
    OBVIOUS
  <2> HIDE DEF isGood, maybeOk, link, signed, verified, t
  <2>5. \/ ~signed /\ t = verified
        \/ signed /\ t = [verified EXCEPT !.list = Other!MarkAssociated(@, TRUE, link, at)]
        \/ t = [s EXCEPT !.list = Other!MarkAssociated(filled, isGood, link, at)]
    BY <2>1, <2>2, <2>3, FieldsAre DEF HasFields
  <2>6. isGood \in BOOLEAN /\ link \in BOOLEAN
    BY DEF isGood, link
  <2> HIDE DEF gopHashOk
  <2> QED
    BY <2>4, <2>5, <2>6 DEF gopHashOk
<1>2. /\ s.list \in Seq(SoundItems) /\ ListOK(old) /\ at \in Arrived(old) /\ num \in Int
      /\ HasFields(s, Fields) /\ at # 0
  BY SeiAtIs DEF Typed, ListOK, SeiData
<1>3. signed \in BOOLEAN
  BY <1>2, SignedIsBoolean
<1>4. IsOf(verified) /\ Continues(s, verified)
  BY VerifiedOfGop
<1>5. ListOK(verified.list) /\ at \in Arrived(verified.list) /\ HasFields(verified, Fields)
  BY <1>2, <1>4 DEF Continues, Typed
<1> HIDE DEF verified, t, signed, num
<1>6. CASE ~signed /\ t = verified
  BY <1>4, <1>6 DEF t, signed
<1>7. CASE signed /\ t = [verified EXCEPT !.list = Other!MarkAssociated(@, TRUE, linkOk, at)]
  <2> DEFINE list == verified.list
             new == Other!MarkAssociated(list, TRUE, linkOk, at)
  <2>1. t.list = new /\ t.data = verified.data
    <3> HIDE DEF at
    <3> QED
      BY <1>5, <1>7, FieldsAre DEF HasFields
  <2>2. Stems(old, list, at, TRUE) /\ Doubted(list, at)
    BY <1>3, <1>4, <1>7
  <2>3. Honest(old) /\ CoveredBut(old, at)
    OBVIOUS
  <2>4. Stems(old, new, at, TRUE) /\ Doubted(new, at)
    <3> HIDE DEF list, old, at
    <3> QED
      BY <1>5, <2>2, <2>3, MarkedStems DEF list
  <2> HIDE DEF new, old, at
  <2> QED
    BY <1>3, <1>4, <1>7, <2>1, <2>4 DEF t, old, at, signed
<1>8. CASE t = [s EXCEPT !.list = Other!MarkAssociated(filled, valid, linkOk, at)]
  <2> DEFINE new == Other!MarkAssociated(filled, valid, linkOk, at)
  <2>1. t.list = new /\ t.data = s.data
    <3>1. t = [s EXCEPT !.list = new]
      BY <1>8
    <3> HIDE DEF new
    <3> QED
      BY <1>2, <3>1, FieldsAre DEF HasFields
  <2>2. Reshaped(old, filled)
    BY <1>2, AddMissingAtEndKeeps
  <2>3. FromList(old, filled, at)
    BY <1>2, AddMissingFrom
  <2> HIDE DEF filled
  <2>4. /\ Stems(old, filled, at, FALSE)
        /\ Doubted(old, at) => Doubted(filled, at)
        /\ Open(old, at) => Open(filled, at)
    BY <1>2, <2>3, FromListStems
  <2>5. valid => Doubted(old, at)
    BY <1>1 DEF TrueData
  <2>6. Honest(old) /\ CoveredBut(old, at) /\ (signed \/ Open(old, at))
    BY DEF signed
  <2>7. ListOK(filled) /\ at \in Arrived(filled)
    BY <1>2, <2>2 DEF Reshaped
  <2>8. Stems(old, new, at, signed) /\ Doubted(new, at)
    <3> HIDE DEF old, at, new
    <3>1. Stems(old, filled, at, signed)
      BY <1>3, <2>4, StemsLoud
    <3>2. signed \/ Open(filled, at)
      BY <2>4, <2>6
    <3>3. valid => Doubted(filled, at)
      BY <2>4, <2>5
    <3> QED
      BY <1>3, <2>6, <2>7, <3>1, <3>2, <3>3, MarkedStems DEF new
  <2> HIDE DEF new, old, at
  <2> QED
    BY <2>1, <2>8 DEF t, old, at, signed
<1> QED
  BY <1>1, <1>6, <1>7, <1>8

-----------------------------------------------------------------------------
(* The verdict.                                                            *)

(* What the verdict makes of the list: it is taken back in the first       *)
(* validation only, and then its SEI is associated with nothing any more.  *)
Decides(s, verified, sei, t) ==
  /\ HasFields(t, Fields) /\ t.data = verified.data
  /\ \/ t.list = verified.list /\ t.resetFirst = verified.resetFirst
     \/ s.isFirstValidation /\ t.list = Other!RemoveAssociation(verified.list, sei)

LEMMA JudgeDecides ==
  ASSUME NEW s, NEW verified, HasFields(verified, Fields), verified.resetFirst \in BOOLEAN,
         NEW place, NEW sei
  PROVE  Decides(s, verified, sei, Other!Judge(s, verified, place, sei))
<1> DEFINE t == Other!Judge(s, verified, place, sei)
           hasValid == Other!HasValid(verified.list, sei)
           new == Other!NumInvalid(verified.list, sei) - s.numInvalid
           invalid == IF new < 0 THEN 0 ELSE new
           result == IF invalid > 0 THEN Other!NotOk
                     ELSE IF Other!NumMissed(verified.list, sei) > 0
                     THEN Other!OkWithMissing ELSE Other!Ok
           isSynced == s.inSync \/ hasValid
                         \/ (s.data.linked # <<>> /\ verified.linked[1] = s.data.linked)
           reverted == s.isFirstValidation /\ ~isSynced /\ result # Other!Ok /\ ~hasValid
           expected == IF reverted \/ s.lost # 0 THEN -1 ELSE s.data.numNalus
           received == IF reverted THEN -1 ELSE verified.numNalus
           final == IF s.latest.keyChanged THEN Other!NotOk
                    ELSE IF reverted THEN Other!NotFeasible ELSE result
           newList == IF reverted THEN Other!RemoveAssociation(verified.list, sei)
                                  ELSE verified.list
           newLinked == IF reverted /\ sei # 0 /\ ~Other!IsSigned(s.list[place])
                        THEN <<verified.linked[1], verified.linked[1]>> ELSE verified.linked
           newInvalid == verified.numInvalid + invalid
           newReset == verified.resetFirst \/ reverted
           newLatest == [verified.latest EXCEPT
              !.authenticity = Other!Worse(@, final),
              !.received = @ + received,
              !.expected = IF s.lost > 0 THEN -1 ELSE IF @ = -1 THEN -1 ELSE @ + expected]
           newCurrent == IF s.lost >= 0 /\ isSynced THEN s.data.counter ELSE verified.current
           newLost == IF s.lost < 0 THEN verified.lost
                      ELSE IF isSynced THEN 0
                      ELSE Other!AsInt(s.data.counter - verified.current - 1)
<1>1. t = [verified EXCEPT
            !.list = IF reverted THEN Other!RemoveAssociation(@, sei) ELSE @,
            !.linked = IF reverted /\ sei # 0 /\ ~Other!IsSigned(s.list[place])
                       THEN <<@[1], @[1]>> ELSE @,
            !.numInvalid = @ + invalid,
            !.inSync = isSynced,
            !.resetFirst = @ \/ reverted,
            !.latest = [verified.latest EXCEPT
              !.authenticity = Other!Worse(@, final),
              !.received = @ + received,
              !.expected = IF s.lost > 0 THEN -1 ELSE IF @ = -1 THEN -1 ELSE @ + expected],
            !.current = IF s.lost >= 0 /\ isSynced THEN s.data.counter ELSE @,
            !.lost = IF s.lost < 0 THEN @
                     ELSE IF isSynced THEN 0
                     ELSE Other!AsInt(s.data.counter - verified.current - 1)]
  BY Zenon DEF Other!Judge
<1>2. reverted => s.isFirstValidation
  OBVIOUS
<1> HIDE DEF isSynced, reverted, invalid, final, received, expected, t
<1>3. t = [verified EXCEPT !.list = newList, !.linked = newLinked,
                !.numInvalid = newInvalid, !.inSync = isSynced, !.resetFirst = newReset,
                !.latest = newLatest, !.current = newCurrent, !.lost = newLost]
  BY <1>1
<1>4. \/ newList = verified.list /\ newReset = verified.resetFirst
      \/ s.isFirstValidation /\ newList = Other!RemoveAssociation(verified.list, sei)
  <2>1. CASE reverted
    BY <1>2, <2>1
  <2>2. CASE ~reverted
    <3>1. newList = verified.list
      BY <2>2
    <3>2. newReset <=> verified.resetFirst
      BY <2>2
    <3>3. newReset \in BOOLEAN
      OBVIOUS
    <3> HIDE DEF newReset
    <3>4. newReset = verified.resetFirst
      BY <3>2, <3>3
    <3> QED
      BY <3>1, <3>4
  <2> QED
    BY <2>1, <2>2
<1> HIDE DEF newList, newLinked, newInvalid, newReset, newLatest, newCurrent, newLost
<1>5. /\ HasFields(t, Fields) /\ t.list = newList /\ t.data = verified.data
      /\ t.resetFirst = newReset
  BY ONLY HasFields(verified, Fields), <1>3, FieldsAre DEF HasFields
<1> QED
  BY <1>4, <1>5 DEF Decides, t

(* A list that is free stays free when associations are removed.           *)
LEMMA FreeStaysFree ==
  ASSUME NEW list, ListOK(list), Honest(list), AllFree(list), NEW sei
  PROVE  LET new == Other!RemoveAssociation(list, sei)
         IN  Honest(new) /\ AllFree(new)
<1> DEFINE new == Other!RemoveAssociation(list, sei)
<1>1. Stems(list, new, 1, FALSE) /\ Stems(list, new, 2, FALSE)
  <2>1. \A at : at # 0 => Stems(list, new, at, FALSE)
    BY RemoveAssociationStems, Zenon
  <2> HIDE DEF new
  <2>2. 1 # 0 /\ 2 # 0
    OBVIOUS
  <2> QED
    BY <2>1, <2>2
<1> HIDE DEF new
<1>2. Near(list, 1) /\ Near(list, 2)
  BY DEF AllFree, Near
<1>3. Honest(new) /\ Near(new, 1) /\ Near(new, 2)
  BY <1>1, <1>2, StemsKeep
<1>4. AllFree(new)
  BY <1>3 DEF AllFree, Near
<1> QED
  BY <1>3, <1>4 DEF new

LEMMA FreeIsCovered ==
  ASSUME NEW list, AllFree(list)
  PROVE  ListCovered(list)
BY DEF AllFree, ListCovered, CoveredBut

(* A SEI that is not associated with anything any more.                    *)
LEMMA FreedOfSei ==
  ASSUME NEW list, ListOK(list), Honest(list), NEW at, at # 0, CoveredBut(list, at)
  PROVE  LET new == Other!RemoveAssociation(list, at)
         IN  /\ Honest(new) /\ ListCovered(new)
             /\ Near(list, at) => AllFree(new)
<1> DEFINE new == Other!RemoveAssociation(list, at)
<1>1. Stems(list, new, at, FALSE) /\ \A k \in DOMAIN new : new[k].sei # at
  BY RemoveAssociationStems
<1> HIDE DEF new
<1>2. Honest(new) /\ CoveredBut(new, at) /\ (Near(list, at) => Near(new, at))
  BY <1>1, StemsKeep
<1>3. ListCovered(new)
  BY <1>1, <1>2 DEF ListCovered, CoveredBut
<1>4. Near(new, at) => AllFree(new)
  BY <1>1 DEF Near, AllFree
<1> QED
  BY <1>2, <1>3, <1>4 DEF new

(* A list whose items are associated with no SEI but the one in            *)
(* validation, which could not tell that an item was not changed.          *)
Clear(list) ==
  \E at : at # 0 /\ Near(list, at) /\ Doubted(list, at)
            /\ (Closed(list, at) \/ Fresh(list, at))

(* After the verdict on a SEI, free if nothing was associated with any SEI *)
(* before.                                                                 *)
IsValidated(free, v) ==
  /\ IsTrue(v)
  /\ free => Clear(v.list)
  /\ v.resetFirst => AllFree(v.list)

LEMMA FreeIsClear ==
  ASSUME NEW list, AllFree(list)
  PROVE  Clear(list)
<1>1. Near(list, 1) /\ Doubted(list, 1) /\ Fresh(list, 1)
  BY DEF AllFree, Near, Doubted, Fresh
<1> QED
  BY <1>1 DEF Clear

(* Between a lost SEI and the next one.                                    *)
LEMMA VerifiedWithoutSei ==
  ASSUME NEW s, Typed(s), NEW at, at # 0, Honest(s.list), CoveredBut(s.list, at)
  PROVE  LET t == Other!VerifyWithoutSei(s, at)
         IN  /\ Honest(t.list) /\ ListCovered(t.list) /\ t.data = s.data
             /\ Near(s.list, at) => AllFree(t.list)
<1> DEFINE old == s.list
           list == Other!RemoveAssociation(old, at)
           free == [s EXCEPT !.list = list]
           t == Other!VerifyWithoutSei(s, at)
<1>1. HasFields(s, Fields) /\ ListOK(old)
  BY DEF Typed
<1>2. Reshaped(old, list)
  BY <1>1, RemoveAssociationKeeps
<1>3. Honest(list) /\ ListCovered(list) /\ (Near(old, at) => AllFree(list))
  BY <1>1, FreedOfSei
<1> HIDE DEF list
<1>4. HasFields(free, Fields) /\ free.list = list /\ free.data = s.data
  BY ONLY <1>1, FieldsAre DEF HasFields
<1>5. PICK skip, current :
        t = [free EXCEPT !.list = Other!VerifyHashesWithoutSei(free, skip).list,
                         !.current = current]
  BY <1>4, FieldsAre DEF Other!VerifyWithoutSei, HasFields, list
<1> HIDE DEF free, t
<1> DEFINE verified == Other!VerifyHashesWithoutSei(free, skip).list
<1>6. AllStem(list, verified, 0, TRUE)
  <2>1. ListOK(free.list) /\ Honest(free.list) /\ ListCovered(free.list)
    BY <1>2, <1>3, <1>4 DEF Reshaped
  <2>2. AllStem(free.list, Other!VerifyHashesWithoutSei(free, skip).list, 0, TRUE)
    BY <2>1, VerifyHashesWithoutSeiStems
  <2> QED
    BY <1>4, <2>2
<1> HIDE DEF verified
<1>7. t = [free EXCEPT !.list = verified, !.current = current]
  BY <1>5 DEF verified
<1>8. t.list = verified /\ t.data = free.data
  BY ONLY <1>4, <1>7, FieldsAre DEF HasFields
<1>9. Stems(list, verified, 0, TRUE)
  BY <1>6, AllStemStems
<1>10. Honest(verified) /\ ListCovered(verified) /\ (AllFree(list) => AllFree(verified))
  <2>1. /\ Honest(verified) /\ (CoveredBut(list, 0) => CoveredBut(verified, 0))
        /\ Near(list, 0) => Near(verified, 0)
    BY <1>3, <1>9, StemsKeep
  <2>2. \A x : AllFree(x) <=> Near(x, 0)
    BY DEF AllFree, Near
  <2> QED
    BY <1>3, <2>1, <2>2 DEF ListCovered
<1> QED
  BY <1>3, <1>4, <1>8, <1>10 DEF t, old

(* The verdict on a GOP whose SEI was lost, and on one whose SEI is        *)
(* there.                                                                  *)
LEMMA ValidatedWithoutSei ==
  ASSUME NEW s, NEW p, NEW place, IsPrepared(s, p, place), p.resetFirst = FALSE,
         p.isFirstValidation => AllFree(s.list)
  PROVE  IsValidated(AllFree(s.list),
                     Other!Judge(p, Other!VerifyWithoutSei(p, p.list[place].at), place, 0))
<1> DEFINE at == p.list[place].at
           u == Other!VerifyWithoutSei(p, at)
           v == Other!Judge(p, u, place, 0)
           old == p.list
           list == u.list
<1>1. /\ Typed(p) /\ HasFields(p, Fields) /\ at = s.list[place].at /\ at # 0
      /\ Honest(old) /\ CoveredBut(old, at) /\ TrueData(p.data)
      /\ AllFree(s.list) => Near(old, at)
  BY SeiAtIs DEF IsPrepared, Typed, ListOK
<1> HIDE DEF at
<1>2. /\ Honest(list) /\ ListCovered(list) /\ u.data = p.data
      /\ Near(old, at) => AllFree(list)
  BY <1>1, VerifiedWithoutSei
<1>3. SameFrame(p, u) /\ Continues(p, u)
  BY <1>1, VerifyWithoutSeiFrame, VerifyWithoutSeiContinues
<1> HIDE DEF u
<1>4. HasFields(u, Fields) /\ u.resetFirst = FALSE /\ ListOK(list)
  BY <1>3 DEF SameFrame, Frame, Continues, Typed
<1>5. Decides(p, u, 0, v)
  BY <1>4, JudgeDecides
<1> HIDE DEF v, list, old
<1>6. CASE v.list = list /\ v.resetFirst = u.resetFirst
  <2>1. IsTrue(v)
    BY <1>1, <1>2, <1>5, <1>6 DEF IsTrue, Decides
  <2>2. AllFree(s.list) => Clear(v.list)
    BY <1>1, <1>2, <1>6, FreeIsClear
  <2> QED
    BY <1>4, <1>6, <2>1, <2>2 DEF IsValidated, v, u, at
<1>7. CASE p.isFirstValidation /\ v.list = Other!RemoveAssociation(list, 0)
  <2>1. AllFree(list)
    BY <1>1, <1>2, <1>7
  <2>2. Honest(v.list) /\ AllFree(v.list)
    BY <1>2, <1>4, <1>7, <2>1, FreeStaysFree
  <2>3. IsTrue(v)
    BY <1>1, <1>2, <1>5, <2>2, FreeIsCovered DEF IsTrue, Decides
  <2>4. Clear(v.list)
    BY <2>2, FreeIsClear
  <2> QED
    BY <2>2, <2>3, <2>4 DEF IsValidated, v, u, at
<1> QED
  BY <1>5, <1>6, <1>7 DEF Decides, list

LEMMA ValidatedWithSei ==
  ASSUME NEW s, NEW p, NEW place, IsPrepared(s, p, place), p.resetFirst = FALSE,
         p.lost = 0, p.isFirstValidation => AllFree(s.list)
  PROVE  IsValidated(AllFree(s.list),
                     Other!Judge(p, Other!VerifyWithSei(p, place), place, p.list[place].at))
<1> DEFINE at == p.list[place].at
           u == Other!VerifyWithSei(p, place)
           v == Other!Judge(p, u, place, at)
           old == p.list
           list == u.list
           signed == Other!IsSigned(old[place])
<1>1. /\ Typed(p) /\ HasFields(p, Fields) /\ at = s.list[place].at /\ at # 0
      /\ Honest(old) /\ CoveredBut(old, at) /\ TrueData(p.data) /\ SeiAt(old, place)
      /\ TrueHashes(p.gopHash) => Doubted(old, at)
      /\ AllFree(s.list) => Near(old, at) /\ Fresh(old, at)
      /\ signed => Closed(old, at)
      /\ ~signed => Open(old, at)
  BY SeiAtIs DEF IsPrepared, Typed, ListOK
<1>2. Stems(old, list, at, signed) /\ Doubted(list, at) /\ u.data = p.data
  BY <1>1, VerifyWithSeiStems
<1>3. SameFrame(p, u) /\ Continues(p, u)
  BY <1>1, VerifyWithSeiFrame, VerifyWithSeiContinues
<1>4. signed \in BOOLEAN
  BY <1>1, SignedIsBoolean DEF Typed
<1> HIDE DEF at, u
<1>5. HasFields(u, Fields) /\ u.resetFirst = FALSE /\ ListOK(list)
  BY <1>3 DEF SameFrame, Frame, Continues, Typed
<1>6. Decides(p, u, at, v)
  BY <1>5, JudgeDecides
<1> HIDE DEF v, list, old, signed
<1>7. /\ Honest(list) /\ CoveredBut(list, at) /\ (Near(old, at) => Near(list, at))
      /\ ~signed /\ Fresh(old, at) => Fresh(list, at)
      /\ Closed(old, at) => Closed(list, at)
  BY <1>1, <1>2, <1>4, StemsKeep
<1>8. AllFree(s.list) => Clear(list)
  BY <1>1, <1>2, <1>7 DEF Clear
<1>9. CASE v.list = list /\ v.resetFirst = u.resetFirst
  <2>1. ListCovered(list)
    BY <1>2, <1>7 DEF ListCovered, CoveredBut, Doubted
  <2>2. IsTrue(v)
    BY <1>1, <1>2, <1>6, <1>7, <1>9, <2>1 DEF IsTrue, Decides
  <2> QED
    BY <1>5, <1>8, <1>9, <2>2 DEF IsValidated, v, u, at
<1>10. CASE p.isFirstValidation /\ v.list = Other!RemoveAssociation(list, at)
  <2>1. Near(list, at)
    BY <1>1, <1>7, <1>10
  <2>2. Honest(v.list) /\ ListCovered(v.list) /\ AllFree(v.list)
    BY <1>1, <1>5, <1>7, <1>10, <2>1, FreedOfSei
  <2>3. IsTrue(v)
    BY <1>1, <1>2, <1>6, <2>2 DEF IsTrue, Decides
  <2>4. Clear(v.list)
    BY <2>2, FreeIsClear
  <2> QED
    BY <2>2, <2>3, <2>4 DEF IsValidated, v, u, at
<1> QED
  BY <1>6, <1>9, <1>10 DEF Decides, list

(* The SEI to validate next, as nalu_list_get_next_sei_item() finds it.    *)
IsNext(list, place) ==
  /\ SeiAt(list, place)
  /\ list[place].tmp = Other!Pending /\ list[place].ifSeiOk = Other!Unset

LEMMA ValidateNextIs ==
  ASSUME NEW s, NEW trusted, IsReady(s, trusted), Typed(s), IsTrue(s), NEW place,
         s.signingPresent => IsNext(s.list, place),
         s.isFirstValidation => AllFree(s.list)
  PROVE  IsValidated(AllFree(s.list), Other!ValidateNext(s, place))
<1> DEFINE v == Other!ValidateNext(s, place)
<1>1. CASE ~s.signingPresent
  <2>1. HasFields(s, Fields)
    BY DEF Typed
  <2>2. \E latest : v = [s EXCEPT !.latest = latest]
    BY <1>1, <2>1, FieldsAre DEF Other!ValidateNext, HasFields
  <2> HIDE DEF v
  <2>3. v.list = s.list /\ v.data = s.data /\ v.resetFirst = s.resetFirst
    BY ONLY <2>1, <2>2, FieldsAre DEF HasFields
  <2>4. s.resetFirst = FALSE
    BY DEF IsReady
  <2>5. IsTrue(v)
    BY <2>3 DEF IsTrue
  <2> QED
    BY <2>3, <2>4, <2>5, FreeIsClear DEF IsValidated, v
<1>2. CASE s.signingPresent
  <2> DEFINE prepared == Other!PrepareForValidation(s, place)
             p == prepared.s
  <2>1. /\ prepared.isCertificate \in BOOLEAN
        /\ Follows(s, p) /\ p.resetFirst = FALSE
    BY PrepareForValidationKeeps DEF IsReady
  <2>2. /\ prepared.isCertificate => IsTrue(p) /\ (AllFree(s.list) => AllFree(p.list))
        /\ ~prepared.isCertificate => IsPrepared(s, p, place)
    BY <1>2, PrepareStems DEF IsNext
  <2>3. v = IF prepared.isCertificate THEN p ELSE Other!ValidateAuthenticity(p, place)
    BY <1>2 DEF Other!ValidateNext
  <2>4. p.isFirstValidation => AllFree(s.list)
    BY <2>1 DEF Follows
  <2> HIDE DEF prepared, p, v
  <2>5. CASE prepared.isCertificate
    BY <2>1, <2>2, <2>3, <2>5, FreeIsClear DEF IsValidated, v
  <2>6. CASE ~prepared.isCertificate /\ p.lost = 0
    <3>1. v = Other!Judge(p, Other!VerifyWithSei(p, place), place, p.list[place].at)
      BY <2>3, <2>6 DEF Other!ValidateAuthenticity
    <3> QED
      BY <2>1, <2>2, <2>4, <2>6, <3>1, ValidatedWithSei DEF v
  <2>7. CASE ~prepared.isCertificate /\ p.lost # 0
    <3>1. v = Other!Judge(p, Other!VerifyWithoutSei(p, p.list[place].at), place, 0)
      BY <2>3, <2>7 DEF Other!ValidateAuthenticity
    <3> QED
      BY <2>1, <2>2, <2>4, <2>7, <3>1, ValidatedWithoutSei DEF v
  <2> QED
    BY <2>5, <2>6, <2>7
<1> QED
  BY <1>1, <1>2

(* Nothing of this changes when the start of a validation is noted.        *)
LEMMA StartValidationIs ==
  ASSUME NEW s, Typed(s), IsTrue(s), NEW keyChanged
  PROVE  LET t == Other!StartValidation(s, keyChanged)
         IN  IsTrue(t) /\ (AllFree(s.list) => AllFree(t.list))
<1> DEFINE k == Other!SeiInValidation(s.list)
           item == [s.list[k] EXCEPT !.inValidation = FALSE]
           list == Other!WithItem(s.list, k, item)
           latest == [s.latest EXCEPT !.authenticity = Other!NotFeasible,
                                      !.keyChanged = keyChanged, !.expected = 0,
                                      !.received = 0, !.pending = -1]
           begun == [s EXCEPT !.latest = latest, !.numInvalid = 0]
           t == Other!StartValidation(s, keyChanged)
<1>1. t = s \/ t = begun \/ (k # 0 /\ t = [begun EXCEPT !.list = list])
  <2> DEFINE x == [begun EXCEPT !.list = Other!WithItem(@, k, [@[k] EXCEPT !.inValidation = FALSE])]
  <2>1. t = IF s.waiting \/ s.hasResult THEN s ELSE IF k = 0 THEN begun ELSE x
    BY DEF Other!StartValidation
  <2>2. x = [begun EXCEPT !.list = list]
    BY FieldsAre DEF Typed, HasFields
  <2> HIDE DEF x, begun, t
  <2> QED
    BY <2>1, <2>2
<1>2. HasFields(s, Fields) /\ ListOK(s.list) /\ s.list \in Seq(SoundItems)
  BY DEF Typed, ListOK
<1> HIDE DEF t, latest
<1>3. HasFields(begun, Fields) /\ begun.list = s.list /\ begun.data = s.data
  BY ONLY <1>2, FieldsAre DEF HasFields
<1> HIDE DEF begun
<1>4. t.data = s.data /\ (t.list = s.list \/ (k # 0 /\ t.list = list))
  <2> HIDE DEF list, k
  <2> QED
    BY ONLY <1>1, <1>3, FieldsAre DEF HasFields
<1>5. ASSUME k # 0 PROVE AllStem(s.list, list, 0, FALSE)
  <2>1. k \in DOMAIN s.list /\ s.list[k] \in SoundItems
    BY <1>2, <1>5, SeiInValidationIs
  <2>2. s.list[k] \in Items
    BY <2>1, ItemTyped
  <2>3. /\ item.at = s.list[k].at /\ item.nalu = s.list[k].nalu /\ item.hash = s.list[k].hash
        /\ item.status = s.list[k].status /\ item.sei = s.list[k].sei
        /\ item.tmp = s.list[k].tmp /\ item.ifSeiOk = s.list[k].ifSeiOk
    BY ONLY <2>2 DEF Items
  <2> HIDE DEF item
  <2>4. Stem(s.list[k], item, 0, FALSE)
    BY <2>3 DEF Stem
  <2>5. /\ DOMAIN list = DOMAIN s.list
        /\ \A j \in DOMAIN s.list : list[j] = IF j = k THEN item ELSE s.list[j]
    BY DEF Other!WithItem
  <2> HIDE DEF list
  <2> QED
    BY <2>4, <2>5, StemItself DEF AllStem
<1>6. CASE t.list = s.list
  BY <1>4, <1>6 DEF IsTrue, t
<1>7. CASE k # 0 /\ t.list = list
  <2>1. Stems(s.list, list, 0, FALSE)
    BY <1>5, <1>7, AllStemStems
  <2>2. Honest(s.list) /\ ListCovered(s.list)
    BY DEF IsTrue
  <2> HIDE DEF list, k
  <2>3. /\ Honest(list) /\ (CoveredBut(s.list, 0) => CoveredBut(list, 0))
        /\ Near(s.list, 0) => Near(list, 0)
    BY <2>1, <2>2, StemsKeep
  <2>4. \A x : AllFree(x) <=> Near(x, 0)
    BY DEF AllFree, Near
  <2>5. IsTrue(t)
    BY <1>4, <1>7, <2>2, <2>3 DEF IsTrue, ListCovered
  <2> QED
    BY <1>7, <2>3, <2>4, <2>5 DEF t
<1> QED
  BY <1>4, <1>6, <1>7

(* A stream without SEIs is not verified.                                  *)
LEMMA UnsignedKeepsList ==
  ASSUME NEW s, HasFields(s, Fields), NEW place, ~s.signingPresent
  PROVE  Other!ValidateNext(s, place).list = s.list
<1> DEFINE v == Other!ValidateNext(s, place)
<1>1. \E latest : v = [s EXCEPT !.latest = latest]
  BY FieldsAre DEF Other!ValidateNext, HasFields
<1> HIDE DEF v
<1>2. v.list = s.list
  BY ONLY HasFields(s, Fields), <1>1, FieldsAre DEF HasFields
<1> QED
  BY <1>2 DEF v

-----------------------------------------------------------------------------
(* The end of a round: the SEI gets its status from the list.              *)

(* In the first validation the SEI takes its former status back, so it     *)
(* may wait again: then what was associated with it is either settled or   *)
(* was never judged.                                                       *)
LEMMA StatusFetched ==
  ASSUME NEW list, ListOK(list), Honest(list), Clear(list), NEW k \in DOMAIN list
  PROVE  LET new == Other!WithItem(list, k, [list[k] EXCEPT !.tmp = list[k].status])
         IN  /\ Honest(new) /\ ListCovered(new)
             /\ AllFree(list) => AllFree(new)
<1> DEFINE old == list[k]
           item == [old EXCEPT !.tmp = old.status]
           new == Other!WithItem(list, k, item)
<1>1. old \in SoundItems /\ old \in Items
  BY ItemTyped, SeqFacts DEF ListOK
<1> HIDE DEF old
<1>2. /\ item.at = old.at /\ item.nalu = old.nalu /\ item.hash = old.hash
      /\ item.status = old.status /\ item.sei = old.sei
      /\ item.tmp = old.status /\ item.ifSeiOk = old.ifSeiOk
  BY ONLY <1>1 DEF Items
<1>3. /\ DOMAIN new = DOMAIN list /\ new[k] = item
      /\ \A j \in DOMAIN list : j # k => new[j] = list[j]
  BY DEF Other!WithItem
<1> HIDE DEF item, new
<1>4. /\ Other!IsSigned(item) <=> Other!IsSigned(old)
      /\ Damaged(item) <=> Damaged(old)
  BY <1>2, SameNalu
<1>5. HonestItem(old)
  BY DEF Honest, old
<1>6. Honest(new)
  <2>1. HonestItem(item)
    BY <1>2, <1>4, <1>5 DEF HonestItem
  <2> QED
    BY <1>3, <2>1 DEF Honest
<1>7. PICK at : /\ at # 0 /\ Near(list, at) /\ Doubted(list, at)
                /\ Closed(list, at) \/ Fresh(list, at)
  BY DEF Clear
<1>8. ListCovered(new)
  <2>1. SUFFICES ASSUME NEW j \in DOMAIN list, Damaged(new[j]), new[j].tmp = Other!Pending,
                        new[j].sei # 0
                 PROVE  new[j].ifSeiOk = Other!Invalid \/ Closed(new, new[j].sei)
    BY <1>3 DEF ListCovered, CoveredBut
  <2>2. CASE j # k
    BY <1>3, <1>7, <2>1, <2>2 DEF Near, Doubted
  <2>3. CASE j = k
    <3>1. Damaged(old) /\ old.sei = at /\ old.at # 0 /\ new[j].sei = at
      BY <1>2, <1>3, <1>4, <1>7, <2>1, <2>3 DEF Near, old, Damaged
    <3>2. CASE Closed(list, at)
      <4>1. old.at # at
        BY <3>1, <3>2 DEF Closed, Damaged, old
      <4>2. Closed(new, at)
        BY <1>2, <1>3, <3>2, <4>1 DEF Closed
      <4> QED
        BY <3>1, <4>2
    <3>3. CASE Fresh(list, at)
      <4>1. old.tmp = Other!Pending
        BY <3>1, <3>3 DEF Fresh, old
      <4>2. old.ifSeiOk = Other!Invalid
        BY <1>7, <3>1, <4>1 DEF Doubted, old
      <4> QED
        BY <1>2, <1>3, <2>3, <4>2
    <3> QED
      BY <1>7, <3>2, <3>3
  <2> QED
    BY <2>2, <2>3
<1>9. AllFree(list) => AllFree(new)
  BY <1>2, <1>3 DEF AllFree, old
<1> QED
  BY <1>6, <1>8, <1>9 DEF new, item, old

(* Nothing is to be updated. *)
Agree(list) == \A k \in DOMAIN list : list[k].tmp = list[k].status

(* What is known between two rounds. *)
LoopIsTrue(acc) ==
  /\ IsTrue(acc.s)
  /\ acc.s.isFirstValidation => AllFree(acc.s.list)
  /\ acc.update \/ AllFree(acc.s.list) \/ Agree(acc.s.list)

LEMMA EndRoundIsTrue ==
  ASSUME NEW acc, NEW v, NEW nalu, Typed(v), HasFields(v.latest, LatestFields),
         v.hasResult \in BOOLEAN, NEW free, IsValidated(free, v),
         v.isFirstValidation => free, ~v.signingPresent => AllFree(v.list)
  PROVE  LoopIsTrue(Other!EndRound(acc, v, nalu))
<1> DEFINE k == Other!SeiInValidation(v.list)
           fetches == v.isFirstValidation /\ ~v.inSync /\ k # 0
           list == IF fetches
                   THEN Other!WithItem(v.list, k, [v.list[k] EXCEPT !.tmp = v.list[k].status])
                   ELSE v.list
           provenance == Other!Provenance(v)
           first == v.resetFirst \/ ~v.signingPresent
           firstSei == v.isFirstSei /\ nalu.kind # "sei"
           over == [v EXCEPT !.list = list, !.isFirstValidation = first,
                              !.isFirstSei = firstSei, !.resetFirst = FALSE,
                              !.latest.provenance = provenance]
           result == over.latest.authenticity
           pending == IF over.waiting THEN over.latest.pending
                      ELSE Other!NumPending(over.list)
           hasResult == IF result = Other!NotSigned THEN FALSE
                        ELSE IF result = Other!NotFeasible
                        THEN over.accumulated.authenticity # result
                        ELSE over.hasResult \/ ~over.waiting
           t == [over EXCEPT !.latest.pending = pending, !.hasResult = hasResult]
           update == acc.update \/ ~v.resetFirst
           new == Other!EndRound(acc, v, nalu)
<1>1. new.s = t /\ new.update = update
  BY DEF Other!EndRound
<1>2. /\ HasFields(v, Fields) /\ ListOK(v.list) /\ v.list \in Seq(SoundItems)
  BY DEF Typed, ListOK
<1>3. Ends(v, t)
  BY <1>1, <1>2, EndRoundIs
<1>4. /\ Honest(list) /\ ListCovered(list)
      /\ AllFree(v.list) => AllFree(list)
  <2>1. Honest(v.list) /\ ListCovered(v.list)
    BY DEF IsValidated, IsTrue
  <2>2. CASE fetches
    <3>1. k \in DOMAIN v.list
      BY <1>2, <2>2, SeiInValidationIs
    <3>2. Clear(v.list)
      BY <2>2 DEF IsValidated
    <3> HIDE DEF k
    <3>3. list = Other!WithItem(v.list, k, [v.list[k] EXCEPT !.tmp = v.list[k].status])
      BY <2>2
    <3> HIDE DEF list
    <3> QED
      BY <1>2, <2>1, <3>1, <3>2, <3>3, StatusFetched
  <2>3. CASE ~fetches
    BY <2>1, <2>3
  <2> QED
    BY <2>2, <2>3
<1> HIDE DEF list, provenance, first, firstSei, new, update
<1>5. HasFields(over, Fields) /\ over.list = list /\ over.data = v.data
  BY ONLY <1>2, FieldsAre DEF HasFields
<1> HIDE DEF over, pending, hasResult
<1>6. t.list = over.list /\ t.data = over.data
  BY ONLY <1>5, FieldsAre DEF HasFields
<1> HIDE DEF t
<1>7. IsTrue(t)
  BY <1>4, <1>5, <1>6 DEF IsTrue, IsValidated
<1>8. v.resetFirst \/ ~v.signingPresent => AllFree(t.list)
  BY <1>4, <1>5, <1>6 DEF IsValidated
<1>9. update \/ v.resetFirst
  BY DEF update
<1> QED
  BY <1>1, <1>3, <1>7, <1>8, <1>9 DEF LoopIsTrue, Ends, new

(* A round of the loop of maybe_validate_gop(), and all of them.           *)
LEMMA RoundIsTrue ==
  ASSUME NEW acc, NEW before, NEW trusted, NEW nalu, NEW numbers,
         IsInLoop(acc.s, before, trusted), LoopOK(acc, numbers), Other!HasPendingGop(acc.s),
         LoopIsTrue(acc)
  PROVE  LoopIsTrue(Other!Round(acc, nalu))
<1> DEFINE begun == Other!StartValidation(acc.s, acc.keyChanged)
           place == Other!NextSei(begun.list)
           validated == Other!ValidateNext(begun, place)
           t == Other!Round(acc, nalu)
<1>1. t = Other!EndRound(acc, validated, nalu)
  BY DEF Other!Round
<1>2. Follows(acc.s, begun) /\ IsReady(begun, trusted)
  BY StartValidationKeeps DEF IsInLoop
<1>3. Continues(acc.s, begun) /\ (Other!NextSei(begun.list) = 0 => Other!NextSei(acc.s.list) = 0)
  BY StartValidationContinues DEF LoopOK
<1>4. begun.signingPresent => IsNext(begun.list, place)
  <2>1. begun.signingPresent = acc.s.signingPresent
    BY <1>2 DEF Follows
  <2>2. acc.s.signingPresent => Other!NextSei(acc.s.list) # 0
    BY PendingGopHasSei DEF LoopOK
  <2>3. begun.list \in Seq(SoundItems)
    BY <1>3 DEF Continues, Typed, ListOK
  <2> HIDE DEF begun
  <2>4. place # 0 => IsNext(begun.list, place)
    BY <2>3, NextSeiIsAt, NextSeiIs DEF IsNext
  <2> QED
    BY <1>3, <2>1, <2>2, <2>4
<1>5. IsTrue(begun) /\ (AllFree(acc.s.list) => AllFree(begun.list))
  BY StartValidationIs DEF LoopOK, LoopIsTrue
<1> HIDE DEF begun, place
<1>6. Follows(begun, validated)
  BY <1>2, ValidateNextKeeps
<1>7. Continues(begun, validated)
  <2>1. begun.signingPresent => SeiAt(begun.list, place)
    BY <1>4 DEF IsNext
  <2> QED
    BY <1>3, <2>1, ValidateNextContinues DEF Continues
<1>8. begun.isFirstValidation => AllFree(begun.list)
  BY <1>2, <1>5 DEF Follows, LoopIsTrue
<1>9. IsValidated(AllFree(begun.list), validated)
  BY <1>2, <1>3, <1>4, <1>5, <1>8, ValidateNextIs DEF Continues
<1>10. ~validated.signingPresent => AllFree(validated.list)
  <2>1. /\ validated.signingPresent = acc.s.signingPresent
        /\ begun.signingPresent = acc.s.signingPresent
    BY <1>2, <1>6 DEF Follows
  <2>2. ~acc.s.signingPresent => acc.s.isFirstValidation
    BY DEF IsInLoop
  <2>3. ~begun.signingPresent => validated.list = begun.list
    BY <1>2, UnsignedKeepsList DEF IsReady, validated
  <2> HIDE DEF validated
  <2> QED
    BY <1>5, <2>1, <2>2, <2>3 DEF LoopIsTrue
<1> HIDE DEF validated
<1>11. /\ Typed(validated) /\ HasFields(validated.latest, LatestFields)
       /\ validated.hasResult \in BOOLEAN
       /\ validated.isFirstValidation => AllFree(begun.list)
  BY <1>2, <1>6, <1>7, <1>8 DEF Continues, Follows, IsInLoop
<1> QED
  BY <1>1, <1>9, <1>10, <1>11, EndRoundIsTrue

LEMMA RoundsAreTrue ==
  ASSUME NEW s, NEW trusted, NEW nalu, NEW numbers, IsInLoop(s, s, trusted),
         CallOK(s, numbers), IsTrue(s), Agree(s.list), s.isFirstValidation => AllFree(s.list)
  PROVE  LoopIsTrue(Other!Rounds(s, nalu)[10])
<1> DEFINE Step(acc) == IF Other!HasPendingGop(acc.s) /\ ~acc.stop
                        THEN Other!Round(acc, nalu) ELSE acc
           x0 == [s |-> s, update |-> FALSE, keyChanged |-> FALSE,
                  seiStatus |-> Other!Unknown, stop |-> FALSE]
           x1 == Step(x0)
           x2 == Step(x1)
           x3 == Step(x2)
           x4 == Step(x3)
           x5 == Step(x4)
           x6 == Step(x5)
           x7 == Step(x6)
           x8 == Step(x7)
           x9 == Step(x8)
           x10 == Step(x9)
           IsRounds(f) == f = [i \in 0..10 |-> IF i = 0 THEN x0 ELSE Step(f[i - 1])]
           f == Other!Rounds(s, nalu)
           Holds(acc) == IsInLoop(acc.s, s, trusted) /\ LoopOK(acc, numbers) /\ LoopIsTrue(acc)
<1>1. f = CHOOSE g : IsRounds(g)
  BY DEF Other!Rounds, Other!MaxLoop
<1>2. Holds(x0)
  BY DEF CallOK, LoopOK, KnownStatuses, LoopIsTrue
<1>3. \A acc : Holds(acc) => Holds(Step(acc))
  BY RoundKeeps, RoundLoops, RoundIsTrue
<1> HIDE DEF Step, x0, Holds
<1>4. \E g : IsRounds(g)
  <2> DEFINE g == <<x1, x2, x3, x4, x5, x6, x7, x8, x9, x10>>
             h == [i \in 0..10 |-> IF i = 0 THEN x0 ELSE g[i]]
  <2>1. \A i \in 1..10 : g[i] = Step(IF i = 1 THEN x0 ELSE g[i - 1])
    <3> TAKE i \in 1..10
    <3> QED
      OBVIOUS
  <2> HIDE DEF g
  <2>2. IsRounds(h)
    BY <2>1
  <2> QED
    BY <2>2
<1>5. IsRounds(f)
  <2> HIDE DEF IsRounds, f
  <2> QED
    BY <1>1, <1>4
<1> HIDE DEF f
<1>6. f[0] = x0 /\ \A i \in 1..10 : f[i] = Step(f[i - 1])
  BY <1>5
<1>7. /\ f[1] = Step(f[0]) /\ f[2] = Step(f[1]) /\ f[3] = Step(f[2])
      /\ f[4] = Step(f[3]) /\ f[5] = Step(f[4]) /\ f[6] = Step(f[5])
      /\ f[7] = Step(f[6]) /\ f[8] = Step(f[7]) /\ f[9] = Step(f[8])
      /\ f[10] = Step(f[9])
  BY ONLY <1>6
<1>8. Holds(f[10])
  BY ONLY <1>2, <1>3, <1>6, <1>7
<1> QED
  BY <1>8 DEF Holds, f

-----------------------------------------------------------------------------
(* The end of a call.                                                      *)

(* The statuses become those that were found, or these are taken back.     *)
LEMMA StatusesUpdated ==
  ASSUME NEW list, ListOK(list), Honest(list), ListCovered(list), NEW update,
         update \/ AllFree(list) \/ Agree(list)
  PROVE  LET new == Other!UpdateStatus(list, update)
         IN  /\ Honest(new) /\ ListCovered(new) /\ Agree(new)
             /\ AllFree(list) => AllFree(new)
<1> DEFINE new == Other!UpdateStatus(list, update)
           Updated(item) == [item EXCEPT !.status = item.tmp]
           Restored(item) == [item EXCEPT !.tmp = item.status]
<1>1. /\ DOMAIN new = DOMAIN list
      /\ \A k \in DOMAIN list : new[k] = IF update THEN Updated(list[k]) ELSE Restored(list[k])
  BY DEF Other!UpdateStatus
<1> HIDE DEF new
<1>2. ASSUME NEW item \in Items
      PROVE  /\ Updated(item).at = item.at /\ Updated(item).nalu = item.nalu
             /\ Updated(item).hash = item.hash /\ Updated(item).status = item.tmp
             /\ Updated(item).sei = item.sei /\ Updated(item).tmp = item.tmp
             /\ Updated(item).ifSeiOk = item.ifSeiOk
             /\ Restored(item).at = item.at /\ Restored(item).nalu = item.nalu
             /\ Restored(item).hash = item.hash /\ Restored(item).status = item.status
             /\ Restored(item).sei = item.sei /\ Restored(item).tmp = item.status
             /\ Restored(item).ifSeiOk = item.ifSeiOk
  BY ONLY <1>2 DEF Items
<1> HIDE DEF Updated, Restored
<1>3. \A k \in DOMAIN list : list[k] \in Items
  BY SeqFacts, ItemTyped DEF ListOK
<1>4. \A k \in DOMAIN list :
        /\ new[k].at = list[k].at /\ new[k].nalu = list[k].nalu /\ new[k].hash = list[k].hash
        /\ new[k].sei = list[k].sei /\ new[k].ifSeiOk = list[k].ifSeiOk
        /\ new[k].tmp = new[k].status
        /\ new[k].tmp \in {list[k].tmp, list[k].status}
        /\ update => new[k].tmp = list[k].tmp
        /\ list[k].tmp = list[k].status => new[k].tmp = list[k].tmp
  BY <1>1, <1>2, <1>3
<1>5. \A k \in DOMAIN list : /\ Other!IsSigned(new[k]) <=> Other!IsSigned(list[k])
                             /\ Damaged(new[k]) <=> Damaged(list[k])
  BY <1>4, SameNalu
<1>6. Honest(new)
  <2>1. SUFFICES ASSUME NEW k \in DOMAIN list PROVE HonestItem(new[k])
    BY <1>1 DEF Honest
  <2>2. HonestItem(list[k])
    BY DEF Honest
  <2> QED
    BY <1>4, <1>5, <2>2 DEF HonestItem
<1>7. Agree(new)
  BY <1>1, <1>4 DEF Agree
<1>8. AllFree(list) => AllFree(new)
  BY <1>1, <1>4 DEF AllFree
<1>9. ListCovered(new)
  <2>1. CASE AllFree(list)
    BY <1>8, <2>1, FreeIsCovered
  <2>2. CASE update \/ Agree(list)
    <3>1. \A k \in DOMAIN list : new[k].tmp = list[k].tmp
      BY <1>4, <2>2 DEF Agree
    <3>2. \A x : Closed(list, x) => Closed(new, x)
      BY <1>1, <1>4, <1>5, <3>1 DEF Closed
    <3> QED
      BY <1>1, <1>4, <1>5, <3>1, <3>2 DEF ListCovered, CoveredBut
  <2> QED
    BY <2>1, <2>2
<1> QED
  BY <1>6, <1>7, <1>8, <1>9 DEF new

(* The session between two calls. *)
SessionIsTrue(s) ==
  /\ IsTrue(s) /\ Agree(s.list)
  /\ s.isFirstValidation => AllFree(s.list)

(* The SEI of the first validation gets the status of its GOP.             *)
LEMMA SeiSettled ==
  ASSUME NEW list, ListOK(list), Honest(list), Agree(list), AllFree(list),
         NEW k \in DOMAIN list, NEW status
  PROVE  /\ Other!IsSigned(list[k]) =>
              LET new == Other!WithItem(list, k, [list[k] EXCEPT !.status = status, !.tmp = status])
              IN  Honest(new) /\ Agree(new) /\ AllFree(new)
         /\ LET new == Other!WithItem(list, k, [list[k] EXCEPT !.ifSeiOk = status])
            IN  Honest(new) /\ Agree(new) /\ AllFree(new)
<1> DEFINE old == list[k]
           a == [old EXCEPT !.status = status, !.tmp = status]
           b == [old EXCEPT !.ifSeiOk = status]
<1>1. old \in Items
  BY ItemTyped, SeqFacts DEF ListOK
<1> HIDE DEF old
<1>2. /\ a.at = old.at /\ a.nalu = old.nalu /\ a.hash = old.hash /\ a.sei = old.sei
      /\ a.tmp = status /\ a.status = status
      /\ b.at = old.at /\ b.nalu = old.nalu /\ b.hash = old.hash /\ b.sei = old.sei
      /\ b.tmp = old.tmp /\ b.status = old.status
  BY ONLY <1>1 DEF Items
<1> HIDE DEF a, b
<1>3. /\ Other!IsSigned(a) <=> Other!IsSigned(old)
      /\ Other!IsSigned(b) <=> Other!IsSigned(old)
      /\ Damaged(a) <=> Damaged(old)
      /\ Damaged(b) <=> Damaged(old)
  BY <1>2, SameNalu
<1>4. HonestItem(old) /\ old.tmp = old.status /\ old.sei = 0
  BY DEF Honest, Agree, AllFree, old
<1>5. HonestItem(b) /\ b.tmp = b.status /\ b.sei = 0
  BY <1>2, <1>3, <1>4 DEF HonestItem
<1>6. Other!IsSigned(old) => HonestItem(a) /\ a.tmp = a.status /\ a.sei = 0
  BY <1>2, <1>3, <1>4 DEF HonestItem, Damaged
<1>7. ASSUME NEW item, HonestItem(item), item.tmp = item.status, item.sei = 0
      PROVE  LET new == Other!WithItem(list, k, item)
             IN  Honest(new) /\ Agree(new) /\ AllFree(new)
  <2> DEFINE new == Other!WithItem(list, k, item)
  <2>1. /\ DOMAIN new = DOMAIN list
        /\ \A j \in DOMAIN list : new[j] = IF j = k THEN item ELSE list[j]
    BY DEF Other!WithItem
  <2> HIDE DEF new
  <2>2. Honest(new) /\ Agree(new) /\ AllFree(new)
    BY <1>7, <2>1 DEF Honest, Agree, AllFree
  <2> QED
    BY <2>2 DEF new
<1> QED
  BY <1>5, <1>6, <1>7 DEF a, b, old

LEMMA EndValidationIsTrue ==
  ASSUME NEW acc, Typed(acc.s), HasFields(acc.s.latest, LatestFields), LoopIsTrue(acc)
  PROVE  SessionIsTrue(Other!EndValidation(acc))
<1> DEFINE s == acc.s
           list == Other!UpdateStatus(s.list, acc.update)
           k == Other!SeiInValidation(list)
           settled == IF k = 0 \/ list[k].status # Other!Pending THEN list
                      ELSE IF Other!IsSigned(list[k])
                      THEN Other!WithItem(list, k, [list[k] EXCEPT !.status = acc.seiStatus,
                                                                  !.tmp = acc.seiStatus])
                      ELSE Other!WithItem(list, k, [list[k] EXCEPT !.ifSeiOk = acc.seiStatus])
           updated == [s EXCEPT !.list = list]
           pending == Other!NumPending(settled)
           t == Other!EndValidation(acc)
<1>1. HasFields(s, Fields) /\ ListOK(s.list) /\ HasFields(s.latest, LatestFields)
  BY DEF Typed
<1>2. updated = [s EXCEPT !.list = Other!UpdateStatus(@, acc.update)]
  OBVIOUS
<1>3. updated.list = list /\ updated.isFirstValidation = s.isFirstValidation
  BY <1>1, FieldsAre DEF HasFields
<1>4. t = IF ~s.isFirstValidation THEN updated
          ELSE [updated EXCEPT !.list = settled, !.linked = <<<<>>, <<>>>>,
                               !.latest.pending = pending]
  <2> DEFINE u == [s EXCEPT !.list = Other!UpdateStatus(@, acc.update)]
             m == Other!SeiInValidation(u.list)
             set == IF m = 0 \/ u.list[m].status # Other!Pending THEN u.list
                    ELSE IF Other!IsSigned(u.list[m])
                    THEN Other!WithItem(u.list, m,
                           [u.list[m] EXCEPT !.status = acc.seiStatus, !.tmp = acc.seiStatus])
                    ELSE Other!WithItem(u.list, m, [u.list[m] EXCEPT !.ifSeiOk = acc.seiStatus])
  <2>1. t = IF ~u.isFirstValidation THEN u
            ELSE [u EXCEPT !.list = set, !.linked = <<<<>>, <<>>>>,
                           !.latest.pending = Other!NumPending(set)]
    BY Zenon DEF Other!EndValidation
  <2>2. u = updated /\ set = settled
    <3>1. u = updated
      OBVIOUS
    <3>2. u.list = list
      BY <1>3, <3>1
    <3> HIDE DEF u
    <3> QED
      BY <3>1, <3>2
  <2> HIDE DEF u, set, settled, t, updated
  <2> QED
    BY <1>3, <2>1, <2>2
<1>5. Reshaped(s.list, list)
  BY <1>1, UpdateStatusKeeps
<1>6. /\ Honest(list) /\ ListCovered(list) /\ Agree(list)
      /\ AllFree(s.list) => AllFree(list)
  BY <1>1, StatusesUpdated DEF LoopIsTrue, IsTrue
<1> HIDE DEF list, t
<1>7. ListOK(list) /\ list \in Seq(SoundItems)
  BY <1>5 DEF Reshaped, ListOK
<1>8. AllFree(list) => Honest(settled) /\ Agree(settled) /\ AllFree(settled)
  <2>1. CASE k = 0 \/ list[k].status # Other!Pending
    BY <1>6, <2>1
  <2>2. CASE k # 0 /\ list[k].status = Other!Pending
    <3>1. k \in DOMAIN list
      BY <1>7, <2>2, SeiInValidationIs
    <3> HIDE DEF k
    <3> QED
      BY <1>6, <1>7, <2>2, <3>1, SeiSettled
  <2> QED
    BY <2>1, <2>2
<1> HIDE DEF settled, pending
<1>9. /\ HasFields(updated, Fields) /\ updated.list = list /\ updated.data = s.data
      /\ updated.isFirstValidation = s.isFirstValidation
  BY ONLY <1>1, FieldsAre DEF HasFields
<1> HIDE DEF updated
<1>10. /\ t.data = s.data /\ t.isFirstValidation = s.isFirstValidation
       /\ t.list = IF ~s.isFirstValidation THEN list ELSE settled
  BY ONLY <1>1, <1>4, <1>9, FieldsAre DEF HasFields
<1>11. TrueData(s.data) /\ (s.isFirstValidation => AllFree(s.list))
  BY DEF LoopIsTrue, IsTrue
<1> HIDE DEF s
<1>12. CASE ~s.isFirstValidation
  BY <1>6, <1>10, <1>11, <1>12 DEF SessionIsTrue, IsTrue, t
<1>13. CASE s.isFirstValidation
  BY <1>6, <1>8, <1>10, <1>11, <1>13, FreeIsCovered DEF SessionIsTrue, IsTrue, t
<1> QED
  BY <1>12, <1>13

LEMMA MaybeValidateGopIsTrue ==
  ASSUME NEW s, NEW trusted, NEW nalu, NEW numbers, SessionInv(s, trusted),
         s.hasResult = FALSE, CallOK(s, numbers), SessionIsTrue(s)
  PROVE  SessionIsTrue(Other!MaybeValidateGop(s, nalu))
<1> DEFINE t == Other!MaybeValidateGop(s, nalu)
<1>1. IsReady(s, trusted)
  BY DEF SessionInv, IsSession, FirstIsTold, IsReady
<1>2. CASE Other!IsFeasible(s, nalu)
  <2>1. s.key # 0 \/ ~s.signingPresent
    BY <1>2 DEF Other!IsFeasible
  <2>2. IsInLoop(s, s, trusted)
    BY <1>1, <2>1 DEF SessionInv, IsSession, FirstIsTold, IsInLoop
  <2>3. /\ IsInLoop(Other!Rounds(s, nalu)[10].s, s, trusted)
        /\ LoopOK(Other!Rounds(s, nalu)[10], numbers)
        /\ LoopIsTrue(Other!Rounds(s, nalu)[10])
    BY <2>2, RoundsLoop, RoundsAreTrue DEF SessionIsTrue
  <2>4. SessionIsTrue(Other!EndValidation(Other!Rounds(s, nalu)[10]))
    BY <2>3, EndValidationIsTrue DEF IsInLoop, IsReady, LoopOK
  <2> QED
    BY <1>2, <2>4 DEF Other!MaybeValidateGop, Other!MaxLoop
<1>3. CASE ~Other!IsFeasible(s, nalu) /\ s.isFirstSei /\ nalu.kind = "sei"
  <2> DEFINE list == Other!UpdateStatus(s.list, TRUE)
             pending == Other!NumPending(s.list)
             latest == [s.latest EXCEPT !.authenticity = 1, !.keyChanged = FALSE,
                                        !.expected = -1, !.received = -1,
                                        !.pending = pending]
  <2>1. t = [s EXCEPT !.latest = latest, !.hasResult = TRUE, !.isFirstSei = FALSE,
                      !.list = list]
    BY <1>3 DEF Other!MaybeValidateGop, Other!NotFeasible
  <2>2. HasFields(s, Fields) /\ ListOK(s.list)
    BY DEF CallOK, Typed
  <2>3. /\ Honest(list) /\ ListCovered(list) /\ Agree(list)
        /\ AllFree(s.list) => AllFree(list)
    BY <2>2, StatusesUpdated DEF SessionIsTrue, IsTrue
  <2> HIDE DEF list, latest, t
  <2>4. t.list = list /\ t.data = s.data /\ t.isFirstValidation = s.isFirstValidation
    BY ONLY <2>1, <2>2, FieldsAre DEF HasFields
  <2> QED
    BY <2>3, <2>4 DEF SessionIsTrue, IsTrue, t
<1>4. CASE ~Other!IsFeasible(s, nalu) /\ ~(s.isFirstSei /\ nalu.kind = "sei")
  BY <1>4 DEF Other!MaybeValidateGop
<1> QED
  BY <1>2, <1>3, <1>4

-----------------------------------------------------------------------------
(* A call, from its NAL Unit to its report.                                *)

(* An item as it arrives.                                                  *)
LEMMA NewItemIsHonest ==
  ASSUME NEW at, NEW nalu, NEW hash, NEW verified, hash.nalu = nalu.id, TrueData(nalu.data)
  PROVE  LET item == Other!NewItem(at, nalu, hash, verified)
         IN  HonestItem(item) /\ item.tmp = item.status /\ item.sei = 0
<1> DEFINE item == Other!NewItem(at, nalu, hash, verified)
           status == IF nalu.kind = "other" THEN Other!Ignored ELSE Other!Pending
<1>1. item = [at |-> at, nalu |-> nalu, hash |-> hash, status |-> status, tmp |-> status,
              verified |-> verified, ifSeiOk |-> Other!Unset, sei |-> 0, decoded |-> FALSE,
              inValidation |-> FALSE]
  BY DEF Other!NewItem
<1>2. status # Other!Valid
  BY Characters
<1> HIDE DEF item, status
<1>3. /\ item.nalu = nalu /\ item.hash = hash /\ item.sei = 0
      /\ item.status = status /\ item.tmp = status
  BY ONLY <1>1
<1> QED
  BY <1>2, <1>3 DEF HonestItem, item

LEMMA AppendedIsTrue ==
  ASSUME NEW list, ListOK(list), Honest(list), ListCovered(list), Agree(list),
         NEW item, HonestItem(item), item.tmp = item.status, item.sei = 0,
         item.at \notin Arrived(list)
  PROVE  LET new == Append(list, item)
         IN  /\ Honest(new) /\ ListCovered(new) /\ Agree(new)
             /\ AllFree(list) => AllFree(new)
<1> DEFINE new == Append(list, item)
           n == Len(list)
<1>1. /\ list \in Seq(SoundItems) /\ n \in Nat /\ DOMAIN list = 1..n
      /\ PointsInto(list, Arrived(list))
  BY SeqFacts DEF ListOK
<1>2. DOMAIN new = 1..(n + 1) /\ \A k \in 1..(n + 1) : new[k] = IF k = n + 1 THEN item ELSE list[k]
  BY <1>1
<1>3. \A k \in DOMAIN new : new[k] = item \/ (k \in DOMAIN list /\ new[k] = list[k])
  BY <1>1, <1>2
<1> HIDE DEF new, n
<1>4. Honest(new) /\ Agree(new) /\ (AllFree(list) => AllFree(new))
  BY <1>3 DEF Honest, Agree, AllFree
<1>5. ASSUME NEW x, x # item.at, Closed(list, x) PROVE Closed(new, x)
  BY <1>3, <1>5 DEF Closed
<1>6. ListCovered(new)
  <2>1. SUFFICES ASSUME NEW k \in DOMAIN new, Damaged(new[k]), new[k].tmp = Other!Pending,
                        new[k].sei # 0
                 PROVE  new[k].ifSeiOk = Other!Invalid \/ Closed(new, new[k].sei)
    BY DEF ListCovered, CoveredBut
  <2>2. k \in DOMAIN list /\ new[k] = list[k]
    BY <1>3, <2>1
  <2>3. list[k].sei \in Arrived(list)
    BY <1>1, <2>1, <2>2 DEF PointsInto
  <2>4. list[k].ifSeiOk = Other!Invalid \/ Closed(list, list[k].sei)
    BY <2>1, <2>2 DEF ListCovered, CoveredBut
  <2> QED
    BY <1>5, <2>2, <2>3, <2>4
<1> QED
  BY <1>4, <1>6 DEF new

LEMMA AddNaluIsTrue ==
  ASSUME NEW s, SessionOK(s), SessionIsTrue(s), NEW nalu \in Nalus, TrueData(nalu.data)
  PROVE  SessionIsTrue(Other!AddNalu(s, nalu))
<1> DEFINE isSigned == nalu.kind = "sei" /\ nalu.data.signed
           registered == IF isSigned THEN Other!DecodeCertificates(s, nalu.data.cert) ELSE s
           isPresent == s.signingPresent \/ nalu.kind = "sei"
           received == s.accumulated.received + 1
           verified == isSigned /\ nalu.intact /\ nalu.data.key = registered.key
           gopStarts == IF nalu.kind = "I" THEN s.gopStarts + 1 ELSE s.gopStarts
           hash == [nalu |-> nalu.id,
                    anchor |-> IF nalu.kind \in {"I", "sei"} THEN nalu.id ELSE s.anchor]
           item == Other!NewItem(received, nalu, hash, verified)
           known == registered.hashAlgoKnown \/ (isSigned /\ nalu.data.cert # 0)
                      \/ (~isPresent /\ gopStarts > Other!MAX_NUM_UNHASHED_GOPS)
           anchor == IF nalu.kind = "I" THEN nalu.id ELSE registered.anchor
           t == Other!AddNalu(s, nalu)
<1>1. t = [registered EXCEPT
            !.accumulated.received = received, !.list = Append(@, item),
            !.anchor = anchor, !.hasResult = FALSE, !.signingPresent = isPresent,
            !.hashAlgoKnown = known, !.gopStarts = gopStarts]
  BY Zenon DEF Other!AddNalu
<1>2. /\ HasFields(s, Fields) /\ ListOK(s.list)
      /\ s.accumulated.received \in Nat /\ s.accumulated.validated \in 0..s.accumulated.received
      /\ Arrived(s.list) = (s.accumulated.validated + 1)..s.accumulated.received
  BY DEF SessionOK, Typed
<1>3. Untouched(s, registered) /\ registered.isFirstValidation = s.isFirstValidation
  <2>1. Untouched(s, s)
    BY <1>2 DEF Untouched
  <2>2. Other!DecodeCertificates(s, nalu.data.cert).isFirstValidation = s.isFirstValidation
    BY <1>2, FieldsAre DEF HasFields, Other!DecodeCertificates
  <2>3. Typed(s)
    BY DEF SessionOK
  <2> QED
    BY <1>2, <2>1, <2>2, <2>3, DecodeCertificatesTouches
<1>4. hash.nalu = nalu.id
  OBVIOUS
<1>5. received \notin Arrived(s.list)
  BY <1>2
<1> HIDE DEF hash, verified, received
<1>6. HonestItem(item) /\ item.tmp = item.status /\ item.sei = 0
  BY <1>4, NewItemIsHonest
<1>7. item.at = received
  BY DEF Other!NewItem
<1> HIDE DEF item, anchor, known, gopStarts, isPresent, registered, t
<1> DEFINE list == Append(s.list, item)
<1>8. /\ Honest(list) /\ ListCovered(list) /\ Agree(list)
      /\ AllFree(s.list) => AllFree(list)
  BY <1>2, <1>5, <1>6, <1>7, AppendedIsTrue DEF SessionIsTrue, IsTrue
<1>9. HasFields(registered, Fields) /\ registered.list = s.list /\ registered.data = s.data
  BY <1>3 DEF Untouched
<1>10. /\ t.list = Append(registered.list, item) /\ t.data = registered.data
       /\ t.isFirstValidation = registered.isFirstValidation
  BY ONLY <1>1, <1>9, FieldsAre DEF HasFields
<1>11. t.list = list
  BY <1>9, <1>10
<1> HIDE DEF list
<1> QED
  BY <1>3, <1>8, <1>9, <1>10, <1>11 DEF SessionIsTrue, IsTrue, t

(* A call that fails, and the report of one that does not.                 *)
LEMMA FailIsTrue ==
  ASSUME NEW s, SessionOK(s), SessionIsTrue(s), Len(s.list) \in DOMAIN s.list
  PROVE  SessionIsTrue(Other!Fail(s))
<1> DEFINE last == Len(s.list)
           old == s.list[last]
           item == [old EXCEPT !.status = Other!Error, !.tmp = Other!Error]
           list == Other!WithItem(s.list, last, item)
           t == Other!Fail(s)
<1>1. HasFields(s, Fields) /\ s.list \in Seq(SoundItems)
  BY DEF SessionOK, Typed, ListOK
<1>2. old \in Items
  BY <1>1, SeqFacts, ItemTyped
<1>3. t = [s EXCEPT !.list = list]
  <2>1. list = [s.list EXCEPT ![last] = item]
    <3> HIDE DEF item, last
    <3> QED
      BY <1>1 DEF Other!WithItem
  <2> QED
    BY <2>1, Zenon DEF Other!Fail
<1> HIDE DEF list, t
<1>4. t.list = list /\ t.data = s.data /\ t.isFirstValidation = s.isFirstValidation
  BY ONLY <1>1, <1>3, FieldsAre DEF HasFields
<1> HIDE DEF old
<1>5. /\ item.at = old.at /\ item.nalu = old.nalu /\ item.hash = old.hash
      /\ item.sei = old.sei /\ item.ifSeiOk = old.ifSeiOk
      /\ item.tmp = Other!Error /\ item.status = Other!Error
  BY ONLY <1>2 DEF Items
<1> HIDE DEF item, last
<1>6. Other!Error # Other!Valid /\ Other!Error # Other!Pending
  BY Characters
<1>7. /\ Other!IsSigned(item) <=> Other!IsSigned(old)
      /\ Damaged(item) <=> Damaged(old)
  BY <1>5, SameNalu
<1>8. /\ DOMAIN list = DOMAIN s.list
      /\ \A k \in DOMAIN s.list : list[k] = IF k = last THEN item ELSE s.list[k]
  BY DEF list, Other!WithItem
<1>9. HonestItem(item)
  <2>1. HonestItem(old)
    BY DEF SessionIsTrue, IsTrue, Honest, old, last
  <2> QED
    BY <1>5, <1>6, <1>7, <2>1 DEF HonestItem
<1>10. Honest(list) /\ Agree(list) /\ (AllFree(s.list) => AllFree(list))
  BY <1>5, <1>8, <1>9 DEF SessionIsTrue, IsTrue, Honest, Agree, AllFree, old, last
<1>11. \A x : Closed(s.list, x) => Closed(list, x)
  BY <1>5, <1>6, <1>7, <1>8 DEF Closed, old, last
<1>12. ListCovered(list)
  <2>1. \A k \in DOMAIN s.list : list[k].tmp = Other!Pending => list[k] = s.list[k]
    BY <1>5, <1>6, <1>8
  <2> QED
    BY <1>8, <1>11, <2>1 DEF SessionIsTrue, IsTrue, ListCovered, CoveredBut
<1> QED
  BY <1>4, <1>10, <1>12 DEF SessionIsTrue, IsTrue, t

LEMMA UpdateReportIsTrue ==
  ASSUME NEW s, SessionOK(s), SessionIsTrue(s)
  PROVE  SessionIsTrue(Other!UpdateReport(s))
<1> DEFINE validated == Other!Validated(s.list)
           n == Len(validated)
           list == SubSeq(s.list, n + 1, Len(s.list))
           t == Other!UpdateReport(s)
<1>1. CASE ~s.hasResult
  BY <1>1 DEF Other!UpdateReport
<1>2. CASE s.hasResult
  <2>1. \E accumulated : t = [s EXCEPT !.list = list, !.accumulated = accumulated]
    BY <1>2 DEF Other!UpdateReport
  <2>2. HasFields(s, Fields) /\ s.list \in Seq(SoundItems) /\ Len(s.list) \in Nat
        /\ DOMAIN s.list = 1..Len(s.list)
    BY SeqFacts DEF SessionOK, Typed, ListOK
  <2>3. n \in 0..Len(s.list)
    BY <2>2, ValidatedIs
  <2> HIDE DEF n, t
  <2>4. \A k \in DOMAIN list : \E j \in DOMAIN s.list : list[k] = s.list[j]
    <3>1. /\ DOMAIN list = 1..(Len(s.list) - n)
          /\ \A k \in DOMAIN list : list[k] = s.list[n + k]
      BY <2>2, <2>3
    <3> HIDE DEF list
    <3>2. \A k \in DOMAIN list : n + k \in DOMAIN s.list
      BY <2>2, <2>3, <3>1
    <3> QED
      BY <3>1, <3>2
  <2> HIDE DEF list
  <2>5. t.list = list /\ t.data = s.data /\ t.isFirstValidation = s.isFirstValidation
    BY ONLY <2>1, <2>2, FieldsAre DEF HasFields
  <2>6. Honest(list) /\ Agree(list) /\ (AllFree(s.list) => AllFree(list))
    BY <2>4 DEF SessionIsTrue, IsTrue, Honest, Agree, AllFree
  <2>7. \A x : Closed(s.list, x) => Closed(list, x)
    BY <2>4 DEF Closed
  <2>8. ListCovered(list)
    BY <2>4, <2>7 DEF SessionIsTrue, IsTrue, ListCovered, CoveredBut
  <2> QED
    BY <2>5, <2>6, <2>8 DEF SessionIsTrue, IsTrue, t
<1> QED
  BY <1>1, <1>2

-----------------------------------------------------------------------------
(* The stream: hashes are true when they are sent, and stay it.            *)

(* The items of a report.                                                  *)
Reported ==
  {item \in SoundItems :
     item.status = Other!Valid /\ ~Other!IsSigned(item) => item.nalu.id > 0}

LEMMA HonestIsReported ==
  ASSUME NEW item \in SoundItems, HonestItem(item)
  PROVE  item \in Reported
<1> SUFFICES ASSUME item.status = Other!Valid, ~Other!IsSigned(item) PROVE item.nalu.id > 0
  BY DEF Reported
<1>1. item.at # 0 /\ item.nalu \in Nalus
  BY Characters DEF SoundItems
<1>2. ~Damaged(item)
  BY DEF HonestItem
<1>3. item.nalu.id \in Int /\ ~(item.nalu.id <= 0)
  BY <1>1, <1>2 DEF Damaged, Nalus
<1> QED
  BY <1>3

(* What is on the way says what was hashed when it was signed.             *)
SaysTrue(w) == w # <<>> => TrueData(w[1].data)
TrueWay == SaysTrue(wire) /\ SaysTrue(held)

LEMMA SentIsTrue ==
  ASSUME NEW kind, NEW data, TrueData(data),
         wire' = <<[kind |-> kind, id |-> Position, data |-> data, intact |-> TRUE]>>
  PROVE  SaysTrue(wire')
BY DEF SaysTrue

LEMMA NoSeiIsTrue ==
  /\ TrueData(Other!NoSei)
  /\ TrueData([Other!NoSei EXCEPT !.signed = TRUE, !.isCertificate = TRUE,
                                  !.key = SigningKey, !.cert = SigningKey])
<1> DEFINE no == Other!NoSei
           certificate == [no EXCEPT !.signed = TRUE, !.isCertificate = TRUE,
                                     !.key = SigningKey, !.cert = SigningKey]
<1>1. no \in SeiData
  BY NoSeiType
<1>2. no.gopHash = <<>> /\ no.list = <<>>
  BY Zenon DEF Other!NoSei
<1> HIDE DEF no
<1>3. certificate.gopHash = <<>> /\ certificate.list = <<>>
  BY ONLY <1>1, <1>2 DEF SeiData
<1> HIDE DEF certificate
<1>4. TrueData(no) /\ TrueData(certificate)
  BY <1>2, <1>3 DEF TrueData, TrueHashes
<1> QED
  BY <1>4 DEF no, certificate

(* A SEI holds what was hashed: numbers of NAL Units of the stream.        *)
LEMMA FetchedIsTrue ==
  ASSUME SignerOK, FetchSei
  PROVE  SaysTrue(wire')
<1> DEFINE sei == seis[fetched + 1]
           data == [counter |-> sei.counter % CounterRange, gopHash |-> sei.gopHash,
                    numNalus |-> sei.numNalus, list |-> sei.list, linked |-> sei.linked,
                    triggered |-> sei.triggered, signed |-> sei.signed,
                    isCertificate |-> FALSE, key |-> SigningKey,
                    cert |-> IF scenario.certificateSei THEN 0 ELSE SigningKey]
<1>1. seis \in Seq(Seis) /\ fetched \in 0..Len(seis) /\ fetched < Len(seis)
      /\ scenario \in Scenarios
  BY DEF SignerOK, TypeOK, FetchSei
<1>2. sei \in Seis
  BY <1>1
<1>3. wire' = <<[kind |-> "sei", id |-> Position, data |-> data, intact |-> TRUE]>>
  BY DEF FetchSei, Send
<1>4. data.gopHash = sei.gopHash /\ data.list = sei.list
  OBVIOUS
<1> HIDE DEF sei, data
<1>5. sei.gopHash \in Seq(Hashes) /\ sei.list \in Seq(Hashes)
  BY <1>2 DEF Seis
<1>6. MaxNalus \in Nat
  BY <1>1, ScenarioBounds
<1>7. \A hash \in Hashes : hash.nalu > 0
  BY <1>6 DEF Hashes
<1>8. \A hashes \in Seq(Hashes) : TrueHashes(hashes)
  BY <1>7 DEF TrueHashes
<1>9. TrueData(data)
  BY <1>4, <1>5, <1>8 DEF TrueData
<1> QED
  BY <1>3, <1>9, SentIsTrue

(* Another content is another number, but what a SEI says stays true: it   *)
(* loses its GOP hash at most.                                             *)
LEMMA ChangedIsTrue ==
  ASSUME WayOK, SaysTrue(wire), Change
  PROVE  SaysTrue(wire')
<1>1. wire \in OnWire /\ wire # <<>>
  BY DEF WayOK, Change
<1> DEFINE old == wire[1]
           nalu == [old EXCEPT !.id = -@, !.intact = FALSE]
           emptied == [nalu EXCEPT !.data.gopHash = <<>>]
<1>2. wire' \in {<<nalu>>, <<emptied>>}
  BY Zenon DEF Change
<1>3. old \in Nalus /\ TrueData(old.data)
  BY <1>1, WireIs DEF SaysTrue
<1> HIDE DEF old
<1>4. nalu.data = old.data /\ DOMAIN nalu = {"kind", "id", "data", "intact"}
  BY <1>3 DEF Nalus
<1> HIDE DEF nalu
<1> DEFINE data == [nalu.data EXCEPT !.gopHash = <<>>]
<1>5. data.gopHash = <<>> /\ data.list = nalu.data.list
  <2>1. nalu.data \in SeiData
    BY <1>3, <1>4 DEF Nalus
  <2> QED
    BY <2>1 DEF SeiData
<1>6. emptied.data = data
  <2>1. emptied = [nalu EXCEPT !.data = data]
    OBVIOUS
  <2> HIDE DEF emptied, data
  <2> QED
    BY <1>4, <2>1
<1> HIDE DEF data, emptied
<1>7. TrueData(nalu.data) /\ TrueData(emptied.data)
  BY <1>3, <1>4, <1>5, <1>6 DEF TrueData, TrueHashes
<1> QED
  BY <1>2, <1>7 DEF SaysTrue

LEMMA TrueWayKept ==
  ASSUME SignerOK, WayOK, TrueWay, [StreamNext]_streamVars
  PROVE  TrueWay'
<1> SUFFICES SaysTrue(wire') /\ SaysTrue(held')
  BY DEF TrueWay, SaysTrue
<1>1. SaysTrue(wire) /\ SaysTrue(held) /\ SaysTrue(<<>>)
  BY DEF TrueWay, SaysTrue
<1>2. ASSUME NEW kind \in scenario.kinds, Sign(kind) PROVE SaysTrue(wire') /\ held' = held
  <2>1. wire' = <<[kind |-> kind, id |-> Position, data |-> Other!NoSei, intact |-> TRUE]>>
        /\ held' = held
    BY <1>2 DEF Sign, Send
  <2> QED
    BY <2>1, NoSeiIsTrue, SentIsTrue
<1>3. CASE FetchCertificateSei
  <2> DEFINE data == [Other!NoSei EXCEPT !.signed = TRUE, !.isCertificate = TRUE,
                                         !.key = SigningKey, !.cert = SigningKey]
  <2>1. wire' = <<[kind |-> "sei", id |-> Position, data |-> data, intact |-> TRUE]>>
        /\ held' = held
    BY <1>3, Zenon DEF FetchCertificateSei, Send
  <2>2. TrueData(data)
    BY NoSeiIsTrue
  <2> HIDE DEF data
  <2> QED
    BY <1>1, <2>1, <2>2, SentIsTrue
<1>4. CASE FetchSei
  <2>1. held' = held
    BY <1>4 DEF FetchSei, Send
  <2> QED
    BY <1>1, <1>4, <2>1, FetchedIsTrue
<1>5. CASE Change
  <2>1. held' = held
    BY <1>5 DEF Change
  <2> QED
    BY <1>1, <1>5, <2>1, ChangedIsTrue
<1>6. CASE Delay \/ Release
  BY <1>1, <1>6 DEF Delay, Release
<1>7. CASE Lose \/ TuneIn \/ Receive
  BY <1>1, <1>7 DEF Lose, TuneIn, Receive
<1>8. CASE End \/ RestartWithNewKey \/ StartOver
  BY <1>1, <1>8 DEF End, RestartWithNewKey, StartOver
<1>9. ASSUME NEW certificate, SetTrusted(certificate) PROVE wire' = wire /\ held' = held
  BY <1>9 DEF SetTrusted
<1>10. CASE UNCHANGED streamVars
  BY <1>1, <1>10 DEF streamVars
<1> QED
  BY <1>1, <1>2, <1>3, <1>4, <1>5, <1>6, <1>7, <1>8, <1>9, <1>10 DEF StreamNext

(* A report gives the items of the list with their statuses.               *)
LEMMA ReportedOfList ==
  ASSUME NEW list \in Seq(SoundItems), Honest(list), NEW n \in 0..Len(list)
  PROVE  SubSeq(list, 1, n) \in Seq(Reported)
<1>1. Len(list) \in Nat /\ \A k \in 1..Len(list) : list[k] \in SoundItems /\ HonestItem(list[k])
  BY DEF Honest
<1>2. \A k \in 1..Len(list) : list[k] \in Reported
  BY <1>1, HonestIsReported
<1>3. list \in Seq(Reported)
  BY <1>2
<1> QED
  BY <1>1, <1>3

VerdictsOK == verdicts \in Seq(Reported)
SidesTrue == SessionIsTrue(session) /\ VerdictsOK

LEMMA EmptyIsTrue ==
  ASSUME NEW s, s.list = <<>>, s.data = Other!NoSei
  PROVE  SessionIsTrue(s)
<1>1. Honest(s.list) /\ Agree(s.list) /\ AllFree(s.list) /\ ListCovered(s.list)
  BY DEF Honest, Agree, AllFree, ListCovered, CoveredBut
<1> QED
  BY <1>1, NoSeiIsTrue DEF SessionIsTrue, IsTrue

LEMMA InitIsTrue == StreamInit => SidesTrue
<1> SUFFICES ASSUME StreamInit PROVE SidesTrue
  OBVIOUS
<1> DEFINE new == Other!NewSession
<1>1. session = [new EXCEPT !.trusted = scenario.trusted]
  BY DEF StreamInit
<1>2. HasFields(new, Fields) /\ new.list = <<>> /\ new.data = Other!NoSei
  BY NewSessionIs, NewSessionCounts
<1> HIDE DEF new
<1>3. session.list = new.list /\ session.data = new.data
  BY ONLY <1>1, <1>2, FieldsAre DEF HasFields
<1>4. verdicts = <<>>
  BY DEF StreamInit
<1> QED
  BY <1>2, <1>3, <1>4, EmptyIsTrue DEF SidesTrue, VerdictsOK

LEMMA StartOverIsTrue ==
  ASSUME StartOver
  PROVE  SidesTrue'
<1> DEFINE known == IF session.hashAlgoKnown THEN session.anchor ELSE 0
           authenticity ==
             IF session.accumulated.authenticity = Other!NotSigned THEN Other!NotSigned
             ELSE Other!NotFeasible
           new == Other!NewSession
           overall == [new.accumulated EXCEPT !.authenticity = authenticity]
<1>1. session' = [new EXCEPT
        !.anchor = known, !.hashAlgoKnown = session.hashAlgoKnown, !.key = session.key,
        !.verifiedPubkey = session.verifiedPubkey, !.trusted = session.trusted,
        !.signingPresent = session.signingPresent, !.accumulated = overall]
  BY DEF StartOver, Other!Reset
<1>2. HasFields(new, Fields) /\ new.list = <<>> /\ new.data = Other!NoSei
  BY NewSessionIs, NewSessionCounts
<1> HIDE DEF new, known, overall
<1>3. session'.list = new.list /\ session'.data = new.data
  BY ONLY <1>1, <1>2, FieldsAre DEF HasFields
<1>4. verdicts' = <<>>
  BY DEF StartOver
<1>5. SessionIsTrue(session')
  BY <1>2, <1>3, EmptyIsTrue
<1> QED
  BY <1>4, <1>5 DEF SidesTrue, VerdictsOK, SessionIsTrue

LEMMA SetTrustedIsTrue ==
  ASSUME NEW certificate, SessionOK(session), SidesTrue, SetTrusted(certificate)
  PROVE  SidesTrue'
<1> DEFINE trusted == IF session.trusted = 0 THEN certificate ELSE 0
<1>1. session' = [session EXCEPT !.trusted = trusted] /\ verdicts' = verdicts
  BY Zenon DEF SetTrusted, Other!SetTrustedCertificate
<1>2. HasFields(session, Fields)
  BY DEF SessionOK, Typed
<1> HIDE DEF trusted
<1>3. /\ session'.list = session.list /\ session'.data = session.data
      /\ session'.isFirstValidation = session.isFirstValidation
  BY ONLY <1>1, <1>2, FieldsAre DEF HasFields
<1> QED
  BY <1>1, <1>3 DEF SidesTrue, VerdictsOK, SessionIsTrue, IsTrue

LEMMA ReceiveIsTrue ==
  ASSUME IInv, SessionOK(session), SidesTrue, wire[1] \in Nalus, TrueData(wire[1].data), Receive
  PROVE  SidesTrue'
<1> DEFINE nalu == wire[1]
           added == Other!AddNalu(session, nalu)
           done == Other!MaybeValidateGop(added, nalu)
           validated == Other!Validated(done.list)
           told == [items |-> done.list, validated |-> Len(validated),
                    latest |-> done.latest,
                    accumulated |-> Other!UpdateReport(done).accumulated]
<1>1. SessionInv(session, anchors) /\ HasFields(session.accumulated, AccumulatedFields)
  BY DEF IInv, SessionInv, IsSession
<1>2. SessionInv(added, anchors) /\ added.hasResult = FALSE
  <2>1. \A s, trusted, x : SessionInv(s, trusted) =>
          SessionInv(Other!AddNalu(s, x), trusted) /\ Other!AddNalu(s, x).hasResult = FALSE
    BY AddNaluKeeps
  <2> QED
    BY <1>1, <2>1, Zenon
<1>3. /\ SessionOK(added) /\ Len(added.list) \in DOMAIN added.list
      /\ added.list[Len(added.list)].at # 0 /\ ~added.list[Len(added.list)].inValidation
  BY <1>1, AddNaluCounts
<1>4. SessionIsTrue(added)
  BY AddNaluIsTrue DEF SidesTrue
<1>5. \/ session' = Other!Fail(added) /\ report' = <<>>
      \/ /\ session' = Other!UpdateReport(done)
         /\ report' = IF ~done.hasResult THEN <<>> ELSE <<told>>
  BY DEF Receive, Other!AddNaluAndAuthenticate, Other!Answer
<1>6. verdicts' = IF report' = <<>> THEN verdicts
                  ELSE verdicts \o SubSeq(report'[1].items, 1, report'[1].validated)
  BY DEF Receive
<1> HIDE DEF added
<1>7. CallOK(added, Arrived(added.list))
  BY <1>2, <1>3 DEF CallOK, SessionOK
<1>8. IsDone(done, added, anchors) /\ CallOK(done, Arrived(added.list))
  BY <1>2, <1>7, MaybeValidateGopKeeps, MaybeValidateGopIsDone
<1>9. SessionIsTrue(done)
  BY <1>2, <1>4, <1>7, MaybeValidateGopIsTrue
<1> HIDE DEF done
<1>10. SessionOK(done)
  BY <1>3, <1>8 DEF IsDone, CallOK, SessionOK
<1>11. SubSeq(done.list, 1, Len(validated)) \in Seq(Reported)
  <2> DEFINE list == done.list
  <2>1. list \in Seq(SoundItems) /\ Honest(list)
    BY <1>9, <1>10 DEF SessionOK, Typed, ListOK, SessionIsTrue, IsTrue
  <2> HIDE DEF list
  <2>2. Len(Other!Validated(list)) \in 0..Len(list)
    BY <2>1, ValidatedIs
  <2>3. SubSeq(list, 1, Len(Other!Validated(list))) \in Seq(Reported)
    BY <2>1, <2>2, ReportedOfList
  <2> QED
    BY <2>3 DEF list
<1>12. told.items = done.list /\ told.validated = Len(validated)
  OBVIOUS
<1> HIDE DEF told, validated
<1>13. verdicts \in Seq(Reported)
  BY DEF SidesTrue, VerdictsOK
<1>14. verdicts' \in Seq(Reported)
  <2>1. CASE report' = <<>>
    BY <1>6, <1>13, <2>1
  <2>2. CASE report' # <<>>
    <3>1. report' = <<told>>
      BY <1>5, <2>2
    <3>2. report'[1] = told
      BY <3>1
    <3>3. verdicts' = verdicts \o SubSeq(done.list, 1, Len(validated))
      BY ONLY <1>6, <1>12, <2>2, <3>2
    <3> QED
      BY <1>11, <1>13, <3>3
  <2> QED
    BY <2>1, <2>2
<1>15. SessionIsTrue(session')
  BY <1>3, <1>4, <1>5, <1>9, <1>10, FailIsTrue, UpdateReportIsTrue
<1> QED
  BY <1>14, <1>15 DEF SidesTrue, VerdictsOK, SessionIsTrue

LEMMA SidesKeptTrue ==
  ASSUME StreamInv, TrueWay, SidesTrue, [StreamNext]_streamVars
  PROVE  SidesTrue'
<1>1. IInv /\ SessionOK(session) /\ WayOK
  BY DEF StreamInv
<1>2. ASSUME session' = session, verdicts' = verdicts PROVE SidesTrue'
  BY <1>2 DEF SidesTrue, VerdictsOK, SessionIsTrue, IsTrue
<1>3. ASSUME NEW kind \in scenario.kinds, Sign(kind)
      PROVE  session' = session /\ verdicts' = verdicts
  BY <1>3 DEF Sign, Send, validator
<1>4. CASE FetchCertificateSei \/ FetchSei \/ End
  BY <1>2, <1>4 DEF FetchCertificateSei, FetchSei, End, Send, validator
<1>5. CASE RestartWithNewKey
  BY <1>2, <1>5 DEF RestartWithNewKey, validator
<1>6. CASE Lose \/ Change \/ Delay \/ Release \/ TuneIn
  BY <1>2, <1>6 DEF Lose, Change, Delay, Release, TuneIn, validator
<1>7. CASE Receive
  <2>1. wire # <<>>
    BY <1>7 DEF Receive
  <2>2. wire[1] \in Nalus /\ TrueData(wire[1].data)
    BY <1>1, <2>1, WireIs DEF WayOK, TrueWay, SaysTrue
  <2> QED
    BY <1>1, <1>7, <2>2, ReceiveIsTrue
<1>8. CASE UNCHANGED streamVars
  BY <1>2, <1>8 DEF streamVars, validator
<1> QED
  BY <1>1, <1>2, <1>3, <1>4, <1>5, <1>6, <1>7, <1>8, StartOverIsTrue, SetTrustedIsTrue
     DEF StreamNext

(* The inductive invariant: besides StreamInv, every hash of a SEI, on its *)
(* way or decoded, is that of a NAL Unit as it was signed, the hash of an  *)
(* item is that of its NAL Unit as it came, and a changed item that still  *)
(* waits either has failed on its own or waits for a SEI that cannot make  *)
(* it valid any more.                                                      *)
StreamTruth == StreamInv /\ TrueWay /\ SidesTrue

(* A NAL Unit that was changed on the way is never valid: whatever else is *)
(* lost, changed or delayed, whatever key the other side trusts, however   *)
(* often the first validation is taken back, the hashes of the SEIs tell   *)
(* (verify_indiviual_hashes(), compute_gop_hash(), verify_gop_hash(),      *)
(* update_sei_in_validation()).                                            *)
THEOREM ChangedNaluIsNeverValid == StreamSpec => []NoChangedNaluIsValid
<1>1. StreamInit => StreamTruth
  <2> SUFFICES ASSUME StreamInit PROVE StreamTruth
    OBVIOUS
  <2>1. TrueWay
    BY DEF StreamInit, TrueWay, SaysTrue
  <2> QED
    BY <2>1, InitStreamInv, InitIsTrue DEF StreamTruth
<1>2. StreamTruth /\ [StreamNext]_streamVars => StreamTruth'
  <2> SUFFICES ASSUME StreamTruth, [StreamNext]_streamVars PROVE StreamTruth'
    OBVIOUS
  <2>1. StreamInv' /\ TrueWay' /\ SidesTrue'
    BY NextStreamInv, TrueWayKept, SidesKeptTrue DEF StreamTruth, StreamInv
  <2> QED
    BY <2>1 DEF StreamTruth
<1>3. StreamTruth => NoChangedNaluIsValid
  <2> SUFFICES ASSUME StreamTruth, NEW i \in DOMAIN verdicts,
                      verdicts[i].status = Other!Valid, ~Other!IsSigned(verdicts[i])
               PROVE  verdicts[i].nalu.id > 0
    BY DEF NoChangedNaluIsValid
  <2>1. verdicts \in Seq(Reported)
    BY DEF StreamTruth, SidesTrue, VerdictsOK
  <2>2. verdicts[i] \in Reported
    BY <2>1
  <2> QED
    BY <2>2 DEF Reported
<1> QED
  BY <1>1, <1>2, <1>3, PTL DEF StreamSpec

=============================================================================
