---------------------------- MODULE SignedStream ----------------------------
(***************************************************************************)
(* A signed stream on its way: the signing session of GopSigner, a user    *)
(* who fetches the SEIs and puts them in the stream the way the header     *)
(* (onvif_media_signing_signer.h:135-150) tells, the way to the other      *)
(* side, and the validation session of Validator.                          *)
(*                                                                         *)
(* A SEI may be fetched late, as it may be completed late (SeiSigning).    *)
(* On the way NAL Units are lost, changed and delayed, the side that signs *)
(* may be restarted with another key, and the other side may tune in late, *)
(* start over or set its trusted certificate again: a few times.           *)
(***************************************************************************)
EXTENDS GopSigner

(* A scenario has besides what GopSigner needs                             *)
(*   kinds:      the kinds of the NAL Units besides the SEIs,              *)
(*   faults:     what may happen on the way, a subset of AllFaults,        *)
(*   maxFaults:  bound, how often,                                         *)
(*   maxWaiting: SEIs that may wait to be fetched,                         *)
(*   certificateSei: whether the certificates are sent in a SEI of their   *)
(*               own (use_certificate_sei), or in all SEIs,                *)
(*   trusted:    the trusted certificate, the number of the key, 0 if none *)
(*               is set.                                                   *)
CONSTANT CounterRange \* numbers that a GOP counter has (2^32 in the code)

AllFaults == {"lose", "change", "delay", "late", "reset", "newkey", "trust"}
Keys == {1, 2} \* the signing key, and the one after a restart

ASSUME StreamAssumption ==
  /\ CounterRange \in Nat \ {0}
  /\ \A s \in Scenarios :
       /\ s.kinds \subseteq Kinds \ {"sei"}
       /\ s.faults \subseteq AllFaults /\ s.maxFaults \in Nat /\ s.maxWaiting \in Nat
       /\ s.certificateSei \in BOOLEAN /\ s.trusted \in {0} \cup Keys

Faults == scenario.faults
MaxFaults == scenario.maxFaults
MaxWaiting == scenario.maxWaiting

VARIABLES
  fetched,   \* the number of SEIs fetched
  announced, \* whether the certificate SEI was fetched
  prompt,    \* whether each SEI was fetched before the next NAL Unit came
  wire,      \* the NAL Unit on its way, if any
  held,      \* the NAL Unit that is delayed, if any
  faults,    \* what has happened on the way
  session,   \* the validation session
  report,    \* its last report
  verdicts,  \* the items that were validated, oldest first
  anchors    \* the certificates that were trusted at some time

Other == INSTANCE Validator

signer == <<scenario, stream, gop, started, ended, untilSigning, settings, seis>>
user == <<fetched, announced, prompt>>
validator == <<session, report, verdicts>>
streamVars == <<signer, user, wire, held, faults, validator, anchors>>

StreamInit ==
  /\ Init
  /\ session = [Other!NewSession EXCEPT !.trusted = scenario.trusted]
  /\ report = <<>>
  /\ fetched = 0 /\ announced = FALSE /\ prompt = TRUE
  /\ wire = <<>> /\ held = <<>>
  /\ faults = <<>>
  /\ verdicts = <<>>
  /\ anchors = {scenario.trusted} \ {0}

-----------------------------------------------------------------------------
(* The side that signs.                                                    *)

Has(fault) == \E i \in DOMAIN faults : faults[i] = fault

SigningKey == IF Has("newkey") THEN 2 ELSE 1

(* Whether SEIs wait to be fetched, the certificate SEI first. *)
IsExpected == scenario.certificateSei /\ ~announced
NothingWaits == fetched = Len(seis) /\ ~IsExpected

(* The NAL Unit given to the signing session is put on the wire. *)
Send(kind, data) ==
  /\ wire = <<>>
  /\ wire' = <<[kind |-> kind, id |-> Position, data |-> data, intact |-> TRUE]>>
  /\ UNCHANGED <<held, faults, validator, anchors>>

Sign(kind) ==
  /\ Len(seis) - fetched < MaxWaiting
  /\ AddNalu(kind) \/ AddFirstOfStream(kind) \/ AddFirstOfGop(kind)
  /\ Send(kind, Other!NoSei)
  /\ prompt' = (prompt /\ NothingWaits)
  /\ UNCHANGED <<fetched, announced>>

(* The certificate SEI was generated before the first NAL Unit came, and   *)
(* may be fetched later. *)
FetchCertificateSei ==
  /\ IsExpected
  /\ announced' = TRUE
  /\ AddNalu("other")
  /\ Send("sei", [Other!NoSei EXCEPT !.signed = TRUE, !.isCertificate = TRUE,
                                     !.key = SigningKey, !.cert = SigningKey])
  /\ UNCHANGED <<fetched, prompt>>

(* A SEI is given to the signing session as well, which only hashes it if  *)
(* it is not signed, but not after the end of the stream.                  *)
FetchSei ==
  /\ ~IsExpected
  /\ fetched < Len(seis)
  /\ fetched' = fetched + 1
  /\ UNCHANGED <<announced, prompt>>
  /\ LET sei == seis[fetched + 1]
     IN  /\ \/ ~ended /\ AddNalu(IF sei.signed THEN "other" ELSE "sei")
            \/ ended /\ stream' = Append(stream, "other")
                     /\ UNCHANGED <<scenario, gop, started, ended, untilSigning, settings,
                                      seis>>
         /\ Send("sei",
              [counter |-> sei.counter % CounterRange, gopHash |-> sei.gopHash,
               numNalus |-> sei.numNalus, list |-> sei.list, linked |-> sei.linked,
               triggered |-> sei.triggered, signed |-> sei.signed,
               isCertificate |-> FALSE, key |-> SigningKey,
               cert |-> IF scenario.certificateSei THEN 0 ELSE SigningKey])

End ==
  /\ Len(seis) - fetched < MaxWaiting
  /\ SetEndOfStream
  /\ UNCHANGED <<user, wire, held, faults, validator, anchors>>

Occurs(fault) ==
  /\ fault \in Faults /\ Len(faults) < MaxFaults
  /\ faults' = Append(faults, fault)

(* The session is freed, with the SEIs that wait, and a new one is created *)
(* with another key. *)
RestartWithNewKey ==
  /\ ~Has("newkey") /\ Occurs("newkey")
  /\ wire = <<>> /\ ~ended /\ stream # <<>>
  /\ gop' = NewGopInfo
  /\ started' = FALSE
  /\ untilSigning' = signingFrequency
  /\ fetched' = Len(seis)
  /\ announced' = FALSE
  /\ UNCHANGED <<scenario, stream, ended, settings, seis, prompt, wire, held, validator,
                  anchors>>

-----------------------------------------------------------------------------
(* On the way.                                                             *)

Lose ==
  /\ wire # <<>>
  /\ Occurs("lose")
  /\ wire' = <<>>
  /\ UNCHANGED <<signer, user, held, validator, anchors>>

(* Another content, hence another hash; of a SEI either something that is  *)
(* not modelled or the GOP hash. *)
Change ==
  /\ wire # <<>> /\ wire[1].id > 0
  /\ Occurs("change")
  /\ LET nalu == [wire[1] EXCEPT !.id = -@, !.intact = FALSE]
     IN  \/ wire' = <<nalu>>
         \/ nalu.kind = "sei" /\ wire' = <<[nalu EXCEPT !.data.gopHash = <<>>]>>
  /\ UNCHANGED <<signer, user, held, validator, anchors>>

Delay ==
  /\ wire # <<>> /\ held = <<>>
  /\ Occurs("delay")
  /\ held' = wire
  /\ wire' = <<>>
  /\ UNCHANGED <<signer, user, validator, anchors>>

Release ==
  /\ wire = <<>> /\ held # <<>>
  /\ wire' = held
  /\ held' = <<>>
  /\ UNCHANGED <<signer, user, faults, validator, anchors>>

-----------------------------------------------------------------------------
(* The side that validates.                                                *)

(* It tunes in when some of the stream is over. *)
TuneIn ==
  /\ session.accumulated.received = 0
  /\ wire # <<>>
  /\ "late" \in Faults
  /\ faults \in {<<>>, <<"late">>}
  /\ faults' = <<"late">>
  /\ wire' = <<>>
  /\ UNCHANGED <<signer, user, held, validator, anchors>>

Receive ==
  /\ wire # <<>>
  /\ Other!AddNaluAndAuthenticate(wire[1])
  /\ wire' = <<>>
  /\ verdicts' = IF report' = <<>> THEN verdicts
                 ELSE verdicts \o SubSeq(report'[1].items, 1, report'[1].validated)
  /\ UNCHANGED <<signer, user, held, faults, anchors>>

StartOver ==
  /\ Occurs("reset")
  /\ wire = <<>>
  /\ Other!Reset
  /\ verdicts' = <<>>
  /\ UNCHANGED <<signer, user, wire, held, anchors>>

SetTrusted(certificate) ==
  /\ Occurs("trust")
  /\ wire = <<>>
  /\ Other!SetTrustedCertificate(certificate)
  /\ anchors' = anchors \cup ({session'.trusted} \ {0})
  /\ UNCHANGED <<signer, user, wire, held, verdicts>>

StreamNext ==
  \/ \E kind \in scenario.kinds : Sign(kind)
  \/ FetchCertificateSei \/ FetchSei \/ End
  \/ RestartWithNewKey
  \/ Lose \/ Change \/ Delay \/ Release
  \/ TuneIn \/ Receive \/ StartOver
  \/ \E certificate \in Keys : SetTrusted(certificate)

StreamSpec == StreamInit /\ [][StreamNext]_streamVars

-----------------------------------------------------------------------------
(* What the other side may rely on.                                        *)

Authenticity == session.accumulated.authenticity

Statuses == {Other!Pending, Other!Valid, Other!Invalid, Other!Unknown, Other!Ignored,
             Other!Missing, Other!Error}

(* Both sides and what is on the way keep to their types: statuses and     *)
(* associations of the items, results, and no more validated than received.*)
SidesTyped ==
  /\ TypeOK
  /\ fetched \in 0..Len(seis)
  /\ Len(wire) <= 1 /\ Len(held) <= 1
  /\ \A i \in DOMAIN faults : faults[i] \in Faults
  /\ \A k \in DOMAIN session.list :
       LET item == session.list[k]
       IN  /\ item.status \in Statuses /\ item.tmp \in Statuses
           /\ item.ifSeiOk \in {Other!Unset, Other!Valid, Other!Invalid, Other!Unknown}
           /\ item.at \in 0..session.accumulated.received
           /\ item.sei \in 0..session.accumulated.received
  /\ Authenticity \in Other!NotSigned..Other!Ok
  /\ session.accumulated.validated \in 0..session.accumulated.received

(* And the counters of the validation session have their bounds. *)
StreamTypeOK ==
  /\ SidesTyped
  /\ session.current \in -1..(CounterRange - 1)
  /\ session.lost \in -(CounterRange \div 2)..(CounterRange - CounterRange \div 2 - 1)
  /\ session.numNalus \in 0..MaxNalus

(* Every SEI without a signature that was fetched was also given to the    *)
(* signing session: none was fetched after the end of the stream.          *)
UnsignedAreHashed ==
  Cardinality({n \in DOMAIN stream : stream[n] = "sei"})
    = Cardinality({i \in 1..fetched : ~seis[i].signed})

(* A stream that nothing has happened to is authentic, each NAL Unit of    *)
(* it, whenever its SEIs are fetched and wherever its GOPs are cut, up to  *)
(* its end (validate_authenticity()).                                      *)
UntouchedIsAuthentic ==
  faults = <<>> /\ UnsignedAreHashed =>
    /\ Authenticity \notin {Other!NotOk, Other!OkWithMissing}
    /\ \A i \in DOMAIN verdicts : verdicts[i].status \in {Other!Valid, Other!Ignored}

(* When the stream was ended, once, and all its SEIs have arrived, nothing *)
(* waits in the list: every NAL Unit got its verdict, the last one         *)
(* included (onvif_media_signing_set_end_of_stream(),                      *)
(* maybe_validate_gop()).  The SEI of a stream without frames does wait,   *)
(* so does that of a second end, and so does what no SEI covers.           *)
EndIsValidated ==
  (/\ faults = <<>> /\ UnsignedAreHashed
   /\ ended /\ NothingWaits /\ wire = <<>>
   /\ Cardinality({k \in DOMAIN seis : seis[k].atEnd}) = 1
   /\ \E n \in DOMAIN stream : stream[n] \in {"I", "P", "slice"})
    => session.list = <<>>

(* The list does not grow if SEIs are fetched at once: besides the GOP at  *)
(* hand it has those of a signing period that waits for its signature, and *)
(* those of the one before (nalu_list_clean_up()).                         *)
BacklogIsBounded ==
  faults = <<>> /\ prompt =>
    Cardinality({k \in DOMAIN session.list : session.list[k].nalu.kind = "I"})
      <= 2 * signingFrequency + 1

(* A NAL Unit that was changed on the way is never valid, as the hashes of *)
(* the SEIs tell (verify_indiviual_hashes(), compute_gop_hash()).  Signed  *)
(* SEIs, which no SEI hashes, are left out: one whose signature failed can *)
(* get the status of an earlier one (update_sei_in_validation()).          *)
NoChangedNaluIsValid ==
  \A i \in DOMAIN verdicts :
    verdicts[i].status = Other!Valid /\ ~Other!IsSigned(verdicts[i])
      => verdicts[i].nalu.id > 0

(* What is associated with a SEI is in the list no longer than the SEI:    *)
(* associated_sei is a pointer to an item that nalu_list_clean_up() frees. *)
NoDanglingSei ==
  \A k \in DOMAIN session.list :
    session.list[k].sei # 0 => Other!PlaceOf(session.list, session.list[k].sei) # 0

(* Whatever happens on the way: a NAL Unit received is either reported as  *)
(* validated, once, or it waits in the list; the items that stand for      *)
(* missing ones do not count (update_authenticity_report()).               *)
ReceivedIsAccountedFor ==
  session.accumulated.received =
    session.accumulated.validated
      + Cardinality({k \in DOMAIN session.list : session.list[k].status # Other!Missing})

(* Once SEIs and GOPs have come in sync a stream that is found not         *)
(* authentic stays that, whatever comes after it, until the session is     *)
(* reset (update_accumulated_validation(), maybe_validate_gop()).          *)
NotOkStays ==
  [][Authenticity = Other!NotOk /\ ~session.isFirstValidation =>
       Authenticity' = Other!NotOk \/ session'.accumulated.received = 0]_streamVars

(* The overall result is never better than its parts, although the three   *)
(* are accumulated apart and each in its own way; and when it is OK the    *)
(* key of the last report has certificates that chain up to one that was   *)
(* trusted at some time (update_accumulated_validation(),                  *)
(* openssl_verify_certificate_chain()).                                    *)
OverallOkIsEarned ==
  LET overall == session.accumulated
  IN  overall.both \in {Other!BothOk, Other!BothOkWithMissing} =>
        /\ overall.authenticity \in {Other!Ok, Other!OkWithMissing}
        /\ overall.both = Other!BothOk => overall.authenticity = Other!Ok
        /\ overall.provenance = Other!ProvenanceOk
        /\ report # <<>> => session.key \in anchors

(* A stream is OK only if no NAL Unit of it failed verification, as        *)
(* OMS_AUTHENTICITY_NOT_OK would tell (validate_authenticity(),            *)
(* onvif_media_signing_validator.h:98).                                    *)
OkMeansNoneFailed ==
  Authenticity = Other!Ok =>
    \A i \in DOMAIN verdicts : verdicts[i].status # Other!Invalid

(* Who tunes in late misses a part of the stream and no more: nothing of   *)
(* what is received after that fails verification, as                      *)
(* OMS_AUTHENTICITY_NOT_OK would tell (validate_authenticity()).           *)
TunedInIsNotRejected ==
  (\A i \in DOMAIN faults : faults[i] = "late") => Authenticity # Other!NotOk

=============================================================================
