---------------------- MODULE UnthreadedSigningProofs ----------------------
(***************************************************************************)
(* Proofs about the unthreaded signing plugin, for every buffer length and *)
(* every set of hashes.  The inductive invariant adds to the properties    *)
(* that the memory of the slots is allocated from the front (the shift     *)
(* loop stops at the first slot without memory, so a hole would make it    *)
(* stop too early) and that the last slot is never allocated.              *)
(***************************************************************************)
EXTENDS UnthreadedSigning, SequenceTheorems, TLAPS

(* Slots are allocated from the front, the last one never. *)
AllocatedFromFront ==
  /\ \A i, j \in Slots : i < j /\ out[j] # Unallocated => out[i] # Unallocated
  /\ out[UNTHREADED_BUFFER_LENGTH - 1] = Unallocated

IInv == UnthreadedTypeOK /\ WaitingAreSigned /\ AllocatedFromFront

(* The shift loop of get_signature() passes all the waiting signatures, so *)
(* shifting keeps the front-to-back order of memory and signatures.        *)
LEMMA ShiftKeepsOrder ==
  ASSUME IInv, out_idx > 0, NEW stop \in 1..UNTHREADED_BUFFER_LENGTH, StopsAt(stop)
  PROVE  /\ out_idx <= stop
         /\ stop < UNTHREADED_BUFFER_LENGTH
         /\ \A i \in Slots : i < stop <=> out[i] # Unallocated
<1> USE UnthreadedBufferAssumption, SlotAssumption
        DEF IInv, UnthreadedTypeOK, WaitingAreSigned, AllocatedFromFront, Slots
<1>1. stop < UNTHREADED_BUFFER_LENGTH
  <2>1. CASE stop = UNTHREADED_BUFFER_LENGTH
    <3>1. UNTHREADED_BUFFER_LENGTH - 1 \in 1..(stop - 1)
      BY <2>1
    <3> QED BY <3>1 DEF StopsAt, Looks
  <2> QED BY <2>1
<1>2. out[stop] = Unallocated /\ stop \in Slots
  BY <1>1 DEF StopsAt
<1>3. out[0] # Unallocated
  <2>1. 0 \in Slots /\ 0 < out_idx
    OBVIOUS
  <2>2. out[0] \in UnthreadedHashes
    BY <2>1
  <2> QED BY <2>2
<1>4. \A i \in Slots : i < stop => out[i] # Unallocated
  BY <1>3 DEF StopsAt, Looks
<1>5. \A i \in Slots : ~(i < stop) => out[i] = Unallocated
  BY <1>2
<1>6. out_idx <= stop
  <2>1. out[stop] \notin UnthreadedHashes
    BY <1>2
  <2> QED BY <2>1, <1>2
<1> QED BY <1>1, <1>4, <1>5, <1>6

(* Every step of the plugin keeps the inductive invariant. *)
LEMMA StepKeepsIInv == IInv /\ [UnthreadedNext]_unthreadedVars => IInv'
<1> SUFFICES ASSUME IInv, [UnthreadedNext]_unthreadedVars PROVE IInv'
  OBVIOUS
<1> USE UnthreadedBufferAssumption, SlotAssumption
<1>1. CASE SessionSetup
  BY <1>1 DEF SessionSetup, IInv, UnthreadedTypeOK, WaitingAreSigned, AllocatedFromFront, Slots
<1>2. ASSUME NEW h \in UnthreadedHashes, Sign(h) PROVE IInv'
  <2> USE <1>2 DEF Sign, IInv, Slots
  <2>1. UnthreadedTypeOK'
    BY DEF UnthreadedTypeOK
  <2>2. WaitingAreSigned'
    BY DEF WaitingAreSigned, UnthreadedTypeOK
  <2>3. AllocatedFromFront'
    <3>1. \A i \in Slots : i < out_idx => out[i] # Unallocated
      BY DEF WaitingAreSigned
    <3>2. \A i \in Slots : i <= out_idx => out'[i] # Unallocated
      BY <3>1 DEF UnthreadedTypeOK
    <3>3. \A i \in Slots : i > out_idx => out'[i] = out[i]
      BY DEF UnthreadedTypeOK
    <3>4. out_idx \in Slots /\ out_idx < UNTHREADED_BUFFER_LENGTH - 1
      BY DEF UnthreadedTypeOK
    <3> QED BY <3>2, <3>3, <3>4 DEF AllocatedFromFront, UnthreadedTypeOK
  <2> QED BY <2>1, <2>2, <2>3
<1>3. ASSUME NEW roomy \in BOOLEAN, UnthreadedGetSignature(roomy) PROVE IInv'
  <2>1. PICK stop \in 1..UNTHREADED_BUFFER_LENGTH : StopsAt(stop) /\ out' = Shifted(stop)
    BY <1>3 DEF UnthreadedGetSignature
  <2>2. /\ out_idx > 0
        /\ out_idx' = out_idx - 1
        /\ isSetUp' = isSetUp
        /\ got' = [found |-> TRUE, copied |-> IF roomy THEN out[0] ELSE Nothing]
    BY <1>3 DEF UnthreadedGetSignature
  <2>3. /\ out_idx <= stop
        /\ stop < UNTHREADED_BUFFER_LENGTH
        /\ \A i \in Slots : i < stop <=> out[i] # Unallocated
    BY <2>1, <2>2, ShiftKeepsOrder
  <2>4. \A i \in Slots : out'[i] = IF i < stop - 1 THEN out[i + 1]
                                   ELSE IF i = stop - 1 THEN Stale ELSE out[i]
    BY <2>1 DEF Shifted
  <2>5. UnthreadedTypeOK'
    <3>1. out' \in [Slots -> UnthreadedHashes \cup {Unallocated, Stale}]
      BY <2>1, <2>3 DEF Shifted, IInv, UnthreadedTypeOK, Slots
    <3>2. got' \in [found : BOOLEAN, copied : UnthreadedHashes \cup {Unallocated, Stale, Nothing}]
      <4>1. out[0] \in UnthreadedHashes \cup {Unallocated, Stale}
        BY DEF IInv, UnthreadedTypeOK, Slots
      <4> QED BY <2>2, <4>1
    <3> QED BY <3>1, <3>2, <2>2 DEF IInv, UnthreadedTypeOK
  <2>6. WaitingAreSigned'
    BY <2>2, <2>3, <2>4 DEF IInv, UnthreadedTypeOK, WaitingAreSigned, Slots
  <2>7. AllocatedFromFront'
    <3>1. \A i \in Slots : i < stop <=> out'[i] # Unallocated
      BY <2>3, <2>4 DEF IInv, UnthreadedTypeOK, Slots
    <3> QED BY <3>1, <2>3 DEF AllocatedFromFront, Slots
  <2> QED BY <2>5, <2>6, <2>7 DEF IInv
<1>4. CASE UnthreadedGetNothing
  BY <1>4 DEF UnthreadedGetNothing, NoCall, IInv, UnthreadedTypeOK, WaitingAreSigned, AllocatedFromFront, Slots
<1>5. CASE SessionTeardown
  <2>1. \A i \in Slots : out'[i] = Unallocated
    BY <1>5 DEF SessionTeardown
  <2>2. UnthreadedTypeOK'
    <3>1. out' \in [Slots -> UnthreadedHashes \cup {Unallocated, Stale}]
      BY <1>5 DEF SessionTeardown
    <3>2. isSetUp' \in BOOLEAN
      BY <1>5, Zenon DEF SessionTeardown
    <3>3. out_idx' \in 0..(UNTHREADED_BUFFER_LENGTH - 1)
      BY <1>5 DEF SessionTeardown
    <3> QED BY <1>5, <3>1, <3>2, <3>3 DEF SessionTeardown, IInv, UnthreadedTypeOK
  <2>3. WaitingAreSigned' /\ AllocatedFromFront'
    BY <1>5, <2>1 DEF SessionTeardown, WaitingAreSigned, AllocatedFromFront, Slots
  <2> QED BY <2>2, <2>3 DEF IInv
<1>6. CASE UNCHANGED unthreadedVars
  BY <1>6 DEF unthreadedVars, IInv, UnthreadedTypeOK, WaitingAreSigned, AllocatedFromFront, Slots
<1> QED BY <1>1, <1>2, <1>3, <1>4, <1>5, <1>6 DEF UnthreadedNext

(* The inductive invariant holds from setup to teardown. *)
LEMMA Invariance == UnthreadedSpec => []IInv
<1>1. UnthreadedInit => IInv
  <2> SUFFICES ASSUME UnthreadedInit PROVE IInv
    OBVIOUS
  <2> USE UnthreadedBufferAssumption, SlotAssumption DEF UnthreadedInit
  <2>1. \A i \in Slots : out[i] = Unallocated
    OBVIOUS
  <2>2. UnthreadedTypeOK
    <3>1. out \in [Slots -> UnthreadedHashes \cup {Unallocated, Stale}]
      OBVIOUS
    <3>2. isSetUp \in BOOLEAN
      BY Zenon
    <3>3. out_idx \in 0..(UNTHREADED_BUFFER_LENGTH - 1)
      OBVIOUS
    <3> QED BY <3>1, <3>2, <3>3 DEF UnthreadedTypeOK, NoCall
  <2>3. WaitingAreSigned /\ AllocatedFromFront
    BY <2>1 DEF WaitingAreSigned, AllocatedFromFront, Slots
  <2> QED BY <2>2, <2>3 DEF IInv
<1> QED BY <1>1, StepKeepsIInv, PTL DEF UnthreadedSpec

(* The variables of the unthreaded plugin keep their types. *)
THEOREM TypeCorrect == UnthreadedSpec => []UnthreadedTypeOK
<1>1. IInv => UnthreadedTypeOK
  BY DEF IInv
<1> QED BY <1>1, Invariance, PTL

(* The shift loop of get_signature() never reads behind out[], for every   *)
(* buffer length: plugin_sign() refuses one slot before the array is full. *)
THEOREM ShiftStaysInside == UnthreadedSpec => []NoReadPastEnd
<1>1. IInv => NoReadPastEnd
  <2> SUFFICES ASSUME IInv, Looks(UNTHREADED_BUFFER_LENGTH) PROVE FALSE
    BY DEF NoReadPastEnd
  <2>1. UNTHREADED_BUFFER_LENGTH - 1 \in 1..(UNTHREADED_BUFFER_LENGTH - 1)
    BY UnthreadedBufferAssumption
  <2> QED BY <2>1 DEF Looks, IInv, AllocatedFromFront
<1> QED BY <1>1, Invariance, PTL

(* The slots in front of out_idx, and no others, hold signatures. *)
THEOREM WaitingStaySigned == UnthreadedSpec => []WaitingAreSigned
<1>1. IInv => WaitingAreSigned
  BY DEF IInv
<1> QED BY <1>1, Invariance, PTL

(* What waits is the sequence of the hashes in the first out_idx slots. *)
WaitingIsSequence ==
  /\ Waiting \in Seq(UnthreadedHashes)
  /\ Len(Waiting) = out_idx
  /\ \A i \in 1..out_idx : Waiting[i] = out[i - 1]
  /\ out_idx \in Nat

(* The hashes in the first n slots are a sequence of n hashes. *)
LEMMA SlotsAreSequence ==
  ASSUME NEW n \in Slots, NEW slots, \A i \in Slots : i < n => slots[i] \in UnthreadedHashes
  PROVE  LET seq == [i \in 1..n |-> slots[i - 1]]
         IN  seq \in Seq(UnthreadedHashes) /\ Len(seq) = n /\ \A i \in 1..n : seq[i] = slots[i - 1]
<1>1. n \in Nat /\ \A i \in 1..n : i - 1 \in Slots /\ i - 1 < n
  BY UnthreadedBufferAssumption DEF Slots
<1>2. \A i \in 1..n : slots[i - 1] \in UnthreadedHashes
  BY <1>1
<1> QED BY <1>1, <1>2

(* So is what waits, in the states before and after a step. *)
LEMMA WaitingSequence == (IInv => WaitingIsSequence) /\ (IInv' => WaitingIsSequence')
<1>1. ASSUME IInv PROVE WaitingIsSequence
  <2>1. out_idx \in Slots /\ \A i \in Slots : i < out_idx => out[i] \in UnthreadedHashes
    BY <1>1 DEF IInv, UnthreadedTypeOK, WaitingAreSigned, Slots
  <2>2. out_idx \in Nat
    BY <2>1, UnthreadedBufferAssumption DEF Slots
  <2> QED BY <2>1, <2>2, SlotsAreSequence DEF WaitingIsSequence, Waiting
<1>2. ASSUME IInv' PROVE WaitingIsSequence'
  <2>1. out_idx' \in Slots /\ \A i \in Slots : i < out_idx' => out'[i] \in UnthreadedHashes
    BY <1>2 DEF IInv, UnthreadedTypeOK, WaitingAreSigned, Slots
  <2>2. out_idx' \in Nat
    BY <2>1, UnthreadedBufferAssumption DEF Slots
  <2> QED BY <2>1, <2>2, SlotsAreSequence DEF WaitingIsSequence, Waiting
<1> QED BY <1>1, <1>2

(* plugin_sign() puts the signature behind those that wait.                *)
LEMMA SignAppends ==
  ASSUME IInv, IInv', NEW h \in UnthreadedHashes, Sign(h)
  PROVE  Waiting' = Append(Waiting, h)
<1>1. /\ Waiting \in Seq(UnthreadedHashes) /\ Len(Waiting) = out_idx /\ out_idx \in Nat
      /\ \A i \in 1..out_idx : Waiting[i] = out[i - 1]
  BY WaitingSequence DEF WaitingIsSequence
<1>2. /\ Waiting' \in Seq(UnthreadedHashes) /\ Len(Waiting') = out_idx'
      /\ \A i \in 1..out_idx' : Waiting'[i] = out'[i - 1]
  BY WaitingSequence DEF WaitingIsSequence
<1>3. /\ out_idx' = out_idx + 1 /\ out_idx \in Slots
      /\ \A i \in Slots : out'[i] = IF i = out_idx THEN h ELSE out[i]
  BY UnthreadedBufferAssumption DEF Sign, IInv, UnthreadedTypeOK, Slots
<1>4. /\ Append(Waiting, h) \in Seq(UnthreadedHashes) /\ Len(Append(Waiting, h)) = out_idx + 1
      /\ \A i \in 1..out_idx : Append(Waiting, h)[i] = Waiting[i]
      /\ Append(Waiting, h)[out_idx + 1] = h
  BY <1>1, AppendProperties
<1>5. ASSUME NEW i \in 1..(out_idx + 1) PROVE Waiting'[i] = Append(Waiting, h)[i]
  <2>1. i - 1 \in Slots
    BY <1>1, <1>3, UnthreadedBufferAssumption DEF Slots
  <2>2. Waiting'[i] = IF i - 1 = out_idx THEN h ELSE out[i - 1]
    BY <1>2, <1>3, <2>1
  <2> QED BY <1>1, <1>4, <2>2
<1> QED BY <1>2, <1>3, <1>4, <1>5, SeqEqual

(* get_signature() takes the oldest signature, and the shift loop leaves   *)
(* the others in their order.                                              *)
LEMMA GetSignatureTakesOldest ==
  ASSUME IInv, IInv', NEW roomy \in BOOLEAN, UnthreadedGetSignature(roomy)
  PROVE  /\ Waiting # <<>>
         /\ Waiting' = Tail(Waiting)
         /\ got'.copied = IF roomy THEN Head(Waiting) ELSE Nothing
<1>1. /\ Waiting \in Seq(UnthreadedHashes) /\ Len(Waiting) = out_idx /\ out_idx \in Nat
      /\ \A i \in 1..out_idx : Waiting[i] = out[i - 1]
  BY WaitingSequence DEF WaitingIsSequence
<1>2. /\ Waiting' \in Seq(UnthreadedHashes) /\ Len(Waiting') = out_idx'
      /\ \A i \in 1..out_idx' : Waiting'[i] = out'[i - 1]
  BY WaitingSequence DEF WaitingIsSequence
<1>3. /\ out_idx > 0 /\ out_idx' = out_idx - 1
      /\ got' = [found |-> TRUE, copied |-> IF roomy THEN out[0] ELSE Nothing]
  BY DEF UnthreadedGetSignature
<1>4. PICK stop \in 1..UNTHREADED_BUFFER_LENGTH : StopsAt(stop) /\ out' = Shifted(stop)
  BY DEF UnthreadedGetSignature
<1>5. out_idx <= stop
  BY <1>3, <1>4, ShiftKeepsOrder
<1>6. Waiting # <<>> /\ Head(Waiting) = out[0]
  <2>1. Waiting # <<>>
    BY <1>1, <1>3, EmptySeq
  <2>2. Head(Waiting) = Waiting[1]
    BY <1>1, <2>1
  <2> QED BY <2>1, <2>2, <1>1, <1>3
<1>7. /\ Tail(Waiting) \in Seq(UnthreadedHashes) /\ Len(Tail(Waiting)) = out_idx - 1
      /\ \A i \in 1..(out_idx - 1) : Tail(Waiting)[i] = Waiting[i + 1]
  BY <1>1, <1>6, HeadTailProperties
<1>8. ASSUME NEW i \in 1..(out_idx - 1) PROVE Waiting'[i] = Tail(Waiting)[i]
  <2>1. i - 1 \in Slots /\ i - 1 < stop - 1 /\ i + 1 \in 1..out_idx
    BY <1>1, <1>3, <1>5, UnthreadedBufferAssumption DEF Slots, IInv, UnthreadedTypeOK
  <2>2. out'[i - 1] = out[(i - 1) + 1]
    BY <1>4, <2>1 DEF Shifted
  <2>3. (i - 1) + 1 = (i + 1) - 1
    BY <1>1
  <2>4. Waiting'[i] = out[(i + 1) - 1]
    BY <1>2, <1>3, <2>2, <2>3
  <2> QED BY <1>1, <1>7, <2>1, <2>4
<1>9. Waiting' = Tail(Waiting)
  BY <1>2, <1>3, <1>7, <1>8, SeqEqual
<1> QED BY <1>3, <1>6, <1>9

(* Every signature fetched is the one of the oldest hash still waiting:    *)
(* the plugin implements SigningQueue, each of its steps being a step of   *)
(* the queue.                                                              *)
THEOREM OrderIsKept == UnthreadedSpec => SignaturesInOrder
<1> DEFINE session == "session"
           pend == [s \in {session} |-> Waiting]
           ans == [s \in {session} |-> got.copied]
<1>1. UnthreadedInit => UnthreadedPromise!Init
  <2> SUFFICES ASSUME UnthreadedInit PROVE UnthreadedPromise!Init
    OBVIOUS
  <2>1. Waiting = <<>> /\ got.copied = Nothing
    BY DEF UnthreadedInit, Waiting, NoCall
  <2> QED BY <2>1 DEF UnthreadedPromise!Init
<1>2. IInv /\ IInv' /\ [UnthreadedNext]_unthreadedVars => [UnthreadedPromise!Next]_(UnthreadedPromise!vars)
  <2> SUFFICES ASSUME IInv, IInv', [UnthreadedNext]_unthreadedVars PROVE [UnthreadedPromise!Next]_(UnthreadedPromise!vars)
    OBVIOUS
  <2>1. CASE SessionSetup
    BY <2>1 DEF SessionSetup, UnthreadedPromise!vars, Waiting
  <2>2. ASSUME NEW h \in UnthreadedHashes, Sign(h) PROVE UnthreadedPromise!Next
    <3>1. Waiting' = Append(Waiting, h) /\ got' = got
      BY <2>2, SignAppends DEF Sign
    <3>2. UnthreadedPromise!Accept(session, h)
      BY <3>1 DEF UnthreadedPromise!Accept
    <3> QED BY <3>2 DEF UnthreadedPromise!Next
  <2>3. ASSUME NEW roomy \in BOOLEAN, UnthreadedGetSignature(roomy) PROVE UnthreadedPromise!Next
    <3>1. /\ Waiting # <<>>
          /\ Waiting' = Tail(Waiting)
          /\ got'.copied = IF roomy THEN Head(Waiting) ELSE Nothing
      BY <2>3, GetSignatureTakesOldest
    <3>2. CASE roomy
      <4>1. UnthreadedPromise!Answer(session)
        BY <3>1, <3>2 DEF UnthreadedPromise!Answer
      <4> QED BY <4>1 DEF UnthreadedPromise!Next
    <3>3. CASE ~roomy
      <4>1. UnthreadedPromise!Refuse(session)
        BY <3>1, <3>3 DEF UnthreadedPromise!Refuse
      <4> QED BY <4>1 DEF UnthreadedPromise!Next
    <3> QED BY <3>2, <3>3
  <2>4. CASE UnthreadedGetNothing
    <3>1. Waiting' = Waiting /\ got'.copied = Nothing
      BY <2>4 DEF UnthreadedGetNothing, NoCall, Waiting
    <3>2. UnthreadedPromise!NotYet(session)
      BY <3>1 DEF UnthreadedPromise!NotYet
    <3> QED BY <3>2 DEF UnthreadedPromise!Next
  <2>5. CASE SessionTeardown
    <3>1. Waiting' = <<>> /\ got' = got
      BY <2>5 DEF SessionTeardown, Waiting
    <3>2. UnthreadedPromise!GiveUp({session})
      BY <3>1 DEF UnthreadedPromise!GiveUp
    <3> QED BY <3>2 DEF UnthreadedPromise!Next
  <2>6. CASE UNCHANGED unthreadedVars
    BY <2>6 DEF unthreadedVars, UnthreadedPromise!vars, Waiting
  <2> QED BY <2>1, <2>2, <2>3, <2>4, <2>5, <2>6 DEF UnthreadedNext
<1> QED BY <1>1, <1>2, Invariance, PTL DEF UnthreadedSpec, SignaturesInOrder, UnthreadedPromise!Spec

=============================================================================
