------------------------- MODULE LocalSigningProofs -------------------------
(***************************************************************************)
(* Proofs about the plugin with a worker of the session's own, for every   *)
(* set of hashes and every buffer length, whatever fails and whenever the  *)
(* threads wake up without a signal.                                       *)
(*                                                                         *)
(* NobodyOversleeps is not inductive by itself: that the session waits     *)
(* only for a worker that will signal it needs Phases, which relates the   *)
(* places of the two threads to is_running and to the hash being signed.   *)
(***************************************************************************)
EXTENDS LocalSigning, DataLemmas

Elements == [hash : LocalHashes, error : BOOLEAN]

(* The types of the variables; at most one hash is being signed. *)
TypeOK ==
  /\ localRunning \in BOOLEAN
  /\ localIn \in Seq(LocalHashes)
  /\ localSigning = <<>> \/ \E h \in LocalHashes : localSigning = <<h>>
  /\ localOut \in Seq(Elements)
  /\ localWpc \in {"none", "created", "locked", "wait", "signing", "ended"}
  /\ localSpc \in {"closed", "setup", "open", "exit", "join"}
  /\ localWaiters \subseteq {Worker, Session}
  /\ localAnswer \in LocalHashes \cup {NoAnswer}

(* Where the two threads may be at a time and what the plugin has then. *)
Phases ==
  /\ localWpc = "none" <=> localSpc = "closed"
  /\ localWpc = "created" => localSpc = "setup"
  /\ localRunning => localWpc \in {"locked", "wait", "signing"} /\ localSpc \in {"setup", "open"}
  /\ localWpc \in {"locked", "wait", "signing"} => localRunning \/ localSpc \in {"exit", "join"}
  /\ localWpc = "signing" <=> localSigning # <<>>
  /\ localSpc = "setup" => localWpc \in {"created", "locked", "wait"} /\ localIn = <<>>
  /\ localSpc = "closed" => localIn = <<>> /\ localOut = <<>>
  /\ Worker \in localWaiters => localWpc = "wait"

IInv == TypeOK /\ Phases /\ NobodyOversleeps

(* A signal wakes one of the waiting threads and nobody else. *)
LEMMA SignalWakes ==
  ASSUME NEW W, LocalSignalAmong(W)
  PROVE  /\ localWaiters' \subseteq W
         /\ \A w : W \subseteq {w} => localWaiters' = {}
BY DEF LocalSignalAmong

(* An accepted hash comes last, and the worker is woken. *)
LEMMA SignAppends ==
  ASSUME NEW h \in LocalHashes, LocalPluginSign(h)
  PROVE  /\ localSpc = "open" /\ LocalLockFree /\ localRunning
         /\ localIn' = Append(localIn, h)
         /\ LocalSignalAmong(localWaiters)
         /\ UNCHANGED <<localRunning, localSigning, localOut, localWpc,
                        localSpc, localAnswer>>
BY DEF LocalPluginSign, LocalTakeSlot, LocalMaySign

(* A hash that is not accepted wakes the worker and changes nothing else,  *)
(* but for the memory it may have been given.                              *)
LEMMA RefusedSignChangesNothing ==
  ASSUME NEW h \in LocalHashes, LocalPluginSignOutOfMemory(h) \/ LocalPluginSignRefused(h)
  PROVE  /\ localSpc = "open" /\ LocalLockFree
         /\ LocalSignalAmong(localWaiters)
         /\ UNCHANGED <<localRunning, localIn, localSigning, localOut,
                        localWpc, localSpc, localAnswer>>
BY DEF LocalPluginSignOutOfMemory, LocalPluginSignRefused, LocalMaySign, localInput

(* Every step of the two threads keeps the types. *)
LEMMA StepKeepsTypes == IInv /\ [LocalNext]_localVars => TypeOK'
<1> SUFFICES ASSUME IInv, [LocalNext]_localVars PROVE TypeOK'
  OBVIOUS
<1> USE DEF IInv, TypeOK, Worker, Session, localInput
<1>1. CASE LocalSetupStart
  BY <1>1 DEF LocalSetupStart
<1>2. CASE LocalTeardownStart
  BY <1>2, SignalWakes DEF LocalTeardownStart, LocalAwaitSigning
<1>3. CASE LocalSetupCheck
  BY <1>3 DEF LocalSetupCheck
<1>4. CASE LocalTeardownWake
  BY <1>4, SignalWakes DEF LocalTeardownWake, LocalAwaitSigning
<1>5. CASE LocalTeardownTimeout
  BY <1>5, SignalWakes DEF LocalTeardownTimeout
<1>6. CASE LocalTeardownJoin
  <2>1. localRunning' \in BOOLEAN /\ localAnswer' \in LocalHashes \cup {NoAnswer}
    BY <1>6, Zenon DEF LocalTeardownJoin
  <2>2. localIn' \in Seq(LocalHashes) /\ localOut' \in Seq(Elements)
    BY <1>6 DEF LocalTeardownJoin, LocalFreePlugin
  <2> QED BY <1>6, <2>1, <2>2 DEF LocalTeardownJoin
<1>7. ASSUME NEW h \in LocalHashes, LocalPluginSign(h) PROVE TypeOK'
  <2> HIDE DEF localInput
  <2>1. localRunning' \in BOOLEAN
    BY <1>7, SignAppends, Zenon
  <2>2. localIn' \in Seq(LocalHashes)
    BY <1>7, SignAppends
  <2> QED BY <1>7, <2>1, <2>2, SignAppends, SignalWakes
<1>8. ASSUME NEW h \in LocalHashes, LocalPluginSignOutOfMemory(h) \/ LocalPluginSignRefused(h)
      PROVE  TypeOK'
  BY <1>8, RefusedSignChangesNothing, SignalWakes
<1>9. CASE LocalPluginGetSignature
  <2>1. localRunning' \in BOOLEAN
    BY <1>9, Zenon DEF LocalPluginGetSignature
  <2>2. localOut' \in Seq(Elements) /\ localAnswer' \in LocalHashes \cup {NoAnswer}
    <3>1. CASE localRunning /\ localOut # <<>>
      <4>1. localOut[1].hash \in LocalHashes /\ localOut[1].error \in BOOLEAN
        <5>1. localOut[1] \in Elements
          BY <3>1
        <5> QED BY <5>1 DEF Elements
      <4>2. localOut' = Tail(localOut) /\ localAnswer' \in {NoAnswer, localOut[1].hash}
        BY <1>9, <3>1, <4>1 DEF LocalPluginGetSignature
      <4> QED BY <4>1, <4>2, <3>1
    <3>2. CASE ~(localRunning /\ localOut # <<>>)
      BY <1>9, <3>2 DEF LocalPluginGetSignature
    <3> QED BY <3>1, <3>2
  <2> QED BY <1>9, <2>1, <2>2 DEF LocalPluginGetSignature
<1>10. CASE LocalWorkerStart
  BY <1>10, SignalWakes DEF LocalWorkerStart
<1>11. CASE LocalWorkerTake
  BY <1>11 DEF LocalWorkerTake
<1>12. CASE LocalWorkerWait
  BY <1>12 DEF LocalWorkerWait
<1>13. CASE LocalWorkerWake
  BY <1>13 DEF LocalWorkerWake
<1>14. ASSUME NEW error \in {FALSE, SigningMayFail}, LocalWorkerDeliver(error) PROVE TypeOK'
  <2>1. localRunning' \in BOOLEAN
    BY <1>14, Zenon DEF LocalWorkerDeliver
  <2>2. [hash |-> localSigning[1], error |-> error] \in Elements
    <3>1. error \in BOOLEAN
      BY SwitchAssumption
    <3>2. localSigning[1] \in LocalHashes
      BY <1>14 DEF LocalWorkerDeliver, Phases
    <3> QED BY <3>1, <3>2 DEF Elements
  <2>3. localOut' \in Seq(Elements)
    BY <1>14, <2>2 DEF LocalWorkerDeliver
  <2> QED BY <1>14, <2>1, <2>3 DEF LocalWorkerDeliver
<1>15. CASE LocalWorkerGivesUp
  <2>1. localRunning' \in BOOLEAN
    BY <1>15, Zenon DEF LocalWorkerGivesUp
  <2>2. localWaiters' \subseteq {Worker, Session}
    BY <1>15, SignalWakes DEF LocalWorkerGivesUp
  <2>3. localIn' \in Seq(LocalHashes) /\ localOut' \in Seq(Elements)
    BY <1>15 DEF LocalWorkerGivesUp, LocalFreePlugin
  <2> QED BY <1>15, <2>1, <2>2, <2>3 DEF LocalWorkerGivesUp
<1>16. CASE LocalWorkerStop
  BY <1>16, SignalWakes DEF LocalWorkerStop
<1>17. ASSUME NEW w \in {Worker, Session}, LocalSpuriousWakeup(w) PROVE TypeOK'
  BY <1>17 DEF LocalSpuriousWakeup
<1>18. CASE UNCHANGED localVars
  BY <1>18 DEF localVars, localInput
<1> QED
  BY <1>1, <1>2, <1>3, <1>4, <1>5, <1>6, <1>7, <1>8, <1>9, <1>10, <1>11, <1>12, <1>13,
     <1>14, <1>15, <1>16, <1>17, <1>18 DEF LocalNext, LocalCallStep, LocalWorkerStep

(* Every step of the two threads keeps what relates their places, and      *)
(* wakes those who have to go on.                                          *)
LEMMA StepKeepsPhases == IInv /\ [LocalNext]_localVars => Phases' /\ NobodyOversleeps'
<1> SUFFICES ASSUME IInv, [LocalNext]_localVars PROVE Phases' /\ NobodyOversleeps'
  OBVIOUS
<1> USE DEF IInv, TypeOK, Phases, NobodyOversleeps, Worker, Session, LocalLockFree, localInput
<1>1. CASE LocalSetupStart
  BY <1>1 DEF LocalSetupStart
<1>2. CASE LocalTeardownStart
  <2>1. Session \notin localWaiters /\ localRunning' = FALSE
    <3>1. localSpc = "open" /\ localRunning' = FALSE
      BY <1>2, Zenon DEF LocalTeardownStart
    <3> QED BY <3>1
  <2>2. CASE localSigning # <<>>
    BY <1>2, <2>1, <2>2 DEF LocalTeardownStart, LocalAwaitSigning
  <2>3. CASE localSigning = <<>>
    <3>1. localWaiters' = {}
      <4>1. LocalSignalAmong(localWaiters)
        BY <1>2, <2>3 DEF LocalTeardownStart, LocalAwaitSigning
      <4>2. localWaiters \subseteq {Worker}
        BY <2>1
      <4> QED BY ONLY <4>1, <4>2, SignalWakes
    <3> QED BY <1>2, <2>1, <2>3, <3>1 DEF LocalTeardownStart, LocalAwaitSigning
  <2> QED BY <2>2, <2>3
<1>3. CASE LocalSetupCheck
  BY <1>3 DEF LocalSetupCheck
<1>4. CASE LocalTeardownWake
  BY <1>4, SignalWakes DEF LocalTeardownWake, LocalAwaitSigning
<1>5. CASE LocalTeardownTimeout
  BY <1>5, SignalWakes DEF LocalTeardownTimeout
<1>6. CASE LocalTeardownJoin
  BY <1>6 DEF LocalTeardownJoin, LocalFreePlugin
<1>7. ASSUME NEW h \in LocalHashes, LocalPluginSign(h) PROVE Phases' /\ NobodyOversleeps'
  <2>1. Session \notin localWaiters /\ localIn' # <<>>
    <3>1. localSpc = "open" /\ localIn' = Append(localIn, h)
      BY <1>7, SignAppends
    <3> QED BY <3>1
  <2>2. localWaiters' = {}
    <3>1. LocalSignalAmong(localWaiters)
      BY <1>7, SignAppends
    <3>2. localWaiters \subseteq {Worker}
      BY <2>1
    <3> QED BY ONLY <3>1, <3>2, SignalWakes
  <2> QED BY <1>7, <2>1, <2>2, SignAppends
<1>8. ASSUME NEW h \in LocalHashes, LocalPluginSignOutOfMemory(h) \/ LocalPluginSignRefused(h)
      PROVE  Phases' /\ NobodyOversleeps'
  BY <1>8, RefusedSignChangesNothing, SignalWakes
<1>9. CASE LocalPluginGetSignature
  BY <1>9 DEF LocalPluginGetSignature
<1>10. CASE LocalWorkerStart
  BY <1>10, SignalWakes DEF LocalWorkerStart
<1>11. CASE LocalWorkerTake
  BY <1>11 DEF LocalWorkerTake
<1>12. CASE LocalWorkerWait
  BY <1>12 DEF LocalWorkerWait
<1>13. CASE LocalWorkerWake
  BY <1>13 DEF LocalWorkerWake
<1>14. ASSUME NEW error \in {FALSE, SigningMayFail}, LocalWorkerDeliver(error)
       PROVE  Phases' /\ NobodyOversleeps'
  BY <1>14 DEF LocalWorkerDeliver
<1>15. CASE LocalWorkerGivesUp
  BY <1>15, SignalWakes DEF LocalWorkerGivesUp, LocalFreePlugin
<1>16. CASE LocalWorkerStop
  BY <1>16, SignalWakes, ZenonT(30) DEF LocalWorkerStop
<1>17. ASSUME NEW w \in {Worker, Session}, LocalSpuriousWakeup(w) PROVE Phases' /\ NobodyOversleeps'
  BY <1>17 DEF LocalSpuriousWakeup
<1>18. CASE UNCHANGED localVars
  BY <1>18 DEF localVars, localInput
<1> QED
  BY <1>1, <1>2, <1>3, <1>4, <1>5, <1>6, <1>7, <1>8, <1>9, <1>10, <1>11, <1>12, <1>13,
     <1>14, <1>15, <1>16, <1>17, <1>18 DEF LocalNext, LocalCallStep, LocalWorkerStep

(* The inductive invariant holds from setup to teardown. *)
LEMMA Invariance == LocalSpec => []IInv
<1>1. LocalInit => IInv
  <2> SUFFICES ASSUME LocalInit PROVE IInv
    OBVIOUS
  <2> USE DEF LocalInit
  <2>1. localRunning \in BOOLEAN
    BY Zenon
  <2> QED BY <2>1 DEF IInv, TypeOK, Phases, NobodyOversleeps
<1>2. IInv /\ [LocalNext]_localVars => IInv'
  BY StepKeepsTypes, StepKeepsPhases DEF IInv
<1> QED BY <1>1, <1>2, PTL DEF LocalSpec

(* The worker never sleeps when there is a hash to sign or after it was    *)
(* told to stop, nor the session when setup or teardown could go on.       *)
THEOREM NoLostWakeup == LocalSpec => []NobodyOversleeps
<1>1. IInv => NobodyOversleeps
  BY DEF IInv
<1> QED BY <1>1, Invariance, PTL

(* What the session waits for when it has the signatures and errors out,   *)
(* the hash now is being signed and the hashes in wait.                    *)
HashesIn(out) == [i \in DOMAIN out |-> out[i].hash]
Pending(out, now, in) == HashesIn(out) \o now \o in

(* The hashes of the signatures and errors are in their order, and stay in *)
(* it when the oldest is fetched or a new one comes behind them.           *)
LEMMA HashesInElements ==
  ASSUME NEW out \in Seq(Elements)
  PROVE  /\ HashesIn(out) \in Seq(LocalHashes)
         /\ out # <<>> => /\ HashesIn(out) # <<>>
                          /\ HashesIn(out)[1] = out[1].hash
                          /\ HashesIn(Tail(out)) = Tail(HashesIn(out))
         /\ \A e \in Elements : HashesIn(Append(out, e)) = HashesIn(out) \o <<e.hash>>
<1>1. ASSUME NEW o \in Seq(Elements)
      PROVE  /\ HashesIn(o) \in Seq(LocalHashes)
             /\ Len(HashesIn(o)) = Len(o)
             /\ \A i \in 1..Len(o) : HashesIn(o)[i] = o[i].hash
  <2>1. \A i \in 1..Len(o) : o[i] \in Elements
    OBVIOUS
  <2>2. \A i \in 1..Len(o) : o[i].hash \in LocalHashes
    BY <2>1 DEF Elements
  <2>3. DOMAIN o = 1..Len(o) /\ Len(o) \in Nat
    OBVIOUS
  <2> QED BY <2>2, <2>3 DEF HashesIn
<1>2. ASSUME out # <<>>
      PROVE  /\ HashesIn(out) # <<>>
             /\ HashesIn(out)[1] = out[1].hash
             /\ HashesIn(Tail(out)) = Tail(HashesIn(out))
  <2>1. /\ Tail(out) \in Seq(Elements) /\ Len(Tail(out)) = Len(out) - 1
        /\ \A i \in 1..Len(Tail(out)) : Tail(out)[i] = out[i + 1]
        /\ Len(out) \in Nat \ {0}
    BY <1>2, HeadTailProperties, EmptySeq
  <2>2. HashesIn(out) # <<>>
    BY <1>1, <2>1, EmptySeq
  <2>3. /\ Tail(HashesIn(out)) \in Seq(LocalHashes) /\ Len(Tail(HashesIn(out))) = Len(out) - 1
        /\ \A i \in 1..(Len(out) - 1) : Tail(HashesIn(out))[i] = HashesIn(out)[i + 1]
    BY <1>1, <2>2, HeadTailProperties
  <2>4. /\ HashesIn(Tail(out)) \in Seq(LocalHashes) /\ Len(HashesIn(Tail(out))) = Len(out) - 1
        /\ \A i \in 1..(Len(out) - 1) : HashesIn(Tail(out))[i] = out[i + 1].hash
    BY <1>1, <2>1
  <2>5. \A i \in 1..(Len(out) - 1) : HashesIn(out)[i + 1] = out[i + 1].hash
    BY <1>1, <2>1
  <2>6. HashesIn(Tail(out)) = Tail(HashesIn(out))
    BY <2>3, <2>4, <2>5, SeqEqual
  <2>7. HashesIn(out)[1] = out[1].hash
    BY <1>1, <2>1
  <2> QED BY <2>2, <2>6, <2>7
<1>3. ASSUME NEW e \in Elements
      PROVE  HashesIn(Append(out, e)) = HashesIn(out) \o <<e.hash>>
  <2>1. e.hash \in LocalHashes
    BY DEF Elements
  <2>2. /\ Append(out, e) \in Seq(Elements)
        /\ Len(Append(out, e)) = Len(out) + 1
        /\ \A i \in 1..Len(out) : Append(out, e)[i] = out[i]
        /\ Append(out, e)[Len(out) + 1] = e
    BY AppendProperties
  <2>3. /\ Append(HashesIn(out), e.hash) \in Seq(LocalHashes)
        /\ Len(Append(HashesIn(out), e.hash)) = Len(out) + 1
        /\ \A i \in 1..Len(out) : Append(HashesIn(out), e.hash)[i] = HashesIn(out)[i]
        /\ Append(HashesIn(out), e.hash)[Len(out) + 1] = e.hash
    BY <1>1, <2>1, AppendProperties
  <2>4. /\ HashesIn(Append(out, e)) \in Seq(LocalHashes)
        /\ Len(HashesIn(Append(out, e))) = Len(out) + 1
        /\ \A i \in 1..(Len(out) + 1) : HashesIn(Append(out, e))[i] = Append(out, e)[i].hash
    BY <1>1, <2>2
  <2>5. \A i \in 1..(Len(out) + 1) :
          HashesIn(Append(out, e))[i] = Append(HashesIn(out), e.hash)[i]
    <3>1. Len(out) \in Nat
      OBVIOUS
    <3>2. \A i \in 1..Len(out) : HashesIn(out)[i] = out[i].hash
      BY <1>1
    <3> QED BY <2>2, <2>3, <2>4, <3>1, <3>2
  <2>6. HashesIn(Append(out, e)) = Append(HashesIn(out), e.hash)
    BY <2>3, <2>4, <2>5, SeqEqual
  <2> QED BY <2>6, <2>1, <1>1, AppendIsConcat
<1> QED BY <1>1, <1>2, <1>3

(* Hashes that are waiting behind a signature keep waiting when it is      *)
(* fetched, the hash that is taken and signed keeps its place, and one     *)
(* that is appended comes last.                                            *)
LEMMA PendingMoves ==
  ASSUME NEW out \in Seq(Elements), NEW now \in Seq(LocalHashes), NEW in \in Seq(LocalHashes)
  PROVE  /\ \A h \in LocalHashes : Pending(out, now, Append(in, h)) = Append(Pending(out, now, in), h)
         /\ out # <<>> => /\ Pending(out, now, in) # <<>>
                          /\ Head(Pending(out, now, in)) = out[1].hash
                          /\ Pending(Tail(out), now, in) = Tail(Pending(out, now, in))
         /\ in # <<>> => Pending(out, <<Head(in)>>, Tail(in)) = Pending(out, <<>>, in)
         /\ \A e \in Elements : Pending(Append(out, e), <<>>, in) = Pending(out, <<e.hash>>, in)
<1> USE DEF Pending
<1>1. HashesIn(out) \in Seq(LocalHashes) /\ HashesIn(out) \o now \in Seq(LocalHashes)
  BY HashesInElements, ConcatProperties
<1>2. ASSUME NEW h \in LocalHashes
      PROVE  Pending(out, now, Append(in, h)) = Append(Pending(out, now, in), h)
  <2>1. <<h>> \in Seq(LocalHashes) /\ HashesIn(out) \o now \o in \in Seq(LocalHashes)
    BY <1>1, ConcatProperties
  <2>2. Append(in, h) = in \o <<h>>
    BY AppendIsConcat
  <2>3. HashesIn(out) \o now \o (in \o <<h>>) = (HashesIn(out) \o now \o in) \o <<h>>
    BY <1>1, <2>1, ConcatAssociative
  <2>4. Append(HashesIn(out) \o now \o in, h) = (HashesIn(out) \o now \o in) \o <<h>>
    BY <2>1, AppendIsConcat
  <2> QED BY <2>2, <2>3, <2>4
<1>3. ASSUME out # <<>>
      PROVE  /\ Pending(out, now, in) # <<>>
             /\ Head(Pending(out, now, in)) = out[1].hash
             /\ Pending(Tail(out), now, in) = Tail(Pending(out, now, in))
  <2>1. /\ HashesIn(out) # <<>> /\ HashesIn(out)[1] = out[1].hash
        /\ HashesIn(Tail(out)) = Tail(HashesIn(out))
    BY <1>3, HashesInElements
  <2>2. now \o in \in Seq(LocalHashes)
    BY ConcatProperties
  <2>3. /\ HashesIn(out) \o (now \o in) # <<>>
        /\ Head(HashesIn(out) \o (now \o in)) = out[1].hash
        /\ Tail(HashesIn(out) \o (now \o in)) = Tail(HashesIn(out)) \o (now \o in)
    BY <1>1, <2>1, <2>2, HeadTailOfConcat
  <2>4. Tail(HashesIn(out)) \in Seq(LocalHashes)
    BY <1>1, <2>1, HeadTailProperties
  <2>5. /\ HashesIn(out) \o now \o in = HashesIn(out) \o (now \o in)
        /\ Tail(HashesIn(out)) \o now \o in = Tail(HashesIn(out)) \o (now \o in)
    BY <1>1, <2>4, ConcatAssociative, SMTT(30)
  <2> QED BY <2>1, <2>3, <2>5
<1>4. ASSUME in # <<>>
      PROVE  Pending(out, <<Head(in)>>, Tail(in)) = Pending(out, <<>>, in)
  <2>1. Head(in) \in LocalHashes /\ Tail(in) \in Seq(LocalHashes)
    BY <1>4, HeadTailProperties
  <2>2. <<Head(in)>> \in Seq(LocalHashes) /\ <<Head(in)>> \o Tail(in) = in
    BY <1>4, <2>1
  <2>3. HashesIn(out) \o <<Head(in)>> \o Tail(in) = HashesIn(out) \o (<<Head(in)>> \o Tail(in))
    BY <1>1, <2>1, <2>2, ConcatAssociative
  <2>4. HashesIn(out) \o <<>> = HashesIn(out)
    BY <1>1, ConcatEmptySeq
  <2> QED BY <2>2, <2>3, <2>4
<1>5. ASSUME NEW e \in Elements
      PROVE  Pending(Append(out, e), <<>>, in) = Pending(out, <<e.hash>>, in)
  <2>1. HashesIn(Append(out, e)) = HashesIn(out) \o <<e.hash>>
    BY HashesInElements
  <2>2. Append(out, e) \in Seq(Elements)
    BY AppendProperties
  <2>3. HashesIn(Append(out, e)) \o <<>> = HashesIn(Append(out, e))
    BY <2>2, HashesInElements, ConcatEmptySeq
  <2> QED BY <2>1, <2>3
<1> QED BY <1>2, <1>3, <1>4, <1>5

NowPending == Pending(localOut, localSigning, localIn)

(* What the session sees of a step of the two threads.                     *)
LEMMA StepAsSeen ==
  ASSUME IInv, LocalNext
  PROVE  \/ UNCHANGED <<NowPending, localAnswer>>
         \/ \E h \in LocalHashes : NowPending' = Append(NowPending, h) /\ localAnswer' = localAnswer
         \/ /\ NowPending # <<>>
            /\ NowPending' = Tail(NowPending)
            /\ localAnswer' \in {Head(NowPending), NoAnswer}
         \/ NowPending' = NowPending /\ localAnswer' = NoAnswer
         \/ NowPending' = <<>> /\ localAnswer' = localAnswer
<1> USE DEF NowPending, localInput
<1>1. /\ localOut \in Seq(Elements) /\ localSigning \in Seq(LocalHashes) /\ localIn \in Seq(LocalHashes)
      /\ localRunning \in BOOLEAN
  <2>1. localRunning \in BOOLEAN
    BY Zenon DEF IInv, TypeOK
  <2>2. /\ localOut \in Seq(Elements) /\ localIn \in Seq(LocalHashes)
        /\ localSigning = <<>> \/ \E h \in LocalHashes : localSigning = <<h>>
    BY DEF IInv, TypeOK
  <2>3. localSigning \in Seq(LocalHashes)
    <3>1. CASE localSigning = <<>>
      BY <3>1, EmptySeq
    <3>2. ASSUME NEW h \in LocalHashes, localSigning = <<h>> PROVE localSigning \in Seq(LocalHashes)
      <4>1. <<h>> \in Seq(LocalHashes)
        OBVIOUS
      <4> QED BY <3>2, <4>1
    <3> QED BY <2>2, <3>1, <3>2
  <2> QED BY <2>1, <2>2, <2>3
<1>2. ASSUME UNCHANGED <<localOut, localSigning, localIn, localAnswer>>
      PROVE  UNCHANGED <<NowPending, localAnswer>>
  BY <1>2 DEF Pending, HashesIn
<1>3. Pending(<<>>, <<>>, <<>>) = <<>>
  <2>1. DOMAIN <<>> = {}
    OBVIOUS
  <2>2. HashesIn(<<>>) = <<>>
    BY DEF HashesIn
  <2> QED BY <2>2 DEF Pending
<1>4. CASE LocalSetupStart \/ LocalTeardownStart
  BY <1>2, <1>4 DEF LocalSetupStart, LocalTeardownStart
<1>5. CASE LocalSetupCheck \/ LocalTeardownWake \/ LocalTeardownTimeout
  BY <1>2, <1>5 DEF LocalSetupCheck, LocalTeardownWake, LocalTeardownTimeout
<1>6. CASE LocalTeardownJoin
  <2>1. localSigning = <<>>
    BY <1>6 DEF LocalTeardownJoin, IInv, Phases
  <2>2. localOut' = <<>> /\ localSigning' = <<>> /\ localIn' = <<>> /\ localAnswer' = localAnswer
    BY <1>6, <2>1 DEF LocalTeardownJoin, LocalFreePlugin
  <2> QED BY <2>2, <1>3
<1>7. ASSUME NEW h \in LocalHashes, LocalPluginSign(h)
      PROVE  NowPending' = Append(NowPending, h) /\ localAnswer' = localAnswer
  <2>1. /\ localIn' = Append(localIn, h) /\ localOut' = localOut
        /\ localSigning' = localSigning /\ localAnswer' = localAnswer
    BY <1>7, SignAppends
  <2> QED BY <1>1, <2>1, PendingMoves
<1>8. ASSUME NEW h \in LocalHashes, LocalPluginSignOutOfMemory(h) \/ LocalPluginSignRefused(h)
      PROVE  UNCHANGED <<NowPending, localAnswer>>
  BY <1>2, <1>8, RefusedSignChangesNothing
<1>9. CASE LocalPluginGetSignature
  <2>1. localIn' = localIn /\ localSigning' = localSigning
    BY <1>9 DEF LocalPluginGetSignature
  <2>2. CASE localRunning /\ localOut # <<>>
    <3>1. localOut[1].error \in BOOLEAN
      <4>1. localOut[1] \in Elements
        BY <1>1, <2>2
      <4> QED BY <4>1 DEF Elements
    <3>2. localOut' = Tail(localOut) /\ localAnswer' \in {localOut[1].hash, NoAnswer}
      BY <1>9, <2>2, <3>1 DEF LocalPluginGetSignature
    <3>3. /\ NowPending # <<>>
          /\ Head(NowPending) = localOut[1].hash
          /\ Pending(Tail(localOut), localSigning, localIn) = Tail(NowPending)
      BY <1>1, <2>2, PendingMoves
    <3> QED BY <2>1, <3>2, <3>3
  <2>3. CASE ~(localRunning /\ localOut # <<>>)
    <3>1. localOut' = localOut /\ localAnswer' = NoAnswer
      BY <1>9, <2>3 DEF LocalPluginGetSignature
    <3> QED BY <2>1, <3>1
  <2> QED BY <2>2, <2>3
<1>10. CASE LocalWorkerTake
  <2>1. localSigning = <<>> /\ localIn # <<>>
    BY <1>10 DEF LocalWorkerTake, IInv, Phases
  <2>2. /\ localSigning' = <<Head(localIn)>> /\ localIn' = Tail(localIn)
        /\ localOut' = localOut /\ localAnswer' = localAnswer
    BY <1>10 DEF LocalWorkerTake
  <2> QED BY <1>1, <2>1, <2>2, PendingMoves
<1>11. ASSUME NEW error \in {FALSE, SigningMayFail}, LocalWorkerDeliver(error)
       PROVE  UNCHANGED <<NowPending, localAnswer>>
  <2> DEFINE e == [hash |-> localSigning[1], error |-> error]
  <2>1. localSigning # <<>>
    BY <1>11 DEF LocalWorkerDeliver, IInv, Phases
  <2>2. PICK h \in LocalHashes : localSigning = <<h>>
    BY <2>1 DEF IInv, TypeOK
  <2>3. e \in Elements /\ localSigning = <<e.hash>>
    <3>1. error \in BOOLEAN
      BY SwitchAssumption
    <3> QED BY <2>2, <3>1 DEF Elements
  <2>4. localOut' = Append(localOut, e) /\ localSigning' = <<>> /\ localIn' = localIn /\ localAnswer' = localAnswer
    BY <1>11 DEF LocalWorkerDeliver
  <2> HIDE DEF e
  <2>5. Pending(Append(localOut, e), <<>>, localIn) = Pending(localOut, <<e.hash>>, localIn)
    BY <1>1, <2>3, PendingMoves
  <2> QED BY <2>3, <2>4, <2>5
<1>12. CASE LocalWorkerGivesUp
  <2>1. localOut' = <<>> /\ localSigning' = <<>> /\ localIn' = <<>> /\ localAnswer' = localAnswer
    BY <1>12 DEF LocalWorkerGivesUp, LocalFreePlugin
  <2> QED BY <2>1, <1>3
<1>13. CASE LocalWorkerStart \/ LocalWorkerWait \/ LocalWorkerWake \/ LocalWorkerStop
  BY <1>2, <1>13 DEF LocalWorkerStart, LocalWorkerWait, LocalWorkerWake, LocalWorkerStop
<1>14. ASSUME NEW w \in {Worker, Session}, LocalSpuriousWakeup(w)
       PROVE  UNCHANGED <<NowPending, localAnswer>>
  BY <1>2, <1>14 DEF LocalSpuriousWakeup
<1>15. CASE UNCHANGED localVars
  BY <1>2, <1>15 DEF localVars
<1> QED
  BY <1>4, <1>5, <1>6, <1>7, <1>8, <1>9, <1>10, <1>11, <1>12, <1>13, <1>14, <1>15
     DEF LocalNext, LocalCallStep, LocalWorkerStep

(* The session gets the signatures of its hashes, oldest first, none twice *)
(* and none left out until the worker gives up or the session is closed:   *)
(* the plugin implements SigningQueue, each of its steps being a step of   *)
(* the queue or a stutter.                                                 *)
THEOREM PromiseIsKept == LocalSpec => LocalKeepsPromise
<1> DEFINE pend == [s \in {Session} |-> LocalSigned \o localSigning \o localIn]
           ans == [s \in {Session} |-> localAnswer]
<1>1. LocalInit => LocalPromise!Init
  <2> SUFFICES ASSUME LocalInit PROVE LocalPromise!Init
    OBVIOUS
  <2>1. DOMAIN <<>> = {}
    OBVIOUS
  <2>2. LocalSigned = <<>>
    BY DEF LocalInit, LocalSigned
  <2> QED BY <2>2 DEF LocalInit, LocalPromise!Init
<1>2. IInv /\ [LocalNext]_localVars => [LocalPromise!Next]_(LocalPromise!vars)
  <2> SUFFICES ASSUME IInv, [LocalNext]_localVars PROVE [LocalPromise!Next]_(LocalPromise!vars)
    OBVIOUS
  <2>1. /\ LocalSigned \o localSigning \o localIn = NowPending
        /\ (LocalSigned \o localSigning \o localIn)' = NowPending'
    BY DEF LocalSigned, NowPending, Pending, HashesIn
  <2>2. /\ pend = [s \in {Session} |-> NowPending]
        /\ pend' = [s \in {Session} |-> NowPending']
        /\ ans' = [s \in {Session} |-> localAnswer']
    BY <2>1
  <2>3. CASE UNCHANGED localVars
    BY <2>3 DEF localVars, localInput, LocalPromise!vars, LocalSigned
  <2>4. CASE LocalNext
    <3> HIDE DEF pend
    <3>1. CASE UNCHANGED <<NowPending, localAnswer>>
      BY <3>1, <2>2 DEF LocalPromise!vars, pend
    <3>2. ASSUME NEW h \in LocalHashes, NowPending' = Append(NowPending, h), localAnswer' = localAnswer
          PROVE  LocalPromise!Next
      <4>1. LocalPromise!Accept(Session, h)
        BY <3>2, <2>2 DEF LocalPromise!Accept, pend
      <4> QED BY <4>1 DEF LocalPromise!Next
    <3>3. ASSUME NowPending # <<>>, NowPending' = Tail(NowPending), localAnswer' = Head(NowPending)
          PROVE  LocalPromise!Next
      <4>1. LocalPromise!Answer(Session)
        BY <3>3, <2>2 DEF LocalPromise!Answer, pend
      <4> QED BY <4>1 DEF LocalPromise!Next
    <3>4. ASSUME NowPending # <<>>, NowPending' = Tail(NowPending), localAnswer' = NoAnswer
          PROVE  LocalPromise!Next
      <4>1. LocalPromise!Refuse(Session)
        BY <3>4, <2>2 DEF LocalPromise!Refuse, pend
      <4> QED BY <4>1 DEF LocalPromise!Next
    <3>5. ASSUME NowPending' = NowPending, localAnswer' = NoAnswer PROVE LocalPromise!Next
      <4>1. LocalPromise!NotYet(Session)
        BY <3>5, <2>2 DEF LocalPromise!NotYet, pend
      <4> QED BY <4>1 DEF LocalPromise!Next
    <3>6. ASSUME NowPending' = <<>>, localAnswer' = localAnswer PROVE LocalPromise!Next
      <4>1. LocalPromise!GiveUp({Session})
        BY <3>6, <2>2 DEF LocalPromise!GiveUp, pend
      <4> QED BY <4>1 DEF LocalPromise!Next
    <3> QED BY <2>4, StepAsSeen, <3>1, <3>2, <3>3, <3>4, <3>5, <3>6
  <2> QED BY <2>3, <2>4
<1> QED BY <1>1, <1>2, Invariance, PTL DEF LocalSpec, LocalKeepsPromise, LocalPromise!Spec

=============================================================================
