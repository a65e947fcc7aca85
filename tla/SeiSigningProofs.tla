------------------------- MODULE SeiSigningProofs -------------------------
(***************************************************************************)
(* Proofs about the central thread and about the two sides of its buffers, *)
(* for every set of sessions and hashes, every buffer length and number of *)
(* ids and SEIs, whether or not exit() comes before the sessions are       *)
(* closed and whatever fails.                                              *)
(*                                                                         *)
(* The central thread.  Its properties are not inductive by themselves.    *)
(* Phases relates the places of the worker and of the administrator to the *)
(* static variables of the plugin: a thread that was created has not run,  *)
(* so init() is still waiting for it and exit() cannot be under way;       *)
(* without sign_data there is no thread and the buffers are empty.         *)
(* Waiters says for whom the single condition variable is signalled: the   *)
(* worker waits only while is_running is set, init() and exit() only while *)
(* it is not.                                                              *)
(*                                                                         *)
(* The library.  Every signature finds a SEI, and the one it was made for. *)
(* Two counts that agree would not do: the library matches signatures and  *)
(* SEIs by their order alone.  So the invariant says that the hashes the   *)
(* plugin still owes a session are, in this order, those of its incomplete *)
(* SEIs.  The plugin's side of every step is PendingSteps, proved for the  *)
(* central thread; the library's side are the lemmas on WaitingIn.         *)
(***************************************************************************)
EXTENDS SeiSigning, DataLemmas

-----------------------------------------------------------------------------
(* The central thread.                                                     *)

(* Where the threads are and what the plugin has then. *)
Phases ==
  /\ isRunning => thread /\ wpc \in {"locked", "wait", "signing"}
  /\ thread <=> hasList
  /\ signData <=> wpc # "none"
  /\ thread => signData
  /\ wpc = "created" => apc = "init" /\ ~isRunning
  /\ apc = "init" => thread
  /\ apc \in {"exit", "join"} => ~thread
  /\ signing = <<>> <=> wpc # "signing"
  /\ wpc \in {"none", "created"} => inBuf = <<>> /\ outBuf = <<>>

(* Who may be waiting for the condition variable. *)
Waiters ==
  /\ Worker \in waiters => wpc = "wait" /\ isRunning /\ inBuf = <<>>
  /\ Admin \in waiters => ~isRunning /\ apc \in {"init", "exit"}

IInv == TypeOK /\ Phases /\ Waiters /\ OutputIsClaimable

(* The inductive invariant has the properties that the runs check. *)
LEMMA IInvImplies ==
  IInv => RunningIsUsable /\ SleepsOnlyWhenIdle /\ OneWaiter
BY DEF IInv, TypeOK, Phases, Waiters, RunningIsUsable, SleepsOnlyWhenIdle, OneWaiter

(* A slot that is taken or given back leaves their number unchanged. *)
LEMMA SlotMoves ==
  ASSUME NEW m, NEW used \in Nat, NEW free \in Nat, used + free = m
  PROVE  (used - 1) + (free + 1) = m /\ (used + 1) + (free - 1) = m
OBVIOUS

(* A signal wakes one of the waiting threads and nobody else. *)
LEMMA SignalWakes ==
  ASSUME NEW W, SignalAmong(W)
  PROVE  /\ waiters' \subseteq W
         /\ \A w : W \subseteq {w} => waiters' = {}
BY DEF SignalAmong

(* buffer_reset() keeps the types of the buffers, an empty buffer empty,   *)
(* and leaves in out[] elements of other sessions only.                    *)
LEMMA ResetKeepsBuffers ==
  ASSUME TypeOK, NEW id \in Ids, BufferReset(id)
  PROVE  /\ inBuf' \in Seq(InElements)
         /\ inFree' \in Seq(Nat)
         /\ Len(inBuf') + Len(inFree') = MAX_BUFFER_LENGTH
         /\ outBuf' \in Seq(OutElements)
         /\ Len(outBuf') <= MAX_BUFFER_LENGTH
         /\ inBuf = <<>> => inBuf' = <<>>
         /\ outBuf = <<>> => outBuf' = <<>>
         /\ \A k \in 1..Len(outBuf') : \E i \in 1..Len(outBuf) :
              outBuf'[k] = outBuf[i] /\ outBuf[i].id # id
<1> DEFINE dropped == Only(inBuf, id)
           sizes == [i \in DOMAIN dropped |-> dropped[i].size]
<1> USE BufferAssumption
<1>1. /\ inBuf \in Seq(InElements) /\ inFree \in Seq(Nat)
      /\ Len(inBuf) + Len(inFree) = MAX_BUFFER_LENGTH
      /\ outBuf \in Seq(OutElements) /\ Len(outBuf) <= MAX_BUFFER_LENGTH
  BY DEF TypeOK
<1>2. /\ outBuf' = Without(outBuf, id)
      /\ inBuf' = Without(inBuf, id)
      /\ inFree' = inFree \o sizes
  BY DEF BufferReset
<1>3. /\ outBuf' \in Seq(OutElements)
      /\ Len(outBuf') <= Len(outBuf)
      /\ \A k \in 1..Len(outBuf') : \E i \in 1..Len(outBuf) :
           outBuf'[k] = outBuf[i] /\ outBuf[i].id # id
  <2>1. /\ Without(outBuf, id) \in Seq(OutElements)
        /\ Only(outBuf, id) \in Seq(OutElements)
        /\ Len(Without(outBuf, id)) + Len(Only(outBuf, id)) = Len(outBuf)
    BY <1>1, WithoutElements
  <2>2. Len(Without(outBuf, id)) \in Nat /\ Len(Only(outBuf, id)) \in Nat
    BY <2>1
  <2>3. Len(Without(outBuf, id)) <= Len(outBuf)
    BY <2>1, <2>2
  <2>4. \A k \in 1..Len(Without(outBuf, id)) : \E i \in 1..Len(outBuf) :
           Without(outBuf, id)[k] = outBuf[i] /\ outBuf[i].id # id
    BY <1>1, WithoutOthers
  <2> QED BY <2>1, <2>3, <2>4, <1>2
<1>4. /\ inBuf' \in Seq(InElements) /\ dropped \in Seq(InElements)
      /\ Len(inBuf') + Len(dropped) = Len(inBuf)
  BY <1>1, <1>2, WithoutElements
<1>5. sizes \in Seq(Nat) /\ Len(sizes) = Len(dropped)
  <2> HIDE DEF dropped
  <2>1. \A i \in 1..Len(dropped) : dropped[i].size \in Nat
    <3>1. \A i \in 1..Len(dropped) : dropped[i] \in InElements
      BY <1>4
    <3> QED BY <3>1 DEF InElements
  <2>2. DOMAIN dropped = 1..Len(dropped) /\ Len(dropped) \in Nat
    BY <1>4
  <2> QED BY <2>1, <2>2
<1> HIDE DEF dropped, sizes
<1>6. inFree' \in Seq(Nat) /\ Len(inFree') = Len(inFree) + Len(dropped)
  <2>1. inFree \in Seq(Nat) /\ sizes \in Seq(Nat) /\ inFree' = inFree \o sizes
    BY <1>1, <1>2, <1>5
  <2> QED BY <2>1, <1>5, ConcatProperties, ZenonT(30)
<1>7. Len(inBuf') + Len(inFree') = MAX_BUFFER_LENGTH
  BY <1>1, <1>4, <1>6
<1>8. inBuf = <<>> => inBuf' = <<>>
  BY <1>4
<1>9. outBuf = <<>> => outBuf' = <<>>
  BY <1>3
<1>10. Len(outBuf') <= MAX_BUFFER_LENGTH
  BY <1>1, <1>3
<1> QED BY <1>3, <1>4, <1>6, <1>7, <1>8, <1>9, <1>10

(* Every step of the plugin keeps the inductive invariant. *)
LEMMA StepKeepsIInv == IInv /\ [Next]_vars => IInv'
<1> SUFFICES ASSUME IInv, [Next]_vars PROVE IInv'
  OBVIOUS
<1> USE BufferAssumption, IdAssumption, HashAssumption, SwitchAssumption
        DEF IInv, plugin, buffers, session
<1>1. CASE InitStart
  <2> USE <1>1 DEF InitStart
  <2>1. TypeOK'
    <3>1. /\ thread' \in BOOLEAN /\ hasList' \in BOOLEAN
          /\ isRunning' \in BOOLEAN /\ signData' \in BOOLEAN
      BY Zenon DEF TypeOK
    <3>2. hashSize' \in Nat
      BY DEF NotAllocated
    <3> QED BY <3>1, <3>2 DEF TypeOK
  <2>2. Phases'
    BY DEF Phases
  <2>3. Waiters'
    BY DEF Waiters, Phases
  <2>4. OutputIsClaimable'
    <3>1. ~isRunning
      BY DEF Phases
    <3> QED BY <3>1 DEF OutputIsClaimable
  <2> QED BY <2>1, <2>2, <2>3, <2>4
<1>2. CASE InitCheck
  <2> USE <1>2 DEF InitCheck, LockFree
  <2>1. TypeOK'
    BY DEF TypeOK
  <2>2. Phases'
    BY DEF Phases
  <2>3. Waiters'
    BY DEF Waiters, Phases, Worker, Admin
  <2>4. OutputIsClaimable'
    BY DEF OutputIsClaimable
  <2> QED BY <2>1, <2>2, <2>3, <2>4
<1>3. CASE ExitStart
  <2> USE <1>3 DEF ExitStart, LockFree, AwaitSigning, SignalAndJoin
  <2>w. \/ signing # <<>> /\ waiters' = waiters \cup {Admin} /\ apc' = "exit"
        \/ /\ signing = <<>> /\ apc' = "join"
           /\ waiters' \subseteq waiters
           /\ \A w : waiters \subseteq {w} => waiters' = {}
    BY SignalWakes
  <2>1. TypeOK'
    <3>1. /\ thread' \in BOOLEAN /\ hasList' \in BOOLEAN
          /\ isRunning' \in BOOLEAN /\ signData' \in BOOLEAN
      BY Zenon DEF TypeOK
    <3>2. waiters' \subseteq {Worker, Admin}
      BY <2>w DEF TypeOK, Worker, Admin
    <3> QED BY <3>1, <3>2 DEF TypeOK
  <2>2. Phases'
    BY DEF Phases
  <2>3. Waiters'
    BY <2>w DEF Waiters, Phases, Worker, Admin, TypeOK
  <2>4. OutputIsClaimable'
    BY DEF OutputIsClaimable
  <2> QED BY <2>1, <2>2, <2>3, <2>4
<1>4. CASE ExitWake
  <2> USE <1>4 DEF ExitWake, LockFree, AwaitSigning, SignalAndJoin
  <2>w. \/ signing # <<>> /\ waiters' = waiters \cup {Admin} /\ apc' = "exit"
        \/ /\ signing = <<>> /\ apc' = "join"
           /\ waiters' \subseteq waiters
           /\ \A w : waiters \subseteq {w} => waiters' = {}
    BY SignalWakes
  <2>1. TypeOK'
    <3>1. /\ thread' \in BOOLEAN /\ hasList' \in BOOLEAN
          /\ isRunning' \in BOOLEAN /\ signData' \in BOOLEAN
      BY Zenon DEF TypeOK
    <3>2. waiters' \subseteq {Worker, Admin}
      BY <2>w DEF TypeOK, Worker, Admin
    <3> QED BY <3>1, <3>2 DEF TypeOK
  <2>2. Phases'
    BY DEF Phases
  <2>3. Waiters'
    BY <2>w DEF Waiters, Phases, Worker, Admin, TypeOK
  <2>4. OutputIsClaimable'
    BY DEF OutputIsClaimable
  <2> QED BY <2>1, <2>2, <2>3, <2>4
<1>5. CASE ExitTimeout
  <2> USE <1>5 DEF ExitTimeout, LockFree, SignalAndJoin
  <2>w. waiters' \subseteq waiters \ {Admin}
    BY SignalWakes
  <2>1. TypeOK'
    <3>1. /\ thread' \in BOOLEAN /\ hasList' \in BOOLEAN
          /\ isRunning' \in BOOLEAN /\ signData' \in BOOLEAN
      BY Zenon DEF TypeOK
    <3>2. waiters' \subseteq {Worker, Admin}
      BY <2>w DEF TypeOK
    <3> QED BY <3>1, <3>2 DEF TypeOK
  <2>2. Phases'
    BY DEF Phases
  <2>3. Waiters'
    BY <2>w DEF Waiters, Phases, Worker, Admin
  <2>4. OutputIsClaimable'
    BY DEF OutputIsClaimable
  <2> QED BY <2>1, <2>2, <2>3, <2>4
<1>6. CASE ExitJoin
  <2> USE <1>6 DEF ExitJoin, FreeBuffers
  <2>1. TypeOK'
    <3>1. /\ thread' \in BOOLEAN /\ hasList' \in BOOLEAN
          /\ isRunning' \in BOOLEAN /\ signData' \in BOOLEAN
      BY Zenon DEF TypeOK
    <3>2. inBuf' \in Seq(InElements) /\ Len(inBuf') = 0 /\ outBuf' \in Seq(OutElements) /\ Len(outBuf') = 0
      OBVIOUS
    <3>3. inFree' \in Seq(Nat) /\ Len(inFree') = MAX_BUFFER_LENGTH
      BY DEF NotAllocated
    <3>4. hashSize' \in Nat
      BY DEF NotAllocated
    <3> QED BY <3>1, <3>2, <3>3, <3>4 DEF TypeOK
  <2>2. Phases'
    BY DEF Phases
  <2>3. Waiters'
    BY DEF Waiters, Phases
  <2>4. OutputIsClaimable'
    BY DEF OutputIsClaimable
  <2> QED BY <2>1, <2>2, <2>3, <2>4
<1>7. CASE WorkerStart
  <2> USE <1>7 DEF WorkerStart, Signal
  <2>w. /\ waiters' \subseteq waiters
        /\ \A w : waiters \subseteq {w} => waiters' = {}
    BY SignalWakes
  <2>1. TypeOK'
    <3>1. /\ thread' \in BOOLEAN /\ hasList' \in BOOLEAN
          /\ isRunning' \in BOOLEAN /\ signData' \in BOOLEAN
      BY Zenon DEF TypeOK
    <3>2. waiters' \subseteq {Worker, Admin}
      BY <2>w DEF TypeOK
    <3> QED BY <3>1, <3>2 DEF TypeOK
  <2>2. Phases'
    BY DEF Phases
  <2>3. Waiters'
    BY <2>w DEF Waiters, Phases, Worker, Admin, TypeOK
  <2>4. OutputIsClaimable'
    <3>1. outBuf = <<>>
      BY DEF Phases
    <3> QED BY <3>1 DEF OutputIsClaimable
  <2> QED BY <2>1, <2>2, <2>3, <2>4
<1>8. CASE WorkerTake
  <2> USE <1>8 DEF WorkerTake
  <2>1. TypeOK'
    <3>1. /\ thread' \in BOOLEAN /\ hasList' \in BOOLEAN
          /\ isRunning' \in BOOLEAN /\ signData' \in BOOLEAN
      BY Zenon DEF TypeOK
    <3>2. inBuf \in Seq(InElements) /\ inBuf # <<>> /\ inFree \in Seq(Nat)
      BY DEF TypeOK
    <3>3. Head(inBuf) \in InElements /\ Tail(inBuf) \in Seq(InElements) /\ Len(Tail(inBuf)) = Len(inBuf) - 1
      BY <3>2
    <3>4. Head(inBuf).size \in Nat
      BY <3>3 DEF InElements
    <3>5. inFree' \in Seq(Nat) /\ Len(inFree') = Len(inFree) + 1
      BY <3>2, <3>4
    <3>6. signing' \in Seq(InElements) /\ Len(signing') = 1
      BY <3>3
    <3>7. Len(inBuf) + Len(inFree) = MAX_BUFFER_LENGTH /\ Len(inBuf) \in Nat /\ Len(inFree) \in Nat
      BY <3>2 DEF TypeOK
    <3>8. Len(inBuf') = Len(inBuf) - 1
      BY <3>3
    <3>9. (Len(inBuf) - 1) + (Len(inFree) + 1) = MAX_BUFFER_LENGTH
      BY <3>7, SlotMoves, ZenonT(30)
    <3>10. Len(inBuf') + Len(inFree') = MAX_BUFFER_LENGTH
      BY <3>5, <3>8, <3>9
    <3> QED BY <3>1, <3>2, <3>3, <3>4, <3>5, <3>6, <3>7, <3>8, <3>9, <3>10 DEF TypeOK
  <2>2. Phases'
    BY DEF Phases
  <2>3. Waiters'
    BY DEF Waiters, Phases
  <2>4. OutputIsClaimable'
    BY DEF OutputIsClaimable
  <2> QED BY <2>1, <2>2, <2>3, <2>4
<1>9. CASE WorkerWait
  <2> USE <1>9 DEF WorkerWait
  <2>1. TypeOK'
    BY DEF TypeOK
  <2>2. Phases'
    BY DEF Phases
  <2>3. Waiters'
    BY DEF Waiters, Phases, Worker, Admin
  <2>4. OutputIsClaimable'
    BY DEF OutputIsClaimable
  <2> QED BY <2>1, <2>2, <2>3, <2>4
<1>10. CASE WorkerWake
  <2> USE <1>10 DEF WorkerWake
  <2>1. TypeOK'
    BY DEF TypeOK
  <2>2. Phases'
    BY DEF Phases
  <2>3. Waiters'
    BY DEF Waiters, Phases
  <2>4. OutputIsClaimable'
    BY DEF OutputIsClaimable
  <2> QED BY <2>1, <2>2, <2>3, <2>4
<1>11. CASE WorkerDiscard
  <2> USE <1>11 DEF WorkerDiscard, Signed
  <2>1. TypeOK'
    BY DEF TypeOK
  <2>2. Phases'
    BY DEF Phases
  <2>3. Waiters'
    BY DEF Waiters, Phases
  <2>4. OutputIsClaimable'
    BY DEF OutputIsClaimable
  <2> QED BY <2>1, <2>2, <2>3, <2>4
<1>12. CASE WorkerFlush
  <2> USE <1>12 DEF WorkerFlush, Signed
  <2>i. signing[1].id \in Ids
    <3>1. signing[1] \in InElements
      BY DEF TypeOK, Phases
    <3> QED BY <3>1 DEF InElements
  <2>r. /\ inBuf' \in Seq(InElements)
        /\ inFree' \in Seq(Nat)
        /\ Len(inBuf') + Len(inFree') = MAX_BUFFER_LENGTH
        /\ outBuf' \in Seq(OutElements)
        /\ Len(outBuf') <= MAX_BUFFER_LENGTH
        /\ inBuf = <<>> => inBuf' = <<>>
        /\ outBuf = <<>> => outBuf' = <<>>
        /\ \A k \in 1..Len(outBuf') : \E i \in 1..Len(outBuf) :
             outBuf'[k] = outBuf[i] /\ outBuf[i].id # signing[1].id
    BY <2>i, ResetKeepsBuffers
  <2>1. TypeOK'
    <3>1. /\ thread' \in BOOLEAN /\ hasList' \in BOOLEAN
          /\ isRunning' \in BOOLEAN /\ signData' \in BOOLEAN
      BY Zenon DEF TypeOK
    <3>2. signing' \in Seq(InElements) /\ Len(signing') <= 1
      OBVIOUS
    <3> QED BY <2>r, <3>1, <3>2 DEF TypeOK
  <2>2. Phases'
    BY <2>r DEF Phases
  <2>3. Waiters'
    BY <2>r DEF Waiters, Phases
  <2>4. OutputIsClaimable'
    BY <2>r DEF OutputIsClaimable
  <2> QED BY <2>1, <2>2, <2>3, <2>4
<1>13. CASE WorkerOutOfMemory
  <2> USE <1>13 DEF WorkerOutOfMemory, Signed, FreeBuffers
  <2>1. TypeOK'
    <3>1. /\ thread' \in BOOLEAN /\ hasList' \in BOOLEAN
          /\ isRunning' \in BOOLEAN /\ signData' \in BOOLEAN
      BY Zenon DEF TypeOK
    <3>2. inBuf' \in Seq(InElements) /\ Len(inBuf') = 0 /\ outBuf' \in Seq(OutElements) /\ Len(outBuf') = 0
      OBVIOUS
    <3>3. inFree' \in Seq(Nat) /\ Len(inFree') = MAX_BUFFER_LENGTH
      BY DEF NotAllocated
    <3>4. signing' \in Seq(InElements) /\ Len(signing') <= 1
      OBVIOUS
    <3> QED BY <3>1, <3>2, <3>3, <3>4 DEF TypeOK
  <2>2. Phases'
    BY DEF Phases
  <2>3. Waiters'
    BY DEF Waiters, Phases
  <2>4. OutputIsClaimable'
    BY DEF OutputIsClaimable
  <2> QED BY <2>1, <2>2, <2>3, <2>4
<1>14. CASE WorkerStop
  <2> USE <1>14 DEF WorkerStop, Signal
  <2>w. /\ waiters' \subseteq waiters
        /\ \A w : waiters \subseteq {w} => waiters' = {}
    BY SignalWakes
  <2>1. TypeOK'
    <3>1. /\ thread' \in BOOLEAN /\ hasList' \in BOOLEAN
          /\ isRunning' \in BOOLEAN /\ signData' \in BOOLEAN
      BY Zenon DEF TypeOK
    <3>2. waiters' \subseteq {Worker, Admin}
      BY <2>w DEF TypeOK
    <3> QED BY <3>1, <3>2 DEF TypeOK
  <2>2. Phases'
    BY DEF Phases
  <2>3. Waiters'
    BY <2>w DEF Waiters, Phases, Worker, Admin, TypeOK
  <2>4. OutputIsClaimable'
    BY DEF OutputIsClaimable
  <2> QED BY <2>1, <2>2, <2>3, <2>4
<1>15. ASSUME NEW error \in BOOLEAN, WorkerDeliver(error) PROVE IInv'
  <2> USE <1>15 DEF WorkerDeliver, Signed, Put
  <2>1. TypeOK'
    <3>1. /\ thread' \in BOOLEAN /\ hasList' \in BOOLEAN
          /\ isRunning' \in BOOLEAN /\ signData' \in BOOLEAN
      BY Zenon DEF TypeOK
    <3>2. signing[1] \in InElements
      BY DEF TypeOK, Phases
    <3>3. outBuf' \in Seq(OutElements) /\ Len(outBuf') <= MAX_BUFFER_LENGTH
      BY <3>2 DEF TypeOK, InElements, OutElements
    <3>4. signing' \in Seq(InElements) /\ Len(signing') <= 1
      OBVIOUS
    <3> QED BY <3>1, <3>2, <3>3, <3>4 DEF TypeOK
  <2>2. Phases'
    BY DEF Phases
  <2>3. Waiters'
    BY DEF Waiters, Phases
  <2>4. OutputIsClaimable'
    BY DEF OutputIsClaimable
  <2> QED BY <2>1, <2>2, <2>3, <2>4
<1>16. ASSUME NEW s \in Sessions, SetupSeesThread(s) PROVE IInv'
  <2> USE <1>16 DEF SetupSeesThread
  <2>1. TypeOK'
    BY DEF TypeOK
  <2>2. Phases'
    BY DEF Phases
  <2>3. Waiters'
    BY DEF Waiters, Phases
  <2>4. OutputIsClaimable'
    BY DEF OutputIsClaimable
  <2> QED BY <2>1, <2>2, <2>3, <2>4
<1>28. ASSUME NEW s \in Sessions, SetupAssertsList(s) PROVE IInv'
  <2> USE <1>28 DEF SetupAssertsList
  <2>1. TypeOK'
    BY DEF TypeOK
  <2>2. Phases'
    BY DEF Phases
  <2>3. Waiters'
    BY DEF Waiters, Phases
  <2>4. OutputIsClaimable'
    BY DEF OutputIsClaimable
  <2> QED BY <2>1, <2>2, <2>3, <2>4
<1>17. ASSUME NEW s \in Sessions, CentralSetup(s) PROVE IInv'
  <2> USE <1>17 DEF CentralSetup, LockFree
  <2>i. NewIds \subseteq Ids
    <3>1. \A k \in Nat : k > 0 /\ lastAddedId \in Nat => (lastAddedId + k - 1) % MaxId \in 0..(MaxId - 1)
      OBVIOUS
    <3>2. lastAddedId \in Nat
      BY DEF TypeOK, Ids, NoId
    <3>3. \A k \in Nat : k > 0 => IdAfter(k) \in Ids
      BY <3>1, <3>2 DEF IdAfter, Ids
    <3> QED BY <3>3 DEF NewIds
  <2>p. PICK id \in Ids :
          /\ lastAddedId' = id
          /\ \/ idList' = idList \cup {id} /\ handle' = [handle EXCEPT ![s] = id]
             \/ idList' = idList /\ handle' = handle
    BY <2>i
  <2>1. TypeOK'
    <3>1. /\ thread' \in BOOLEAN /\ hasList' \in BOOLEAN
          /\ isRunning' \in BOOLEAN /\ signData' \in BOOLEAN
      BY Zenon DEF TypeOK
    <3>2. lastAddedId' \in Ids /\ idList' \subseteq Ids /\ handle' \in [Sessions -> Ids \cup {NoId}]
      BY <2>p DEF TypeOK
    <3>3. spc' \in [Sessions -> {"idle", "seen", "asserted"}]
      BY DEF TypeOK
    <3> QED BY <3>1, <3>2, <3>3 DEF TypeOK
  <2>2. Phases'
    BY DEF Phases
  <2>3. Waiters'
    BY DEF Waiters, Phases
  <2>4. OutputIsClaimable'
    BY <2>p DEF OutputIsClaimable
  <2> QED BY <2>1, <2>2, <2>3, <2>4
<1>18. ASSUME NEW s \in Sessions, CentralSetupFails(s) PROVE IInv'
  <2> USE <1>18 DEF CentralSetupFails, LockFree
  <2>1. TypeOK'
    BY DEF TypeOK
  <2>2. Phases'
    BY DEF Phases
  <2>3. Waiters'
    BY DEF Waiters, Phases
  <2>4. OutputIsClaimable'
    BY DEF OutputIsClaimable
  <2> QED BY <2>1, <2>2, <2>3, <2>4
<1>19. ASSUME NEW s \in Sessions, NEW h \in Hashes, PluginSign(s, h) PROVE IInv'
  <2> USE <1>19 DEF PluginSign, LockFree, TakeSlot, MaySign, Signal
  <2>w. /\ waiters' \subseteq waiters
        /\ \A w : waiters \subseteq {w} => waiters' = {}
    BY SignalWakes
  <2>1. TypeOK'
    <3>1. /\ thread' \in BOOLEAN /\ hasList' \in BOOLEAN
          /\ isRunning' \in BOOLEAN /\ signData' \in BOOLEAN
      BY Zenon DEF TypeOK
    <3>2. waiters' \subseteq {Worker, Admin}
      BY <2>w DEF TypeOK
    <3>3. hashSize' \in Nat
      BY DEF TypeOK
    <3>4. [id |-> handle[s], hash |-> h, size |-> SizeOf[s]] \in InElements
      BY DEF TypeOK, InElements, NotAllocated, NoId
    <3>5. inBuf \in Seq(InElements) /\ inFree \in Seq(Nat) /\ inFree # <<>>
      BY DEF TypeOK
    <3>6. inBuf' \in Seq(InElements) /\ Len(inBuf') = Len(inBuf) + 1
      BY <3>4, <3>5
    <3>7. inFree' \in Seq(Nat) /\ Len(inFree') = Len(inFree) - 1
      BY <3>5
    <3>8. Len(inBuf) + Len(inFree) = MAX_BUFFER_LENGTH /\ Len(inBuf) \in Nat /\ Len(inFree) \in Nat
      BY <3>5 DEF TypeOK
    <3>9. (Len(inBuf) + 1) + (Len(inFree) - 1) = MAX_BUFFER_LENGTH
      BY <3>8, SlotMoves, ZenonT(30)
    <3>10. Len(inBuf') + Len(inFree') = MAX_BUFFER_LENGTH
      BY <3>6, <3>7, <3>9
    <3> QED BY <3>1, <3>2, <3>3, <3>4, <3>5, <3>6, <3>7, <3>8, <3>9, <3>10 DEF TypeOK
  <2>2. Phases'
    BY DEF Phases
  <2>3. Waiters'
    BY <2>w DEF Waiters, Phases, Worker, Admin, TypeOK
  <2>4. OutputIsClaimable'
    BY DEF OutputIsClaimable
  <2> QED BY <2>1, <2>2, <2>3, <2>4
<1>20. ASSUME NEW s \in Sessions, NEW h \in Hashes, PluginSignOutOfMemory(s, h) PROVE IInv'
  <2> USE <1>20 DEF PluginSignOutOfMemory, LockFree, MaySign, Signal
  <2>w. /\ waiters' \subseteq waiters
        /\ \A w : waiters \subseteq {w} => waiters' = {}
    BY SignalWakes
  <2>1. TypeOK'
    <3>1. /\ thread' \in BOOLEAN /\ hasList' \in BOOLEAN
          /\ isRunning' \in BOOLEAN /\ signData' \in BOOLEAN
      BY Zenon DEF TypeOK
    <3>2. waiters' \subseteq {Worker, Admin}
      BY <2>w DEF TypeOK
    <3>3. hashSize' \in Nat
      BY DEF TypeOK
    <3> QED BY <3>1, <3>2, <3>3 DEF TypeOK
  <2>2. Phases'
    BY DEF Phases
  <2>3. Waiters'
    BY <2>w DEF Waiters, Phases, Worker, Admin, TypeOK
  <2>4. OutputIsClaimable'
    BY DEF OutputIsClaimable
  <2> QED BY <2>1, <2>2, <2>3, <2>4
<1>21. ASSUME NEW s \in Sessions, NEW h \in Hashes, PluginSignRefused(s, h) PROVE IInv'
  <2> USE <1>21 DEF PluginSignRefused, LockFree, Signal
  <2>w. /\ waiters' \subseteq waiters
        /\ \A w : waiters \subseteq {w} => waiters' = {}
    BY SignalWakes
  <2>1. TypeOK'
    <3>1. /\ thread' \in BOOLEAN /\ hasList' \in BOOLEAN
          /\ isRunning' \in BOOLEAN /\ signData' \in BOOLEAN
      BY Zenon DEF TypeOK
    <3>2. waiters' \subseteq {Worker, Admin}
      BY <2>w DEF TypeOK
    <3> QED BY <3>1, <3>2 DEF TypeOK
  <2>2. Phases'
    BY DEF Phases
  <2>3. Waiters'
    BY <2>w DEF Waiters, Phases, Worker, Admin, TypeOK
  <2>4. OutputIsClaimable'
    BY DEF OutputIsClaimable
  <2> QED BY <2>1, <2>2, <2>3, <2>4
<1>22. ASSUME NEW s \in Sessions, GetSignature(s) PROVE IInv'
  <2> USE <1>22 DEF GetSignature, LockFree, IsNext
  <2>1. TypeOK'
    <3>1. /\ thread' \in BOOLEAN /\ hasList' \in BOOLEAN
          /\ isRunning' \in BOOLEAN /\ signData' \in BOOLEAN
      BY Zenon DEF TypeOK
    <3>2. outBuf \in Seq(OutElements) /\ outBuf # <<>>
      BY DEF TypeOK
    <3>3. outBuf[1] \in OutElements
      BY <3>2
    <3>4. outBuf[1].hash \in Hashes
      BY <3>3 DEF OutElements
    <3>5. answer' \in [Sessions -> Hashes \cup {NoAnswer}]
      BY <3>4 DEF TypeOK
    <3>6. outBuf' \in Seq(OutElements) /\ Len(outBuf') <= MAX_BUFFER_LENGTH
      BY <3>2 DEF TypeOK
    <3> QED BY <3>1, <3>2, <3>3, <3>4, <3>5, <3>6 DEF TypeOK
  <2>2. Phases'
    BY DEF Phases
  <2>3. Waiters'
    BY DEF Waiters, Phases
  <2>4. OutputIsClaimable'
    BY DEF OutputIsClaimable
  <2> QED BY <2>1, <2>2, <2>3, <2>4
<1>23. ASSUME NEW s \in Sessions, GetError(s) PROVE IInv'
  <2> USE <1>23 DEF GetError, LockFree, IsNext
  <2>1. TypeOK'
    BY DEF TypeOK
  <2>2. Phases'
    BY DEF Phases
  <2>3. Waiters'
    BY DEF Waiters, Phases
  <2>4. OutputIsClaimable'
    BY DEF OutputIsClaimable
  <2> QED BY <2>1, <2>2, <2>3, <2>4
<1>24. ASSUME NEW s \in Sessions, GetNothing(s) PROVE IInv'
  <2> USE <1>24 DEF GetNothing, LockFree
  <2>1. TypeOK'
    BY DEF TypeOK
  <2>2. Phases'
    BY DEF Phases
  <2>3. Waiters'
    BY DEF Waiters, Phases
  <2>4. OutputIsClaimable'
    BY DEF OutputIsClaimable
  <2> QED BY <2>1, <2>2, <2>3, <2>4
<1>25. ASSUME NEW s \in Sessions, CentralTeardown(s) PROVE IInv'
  <2> USE <1>25 DEF CentralTeardown, LockFree
  <2>i. handle[s] \in Ids
    BY DEF TypeOK
  <2>r. /\ inBuf' \in Seq(InElements)
        /\ inFree' \in Seq(Nat)
        /\ Len(inBuf') + Len(inFree') = MAX_BUFFER_LENGTH
        /\ outBuf' \in Seq(OutElements)
        /\ Len(outBuf') <= MAX_BUFFER_LENGTH
        /\ inBuf = <<>> => inBuf' = <<>>
        /\ outBuf = <<>> => outBuf' = <<>>
        /\ \A k \in 1..Len(outBuf') : \E i \in 1..Len(outBuf) :
             outBuf'[k] = outBuf[i] /\ outBuf[i].id # handle[s]
    BY <2>i, ResetKeepsBuffers
  <2>1. TypeOK'
    <3>1. /\ thread' \in BOOLEAN /\ hasList' \in BOOLEAN
          /\ isRunning' \in BOOLEAN /\ signData' \in BOOLEAN
      BY Zenon DEF TypeOK
    <3>2. idList' \subseteq Ids /\ handle' \in [Sessions -> Ids \cup {NoId}]
      BY DEF TypeOK
    <3> QED BY <2>r, <3>1, <3>2 DEF TypeOK
  <2>2. Phases'
    BY <2>r DEF Phases
  <2>3. Waiters'
    BY <2>r DEF Waiters, Phases
  <2>4. OutputIsClaimable'
    BY <2>r DEF OutputIsClaimable
  <2> QED BY <2>1, <2>2, <2>3, <2>4
<1>26. ASSUME NEW w \in {Worker, Admin}, SpuriousWakeup(w) PROVE IInv'
  <2> USE <1>26 DEF SpuriousWakeup
  <2>1. TypeOK'
    BY DEF TypeOK
  <2>2. Phases'
    BY DEF Phases
  <2>3. Waiters'
    BY DEF Waiters, Phases
  <2>4. OutputIsClaimable'
    BY DEF OutputIsClaimable
  <2> QED BY <2>1, <2>2, <2>3, <2>4
<1>27. CASE UNCHANGED vars
  BY <1>27 DEF vars, TypeOK, Phases, Waiters, OutputIsClaimable
<1> QED BY <1>1, <1>2, <1>3, <1>4, <1>5, <1>6, <1>7, <1>8, <1>9, <1>10, <1>11, <1>12, <1>13, <1>14, <1>15, <1>16, <1>17, <1>18, <1>19, <1>20, <1>21, <1>22, <1>23, <1>24, <1>25, <1>26, <1>27, <1>28
    DEF Next, AdminStep, WorkerStep, SessionStep

(* The inductive invariant holds whatever the threads do. *)
LEMMA Invariance == Spec => []IInv
<1>1. Init => IInv
  <2> SUFFICES ASSUME Init PROVE IInv
    OBVIOUS
  <2> USE BufferAssumption, IdAssumption, HashAssumption DEF Init
  <2>1. TypeOK
    <3>1. thread \in BOOLEAN /\ hasList \in BOOLEAN /\ isRunning \in BOOLEAN /\ signData \in BOOLEAN
      BY Zenon
    <3>2. inFree \in Seq(Nat) /\ Len(inFree) = MAX_BUFFER_LENGTH
      BY DEF NotAllocated
    <3>3. inBuf \in Seq(InElements) /\ Len(inBuf) = 0 /\ outBuf \in Seq(OutElements)
          /\ Len(outBuf) = 0 /\ signing \in Seq(InElements) /\ Len(signing) = 0
      OBVIOUS
    <3>4. hashSize \in Nat
      BY DEF NotAllocated
    <3> QED BY <3>1, <3>2, <3>3, <3>4 DEF TypeOK
  <2>2. Phases /\ Waiters /\ OutputIsClaimable
    BY DEF Phases, Waiters, OutputIsClaimable
  <2> QED BY <2>1, <2>2 DEF IInv
<1> QED BY <1>1, StepKeepsIInv, PTL DEF Spec

(* The variables of the central thread keep their types: in particular no  *)
(* index runs behind its buffer, and every slot of in[] is accounted for.  *)
THEOREM TypeCorrect == Spec => []TypeOK
<1>1. IInv => TypeOK
  BY DEF IInv
<1> QED BY <1>1, Invariance, PTL

(* While is_running is set, id_list and sign_data exist and the thread is  *)
(* alive, even if exit() overtakes the sessions.                           *)
THEOREM RunningStaysUsable == Spec => []RunningIsUsable
<1> QED BY IInvImplies, Invariance, PTL

(* No signature of a closed session ever blocks the head of out[].         *)
THEOREM OutputStaysClaimable == Spec => []OutputIsClaimable
<1>1. IInv => OutputIsClaimable
  BY DEF IInv
<1> QED BY <1>1, Invariance, PTL

(* No wake-up of the worker is lost. *)
THEOREM NoLostWakeup == Spec => []SleepsOnlyWhenIdle
<1> QED BY IInvImplies, Invariance, PTL

(* One signal is enough, as two threads never wait at the same time. *)
THEOREM SignalReachesTheWaiter == Spec => []OneWaiter
<1> QED BY IInvImplies, Invariance, PTL

-----------------------------------------------------------------------------
(* Handles.  When exit() comes after all the sessions are closed, a        *)
(* session that is open, or about to be opened, has the thread, and every  *)
(* waiting hash is one of an active session.                               *)

Handles ==
  /\ HandlesAreActive
  /\ \A s \in Sessions : handle[s] # NoId => thread
  /\ \A s \in Sessions : spc[s] # "idle" => thread /\ handle[s] = NoId
  /\ isRunning => \A i \in 1..Len(inBuf) : inBuf[i].id \in idList

(* An id that central_setup() picks is not in use. *)
LEMMA NewIdsAreInactive ==
  ASSUME IInv, NEW id \in NewIds
  PROVE  id \in Ids /\ id \notin idList
<1>1. lastAddedId \in Nat
  BY DEF IInv, TypeOK, Ids, NoId
<1>2. \A k \in Nat : k > 0 => (lastAddedId + k - 1) % MaxId \in 0..(MaxId - 1)
  BY <1>1, IdAssumption
<1>3. \A k \in Nat : k > 0 => IdAfter(k) \in Ids
  BY <1>2, IdAssumption DEF IdAfter, Ids
<1>4. PICK k \in 1..(IF lastAddedId = NoId THEN MaxId ELSE MaxId - 1) :
        id = IdAfter(k) /\ IdAfter(k) \notin idList
  BY DEF NewIds
<1>5. k \in Nat /\ k > 0
  BY <1>4, IdAssumption
<1> QED BY <1>3, <1>4, <1>5

(* Every step but an exit() with sessions still open keeps the handles.    *)
LEMMA StepKeepsHandles ==
  ASSUME ExitMayOvertake => ~ExitStart, IInv, Handles, [Next]_vars
  PROVE  Handles'
<1>1. /\ inBuf \in Seq(InElements)
      /\ handle \in [Sessions -> Ids \cup {NoId}]
      /\ spc \in [Sessions -> {"idle", "seen", "asserted"}]
      /\ NoId \notin Ids
  BY DEF IInv, TypeOK, Ids, NoId
<1>2. ASSUME UNCHANGED <<handle, spc, idList, thread>>,
             isRunning' => isRunning,
             \A k \in 1..Len(inBuf') : \E i \in 1..Len(inBuf) : inBuf'[k] = inBuf[i]
      PROVE  Handles'
  BY <1>2 DEF Handles, HandlesAreActive
<1>3. ASSUME UNCHANGED <<handle, spc, idList, thread, inBuf>>, isRunning' => isRunning
      PROVE  Handles'
  BY <1>3 DEF Handles, HandlesAreActive
<1>4. ASSUME UNCHANGED <<handle, spc, idList, thread>>, inBuf' = <<>> PROVE Handles'
  BY <1>4 DEF Handles, HandlesAreActive
<1>5. CASE InitStart
  <2>1. inBuf' = <<>> /\ UNCHANGED <<handle, spc>>
    BY <1>5 DEF InitStart, IInv, Phases, buffers, session
  <2>2. \A s \in Sessions : handle[s] = NoId /\ spc[s] = "idle"
    BY <1>5 DEF InitStart, Handles
  <2> QED BY <2>1, <2>2 DEF Handles, HandlesAreActive
<1>6. CASE ExitStart
  <2>1. ~isRunning' /\ UNCHANGED <<handle, spc>>
    BY <1>6 DEF ExitStart, session
  <2>2. \A s \in Sessions : handle[s] = NoId /\ spc[s] = "idle"
    BY <1>6 DEF ExitStart
  <2> QED BY <2>1, <2>2 DEF Handles, HandlesAreActive
<1>7. CASE InitCheck \/ ExitWake \/ ExitTimeout
  BY <1>3, <1>7 DEF InitCheck, ExitWake, ExitTimeout, plugin, buffers, session
<1>8. CASE ExitJoin
  BY <1>4, <1>8 DEF ExitJoin, FreeBuffers, session
<1>9. CASE WorkerStart
  <2>1. inBuf = <<>>
    BY <1>9 DEF WorkerStart, IInv, Phases
  <2> QED BY <1>4, <1>9, <2>1 DEF WorkerStart, buffers, session
<1>10. CASE WorkerWait \/ WorkerWake \/ WorkerDiscard \/ WorkerStop
  BY <1>3, <1>10 DEF WorkerWait, WorkerWake, WorkerDiscard, WorkerStop, plugin, buffers, session
<1>11. CASE WorkerTake
  <2>1. inBuf # <<>> /\ inBuf' = Tail(inBuf)
    BY <1>11 DEF WorkerTake
  <2>2. \A k \in 1..Len(inBuf') : k + 1 \in 1..Len(inBuf) /\ inBuf'[k] = inBuf[k + 1]
    BY <1>1, <2>1
  <2>3. \A k \in 1..Len(inBuf') : \E i \in 1..Len(inBuf) : inBuf'[k] = inBuf[i]
    BY <2>2
  <2> QED BY <1>2, <1>11, <2>3 DEF WorkerTake, plugin, session
<1>12. CASE WorkerFlush
  <2>1. inBuf' = Without(inBuf, signing[1].id)
    BY <1>12 DEF WorkerFlush, BufferReset
  <2>2. \A k \in 1..Len(inBuf') : \E i \in 1..Len(inBuf) : inBuf'[k] = inBuf[i]
    BY <1>1, <2>1, WithoutOthers
  <2> QED BY <1>2, <1>12, <2>2 DEF WorkerFlush, plugin, session
<1>13. CASE WorkerOutOfMemory
  BY <1>4, <1>13 DEF WorkerOutOfMemory, FreeBuffers, session
<1>14. ASSUME NEW error, WorkerDeliver(error) PROVE Handles'
  BY <1>3, <1>14 DEF WorkerDeliver, plugin, session
<1>15. ASSUME NEW s \in Sessions, SetupSeesThread(s) PROVE Handles'
  <2>1. /\ thread /\ thread' = thread /\ handle[s] = NoId
        /\ spc' = [spc EXCEPT ![s] = "seen"]
        /\ UNCHANGED <<handle, idList, isRunning, inBuf>>
    BY <1>15 DEF SetupSeesThread, plugin, buffers
  <2> QED BY <1>1, <2>1 DEF Handles, HandlesAreActive
<1>25. ASSUME NEW s \in Sessions, SetupAssertsList(s) PROVE Handles'
  <2>1. /\ thread /\ thread' = thread /\ handle[s] = NoId
        /\ spc' = [spc EXCEPT ![s] = "asserted"]
        /\ UNCHANGED <<handle, idList, isRunning, inBuf>>
    BY <1>25 DEF SetupAssertsList, Handles, plugin, buffers
  <2> QED BY <1>1, <2>1 DEF Handles, HandlesAreActive
<1>16. ASSUME NEW s \in Sessions, CentralSetup(s) PROVE Handles'
  <2>1. /\ spc[s] = "asserted" /\ spc' = [spc EXCEPT ![s] = "idle"]
        /\ UNCHANGED <<thread, isRunning, inBuf>>
    BY <1>16 DEF CentralSetup, buffers
  <2>2. PICK id \in NewIds :
          \/ idList' = idList \cup {id} /\ handle' = [handle EXCEPT ![s] = id]
          \/ idList' = idList /\ handle' = handle
    BY <1>16 DEF CentralSetup
  <2>3. id \in Ids /\ id \notin idList
    BY NewIdsAreInactive
  <2>4. thread
    BY <2>1 DEF Handles
  <2>5. \A t \in Sessions : t # s /\ handle[t] # NoId => handle[t] # id
    BY <2>3 DEF Handles, HandlesAreActive
  <2>6. HandlesAreActive'
    <3>1. CASE idList' = idList /\ handle' = handle
      BY <3>1 DEF Handles, HandlesAreActive
    <3>2. CASE idList' = idList \cup {id} /\ handle' = [handle EXCEPT ![s] = id]
      <4>1. handle'[s] = id /\ \A t \in Sessions : t # s => handle'[t] = handle[t]
        BY <1>1, <3>2
      <4> QED BY <3>2, <4>1, <2>3, <2>5, <1>1 DEF Handles, HandlesAreActive
    <3> QED BY <2>2, <3>1, <3>2
  <2>7. \A t \in Sessions : spc'[t] # "idle" => t # s /\ spc[t] # "idle" /\ handle'[t] = handle[t]
    BY <1>1, <2>1, <2>2
  <2> QED BY <2>1, <2>2, <2>4, <2>6, <2>7 DEF Handles
<1>17. ASSUME NEW s \in Sessions, CentralSetupFails(s) PROVE Handles'
  <2>1. spc' = [spc EXCEPT ![s] = "idle"] /\ UNCHANGED <<handle, thread, idList, isRunning, inBuf>>
    BY <1>17 DEF CentralSetupFails, plugin, buffers
  <2> QED BY <1>1, <2>1 DEF Handles, HandlesAreActive
<1>18. ASSUME NEW s \in Sessions, GetSignature(s) \/ GetError(s) \/ GetNothing(s) PROVE Handles'
  BY <1>3, <1>18 DEF GetSignature, GetError, GetNothing, plugin, buffers
<1>19. ASSUME NEW s \in Sessions, NEW h \in Hashes, PluginSign(s, h) PROVE Handles'
  <2> DEFINE e == [id |-> handle[s], hash |-> h, size |-> SizeOf[s]]
  <2>1. /\ inBuf' = Append(inBuf, e) /\ handle[s] # NoId
        /\ UNCHANGED <<handle, spc, idList, thread, isRunning>>
    BY <1>19 DEF PluginSign, TakeSlot, MaySign, session
  <2>2. e.id \in idList
    BY <2>1 DEF Handles, HandlesAreActive
  <2>3. \A k \in 1..Len(inBuf') : inBuf'[k] = e \/ (k \in 1..Len(inBuf) /\ inBuf'[k] = inBuf[k])
    <3> HIDE DEF e
    <3> QED BY <1>1, <2>1
  <2> HIDE DEF e
  <2> QED BY <2>1, <2>2, <2>3 DEF Handles, HandlesAreActive
<1>20. ASSUME NEW s \in Sessions, NEW h \in Hashes, PluginSignOutOfMemory(s, h) PROVE Handles'
  BY <1>3, <1>20 DEF PluginSignOutOfMemory, buffers, session
<1>21. ASSUME NEW s \in Sessions, NEW h \in Hashes, PluginSignRefused(s, h) PROVE Handles'
  BY <1>3, <1>21 DEF PluginSignRefused, plugin, buffers, session
<1>22. ASSUME NEW s \in Sessions, CentralTeardown(s) PROVE Handles'
  <2>1. /\ handle[s] # NoId /\ handle' = [handle EXCEPT ![s] = NoId]
        /\ idList' = idList \ {handle[s]}
        /\ inBuf' = Without(inBuf, handle[s])
        /\ UNCHANGED <<spc, thread, isRunning>>
    BY <1>22 DEF CentralTeardown, BufferReset
  <2>2. handle'[s] = NoId /\ \A t \in Sessions : t # s => handle'[t] = handle[t]
    BY <1>1, <2>1
  <2>3. \A t \in Sessions : t # s /\ handle[t] # NoId => handle[t] # handle[s]
    BY DEF Handles, HandlesAreActive
  <2>4. \A k \in 1..Len(inBuf') : \E i \in 1..Len(inBuf) :
          inBuf'[k] = inBuf[i] /\ inBuf[i].id # handle[s]
    BY <1>1, <2>1, WithoutOthers
  <2>5. HandlesAreActive'
    BY <2>1, <2>2, <2>3 DEF Handles, HandlesAreActive
  <2>6. isRunning' => \A k \in 1..Len(inBuf') : inBuf'[k].id \in idList'
    BY <2>1, <2>4 DEF Handles
  <2> QED BY <2>1, <2>2, <2>5, <2>6 DEF Handles
<1>23. ASSUME NEW w \in {Worker, Admin}, SpuriousWakeup(w) PROVE Handles'
  BY <1>3, <1>23 DEF SpuriousWakeup, plugin, buffers, session
<1>24. CASE UNCHANGED vars
  BY <1>3, <1>24 DEF vars, plugin, buffers, session
<1> QED
  BY <1>5, <1>6, <1>7, <1>8, <1>9, <1>10, <1>11, <1>12, <1>13, <1>14, <1>15, <1>16, <1>17, <1>18,
     <1>19, <1>20, <1>21, <1>22, <1>23, <1>24, <1>25 DEF Next, AdminStep, WorkerStep, SessionStep

LEMMA HandlesInvariance == ~ExitMayOvertake /\ Spec => [](IInv /\ Handles)
<1> SUFFICES ASSUME ~ExitMayOvertake PROVE Spec => [](IInv /\ Handles)
  OBVIOUS
<1>1. Init => Handles
  BY DEF Init, Handles, HandlesAreActive
<1>2. IInv /\ Handles /\ [Next]_vars => Handles'
  BY StepKeepsHandles
<1> QED BY <1>1, <1>2, Invariance, PTL DEF Spec

(* If exit() is called after all the sessions are closed, two open         *)
(* sessions never have the same id, however often the ids wrap around, and *)
(* the id of an open session is always in id_list.                         *)
THEOREM HandlesStayActive == ~ExitMayOvertake /\ Spec => []HandlesAreActive
<1>1. Handles => HandlesAreActive
  BY DEF Handles
<1> QED BY <1>1, HandlesInvariance, PTL

(* The assertion of session_setup() that id_list exists holds, although it *)
(* is made without the mutex, if exit() is called after all the sessions   *)
(* are closed: then nobody frees the list while a setup is under way.      *)
THEOREM SetupAlwaysFindsList == ~ExitMayOvertake /\ Spec => []SetupFindsList
<1>1. IInv /\ Handles => SetupFindsList
  BY DEF IInv, Phases, Handles, SetupFindsList
<1> QED BY <1>1, HandlesInvariance, PTL

-----------------------------------------------------------------------------
(* What a session waits for.  PendingIn says it for any contents of the    *)
(* buffers: out[] and in[] hold out and in, and now is being signed.       *)

PendingIn(out, now, in, id) == HashesOf(out, id) \o HashesOf(now, id) \o HashesOf(in, id)

LEMMA ElementsHaveHashes ==
  /\ \A e \in InElements : e.hash \in Hashes
  /\ \A e \in OutElements : e.hash \in Hashes
BY DEF InElements, OutElements

(* The hash of a single element. *)
LEMMA HashesOfOne ==
  ASSUME NEW f \in InElements, NEW id
  PROVE  HashesOf(<<f>>, id) = IF f.id = id THEN <<f.hash>> ELSE <<>>
<1>1. <<>> \in Seq(InElements) /\ Append(<<>>, f) = <<f>> /\ Append(<<>>, f.hash) = <<f.hash>>
  OBVIOUS
<1>3. HashesOf(<<>>, id) = <<>>
  BY HashesOfEmpty
<1>4. /\ f.id = id => HashesOf(Append(<<>>, f), id) = Append(HashesOf(<<>>, id), f.hash)
      /\ f.id # id => HashesOf(Append(<<>>, f), id) = HashesOf(<<>>, id)
  BY <1>1, HashesOfAppended
<1> QED BY <1>1, <1>3, <1>4

LEMMA PendingParts ==
  ASSUME NEW out \in Seq(OutElements), NEW now \in Seq(InElements), NEW in \in Seq(InElements),
         NEW id
  PROVE  /\ HashesOf(out, id) \in Seq(Hashes)
         /\ HashesOf(now, id) \in Seq(Hashes)
         /\ HashesOf(in, id) \in Seq(Hashes)
         /\ HashesOf(out, id) \o HashesOf(now, id) \in Seq(Hashes)
         /\ HashesOf(now, id) \o HashesOf(in, id) \in Seq(Hashes)
         /\ PendingIn(out, now, in, id) \in Seq(Hashes)
         /\ PendingIn(out, now, in, id)
              = HashesOf(out, id) \o (HashesOf(now, id) \o HashesOf(in, id))
<1> DEFINE o == HashesOf(out, id)
           n == HashesOf(now, id)
           i == HashesOf(in, id)
<1>1. o \in Seq(Hashes) /\ n \in Seq(Hashes) /\ i \in Seq(Hashes)
  BY ElementsHaveHashes, HashesOfType
<1>2. PendingIn(out, now, in, id) = o \o n \o i
  BY DEF PendingIn
<1> HIDE DEF o, n, i
<1>3. o \o n \in Seq(Hashes) /\ n \o i \in Seq(Hashes)
  BY <1>1, ConcatProperties
<1>4. o \o n \o i \in Seq(Hashes)
  BY <1>1, <1>3, ConcatProperties
<1>5. o \o n \o i = o \o (n \o i)
  BY <1>1, ConcatAssociative
<1> QED BY <1>1, <1>2, <1>3, <1>4, <1>5 DEF o, n, i

(* A hash that is handed over is the last one its session waits for.       *)
LEMMA PendingAppended ==
  ASSUME NEW out \in Seq(OutElements), NEW now \in Seq(InElements), NEW in \in Seq(InElements),
         NEW id, NEW e \in InElements
  PROVE  /\ e.id = id => PendingIn(out, now, Append(in, e), id)
                           = Append(PendingIn(out, now, in, id), e.hash)
         /\ e.id # id => PendingIn(out, now, Append(in, e), id) = PendingIn(out, now, in, id)
<1> DEFINE p == HashesOf(out, id) \o HashesOf(now, id)
           i == HashesOf(in, id)
<1>1. /\ e.id = id => HashesOf(Append(in, e), id) = Append(i, e.hash)
      /\ e.id # id => HashesOf(Append(in, e), id) = i
  BY HashesOfAppended
<1>2. p \in Seq(Hashes) /\ i \in Seq(Hashes)
  BY PendingParts
<1> HIDE DEF p, i
<1>3. e.hash \in Hashes /\ p \o i \in Seq(Hashes)
  BY <1>2, ElementsHaveHashes, ConcatProperties
<1>4. Append(i, e.hash) = i \o <<e.hash>> /\ <<e.hash>> \in Seq(Hashes)
  BY <1>2, <1>3, AppendIsConcat
<1>5. p \o (i \o <<e.hash>>) = (p \o i) \o <<e.hash>>
  BY <1>2, <1>4, ConcatAssociative
<1>6. (p \o i) \o <<e.hash>> = Append(p \o i, e.hash)
  BY <1>3, AppendIsConcat
<1> QED BY <1>1, <1>4, <1>5, <1>6 DEF PendingIn, p, i

(* The first signature is the oldest one of its session.                   *)
LEMMA PendingFetched ==
  ASSUME NEW out \in Seq(OutElements), NEW now \in Seq(InElements), NEW in \in Seq(InElements),
         NEW id, out # <<>>
  PROVE  /\ out[1].id = id =>
              /\ PendingIn(out, now, in, id) # <<>>
              /\ Head(PendingIn(out, now, in, id)) = out[1].hash
              /\ PendingIn(Tail(out), now, in, id) = Tail(PendingIn(out, now, in, id))
         /\ out[1].id # id => PendingIn(Tail(out), now, in, id) = PendingIn(out, now, in, id)
<1> DEFINE o == HashesOf(out, id)
           n == HashesOf(now, id)
           i == HashesOf(in, id)
<1>1. /\ o \in Seq(Hashes) /\ n \in Seq(Hashes) /\ i \in Seq(Hashes) /\ n \o i \in Seq(Hashes)
      /\ PendingIn(out, now, in, id) = o \o (n \o i)
  BY PendingParts
<1>2. CASE out[1].id # id
  <2>1. HashesOf(Tail(out), id) = o
    BY <1>2, HashesOfTail
  <2> QED BY <1>2, <2>1 DEF PendingIn
<1>3. CASE out[1].id = id
  <2>1. o # <<>> /\ Head(o) = out[1].hash /\ HashesOf(Tail(out), id) = Tail(o)
    BY <1>3, HashesOfTail
  <2>2. PendingIn(Tail(out), now, in, id) = Tail(o) \o n \o i
    BY <2>1 DEF PendingIn
  <2> HIDE DEF o, n, i
  <2>3. /\ o \o (n \o i) # <<>>
        /\ Head(o \o (n \o i)) = o[1]
        /\ Tail(o \o (n \o i)) = Tail(o) \o (n \o i)
    BY <1>1, <2>1, HeadTailOfConcat
  <2>4. Tail(o) \in Seq(Hashes) /\ Head(o) = o[1]
    BY <1>1, <2>1, HeadTailProperties
  <2>5. Tail(o) \o n \o i = Tail(o) \o (n \o i)
    BY <1>1, <2>4, ConcatAssociative, SMTT(30)
  <2> QED BY <1>1, <1>3, <2>1, <2>2, <2>3, <2>4, <2>5
<1> QED BY <1>2, <1>3

(* The hash that is taken keeps its place.                                 *)
LEMMA PendingTaken ==
  ASSUME NEW out \in Seq(OutElements), NEW in \in Seq(InElements), NEW id, in # <<>>
  PROVE  PendingIn(out, <<Head(in)>>, Tail(in), id) = PendingIn(out, <<>>, in, id)
<1> DEFINE o == HashesOf(out, id)
           i == HashesOf(in, id)
<1>1. o \in Seq(Hashes) /\ i \in Seq(Hashes)
  <2>1. <<>> \in Seq(InElements)
    OBVIOUS
  <2> QED BY <2>1, PendingParts
<1>2. in[1] \in InElements /\ Head(in) = in[1]
  OBVIOUS
<1>3. HashesOf(<<Head(in)>>, id) = IF in[1].id = id THEN <<in[1].hash>> ELSE <<>>
  BY <1>2, HashesOfOne
<1>4. o \o <<>> = o
  <2> HIDE DEF o
  <2> QED BY <1>1, ConcatEmptySeq
<1>5. PendingIn(out, <<>>, in, id) = o \o i
  BY <1>4, HashesOfEmpty DEF PendingIn
<1>6. CASE in[1].id # id
  <2>1. HashesOf(Tail(in), id) = i
    BY <1>6, HashesOfTail
  <2> QED BY <2>1, <1>3, <1>4, <1>5, <1>6 DEF PendingIn
<1>7. CASE in[1].id = id
  <2>1. i # <<>> /\ Head(i) = in[1].hash /\ HashesOf(Tail(in), id) = Tail(i)
    BY <1>7, HashesOfTail
  <2>2. PendingIn(out, <<Head(in)>>, Tail(in), id) = o \o <<Head(i)>> \o Tail(i)
    BY <2>1, <1>3, <1>7 DEF PendingIn
  <2> HIDE DEF o, i
  <2>3. Head(i) \in Hashes /\ Tail(i) \in Seq(Hashes)
    BY <1>1, <2>1, HeadTailProperties
  <2>4. <<Head(i)>> \in Seq(Hashes)
    BY <2>3
  <2>5. <<Head(i)>> \o Tail(i) = i
    BY <1>1, <2>1, <2>3
  <2>6. o \o <<Head(i)>> \o Tail(i) = o \o (<<Head(i)>> \o Tail(i))
    BY <1>1, <2>3, <2>4, ConcatAssociative
  <2> QED BY <1>5, <2>2, <2>5, <2>6
<1> QED BY <1>6, <1>7

(* The hash that was signed keeps its place.                               *)
LEMMA PendingDelivered ==
  ASSUME NEW out \in Seq(OutElements), NEW in \in Seq(InElements), NEW id,
         NEW f \in InElements, NEW e \in OutElements, e.id = f.id, e.hash = f.hash
  PROVE  PendingIn(Append(out, e), <<>>, in, id) = PendingIn(out, <<f>>, in, id)
<1> DEFINE o == HashesOf(out, id)
<1>1. /\ e.id = id => HashesOf(Append(out, e), id) = Append(o, e.hash)
      /\ e.id # id => HashesOf(Append(out, e), id) = o
  BY HashesOfAppended
<1>2. HashesOf(<<f>>, id) = IF f.id = id THEN <<f.hash>> ELSE <<>>
  BY HashesOfOne
<1>3. o \in Seq(Hashes) /\ e.hash \in Hashes
  <2>1. <<>> \in Seq(InElements)
    OBVIOUS
  <2> QED BY <2>1, PendingParts, ElementsHaveHashes
<1> HIDE DEF o
<1>4. Append(o, e.hash) = o \o <<e.hash>> /\ Append(o, e.hash) \in Seq(Hashes)
  BY <1>3, AppendIsConcat, AppendProperties
<1>5. Append(o, e.hash) \o <<>> = Append(o, e.hash) /\ o \o <<>> = o
  BY <1>3, <1>4, ConcatEmptySeq
<1>6. HashesOf(Append(out, e), id) \o <<>> = o \o HashesOf(<<f>>, id)
  BY <1>1, <1>2, <1>4, <1>5
<1> QED BY <1>6, HashesOfEmpty DEF PendingIn, o

(* What is being signed for a session does not matter to the others.       *)
LEMMA PendingOfOthers ==
  ASSUME NEW out, NEW in, NEW id, NEW f \in InElements, f.id # id
  PROVE  PendingIn(out, <<f>>, in, id) = PendingIn(out, <<>>, in, id)
<1>1. HashesOf(<<f>>, id) = HashesOf(<<>>, id)
  BY HashesOfOne, HashesOfEmpty
<1> QED BY <1>1 DEF PendingIn

(* buffer_reset() takes nothing from the other sessions.                   *)
LEMMA PendingReset ==
  ASSUME NEW out \in Seq(OutElements), NEW now, NEW in \in Seq(InElements),
         NEW id, NEW j, j # id
  PROVE  PendingIn(Without(out, j), now, Without(in, j), id) = PendingIn(out, now, in, id)
<1>1. HashesOf(Without(out, j), id) = HashesOf(out, id)
  BY HashesOfWithout
<1>2. HashesOf(Without(in, j), id) = HashesOf(in, id)
  BY HashesOfWithout
<1> QED BY <1>1, <1>2 DEF PendingIn

(* Nothing waits for a session without a handle. *)
LEMMA NobodyWaits ==
  ASSUME NEW out \in Seq(OutElements), NEW now \in Seq(InElements), NEW in \in Seq(InElements)
  PROVE  PendingIn(out, now, in, NoId) = <<>>
<1>1. ASSUME NEW b, b \in Seq(OutElements) \/ b \in Seq(InElements)
      PROVE  HashesOf(b, NoId) = <<>>
  <2>1. \A i \in DOMAIN b : b[i] \in OutElements \/ b[i] \in InElements
    BY <1>1
  <2>2. \A i \in DOMAIN b : b[i].id # NoId
    <3>1. /\ \A e \in OutElements : e.id \in Ids
          /\ \A e \in InElements : e.id \in Ids
          /\ NoId \notin Ids
      BY DEF OutElements, InElements, Ids, NoId
    <3> QED BY <2>1, <3>1
  <2> QED BY <2>2, HashesOfNone
<1>2. HashesOf(out, NoId) = <<>> /\ HashesOf(now, NoId) = <<>> /\ HashesOf(in, NoId) = <<>>
  BY <1>1
<1> QED BY <1>2 DEF PendingIn

(* What a step of the plugin does to the hashes that session s waits for.  *)
LEMMA PendingSteps ==
  ASSUME IInv, Handles, NEW s \in Sessions
  PROVE  /\ UNCHANGED <<outBuf, signing, inBuf, handle>> => Pending(s)' = Pending(s)
         /\ WorkerTake \/ WorkerDiscard => Pending(s)' = Pending(s)
         /\ \A error \in BOOLEAN : WorkerDeliver(error) => Pending(s)' = Pending(s)
         /\ WorkerFlush \/ WorkerOutOfMemory \/ ExitJoin => Pending(s)' \in {Pending(s), <<>>}
         /\ \A t \in Sessions, h \in Hashes : PluginSign(t, h) =>
              Pending(s)' = IF t = s THEN Append(Pending(s), h) ELSE Pending(s)
         /\ \A t \in Sessions : GetSignature(t) \/ GetError(t) =>
              /\ t = s => /\ Pending(s) # <<>>
                          /\ Head(Pending(s)) = outBuf[1].hash
                          /\ Pending(s)' = Tail(Pending(s))
              /\ t # s => Pending(s)' = Pending(s)
         /\ \A t \in Sessions : CentralTeardown(t) =>
              Pending(s)' = IF t = s THEN <<>> ELSE Pending(s)
         /\ \A t \in Sessions : CentralSetup(t) =>
              \/ Pending(s)' = Pending(s)
              \/ /\ s = t /\ signing # <<>> /\ signing[1] \in InElements
                 /\ signing[1].id \in NewIds
                 /\ Pending(s)' = Append(Pending(s), signing[1].hash)
         /\ Pending(s) \in Seq(Hashes)
<1> DEFINE P(out, now, in) == PendingIn(out, now, in, handle[s])
<1>1. /\ outBuf \in Seq(OutElements) /\ inBuf \in Seq(InElements)
      /\ signing \in Seq(InElements) /\ Len(signing) <= 1
      /\ handle \in [Sessions -> Ids \cup {NoId}] /\ NoId \notin Ids
      /\ Pending(s) = P(outBuf, signing, inBuf)
      /\ Pending(s)' = PendingIn(outBuf', signing', inBuf', handle'[s])
  BY DEF IInv, TypeOK, Pending, PendingIn, Ids, NoId
<1>2. wpc = "signing" => signing = <<signing[1]>> /\ signing[1] \in InElements
  <2>1. wpc = "signing" => signing # <<>>
    BY DEF IInv, Phases
  <2>2. signing # <<>> => Len(signing) = 1 /\ signing[1] \in InElements
    <3>1. signing \in Seq(InElements) /\ Len(signing) <= 1
      BY <1>1
    <3>2. signing # <<>> => Len(signing) # 0
      BY <3>1, EmptySeq
    <3>3. Len(signing) \in Nat
      BY <3>1
    <3>4. signing # <<>> => Len(signing) = 1
      BY <3>1, <3>2, <3>3
    <3> QED BY <3>1, <3>4
  <2>3. Len(signing) = 1 => signing = <<signing[1]>>
    BY <1>1
  <2> QED BY <2>1, <2>2, <2>3
<1>3. Pending(s) \in Seq(Hashes)
  BY <1>1, PendingParts
<1>4. \A t \in Sessions : handle[t] # NoId /\ t # s => handle[t] # handle[s]
  BY DEF Handles, HandlesAreActive
<1>5. ASSUME UNCHANGED <<outBuf, signing, inBuf, handle>> PROVE Pending(s)' = Pending(s)
  BY <1>1, <1>5
<1>6. ASSUME WorkerTake PROVE Pending(s)' = Pending(s)
  <2>1. /\ inBuf # <<>> /\ signing' = <<Head(inBuf)>> /\ inBuf' = Tail(inBuf)
        /\ UNCHANGED <<outBuf, handle>> /\ signing = <<>>
    BY <1>6 DEF WorkerTake, session, IInv, Phases
  <2>2. P(outBuf, <<Head(inBuf)>>, Tail(inBuf)) = P(outBuf, <<>>, inBuf)
    BY <1>1, <2>1, PendingTaken
  <2> QED BY <1>1, <2>1, <2>2
<1>7. ASSUME WorkerDiscard PROVE Pending(s)' = Pending(s)
  <2>1. /\ wpc = "signing" /\ signing' = <<>> /\ signing[1].id \notin idList
        /\ UNCHANGED <<outBuf, inBuf, handle>>
    BY <1>7 DEF WorkerDiscard, Signed, buffers, session
  <2>2. signing[1].id \in Ids
    BY <2>1, <1>2 DEF InElements
  <2>3. signing[1].id # handle[s]
    BY <2>1, <2>2, <1>1 DEF Handles, HandlesAreActive
  <2>4. P(outBuf, <<signing[1]>>, inBuf) = P(outBuf, <<>>, inBuf)
    BY <1>2, <2>1, <2>3, PendingOfOthers
  <2> QED BY <1>1, <1>2, <2>1, <2>4
<1>8. ASSUME NEW error \in BOOLEAN, WorkerDeliver(error) PROVE Pending(s)' = Pending(s)
  <2> DEFINE e == [id |-> signing[1].id, hash |-> signing[1].hash, error |-> error]
  <2>1. /\ wpc = "signing" /\ signing' = <<>> /\ outBuf' = Append(outBuf, e)
        /\ UNCHANGED <<inBuf, handle>>
    BY <1>8 DEF WorkerDeliver, Signed, Put, session
  <2>2. e \in OutElements /\ e.id = signing[1].id /\ e.hash = signing[1].hash
    BY <1>2, <2>1 DEF InElements, OutElements
  <2> HIDE DEF e
  <2>3. P(Append(outBuf, e), <<>>, inBuf) = P(outBuf, <<signing[1]>>, inBuf)
    BY <1>1, <1>2, <2>1, <2>2, PendingDelivered
  <2> QED BY <1>1, <1>2, <2>1, <2>3
<1>9. ASSUME outBuf' = <<>>, inBuf' = <<>>, signing' = <<>> PROVE Pending(s)' = <<>>
  <2>1. HashesOf(<<>>, handle'[s]) = <<>>
    BY HashesOfEmpty
  <2> QED BY <1>1, <1>9, <2>1 DEF PendingIn
<1>10. ASSUME WorkerFlush PROVE Pending(s)' \in {Pending(s), <<>>}
  <2> DEFINE id == signing[1].id
  <2>1. /\ wpc = "signing" /\ signing' = <<>>
        /\ outBuf' = Without(outBuf, id) /\ inBuf' = Without(inBuf, id)
        /\ UNCHANGED handle
    BY <1>10 DEF WorkerFlush, Signed, BufferReset, session
  <2>2. CASE id = handle[s]
    <3>1. HashesOf(Without(outBuf, id), id) = <<>> /\ HashesOf(Without(inBuf, id), id) = <<>>
      BY <1>1, HashesOfWithout
    <3>2. HashesOf(<<>>, id) = <<>>
      BY HashesOfEmpty
    <3> QED BY <1>1, <2>1, <2>2, <3>1, <3>2 DEF PendingIn
  <2>3. CASE id # handle[s]
    <3> HIDE DEF id
    <3>2. P(Without(outBuf, id), <<>>, Without(inBuf, id)) = P(outBuf, <<>>, inBuf)
      BY <1>1, <2>3, PendingReset
    <3>3. P(outBuf, <<signing[1]>>, inBuf) = P(outBuf, <<>>, inBuf)
      BY <1>2, <2>1, <2>3, PendingOfOthers DEF id
    <3> QED BY <1>1, <1>2, <2>1, <3>2, <3>3
  <2> QED BY <2>2, <2>3
<1>11. ASSUME WorkerOutOfMemory PROVE Pending(s)' = <<>>
  BY <1>9, <1>11 DEF WorkerOutOfMemory, FreeBuffers, Signed
<1>12. ASSUME ExitJoin PROVE Pending(s)' = <<>>
  <2>1. signing = <<>>
    BY <1>12 DEF ExitJoin, IInv, Phases
  <2> QED BY <1>9, <1>12, <2>1 DEF ExitJoin, FreeBuffers
<1>13. ASSUME NEW t \in Sessions, NEW h \in Hashes, PluginSign(t, h)
       PROVE  Pending(s)' = IF t = s THEN Append(Pending(s), h) ELSE Pending(s)
  <2> DEFINE e == [id |-> handle[t], hash |-> h, size |-> SizeOf[t]]
  <2>1. /\ handle[t] # NoId /\ inBuf' = Append(inBuf, e)
        /\ UNCHANGED <<outBuf, signing, handle>>
    BY <1>13 DEF PluginSign, TakeSlot, MaySign, session
  <2>2. e \in InElements /\ e.id = handle[t] /\ e.hash = h
    BY <1>1, <2>1, HashAssumption DEF InElements, NotAllocated
  <2> HIDE DEF e
  <2>3. /\ e.id = handle[s] => P(outBuf, signing, Append(inBuf, e))
                                = Append(P(outBuf, signing, inBuf), e.hash)
        /\ e.id # handle[s] => P(outBuf, signing, Append(inBuf, e)) = P(outBuf, signing, inBuf)
    BY <1>1, <2>2, PendingAppended
  <2> QED BY <1>1, <1>4, <2>1, <2>2, <2>3
<1>14. ASSUME NEW t \in Sessions, GetSignature(t) \/ GetError(t)
       PROVE  /\ t = s => /\ Pending(s) # <<>>
                          /\ Head(Pending(s)) = outBuf[1].hash
                          /\ Pending(s)' = Tail(Pending(s))
              /\ t # s => Pending(s)' = Pending(s)
  <2>1. /\ handle[t] # NoId /\ outBuf # <<>> /\ outBuf[1].id = handle[t]
        /\ outBuf' = Tail(outBuf) /\ UNCHANGED <<inBuf, signing, handle>>
    BY <1>14 DEF GetSignature, GetError, IsNext
  <2>2. CASE t = s
    <3>1. /\ P(outBuf, signing, inBuf) # <<>>
          /\ Head(P(outBuf, signing, inBuf)) = outBuf[1].hash
          /\ P(Tail(outBuf), signing, inBuf) = Tail(P(outBuf, signing, inBuf))
      BY <1>1, <2>1, <2>2, PendingFetched
    <3> QED BY <1>1, <2>1, <2>2, <3>1
  <2>3. CASE t # s
    <3>1. outBuf[1].id # handle[s]
      BY <1>4, <2>1, <2>3
    <3>2. P(Tail(outBuf), signing, inBuf) = P(outBuf, signing, inBuf)
      BY <1>1, <2>1, <3>1, PendingFetched
    <3> QED BY <1>1, <2>1, <2>3, <3>2
  <2> QED BY <2>2, <2>3
<1>15. ASSUME NEW t \in Sessions, CentralTeardown(t)
       PROVE  Pending(s)' = IF t = s THEN <<>> ELSE Pending(s)
  <2>1. /\ handle[t] # NoId /\ handle' = [handle EXCEPT ![t] = NoId]
        /\ outBuf' = Without(outBuf, handle[t]) /\ inBuf' = Without(inBuf, handle[t])
        /\ signing' = signing
    BY <1>15 DEF CentralTeardown, BufferReset
  <2>2. CASE t = s
    <3>1. handle'[s] = NoId
      BY <1>1, <2>1, <2>2
    <3>2. outBuf' \in Seq(OutElements) /\ inBuf' \in Seq(InElements)
      BY <1>1, <2>1, WithoutElements
    <3>3. PendingIn(outBuf', signing', inBuf', NoId) = <<>>
      BY <1>1, <2>1, <3>2, NobodyWaits
    <3> QED BY <1>1, <2>2, <3>1, <3>3
  <2>3. CASE t # s
    <3>1. handle'[s] = handle[s] /\ handle[t] # handle[s]
      BY <1>1, <1>4, <2>1, <2>3
    <3>2. P(Without(outBuf, handle[t]), signing, Without(inBuf, handle[t]))
            = P(outBuf, signing, inBuf)
      BY <1>1, <3>1, PendingReset
    <3> QED BY <1>1, <2>1, <2>3, <3>1, <3>2
  <2> QED BY <2>2, <2>3
<1>16. ASSUME NEW t \in Sessions, CentralSetup(t)
       PROVE  \/ Pending(s)' = Pending(s)
              \/ /\ s = t /\ signing # <<>> /\ signing[1] \in InElements
                 /\ signing[1].id \in NewIds
                 /\ Pending(s)' = Append(Pending(s), signing[1].hash)
  <2>1. spc[t] = "asserted" /\ isRunning /\ UNCHANGED <<outBuf, inBuf, signing>>
    BY <1>16 DEF CentralSetup, buffers
  <2>2. PICK id \in NewIds : handle' \in {handle, [handle EXCEPT ![t] = id]}
    BY <1>16 DEF CentralSetup
  <2>3. CASE handle'[s] = handle[s]
    BY <1>1, <2>1, <2>3
  <2>4. CASE handle'[s] # handle[s]
    <3>1. s = t /\ handle'[s] = id
      BY <1>1, <2>2, <2>4
    <3>2. handle[s] = NoId
      BY <2>1, <3>1 DEF Handles
    <3>3. Pending(s) = <<>>
      BY <1>1, <3>2, NobodyWaits
    <3>4. id \notin idList
      BY NewIdsAreInactive
    <3>5. HashesOf(outBuf, id) = <<>>
      <4>1. \A i \in DOMAIN outBuf : i \in 1..Len(outBuf)
        BY <1>1
      <4>2. \A i \in DOMAIN outBuf : outBuf[i].id # id
        BY <4>1, <2>1, <3>4 DEF IInv, OutputIsClaimable
      <4> QED BY <4>2, HashesOfNone
    <3>6. HashesOf(inBuf, id) = <<>>
      <4>1. \A i \in DOMAIN inBuf : i \in 1..Len(inBuf)
        BY <1>1
      <4>2. \A i \in DOMAIN inBuf : inBuf[i].id # id
        BY <4>1, <2>1, <3>4 DEF Handles
      <4> QED BY <4>2, HashesOfNone
    <3>7. HashesOf(signing, id) \in Seq(Hashes)
      BY <1>1, ElementsHaveHashes, HashesOfType
    <3>8. <<>> \o HashesOf(signing, id) \o <<>> = HashesOf(signing, id)
      BY <3>7, ConcatEmptySeq
    <3>9. Pending(s)' = HashesOf(signing, id)
      BY <1>1, <2>1, <3>1, <3>5, <3>6, <3>8 DEF PendingIn
    <3>10. CASE signing = <<>>
      BY <3>3, <3>9, <3>10, HashesOfEmpty
    <3>11. CASE signing # <<>>
      <4>1. signing = <<signing[1]>> /\ signing[1] \in InElements
        BY <1>2, <3>11 DEF IInv, Phases
      <4>2. HashesOf(<<signing[1]>>, id) = IF signing[1].id = id THEN <<signing[1].hash>> ELSE <<>>
        BY <4>1, HashesOfOne
      <4>3. Append(<<>>, signing[1].hash) = <<signing[1].hash>>
        OBVIOUS
      <4> QED BY <3>1, <3>3, <3>9, <3>11, <4>1, <4>2, <4>3
    <3> QED BY <3>10, <3>11
  <2> QED BY <2>3, <2>4
<1> HIDE DEF P
<1> QED BY <1>3, <1>5, <1>6, <1>7, <1>8, <1>10, <1>11, <1>12, <1>13, <1>14, <1>15, <1>16

(* The sessions get the signatures of their own hashes in order, none      *)
(* twice and none left out, whatever sessions are opened and closed in     *)
(* between: the plugin implements SigningQueue if exit() comes after all   *)
(* the sessions are closed.                                                *)
THEOREM PromiseIsKept == ~ExitMayOvertake /\ Spec => KeepsPromise
<1> SUFFICES ASSUME ~ExitMayOvertake PROVE Spec => KeepsPromise
  OBVIOUS
<1> DEFINE pend == [s \in Sessions |-> Pending(s)]
<1>1. Init => Promise!Init
  <2> SUFFICES ASSUME Init PROVE Promise!Init
    OBVIOUS
  <2>1. \A s \in Sessions : Pending(s) = <<>>
    BY HashesOfEmpty DEF Init, Pending
  <2> QED BY <2>1 DEF Init, Promise!Init
<1>2. IInv /\ Handles /\ [Next]_vars => [Promise!Next]_(Promise!vars)
  <2> SUFFICES ASSUME IInv, Handles, [Next]_vars PROVE [Promise!Next]_(Promise!vars)
    OBVIOUS
  <2>1. pend' = [s \in Sessions |-> Pending(s)'] /\ answer \in [Sessions -> Hashes \cup {NoAnswer}]
    BY DEF IInv, TypeOK
  <2>2. ASSUME \A s \in Sessions : Pending(s)' = Pending(s), answer' = answer
        PROVE  UNCHANGED Promise!vars
    BY <2>1, <2>2 DEF Promise!vars
  <2>3. ASSUME UNCHANGED <<outBuf, signing, inBuf, handle>>, answer' = answer
        PROVE  UNCHANGED Promise!vars
    BY <2>2, <2>3, PendingSteps
  <2>4. ASSUME \A s \in Sessions : Pending(s)' \in {Pending(s), <<>>}, answer' = answer
        PROVE  Promise!Next
    <3> DEFINE S == {s \in Sessions : Pending(s)' # Pending(s)}
    <3>1. pend' = [s \in Sessions |-> IF s \in S THEN <<>> ELSE pend[s]]
      BY <2>1, <2>4
    <3>2. Promise!GiveUp(S)
      BY <2>4, <3>1 DEF Promise!GiveUp
    <3>3. S \in SUBSET Sessions
      OBVIOUS
    <3> QED BY <3>2, <3>3 DEF Promise!Next
  <2>5. CASE InitStart
    BY <2>3, <2>5 DEF InitStart, buffers, session
  <2>6. CASE InitCheck \/ ExitStart \/ ExitWake \/ ExitTimeout
    BY <2>3, <2>6 DEF InitCheck, ExitStart, ExitWake, ExitTimeout, buffers, session
  <2>7. CASE WorkerStart \/ WorkerWait \/ WorkerWake \/ WorkerStop
    BY <2>3, <2>7 DEF WorkerStart, WorkerWait, WorkerWake, WorkerStop, buffers, session
  <2>8. CASE WorkerTake \/ WorkerDiscard
    BY <2>2, <2>8, PendingSteps DEF WorkerTake, WorkerDiscard, session
  <2>9. ASSUME NEW error \in {FALSE, SigningMayFail}, WorkerDeliver(error)
        PROVE  UNCHANGED Promise!vars
    <3>1. error \in BOOLEAN
      BY SwitchAssumption
    <3> QED BY <2>2, <2>9, <3>1, PendingSteps DEF WorkerDeliver, session
  <2>10. CASE WorkerFlush \/ WorkerOutOfMemory \/ ExitJoin
    BY <2>4, <2>10, PendingSteps DEF WorkerFlush, WorkerOutOfMemory, ExitJoin, session
  <2>11. ASSUME NEW s \in Sessions,
              SetupSeesThread(s) \/ SetupAssertsList(s) \/ CentralSetupFails(s)
         PROVE  UNCHANGED Promise!vars
    BY <2>3, <2>11 DEF SetupSeesThread, SetupAssertsList, CentralSetupFails, buffers
  <2>12. ASSUME NEW s \in Sessions, NEW h \in Hashes,
                PluginSignOutOfMemory(s, h) \/ PluginSignRefused(s, h)
         PROVE  UNCHANGED Promise!vars
    BY <2>3, <2>12 DEF PluginSignOutOfMemory, PluginSignRefused, buffers, session
  <2>13. ASSUME NEW s \in Sessions, NEW h \in Hashes, answer' = answer,
                Pending(s)' = Append(Pending(s), h),
                \A t \in Sessions : t # s => Pending(t)' = Pending(t)
         PROVE  Promise!Next
    <3>1. pend' = [pend EXCEPT ![s] = Append(pend[s], h)]
      BY <2>1, <2>13
    <3>2. Promise!Accept(s, h)
      BY <2>13, <3>1 DEF Promise!Accept
    <3> QED BY <3>2 DEF Promise!Next
  <2>14. ASSUME NEW s \in Sessions, NEW h \in Hashes, PluginSign(s, h) PROVE Promise!Next
    <3>1. answer' = answer
      BY <2>14 DEF PluginSign, session
    <3>2. \A t \in Sessions : Pending(t)' = IF s = t THEN Append(Pending(t), h) ELSE Pending(t)
      BY <2>14, PendingSteps
    <3> QED BY <2>13, <3>1, <3>2
  <2>15. ASSUME NEW s \in Sessions, GetSignature(s) \/ GetError(s) PROVE Promise!Next
    <3>1. /\ Pending(s) # <<>> /\ Head(Pending(s)) = outBuf[1].hash
          /\ Pending(s)' = Tail(Pending(s))
          /\ \A t \in Sessions : t # s => Pending(t)' = Pending(t)
      BY <2>15, PendingSteps
    <3>2. pend[s] # <<>> /\ Head(pend[s]) = outBuf[1].hash /\ pend' = [pend EXCEPT ![s] = Tail(pend[s])]
      BY <2>1, <3>1
    <3> HIDE DEF pend
    <3>3. CASE GetSignature(s)
      <4>1. answer' = [answer EXCEPT ![s] = Head(pend[s])]
        BY <3>2, <3>3 DEF GetSignature
      <4>2. Promise!Answer(s)
        BY <3>2, <4>1 DEF Promise!Answer, pend
      <4> QED BY <4>2 DEF Promise!Next
    <3>4. CASE GetError(s)
      <4>1. answer' = [answer EXCEPT ![s] = NoAnswer]
        BY <3>4 DEF GetError
      <4>2. Promise!Refuse(s)
        BY <3>2, <4>1 DEF Promise!Refuse, pend
      <4> QED BY <4>2 DEF Promise!Next
    <3> QED BY <2>15, <3>3, <3>4
  <2>16. ASSUME NEW s \in Sessions, GetNothing(s) PROVE Promise!Next
    <3>1. answer' = [answer EXCEPT ![s] = NoAnswer] /\ UNCHANGED <<outBuf, signing, inBuf, handle>>
      BY <2>16 DEF GetNothing, buffers
    <3>2. \A t \in Sessions : Pending(t)' = Pending(t)
      BY <3>1, PendingSteps
    <3>3. pend' = pend
      BY <2>1, <3>2
    <3>4. Promise!NotYet(s)
      BY <3>1, <3>3 DEF Promise!NotYet
    <3> QED BY <3>4 DEF Promise!Next
  <2>17. ASSUME NEW s \in Sessions, CentralTeardown(s) PROVE Promise!Next
    <3>1. answer' = answer
      BY <2>17 DEF CentralTeardown
    <3>2. \A t \in Sessions : Pending(t)' = IF s = t THEN <<>> ELSE Pending(t)
      BY <2>17, PendingSteps
    <3> QED BY <2>4, <3>1, <3>2
  <2>18. ASSUME NEW s \in Sessions, CentralSetup(s)
         PROVE  [Promise!Next]_(Promise!vars)
    <3>1. answer' = answer
      BY <2>18 DEF CentralSetup
    <3>2. \A t \in Sessions : t # s => Pending(t)' = Pending(t)
      BY <2>18, PendingSteps
    <3>3. \/ Pending(s)' = Pending(s)
          \/ /\ signing[1] \in InElements
             /\ Pending(s)' = Append(Pending(s), signing[1].hash)
      BY <2>18, PendingSteps
    <3>4. CASE Pending(s)' = Pending(s)
      BY <2>2, <3>1, <3>2, <3>4
    <3>5. CASE /\ signing[1] \in InElements
               /\ Pending(s)' = Append(Pending(s), signing[1].hash)
      <4>1. signing[1].hash \in Hashes
        BY <3>5, ElementsHaveHashes
      <4> QED BY <2>13, <3>1, <3>2, <3>5, <4>1
    <3> QED BY <3>3, <3>4, <3>5
  <2>19. ASSUME NEW w \in {Worker, Admin}, SpuriousWakeup(w) PROVE UNCHANGED Promise!vars
    BY <2>3, <2>19 DEF SpuriousWakeup, buffers, session
  <2>20. CASE UNCHANGED vars
    BY <2>3, <2>20 DEF vars, buffers, session
  <2> QED
    BY <2>5, <2>6, <2>7, <2>8, <2>9, <2>10, <2>11, <2>12, <2>14, <2>15, <2>16, <2>17, <2>18,
       <2>19, <2>20 DEF Next, AdminStep, WorkerStep, SessionStep
<1> QED BY <1>1, <1>2, HandlesInvariance, PTL DEF Spec, KeepsPromise, Promise!Spec

(* Until the ids wrap around, the last one handed out is the greatest one. *)
IdsInOrder ==
  /\ \A id \in idList : id <= lastAddedId
  /\ signing # <<>> => signing[1].id <= lastAddedId

(* So a new id has never been handed out before.                           *)
LEMMA NewIdsAreNew ==
  ASSUME LastUsedId < MaxId, IInv, IdsInOrder, NEW id \in NewIds
  PROVE  id = lastAddedId + 1
<1>1. lastAddedId \in Nat /\ \A x \in idList : x \in Nat
  BY DEF IInv, TypeOK, Ids, NoId
<1>2. PICK k \in 1..(IF lastAddedId = NoId THEN MaxId ELSE MaxId - 1) :
        /\ id = IdAfter(k)
        /\ lastAddedId < LastUsedId \/ LastUsedId = MaxId
        /\ \A m \in 1..(k - 1) : IdAfter(m) \in idList
  BY DEF NewIds
<1>3. lastAddedId < MaxId
  BY <1>1, <1>2, IdAssumption
<1>4. IdAfter(1) = lastAddedId + 1
  <2>1. lastAddedId % MaxId = lastAddedId
    BY <1>1, <1>3, IdAssumption
  <2>2. lastAddedId + 1 - 1 = lastAddedId
    BY <1>1
  <2> QED BY <2>1, <2>2 DEF IdAfter
<1>5. IdAfter(1) \notin idList
  BY <1>1, <1>4 DEF IdsInOrder
<1>6. k = 1
  <2>1. k \in Nat /\ k >= 1
    BY <1>2, IdAssumption
  <2>2. k # 1 => 1 \in 1..(k - 1)
    BY <2>1
  <2> QED BY <1>2, <1>5, <2>2
<1> QED BY <1>2, <1>4, <1>6

LEMMA StepKeepsIdsInOrder ==
  ASSUME LastUsedId < MaxId, IInv, Handles, IdsInOrder, [Next]_vars
  PROVE  IdsInOrder'
<1>1. /\ lastAddedId \in Nat /\ idList \subseteq Ids
      /\ inBuf \in Seq(InElements) /\ signing \in Seq(InElements)
  BY DEF IInv, TypeOK, Ids, NoId
<1>2. ASSUME lastAddedId' = lastAddedId, idList' \subseteq idList, signing' \in {signing, <<>>}
      PROVE  IdsInOrder'
  BY <1>2 DEF IdsInOrder
<1>3. CASE InitStart \/ InitCheck \/ ExitStart \/ ExitWake \/ ExitTimeout \/ ExitJoin
  BY <1>2, <1>3 DEF InitStart, InitCheck, ExitStart, ExitWake, ExitTimeout, ExitJoin, plugin
<1>4. CASE WorkerStart \/ WorkerWait \/ WorkerWake \/ WorkerStop
  BY <1>2, <1>4 DEF WorkerStart, WorkerWait, WorkerWake, WorkerStop, plugin
<1>5. CASE WorkerDiscard \/ WorkerFlush \/ WorkerOutOfMemory
  BY <1>2, <1>5 DEF WorkerDiscard, WorkerFlush, WorkerOutOfMemory, Signed, plugin
<1>6. ASSUME NEW error, WorkerDeliver(error) PROVE IdsInOrder'
  BY <1>2, <1>6 DEF WorkerDeliver, Signed, plugin
<1>7. CASE WorkerTake
  <2>1. /\ isRunning /\ inBuf # <<>> /\ signing' = <<Head(inBuf)>>
        /\ UNCHANGED <<lastAddedId, idList>>
    BY <1>7 DEF WorkerTake, plugin
  <2>2. 1 \in 1..Len(inBuf) /\ Head(inBuf) = inBuf[1]
    BY <1>1, <2>1
  <2>3. inBuf[1].id \in idList
    BY <2>1, <2>2 DEF Handles
  <2> QED BY <2>1, <2>2, <2>3 DEF IdsInOrder
<1>8. ASSUME NEW s \in Sessions,
             \/ SetupSeesThread(s) \/ SetupAssertsList(s)
             \/ CentralSetupFails(s) \/ CentralTeardown(s)
             \/ GetSignature(s) \/ GetError(s) \/ GetNothing(s)
      PROVE  IdsInOrder'
  BY <1>2, <1>8 DEF SetupSeesThread, SetupAssertsList, CentralSetupFails, CentralTeardown, GetSignature, GetError,
     GetNothing, plugin
<1>9. ASSUME NEW s \in Sessions, NEW h \in Hashes,
             PluginSign(s, h) \/ PluginSignOutOfMemory(s, h) \/ PluginSignRefused(s, h)
      PROVE  IdsInOrder'
  BY <1>2, <1>9 DEF PluginSign, PluginSignOutOfMemory, PluginSignRefused, plugin
<1>10. ASSUME NEW s \in Sessions, CentralSetup(s) PROVE IdsInOrder'
  <2>1. PICK id \in NewIds : lastAddedId' = id /\ idList' \in {idList, idList \cup {id}}
    BY <1>10 DEF CentralSetup
  <2>2. id = lastAddedId + 1
    BY NewIdsAreNew
  <2>3. signing' = signing
    BY <1>10 DEF CentralSetup
  <2>4. \A x \in idList : x \in Nat
    BY <1>1 DEF Ids
  <2>5. signing # <<>> => signing[1].id \in Nat
    <3>1. signing # <<>> => signing[1] \in InElements
      BY <1>1
    <3> QED BY <3>1 DEF InElements, Ids
  <2> QED BY <1>1, <2>1, <2>2, <2>3, <2>4, <2>5 DEF IdsInOrder
<1>11. ASSUME NEW w \in {Worker, Admin}, SpuriousWakeup(w) PROVE IdsInOrder'
  BY <1>2, <1>11 DEF SpuriousWakeup, plugin
<1>12. CASE UNCHANGED vars
  BY <1>2, <1>12 DEF vars, plugin
<1> QED
  BY <1>3, <1>4, <1>5, <1>6, <1>7, <1>8, <1>9, <1>10, <1>11, <1>12
     DEF Next, AdminStep, WorkerStep, SessionStep

(* Without a new id, only sign_hash() makes a session wait for more.       *)
LEMMA GrowsBySigning ==
  ASSUME IInv, Handles, NEW s \in Sessions, [Next]_vars,
         ~CentralSetup(s) \/ (LastUsedId < MaxId /\ IdsInOrder),
         Len(Pending(s)') > Len(Pending(s))
  PROVE  \E h \in Hashes : PluginSign(s, h)
<1>1. Pending(s) \in Seq(Hashes) /\ Len(Pending(s)) \in Nat /\ Len(<<>>) = 0
  <2>1. Pending(s) \in Seq(Hashes)
    BY PendingSteps
  <2> QED BY <2>1
<1>2. Pending(s)' # Pending(s) /\ Pending(s)' # <<>>
  BY <1>1
<1>3. Pending(s) # <<>> => Pending(s)' # Tail(Pending(s))
  <2>1. Pending(s) # <<>> => Len(Tail(Pending(s))) = Len(Pending(s)) - 1
    BY <1>1
  <2> QED BY <2>1, <1>1
<1>4. ~(UNCHANGED <<outBuf, signing, inBuf, handle>>)
  BY <1>2, PendingSteps
<1>5. ~(InitStart \/ InitCheck \/ ExitStart \/ ExitWake \/ ExitTimeout)
  BY <1>4 DEF InitStart, InitCheck, ExitStart, ExitWake, ExitTimeout, buffers, session
<1>6. ~(WorkerStart \/ WorkerWait \/ WorkerWake \/ WorkerStop)
  BY <1>4 DEF WorkerStart, WorkerWait, WorkerWake, WorkerStop, buffers, session
<1>7. ~(WorkerTake \/ WorkerDiscard \/ WorkerFlush \/ WorkerOutOfMemory \/ ExitJoin)
  BY <1>2, PendingSteps
<1>8. ASSUME NEW error \in {FALSE, SigningMayFail} PROVE ~WorkerDeliver(error)
  <2>1. error \in BOOLEAN
    BY SwitchAssumption
  <2> QED BY <2>1, <1>2, PendingSteps
<1>9. ASSUME NEW t \in Sessions
      PROVE  ~(\/ SetupSeesThread(t) \/ SetupAssertsList(t)
               \/ CentralSetupFails(t) \/ GetNothing(t))
  BY <1>4 DEF SetupSeesThread, SetupAssertsList, CentralSetupFails, GetNothing, buffers, session
<1>10. ASSUME NEW t \in Sessions, NEW h \in Hashes
       PROVE  ~(PluginSignOutOfMemory(t, h) \/ PluginSignRefused(t, h))
  BY <1>4 DEF PluginSignOutOfMemory, PluginSignRefused, buffers, session
<1>11. ASSUME NEW t \in Sessions PROVE ~(GetSignature(t) \/ GetError(t))
  BY <1>2, <1>3, PendingSteps
<1>12. ASSUME NEW t \in Sessions PROVE ~CentralTeardown(t)
  BY <1>2, PendingSteps
<1>13. ASSUME NEW t \in Sessions PROVE ~CentralSetup(t)
  <2> SUFFICES ASSUME CentralSetup(t) PROVE FALSE
    OBVIOUS
  <2>1. s = t /\ signing # <<>> /\ signing[1] \in InElements /\ signing[1].id \in NewIds
    BY <1>2, PendingSteps
  <2>2. LastUsedId < MaxId /\ IdsInOrder
    BY <2>1
  <2>3. signing[1].id = lastAddedId + 1
    BY <2>1, <2>2, NewIdsAreNew
  <2>4. signing[1].id <= lastAddedId /\ lastAddedId \in Nat
    BY <2>1, <2>2 DEF IdsInOrder, IInv, TypeOK, Ids, NoId
  <2> QED BY <2>3, <2>4
<1>14. ASSUME NEW w \in {Worker, Admin} PROVE ~SpuriousWakeup(w)
  BY <1>4 DEF SpuriousWakeup, buffers, session
<1>15. ~(UNCHANGED vars)
  BY <1>4 DEF vars, buffers, session
<1>16. PICK t \in Sessions, h \in Hashes : PluginSign(t, h)
  BY <1>5, <1>6, <1>7, <1>8, <1>9, <1>10, <1>11, <1>12, <1>13, <1>14, <1>15
     DEF Next, AdminStep, WorkerStep, SessionStep
<1>17. t = s
  BY <1>2, <1>16, PendingSteps
<1> QED BY <1>16, <1>17

(* As long as the ids have not wrapped around, a session never waits for,  *)
(* and so never gets the signature of, a hash that another session handed  *)
(* over, although a closed session's hash may still be being signed when   *)
(* the next session is opened.                                             *)
THEOREM EverySessionWaitsForItsOwn ==
  ~ExitMayOvertake /\ LastUsedId < MaxId /\ Spec => WaitsForItsOwn
<1> SUFFICES ASSUME ~ExitMayOvertake, LastUsedId < MaxId PROVE Spec => WaitsForItsOwn
  OBVIOUS
<1>1. Init => IdsInOrder
  BY DEF Init, IdsInOrder
<1>2. IInv /\ Handles /\ IdsInOrder /\ [Next]_vars => IdsInOrder'
  BY StepKeepsIdsInOrder
<1>3. IInv /\ Handles /\ IdsInOrder /\ [Next]_vars =>
        [\A s \in Sessions :
           Len(Pending(s)') > Len(Pending(s)) => \E h \in Hashes : PluginSign(s, h)]_vars
  BY GrowsBySigning
<1> QED BY <1>1, <1>2, <1>3, HandlesInvariance, PTL DEF Spec, WaitsForItsOwn

-----------------------------------------------------------------------------
(* The SEIs that wait in the library.                                      *)

SeiElements == [hash : Hashes, signature : Hashes \cup {Incomplete, Unsigned}]

(* The SEIs of sei_data_buffer[] b as elements of a buffer: the incomplete *)
(* ones are those that belong to Incomplete.                               *)
Sei(e) == [id |-> e.signature, hash |-> e.hash]
SeiRecords == {Sei(e) : e \in SeiElements}
Seis(b) == [i \in 1..Len(b) |-> Sei(b[i])]

(* The hashes of the incomplete SEIs of b, oldest first. *)
WaitingIn(b) == HashesOf(Seis(b), Incomplete)

IncompleteIn(b) == {i \in DOMAIN b : b[i].signature = Incomplete}

SeiTypeOK ==
  /\ seiBuf \in [Sessions -> Seq(SeiElements)]
  /\ generated \in [Sessions -> 0..MaxSei]
  /\ polling \in [Sessions -> BOOLEAN]
  /\ lost \subseteq Sessions

(* The plugin owes s what s waits for. *)
Owes(s) ==
  /\ Len(Pending(s)) <= Len(WaitingIn(seiBuf[s]))
  /\ s \notin lost => Pending(s) = WaitingIn(seiBuf[s])

(* The SEIs of b have their own signature or none. *)
Matching(b) ==
  \A i \in DOMAIN b : b[i].signature \in {Incomplete, Unsigned, b[i].hash}

SessionInv(s) ==
  /\ Owes(s)
  /\ s \notin lost => Matching(seiBuf[s])

SeiInv == SeiTypeOK /\ \A s \in Sessions : SessionInv(s)

-----------------------------------------------------------------------------
(* The SEIs as buffer elements.                                            *)

LEMMA SeisType ==
  ASSUME NEW b \in Seq(SeiElements)
  PROVE  /\ Seis(b) \in Seq(SeiRecords)
         /\ Len(Seis(b)) = Len(b)
         /\ \A i \in 1..Len(b) : /\ Seis(b)[i].id = b[i].signature
                                 /\ Seis(b)[i].hash = b[i].hash
<1>1. Len(b) \in Nat /\ \A i \in 1..Len(b) : b[i] \in SeiElements
  OBVIOUS
<1>2. \A i \in 1..Len(b) : Sei(b[i]) \in SeiRecords
  BY <1>1 DEF SeiRecords
<1>3. Seis(b) \in Seq(SeiRecords) /\ Len(Seis(b)) = Len(b)
  BY <1>1, <1>2 DEF Seis
<1>4. \A i \in 1..Len(b) : Seis(b)[i] = Sei(b[i])
  BY DEF Seis
<1>5. \A i \in 1..Len(b) : /\ Sei(b[i]).id = b[i].signature
                           /\ Sei(b[i]).hash = b[i].hash
  BY DEF Sei
<1> QED BY <1>3, <1>4, <1>5

LEMMA SeiHashes ==
  \A x \in SeiRecords : x.hash \in Hashes
<1>1. \A e \in SeiElements : Sei(e).hash = e.hash /\ e.hash \in Hashes
  BY DEF Sei, SeiElements
<1> QED BY <1>1 DEF SeiRecords

(* There are as many waiting hashes as incomplete SEIs. *)
LEMMA WaitingType ==
  ASSUME NEW b \in Seq(SeiElements)
  PROVE  /\ WaitingIn(b) \in Seq(Hashes)
         /\ Owned(Seis(b), Incomplete) = IncompleteIn(b)
         /\ Len(WaitingIn(b)) = Cardinality(IncompleteIn(b))
<1>1. /\ Seis(b) \in Seq(SeiRecords)
      /\ Len(Seis(b)) = Len(b)
      /\ \A i \in 1..Len(b) : Seis(b)[i].id = b[i].signature
  BY SeisType
<1>2. DOMAIN Seis(b) = 1..Len(b) /\ DOMAIN b = 1..Len(b)
  BY DEF Seis
<1>3. Owned(Seis(b), Incomplete) = IncompleteIn(b)
  BY <1>1, <1>2 DEF Owned, IncompleteIn
<1>4. /\ WaitingIn(b) \in Seq(Hashes)
      /\ Len(WaitingIn(b)) = Cardinality(Owned(Seis(b), Incomplete))
  <2>1. Seis(b) \in Seq(SeiRecords)
    BY <1>1
  <2>2. /\ HashesOf(Seis(b), Incomplete) \in Seq(Hashes)
        /\ Len(HashesOf(Seis(b), Incomplete)) = Cardinality(Owned(Seis(b), Incomplete))
    BY <2>1, SeiHashes, HashesOfType, ZenonT(30)
  <2> QED BY <2>2 DEF WaitingIn
<1> QED BY <1>3, <1>4

(* add_sei_to_buffer() *)
LEMMA WaitingAppended ==
  ASSUME NEW b \in Seq(SeiElements), NEW e \in SeiElements
  PROVE  /\ e.signature = Incomplete => WaitingIn(Append(b, e)) = Append(WaitingIn(b), e.hash)
         /\ e.signature # Incomplete => WaitingIn(Append(b, e)) = WaitingIn(b)
<1>1. /\ Len(b) \in Nat /\ Append(b, e) \in Seq(SeiElements) /\ Len(Append(b, e)) = Len(b) + 1
      /\ \A i \in 1..Len(b) : Append(b, e)[i] = b[i]
      /\ Append(b, e)[Len(b) + 1] = e
  OBVIOUS
<1>2. Seis(b) \in Seq(SeiRecords) /\ Len(Seis(b)) = Len(b)
  BY SeisType
<1>3. Seis(Append(b, e)) = Append(Seis(b), Sei(e))
  <2>1. \A i \in 1..(Len(b) + 1) : Sei(Append(b, e)[i]) = Append(Seis(b), Sei(e))[i]
    <3>1. \A i \in 1..Len(b) : Append(Seis(b), Sei(e))[i] = Seis(b)[i]
      BY <1>2
    <3>2. \A i \in 1..Len(b) : Seis(b)[i] = Sei(b[i])
      BY DEF Seis
    <3>3. Append(Seis(b), Sei(e))[Len(b) + 1] = Sei(e)
      BY <1>2
    <3>4. \A i \in 1..(Len(b) + 1) : i \in 1..Len(b) \/ i = Len(b) + 1
      BY <1>1
    <3> QED BY <3>1, <3>2, <3>3, <3>4, <1>1
  <2>2. Append(Seis(b), Sei(e)) = [i \in 1..(Len(b) + 1) |-> Append(Seis(b), Sei(e))[i]]
    <3>1. Append(Seis(b), Sei(e)) \in Seq(SeiRecords) /\ Len(Append(Seis(b), Sei(e))) = Len(b) + 1
      <4>1. Sei(e) \in SeiRecords
        BY DEF SeiRecords
      <4> QED BY <4>1, <1>2
    <3>2. \A t \in Seq(SeiRecords) : t = [k \in 1..Len(t) |-> t[k]]
      OBVIOUS
    <3> QED BY <3>1, <3>2
  <2> QED BY <2>1, <2>2, <1>1 DEF Seis
<1>4. Sei(e) \in SeiRecords /\ Sei(e).id = e.signature /\ Sei(e).hash = e.hash
  BY DEF Sei, SeiRecords
<1> QED BY <1>2, <1>3, <1>4, HashesOfAppended DEF WaitingIn

(* The first SEI is handed to the user. *)
LEMMA WaitingTail ==
  ASSUME NEW b \in Seq(SeiElements), b # <<>>, Head(b).signature # Incomplete
  PROVE  WaitingIn(Tail(b)) = WaitingIn(b)
<1>1. /\ Len(b) \in Nat /\ Len(b) > 0 /\ Tail(b) \in Seq(SeiElements)
      /\ Len(Tail(b)) = Len(b) - 1
      /\ \A i \in 1..(Len(b) - 1) : Tail(b)[i] = b[i + 1]
      /\ Head(b) = b[1]
  OBVIOUS
<1>2. Seis(b) \in Seq(SeiRecords) /\ Len(Seis(b)) = Len(b) /\ Seis(b) # <<>>
  <2>1. Seis(b) \in Seq(SeiRecords) /\ Len(Seis(b)) = Len(b)
    BY SeisType
  <2> QED BY <2>1, <1>1
<1>3. Tail(Seis(b)) = Seis(Tail(b))
  <2>1. Tail(Seis(b)) \in Seq(SeiRecords) /\ Len(Tail(Seis(b))) = Len(b) - 1
        /\ \A i \in 1..(Len(b) - 1) : Tail(Seis(b))[i] = Seis(b)[i + 1]
    BY <1>2
  <2>2. Seis(Tail(b)) \in Seq(SeiRecords) /\ Len(Seis(Tail(b))) = Len(b) - 1
    BY <1>1, SeisType
  <2>3. \A i \in 1..(Len(b) - 1) : Seis(Tail(b))[i] = Tail(Seis(b))[i]
    <3>1. \A i \in 1..(Len(b) - 1) : Seis(Tail(b))[i] = Sei(b[i + 1])
      BY <1>1 DEF Seis
    <3>2. \A i \in 1..(Len(b) - 1) : Seis(b)[i + 1] = Sei(b[i + 1])
      BY <1>1 DEF Seis
    <3> QED BY <2>1, <3>1, <3>2
  <2> QED BY <2>1, <2>2, <2>3, SeqEqual
<1>4. Seis(b)[1].id # Incomplete
  <2>1. 1 \in 1..Len(b)
    BY <1>1
  <2> QED BY <2>1, <1>1, SeisType
<1> QED BY <1>2, <1>3, <1>4, HashesOfTail DEF WaitingIn

(* complete_sei() *)
LEMMA WaitingCompleted ==
  ASSUME NEW b \in Seq(SeiElements), IncompleteIn(b) # {},
         NEW h \in Hashes,
         NEW i \in IncompleteIn(b), \A j \in IncompleteIn(b) : i <= j
  PROVE  /\ WaitingIn(b) # <<>>
         /\ Head(WaitingIn(b)) = b[i].hash
         /\ WaitingIn([b EXCEPT ![i].signature = h]) = Tail(WaitingIn(b))
<1> DEFINE S == Owned(Seis(b), Incomplete)
           c == [b EXCEPT ![i].signature = h]
           e == [hash |-> b[i].hash, signature |-> h]
<1>1. /\ Len(b) \in Nat /\ i \in 1..Len(b) /\ DOMAIN b = 1..Len(b)
      /\ b[i] \in SeiElements
  BY DEF IncompleteIn
<1>2. S = IncompleteIn(b) /\ S # {}
  BY WaitingType
<1>3. Seis(b) \in Seq(SeiRecords) /\ Len(Seis(b)) = Len(b) /\ Seis(b)[i].hash = b[i].hash
  BY <1>1, SeisType
<1>4. e \in SeiElements /\ Sei(e) \in SeiRecords /\ Sei(e).id = h /\ h # Incomplete
  BY <1>1, SeiHashAssumption DEF SeiElements, Sei, SeiRecords
<1>5. LET k == Nth(S, 1)
      IN  /\ k \in S
          /\ \A x \in S : k <= x
          /\ WaitingIn(b) # <<>>
          /\ Head(WaitingIn(b)) = Seis(b)[k].hash
          /\ HashesOf([Seis(b) EXCEPT ![k] = Sei(e)], Incomplete) = Tail(WaitingIn(b))
  <2> HIDE DEF e
  <2> QED BY <1>2, <1>3, <1>4, HashesOfReplaced DEF WaitingIn
<1>6. Nth(S, 1) = i
  <2>1. Nth(S, 1) \in S /\ Nth(S, 1) <= i /\ i <= Nth(S, 1)
    BY <1>2, <1>5
  <2>2. \A x \in S : x \in Nat
    BY <1>1, <1>2 DEF IncompleteIn
  <2> QED BY <2>1, <2>2, <1>2
<1>7. Seis(c) = [Seis(b) EXCEPT ![i] = Sei(e)]
  <2>1. Len(c) = Len(b) /\ \A k \in 1..Len(b) : c[k] = IF k = i THEN e ELSE b[k]
    <3>1. [b[i] EXCEPT !.signature = h] = e
      BY <1>1 DEF SeiElements
    <3>2. c = [b EXCEPT ![i] = e]
      BY <3>1, <1>1
    <3> HIDE DEF e, c
    <3> QED BY <3>2, <1>1
  <2>2. Seis(c) = [k \in 1..Len(b) |-> Sei(c[k])] /\ Seis(b) = [k \in 1..Len(b) |-> Sei(b[k])]
    BY <2>1 DEF Seis
  <2> HIDE DEF e, c
  <2> QED BY <2>1, <2>2
<1> HIDE DEF S, c, e
<1> QED BY <1>3, <1>5, <1>6, <1>7 DEF WaitingIn, c

-----------------------------------------------------------------------------
(* Every step of SeiSigning is a step of the plugin. *)

(* The sessions start set up, with ids 1, 2, ...                           *)
LEMMA SeiInitIsReached == SeiInit => IInv /\ Handles
<1> SUFFICES ASSUME SeiInit PROVE IInv /\ Handles
  OBVIOUS
<1> DEFINE n == Cardinality(Sessions)
<1>1. n \in Nat /\ n <= MaxId /\ MaxId \in Nat /\ MAX_BUFFER_LENGTH \in Nat
  BY FS_CardinalityType, SeiSessionAssumption, IdAssumption, BufferAssumption
<1>2. handle \in [Sessions -> 1..n] /\ idList = 1..n /\ lastAddedId = n
  BY DEF SeiInit
<1> HIDE DEF n
<1>3. 1..n \subseteq Ids /\ n \in Ids \cup {NoId}
  BY <1>1 DEF Ids, NoId
<1>4. TypeOK
  <2>1. /\ thread \in BOOLEAN /\ hasList \in BOOLEAN
        /\ isRunning \in BOOLEAN /\ signData \in BOOLEAN
    BY Zenon DEF SeiInit
  <2>2. inBuf = <<>> /\ outBuf = <<>> /\ signing = <<>> /\ hashSize \in Nat
    BY DEF SeiInit, NotAllocated
  <2>3. /\ inBuf \in Seq(InElements) /\ Len(inBuf) = 0
        /\ outBuf \in Seq(OutElements) /\ Len(outBuf) = 0
        /\ signing \in Seq(InElements) /\ Len(signing) = 0
    BY <2>2
  <2>4. inFree \in Seq(Nat) /\ Len(inFree) = MAX_BUFFER_LENGTH
    BY <1>1 DEF SeiInit, NotAllocated
  <2>5. Len(inBuf) + Len(inFree) = MAX_BUFFER_LENGTH /\ Len(outBuf) <= MAX_BUFFER_LENGTH
    BY <2>3, <2>4, <1>1
  <2>6. handle \in [Sessions -> Ids \cup {NoId}]
    BY <1>2, <1>3
  <2>7. spc \in [Sessions -> {"idle", "seen", "asserted"}] /\ answer \in [Sessions -> Hashes \cup {NoAnswer}]
    BY DEF SeiInit
  <2>8. waiters \subseteq {Worker, Admin} /\ wpc = "wait" /\ apc = "idle"
    BY DEF SeiInit
  <2>9. idList \subseteq Ids /\ lastAddedId \in Ids \cup {NoId}
    BY <1>2, <1>3
  <2>10. Len(signing) <= 1
    BY <2>3
  <2> QED BY <2>1, <2>2, <2>3, <2>4, <2>5, <2>6, <2>7, <2>8, <2>9, <2>10 DEF TypeOK
<1>5. Phases /\ Waiters
  <2>1. Worker # Admin
    BY DEF Worker, Admin
  <2> QED BY <2>1 DEF SeiInit, Phases, Waiters
<1>6. Len(inBuf) = 0 /\ Len(outBuf) = 0
  BY DEF SeiInit
<1>7. OutputIsClaimable
  BY <1>6 DEF OutputIsClaimable
<1>8. Handles
  <2>1. \A s \in Sessions : handle[s] \in idList
    BY <1>2
  <2>2. \A s, t \in Sessions : handle[s] = handle[t] => s = t
    BY DEF SeiInit
  <2>3. HandlesAreActive
    BY <2>1, <2>2 DEF HandlesAreActive
  <2>4. thread /\ \A s \in Sessions : spc[s] = "idle"
    BY DEF SeiInit
  <2>5. \A i \in 1..Len(inBuf) : inBuf[i].id \in idList
    BY <1>6
  <2> QED BY <2>3, <2>4, <2>5 DEF Handles
<1> QED BY <1>4, <1>5, <1>7, <1>8 DEF IInv

(* The next SEI has a hash. *)
LEMMA NextHashIsHash ==
  ASSUME SeiTypeOK, NEW s \in Sessions, generated[s] < MaxSei
  PROVE  NextHash(s) \in Hashes
<1>1. generated[s] \in 0..MaxSei /\ MaxSei \in Nat
  BY SeiAssumption DEF SeiTypeOK
<1>2. generated[s] + 1 \in 1..MaxSei
  BY <1>1
<1> QED BY <1>2, SeiHashAssumption DEF NextHash

LEMMA SeiStepIsStep ==
  ASSUME SeiTypeOK, IInv, [SeiNext]_allVars
  PROVE  [Next]_vars /\ ~ExitStart
<1>1. CASE UNCHANGED allVars
  BY <1>1 DEF allVars, vars, plugin, ExitStart
<1>2. ASSUME NEW s \in Sessions, GenerateSei(s) \/ GenerateRefused(s) \/ GenerateUnsigned(s)
      PROVE  [Next]_vars /\ ~ExitStart
  <2>1. NextHash(s) \in Hashes
    BY <1>2, NextHashIsHash DEF GenerateSei, GenerateRefused, GenerateUnsigned, MayGenerate
  <2>2. \/ UNCHANGED vars
        \/ \E h \in Hashes :
             PluginSign(s, h) \/ PluginSignOutOfMemory(s, h) \/ PluginSignRefused(s, h)
    BY <1>2, <2>1 DEF GenerateSei, GenerateRefused, GenerateUnsigned
  <2>3. thread' = thread
    BY <2>2 DEF PluginSign, PluginSignOutOfMemory, PluginSignRefused, vars, plugin
  <2> QED BY <2>2, <2>3 DEF Next, SessionStep, ExitStart
<1>3. ASSUME NEW s \in Sessions, GetSignature(s) \/ GetError(s) \/ GetNothing(s) \/ CentralTeardown(s)
      PROVE  [Next]_vars /\ ~ExitStart
  <2>1. thread' = thread
    BY <1>3 DEF GetSignature, GetError, GetNothing, CentralTeardown, plugin
  <2> QED BY <1>3, <2>1 DEF Next, SessionStep, ExitStart
<1>4. ASSUME WorkerStep PROVE [Next]_vars /\ ~ExitStart
  <2>1. thread' = thread
    BY <1>4 DEF WorkerStep, WorkerStart, WorkerTake, WorkerWait, WorkerWake, WorkerDiscard,
       WorkerFlush, WorkerOutOfMemory, WorkerStop, WorkerDeliver, plugin
  <2> QED BY <1>4, <2>1 DEF Next, ExitStart
<1> QED BY <1>1, <1>2, <1>3, <1>4 DEF SeiNext, PollSignature, PollDone, FreeSession, PluginStep

-----------------------------------------------------------------------------
(* Every step keeps SeiInv.                                                *)

(* The position that complete_sei() finds. *)
LEMMA OldestIsIncomplete ==
  ASSUME SeiTypeOK, NEW s \in Sessions, IncompleteSeis(s) # {}
  PROVE  /\ OldestIncomplete(s) \in IncompleteSeis(s)
         /\ \A j \in IncompleteSeis(s) : OldestIncomplete(s) <= j
<1>1. seiBuf[s] \in Seq(SeiElements)
  BY DEF SeiTypeOK
<1>2. IncompleteSeis(s) \in SUBSET (1..Len(seiBuf[s])) /\ Len(seiBuf[s]) \in Nat
  BY <1>1 DEF IncompleteSeis
<1>3. Nth(IncompleteSeis(s), 1) \in IncompleteSeis(s)
      /\ \A j \in IncompleteSeis(s) : Nth(IncompleteSeis(s), 1) <= j
  BY <1>2, NthOfRest
<1> QED BY <1>3 DEF OldestIncomplete

(* complete_sei() finds one, and the oldest hash that the plugin owes is the*)
(* one it gives.                                                           *)
LEMMA PollFindsSei ==
  ASSUME IInv, Handles, SeiInv, NEW s \in Sessions, PollSignature(s)
  PROVE  /\ IncompleteSeis(s) # {}
         /\ outBuf[1].hash \in Hashes
         /\ Pending(s) # <<>> /\ Head(Pending(s)) = outBuf[1].hash
         /\ Pending(s)' = Tail(Pending(s))
         /\ \A t \in Sessions \ {s} : Pending(t)' = Pending(t)
<1>1. GetSignature(s)
  BY DEF PollSignature
<1>2. /\ Pending(s) # <<>> /\ Head(Pending(s)) = outBuf[1].hash
      /\ Pending(s)' = Tail(Pending(s))
      /\ Pending(s) \in Seq(Hashes)
  BY <1>1, PendingSteps
<1>3. \A t \in Sessions \ {s} : Pending(t)' = Pending(t)
  BY <1>1, PendingSteps
<1>4. outBuf[1].hash \in Hashes
  BY <1>2
<1>5. seiBuf[s] \in Seq(SeiElements) /\ Len(Pending(s)) <= Len(WaitingIn(seiBuf[s]))
  BY DEF SeiInv, SeiTypeOK, SessionInv, Owes
<1>6. Len(WaitingIn(seiBuf[s])) = Cardinality(IncompleteSeis(s))
  BY <1>5, WaitingType DEF IncompleteSeis, IncompleteIn
<1>7. Len(Pending(s)) \in Nat /\ Len(Pending(s)) # 0
  BY <1>2
<1>8. IncompleteSeis(s) # {}
  <2>1. Cardinality({}) = 0
    BY FS_EmptySet
  <2>2. Cardinality(IncompleteSeis(s)) # 0
    BY <1>5, <1>6, <1>7
  <2> QED BY <2>1, <2>2
<1> QED BY <1>2, <1>3, <1>4, <1>8

LEMMA StepKeepsSeiTypes ==
  ASSUME IInv, Handles, SeiInv, SeiNext
  PROVE  SeiTypeOK'
<1>1. /\ seiBuf \in [Sessions -> Seq(SeiElements)]
      /\ generated \in [Sessions -> 0..MaxSei]
      /\ polling \in [Sessions -> BOOLEAN]
      /\ lost \subseteq Sessions
      /\ outBuf \in Seq(OutElements)
  BY DEF SeiInv, SeiTypeOK, IInv, TypeOK
<1>2. lost' \subseteq Sessions
  BY <1>1 DEF SeiNext, PluginStep, NoteLost
<1>3. generated' \in [Sessions -> 0..MaxSei]
  <2>1. ASSUME NEW s \in Sessions, MayGenerate(s) PROVE generated' \in [Sessions -> 0..MaxSei]
    <3>1. generated[s] \in 0..MaxSei /\ generated[s] < MaxSei /\ MaxSei \in Nat
      BY <1>1, <2>1, SeiAssumption DEF MayGenerate
    <3>2. generated[s] + 1 \in 0..MaxSei
      BY <3>1
    <3> QED BY <1>1, <2>1, <3>2 DEF MayGenerate
  <2> QED BY <1>1, <2>1 DEF SeiNext, GenerateSei, GenerateRefused, GenerateUnsigned,
       PollSignature, PollDone, FreeSession, PluginStep, seiVars
<1>4. polling' \in [Sessions -> BOOLEAN]
  <2>1. \/ polling' = polling
        \/ \E s \in Sessions : polling' = [polling EXCEPT ![s] = TRUE]
        \/ \E s \in Sessions : polling' = [polling EXCEPT ![s] = FALSE]
    BY DEF SeiNext, GenerateSei, GenerateRefused, GenerateUnsigned, MayGenerate,
       PollSignature, PollDone, FreeSession, PluginStep, seiVars
  <2> QED BY <1>1, <2>1, Zenon
<1>5. seiBuf' \in [Sessions -> Seq(SeiElements)]
  <2>1. ASSUME NEW s \in Sessions, NEW b \in Seq(SeiElements),
               seiBuf' = [seiBuf EXCEPT ![s] = b]
        PROVE  seiBuf' \in [Sessions -> Seq(SeiElements)]
    BY <1>1, <2>1
  <2>2. ASSUME NEW s \in Sessions, GenerateSei(s) \/ GenerateUnsigned(s)
        PROVE  seiBuf' \in [Sessions -> Seq(SeiElements)]
    <3>1. PICK g \in {Incomplete, Unsigned} : AddSei(s, g)
      BY <2>2 DEF GenerateSei, GenerateUnsigned
    <3>2. NextHash(s) \in Hashes
      BY <2>2, NextHashIsHash DEF SeiInv, GenerateSei, GenerateUnsigned, MayGenerate
    <3>3. [hash |-> NextHash(s), signature |-> g] \in SeiElements
      BY <3>2 DEF SeiElements
    <3>4. Append(seiBuf[s], [hash |-> NextHash(s), signature |-> g]) \in Seq(SeiElements)
      BY <3>3, <1>1
    <3> QED BY <2>1, <3>1, <3>4 DEF AddSei
  <2>3. ASSUME NEW s \in Sessions, PollSignature(s)
        PROVE  seiBuf' \in [Sessions -> Seq(SeiElements)]
    <3> DEFINE i == OldestIncomplete(s)
               b == [seiBuf[s] EXCEPT ![i].signature = outBuf[1].hash]
    <3>1. outBuf[1].hash \in Hashes
      BY <2>3, PollFindsSei
    <3>2. b \in Seq(SeiElements)
      <4>1. seiBuf[s] \in Seq(SeiElements) /\ IncompleteSeis(s) # {}
        BY <1>1, <2>3, PollFindsSei
      <4>2. i \in DOMAIN seiBuf[s]
        BY <4>1, OldestIsIncomplete DEF SeiInv, IncompleteSeis
      <4>3. seiBuf[s][i] \in SeiElements
        BY <4>1, <4>2
      <4>4. [seiBuf[s][i] EXCEPT !.signature = outBuf[1].hash] \in SeiElements
        BY <4>3, <3>1 DEF SeiElements
      <4> HIDE DEF i
      <4> QED BY <4>1, <4>2, <4>4
    <3>3. seiBuf' = [seiBuf EXCEPT ![s] = b]
      BY <2>3, <1>1 DEF PollSignature
    <3> HIDE DEF b
    <3> QED BY <2>1, <3>2, <3>3
  <2>4. ASSUME NEW s \in Sessions, NEW peeked \in BOOLEAN, PollDone(s, peeked)
        PROVE  seiBuf' \in [Sessions -> Seq(SeiElements)]
    <3> DEFINE b == seiBuf[s]
    <3>1. b \in Seq(SeiElements) /\ (b # <<>> => Tail(b) \in Seq(SeiElements))
      BY <1>1
    <3> HIDE DEF b
    <3>2. PICK c \in {b, Tail(b)} : c \in Seq(SeiElements) /\ seiBuf' = [seiBuf EXCEPT ![s] = c]
      BY <2>4, <3>1 DEF PollDone, b
    <3> QED BY <2>1, <3>2
  <2>5. ASSUME NEW s \in Sessions, FreeSession(s)
        PROVE  seiBuf' \in [Sessions -> Seq(SeiElements)]
    <3>1. <<>> \in Seq(SeiElements) /\ seiBuf' = [seiBuf EXCEPT ![s] = <<>>]
      BY <2>5 DEF FreeSession
    <3> QED BY <2>1, <3>1
  <2>6. CASE UNCHANGED seiBuf
    BY <1>1, <2>6
  <2> QED BY <2>2, <2>3, <2>4, <2>5, <2>6 DEF SeiNext, GenerateRefused, PluginStep, seiVars
<1> QED BY <1>2, <1>3, <1>4, <1>5 DEF SeiTypeOK

(* A session that is not touched, or that the plugin has let down.         *)
LEMMA SessionUntouched ==
  ASSUME SeiInv, NEW s \in Sessions, seiBuf'[s] = seiBuf[s], lost \subseteq lost',
         \/ Pending(s)' = Pending(s)
         \/ s \in lost' /\ Pending(s)' = <<>>
  PROVE  SessionInv(s)'
<1>1. seiBuf[s] \in Seq(SeiElements) /\ SessionInv(s)
  BY DEF SeiInv, SeiTypeOK
<1>2. WaitingIn(seiBuf[s])' = WaitingIn(seiBuf[s]) /\ Matching(seiBuf[s])' = Matching(seiBuf[s])
  BY DEF WaitingIn, Seis, Matching
<1>3. WaitingIn(seiBuf[s]) \in Seq(Hashes)
  BY <1>1, WaitingType
<1>4. Len(<<>>) = 0 /\ 0 <= Len(WaitingIn(seiBuf[s]))
  BY <1>3
<1> QED BY <1>1, <1>2, <1>4 DEF SessionInv, Owes

(* NoteLost notes a session whose hashes are gone. *)
LEMMA LossIsNoted ==
  ASSUME IInv, Handles, NEW s \in Sessions, NoteLost, Pending(s)' = <<>>
  PROVE  Pending(s)' = Pending(s) \/ s \in lost'
<1>1. Pending(s) \in Seq(Hashes)
  BY PendingSteps
<1>2. Pending(s) # <<>> => Len(Pending(s)) > 0
  BY <1>1
<1>3. Len(<<>>) = 0
  OBVIOUS
<1> QED BY <1>2, <1>3 DEF NoteLost

LEMMA MatchingAppended ==
  ASSUME NEW b \in Seq(SeiElements), NEW e \in SeiElements,
         e.signature \in {Incomplete, Unsigned}, Matching(b)
  PROVE  Matching(Append(b, e))
<1> DEFINE c == Append(b, e)
<1>1. /\ DOMAIN c = 1..(Len(b) + 1) /\ DOMAIN b = 1..Len(b) /\ Len(b) \in Nat
      /\ c[Len(b) + 1] = e
      /\ \A i \in 1..Len(b) : c[i] = b[i]
  OBVIOUS
<1>2. \A i \in 1..(Len(b) + 1) : i \in 1..Len(b) \/ i = Len(b) + 1
  BY <1>1
<1> HIDE DEF c
<1>3. Matching(c)
  BY <1>1, <1>2 DEF Matching
<1> QED BY <1>3 DEF c

(* A SEI is generated and the plugin takes its hash. *)
LEMMA GenerateKeepsSession ==
  ASSUME IInv, Handles, SeiInv, NEW s \in Sessions, GenerateSei(s), UNCHANGED lost
  PROVE  SessionInv(s)'
<1> DEFINE b == seiBuf[s]
           h == NextHash(s)
           e == [hash |-> h, signature |-> Incomplete]
<1>1. /\ h \in Hashes /\ e \in SeiElements /\ b \in Seq(SeiElements)
      /\ e.hash = h /\ e.signature = Incomplete
  BY NextHashIsHash DEF GenerateSei, MayGenerate, SeiInv, SeiTypeOK, SeiElements
<1>2. seiBuf'[s] = Append(b, e)
  BY DEF GenerateSei, AddSei, SeiInv, SeiTypeOK
<1>3. Pending(s)' = Append(Pending(s), h) /\ Pending(s) \in Seq(Hashes)
  <2>1. \A t \in Sessions, g \in Hashes : PluginSign(t, g) =>
           Pending(s)' = IF t = s THEN Append(Pending(s), g) ELSE Pending(s)
    BY PendingSteps
  <2>2. Pending(s) \in Seq(Hashes)
    BY PendingSteps
  <2>3. PluginSign(s, h)
    BY DEF GenerateSei
  <2> HIDE DEF h
  <2> QED BY <2>1, <2>2, <2>3, <1>1
<1>4. SessionInv(s)
  BY DEF SeiInv
<1> HIDE DEF h, e, b
<1>5. WaitingIn(Append(b, e)) = Append(WaitingIn(b), h) /\ WaitingIn(b) \in Seq(Hashes)
  BY <1>1, WaitingAppended, WaitingType
<1>6. Owes(s)'
  <2>1. WaitingIn(seiBuf[s])' = Append(WaitingIn(b), h)
    BY <1>2, <1>5 DEF WaitingIn, Seis
  <2>2. Len(Pending(s)) <= Len(WaitingIn(b))
        /\ (s \notin lost => Pending(s) = WaitingIn(b))
    BY <1>4 DEF SessionInv, Owes, b
  <2>3. Len(Append(Pending(s), h)) = Len(Pending(s)) + 1
        /\ Len(Append(WaitingIn(b), h)) = Len(WaitingIn(b)) + 1
        /\ Len(Pending(s)) \in Nat /\ Len(WaitingIn(b)) \in Nat
    BY <1>1, <1>3, <1>5
  <2>4. Len(Append(Pending(s), h)) <= Len(Append(WaitingIn(b), h))
    BY ONLY <2>2, <2>3
  <2> QED BY <1>3, <2>1, <2>2, <2>4 DEF Owes
<1>7. ASSUME s \notin lost PROVE Matching(seiBuf'[s])
  <2>1. Matching(b)
    BY <1>4, <1>7 DEF SessionInv, b
  <2>2. Matching(Append(b, e))
    BY <1>1, <2>1, MatchingAppended
  <2> QED BY <1>2, <2>2
<1>8. Matching(seiBuf[s])' = Matching(seiBuf'[s])
  BY DEF Matching
<1> QED BY <1>6, <1>7, <1>8 DEF SessionInv

(* A SEI that is not to be signed is generated. *)
LEMMA GenerateUnsignedKeepsSession ==
  ASSUME IInv, Handles, SeiInv, NEW s \in Sessions, GenerateUnsigned(s), UNCHANGED lost
  PROVE  SessionInv(s)'
<1> DEFINE b == seiBuf[s]
           e == [hash |-> NextHash(s), signature |-> Unsigned]
<1>1. /\ e \in SeiElements /\ b \in Seq(SeiElements)
      /\ e.signature = Unsigned /\ e.signature # Incomplete
  BY NextHashIsHash, SeiHashAssumption
     DEF GenerateUnsigned, MayGenerate, SeiInv, SeiTypeOK, SeiElements
<1>2. seiBuf'[s] = Append(b, e)
  BY DEF GenerateUnsigned, AddSei, SeiInv, SeiTypeOK
<1>3. Pending(s)' = Pending(s)
  BY PendingSteps DEF GenerateUnsigned, vars, buffers, session
<1>4. SessionInv(s)
  BY DEF SeiInv
<1> HIDE DEF e, b
<1>5. WaitingIn(Append(b, e)) = WaitingIn(b)
  BY <1>1, WaitingAppended
<1>6. WaitingIn(seiBuf[s])' = WaitingIn(b)
  BY <1>2, <1>5 DEF WaitingIn, Seis
<1>7. ASSUME s \notin lost PROVE Matching(seiBuf'[s])
  <2>1. Matching(b)
    BY <1>4, <1>7 DEF SessionInv, b
  <2>2. Matching(Append(b, e))
    BY <1>1, <2>1, MatchingAppended
  <2> QED BY <1>2, <2>2
<1>8. Matching(seiBuf[s])' = Matching(seiBuf'[s])
  BY DEF Matching
<1> QED BY <1>3, <1>4, <1>6, <1>7, <1>8 DEF SessionInv, Owes, b

(* A signature completes the oldest incomplete SEI. *)
LEMMA PollKeepsSession ==
  ASSUME IInv, Handles, SeiInv, NEW s \in Sessions, PollSignature(s), UNCHANGED lost
  PROVE  SessionInv(s)'
<1> DEFINE b == seiBuf[s]
           h == outBuf[1].hash
           i == OldestIncomplete(s)
           c == [b EXCEPT ![i].signature = h]
<1>1. /\ IncompleteSeis(s) # {} /\ h \in Hashes
      /\ Pending(s) # <<>> /\ Head(Pending(s)) = h
      /\ Pending(s)' = Tail(Pending(s)) /\ Pending(s) \in Seq(Hashes)
  BY PollFindsSei, PendingSteps
<1>2. b \in Seq(SeiElements) /\ SessionInv(s)
  BY DEF SeiInv, SeiTypeOK
<1>3. i \in IncompleteSeis(s) /\ \A j \in IncompleteSeis(s) : i <= j
  BY <1>1, OldestIsIncomplete DEF SeiInv
<1>4. IncompleteSeis(s) = IncompleteIn(b) /\ i \in DOMAIN b
  BY <1>3 DEF IncompleteSeis, IncompleteIn
<1>5. seiBuf'[s] = c
  BY DEF PollSignature, SeiInv, SeiTypeOK
<1> HIDE DEF b, h, i, c
<1>6. /\ WaitingIn(b) # <<>>
      /\ Head(WaitingIn(b)) = b[i].hash
      /\ WaitingIn(c) = Tail(WaitingIn(b))
      /\ WaitingIn(b) \in Seq(Hashes)
  <2>1. i \in IncompleteIn(b) /\ \A j \in IncompleteIn(b) : i <= j
    BY <1>3, <1>4
  <2>2. /\ WaitingIn(b) # <<>>
        /\ Head(WaitingIn(b)) = b[i].hash
        /\ WaitingIn([b EXCEPT ![i].signature = h]) = Tail(WaitingIn(b))
    BY <1>1, <1>2, <2>1, WaitingCompleted
  <2>3. WaitingIn(b) \in Seq(Hashes)
    BY <1>2, WaitingType
  <2> QED BY <2>2, <2>3 DEF c
<1>7. WaitingIn(seiBuf[s])' = Tail(WaitingIn(b))
  BY <1>5, <1>6 DEF WaitingIn, Seis
<1>8. Len(Pending(s)) <= Len(WaitingIn(b)) /\ (s \notin lost => Pending(s) = WaitingIn(b))
  BY <1>2 DEF SessionInv, Owes, b
<1>9. Len(Tail(Pending(s))) <= Len(Tail(WaitingIn(b)))
  <2>1. Len(Tail(Pending(s))) = Len(Pending(s)) - 1 /\ Len(Pending(s)) \in Nat
    BY <1>1
  <2>2. Len(Tail(WaitingIn(b))) = Len(WaitingIn(b)) - 1 /\ Len(WaitingIn(b)) \in Nat
    BY <1>6
  <2> QED BY ONLY <2>1, <2>2, <1>8
<1>10. ASSUME s \notin lost PROVE Matching(seiBuf'[s])
  <2>1. Matching(b) /\ b[i].hash = h
    BY <1>1, <1>2, <1>6, <1>8, <1>10 DEF SessionInv, b
  <2>2. c[i].signature = h /\ c[i].hash = b[i].hash
    <3>1. b[i] \in SeiElements
      BY <1>2, <1>4
    <3>2. c[i] = [b[i] EXCEPT !.signature = h]
      BY <1>2, <1>4 DEF c
    <3> QED BY <3>1, <3>2 DEF SeiElements
  <2>3. DOMAIN c = DOMAIN b /\ \A j \in DOMAIN b : j # i => c[j] = b[j]
    BY <1>2, <1>4 DEF c
  <2> QED BY <1>5, <2>1, <2>2, <2>3 DEF Matching
<1>11. Matching(seiBuf[s])' = Matching(seiBuf'[s])
  BY DEF Matching
<1> QED BY <1>1, <1>7, <1>8, <1>9, <1>10, <1>11 DEF SessionInv, Owes

(* The loop of get_sei() ends. *)
LEMMA PollDoneKeepsSession ==
  ASSUME IInv, Handles, SeiInv, NEW s \in Sessions, NEW peeked \in BOOLEAN,
         PollDone(s, peeked), NoteLost
  PROVE  SessionInv(s)'
<1> DEFINE b == seiBuf[s]
<1>1. b \in Seq(SeiElements) /\ SessionInv(s)
  BY DEF SeiInv, SeiTypeOK
<1>2. Pending(s) \in Seq(Hashes)
  BY PendingSteps
<1>3. \/ Pending(s)' = Pending(s)
      \/ Pending(s) # <<>> /\ Pending(s)' = Tail(Pending(s)) /\ s \in lost'
  <2>1. CASE GetNothing(s)
    BY <2>1, PendingSteps DEF GetNothing, buffers
  <2>2. CASE GetError(s)
    <3>1. Pending(s) # <<>> /\ Pending(s)' = Tail(Pending(s))
      BY <2>2, PendingSteps
    <3>2. Len(Tail(Pending(s))) = Len(Pending(s)) - 1 /\ Len(Pending(s)) \in Nat
      BY <3>1, <1>2
    <3>3. Len(Pending(s)') < Len(Pending(s))
      BY <3>1, <3>2
    <3> QED BY <3>1, <3>3 DEF NoteLost
  <2> QED BY <2>1, <2>2 DEF PollDone
<1>4. \/ seiBuf'[s] = b
      \/ b # <<>> /\ Head(b).signature # Incomplete /\ seiBuf'[s] = Tail(b)
  BY DEF PollDone, SeiInv, SeiTypeOK
<1> HIDE DEF b
<1>5. WaitingIn(seiBuf[s])' = WaitingIn(b) /\ WaitingIn(b) \in Seq(Hashes)
  <2>1. b # <<>> /\ Head(b).signature # Incomplete => WaitingIn(Tail(b)) = WaitingIn(b)
    BY <1>1, WaitingTail
  <2>2. WaitingIn(seiBuf[s])' = WaitingIn(seiBuf'[s])
    BY DEF WaitingIn, Seis
  <2> QED BY <1>1, <1>4, <2>1, <2>2, WaitingType
<1>6. lost \subseteq lost'
  BY DEF NoteLost
<1>7. Owes(s)'
  <2>1. Len(Pending(s)) <= Len(WaitingIn(b)) /\ (s \notin lost => Pending(s) = WaitingIn(b))
    BY <1>1 DEF SessionInv, Owes, b
  <2>2. Pending(s) # <<>> => Len(Tail(Pending(s))) = Len(Pending(s)) - 1
    BY <1>2
  <2>3. Len(Pending(s)) \in Nat /\ Len(WaitingIn(b)) \in Nat
    BY <1>2, <1>5
  <2>4. Len(Pending(s)') <= Len(WaitingIn(b))
    BY <1>3, <2>1, <2>2, <2>3
  <2> QED BY <1>3, <1>5, <1>6, <2>1, <2>4 DEF Owes
<1>8. ASSUME s \notin lost PROVE Matching(seiBuf'[s])
  <2>1. Matching(b)
    BY <1>1, <1>8 DEF SessionInv, b
  <2>2. b # <<>> => Matching(Tail(b))
    BY <1>1, <2>1 DEF Matching
  <2> QED BY <1>4, <2>1, <2>2
<1>9. Matching(seiBuf[s])' = Matching(seiBuf'[s])
  BY DEF Matching
<1> QED BY <1>6, <1>7, <1>8, <1>9 DEF SessionInv

(* The session is freed. *)
LEMMA FreeKeepsSession ==
  ASSUME IInv, Handles, SeiInv, NEW s \in Sessions, FreeSession(s)
  PROVE  SessionInv(s)'
<1>1. seiBuf'[s] = <<>>
  BY DEF FreeSession, SeiInv, SeiTypeOK
<1>2. Pending(s)' = <<>>
  BY PendingSteps DEF FreeSession
<1>3. Seis(<<>>) = <<>>
  BY DEF Seis
<1>4. WaitingIn(seiBuf[s])' = <<>>
  BY <1>1, <1>3, HashesOfEmpty DEF WaitingIn, Seis
<1>5. Matching(seiBuf[s])'
  BY <1>1 DEF Matching
<1> QED BY <1>2, <1>4, <1>5 DEF SessionInv, Owes

LEMMA StepKeepsSeiInv ==
  ASSUME IInv, Handles, SeiInv, [SeiNext]_allVars
  PROVE  SeiInv'
<1>1. CASE UNCHANGED allVars
  <2>1. seiBuf' = seiBuf /\ lost' = lost /\ generated' = generated /\ polling' = polling
        /\ UNCHANGED <<outBuf, signing, inBuf, handle>>
    BY <1>1 DEF allVars, seiVars, vars, buffers, session
  <2>2. \A s \in Sessions : Pending(s)' = Pending(s)
    BY <2>1, PendingSteps
  <2>3. \A s \in Sessions : SessionInv(s)'
    BY <2>1, <2>2, SessionUntouched
  <2> QED BY <2>1, <2>3 DEF SeiInv, SeiTypeOK
<1>2. CASE SeiNext
  <2>1. SeiTypeOK'
    BY <1>2, StepKeepsSeiTypes
  <2>2. seiBuf \in [Sessions -> Seq(SeiElements)]
    BY DEF SeiInv, SeiTypeOK
  <2>3. ASSUME NEW s \in Sessions PROVE SessionInv(s)'
    <3>1. ASSUME NEW t \in Sessions, UNCHANGED lost,
                 GenerateSei(t) \/ GenerateRefused(t) \/ GenerateUnsigned(t)
          PROVE  SessionInv(s)'
      <4>1. CASE GenerateSei(t)
        <5>1. CASE t = s
          BY <3>1, <4>1, <5>1, GenerateKeepsSession
        <5>2. CASE t # s
          <6>1. seiBuf'[s] = seiBuf[s]
            BY <4>1, <5>2, <2>2 DEF GenerateSei, AddSei
          <6>2. NextHash(t) \in Hashes
            BY <4>1, NextHashIsHash DEF GenerateSei, MayGenerate, SeiInv
          <6>3. \A u \in Sessions, g \in Hashes : PluginSign(u, g) =>
                  Pending(s)' = IF u = s THEN Append(Pending(s), g) ELSE Pending(s)
            BY PendingSteps
          <6>4. Pending(s)' = Pending(s)
            BY <4>1, <5>2, <6>2, <6>3 DEF GenerateSei
          <6> QED BY <3>1, <6>1, <6>4, SessionUntouched
        <5> QED BY <5>1, <5>2
      <4>2. CASE GenerateUnsigned(t)
        <5>1. CASE t = s
          BY <3>1, <4>2, <5>1, GenerateUnsignedKeepsSession
        <5>2. CASE t # s
          <6>1. seiBuf'[s] = seiBuf[s]
            BY <4>2, <5>2, <2>2 DEF GenerateUnsigned, AddSei
          <6>2. Pending(s)' = Pending(s)
            BY <4>2, PendingSteps DEF GenerateUnsigned, vars, buffers, session
          <6> QED BY <3>1, <6>1, <6>2, SessionUntouched
        <5> QED BY <5>1, <5>2
      <4>3. CASE GenerateRefused(t)
        <5>1. seiBuf' = seiBuf /\ UNCHANGED <<outBuf, signing, inBuf, handle>>
          BY <4>3 DEF GenerateRefused, PluginSignRefused, PluginSignOutOfMemory, buffers, session
        <5>2. Pending(s)' = Pending(s)
          BY <5>1, PendingSteps
        <5> QED BY <3>1, <5>1, <5>2, SessionUntouched
      <4> QED BY <3>1, <4>1, <4>2, <4>3
    <3>2. ASSUME NEW t \in Sessions, PollSignature(t), UNCHANGED lost PROVE SessionInv(s)'
      <4>1. CASE t = s
        BY <3>2, <4>1, PollKeepsSession
      <4>2. CASE t # s
        <5>1. seiBuf'[s] = seiBuf[s]
          BY <3>2, <4>2, <2>2 DEF PollSignature
        <5>2. Pending(s)' = Pending(s)
          BY <3>2, <4>2, PollFindsSei
        <5> QED BY <3>2, <5>1, <5>2, SessionUntouched
      <4> QED BY <4>1, <4>2
    <3>3. ASSUME NEW t \in Sessions, NEW peeked \in BOOLEAN, PollDone(t, peeked), NoteLost
          PROVE  SessionInv(s)'
      <4>1. CASE t = s
        BY <3>3, <4>1, PollDoneKeepsSession
      <4>2. CASE t # s
        <5>1. seiBuf'[s] = seiBuf[s] /\ lost \subseteq lost'
          BY <3>3, <4>2, <2>2 DEF PollDone, NoteLost
        <5>2. CASE GetNothing(t)
          <6>1. Pending(s)' = Pending(s)
            BY <5>2, PendingSteps DEF GetNothing, buffers
          <6> QED BY <5>1, <6>1, SessionUntouched
        <5>3. CASE GetError(t)
          <6>1. Pending(s)' = Pending(s)
            BY <4>2, <5>3, PendingSteps
          <6> QED BY <5>1, <6>1, SessionUntouched
        <5> QED BY <3>3, <5>2, <5>3 DEF PollDone
      <4> QED BY <4>1, <4>2
    <3>4. ASSUME NEW t \in Sessions, FreeSession(t), UNCHANGED lost PROVE SessionInv(s)'
      <4>1. CASE t = s
        BY <3>4, <4>1, FreeKeepsSession
      <4>2. CASE t # s
        <5>1. seiBuf'[s] = seiBuf[s]
          BY <3>4, <4>2, <2>2 DEF FreeSession
        <5>2. Pending(s)' = Pending(s)
          BY <3>4, <4>2, PendingSteps DEF FreeSession
        <5> QED BY <3>4, <5>1, <5>2, SessionUntouched
      <4> QED BY <4>1, <4>2
    <3>5. ASSUME PluginStep PROVE SessionInv(s)'
      <4>1. seiBuf' = seiBuf /\ lost \subseteq lost' /\ NoteLost /\ WorkerStep
        BY <3>5 DEF PluginStep, NoteLost, seiVars
      <4>2. Pending(s)' = Pending(s) \/ Pending(s)' = <<>>
        <5>1. ASSUME WorkerStart \/ WorkerWait \/ WorkerWake \/ WorkerStop
              PROVE  UNCHANGED <<outBuf, signing, inBuf, handle>>
          BY <5>1 DEF WorkerStart, WorkerWait, WorkerWake, WorkerStop, buffers, session
        <5>2. \A error \in {FALSE, SigningMayFail} : error \in BOOLEAN
          BY SwitchAssumption, Zenon
        <5> QED BY <4>1, <5>1, <5>2, PendingSteps DEF WorkerStep
      <4>3. Pending(s)' = Pending(s) \/ (s \in lost' /\ Pending(s)' = <<>>)
        BY <4>1, <4>2, LossIsNoted
      <4> QED BY <4>1, <4>3, SessionUntouched
    <3> QED BY <1>2, <3>1, <3>2, <3>3, <3>4, <3>5 DEF SeiNext
  <2> QED BY <2>1, <2>3 DEF SeiInv
<1> QED BY <1>1, <1>2

LEMMA SeiInvariance == SeiSpec => [](IInv /\ Handles /\ SeiInv)
<1>1. SeiInit => IInv /\ Handles /\ SeiInv
  <2> SUFFICES ASSUME SeiInit PROVE IInv /\ Handles /\ SeiInv
    OBVIOUS
  <2>1. IInv /\ Handles
    BY SeiInitIsReached
  <2>2. SeiTypeOK
    <3>1. polling \in [Sessions -> BOOLEAN]
      BY Zenon DEF SeiInit
    <3>2. <<>> \in Seq(SeiElements) /\ 0 \in 0..MaxSei
      BY SeiAssumption
    <3> QED BY <3>1, <3>2 DEF SeiInit, SeiTypeOK
  <2>3. ASSUME NEW s \in Sessions PROVE SessionInv(s)
    <3>1. seiBuf[s] = <<>> /\ outBuf = <<>> /\ inBuf = <<>> /\ signing = <<>>
      BY DEF SeiInit
    <3>2. Seis(<<>>) = <<>>
      BY DEF Seis
    <3>3. Pending(s) = <<>> /\ WaitingIn(seiBuf[s]) = <<>>
      BY <3>1, <3>2, HashesOfEmpty DEF Pending, WaitingIn
    <3>4. Matching(seiBuf[s])
      BY <3>1 DEF Matching
    <3> QED BY <3>3, <3>4 DEF SessionInv, Owes
  <2> QED BY <2>1, <2>2, <2>3 DEF SeiInv
<1>2. IInv /\ Handles /\ SeiInv /\ [SeiNext]_allVars => (IInv /\ Handles /\ SeiInv)'
  <2> SUFFICES ASSUME IInv, Handles, SeiInv, [SeiNext]_allVars
               PROVE  (IInv /\ Handles /\ SeiInv)'
    OBVIOUS
  <2>1. [Next]_vars /\ ~ExitStart
    BY SeiStepIsStep DEF SeiInv
  <2>2. IInv' /\ Handles'
    BY <2>1, StepKeepsIInv, StepKeepsHandles
  <2>3. SeiInv'
    BY StepKeepsSeiInv
  <2> QED BY <2>2, <2>3
<1> QED BY <1>1, <1>2, PTL DEF SeiSpec

(* complete_sei() always finds the SEI that it asserts to find: a session  *)
(* never has more signatures coming than incomplete SEIs, however many     *)
(* signatures fail and whenever the thread stops.                          *)
THEOREM SignaturesAlwaysHaveSeis == SeiSpec => []SignaturesHaveSeis
<1>1. SeiInv => SignaturesHaveSeis
  <2> SUFFICES ASSUME SeiInv, NEW s \in Sessions
               PROVE  Len(Pending(s)) <= Cardinality(IncompleteSeis(s))
    BY DEF SignaturesHaveSeis
  <2>1. seiBuf[s] \in Seq(SeiElements) /\ Len(Pending(s)) <= Len(WaitingIn(seiBuf[s]))
    BY DEF SeiInv, SeiTypeOK, SessionInv, Owes
  <2>2. Len(WaitingIn(seiBuf[s])) = Cardinality(IncompleteSeis(s))
    BY <2>1, WaitingType DEF IncompleteSeis, IncompleteIn
  <2> QED BY <2>1, <2>2
<1> QED BY <1>1, SeiInvariance, PTL

(* No SEI gets the signature of another one as long as the plugin gives    *)
(* its session the signatures it owes it, whatever it does to the others.  *)
THEOREM SignaturesAlwaysMatch == SeiSpec => []SignatureMatchesSei
<1>1. SeiInv => SignatureMatchesSei
  BY DEF SeiInv, SessionInv, Matching, SignatureMatchesSei
<1> QED BY <1>1, SeiInvariance, PTL

=============================================================================
