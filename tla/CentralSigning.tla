--------------------------- MODULE CentralSigning ---------------------------
(***************************************************************************)
(* The threaded signing plugin with its central thread                     *)
(* (lib/plugins/threaded-signing/plugin.c): one worker thread signs the    *)
(* hashes of all the sessions.  An administrator starts and stops it with  *)
(* onvif_media_signing_plugin_init() and _exit(); every session has a      *)
(* thread of its own, which sets up a handle, hands over hashes, polls for *)
(* signatures and tears the handle down.                                   *)
(*                                                                         *)
(* All of them share one mutex and one condition variable.  The mutex is   *)
(* held by the worker while wpc = "locked"; what another thread does under *)
(* the mutex is one action, guarded by LockFree.  A thread in              *)
(* g_cond_wait() is a member of waiters; it may wake up without a signal.  *)
(*                                                                         *)
(* Calls that change nothing (a handle that is NULL, init() of a plugin    *)
(* that is initialized or with a bad key, exit() of one that is not) are   *)
(* stuttering steps, and so is session_setup() without a central thread:   *)
(* it starts a local worker, which is the subject of LocalSigning.         *)
(*                                                                         *)
(* Two steps come after an assertion: the worker takes a hash (plugin.c:   *)
(* 447), a setup goes on with the central thread (plugin.c:809).  When the *)
(* assertion fails the process is aborted; here the thread that failed it  *)
(* takes no further step.                                                  *)
(***************************************************************************)
EXTENDS ThreadedPlugin, FiniteSets, Buffers

CONSTANTS
  Sessions,           \* users of the plugin
  Roomy,              \* those with memory enough for a signature of the key
  Hashes,             \* hashes to sign
  SizeOf,             \* SizeOf[s]: the size of the hashes of session s
  MaxId,              \* ids are 1..MaxId (2^32 - 1 in the code)
  LastUsedId,         \* bound: no setup after this id (no bound if MaxId)
  ExitMayOvertake     \* exit() may be called while sessions are open

ASSUME IdAssumption == MaxId \in Nat \ {0} /\ LastUsedId \in Nat
ASSUME HashAssumption ==
  /\ SizeOf \in [Sessions -> Nat \ {0}]
  /\ NoAnswer \notin Hashes
ASSUME ExitAssumption == ExitMayOvertake \in BOOLEAN

Admin == "admin"

Ids == 1..MaxId
NoId == 0

VARIABLES
  thread,      \* central.thread is set
  hasList,     \* id_list is set
  idList,      \* ids of the active sessions, in id_list
  lastAddedId, \* last_added_id
  isRunning,   \* central.is_running
  signData,    \* central.sign_data is set
  hashSize,    \* central.sign_data->hash_size, the memory for a hash to sign
  inBuf,       \* the first in_idx elements of central.in[]
  inFree,      \* the sizes of the memory of the other elements of in[]
  outBuf,      \* the first out_idx elements of central.out[]
  signing,     \* the hash being signed without the mutex, if any
  wpc,         \* where the worker is
  apc,         \* where the administrator is
  waiters,     \* the threads in g_cond_wait()
  spc,         \* spc[s]: where the setup of s is: "seen" when it has read
               \* central.thread, "asserted" when it has checked id_list too
  handle,      \* handle[s]: the id of the handle of s
  answer       \* answer[s]: the last signature s got

plugin == <<thread, hasList, idList, lastAddedId, isRunning, signData, hashSize>>
buffers == <<inBuf, inFree, outBuf>>
session == <<spc, handle, answer>>
vars == <<plugin, buffers, signing, wpc, apc, waiters, session>>

Init ==
  /\ thread = FALSE
  /\ hasList = FALSE
  /\ idList = {}
  /\ lastAddedId = NoId
  /\ isRunning = FALSE
  /\ signData = FALSE
  /\ hashSize = NotAllocated
  /\ inBuf = <<>>
  /\ inFree = [i \in 1..MAX_BUFFER_LENGTH |-> NotAllocated]
  /\ outBuf = <<>>
  /\ signing = <<>>
  /\ wpc = "none"
  /\ apc = "idle"
  /\ waiters = {}
  /\ spc = [s \in Sessions |-> "idle"]
  /\ handle = [s \in Sessions |-> NoId]
  /\ answer = [s \in Sessions |-> NoAnswer]

-----------------------------------------------------------------------------
(* The mutex and the condition variable.                                   *)

LockFree == wpc # "locked"

(* g_cond_signal() when the threads W wait: one of them is woken. *)
SignalAmong(W) ==
  \/ W = {} /\ waiters' = {}
  \/ \E w \in W : waiters' = W \ {w}

Signal == SignalAmong(waiters)

(* g_cond_wait() may return without a signal. *)
SpuriousWakeup(w) ==
  /\ w \in waiters
  /\ waiters' = waiters \ {w}
  /\ UNCHANGED <<plugin, buffers, signing, wpc, apc, session>>

-----------------------------------------------------------------------------
(* Buffers.                                                                *)

(* free_buffers(). *)
FreeBuffers ==
  /\ inBuf' = <<>>
  /\ inFree' = [i \in 1..MAX_BUFFER_LENGTH |-> NotAllocated]
  /\ outBuf' = <<>>

(* buffer_reset(): the slots of session id move to the back, reset.        *)
BufferReset(id) ==
  /\ outBuf' = Without(outBuf, id)
  /\ inBuf' = Without(inBuf, id)
  /\ inFree' = LET dropped == Only(inBuf, id)
               IN  inFree \o [i \in DOMAIN dropped |-> dropped[i].size]

-----------------------------------------------------------------------------
(* onvif_media_signing_plugin_init() and onvif_media_signing_plugin_exit() *)

(* init() up to the start of the thread. *)
InitStart ==
  /\ apc = "idle"
  /\ ~thread /\ ~hasList /\ ~signData
  /\ thread' = TRUE
  /\ hasList' = TRUE
  /\ idList' = {}
  /\ signData' = TRUE
  /\ hashSize' = NotAllocated
  /\ wpc' = "created"
  /\ apc' = "init"
  /\ UNCHANGED <<lastAddedId, isRunning, buffers, signing, waiters, session>>

(* The loop of init() that waits for the thread to run. *)
InitCheck ==
  /\ apc = "init"
  /\ Admin \notin waiters
  /\ LockFree
  /\ \/ /\ isRunning
        /\ apc' = "idle"
        /\ UNCHANGED waiters
     \/ /\ ~isRunning
        /\ waiters' = waiters \cup {Admin}
        /\ UNCHANGED apc
  /\ UNCHANGED <<plugin, buffers, signing, wpc, session>>

(* Mutated SignalAndJoin: exit() joins the thread without waking it. *)
SignalAndJoin_NoSignal(W) ==
  /\ waiters' = W
  /\ apc' = "join"

(* local_teardown_locked() after its waiting loop, when W wait. *)
SignalAndJoin(W) ==
  /\ SignalAmong(W)
  /\ apc' = "join"

(* The waiting loop of local_teardown_locked(). *)
AwaitSigning ==
  \/ /\ signing # <<>>
     /\ waiters' = waiters \cup {Admin}
     /\ apc' = "exit"
  \/ /\ signing = <<>>
     /\ SignalAndJoin(waiters)

(* Mutated ExitStart: the worker is not told to stop. *)
ExitStart_NotStopped ==
  /\ apc = "idle"
  /\ thread
  /\ LockFree
  /\ hasList' = FALSE
  /\ idList' = {}
  /\ thread' = FALSE
  /\ AwaitSigning
  /\ UNCHANGED <<isRunning, signData, lastAddedId, hashSize, buffers, signing,
                 wpc, session>>

(* exit() up to the first pass of that loop. *)
ExitStart ==
  /\ apc = "idle"
  /\ thread
  /\ LockFree
  /\ ExitMayOvertake \/ \A s \in Sessions : handle[s] = NoId /\ spc[s] = "idle"
  /\ hasList' = FALSE
  /\ idList' = {}
  /\ isRunning' = FALSE
  /\ thread' = FALSE
  /\ AwaitSigning
  /\ UNCHANGED <<signData, lastAddedId, hashSize, buffers, signing, wpc,
                 session>>

(* exit() is woken up: it looks again whether the worker is signing. *)
ExitWake ==
  /\ apc = "exit"
  /\ Admin \notin waiters
  /\ LockFree
  /\ AwaitSigning
  /\ UNCHANGED <<plugin, buffers, signing, wpc, session>>

(* exit() has waited for 2 seconds. *)
ExitTimeout ==
  /\ apc = "exit"
  /\ Admin \in waiters
  /\ LockFree
  /\ SignalAndJoin(waiters \ {Admin})
  /\ UNCHANGED <<plugin, buffers, signing, wpc, session>>

(* g_thread_join() returns; free_plugin() runs without the mutex. *)
ExitJoin ==
  /\ apc = "join"
  /\ wpc = "ended"
  /\ wpc' = "none"
  /\ apc' = "idle"
  /\ signData' = FALSE
  /\ hashSize' = NotAllocated
  /\ FreeBuffers
  /\ UNCHANGED <<thread, hasList, idList, lastAddedId, isRunning, signing,
                 waiters, session>>

-----------------------------------------------------------------------------
(* central_worker_thread()                                                 *)

(* The thread gets the mutex for the first time. *)
WorkerStart ==
  /\ wpc = "created"
  /\ wpc' = IF isRunning THEN "ended" ELSE "locked"
  /\ isRunning' = TRUE
  /\ Signal
  /\ UNCHANGED <<thread, hasList, signData, idList, lastAddedId, hashSize,
                 buffers, signing, apc, session>>

(* The oldest hash does not have the size of the memory to sign it in: the *)
(* assertion of the worker (plugin.c:447) fails.                           *)
Aborted ==
  /\ wpc = "locked"
  /\ isRunning
  /\ inBuf # <<>>
  /\ Head(inBuf).size # hashSize

(* The oldest hash is copied, its slot goes to the back of in[]. *)
WorkerTake ==
  /\ wpc = "locked"
  /\ isRunning
  /\ inBuf # <<>>
  /\ Head(inBuf).size = hashSize
  /\ signing' = <<Head(inBuf)>>
  /\ inBuf' = Tail(inBuf)
  /\ inFree' = Append(inFree, Head(inBuf).size)
  /\ wpc' = "signing"
  /\ UNCHANGED <<plugin, outBuf, apc, waiters, session>>

(* Mutated WorkerWait: the worker looks at in_idx before it has the mutex. *)
WorkerWait_Unlocked ==
  /\ wpc = "locked"
  /\ isRunning
  /\ wpc' = "wait"
  /\ waiters' = waiters \cup {Worker}
  /\ UNCHANGED <<plugin, buffers, signing, apc, session>>

WorkerWait ==
  /\ wpc = "locked"
  /\ isRunning
  /\ inBuf = <<>>
  /\ wpc' = "wait"
  /\ waiters' = waiters \cup {Worker}
  /\ UNCHANGED <<plugin, buffers, signing, apc, session>>

WorkerWake ==
  /\ wpc = "wait"
  /\ Worker \notin waiters
  /\ wpc' = "locked"
  /\ UNCHANGED <<plugin, buffers, signing, apc, waiters, session>>

(* openssl_sign_hash() returns and the worker gets the mutex. *)
Signed ==
  /\ wpc = "signing"
  /\ wpc' = "locked"
  /\ signing' = <<>>

(* The session of the hash is gone: the signature is dropped. *)
WorkerDiscard ==
  /\ Signed
  /\ signing[1].id \notin idList
  /\ UNCHANGED <<plugin, buffers, apc, waiters, session>>

(* out[] is full: all that this session waits for is dropped. *)
WorkerFlush ==
  /\ Signed
  /\ signing[1].id \in idList
  /\ Len(outBuf) >= MAX_BUFFER_LENGTH
  /\ BufferReset(signing[1].id)
  /\ UNCHANGED <<plugin, apc, waiters, session>>

(* The signature, or the error, becomes the last element of out[]. *)
Put(error) ==
  outBuf' = Append(outBuf, [id |-> signing[1].id, hash |-> signing[1].hash,
                            error |-> error])

(* Mutated WorkerDeliver: whether the session is still there is not asked. *)
WorkerDeliver_NotAsked(error) ==
  /\ Signed
  /\ Len(outBuf) < MAX_BUFFER_LENGTH
  /\ Put(error)
  /\ UNCHANGED <<plugin, inBuf, inFree, apc, waiters, session>>

(* Mutated WorkerDeliver: whether out[] is full is not asked. *)
WorkerDeliver_NoLimit(error) ==
  /\ Signed
  /\ signing[1].id \in idList
  /\ Put(error)
  /\ UNCHANGED <<plugin, inBuf, inFree, apc, waiters, session>>

(* The signature, or the error, goes to out[]. *)
WorkerDeliver(error) ==
  /\ Signed
  /\ signing[1].id \in idList
  /\ Len(outBuf) < MAX_BUFFER_LENGTH
  /\ Put(error)
  /\ UNCHANGED <<plugin, inBuf, inFree, apc, waiters, session>>

(* There is no memory for the signature: the thread stops.  (The code asks *)
(* for memory only the first time a slot of out[] is used.)                *)
WorkerOutOfMemory ==
  /\ AllocMayFail
  /\ Signed
  /\ signing[1].id \in idList
  /\ Len(outBuf) < MAX_BUFFER_LENGTH
  /\ isRunning' = FALSE
  /\ FreeBuffers
  /\ UNCHANGED <<thread, hasList, signData, idList, lastAddedId, hashSize, apc,
                 waiters, session>>

WorkerStop ==
  /\ wpc = "locked"
  /\ ~isRunning
  /\ wpc' = "ended"
  /\ Signal
  /\ UNCHANGED <<plugin, buffers, signing, apc, session>>

-----------------------------------------------------------------------------
(* The calls of session s.                                                 *)

(* session_setup() reads central.thread without the mutex. *)
SetupSeesThread(s) ==
  /\ handle[s] = NoId
  /\ spc[s] = "idle"
  /\ thread
  /\ spc' = [spc EXCEPT ![s] = "seen"]
  /\ UNCHANGED <<plugin, buffers, signing, wpc, apc, waiters, handle, answer>>

(* session_setup() asserts, without the mutex, that id_list is still there *)
(* (plugin.c:809).                                                         *)
SetupAssertsList(s) ==
  /\ spc[s] = "seen"
  /\ hasList
  /\ spc' = [spc EXCEPT ![s] = "asserted"]
  /\ UNCHANGED <<plugin, buffers, signing, wpc, apc, waiters, handle, answer>>

(* The k-th id after the last added one; ids wrap around without 0. *)
IdAfter(k) == ((lastAddedId + k - 1) % MaxId) + 1

(* Mutated NewIds: the search begins with the first id, not after the last *)
(* added one.                                                              *)
NewIds_Lowest == {id \in Ids \ idList : \A k \in Ids : k < id => k \in idList}

(* The id central_setup() picks, if there is one: the first inactive one   *)
(* after the last added id, short of the last added id itself.             *)
NewIds ==
  {IdAfter(k) : k \in
    {n \in 1..(IF lastAddedId = NoId THEN MaxId ELSE MaxId - 1) :
      /\ lastAddedId < LastUsedId \/ LastUsedId = MaxId
      /\ IdAfter(n) \notin idList
      /\ \A m \in 1..(n - 1) : IdAfter(m) \in idList}}

(* Mutated CentralSetup: the id is not appended to id_list. *)
CentralSetup_NotListed(s) ==
  /\ spc[s] = "asserted"
  /\ LockFree
  /\ isRunning
  /\ spc' = [spc EXCEPT ![s] = "idle"]
  /\ \E id \in NewIds : lastAddedId' = id /\ handle' = [handle EXCEPT ![s] = id]
  /\ UNCHANGED <<thread, hasList, signData, idList, isRunning, hashSize,
                 buffers, signing, wpc, apc, waiters, answer>>

(* central_setup() with the thread running and an id to give. *)
CentralSetup(s) ==
  /\ spc[s] = "asserted"
  /\ LockFree
  /\ isRunning
  /\ spc' = [spc EXCEPT ![s] = "idle"]
  /\ \E id \in NewIds :
       /\ lastAddedId' = id
       /\ \/ idList' = idList \cup {id} /\ handle' = [handle EXCEPT ![s] = id]
          \/ AllocMayFail /\ UNCHANGED <<idList, handle>>
  /\ UNCHANGED <<thread, hasList, signData, isRunning, hashSize, buffers,
                 signing, wpc, apc, waiters, answer>>

(* central_setup() otherwise. *)
CentralSetupFails(s) ==
  /\ spc[s] = "asserted"
  /\ LockFree
  /\ ~isRunning \/ NewIds = {} \/ AllocMayFail
  /\ spc' = [spc EXCEPT ![s] = "idle"]
  /\ UNCHANGED <<plugin, buffers, signing, wpc, apc, waiters, handle, answer>>

(* sign_hash() gets past its first two checks. *)
MaySign(s) ==
  /\ handle[s] # NoId
  /\ LockFree
  /\ Len(inBuf) < MAX_BUFFER_LENGTH
  /\ isRunning

(* The hash is copied to the next slot, which may need its memory first.   *)
TakeSlot(s, h) ==
  /\ MaySign(s)
  /\ Head(inFree) \in {NotAllocated, SizeOf[s]}
  /\ inBuf' = Append(inBuf, [id |-> handle[s], hash |-> h, size |-> SizeOf[s]])
  /\ inFree' = Tail(inFree)

(* Mutated PluginSign: the worker is not woken. *)
PluginSign_NoSignal(s, h) ==
  /\ TakeSlot(s, h)
  /\ hashSize' = IF hashSize = NotAllocated THEN SizeOf[s] ELSE hashSize
  /\ UNCHANGED <<thread, hasList, signData, idList, lastAddedId, isRunning,
                 outBuf, signing, wpc, apc, waiters, session>>

(* sign_hash(): the hash is accepted. *)
PluginSign(s, h) ==
  /\ TakeSlot(s, h)
  /\ hashSize' = IF hashSize = NotAllocated THEN SizeOf[s] ELSE hashSize
  /\ Signal
  /\ UNCHANGED <<thread, hasList, signData, idList, lastAddedId, isRunning,
                 outBuf, signing, wpc, apc, session>>

(* sign_hash(): there is no memory for the hash to sign or for the slot. *)
PluginSignOutOfMemory(s, h) ==
  /\ AllocMayFail
  /\ MaySign(s)
  /\ Head(inFree) = NotAllocated
  /\ hashSize' \in {hashSize, IF hashSize = NotAllocated THEN SizeOf[s] ELSE hashSize}
  /\ Signal
  /\ UNCHANGED <<thread, hasList, signData, idList, lastAddedId, isRunning,
                 buffers, signing, wpc, apc, session>>

(* sign_hash(): in[] is full, the thread is not running or the memory of   *)
(* the slot has another size.                                              *)
PluginSignRefused(s, h) ==
  /\ handle[s] # NoId
  /\ LockFree
  /\ MaySign(s) => Head(inFree) \notin {NotAllocated, SizeOf[s]}
  /\ Signal
  /\ UNCHANGED <<plugin, buffers, signing, wpc, apc, session>>

(* Mutated IsNext: whose signature it is is not asked. *)
IsNext_Anyone(s) == isRunning /\ outBuf # <<>>

(* The oldest element of out[] belongs to s. *)
IsNext(s) == isRunning /\ outBuf # <<>> /\ outBuf[1].id = handle[s]

(* get_signature() returns true. *)
GetSignature(s) ==
  /\ handle[s] # NoId
  /\ LockFree
  /\ IsNext(s)
  /\ s \in Roomy /\ ~outBuf[1].error
  /\ answer' = [answer EXCEPT ![s] = outBuf[1].hash]
  /\ outBuf' = Tail(outBuf)
  /\ UNCHANGED <<plugin, inBuf, inFree, signing, wpc, apc, waiters, spc,
                 handle>>

(* get_signature() drops a failed signing or a signature too large. *)
GetError(s) ==
  /\ handle[s] # NoId
  /\ LockFree
  /\ IsNext(s)
  /\ s \notin Roomy \/ outBuf[1].error
  /\ answer' = [answer EXCEPT ![s] = NoAnswer]
  /\ outBuf' = Tail(outBuf)
  /\ UNCHANGED <<plugin, inBuf, inFree, signing, wpc, apc, waiters, spc,
                 handle>>

(* get_signature() has nothing for s. *)
GetNothing(s) ==
  /\ handle[s] # NoId
  /\ LockFree
  /\ ~IsNext(s)
  /\ answer' = [answer EXCEPT ![s] = NoAnswer]
  /\ UNCHANGED <<plugin, buffers, signing, wpc, apc, waiters, spc, handle>>

(* Mutated CentralTeardown: the list goes with its last id. *)
CentralTeardown_FreesList(s) ==
  /\ handle[s] # NoId
  /\ LockFree
  /\ BufferReset(handle[s])
  /\ idList' = idList \ {handle[s]}
  /\ hasList' = (idList' # {})
  /\ handle' = [handle EXCEPT ![s] = NoId]
  /\ UNCHANGED <<thread, signData, lastAddedId, isRunning, hashSize, signing,
                 wpc, apc, waiters, spc, answer>>

(* central_teardown(). *)
CentralTeardown(s) ==
  /\ handle[s] # NoId
  /\ LockFree
  /\ BufferReset(handle[s])
  /\ idList' = idList \ {handle[s]}
  /\ handle' = [handle EXCEPT ![s] = NoId]
  /\ UNCHANGED <<thread, hasList, signData, lastAddedId, isRunning, hashSize,
                 signing, wpc, apc, waiters, spc, answer>>

-----------------------------------------------------------------------------
WorkerStep ==
  \/ WorkerStart \/ WorkerTake \/ WorkerWait \/ WorkerWake
  \/ WorkerDiscard \/ WorkerFlush \/ WorkerOutOfMemory \/ WorkerStop
  \/ \E error \in {FALSE, SigningMayFail} : WorkerDeliver(error)

AdminStep == InitCheck \/ ExitWake \/ ExitTimeout \/ ExitJoin

SessionStep(s) ==
  \/ SetupSeesThread(s) \/ SetupAssertsList(s)
  \/ CentralSetup(s) \/ CentralSetupFails(s)
  \/ \E h \in Hashes :
       PluginSign(s, h) \/ PluginSignOutOfMemory(s, h) \/ PluginSignRefused(s, h)
  \/ GetSignature(s) \/ GetError(s) \/ GetNothing(s)
  \/ CentralTeardown(s)

Next ==
  \/ InitStart \/ ExitStart \/ AdminStep
  \/ WorkerStep
  \/ \E s \in Sessions : SessionStep(s)
  \/ \E w \in {Worker, Admin} : SpuriousWakeup(w)

Spec == Init /\ [][Next]_vars

(* The worker goes on whenever it can, and signing a hash ends.  exit()    *)
(* competes for the mutex only with threads that soon give it up; init()   *)
(* competes with a worker that may go on for ever, so it gets the mutex if *)
(* it finds it free again and again.                                       *)
Fairness ==
  /\ WF_vars(WorkerStep)
  /\ WF_vars(AdminStep)
  /\ SF_vars(InitCheck)

FairSpec == Spec /\ Fairness

-----------------------------------------------------------------------------
InElements == [id : Ids, hash : Hashes, size : Nat \ {NotAllocated}]
OutElements == [id : Ids, hash : Hashes, error : BOOLEAN]

(* Types of the variables. *)
TypeOK ==
  /\ thread \in BOOLEAN
  /\ hasList \in BOOLEAN
  /\ idList \subseteq Ids
  /\ lastAddedId \in Ids \cup {NoId}
  /\ isRunning \in BOOLEAN
  /\ signData \in BOOLEAN
  /\ hashSize \in Nat
  /\ inBuf \in Seq(InElements)
  /\ inFree \in Seq(Nat)
  /\ Len(inBuf) + Len(inFree) = MAX_BUFFER_LENGTH
  /\ outBuf \in Seq(OutElements)
  /\ Len(outBuf) <= MAX_BUFFER_LENGTH
  /\ signing \in Seq(InElements)
  /\ Len(signing) <= 1
  /\ wpc \in {"none", "created", "locked", "wait", "signing", "ended"}
  /\ apc \in {"idle", "init", "exit", "join"}
  /\ waiters \subseteq {Worker, Admin}
  /\ spc \in [Sessions -> {"idle", "seen", "asserted"}]
  /\ handle \in [Sessions -> Ids \cup {NoId}]
  /\ answer \in [Sessions -> Hashes \cup {NoAnswer}]

(* What the code relies on under the mutex, even if exit() overtakes the   *)
(* sessions: while is_running, append_item() may follow id_list (plugin.c: *)
(* 359) and sign_hash() and the worker may use sign_data (plugin.c:221); a *)
(* thread that starts finds is_running unset; a plugin without a thread,   *)
(* sign_data and list has no element left in a buffer.  The assertion that *)
(* a setup makes without the mutex is another matter: SetupFindsList.      *)
RunningIsUsable ==
  /\ isRunning => hasList /\ signData /\ wpc \in {"locked", "wait", "signing"}
  /\ wpc = "created" => ~isRunning
  /\ ~thread /\ ~signData => wpc = "none" /\ inBuf = <<>> /\ outBuf = <<>>

(* A setup that has read central.thread without the mutex finds id_list as *)
(* its assertion says (plugin.c:808-809), whatever the other sessions do   *)
(* in between, when exit() is called after all the sessions are closed     *)
(* (onvif_media_signing_plugin.h:152).  An exit() that overtakes the setup *)
(* makes the assertion fail.                                               *)
SetupFindsList == \A s \in Sessions : spc[s] = "seen" => hasList

(* Only the session at the head of out[] is served (plugin.c:296), so an   *)
(* element nobody can claim would block all the sessions for ever.  There  *)
(* is none: teardown removes them, and the worker drops a signature whose  *)
(* session went away while it was signed.                                  *)
OutputIsClaimable ==
  isRunning => \A i \in 1..Len(outBuf) : outBuf[i].id \in idList

(* The worker never sleeps when there is a hash to sign or after it was    *)
(* told to stop: no wake-up is lost.                                       *)
SleepsOnlyWhenIdle ==
  Worker \in waiters => wpc = "wait" /\ isRunning /\ inBuf = <<>>

(* One condition variable serves the worker, init() and exit(), and it is  *)
(* signalled, never broadcast: a signal could wake the wrong thread.  It   *)
(* cannot, as at most one thread waits at a time.                          *)
OneWaiter == ~(Worker \in waiters /\ Admin \in waiters)

(* When exit() is called after all the sessions are closed, as             *)
(* onvif_media_signing_plugin.h:152 says, two open sessions never have     *)
(* the same id and an open session is always in id_list.                   *)
HandlesAreActive ==
  \A s, t \in Sessions : handle[s] # NoId =>
    /\ handle[s] \in idList
    /\ handle[s] = handle[t] => s = t

(* The worker asserts that the hash it is about to sign has the size of    *)
(* the memory it copies the hash to (plugin.c:447).  That memory gets its  *)
(* size from the first hash of all, and the sessions that share it may use *)
(* hash algorithms of different sizes.                                     *)
TakenHashFits ==
  wpc = "locked" /\ isRunning /\ inBuf # <<>> => inBuf[1].size = hashSize

(* The hashes session s waits for: those that are signed, the one being    *)
(* signed and those to be signed.                                          *)
Pending(s) ==
  HashesOf(outBuf, handle[s]) \o HashesOf(signing, handle[s]) \o HashesOf(inBuf, handle[s])

Promise == INSTANCE SigningQueue WITH
  pending <- [s \in Sessions |-> Pending(s)]

(* Every session gets the signatures of its own hashes, oldest first, none *)
(* twice and none left out, in spite of the buffers it shares with others: *)
(* the plugin keeps the promise of onvif_media_signing_plugin.h.           *)
KeepsPromise == Promise!Spec

(* Nothing but its own sign_hash() gives a session a hash to wait for: it  *)
(* never gets the signature of a hash another session handed over, even if *)
(* that session was closed while the worker signed without the mutex.      *)
WaitsForItsOwn ==
  [][\A s \in Sessions :
       Len(Pending(s)') > Len(Pending(s)) => \E h \in Hashes : PluginSign(s, h)]_vars

(* exit() returns, whatever the worker and the sessions are doing, and so  *)
(* does init(), unless the thread that it waits for has ended before it    *)
(* could ask (it ran out of memory): nothing but a spurious wake-up could  *)
(* make init() ask again.  The worker may also have aborted the process    *)
(* before init() asks, when sessions with hashes of two sizes sign.        *)
AdminCallsReturn ==
  /\ apc \in {"exit", "join"} ~> apc = "idle"
  /\ apc = "init" ~> apc = "idle" \/ wpc = "ended" \/ Aborted

(* A waiting hash is soon signed, or the plugin stops or the session ends, *)
(* or the hash makes the worker abort.                                     *)
HashesAreTaken ==
  isRunning /\ inBuf # <<>> ~>
    signing # <<>> \/ inBuf = <<>> \/ ~isRunning \/ Aborted

=============================================================================
