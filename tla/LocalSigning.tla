---------------------------- MODULE LocalSigning ----------------------------
(***************************************************************************)
(* The threaded signing plugin without a central thread                    *)
(* (lib/plugins/threaded-signing/plugin.c): session_setup() starts a       *)
(* worker of the session's own.  Two threads, the session's and the        *)
(* worker, share a mutex and a condition variable, modelled as in          *)
(* CentralSigning: the worker holds the mutex while localWpc = "locked",   *)
(* and what the session does under it is one action guarded by             *)
(* LocalLockFree.                                                          *)
(*                                                                         *)
(* Memory is given to the slots of in[] from the front, for a hash of the  *)
(* size at hand, and the worker shifts in[] as far as its slots have       *)
(* memory.  A session may change to hashes of another size: with another   *)
(* hash algorithm, set after a reset of the session.                       *)
(***************************************************************************)
EXTENDS ThreadedPlugin

CONSTANTS
  LocalHashes,  \* hashes to sign
  LocalSizeOf   \* LocalSizeOf[h]: the size of hash h

Session == "session"

VARIABLES
  localRunning,  \* self->is_running
  localSignData, \* self->sign_data is set
  localHashSize, \* sign_data->hash_size, the memory for a hash to sign
  localIn,       \* the hashes in self->in[]
  localInFree,   \* the sizes of the memory of the next slots of in[]
  localSigning,  \* the hash being signed without the mutex, if any
  localOut,      \* the signatures and errors in self->out[]
  localWpc,      \* where the worker is
  localSpc,      \* where the session is; "open" between its calls
  localWaiters,  \* the threads in g_cond_wait()
  localAnswer    \* the last signature the session got

localInput == <<localHashSize, localIn, localInFree>>
localVars == <<localRunning, localSignData, localInput, localSigning, localOut,
               localWpc, localSpc, localWaiters, localAnswer>>

LocalInit ==
  /\ localRunning = FALSE
  /\ localSignData = FALSE
  /\ localHashSize = NotAllocated
  /\ localIn = <<>> /\ localInFree = <<>>
  /\ localSigning = <<>> /\ localOut = <<>>
  /\ localWpc = "none" /\ localSpc = "closed"
  /\ localWaiters = {}
  /\ localAnswer = NoAnswer

LocalLockFree == localWpc # "locked"

(* g_cond_signal() when the threads W wait: one of them is woken. *)
LocalSignalAmong(W) ==
  \/ W = {} /\ localWaiters' = {}
  \/ \E w \in W : localWaiters' = W \ {w}

(* g_cond_wait() may return without a signal. *)
LocalSpuriousWakeup(w) ==
  /\ w \in localWaiters
  /\ localWaiters' = localWaiters \ {w}
  /\ UNCHANGED <<localRunning, localSignData, localInput, localSigning,
                 localOut, localWpc, localSpc, localAnswer>>

(* free_plugin(). *)
LocalFreePlugin ==
  /\ localSignData' = FALSE
  /\ localHashSize' = NotAllocated
  /\ localIn' = <<>>
  /\ localInFree' = <<>>
  /\ localOut' = <<>>

-----------------------------------------------------------------------------
(* local_setup() up to the start of the thread. *)
LocalSetupStart ==
  /\ localSpc = "closed"
  /\ localSpc' = "setup"
  /\ localSignData' = TRUE
  /\ localWpc' = "created"
  /\ UNCHANGED <<localRunning, localInput, localSigning, localOut,
                 localWaiters, localAnswer>>

(* The loop of local_setup() that waits for the thread to run. *)
LocalSetupCheck ==
  /\ localSpc = "setup"
  /\ Session \notin localWaiters
  /\ LocalLockFree
  /\ \/ localRunning /\ localSpc' = "open" /\ UNCHANGED localWaiters
     \/ /\ ~localRunning
        /\ localWaiters' = localWaiters \cup {Session}
        /\ UNCHANGED localSpc
  /\ UNCHANGED <<localRunning, localSignData, localInput, localSigning,
                 localOut, localWpc, localAnswer>>

(* sign_hash() gets past its first two checks. *)
LocalMaySign ==
  /\ localSpc = "open"
  /\ LocalLockFree
  /\ Len(localIn) < MAX_BUFFER_LENGTH
  /\ localRunning

(* The next slot has no memory yet, or has it for hashes of h's size. *)
LocalFitsNextSlot(h) == localInFree # <<>> => Head(localInFree) = LocalSizeOf[h]

(* The first hash decides on the memory for all the hashes to sign. *)
LocalHashSizeAfter(h) ==
  IF localHashSize = NotAllocated THEN LocalSizeOf[h] ELSE localHashSize

(* The hash is copied to the next slot, which may need its memory first.   *)
LocalTakeSlot(h) ==
  /\ LocalMaySign
  /\ LocalFitsNextSlot(h)
  /\ localHashSize' = LocalHashSizeAfter(h)
  /\ localIn' = Append(localIn, h)
  /\ localInFree' = IF localInFree = <<>> THEN <<>> ELSE Tail(localInFree)

(* Mutated PluginSign: the worker is not woken. *)
LocalPluginSign_NoSignal(h) ==
  /\ LocalTakeSlot(h)
  /\ UNCHANGED <<localRunning, localSignData, localSigning, localOut, localWpc,
                 localSpc, localWaiters, localAnswer>>

(* sign_hash(): the hash is accepted. *)
LocalPluginSign(h) ==
  /\ LocalTakeSlot(h)
  /\ LocalSignalAmong(localWaiters)
  /\ UNCHANGED <<localRunning, localSignData, localSigning, localOut, localWpc,
                 localSpc, localAnswer>>

(* sign_hash(): there is no memory for the hash to sign or for the slot. *)
LocalPluginSignOutOfMemory(h) ==
  /\ AllocMayFail
  /\ LocalMaySign
  /\ localInFree = <<>>
  /\ localHashSize' \in {localHashSize, LocalHashSizeAfter(h)}
  /\ LocalSignalAmong(localWaiters)
  /\ UNCHANGED <<localRunning, localSignData, localIn, localInFree,
                 localSigning, localOut, localWpc, localSpc, localAnswer>>

(* sign_hash(): in[] is full, the thread is not running or the memory of   *)
(* the slot has another size.  It signals the worker none the less.        *)
LocalPluginSignRefused(h) ==
  /\ localSpc = "open"
  /\ LocalLockFree
  /\ LocalMaySign => ~LocalFitsNextSlot(h)
  /\ LocalSignalAmong(localWaiters)
  /\ UNCHANGED <<localRunning, localSignData, localInput, localSigning,
                 localOut, localWpc, localSpc, localAnswer>>

(* get_signature(): a signature, an error, or nothing. *)
LocalPluginGetSignature ==
  /\ localSpc = "open"
  /\ LocalLockFree
  /\ IF localRunning /\ localOut # <<>>
     THEN /\ localAnswer' =
               IF localOut[1].error THEN NoAnswer ELSE localOut[1].hash
          /\ localOut' = Tail(localOut)
     ELSE /\ localAnswer' = NoAnswer
          /\ UNCHANGED localOut
  /\ UNCHANGED <<localRunning, localSignData, localInput, localSigning,
                 localWpc, localSpc, localWaiters>>

(* Mutated AwaitSigning: the worker is not woken before it is joined. *)
LocalAwaitSigning_NoSignal ==
  IF localSigning # <<>>
  THEN localWaiters' = localWaiters \cup {Session} /\ localSpc' = "exit"
  ELSE localWaiters' = localWaiters /\ localSpc' = "join"

(* The waiting loop of local_teardown_locked() and what follows it. *)
LocalAwaitSigning ==
  IF localSigning # <<>>
  THEN localWaiters' = localWaiters \cup {Session} /\ localSpc' = "exit"
  ELSE LocalSignalAmong(localWaiters) /\ localSpc' = "join"

(* session_teardown() up to the first pass of that loop. *)
LocalTeardownStart ==
  /\ localSpc = "open"
  /\ LocalLockFree
  /\ localRunning' = FALSE
  /\ LocalAwaitSigning
  /\ UNCHANGED <<localSignData, localInput, localSigning, localOut, localWpc,
                 localAnswer>>

LocalTeardownWake ==
  /\ localSpc = "exit"
  /\ Session \notin localWaiters
  /\ LocalLockFree
  /\ LocalAwaitSigning
  /\ UNCHANGED <<localRunning, localSignData, localInput, localSigning,
                 localOut, localWpc, localAnswer>>

(* The session has waited for 2 seconds. *)
LocalTeardownTimeout ==
  /\ localSpc = "exit"
  /\ Session \in localWaiters
  /\ LocalLockFree
  /\ LocalSignalAmong(localWaiters \ {Session})
  /\ localSpc' = "join"
  /\ UNCHANGED <<localRunning, localSignData, localInput, localSigning,
                 localOut, localWpc, localAnswer>>

(* g_thread_join() returns; the memory is freed. *)
LocalTeardownJoin ==
  /\ localSpc = "join"
  /\ localWpc = "ended"
  /\ localSpc' = "closed"
  /\ localWpc' = "none"
  /\ LocalFreePlugin
  /\ UNCHANGED <<localRunning, localSigning, localWaiters, localAnswer>>

-----------------------------------------------------------------------------
(* local_worker_thread() *)

LocalWorkerStart ==
  /\ localWpc = "created"
  /\ localWpc' = IF localRunning THEN "ended" ELSE "locked"
  /\ localRunning' = TRUE
  /\ LocalSignalAmong(localWaiters)
  /\ UNCHANGED <<localSignData, localInput, localSigning, localOut, localSpc,
                 localAnswer>>

(* The worker has a hash of another size than the memory to sign it in:    *)
(* its assertion (plugin.c:610) fails, and the process is aborted.         *)
LocalAborted ==
  /\ localWpc = "locked"
  /\ localRunning /\ localIn # <<>>
  /\ LocalSizeOf[Head(localIn)] # localHashSize

(* The oldest hash is copied, its slot goes behind the others with memory. *)
LocalWorkerTake ==
  /\ localWpc = "locked"
  /\ localRunning /\ localIn # <<>>
  /\ LocalSizeOf[Head(localIn)] = localHashSize
  /\ localSigning' = <<Head(localIn)>>
  /\ localIn' = Tail(localIn)
  /\ localInFree' = Append(localInFree, LocalSizeOf[Head(localIn)])
  /\ localWpc' = "signing"
  /\ UNCHANGED <<localRunning, localSignData, localHashSize, localOut,
                 localSpc, localWaiters, localAnswer>>

(* Mutated WorkerWait: the worker looks at in_idx before it has the mutex. *)
LocalWorkerWait_Unlocked ==
  /\ localWpc = "locked"
  /\ localRunning
  /\ localWpc' = "wait"
  /\ localWaiters' = localWaiters \cup {Worker}
  /\ UNCHANGED <<localRunning, localSignData, localInput, localSigning,
                 localOut, localSpc, localAnswer>>

LocalWorkerWait ==
  /\ localWpc = "locked"
  /\ localRunning /\ localIn = <<>>
  /\ localWpc' = "wait"
  /\ localWaiters' = localWaiters \cup {Worker}
  /\ UNCHANGED <<localRunning, localSignData, localInput, localSigning,
                 localOut, localSpc, localAnswer>>

LocalWorkerWake ==
  /\ localWpc = "wait"
  /\ Worker \notin localWaiters
  /\ localWpc' = "locked"
  /\ UNCHANGED <<localRunning, localSignData, localInput, localSigning,
                 localOut, localSpc, localWaiters, localAnswer>>

(* Mutated WorkerDeliver: the signature goes to the front of out[]. *)
LocalWorkerDeliver_Front(error) ==
  /\ localWpc = "signing"
  /\ Len(localOut) < MAX_BUFFER_LENGTH
  /\ localOut' = <<[hash |-> localSigning[1], error |-> error]>> \o localOut
  /\ localSigning' = <<>>
  /\ localWpc' = "locked"
  /\ UNCHANGED <<localRunning, localSignData, localInput, localSpc,
                 localWaiters, localAnswer>>

(* The signature, or the error, goes to out[]. *)
LocalWorkerDeliver(error) ==
  /\ localWpc = "signing"
  /\ Len(localOut) < MAX_BUFFER_LENGTH
  /\ localOut' = Append(localOut, [hash |-> localSigning[1], error |-> error])
  /\ localSigning' = <<>>
  /\ localWpc' = "locked"
  /\ UNCHANGED <<localRunning, localSignData, localInput, localSpc,
                 localWaiters, localAnswer>>

(* out[] is full or there is no memory: the thread frees all and ends. *)
LocalWorkerGivesUp ==
  /\ localWpc = "signing"
  /\ Len(localOut) = MAX_BUFFER_LENGTH \/ AllocMayFail
  /\ localRunning' = FALSE
  /\ LocalFreePlugin
  /\ localSigning' = <<>>
  /\ localWpc' = "ended"
  /\ LocalSignalAmong(localWaiters)
  /\ UNCHANGED <<localSpc, localAnswer>>

LocalWorkerStop ==
  /\ localWpc = "locked"
  /\ ~localRunning
  /\ localWpc' = "ended"
  /\ LocalSignalAmong(localWaiters)
  /\ UNCHANGED <<localRunning, localSignData, localInput, localSigning,
                 localOut, localSpc, localAnswer>>

-----------------------------------------------------------------------------
LocalWorkerStep ==
  \/ LocalWorkerStart \/ LocalWorkerTake \/ LocalWorkerWait \/ LocalWorkerWake
  \/ \E error \in {FALSE, SigningMayFail} : LocalWorkerDeliver(error)
  \/ LocalWorkerGivesUp \/ LocalWorkerStop

(* The steps of a call that the session has begun. *)
LocalCallStep ==
  \/ LocalSetupCheck
  \/ LocalTeardownWake \/ LocalTeardownTimeout \/ LocalTeardownJoin

LocalNext ==
  \/ LocalSetupStart \/ LocalTeardownStart \/ LocalCallStep
  \/ \E h \in LocalHashes :
       \/ LocalPluginSign(h)
       \/ LocalPluginSignOutOfMemory(h)
       \/ LocalPluginSignRefused(h)
  \/ LocalPluginGetSignature
  \/ LocalWorkerStep
  \/ \E w \in {Worker, Session} : LocalSpuriousWakeup(w)

LocalSpec == LocalInit /\ [][LocalNext]_localVars

(* Both threads go on whenever they can, and signing a hash ends; setup    *)
(* gets the mutex if it finds it free again and again.                     *)
LocalFairness ==
  /\ WF_localVars(LocalWorkerStep)
  /\ WF_localVars(LocalCallStep)
  /\ SF_localVars(LocalSetupCheck)

-----------------------------------------------------------------------------
(* The worker never sleeps when there is a hash to sign or after it was    *)
(* told to stop, the session never when setup or teardown could go on, and *)
(* one signal is enough as the two never wait at the same time.            *)
NobodyOversleeps ==
  /\ Worker \in localWaiters =>
       localRunning /\ localIn = <<>> /\ localSpc # "join"
  /\ Session \in localWaiters =>
       /\ Worker \notin localWaiters
       /\ \/ localSpc = "setup" /\ localWpc = "created"
          \/ localSpc = "exit" /\ localWpc \in {"signing", "locked"}

(* What the session waits for. *)
LocalSigned == [i \in DOMAIN localOut |-> localOut[i].hash]

LocalPromise == INSTANCE SigningQueue WITH
  Sessions <- {Session},
  Hashes <- LocalHashes,
  pending <- [s \in {Session} |-> LocalSigned \o localSigning \o localIn],
  answer <- [s \in {Session} |-> localAnswer]

(* The session gets the signatures of its hashes, oldest first, none twice *)
(* and none left out until the worker gives up or the session is closed.   *)
LocalKeepsPromise == LocalPromise!Spec

(* session_setup() and session_teardown() return. *)
LocalCallsReturn ==
  localSpc \in {"setup", "exit", "join"} ~> localSpc \in {"open", "closed"}

(* A waiting hash is soon signed unless the worker gives up or is stopped, *)
(* or the session has changed the size of its hashes and the assertion of  *)
(* the worker ends the process.                                            *)
LocalHashesAreTaken ==
  localRunning /\ localIn # <<>> ~>
    localSigning # <<>> \/ ~localRunning \/ LocalAborted

=============================================================================
