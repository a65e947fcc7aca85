# Specifications of the ONVIF Media Signing Framework

TLA+ models of the framework in `src/lib`, the TLC runs that check them on small
instances and the TLAPS proofs about them. `PROJECT.json` lists every run, the
source lines behind every definition, the hazards and the findings.

## 1. The system

A *signer* application gives the NAL Units of a video stream to a signing session.
The session hashes them, and at the end of every GOP (or after a number of frames, a
partial GOP) it writes a SEI that has the hash of the GOP, the list of its hashes and a
link to the GOP before. The SEI is signed by a *signing plugin*, at once or in a thread,
and put in the stream when the application fetches it. A *validator* session gets the
stream, associates SEIs with GOPs and tells what is authentic.

| Component | State | Operations | Interacts with |
|---|---|---|---|
| Threaded plugin, central thread (`lib/plugins/threaded-signing/plugin.c`) | `central` (thread, mutex, condition variable, `in[]`, `out[]`, `sign_data`), `id_list`, `last_added_id`, `id_in_signing` | init, exit, session setup and teardown, sign, get_signature; a worker thread | sessions of any number of threads, through one mutex and one condition variable |
| Threaded plugin, local thread (same file) | one `oms_threaded_data_t` per session | setup, teardown, sign, get_signature; a worker thread | its session |
| Unthreaded plugin (`lib/plugins/unthreaded-signing/plugin.c`) | `out[]`, `out_idx` | setup, teardown, sign, get_signature | its session; sequential |
| Signer, GOPs (`oms_signer.c`, `oms_common.c`) | `gop_info`, `num_gops_until_signing`, settings | add NAL Unit (in parts), end of stream, certificate SEI, reset, setters | generates SEIs |
| Signer, SEIs (`oms_signer.c`) | `sei_data_buffer[]` | generate a SEI, complete_sei, get_sei | plugin: hands over hashes, polls signatures |
| Signer, setup (`oms_signer.c`, `oms_openssl.c`) | `certificate_chain`, trust anchor, `sign_data`, `plugin_handle`, hash algorithm, `sei_epb`, `use_certificate_sei`, `signing_started`, `last_nalu` | set the key pair and the settings, reset | what the SEIs tell of keys and hashes |
| TLV, bytes (`oms_tlv.c`, `parse_nalu_info()` of `oms_common.c`) | `last_two_bytes` of the session and of every SEI | encode, decode, emulation prevention | signer, validator |
| Validator (`oms_validator.c`, `oms_nalu_list.c`) | `nalu_list`, `gop_info`, `validation_flags` | add NAL Unit and authenticate | the stream |
| Authenticity report (`oms_authenticity_report.c`) | latest and accumulated validation | get report | validator |
| OpenSSL wrapper (`oms_openssl.c`), helpers | contexts, keys | hash, sign, verify | all |
| Example applications (`src/examples`) | | | users of the library |

What is hard about it:

* The central plugin shares two queues and one condition variable between a worker, an
  administrator (init and exit) and the sessions, and signs without holding the mutex. Sessions
  come and go meanwhile, `exit()` may overtake them, memory may run out, buffers are full.
* Nothing in a signature says which SEI it is for. Three buffers (SEIs, hashes,
  signatures) have to agree on their order while signing fails and buffers are dropped.
* The GOP state is changed at several places of one call: the GOP hash is closed, the
  list rewound, anchor and linked hash replaced, and three counters are moved before and after
  steps that may fail. A NAL Unit at a boundary could be in two GOPs or in none.
* Buffers, indices and counters at their limits: `hash_list_idx = -1`, an unsigned
  counter that is decremented without a test, ids that wrap around, loops that look at an element
  before they test the index.
* Keys, hash algorithm and emulation prevention may be set in any order before signing starts and again
  after a reset, with calls that fail half way, while SEIs of before still wait for their signatures, and NAL Units are
  given in parts.
* The bytes of a SEI are written in two goes, with other SEIs in between, while emulation prevention depends on the two bytes
  before; the reader computes from sizes what was put in and where the signature is.
* The validator has to find out what was lost, changed or late from SEIs that may themselves be lost, late or not
  signed. It keeps items, pointers between them, four kinds of status and two linked hashes over many calls, takes the
  first validation back if it looks out of sync, and the GOP counter of the SEIs wraps around.

What makes each component correct: a plugin answers every session with the signatures
of its own hashes, oldest first, and does not sleep while there is work; init, exit, setup
and teardown return. A SEI gets the signature of its own hash. Every NAL Unit is
covered by exactly one SEI, which describes it truly and is signed when due; SEIs are numbered and
linked without gaps. The validator accepts what the signer produced and nothing else.

## 2. The modules

| Module | Models | Checked by |
|---|---|---|
| `SigningQueue` | abstract specification of the order of hashes and signatures (`onvif_media_signing_plugin.h`): per session a queue of accepted hashes, answered in order, refused or given up. The results of the calls are left out | `KeepsPromise`, `LocalKeepsPromise`, `SignaturesInOrder` of the three plugins |
| `ThreadedPlugin` | what the central and the local worker have in common: constants and names | through both |
| `UnthreadedSigning` | the unthreaded plugin, with every slot of `out[]` | run `plugins` |
| `UnthreadedSigningProofs` | its theorems | |
| `Buffers` | removing one session's elements from a shared array (`buffer_reset()`) | through `CentralSigning` |
| `DataLemmas` | lemmas about numbers, sequences and `Buffers` that the proofs share | |
| `CentralSigning` | the central thread of the threaded plugin | runs `central`, `central_sizes`, `plugins` |
| `SigningSetup` | the signing session around its starts: key pair, settings, reset, NAL Units in parts, and what SEIs tell of them | run `setup` |
| `SigningSetupProofs` | its theorems | |
| `SeiWriting` | writing the bytes of SEIs | run `sei_bytes` |
| `SeiBytes` | what happens to the bytes on their way, and reading them (it extends `SeiWriting`) | run `sei_bytes` |
| `SeiBytesProofs` | the theorems of both | |
| `SeiSigning` | signing sessions with their `sei_data_buffer[]` composed with `CentralSigning` (it extends it: a step of a session is a step of the plugin and of the buffer) | runs `sei*` |
| `SeiSigningProofs` | the theorems of `CentralSigning` and `SeiSigning` | |
| `LocalSigning` | the threaded plugin with a thread per session | run `plugins` |
| `LocalSigningProofs` | its theorems | |
| `GopSigner` | a signing session from NAL Units to what SEIs say | runs `gop`, `gop_limit` |
| `GopSignerProofs` | its theorems | |
| `NaluList` | the functions of the validator's list, on sequences of items | through `Validator` |
| `Validator` | a validation session and its report | runs `stream*` |
| `SignedStream` | `GopSigner`, the user who fetches the SEIs, sends a certificate SEI or restarts with another key, the way to the other side with its faults, and `Validator` | runs `stream*` |
| `SignedStreamProofs` | its theorems, which are about the results of the validation session | |
| `MC...` | finite instances | |

`MCSigningPlugins` puts the three ways a session gets its hashes signed in one instance. `way` says which one it is in a
behaviour: a library is linked with one plugin, and `session_setup()` of the threaded one takes the central thread if there is one and starts a
local thread otherwise. They share no state, so a behaviour of it is one of `CentralSigning`, `LocalSigning` or `UnthreadedSigning`. That is why the definitions of the
last two begin with `Local` and `Unthreaded` where the source has one name for all.

`CentralSigning` and `SeiSigning` are a composition on the level of actions:
`GenerateSei(s)` is `PluginSign(s, h)` together with the change of `seiBuf`, so what the session does
inside one call (under the plugin's mutex) is one step, and what the worker does in between
are steps of its own. `GopSigner` decides *which* SEIs are generated and what they say;
`SeiSigning` decides what becomes of their signatures and
`SignedStream` what becomes of the stream. They meet in `generate_sei_and_add_to_buffer()`,
whose failures `GopSigner` has as `AddFails`. `SigningSetup` and `SeiWriting` look at the same function from two more sides:
which key and algorithm a SEI tells of, and which bytes it has.

### How state and actions correspond to the code

**Mutex and condition variable** (`CentralSigning`, `LocalSigning`). The worker holds the mutex while
`wpc = "locked"`; what the other threads do while they hold it is one action, guarded by
`LockFree`. `waiters` is the set of threads in `g_cond_wait()`; `g_cond_signal()` removes one
of them, any one, and every waiter may also wake up for no reason (`SpuriousWakeup`). The
worker signs without the mutex while `wpc = "signing"`. `exit()` is split where it waits
(`ExitStart`, `ExitWake`, `ExitTimeout`) and where it joins (`ExitJoin`). `SetupSeesThread`, `SetupAssertsList` and
`CentralSetup` split `session_setup()` where it reads `central.thread` and where it asserts `id_list`, both without the mutex.

**Assertions.** A step behind an assertion has its condition as a guard: the worker takes a hash only if it fits in the memory of `sign_data` (`plugin.c:447`,
`:610`), a setup goes on only if the list is there (`:809`). When one fails the process is aborted; in the model the thread that failed it stays where it is (`Aborted`,
`LocalAborted`, and a session in `"seen"` without a list), so what the properties say of the other threads then is more than the code needs. `PluginsNext` has a step that changes nothing for such a process, so that
TLC does not take its end for a deadlock. That an assertion never fails is a property of its own: `SetupFindsList`,
`TakenHashFits`.

**Arrays.** `in[]` and `out[]` of the threaded plugin are the sequences of their first `in_idx`
and `out_idx` elements. `inFree` and `localInFree` have the memory sizes of the rest of `in[]`, because
the size of a slot decides if a hash fits. Hashes have sizes, as sessions may have different hash algorithms and a session may change its own
after a reset. `out[]` of the unthreaded plugin is kept as a
whole, as its shift loop depends on which slots have memory.

**Hashes.** A hash is the thing it is the hash of: hashes never collide. In `GopSigner` the hash of a
NAL Unit is its position in the stream and the NAL Unit it is anchored in, and a GOP hash is
the sequence of what it was updated with, so properties can say which NAL Units a SEI is about.

**Keys** (`SigningSetup`). A key stands for its certificate chain and anchor. `set_signing_key_pair()` has one action for each place
where it can end, and all of them begin with `BeginKeyPair`, which replaces the certificates as the code does before anything can
fail. `queue` has the signatures that the plugin owes, `seis` the buffer, `sent` the SEIs fetched. A SEI records what the code
takes from the session at the time: certificates and algorithm when it is generated, the signature and its emulation prevention
when it is completed. `disturbed` is a history variable: the properties name there what the code does not prevent (section
"Disagreements"). Calls that are refused at once are no steps.

**Bytes** (`SeiWriting`, `SeiBytes`). A writer is the bytes so far and `last_two_bytes`, a reader a position and its own two bytes. `Parsed` is
`parse_nalu_info()` for a SEI, also for the unfinished SEI that the signer parses to hash it. `SizeUnit` is the largest byte of a payload
size (255). `Carried` is the way: an encoder may apply emulation prevention if the signer did not, a container may add a zero.

**The validator.** The doubly linked list is a sequence of items in the order of the list; the pointer `associated_sei` is the
number of the arrival of the SEI. One call of `add_nalu_and_authenticate()` is one action, as it is sequential: `Validator` is
a function of the session and the NAL Unit, split like the code into the functions of `oms_validator.c`, with the `do`-loop of
`maybe_validate_gop()` as a recursive function of the number of rounds, at most `MaxLoop` (`Rounds`). The loops over the list that carry
something from item to item are recursive functions of the items as well (`VerifiedItems`, `MarkedItems`), with one operator for what is done to an item
(`VerifyItem`, `MarkItem`): so it can be proved what every step of a loop keeps. The code hashes a NAL Unit when the hash algorithm is
known; the model does at arrival, which gives the same hash (as long as a session keeps one algorithm, which `SigningSetup` is about). A SEI has the number of its key as certificate and as signature; a SEI whose
key is not known yet cannot be decoded (status `E`). A changed NAL Unit has a negative content, hence another hash.
`verdicts` keeps the items that reports have told as validated, for the properties.

**The user of the signer** (`SignedStream`). NAL Units are given to the signing session and put on the wire in turn; a SEI is fetched
at once or up to `MaxWaiting` SEIs late, as signing may take its time, is put on the wire and, as the header
tells (`onvif_media_signing_signer.h:135-150`), is given to the session too. After the end of the stream it is only put on the wire,
as the same header forbids to add NAL Units then. If the scenario says so, a certificate SEI is generated first and
the others carry no certificates; the user may also start a new session with another key (`RestartWithNewKey`).

**Scenarios** (`GopSigner`, `SignedStream`). `scenario` is a variable that `Init` chooses from the constant `Scenarios` and
no step changes: the length of the stream, the size of the hash list, the events and faults that may occur. One run so has long streams
that nothing disturbs and short ones with everything; properties that only hold undisturbed say so (`Undisturbed`, `faults = <<>>`).

**Outcomes of the environment.** Failing OpenSSL and failing allocations are choices,
switched by the constants `SigningMayFail`, `AllocMayFail`, and in `GopSigner` by `Events`.
Each run names the ones it allows; what a run without them shows is only claimed without them.

## 3. The runs

Bounds, and why they are enough:

| Run | Instance | Why |
|---|---|---|
| `plugins`, central thread | 2 sessions with hashes of two sizes, 2 slots, ids wrap around; all failures, one session with too little memory, `exit()` may overtake; fair | the safety properties are proved for all values; both buffers are full at once, and the assertion on sizes fails |
| `plugins`, local thread | 3 hashes, one of them of another size, 2 slots, all failures; fair | both buffers fill, at every phase of setup and teardown; a slot is refused for its size and the assertion on sizes fails |
| `plugins`, unthreaded | 4 slots (3 usable), 3 hashes | a waiting, a fresh and a travelling slot at once; proved for all lengths |
| `central` | 2 sessions, 2 hashes, 2 slots, ids 1..3 of which 2 are given out, hashes of one size; signing and allocations may fail | both buffers fill, two sessions interleave in them, and a session follows another whose hash is still being signed. No id is given out twice here, which `WaitsForItsOwn` needs; that ids may wrap around is covered by the proofs of the other properties and by `plugins` |
| `central_sizes` | the same with 1 hash, hashes of two sizes and no failures | the smallest one with two hash algorithms |
| `sei` | 2 sessions, 3 SEIs each, SEI buffers of 2, plugin buffers of 2, all failures; fair | the safety properties are proved for all values; SEI buffers fill and are reused, a session at the head of `out[]` blocks the other, everything overflows |
| `gop` | every stream of 7 NAL Units of 5 kinds, undisturbed; every stream of 5 with all events but changed settings, one end and a hash list of 3; every stream of 4 with all events, two ends and a hash list of 2; frequency 1 or 2, frame limit none or 2 | up to six GOPs, partial and whole, two signing periods; overflow, failures, resets, certificate SEIs and the end combined; proved for streams, GOPs, frequencies and limits of all sizes |
| `gop_limit` | streams of 6, frequency 2, limit 2, nothing disturbs | two GOPs and a signature for both |
| `stream` | frequency 1 or 2, frame limit none or 2, a counter of 8 numbers; streams (SEIs included) of 11 untouched with SEIs up to 2 late and up to two ends; of 7 with any 2 faults; the same with a certificate SEI, of 9 untouched and of 7 with a fault; of 6 with a new key, a trusted certificate set again and a loss, 3 of them; of 20 with I-frames only and a loss | GOPs whole and cut, several signing periods, more than one SEI without a signature; a lost SEI is noticed only with the next one, so one fault and what follows it fit, and a fault may hit what recovers from another; the counter wraps around while something is lost. With a counter of 4 numbers a loss of half of them would look like a wrap-around, which 2^32 numbers do not allow in practice |
| `stream_tuned_in`, `stream_loses_one` | streams of 9 with frequency 1 | the shortest counterexamples |
| `setup` | 2 keys, 2 algorithms, 4 NAL Units in one or two parts, 5 setup calls or resets, 2 SEIs that wait | a key pair that fails and one that is set, a certificate SEI, a reset and a setting after it, with a SEI of before still waiting; with 4 NAL Units a GOP ends before the reset and another one after it, so that SEIs of both are sent; proved for all values |
| `sei_bytes` | all documents of one TLV with up to 3 bytes 0, 1, 3 or two TLVs with up to 2; then three others; three signatures; payload sizes of up to 4 bytes | emulation prevention looks back two bytes: 3 bytes and what precedes and follows them have all the cases, also across the borders of TLVs and in front of the signature tag |

`MaxNalus`, `maxEnds` (the SEIs for an end of the stream, which the code generates as often as it is told), `MaxSei` and `LastUsedId` are bounds of the models only. The code has no bound on the stream;
the runs that have one say `CHECK_DEADLOCK FALSE`, as a stream that has reached it ends. `LastUsedId` caps the ids given out
when it is not `MaxId`; with `LastUsedId = MaxId` ids wrap around.

The plugin promise (`KeepsPromise`, `LocalKeepsPromise`) is the refinement of `SigningQueue`, with the hashes in
`out[]`, in signing and in `in[]` as what a session waits for. `SignaturesInOrder` is the same for the unthreaded plugin; it is named for the order because that
is all it says: what the header promises of the result of `get_signature()` does not hold there (section "Disagreements"). In the run `central` the sessions are closed
before `exit()`, as the interface asks for; with `ExitMayOvertake` handles can become stale, and
`plugins` checks what holds even then. `SetupFindsList` is one of the properties that do not: `session_setup()` sees the central thread, `exit()` frees the list, and
the assertion fails.

What only holds under a condition: `SignatureMatchesSei` holds for sessions whose plugin has not given up a signature, by failing or
because `out[]` overflows (`lost`; section "Disagreements" says what happens otherwise), and `SeisAreCompleted` likewise;
`EveryNaluIsCovered` holds for streams that start with an I-frame and are not ended, reset, interrupted
by certificate SEIs, or failing (`Undisturbed`); `AdminCallsReturn` allows for a worker that has ended for want of memory before
`init()` saw it run, in which case `init()` waits for ever. `TakenHashFits` would hold if all sessions had one hash size, which
nothing asks of them; `central_sizes` has two. `AdminCallsReturn`, `HashesAreTaken` and `LocalHashesAreTaken` allow for the process having been aborted by the assertion on sizes.
`SignedWhenDue` goes by the code's own count of frames, which starts again with every SEI; what the header says of the limit is `LimitIsKept`, which `gop_limit` refutes.
`UntouchedIsAuthentic` holds if no unsigned SEI is fetched after the end of the stream (`UnsignedAreHashed`), and `BacklogIsBounded` if
SEIs are fetched at once (`prompt`): when they come a GOP late and the signing frequency is 2, an unsigned SEI may only ever be covered
by unsigned SEIs, as a signed one always covers a GOP with another signed one in it; they then wait, with the items they
cover, and the list grows without bound. The damage that `NoChangedNaluIsValid` is about is that of the stream: that a forger cannot
sign is assumed. It is about the NAL Units that SEIs hash, the unsigned SEIs among them; for signed SEIs it is false (section "Disagreements").
`EndIsValidated` holds under `UnsignedAreHashed` too, and for streams that have frames and end once: the SEI of a stream without any covers nothing, and neither does that of a second end.
`NotOkStays` holds once the first validation is over (section "Disagreements" says what happens before). `OverallOkIsEarned` is about the
accumulated result: it is never better than its parts, and an OK has certificates that chain up to a trusted one. It says "trusted at some time", as a trusted certificate
that is dropped does not take back what it has verified, and it is about the certificates decoded last (section "Disagreements").
It does not say that every item of the report is valid, which `stream_loses_one` refutes.
`SeisCanBeVerified` and `NalusAreHashedWhole` have the exceptions of `disturbed`: a key pair set again (`keys`), emulation prevention set while
SEIs wait (`waiting`), a hash algorithm set after a certificate SEI told of another (`certified`) or between two parts (`part`), SEIs that leave it to
a certificate SEI that was never generated (`uncertified`), and a first part that was refused (`refused`).
`WaitsForItsOwn` is about ids that have not wrapped around (`LastUsedId < MaxId`): a new session with the id of a closed one whose hash is being signed would get its
signature. `SidesAgree` is checked
where what is in front of the signature, with emulation prevention, is no longer than all TLVs without (`AllHaveRoom`), as in the code with common keys, whose signatures
take hundreds of bytes. The size comparison in `oms_common.c:478` and the search behind it, which goes as far as `tlv_size` bytes that do not count emulation prevention,
rest on it: TLC refutes `SidesAgree` at once if signatures have one byte and a document has 15 zeros, as the signature then lies behind the end of the search and the SEI is taken
for an unsigned one. `HasRoom` is what the proof needs, and it is the hypothesis of the theorem.

### Fairness

* The worker (`WF(WorkerStep)`, `WF(LocalWorkerStep)`): the thread is scheduled, a signature ends, and the mutex
  is only held for short critical sections.
* init, exit, setup and teardown (`WF(AdminStep)`, `WF(LocalCallStep)`): a call goes on when it can. Both
  loops of `init()` and local setup get the mutex if they find it free again and again (`SF`), because the
  worker may take and release it for ever; weak fairness would let them starve.
* Nothing is assumed of the sessions, who may stop calling, except in `sei`, where the users
  keep calling `get_sei()`: without it no SEI is ever fetched. Strong fairness is needed because another thread may hold
  the mutex each time.

### Disagreements

Five runs expect a violation. Each is a disagreement between the code and what its
comments or headers say, with the counterexample TLC prints:

* `sei_error`: the SEI whose signing failed stays behind, and then gets the signature of a later SEI.
* `central_sizes`: two sessions with different hash algorithms break the worker's assertion (`threaded-signing/plugin.c:447`). The memory of `sign_data->hash` has the
  size of the first hash ever handed over, every slot of `in[]` that of the first hash put there, and `sign_hash()` compares a hash with its slot only. A session with a thread of
  its own breaks the other assertion (`:610`) the same way if its hash algorithm is changed after a reset (`LocalAborted`).
* `gop_limit`: more frames than `max_signing_frames` pass before a signature is requested, where the header says "Maximum number of frames covered by a signature"
  (`onvif_media_signing_signer.h:397-413`). The count starts again with every SEI, signed or not: with signing frequency 2 and limit 2, `I | I P | I` has
  its first signature after three frames.
* `stream_tuned_in`: a validator whose first NAL Unit is the SEI of a GOP it has not received finds the untouched
  stream not authentic, for good. `verify_hashes_without_sei()` marks one NAL Unit as invalid, just because it has to
  mark one (`oms_validator.c:323-328`), and the first validation that would be taken back is over by then.
* `stream_loses_one`: after a SEI is lost the report is OK although it has a NAL Unit that failed verification. The first round of
  the validation marks the NAL Unit and is taken back (`oms_validator.c:507-537`), but what it has left in the latest result makes the
  next round count one invalid NAL Unit less.

Others were met while modelling and are part of the models or were seen on the way, without a run of their own:

* `session_setup()` reads `central.thread` and asserts `id_list` without the mutex (`threaded-signing/plugin.c:808-809`): an `exit()` that overtakes it makes the assertion fail.
  The interface asks for all sessions to be closed before `exit()` (`onvif_media_signing_plugin.h:147-152`).
* When the hash list overflows, `hash_list_idx` is -1, and the SEI says that its GOP has 65535 NAL Units (`oms_signer.c:551`).
* `set_end_of_stream()` does not finalize the GOP hash: the SEI repeats the one of the GOP before, and only its hash list is of the
  last GOP. The validator falls back on the list, so the stream is authentic to its end (`EndIsValidated`).
* `add_nalu_for_signing()` after `set_end_of_stream()` is accepted, where `onvif_media_signing_signer.h:516` promises
  `OMS_NOT_SUPPORTED` (event `afterend`). A user who does as the header says cannot have a late unsigned SEI hashed after the end,
  and an untouched stream with signing frequency 2 is then found not authentic.
* `number_of_pending_nalus` counts the items that stand for missing NAL Units too (`onvif_media_signing_validator.h:233`).
* `oms_internal.h:152-154` has it that a reset may set `signing_present` back to false; `validation_flags_init()` keeps it (`oms_common.c:691-696`).
* A second `set_signing_key_pair()` is refused, as `onvif_media_signing_signer.h:289` promises, but it has replaced the certificates and dropped
  the anchor by then: SEIs tell of certificates that their signatures do not fit. A third call succeeds and forgets
  the plugin handle with all its signatures; if the third one fails at the private key, the memory for signatures is gone and no SEI
  is completed any more. And a valid pair is refused if the first call failed at the private key, as the anchor stays.
* `set_trusted_certificate()` has the same root (`oms_openssl.c:137-180`): it is accepted after validation has started
  (`onvif_media_signing_validator.h:440-447`), a refused second call drops the first certificate, and the provenance stays OK after a third one.
* Intermediate certificates are refused: `X509_STORE_CTX_get_num_untrusted()` is 0 before the verification (`oms_openssl.c:240-241`), so that
  only a leaf certificate alone passes the test; `onvif_media_signing_validator.h:433-435` has intermediate ones.
* A NAL Unit whose first part is refused for want of a key is still remembered as begun (`oms_signer.c:522-541`): the next NAL Unit is
  taken for its continuation, and a GOP that begins there is not seen.
* `set_hash_algo()` is accepted after a certificate SEI that told of another algorithm, and between two parts of a NAL Unit; emulation
  prevention may be changed while a SEI is half written. The validator cannot verify what comes of it.
* `reset()` turns `use_certificate_sei` off. With certificate SEIs in use and none received every signed SEI fails to be decoded, no
  report is made and the list is never cleaned; and a certificate SEI that comes in mid-stream is taken for an old one (`lost = -1`), so that
  it is marked invalid though the result is OK. The header wants it to be the first SEI (`onvif_media_signing_signer.h:87-89`).
* The signer restarts with another key and the validator does not tell. The change is noted when a signed SEI is added
  (`oms_tlv.c:864-866`) and overwritten at the first round of the validation that follows (`oms_validator.c:1112`), so that with signing
  frequency 1 SEIs verified with two keys are reported and `public_key_has_changed` is not set, where `onvif_media_signing_validator.h:126-128` and `:218` say it is. The test of it is commented out
  (`tests/check/check_onvif_media_signing_validator.c:2567`).
* A stream is reported as not authentic, and by the next report it is not feasible to validate. A key that changes before
  the first validation is over makes the result `NOT_OK` (`oms_validator.c:535-537`) although that validation is taken back; the next one, taken back as well, gives `NOT_FEASIBLE`, which
  `update_accumulated_validation()` takes for a worse result, as its number is smaller (`oms_authenticity_report.c:276`), where "This state is only shown before the first validation"
  (`onvif_media_signing_validator.h:92-93`). Planning the proof of `NotOkStays` showed it: without the conjunct `~session.isFirstValidation` its invariant would need that nothing is accumulated from
  a validation that is taken back, and TLC finds the counterexample in streams of 10 with signing frequency 2, a new key and up to four losses.
* The overall result is OK although a valid SEI was signed with an untrusted key, if the certificates of another key, which are trusted, are decoded after it: the provenance is
  that of the certificates decoded last (seen with a reset, a new key and a certificate SEI that comes late).
* The overall result is OK although NAL Units failed verification in other cases than `stream_loses_one` (with a SEI that is late and another that is changed), from the same place (`oms_validator.c:551`).
* A session that was told of one hash algorithm, is reset, set to certificate SEIs and another algorithm, and generates no certificate SEI, signs SEIs that a validator checks with
  the first one (`oms_signer.c:242`, exception `uncertified`). Planning the proof of `SeisCanBeVerified` showed it, and the run reaches it with 4 NAL Units.
* A signed SEI whose signature failed verification is reported with the status `.`, "The NAL Unit has been validated as authentic" (`onvif_media_signing_validator.h:155`). As long as
  SEIs and GOPs are not in sync `maybe_validate_gop()` leaves the SEI pending and keeps its status in a local variable over the rounds of a call (`oms_validator.c:836-841`, `:1097`).
  A round that finds an unsigned SEI good may be followed by one that is about a signed SEI which is not judged, as SEIs are lost; at the end the status of the first is set on the
  second (`oms_validator.c:848`). The search for an inductive invariant of `NoChangedNaluIsValid`, which then was about signed SEIs too, led to it. TLC finds it at depth 25 in streams of 13 with
  signing frequency 3, tuned in to late, and a changed SEI, with `item.status = Valid /\ IsSigned(item) => item.verified` for the items of the report as the invariant;
  with two losses more the SEI keeps that status to the end.
* The memory of a SEI has one byte of emulation prevention for three bytes, "Worst case will add 1 extra byte per 3 bytes" (`oms_signer.c:277-279`). A run of zeros takes one for two, as `WriteByte` shows. TLVs
  as the code writes them hold no long one, and the size of the memory is not modelled.
* The certificates of unsigned SEIs are decoded too, where the comment says they are not (`oms_validator.c:927`).
* Unthreaded `get_signature()` returns true and `OMS_OK` for a signature that did not fit and was dropped (`unthreaded-signing/plugin.c:112-132`); the interface
  promises false and an error code (`onvif_media_signing_plugin.h:79-90`). The threaded plugin does that. `complete_sei()` is written for the other way, as it frees
  a SEI whose signature has size 0 (`oms_signer.c:134-136`). The model records what was returned (`got.found`); `SignaturesInOrder` does not judge it.
* A full `out[]` does not stop the central thread, as `threaded-signing/plugin.c:34-35` says: it drops what the
  session of the next signature waits for. The SEIs of that session then get later signatures, which is what
  `oms_signer.c:417` wonders about.
* Slices before the first I-frame are counted in the first SEI, and in its hash list, but are not in
  its GOP hash (event `leading`).
* `onvif_media_signing_reset()` leaves the primary hash context alone: the GOP hash survives a reset (event `reset`).
* `set_end_of_stream()` may be called again and generates another SEI, without hashes of its own and with the number of the last one, which then waits in the validator's list for ever
  (`EndIsValidated` is about one end); the stream stays authentic.

## 4. The proofs

For every number of sessions, ids, hashes and slots, TLAPS proves:

* `UnthreadedSigningProofs`: types, `NoReadPastEnd`, `WaitingAreSigned` and that signatures come in the order of `SigningQueue` (`OrderIsKept`). The inductive invariant says
  that the allocated slots are a prefix of the array, which the last slot is never part of, that the first `out_idx` of
  them hold signatures, and that the others are stale. `NoReadPastEnd` follows: the loop meets
  a slot without memory before the end. It needs a buffer of at least 2. For the refinement, every action maps to one of
  `SigningQueue`: what waits is the sequence in the first `out_idx` slots, which signing appends to and the shift loop
  takes the head of.
* `LocalSigningProofs`: `NobodyOversleeps` and that the plugin implements `SigningQueue` (`PromiseIsKept`), whatever sizes the hashes have, whatever fails and
  whenever a thread wakes up without a signal. `Phases` relates where the session and the worker are: without it,
  nothing tells that a session that waits has a worker which will signal it. `PendingMoves` says what the queue of signatures,
  the hash being signed and the hashes in wait become when an element moves on; `StepAsSeen` reduces every step of
  the two threads to what the session can tell of it, and the steps of `SigningQueue` are matched with that.
* `SeiSigningProofs`, for the plugin (`CentralSigning`): types, `RunningIsUsable`, `OutputIsClaimable`, `SleepsOnlyWhenIdle` and that no two of worker and administrator wait at a time (`SignalReachesTheWaiter`).
  `IInv` adds two parts to them. `Phases` relates the threads: where the worker may be for each phase of the
  administrator, whether `is_running`, `sign_data` and the list are set, and what is left in the buffers. `Waiters` says
  who may be in `g_cond_wait()` in which phase. They are needed as neither wake-up property is
  inductive: that the worker does not sleep after being told to stop depends on whose signal comes last. The proof has a
  step for each action (`StepKeepsIInv`). On top of it:
  * `SetupAlwaysFindsList`, if `exit()` comes after the sessions are closed (`~ExitMayOvertake`, which the interface asks for): a setup that has seen the thread will find the list of ids, whatever
    other sessions do in between. `RunningStaysUsable` has no such hypothesis, and is about what is done under the mutex only.
  * `HandlesStayActive`, under the same hypothesis: `Handles` says that handles and listed ids
    correspond one to one, also when ids wrap around.
  * `PromiseIsKept`, the refinement of `SigningQueue`, under the same hypothesis. The queue of a session is read off three places, `out[]`, the hash being signed and `in[]`; `PendingSteps` says for
    every action what it does to the queues of all sessions at once: one grows, one loses its head, some lose elements or all, the others stay.
  * `EverySessionWaitsForItsOwn`, if besides ids are not given out twice (`LastUsedId < MaxId`): the id of a hash that is still being signed for a closed session is smaller than the next id. Without that
    hypothesis it is false, as the run's mutant `NewIds_Lowest` shows.
* `SeiSigningProofs`, for the SEIs (`SeiSigning`): `SignaturesHaveSeis` and `SignatureMatchesSei`, whatever fails and overflows. Counting SEIs and signatures would not do, as only their order relates them. The invariant
  (`Owes`) says that what the plugin still owes a session is, in this order, the list of the hashes of its incomplete SEIs, or if a signature was given up, that it is no longer than that list.
  A step of a session is a step of the plugin, so the plugin's side comes from `PendingSteps`.
* `GopSignerProofs`: all six properties of the run `gop` and the types, for streams and GOPs of every length, every signing frequency and frame limit.
  `Counting` bounds the counters by what was added, so that the unsigned counter is decremented at 1 or more only. `Order`
  says that the hashes in the context come after those in all SEIs; `Numbering` relates `current` to the SEIs since the last reset. `Undistorted` says, for undisturbed streams,
  that list and context are the same, what the pending linked hash is, and what a SEI says (`Describes`). `AllCovered` says that the hashable NAL Units are exactly those in the
  SEIs and in the context, and `Due` that the two counters of frames and GOPs are what the stream says they are, with the number of GOPs that have ended modulo the signing frequency.
* `SigningSetupProofs`: `SeisCanBeVerified` and `NalusAreHashedWhole`. The SEIs that were sent and those that wait are one
  sequence (`AllSeis`), which generating a SEI appends to and in which fetching moves a border. `InTurn` says that a prefix of it is signed
  and that the plugin owes the signatures of the next ones; `OneKey`, `EncodedAlike` and `AlgorithmIsTold` say of all its elements what the properties say of those that were sent, but also what the
  signatures to come will be of; `Whole` says what a digest may contain while a NAL Unit is half given.
* `SignedStreamProofs`, about the results: `OverallOkIsEarned` and `NotOkStays`, for streams of any length and any number of faults. The invariant (`SessionInv`) relates the results kept in the session to each other:
  the verdict on the key that is known (`KeyIsJudged`), what the latest result may be before and after the first validation (`FirstIsTold`), and how the accumulated results
  go together (`PartsAgree`). The list of items matters here only through the results that are computed from it, so each function
  of the validator has a lemma on what it leaves alone (`...Frame`) or keeps (`...Keeps`). The loop of rounds is a recursive function on 0..`MaxLoop`; its
  existence is shown by an explicit witness, ten rounds written one after the other.
* `SignedStreamProofs`, about the list: `NoDanglingSei` (`NothingDangles`), `ReceivedIsAccountedFor` (`NaluAlwaysAccountedFor`) and the types of signer, way and validator together
  (`SidesStayTyped`), all from `ListStaysInOrder`. The invariant (`StreamInv`) has, beside the types of both sides, that the list is in the order of arrival, apart from
  items for missing NAL Units, that an item points to one that arrived later and is in the list (`ListOK`), and that the numbers of the
  arrived items in it are exactly those from `validated + 1` to `received` (`SessionOK`). Neither property is inductive without that: what the clean-up frees is a prefix
  of the list, and only the order tells that no item behind it points into the prefix; and the count of validated NAL Units grows by what the clean-up
  takes out, which are consecutive numbers only if nothing that arrived was taken out or put in elsewhere.
  Each function of `NaluList` and `Validator` has a lemma on what it does to the list: most only change statuses or drop associations (`Preserved`), adding and removing items for
  missing NAL Units leaves the arrived ones as they are (`Reshaped`), the clean-up takes a prefix. The rounds are walked through again with them.
* `SignedStreamProofs`, about what was changed: `NoChangedNaluIsValid` (`ChangedNaluIsNeverValid`), for any losses, changes and delays, keys and restarts. The inductive invariant (`StreamTruth`) adds to
  `StreamInv` that every hash that a SEI says, on its way or decoded, is one that the signing side has calculated (`TrueWay`, `TrueData`), that an item has the hash of its NAL Unit as it came
  (`HonestItem`), and what is known of the changed items (`Damaged`) that still wait. That they are not valid is not inductive: a verdict is kept in an item until its SEI is verified
  (`validation_status_if_sei_ok`), a whole GOP is marked as good as its SEI, also through other SEIs, and in the first validation verdicts are taken back and a SEI is verified again. The invariant
  therefore says of a changed item that waits that it is associated with no SEI, has failed already, or is associated with a SEI which is signed and was verified before, so it will
  not be marked again (`ListCovered`). While a SEI is verified that is known of all other SEIs only (`CoveredBut`), and for the SEI itself it is shown anew: if the GOP hashes are equal no changed
  item was hashed, and if they are verified one by one a changed item has no match (`Doubted`). When a first validation is taken back its SEI may wait again; that is safe as nothing is
  associated with a SEI between two calls until the first validation is over (`SessionIsTrue`, `AllFree`), and `Clear` says what holds between the verdict and the end of the round. `Stem` says what a function
  may make of an item, and each function of `Validator` has a lemma on it (`...Stems`), then each round, each call and each step of the stream (`...IsTrue`).
  Signed SEIs had to be left out, which is the finding on the status of a failed SEI in section 3. `mark_associated_items()` follows pointers from item to item: `Reachable` shows that such a
  recursive test has a solution, as the smallest closed set.
* `SeiBytesProofs`, about writing: `NoStartCode` (`NothingLooksLikeAStartCode`), for all documents, signatures and sizes of buffers, and however SEIs are begun and completed. The
  invariant is that every SEI, complete or not, is a writer from which it is safe to go on (`SafeWriters`): its bytes hold no start code, and
  if they end with one or two zeros, then the two bytes it remembers say so. The remembered bytes need not be the last two: the byte of flags is written without
  being remembered, and header and sizes are written without emulation prevention, so that each of the parts of `GenerateSei` has its own step.
* `SeiBytesProofs`, about reading: `SidesAgree` (`WhatIsWrittenIsRead`) as long as all SEIs have room (`AllHaveRoom`), and the same SEI by SEI (`RoomIsEnough`). The invariant
  (`AsWritten`) says that every SEI is a head and a list of TLVs that one writer has written, as if the SEI had not waited; once complete, the signature is in the list and the stop bit
  behind it. That holds as a SEI keeps the two bytes it was left with, which the session's own bytes are not (the run's mutant `CompleteSei_SessionBytes`). All else is about one complete SEI:
  * whichever way it takes it arrives as the work of one writer, with emulation prevention or without (`Travels`), as applying it later to the whole NAL Unit gives the bytes that the signer would have written with it
    (`EscapedLater`), and its bytes can be counted from the payload size (`WireShows`);
  * `read_byte()` undoes `write_byte()` from every place where reader and writer agree on whether two zeros are behind them (`Near`, `ReadBack`). They need not remember the same bytes: the reader of the TLVs starts with two
    ones, the writer remembers the UUID. With one zero remembered by one of them only, agreement is back behind the next byte that is not 0, which the tag of a TLV is;
  * so the readers of `tlv_find_tag()` are where the writer was between two TLVs (`Walk`), and the search stops at the signature or not at all (`SignedFound`, `NoneFound`), both in the bytes
    with emulation prevention and, if hashing is to be done without, in those it was removed from. The room is needed here, and to show that the signer does not look for a signature in a SEI that has none yet (`WaitingHashed`);
  * `tlv_decode()` undoes the encoding (`DecodesBack`), as no length is longer than what two bytes can tell (`LengthRange`).

  For this proof reading is written with functions of the number of bytes and TLVs read, not with recursive operators.
* `DataLemmas`: the lemmas that the proofs share. `buffer_reset()` keeps all other elements, in particular it never makes a buffer longer,
  and `Select` returns elements of the buffer only; and what appending, taking and dropping elements does to the hashes of one session (`HashesOf`), which is what the proofs of the plugin and of the SEIs rest on.
  `Buffers` is written with cardinalities instead of recursion, so that this can be proved. Loops are proved about without an induction theorem, which the provers cannot instantiate: a set of numbers that is not empty has a
  smallest one (`LeastExists`), so a set that holds 0 and with each number the next one holds all of them up to a bound (`UpToAll`), and a function that
  makes steps of a kind stays in a set that such steps do not leave (`StepByStep`).

The assumptions are those on the constants in the modules (`ASSUME`), which TLC evaluates in the runs, the hypotheses named in
theorems of `SeiSigningProofs`: `~ExitMayOvertake` and `LastUsedId < MaxId`, both of which the run `central` satisfies, and `AllHaveRoom` in `WhatIsWrittenIsRead`, which
holds in every state of `sei_bytes`.

Only model-checked:

* liveness (`AdminCallsReturn`, `HashesAreTaken`, `LocalCallsReturn`, `LocalHashesAreTaken`, `SeisAreCompleted`), as fairness and `ENABLED` are out of the prover's reach;
* `UntouchedIsAuthentic`, `EndIsValidated` and `BacklogIsBounded`. They need an invariant that couples the signer's GOPs with the validator's list over a whole signing period: for every
  SEI under way, which items it will be associated with and that their hashes are what it lists;
* the bounds in `StreamTypeOK` on the GOP counter, the number of lost SEIs and the number of NAL Units of a GOP; the rest of it is `SidesTyped`, which is proved. `current_partial_gop`
  is 64 bits wide and is incremented for a GOP without a SEI (`oms_validator.c:428`), so its bound holds for the streams of the run, and not by the shape of the code.

## 5. Not modelled

* Of the validator: a newer version on the signing side, timestamps and numbers of frames in the report, failing allocations and OpenSSL calls.
  The way does not duplicate NAL Units.
* Of the setup: vendor info, the maximum payload size and low bitrate mode, which change only what a SEI carries (what a dropped hash list
  does is in `GopSigner`), keys with signatures of different sizes, user provisioned keys (the code refuses them).
* What is inside the TLVs other than the signature: their values are a few bytes in `SeiWriting`, and abstract in the other modules. The bits of slice
  headers: the kind of a NAL Unit is an input. The size of the memory for a SEI.
* OpenSSL itself: hashes never collide, a signature is valid for its hash and key only.
* Helpers that read files: pure input. The example applications: users of the library, no part of it.
* The element behind `in[]` that the shift loop of the local worker looks at when all slots have memory (`plugin.c:617`). What it reads there does not
  matter, as the test of the index that follows ends the loop.

## 6. Plan

Done: `UnthreadedSigning`, `CentralSigning`, `SeiSigning`, `LocalSigning`, `GopSigner`, `SigningSetup`, `SeiWriting`, `SeiBytes` and `SignedStream` with proofs, the last one with
certificates, provenance and restarts, and with the items of the validator's list; `NaluList` and `Validator`.

1. `UntouchedIsAuthentic` as a theorem, on top of `StreamInv` and of what `Undistorted` says of the SEIs.
2. NAL Units that are duplicated on the way.
