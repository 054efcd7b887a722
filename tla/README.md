# ModelCommons in TLA+

A verification development kept beside ModelCommons: TLA+ modules translated
from the source, TLC configurations that check them on small instances, and
TLAPS proofs of what matters most for instances of every size.

ModelCommons lets applications run local language models. A *runtime* loads
GGUF files into native llama.rn contexts; a *model store* downloads, verifies
and offers those files; an *embedded composition* puts both into one
application; on Android a *Hub* application shares its models and its inference
with other applications over Binder; a *client SDK* and OpenAI- and
Anthropic-shaped *providers* sit on top.

`PROJECT.json` lists every component, run, mutant, finding, hazard and theorem,
and maps every definition to the lines it stands for.

## 1. Inventory

| part | source | state it keeps | operations | what is hard about it |
|---|---|---|---|---|
| llama.rn runtime | `packages/runtime-llama-rn/src/runtime.ts`, `mutex.ts` | entries and pending cleanups by key, reference counts, released flags, lifecycle mutex, one operation mutex per context, sessions with their jobs and release attempts | createSession, stream, cancel, session release, runtime release | contexts shared by sessions; cleanup that fails half-way and is retried; a shutdown beside releases and unfinished loads; `stopCompletion()` that addresses a context and not a request |
| model store, writer | `packages/model-store/src/store.ts`, `registry.ts` | `registry.json`, artifacts, `.part` files; queue and lease counters of a root | install, remove, acceptLicense, acquire, lease release | death between two native operations; leases outside the queue; swallowed failures |
| embedded composition | `packages/embedded/src/index.ts` | active session, loading job, closed, poisoned, close attempt, orphaned lease | createSession, session release, release | close during load; who owns the lease when |
| client SDK | `packages/client/src` | operation token, release attempt, validator state of a stream, connection | createSession, generate, stream, cancel, release | single flight across awaits; the terminal event held until the producer ends |
| Hub model store | `services/modelcommons/modelStore.ts` | registry with `.next`/`.previous` files, resume data, migration journal | initialize, download, verify, delete | interrupted swaps, mutation against inference |
| Hub runtime, lifecycle | `services/modelcommons/hubRuntime.ts`, `lifecycle.ts`, `selection.ts`, `store/inferenceStore.ts` | persisted settings, memory of failures, device profile, the screens' copy of the registry | start-up, refresh, create session | several asynchronous measures of one device; settings merged late, from storage that may hold any part of them; the same gate written three times, over two copies of the registry |
| Android inference service | `service/ModelCommonsService.kt`, `InferenceBackend.kt` | sessions, operation per session, event credit, process-wide inference slot | createSession, generate, acknowledge, cancel, releaseSession, revoke, clock | Binder threads, worker, death recipients and clock against each other; deadlines |
| Android Hub client | `client/AndroidHubClient.kt`, `src/androidTransport.ts` | connection, operations, pending delivery; the script's generator | createSession, generate, onEvent, acknowledge, cancel, release, close | credit; late callbacks; terminal events made in the client |
| providers | `packages/provider-openai`, `packages/provider-anthropic` | translator state of a stream, the body's pull and cancel | request parsing, completion, streaming | order of wire events; aborts at every await; a release that rejects after the last frame |
| device profiles | `packages/device-profile` | none | profiles, resolution | boundaries and ordering of the checks |
| the rest | see "Not modelled" | | | |

How they interact: the embedded composition and the Hub acquire a lease from a
store, hand it to the runtime with the model (the runtime returns it after the
context is gone) and wrap the session for a transport; the client SDK drives
transports; providers consume the client. Store, native files and runtime meet
only at the lease. Between the Hub's process and an application's, calls are
synchronous and events travel one way, one at a time, against a credit.

## 2. Modules

| module | what it is |
|---|---|
| `AsyncMutex` | the promise-chain mutex: enter at the tail, run at the head, leave |
| `NativeResources` | abstract: contexts live once and within the limit; a lease returns after its contexts |
| `LlamaRuntime` | the runtime: pool, sessions, streams, shutdown; implements `NativeResources` |
| `ModelCatalog` | abstract: models are offered, used while offered, never withdrawn under a user |
| `ModelStore` | the writing store over one root; implements `ModelCatalog` |
| `HubMetadata` | one JSON file of the Hub's store, interrupted anywhere |
| `HubModelStore` | the Hub's store: start-up and repair, resumed downloads, deletion, verification, the gate |
| `CanonicalStream` | abstract: what one consumer of a stream may observe |
| `ClientSession` | the session of the client SDK; implements `CanonicalStream` |
| `EmbeddedBackend` | the embedded composition behind a provider |
| `BinderHub` | Hub process, client process and script, end to end; implements `CanonicalStream` |
| `ProviderRequests` | what the endpoints, the protocol and a loaded model take, as operators |
| `ProviderDialects` | the three stream translations, one operator per branch of their loops |
| `ProviderStream` | one request to a provider: adapter, body callbacks, backend session |
| `DevicePolicy` | the four profiles and `resolveRuntimeProfile()`, as operators |
| `ModelSelection` | the selection functions of the SDK and of the Hub, as operators |
| `HubSessions` | settings, failure memory, start-up and admission of sessions in the Hub |
| `LlamaRuntimeProofs`, `ModelStoreProofs`, `HubMetadataProofs`, `HubModelStoreProofs`, `ClientSdkProofs`, `BinderHubProofs`, `ProviderStreamProofs`, `HubSessionsProofs` | theorems and their proofs |
| `MC...` | instances for TLC |

Definitions commented "A mutant" are plausible bugs kept beside the definition
they would change; no specification uses them. TLC finds the property named in
`PROJECT.json` violated when one takes the definition's place.

### LlamaRuntime

JavaScript runs to completion, so a step is all the code between two answers of
native calls, with the microtasks it settles. Each awaited native call of the
pool is a value of `at` (`load`, `undoContext`, `undoLease` in `acquire()`;
`stop`, `context`, `lease` in cleanups; `next` between two iterations of
`releaseAll()`), each of a stream a value of `stage`. The lifecycle mutex is the
sequence `lifecycle` of its callers; the operation mutex of an entry is its
`lane`. A session is one `createSession()` call, and the entry or pending
cleanup that call creates carries its name; `entries` and `pendingCleanup` are
the two maps, read through `EntryAt(key)` and `PendingAt(key)` where the code
reads them by key. `context` and `lease` record what really happened behind the
bridge, so the flags of the code can be compared with it.

Assumed of what is outside `src/`: a native call answers once; a rejected
`context.release()` or `lease.release()` changed nothing; `stopCompletion()`
reaches the completion the context is running at that moment; a lease that was
returned fails `inspectFile()`, so no context is loaded under it; every key with
a lease has a lease of its own.

`createSession()` does not look again at the runtime after `acquire()`. A session
whose load was under way when `release()` began is therefore built while the
runtime closes, can start streams, and may lose its context under a stream. The
model has these sessions (history variable `late`); three properties except them
explicitly, and `ShutdownIsClean` shows that even so nothing is left over: the
second round of releases finds and finishes them.

### ModelStore

A root has a queue (`exclusive`), and everything but the release of a lease runs
in it. Each native operation that changes the disk is a step. Between two steps
`Crash` may take everything that is not on disk. A rejected registry write may
have happened all the same (`PublishFails`). An artifact is `absent`, `good` or
`bad`; `Tamper` damages files from outside. `list()`, which changes no state, and
the `onPublished` hook are left out, the approved catalog is constant, and there
is one process.

### HubMetadata and HubModelStore

The Hub keeps its state in JSON files that are replaced natively where that is
possible and otherwise by a swap through `.next` and `.previous`. `disk` is the
file with its two siblings; each awaited file operation succeeds, or is rejected
and changes nothing, and the process may die between any two and while `.next` is
filled, which leaves a `Torn` text. Contents are numbered by writes; `confirmed`
is the content the caller was last told of. `stranded` is the one situation all
properties leave out: a swap failed, and putting the old file back failed too.
`ConfirmedSurvives` also leaves out rejected reads of existing files, which
`readJson()` takes for corrupt ones.

`HubModelStore` has one step per native operation that changes the disk, the gate
or a record, and one per verification of an artifact. `queue` is the promise
chain of `#exclusive()`, `at` what the running call does next. `part` is how far a
`.part` file has got, in two steps to `Full`, or `Spoiled`; `offset` is what the
resume data stand for; `ledger` is the manifest they are kept in. On Android `gate`
is `InferenceCoordinator`'s owner, asked for before anything is changed and refused
while inference runs; inference is an environment that takes the gate and hashes
the file of a READY record before it uses it. On iOS `delete()` refuses and there
is no gate. External: `createDownloadResumable` continues from its resume data by
appending to the `.part` file, and truncates it when it has none.

### CanonicalStream, ClientSession and EmbeddedBackend

`ClientSession` is `ModelCommonsSession`: several callers share it, and `pc` says
at which await each of them is. `Generate`, `StartStream`, `Cancel` and `Release`
are the calls; `#beginOperation` is `Admitted`. A stream pulls events
(`EventArrives`, checked by `Valid`), yields them, and on a terminal event asks
the producer once more (`trailing`) before it shows it; `CleanupCancels` and
`CleanupEnds` are the finally block. The transport may emit anything (`other` is
an event that is malformed or foreign), reject, or stay silent; what it is
promised is only that a cancelled transport ends its stream. One step of
`CallRelease` separates publishing the release attempt from the transport's call,
as the code does with a microtask.

`EmbeddedBackend` follows a provider request from `createSession` to the release
of its session. `lease` says who must release a request's lease: nobody, the host,
the runtime, the store's caller of last resort (`orphan`), or nobody any more
because the store reported that its own cleanup failed (`lost`). The runtime is
seen through its calls only, any of which may fail. `release()` is one attempt for
ever, by design (docs/platforms/ios.md:126): `Close`, `CloseSession`,
`CloseRuntime`, `CloseOrphan`.

The two are checked side by side (`MCClientSdk`): a behaviour moves the one or the
other, because neither trusts the other and each has its own environment.

### BinderHub

Three pieces of code run at once: the service and its worker in the Hub's process
(`session`, `op`, `gate`, `delivery`), `AndroidHubClient` in the client's
(`linked`, `native`, `credit`, `main`), and the generator of `BinderSession`
(`js`, `pending`, `failure`, `view`). Calls from the client are synchronous and
therefore steps; `wire` carries events one way. The worker emits one event, waits
for its acknowledgement and goes on; the client accepts one event beyond the last
acknowledged one and answers a second with `INTEGRITY_FAILED`. `failOperationLocked`
makes the missing `response.started` and a `response.failed` itself. `Fault` names
what may go wrong: the Hub's or the client's process dies, the caller is revoked,
the application disconnects, a deadline passes, a session is idle. One client is
followed; `Others` is the rest of them, who compete for the process-wide slot.
Deadlines are long against everything else, so none passes while an answer or an
event is on its way (`Silent`).

### Providers

`ProviderRequests` abstracts a request body to the set of things it asks beyond
plain text, a model to the set of things it offers, and a context to what its
template has; each parser check is a conjunct. `ProviderDialects` has one operator
per branch of `responsesEventStream`, `chatEventStream` and
`anthropicEventStream`: from the generator's variables and one canonical event to
the frames, the new variables, and whether the loop goes on, ends or throws. A
text or an argument string is its length, as every string the code compares must
be a prefix of a longer one. `ProviderStream` puts the generator under the
`ReadableStream` whose `pull` and `cancel` drive it, with an abort at any moment,
an untrusted source of events, and `client`, what an SDK assembles from the frames
(`Legal` and `Assembled` say when a frame is in order and what it adds). Calls are
numbered by their place in the final response; events may announce them in any order.

`source` is the backend's session. `Release` is `session.release()` in the finally
blocks of `provider-backend.ts` and `hubRuntime.ts`: it resolves (`closed`) or rejects
(`failed`), and nobody repeats it. What becomes of a rejection depends on the way out.
After `complete()` it takes the place of the answer (`Completed`); after a stream that
ended by itself it is thrown by the generator whose last frame is out already
(`ReleaseRejects`, then `Thrown`); after a failure it is dropped (`SourceFails`,
`CompletionFails`, `Thrown`); after an abort the adapter swallows it (`Returned`); after
a cancelled body it rejects the application's `cancel()` (`Cancelled`). In an answer the
stop reason `cancelled` stands for `error`, too, as both are refused or let through at
the same places; a usage event without a count is one the translators leave out or throw
at, which other events of the model do as well; and the backend may throw an `AbortError`
of its own though nobody aborted (`CompletionFails`, `Thrown`).

### DevicePolicy, ModelSelection and HubSessions

Memory is counted in GiB and artifacts are installed; the profiles, the resolver's
verdict (the worst of everything that speaks against a request) and the selection
functions are operators. `HubSessions` has the store with its settings and memory of
failures, what storage holds of them (`stored`), the merge at start-up, start-up and
refresh with their awaits, a device and a registry that change, and creations from the
choice of a model to the loaded runtime, with one step per await of
`HubHost.createSession`.

*Storage.* Every change of the store saves all the fields (`Saves`), also before storage
was read. `hydrating` is what was read when the process started; `Hydrate` merges it at
any later moment, over whatever the store has become. A stored record has each of its
fields or not (`None`: missing or invalid), and `stored` itself may be `None`, which is
what an empty storage, a version without migration and a value that is no object come
to. `Sanitized` goes field by field as `sanitizePersistedState()` does; without a record
the settings and the failures stay, and the device profile's failures are cleared, as
lines 288-293 do. A storage that cannot be read merges nothing (`HydrationFails`).

*Two registries.* `registry` is the model store's, which the client's list and the host
read; `shown` is the copy in `useHubStore` that the screens read. Only `setRegistry`
renews the copy: at start-up with the registry `initialize()` returned some time before
(`Collects`, `Opens`), and when an operation of the models screen ends (`Syncs`).
`acceptLicense()` and `download()` change the registry first, and a verification that
fails (`VerifyFails`) changes it and tells nobody. `Restarts` repairs the registry and
empties the copy.

*Left out.* One start-up or refresh is under way at a time; its two measures, of the
device and of the registry, are taken at the same moment; a write to storage that was
issued arrives; the runtime is in process, which is the iOS Hub, whose store refuses
deletions. The runtime may be missing at either probe of a creation (`RuntimeMissing`)
and at start-up (`Probed`).

The named assumptions say what a catalog, a device, a configuration and a stored
state may be. `CatalogAssumption` holds of every manifest in `catalog.ts` and of the
one a legacy install is migrated to (`modelStore.ts:903`): each bounds its context, a
sparse model's own profile is the one made for it, and that profile is only an
experimental model's own. `GatesAgree` needs all three. Were a manifest to leave out
`context.maximum`, the client would refuse what the resolver admits (`supportedContext`
falls back to the trained or recommended context, the resolver to no bound); were a
sparse model to recommend another profile, the resolver, asked for none, would judge
`experimental-moe` while the provider asks for the manifest's profile.

## 3. Runs

| run | question | properties | instance | distinct states |
|---|---|---|---|---|
| `runtime_sharing` | are shared contexts shared, stopped and shut down correctly? | `NoCallOnDyingContext`, `StopHitsOnlyItsOwner`, `SharingIsExact`, `ShutdownIsClean`, `ResourcesInductive`, `ResourcesRespected` | three sessions, two keys (one leased), two streams, room for two contexts, two failures | 1,162,594 |
| `runtime_liveness` | does everything that was admitted come to an end? | `EverythingSettles`, `RetryReleases` | two sessions sharing a leased key, two streams, one failure; `PersistentSpec` | 286,454 |
| `store_lifecycle` | does the store keep what it promises of files, leases and calls? | `DiskIsHonest`, `LeasesProtect`, `CatalogRespected`, `CallsAnswered`, `InstallRecovers` | one licensed model, two artifacts, two callers, two failures, one death, one damaged file; `FairSpec` | 204,556 |
| `hub_metadata` | does a JSON file survive any interruption? | `MetadataInductive`, `ConfirmedSurvives` | three writes, three rejected operations, two rejected reads, three deaths | 21,714 |
| `hub_store` | do records, files and the gate agree whatever fails? | `RecordsMatchFiles`, `VerifiedMeansIntact`, `NeverStuck`, `InferenceUndisturbed` | both platforms, one model of two artifacts, two callers, two failures, one death, one damaged file | 1,343,520 |
| `client_sdk` | are sessions, streams and leases sound over an untrusted transport? | `SessionInductive`, `ConsumersSeeCanonicalStreams`, `WaitsEnd`, `LeaseIsTracked`, `EverybodyEnds` | a session with two callers, four calls and five events; a backend with three requests; fair | 80,403 |
| `provider_streams` | is each provider's wire what its SDK relies on? | `AcceptedIsServable`, `WireIsWellFormed`, `FinishedWireIsTheAnswer`, `OverMeansReleased`, `AbortSilences`, `AbortReleases` | three dialects, two tool calls, four events, argument lengths up to two, releases that may reject; fair | 696,214 |
| `binder_hub` | do Hub, client and script agree whoever dies? | `BinderInductive`, `SettledMeansDrained`, `NoOrphanSession`, `ConsumersSeeCanonicalStreams`, `GateIsFreed` | one client beside all others, three streams, two deltas, four faults of six kinds; fair | 515,589 |
| `hub_sessions` | do the three gates agree, and does a client get what it asked for? | `HubInductive`, `GatesAgree`, `ServesWhatWasAsked`, `OnlyHydrationParts`, `NoBlindRepeat` | two models, two devices, two contexts, two callers, three intents, four states of storage, two remembered failures, two changes | 1,008,967 |

Three further runs ask for one property each, which TLC refutes (section 4).

| run | property | instance |
|---|---|---|
| `hub_metadata_interrupted` | `InterruptionIsRecoverable` | two writes, one death |
| `chat_cancelled` | `NoInventedSuccess` | Chat Completions, one tool call, two events |
| `binder_cancel` | `HubIsNotAccused` | two streams, one delta, no fault |

What the bounds allow. *Runtime*: two sessions give every race over one context
(one holds, one acquires or releases); the third lets one share an entry while
another key is loaded and a third call waits, with room for two contexts so that
both maps are occupied at once. Two streams give one that owns a lane and one that
waits for it. Two native failures allow a cleanup that fails and whose retry fails
too. The constraint `Crowd` keeps three sessions with a stream, or two sessions with
two, to one failure; smaller crowds meet two. *Stores*: two artifacts are needed for
a model that is half installed or half deleted; two callers for one that runs and one
that waits, is aborted or holds a lease; a death, a damage and two failures may hit
the same call. *JSON files*: three writes give a file, its `.previous` and its `.next`
three different contents, and three deaths one for each. *Client*: four calls of two
callers allow an inference, one that is refused, a cancel and a release; five events
are more than a canonical stream of each kind. *Backend*: three requests allow one
that is served, one that is refused and one that comes after. *Binder*: three streams
allow one after a complete and one after a broken one; two deltas give a cancelled
operation an unacknowledged one in the middle; four faults may all be different.
*Providers*: two calls may be announced in either order and interleaved, arguments
have up to two lengths beyond nothing, four events allow text between two calls or a
call completed and repeated. *Hub*: two models, two devices on either side
of the resolver's bounds, and storage with nothing, a refusal without a profile and a
memory beyond the cap, a profile without a consent, and everything. Two callers let a
load that was admitted run out of memory beside another, and a consent be withdrawn under
both. `Room` adds up the changes made, a memory that is not empty, models lost, creations
and start-ups under way, and lets a change or a beginning happen only while there are
fewer than `MaxChanges`, so that any two of them meet but not all of them at once; what
is under way always goes on to its end.

Deadlock is not checked where a system stops when callers stop calling, which is all
of them but the Hub's store. Symmetry is used only where all properties are about
safety.

**Fairness.** Runtime (`FairSpec`): weak fairness of the pool, of each session's
drain, of each stream and of the shutdown says that native calls are answered and
the event loop runs. `PersistentSpec` adds a caller that repeats `release()` while
the runtime is closing, which `RetryReleases` is about. Store: the running call goes
on and a lease release is answered; `InstallRecovers` assumes somebody who installs
again and again, and excuses behaviours in which somebody for ever removes, cancels
or uses the model. Client: answers of the transport to release, cancel and a cancelled
stream arrive; nothing is assumed of a producer that was not cancelled, nor of
callers. Backend: calls of the store, the runtime and `onLoad` settle, and requests
end. Binder: the worker's and the callback thread run, native work ends, Binder
delivers, and waits have deadlines; nothing is assumed of the clients' scripts.
Providers: callbacks run, a backend whose signal is set throws, and a release settles,
perhaps with an error; nothing else is assumed of the source, and nobody repeats a
release. The Hub's store has no fairness: `NeverStuck` asks that it can go on by itself
whenever a call waits, even if inference never gives the gate back; a call has
finitely many steps between faults, so it is answered.

## 4. What the checks show

All properties of the nine passing runs hold, each breaks under its mutant. In
short:

- *Runtime.* No native call on a dying context, `stopCompletion()` hits only the
  completion of its owner ("Aborting a queued request never stops a different
  session's active completion"), an answer that completes was not cut short; keyed
  lookup and reference counts are exact; a shutdown ends clean, and its second round
  cannot fail; everything settles.
- *Model store.* READY is only said of verified artifacts, a leased model stays, the
  store implements `ModelCatalog`, every call is answered, an install recovers.
- *Hub's store.* What was confirmed survives any interruption; records match files;
  verification once per process is enough for what happened before it; mutation and
  inference exclude each other.
- *SDK.* One inference at a time; a terminal event is the whole response and the
  session can be used again from within the loop; concurrent callers share one
  release; a lease is never lost, doubled or outlived by its context; a resolved close
  leaves nothing.
- *Binder.* One native run in the process whoever dies; canonical streams whether an
  event came from the Hub or was made in the client; a script goes on only after the
  Hub has drained; no orphaned session; the slot is always freed.
- *Providers.* What an endpoint takes is servable; each dialect's wire is well formed
  and, when it finishes, carries text and calls of the final response exactly once;
  an abort silences the wire and leads to the release of the session even under a
  silent source; no request is over before its release has settled, nor a success
  reported whose release failed.
- *Hub.* The screen, however old its registry, the client and the host agree on what may
  run; "safe" is never locked; nothing but the merge of storage parts the device profile
  from the memory of failures, or the experimental profile from its consent, and no
  experiment is admitted without; a profile that ran out of memory is not admitted again
  while the device profile remembers it; a client gets the model, profile and context it
  asked for.

Three statements of the repository do not hold; each is a run that TLC refutes.

- `InterruptionIsRecoverable` (comment at `modelStore.ts:277`: "recoverable two-phase
  swap"). Death in the middle of the first write of a file leaves a `.next` that does
  not parse and nothing else. `readJson()` promotes it and throws, at every start.
- `NoInventedSuccess` (`docs/providers/compatibility.md:290`). Streaming Chat
  Completions finishes a response with stop reason `cancelled` as a success.
- `HubIsNotAccused` (`docs/protocol/versioning.md:82`). The worker of a cancelled
  operation no longer waits for its acknowledgement, emits `response.failed` into a
  window that is still taken, and the client reports a broken protocol.

Seen while modelling, and not runs of their own:

- `delete()` that fails after the files are gone leaves a record READY until the
  process ends (`modelStore.ts:606`, against `docs/models/store.md:159`); history
  variable `halfDeleted`. Resume data are kept after they were used and never
  compared with the `.part`, so a transfer interrupted twice spoils its file, which
  verification then refuses (`modelStore.ts:713`).
- A provider yields its terminal frame before it has released the session, so a
  client that reacts to the frame and not to the end of the body can find the backend
  busy; `OverMeansReleased` is about the end of the body. A stream that was aborted
  and is not read any more keeps its session until it is.
- A stream releases its session after its terminal frame is out, so when that is
  rejected an error frame may follow a finish chunk and `[DONE]`, or `response.completed`
  (`provider-backend.ts:35`, against `docs/providers/compatibility.md:211`).
  `WireIsWellFormed` allows it for that reason alone. After a failure or an abort the
  same rejection is dropped (`provider-backend.ts:35`, `hubRuntime.ts:308`,
  `adapter.ts:252`) and nobody repeats the release: the session stays open in the
  backend, and the application is not told. `OverMeansReleased` and `AbortReleases` say
  what is left: the release was called and has settled.
- A merge of nothing clears the device profile's list of failures and leaves
  `runtimeFailures` (`inferenceStore.ts:288`): the host, who asks the device profile,
  admits a pair again that has just run out of memory, until the next refresh or failure.
  A record with `experimentalEnabled: false` and no valid profile leaves a profile
  `experimental-moe` that was chosen before the merge (line 113 looks at the record's own
  profile only); the gates still refuse to load it. `docs/security/threat-model.md:47`
  says of such a record only "invalid state discarded/defaulted". `OnlyHydrationParts`
  says that nothing else parts them, and `NoBlindRepeat` leaves the first case out.
- What is stored is overwritten by every change of the store, also by one before it was
  read (`inferenceStore.ts:271`): a process that dies in between starts from the defaults.
- After a verification that fails the screens go on to show the model as ready until the
  models screen renews its copy (`modelStore.ts:642`); a creation is then refused, which
  `GatesAgree` states.
- A creation that was admitted before another ran out of memory with the same model and
  profile goes on to load it; `NoBlindRepeat` is about admission.
- A terminal event acknowledged after the 5 s deadline ends a complete response with
  `CLIENT_NOT_AUTHORIZED`.
- Blank metadata keys and JSON deeper than 64 levels pass the OpenAI parser and are
  refused by `validateCanonicalRequest` behind it; tool history and the system role
  of a template that lacks them are refused only after the model is loaded.
  `AcceptedIsServable` names these exceptions.

## 5. Proofs

The theorems hold for all values of the constants that satisfy the modules' named
assumptions. None of the properties is inductive by itself. Each strengthening was an
invariant of a TLC run over the instance of section 3 before it was proved; where it is
also a property of the runs (`ResourcesInductive`, `MetadataInductive`,
`SessionInductive`, `BinderInductive`) it is defined with the model, elsewhere with the
proof; `HubInductive` and `LeaseIsTracked` are consequences of theirs. Of `WireInv`,
which speaks of infinite sets of frames, TLC saw the instance that matters: `Agrees`
whenever nothing is queued and the request is not aborted.

**`LlamaRuntimeProofs`**: `ResourcesAreInductive`, `TypeCorrect`, `NothingForgotten`,
and `RuntimeRespectsResources` (every behaviour of the runtime is one of
`NativeResources`). That a context is kept registered after a failed undo depends on
what the running task knows of the maps while it waits; that depends on the mutex
running one task, queued once, for a caller that still waits. Hence `QueueInv`,
`LaneInv` (who makes native calls is at the head of its lane), `TaskInv` (what holds
at each native call of the running task) and `ResourceInv` (keys are distinct, the
maps disjoint, the flags agree with the native side). The limit needs one fact about
cardinalities. The refinement maps each step to one `Load`, `Destroy`, `ReturnLease`
or `Choose`, or to a stutter.

Its second part has `RuntimeIsInductive`, `SharingAlwaysExact`,
`CallsRunOnLiveContexts`, `AbortsHitTheirOwner` and `ShutdownAlwaysClean`. Four more
facts are needed. `OrderInv`: every acquisition was queued before the shutdown's
`releaseAll`, so that no session can come to be once that runs (`NoMoreSessions`).
`EntryInv`: an entry goes, and its count becomes zero, only with its last holder or
under `NoMoreSessions`, and what is cleaned up has no references. `UserInv`: a session
that may still stream keeps the shutdown waiting. `ShutdownInv`: what the first round of
`releaseAll` has visited, and that the second finds nothing.

**`HubMetadataProofs`**: `MetadataIsInductive`, `SomethingAlwaysSurvives`,
`ConfirmedAlwaysSurvives`. Which of the three files counts changes with every step;
`AgeInv` orders their contents, `StepInv` says what each step of a transaction finds,
`OpenInv` that a store that has read its file finds it in place except between the two
moves of the swap.

**`ClientSdkProofs`**: about a session alone `SessionIsInductive` and
`SessionIsCanonical`, about the embedded backend alone `LeaseAlwaysTracked`, and about
both beside each other, as the run checks them (`MCSpec`), `SdkIsInductive` and
`SdkIsCanonical`. `StreamInv` ties the place of a stream to what its consumer has seen:
one that goes on has shown no terminal event, one that waits has not failed, and a
producer that closed has no stream that still runs. With it each step is shown to be a
step of `CanonicalStream` or to change nothing there. `LeaseInv` says that the place of a
request determines who has its lease, and that only a request that loads or is served
has one unless the backend is poisoned; `CloseInv` that a close waits for the load, then
the session, then the runtime. The one delicate step is `Acquired`: a request may take a
lease only because, while a job runs, every other request's lease is back.

**`BinderHubProofs`**: `BinderIsInductive`, `SettledAlwaysMeansDrained`,
`NeverAnOrphan`, `StreamsAlwaysCanonical`. `OneNativeRun` alone does not say what a
script knows of the Hub's work. `ScriptInv` adds it: a script that has not begun,
creates a session, is idle or has released has no native work; a session the Hub knows
means that its process lives; and a client that disconnected has no open session but one
whose creation has not returned. The steps are grouped by worker, script, surroundings
and Hub. Most of them do only what `Kept` says of one client (its operation goes on or
is told to stop, its session stays or closes), which the lemma `KeptRun` treats once for
all. `StreamsAlwaysCanonical` (each step is one of `CanonicalStream` or a stutter) needs
to know where the events of a stream are, across the three processes: `EventInv`. No
event of a request precedes it; until generate() returns the Hub says `response.started`
at most, and that event is at one place of the way; from then on the client lets it
through, or makes one, before all others. So `stream()` has it before anything else.

**`ModelStoreProofs`**: `DiskAlwaysHonest`, `LeasesAlwaysProtect` and
`StoreRespectsCatalog` (every behaviour of the store is one of `ModelCatalog`).
`CallInv` says what the running call has made sure of before each of its steps: it is
the head of the queue, its model is on nobody's lease, a deletion has taken the record
before the directory, an installation offers a whole file with its manifest.
`HolderInv` says who may get a lease or give one back, so that a counter of zero means
that nobody holds one. Each step is then one `Offer`, `Withdraw`, `Use`, `Return` or
`Restart`, or leaves the catalog as it is.

**`HubModelStoreProofs`**: `RecordsAlwaysMatchFiles`, `VerifiedAlwaysIntact`,
`InferenceNeverDisturbed`. Three steps change a model's files (placing the verified
download, erasing, damage from outside); all others leave them, and the steps that
publish a record do so for files that an earlier step of the same call has seen.
`CallInv` carries that over the steps between: the running call is at the head of the
queue of an open store, the model of a download is not READY, the `.part` that is moved
is the one that was verified, what a deletion removes is known to be half deleted, and a
closed store vouches for nothing until its opening has repaired it. `InferenceInv` is the
other side of the coordinator: the gate is inference's exactly while it has a model open.

**`ProviderStreamProofs`**: `AcceptedAlwaysServable`, `OverAlwaysReleased`,
`AbortAlwaysSilences`, `CancelledIsNoSuccess` (for the endpoints it is true of), and
about the wire `WireAlwaysWellFormed` and `FinishedAlwaysTheAnswer`. `RequestInv` ties the
session to the phase of the request: it is open only while the request completes or
streams, and a closed body waits for nothing more. `OverMeansReleased` is a part of the
induction: a body closes at `Done`, whose release has resolved, or after `Thrown`, whose
release has settled and whose frame is an error.
`AcceptedAlwaysServable` needs no history: it compares three sets of refusals over every
template and body.

The wire is harder, as a turn of a loop queues many frames and the SDK sees them one by
one, perhaps never all of them. `Runs(d, from, frames, to)` says that a sequence of frames
is legal and what an SDK has after it; it is closed under concatenation, and its head
can be taken off. `Agrees(d, g, c)` relates the variables of a generator to an SDK that was
given all of its frames: each announced call has its item, with as many characters as
the generator has counted, open as long as the call is not completed; the items of the two
ordered endpoints are numbered without a gap; the only open text is the generator's block.
`TranslateContinues` is the heart: from a state that agrees, whatever the event, the frames
of the loop's turn are legal and lead to a state that agrees again, or to one that has
ended, and to a success only with all of the final response. `Does` reads a generator
that throws because its release was rejected as one that is done: only then may an error
find an SDK that has the end already. There is a lemma per branch
of each loop. The final response's calls are sent one after the other, so `Placed` says
what holds after the first k of them: they have their items with all their arguments,
those that were not announced by the numbers counted so far. `WireInv` then says that,
unless the request is aborted, what is still queued leads to such a state. An aborted
request gets no frame, so there the invariant claims only what was assembled before.

`FlattenSeq` is recursive, and the number of calls is a constant: what they do together is
proved by induction over 0 .. n. The induction theorems of the library cannot be used for
it, but the existence of a least element can (`WFMin`), with a set of numbers in the place
of a predicate: lemma `UpTo`.

**`HubSessionsProofs`**: `HubIsInductive`, `OnlyHydrationEverParts`,
`AlwaysServesWhatWasAsked`, `SafeAlwaysOpen`, `GatesAlwaysAgree`, `NeverRepeatsBlindly`,
for every catalog, device, configuration and stored state the assumptions allow. The
inductive invariant `HubInv` has two halves. `StoreOK` is what the store keeps: its
variables have their types; the device profile remembers what the store does, no more
than the cap, or nothing; it forgets (`Forgotten`), and the profile loses its consent
(`Unconsented`), only when there is nothing left to merge; and what the screens and a
start-up under way take for an accepted licence is one. Every other step is shown to
part neither (`Apart`); the lemma `HydrateKeeps` says what the merge may part (`Parts`),
and together they are `OnlyHydrationEverParts`. `CallsKnown` says of each creation what
it has found out so far (`Known`): once resolved, that model and profile serve what was
asked and the context is within what the model declares; once admitted, that the
dimensions have that context and are some the runtime takes. A step of one creation
changes nothing `Known` says of another, and the store nothing of any.

`SafeAlwaysOpen`, `NeverRepeatsBlindly` and `GatesAlwaysAgree` compare decisions in one
state of `HubInv`. The resolver's
verdict is the worst of a set of objections, so `AllowedMeans` first turns a comparison of
verdicts into what the set must not contain, and `AgainstMeans` each objection into the
condition that raises it. `SafeAlwaysOpen` is then that failures raise no objection to
"safe" but a warning; `NeverRepeatsBlindly` that the host's device remembers what the
store does and a failure of the very pair is an objection; `GatesAlwaysAgree` that what
the screen and the host judge differs in nothing that raises one, and that
`CatalogAssumption` rules out the two differences described in section 2. That a model
selected is one that fits needs a first one among those that do (`FirstModel`): the least
tier, then the least size, then the least id. What `Without` leaves of a list is shown to
be a list of failures no longer than it by counting up to its length, with `UpTo` again.

Only model-checked: liveness and fairness (`EverythingSettles`, `RetryReleases`,
`CallsAnswered`, `InstallRecovers`, `WaitsEnd`, `EverybodyEnds`, `AbortReleases`,
`GateIsFreed`), out of the prover's reach, as is ENABLED, which `NeverStuck` of the Hub's
store uses. Every other property of the passing runs is stated by a theorem.

## 6. Not modelled

- Read-only model store and policy: no state of its own; it reads a root another
  process writes, which the one-process model of the writer does not have.
- Caller authorization: `BinderHub` has its answer and a revocation as inputs.
- Android shared files, native private files, iOS shared model connector, the native
  worker: input and output of a platform behind ports that are modelled as external.
- In modelled parts: `AsyncEventQueue` of the runtime, `getAvailability()`; the
  migration of a legacy install, license acceptance, the free-space check and the
  discovery snapshot of the Hub's store; `connect()` with the check of signing
  certificates and the caps of sixteen sessions and 32 request ids over Binder; the
  models and embeddings endpoints; the choice among several transports.
- One lease handed to two profiles (`maxLoadedContexts` above one) is listed as a
  hazard: the runtime's model gives every key a lease of its own.
- Output reporting, screens, paths, versions, wording of errors.

## 7. What could come next

1. The read-only store beside the writer, and a catalog that changes a revision.
2. The journal of the legacy migration over `HubMetadata`'s files.
