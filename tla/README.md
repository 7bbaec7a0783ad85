# A TLA+ verification project for oci2gdsd

oci2gdsd pulls models from an OCI registry into a cache root on a node, keeps
them there while clients hold leases, collects them when nobody does, and loads
their weight shards into GPU memory for other processes to import. These
modules model the parts of it whose correctness depends on the order of events:
crashes between two writes, processes that share a cache root, handlers that
wait for each other, workers that race a deadline. They are checked by TLC on
small instances and, where a theorem is stated, proved by TLAPS for every value
of the constants.

All paths below are relative to the repository root, and `service.go` etc.
without a directory are in `src/internal/app/`.

## Inventory of the system

| Component | State | Operations | Where |
|---|---|---|---|
| Model lifecycle | record in the state store, journal file, staging and final directory, per-model flock | Ensure, Release, GC, Recover (in NewService) | `service.go`, `lock.go`, `journal.go`, `model/model.go` |
| Blob download pool | job and error channels, a derived context, shard files in staging | downloadBlobs, downloadBlob | `service.go:657-769` |
| State store | one JSON file under a flock, replaced by rename | Init, Get, List, Put, Delete, allocations | `store/store.go`, `fsutil/fsutil.go` |
| Single-flight | calls in flight by key | Do | `ensure_singleflight.go` |
| GPU allocations and attachments | allocation records, attachment sessions with a deadline, leases, device slots | GPUAllocate, GPULoad, GPUUnload, GPUExport, GPUAttach, GPUHeartbeat, GPUDetach, prune | `gpu.go`, `runtime_controls.go` |
| GPU loader | driver sessions by device, device allocations with load and importer references | BeginSession, LoadFile, LoadPersistent, Export, Attach, Detach, Unload | `gpu/gds_linux.go`, `gpu/gds_linux_bridge.c` |
| Runtime bundle tokens | tokens, and tokens by allocation | issue, resolve, revoke, clean-up, limit | `runtime_bundle_token.go`, `runtime_bundle.go` |
| Tensor map cache | parsed headers by model, in order of use | get or build, evict, parse | `gpu_tensor_map.go` |
| Profile checks | none (pure) | LintProfile, ordering, digests, byte sizes | `profile.go`, `util.go` |
| Registry client | none of its own | Fetch, blob readers | `registry/oras.go` |
| HTTP daemon, CLI, configuration | none of their own | decode a request, call the service | `daemon/server.go`, `cli/cli.go`, `config/config.go` |

How they interact. The daemon and every CLI command build a Service: NewService
opens the store and runs Recover, then handlers call the operations above.
Handlers of one model exclude each other by the flock of `lock.go`, across
processes; the store has a lock of its own for each single read or write.
Recover takes no model lock. Ensure calls the registry client for the manifest
and hands the blob list to the download pool, which writes into a staging
directory that only this Ensure knows; it then renames the directory to the
final path. GPUAllocate calls Ensure, stores an allocation, calls GPULoad, and
on an error calls Release; GPULoad and GPUUnload take the model's flock,
GPUAttach, GPUHeartbeat and GPUDetach do not.

What is hard about it, and what makes it correct:

- *Lifecycle.* A publish is ten writes to three places (store, journal,
  directory) with a crash possible after each; handlers keep a private copy of
  the record across all of them; GC chooses from a list it read before it had
  the lock; Recover works from a list too, while another process may be
  serving. It is correct when an answer READY is given only over a complete
  directory, when nobody takes the model from a client that was answered READY
  and has not released it, when the record, the journal and the directory
  agree again after a restart, and when the flock is always given back.
- *Download pool.* Errors, cancellation and the caller's deadline race. It is
  correct when no error means every shard is on disk, when nobody writes to the
  staging directory once the call returned, when the error reported is the
  cause and not its echo, and when the call returns.
- *GPU service and loader.* Two layers count references to the same device
  memory. Memory must not be freed under an importer, must be freed when the
  last user leaves, and a lease must outlive the memory loaded under it.
- *Store.* One file is rewritten through one temporary name; a crash or a power
  loss may come between any two system calls. It is correct when it behaves as
  one table that changes in one instant and keeps what it answered.
- *Tokens and caches.* Two indexes under one mutex, over records under another
  lock; work is done outside the mutex and its result inserted later. A bounded
  table must stay bounded and evict the oldest, a token must not outlive its
  allocation, and what is answered must be what the file says.
- *Checks of foreign data.* Profiles, manifests and safetensors headers come
  from outside; what one check lets pass, a later one must not refuse, and no
  sum may wrap.

`PROJECT.json` lists the hazards one by one, each with its line.

## The modules

### ModelLifecycle: Ensure, Release, GC and Recover on one model

One model (one id and one manifest digest), any number of processes on its
cache root (`Procs`), any number of requests in flight (`Threads`, each in a
process, `ProcOf`) and any number of clients (`Holders`).

| Variable | In the code |
|---|---|
| `rec` | the model's record in the store: status, whether Path is set, the set of lease holders |
| `journal` | the markers in the journal file; the four that Recover does not tell apart are `OPEN` |
| `disk` | the final directory: absent; whole; rotten (right sizes, wrong bytes); gutted (READY marker, but something missing); unmarked (no READY marker) |
| `lock` | the thread that holds the model's flock |
| `req[t]` | a handler: its place in the code, operation, holder, private copy of the record, staging directory |
| `proc[p]` | a process in NewService: its place in Recover, the record as it listed it, the markers it read |
| `granted` | history: the clients that were answered READY and did not call Release |

Each statement of a handler that touches shared state is one action, in the
order of the code: `EnsureGet`, `EnsureResolve`, `EnsureBegin`, ... `Grant` for
Ensure (service.go:396-664), `ReleaseGet`, `Remove`, `Removed`, `PutReleased`
for Release (883-951), the same with `GCGet` and `GCDrop` for GC (1030-1075),
and `BootList` ... `BootPutOnly` for Recover (237-353). `EnsureFail` is the
`fail` closure, `Abort` the direct returns on an error of the store, the journal
or a removal. `Crash` ends a process anywhere: its requests vanish and the
kernel drops its flocks. A READY record over a rotten directory is a possible
initial state, because Recover compares sizes only.

Three constants choose an environment. `IOErrors`: file-system and store
operations may fail. `ReleaseUnheld`: clients may release what they were not
granted (a retry, a wrong name). `LosesBlobs`: downloadBlobs may return nil with
shards missing, which it does when the caller's context ends (see Findings);
the lifecycle runs use FALSE, so that they say what the lifecycle itself adds.

`MCModelLifecycle` holds the instances and the symmetry sets.

### DownloadSpec and DownloadPool: the blob download

`DownloadSpec` is what Ensure relies on: files grow, a complete file stays
complete, one answer, "nil" only when every file is complete, nothing after the
answer. `DownloadPool` is service.go:657-769: the feeder's select (`Feed`,
`FeedInvalid`, `FeedCanceled`, `FeedComplete`), `wg.Wait` and the drain of errCh
(`Return`), and each worker's loop (`Take`, `Finish`, `Stop`, `Begin`, `Create`,
`Complete`, `Break`, `Report`, `Cancel`). The channels have room for every blob
and so are two counters; of errCh only the first error is read. `Expire` ends
the caller's context. An error is a fault of its own or the echo of an ended
context. `Download == INSTANCE DownloadSpec WITH answer <- Verdict` is the
refinement mapping: `Verdict` reads an answer nil that comes after the end of
the caller's context as a failure, which is exactly where the code departs from
the specification.

### GpuMemory: the GPU service over the loader's tables

One model on one device, in one daemon: requests in flight (`Threads`),
allocation ids, lease holders, client ids of attachments, and the model's weight
shards `1..NumShards`, all parameters.

| Variable | In the code |
|---|---|
| `published` | the record is READY and the final directory whole (ModelLifecycle says how it comes to be) |
| `leases` | the holders in the record |
| `allocs[a]` | an allocation's record in the store: its holder, not yet there, or gone |
| `loads[s]` | the loader's `loadRefs` of a shard; 0 when the shard is not in its table |
| `imports[s][c]` | the loader's `importers` of a shard |
| `sessions[c]` | attachMap: how many shards the client's session has, and whether its TTL passed |
| `lock` | the thread that holds the model's flock |
| `req[t]` | a handler: its operation, place, allocation, holder, client, shard counter, `hadLease`, and the detaches prune still has to make |
| `told`, `promised` | history: allocations answered READY, and those of them nobody asked to unload |

Every call of the loader is one step, shard by shard, so that an unload, a load
and several attachments meet between any two shards. GPULoad and GPUUnload hold
the flock from `Acquire` to their end; `AttachShard`, `DetachShard`, `Prune` and
`Heartbeat` do not look at it, as in the code. A load or an attach that breaks is
rolled back in reverse (`LoadUndo`, `AttachUndo`), an unload or a detach that
breaks is not. `Prune` takes all expired sessions out of the map in one step and
detaches them later (`PruneDetach`). Load slots and attach slots are the
semaphores of runtime_controls.go. Ensure, Release and GC are one step each, and
the store does not fail. `Restart` is the end of the process and NewService's
Recover: device memory, sessions and allocations go, leases stay.

`Careful` chooses what clients do. TRUE: a holder is used for one allocation at
a time, an allocation loads all shards (no max_shards), and an unload is asked
for once. FALSE: anything the API takes.

`MCGpuMemory` holds the instances and the symmetry sets.

### GpuLoader and RefTable: the loader's sessions, contexts and shards

GpuMemory takes every call of the loader for one step. `GpuLoader` opens it up:
what gds_linux.go does under its mutex is one action, and a load is several,
because the copy runs outside it.

| Variable | In the code |
|---|---|
| `refs[d]` | sessions of a device (`g.refs`) |
| `ptr[k]`, `loads[k]`, `imports[k][c]` | the table of persistent allocations: where a shard is, its load references, its importers |
| `mem` | device memory that CUDA has given out |
| `driver`, `retained` | the bridge's `g_driver_open` and the devices whose primary context is retained |
| `req[t]` | a call: its place, shard, device and the memory it holds |
| `refused` | history: memory that CUDA refused to take back, whose result the code ignores |

`Lookup`, `Begin`, `Activate`, `CopyEnds`/`CopyDrops`, `Publish`, `FreeExtra`
and `End` are LoadPersistent; `Benchmark` enters the same session for LoadFile.
`UnloadLast`, `AttachPersistent`, `DetachPersistent` and `ExportPersistent` hold
the mutex throughout. `BeginFails` has the three ways gds_init and the first
activation can fail, each with its own clean-up. `Shutdown` may leave the driver
open when cuFile cannot close it.

`RefTable` is what the service relies on: a shard keeps one address from its
first load to the unload that leaves it without a user, two shards never share
memory, imported memory does not go. `Table == INSTANCE RefTable` takes the
table as it is and forgets sessions, contexts and calls in flight; the copy that
loses the race of two loads is invisible in it.

### ShardTransfer: one load, call by call

The bridge's gds_load_persistent with each of its system, CUDA and cuFile calls:
O_DIRECT or not, registrations, reads of whole blocks that may be short, the
bounce buffer for the last partial block, and the fall-back to a host copy from
any of them unless the caller is strict. `held` is what the call has taken and
must give back, `by` says who moved each byte, `rc` what it answers. `Accept` is
what LoadPersistent demands of the answer before GpuLoader's `CopyEnds` may
publish the shard.

### StateStore and AtomicStore: the state file

`AtomicStore` is the table that all other modules take the store for: a call
reads or writes in one instant between its start and its answer, and a power
loss takes back nothing that was answered (`durable` is the set of tables a power
loss could leave). `StateStore` is store.go over fsutil.go: `path` and `tmp` are
the inodes behind the two names, `content` what each holds, `synced` and `entry`
what a power loss must leave of contents and names, `proc[p]` a process: its place
in withLockedWrite, its operation, its copy of the table, its open file. Every
system call of WriteAtomicFile is one action; `Break` is an error, `Die` the end
of a process anywhere, `WriteBack` the kernel's own flushing, `PowerLoss` leaves
of unsynced contents the old, nothing, or a torn file, and of an unsynced rename
either name. `Atomic == INSTANCE AtomicStore WITH table <- Visible, durable <-
MayRemain, ...` is the refinement mapping: a write takes effect when it is
renamed, and is answered after the directory is synced.

Two environment constants. `IOErrors` as before. `SoloStart`: no other process
starts before the file exists. Init seeds the file outside the lock when it is
missing, so two first starts may overwrite each other's first record; no doc
says that they may not, so the runs use TRUE.

### RuntimeBundles: tokens and the bundle's stream

`tokens` is bundleMap with each token's allocation and creation time, `byAlloc`
the second index, `alloc[a]` an allocation's record and how far its request is,
`get` one GET of a bundle, `disk` what is left of the files under it. `Issue`
expires, inserts and evicts in one critical section; `Revoke` and `DeleteRecord`
are the two halves of an unload or of a failed load, between which anything may
happen. The clock may be set back (`.UTC()` drops the monotonic reading). Tokens
of one instant are evicted as their hashes fall, which is any order. `SendFile`
and `SendManifest` are the loop of handleRuntimeBundleToken over files that may
be removed or cut short meanwhile; that a tar header cannot follow a short body
is archive/tar's doing and marked external.

### TensorMaps: safetensors headers and their cache

`Parses` and `Snapshot` are the arithmetic of parseSafeTensorsShard in words of
`Word` values with wrap-around. `Look`, `Build` and `Insert` are the three
stages of a request: under the mutex, outside it, under it again, where another
request may have been faster and the cache full. The files are constant: a
model's digest determines them.

### ProfileChecks: three checks of one profile

LintProfile, then what Fetch and downloadBlob make of profile and layers, then
verifyPublishedPath, over all small profiles and layer lists. Names with and
without surrounding space are there because Fetch trims and verification does
not. Values that are refused one by one (empty names, zero sizes) are left out.

### GcSweep: GC over several models

ModelLifecycle has the steps of one removal. `GcSweep` has the loop around it:
the list without a lock (`List`), the comparison of sort.Slice (`Before`; equal
records in any order), the stop rule (`Turn`), a locked or changed candidate that
is passed over, and a record whose path a concurrent release emptied, which ends
the sweep with an error (`RefusePath`). Others lock, ensure and release the models
whose turn is still to come.

`MCNodeParts` puts the seven modules above side by side. They share no state, so
a behaviour chooses one (`part`) and the others rest; the run costs the sum and
not the product. It EXTENDS GpuLoader and instantiates the others.

### What is abstracted

Where no property is about them, digests, names, sizes and times are not values:
a directory's content is one of five, a blob's file absent, partial or whole.
LastError and log output decide nothing and are left out; ReleasableAt and
UpdatedAt only order GC's candidates and are in GcSweep. One store operation is
one atomic step in every module but StateStore, which shows that it is. Clients are sequential:
one request in flight per holder name, as the documentation tells them to use
one holder per workload.

## The runs

Bounds common to the lifecycle, pool and GPU runs: one model. It is enough
because none of their properties relates two models and no lock, record, journal
or directory is shared by two; GC's order over several is in `node_parts`.

| Run | Instance | What it shows |
|---|---|---|
| `lifecycle_daemon` | one process, 3 threads, 2 holders, crashes, no I/O error | what the code promises its clients: granted models stay in place and read READY, a settled READY record is published, a commit marker is only written over a published directory, and what recovery leaves of an interrupted Ensure is harmless |
| `lifecycle_faults` | one process, 2 threads, 2 holders, I/O errors, releases of unheld leases, fairness | answers READY are given over whole directories even so; the inductive invariant of the lease proof; deletions spare leased models; every handler gives the flock back |
| `lifecycle_shared` | a daemon and a CLI process, 1 thread each | the inductive invariant that an answer READY is given over a whole directory survives a second process that recovers at any moment |
| `download_pool` | 4 blobs, 3 workers, fairness | the pool implements DownloadSpec, answers the cause, answers at all; its inductive invariant |
| `gpu_memory` | 2 requests in flight, 2 allocations, 2 holders, 1 attaching client, 2 shards, 1 load slot, 2 attach slots, at most 2 references of a kind to a shard, Careful | attached memory is never freed; an allocation keeps its memory and its lease |
| `node_parts` | the seven parts below, 21 properties | each part keeps its promise under its own interleavings, faults and restarts |
| `gpu_retry`, `gpu_pinned` | the same as `gpu_memory`, not Careful | two findings below |
| `recovery_orphan`, `release_failed`, `shared_recover`, `download_expires` | small | four findings below |

Three threads let one request work while one waits and one collects; two
holders are what it takes for one to take from the other. Four blobs and three
workers make a worker take a second blob while two others hold one, and let an
error, a cancellation and the deadline meet. Two shards are what it takes to
break between two of them; two requests let an unload meet an attach, or a prune
meet an attach of the client it prunes, and the earlier requests leave what a
third would add; one client can attach from both requests at once. `MaxRefs`, the only bound
of the models, stops the counters that repeated loads and attaches would raise
for ever: two is one's own reference and one more. Requests, crashes and starts
are unbounded.

The parts of `node_parts`:

| Part | Instance | What it shows |
|---|---|---|
| loader | 2 calls in flight, 2 devices with a shard each, 3 pieces of memory, 1 importer, 2 references of a kind | the driver and the contexts stay while anyone uses them (`DriverServesUsers`) and no longer (`IdleReleasesContexts`); no memory is lost or shared (`MemoryHasOneOwner`); RefTable is implemented |
| store | 2 processes, 1 model and 1 allocation key, 3 inodes, I/O errors | `AlwaysParses`; AtomicStore is implemented |
| bundles | 3 allocations and tokens, a limit of 2, 3 instants, 1 file | `IndexesAgree`, `TokensNameAllocations`, `EvictsTheOldest`, `ManifestEndsWholeBundles` |
| maps | 2 requests, 2 models, words of 3 bits, a length field of 1 byte, a cache of 1 entry; one model with every header there is | `AnsweredTensorIsInFile`, `GoodHeadersParse`, `CacheWithinLimit` |
| profile | every profile of 2 shards and 2 layers over 3 names and 2 digests | `LintedModelVerifies`, `VerifiedIsExact` |
| transfer | blocks of 3 bytes; files of 0, 2, 3, 7, 8 and 9; chunks of 1 and 2 blocks | `NothingLeaks`, `AcceptedIsWhole`, `DirectReadsAreAligned` |
| sweep | 2 models, 6 records each, dry or not | `SweepFreesInOrder` |

Two calls and a third actor that unloads, attaches or exports are what two loads
of one shard need to meet; the proofs hold for every number. Three inodes are
the file, a temporary and one that a crash left; a power loss needs no more
because one temporary name serves all writers. A limit of two and three tokens
make one evict while another stays; three instants make one expire while
another is fresh. Words of three bits have every wrap-around that 64 have:
the length field, the header, and the offsets may each be past the sign. The
sizes give a file without a whole block, one of whole blocks only, and one with
both; another size changes numbers, not branches. The clocks, the number of
tokens, `MaxRefs` and GcSweep's restart from the same records are bounds. The symmetry is sound: no definition chooses among the anonymous
values that the parts share as threads, processes, models of a sweep, or as
memory, inodes, allocations.

Deadlock is checked in every run. The pool's only terminal state is after its
answer (`Answered`).

Fairness. `lifecycle_faults` assumes that a handler that has the lock keeps
running and that Recover does (weak fairness of `HandlerStep` and of
`RecoverStep`): both are straight-line Go code whose waits (network, disk) end
with a result, an error or the context. Acquiring the flock is not fair: the
code polls every 200 ms with no queue, so a waiter may starve until its context
ends, and the model does not promise otherwise. `download_pool` assumes that
goroutines are scheduled and that a read from the registry ends, with data or an
error. Nothing obliges requests to arrive, contexts to end, or processes to
start or crash.

Every property has a mutant in `PROJECT.json`: a plausible slip of the code
(trusting a cached list, a commit marker too early, a dropped lease, verifying
sizes instead of digests, an error not sent, a lock not released) under which
TLC finds that very property violated.

## The proofs

Every invariant that a passing run checks is a theorem, and so are the
refinements and the action properties; the only properties left to TLC alone are
the two liveness properties (see the end of this section). Each theorem is a
theorem of the specification, for every value of the constants that the named
assumptions allow; `PROJECT.json` lists them, the lemmas they rest on precede
them in the modules. An invariant that is proved was first checked by TLC with
its strengthening.

`ModelLifecycleProofs` (every set of processes, threads and holders):

- `TypeCorrect`: Spec => []TypeOK.
- `ServeInvHolds`, `GrantsServeWhole`: assuming only ~LosesBlobs; any number of
  processes, crashes and I/O errors. GrantServesWhole is not inductive: it says
  nothing of the steps before the answer. `ServeInv` adds that the flock excludes
  (`Locked`), that a staging directory is whole once downloadBlobs returned
  (`StagedWhole`), and that the final directory is whole from the moment the
  handler verified or renamed it until it answers (`PlacedWhole`), which needs
  the first: only a holder of the flock deletes.
- `LeaseInvHolds`, `GrantedModelsStay`, `DeletionsSpareLeases`: assuming
  ~LosesBlobs and that one process owns the cache root (`OneProcessOnly`).
  `LeaseInv` strengthens GrantedModelStays by what each actor holds in its
  hands: while Recover runs nobody is served (`ServedWhenUp`), so its snapshot
  has the stored leases (`SnapIsCurrent`); an Ensure's private copy keeps the
  lease of everyone the model was granted to (`EnsureKeepsLeases`); a removal
  is under way only when nobody is granted the model (`RemovalIsUnleased`); a
  client that is releasing is no longer granted (`ReleasingIsUngranted`,
  `OneRequestPerHolder`). Without OneProcessOnly the statement is false: see
  `shared_recover`.

`ModelRecoveryProofs` (one process, every set of threads and holders), assuming
~LosesBlobs and ~ReleaseUnheld:

- `RecoveryInvHolds`, the invariant that the next four follow from. Its parts
  say who relies on the record and what they may rely on (`UsersAreServed`: the
  clients that were granted the model, and those whose Release has not read the
  record yet, find it READY, whole and without an open journal), and what the
  holder of the flock and Recover have done and not done yet at each place
  (`EnsurePlaces`, `RemovalPlaces`, `RecoverPlaces`). `RecordAndJournal` is the
  catalogue of what the record, the journal and the directory may say of each
  other between any two steps when no file-system operation fails.
- `GrantedModelsReadReady`: with crashes and I/O errors.
- `ReadyModelsArePublished`, `CommittedModelsArePublished`, `OrphansAreBenign`:
  with crashes, assuming ~IOErrors. None of these hypotheses is there for
  convenience. TLC finds each of the four violated when LosesBlobs is TRUE, and
  the last three when IOErrors is TRUE, as a removal or a journal write that
  fails half-way leaves what they exclude; with ReleaseUnheld all but
  CommittedIsPublished fail (see `release_failed`).

`DownloadPoolProofs` (every number of blobs, every set of workers):

- `PoolTypes`, `PoolInvHolds`, and `PoolImplementsDownload`: Spec =>
  DownloadsAllInTime, the refinement of DownloadSpec. `PoolInv` says that
  nothing is cancelled without a cause (`CancelHasACause`), that a taken blob is
  held by one worker at most (`HeldOnce`), and that a taken blob is written, held,
  or part of a call that is going to fail (`NothingIsLost`). The last is what
  makes "nil" mean complete: workers leave without an error only when the call
  is failing for another reason.
- `AnswerIsTheCause`: Spec => []AnswersTheCause. `EchoHasACause` follows an echo
  from the worker that meets it over the error channel to the answer: wherever
  it is, the caller's context ended, the list was invalid, or a fault is already
  the first error.

`GpuLoaderProofs` (every set of threads, devices, shards, clients and memory):

- `LoaderTypes`, `MemoryOwned`, `DriverServes`, `ContextsReleased`: the type
  invariant and the three safety invariants of GpuLoader; and
  `LoaderImplementsTable`: Spec => Table!Spec. From LoaderAssumption only: there
  is a device, every shard has one, and the threads are finitely many.
  `DriverServesUsers` is not inductive: End closes the driver when the session
  counters say that nobody is there, and they must not lie. `LoaderInv` adds that
  refs[d] is the number of calls that are between Begin and End on d
  (`SessionsCounted`, by Cardinality, hence the assumption), so that a counter of
  zero means an empty set and the decrement never meets its floor; and that a
  call owns memory exactly in the places where the code holds a pointer
  (`Holding`), which is what makes MemoryHasOneOwner inductive. The refinement
  needs the latter: Publish may only enter memory that no other shard has.

`GpuMemoryProofs` (every set of requests, allocations, holders and clients,
every number of shards, slots and references):

- `TypeCorrect`: Spec => []TypeOK, by `RequestsOK`: a request is at a place of
  its own handler and has what the place needs.
- `SessionsStayResident`: Spec => []SessionIsResident, whatever clients do. A
  session is not alone in holding importer references: an attach takes them one
  shard at a time before its session is filed, and a detach or a prune deletes
  the session first and gives them back later. `Owes(r, s, c)` says that the
  request r has client c's reference to shard s in its hands, and `Counted` that
  the loader's counter is at least the number of the owers and of the session
  together; it is a lower bound because a detach that breaks loses references
  (`gpu_pinned`). `Resident` adds that a counted importer keeps the shard in the
  table. The proof counts with Cardinality, so `GpuAssumption` requires, as
  LoaderAssumption does, that the requests in flight are finitely many.
- `AllocatedStays`: Spec => []AllocatedMemoryStays, assuming Careful (without it
  the statement is false: `gpu_retry`). `MemoryInv` says that the flock is held
  between a handler's lock and unlock (`LockHeld`), that an allocation and its
  holder belong to each other (`OneAllocation`) and are nobody else's while
  GPUAllocate is at work (`Allocating`), that what is being unloaded is no
  longer promised (`Unloading`), that a promised allocation's lease is in the
  record and no load that may take its own lease back shares it (`Leased`), and,
  once more by counting, that a shard has at least as many load references as
  there are promised allocations, loads that passed it and unloads that have not
  reached it (`References`).

`StateStoreProofs` (every set of processes, keys, values and inodes; crashes,
I/O errors and power loss), assuming SoloStart:

- `StateAlwaysParses` and `StoreIsAtomic`: Spec => ImplementsAtomicStore. In
  `StoreInv`, `Locks` says that a writer is alone and a reader does not write,
  `Starting` that the first process is alone until the file exists (the place
  where SoloStart is needed), `Files` that every inode that `path` names, or may
  name after a power loss, is synced and a table, and that the temporary is
  another inode, and `Temporary` how far the writer is: what the temporary holds
  is the table that the operation makes of the visible one. From it each system
  call maps to a stutter but the rename (the write takes effect), the fsync of
  the directory and the answers. StoreAssumption now says that the two torn
  contents are no tables, which is what they stand for.

`RuntimeBundlesProofs` (every set of allocations, tokens and files, any setting
of the clock):

- `IndexesStayEqual`, `TokensAreAnswered`, `OnlyTheOldestGo`, `BundlesEndWhole`
  from `BundleInv`: the two indexes are inverse to each other and within the
  limit, a token names an allocation that was answered, and all entries of a
  stream but the last one sent are whole (`SentInOrder`).

`PartsProofs` has these and the rest of `node_parts` as theorems of PartsSpec:

- For the store and the bundles it instantiates the two modules above and shows
  that a step of the composition is a step of the part, or leaves it alone
  (`PartsStoreParses`, `PartsStoreIsAtomic`, `PartsIndexesAgree`,
  `PartsTokensAnswered`, `PartsEvictsOldest`, `PartsBundlesWhole`).
- `PartsTensorsInFile`, `PartsGoodHeaders`, `PartsCacheLimit`: for every width
  of words. `MapInv` says that each map in the cache, or on its way into it, is
  a true one of its model's file (`MapsAreTrue`): parsed without a wrap-around,
  each tensor within the file. TensorAssumption now says that the fields of a
  header fit the Go types they are read into (int64, uint64), and that a word has
  an even number of values; with arbitrary numbers the arithmetic means nothing.
- `PartsLintedVerifies`, `PartsVerifiedExactly`: `ProfileInv` says how much has
  been downloaded at each index (`Downloaded`); the rest is about the greatest
  index of a name, whose existence comes from the finiteness of the profile.
- `PartsNothingLeaks`, `PartsAcceptedWhole`, `PartsReadsAligned`: for every block
  size, file size and chunk size. `TransferInv` says which of descriptor, handle,
  registration, buffer and bounce buffer the call has at each place
  (`OneDescriptor`), on which of its paths it is (`OnePath`), that one of cuFile
  and the host moved every byte so far (`OneMover`), and where a direct read
  starts (`Aligned`).
- `PartsSweepInOrder`: `SweepInv` says that GC goes through a ranking of the
  models that were collectable when it listed them, and that what it deleted or
  passed over is that ranking up to its place.
- `PartsTypes`: the types of all the parts.

What stays with TLC. `LockIsReleased` and `Answers` are liveness under fairness,
which these provers do not reach. The runs with expect "violation" are
counterexamples. Nothing else is only model-checked, and no module has a
recursive operator.

## Findings

- `recovery_orphan`: a crash between the store write and the journal write
  leaves a record in RESOLVING (or, after the commit marker, PUBLISHING) that
  no restart settles, because Recover looks only at READY records when there
  is no open journal.
- `release_failed`: a failed Ensure keeps its lease; the release of that lease
  stores READY over a directory that was never published.
- `shared_recover`: the Recover of a CLI command puts back the record it listed
  before the daemon stored a lease, without the model lock; the lease is lost,
  and GC may then delete a model in use.
- `download_expires`: when the caller's context ends while every worker is
  between two blobs, the workers leave without an error and downloadBlobs
  answers nil over missing shards.
- `gpu_retry`: an unload that fails half-way keeps the allocation; repeating it
  starts again at the first shard, and gives back, or frees, what another
  allocation loaded since and was answered READY for.
- `gpu_pinned`: GPUDetach deletes the session before it detaches its shards; if
  the caller's context ends in between, the loader counts the client as an
  importer for ever, and unload is refused until the daemon restarts. A second
  attach of the same client, whose session replaces the first, ends the same way.

## Met while modelling, without a run

No test or document promises the contrary of the first four, and the last two are
outside the modules, so no run calls them errors; where a model has them, its
properties are stated around them.

- LintProfile lets pass two shards of one name, names with surrounding space
  (Fetch trims them, verification does not), layers that are not typed as shards
  with any size, and two sizes for one digest. Ensure then answers READY over a
  directory that verifyPublishedPath refuses ever after. `LintedModelVerifies`
  says that these are the only ways; `VerifiedIsExact` that the verification
  catches them all.
- GC takes a candidate whose path a release has emptied since for one outside
  the root and ends with STATE_DB_CORRUPT (service.go:1046), although the test
  for an empty path follows at 1050. Two sweeps at once are enough.
- Two first starts may seed the store over each other (store.go:76); see
  `SoloStart`.
- Every CLI command's Recover clears the allocations of a live daemon
  (service.go:240), whose tokens and device memory stay. GpuMemory and
  RuntimeBundles have one process.
- The daemon removes its socket path before it listens even when another daemon
  serves on it (server.go:45); docs/cli-reference.md:380 says "if stale".
- An Ensure that joins another's fetch of the same reference inherits the other's
  deadline (ensure_singleflight.go:17).

## Not modelled, and why

The CLI and the configuration are decoding, and so is the HTTP daemon but for
its bundle stream; the registry client is network I/O but for the list of blobs
it makes: their failures appear as the faults of the models above. The
single-flight of fetches is one call of golang.org/x/sync/singleflight, under
the model lock for requests of one model. In Recover, the sweep of old temporary
directories depends on a 24-hour clock, and the clearing of allocations is in
GpuMemory (`Restart`). GPUStatus, GPUDevices, ListPersistent, Verify and Status
change nothing. The inner steps of a benchmark read (gds_read_file and its host
fall-back) are those of ShardTransfer without the table. The guard of Ensure on
free space and sumShardSizes compare two numbers with an explicit overflow test.
The two-model wait for one device's load slots (runtime_controls.go:124) needs
GpuMemory with a second model, beyond what TLC finishes. `src/platform` and
`src/models` are the deployment harness. CUDA, cuFile, the kernel and archive/tar
are external.

## Plan

Done: ModelLifecycle; DownloadSpec, DownloadPool; GpuMemory; GpuLoader,
RefTable; StateStore, AtomicStore; RuntimeBundles; TensorMaps; ProfileChecks;
ShardTransfer; GcSweep; and the proofs of every safety property that the passing
runs check.

What is left, in order of importance:

1. `CommittedIsPublished` for clients that release what they were not granted:
   TLC finds no violation, and the proof needs RecoveryInv without its users.
2. GpuMemory's `Counted` as an equality when no call breaks, so that an unload
   is refused only while a client is attached.
3. A theorem that says which leases two processes may lose to each other's
   Recover, and no more.
