# AegisPy: TLA+ models, checks and proofs

AegisPy runs untrusted Python behind capability permissions. This directory models
the server runtimes and their Rust worker, the browser runtime and its Pyodide
worker, the worker's capability broker, the handling of requests in the core package,
the cache of package layers, and the build of the engine that a starting runtime
waits for. TLC checks the models on small instances; TLAPS proves
every safety property that a passing run checks, for every instance.

`PROJECT.json` lists the components, the runs, the source lines behind each
definition, the hazards of the code and the theorems.

## The system

| Component | State it keeps | Operations | Talks to |
|---|---|---|---|
| Server runtimes (`aegispy-node`, `-bun`, `-deno`) | `closed` | `run`, `close` | transport, preflight |
| Rust worker transport (`rust-worker-transport.ts`) | `child`, `pending`, `frameRemainder`, `helloPromise` | `ensureStarted`, `sendProtocolMessage`, `run`, `close`; handlers of stdout data, `error`, `exit`; a 1000 ms timer | worker process over pipes |
| Frame codec (`protocol/framing.ts`) | none | `encodeFrame`, `decodeFrames` | transport |
| Worker request loop (`main.rs`, `run_worker`) | none between requests | read a frame, answer it, log a line to stderr, end after a shutdown | stdin, stdout, stderr |
| Capability broker (`main.rs`, `NativeHostCapabilityState`) | quotas used, files written, audit trail, first denial, first engine error | `fs_read`, `fs_write`, `http_get`, `env_get` | guest, host file system and network |
| WASI executor (`main.rs`, `WasiExecutor::run`) | one store per run | run the guest, decide the result | broker, native ABI pipes |
| Native host ABI pipes (`main.rs`, `engine/python`) | buffered frames | request frames on stderr, response frames on stdin | guest, broker |
| Worker policy, isolation profile | none | checks before a run, parsing of the profile | executor |
| Browser runtime (`browser-runtime.ts`) | `closed`, `integrityPromise` | `run`, `close` | supervisor, simulated engine, integrity |
| Browser worker supervisor | `workerPromise`, `workerToken`, `pending` with a timer each | `worker`, `run`, `reset`, `close`; handlers of messages and errors | Pyodide worker |
| Pyodide worker (`pyodide-worker.mjs`) | the interpreter with its patched modules, the bridge's budgets, two output buffers | one asynchronous handler per message | supervisor, network |
| Browser integrity | none | lockfile, selection of packages, engine assets | browser runtime |
| Core preflight, policy, limits, validation | none | pure functions of one request | runtimes |
| Simulated execution, determinism | none between runs | `simulateRun` | in-process transports, browser fallback |
| Server package layer cache | `inFlightMaterializations`, the cache directory | stage, verify, promote, remove, reuse | file system, other processes |
| Package lockfiles (`aegispy-pack`) | none | `resolveLockfile`, `verifyLockfile` | package layer |
| Bundle, isolation and execution mode | none | read of the environment and the bundle record | server runtimes |
| Engine and component builders (`scripts/engine`, `scripts/component`) | the files under `artifacts/` and `.tools/` | download, unpack, copy, write an artifact and its manifest entry, compose, compile | transport, worker, other builders |
| Factory registry, repository gates | none | - | - |

What is hard here: all calls of a runtime share one worker, and a worker can die,
be restarted, be killed by a timer or answer late while other calls wait; a promise
is settled by whichever of an answer, an error, an exit, a timer or `close()` comes
first; values read before an `await` are used after it; bytes of a dead worker stay in
a buffer the next one inherits; guests catch denials and go on; quotas are tested
before and charged after an operation that may fail half way. Several processes share
a directory of layers and a tree of artifacts without a lock, and any of them can be
killed in the middle of a removal, a copy or a write. One interpreter serves every
request of a browser worker, and what a request leaves in it the next one finds.

What makes each part correct:
- transport: at most one worker is owned, a worker's end fails its own requests and
  no other's, every caller is told, no answer goes to the wrong caller or twice;
- supervisor: the same, although a timeout can only stop a call by terminating the
  worker of all of them; no output leaks from one call to the next;
- broker: budgets hold, refusals cannot be hidden, effects are audited, a path means
  the same file to a read and to a write;
- package layer: a key is materialized once at a time in a process, no call is given
  what was never a verified layer, nothing is left behind, every call settles;
- builders and launch: what the manifest and `build.json` vouch for is whole, a ready
  worker has its Python home, worker and host agree on the limits, and no start
  empties a file a worker has mapped;
- requests: every result conforms and audits a denial once and last, deterministic
  runs replay, a guest gets from the network what it was granted.

## Modules

| Module | Models |
|---|---|
| `RunService` | the contract of a runtime with its callers: refused after `close()`, otherwise settled at most once |
| `ServerTransport` | server runtime, transport, frame codec and worker loop; refines `RunService` |
| `ServerTransportProofs` | its theorems |
| `BrowserSupervisor` | browser runtime, supervisor and worker loop; refines `RunService` |
| `BrowserSupervisorProofs` | its theorems |
| `CapabilityBroker` | the broker during one run, and the result made of it |
| `CapabilityBrokerProofs` | its theorems |
| `Picking` | `Array.prototype.filter` as a recursive function |
| `PackageLockfile` | lockfiles, and what the server admits of them, as operators |
| `PackageLayer` | calls of `resolveServerPackageLayer` in several processes |
| `PackageLayerProofs` | its theorems |
| `LaunchConfig` | transport, isolation profile and execution mode read from the environment, as operators |
| `EngineLaunch` | starts of runtimes and the builders they run, in one checkout |
| `EngineLaunchProofs` | its theorems |
| `RequestContract` | validation, preflight, policy, limits and the simulated engine, as operators |
| `BrowserContract` | integrity, fallback, bridge decisions and error classes of the browser, as operators |
| `RuntimeRequests` | requests of one runtime from `run()` to their results, with the interpreter they share |
| `RuntimeRequestsProofs`, `ReplayProofs` | its theorems; the second has those about replays |
| `Induction` | induction over numbers as a fact about a set, and lemmas about filters |
| `MC...` | constants for TLC, one module per specification |

`RuntimeRequests` extends `BrowserContract`, which extends `RequestContract`;
`PackageLayer` extends `PackageLockfile`, `EngineLaunch` extends `LaunchConfig`.
`RequestContract` and `PackageLockfile` extend `Picking`, so that a filter can be
reasoned about. A module of proofs extends the module it is about, and `ReplayProofs`
extends `RuntimeRequestsProofs`.
`ServerTransport` and `BrowserSupervisor` say when a call is settled and by whom,
`RuntimeRequests` what it is settled with.

Operators marked `mutant` are small variations of the definition below them, each a
bug that code could plausibly have. No specification uses them; they serve to show
that a property notices the bug.

### ServerTransport

The host is one JavaScript thread, so an action is what runs between two awaits.
`Run` and `Close` are calls of the embedding program; `StartRun`, `ResumeRun` and
`FinishClose` are the continuations after the awaits; `Data`, `SpawnError`, `Exit` and
`ShutdownTimer` are events, which wait until no continuation is due
(`MicrotasksDone`). `WorkerReply` and `WorkerDies` are the worker process. Workers are
numbered in the order they are spawned, so that `child`, the local `child` of a
`close()` (`cchild`) and the worker a run awaits (`at`) can differ.

Bytes are abstracted to two units per frame, a head that holds the length and a body.
That keeps what matters to `decodeFrames`: chunks that end inside a frame, half frames
left by a dead worker, a foreign unit where a body is expected, and lengths over the
limit. Read from the middle of a frame, JSON text is a length far over the limit; a
head followed by foreign bytes may be short, too long, or a frame `JSON.parse` rejects,
and `Data` allows all three. `uncaught` stands for an exception or rejection nobody
handles, after which nothing is said about the process.

`Faults` selects what may go wrong, so a run can leave out faults it is not about.

### BrowserSupervisor

Same shape: `Run`, `Close` are calls, `StartRun` and `Post` continuations,
`IntegrityKnown`, `PortSettles`, `Timer`, `Message`, `WorkerError`, `WorkerExit`,
`FinishReset` and `FinishClose` events. A worker thread works on until its
`terminate()` is done. The worker takes the next message while a request is still
running, so two requests share the output buffers. A port may be created, ready,
failed, exited or terminated; `sick` records what a worker did wrong, and the
properties speak about workers that did nothing wrong.

### CapabilityBroker

A path is the sequence of its components; contents are their lengths; URLs are their
origins. `FsWrite`, `FsRead`, `HttpGet`, `EnvGet` and `UnknownCall` are the branches of
`process_host_capability_request` with the bookkeeping of `invoke_internal`, and
`Finish` is the end of `WasiExecutor::run`: the run's directory is removed, and output
overflow, the first denial, the first engine error and the guest's outcome are looked
at in that order. `fs::write` may fail before or after it created the file. `U64Max`
is the largest `u64`, small in the instance, so that saturation happens. `moved` and
`damaged` are history variables.

### PackageLayer

A call resolves its pure and then its native layer. `Look` is `verifyManifest` at the
start of a class, `CheckExists` the test before the removal, `ListDirectory`,
`RemovePath` and `RemoveDirectory` are the system calls of `fs.rm`, which works by path
in the thread pool while other callbacks run. `Enter` joins the entry of
`inFlightMaterializations` or starts a materialization, `FetchArtifact` downloads and
unpacks one entry, `PromoteStageRoot` is `fs.rename`, and `Promoted`, `Lose` and
`Abandon` are what follows it. `Crash` kills a process at any point and starts it again
with an empty map. A directory is the set of its parts, with parts for changed sources
and a foreign manifest; a key stands for the hash by the requests that hash alike;
an archive is the set of its paths.

Things the model shows that are not properties: an entry made by `resolveLockfile`
with kind `pure_python` names a `.whl` and is not admitted by the server; a fetch that
fails leaves its stage directory (`NoStageLeft` leaves this case out); and a selected
layer was whole, but another process may have removed it by the time the call returns.

### EngineLaunch

Each process is a runtime that starts or one of the tools `engine:build` and
`component:build`. `Create`, `EnsureComponentArtifact` and `LaunchWorker` are the
host's steps; the builders are one action per file system call (`EnsureArchive` to
`FillManifest`, `EnsureWasiCoreWasm` to `Published`); `Boot`, `EnsureWasiEngineReady`,
`VerifyEngine`, `LoadComponent`, `Persist` and `Persisted` are the worker up to its
hello. Opening a file for writing empties it and a later step fills it, so a file is
missing, torn or whole; `manifest.json` also has its entries, because builders read,
extend and rewrite it, and two at once may lose an entry or leave the end of a longer
text behind a shorter one (`Overwritten`). The six bundles are one entry of the
manifest. `provenance.json` is only a step that may fail. `Kill` ends a process with the
builder it waits for.

Files are written in place and without a lock, so after a kill a torn manifest or
artifact makes every later start fail, since a start that finds the files does not
build. The properties name exactly when this may happen: `spoiled` records that a
process ended there. `MappedStays` leaves out the `component:build` tool and workers
that mapped the file after the writer had decided to write it; nothing protects those.

### RuntimeRequests

`Run` is `run()` up to its first await and `TransportRuns` a server runtime after it.
In the browser `IntegrityKnown` settles the shared check, and the run then fails, is
simulated, or is posted to the worker. There it goes through loading the engine,
loading packages, the prelude and the guest's own calls: `Prints`, `HttpGet`,
`GuestFails`, `Awaits`, `Finishes`. Python keeps the worker to itself until it awaits;
then another message may be taken and shares modules, bridge and buffers (`py`).
A timeout or `close()` replaces the interpreter, which abstracts `BrowserSupervisor`.
A request may hold a value of the wrong type in any field. Guest code is the sequence
of its calls with its `#aegispy:` markers; a printed line counts one byte; issue lists,
messages, `cpuMs` and `memoryPeakBytes` are left out.

What the code does at this point, and the properties keep apart:
- the fallback copies a requested network capability into `permissions.http` and
  validates again, so it answers a request the boundary accepted with
  `AEG-INVALID-REQUEST`; `AcceptedThenRefused` says that this is the only such case;
- patches of `time` and `random`, and the `aegispy` module, stay in the interpreter.
  `ReplayAgrees` holds because the prelude patches again; it leaves out runs that
  overlapped another one, and network calls. `GuestWithinGrant` speaks of runs that
  asked for the network and were not overlapped;
- a limit of 0 is none in the bridge and nothing in the core's policy; the bridge
  fetches before it tests the bytes, and counts only responses it returns;
- the simulator judges attempts by kind, not in program order; a policy root `/`
  matches only itself; grants are compared as they are spelled with origins in lower
  case; a rejected `loadPyodide` stays until the worker is replaced; a browser guest
  that catches a denial may end `ok`.

## Runs

| Run | Instance | What it shows |
|---|---|---|
| `server_safety` | 2 runs, 2 closes, 2 workers, every fault | `OneWorker`, `PendingIsCurrent`, `NoLostRun`, `OwnAnswer`, the contract |
| `server_liveness` | 2 runs, 1 close, clean faults | runs settle unless closed or blocked on stderr; `close()` returns; its worker stops |
| `server_close_hang` | 2 runs, 1 close, no faults | violated: a run open at `close()` is never settled |
| `server_stderr_hang` | 2 runs, a stderr of one line, no faults | violated: the worker blocks on a pipe nobody reads |
| `server_oversize` | 2 runs, oversized answers only | violated: after an oversized frame a stale remainder makes the data handler throw |
| `browser_safety` | 3 runs, 2 workers, every fault | no healthy worker is abandoned, a stale exit hurts nobody, no stale output |
| `browser_liveness` | 2 runs, 1 close, every fault | runs settle unless closed; the contract |
| `browser_create_hang` | 3 runs, creation may fail | violated: a call whose timer meets a failed creation is never settled |
| `broker` | 3 calls, 13 permission records | budgets, no silent denial, effects audited, one file per path |
| `package_layer` | 3 calls in 2 processes, 11 requests, 4 leftover caches, 1 crash | one materialization, layers were whole, entries pinned, no stage left, only stale removals; calls settle |
| `launch` | 2 runtimes and a tool, 23 environments and checkouts, 1 kill | what is listed is whole, a skipped build is safe, a ready worker has its home, limits agree, mapped files stay |
| `requests` | 2 calls, 9 runtimes, 95 requests, timeouts, a close | results conform and audit denials, runs replay, grants hold, one request is accepted and then refused |

Deadlock checking is off: a program that stops calling the runtime is a legal end of
every behaviour.

**Bounds.** Two calls are enough for one to disturb the other; a restart needs two
workers. In `server_liveness` and `server_close_hang` the bound of four workers is
never reached, so that no behaviour ends because of it; in the browser's liveness
runs a call creates at most one worker, and there are as many workers as calls. The
browser's safety run has three calls, since a timer of the first may reset the worker
of the third. In the broker three calls reach every quota, its exact limit and one step
beyond (sizes of 0 and 2; budgets of none, 4, and the largest number, 5); its lists of roots
agree, nest, or hold `/` or `/.`. The theorems remove the bounds on all safety runs.

In `package_layer` two calls of one process are needed to join a materialization and a
third in another process to remove or promote beside them; the second class is reached
by one of them. One crash (`MaxCrashes`) leaves one half-done layer or stage, which the
other process and a later call meet. In `launch` two runtimes race to build while a tool
rewrites the same files; one kill (`MaxKills`) suffices for a torn file that later
starts find. `U64Max` and `ExponentFrom` are numbers of 32 bits with the order of 2^64 - 1 and
1e21. In `requests` the second run finds the interpreter as the first left it, or in
its await. The clock reads 1 at the start of a run, and 0 or 2 at its end, so that it
may have been set back; responses have 1 or 2 bytes against budgets of 2 and 3. Each
request differs from a plain one in the thing one check looks at. The two calls are
interchangeable, which is the symmetry of that run.

**Fairness.** Weak fairness of continuations, timers, delivery of events, promises of
the platform, the worker's loop and the delivery of a signal: all are given by the
event loop and the operating system. For the package layer it is weak fairness of
each call's steps: system calls, fetches and callbacks come to an end, with success or
failure. Nothing is assumed of the embedding program, of
faults, or of the guest: in the browser it may never answer. On the server the worker
bounds a guest by fuel and an epoch deadline, which is why `WorkerReply` may be fair.
Runs of the server's liveness leave out torn and oversized frames and `EPIPE`, after
which the process may end with an uncaught exception (`server_oversize`).

## Findings

The four violated runs are listed with their sources in `PROJECT.json`. In each the
model follows the code and the property is what a document of the repository says:
`docs/architecture.md` ("Runtime returns `RunResult`") and
`docs/reference/server-engine-protocol-v1.md` ("Oversized frames fail closed").

## Proofs

Every invariant and every action property of the passing runs is also a theorem,
and so are both refinements of `RunService`. The theorems hold for any sets of calls,
processes, requests, targets, sizes and permissions, and any number of workers,
closes, calls of a guest, crashes and kills. A theorem `XHolds` states the property
`X`; each of them rests on an inductive invariant made of the named parts below.

### Assumptions

Only constants have assumptions; TLC evaluates all of them in the runs.

| Assumption | Says |
|---|---|
| `WorkersAssumption`, `BrowserWorkersAssumption` | there is at least one worker; `StderrLines` is a number |
| `FaultsAssumption`, `BrowserFaultsAssumption` | the faults are faults the module knows |
| `BrokerNumbers`, `BrokerPaths` | the largest number is positive, sizes fit in it, targets are paths, permissions well formed |
| `LayerHomes`, `LayerChoices`, `LayerCrashes` | each call has a process and a set of requests |
| `LayerNames`, `LayerLockfiles` | `None` names neither a call nor a request; a lockfile is a finite list of entries |
| `LayerLeftovers` | the cache that earlier processes left holds in a layer only what was extracted for its key |
| `LaunchNumbers`, `LaunchTasks`, `LaunchKills` | `String` writes numbers with an exponent only above the largest `u64`; each process is a runtime or a tool |
| `LaunchFiles` | the files found are of the kinds the builders leave |
| `LaunchUnspoiled` | no earlier builder ended half way through the home, a component or an artifact |
| `ValuesAssumption`, `GrantAssumption` | the values that stand for a wrong type are none of the right ones |
| `PayloadAssumption`, `CallsAssumption`, `RequestsAssumption` | responses have sizes, `Null` is no call, and requests have the shape the validation speaks about, with wrong values in any field |

### The arguments

`ServerTransportProofs`
- `TypeCorrect`: `TypeOK` is inductive. The lemmas are about `decodeFrames`: what it
  leaves over, and what is merged, is made of units of its inputs.
- `OneWorkerHolds`, `PendingIsCurrentHolds`: neither is inductive. `Ownership` adds
  `CloseIsKnown`: a `close()` past its first step implies `closed`. Without it
  `FinishClose`, which forgets a worker, could happen before `closed` is set. The exit
  handler forgets `child` without looking who exited; with `Ownership` the worker that
  exits is `child`.
- `NoLostRunHolds`: `CallersKept` ties each waiting call to its entry or to a settled
  hello; it needs that only a finished `close()` empties the map silently.
- `OwnAnswerHolds`: `AnswersKnown` follows requests through stdin, the worker, stdout
  and the remainder: a head in any of them names a request that was served or was torn,
  and a whole frame only a served one; a run is written to one worker.
- `ImplementsContract`: under the mapping each step is a call, the settling of the open
  calls it changes, a close, or a stutter.

`BrowserSupervisorProofs`
- `SupervisorTypeCorrect`, and `SupervisorKeepsContract` with the same argument as on
  the server (`OnlyOpenMove`: a step settles only calls that were open).
- `HealthyWorkerOwnedHolds`, `FailsWithItsWorkerHolds`: `TokensOrdered` says that an
  error handler which still hears is the current worker's, or there is no worker. The
  handler of an invalid payload ignores the token and may reset a later worker, so
  both properties stop at the first invalid payload that is seen; `InvalidBlamed` says
  that such a payload was sent by a worker at fault.
- `NoStaleOutputHolds`: a worker that still runs a settled call must never get another
  one. `CallsPlaced` and `RequestsApart` say where a posted request can be,
  `LeftoversShut` that a worker with work left over from a settled call is given up
  and awaited by nobody, and `OutputFresh` that the buffers then hold only output of
  calls that were open when any later one was posted.

`CapabilityBrokerProofs`
- `BytesBudgetHolds`: `BytesCounted` says that, with a budget below the largest number,
  the counter equals what was moved. With the largest number as budget saturation makes
  the test vacuous, so the property leaves it out.
- `FilesBudgetHolds`: `FilesCounted` says that what was written whole is in
  `written_files`, whose cardinality the test bounds.
- `RequestsBudgetHolds`, with the counter's type.
- `NoSilentDenialHolds`: `DenialsKept` says that a code is unset only while the trail
  has no entry of its kind, and that an `ok` result means both are unset.
- `EffectsAuditedHolds`: `AccountsFor` names the entry of the trail, or the failed
  write, behind a file; the trail only grows, so it still accounts for the file later.
- `SameFileHolds`: normalization is a fold over the components. Unfolded one component
  at a time (`KeepStep`), its result is normal, the part below the selected root fits
  it, and joined to the root it is the normal path again, whichever root was taken.
- `BrokerTypeCorrect` combines the file and trail invariants.

`PackageLayerProofs`
- `LayerTypeCorrect`: `LayerKnown` adds that a call with a key has entries of its class.
- `OneMaterializationHolds`: `EntriesLive` makes the entries of `inFlightMaterializations`
  and the calls that materialize the same thing, in both directions.
- `NoStageLeftHolds`: `StagesOwned` gives each stage directory to the one call that
  will rename or remove it.
- `SelectedWasWholeHolds`: `PromotionSeen` says that a call past its rename had a whole
  layer before it, seen by itself or by the call it joined.
- `OnlyStaleRemovalsHolds`: a removal works by path over many steps; `LooksStale` ties
  each of them to a look that found nothing, before the last promotion of the key.
- `ResolvedIsPinnedHolds`: `CacheExtracted` says what any directory under a key can be
  made of, `Served` that each class a call has come to is the layer of its own request.

`EngineLaunchProofs`
- `LaunchTypeCorrect`: `EntryInRange` bounds the position in the list of entries.
- `SkipIsSafeHolds`: `ComponentVouched`. `build.json` is written after the component was
  composed, so its presence vouches for it, except while a builder composes again.
- `ListedIsWholeHolds`, `ReadyHasHomeHolds`: `ListedSound` and `HomeSound` say the same
  of each entry of the manifest and of the home, with the process that is writing or
  the one that was killed there as the only excuses.
- `ProfileAgreesHolds`: `WorkersStarted` says that only a runtime with a valid profile
  starts a worker; that the worker reads the same numbers is a lemma about the parsing.
- `MappedStaysHolds`: `MappedWhole` says that what a worker has mapped was compiled before,
  so that a runtime decides to write it only when nobody has it mapped.

`RuntimeRequestsProofs`
- `RequestsTypeCorrect` and `DenialAuditedHolds` share one invariant: `Typed`,
  `InputsKnown` (a request past the preflight passed it), `InboxPosted` and
  `ResultsSound`. The lemmas are about the operators: what `CollectAttempts` and the
  policy make of any list of calls, that a denial ends the trail of each engine, that
  numbers follow each other after the boundary's events are put in front, and that what
  each engine returns is accepted by `validateRunResult`.
- `AcceptedThenRefusedHolds`: `SimulatedFits` says that a simulated run ended with what
  `simulateRun` gives for its request with the grant copied; lemmas about validation
  show that this copy is refused exactly if the request asked for the network.
- `GuestWithinGrantHolds`: `Apart` says that two runs in the worker at once disturb each
  other, `Vouched` that what the interpreter has loaded passed the check of the packages,
  and `GuestsWithin` that the bridge of an undisturbed guest is its own, counts what
  the guest got, and has kept it within the grant.

`ReplayProofs`
- `ReplayAgreesHolds`: both engines are shown to be functions of the request. For the
  simulated one this is a lemma (`SimulationReplays`): neither clock counts. For the
  worker, `RanUpTo` is the guest's output after n calls as a recursive function of the
  request; `GuestsReplay` says that an undisturbed deterministic guest has printed just
  that, whoever used the interpreter before. Its induction step needs that the prelude
  sets every patched module whatever state it meets (`StartReplays`), and that
  other calls do not reach the interpreter in between (`OthersReplay`).

`Induction` derives induction over numbers from the least number of a set, in a form
that names a set instead of a predicate (`SetInduction`). With it a recursive function
is unfolded one step at a time: a filter, the policy over a list of attempts, path
normalization, the guest's run.

### Only model-checked

- Liveness: `RunsSettle`, `CloseReturns` and their like. They need fairness, and so
  ENABLED, which is out of the prover's reach; TLC checks them on the small instances.
- The four violations, which are counterexamples and need no proof.


## Not modelled

- The native ABI's pipes between guest and broker: split frames, prefetched program
  input and the truncated stderr are listed as hazards.
- The worker's `enforce_capability_policy` and `enforce_isolation_profile`, and the
  setting up of the store, fuel and epochs: checks and set-up of one run without a
  state that others see.
- Kernel isolation: system calls without a state of their own. Whether the envelope
  loads is a condition of `EngineLaunch`.
- Lengths in bytes of the frame codec, the arithmetic of the random generator and of the
  replay hash, hashes of files (equality of what they hash), contents of results and
  the wording of errors.
- Poisoning of the broker's mutex needs a panic of the worker, and the transport sees
  that as a crash.
- The factory registry is a map filled at import time, and the CLI's self test calls a
  runtime once. The repository's gates check its own text and history.
- The copies of the server runtime for bun and deno differ from node's in the names they
  read; one model stands for the three.

## Plan

1. `NativeAbi`: the guest's request frames on stderr and responses on stdin, composed
   with the broker: split frames, prefetched program input, truncated stderr.
2. `Framing`: the byte-level codec against a reference definition.
3. Proofs: that the package layer implements a cache whose lookup is one step, and
   that `RuntimeRequests` keeps the contract of `RunService` too; both need an
   abstract specification or a mapping first.
