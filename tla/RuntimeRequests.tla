---------------------------- MODULE RuntimeRequests ----------------------------
(***************************************************************************)
(* The requests of one runtime, from run() to their results: the boundary  *)
(* checks, the simulated engine, and the Pyodide interpreter of the        *)
(* browser's worker, which keeps its modules, its patched clock, its       *)
(* network bridge and its two output buffers from one request to the next. *)
(*                                                                         *)
(* How the supervisor creates, loses and replaces workers is the subject   *)
(* of BrowserSupervisor: here a timeout or a close() replaces the          *)
(* interpreter at once.  Python runs to its end or to its next await       *)
(* without giving way; only then does the worker take another message.     *)
(***************************************************************************)
EXTENDS BrowserContract

CONSTANTS
    Runs,           \* calls of runtime.run()
    Requests,       \* Requests[h]: what a runtime of host h may be called with
    Runtimes,       \* the runtimes that may have been created
    PayloadSizes    \* sizes of the responses the network may give

ASSUME PayloadAssumption == PayloadSizes \subseteq Nat
ASSUME CallsAssumption   == Null \notin Runs
ASSUME RequestsAssumption ==
    \A x \in Runtimes : \A q \in Requests[x.host] : q = Bad \/ RunRequest(q)

VARIABLES
    runtime,        \* the runtime's host and options
    closed,         \* its closed flag
    integrity,      \* BrowserRuntime.integrityPromise
    input,          \* input[r]: the request r was called with
    phase,          \* phase[r]: how far r has come
    result,         \* result[r]: what its promise resolved to
    engine,         \* engine[r]: who computed r's outcome
    inbox,          \* requests posted to the worker, not taken yet
    py,             \* the interpreter and the module variables of the worker
    active,         \* the run whose Python is executing, or Null
    pc,             \* pc[r]: the call of r's code that comes next
    want,           \* want[r]: the packages r found missing
    answer,         \* answer[r]: the message the worker posted for r
    got,            \* history: what the network returned to r's calls
    disturbed       \* history: runs another run overlapped in the worker

requestVars == <<runtime, input, result, engine>>
workerVars  == <<inbox, py, active, pc, want, answer>>
vars == <<requestVars, closed, integrity, phase, workerVars, got, disturbed>>

Fresh == [load |-> "none", bridged |-> FALSE, loaded |-> {}, clock |-> Null,
          seed |-> Null, drawn |-> 0, grant |-> Null, used |-> 0, spent |-> 0,
          out |-> <<>>, tags |-> {}]

InWorker == {"engine", "packages", "start", "guest", "waiting"}

Browser == runtime.host = "browser"
Capabilities == IF Browser THEN BrowserCapabilities(runtime.network)
                ELSE ServerCapabilities(runtime.transport)

\* The clock reads 1 when a run starts, and may have been set back or on.
Clocks == {[started |-> 1, ended |-> 0, chance |-> 0], [started |-> 1, ended |-> 2, chance |-> 1]}
Now    == 1
-------------------------------------------------------------------------------
Init ==
    /\ runtime \in Runtimes
    /\ closed = FALSE /\ integrity = "none"
    /\ input   = [r \in Runs |-> Null]   /\ phase  = [r \in Runs |-> "idle"]
    /\ result  = [r \in Runs |-> Null]   /\ engine = [r \in Runs |-> "none"]
    /\ inbox = <<>> /\ py = Fresh /\ active = Null
    /\ pc      = [r \in Runs |-> 1]      /\ want   = [r \in Runs |-> {}]
    /\ answer  = [r \in Runs |-> Null]
    /\ got     = [r \in Runs |-> [responses |-> 0, bytes |-> 0, origins |-> {}]]
    /\ disturbed = {}

\* The promise of run() r resolves.
Resolve(r, x) ==
    /\ phase'  = [phase EXCEPT ![r] = "done"]
    /\ result' = [result EXCEPT ![r] = x]

\* run() up to its first await.
Run(r, q) ==
    /\ phase[r] = "idle"
    /\ input' = [input EXCEPT ![r] = q]
    /\ \/ /\ ~ Accepts(runtime.host, Capabilities, closed, q)
          /\ Resolve(r, Refusal(runtime.host, Capabilities, closed, q, Now))
          /\ UNCHANGED integrity
       \/ /\ Accepts(runtime.host, Capabilities, closed, q)
          /\ phase' = [phase EXCEPT ![r] = IF Browser THEN "integrity" ELSE "transport"]
          /\ integrity' = IF Browser /\ integrity = "none" THEN "pending" ELSE integrity
          /\ UNCHANGED result
    /\ UNCHANGED <<runtime, engine, closed, workerVars, got, disturbed>>

\* A server runtime after its await: an in-process transport simulates; what
\* a worker process does with the request is the subject of ServerTransport.
TransportRuns(r) ==
    /\ phase[r] = "transport"
    /\ \/ /\ runtime.transport = "process"
          /\ phase' = [phase EXCEPT ![r] = "handed"]
          /\ UNCHANGED <<result, engine>>
       \/ /\ runtime.transport # "process"
          /\ \E env \in Clocks : Resolve(r, SimulateRun(input[r], env))
          /\ engine' = [engine EXCEPT ![r] = "simulated"]
    /\ UNCHANGED <<runtime, input, closed, integrity, workerVars, got, disturbed>>

\* ensureIntegrity settles, once for all runs: the packages are checked, and
\* then the assets when they come from a URL of the caller's.
IntegrityKnown ==
    /\ integrity = "pending"
    /\ \E outcome \in [AssetFiles -> AssetOutcomes] :
          integrity' = IF /\ PackagesSelected(runtime.packages, runtime.lockfile)
                          /\ runtime.assetBaseUrl => VerifyBrowserEngineAssets(outcome)
                       THEN "ok" ELSE "bad"
    /\ UNCHANGED <<requestVars, closed, phase, workerVars, got, disturbed>>

\* BrowserRuntime.run after that await: an error, the simulated fallback, or
\* the request is posted to the worker.
Dispatch(r) ==
    /\ phase[r] = "integrity"
    /\ \/ /\ integrity = "bad"
          /\ \E env \in Clocks :
                Resolve(r, WithRuntimeBoundaryAudit(Capabilities,
                        EngineErrorResult("integrity", <<>>, env.started, env.ended)))
          /\ UNCHANGED <<engine, inbox>>
       \/ /\ integrity = "ok" /\ RequiresRuntimeBoundaryFallback(input[r], Capabilities)
          /\ \E env \in Clocks :
                Resolve(r, WithRuntimeBoundaryAudit(Capabilities,
                        SimulateRun(Materialize(input[r]), env)))
          /\ engine' = [engine EXCEPT ![r] = "simulated"]
          /\ UNCHANGED inbox
       \/ /\ integrity = "ok" /\ ~ RequiresRuntimeBoundaryFallback(input[r], Capabilities)
          /\ LET valid == ValidWorkerRequest(input[r]) IN
             /\ phase' = [phase EXCEPT ![r] = IF valid THEN "posted" ELSE "done"]
             /\ inbox' = IF valid THEN Append(inbox, r) ELSE inbox
             /\ result' = IF valid THEN result
                          ELSE [result EXCEPT ![r] = WithRuntimeBoundaryAudit(Capabilities,
                                   EngineErrorResult("invalid_worker_request", <<>>, Now, Now))]
          /\ UNCHANGED engine
    /\ UNCHANGED <<runtime, input, closed, integrity, py, active, pc, want, answer, got,
                   disturbed>>
-------------------------------------------------------------------------------
(* The worker.                                                             *)

\* port.onMessage: the buffers are emptied and the engine is asked for.
Takes(r) ==
    LET others == {s \in Runs : phase[s] \in InWorker} IN
    /\ active = Null
    /\ inbox # <<>> /\ Head(inbox) = r
    /\ inbox' = Tail(inbox)
    /\ phase' = [phase EXCEPT ![r] = "engine"]
    /\ py' = [py EXCEPT !.out = <<>>, !.tags = {},
                        !.load = IF @ = "none" THEN "loading" ELSE @]
    /\ disturbed' = IF others = {} THEN disturbed ELSE disturbed \cup others \cup {r}
    /\ UNCHANGED <<requestVars, closed, integrity, active, pc, want, answer, got>>

\* loadPyodide settles.  A rejection stays until the worker is replaced.
EngineSettles ==
    /\ active = Null
    /\ py.load = "loading"
    /\ \E l \in {"ready", "failed"} : py' = [py EXCEPT !.load = l]
    /\ UNCHANGED <<requestVars, closed, integrity, phase, inbox, active, pc, want, answer, got,
                   disturbed>>

\* The handler's catch: the error goes to the host with its class.
Raise(r, raised) ==
    /\ answer' = [answer EXCEPT ![r] =
          [status |-> "error", stdout |-> py.out,
           stderr |-> IF py.tags = {} THEN "error" ELSE "traceback",
           errorCode |-> ClassifyTaggedError(py.tags, raised)]]
    /\ phase' = [phase EXCEPT ![r] = "answered"]
    /\ active' = Null

\* ensurePyodide after its awaits: the bridge is registered and the missing
\* packages are asked for.
Prepare(r) ==
    /\ active = Null
    /\ phase[r] = "engine"
    /\ \/ /\ py.load = "failed"
          /\ Raise(r, "plain")
          /\ UNCHANGED <<py, want>>
       \/ /\ py.load = "ready"
          /\ py' = [py EXCEPT !.bridged = TRUE]
          /\ want' = [want EXCEPT ![r] = runtime.packages \ py.loaded]
          /\ phase' = [phase EXCEPT ![r] =
                IF runtime.packages \subseteq py.loaded THEN "start" ELSE "packages"]
          /\ UNCHANGED <<answer, active>>
    /\ UNCHANGED <<requestVars, closed, integrity, inbox, pc, got, disturbed>>

\* pyodide.loadPackage settles.
PackagesSettle(r) ==
    /\ active = Null
    /\ phase[r] = "packages"
    /\ \/ /\ Raise(r, "plain")
          /\ UNCHANGED py
       \/ /\ py' = [py EXCEPT !.loaded = @ \cup want[r]]
          /\ phase' = [phase EXCEPT ![r] = "start"]
          /\ UNCHANGED <<answer, active>>
    /\ UNCHANGED <<requestVars, closed, integrity, inbox, pc, want, got, disturbed>>

PatchedOnce(p, det) ==                                       \* mutant: patched once
    IF det.enabled /\ p.seed = Null
    THEN [p EXCEPT !.clock = det.epochMs, !.seed = PythonSeed(det.rngSeedHex), !.drawn = 0]
    ELSE p
\* The prelude's patches of time and random.  Nothing takes them back.
Patched(p, det) ==
    IF det.enabled
    THEN [p EXCEPT !.clock = det.epochMs, !.seed = PythonSeed(det.rngSeedHex), !.drawn = 0]
    ELSE p

\* networkBridgePrelude: a new bridge with its own counters takes the place
\* of the one before; a request without a grant leaves that in place.
Bridged(p, network) ==
    IF network = Undefined THEN p ELSE [p EXCEPT !.grant = network, !.used = 0, !.spent = 0]

\* runPythonAsync: the prelude, and then the code.
Start(r) ==
    /\ active = Null
    /\ phase[r] = "start"
    /\ py' = Bridged(Patched(py, input[r].determinism), RequestedNetwork(input[r]))
    /\ active' = r
    /\ phase' = [phase EXCEPT ![r] = "guest"]
    /\ engine' = [engine EXCEPT ![r] = "started"]
    /\ UNCHANGED <<runtime, input, result, closed, integrity, inbox, pc, want, answer, got,
                   disturbed>>

Call(r) == input[r].code.calls[pc[r]]
AtEnd(r) == pc[r] > Len(input[r].code.calls)
Continue(r) ==
    /\ pc' = [pc EXCEPT ![r] = @ + 1]
    /\ UNCHANGED <<phase, active, answer>>

\* print(), of a text, of time.time() or of random.random().
Prints(r) ==
    /\ ~ AtEnd(r)
    /\ \/ /\ Call(r).op = "print"
          /\ py' = [py EXCEPT !.out = Append(@, <<"text">>)]
       \/ /\ Call(r).op = "time"
          /\ \E t \in {0, 2} :
                py' = [py EXCEPT !.out = Append(@, <<"time", IF py.clock = Null THEN t
                                                             ELSE py.clock>>)]
       \/ /\ Call(r).op = "rng" /\ py.seed # Null
          /\ py' = [py EXCEPT !.out = Append(@, <<"rng", py.seed, py.drawn + 1>>),
                              !.drawn = @ + 1]
       \/ /\ Call(r).op = "rng" /\ py.seed = Null
          /\ \E n \in {0, 1} : py' = [py EXCEPT !.out = Append(@, <<"random", n>>)]
    /\ Continue(r)
    /\ UNCHANGED got

\* An exception in a call: the guest reports it to stderr and goes on, or
\* its code ends with it.
Fails(r, raised) ==
    \/ /\ Call(r).caught
       /\ py' = [py EXCEPT !.tags = @ \cup {raised}]
       /\ Continue(r)
    \/ /\ ~ Call(r).caught
       /\ Raise(r, raised)
       /\ UNCHANGED <<py, pc>>

\* http_get_sync throws an engine error or gives a payload, whose size is
\* looked at only now; a response is counted when it is returned.
HttpGetSync(r) ==
    \/ Fails(r, "engine") /\ UNCHANGED got
    \/ \E size \in PayloadSizes :
          \/ /\ BytesExceeded(py.grant, py.spent, size)
             /\ Fails(r, "policy") /\ UNCHANGED got
          \/ /\ ~ BytesExceeded(py.grant, py.spent, size)
             /\ py' = [py EXCEPT !.used = @ + 1, !.spent = @ + size]
             /\ got' = [got EXCEPT ![r] =
                   [responses |-> @.responses + 1, bytes |-> @.bytes + size,
                    origins |-> @.origins \cup {BridgeOrigin(Call(r).target)}]]
             /\ Continue(r)

\* aegispy.http_get of the bridge that was installed last, if one was.
HttpGet(r) ==
    /\ ~ AtEnd(r) /\ Call(r).op = "http_request"
    /\ \/ /\ py.grant = Null
          /\ Fails(r, "plain") /\ UNCHANGED got
       \/ /\ py.grant # Null /\ BridgeRefuses(py.grant, py.used, Call(r).target)
          /\ Fails(r, "policy") /\ UNCHANGED got
       \/ /\ py.grant # Null /\ ~ BridgeRefuses(py.grant, py.used, Call(r).target)
          /\ HttpGetSync(r)

\* An exception of the guest's own.
GuestFails(r) ==
    /\ ~ AtEnd(r) /\ Call(r).op = "fail"
    /\ Fails(r, "plain") /\ UNCHANGED got

\* await of something that is not ready: other handlers run meanwhile.
Awaits(r) ==
    /\ ~ AtEnd(r) /\ Call(r).op = "await"
    /\ pc' = [pc EXCEPT ![r] = @ + 1]
    /\ phase' = [phase EXCEPT ![r] = "waiting"]
    /\ active' = Null
    /\ UNCHANGED <<py, answer, got>>

\* The code ends, unless it loops for ever, and its answer is posted.
Finishes(r) ==
    /\ AtEnd(r) /\ ~ input[r].code.loop
    /\ answer' = [answer EXCEPT ![r] =
          [status |-> "ok", stdout |-> py.out,
           stderr |-> IF py.tags = {} THEN "" ELSE "traceback", errorCode |-> Null]]
    /\ phase' = [phase EXCEPT ![r] = "answered"]
    /\ active' = Null
    /\ UNCHANGED <<py, pc, got>>

GuestStep(r) ==
    /\ active = r /\ phase[r] = "guest"
    /\ Prints(r) \/ HttpGet(r) \/ GuestFails(r) \/ Awaits(r) \/ Finishes(r)
    /\ UNCHANGED <<requestVars, closed, integrity, inbox, want, disturbed>>

Resumes(r) ==
    /\ active = Null /\ phase[r] = "waiting"
    /\ active' = r
    /\ phase' = [phase EXCEPT ![r] = "guest"]
    /\ UNCHANGED <<requestVars, closed, integrity, inbox, py, pc, want, answer, got, disturbed>>
-------------------------------------------------------------------------------
(* The host again.                                                         *)

\* The answer is delivered and made a result.
Deliver(r) ==
    /\ phase[r] = "answered"
    /\ \E env \in Clocks :
          Resolve(r, WithRuntimeBoundaryAudit(Capabilities,
                        BrowserResult(answer[r], env.started, env.ended)))
    /\ engine' = [engine EXCEPT ![r] = IF @ = "started" THEN "guest" ELSE @]
    /\ UNCHANGED <<runtime, input, closed, integrity, workerVars, got, disturbed>>

\* The worker is terminated and the next request finds a new one.  at is how
\* far the runs are, fate what becomes of the ones the worker had.
ReplaceWorker(at, gone, fate) ==
    /\ py' = Fresh /\ active' = Null /\ inbox' = <<>>
    /\ phase' = [s \in Runs |-> IF at[s] \in gone THEN fate ELSE at[s]]

\* The wall-clock timer of r, which terminates whatever worker is current;
\* the runs that worker had wait for their own timers.
Timeout(r) ==
    /\ phase[r] \in InWorker \cup {"posted", "orphan", "answered"}
    /\ ReplaceWorker([phase EXCEPT ![r] = "done"], InWorker \cup {"posted"}, "orphan")
    /\ result' = [result EXCEPT ![r] = WithRuntimeBoundaryAudit(Capabilities,
                                          TimeoutResult(input[r].limits.time.wallMs, Now))]
    /\ UNCHANGED <<runtime, input, engine, closed, integrity, pc, want, answer, got, disturbed>>

\* close(): the supervisor forgets the runs that are pending.
Close ==
    /\ ~ closed
    /\ closed' = TRUE
    /\ ReplaceWorker(phase, InWorker \cup {"posted", "orphan", "answered"}, "lost")
    /\ UNCHANGED <<requestVars, integrity, pc, want, answer, got, disturbed>>
-------------------------------------------------------------------------------
Next ==
    \/ \E r \in Runs :
          \/ \E q \in Requests[runtime.host] : Run(r, q)
          \/ TransportRuns(r) \/ Dispatch(r) \/ Deliver(r) \/ Timeout(r)
          \/ Takes(r) \/ Prepare(r) \/ PackagesSettle(r)
          \/ Start(r) \/ GuestStep(r) \/ Resumes(r)
    \/ IntegrityKnown \/ EngineSettles \/ Close

Spec == Init /\ [][Next]_vars
-------------------------------------------------------------------------------
Done == {r \in Runs : phase[r] = "done"}

\* Every result is one that validateRunResult accepts, whatever the host's
\* clock does between the two times it is read.
TypeOK ==
    /\ runtime \in Runtimes /\ closed \in BOOLEAN
    /\ integrity \in {"none", "pending", "ok", "bad"}
    /\ \A r \in Runs : phase[r] # "idle" => input[r] \in Requests[runtime.host]
    /\ phase \in [Runs -> {"idle", "transport", "handed", "integrity", "posted", "answered",
                           "orphan", "lost", "done"} \cup InWorker]
    /\ \A r \in Done : ValidRunResult(result[r])
    /\ engine \in [Runs -> {"none", "started", "guest", "simulated"}]
    /\ inbox \in Seq(Runs)
    /\ py.load \in {"none", "loading", "ready", "failed"}
    /\ py.tags \subseteq {"policy", "engine", "plain"}
    /\ active \in Runs \cup {Null}
    /\ pc \in [Runs -> Nat \ {0}]
    /\ disturbed \subseteq Runs

\* docs/security.md:26, denials start with the channel and the binding, and "the
\* terminal deny event follows": whichever of the boundary, the simulated
\* engine and the worker denies, the trail is numbered from 1, its last entry
\* is the denial, and a run that is not denied has no such entry.
DenialAudited ==
    \A r \in Done :
        LET x == result[r]
            n == Len(x.audit)
        IN  /\ \A i \in 1..n : x.audit[i].seq = i
            /\ x.termination = "policy_denied" <=> n > 0 /\ x.audit[n].kind = "policy_denied"
            /\ x.termination = "policy_denied" => x.status = "error"
            /\ \A i \in 1..(n - 1) : x.audit[i].kind # "policy_denied"
            /\ Browser => \A i \in DOMAIN BoundaryKinds(Capabilities) :
                              x.audit[i].kind = BoundaryKinds(Capabilities)[i]

\* Two runs of one deterministic request have the same replay hash, although
\* the second finds the interpreter as the first one left it, or one that
\* replaced it after a timeout.  Answers that depend on the network, and runs
\* that overlap in the worker, are left out.
ReplayAgrees ==
    \A r, s \in Done :
        /\ input[r] = input[s]
        /\ engine[r] \in {"simulated", "guest"} /\ engine[s] = engine[r]
        /\ {r, s} \cap disturbed = {}
        /\ input[r].determinism.enabled
        /\ engine[r] = "guest" => ~ Uses(input[r].code, "http_request")
        => ReplayOf(result[r]) = ReplayOf(result[s])

\* A guest that asked for the network, and was not overlapped by another, got
\* no more responses and bytes than its request grants, and from no origin it
\* does not grant: the bridge of an earlier run leaves nothing behind.  The
\* packages in the interpreter are pinned by a lockfile that verifies.
GuestWithinGrant ==
    /\ \A r \in Runs \ disturbed :
          got[r].responses > 0 /\ RequestedNetwork(input[r]) # Undefined =>
             LET n == RequestedNetwork(input[r]) IN
             /\ n.maxRequests > 0 => got[r].responses <= n.maxRequests
             /\ n.maxBytes > 0 => got[r].bytes <= n.maxBytes
             /\ got[r].origins \cap DenyOrigins(n) = {}
             /\ n.allowOrigins # {} => got[r].origins \subseteq n.allowOrigins
    /\ py.loaded # {} => /\ VerifyBrowserLockfile(runtime.lockfile)
                         /\ py.loaded \subseteq PinnedNames(runtime.lockfile)

\* A request the boundary accepted is refused as invalid only by the browser's
\* fallback, and there exactly when it asked for the network: the copy of its
\* grant then conflicts with the requested capability it was copied from.
AcceptedThenRefused ==
    \A r \in Done :
        engine[r] = "simulated" =>
            (result[r].error = "AEG-INVALID-REQUEST"
                <=> RequestedNetwork(input[r]) # Undefined)
===============================================================================
