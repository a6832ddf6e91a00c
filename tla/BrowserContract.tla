---------------------------- MODULE BrowserContract ----------------------------
(***************************************************************************)
(* What the browser package adds to the core's handling of a request, as   *)
(* operators: the packages a lockfile admits, the choice between the       *)
(* Pyodide worker and the simulated fallback, the check at the worker's    *)
(* door, the network bridge's decisions, the classification of a guest's   *)
(* error, and the results made of a worker's answers.                      *)
(***************************************************************************)
EXTENDS RequestContract
-------------------------------------------------------------------------------
(* browser-integrity.ts.  A hash verifies or does not; the order packages  *)
(* are named in is left out.                                               *)

VerifyBrowserLockfile(lock) ==
    /\ IsPresent(lock)
    /\ lock.version = 1 /\ IsPresent(lock.generatedAt) /\ IsPresent(lock.entries)
    /\ \A i \in DOMAIN lock.entries :
          LET e == lock.entries[i]
          IN  /\ IsPresent(e) /\ e.https /\ e.hashVerifies
              /\ \A j \in 1..(i - 1) : lock.entries[j].name # e.name

PinnedNames(lock) == {lock.entries[i].name : i \in DOMAIN lock.entries}

\* selectBrowserPackages: no lockfile admits no package.
PackagesSelected(packages, lock) ==
    IF lock = Undefined THEN packages = {}
    ELSE VerifyBrowserLockfile(lock) /\ packages \subseteq PinnedNames(lock)

\* pyodideEngineAssetManifest, and what a fetch of one of its files brings.
AssetFiles    == {"pyodide-lock.json", "pyodide.asm.wasm", "python_stdlib.zip"}
AssetOutcomes == {"verified", "network_error", "http_status", "hash_mismatch"}
VerifyBrowserEngineAssets(outcome) == \A f \in AssetFiles : outcome[f] = "verified"
-------------------------------------------------------------------------------
(* browser-runtime.ts                                                      *)

BrowserCapabilities(network) ==
    [capabilityChannel |-> "worker-timeout",
     families |-> [network |-> network, storage |-> "unavailable", fileAccess |-> "unavailable"],
     fs |-> FALSE, http |-> FALSE, env |-> FALSE]

RequestedNetwork(q) ==
    IF q.host # "browser" \/ q.requestedCapabilities = Undefined THEN Undefined
    ELSE q.requestedCapabilities.network

DenyOrigins(network) == IF network.denyOrigins = Undefined THEN {} ELSE network.denyOrigins

MaterializeNothing(q) == q                                   \* mutant: grant not copied
\* materializeBrowserNetworkPermissions: the grant is copied, and the
\* requested capability stays in the request.
Materialize(q) ==
    LET network == RequestedNetwork(q) IN
    IF network = Undefined \/ q.permissions.http # Null THEN q
    ELSE [q EXCEPT !.permissions.http =
            [allowOrigins |-> network.allowOrigins, denyOrigins |-> DenyOrigins(network),
             maxRequests |-> network.maxRequests, maxBytes |-> network.maxBytes]]

RequiresRuntimeBoundaryFallback(q, caps) ==
    \/ q.code.stdout > 0 \/ q.code.stderr > 0
    \/ \E op \in {"fs_read", "fs_write", "env_read"} : Spelled(q.code, op) # <<>>
    \/ /\ Spelled(q.code, "http_request") # <<>>
       /\ RequestedNetwork(q) = Undefined \/ caps.families.network # "available_granted"

PolicyDeniedResult(reason, started, ended) ==
    Result(13, <<>>, reason, "policy_denied", "AEG-POLICY-DENIED",
           PushAudit(<<>>, "policy_denied", started), started, ended)

TimeoutResult(wallMs, now) ==
    Result(124, <<>>, "wall_time_reached", "timeout", "AEG-TIMEOUT", <<>>, now, now + wallMs)

EngineErrorResult(message, out, started, ended) ==
    Result(1, out, message, "engine_error", "AEG-ENGINE",
           PushAudit(<<>>, "engine_error", started), started, ended)

OkResult(out, err, started, ended) == Result(0, out, err, "ok", Null, <<>>, started, ended)

\* The result made of a worker's answer.
BrowserResult(answer, started, ended) ==
    IF answer.status = "ok" THEN OkResult(answer.stdout, answer.stderr, started, ended)
    ELSE IF answer.errorCode = "AEG-POLICY-DENIED"
    THEN PolicyDeniedResult(answer.stderr, started, ended)
    ELSE EngineErrorResult(answer.stderr, answer.stdout, started, ended)
-------------------------------------------------------------------------------
(* browser-worker-request.ts and pyodide-worker.mjs                        *)

\* normalizeBrowserWorkerRequest; the epoch need not be positive here.
ValidWorkerRequest(q) ==
    /\ IsPresent(q.code) /\ IsPresent(q.stdinUtf8)
    /\ IsPresent(q.determinism) /\ q.determinism.enabled \in BOOLEAN
    /\ IsPresent(q.determinism.epochMs) /\ IsPresent(q.determinism.rngSeedHex)
    /\ RequestedNetwork(q) = Undefined \/ ValidNetwork(RequestedNetwork(q))

\* random.Random(seed) of the prelude: the whole number is the seed.
PythonSeed(seed) == <<seed.head, seed.tail>>

\* The prelude gives the whole URL to urlsplit: any scheme has an origin.
BridgeOrigin(url) == IF url.scheme = "none" THEN Null ELSE LowerCase(url.origin)

NeverExhausted(grant, used) == FALSE                         \* mutant: requests not limited
\* A limit of 0 is no limit.
RequestsExhausted(grant, used) == grant.maxRequests > 0 /\ used >= grant.maxRequests
BytesExceeded(grant, spent, size) == grant.maxBytes > 0 /\ spent + size > grant.maxBytes

\* What _check_origin and the request limit say before anything is fetched.
BridgeRefuses(grant, used, url) ==
    LET origin == BridgeOrigin(url)
    IN  \/ origin = Null \/ origin \in DenyOrigins(grant)
        \/ grant.allowOrigins # {} /\ origin \notin grant.allowOrigins
        \/ RequestsExhausted(grant, used)

\* classifyTaggedError: a tag anywhere in stderr or in the error decides,
\* and the policy's tag comes first.
ClassifyTaggedError(tags, raised) ==
    IF "policy" \in tags \cup {raised} THEN "AEG-POLICY-DENIED" ELSE "AEG-ENGINE"
===============================================================================
