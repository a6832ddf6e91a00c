---------------------------- MODULE RequestContract ----------------------------
(***************************************************************************)
(* What the core package does with one request, as operators: the          *)
(* validation of requests and results, the preflight at a runtime's        *)
(* boundary, the policy with its budgets, and the simulated engine that    *)
(* answers for in-process transports and for the browser's fallback.       *)
(*                                                                         *)
(* A request is a record whose fields may hold Bad (a value of the wrong   *)
(* type).  Guest code is what the engines read in its text: the calls it   *)
(* makes, in order, and its "#aegispy:" markers.  A path is the sequence   *)
(* of its components.  Issue lists, messages and details are left out; a   *)
(* printed line counts one byte.                                           *)
(***************************************************************************)
EXTENDS Picking, FiniteSets, SequencesExt

CONSTANTS
    Null,           \* JavaScript's null
    Undefined,      \* a field that is not there
    Bad             \* a value that is not of the expected type

Hosts        == {"node", "deno", "bun", "browser"}
Terminations == {"ok", "engine_error", "policy_denied", "timeout", "memory_limit",
                 "output_limit", "internal_error"}
ErrorCodes   == {"AEG-POLICY-DENIED", "AEG-TIMEOUT", "AEG-MEMORY-LIMIT", "AEG-OUTPUT-LIMIT",
                 "AEG-ENGINE", "AEG-UNSUPPORTED-HOST", "AEG-INVALID-REQUEST", "AEG-INTERNAL"}

Odd == {Null, Undefined, Bad}

ASSUME ValuesAssumption ==
    /\ Null # Undefined /\ Null # Bad /\ Undefined # Bad
    /\ \A v \in Odd : v \notin Int /\ v \notin ErrorCodes /\ v \notin BOOLEAN /\ v \notin Nat \X Nat
-------------------------------------------------------------------------------
(* What a caller may pass: the fields of the contract, of which any may    *)
(* hold no value, or a value of another type.                              *)

Number == Odd \cup Int
Origin == [name : STRING, upper : BOOLEAN]
Grant  == [allowOrigins : Odd \cup SUBSET Origin, denyOrigins : Odd \cup SUBSET Origin,
           maxRequests : Number, maxBytes : Number]

\* The number a seed's first eight hexadecimal digits make, and that of the rest.
Seed   == [head : Nat, tail : Nat]

ASSUME GrantAssumption == \A v \in Odd : v \notin Grant

RunRequest(q) ==
    LET p == q.permissions  c == q.requestedCapabilities  l == q.limits  d == q.determinism
    IN  /\ q \in [host : {q.host}, code : {q.code}, argv : {q.argv}, stdinUtf8 : {q.stdinUtf8},
                   permissions : {p}, requestedCapabilities : {c}, limits : {l},
                   determinism : {d}]
        /\ p \in Odd \/ p \in [fs : {p.fs}, http : Odd \cup Grant, env : {p.env}]
        /\ c \in Odd \/ c \in [network : Odd \cup Grant, storage : {c.storage},
                              fileAccess : {c.fileAccess}]
        /\ l \in Odd \/ l.time \in Odd \/ l.time.wallMs \in Number
        /\ d \in Odd \/ (d.epochMs \in Number /\ d.rngSeedHex \in Odd \cup Seed)
        /\ q.code \in Odd \/ q.code.calls \in Seq(ToSet(q.code.calls))
-------------------------------------------------------------------------------
(* contracts/validation.ts                                                 *)

IsPresent(v) == v \notin Odd
IsNumber(v)  == IsPresent(v) /\ v >= 0

ValidPermissions(p) ==
    /\ IsPresent(p)
    /\ p.fs = Null \/ (/\ IsPresent(p.fs)
                       /\ IsPresent(p.fs.readRoots) /\ IsPresent(p.fs.writeRoots)
                       /\ IsNumber(p.fs.maxBytes) /\ IsNumber(p.fs.maxFiles))
    /\ p.http = Null \/ (/\ IsPresent(p.http)
                         /\ IsPresent(p.http.allowOrigins) /\ IsPresent(p.http.denyOrigins)
                         /\ IsNumber(p.http.maxRequests) /\ IsNumber(p.http.maxBytes))
    /\ p.env = Null \/ (IsPresent(p.env) /\ IsPresent(p.env.allowKeys))

\* A network grant, in a request and again at the browser worker's door.
ValidNetwork(n) ==
    /\ IsPresent(n)
    /\ IsPresent(n.allowOrigins)
    /\ n.denyOrigins = Undefined \/ IsPresent(n.denyOrigins)
    /\ IsNumber(n.maxRequests) /\ IsNumber(n.maxBytes)

\* On the browser a requested family excludes the permission it stands for.
ValidRequestedCapabilities(c, browser, p) ==
    \/ c = Undefined
    \/ /\ IsPresent(c)
       /\ c.network = Undefined \/ (ValidNetwork(c.network) /\ (browser => p.http = Null))
       /\ c.storage = Undefined \/ (/\ IsPresent(c.storage) /\ IsNumber(c.storage.maxBytes)
                                    /\ browser => p.fs = Null)
       /\ c.fileAccess = Undefined \/ (/\ IsPresent(c.fileAccess)
                                       /\ c.fileAccess.mode \in {"read", "readwrite"}
                                       /\ browser => p.fs = Null)

ValidLimits(l) ==
    /\ IsPresent(l)
    /\ IsPresent(l.time)  /\ IsNumber(l.time.wallMs) /\ IsNumber(l.time.cpuMs)
    /\ IsPresent(l.bytes) /\ IsNumber(l.bytes.memoryBytes)
    /\ IsNumber(l.bytes.stdoutBytes) /\ IsNumber(l.bytes.stderrBytes)

\* A seed is hexadecimal when it is present.
ValidDeterminism(d) ==
    IsPresent(d) /\ d.enabled \in BOOLEAN /\ IsNumber(d.epochMs) /\ IsPresent(d.rngSeedHex)

ValidRunRequest(q) ==
    /\ IsPresent(q)
    /\ q.host \in Hosts /\ IsPresent(q.code) /\ IsPresent(q.argv) /\ IsPresent(q.stdinUtf8)
    /\ ValidPermissions(q.permissions)
    /\ ValidRequestedCapabilities(q.requestedCapabilities, q.host = "browser", q.permissions)
    /\ ValidLimits(q.limits) /\ ValidDeterminism(q.determinism)

\* A meta record is its times and its audit; its counters are left out.
ValidMeta(x) ==
    /\ IsNumber(x.startedTsMs) /\ IsNumber(x.endedTsMs) /\ IsNumber(x.durationMs)
    /\ x.termination \in Terminations
    /\ \A i \in DOMAIN x.audit : IsNumber(x.audit[i].seq) /\ IsNumber(x.audit[i].tsMs)

ValidError(e) == e \in ErrorCodes

ValidRunResult(x) ==
    /\ x.status \in {"ok", "error"}
    /\ IsNumber(x.exitCode)
    /\ ValidMeta(x)
    /\ x.status = "error" => ValidError(x.error)
-------------------------------------------------------------------------------
(* meta, errors, and the audit trail                                       *)

Lasted(started, ended) == ended - started                    \* mutant: not clamped
\* The host's clock may be set back between the two readings.
DurationMs(started, ended) == IF ended < started THEN 0 ELSE ended - started

\* A result; its error is Null exactly when its status is "ok".
Result(exit, out, err, termination, error, audit, started, ended) ==
    [status      |-> IF error = Null THEN "ok" ELSE "error",
     exitCode    |-> exit,        stdout    |-> out,         stderr |-> err,
     termination |-> termination, error     |-> error,       audit  |-> audit,
     startedTsMs |-> started,     endedTsMs |-> ended,
     durationMs  |-> DurationMs(started, ended)]

PushAudit(audit, kind, ts) == Append(audit, [seq |-> Len(audit) + 1, kind |-> kind, tsMs |-> ts])

BoundaryKinds(caps) ==
    IF caps.capabilityChannel = "none" THEN <<"runtime_binding">>
    ELSE <<"runtime_channel", "runtime_binding">>

\* An entry of each kind, in their order.
Trail(kinds, ts) == [i \in DOMAIN kinds |-> [seq |-> i, kind |-> kinds[i], tsMs |-> ts]]

Renumbered(audit) == [i \in DOMAIN audit |-> [audit[i] EXCEPT !.seq = i]]

AuditAppended(x, kinds) ==                                   \* mutant: prefix put last
    [x EXCEPT !.audit = Renumbered(x.audit \o Trail(kinds, x.startedTsMs))]
\* The prefix goes first, entries of its kinds are dropped from the result's
\* own, and the whole is numbered again.
WithAuditPrefix(x, kinds) ==
    LET own == {i \in DOMAIN x.audit : \A j \in DOMAIN kinds : kinds[j] # x.audit[i].kind}
    IN  [x EXCEPT !.audit = Renumbered(Trail(kinds, x.startedTsMs) \o Picked(x.audit, own))]

WithRuntimeBoundaryAudit(caps, x) == WithAuditPrefix(x, BoundaryKinds(caps))

\* What computeReplayHash hashes: neither times nor audit.
ReplayOf(x) == <<x.status, x.exitCode, x.stdout, x.stderr, x.termination, x.error>>
-------------------------------------------------------------------------------
(* runtime/preflight.ts                                                    *)

\* createServerRuntimeCapabilities: a simulated transport has no channel.
ServerCapabilities(transport) ==
    [capabilityChannel |-> IF transport = "process" THEN "component-wit" ELSE "none",
     families |-> Undefined, fs |-> TRUE, http |-> TRUE, env |-> TRUE]

UnsupportedCapabilities(caps, p) ==
    {f \in {"fs", "http", "env"} : ~ caps[f] /\ p[f] # Null}

UnsupportedRequestedCapabilities(caps, q) ==
    {f \in {"network", "storage", "fileAccess"} :
        /\ q.host = "browser" /\ q.requestedCapabilities # Undefined
        /\ q.requestedCapabilities[f] # Undefined
        /\ caps.families[f] # "available_granted"}

BoundaryErrorResult(caps, exit, message, termination, error, terminal, now) ==
    WithAuditPrefix(Result(exit, <<>>, message, termination, error, <<>>, now, now),
                    Append(BoundaryKinds(caps), terminal))

\* The checks of the boundary let a request pass.
Accepts(host, caps, closed, q) ==
    /\ ~ closed /\ ValidRunRequest(q) /\ q.host = host
    /\ UnsupportedCapabilities(caps, q.permissions) = {}
    /\ UnsupportedRequestedCapabilities(caps, q) = {}

\* The result of the first check that does not.
Refusal(host, caps, closed, q, now) ==
    IF closed
    THEN BoundaryErrorResult(caps, 1, "runtime_closed", "internal_error", "AEG-INTERNAL",
                             "engine_error", now)
    ELSE IF ~ ValidRunRequest(q)
    THEN BoundaryErrorResult(caps, 2, "invalid_request", "internal_error",
                             "AEG-INVALID-REQUEST", "engine_error", now)
    ELSE IF q.host # host
    THEN BoundaryErrorResult(caps, 2, "host_mismatch", "engine_error",
                             "AEG-UNSUPPORTED-HOST", "engine_error", now)
    ELSE BoundaryErrorResult(caps, 2, "unsupported_runtime_capability_request",
                             "policy_denied", "AEG-UNSUPPORTED-HOST", "policy_denied", now)
-------------------------------------------------------------------------------
(* policy/index.ts                                                         *)

Outside == <<"..">>                                  \* normalizePath's "../"

NormalizePath(path) ==
    FoldLeft(LAMBDA out, part :
                IF out = Outside \/ part \in {"", "."} THEN out
                ELSE IF part # ".." THEN Append(out, part)
                ELSE IF out = <<>> THEN Outside ELSE Front(out),
             <<>>, path)

IncludesTraversal(path) == \E i \in DOMAIN path : path[i] = ".."

\* The comparison is with the root and "root/": the root "/" holds nothing
\* but itself.
HasRootMatch(target, roots) ==
    \E root \in roots :
        LET t == NormalizePath(target)  r == NormalizePath(root)
        IN  t = r \/ (r # <<>> /\ IsStrictPrefix(r, t))

\* Origins are compared in lower case; grants are taken as they are spelled.
LowerCase(origin) == [origin EXCEPT !.upper = FALSE]
OriginFromTarget(url) == IF url.scheme = "http" THEN LowerCase(url.origin) ELSE Null

EmptyBudget == [fsBytes |-> 0, fsFiles |-> 0, httpRequests |-> 0, httpBytes |-> 0]

Decision(reason, kind, budget) ==
    [reason |-> reason, kind |-> IF reason = "allow" THEN kind ELSE "policy_denied",
     budget |-> budget]

CheckFs(policy, a, budget) ==
    LET files == budget.fsFiles + 1
        bytes == budget.fsBytes + a.bytes
        reason == IF policy = Null THEN "fs_permission_missing"
                  ELSE IF IncludesTraversal(a.target) THEN "fs_path_traversal"
                  ELSE IF ~ HasRootMatch(a.target, IF a.kind = "fs_read" THEN policy.readRoots
                                                   ELSE policy.writeRoots)
                       THEN "fs_root_violation"
                  ELSE IF files > policy.maxFiles THEN "fs_file_budget_reached"
                  ELSE IF bytes > policy.maxBytes THEN "fs_byte_budget_reached"
                  ELSE "allow"
    IN  Decision(reason, a.kind,
                 IF reason = "allow" THEN [budget EXCEPT !.fsFiles = files, !.fsBytes = bytes]
                 ELSE budget)

CheckHttp(policy, a, budget) ==
    LET requests == budget.httpRequests + 1
        bytes    == budget.httpBytes + a.bytes
        origin   == OriginFromTarget(a.target)
        reason == IF policy = Null THEN "http_permission_missing"
                  ELSE IF origin = Null THEN "http_invalid_url"
                  ELSE IF origin \in policy.denyOrigins THEN "http_origin_denied"
                  ELSE IF policy.allowOrigins # {} /\ origin \notin policy.allowOrigins
                       THEN "http_origin_not_granted"
                  ELSE IF requests > policy.maxRequests THEN "http_request_budget_reached"
                  ELSE IF bytes > policy.maxBytes THEN "http_byte_budget_reached"
                  ELSE "allow"
    IN  Decision(reason, a.kind,
                 IF reason = "allow"
                 THEN [budget EXCEPT !.httpRequests = requests, !.httpBytes = bytes]
                 ELSE budget)

CheckEnv(policy, a, budget) ==
    Decision(IF policy = Null THEN "env_permission_missing"
             ELSE IF a.target \notin policy.allowKeys THEN "env_key_not_granted" ELSE "allow",
             a.kind, budget)

EvaluatePolicyAttempt(p, a, budget) ==
    IF a.kind \in {"fs_read", "fs_write"} THEN CheckFs(p.fs, a, budget)
    ELSE IF a.kind = "http_request" THEN CheckHttp(p.http, a, budget)
    ELSE CheckEnv(p.env, a, budget)
-------------------------------------------------------------------------------
(* execution/simulated.ts and limits/index.ts                              *)

\* What a call without a quoted argument is taken to be about.
DefaultTarget(kind) ==
    IF kind = "fs_write" THEN <<"blocked", "out.txt">>
    ELSE IF kind = "fs_read" THEN <<"blocked", "in.txt">>
    ELSE IF kind = "env_read" THEN "HOME"
    ELSE [scheme |-> "http", origin |-> [name |-> "blocked.invalid", upper |-> FALSE]]

\* The calls of one kind that are spelled out in the text, in its order.
Spelled(code, kind) ==
    Picked(code.calls,
           {i \in DOMAIN code.calls : code.calls[i].op = kind /\ code.calls[i].spelled})

AttemptOf(c) ==
    [kind   |-> c.op,
     target |-> IF c.target = Undefined THEN DefaultTarget(c.op) ELSE c.target,
     bytes  |-> IF c.op = "fs_write" THEN c.bytes ELSE IF c.op = "http_request" THEN 256 ELSE 1]

\* Attempts are judged by kind, not in the order the guest makes them.
CollectAttempts(code) ==
    LET calls == Spelled(code, "fs_write") \o Spelled(code, "fs_read")
                 \o Spelled(code, "http_request") \o Spelled(code, "env_read")
    IN  [i \in DOMAIN calls |-> AttemptOf(calls[i])]

\* The loop over the attempts, which stops at the first denial: judged[i] is
\* what is known after i of them.
JudgedUpTo(q) ==
    LET attempts == CollectAttempts(q.code)
        judged[i \in 0..Len(attempts)] ==
            IF i = 0 THEN [reason |-> "allow", budget |-> EmptyBudget, kinds |-> <<>>]
            ELSE LET acc == judged[i - 1]
                     d   == EvaluatePolicyAttempt(q.permissions, attempts[i], acc.budget)
                 IN  IF acc.reason # "allow" THEN acc
                     ELSE [reason |-> d.reason, budget |-> d.budget,
                           kinds |-> Append(acc.kinds, d.kind)]
    IN  judged

Judged(q) == JudgedUpTo(q)[Len(CollectAttempts(q.code))]

Uses(code, op) == \E i \in DOMAIN code.calls : code.calls[i].op = op

\* The state makeDeterministicRng starts from; each call advances it.
RngState(seed) == IF seed.head = 0 THEN 1 ELSE seed.head

\* The lines of print(): time.time() and random.random() count their own
\* calls; chance is what Math.random gives.
CollectPrints(code, det, chance) ==
    LET prints == Picked(code.calls, {i \in DOMAIN code.calls :
                                          code.calls[i].op \in {"print", "time", "rng"}})
        nth(i) == Cardinality({j \in 1..(i - 1) : prints[j].op = prints[i].op})
        line(i) == IF prints[i].op = "print" THEN <<"text">>
                   ELSE IF prints[i].op = "time"
                   THEN <<"time", nth(i) + IF det.enabled THEN det.epochMs ELSE 1700000000>>
                   ELSE IF det.enabled THEN <<"rng", RngState(det.rngSeedHex), nth(i) + 1>>
                   ELSE <<"random", chance>>
    IN  [i \in DOMAIN prints |-> line(i)]

CheckWallTime(q)    == q.code.loop /\ q.limits.time.wallMs > 0
CheckMemoryLimit(q) == q.code.memory > q.limits.bytes.memoryBytes
\* Every line ends with a newline, and one stands after the marker's bytes.
CheckOutputLimit(q, lines) ==
    LET marker == q.code.stdout
        bytes  == marker + 2 * Len(lines) + IF marker > 0 /\ lines # <<>> THEN 1 ELSE 0
    IN  bytes > q.limits.bytes.stdoutBytes \/ q.code.stderr > q.limits.bytes.stderrBytes

\* evaluateRun, whose second look at the policy starts from a fresh budget.
EvaluateRun(q, chance, audit, started, ended) ==
    LET lines == CollectPrints(q.code, q.determinism, chance)
        out   == IF q.code.stdout > 0 THEN <<<<"x", q.code.stdout>>>> \o lines ELSE lines
        err   == IF q.code.stderr > 0 THEN "e" ELSE ""
        Ends(exit, o, e, termination, error) ==
            Result(exit, o, e, termination, error, audit, started, ended)
    IN  IF CheckWallTime(q)
        THEN Ends(124, <<>>, "wall_time_reached", "timeout", "AEG-TIMEOUT")
        ELSE IF CheckMemoryLimit(q)
        THEN Ends(137, <<>>, "memory_budget_reached", "memory_limit", "AEG-MEMORY-LIMIT")
        ELSE IF Judged(q).reason # "allow"
        THEN Ends(13, <<>>, Judged(q).reason, "policy_denied", "AEG-POLICY-DENIED")
        ELSE IF CheckOutputLimit(q, lines)
        THEN Ends(122, out, err, "output_limit", "AEG-OUTPUT-LIMIT")
        ELSE Ends(0, out, err, "ok", Null)

\* simulateRun; env holds the readings of the clock and of Math.random.
SimulateRun(q, env) ==
    IF ~ ValidRunRequest(q)
    THEN Result(2, <<>>, "invalid_request", "internal_error", "AEG-INVALID-REQUEST", <<>>,
                env.started, env.started)
    ELSE
    LET det     == q.determinism
        started == IF det.enabled THEN det.epochMs ELSE env.started
        ended(steps) == IF det.enabled THEN det.epochMs + steps ELSE env.ended
        judged  == Judged(q)
        kinds   == (IF ~ det.enabled /\ Uses(q.code, "time") THEN <<"determinism_time">> ELSE <<>>)
                   \o (IF ~ det.enabled /\ Uses(q.code, "rng") THEN <<"determinism_rng">> ELSE <<>>)
                   \o judged.kinds
        audit   == Trail(kinds, started)
    IN  IF judged.reason # "allow"
        THEN Result(13, <<>>, judged.reason, "policy_denied", "AEG-POLICY-DENIED", audit,
                    started, ended(Len(audit)))
        ELSE EvaluateRun(q, env.chance, audit, started, ended(Len(audit) + 1))
===============================================================================
