----------------------------- MODULE EngineLaunch -----------------------------
(***************************************************************************)
(* Processes that start server runtimes and build the engine in one        *)
(* checkout: createTransport and ensureStarted up to a worker that is      *)
(* ready (run_worker, WasiExecutor::new), with the builders they run and   *)
(* wait for, scripts/component/build.mjs and scripts/engine/build-wasi.mjs *)
(* They share the files under artifacts/ and .tools/, without a lock.      *)
(*                                                                         *)
(* A file is written by opening it, which empties it, and filling it, so   *)
(* it is missing, torn or whole.  All versions of a file are alike except  *)
(* those of manifest.json, which is read, extended and written back.       *)
(***************************************************************************)
EXTENDS LaunchConfig, FiniteSets

CONSTANTS
    Procs,          \* processes
    Starts,         \* what the processes may be for ("launch", "engine" or
                    \* "component"), their environments and the files at first
    MaxKills        \* bound: processes that are killed

ASSUME LaunchTasks == \A s \in Starts : s.task \in [Procs -> {"launch", "engine", "component"}]
ASSUME LaunchKills == MaxKills \in Nat

FileStates == {"missing", "torn", "whole"}

Artifacts == {"module", "bridge", "emscripten"}

AllEntries == Artifacts \cup {"bundles"}

ASSUME LaunchFiles ==
    \A s \in Starts :
        /\ {s.archive, s.home, s.tools, s.component, s.compiled, s.build} \subseteq FileStates
        /\ s.artifact \in [Artifacts -> FileStates]
        /\ s.manifest \in [state : FileStates \cup {"garbled"}, entries : SUBSET AllEntries]

\* No earlier builder ended in the middle of its work on the home, on the
\* component or on an artifact, and a manifest lists what was written.
ASSUME LaunchUnspoiled ==
    \A s \in Starts :
        /\ s.home # "torn"
        /\ s.build # "missing" => s.component = "whole"
        /\ \A e \in s.manifest.entries \cap Artifacts : s.artifact[e] = "whole"

VARIABLES
    task,           \* what each process is for
    pc,             \* where it stands
    env,            \* its environment
    back,           \* where it goes on after build-wasi.mjs
    at,             \* the entry of the manifest it writes
    read,           \* the entries it read
    disturbed,      \* its copy of the Python home lost files to another process
    archive, tmp,   \* the cached archive and its .tmp
    home,           \* artifacts/engine/wasi-python
    artifact,       \* the files the manifest has the hashes of
    manifest,       \* manifest.json: its state and its entries
    tools,          \* the downloads of build.mjs
    component,      \* aegispy.component.wasm
    compiled,       \* aegispy.component.cwasm
    build,          \* build.json
    kills,          \* processes killed so far
    mapped,         \* workers that have the compiled component mapped
    looked,         \* history: mapped, when a process decided to write the file
    spoiled         \* history: what processes that ended left half done

control == <<task, env, back, at, read, disturbed>>
cache   == <<archive, tmp>>
engine  == <<cache, home, artifact, manifest>>
parts   == <<tools, component, compiled, build>>
history == <<looked, spoiled>>
vars    == <<pc, control, engine, parts, kills, mapped, history>>

WasiBuild == {"archive", "downloading", "renaming", "unpack", "clear", "copy", "copying",
              "artifact", "writing", "read", "truncate", "fill"}
ComponentBuild == {"core", "tools", "curling", "compose", "composing", "compile", "compiling",
                   "publish", "publishing"}
WorkerBoot == {"boot", "engine", "verify", "load", "persist", "persisting"}
Ended == {"local", "ready", "simulated", "failed", "killed", "done"}

TypeOK ==
    /\ \E s \in Starts : task = s.task /\ env = s.env
    /\ pc \in [Procs -> {"idle", "created", "binary"} \cup WasiBuild \cup ComponentBuild
                           \cup WorkerBoot \cup Ended]
    /\ back \in [Procs -> {"tools", "verify", "again", "done"}]
    /\ at \in [Procs -> 1..4]
    /\ read \in [Procs -> SUBSET AllEntries]
    /\ disturbed \in [Procs -> BOOLEAN]
    /\ {archive, tmp, home, tools, component, compiled, build} \subseteq FileStates
    /\ artifact \in [Artifacts -> FileStates]
    /\ manifest \in [state : FileStates \cup {"garbled"}, entries : SUBSET AllEntries]
    /\ kills \in 0..MaxKills
    /\ mapped \in SUBSET Procs
    /\ looked \in [Procs -> SUBSET Procs]
    /\ spoiled \in SUBSET {"home", "component", "artifact"}

Init ==
    /\ \E s \in Starts :
           /\ task = s.task /\ env = s.env
           /\ archive = s.archive /\ home = s.home /\ artifact = s.artifact
           /\ manifest = s.manifest /\ tools = s.tools
           /\ component = s.component /\ compiled = s.compiled /\ build = s.build
    /\ pc = [p \in Procs |-> "idle"]
    /\ back = [p \in Procs |-> "done"]
    /\ at = [p \in Procs |-> 1]
    /\ read = [p \in Procs |-> {}]
    /\ disturbed = [p \in Procs |-> FALSE]
    /\ tmp = "missing"
    /\ kills = 0
    /\ mapped = {}
    /\ looked = [p \in Procs |-> {}]
    /\ spoiled = {}

Go(p, place) == pc' = [pc EXCEPT ![p] = place]

Others(p, places) == \E q \in Procs \ {p} : pc[q] \in places

\* A file this process has filled: whole, but for a process that has emptied
\* it since and has not filled it yet.
Filled(p, file, places) ==
    IF file = "torn" /\ Others(p, places) THEN {"torn", "whole"} ELSE {"whole"}

\* A file of the home is there when the home is whole, and maybe when it is torn.
InHome == IF home = "torn" THEN BOOLEAN ELSE {home = "whole"}

\* mutant: a home that is not there passes.
HomePresentAlways == TRUE

\* fs.existsSync and Path::exists see that the directory is there.
HomePresent == home # "missing"
-------------------------------------------------------------------------------
(* createTransport and the constructor of RustWorkerTransport.             *)

\* readServerBundleManifest: the text parses and has the shape lib.mjs writes.
ManifestReads == manifest.state = "whole"

\* resolveCurrentServerBundle: there is a bundle for the target.
BundleResolves(e) == ManifestReads /\ "bundles" \in manifest.entries /\ TargetKnown(e)

\* The constructor of RustWorkerTransport returns.
ProcessTransport(e) == BundleResolves(e) /\ IsolationValid(e) /\ ExecutionMode(e) # "invalid"

\* The runtime without a worker has no package layers.
LocalTransport(e) == ~e.packages /\ BundleResolves(e)

Create(p) ==
    /\ pc[p] = "idle" /\ task[p] = "launch"
    /\ Go(p, CASE TransportMode(env[p]) = "process" /\ ProcessTransport(env[p]) -> "created"
               [] TransportMode(env[p]) = "local" /\ LocalTransport(env[p])     -> "local"
               [] OTHER                                                         -> "failed")
    /\ UNCHANGED <<control, engine, parts, kills, mapped, history>>

\* The command line: pnpm engine:build, which runs buildWasi and
\* buildEmscripten once when it imports them and once more, or component:build.
StartTool(p) ==
    /\ pc[p] = "idle" /\ task[p] # "launch"
    /\ Go(p, IF task[p] = "engine" THEN "archive" ELSE "core")
    /\ back' = [back EXCEPT ![p] = IF task[p] = "engine" THEN "again" ELSE "done"]
    /\ looked' = [looked EXCEPT ![p] = mapped]
    /\ UNCHANGED <<task, env, at, read, disturbed, engine, parts, kills, mapped, spoiled>>

\* mutant: the component is built at every start.
BuildAtEveryStart(p) ==
    /\ pc[p] = "created"
    /\ Go(p, "core")
    /\ looked' = [looked EXCEPT ![p] = mapped]
    /\ UNCHANGED <<control, engine, parts, kills, mapped, spoiled>>

\* resolveLinkerEnv finds a compiler or sets one up, or fails.
LinkerResolves == BOOLEAN

\* ensureStarted: the linker, then ensureComponentArtifact.
EnsureComponentArtifact(p) ==
    /\ pc[p] = "created"
    /\ \/ FALSE \in LinkerResolves /\ Go(p, "failed") /\ UNCHANGED looked
       \/ build # "missing" /\ component # "missing" /\ Go(p, "binary") /\ UNCHANGED looked
       \/ /\ build = "missing" \/ component = "missing"
          /\ Go(p, "core")
          /\ looked' = [looked EXCEPT ![p] = mapped]
    /\ UNCHANGED <<control, engine, parts, kills, mapped, spoiled>>

\* ensureWorkerBinary: the binary is there and not stale, or cargo builds it,
\* under its own lock, or fails.
WorkerBuilds == BOOLEAN

\* The rest of ensureStarted.
LaunchWorker(p) ==
    /\ pc[p] = "binary"
    /\ \E built \in WorkerBuilds :
           Go(p, IF built /\ LaunchAvailable(env[p]) THEN "boot" ELSE "failed")
    /\ UNCHANGED <<control, engine, parts, kills, mapped, history>>
-------------------------------------------------------------------------------
(* scripts/component/build.mjs.                                            *)

EnsureWasiCoreWasm(p) ==
    /\ pc[p] = "core"
    /\ \E there \in InHome :
           IF there THEN Go(p, "tools") /\ UNCHANGED back
                    ELSE Go(p, "archive") /\ back' = [back EXCEPT ![p] = "tools"]
    /\ UNCHANGED <<task, env, at, read, disturbed, engine, parts, kills, mapped, history>>

\* The tools, and the wasmtime that compiles, are bundled for one platform;
\* elsewhere the tools may be given by their paths.
ToolsBundled(e) == e.platform = "linux" /\ e.arch = "x64"

\* ensureAdapter, ensureWasmTools and ensureWac: what is there has its hash
\* checked, and is removed when that is not the pinned one.
EnsureTools(p) ==
    /\ pc[p] = "tools"
    /\ IF ~ToolsBundled(env[p])
       THEN Go(p, IF env[p].overrides THEN "compose" ELSE "failed") /\ UNCHANGED tools
       ELSE CASE tools = "missing" -> tools' = "torn"    /\ Go(p, "curling")
              [] tools = "torn"    -> tools' = "missing" /\ Go(p, "failed")
              [] tools = "whole"   -> UNCHANGED tools    /\ Go(p, "compose")
    /\ UNCHANGED <<control, engine, component, compiled, build, kills, mapped, history>>

\* curl ends, and the hash of what is there now is checked.
CurlTools(p) ==
    /\ pc[p] = "curling"
    /\ \/ Go(p, "failed") /\ UNCHANGED tools
       \/ /\ tools # "missing"
          /\ \E s \in Filled(p, tools, {"curling"}) :
                 IF s = "whole" THEN tools' = "whole" /\ Go(p, "compose")
                                ELSE tools' = "missing" /\ Go(p, "failed")
    /\ UNCHANGED <<control, engine, component, compiled, build, kills, mapped, history>>

\* mutant: wac is not waited for.
ComposeNotAwaited(p) ==
    /\ pc[p] = "compose"
    /\ component' = "torn" /\ Go(p, "compile")
    /\ UNCHANGED <<control, engine, tools, compiled, build, kills, mapped, history>>

\* wasm-tools reads python.wasm of the home, wac empties the component.
Compose(p) ==
    /\ pc[p] = "compose"
    /\ \E there \in InHome :
           IF there THEN component' = "torn" /\ Go(p, "composing")
                    ELSE UNCHANGED component /\ Go(p, "failed")
    /\ UNCHANGED <<control, engine, tools, compiled, build, kills, mapped, history>>

\* wac has filled the component, wasm-tools validates it.
Composed(p) ==
    /\ pc[p] = "composing"
    /\ \E s \in Filled(p, component, {"composing"}) :
           component' = s /\ Go(p, IF s = "whole" THEN "compile" ELSE "failed")
    /\ UNCHANGED <<control, engine, tools, compiled, build, kills, mapped, history>>

\* The compiled component is emptied, by build.mjs or by a worker, under those
\* that have it mapped.
EmptyCompiled == compiled' = "torn" /\ mapped' = {}

\* ensureCompiledComponent.
Compile(p) ==
    /\ pc[p] = "compile"
    /\ IF ~ToolsBundled(env[p]) THEN Go(p, "publish") /\ UNCHANGED <<compiled, mapped>>
       ELSE IF component = "whole" THEN EmptyCompiled /\ Go(p, "compiling")
                                   ELSE UNCHANGED <<compiled, mapped>> /\ Go(p, "failed")
    /\ UNCHANGED <<control, engine, tools, component, build, kills, history>>

FillCompiled(p) == compiled' \in Filled(p, compiled, {"compiling", "persisting"})

CompileEnd(p) ==
    /\ pc[p] = "compiling"
    /\ FillCompiled(p)
    /\ Go(p, "publish")
    /\ UNCHANGED <<control, engine, tools, component, build, kills, mapped, history>>

\* build.json is emptied.
Publish(p) ==
    /\ pc[p] = "publish"
    /\ build' = "torn"
    /\ Go(p, "publishing")
    /\ UNCHANGED <<control, engine, tools, component, compiled, kills, mapped, history>>

Published(p) ==
    /\ pc[p] = "publishing"
    /\ build' \in Filled(p, build, {"publishing"})
    /\ Go(p, IF task[p] = "launch" THEN "binary" ELSE "done")
    /\ UNCHANGED <<control, engine, tools, component, compiled, kills, mapped, history>>
-------------------------------------------------------------------------------
(* The worker, up to its first request (run_worker).                       *)

\* verify_manifest: every artifact that is listed has its hash.
ManifestVerifies ==
    manifest.state = "whole" /\ \A e \in manifest.entries \cap Artifacts : artifact[e] = "whole"

WorkerEnv(p) == ToWorkerIsolationEnv(ResolveIsolationProfile(env[p]))

\* load_isolation_profile and load_kernel_isolation_envelope: a kernel of Linux
\* may refuse the controls, or not report them afterwards.
ProfileLoads(p) ==
    IF WorkerProfileValid(WorkerEnv(p)) /\ env[p].platform # "linux" THEN {TRUE}
    ELSE {FALSE, WorkerProfileValid(WorkerEnv(p))}

\* verify_engine_if_present and load_executor_mode; a simulation loads its
\* profile next.
Boot(p) ==
    /\ pc[p] = "boot"
    /\ \E loads \in ProfileLoads(p) :
           Go(p, CASE ~(manifest.state = "missing" \/ ManifestVerifies) -> "failed"
                   [] env[p].executor = "wasi"                          -> "engine"
                   [] env[p].executor = "simulation" /\ loads           -> "simulated"
                   [] OTHER                                             -> "failed")
    /\ UNCHANGED <<control, engine, parts, kills, mapped, history>>

\* ensure_wasi_engine_ready: what is missing is built.
EnsureWasiEngineReady(p) ==
    /\ pc[p] = "engine"
    /\ IF manifest.state = "missing" \/ artifact["module"] = "missing" \/ ~HomePresent
       THEN Go(p, "archive") /\ back' = [back EXCEPT ![p] = "verify"]
       ELSE Go(p, "verify") /\ UNCHANGED back
    /\ UNCHANGED <<task, env, at, read, disturbed, engine, parts, kills, mapped, history>>

\* The rest of it, then the profile.
VerifyEngine(p) ==
    /\ pc[p] = "verify"
    /\ \E loads \in ProfileLoads(p) :
           Go(p, IF ManifestVerifies /\ artifact["module"] # "missing" /\ HomePresent /\ loads
                 THEN "load" ELSE "failed")
    /\ UNCHANGED <<control, engine, parts, kills, mapped, history>>

\* WasiExecutor::new: the compiled component is mapped, or else the component
\* is compiled in memory.
LoadComponent(p) ==
    /\ pc[p] = "load"
    /\ IF component = "missing" \/ ~HomePresent THEN Go(p, "failed") /\ UNCHANGED <<mapped, looked>>
       ELSE CASE compiled = "whole" -> Go(p, "ready") /\ mapped' = mapped \cup {p} /\ UNCHANGED looked
              [] compiled # "whole" /\ component = "whole"
                    -> Go(p, "persist") /\ looked' = [looked EXCEPT ![p] = mapped] /\ UNCHANGED mapped
              [] OTHER -> Go(p, "failed") /\ UNCHANGED <<mapped, looked>>
    /\ UNCHANGED <<control, engine, parts, kills, spoiled>>

\* fs::write of what was compiled; a failure is only logged.
Persist(p) ==
    /\ pc[p] = "persist"
    /\ \/ EmptyCompiled /\ Go(p, "persisting")
       \/ UNCHANGED <<compiled, mapped>> /\ Go(p, "ready")
    /\ UNCHANGED <<control, engine, tools, component, build, kills, history>>

Persisted(p) ==
    /\ pc[p] = "persisting"
    /\ FillCompiled(p)
    /\ Go(p, "ready")
    /\ UNCHANGED <<control, engine, tools, component, build, kills, mapped, history>>
-------------------------------------------------------------------------------
(* scripts/engine/build-wasi.mjs, and build-emscripten.mjs behind it.      *)

\* ensureArchive: an archive with the pinned hash, or curl opens the .tmp.
EnsureArchive(p) ==
    /\ pc[p] = "archive"
    /\ IF archive = "whole" THEN Go(p, "unpack") /\ UNCHANGED cache
       ELSE archive' = "missing" /\ tmp' = "torn" /\ Go(p, "downloading")
    /\ UNCHANGED <<control, home, artifact, manifest, parts, kills, mapped, history>>

\* curl ends.  A .tmp that was renamed under it is the archive, and is filled.
Downloaded(p) ==
    /\ pc[p] = "downloading"
    /\ \/ Go(p, "failed") /\ UNCHANGED cache
       \/ /\ tmp = "missing" /\ archive = "torn"
          /\ archive' = "whole" /\ UNCHANGED tmp
          /\ Go(p, "failed")
       \/ /\ tmp # "missing" /\ UNCHANGED archive
          /\ \E s \in Filled(p, tmp, {"downloading"}) :
                 IF s = "whole" THEN tmp' = "whole" /\ Go(p, "renaming")
                                ELSE tmp' = "missing" /\ Go(p, "failed")
    /\ UNCHANGED <<control, home, artifact, manifest, parts, kills, mapped, history>>

RenameArchive(p) ==
    /\ pc[p] = "renaming"
    /\ IF tmp = "missing" THEN Go(p, "failed") /\ UNCHANGED cache
       ELSE archive' = tmp /\ tmp' = "missing" /\ Go(p, "unpack")
    /\ UNCHANGED <<control, home, artifact, manifest, parts, kills, mapped, history>>

\* extractArchive, into a directory of its own, and the hash of python.wasm.
ExtractArchive(p) ==
    /\ pc[p] = "unpack"
    /\ Go(p, IF archive = "whole" THEN "clear" ELSE "failed")
    /\ UNCHANGED <<control, engine, parts, kills, mapped, history>>

\* rmSync of the home, which takes files from those that copy into it, and
\* fails when they are as fast.
ClearHome(p) ==
    /\ pc[p] = "clear"
    /\ disturbed' = [q \in Procs |-> disturbed[q] \/ (q # p /\ pc[q] = "copying")]
    /\ \/ home' = "missing" /\ Go(p, "copy") /\ UNCHANGED spoiled
       \/ /\ Others(p, {"copying"})
          /\ Go(p, "failed") /\ spoiled' = spoiled \cup {"home"}
          /\ UNCHANGED home
    /\ UNCHANGED <<task, env, back, at, read, cache, artifact, manifest, parts, kills, mapped,
                   looked>>

CopyHome(p) ==
    /\ pc[p] = "copy"
    /\ home' = "torn"
    /\ Go(p, "copying")
    /\ UNCHANGED <<control, cache, artifact, manifest, parts, kills, mapped, history>>

\* cpSync and installBuiltinCapabilityBridge end.  A copy that lost files is
\* made whole by the copy of the process that took them.
CopyEnd(p) ==
    /\ pc[p] = "copying"
    /\ disturbed' = [disturbed EXCEPT ![p] = FALSE]
    /\ \/ /\ home # "missing"
          /\ home' \in IF /\ home = "torn"
                          /\ Others(p, {"copying"}) \/ (disturbed[p] /\ "home" \in spoiled)
                       THEN {"torn", "whole"} ELSE {"whole"}
          /\ Go(p, "artifact") /\ UNCHANGED spoiled
       \/ /\ disturbed[p]
          /\ Go(p, "failed") /\ spoiled' = spoiled \cup {"home"}
          /\ UNCHANGED home
    /\ UNCHANGED <<task, env, back, at, read, cache, artifact, manifest, parts, kills, mapped,
                   looked>>

\* mutant: the emscripten engine is registered twice.
EntriesTwice(p) == <<"module", "bridge", "bundles">> \o IF task[p] = "engine" THEN <<"emscripten", "emscripten">> ELSE <<>>

\* What goes into manifest.json, in the order in which it does; the bundles of
\* the six targets are one entry.
EntriesOf(p) == <<"module", "bridge", "bundles">> \o IF task[p] = "engine" THEN <<"emscripten">> ELSE <<>>

Entry(p) == EntriesOf(p)[at[p]]

Writing(p) == \E q \in Procs \ {p} : pc[q] = "writing" /\ Entry(q) = Entry(p)

\* mutant: the manifest is written while the artifact still is.
ArtifactNotAwaited(p) ==
    /\ pc[p] = "artifact"
    /\ artifact' = [e \in Artifacts |-> IF e = Entry(p) THEN "torn" ELSE artifact[e]]
    /\ Go(p, "read")
    /\ UNCHANGED <<control, cache, home, manifest, parts, kills, mapped, history>>

\* writeEngineArtifact; writeEngineBundle has no file of its own.
WriteEngineArtifact(p) ==
    /\ pc[p] = "artifact"
    /\ artifact' = [e \in Artifacts |-> IF e = Entry(p) THEN "torn" ELSE artifact[e]]
    /\ Go(p, IF Entry(p) \in Artifacts THEN "writing" ELSE "read")
    /\ UNCHANGED <<control, cache, home, manifest, parts, kills, mapped, history>>

ArtifactWritten(p) ==
    /\ pc[p] = "writing"
    /\ \E s \in (IF artifact[Entry(p)] = "torn" /\ Writing(p) THEN {"torn", "whole"} ELSE {"whole"}) :
           artifact' = [artifact EXCEPT ![Entry(p)] = s]
    /\ Go(p, "read")
    /\ UNCHANGED <<control, cache, home, manifest, parts, kills, mapped, history>>

\* loadJson: no file is an empty manifest, a text that does not parse throws.
ReadManifest(p) ==
    /\ pc[p] = "read"
    /\ IF manifest.state \in {"torn", "garbled"} THEN Go(p, "failed") /\ UNCHANGED read
       ELSE Go(p, "truncate") /\ read' = [read EXCEPT ![p] = manifest.entries]
    /\ UNCHANGED <<task, env, back, at, disturbed, engine, parts, kills, mapped, history>>

TruncateManifest(p) ==
    /\ pc[p] = "truncate"
    /\ manifest' = [state |-> "torn", entries |-> {}]
    /\ Go(p, "fill")
    /\ UNCHANGED <<control, cache, home, artifact, parts, kills, mapped, history>>

\* What the file holds once text is written from its start on: the rest of a
\* longer text stays behind it.
Overwritten(text) ==
    LET mine == [state |-> "whole", entries |-> text]
        junk == [state |-> "garbled", entries |-> {}]
    IN  CASE manifest.state = "whole" /\ text \subseteq manifest.entries /\ text # manifest.entries
                -> {junk}
          [] manifest.state = "garbled" \/ (manifest.state = "whole" /\ ~(manifest.entries \subseteq text))
                -> {mine, junk}
          [] OTHER -> {mine}

\* Where a builder goes after its last entry: build-all.mjs runs once more,
\* build.mjs sees whether python.wasm is there now.
AfterBuild(p) ==
    CASE back[p] = "again" -> {"archive"}
      [] back[p] = "tools" -> {IF there THEN "tools" ELSE "failed" : there \in InHome}
      [] OTHER -> {back[p]}

\* The rest of writeEngineArtifact: the manifest is filled, then the provenance
\* is read, extended and written the same way.  It may be torn when it is read,
\* if another builder writes it or one was killed.
FillManifest(p) ==
    /\ pc[p] = "fill"
    /\ manifest' \in Overwritten(read[p] \cup {Entry(p)})
    /\ read' = [read EXCEPT ![p] = {}]
    /\ \/ /\ at[p] < Len(EntriesOf(p))
          /\ at' = [at EXCEPT ![p] = @ + 1]
          /\ Go(p, "artifact") /\ UNCHANGED back
       \/ /\ at[p] = Len(EntriesOf(p))
          /\ at' = [at EXCEPT ![p] = 1]
          /\ \E place \in AfterBuild(p) : Go(p, place)
          /\ back' = [back EXCEPT ![p] = "done"]
       \/ /\ Entry(p) \in Artifacts /\ (Others(p, WasiBuild) \/ kills > 0)
          /\ Go(p, "failed") /\ UNCHANGED <<at, back>>
    /\ UNCHANGED <<task, env, disturbed, cache, home, artifact, parts, kills, mapped, history>>
-------------------------------------------------------------------------------
\* A process is killed, with the builder it waits for.  A file it was writing
\* stays torn, and a home it was removing loses files.
Kill(p) ==
    /\ pc[p] \notin Ended \cup {"idle"}
    /\ kills < MaxKills
    /\ kills' = kills + 1
    /\ spoiled' = spoiled \cup CASE pc[p] = "composing" -> {"component"}
                                 [] pc[p] \in {"clear", "copy", "copying"} -> {"home"}
                                 [] pc[p] = "writing" -> {"artifact"}
                                 [] OTHER -> {}
    /\ home' \in IF pc[p] = "clear" /\ home = "whole" THEN {"torn", "whole"} ELSE {home}
    /\ Go(p, "killed")
    /\ UNCHANGED <<control, cache, artifact, manifest, parts, mapped, looked>>

ComponentStep(p) ==
    \/ EnsureWasiCoreWasm(p) \/ EnsureTools(p) \/ CurlTools(p) \/ Compose(p) \/ Composed(p)
    \/ Compile(p) \/ CompileEnd(p) \/ Publish(p) \/ Published(p)

WasiStep(p) ==
    \/ EnsureArchive(p) \/ Downloaded(p) \/ RenameArchive(p) \/ ExtractArchive(p)
    \/ ClearHome(p) \/ CopyHome(p) \/ CopyEnd(p)
    \/ WriteEngineArtifact(p) \/ ArtifactWritten(p)
    \/ ReadManifest(p) \/ TruncateManifest(p) \/ FillManifest(p)

WorkerStep(p) ==
    \/ Boot(p) \/ EnsureWasiEngineReady(p) \/ VerifyEngine(p) \/ LoadComponent(p)
    \/ Persist(p) \/ Persisted(p)

Next ==
    \E p \in Procs :
        \/ Create(p) \/ StartTool(p) \/ EnsureComponentArtifact(p) \/ LaunchWorker(p)
        \/ ComponentStep(p) \/ WasiStep(p) \/ WorkerStep(p)
        \/ Kill(p)

Spec == Init /\ [][Next]_vars
-------------------------------------------------------------------------------
(* Properties.                                                             *)

\* What manifest.json lists is in place: verify_manifest meets a missing or a
\* half-written artifact only while a builder writes it, or after a process was
\* killed writing it.
ListedIsWhole ==
    manifest.state = "whole" =>
        \A e \in manifest.entries \cap Artifacts :
            \/ artifact[e] = "whole"
            \/ artifact[e] = "torn" /\ \E p \in Procs : pc[p] = "writing" /\ Entry(p) = e
            \/ artifact[e] = "torn" /\ "artifact" \in spoiled

\* build.json vouches for the component: ensureComponentArtifact, which skips
\* the build when both files exist, meets a half-written component only while a
\* builder composes it, or after one was killed composing it.
SkipIsSafe ==
    build # "missing" /\ component # "whole" =>
        \/ \E p \in Procs : pc[p] = "composing"
        \/ "component" \in spoiled

\* A worker that is ready to run WASI has the whole Python home, which no hash
\* covers, unless a builder replaces it or one ended while it did.
ReadyHasHome ==
    (\E p \in Procs : pc[p] = "ready") =>
        \/ home = "whole"
        \/ \E p \in Procs : pc[p] \in {"copy", "copying"}
        \/ "home" \in spoiled

\* The limits the worker enforces are those the runtime resolved and reports,
\* whatever the environment says and whichever process started the worker.
ProfileAgrees ==
    \A p \in Procs :
        pc[p] \in {"ready", "simulated"} =>
            LoadIsolationProfile(WorkerEnv(p)) = ResolveIsolationProfile(env[p])

\* deserialize_file maps the compiled component.  A process that starts a
\* runtime never empties the file under a worker that had it mapped when the
\* process decided to write it; only the component:build tool does.
MappedStays ==
    [][\A p \in Procs :
           (task[p] = "launch" /\ pc[p] \in {"compile", "persist"} /\ pc'[p] # pc[p])
           => looked[p] \cap mapped \subseteq mapped']_vars
===============================================================================
