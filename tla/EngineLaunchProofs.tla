-------------------------- MODULE EngineLaunchProofs --------------------------
(***************************************************************************)
(* Proofs about EngineLaunch, for any number of processes and kills, any   *)
(* environments and any files that undisturbed builders left.              *)
(***************************************************************************)
EXTENDS EngineLaunch, SequenceTheorems, TLAPS

\* Inductive: a process writes an entry of its own list.
EntryInRange == \A p \in Procs : at[p] <= Len(EntriesOf(p))

\* Inductive: once build.json is there, or a builder has composed, the
\* component is whole, or torn by one that composes or was killed composing.
ComponentVouched ==
    build # "missing" \/ (\E p \in Procs : pc[p] \in {"compile", "compiling", "publish", "publishing"}) =>
        \/ component = "whole"
        \/ /\ component = "torn"
           /\ (\E p \in Procs : pc[p] = "composing") \/ "component" \in spoiled

\* A process on its way through a worker, or waiting for a builder there.
Booted(p) == pc[p] \in {"binary", "ready", "simulated"} \cup WorkerBoot \/ back[p] = "verify"

\* Inductive: only a runtime starts a worker, with a profile that was valid
\* and after build.json was written.
WorkersStarted ==
    /\ \A p \in Procs : Booted(p) => task[p] = "launch" /\ build # "missing"
    /\ \A p \in Procs : pc[p] = "created" => task[p] = "launch"
    /\ \A p \in Procs : pc[p] = "publishing" => build # "missing"
    /\ \A p \in Procs : task[p] = "launch" /\ pc[p] \notin {"idle", "local", "failed", "killed"} =>
           IsolationValid(env[p])

\* Inductive: a file that is mapped is whole and was mapped after the build,
\* so that a runtime decides to write only what nobody has mapped.
MappedWhole ==
    /\ mapped # {} => compiled = "whole" /\ build # "missing"
    /\ \A p \in Procs : task[p] = "launch" => looked[p] = {}

\* The artifact is whole, or torn by one that writes it or was killed writing.
Sound(e) ==
    \/ artifact[e] = "whole"
    \/ artifact[e] = "torn" /\ \E p \in Procs : pc[p] = "writing" /\ Entry(p) = e
    \/ artifact[e] = "torn" /\ "artifact" \in spoiled

\* Inductive: what the manifest lists, what a builder read of it and what it
\* is about to add is sound.
ListedSound ==
    \A e \in Artifacts :
        \/ e \in manifest.entries
        \/ \E p \in Procs : e \in read[p] \/ (pc[p] \in {"read", "truncate", "fill"} /\ e = Entry(p))
        => Sound(e)

\* Inductive: a home is torn only by a builder that copies or has ended
\* copying, and missing under a worker only while one replaces it.
HomeSound ==
    /\ home = "torn" => (\E p \in Procs : pc[p] = "copying") \/ "home" \in spoiled
    /\ home = "missing" /\ (\E p \in Procs : pc[p] \in {"persist", "persisting", "ready"}) =>
           (\E p \in Procs : pc[p] \in {"copy", "copying"}) \/ "home" \in spoiled
-------------------------------------------------------------------------------
(* Types.                                                                  *)

\* The list of entries a process writes, spelled out.
LEMMA EntriesListed ==
    ASSUME NEW p \in Procs
    PROVE  /\ Len(EntriesOf(p)) \in 3..4
           /\ \A i \in 1..Len(EntriesOf(p)) : EntriesOf(p)[i] \in AllEntries
<1>1. CASE task[p] = "engine"
  <2> DEFINE three == <<"module", "bridge", "bundles">>
             one   == <<"emscripten">>
  <2>1. EntriesOf(p) = three \o one
    BY <1>1 DEF EntriesOf
  <2>2. three \in Seq(AllEntries) /\ one \in Seq(AllEntries) /\ Len(three) = 3 /\ Len(one) = 1
    BY DEF AllEntries, Artifacts
  <2> HIDE DEF three, one
  <2>3. three \o one \in Seq(AllEntries)
    BY <2>2
  <2>4. Len(three \o one) = Len(three) + Len(one)
    BY <2>2, ConcatProperties
  <2>5. EntriesOf(p) \in Seq(AllEntries) /\ Len(EntriesOf(p)) = 4
    BY <2>1, <2>2, <2>3, <2>4
  <2>6. \A i \in 1..Len(EntriesOf(p)) : EntriesOf(p)[i] \in AllEntries
    BY <2>5, ElementOfSeq, Zenon
  <2> QED BY <2>5, <2>6
<1>2. CASE task[p] # "engine"
  <2>1. EntriesOf(p) = <<"module", "bridge", "bundles">>
    BY <1>2 DEF EntriesOf
  <2> QED BY <2>1 DEF AllEntries, Artifacts
<1> QED BY <1>1, <1>2

Places == {"idle", "created", "binary"} \cup WasiBuild \cup ComponentBuild \cup WorkerBoot \cup Ended

\* A process moves alone, between places, and neither its task nor its
\* environment changes.
Moves(p) ==
    /\ UNCHANGED <<task, env>>
    /\ \E place \in Places : Go(p, place)

LEMMA MovesTyped ==
    ASSUME TypeOK, NEW p \in Procs, Moves(p)
    PROVE  /\ \E s \in Starts : task' = s.task /\ env' = s.env
           /\ pc' \in [Procs -> Places]
           /\ \A q \in Procs \ {p} : pc'[q] = pc[q]
BY DEF TypeOK, Moves, Go, Places

ProcStep(p) ==
    \/ Create(p) \/ StartTool(p) \/ EnsureComponentArtifact(p) \/ LaunchWorker(p)
    \/ ComponentStep(p) \/ WasiStep(p) \/ WorkerStep(p) \/ Kill(p)

\* The type invariant together with EntryInRange is inductive.
Typed == TypeOK /\ EntryInRange

LEMMA StepMoves ==
    ASSUME Typed, NEW p \in Procs, ProcStep(p)
    PROVE  Moves(p)
<1> USE DEF Moves, Places, WasiBuild, ComponentBuild, WorkerBoot, Ended
<1>1. CASE Create(p) \/ StartTool(p) \/ EnsureComponentArtifact(p) \/ LaunchWorker(p)
  BY <1>1 DEF Create, StartTool, EnsureComponentArtifact, LaunchWorker, control
<1>2. CASE ComponentStep(p)
  BY <1>2 DEF ComponentStep, EnsureWasiCoreWasm, EnsureTools, CurlTools, Compose, Composed, Compile,
              CompileEnd, Publish, Published, control, Typed, TypeOK, FileStates
<1>3. CASE WorkerStep(p)
  BY <1>3 DEF WorkerStep, Boot, EnsureWasiEngineReady, VerifyEngine, LoadComponent, Persist, Persisted, control
<1>4. CASE WasiStep(p) /\ ~FillManifest(p)
  BY <1>4 DEF WasiStep, EnsureArchive, Downloaded, RenameArchive, ExtractArchive, ClearHome, CopyHome,
              CopyEnd, WriteEngineArtifact, ArtifactWritten, ReadManifest, TruncateManifest, control
<1>5. CASE FillManifest(p)
  <2>1. AfterBuild(p) \subseteq Places
    BY DEF AfterBuild, Typed, TypeOK
  <2> QED BY <1>5, <2>1 DEF FillManifest
<1>6. CASE Kill(p)
  BY <1>6 DEF Kill, control
<1> QED BY <1>1, <1>2, <1>3, <1>4, <1>5, <1>6 DEF ProcStep, WasiStep

\* Filling and overwriting a file keep its type.
LEMMA FilledTyped ==
    ASSUME NEW p, NEW file, NEW places
    PROVE  Filled(p, file, places) \subseteq {"torn", "whole"}
BY DEF Filled

LEMMA OverwrittenTyped ==
    ASSUME NEW text \in SUBSET AllEntries
    PROVE  Overwritten(text) \subseteq [state : FileStates \cup {"garbled"}, entries : SUBSET AllEntries]
BY DEF Overwritten, FileStates

LEMMA NextInRange ==
    ASSUME NEW n \in 3..4, NEW i \in 1..4, i < n
    PROVE  i + 1 \in 1..4 /\ i + 1 <= n
OBVIOUS

LEMMA TypedStep == Typed /\ [Next]_vars => Typed'
<1> SUFFICES ASSUME Typed, [Next]_vars PROVE Typed'
  OBVIOUS
<1>t. TypeOK /\ EntryInRange
  BY DEF Typed
<1>1. ASSUME NEW p \in Procs, ProcStep(p) PROVE Typed'
  <2>1. /\ \E s \in Starts : task' = s.task /\ env' = s.env
        /\ pc' \in [Procs -> Places]
    BY <1>1, <1>t, StepMoves, MovesTyped
  <2>2. UNCHANGED task /\ Len(EntriesOf(p)) \in 3..4
    BY <1>1, StepMoves, EntriesListed DEF Moves
  <2>3. \A q \in Procs : EntriesOf(q)' = EntriesOf(q)
    BY <2>2 DEF EntriesOf
  \* It is enough to look at the variables the step may change.
  <2>4. CASE Create(p) \/ StartTool(p) \/ EnsureComponentArtifact(p) \/ LaunchWorker(p)
    <3>1. UNCHANGED <<at, read, disturbed, engine, parts, kills, mapped, spoiled>>
      BY <2>4 DEF Create, StartTool, EnsureComponentArtifact, LaunchWorker, control, history
    <3>2. back' \in [Procs -> {"tools", "verify", "again", "done"}] /\ looked' \in [Procs -> SUBSET Procs]
      BY <1>t, <2>4 DEF Create, StartTool, EnsureComponentArtifact, LaunchWorker, control, history, TypeOK
    <3> QED BY <1>t, <2>1, <2>3, <3>1, <3>2 DEF Typed, TypeOK, EntryInRange, Places, engine, cache, parts
  <2>5. CASE ComponentStep(p)
    <3>1. UNCHANGED <<at, read, disturbed, engine, kills, history>>
      BY <2>5 DEF ComponentStep, EnsureWasiCoreWasm, EnsureTools, CurlTools, Compose, Composed, Compile,
                  CompileEnd, Publish, Published, control
    <3>2. back' \in [Procs -> {"tools", "verify", "again", "done"}] /\ mapped' \in SUBSET Procs
      BY <1>t, <2>5 DEF ComponentStep, EnsureWasiCoreWasm, EnsureTools, CurlTools, Compose, Composed,
                        Compile, CompileEnd, Publish, Published, control, EmptyCompiled, TypeOK
    <3>3. {tools', component', compiled', build'} \subseteq FileStates
      BY <1>t, <2>5, FilledTyped
         DEF ComponentStep, EnsureWasiCoreWasm, EnsureTools, CurlTools, Compose, Composed, Compile,
             CompileEnd, Publish, Published, parts, EmptyCompiled, FillCompiled, TypeOK, FileStates
    <3> QED BY <1>t, <2>1, <2>3, <3>1, <3>2, <3>3
            DEF Typed, TypeOK, EntryInRange, Places, engine, cache, history
  <2>6. CASE WorkerStep(p)
    <3>1. UNCHANGED <<at, read, disturbed, engine, tools, component, build, kills, spoiled>>
      BY <2>6 DEF WorkerStep, Boot, EnsureWasiEngineReady, VerifyEngine, LoadComponent, Persist,
                  Persisted, control, history, parts
    <3>2. /\ back' \in [Procs -> {"tools", "verify", "again", "done"}]
          /\ mapped' \in SUBSET Procs /\ looked' \in [Procs -> SUBSET Procs]
      BY <1>t, <2>6 DEF WorkerStep, Boot, EnsureWasiEngineReady, VerifyEngine, LoadComponent, Persist,
                        Persisted, control, history, EmptyCompiled, TypeOK
    <3>3. compiled' \in FileStates
      BY <1>t, <2>6, FilledTyped
         DEF WorkerStep, Boot, EnsureWasiEngineReady, VerifyEngine, LoadComponent, Persist, Persisted,
             parts, EmptyCompiled, FillCompiled, TypeOK, FileStates
    <3> QED BY <1>t, <2>1, <2>3, <3>1, <3>2, <3>3 DEF Typed, TypeOK, EntryInRange, Places, engine, cache
  <2>7. CASE \/ EnsureArchive(p) \/ Downloaded(p) \/ RenameArchive(p) \/ ExtractArchive(p)
             \/ ClearHome(p) \/ CopyHome(p) \/ CopyEnd(p)
    <3>1. UNCHANGED <<back, at, read, artifact, manifest, parts, kills, mapped, looked>>
      BY <2>7 DEF EnsureArchive, Downloaded, RenameArchive, ExtractArchive, ClearHome, CopyHome, CopyEnd,
                  control, history, engine
    <3>2. disturbed' \in [Procs -> BOOLEAN] /\ spoiled' \in SUBSET {"home", "component", "artifact"}
      BY <1>t, <2>7 DEF EnsureArchive, Downloaded, RenameArchive, ExtractArchive, ClearHome, CopyHome,
                        CopyEnd, control, history, TypeOK
    <3>3. {archive', tmp', home'} \subseteq FileStates
      BY <1>t, <2>7 DEF EnsureArchive, Downloaded, RenameArchive, ExtractArchive, ClearHome, CopyHome,
                        CopyEnd, cache, engine, TypeOK, FileStates
    <3> QED BY <1>t, <2>1, <2>3, <3>1, <3>2, <3>3 DEF Typed, TypeOK, EntryInRange, Places, parts
  <2>8. CASE WriteEngineArtifact(p) \/ ArtifactWritten(p)
    <3>1. UNCHANGED <<back, at, read, disturbed, cache, home, manifest, parts, kills, mapped, history>>
      BY <2>8 DEF WriteEngineArtifact, ArtifactWritten, control
    <3>2. artifact' \in [Artifacts -> FileStates]
      BY <1>t, <2>8 DEF WriteEngineArtifact, ArtifactWritten, TypeOK, FileStates
    <3> QED BY <1>t, <2>1, <2>3, <3>1, <3>2 DEF Typed, TypeOK, EntryInRange, Places, parts, cache, history
  <2>9. CASE ReadManifest(p) \/ TruncateManifest(p)
    <3>1. UNCHANGED <<back, at, disturbed, cache, home, artifact, parts, kills, mapped, history>>
      BY <2>9 DEF ReadManifest, TruncateManifest, control, engine
    <3>2. /\ read' \in [Procs -> SUBSET AllEntries]
          /\ manifest' \in [state : FileStates \cup {"garbled"}, entries : SUBSET AllEntries]
      BY <1>t, <2>9 DEF ReadManifest, TruncateManifest, control, engine, TypeOK, FileStates
    <3> QED BY <1>t, <2>1, <2>3, <3>1, <3>2 DEF Typed, TypeOK, EntryInRange, Places, parts, cache, history
  <2>10. CASE FillManifest(p)
    <3>1. UNCHANGED <<disturbed, cache, home, artifact, parts, kills, mapped, history>>
      BY <2>10 DEF FillManifest
    <3>2. at[p] \in 1..Len(EntriesOf(p)) /\ Entry(p) \in AllEntries
      BY <1>t, <2>2, EntriesListed DEF TypeOK, EntryInRange, Entry
    <3>3. /\ read' \in [Procs -> SUBSET AllEntries]
          /\ back' \in [Procs -> {"tools", "verify", "again", "done"}]
      BY <1>t, <2>10 DEF FillManifest, TypeOK
    <3>4. manifest' \in [state : FileStates \cup {"garbled"}, entries : SUBSET AllEntries]
      <4>1. read[p] \cup {Entry(p)} \in SUBSET AllEntries
        BY <1>t, <3>2 DEF TypeOK
      <4> QED BY <2>10, <4>1, OverwrittenTyped DEF FillManifest
    <3>5. at' \in [Procs -> 1..4] /\ \A q \in Procs : at'[q] <= Len(EntriesOf(q))
      <4>1. at' \in {at, [at EXCEPT ![p] = 1]} \/ (at' = [at EXCEPT ![p] = @ + 1] /\ at[p] < Len(EntriesOf(p)))
        BY <2>10 DEF FillManifest
      <4>2. at \in [Procs -> 1..4] /\ \A q \in Procs : at[q] <= Len(EntriesOf(q))
        BY <1>t DEF TypeOK, EntryInRange
      <4>3. CASE at' \in {at, [at EXCEPT ![p] = 1]}
        BY <2>2, <4>2, <4>3
      <4>4. CASE at' = [at EXCEPT ![p] = @ + 1] /\ at[p] < Len(EntriesOf(p))
        <5>1. at[p] + 1 \in 1..4 /\ at[p] + 1 <= Len(EntriesOf(p))
          BY <2>2, <4>2, <4>4, NextInRange
        <5> QED BY <4>2, <4>4, <5>1
      <4> QED BY <4>1, <4>3, <4>4
    <3> QED BY <1>t, <2>1, <2>3, <3>1, <3>3, <3>4, <3>5
            DEF Typed, TypeOK, EntryInRange, Places, parts, cache, history
  <2>11. CASE Kill(p)
    <3>1. UNCHANGED <<control, cache, artifact, manifest, parts, mapped, looked>>
      BY <2>11 DEF Kill
    <3>2. /\ kills' \in 0..MaxKills /\ home' \in FileStates
          /\ spoiled' \in SUBSET {"home", "component", "artifact"}
      BY <1>t, <2>11, LaunchKills DEF Kill, TypeOK, FileStates
    <3> QED BY <1>t, <2>1, <2>3, <3>1, <3>2 DEF Typed, TypeOK, EntryInRange, Places, parts, cache, control
  <2> QED BY <1>1, <2>4, <2>5, <2>6, <2>7, <2>8, <2>9, <2>10, <2>11 DEF ProcStep, WasiStep
<1>2. CASE UNCHANGED vars
  BY <1>2, <1>t DEF vars, control, engine, cache, parts, history, Typed, TypeOK, EntryInRange, EntriesOf
<1> QED BY <1>1, <1>2 DEF Next, ProcStep

LEMMA TypedHolds == Spec => []Typed
<1>1. Init => Typed
  <2> SUFFICES ASSUME Init PROVE TypeOK /\ EntryInRange
    BY DEF Typed
  <2>1. \A p \in Procs : at[p] = 1 /\ Len(EntriesOf(p)) \in 3..4
    BY EntriesListed DEF Init
  <2>2. EntryInRange
    BY <2>1 DEF EntryInRange
  <2> PICK s \in Starts : /\ task = s.task /\ env = s.env
                          /\ archive = s.archive /\ home = s.home /\ artifact = s.artifact
                          /\ manifest = s.manifest /\ tools = s.tools
                          /\ component = s.component /\ compiled = s.compiled /\ build = s.build
    BY DEF Init
  <2>3. /\ {archive, tmp, home, tools, component, compiled, build} \subseteq FileStates
        /\ artifact \in [Artifacts -> FileStates]
        /\ manifest \in [state : FileStates \cup {"garbled"}, entries : SUBSET AllEntries]
    BY LaunchFiles DEF Init, FileStates
  <2>4. \E t \in Starts : task = t.task /\ env = t.env
    OBVIOUS
  <2>5. pc \in [Procs -> {"idle"}] /\ kills \in 0..MaxKills
    BY LaunchKills DEF Init
  <2> QED BY <2>2, <2>3, <2>4, <2>5 DEF Init, TypeOK
<1> QED BY <1>1, TypedStep, PTL DEF Spec

\* The state keeps its type, whatever the processes are for.
THEOREM LaunchTypeCorrect == Spec => []TypeOK
BY TypedHolds, PTL DEF Typed
-------------------------------------------------------------------------------
(* Steps, seen from the place a process leaves and the one it goes to.     *)

\* Only these steps touch the component and build.json, or concern those
\* that do.
Composing(p) == Compose(p) \/ Composed(p) \/ Compile(p) \/ CompileEnd(p) \/ Publish(p) \/ Published(p)

LEMMA OthersKeepComponent ==
    ASSUME Typed, NEW p \in Procs, ProcStep(p), ~Composing(p), ~Kill(p)
    PROVE  /\ UNCHANGED <<component, build>> /\ spoiled \subseteq spoiled'
           /\ {pc[p], pc'[p]} \cap {"composing", "compile", "compiling", "publish", "publishing"} = {}
<1>t. TypeOK
  BY DEF Typed
<1>1. CASE Create(p) \/ StartTool(p) \/ EnsureComponentArtifact(p) \/ LaunchWorker(p)
  BY <1>1, <1>t, ZenonT(60) DEF Create, StartTool, EnsureComponentArtifact, LaunchWorker, Go, parts, history, TypeOK
<1>2. CASE EnsureWasiCoreWasm(p) \/ EnsureTools(p) \/ CurlTools(p)
  BY <1>2, <1>t, ZenonT(60) DEF EnsureWasiCoreWasm, EnsureTools, CurlTools, Go, parts, history, TypeOK, FileStates
<1>3. CASE WorkerStep(p)
  BY <1>3, <1>t DEF WorkerStep, Boot, EnsureWasiEngineReady, VerifyEngine, LoadComponent, Persist,
                    Persisted, Go, parts, history, TypeOK
<1>4. CASE WasiStep(p) /\ ~FillManifest(p)
  BY <1>4, <1>t DEF WasiStep, EnsureArchive, Downloaded, RenameArchive, ExtractArchive, ClearHome,
                    CopyHome, CopyEnd, WriteEngineArtifact, ArtifactWritten, ReadManifest,
                    TruncateManifest, Go, parts, history, TypeOK
<1>5. CASE FillManifest(p)
  BY <1>5, <1>t DEF FillManifest, AfterBuild, Go, parts, history, TypeOK
<1> QED BY <1>1, <1>2, <1>3, <1>4, <1>5 DEF ProcStep, ComponentStep, WasiStep, Composing

LEMMA ComponentStepKeeps == Typed /\ ComponentVouched /\ [Next]_vars => ComponentVouched'
<1> SUFFICES ASSUME Typed, ComponentVouched, [Next]_vars PROVE ComponentVouched'
  OBVIOUS
<1>t. TypeOK
  BY DEF Typed
<1>1. ASSUME NEW p \in Procs, ProcStep(p) PROVE ComponentVouched'
  <2>m. \A q \in Procs \ {p} : pc'[q] = pc[q]
    BY <1>1, <1>t, StepMoves, MovesTyped
  <2>1. CASE ~Composing(p) /\ ~Kill(p)
    BY <1>1, <2>m, <2>1, OthersKeepComponent DEF ComponentVouched
  <2>2. CASE Compose(p)
    <3>1. UNCHANGED <<build, spoiled>> /\ pc[p] = "compose"
      BY <2>2 DEF Compose, history
    <3>2. \/ component' = "torn" /\ pc'[p] = "composing"
          \/ UNCHANGED component /\ pc'[p] = "failed"
      BY <1>t, <2>2 DEF Compose, Go, TypeOK
    <3> QED BY <2>m, <3>1, <3>2 DEF ComponentVouched
  <2>3. CASE Composed(p)
    <3>1. UNCHANGED <<build, spoiled>> /\ pc[p] = "composing"
      BY <2>3 DEF Composed, history
    <3>2. \/ component' = "whole"
          \/ component = "torn" /\ component' = "torn" /\ Others(p, {"composing"}) /\ pc'[p] = "failed"
      BY <1>t, <2>3 DEF Composed, Go, Filled, TypeOK
    <3> QED BY <2>m, <3>1, <3>2 DEF ComponentVouched, Others
  <2>4. CASE Compile(p) \/ CompileEnd(p) \/ Publish(p) \/ Published(p)
    <3>1. UNCHANGED <<component, spoiled>> /\ pc[p] \in {"compile", "compiling", "publish", "publishing"}
      BY <2>4 DEF Compile, CompileEnd, Publish, Published, history
    <3>2. pc'[p] # "composing"
      BY <1>t, <2>4 DEF Compile, CompileEnd, Publish, Published, Go, TypeOK
    <3> QED BY <2>m, <3>1, <3>2 DEF ComponentVouched
  <2>5. CASE Kill(p)
    <3>1. UNCHANGED <<component, build>> /\ spoiled \subseteq spoiled' /\ pc'[p] = "killed"
      BY <1>t, <2>5 DEF Kill, Go, parts, TypeOK
    <3>2. pc[p] = "composing" => "component" \in spoiled'
      BY <2>5 DEF Kill
    <3> QED BY <2>m, <3>1, <3>2 DEF ComponentVouched
  <2> QED BY <2>1, <2>2, <2>3, <2>4, <2>5 DEF Composing
<1>2. CASE UNCHANGED vars
  BY <1>2 DEF vars, parts, history, ComponentVouched
<1> QED BY <1>1, <1>2 DEF Next, ProcStep

LEMMA ComponentHolds == Spec => []ComponentVouched
<1>1. Init => ComponentVouched
  BY LaunchUnspoiled DEF Init, ComponentVouched
<1> QED BY <1>1, TypedHolds, ComponentStepKeeps, PTL DEF Spec

\* build.json vouches for the component (ensureComponentArtifact, build.mjs):
\* for any number of builders, runtimes and kills, a runtime that skips the
\* build meets a half-written component only while one composes it or after
\* one was killed composing it.
THEOREM SkipIsSafeHolds == Spec => []SkipIsSafe
<1>1. ComponentVouched => SkipIsSafe
  BY DEF ComponentVouched, SkipIsSafe
<1> QED BY <1>1, ComponentHolds, PTL
-------------------------------------------------------------------------------
(* Workers, and what they have mapped.                                     *)

LEMMA WorkersStep == Typed /\ WorkersStarted /\ [Next]_vars => WorkersStarted'
<1> SUFFICES ASSUME Typed, WorkersStarted, [Next]_vars PROVE WorkersStarted'
  OBVIOUS
<1>t. TypeOK
  BY DEF Typed
\* It is enough that build.json stays and that the process that moves keeps to it.
<1>1. ASSUME NEW p \in Procs, ProcStep(p), build # "missing" => build' # "missing",
             \A q \in Procs \ {p} : back'[q] = back[q],
             Booted(p)' => Booted(p) \/ (task[p] = "launch" /\ build' # "missing"),
             pc'[p] = "created" => task[p] = "launch",
             pc'[p] = "publishing" => build' # "missing",
             task[p] = "launch" /\ pc'[p] \notin {"idle", "local", "failed", "killed"} =>
                 pc[p] \notin {"idle", "local", "failed", "killed"} \/ IsolationValid(env[p])
      PROVE  WorkersStarted'
  <2>1. UNCHANGED <<task, env>> /\ \A q \in Procs \ {p} : pc'[q] = pc[q]
    BY <1>1, <1>t, StepMoves, MovesTyped DEF Moves
  <2>2. \A q \in Procs \ {p} : Booted(q)' => Booted(q)
    BY <1>1, <2>1 DEF Booted
  <2> QED BY <1>1, <2>1, <2>2 DEF WorkersStarted
<1>2. ASSUME NEW p \in Procs, ProcStep(p) PROVE WorkersStarted'
  <2>w. WorkersStarted
    OBVIOUS
  <2> USE DEF Booted, WorkerBoot
  <2>1. CASE Create(p) \/ StartTool(p) \/ EnsureComponentArtifact(p) \/ LaunchWorker(p)
    <3>1. UNCHANGED build /\ \A q \in Procs \ {p} : back'[q] = back[q]
      BY <1>t, <2>1 DEF Create, StartTool, EnsureComponentArtifact, LaunchWorker, control, parts, TypeOK
    <3>2. Booted(p)' => Booted(p) \/ (task[p] = "launch" /\ build' # "missing")
      <4>1. back'[p] = "verify" => back[p] = "verify"
        BY <1>t, <2>1 DEF Create, StartTool, EnsureComponentArtifact, LaunchWorker, control, TypeOK
      <4>2. CASE Create(p) \/ StartTool(p)
        BY <1>t, <4>1, <4>2 DEF Create, StartTool, Go, TypeOK
      <4>3. CASE EnsureComponentArtifact(p)
        <5>1. task[p] = "launch"
          BY <2>w, <4>3 DEF EnsureComponentArtifact, WorkersStarted
        <5>2. pc'[p] \in {"failed", "core"} \/ (pc'[p] = "binary" /\ build # "missing")
          BY <1>t, <4>3 DEF EnsureComponentArtifact, Go, TypeOK
        <5> QED BY <3>1, <4>1, <5>1, <5>2
      <4>4. CASE LaunchWorker(p)
        BY <4>4 DEF LaunchWorker
      <4> QED BY <2>1, <4>2, <4>3, <4>4
    <3>3. /\ pc'[p] # "publishing" /\ (pc'[p] = "created" => task[p] = "launch")
          /\ task[p] = "launch" /\ pc'[p] \notin {"idle", "local", "failed", "killed"} =>
                 pc[p] \notin {"idle", "local", "failed", "killed"} \/ IsolationValid(env[p])
      BY <1>t, <2>1 DEF Create, StartTool, EnsureComponentArtifact, LaunchWorker, ProcessTransport, Go, TypeOK
    <3> QED BY <1>1, <1>2, <3>1, <3>2, <3>3
  <2>2. CASE ComponentStep(p)
    <3>1. /\ build # "missing" => build' # "missing"
          /\ pc'[p] = "publishing" => build' # "missing"
      BY <1>t, <2>2, FilledTyped
         DEF ComponentStep, EnsureWasiCoreWasm, EnsureTools, CurlTools, Compose, Composed, Compile,
             CompileEnd, Publish, Published, Go, parts, TypeOK, FileStates
    <3>2. /\ \A q \in Procs \ {p} : back'[q] = back[q]
          /\ back'[p] = "verify" => back[p] = "verify"
      BY <1>t, <2>2 DEF ComponentStep, EnsureWasiCoreWasm, EnsureTools, CurlTools, Compose, Composed,
                        Compile, CompileEnd, Publish, Published, control, TypeOK
    <3>3. pc[p] \notin {"idle", "local", "failed", "killed"} /\ pc'[p] # "created"
      BY <1>t, <2>2 DEF ComponentStep, EnsureWasiCoreWasm, EnsureTools, CurlTools, Compose, Composed,
                        Compile, CompileEnd, Publish, Published, Go, TypeOK, FileStates
    <3>4. pc'[p] \in {"binary", "ready", "simulated"} \cup WorkerBoot =>
              task[p] = "launch" /\ pc[p] = "publishing"
      <4>1. CASE Published(p)
        BY <1>t, <4>1 DEF Published, Go, TypeOK
      <4>2. CASE EnsureWasiCoreWasm(p) \/ EnsureTools(p) \/ CurlTools(p)
        <5>1. pc'[p] \in {"tools", "archive", "compose", "curling", "failed"}
          BY <1>t, <4>2 DEF EnsureWasiCoreWasm, EnsureTools, CurlTools, Go, TypeOK, FileStates
        <5> QED BY <5>1
      <4>3. CASE Compose(p) \/ Composed(p) \/ Compile(p) \/ CompileEnd(p) \/ Publish(p)
        BY <1>t, <4>3 DEF Compose, Composed, Compile, CompileEnd, Publish, Go, TypeOK
      <4> QED BY <2>2, <4>1, <4>2, <4>3 DEF ComponentStep
    <3>5. Booted(p)' => Booted(p) \/ (task[p] = "launch" /\ build' # "missing")
      BY <2>w, <3>1, <3>2, <3>4 DEF WorkersStarted
    <3> QED BY <1>1, <1>2, <3>1, <3>2, <3>3, <3>5
  <2>3. CASE WorkerStep(p)
    <3>1. UNCHANGED build /\ \A q \in Procs \ {p} : back'[q] = back[q]
      BY <1>t, <2>3 DEF WorkerStep, Boot, EnsureWasiEngineReady, VerifyEngine, LoadComponent, Persist,
                        Persisted, control, parts, TypeOK
    <3>2. Booted(p) /\ pc[p] \notin {"idle", "local", "failed", "killed"}
      BY <2>3 DEF WorkerStep, Boot, EnsureWasiEngineReady, VerifyEngine, LoadComponent, Persist, Persisted
    <3>3. pc'[p] \notin {"created", "publishing"}
      BY <1>t, <2>3 DEF WorkerStep, Boot, EnsureWasiEngineReady, VerifyEngine, LoadComponent, Persist,
                        Persisted, Go, TypeOK
    <3> QED BY <1>1, <1>2, <3>1, <3>2, <3>3
  <2>4. CASE WasiStep(p) /\ ~FillManifest(p)
    <3>1. UNCHANGED <<build, back>>
      BY <2>4 DEF WasiStep, EnsureArchive, Downloaded, RenameArchive, ExtractArchive, ClearHome, CopyHome,
                  CopyEnd, WriteEngineArtifact, ArtifactWritten, ReadManifest, TruncateManifest,
                  control, parts
    <3>2. /\ pc[p] \notin {"idle", "local", "failed", "killed"}
          /\ pc'[p] \in WasiBuild \cup {"failed"}
      BY <1>t, <2>4 DEF WasiStep, EnsureArchive, Downloaded, RenameArchive, ExtractArchive, ClearHome,
                        CopyHome, CopyEnd, WriteEngineArtifact, ArtifactWritten, ReadManifest,
                        TruncateManifest, Go, TypeOK, WasiBuild
    <3> QED BY <1>1, <1>2, <3>1, <3>2 DEF WasiBuild
  <2>5. CASE FillManifest(p)
    <3>1. UNCHANGED build /\ pc[p] = "fill" /\ \A q \in Procs \ {p} : back'[q] = back[q]
      BY <1>t, <2>5 DEF FillManifest, parts, TypeOK
    <3>2. back'[p] = back[p] \/ back'[p] = "done"
      BY <1>t, <2>5 DEF FillManifest, TypeOK
    <3>3. pc'[p] \in {"artifact", "archive", "tools", "failed", "done"} \/ (pc'[p] = "verify" /\ back[p] = "verify")
      BY <1>t, <2>5 DEF FillManifest, AfterBuild, Go, TypeOK
    <3> QED BY <1>1, <1>2, <3>1, <3>2, <3>3
  <2>6. CASE Kill(p)
    <3>1. UNCHANGED <<build, back>> /\ pc'[p] = "killed"
      BY <1>t, <2>6 DEF Kill, control, parts, Go, TypeOK
    <3> QED BY <1>1, <1>2, <3>1
  <2> QED BY <1>2, <2>1, <2>2, <2>3, <2>4, <2>5, <2>6 DEF ProcStep, WasiStep
<1>3. CASE UNCHANGED vars
  BY <1>3 DEF vars, control, parts, WorkersStarted, Booted
<1> QED BY <1>2, <1>3 DEF Next, ProcStep

LEMMA WorkersHold == Spec => []WorkersStarted
<1>1. Init => WorkersStarted
  BY DEF Init, WorkersStarted, Booted, WorkerBoot
<1> QED BY <1>1, TypedHolds, WorkersStep, PTL DEF Spec

LEMMA MappedStep ==
    Typed /\ ComponentVouched /\ WorkersStarted /\ MappedWhole /\ [Next]_vars => MappedWhole'
<1> SUFFICES ASSUME Typed, ComponentVouched, WorkersStarted, MappedWhole, [Next]_vars PROVE MappedWhole'
  OBVIOUS
<1>t. TypeOK
  BY DEF Typed
<1>1. ASSUME NEW p \in Procs, ProcStep(p) PROVE MappedWhole'
  <2>m. UNCHANGED task
    BY <1>1, StepMoves DEF Moves
  <2>1. CASE \/ Create(p) \/ LaunchWorker(p) \/ WasiStep(p) \/ Kill(p)
             \/ EnsureWasiCoreWasm(p) \/ EnsureTools(p) \/ CurlTools(p) \/ Compose(p) \/ Composed(p)
             \/ Boot(p) \/ EnsureWasiEngineReady(p) \/ VerifyEngine(p)
    <3>1. UNCHANGED <<mapped, looked, compiled, build>>
      BY <2>1 DEF Create, LaunchWorker, Kill, EnsureWasiCoreWasm, EnsureTools, CurlTools, Compose,
                  Composed, Boot, EnsureWasiEngineReady, VerifyEngine, WasiStep, EnsureArchive,
                  Downloaded, RenameArchive, ExtractArchive, ClearHome, CopyHome, CopyEnd,
                  WriteEngineArtifact, ArtifactWritten, ReadManifest, TruncateManifest, FillManifest,
                  parts, history
    <3> QED BY <2>m, <3>1 DEF MappedWhole
  <2>2. CASE StartTool(p)
    <3>1. UNCHANGED <<mapped, compiled, build>> /\ \A q \in Procs : task[q] = "launch" => looked'[q] = looked[q]
      BY <1>t, <2>2 DEF StartTool, parts, TypeOK
    <3> QED BY <2>m, <3>1 DEF MappedWhole
  <2>3. CASE EnsureComponentArtifact(p)
    <3>1. UNCHANGED <<mapped, compiled, build>>
      BY <2>3 DEF EnsureComponentArtifact, parts
    <3>2. build = "missing" \/ component = "missing" => mapped = {}
      BY DEF MappedWhole, ComponentVouched
    <3>3. \A q \in Procs : looked'[q] \in {looked[q], {}}
      BY <1>t, <2>3, <3>2 DEF EnsureComponentArtifact, TypeOK
    <3> QED BY <2>m, <3>1, <3>3 DEF MappedWhole
  <2>4. CASE Compile(p) \/ Persist(p)
    <3>1. UNCHANGED <<build, looked>> /\ (mapped' = {} \/ UNCHANGED <<mapped, compiled>>)
      BY <2>4 DEF Compile, Persist, EmptyCompiled, history
    <3> QED BY <2>m, <3>1 DEF MappedWhole
  <2>5. CASE CompileEnd(p) \/ Publish(p) \/ Published(p) \/ Persisted(p)
    <3>1. UNCHANGED <<mapped, looked>> /\ (build # "missing" => build' # "missing")
      BY <2>5, FilledTyped DEF CompileEnd, Publish, Published, Persisted, history
    <3>2. compiled = "whole" => compiled' = "whole"
      BY <2>5 DEF CompileEnd, Publish, Published, Persisted, FillCompiled, Filled
    <3> QED BY <2>m, <3>1, <3>2 DEF MappedWhole
  <2>6. CASE LoadComponent(p)
    <3>1. UNCHANGED <<compiled, build>> /\ build # "missing"
      BY <2>6 DEF LoadComponent, parts, WorkersStarted, Booted, WorkerBoot
    <3>2. mapped' = mapped \/ compiled = "whole"
      BY <2>6 DEF LoadComponent
    <3>3. \A q \in Procs : looked'[q] \in {looked[q], {}}
      BY <1>t, <2>6 DEF LoadComponent, MappedWhole, TypeOK
    <3> QED BY <2>m, <3>1, <3>2, <3>3 DEF MappedWhole
  <2> QED BY <1>1, <2>1, <2>2, <2>3, <2>4, <2>5, <2>6 DEF ProcStep, ComponentStep, WorkerStep
<1>2. CASE UNCHANGED vars
  BY <1>2 DEF vars, control, parts, history, MappedWhole
<1> QED BY <1>1, <1>2 DEF Next, ProcStep

LEMMA MappedHolds == Spec => []MappedWhole
<1>1. Init => MappedWhole
  BY DEF Init, MappedWhole
<1> QED BY <1>1, TypedHolds, ComponentHolds, WorkersHold, MappedStep, PTL DEF Spec

\* No process that starts a runtime empties the compiled component under a
\* worker that had it mapped when the process decided to write it
\* (ensureComponentArtifact, ensureCompiledComponent, WasiExecutor::new).
THEOREM MappedStaysHolds == Spec => MappedStays
<1>1. MappedWhole => [\A p \in Procs :
           (task[p] = "launch" /\ pc[p] \in {"compile", "persist"} /\ pc'[p] # pc[p])
           => looked[p] \cap mapped \subseteq mapped']_vars
  BY DEF MappedWhole
<1> QED BY <1>1, MappedHolds, PTL DEF MappedStays

\* What toWorkerIsolationEnv writes, load_isolation_profile reads back.
LEMMA ProfileReadBack ==
    ASSUME NEW e, IsolationValid(e)
    PROVE  LoadIsolationProfile(ToWorkerIsolationEnv(ResolveIsolationProfile(e)))
               = ResolveIsolationProfile(e)
<1>1. \A n : ToText(n).form # "absent" /\ ToText(n).value = n
  BY DEF ToText
<1>2. ProfileDefaults[ProfileName(e)].denyEnv \in BOOLEAN
  <2>1. ProfileName(e) \in {"strict", "compat"}
    BY DEF IsolationValid, ProfileDefaults
  <2>2. ProfileDefaults["strict"].denyEnv = TRUE /\ ProfileDefaults["compat"].denyEnv = FALSE
    BY DEF ProfileDefaults
  <2> QED BY <2>1, <2>2
<1> QED BY <1>1, <1>2 DEF LoadIsolationProfile, ToWorkerIsolationEnv, ResolveIsolationProfile

\* The limits a worker enforces are those the runtime resolved and reports
\* (isolation-profile.ts, main.rs load_isolation_profile), for every
\* environment and however the worker was started.
THEOREM ProfileAgreesHolds == Spec => []ProfileAgrees
<1>1. WorkersStarted => ProfileAgrees
  BY ProfileReadBack DEF WorkersStarted, ProfileAgrees, Booted, WorkerEnv
<1> QED BY <1>1, WorkersHold, PTL
-------------------------------------------------------------------------------
(* The manifest and what it lists.                                         *)

\* A process keeps to its own entry until it has filled the manifest, and what
\* was spoiled stays so.
LEMMA EntryKept ==
    ASSUME Typed, NEW p \in Procs, ProcStep(p)
    PROVE  /\ \A q \in Procs \ {p} : pc'[q] = pc[q] /\ Entry(q)' = Entry(q) /\ read'[q] = read[q]
           /\ spoiled \subseteq spoiled'
           /\ ~FillManifest(p) => Entry(p)' = Entry(p)
<1>t. TypeOK
  BY DEF Typed
<1>1. UNCHANGED task /\ \A q \in Procs \ {p} : pc'[q] = pc[q]
  BY <1>t, StepMoves, MovesTyped DEF Moves
<1>2. FillManifest(p) \/ UNCHANGED at
  BY DEF ProcStep, Create, StartTool, EnsureComponentArtifact, LaunchWorker, Kill, control,
         ComponentStep, EnsureWasiCoreWasm, EnsureTools, CurlTools, Compose, Composed, Compile,
         CompileEnd, Publish, Published, WorkerStep, Boot, EnsureWasiEngineReady, VerifyEngine,
         LoadComponent, Persist, Persisted, WasiStep, EnsureArchive, Downloaded, RenameArchive,
         ExtractArchive, ClearHome, CopyHome, CopyEnd, WriteEngineArtifact, ArtifactWritten,
         ReadManifest, TruncateManifest
<1>3. FillManifest(p) \/ ReadManifest(p) \/ UNCHANGED read
  BY DEF ProcStep, Create, StartTool, EnsureComponentArtifact, LaunchWorker, Kill, control,
         ComponentStep, EnsureWasiCoreWasm, EnsureTools, CurlTools, Compose, Composed, Compile,
         CompileEnd, Publish, Published, WorkerStep, Boot, EnsureWasiEngineReady, VerifyEngine,
         LoadComponent, Persist, Persisted, WasiStep, EnsureArchive, Downloaded, RenameArchive,
         ExtractArchive, ClearHome, CopyHome, CopyEnd, WriteEngineArtifact, ArtifactWritten,
         TruncateManifest
<1>4. spoiled \subseteq spoiled'
  BY DEF ProcStep, Create, StartTool, EnsureComponentArtifact, LaunchWorker, Kill, history,
         ComponentStep, EnsureWasiCoreWasm, EnsureTools, CurlTools, Compose, Composed, Compile,
         CompileEnd, Publish, Published, WorkerStep, Boot, EnsureWasiEngineReady, VerifyEngine,
         LoadComponent, Persist, Persisted, WasiStep, EnsureArchive, Downloaded, RenameArchive,
         ExtractArchive, ClearHome, CopyHome, CopyEnd, WriteEngineArtifact, ArtifactWritten,
         ReadManifest, TruncateManifest, FillManifest
<1>5. \A q \in Procs \ {p} : at'[q] = at[q] /\ read'[q] = read[q]
  BY <1>t, <1>2, <1>3 DEF FillManifest, ReadManifest, TypeOK
<1> QED BY <1>1, <1>2, <1>4, <1>5 DEF Entry, EntriesOf

\* An artifact that is sound stays so.
LEMMA SoundKept ==
    ASSUME Typed, NEW p \in Procs, ProcStep(p), NEW e \in Artifacts, Sound(e)
    PROVE  Sound(e)'
<1>t. TypeOK
  BY DEF Typed
<1>k. /\ \A q \in Procs \ {p} : pc'[q] = pc[q] /\ Entry(q)' = Entry(q)
      /\ spoiled \subseteq spoiled'
  BY EntryKept
<1>1. CASE WriteEngineArtifact(p)
  <2>1. pc[p] = "artifact" /\ Entry(p)' = Entry(p)
    BY <1>1, EntryKept DEF WriteEngineArtifact, FillManifest
  <2>2. e # Entry(p) => artifact'[e] = artifact[e]
    BY <1>1 DEF WriteEngineArtifact
  <2>3. e = Entry(p) => artifact'[e] = "torn" /\ pc'[p] = "writing"
    BY <1>1, <1>t DEF WriteEngineArtifact, Go, TypeOK
  <2> QED BY <1>k, <2>1, <2>2, <2>3 DEF Sound
<1>2. CASE ArtifactWritten(p)
  <2>1. e # Entry(p) => artifact'[e] = artifact[e]
    BY <1>2, <1>t DEF ArtifactWritten, TypeOK
  <2>2. e = Entry(p) => artifact'[e] = "whole" \/ (artifact'[e] = "torn" /\ Writing(p))
    BY <1>2, <1>t DEF ArtifactWritten, TypeOK
  <2> QED BY <1>k, <2>1, <2>2 DEF Sound, Writing
<1>3. CASE Kill(p)
  <2>1. UNCHANGED artifact /\ (pc[p] = "writing" => "artifact" \in spoiled')
    BY <1>3 DEF Kill
  <2> QED BY <1>k, <2>1 DEF Sound
<1>4. CASE ~WriteEngineArtifact(p) /\ ~ArtifactWritten(p) /\ ~Kill(p)
  <2>1. UNCHANGED artifact /\ pc[p] # "writing"
    BY <1>4 DEF ProcStep, Create, StartTool, EnsureComponentArtifact, LaunchWorker, engine,
         ComponentStep, EnsureWasiCoreWasm, EnsureTools, CurlTools, Compose, Composed, Compile,
         CompileEnd, Publish, Published, WorkerStep, Boot, EnsureWasiEngineReady, VerifyEngine,
         LoadComponent, Persist, Persisted, WasiStep, EnsureArchive, Downloaded, RenameArchive,
         ExtractArchive, ClearHome, CopyHome, CopyEnd, ReadManifest, TruncateManifest, FillManifest
  <2> QED BY <1>k, <2>1 DEF Sound
<1> QED BY <1>1, <1>2, <1>3, <1>4

Listed(e) ==
    \/ e \in manifest.entries
    \/ \E p \in Procs : e \in read[p] \/ (pc[p] \in {"read", "truncate", "fill"} /\ e = Entry(p))

\* What a step lists anew is sound after it.
LEMMA NewlyListed ==
    ASSUME Typed, NEW p \in Procs, ProcStep(p), NEW e \in Artifacts, Listed(e)', ~Listed(e)
    PROVE  Sound(e)'
<1>t. TypeOK
  BY DEF Typed
<1>k. \A q \in Procs \ {p} : pc'[q] = pc[q] /\ Entry(q)' = Entry(q) /\ read'[q] = read[q]
  BY EntryKept
<1>1. CASE ArtifactWritten(p)
  <2>1. UNCHANGED <<manifest, read>> /\ Entry(p)' = Entry(p)
    BY <1>1, EntryKept DEF ArtifactWritten, control, FillManifest
  <2>2. e = Entry(p)
    BY <1>k, <2>1 DEF Listed
  <2>3. artifact'[e] = "whole" \/ (artifact'[e] = "torn" /\ Writing(p))
    BY <1>1, <1>t, <2>2 DEF ArtifactWritten, TypeOK
  <2> QED BY <1>k, <2>2, <2>3 DEF Sound, Writing
<1>2. CASE WriteEngineArtifact(p)
  <2>1. UNCHANGED <<manifest, read>> /\ Entry(p)' = Entry(p)
    BY <1>2, EntryKept DEF WriteEngineArtifact, control, FillManifest
  <2>2. e = Entry(p) /\ pc'[p] # "writing"
    BY <1>k, <2>1 DEF Listed
  <2> QED BY <1>2, <1>t, <2>2 DEF WriteEngineArtifact, Go, TypeOK
<1>3. CASE ReadManifest(p) \/ TruncateManifest(p)
  <2>1. pc[p] \in {"read", "truncate"} /\ Entry(p)' = Entry(p)
    BY <1>3, EntryKept DEF ReadManifest, TruncateManifest, FillManifest
  <2>2. manifest' = manifest \/ manifest'.entries = {}
    BY <1>3 DEF ReadManifest, TruncateManifest, engine
  <2>3. read'[p] = read[p] \/ read'[p] = manifest.entries
    BY <1>3, <1>t DEF ReadManifest, TruncateManifest, control, TypeOK
  <2> QED BY <1>k, <2>1, <2>2, <2>3 DEF Listed
<1>4. CASE FillManifest(p)
  <2>1. read'[p] = {} /\ pc[p] = "fill"
    BY <1>4, <1>t DEF FillManifest, TypeOK
  <2>2. pc'[p] \notin {"read", "truncate", "fill"}
    BY <1>4, <1>t DEF FillManifest, AfterBuild, Go, TypeOK
  <2>3. manifest'.entries \subseteq read[p] \cup {Entry(p)}
    BY <1>4 DEF FillManifest, Overwritten
  <2> QED BY <1>k, <2>1, <2>2, <2>3 DEF Listed
<1>5. CASE /\ ~ArtifactWritten(p) /\ ~WriteEngineArtifact(p) /\ ~FillManifest(p)
           /\ ~ReadManifest(p) /\ ~TruncateManifest(p)
  <2>1. UNCHANGED <<manifest, read>>
    BY <1>5 DEF ProcStep, Create, StartTool, EnsureComponentArtifact, LaunchWorker, Kill, engine,
         ComponentStep, EnsureWasiCoreWasm, EnsureTools, CurlTools, Compose, Composed, Compile, control,
         CompileEnd, Publish, Published, WorkerStep, Boot, EnsureWasiEngineReady, VerifyEngine,
         LoadComponent, Persist, Persisted, WasiStep, EnsureArchive, Downloaded, RenameArchive,
         ExtractArchive, ClearHome, CopyHome, CopyEnd
  <2>2. pc'[p] \notin {"read", "truncate", "fill"}
    <3>1. CASE Create(p) \/ StartTool(p) \/ EnsureComponentArtifact(p) \/ LaunchWorker(p) \/ Kill(p)
      BY <1>t, <3>1 DEF Create, StartTool, EnsureComponentArtifact, LaunchWorker, Kill, Go, TypeOK
    <3>2. CASE ComponentStep(p)
      BY <1>t, <3>2, ZenonT(60) DEF ComponentStep, EnsureWasiCoreWasm, EnsureTools, CurlTools, Compose, Composed,
                        Compile, CompileEnd, Publish, Published, Go, TypeOK, FileStates
    <3>3. CASE WorkerStep(p)
      BY <1>t, <3>3 DEF WorkerStep, Boot, EnsureWasiEngineReady, VerifyEngine, LoadComponent, Persist,
                        Persisted, Go, TypeOK
    <3>4. CASE WasiStep(p)
      BY <1>t, <1>5, <3>4 DEF WasiStep, EnsureArchive, Downloaded, RenameArchive, ExtractArchive,
                              ClearHome, CopyHome, CopyEnd, Go, TypeOK
    <3> QED BY <3>1, <3>2, <3>3, <3>4 DEF ProcStep
  <2> QED BY <1>k, <2>1, <2>2 DEF Listed
<1> QED BY <1>1, <1>2, <1>3, <1>4, <1>5

LEMMA ListedStep == Typed /\ ListedSound /\ [Next]_vars => ListedSound'
<1> SUFFICES ASSUME Typed, ListedSound, [Next]_vars, NEW e \in Artifacts, Listed(e)' PROVE Sound(e)'
  BY DEF ListedSound, Listed
<1>1. ASSUME NEW p \in Procs, ProcStep(p) PROVE Sound(e)'
  <2>1. CASE Listed(e)
    <3>1. Sound(e)
      BY <2>1 DEF ListedSound, Listed
    <3> QED BY <1>1, <3>1, SoundKept
  <2>2. CASE ~Listed(e)
    BY <1>1, <2>2, NewlyListed
  <2> QED BY <2>1, <2>2
<1>2. CASE UNCHANGED vars
  <2>1. UNCHANGED <<pc, task, at, read, artifact, manifest, spoiled>>
    BY <1>2 DEF vars, control, engine, history
  <2>2. \A q \in Procs : Entry(q)' = Entry(q)
    BY <2>1 DEF Entry, EntriesOf
  <2>3. Listed(e)
    BY <2>1, <2>2 DEF Listed
  <2>4. Sound(e)
    BY <2>3 DEF ListedSound, Listed
  <2> QED BY <2>1, <2>2, <2>4 DEF Sound
<1> QED BY <1>1, <1>2 DEF Next, ProcStep

LEMMA ListedHolds == Spec => []ListedSound
<1>1. Init => ListedSound
  BY LaunchUnspoiled DEF Init, ListedSound, Sound
<1> QED BY <1>1, TypedHolds, ListedStep, PTL DEF Spec

\* What manifest.json lists is in place (lib.mjs writeEngineArtifact, main.rs
\* verify_manifest): for any number of builders that read, extend and write it
\* without a lock, an artifact it lists is whole, being written, or was left
\* by a process killed writing it.
THEOREM ListedIsWholeHolds == Spec => []ListedIsWhole
<1>1. ListedSound => ListedIsWhole
  BY DEF ListedSound, ListedIsWhole, Sound
<1> QED BY <1>1, ListedHolds, PTL
-------------------------------------------------------------------------------
(* The Python home.                                                        *)

LEMMA HomeStep == Typed /\ HomeSound /\ [Next]_vars => HomeSound'
<1> SUFFICES ASSUME Typed, HomeSound, [Next]_vars PROVE HomeSound'
  OBVIOUS
<1>t. TypeOK
  BY DEF Typed
<1>1. ASSUME NEW p \in Procs, ProcStep(p) PROVE HomeSound'
  <2>k. spoiled \subseteq spoiled' /\ \A q \in Procs \ {p} : pc'[q] = pc[q]
    BY <1>1, EntryKept
  <2>1. CASE ClearHome(p)
    <3>1. (home' = "missing" /\ pc'[p] = "copy") \/ "home" \in spoiled'
      BY <1>t, <2>1 DEF ClearHome, Go, TypeOK
    <3> QED BY <3>1 DEF HomeSound
  <2>2. CASE CopyHome(p)
    <3>1. home' = "torn" /\ pc'[p] = "copying"
      BY <1>t, <2>2 DEF CopyHome, Go, TypeOK
    <3> QED BY <3>1 DEF HomeSound
  <2>3. CASE CopyEnd(p)
    <3>1. \/ home' = "whole" \/ "home" \in spoiled'
          \/ home' = "torn" /\ Others(p, {"copying"})
      BY <1>t, <2>3 DEF CopyEnd, TypeOK
    <3> QED BY <2>k, <3>1 DEF HomeSound, Others
  <2>4. CASE Kill(p)
    <3>1. pc'[p] = "killed" /\ (UNCHANGED home \/ pc[p] = "clear")
      BY <1>t, <2>4 DEF Kill, Go, TypeOK
    <3>2. pc[p] \in {"clear", "copy", "copying"} => "home" \in spoiled'
      BY <2>4 DEF Kill
    <3> QED BY <2>k, <3>1, <3>2 DEF HomeSound
  <2>5. CASE LoadComponent(p)
    <3>1. UNCHANGED home /\ pc[p] = "load" /\ (home = "missing" => pc'[p] = "failed")
      BY <1>t, <2>5 DEF LoadComponent, HomePresent, engine, Go, TypeOK
    <3> QED BY <2>k, <3>1 DEF HomeSound
  <2>6. CASE Persist(p) \/ Persisted(p)
    <3>1. UNCHANGED home /\ pc[p] \in {"persist", "persisting"}
      BY <2>6 DEF Persist, Persisted, engine
    <3> QED BY <2>k, <3>1 DEF HomeSound
  <2>7. CASE /\ ~ClearHome(p) /\ ~CopyHome(p) /\ ~CopyEnd(p) /\ ~Kill(p)
             /\ ~LoadComponent(p) /\ ~Persist(p) /\ ~Persisted(p)
    <3>1. UNCHANGED home /\ pc[p] \notin {"copy", "copying"}
      BY <1>1, <2>7
         DEF ProcStep, Create, StartTool, EnsureComponentArtifact, LaunchWorker, engine,
             ComponentStep, EnsureWasiCoreWasm, EnsureTools, CurlTools, Compose, Composed, Compile,
             CompileEnd, Publish, Published, WorkerStep, Boot, EnsureWasiEngineReady, VerifyEngine,
             WasiStep, EnsureArchive, Downloaded, RenameArchive, ExtractArchive,
             WriteEngineArtifact, ArtifactWritten, ReadManifest, TruncateManifest, FillManifest
    <3>2. pc'[p] \notin {"persist", "persisting", "ready"}
      <4>1. CASE Create(p) \/ StartTool(p) \/ EnsureComponentArtifact(p) \/ LaunchWorker(p)
        BY <1>t, <4>1 DEF Create, StartTool, EnsureComponentArtifact, LaunchWorker, Go, TypeOK
      <4>2. CASE ComponentStep(p)
        BY <1>t, <4>2, ZenonT(60) DEF ComponentStep, EnsureWasiCoreWasm, EnsureTools, CurlTools, Compose, Composed,
                          Compile, CompileEnd, Publish, Published, Go, TypeOK, FileStates
      <4>3. CASE Boot(p) \/ EnsureWasiEngineReady(p) \/ VerifyEngine(p)
        BY <1>t, <4>3 DEF Boot, EnsureWasiEngineReady, VerifyEngine, Go, TypeOK
      <4>4. CASE WasiStep(p)
        BY <1>t, <2>7, <4>4 DEF WasiStep, EnsureArchive, Downloaded, RenameArchive, ExtractArchive,
                                WriteEngineArtifact, ArtifactWritten, ReadManifest, TruncateManifest,
                                FillManifest, AfterBuild, Go, TypeOK
      <4> QED BY <1>1, <2>7, <4>1, <4>2, <4>3, <4>4 DEF ProcStep, WorkerStep
    <3> QED BY <2>k, <3>1, <3>2 DEF HomeSound
  <2> QED BY <2>1, <2>2, <2>3, <2>4, <2>5, <2>6, <2>7
<1>2. CASE UNCHANGED vars
  BY <1>2 DEF vars, engine, history, HomeSound
<1> QED BY <1>1, <1>2 DEF Next, ProcStep

LEMMA HomeHolds == Spec => []HomeSound
<1>1. Init => HomeSound
  BY LaunchUnspoiled DEF Init, HomeSound
<1> QED BY <1>1, TypedHolds, HomeStep, PTL DEF Spec

\* A worker that is ready has the whole Python home, which no hash covers
\* (build-wasi.mjs, WasiExecutor::new), unless a builder replaces it or one
\* ended while it did: for any number of builders and workers.
THEOREM ReadyHasHomeHolds == Spec => []ReadyHasHome
<1>1. Typed /\ HomeSound => ReadyHasHome
  BY DEF Typed, TypeOK, FileStates, HomeSound, ReadyHasHome
<1> QED BY <1>1, TypedHolds, HomeHolds, PTL
===============================================================================
