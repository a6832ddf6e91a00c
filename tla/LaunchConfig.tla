----------------------------- MODULE LaunchConfig -----------------------------
(***************************************************************************)
(* What a server runtime reads of its environment before it starts a       *)
(* worker: the transport, the isolation profile, which the worker reads    *)
(* again, and the way the worker is launched.                              *)
(*                                                                         *)
(* The text of a number is its form and the number its digits stand for:   *)
(* absent, blank, digits, exponent (String of a number from ExponentFrom   *)
(* on) or words.                                                           *)
(***************************************************************************)
EXTENDS Integers, Sequences, SequencesExt

CONSTANTS
    U64Max,         \* the largest u64
    ExponentFrom    \* the least number that String writes with an exponent, 1e21

ASSUME LaunchNumbers == U64Max \in Nat /\ ExponentFrom \in Nat /\ U64Max < ExponentFrom

Limits == {"wall", "cpu", "memory", "stdout", "stderr"}

Absent == [form |-> "absent", value |-> 0]

\* The transports: with a worker, or without one under a name of each host's own.
Transport(env, local) ==
    CASE env.transport \in {"absent", "process"} -> "process"
      [] env.transport = local                   -> "local"
      [] OTHER                                   -> "invalid"

ResolveNodeTransportMode(env) == Transport(env, "inprocess")
ResolveBunTransportMode(env)  == Transport(env, "simulation")
ResolveDenoTransportMode(env) == Transport(env, "simulation")

TransportMode(env) ==
    CASE env.host = "node" -> ResolveNodeTransportMode(env)
      [] env.host = "bun"  -> ResolveBunTransportMode(env)
      [] env.host = "deno" -> ResolveDenoTransportMode(env)

\* mapPlatform and mapArch throw for every other host.
TargetKnown(env) == env.platform \in {"linux", "darwin", "win32"} /\ env.arch \in {"x64", "arm64"}
-------------------------------------------------------------------------------
(* The isolation profile of the host.                                      *)

Mebi == 1048576

ProfileDefaults ==
    [strict |-> [limits |-> [wall |-> 5000, cpu |-> 5000, memory |-> 512 * Mebi,
                             stdout |-> 2 * Mebi, stderr |-> 2 * Mebi],
                 denyEnv |-> TRUE],
     compat |-> [limits |-> [wall |-> 10000, cpu |-> 10000, memory |-> 256 * Mebi,
                             stdout |-> 8 * Mebi, stderr |-> 8 * Mebi],
                 denyEnv |-> FALSE]]

ProfileName(env) == IF env.profile = "absent" THEN "strict" ELSE env.profile

\* Number.parseInt reads the digits it finds first; what has none is refused.
PositiveInt(text) == text.form \in {"absent", "blank"} \/ (text.form # "words" /\ text.value > 0)

ParsePositiveInt(text, fallback) == IF text.form \in {"absent", "blank"} THEN fallback ELSE text.value

IsolationValid(env) ==
    /\ ProfileName(env) \in DOMAIN ProfileDefaults
    /\ \A l \in Limits : PositiveInt(env.limits[l])

ResolveIsolationProfile(env) ==
    LET base == ProfileDefaults[ProfileName(env)]
    IN  [name    |-> ProfileName(env),
         limits  |-> [l \in Limits |-> ParsePositiveInt(env.limits[l], base.limits[l])],
         denyEnv |-> base.denyEnv]

\* String of a number.
ToText(n) == [form |-> IF n < ExponentFrom THEN "digits" ELSE "exponent", value |-> n]

\* mutant: the limit of stderr is not passed on.
WorkerEnvWithoutStderr(profile) ==
    [name    |-> profile.name,
     limits  |-> [l \in Limits |-> IF l = "stderr" THEN Absent ELSE ToText(profile.limits[l])],
     denyEnv |-> IF profile.denyEnv THEN "1" ELSE "0"]

ToWorkerIsolationEnv(profile) ==
    [name    |-> profile.name,
     limits  |-> [l \in Limits |-> ToText(profile.limits[l])],
     denyEnv |-> IF profile.denyEnv THEN "1" ELSE "0"]
-------------------------------------------------------------------------------
(* The isolation profile of the worker (main.rs).                          *)

WorkerDefaults ==
    [strict |-> [wall |-> 5000, cpu |-> 5000, memory |-> 512 * Mebi,
                 stdout |-> 2 * Mebi, stderr |-> 2 * Mebi],
     compat |-> [wall |-> 10000, cpu |-> 10000, memory |-> 256 * Mebi,
                 stdout |-> 8 * Mebi, stderr |-> 8 * Mebi]]

ParsesAsU64(text) == text.form = "absent" \/ (text.form = "digits" /\ text.value \in 1..U64Max)

WorkerProfileValid(wenv) == \A l \in Limits : ParsesAsU64(wenv.limits[l])

LoadIsolationProfile(wenv) ==
    [name    |-> wenv.name,
     limits  |-> [l \in Limits |-> IF wenv.limits[l].form = "absent"
                                   THEN WorkerDefaults[wenv.name][l] ELSE wenv.limits[l].value],
     denyEnv |-> wenv.denyEnv = "1"]
-------------------------------------------------------------------------------
(* The launch of the worker.                                               *)

ExecutionMode(env) ==
    CASE env.execution \in {"absent", "process"} -> "process"
      [] env.execution = "microvm" -> "microvm"
      [] OTHER -> "invalid"

\* One token of AEGISPY_MICROVM_LAUNCHER_ARGS_JSON, white space left out: the
\* parser's place after it.  "string" is a string with valid escapes.
ParseStep(place, token) ==
    CASE place = "start" /\ token = "["      -> "open"
      [] place = "open"  /\ token = "]"      -> "end"
      [] place = "open"  /\ token = "string" -> "item"
      [] place = "next"  /\ token = "string" -> "item"
      [] place = "item"  /\ token = ","      -> "next"
      [] place = "item"  /\ token = "]"      -> "end"
      [] OTHER                               -> "fail"

ParsesAsJsonStringArray(tokens) == FoldLeft(ParseStep, "start", tokens) = "end"

LauncherArgsValid(env) == env.launcherArgs = <<>> \/ ParsesAsJsonStringArray(env.launcherArgs)

\* resolveWorkerLaunchSpec returns a backend that is available.
LaunchAvailable(env) ==
    \/ ExecutionMode(env) = "process"
    \/ /\ ExecutionMode(env) = "microvm"
       /\ env.launcher = "found"
       /\ LauncherArgsValid(env)
===============================================================================
