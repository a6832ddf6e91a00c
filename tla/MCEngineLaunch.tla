---------------------------- MODULE MCEngineLaunch ----------------------------
(***************************************************************************)
(* Two runtimes and a tool in one checkout.  The first runtime has one of  *)
(* several environments, the other processes the default one.              *)
(***************************************************************************)
EXTENDS EngineLaunch

CONSTANTS h1, h2, t

Default ==
    [host |-> "node", transport |-> "absent", platform |-> "linux", arch |-> "x64", overrides |-> FALSE,
     packages |-> FALSE, profile |-> "absent", limits |-> [l \in Limits |-> Absent],
     execution |-> "absent", launcher |-> "absent", launcherArgs |-> <<>>, executor |-> "wasi"]

Limit(l, form, value) == [Default EXCEPT !.limits[l] = [form |-> form, value |-> value]]

\* Numbers of 32 bits stand for the limits of u64 and of String.
SmallU64 == 1073741824
SmallExponent == 1500000000

MicroVm == [Default EXCEPT !.execution = "microvm", !.launcher = "found"]

\* Environments that end before a builder runs, or differ in nothing else.
OtherEnvs ==
    {[Default EXCEPT !.host = "bun", !.transport = "simulation"],
     [Default EXCEPT !.transport = "inprocess", !.packages = TRUE],
     [Default EXCEPT !.host = "deno", !.transport = "inprocess"],
     [Default EXCEPT !.platform = "freebsd"],
     [Default EXCEPT !.profile = "loose"],
     [Default EXCEPT !.execution = "jail"],
     [Default EXCEPT !.executor = "native"],
     [Limit("stderr", "digits", 7) EXCEPT !.executor = "simulation", !.profile = "compat"],
     Limit("wall", "words", 0),
     Limit("cpu", "digits", 0),
     [Limit("cpu", "blank", 0) EXCEPT !.executor = "simulation"],
     [Limit("memory", "digits", SmallU64 + 1) EXCEPT !.executor = "simulation"],
     [Limit("stdout", "digits", SmallExponent) EXCEPT !.executor = "simulation"],
     [MicroVm EXCEPT !.launcher = "missing"],
     [MicroVm EXCEPT !.launcherArgs = <<"[", "string", ",", "]">>, !.executor = "simulation"],
     [MicroVm EXCEPT !.launcherArgs = <<"[", "string", ",", "string", "]">>, !.executor = "simulation"]}

EngineBuilt ==
    [archive |-> "whole", home |-> "whole",
     artifact |-> [e \in Artifacts |-> IF e = "emscripten" THEN "missing" ELSE "whole"],
     manifest |-> [state |-> "whole", entries |-> {"module", "bridge", "bundles"}],
     tools |-> "missing", component |-> "missing", compiled |-> "missing", build |-> "missing"]

AllBuilt ==
    [EngineBuilt EXCEPT !.tools = "whole", !.component = "whole", !.compiled = "whole", !.build = "whole"]

Fresh ==
    [archive |-> "missing", home |-> "missing", artifact |-> [e \in Artifacts |-> "missing"],
     manifest |-> [state |-> "missing", entries |-> {}],
     tools |-> "missing", component |-> "missing", compiled |-> "missing", build |-> "missing"]

\* A home that was removed, with an archive whose download was cut off.
HomeLost == [AllBuilt EXCEPT !.home = "missing", !.archive = "torn", !.compiled = "missing"]

\* One checkout is on one platform.
Start(files, e, tool) ==
    files @@ [task |-> [p \in {h1, h2, t} |-> IF p = t THEN tool ELSE "launch"],
              env  |-> [p \in {h1, h2, t} |->
                           IF p = h1 THEN e
                           ELSE [Default EXCEPT !.platform = e.platform, !.arch = e.arch,
                                                !.overrides = e.overrides]]]

Mac == [Default EXCEPT !.platform = "darwin", !.arch = "arm64", !.profile = "compat"]

FewStarts ==
    {Start(files, Default, "component") : files \in {EngineBuilt, AllBuilt, Fresh, HomeLost}}
    \cup {Start(AllBuilt, Default, "engine")}
    \cup {Start(EngineBuilt, [Mac EXCEPT !.overrides = o], "component") : o \in BOOLEAN}
    \cup {Start(AllBuilt, e, "component") : e \in OtherEnvs}
===============================================================================
