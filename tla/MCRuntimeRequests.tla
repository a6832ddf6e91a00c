-------------------------- MODULE MCRuntimeRequests ---------------------------
(***************************************************************************)
(* Requests and runtimes for TLC: a plain request, variants of it that     *)
(* each differ in the one thing a check looks at, and guests that use the  *)
(* clock, the generator, the network and an await.                         *)
(***************************************************************************)
EXTENDS RuntimeRequests

\* A call, and the code that makes a sequence of calls.
Does(op)       == [op |-> op, target |-> Undefined, bytes |-> 0, spelled |-> TRUE, caught |-> FALSE]
At(op, target) == [Does(op) EXCEPT !.target = target]
Writes(path, n) == [At("fs_write", path) EXCEPT !.bytes = n]
Code(calls)    == [calls |-> calls, memory |-> 0, stdout |-> 0, stderr |-> 0, loop |-> FALSE]
Plain          == Code(<<Does("print")>>)

Lower(name) == [name |-> name, upper |-> FALSE]
Url(name)   == [scheme |-> "http", origin |-> Lower(name)]
Gets(name)  == At("http_request", Url(name))
Tries(name) == [Gets(name) EXCEPT !.caught = TRUE]
Imports(name) == [Gets(name) EXCEPT !.spelled = FALSE]

NoPermissions == [fs |-> Null, http |-> Null, env |-> Null]
NoRequested   == [network |-> Undefined, storage |-> Undefined, fileAccess |-> Undefined]
Limits == [time  |-> [wallMs |-> 5, cpuMs |-> 5],
           bytes |-> [memoryBytes |-> 4, stdoutBytes |-> 6, stderrBytes |-> 2]]
Fixed  == [enabled |-> TRUE, epochMs |-> 7, rngSeedHex |-> [head |-> 0, tail |-> 3]]
Free   == [Fixed EXCEPT !.enabled = FALSE]

Ask(host, code, det) ==
    [host |-> host, code |-> code, argv |-> <<>>, stdinUtf8 |-> "", permissions |-> NoPermissions,
     requestedCapabilities |-> Undefined, limits |-> Limits, determinism |-> det]
With(q, network) == [q EXCEPT !.requestedCapabilities = [NoRequested EXCEPT !.network = network]]

\* One malformed field each.
Malformed(q) ==
    {Bad, [q EXCEPT !.host = "edge"], [q EXCEPT !.code = Bad], [q EXCEPT !.argv = Bad],
     [q EXCEPT !.permissions = Bad], [q EXCEPT !.permissions.fs = Undefined],
     [q EXCEPT !.permissions.env = [allowKeys |-> Bad]],
     [q EXCEPT !.requestedCapabilities = Bad], [q EXCEPT !.limits.time = Bad],
     [q EXCEPT !.limits.bytes.stdoutBytes = -1], [q EXCEPT !.determinism.enabled = Bad],
     [q EXCEPT !.determinism.rngSeedHex = Bad]}

\* Server requests: what each permission, budget and limit tells apart.
Tree == [readRoots |-> {<<"data">>}, writeRoots |-> {<<"data", ".", "out">>, <<>>},
         maxBytes |-> 3, maxFiles |-> 2]
Web  == [allowOrigins |-> {Lower("a"), Lower("d")}, denyOrigins |-> {Lower("d")},
         maxRequests |-> 1, maxBytes |-> 256]
Granted == [fs |-> Tree, http |-> Web, env |-> [allowKeys |-> {"HOME"}]]
Granting(code, det) == [Ask("node", code, det) EXCEPT !.permissions = Granted]

ServerCodes ==
    {Code(<<Does("print"), Does("time"), Does("rng")>>), Code(<<Does("rng"), Does("rng")>>),
     Code(<<At("fs_read", <<"data", "x">>), Writes(<<"data", "out", "y">>, 2)>>),
     Code(<<Writes(<<"data", "out">>, 3), At("fs_read", <<"data", "x">>)>>),
     Code(<<At("fs_read", <<"data">>), At("fs_read", <<"data", "x">>), At("fs_read", <<"data", "x">>)>>),
     Code(<<At("fs_read", <<"data", "..", "data">>)>>), Code(<<Writes(<<"x">>, 1)>>),
     Code(<<Does("fs_write")>>), Code(<<Gets("a")>>), Code(<<Gets("a"), Gets("a")>>),
     Code(<<Gets("d")>>), Code(<<Gets("b")>>), Code(<<At("http_request", [scheme |-> "none", origin |-> Lower("a")])>>),
     Code(<<Does("env_read"), Does("time")>>), Code(<<At("env_read", "KEY")>>),
     [Plain EXCEPT !.loop = TRUE], [Plain EXCEPT !.memory = 5], [Plain EXCEPT !.stdout = 4],
     [Plain EXCEPT !.stdout = 3, !.stderr = 1], [Plain EXCEPT !.stderr = 3]}
ServerRequests ==
    {Granting(c, d) : c \in ServerCodes, d \in {Fixed, Free}}
    \cup {Ask("node", c, Free) : c \in ServerCodes} \cup Malformed(Ask("node", Plain, Free))
    \cup {[Granting(Code(<<Gets("a")>>), Free) EXCEPT !.permissions.http.maxBytes = 255],
          [Granting([Plain EXCEPT !.loop = TRUE], Free) EXCEPT !.limits.time.wallMs = 0],
          Ask("deno", Plain, Free)}

\* Browser requests: the boundary, the fallback, and guests of the worker.
Net   == [allowOrigins |-> {Lower("a")}, denyOrigins |-> Undefined, maxRequests |-> 1, maxBytes |-> 2]
Open  == [allowOrigins |-> {}, denyOrigins |-> {Lower("d")}, maxRequests |-> 0, maxBytes |-> 3]
Guest(calls, det) == Ask("browser", Code(calls), det)
BoundaryRequests ==
    {[With(Guest(<<>>, Free), Net) EXCEPT !.permissions.http = Web],
     [Guest(<<>>, Free) EXCEPT !.permissions.fs = Tree],
     [Guest(<<>>, Free) EXCEPT !.requestedCapabilities = [NoRequested EXCEPT !.storage = [maxBytes |-> 1]]],
     [Guest(<<>>, Free) EXCEPT !.requestedCapabilities = [NoRequested EXCEPT !.fileAccess = [mode |-> "read"]]],
     [Guest(<<>>, Free) EXCEPT !.requestedCapabilities = [NoRequested EXCEPT !.fileAccess = [mode |-> "all"]]],
     With(Guest(<<>>, Free), [Net EXCEPT !.maxBytes = Bad]), Ask("node", Plain, Free)}
FallbackRequests ==
    {Guest(<<Does("env_read"), Does("rng")>>, Free), With(Guest(<<Does("env_read")>>, Free), Net),
     Guest(<<Gets("a")>>, Fixed), Ask("browser", [Plain EXCEPT !.stdout = 1], Fixed)}
GuestRequests ==
    {Guest(<<Does("time"), Does("rng")>>, Fixed), Guest(<<Does("time"), Does("rng")>>, Free),
     Guest(<<Does("rng"), Does("await"), Does("rng"), Does("fail")>>, Fixed),
     With(Guest(<<Gets("a"), Gets("a")>>, Free), Net),
     With(Guest(<<Tries("d"), Tries("b"), Tries("a"), Tries("a"), Does("fail")>>, Fixed), Open),
     With(Guest(<<Does("await"), Tries("a")>>, Free), [Net EXCEPT !.maxRequests = 2]),
     Guest(<<Imports("a"), Does("print")>>, Free),
     Guest(<<[Imports("a") EXCEPT !.caught = TRUE], [Does("fail") EXCEPT !.caught = TRUE]>>, Fixed),
     [Guest(<<Does("print")>>, Fixed) EXCEPT !.code.loop = TRUE]}

FewRequests == [h \in Hosts |-> IF h = "browser" THEN BoundaryRequests \cup FallbackRequests \cup GuestRequests
                                ELSE ServerRequests]
FewSizes    == {1, 2}

Entry(name) == [name |-> name, https |-> TRUE, hashVerifies |-> TRUE]
Locked(entries) == [version |-> 1, generatedAt |-> "now", entries |-> entries]
Page == [host |-> "browser", network |-> "available_granted", packages |-> {},
         lockfile |-> Undefined, assetBaseUrl |-> FALSE]
FewRuntimes ==
    {[host |-> "node", transport |-> t] : t \in {"process", "simulation"}}
    \cup {Page, [Page EXCEPT !.network = "unavailable"],
          [Page EXCEPT !.packages = {"numpy"}, !.assetBaseUrl = TRUE,
                       !.lockfile = Locked(<<Entry("numpy"), Entry("six")>>)],
          [Page EXCEPT !.packages = {"numpy"}],
          [Page EXCEPT !.packages = {"numpy"}, !.lockfile = Locked(<<Entry("six")>>)],
          [Page EXCEPT !.lockfile = Locked(<<Entry("six"), Entry("six")>>)],
          [Page EXCEPT !.packages = {"numpy"},
                       !.lockfile = Locked(<<[Entry("numpy") EXCEPT !.hashVerifies = FALSE]>>)]}

RunSymmetry == Permutations(Runs)
===============================================================================
