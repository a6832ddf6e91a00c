---------------------------- MODULE MCPackageLayer ----------------------------
(* An instance of PackageLayer for TLC: two calls in one process, one in   *)
(* another, over a pure and a native layer.                                *)
EXTENDS PackageLayer

HomeOf == [c \in {"c1", "c2", "c3"} |-> IF c = "c3" THEN "p2" ELSE "p1"]

Linux == [os |-> "linux", arch |-> "x64", pythonAbi |-> "cpython-3.14"]

Plain(name)  == [text |-> name, padded |-> FALSE]
Padded(name) == [text |-> name, padded |-> TRUE]

LinuxTags == Wheel({"cp314"}, {"cp314"}, {[os |-> "linux", machine |-> "x86_64"]})
MacTags   == Wheel({"cp314"}, {"cp314"}, {[os |-> "macosx", machine |-> "arm64"]})

Pure   == Entry("a", "pure_python", ".tar.gz", NoTags, {<<"a-1", "src", "a">>, <<"a-1", "LICENSE">>})
Attrs  == Entry("attrs", "pure_python", ".tar.gz", NoTags, {<<"attr", ".">>, <<"">>})
Native == Entry("b", "native_wasm", ".whl", LinuxTags, {<<"b">>, <<"b.dist-info">>})
Mac    == Entry("b", "native_platform", ".whl", MacTags, {<<"b">>})

Request(packages, lockfile) == [packages |-> packages, hasLockfile |-> TRUE, lockfile |-> lockfile]

\* r1 and r2 share the pure layer, which r1 asks for in two ways; r2 also has
\* a native one.  The others must be rejected: a wheel of another platform, an
\* archive without the package, no lockfile, a wrong digest or scheme, a
\* package without an entry, a kind and an artifact the server does not know.
\* r0 asks for nothing.
FewArguments ==
    [r0 |-> Request(<<Plain("")>>, <<>>),
     r1 |-> Request(<<Plain("a"), Padded("a"), Plain("")>>, <<Pure>>),
     r2 |-> Request(<<Plain("b"), Plain("a")>>, <<Native, Pure>>),
     r3 |-> Request(<<Plain("b")>>, <<Mac>>),
     r4 |-> Request(<<Plain("attrs")>>, <<Attrs>>),
     r5 |-> [packages |-> <<Plain("a")>>, hasLockfile |-> FALSE, lockfile |-> <<>>],
     r6 |-> Request(<<Plain("a")>>, <<[Pure EXCEPT !.digest = FALSE]>>),
     r7 |-> Request(<<Plain("a")>>, <<[Pure EXCEPT !.https = FALSE]>>),
     r8 |-> Request(<<Plain("a"), Plain("b")>>, <<Pure>>),
     r9 |-> Request(<<Plain("a")>>, <<[Pure EXCEPT !.kind = "unknown"]>>),
     r10 |-> Request(<<Plain("a")>>, ResolveLockfile(<<[name |-> "a", kind |-> "pure_python"]>>))]

FewRequests == DOMAIN FewArguments

\* Two calls of one process, one of which goes on to the native layer, and a
\* call of another process, which makes every other request too.
FewAsks == [c1 |-> {"r2"}, c2 |-> {"r1"}, c3 |-> FewRequests \ {"r2"}]

\* The pure layer is missing, whole, changed or half removed at first.
FewLeftovers ==
    {[k \in Keys |-> IF "r1" \in k[2] THEN directory ELSE Absent] :
        directory \in {Absent, Layer, {"manifest", "downloads", "changed"}, {"foreign", "sources"}}}
===============================================================================
