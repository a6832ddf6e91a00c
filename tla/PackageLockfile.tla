---------------------------- MODULE PackageLockfile ----------------------------
(***************************************************************************)
(* Package lockfiles and what the server admits of them: resolveLockfile   *)
(* and verifyLockfile of aegispy-pack, and the checks of                   *)
(* server-package-layer.ts that come before any file is touched.           *)
(*                                                                         *)
(* A lockfile is the sequence of its entries.  An entry keeps of its URL   *)
(* the scheme and the extension of the file, of its sha256 whether it is   *)
(* the digest of name, version and URL, of a wheel's filename its tags,    *)
(* and of the archive behind the URL the paths it holds, each the sequence *)
(* of its components.                                                      *)
(***************************************************************************)
EXTENDS Picking, FiniteSets, SequencesExt

Classes == {"pure_python", "native_platform"}

Wheel(python, abi, platform) == [python |-> python, abi |-> abi, platform |-> platform]

NoTags == Wheel({}, {}, {})

Entry(name, kind, ext, tags, archive) ==
    [name |-> name, kind |-> kind, https |-> TRUE, ext |-> ext, digest |-> TRUE,
     tags |-> tags, archive |-> archive]

\* resolveLockfile names every artifact <name>-<version>.whl, whatever its
\* kind: three parts, so none of them carries a wheel's tags.
ResolveLockfile(dependencies) ==
    [i \in DOMAIN dependencies |->
        Entry(dependencies[i].name, dependencies[i].kind, ".whl", NoTags, {})]

IsNativePlatformEntry(e) == e.kind \in {"native_platform", "native_wasm"}

\* The entries of a class.  Their order does not count: packageSetVersion sorts them.
EntriesOf(lockfile, class) ==
    {e \in ToSet(lockfile) : IF class = "pure_python" THEN e.kind = "pure_python"
                                                     ELSE IsNativePlatformEntry(e)}

\* mutant: an entry whose hash is not that of its name, version and URL passes.
VerifyLockfileHashless(lockfile) == \A e \in ToSet(lockfile) : e.https

VerifyLockfile(lockfile) == \A e \in ToSet(lockfile) : e.digest /\ e.https
-------------------------------------------------------------------------------
(* What the server asks of a request.                                      *)

\* A name as it was written is its text and whether blanks surround it.  The
\* blanks are trimmed, then an empty name and a repeated one are dropped.
NormalizeRequestedPackages(packages) ==
    Picked([i \in DOMAIN packages |-> packages[i].text],
           {i \in DOMAIN packages : /\ packages[i].text # ""
                                    /\ \A j \in 1..(i - 1) : packages[j].text # packages[i].text})

\* entriesByName is built from the list, so a later entry hides an earlier one.
EntryByName(lockfile, name) ==
    lockfile[CHOOSE i \in DOMAIN lockfile :
                 /\ lockfile[i].name = name
                 /\ \A j \in DOMAIN lockfile : lockfile[j].name = name => j <= i]

\* The checks in the order of the code.  A request that fails one is
\* rejected with AEG-ENGINE.
AssertServerPackageLockfile(requested, r) ==
    /\ r.hasLockfile
    /\ VerifyLockfile(r.lockfile)
    /\ \A n \in ToSet(requested) : \E e \in ToSet(r.lockfile) : e.name = n
    /\ \A e \in ToSet(r.lockfile) :
           \/ e.kind = "pure_python" /\ e.ext = ".tar.gz"
           \/ IsNativePlatformEntry(e) /\ e.ext = ".whl"

\* filter over the requested names, with the kind the last entry gives them.
RequestedOf(requested, lockfile, class) ==
    Picked(requested,
           {i \in DOMAIN requested :
               LET e == EntryByName(lockfile, requested[i])
               IN  IF class = "pure_python" THEN e.kind = "pure_python" ELSE IsNativePlatformEntry(e)})
-------------------------------------------------------------------------------
(* Wheels and the target of the host.                                      *)

MatchesPythonAbi(python, abi, target) ==
    target.pythonAbi = "cpython-3.14" /\ python = "cp314" /\ abi = "cp314"

\* A platform tag is its operating system and its machine.
MatchesPlatformTag(tag, target) ==
    <<tag.os, tag.machine, target.os, target.arch>> \in
        {<<"linux", "x86_64", "linux", "x64">>, <<"linux", "aarch64", "linux", "arm64">>,
         <<"macosx", "x86_64", "darwin", "x64">>, <<"macosx", "arm64", "darwin", "arm64">>,
         <<"win", "amd64", "windows", "x64">>, <<"win", "arm64", "windows", "arm64">>}

\* A filename without tags throws in parseWheelTags: the call is rejected too.
WheelMatchesTarget(e, target) ==
    /\ \E python \in e.tags.python, abi \in e.tags.abi : MatchesPythonAbi(python, abi, target)
    /\ \E platform \in e.tags.platform : MatchesPlatformTag(platform, target)
-------------------------------------------------------------------------------
(* Archives.                                                               *)

SanitizeArchivePath(p) == SelectSeq(p, LAMBDA part : part \notin {"", "."})

ArchivePathValid(p) == SanitizeArchivePath(p) # <<>> /\ ~Contains(p, "..")

\* The directory the archive is extracted to, or the only directory in it.
ResolveExtractedRoot(paths) ==
    IF Cardinality({Head(p) : p \in paths}) = 1 /\ \A p \in paths : Len(p) > 1
    THEN <<Head(CHOOSE p \in paths : TRUE)>>
    ELSE <<>>

ImportNameCandidates(name) == IF name = "attrs" THEN {"attr", "attrs"} ELSE {name}

PackageRootCandidates(root) == {Append(root, "src"), root}

\* A package is a directory or a module under a candidate root; the component
\* of a module is its name without the extension.
ResolvesImportRoot(paths, name) ==
    \E root \in PackageRootCandidates(ResolveExtractedRoot(paths)), p \in paths :
        /\ IsPrefix(root, p)
        /\ Len(p) > Len(root)
        /\ p[Len(root) + 1] \in ImportNameCandidates(name)

\* The archive of an entry extracts, and the package it pins is in it.
Extracts(e) ==
    /\ \A p \in e.archive : ArchivePathValid(p)
    /\ e.archive # {}
    /\ ResolvesImportRoot({SanitizeArchivePath(p) : p \in e.archive}, e.name)
===============================================================================
