----------------------------- MODULE PackageLayer -----------------------------
(***************************************************************************)
(* The cache of server package layers (server-package-layer.ts): calls of  *)
(* resolveServerPackageLayer in several processes over one directory,      *)
(* artifacts/engine/package-layers.                                        *)
(*                                                                         *)
(* A layer is a directory with three parts, found under a key that stands  *)
(* for the hash packageSetVersion.  JavaScript runs one callback at a time *)
(* in a process, up to its next await; the system calls behind fs.rm and   *)
(* fs.rename run beside it, in the thread pool.                            *)
(***************************************************************************)
EXTENDS PackageLockfile

CONSTANTS
    Callers,        \* calls of resolveServerPackageLayer
    Procs,          \* processes
    Home,           \* the process of each call
    Requests,       \* names of requests
    Arguments,      \* the packages and the lockfile of each
    Asks,           \* the requests each call may make
    Leftovers,      \* caches earlier processes may have left behind
    Target,         \* currentTarget() of the host
    MaxCrashes      \* bound: processes that are killed

ASSUME LayerHomes   == Home \in [Callers -> Procs]
ASSUME LayerChoices == Asks \in [Callers -> SUBSET Requests]
ASSUME LayerCrashes == MaxCrashes \in Nat

None   == "none"
Absent == {"absent"}

\* What a layer directory holds.  "changed" stands for sources that are not
\* those the manifest has the hash of, "foreign" for a manifest of other entries.
Parts == {"manifest", "foreign", "downloads", "sources", "changed"}
Layer == {"manifest", "downloads", "sources"}

Directory == (SUBSET Parts) \cup {Absent}

PathOf(part) ==
    CASE part = "changed" -> "sources" [] part = "foreign" -> "manifest" [] OTHER -> part

Paths == {PathOf(part) : part \in Parts}
-------------------------------------------------------------------------------
(* Keys.                                                                   *)

Requested(r) == NormalizeRequestedPackages(Arguments[r].packages)

Lockfile(r) == Arguments[r].lockfile

\* No call is the entry that is not there; names and entries come as lists.
ASSUME LayerNames     == None \notin Callers /\ None \notin Requests
ASSUME LayerLockfiles ==
    \A r \in Requests : /\ Lockfile(r) \in Seq(ToSet(Lockfile(r)))
                        /\ Arguments[r].packages \in Seq(ToSet(Arguments[r].packages))

Admitted ==
    {r \in Requests : Requested(r) # <<>>
                      /\ AssertServerPackageLockfile(Requested(r), Arguments[r])}

\* packageSetVersion hashes the class, the requested names in their order and
\* the entries sorted, so that the order of the entries does not count.
HashInput(r, class) ==
    <<class, RequestedOf(Requested(r), Lockfile(r), class), EntriesOf(Lockfile(r), class)>>

\* A key stands for the hash: the class, and the requests with that input.
PackageSetVersion ==
    [r \in Admitted |-> [class \in Classes |->
        <<class, {q \in Admitted : HashInput(q, class) = HashInput(r, class)}>>]]

\* mutant: a class without entries is materialized too.
LayeredAlways == [class \in Classes |-> Admitted]

\* The requests with entries of a class; the others have no layer of it.
Layered == [class \in Classes |-> {r \in Admitted : EntriesOf(Lockfile(r), class) # {}}]

Entries == [r \in Requests |-> [class \in Classes |-> EntriesOf(Lockfile(r), class)]]

Keys == UNION {{PackageSetVersion[r][class] : r \in Layered[class]} : class \in Classes}

\* The requests whose wheels are all made for the host.
OnTarget ==
    {r \in Requests : \A e \in Entries[r]["native_platform"] : WheelMatchesTarget(e, Target)}

Extractable ==
    [class \in Classes |-> {r \in Requests : \A e \in Entries[r][class] : Extracts(e)}]

\* Earlier processes promoted only what they had extracted.
ASSUME LayerLeftovers ==
    /\ Leftovers \subseteq [Keys -> Directory]
    /\ \A leftover \in Leftovers, k \in Keys :
           leftover[k] = Layer => k[2] \subseteq Extractable[k[1]]

VARIABLES
    pc,             \* where each call stands
    request,        \* its arguments
    phase,          \* the package class it resolves
    selections,     \* the layers selected so far
    listing,        \* paths its fs.rm has still to remove
    left,           \* entries still to fetch
    cache,          \* the directory of each key
    stage,          \* the stage directory of each call and class
    inFlight,       \* inFlightMaterializations of each process
    crashes,        \* processes killed so far
    promotions,     \* history: promotions of each key
    looked,         \* history: promotions of its key when the call last verified it
    whole           \* history: keys that were whole during the call or the one it joined

code    == <<pc, request, phase, selections, listing, left, inFlight>>
files   == <<cache, stage>>
history == <<promotions, looked, whole>>
vars    == <<code, files, crashes, history>>

Settled == {"resolved", "rejected", "unfetched", "dead"}

\* In the middle of one callback: the process runs nothing else.
Synchronous == {"missed", "clear"}

\* The call runs the function of an inFlightMaterializations entry.
Materializing == {"fetching", "promoting", "promoted", "exists", "failed"}

TypeOK ==
    /\ pc \in [Callers -> {"idle", "class", "doomed", "removing", "removed", "waiting"}
                            \cup Settled \cup Synchronous \cup Materializing]
    /\ request \in [Callers -> Requests \cup {None}]
    /\ phase \in [Callers -> Classes]
    /\ selections \in [Callers -> SUBSET Keys]
    /\ listing \in [Callers -> SUBSET Paths]
    /\ left \in [Callers -> Nat]
    /\ cache \in [Keys -> Directory]
    /\ stage \in [Callers -> [Classes -> Directory]]
    /\ inFlight \in [Procs -> [Keys -> Callers \cup {None}]]
    /\ crashes \in 0..MaxCrashes
    /\ promotions \in [Keys -> Nat]
    /\ looked \in [Callers -> Nat]
    /\ whole \in [Callers -> SUBSET Keys]

Init ==
    /\ pc = [c \in Callers |-> "idle"]
    /\ request = [c \in Callers |-> None]
    /\ phase = [c \in Callers |-> "pure_python"]
    /\ selections = [c \in Callers |-> {}]
    /\ listing = [c \in Callers |-> {}]
    /\ left = [c \in Callers |-> 0]
    /\ cache \in Leftovers
    /\ stage = [c \in Callers |-> [k \in Classes |-> Absent]]
    /\ inFlight = [p \in Procs |-> [k \in Keys |-> None]]
    /\ crashes = 0
    /\ promotions = [k \in Keys |-> 0]
    /\ looked = [c \in Callers |-> 0]
    /\ whole = [c \in Callers |-> {}]
-------------------------------------------------------------------------------
(* Verification of a cached layer.                                         *)

Key(c) == PackageSetVersion[request[c]][phase[c]]

\* mutant: no layer is ever found good, as when the archive's hash is compared
\* with the lockfile's, which is not a hash of the archive.
VerifyNever(directory) == FALSE

\* mutant: the hashes of the sources are not compared.
VerifyManifestAlone(directory) == {"manifest", "downloads"} \subseteq directory

\* verifyManifest returns a selection for these contents and null for all others.
VerifyManifest(directory) == directory = Layer

\* A file that fs.rm takes away between two system calls of verifyManifest
\* makes it throw.
MayThrow(key) == \E c \in Callers : pc[c] = "removing" /\ Key(c) = key

\* The process of c runs no other callback.
Idle(c) == \A d \in Callers \ {c} : Home[d] = Home[c] => pc[d] \notin Synchronous

\* History: what was whole during each open call, or during the one it joins.
Note(cs) ==
    whole' = [c \in Callers |->
                 IF c \in cs \cup {d \in Callers : pc[d] \notin Settled \cup {"idle"}}
                 THEN whole[c] \cup {k \in Keys : cache'[k] = Layer}
                               \cup (IF pc[c] # "waiting" /\ pc'[c] = "waiting"
                                     THEN whole[inFlight[Home[c]][Key(c)]] ELSE {})
                 ELSE whole[c]]

\* After the selection of one class comes the other, after both the answer.
Advance(cs, keys) ==
    /\ selections' = [c \in Callers |-> IF c \in cs THEN selections[c] \cup keys ELSE selections[c]]
    /\ pc' = [c \in Callers |->
                 IF c \notin cs THEN pc[c]
                 ELSE IF phase[c] = "pure_python" THEN "class" ELSE "resolved"]
    /\ phase' = [c \in Callers |-> IF c \in cs THEN "native_platform" ELSE phase[c]]

Reject(cs, why) ==
    /\ pc' = [c \in Callers |-> IF c \in cs THEN why ELSE pc[c]]
    /\ UNCHANGED <<selections, phase>>

\* A call without packages resolves to the base set; one that is not admitted
\* is rejected; the others go on to the first class.
Call(c) ==
    /\ pc[c] = "idle"
    /\ Idle(c)
    /\ \E r \in Asks[c] :
           /\ request' = [request EXCEPT ![c] = r]
           /\ pc' = [pc EXCEPT ![c] = IF Requested(r) = <<>> THEN "resolved"
                                      ELSE IF r \in Admitted THEN "class" ELSE "rejected"]
    /\ UNCHANGED <<phase, selections, listing, left, inFlight, files, crashes,
                   promotions, looked>>
    /\ Note({c})

\* resolvePackageClassLayer up to the first verifyManifest.
Look(c) ==
    /\ pc[c] = "class"
    /\ Idle(c)
    /\ \/ /\ request[c] \notin Layered[phase[c]]
          /\ Advance({c}, {})
          /\ UNCHANGED looked
       \/ /\ phase[c] = "native_platform"
          /\ request[c] \notin OnTarget
          /\ Reject({c}, "rejected")
          /\ UNCHANGED looked
       \/ /\ request[c] \in Layered[phase[c]]
          /\ phase[c] = "native_platform" => request[c] \in OnTarget
          /\ \/ VerifyManifest(cache[Key(c)]) /\ Advance({c}, {Key(c)}) /\ UNCHANGED looked
             \/ MayThrow(Key(c)) /\ Reject({c}, "rejected") /\ UNCHANGED looked
             \/ /\ ~VerifyManifest(cache[Key(c)])
                /\ pc' = [pc EXCEPT ![c] = "missed"]
                /\ looked' = [looked EXCEPT ![c] = promotions[Key(c)]]
                /\ UNCHANGED <<selections, phase>>
    /\ UNCHANGED <<request, listing, left, inFlight, files, crashes, promotions>>
    /\ Note({})

CheckExists(c) ==
    /\ pc[c] = "missed"
    /\ pc' = [pc EXCEPT ![c] = IF cache[Key(c)] = Absent THEN "clear" ELSE "doomed"]
    /\ UNCHANGED <<request, phase, selections, listing, left, inFlight, files, crashes,
                   promotions, looked>>
    /\ Note({})
-------------------------------------------------------------------------------
(* removeDirectory(cacheRoot): fs.rm lists the directory, removes what it  *)
(* listed path by path, then the directory; one that has been filled again *)
(* makes it fail with ENOTEMPTY.                                           *)

ListDirectory(c) ==
    /\ pc[c] = "doomed"
    /\ pc' = [pc EXCEPT ![c] = "removing"]
    /\ listing' = [listing EXCEPT ![c] = {PathOf(p) : p \in cache[Key(c)] \cap Parts}]
    /\ UNCHANGED <<request, phase, selections, left, inFlight, files, crashes, promotions, looked>>
    /\ Note({})

RemovePath(c) ==
    /\ pc[c] = "removing"
    /\ \E path \in listing[c] :
           /\ listing' = [listing EXCEPT ![c] = @ \ {path}]
           /\ cache' = [cache EXCEPT ![Key(c)] = {p \in @ : PathOf(p) # path}]
    /\ UNCHANGED <<pc, request, phase, selections, left, inFlight, stage, crashes,
                   promotions, looked>>
    /\ Note({})

RemoveDirectory(c) ==
    /\ pc[c] = "removing"
    /\ listing[c] = {}
    /\ IF cache[Key(c)] \in {Absent, {}}
       THEN /\ cache' = [cache EXCEPT ![Key(c)] = Absent]
            /\ pc' = [pc EXCEPT ![c] = "removed"]
       ELSE /\ pc' = [pc EXCEPT ![c] = "rejected"]
            /\ UNCHANGED cache
    /\ UNCHANGED <<request, phase, selections, listing, left, inFlight, stage, crashes,
                   promotions, looked>>
    /\ Note({})
-------------------------------------------------------------------------------
(* Materialization.                                                        *)

\* The calls that await the materialization of c, and c.
Awaiting(c) ==
    {c} \cup {d \in Callers : pc[d] = "waiting" /\ Home[d] = Home[c] /\ Key(d) = Key(c)}

\* mutant: the entry outlives the materialization.
ForgetNothing(c) == inFlight' = inFlight

\* inFlightMaterializations.delete, in both branches.
Forget(c) == inFlight' = [inFlight EXCEPT ![Home[c]][Key(c)] = None]

\* The rejection of a materialization: its callers all see it.
Fail(c, why) == Forget(c) /\ Reject(Awaiting(c), why)

\* mutant: every call materializes for itself.
EnterAlone(c) ==
    /\ pc[c] \in {"clear", "removed"}
    /\ Idle(c)
    /\ pc' = [pc EXCEPT ![c] = "fetching"]
    /\ left' = [left EXCEPT ![c] = Cardinality(Entries[request[c]][phase[c]])]
    /\ stage' = [stage EXCEPT ![c][phase[c]] = {"downloads", "sources"}]
    /\ inFlight' = [inFlight EXCEPT ![Home[c]][Key(c)] = c]
    /\ UNCHANGED <<phase, selections, request, listing, cache, crashes, promotions, looked>>
    /\ Note({})

\* From inFlightMaterializations.get to the first fetch: the call joins a
\* materialization, or starts one, which verifies once more.
Enter(c) ==
    /\ pc[c] \in {"clear", "removed"}
    /\ Idle(c)
    /\ IF inFlight[Home[c]][Key(c)] # None
       THEN /\ pc' = [pc EXCEPT ![c] = "waiting"]
            /\ UNCHANGED <<phase, selections, left, stage, inFlight>>
       ELSE \/ /\ VerifyManifest(cache[Key(c)])
               /\ Advance({c}, {Key(c)})
               /\ UNCHANGED <<left, stage, inFlight>>
            \/ /\ MayThrow(Key(c))
               /\ Reject({c}, "rejected")
               /\ UNCHANGED <<left, stage, inFlight>>
            \/ /\ ~VerifyManifest(cache[Key(c)])
               /\ pc' = [pc EXCEPT ![c] = "fetching"]
               /\ left' = [left EXCEPT ![c] = Cardinality(Entries[request[c]][phase[c]])]
               /\ stage' = [stage EXCEPT ![c][phase[c]] = {"downloads", "sources"}]
               /\ inFlight' = [inFlight EXCEPT ![Home[c]][Key(c)] = c]
               /\ UNCHANGED <<phase, selections>>
    /\ UNCHANGED <<request, listing, cache, crashes, promotions, looked>>
    /\ Note({})

\* One entry is fetched and extracted; after the last the manifest is written.
\* A failure leaves the stage directory behind.
FetchArtifact(c) ==
    /\ pc[c] = "fetching"
    /\ Idle(c)
    /\ \/ /\ request[c] \in Extractable[phase[c]]
          /\ left' = [left EXCEPT ![c] = @ - 1]
          /\ IF left[c] = 1
             THEN /\ pc' = [pc EXCEPT ![c] = "promoting"]
                  /\ stage' = [stage EXCEPT ![c][phase[c]] = Layer]
             ELSE UNCHANGED <<pc, stage>>
          /\ UNCHANGED <<phase, selections, inFlight>>
       \/ /\ Fail(c, "unfetched")
          /\ UNCHANGED <<left, stage>>
    /\ UNCHANGED <<request, listing, cache, crashes, promotions, looked>>
    /\ Note({})

\* fs.rename replaces a missing or an empty directory and no other.
PromoteStageRoot(c) ==
    /\ pc[c] = "promoting"
    /\ \/ /\ cache[Key(c)] \in {Absent, {}}
          /\ pc' = [pc EXCEPT ![c] = "promoted"]
          /\ cache' = [cache EXCEPT ![Key(c)] = stage[c][phase[c]]]
          /\ stage' = [stage EXCEPT ![c][phase[c]] = Absent]
          /\ promotions' = [promotions EXCEPT ![Key(c)] = @ + 1]
       \/ /\ cache[Key(c)] \notin {Absent, {}}
          /\ pc' = [pc EXCEPT ![c] = "exists"]
          /\ UNCHANGED <<files, promotions>>
       \/ /\ pc' = [pc EXCEPT ![c] = "failed"]
          /\ UNCHANGED <<files, promotions>>
    /\ UNCHANGED <<request, phase, selections, listing, left, inFlight, crashes, looked>>
    /\ Note({})

\* The callback of a promotion that was done.
Promoted(c) ==
    /\ pc[c] = "promoted"
    /\ Idle(c)
    /\ Forget(c)
    /\ Advance(Awaiting(c), {Key(c)})
    /\ UNCHANGED <<request, listing, left, files, crashes, promotions, looked>>
    /\ Note({})

\* mutant: the stage directory is kept when another layer was there first.
LoseMessy(c) ==
    /\ pc[c] = "exists"
    /\ Idle(c)
    /\ \/ VerifyManifest(cache[Key(c)]) /\ Forget(c) /\ Advance(Awaiting(c), {Key(c)})
       \/ (~VerifyManifest(cache[Key(c)]) \/ MayThrow(Key(c))) /\ Fail(c, "rejected")
    /\ UNCHANGED <<request, listing, left, files, crashes, promotions, looked>>
    /\ Note({})

\* Another layer was there first: the stage directory is removed and the
\* layer verified, which need not succeed.
Lose(c) ==
    /\ pc[c] = "exists"
    /\ Idle(c)
    /\ stage' = [stage EXCEPT ![c][phase[c]] = Absent]
    /\ \/ VerifyManifest(cache[Key(c)]) /\ Forget(c) /\ Advance(Awaiting(c), {Key(c)})
       \/ (~VerifyManifest(cache[Key(c)]) \/ MayThrow(Key(c))) /\ Fail(c, "rejected")
    /\ UNCHANGED <<request, listing, left, cache, crashes, promotions, looked>>
    /\ Note({})

\* Any other error of the rename: the stage directory is removed.
Abandon(c) ==
    /\ pc[c] = "failed"
    /\ Idle(c)
    /\ stage' = [stage EXCEPT ![c][phase[c]] = Absent]
    /\ Fail(c, "rejected")
    /\ UNCHANGED <<request, listing, left, cache, crashes, promotions, looked>>
    /\ Note({})
-------------------------------------------------------------------------------
\* A process is killed and started again: its calls end, its map is empty,
\* its files stay.
Crash(p) ==
    /\ crashes < MaxCrashes
    /\ crashes' = crashes + 1
    /\ pc' = [c \in Callers |->
                 IF Home[c] = p /\ pc[c] \notin Settled \cup {"idle"} THEN "dead" ELSE pc[c]]
    /\ inFlight' = [inFlight EXCEPT ![p] = [k \in Keys |-> None]]
    /\ UNCHANGED <<request, phase, selections, listing, left, files, promotions, looked>>
    /\ Note({})

Step(c) ==
    \/ Look(c) \/ CheckExists(c) \/ ListDirectory(c) \/ RemovePath(c) \/ RemoveDirectory(c)
    \/ Enter(c) \/ FetchArtifact(c) \/ PromoteStageRoot(c) \/ Promoted(c) \/ Lose(c) \/ Abandon(c)

Next ==
    \/ \E c \in Callers : Call(c)
    \/ \E c \in Callers : Step(c)
    \/ \E p \in Procs : Crash(p)

Spec == Init /\ [][Next]_vars

\* System calls, fetches and callbacks come to an end, with success or failure.
FairSpec == Spec /\ \A c \in Callers : WF_vars(Step(c))
-------------------------------------------------------------------------------
(* Properties.                                                             *)

\* A process materializes a key once at a time, whoever asks: the call that
\* does is the inFlightMaterializations entry of its process (lines 742-745,
\* 868-869), and whoever waits does so for a call that will settle it.
OneMaterialization ==
    /\ \A c \in Callers : pc[c] \in Materializing => inFlight[Home[c]][Key(c)] = c
    /\ \A c \in Callers : pc[c] = "waiting" =>
           \E d \in Callers : /\ inFlight[Home[c]][Key(c)] = d
                              /\ pc[d] \in Materializing /\ Home[d] = Home[c] /\ Key(d) = Key(c)

\* Every layer a call is given was whole at some time during the call, or
\* during the one it joined, however the removals and promotions of other
\* calls fall (lines 728-745, 829-850).  It need not be whole any more when
\* the call returns.
SelectedWasWhole == \A c \in Callers : selections[c] \subseteq whole[c]

\* A call that resolves has a verified entry, for this host, for every
\* package it asked for, in a layer made for that package (lines 575-690).
ResolvedIsPinned ==
    \A c \in Callers : pc[c] = "resolved" =>
        \A p \in ToSet(Arguments[request[c]].packages) : p.text # "" =>
            \E k \in selections[c] : \A r \in k[2] :
                /\ Contains(RequestedOf(Requested(r), Lockfile(r), k[1]), p.text)
                /\ \E e \in Entries[r][k[1]] :
                       /\ e.name = p.text /\ e.digest /\ e.https /\ Extracts(e)
                       /\ k[1] = "native_platform" => WheelMatchesTarget(e, Target)

\* A stage directory outlives its call only when the process died or an
\* artifact could not be fetched or extracted (lines 829-857).
NoStageLeft ==
    \A c \in Callers : pc[c] \in {"resolved", "rejected"} =>
        \A k \in Classes : stage[c][k] = Absent

\* A whole layer is destroyed only by a call that looked before the last
\* promotion and found no layer then: the window between verifyManifest and
\* the end of fs.rm (lines 728-740).  A call that looked after it never is.
OnlyStaleRemovals ==
    [][\A k \in Keys : cache[k] = Layer /\ cache'[k] # Layer =>
           \E c \in Callers : pc[c] = "removing" /\ Key(c) = k /\ looked[c] < promotions[k]]_vars

\* Every call settles: a waiting one is not left behind by the call it waits
\* for, whatever fails and whoever is killed (lines 742-745, 858-869).
CallsSettle == <>[](\A c \in Callers : pc[c] \in Settled \cup {"idle"})
===============================================================================
