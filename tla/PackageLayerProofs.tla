-------------------------- MODULE PackageLayerProofs --------------------------
(***************************************************************************)
(* Proofs about PackageLayer, for every set of calls, processes, requests  *)
(* and leftover caches, and any number of crashes.                         *)
(***************************************************************************)
EXTENDS PackageLayer, Induction, FiniteSetTheorems, TLAPS

\* The call has a key: it is past the first test of resolvePackageClassLayer.
Keyed == {"missed", "clear", "doomed", "removing", "removed", "waiting"} \cup Materializing

\* The call has a stage directory.
Staged == {"fetching", "promoting", "exists", "failed"}

\* Inductive: a call with a key has entries of its class, and one that
\* fetches has an entry left to fetch.
LayerKnown ==
    \A c \in Callers : /\ pc[c] \in Keyed => request[c] \in Layered[phase[c]]
                       /\ pc[c] = "fetching" => left[c] > 0

\* Inductive: an entry of inFlightMaterializations is the call that
\* materializes, such a call is an entry, and whoever waits has one to wait for.
EntriesLive ==
    /\ \A c \in Callers : pc[c] \in Materializing => inFlight[Home[c]][Key(c)] = c
    /\ \A c \in Callers : pc[c] = "waiting" => inFlight[Home[c]][Key(c)] # None
    /\ \A d \in Callers, p \in Procs, k \in Keys :
           inFlight[p][k] = d => pc[d] \in Materializing /\ Home[d] = p /\ Key(d) = k

\* Inductive: a stage directory belongs to a call that materializes this
\* class, or to one that was killed or could not fetch.
StagesOwned ==
    \A c \in Callers, k \in Classes : stage[c][k] # Absent =>
        \/ pc[c] \in {"dead", "unfetched"}
        \/ pc[c] \in Staged /\ phase[c] = k

\* Inductive: what is about to be promoted is a layer, and what was promoted
\* has been seen whole by every call that will be given it.
PromotionSeen ==
    \A c \in Callers :
        /\ pc[c] = "promoting" => stage[c][phase[c]] = Layer
        /\ pc[c] = "promoted" => \A d \in Awaiting(c) : Key(c) \in whole[d]

\* Inductive: a call that removes has found no layer, and a layer that is
\* there now was promoted since.
LooksStale ==
    \A c \in Callers : pc[c] \in {"missed", "doomed", "removing"} =>
        /\ looked[c] <= promotions[Key(c)]
        /\ cache[Key(c)] = Layer => looked[c] < promotions[Key(c)]
-------------------------------------------------------------------------------
(* Types.                                                                  *)

\* A list has finitely many elements.
LEMMA ListFinite ==
    ASSUME NEW S, NEW s \in Seq(S)
    PROVE  IsFiniteSet(ToSet(s))
<1>1. s \in [1..Len(s) -> S] /\ Len(s) \in Nat /\ DOMAIN s = 1..Len(s)
  BY LenProperties
<1>2. s \in Surjection(1..Len(s), ToSet(s))
  BY <1>1 DEF Surjection, ToSet
<1>3. IsFiniteSet(1..Len(s))
  BY <1>1, FS_Interval
<1> QED BY <1>2, <1>3, FS_Surjection

\* A request with entries of a class has a key for them, and a number of them.
LEMMA KeyTyped ==
    ASSUME NEW class \in Classes, NEW r \in Layered[class]
    PROVE  /\ r \in Requests
           /\ PackageSetVersion[r][class] \in Keys
           /\ Cardinality(Entries[r][class]) \in Nat \ {0}
<1>1. r \in Admitted /\ r \in Requests /\ Entries[r][class] # {}
  BY DEF Layered, Admitted, Entries
<1>2. PackageSetVersion[r][class] \in Keys
  BY DEF Keys
<1>3. IsFiniteSet(Entries[r][class])
  <2>1. Entries[r][class] \subseteq ToSet(Lockfile(r))
    BY <1>1 DEF Entries, EntriesOf
  <2>2. IsFiniteSet(ToSet(Lockfile(r)))
    BY <1>1, LayerLockfiles, ListFinite
  <2> QED BY <2>1, <2>2, FS_Subset
<1>4. Cardinality(Entries[r][class]) \in Nat \ {0}
  BY <1>1, <1>3, FS_CardinalityType, FS_EmptySet
<1> QED BY <1>1, <1>2, <1>4

\* The key of a call past the first test.
LEMMA CallKey ==
    ASSUME TypeOK, LayerKnown, NEW c \in Callers, pc[c] \in Keyed
    PROVE  /\ Key(c) \in Keys
           /\ request[c] \in Requests
           /\ Cardinality(Entries[request[c]][phase[c]]) \in Nat \ {0}
BY KeyTyped DEF TypeOK, LayerKnown, Key

\* A step in which every call that begins to wait finds an entry records keys.
LEMMA NoteTyped ==
    ASSUME TypeOK, NEW cs, Note(cs),
           \A c \in Callers : pc[c] # "waiting" /\ pc'[c] = "waiting" =>
               inFlight[Home[c]][Key(c)] \in Callers
    PROVE  whole' \in [Callers -> SUBSET Keys]
BY DEF TypeOK, Note

\* Removing a path from a directory leaves a directory; it makes no layer of
\* one that was none, since every path is one of a layer's.
LEMMA RemovalTyped ==
    ASSUME NEW d \in Directory, NEW path \in Paths
    PROVE  /\ {p \in d : PathOf(p) # path} \in Directory
           /\ {p \in d : PathOf(p) # path} # Layer
<1>1. path \in {"manifest", "downloads", "sources"}
  BY DEF PathOf, Parts, Paths
<1>2. {p \in d : PathOf(p) # path} # Layer
  <2>1. \A p \in Layer : PathOf(p) = p
    BY DEF Layer, PathOf
  <2>2. path \in Layer
    BY <1>1 DEF Layer
  <2>3. path \notin {p \in d : PathOf(p) # path}
    BY <2>1, <2>2
  <2> QED BY <2>2, <2>3
<1>3. CASE d = Absent
  <2>1. \A p \in Absent : PathOf(p) = "absent"
    BY DEF Absent, PathOf
  <2>2. {p \in Absent : PathOf(p) # path} = Absent
    BY <1>1, <2>1
  <2> QED BY <1>2, <1>3, <2>2 DEF Directory
<1>4. CASE d \in SUBSET Parts
  BY <1>2, <1>4 DEF Directory
<1> QED BY <1>3, <1>4 DEF Directory

\* An assignment to a stage directory or to an entry keeps its type.
StageType  == [Callers -> [Classes -> Directory]]
FlightType == [Procs -> [Keys -> Callers \cup {None}]]

LEMMA StageTyped ==
    ASSUME stage \in StageType, NEW c \in Callers, phase[c] \in Classes, NEW d \in Directory
    PROVE  [stage EXCEPT ![c][phase[c]] = d] \in StageType
<1>1. [stage[c] EXCEPT ![phase[c]] = d] \in [Classes -> Directory]
  BY DEF StageType
<1> QED BY <1>1 DEF StageType

LEMMA FlightTyped ==
    ASSUME inFlight \in FlightType, NEW c \in Callers, Key(c) \in Keys, NEW e \in Callers \cup {None}
    PROVE  [inFlight EXCEPT ![Home[c]][Key(c)] = e] \in FlightType
<1>1. Home[c] \in Procs
  BY LayerHomes
<1>2. [inFlight[Home[c]] EXCEPT ![Key(c)] = e] \in [Keys -> Callers \cup {None}]
  BY <1>1 DEF FlightType
<1> QED BY <1>1, <1>2 DEF FlightType

\* The type invariant together with LayerKnown is inductive.
Typed == TypeOK /\ LayerKnown

LEMMA TypedStep == Typed /\ [Next]_vars => Typed'
<1> SUFFICES ASSUME TypeOK, LayerKnown, [Next]_vars PROVE TypeOK' /\ LayerKnown'
  BY DEF Typed
<1> DEFINE NewWaiters == {c \in Callers : pc[c] # "waiting" /\ pc'[c] = "waiting"}
<1>0. ASSUME NEW cs, Note(cs), NewWaiters = {} PROVE whole' \in [Callers -> SUBSET Keys]
  BY <1>0, NoteTyped
<1>t. stage \in StageType /\ inFlight \in FlightType /\ phase \in [Callers -> Classes]
  BY DEF TypeOK, StageType, FlightType
<1>a. Absent \in Directory /\ Layer \in Directory /\ {"downloads", "sources"} \in Directory
  BY DEF Directory, Layer, Parts
<1> USE DEF Keyed, Settled, Synchronous, Materializing
<1>1. ASSUME NEW c \in Callers, Call(c) PROVE TypeOK' /\ LayerKnown'
  <2> PICK r \in Asks[c] :
           /\ request' = [request EXCEPT ![c] = r]
           /\ pc' = [pc EXCEPT ![c] = IF Requested(r) = <<>> THEN "resolved"
                                      ELSE IF r \in Admitted THEN "class" ELSE "rejected"]
    BY <1>1 DEF Call
  <2>1. r \in Requests
    BY LayerChoices
  <2>2. NewWaiters = {}
    BY DEF TypeOK
  <2>3. whole' \in [Callers -> SUBSET Keys]
    BY <1>0, <1>1, <2>2 DEF Call
  <2> QED BY <1>1, <2>1, <2>3 DEF TypeOK, LayerKnown, Call, files
<1>2. ASSUME NEW c \in Callers, Look(c) PROVE TypeOK' /\ LayerKnown'
  <2>1. NewWaiters = {}
    BY <1>2 DEF TypeOK, Look, Advance, Reject
  <2>2. whole' \in [Callers -> SUBSET Keys]
    BY <1>0, <1>2, <2>1 DEF Look
  <2>3. request[c] \in Layered[phase[c]] => Key(c) \in Keys
    BY KeyTyped DEF TypeOK, Key
  <2>4. LayerKnown'
    BY <1>2 DEF TypeOK, LayerKnown, Look, Advance, Reject
  <2>5. CASE Advance({c}, {}) /\ UNCHANGED looked
    BY <1>2, <2>2, <2>4, <2>5 DEF TypeOK, Look, Advance, files, Classes
  <2>6. CASE Reject({c}, "rejected") /\ UNCHANGED looked
    BY <1>2, <2>2, <2>4, <2>6 DEF TypeOK, Look, Reject, files
  <2>7. CASE request[c] \in Layered[phase[c]] /\ Advance({c}, {Key(c)}) /\ UNCHANGED looked
    BY <1>2, <2>2, <2>3, <2>4, <2>7 DEF TypeOK, Look, Advance, files, Classes
  <2>8. CASE /\ request[c] \in Layered[phase[c]]
             /\ pc' = [pc EXCEPT ![c] = "missed"]
             /\ looked' = [looked EXCEPT ![c] = promotions[Key(c)]]
             /\ UNCHANGED <<selections, phase>>
    BY <1>2, <2>2, <2>3, <2>4, <2>8 DEF TypeOK, Look, files
  <2> QED BY <1>2, <2>5, <2>6, <2>7, <2>8 DEF Look
<1>3. ASSUME NEW c \in Callers, CheckExists(c) \/ ListDirectory(c) PROVE TypeOK' /\ LayerKnown'
  <2>1. NewWaiters = {}
    BY <1>3 DEF TypeOK, CheckExists, ListDirectory
  <2>2. whole' \in [Callers -> SUBSET Keys]
    BY <1>0, <1>3, <2>1 DEF CheckExists, ListDirectory
  <2>3. LayerKnown'
    BY <1>3 DEF TypeOK, LayerKnown, CheckExists, ListDirectory
  <2>4. listing' \in [Callers -> SUBSET Paths]
    <3>1. {PathOf(p) : p \in cache[Key(c)] \cap Parts} \subseteq Paths
      BY DEF Paths
    <3> QED BY <1>3, <3>1 DEF TypeOK, CheckExists, ListDirectory
  <2> QED BY <1>3, <2>2, <2>3, <2>4 DEF TypeOK, CheckExists, ListDirectory, files
<1>4. ASSUME NEW c \in Callers, RemovePath(c) PROVE TypeOK' /\ LayerKnown'
  <2>1. whole' \in [Callers -> SUBSET Keys]
    BY <1>0, <1>4 DEF RemovePath
  <2>2. cache' \in [Keys -> Directory]
    <3>1. Key(c) \in Keys
      BY <1>4, CallKey DEF RemovePath
    <3> PICK path \in listing[c] : cache' = [cache EXCEPT ![Key(c)] = {p \in @ : PathOf(p) # path}]
      BY <1>4 DEF RemovePath
    <3>2. path \in Paths /\ cache[Key(c)] \in Directory
      BY <3>1 DEF TypeOK
    <3> QED BY <3>1, <3>2, RemovalTyped DEF TypeOK
  <2>3. LayerKnown'
    BY <1>4 DEF TypeOK, LayerKnown, RemovePath
  <2>4. listing' \in [Callers -> SUBSET Paths]
    BY <1>4 DEF TypeOK, RemovePath
  <2>5. UNCHANGED <<pc, request, phase, selections, left, inFlight, stage, crashes, promotions, looked>>
    BY <1>4 DEF RemovePath
  <2> QED BY <2>1, <2>2, <2>3, <2>4, <2>5 DEF TypeOK
<1>5. ASSUME NEW c \in Callers, RemoveDirectory(c) PROVE TypeOK' /\ LayerKnown'
  <2>1. NewWaiters = {}
    BY <1>5 DEF TypeOK, RemoveDirectory
  <2>2. whole' \in [Callers -> SUBSET Keys]
    BY <1>0, <1>5, <2>1 DEF RemoveDirectory
  <2> QED BY <1>5, <2>2, ZenonT(60) DEF TypeOK, LayerKnown, RemoveDirectory, Directory
<1>6. ASSUME NEW c \in Callers, Enter(c) PROVE TypeOK' /\ LayerKnown'
  <2>1. Key(c) \in Keys /\ Cardinality(Entries[request[c]][phase[c]]) \in Nat \ {0}
    BY <1>6, CallKey DEF Enter
  <2>2. \A d \in NewWaiters : inFlight[Home[d]][Key(d)] \in Callers
    <3>1. Home[c] \in Procs /\ inFlight[Home[c]][Key(c)] \in Callers \cup {None}
      BY <2>1, LayerHomes DEF TypeOK
    <3>2. NewWaiters \subseteq {c}
      BY <1>6 DEF TypeOK, Enter, Advance, Reject
    <3>3. inFlight[Home[c]][Key(c)] = None => NewWaiters = {}
      BY <1>6 DEF TypeOK, Enter, Advance, Reject
    <3> QED BY <3>1, <3>2, <3>3
  <2>3. whole' \in [Callers -> SUBSET Keys]
    BY <1>6, <2>2, NoteTyped DEF Enter
  <2>5. UNCHANGED <<request, listing, cache, crashes, promotions, looked>>
    BY <1>6 DEF Enter
  <2>6. LayerKnown'
    <3>1. \A d \in Callers : d # c => UNCHANGED <<pc[d], phase[d], left[d]>>
      BY <1>6 DEF TypeOK, Enter, Advance, Reject
    <3>2. request[c] \in Layered[phase[c]]
      BY <1>6 DEF LayerKnown, Enter
    <3>3. pc'[c] \in Keyed => phase'[c] = phase[c]
      BY <1>6 DEF TypeOK, Enter, Advance, Reject
    <3>4. pc'[c] = "fetching" => left'[c] > 0
      BY <1>6, <2>1, SMTT(30) DEF TypeOK, Enter, Advance, Reject
    <3> QED BY <2>5, <3>1, <3>2, <3>3, <3>4 DEF LayerKnown
  <2>7. CASE Advance({c}, {Key(c)}) /\ UNCHANGED <<left, stage, inFlight>>
    BY <2>1, <2>3, <2>5, <2>6, <2>7 DEF TypeOK, Advance, Classes
  <2>8. CASE /\ (\/ Reject({c}, "rejected")
                 \/ pc' = [pc EXCEPT ![c] = "waiting"] /\ UNCHANGED <<selections, phase>>)
             /\ UNCHANGED <<left, stage, inFlight>>
    BY <2>3, <2>5, <2>6, <2>8 DEF TypeOK, Reject
  <2>9. CASE /\ pc' = [pc EXCEPT ![c] = "fetching"]
             /\ left' = [left EXCEPT ![c] = Cardinality(Entries[request[c]][phase[c]])]
             /\ stage' = [stage EXCEPT ![c][phase[c]] = {"downloads", "sources"}]
             /\ inFlight' = [inFlight EXCEPT ![Home[c]][Key(c)] = c]
             /\ UNCHANGED <<phase, selections>>
    <3>1. stage' \in StageType /\ inFlight' \in FlightType
      BY <1>t, <1>a, <2>1, <2>9, StageTyped, FlightTyped
    <3> QED BY <2>1, <2>3, <2>5, <2>6, <2>9, <3>1 DEF TypeOK, StageType, FlightType
  <2> QED BY <1>6, <2>7, <2>8, <2>9 DEF Enter
<1>7. ASSUME NEW c \in Callers, FetchArtifact(c) PROVE TypeOK' /\ LayerKnown'
  <2>1. Key(c) \in Keys /\ left[c] > 0
    BY <1>7, CallKey DEF FetchArtifact, LayerKnown
  <2>2. NewWaiters = {}
    BY <1>7 DEF TypeOK, FetchArtifact, Fail, Reject
  <2>3. whole' \in [Callers -> SUBSET Keys]
    BY <1>0, <1>7, <2>2 DEF FetchArtifact
  <2>4. UNCHANGED <<request, listing, cache, crashes, promotions, looked>>
    BY <1>7 DEF FetchArtifact
  <2>5. CASE Fail(c, "unfetched") /\ UNCHANGED <<left, stage>>
    <3>1. inFlight' \in FlightType
      BY <1>t, <2>1, <2>5, FlightTyped DEF Fail, Forget
    <3>2. LayerKnown'
      BY <2>4, <2>5 DEF TypeOK, LayerKnown, Fail, Reject
    <3>3. pc' \in [Callers -> {"unfetched"} \cup {pc[d] : d \in Callers}] /\ UNCHANGED <<selections, phase>>
      BY <2>5 DEF Fail, Reject
    <3> QED BY <2>3, <2>4, <2>5, <3>1, <3>2, <3>3 DEF TypeOK, FlightType
  <2>6. CASE /\ left' = [left EXCEPT ![c] = @ - 1]
             /\ IF left[c] = 1
                THEN /\ pc' = [pc EXCEPT ![c] = "promoting"]
                     /\ stage' = [stage EXCEPT ![c][phase[c]] = Layer]
                ELSE UNCHANGED <<pc, stage>>
             /\ UNCHANGED <<phase, selections, inFlight>>
    <3>1. stage' \in StageType
      BY <1>t, <1>a, <2>6, StageTyped
    <3>2. LayerKnown'
      BY <1>7, <2>1, <2>4, <2>6 DEF TypeOK, LayerKnown, FetchArtifact
    <3>3. left' \in [Callers -> Nat]
      BY <2>1, <2>6 DEF TypeOK
    <3> QED BY <2>3, <2>4, <2>6, <3>1, <3>2, <3>3 DEF TypeOK, StageType
  <2> QED BY <1>7, <2>5, <2>6 DEF FetchArtifact
<1>8. ASSUME NEW c \in Callers, PromoteStageRoot(c) PROVE TypeOK' /\ LayerKnown'
  <2>1. Key(c) \in Keys
    BY <1>8, CallKey DEF PromoteStageRoot
  <2>2. NewWaiters = {}
    BY <1>8 DEF TypeOK, PromoteStageRoot
  <2>3. whole' \in [Callers -> SUBSET Keys]
    BY <1>0, <1>8, <2>2 DEF PromoteStageRoot
  <2>4. LayerKnown'
    BY <1>8 DEF TypeOK, LayerKnown, PromoteStageRoot
  <2>5. stage' \in StageType
    BY <1>8, <1>t, <1>a, StageTyped DEF PromoteStageRoot, files
  <2>6. cache' \in [Keys -> Directory] /\ promotions' \in [Keys -> Nat]
    <3>1. stage[c][phase[c]] \in Directory
      BY DEF TypeOK
    <3>2. cache \in [Keys -> Directory] /\ promotions \in [Keys -> Nat]
      BY DEF TypeOK
    <3>3. /\ cache' \in {cache, [cache EXCEPT ![Key(c)] = stage[c][phase[c]]]}
          /\ promotions' \in {promotions, [promotions EXCEPT ![Key(c)] = @ + 1]}
      BY <1>8 DEF PromoteStageRoot, files
    <3> QED BY <2>1, <3>1, <3>2, <3>3
  <2>7. pc' \in [Callers -> Materializing \cup {pc[d] : d \in Callers}]
    BY <1>8 DEF TypeOK, PromoteStageRoot
  <2>8. UNCHANGED <<request, phase, selections, listing, left, inFlight, crashes, looked>>
    BY <1>8 DEF PromoteStageRoot
  <2> QED BY <2>3, <2>4, <2>5, <2>6, <2>7, <2>8 DEF TypeOK, StageType
<1>9. ASSUME NEW c \in Callers, Promoted(c) \/ Lose(c) \/ Abandon(c) PROVE TypeOK' /\ LayerKnown'
  <2>1. Key(c) \in Keys
    BY <1>9, CallKey DEF Promoted, Lose, Abandon
  <2>2. NewWaiters = {}
    BY <1>9 DEF TypeOK, Promoted, Lose, Abandon, Fail, Reject, Advance
  <2>3. whole' \in [Callers -> SUBSET Keys]
    BY <1>0, <1>9, <2>2 DEF Promoted, Lose, Abandon
  <2>4. stage' \in StageType
    BY <1>9, <1>t, <1>a, StageTyped DEF Promoted, Lose, Abandon, files
  <2>5. inFlight' \in FlightType
    BY <1>9, <1>t, <2>1, FlightTyped DEF Promoted, Lose, Abandon, Fail, Forget
  <2>6. UNCHANGED <<request, listing, left, cache, crashes, promotions, looked>>
    BY <1>9 DEF Promoted, Lose, Abandon, files
  <2>7. CASE Advance(Awaiting(c), {Key(c)})
    <3>1. LayerKnown'
      <4>1. \A d \in Callers : pc'[d] \in {"class", "resolved"} \/ UNCHANGED <<pc[d], phase[d]>>
        BY <2>7 DEF TypeOK, Advance
      <4> QED BY <2>6, <4>1 DEF LayerKnown
    <3>2. /\ pc' \in [Callers -> {"class", "resolved"} \cup {pc[d] : d \in Callers}]
          /\ selections' \in [Callers -> SUBSET Keys]
          /\ phase' \in [Callers -> Classes]
      BY <2>1, <2>7 DEF TypeOK, Advance, Classes
    <3> QED BY <2>3, <2>4, <2>5, <2>6, <3>1, <3>2 DEF TypeOK, StageType, FlightType
  <2>8. CASE Reject(Awaiting(c), "rejected")
    <3>1. LayerKnown'
      BY <2>6, <2>8 DEF TypeOK, LayerKnown, Reject
    <3>2. /\ pc' \in [Callers -> {"rejected"} \cup {pc[d] : d \in Callers}]
          /\ UNCHANGED <<selections, phase>>
      BY <2>8 DEF Reject
    <3> QED BY <2>3, <2>4, <2>5, <2>6, <3>1, <3>2 DEF TypeOK, StageType, FlightType
  <2> QED BY <1>9, <2>7, <2>8 DEF Promoted, Lose, Abandon, Fail
<1>10. ASSUME NEW p \in Procs, Crash(p) PROVE TypeOK' /\ LayerKnown'
  <2>1. NewWaiters = {}
    BY <1>10 DEF TypeOK, Crash
  <2>2. whole' \in [Callers -> SUBSET Keys]
    BY <1>0, <1>10, <2>1 DEF Crash
  <2>3. LayerKnown'
    BY <1>10 DEF TypeOK, LayerKnown, Crash
  <2>4. crashes' \in 0..MaxCrashes
    BY <1>10, LayerCrashes DEF TypeOK, Crash
  <2>5. inFlight' \in [Procs -> [Keys -> Callers \cup {None}]]
    BY <1>10 DEF TypeOK, Crash
  <2> QED BY <1>10, <2>2, <2>3, <2>4, <2>5 DEF TypeOK, Crash, files
<1>11. CASE UNCHANGED vars
  BY <1>11 DEF vars, code, files, history, TypeOK, LayerKnown
<1> QED
  BY <1>1, <1>2, <1>3, <1>4, <1>5, <1>6, <1>7, <1>8, <1>9, <1>10, <1>11 DEF Next, Step

LEMMA TypedHolds == Spec => []Typed
<1>1. Init => Typed
  <2> SUFFICES ASSUME Init PROVE TypeOK /\ LayerKnown
    BY DEF Typed
  <2>1. Absent \in Directory /\ cache \in [Keys -> Directory] /\ 0 \in 0..MaxCrashes
    BY LayerLeftovers, LayerCrashes DEF Init, Directory
  <2> QED BY <2>1 DEF Init, TypeOK, LayerKnown, Keyed, Materializing, Settled, Synchronous, Classes
<1>2. QED BY <1>1, TypedStep, PTL DEF Spec

\* In every reachable state the model's variables have their types: a call
\* that fetches counts down to one and never below (lines 748-826).
THEOREM LayerTypeCorrect == Spec => []TypeOK
BY TypedHolds, PTL DEF Typed
-------------------------------------------------------------------------------
(* One materialization of a key at a time in a process.                    *)

\* A step that moves no call into or out of a materialization.
LEMMA QuietKeepsEntries ==
    ASSUME EntriesLive, TypeOK, UNCHANGED inFlight,
           \A d \in Callers : /\ pc'[d] \in Materializing <=> pc[d] \in Materializing
                              /\ pc'[d] = "waiting" <=> pc[d] = "waiting"
                              /\ pc[d] \in Materializing \cup {"waiting"} => Key(d)' = Key(d)
    PROVE  EntriesLive'
BY DEF EntriesLive, TypeOK

\* The end of a materialization: all who await it leave, the others stay.
LEMMA SettlingKeepsEntries ==
    ASSUME Typed, EntriesLive, NEW c \in Callers, pc[c] \in Materializing, Forget(c),
           \A d \in Awaiting(c) : pc'[d] \notin Materializing \cup {"waiting"},
           \A d \in Callers \ Awaiting(c) : pc'[d] = pc[d] /\ Key(d)' = Key(d)
    PROVE  EntriesLive'
<1>1. /\ Key(c) \in Keys /\ Home[c] \in Procs
      /\ inFlight \in FlightType
      /\ \A d \in Callers : Home[d] \in Procs
      /\ \A d \in Callers : pc[d] \in Keyed => Key(d) \in Keys
  BY CallKey, LayerHomes DEF Typed, TypeOK, FlightType, Keyed
<1>2. \A p \in Procs, k \in Keys :
          inFlight'[p][k] = IF p = Home[c] /\ k = Key(c) THEN None ELSE inFlight[p][k]
  BY <1>1 DEF Forget, FlightType
<1>3. ASSUME NEW d \in Callers, pc'[d] \in Materializing PROVE inFlight'[Home[d]][Key(d)'] = d
  <2>1. d \notin Awaiting(c) /\ pc[d] \in Materializing /\ Key(d)' = Key(d) /\ d # c
    BY <1>3 DEF Awaiting
  <2>2. inFlight[Home[d]][Key(d)] = d /\ inFlight[Home[c]][Key(c)] = c
    BY <2>1 DEF EntriesLive
  <2> QED BY <1>1, <1>2, <2>1, <2>2 DEF Keyed
<1>4. ASSUME NEW d \in Callers, pc'[d] = "waiting" PROVE inFlight'[Home[d]][Key(d)'] # None
  <2>1. d \notin Awaiting(c) /\ pc[d] = "waiting" /\ Key(d)' = Key(d)
    BY <1>4
  <2>2. ~(Home[d] = Home[c] /\ Key(d) = Key(c))
    BY <2>1 DEF Awaiting
  <2>3. inFlight[Home[d]][Key(d)] # None
    BY <2>1 DEF EntriesLive
  <2> QED BY <1>1, <1>2, <2>1, <2>2, <2>3 DEF Keyed
<1>5. ASSUME NEW d \in Callers, NEW p \in Procs, NEW k \in Keys, inFlight'[p][k] = d
      PROVE  pc'[d] \in Materializing /\ Home[d] = p /\ Key(d)' = k
  <2>1. inFlight[p][k] = d /\ ~(p = Home[c] /\ k = Key(c))
    BY <1>2, <1>5, LayerNames
  <2>2. pc[d] \in Materializing /\ Home[d] = p /\ Key(d) = k
    BY <2>1 DEF EntriesLive
  <2>3. d \notin Awaiting(c)
    BY <2>1, <2>2 DEF Awaiting, Materializing
  <2> QED BY <2>2, <2>3
<1> QED BY <1>3, <1>4, <1>5 DEF EntriesLive

LEMMA EntriesStep == Typed /\ EntriesLive /\ [Next]_vars => EntriesLive'
<1> SUFFICES ASSUME Typed, EntriesLive, [Next]_vars PROVE EntriesLive'
  OBVIOUS
<1>t. TypeOK
  BY DEF Typed
<1> USE DEF Settled, Synchronous, Materializing
<1>1. ASSUME NEW c \in Callers, Call(c) PROVE EntriesLive'
  BY <1>1, <1>t, QuietKeepsEntries DEF Call, Key, TypeOK
<1>2. ASSUME NEW c \in Callers, Look(c) PROVE EntriesLive'
  BY <1>2, <1>t, QuietKeepsEntries DEF Look, Advance, Reject, Key, TypeOK
<1>3. ASSUME NEW c \in Callers, \/ CheckExists(c) \/ ListDirectory(c)
                               \/ RemovePath(c) \/ RemoveDirectory(c)
      PROVE  EntriesLive'
  BY <1>3, <1>t, QuietKeepsEntries
     DEF CheckExists, ListDirectory, RemovePath, RemoveDirectory, Key, TypeOK
<1>4. ASSUME NEW c \in Callers, Enter(c) PROVE EntriesLive'
  <2>1. Key(c) \in Keys /\ Home[c] \in Procs /\ inFlight \in FlightType
    BY <1>4, CallKey, LayerHomes DEF Enter, Typed, TypeOK, FlightType, Keyed
  <2>2. CASE inFlight[Home[c]][Key(c)] # None
    <3>1. pc' = [pc EXCEPT ![c] = "waiting"] /\ UNCHANGED <<phase, request, inFlight>>
      BY <1>4, <2>2 DEF Enter
    <3> QED BY <1>4, <1>t, <2>2, <3>1, SMTT(60) DEF EntriesLive, Key, TypeOK, Enter
  <2>3. CASE \/ Advance({c}, {Key(c)}) /\ UNCHANGED <<request, inFlight>>
             \/ Reject({c}, "rejected") /\ UNCHANGED <<request, inFlight>>
    BY <1>4, <1>t, <2>3, QuietKeepsEntries DEF Enter, Advance, Reject, Key, TypeOK
  <2>4. CASE /\ inFlight[Home[c]][Key(c)] = None
             /\ pc' = [pc EXCEPT ![c] = "fetching"]
             /\ inFlight' = [inFlight EXCEPT ![Home[c]][Key(c)] = c]
             /\ UNCHANGED <<phase, request>>
    <3>1. \A p \in Procs, k \in Keys :
              inFlight'[p][k] = IF p = Home[c] /\ k = Key(c) THEN c ELSE inFlight[p][k]
      BY <2>1, <2>4 DEF FlightType
    <3>2. \A d \in Callers : Key(d)' = Key(d) /\ (d # c => pc'[d] = pc[d])
      BY <1>t, <2>4 DEF Key, TypeOK
    <3>3. \A d \in Callers : Home[d] \in Procs /\ (pc[d] \in Keyed => Key(d) \in Keys)
      BY CallKey, LayerHomes DEF Typed
    <3>4. pc'[c] = "fetching" /\ pc[c] \notin Materializing
      BY <1>4, <1>t, <2>4 DEF Enter, TypeOK
    <3>5. \A d \in Callers : pc'[d] \in Materializing => inFlight'[Home[d]][Key(d)'] = d
      <4>1. inFlight'[Home[c]][Key(c)'] = c
        BY <2>1, <3>1, <3>2
      <4>2. ASSUME NEW d \in Callers, d # c, pc[d] \in Materializing
            PROVE  inFlight'[Home[d]][Key(d)'] = d
        <5>1. inFlight[Home[d]][Key(d)] = d
          BY <4>2 DEF EntriesLive
        <5>2. ~(Home[d] = Home[c] /\ Key(d) = Key(c))
          BY <2>4, <5>1, LayerNames
        <5> QED BY <3>1, <3>2, <3>3, <4>2, <5>1, <5>2 DEF Keyed
      <4> QED BY <3>2, <4>1, <4>2
    <3>6. \A d \in Callers : pc'[d] = "waiting" => inFlight'[Home[d]][Key(d)'] # None
      BY <3>1, <3>2, <3>3, <3>4, LayerNames DEF EntriesLive, Keyed
    <3>7. \A d \in Callers, p \in Procs, k \in Keys :
              inFlight'[p][k] = d => pc'[d] \in Materializing /\ Home[d] = p /\ Key(d)' = k
      BY <3>1, <3>2, <3>4 DEF EntriesLive
    <3> QED BY <3>5, <3>6, <3>7 DEF EntriesLive
  <2> QED BY <1>4, <2>2, <2>3, <2>4 DEF Enter
<1>5. ASSUME NEW c \in Callers, pc[c] \in Materializing, UNCHANGED request,
             \/ \E why \in Settled : Fail(c, why)
             \/ Forget(c) /\ Advance(Awaiting(c), {Key(c)})
      PROVE  EntriesLive'
  <2>1. Forget(c)
    BY <1>5 DEF Fail
  <2>2. \A d \in Awaiting(c) : d \in Callers /\ pc'[d] \in Settled \cup {"class"}
    BY <1>5 DEF Fail, Reject, Advance, Awaiting
  <2>3. \A d \in Callers \ Awaiting(c) : pc'[d] = pc[d] /\ Key(d)' = Key(d)
    BY <1>5, <1>t DEF Fail, Reject, Advance, Key, TypeOK
  <2> QED BY <1>5, <2>1, <2>2, <2>3, SettlingKeepsEntries
<1>6. ASSUME NEW c \in Callers, FetchArtifact(c) PROVE EntriesLive'
  <2>1. CASE Fail(c, "unfetched")
    BY <1>5, <1>6, <2>1 DEF FetchArtifact
  <2>2. CASE ~Fail(c, "unfetched")
    BY <1>6, <1>t, <2>2, QuietKeepsEntries DEF FetchArtifact, Key, TypeOK
  <2> QED BY <2>1, <2>2
<1>7. ASSUME NEW c \in Callers, PromoteStageRoot(c) PROVE EntriesLive'
  BY <1>7, <1>t, QuietKeepsEntries DEF PromoteStageRoot, Key, TypeOK
<1>8. ASSUME NEW c \in Callers, Promoted(c) \/ Lose(c) \/ Abandon(c) PROVE EntriesLive'
  <2>1. pc[c] \in Materializing /\ UNCHANGED request
    BY <1>8 DEF Promoted, Lose, Abandon
  <2>2. Fail(c, "rejected") \/ (Forget(c) /\ Advance(Awaiting(c), {Key(c)}))
    BY <1>8 DEF Promoted, Lose, Abandon
  <2> QED BY <1>5, <2>1, <2>2
<1>9. ASSUME NEW p \in Procs, Crash(p) PROVE EntriesLive'
  <2>1. \A d \in Callers :
            /\ Key(d)' = Key(d)
            /\ Home[d] = p => pc'[d] \in Settled \cup {"idle"}
            /\ Home[d] # p => pc'[d] = pc[d]
    BY <1>9, <1>t DEF Crash, Key, TypeOK
  <2>2. \A q \in Procs, k \in Keys : inFlight'[q][k] = IF q = p THEN None ELSE inFlight[q][k]
    BY <1>9, <1>t DEF Crash, TypeOK
  <2>3. \A d \in Callers : Home[d] \in Procs /\ (pc[d] \in Keyed => Key(d) \in Keys)
    BY CallKey, LayerHomes DEF Typed
  <2>4. \A d \in Callers : pc'[d] \in Materializing => inFlight'[Home[d]][Key(d)'] = d
    BY <2>1, <2>2, <2>3 DEF EntriesLive, Keyed
  <2>5. \A d \in Callers : pc'[d] = "waiting" => inFlight'[Home[d]][Key(d)'] # None
    BY <2>1, <2>2, <2>3 DEF EntriesLive, Keyed
  <2>6. \A d \in Callers, q \in Procs, k \in Keys :
            inFlight'[q][k] = d => pc'[d] \in Materializing /\ Home[d] = q /\ Key(d)' = k
    BY <2>1, <2>2, LayerNames DEF EntriesLive
  <2> QED BY <2>4, <2>5, <2>6 DEF EntriesLive
<1>10. CASE UNCHANGED vars
  BY <1>10 DEF vars, code, EntriesLive, Key
<1> QED
  BY <1>1, <1>2, <1>3, <1>4, <1>6, <1>7, <1>8, <1>9, <1>10 DEF Next, Step

LEMMA EntriesHold == Spec => []EntriesLive
<1>1. Init => EntriesLive
  BY LayerHomes, LayerNames DEF Init, EntriesLive, Materializing
<1> QED BY <1>1, TypedHolds, EntriesStep, PTL DEF Spec

\* A process materializes a key once at a time, and a call that waits does so
\* for one that materializes (lines 742-745, 868-869): for any calls,
\* processes, leftovers and crashes.
THEOREM OneMaterializationHolds == Spec => []OneMaterialization
<1>1. Typed /\ EntriesLive => OneMaterialization
  <2> SUFFICES ASSUME Typed, EntriesLive PROVE OneMaterialization
    OBVIOUS
  <2>1. ASSUME NEW c \in Callers, pc[c] = "waiting"
        PROVE  \E d \in Callers : /\ inFlight[Home[c]][Key(c)] = d
                                  /\ pc[d] \in Materializing /\ Home[d] = Home[c] /\ Key(d) = Key(c)
    <3>1. Key(c) \in Keys /\ Home[c] \in Procs
      BY <2>1, CallKey, LayerHomes DEF Typed, Keyed
    <3>2. inFlight[Home[c]][Key(c)] \in Callers
      BY <2>1, <3>1 DEF Typed, TypeOK, EntriesLive
    <3> QED BY <3>1, <3>2 DEF EntriesLive
  <2> QED BY <2>1 DEF OneMaterialization, EntriesLive
<1> QED BY <1>1, TypedHolds, EntriesHold, PTL
-------------------------------------------------------------------------------
(* Stage directories.                                                      *)

LEMMA StagesStep == Typed /\ StagesOwned /\ [Next]_vars => StagesOwned'
<1> SUFFICES ASSUME Typed, StagesOwned, [Next]_vars PROVE StagesOwned'
  OBVIOUS
<1>t. TypeOK
  BY DEF Typed
<1> USE DEF Staged
<1>1. ASSUME NEW c \in Callers, UNCHANGED stage, pc[c] \notin Staged \cup {"dead", "unfetched"},
             \A d \in Callers \ {c} : UNCHANGED <<pc[d], phase[d]>>
      PROVE  StagesOwned'
  BY <1>1 DEF StagesOwned
<1>2. ASSUME NEW c \in Callers, \/ Call(c) \/ Look(c) \/ CheckExists(c) \/ ListDirectory(c)
                               \/ RemovePath(c) \/ RemoveDirectory(c)
      PROVE  StagesOwned'
  <2>1. UNCHANGED stage /\ pc[c] \in {"idle", "class", "missed", "doomed", "removing"}
    BY <1>2 DEF Call, Look, CheckExists, ListDirectory, RemovePath, RemoveDirectory, files
  <2>2. \A d \in Callers \ {c} : UNCHANGED <<pc[d], phase[d]>>
    BY <1>2, <1>t DEF Call, Look, Advance, Reject, CheckExists, ListDirectory, RemovePath,
                      RemoveDirectory, TypeOK
  <2> QED BY <1>1, <2>1, <2>2
<1>3. ASSUME NEW c \in Callers, Enter(c) PROVE StagesOwned'
  <2>1. /\ pc[c] \in {"clear", "removed"}
        /\ \A d \in Callers \ {c} : UNCHANGED <<pc[d], phase[d]>>
    BY <1>3, <1>t DEF Enter, Advance, Reject, TypeOK
  <2>2. CASE UNCHANGED stage
    BY <1>1, <2>1, <2>2
  <2>3. CASE stage' = [stage EXCEPT ![c][phase[c]] = {"downloads", "sources"}]
             /\ pc' = [pc EXCEPT ![c] = "fetching"] /\ UNCHANGED phase
    <3>1. \A d \in Callers, k \in Classes : stage'[d][k] # stage[d][k] => d = c /\ k = phase[c]
      BY <1>t, <2>3 DEF TypeOK
    <3>2. pc'[c] = "fetching"
      BY <1>t, <2>3 DEF TypeOK
    <3> QED BY <2>1, <2>3, <3>1, <3>2 DEF StagesOwned
  <2> QED BY <1>3, <2>2, <2>3 DEF Enter
<1>4. ASSUME NEW c \in Callers, pc[c] \in Staged \cup {"promoted"},
             \A k \in Classes : \/ stage'[c][k] = Absent
                                \/ stage'[c][k] = stage[c][k] /\ (pc[c] # "promoted" => k # phase[c])
                                \/ stage'[c][k] = stage[c][k] /\ pc'[c] = "unfetched",
             \A d \in Callers \ {c} : stage'[d] = stage[d],
             \A d \in Callers \ {c} : pc[d] = "waiting" \/ UNCHANGED <<pc[d], phase[d]>>
      PROVE  StagesOwned'
  BY <1>4 DEF StagesOwned
<1>5. ASSUME NEW c \in Callers, NEW why, Reject(Awaiting(c), why) \/ Advance(Awaiting(c), {Key(c)})
      PROVE  \A d \in Callers \ {c} : pc[d] = "waiting" \/ UNCHANGED <<pc[d], phase[d]>>
  BY <1>5, <1>t DEF Reject, Advance, Awaiting, TypeOK
<1>6. ASSUME NEW c \in Callers, FetchArtifact(c) PROVE StagesOwned'
  <2>1. CASE Fail(c, "unfetched") /\ UNCHANGED stage
    <3>1. pc'[c] = "unfetched"
      BY <1>t, <2>1 DEF Fail, Reject, Awaiting, TypeOK
    <3> QED BY <1>4, <1>5, <1>6, <2>1, <3>1 DEF Fail, FetchArtifact
  <2>2. CASE /\ IF left[c] = 1
                THEN /\ pc' = [pc EXCEPT ![c] = "promoting"]
                     /\ stage' = [stage EXCEPT ![c][phase[c]] = Layer]
                ELSE UNCHANGED <<pc, stage>>
             /\ UNCHANGED phase
    BY <1>6, <1>t, <2>2 DEF StagesOwned, FetchArtifact, TypeOK
  <2> QED BY <1>6, <2>1, <2>2 DEF FetchArtifact
<1>7. ASSUME NEW c \in Callers, PromoteStageRoot(c) PROVE StagesOwned'
  <2>1. CASE stage' = [stage EXCEPT ![c][phase[c]] = Absent]
    BY <1>7, <1>t, <2>1 DEF StagesOwned, PromoteStageRoot, TypeOK
  <2>2. CASE UNCHANGED stage /\ pc' \in {[pc EXCEPT ![c] = "exists"], [pc EXCEPT ![c] = "failed"]}
    BY <1>7, <1>t, <2>2, ZenonT(60) DEF StagesOwned, PromoteStageRoot, TypeOK
  <2> QED BY <1>7, <2>1, <2>2 DEF PromoteStageRoot, files
<1>8. ASSUME NEW c \in Callers, Promoted(c) PROVE StagesOwned'
  <2>1. \A k \in Classes : stage'[c][k] = stage[c][k]
    BY <1>8 DEF Promoted, files
  <2> QED BY <1>4, <1>5, <1>8, <2>1 DEF Promoted, files
<1>9. ASSUME NEW c \in Callers, Lose(c) \/ Abandon(c) PROVE StagesOwned'
  <2>1. pc[c] \in {"exists", "failed"} /\ stage' = [stage EXCEPT ![c][phase[c]] = Absent]
    BY <1>9 DEF Lose, Abandon
  <2>2. \A k \in Classes : stage'[c][k] = IF k = phase[c] THEN Absent ELSE stage[c][k]
    BY <1>t, <2>1 DEF TypeOK
  <2>3. \A d \in Callers \ {c} : stage'[d] = stage[d]
    BY <1>t, <2>1 DEF TypeOK
  <2>4. \A d \in Callers \ {c} : pc[d] = "waiting" \/ UNCHANGED <<pc[d], phase[d]>>
    BY <1>5, <1>9 DEF Lose, Abandon, Fail
  <2> QED BY <1>4, <2>1, <2>2, <2>3, <2>4
<1>10. ASSUME NEW p \in Procs, Crash(p) PROVE StagesOwned'
  BY <1>10, <1>t DEF StagesOwned, Crash, TypeOK, Settled, files
<1>11. CASE UNCHANGED vars
  BY <1>11 DEF vars, code, files, StagesOwned
<1> QED
  BY <1>2, <1>3, <1>6, <1>7, <1>8, <1>9, <1>10, <1>11 DEF Next, Step

LEMMA StagesHold == Spec => []StagesOwned
<1>1. Init => StagesOwned
  BY DEF Init, StagesOwned
<1> QED BY <1>1, TypedHolds, StagesStep, PTL DEF Spec

\* A call that resolved or was rejected leaves no stage directory behind,
\* whichever way its materializations went (lines 829-857).
THEOREM NoStageLeftHolds == Spec => []NoStageLeft
<1>1. StagesOwned => NoStageLeft
  BY DEF StagesOwned, NoStageLeft, Staged
<1> QED BY <1>1, StagesHold, PTL
-------------------------------------------------------------------------------
(* What a call is given was whole.                                         *)

Open(c) == pc[c] \notin Settled \cup {"idle"}

\* What Note records: nothing is forgotten, an open call sees what is whole
\* after the step, and one that joins takes over what the other has seen.
LEMMA Noted ==
    ASSUME NEW cs, Note(cs), whole \in [Callers -> SUBSET Keys]
    PROVE  \A c \in Callers :
               /\ whole[c] \subseteq whole'[c]
               /\ Open(c) => \A k \in Keys : cache'[k] = Layer => k \in whole'[c]
               /\ Open(c) /\ pc[c] # "waiting" /\ pc'[c] = "waiting" =>
                      whole[inFlight[Home[c]][Key(c)]] \subseteq whole'[c]
BY DEF Note, Open

\* A call that is neither promoted nor joined in this step has what it had.
LEMMA PromotedKept ==
    ASSUME Typed, EntriesLive, PromotionSeen, NEW cs, Note(cs),
           NEW c \in Callers, pc[c] = "promoted", Key(c)' = Key(c),
           \A d \in Callers : pc'[d] = "waiting" =>
               pc[d] \in {"waiting", "clear", "removed"} /\ Key(d)' = Key(d)
    PROVE  \A d \in Awaiting(c)' : Key(c)' \in whole'[d]
<1> SUFFICES ASSUME NEW d \in Callers,
                    d = c \/ (pc'[d] = "waiting" /\ Home[d] = Home[c] /\ Key(d)' = Key(c)')
             PROVE  Key(c) \in whole'[d]
  BY DEF Awaiting
<1>w. whole \in [Callers -> SUBSET Keys]
  BY DEF Typed, TypeOK
<1>1. Key(c) \in whole[c] /\ inFlight[Home[c]][Key(c)] = c
  BY DEF PromotionSeen, Awaiting, EntriesLive, Materializing
<1>2. CASE d = c \/ pc[d] = "waiting"
  <2>1. d \in Awaiting(c)
    BY <1>2 DEF Awaiting
  <2> QED BY <1>w, <2>1, Noted DEF PromotionSeen
<1>3. CASE d # c /\ pc[d] # "waiting"
  <2>1. Open(d) /\ pc'[d] = "waiting" /\ Home[d] = Home[c] /\ Key(d) = Key(c)
    BY <1>3 DEF Open, Settled
  <2>2. whole[inFlight[Home[d]][Key(d)]] \subseteq whole'[d]
    BY <1>3, <1>w, <2>1, Noted
  <2> QED BY <1>1, <2>1, <2>2
<1> QED BY <1>2, <1>3

\* How far a step may move the calls that promote, wait or were promoted.
Steady ==
    \A d \in Callers :
        /\ pc'[d] = "waiting" => pc[d] \in {"waiting", "clear", "removed"} /\ Key(d)' = Key(d)
        /\ pc'[d] = "promoting" => pc[d] = "promoting" /\ phase'[d] = phase[d] /\ stage'[d] = stage[d]
        /\ pc'[d] = "promoted" => pc[d] = "promoted" /\ Key(d)' = Key(d)

LEMMA SteadyKeepsPromotion ==
    ASSUME Typed, EntriesLive, PromotionSeen, NEW cs, Note(cs), Steady
    PROVE  PromotionSeen'
<1>1. ASSUME NEW c \in Callers, pc'[c] = "promoting" PROVE stage'[c][phase'[c]] = Layer
  BY <1>1 DEF Steady, PromotionSeen
<1>2. ASSUME NEW c \in Callers, pc'[c] = "promoted" PROVE \A d \in Awaiting(c)' : Key(c)' \in whole'[d]
  <2>1. pc[c] = "promoted" /\ Key(c)' = Key(c)
    BY <1>2 DEF Steady
  <2>2. \A d \in Callers : pc'[d] = "waiting" =>
            pc[d] \in {"waiting", "clear", "removed"} /\ Key(d)' = Key(d)
    BY DEF Steady
  <2> QED BY <2>1, <2>2, PromotedKept
<1> QED BY <1>1, <1>2 DEF PromotionSeen

LEMMA PromotionStep == Typed /\ EntriesLive /\ PromotionSeen /\ [Next]_vars => PromotionSeen'
<1> SUFFICES ASSUME Typed, EntriesLive, PromotionSeen, [Next]_vars PROVE PromotionSeen'
  OBVIOUS
<1>t. TypeOK
  BY DEF Typed
<1>1. ASSUME NEW c \in Callers, Call(c) \/ Look(c) PROVE PromotionSeen'
  <2>1. Steady
    BY <1>1, <1>t DEF Steady, Call, Look, Advance, Reject, Key, TypeOK, files
  <2> QED BY <1>1, <2>1, SteadyKeepsPromotion DEF Call, Look
<1>2. ASSUME NEW c \in Callers, \/ CheckExists(c) \/ ListDirectory(c)
                               \/ RemovePath(c) \/ RemoveDirectory(c)
      PROVE  PromotionSeen'
  <2>1. Steady
    BY <1>2, <1>t DEF Steady, CheckExists, ListDirectory, RemovePath, RemoveDirectory,
                      Key, TypeOK, files
  <2> QED BY <1>2, <2>1, SteadyKeepsPromotion DEF CheckExists, ListDirectory, RemovePath, RemoveDirectory
<1>3. ASSUME NEW c \in Callers, Enter(c) PROVE PromotionSeen'
  <2>1. \A d \in Callers \ {c} : stage'[d] = stage[d]
    BY <1>3, <1>t DEF Enter, TypeOK
  <2>2. Steady
    BY <1>3, <1>t, <2>1 DEF Steady, Enter, Advance, Reject, Key, TypeOK
  <2> QED BY <1>3, <2>2, SteadyKeepsPromotion DEF Enter
<1>4. ASSUME NEW c \in Callers, NEW why \in Settled, UNCHANGED request,
             pc[c] \in Staged \cup {"promoted"},
             \A d \in Callers \ {c} : stage'[d] = stage[d],
             Reject(Awaiting(c), why) \/ Advance(Awaiting(c), {Key(c)})
      PROVE  Steady
  BY <1>4, <1>t DEF Steady, Reject, Advance, Awaiting, Key, TypeOK, Settled, Staged
<1>5. ASSUME NEW c \in Callers, FetchArtifact(c) PROVE PromotionSeen'
  <2>1. CASE Fail(c, "unfetched") /\ UNCHANGED stage
    <3>1. Steady
      BY <1>4, <1>5, <2>1 DEF Fail, FetchArtifact, Settled, Staged
    <3> QED BY <1>5, <3>1, SteadyKeepsPromotion DEF FetchArtifact
  <2>2. CASE UNCHANGED <<pc, stage, phase>>
    <3>1. Steady
      BY <1>5, <2>2 DEF Steady, Key, FetchArtifact
    <3> QED BY <1>5, <3>1, SteadyKeepsPromotion DEF FetchArtifact
  <2>3. CASE /\ pc' = [pc EXCEPT ![c] = "promoting"]
             /\ stage' = [stage EXCEPT ![c][phase[c]] = Layer]
             /\ UNCHANGED phase
    <3>1. stage'[c][phase'[c]] = Layer /\ \A d \in Callers \ {c} : stage'[d] = stage[d]
      BY <1>t, <2>3 DEF TypeOK
    <3>2. \A d \in Callers : Key(d)' = Key(d) /\ (d # c => pc'[d] = pc[d])
      BY <1>5, <1>t, <2>3 DEF FetchArtifact, Key, TypeOK
    <3>3. pc'[c] = "promoting"
      BY <1>t, <2>3 DEF TypeOK
    <3>4. ASSUME NEW d \in Callers, pc'[d] = "promoted"
          PROVE  \A e \in Awaiting(d)' : Key(d)' \in whole'[e]
      <4>1. pc[d] = "promoted"
        BY <3>2, <3>3, <3>4
      <4> QED BY <1>5, <3>2, <3>3, <4>1, PromotedKept DEF FetchArtifact
    <3> QED BY <2>3, <3>1, <3>2, <3>4 DEF PromotionSeen
  <2> QED BY <1>5, <2>1, <2>2, <2>3 DEF FetchArtifact
<1>6. ASSUME NEW c \in Callers, PromoteStageRoot(c) PROVE PromotionSeen'
  <2>1. \A d \in Callers : /\ Key(d)' = Key(d) /\ phase'[d] = phase[d]
                           /\ d # c => pc'[d] = pc[d] /\ stage'[d] = stage[d]
    BY <1>6, <1>t DEF PromoteStageRoot, Key, TypeOK, files
  <2>2. pc'[c] \in {"promoted", "exists", "failed"}
    BY <1>6, <1>t DEF PromoteStageRoot, TypeOK
  <2>3. CASE pc'[c] # "promoted"
    <3>1. Steady
      BY <2>1, <2>2, <2>3 DEF Steady
    <3> QED BY <1>6, <3>1, SteadyKeepsPromotion DEF PromoteStageRoot
  <2>4. CASE pc'[c] = "promoted"
    <3>1. Key(c) \in Keys /\ stage[c][phase[c]] = Layer
      BY <1>6, CallKey DEF PromoteStageRoot, Typed, Keyed, Materializing, PromotionSeen
    <3>2. cache'[Key(c)] = Layer
      BY <1>6, <1>t, <2>4, <3>1 DEF PromoteStageRoot, TypeOK
    <3>3. ASSUME NEW d \in Callers, pc'[d] = "promoted", NEW e \in Awaiting(d)'
          PROVE  Key(d)' \in whole'[e]
      <4>1. CASE d = c
        <5>1. e \in Callers /\ Open(e)
          BY <1>6, <2>1, <4>1 DEF Awaiting, Open, Settled, PromoteStageRoot
        <5> QED BY <1>6, <1>t, <2>1, <3>1, <3>2, <4>1, <5>1, Noted DEF PromoteStageRoot, TypeOK
      <4>2. CASE d # c
        <5>1. pc[d] = "promoted"
          BY <2>1, <3>3, <4>2
        <5> QED BY <1>6, <2>1, <2>4, <3>3, <5>1, PromotedKept DEF PromoteStageRoot
      <4> QED BY <4>1, <4>2
    <3>4. \A d \in Callers : pc'[d] = "promoting" => stage'[d][phase'[d]] = Layer
      BY <2>1, <2>4 DEF PromotionSeen
    <3> QED BY <3>3, <3>4 DEF PromotionSeen
  <2> QED BY <2>3, <2>4
<1>7. ASSUME NEW c \in Callers, Promoted(c) \/ Lose(c) \/ Abandon(c) PROVE PromotionSeen'
  <2>1. \A d \in Callers \ {c} : stage'[d] = stage[d]
    BY <1>7, <1>t DEF Promoted, Lose, Abandon, TypeOK, files
  <2>2. Steady
    BY <1>4, <1>7, <2>1 DEF Promoted, Lose, Abandon, Fail, Settled, Staged
  <2> QED BY <1>7, <2>2, SteadyKeepsPromotion DEF Promoted, Lose, Abandon
<1>8. ASSUME NEW p \in Procs, Crash(p) PROVE PromotionSeen'
  <2>1. Steady
    BY <1>8, <1>t DEF Steady, Crash, Key, TypeOK, files
  <2> QED BY <1>8, <2>1, SteadyKeepsPromotion DEF Crash
<1>9. CASE UNCHANGED vars
  BY <1>9 DEF vars, code, files, history, PromotionSeen, Awaiting, Key
<1> QED
  BY <1>1, <1>2, <1>3, <1>5, <1>6, <1>7, <1>8, <1>9 DEF Next, Step

LEMMA PromotionHolds == Spec => []PromotionSeen
<1>1. Init => PromotionSeen
  BY DEF Init, PromotionSeen
<1> QED BY <1>1, TypedHolds, EntriesHold, PromotionStep, PTL DEF Spec

\* Giving a layer to calls that have seen it whole, or giving none, keeps
\* SelectedWasWhole.
LEMMA GivenSeen ==
    ASSUME Typed, SelectedWasWhole, NEW cs, Note(cs), NEW given, NEW keys,
           UNCHANGED selections \/ (Advance(given, keys) /\ \A d \in given : keys \subseteq whole'[d])
    PROVE  SelectedWasWhole'
<1>1. \A d \in Callers : whole[d] \subseteq whole'[d]
  BY Noted DEF Typed, TypeOK
<1>2. \A d \in Callers : selections'[d] \subseteq selections[d] \cup (IF d \in given THEN keys ELSE {})
  BY DEF Advance, Typed, TypeOK
<1>3. \A d \in Callers : selections'[d] = selections[d] \/ (d \in given /\ keys \subseteq whole'[d])
  BY DEF Advance, Typed, TypeOK
<1> QED BY <1>1, <1>2, <1>3 DEF SelectedWasWhole

LEMMA SelectedStep == Typed /\ PromotionSeen /\ SelectedWasWhole /\ [Next]_vars => SelectedWasWhole'
<1> SUFFICES ASSUME Typed, PromotionSeen, SelectedWasWhole, [Next]_vars PROVE SelectedWasWhole'
  OBVIOUS
<1>t. TypeOK /\ whole \in [Callers -> SUBSET Keys]
  BY DEF Typed, TypeOK
<1>1. ASSUME NEW cs, Note(cs), UNCHANGED selections PROVE SelectedWasWhole'
  BY <1>1, GivenSeen
<1>2. ASSUME NEW c \in Callers, \/ Call(c) \/ CheckExists(c) \/ ListDirectory(c) \/ RemovePath(c)
                               \/ RemoveDirectory(c) \/ FetchArtifact(c) \/ PromoteStageRoot(c)
                               \/ Abandon(c)
      PROVE  SelectedWasWhole'
  BY <1>1, <1>2 DEF Call, CheckExists, ListDirectory, RemovePath, RemoveDirectory, FetchArtifact,
                    PromoteStageRoot, Abandon, Fail, Reject
\* A layer that verifies, of calls that are open, is in what they have seen.
<1>3. ASSUME NEW c \in Callers, VerifyManifest(cache[Key(c)]), UNCHANGED cache, Key(c) \in Keys, Note({}),
             NEW d \in Callers, Open(d)
      PROVE  Key(c) \in whole'[d]
  BY <1>3, <1>t, Noted DEF VerifyManifest
<1>4. ASSUME NEW c \in Callers, Look(c) PROVE SelectedWasWhole'
  <2>1. Open(c) /\ UNCHANGED cache /\ Note({})
    BY <1>4 DEF Look, Open, Settled, files
  <2>2. CASE UNCHANGED selections
    BY <1>1, <2>1, <2>2
  <2>3. CASE Advance({c}, {})
    BY <2>1, <2>3, GivenSeen
  <2>4. CASE request[c] \in Layered[phase[c]] /\ VerifyManifest(cache[Key(c)]) /\ Advance({c}, {Key(c)})
    <3>1. Key(c) \in Keys
      BY <1>t, <2>4, KeyTyped DEF TypeOK, Key
    <3>2. Key(c) \in whole'[c]
      BY <1>3, <2>1, <2>4, <3>1
    <3> QED BY <2>1, <2>4, <3>2, GivenSeen
  <2> QED BY <1>4, <2>2, <2>3, <2>4 DEF Look, Reject
<1>5. ASSUME NEW c \in Callers, Enter(c) PROVE SelectedWasWhole'
  <2>1. Open(c) /\ UNCHANGED cache /\ Note({})
    BY <1>5 DEF Enter, Open, Settled
  <2>2. CASE UNCHANGED selections
    BY <1>1, <2>1, <2>2
  <2>3. CASE VerifyManifest(cache[Key(c)]) /\ Advance({c}, {Key(c)})
    <3>1. Key(c) \in Keys
      BY <1>5, CallKey DEF Enter, Typed, Keyed
    <3>2. Key(c) \in whole'[c]
      BY <1>3, <2>1, <2>3, <3>1
    <3> QED BY <2>1, <2>3, <3>2, GivenSeen
  <2> QED BY <1>5, <2>2, <2>3 DEF Enter, Reject
<1>6. ASSUME NEW c \in Callers, Promoted(c) PROVE SelectedWasWhole'
  <2>1. \A d \in Awaiting(c) : Key(c) \in whole'[d]
    <3>1. \A d \in Awaiting(c) : d \in Callers /\ Key(c) \in whole[d]
      BY <1>6 DEF Promoted, PromotionSeen, Awaiting
    <3> QED BY <1>6, <1>t, <3>1, Noted DEF Promoted
  <2> QED BY <1>6, <2>1, GivenSeen DEF Promoted
<1>7. ASSUME NEW c \in Callers, Lose(c) PROVE SelectedWasWhole'
  <2>1. UNCHANGED cache /\ Note({}) /\ Key(c) \in Keys
    BY <1>7, CallKey DEF Lose, Typed, Keyed, Materializing
  <2>2. CASE UNCHANGED selections
    BY <1>1, <2>1, <2>2
  <2>3. CASE VerifyManifest(cache[Key(c)]) /\ Advance(Awaiting(c), {Key(c)})
    <3>1. \A d \in Awaiting(c) : d \in Callers /\ Open(d)
      BY <1>7 DEF Lose, Awaiting, Open, Settled
    <3>2. \A d \in Awaiting(c) : Key(c) \in whole'[d]
      BY <1>3, <2>1, <2>3, <3>1
    <3> QED BY <2>1, <2>3, <3>2, GivenSeen
  <2> QED BY <1>7, <2>2, <2>3 DEF Lose, Fail, Reject
<1>8. ASSUME NEW p \in Procs, Crash(p) PROVE SelectedWasWhole'
  BY <1>8, GivenSeen DEF Crash
<1>9. CASE UNCHANGED vars
  BY <1>9 DEF vars, code, history, SelectedWasWhole
<1> QED
  BY <1>2, <1>4, <1>5, <1>6, <1>7, <1>8, <1>9 DEF Next, Step

\* Every layer a call is given was whole during the call or during the one
\* it joined (lines 728-745, 829-850), for any calls, processes, leftovers
\* and crashes: no interleaving of removals and promotions hands out a layer
\* that nobody verified or promoted.
THEOREM SelectedWasWholeHolds == Spec => []SelectedWasWhole
<1>1. Init => SelectedWasWhole
  BY DEF Init, SelectedWasWhole
<1> QED BY <1>1, TypedHolds, PromotionHolds, SelectedStep, PTL DEF Spec
-------------------------------------------------------------------------------
(* What destroys a layer.                                                  *)

Removing == {"missed", "doomed", "removing"}

\* How far a step may move the calls that remove, and what they removed from.
Calm ==
    /\ \A d \in Callers : pc'[d] \in Removing =>
           pc[d] \in Removing /\ Key(d)' = Key(d) /\ looked'[d] = looked[d]
    /\ \A k \in Keys : \/ promotions'[k] > promotions[k]
                       \/ promotions'[k] = promotions[k] /\ (cache'[k] = Layer => cache[k] = Layer)

LEMMA CalmKeepsLooks ==
    ASSUME Typed, LooksStale, Typed', Calm
    PROVE  LooksStale'
<1> SUFFICES ASSUME NEW c \in Callers, pc'[c] \in Removing
             PROVE  /\ looked'[c] <= promotions'[Key(c)']
                    /\ cache'[Key(c)'] = Layer => looked'[c] < promotions'[Key(c)']
  BY DEF LooksStale, Removing
<1>1. pc[c] \in Removing /\ Key(c)' = Key(c) /\ looked'[c] = looked[c]
  BY DEF Calm
<1>2. Key(c) \in Keys
  BY <1>1, CallKey DEF Typed, Keyed, Removing
<1>3. looked[c] \in Nat /\ promotions[Key(c)] \in Nat /\ promotions'[Key(c)] \in Nat
  BY <1>2 DEF Typed, TypeOK
<1>4. looked[c] <= promotions[Key(c)] /\ (cache[Key(c)] = Layer => looked[c] < promotions[Key(c)])
  BY <1>1 DEF LooksStale, Removing
<1> QED BY <1>1, <1>2, <1>3, <1>4 DEF Calm

LEMMA LooksStep == Typed /\ LooksStale /\ [Next]_vars => LooksStale'
<1> SUFFICES ASSUME Typed, LooksStale, [Next]_vars PROVE LooksStale'
  OBVIOUS
<1>t. TypeOK /\ Typed'
  BY TypedStep DEF Typed
<1>m. ASSUME UNCHANGED <<cache, promotions>>,
             \A d \in Callers : pc'[d] \in Removing =>
                 pc[d] \in Removing /\ Key(d)' = Key(d) /\ looked'[d] = looked[d]
      PROVE  LooksStale'
  BY <1>t, <1>m, CalmKeepsLooks DEF Calm
<1>1. ASSUME NEW c \in Callers, Call(c) PROVE LooksStale'
  <2>1. \A d \in Callers : pc'[d] \in Removing =>
            pc[d] \in Removing /\ Key(d)' = Key(d) /\ looked'[d] = looked[d]
    BY <1>1, <1>t DEF Call, TypeOK, Key, Removing
  <2> QED BY <1>1, <1>m, <2>1 DEF Call, files
<1>2. ASSUME NEW c \in Callers, Look(c) PROVE LooksStale'
  <2>1. UNCHANGED <<request, cache, promotions>>
    BY <1>2 DEF Look, files
  <2>2. CASE UNCHANGED looked /\ pc'[c] \notin Removing
    <3>1. \A d \in Callers : pc'[d] \in Removing => pc[d] \in Removing /\ Key(d)' = Key(d)
      BY <1>2, <1>t, <2>1, <2>2 DEF Look, Advance, Reject, TypeOK, Key, Removing
    <3> QED BY <1>m, <2>1, <2>2, <3>1
  <2>3. CASE /\ request[c] \in Layered[phase[c]]
             /\ ~VerifyManifest(cache[Key(c)])
             /\ pc' = [pc EXCEPT ![c] = "missed"]
             /\ looked' = [looked EXCEPT ![c] = promotions[Key(c)]]
             /\ UNCHANGED <<selections, phase>>
    <3>1. Key(c) \in Keys /\ promotions[Key(c)] \in Nat
      BY <1>t, <2>3, KeyTyped DEF TypeOK, Key
    <3>2. \A d \in Callers : Key(d)' = Key(d)
      BY <2>1, <2>3 DEF Key
    <3>3. looked'[c] = promotions[Key(c)] /\ cache[Key(c)] # Layer
      BY <1>t, <2>3 DEF TypeOK, VerifyManifest
    <3>4. \A d \in Callers \ {c} : looked'[d] = looked[d] /\ pc'[d] = pc[d]
      BY <1>t, <2>3 DEF TypeOK
    <3> QED BY <2>1, <3>1, <3>2, <3>3, <3>4 DEF LooksStale
  <2>4. ASSUME Advance({c}, {}) \/ Advance({c}, {Key(c)}) \/ Reject({c}, "rejected")
        PROVE  pc'[c] \notin Removing
    BY <2>4 DEF Advance, Reject, Removing
  <2> QED BY <1>2, <2>2, <2>3, <2>4 DEF Look
<1>3. ASSUME NEW c \in Callers, CheckExists(c) \/ ListDirectory(c) PROVE LooksStale'
  <2>1. \A d \in Callers : pc'[d] \in Removing =>
            pc[d] \in Removing /\ Key(d)' = Key(d) /\ looked'[d] = looked[d]
    BY <1>3, <1>t DEF CheckExists, ListDirectory, TypeOK, Key, Removing
  <2> QED BY <1>3, <1>m, <2>1 DEF CheckExists, ListDirectory, files
<1>4. ASSUME NEW c \in Callers, RemovePath(c) PROVE LooksStale'
  <2>1. Key(c) \in Keys
    BY <1>4, CallKey DEF RemovePath, Typed, Keyed
  <2> PICK path \in listing[c] : cache' = [cache EXCEPT ![Key(c)] = {p \in @ : PathOf(p) # path}]
    BY <1>4 DEF RemovePath
  <2>2. path \in Paths /\ cache[Key(c)] \in Directory
    BY <1>t, <2>1 DEF TypeOK
  <2>3. cache'[Key(c)] # Layer /\ \A k \in Keys \ {Key(c)} : cache'[k] = cache[k]
    BY <1>t, <2>1, <2>2, RemovalTyped DEF TypeOK
  <2>4. UNCHANGED <<pc, request, phase, promotions, looked>>
    BY <1>4 DEF RemovePath
  <2>5. Calm
    BY <2>3, <2>4 DEF Calm, Key
  <2> QED BY <1>t, <2>5, CalmKeepsLooks
<1>5. ASSUME NEW c \in Callers, RemoveDirectory(c) PROVE LooksStale'
  <2>1. Absent # Layer
    BY DEF Absent, Layer
  <2>2. UNCHANGED <<request, phase, promotions, looked>>
    BY <1>5 DEF RemoveDirectory
  <2>3. \A d \in Callers : pc'[d] \in Removing => pc[d] \in Removing
    BY <1>5, <1>t DEF RemoveDirectory, TypeOK, Removing
  <2>4. \A k \in Keys : cache'[k] = Layer => cache[k] = Layer
    BY <1>5, <1>t, <2>1 DEF RemoveDirectory, TypeOK
  <2>5. Calm
    BY <2>2, <2>3, <2>4 DEF Calm, Key
  <2> QED BY <1>t, <2>5, CalmKeepsLooks
<1>6. ASSUME NEW c \in Callers, Enter(c) \/ FetchArtifact(c) PROVE LooksStale'
  <2>1. \A d \in Callers : pc'[d] \in Removing =>
            pc[d] \in Removing /\ Key(d)' = Key(d) /\ looked'[d] = looked[d]
    BY <1>6, <1>t, ZenonT(60) DEF Enter, FetchArtifact, Advance, Fail, Reject, TypeOK, Key, Removing
  <2> QED BY <1>6, <1>m, <2>1 DEF Enter, FetchArtifact
<1>7. ASSUME NEW c \in Callers, PromoteStageRoot(c) PROVE LooksStale'
  <2>1. UNCHANGED <<request, phase, looked>> /\ Key(c) \in Keys
    BY <1>7, CallKey DEF PromoteStageRoot, Typed, Keyed, Materializing
  <2>2. \A d \in Callers : pc'[d] \in Removing => pc[d] \in Removing
    BY <1>7, <1>t DEF PromoteStageRoot, TypeOK, Removing
  <2>3. \A k \in Keys : \/ promotions'[k] > promotions[k]
                        \/ promotions'[k] = promotions[k] /\ (cache'[k] = Layer => cache[k] = Layer)
    BY <1>7, <1>t, <2>1 DEF PromoteStageRoot, TypeOK, files
  <2>4. Calm
    BY <2>1, <2>2, <2>3 DEF Calm, Key
  <2> QED BY <1>t, <2>4, CalmKeepsLooks
<1>8. ASSUME NEW c \in Callers, Promoted(c) \/ Lose(c) \/ Abandon(c) PROVE LooksStale'
  <2>1. \A d \in Callers : pc'[d] \in Removing =>
            pc[d] \in Removing /\ Key(d)' = Key(d) /\ looked'[d] = looked[d]
    BY <1>8, <1>t DEF Promoted, Lose, Abandon, Advance, Fail, Reject, TypeOK, Key, Removing
  <2> QED BY <1>8, <1>m, <2>1 DEF Promoted, Lose, Abandon, files
<1>9. ASSUME NEW p \in Procs, Crash(p) PROVE LooksStale'
  <2>1. \A d \in Callers : pc'[d] \in Removing =>
            pc[d] \in Removing /\ Key(d)' = Key(d) /\ looked'[d] = looked[d]
    BY <1>9, <1>t DEF Crash, TypeOK, Key, Removing
  <2> QED BY <1>9, <1>m, <2>1 DEF Crash, files
<1>10. CASE UNCHANGED vars
  BY <1>10 DEF vars, code, files, history, LooksStale, Key
<1> QED
  BY <1>1, <1>2, <1>3, <1>4, <1>5, <1>6, <1>7, <1>8, <1>9, <1>10 DEF Next, Step

LEMMA LooksHold == Spec => []LooksStale
<1>1. Init => LooksStale
  BY DEF Init, LooksStale
<1> QED BY <1>1, TypedHolds, LooksStep, PTL DEF Spec

\* Only a call that looked before the last promotion destroys a whole layer
\* (lines 728-740): the window between verifyManifest and the end of fs.rm is
\* the only one there is, for any calls, processes, leftovers and crashes.
THEOREM OnlyStaleRemovalsHolds == Spec => OnlyStaleRemovals
<1> DEFINE Stale == \A k \in Keys : cache[k] = Layer /\ cache'[k] # Layer =>
           \E c \in Callers : pc[c] = "removing" /\ Key(c) = k /\ looked[c] < promotions[k]
<1>1. ASSUME Typed, LooksStale, [Next]_vars PROVE [Stale]_vars
  <2> SUFFICES ASSUME NEW k \in Keys, cache[k] = Layer, cache'[k] # Layer
               PROVE  \E c \in Callers : pc[c] = "removing" /\ Key(c) = k /\ looked[c] < promotions[k]
    OBVIOUS
  <2>t. TypeOK
    BY <1>1 DEF Typed
  <2>1. Layer \notin {Absent, {}}
    BY DEF Absent, Layer
  <2>2. ASSUME NEW c \in Callers, RemovePath(c)
        PROVE  pc[c] = "removing" /\ Key(c) = k /\ looked[c] < promotions[k]
    <3>1. pc[c] = "removing" /\ Key(c) = k
      BY <2>2, <2>t DEF RemovePath, TypeOK
    <3> QED BY <1>1, <3>1 DEF LooksStale
  <2>3. ASSUME NEW c \in Callers, RemoveDirectory(c) \/ PromoteStageRoot(c) PROVE FALSE
    BY <2>1, <2>3, <2>t DEF RemoveDirectory, PromoteStageRoot, TypeOK, files
  <2>4. ASSUME NEW c \in Callers, \/ Call(c) \/ Look(c) \/ CheckExists(c) \/ ListDirectory(c) \/ Enter(c)
                                 \/ FetchArtifact(c) \/ Promoted(c) \/ Lose(c) \/ Abandon(c)
        PROVE  FALSE
    BY <2>4 DEF Call, Look, CheckExists, ListDirectory, Enter, FetchArtifact, Promoted, Lose, Abandon, files
  <2>5. ASSUME NEW p \in Procs, Crash(p) PROVE FALSE
    BY <2>5 DEF Crash, files
  <2>6. CASE UNCHANGED vars
    BY <2>6 DEF vars, files
  <2> QED BY <1>1, <2>2, <2>3, <2>4, <2>5, <2>6 DEF Next, Step
<1> QED BY <1>1, TypedHolds, LooksHold, PTL DEF Spec, OnlyStaleRemovals
-------------------------------------------------------------------------------
(* What a call is given holds what it asked for.                           *)

\* Inductive: what is about to be promoted was extracted, and so was every
\* layer in the cache, for all the requests that have its key.
CacheExtracted ==
    /\ \A c \in Callers : pc[c] \in {"promoting", "promoted"} =>
           request[c] \in Extractable[phase[c]]
    /\ \A k \in Keys : cache[k] = Layer => k[2] \subseteq Extractable[k[1]]

\* The call has its layer of this class, if it needs one.
Given(c, class) ==
    request[c] \in Layered[class] =>
        /\ PackageSetVersion[request[c]][class] \in selections[c]
        /\ request[c] \in Extractable[class]
        /\ class = "native_platform" => request[c] \in OnTarget

\* Inductive: how far a call was served when it stands at pc.
Served(c) ==
    /\ pc[c] = "idle" => phase[c] = "pure_python"
    /\ pc[c] \in Keyed \cup {"class"} =>
           request[c] \in Admitted /\ (phase[c] = "native_platform" => Given(c, "pure_python"))
    /\ pc[c] \in Keyed /\ phase[c] = "native_platform" => request[c] \in OnTarget
    /\ pc[c] = "resolved" =>
           /\ request[c] \in Requests
           /\ Requested(request[c]) # <<>> =>
                  request[c] \in Admitted /\ \A class \in Classes : Given(c, class)

\* Requests with one key have the same names and the same entries of its class.
LEMMA KeyShared ==
    ASSUME NEW class \in Classes, NEW r \in Admitted,
           NEW q \in PackageSetVersion[r][class][2]
    PROVE  /\ q \in Admitted
           /\ RequestedOf(Requested(q), Lockfile(q), class) = RequestedOf(Requested(r), Lockfile(r), class)
           /\ EntriesOf(Lockfile(q), class) = EntriesOf(Lockfile(r), class)
<1>1. q \in Admitted /\ HashInput(q, class) = HashInput(r, class)
  BY DEF PackageSetVersion
<1> QED BY <1>1 DEF HashInput

\* They extract together.
LEMMA KeyExtracts ==
    ASSUME NEW class \in Classes, NEW r \in Admitted
    PROVE  /\ PackageSetVersion[r][class][1] = class
           /\ r \in PackageSetVersion[r][class][2]
           /\ r \in Extractable[class] => PackageSetVersion[r][class][2] \subseteq Extractable[class]
<1>1. PackageSetVersion[r][class][1] = class /\ r \in PackageSetVersion[r][class][2]
  BY DEF PackageSetVersion
<1>2. ASSUME r \in Extractable[class], NEW q \in PackageSetVersion[r][class][2]
      PROVE  q \in Extractable[class]
  <2>1. q \in Requests /\ r \in Requests /\ Entries[q][class] = Entries[r][class]
    BY KeyShared DEF Admitted, Entries
  <2> QED BY <1>2, <2>1 DEF Extractable
<1> QED BY <1>1, <1>2

\* The layer of a call that is in the cache was extracted for it.
LEMMA CachedForCall ==
    ASSUME Typed, CacheExtracted, NEW c \in Callers, request[c] \in Layered[phase[c]],
           VerifyManifest(cache[Key(c)])
    PROVE  request[c] \in Extractable[phase[c]]
<1>1. phase[c] \in Classes /\ request[c] \in Admitted
  BY DEF Typed, TypeOK, Layered
<1>2. Key(c) \in Keys
  BY <1>1, KeyTyped DEF Key
<1>3. Key(c)[2] \subseteq Extractable[Key(c)[1]]
  BY <1>2 DEF CacheExtracted, VerifyManifest
<1> QED BY <1>1, <1>3, KeyExtracts DEF Key

LEMMA CacheStep == Typed /\ CacheExtracted /\ [Next]_vars => CacheExtracted'
<1> SUFFICES ASSUME Typed, CacheExtracted, [Next]_vars PROVE CacheExtracted'
  OBVIOUS
<1>t. TypeOK
  BY DEF Typed
<1> DEFINE Keeps == \A d \in Callers : pc'[d] \in {"promoting", "promoted"} =>
                        /\ pc[d] \in {"promoting", "promoted"}
                        /\ request'[d] = request[d] /\ phase'[d] = phase[d]
           Fills == \A k \in Keys : cache'[k] = Layer => cache[k] = Layer
<1>0. ASSUME Keeps, Fills PROVE CacheExtracted'
  BY <1>0 DEF CacheExtracted
<1>1. ASSUME NEW c \in Callers, \/ Call(c) \/ Look(c) \/ CheckExists(c) \/ ListDirectory(c)
                               \/ Enter(c)
      PROVE  CacheExtracted'
  <2>1. Fills
    BY <1>1 DEF Call, Look, CheckExists, ListDirectory, Enter, files
  <2>2. CASE Call(c) \/ Look(c)
    <3>1. Keeps
      BY <1>t, <2>2 DEF Call, Look, Advance, Reject, TypeOK
    <3> QED BY <1>0, <2>1, <3>1
  <2>3. CASE CheckExists(c) \/ ListDirectory(c)
    <3>1. Keeps
      BY <1>t, <2>3 DEF CheckExists, ListDirectory, TypeOK
    <3> QED BY <1>0, <2>1, <3>1
  <2>4. CASE Enter(c)
    <3>1. Keeps
      BY <1>t, <2>4 DEF Enter, Advance, Reject, TypeOK
    <3> QED BY <1>0, <2>1, <3>1
  <2> QED BY <1>1, <2>2, <2>3, <2>4
<1>2. ASSUME NEW c \in Callers, RemovePath(c) \/ RemoveDirectory(c) PROVE CacheExtracted'
  <2>1. Keeps
    BY <1>2, <1>t DEF RemovePath, RemoveDirectory, TypeOK
  <2>2. Key(c) \in Keys
    BY <1>2, <1>t, CallKey DEF RemovePath, RemoveDirectory, Keyed, Typed
  <2>3. \A k \in Keys : cache'[k] = cache[k] \/ cache'[k] # Layer
    <3>1. CASE RemovePath(c)
      <4>1. PICK path \in listing[c] : cache' = [cache EXCEPT ![Key(c)] = {p \in @ : PathOf(p) # path}]
        BY <3>1 DEF RemovePath
      <4>2. path \in Paths /\ cache[Key(c)] \in Directory
        BY <1>t, <2>2 DEF TypeOK
      <4>3. {p \in cache[Key(c)] : PathOf(p) # path} # Layer
        BY <4>2, RemovalTyped
      <4> QED BY <1>t, <4>1, <4>3 DEF TypeOK
    <3>2. CASE RemoveDirectory(c)
      <4>1. Absent # Layer
        BY DEF Absent, Layer
      <4> QED BY <1>t, <3>2, <4>1 DEF RemoveDirectory, TypeOK
    <3> QED BY <1>2, <3>1, <3>2
  <2>4. Fills
    BY <2>3
  <2> QED BY <1>0, <2>1, <2>4
<1>3. ASSUME NEW c \in Callers, FetchArtifact(c) PROVE CacheExtracted'
  <2>1. UNCHANGED cache /\ UNCHANGED request
    BY <1>3 DEF FetchArtifact
  <2>2. CASE Fail(c, "unfetched")
    <3>1. Keeps
      BY <1>t, <2>1, <2>2 DEF Fail, Reject, TypeOK
    <3> QED BY <1>0, <2>1, <3>1
  <2>3. CASE request[c] \in Extractable[phase[c]] /\ UNCHANGED phase
             /\ (pc' = [pc EXCEPT ![c] = "promoting"] \/ UNCHANGED pc)
    BY <1>t, <2>1, <2>3 DEF CacheExtracted, TypeOK
  <2> QED BY <1>3, <2>2, <2>3 DEF FetchArtifact
<1>4. ASSUME NEW c \in Callers, PromoteStageRoot(c) PROVE CacheExtracted'
  <2>1. Key(c) \in Keys /\ request[c] \in Admitted /\ phase[c] \in Classes
    BY <1>4, <1>t, CallKey DEF PromoteStageRoot, Keyed, Materializing, Typed, LayerKnown, Layered, TypeOK
  <2>2. Key(c)[2] \subseteq Extractable[Key(c)[1]]
    <3>1. request[c] \in Extractable[phase[c]]
      BY <1>4 DEF PromoteStageRoot, CacheExtracted
    <3> QED BY <2>1, <3>1, KeyExtracts DEF Key
  <2>3. \A k \in Keys : k # Key(c) => cache'[k] = cache[k]
    BY <1>4, <1>t DEF PromoteStageRoot, TypeOK, files
  <2>4. Keeps
    BY <1>4, <1>t DEF PromoteStageRoot, TypeOK
  <2> QED BY <2>2, <2>3, <2>4 DEF CacheExtracted
<1>5. ASSUME NEW c \in Callers, Promoted(c) \/ Lose(c) \/ Abandon(c) PROVE CacheExtracted'
  <2>1. Fills
    BY <1>5 DEF Promoted, Lose, Abandon, files
  <2>2. Keeps
    BY <1>5, <1>t DEF Promoted, Lose, Abandon, Fail, Advance, Reject, TypeOK
  <2> QED BY <1>0, <2>1, <2>2
<1>6. ASSUME NEW p \in Procs, Crash(p) PROVE CacheExtracted'
  <2>1. Keeps /\ Fills
    BY <1>6, <1>t DEF Crash, TypeOK, files
  <2> QED BY <1>0, <2>1
<1>7. CASE UNCHANGED vars
  BY <1>7 DEF vars, code, files, CacheExtracted
<1> QED BY <1>1, <1>2, <1>3, <1>4, <1>5, <1>6, <1>7 DEF Next, Step

\* A call that goes no further, or only towards the end of its class, stays
\* served.
LEMMA ServedKept ==
    ASSUME NEW c \in Callers, Served(c), request'[c] = request[c], phase'[c] = phase[c],
           selections'[c] = selections[c],
           \/ pc'[c] = pc[c]
           \/ pc[c] \in Keyed /\ pc'[c] \in Keyed
           \/ pc'[c] \notin Keyed \cup {"class", "resolved", "idle"}
    PROVE  Served(c)'
<1>1. \A class \in Classes : Given(c, class)' = Given(c, class)
  BY DEF Given
<1>2. "pure_python" \in Classes
  BY DEF Classes
<1>3. "class" \notin Keyed /\ "resolved" \notin Keyed /\ "idle" \notin Keyed
  BY DEF Keyed, Materializing
<1> QED BY <1>1, <1>2, <1>3 DEF Served

\* A call that is given the layer of its class, or needs none, and goes on.
LEMMA ServedOn ==
    ASSUME Typed, NEW given \in SUBSET Callers, NEW keys, Advance(given, keys), UNCHANGED request,
           NEW c \in given, Served(c), pc[c] \in Keyed \cup {"class"},
           request[c] \in Layered[phase[c]] =>
               /\ PackageSetVersion[request[c]][phase[c]] \in keys
               /\ request[c] \in Extractable[phase[c]]
               /\ phase[c] = "native_platform" => request[c] \in OnTarget
    PROVE  Served(c)'
<1>1. /\ request'[c] = request[c] /\ phase'[c] = "native_platform"
      /\ selections'[c] = selections[c] \cup keys
      /\ pc'[c] = IF phase[c] = "pure_python" THEN "class" ELSE "resolved"
      /\ phase[c] \in {"pure_python", "native_platform"}
  BY DEF Typed, TypeOK, Advance, Classes
<1>2. ASSUME NEW class, class = phase[c] PROVE Given(c, class)'
  BY <1>1, <1>2 DEF Given
<1>3. request[c] \in Admitted /\ request[c] \in Requests
  BY DEF Served, Admitted
<1>4. "class" \notin Keyed /\ "resolved" \notin Keyed /\ "idle" \notin Keyed
  BY DEF Keyed, Materializing
<1>5. CASE phase[c] = "pure_python"
  <2>1. Given(c, "pure_python")' /\ pc'[c] = "class"
    BY <1>1, <1>2, <1>5
  <2> QED BY <1>1, <1>3, <1>4, <2>1 DEF Served
<1>6. CASE phase[c] = "native_platform"
  <2>1. Given(c, "native_platform")' /\ pc'[c] = "resolved"
    BY <1>1, <1>2, <1>6
  <2>2. Given(c, "pure_python")'
    BY <1>1, <1>6 DEF Served, Given
  <2> QED BY <1>1, <1>3, <1>4, <2>1, <2>2 DEF Served, Classes
<1> QED BY <1>1, <1>5, <1>6

LEMMA ServedStep ==
    Typed /\ CacheExtracted /\ (\A c \in Callers : Served(c)) /\ [Next]_vars
        => (\A c \in Callers : Served(c))'
<1> SUFFICES ASSUME Typed, CacheExtracted, \A c \in Callers : Served(c), [Next]_vars
             PROVE  \A c \in Callers : Served(c)'
  OBVIOUS
<1>t. TypeOK
  BY DEF Typed
<1>k. "class" \notin Keyed /\ "resolved" \notin Keyed /\ "idle" \notin Keyed
  BY DEF Keyed, Materializing
\* The calls that are given nothing.
<1> DEFINE Quiet(d) ==
        /\ request'[d] = request[d] /\ phase'[d] = phase[d] /\ selections'[d] = selections[d]
        /\ \/ pc'[d] = pc[d]
           \/ pc[d] \in Keyed /\ pc'[d] \in Keyed
           \/ pc'[d] \notin Keyed \cup {"class", "resolved", "idle"}
<1>q. ASSUME NEW d \in Callers, Quiet(d) PROVE Served(d)'
  BY <1>q, ServedKept
<1>1. ASSUME NEW c \in Callers, Call(c) PROVE \A d \in Callers : Served(d)'
  <2>1. PICK r \in Asks[c] :
            /\ request' = [request EXCEPT ![c] = r]
            /\ pc' = [pc EXCEPT ![c] = IF Requested(r) = <<>> THEN "resolved"
                                       ELSE IF r \in Admitted THEN "class" ELSE "rejected"]
    BY <1>1 DEF Call
  <2>2. UNCHANGED <<phase, selections>>
    BY <1>1 DEF Call
  <2>3. \A d \in Callers \ {c} : Quiet(d)
    BY <1>t, <2>1, <2>2 DEF TypeOK
  <2>4. Served(c)'
    <3>1. request'[c] = r /\ phase'[c] = phase[c] /\ r \in Requests
      BY <1>t, <2>1, <2>2, LayerChoices DEF TypeOK
    <3>2. CASE Requested(r) = <<>>
      <4>1. pc'[c] = "resolved"
        BY <1>t, <2>1, <3>2 DEF TypeOK
      <4> QED BY <1>k, <3>1, <3>2, <4>1 DEF Served
    <3>3. CASE Requested(r) # <<>> /\ r \notin Admitted
      <4>1. pc'[c] = "rejected"
        BY <1>t, <2>1, <3>3 DEF TypeOK
      <4> QED BY <4>1 DEF Served, Keyed, Materializing
    <3>4. CASE Requested(r) # <<>> /\ r \in Admitted
      <4>1. pc'[c] = "class" /\ pc[c] = "idle"
        BY <1>1, <1>t, <2>1, <3>4 DEF TypeOK, Call
      <4>2. phase[c] = "pure_python"
        BY <4>1 DEF Served
      <4> QED BY <1>k, <3>1, <3>4, <4>1, <4>2 DEF Served
    <3> QED BY <3>2, <3>3, <3>4
  <2> QED BY <1>q, <2>3, <2>4
\* The next calls of one process, when they are given the layer of c.
<1>o. ASSUME NEW c \in Callers, NEW given \in SUBSET Callers, NEW keys, Advance(given, keys),
             UNCHANGED request, \A d \in given : Served(d)'
      PROVE  \A d \in Callers : Served(d)'
  <2>1. \A d \in Callers \ given : Quiet(d)
    BY <1>o, <1>t DEF Advance, TypeOK
  <2> QED BY <1>o, <1>q, <2>1
<1>r. ASSUME NEW given \in SUBSET Callers, NEW why \in Settled \ {"resolved"}, Reject(given, why),
             UNCHANGED request
      PROVE  \A d \in Callers : Served(d)'
  <2>1. \A d \in Callers : Quiet(d)
    <3>1. why \notin Keyed \cup {"class", "resolved", "idle"}
      BY DEF Settled, Keyed, Materializing
    <3> QED BY <1>r, <1>t, <3>1 DEF Reject, TypeOK
  <2> QED BY <1>q, <2>1
<1>2. ASSUME NEW c \in Callers, Look(c) PROVE \A d \in Callers : Served(d)'
  <2>1. UNCHANGED request /\ pc[c] = "class" /\ request[c] \in Admitted
    BY <1>2 DEF Look, Served
  <2>2. CASE request[c] \notin Layered[phase[c]] /\ Advance({c}, {})
    <3>1. Served(c)'
      BY <1>t, <2>1, <2>2, ServedOn
    <3> QED BY <1>o, <2>1, <2>2, <3>1
  <2>3. CASE Reject({c}, "rejected")
    BY <1>r, <2>1, <2>3 DEF Settled
  <2>4. CASE /\ request[c] \in Layered[phase[c]] /\ VerifyManifest(cache[Key(c)])
             /\ phase[c] = "native_platform" => request[c] \in OnTarget
             /\ Advance({c}, {Key(c)})
    <3>1. request[c] \in Extractable[phase[c]]
      BY <2>4, CachedForCall
    <3>2. Served(c)'
      BY <2>1, <2>4, <3>1, ServedOn DEF Key
    <3> QED BY <1>o, <2>1, <2>4, <3>2
  <2>5. CASE /\ phase[c] = "native_platform" => request[c] \in OnTarget
             /\ pc' = [pc EXCEPT ![c] = "missed"] /\ UNCHANGED <<selections, phase>>
    <3>1. \A d \in Callers \ {c} : Quiet(d)
      BY <1>t, <2>1, <2>5 DEF TypeOK
    <3>2. pc'[c] = "missed" /\ "missed" \in Keyed /\ phase'[c] = phase[c] /\ request'[c] = request[c]
      BY <1>t, <2>1, <2>5 DEF TypeOK, Keyed
    <3>3. Given(c, "pure_python")' = Given(c, "pure_python")
      BY <2>1, <2>5 DEF Given
    <3>4. Served(c)'
      BY <1>k, <2>1, <2>5, <3>2, <3>3 DEF Served
    <3> QED BY <1>q, <3>1, <3>4
  <2> QED BY <1>2, <2>2, <2>3, <2>4, <2>5 DEF Look
<1>3. ASSUME NEW c \in Callers, \/ CheckExists(c) \/ ListDirectory(c) \/ RemovePath(c)
                               \/ RemoveDirectory(c) \/ PromoteStageRoot(c)
      PROVE  \A d \in Callers : Served(d)'
  <2>1. UNCHANGED <<request, phase, selections>>
    BY <1>3 DEF CheckExists, ListDirectory, RemovePath, RemoveDirectory, PromoteStageRoot
  <2>2. \A d \in Callers : pc'[d] = pc[d] \/ (pc[d] \in Keyed /\ pc'[d] \in Keyed \cup {"rejected"})
    BY <1>3, <1>t DEF CheckExists, ListDirectory, RemovePath, RemoveDirectory, PromoteStageRoot,
                      TypeOK, Keyed, Materializing
  <2>3. \A d \in Callers : Quiet(d)
    BY <2>1, <2>2
  <2> QED BY <1>q, <2>3
<1>4. ASSUME NEW c \in Callers, Enter(c) PROVE \A d \in Callers : Served(d)'
  <2>1. UNCHANGED request /\ pc[c] \in Keyed
    BY <1>4 DEF Enter, Keyed
  <2>2. CASE VerifyManifest(cache[Key(c)]) /\ Advance({c}, {Key(c)})
    <3>1. request[c] \in Layered[phase[c]]
      BY <2>1 DEF Typed, LayerKnown
    <3>2. request[c] \in Extractable[phase[c]]
      BY <2>2, <3>1, CachedForCall
    <3>3. phase[c] = "native_platform" => request[c] \in OnTarget
      BY <2>1 DEF Served
    <3>4. Served(c)'
      BY <2>1, <2>2, <3>2, <3>3, ServedOn DEF Key
    <3> QED BY <1>o, <2>1, <2>2, <3>4
  <2>3. CASE Reject({c}, "rejected")
    BY <1>r, <2>1, <2>3 DEF Settled
  <2>4. CASE UNCHANGED <<phase, selections>> /\ \E to \in {"waiting", "fetching"} : pc' = [pc EXCEPT ![c] = to]
    <3>1. \A d \in Callers : Quiet(d)
      BY <1>t, <2>1, <2>4 DEF TypeOK, Keyed, Materializing
    <3> QED BY <1>q, <3>1
  <2> QED BY <1>4, <2>2, <2>3, <2>4 DEF Enter
\* Whoever waits has the key of the call it waits for.
<1>a. ASSUME NEW c \in Callers, pc[c] \in Materializing, NEW d \in Awaiting(c)
      PROVE  /\ d \in Callers /\ pc[d] \in Keyed /\ Key(d) = Key(c)
             /\ request[d] \in Admitted /\ request[c] \in Admitted
             /\ phase[d] = phase[c] /\ phase[c] \in Classes
             /\ request[c] \in Extractable[phase[c]] => request[d] \in Extractable[phase[d]]
  <2>1. d \in Callers /\ pc[d] \in Keyed /\ pc[c] \in Keyed /\ Key(d) = Key(c)
    BY <1>a DEF Awaiting, Keyed
  <2>2. /\ request[d] \in Admitted /\ request[c] \in Admitted
        /\ phase[d] \in Classes /\ phase[c] \in Classes
    BY <1>t, <2>1 DEF Served, TypeOK
  <2>3. phase[d] = phase[c]
    BY <2>1, <2>2, KeyExtracts DEF Key
  <2>4. request[c] \in Extractable[phase[c]] => request[d] \in Extractable[phase[d]]
    BY <2>1, <2>2, <2>3, KeyExtracts DEF Key
  <2> QED BY <2>1, <2>2, <2>3, <2>4
<1>b. ASSUME NEW c \in Callers, pc[c] \in Materializing, Advance(Awaiting(c), {Key(c)}),
             request[c] \in Extractable[phase[c]], UNCHANGED request
      PROVE  \A d \in Callers : Served(d)'
  <2>1. Awaiting(c) \in SUBSET Callers
    BY DEF Awaiting
  <2>2. ASSUME NEW d \in Awaiting(c) PROVE Served(d)'
    <3>1. /\ d \in Callers /\ pc[d] \in Keyed /\ Key(d) = Key(c)
          /\ request[d] \in Extractable[phase[d]]
      BY <1>a, <1>b
    <3>2. phase[d] = "native_platform" => request[d] \in OnTarget
      BY <3>1 DEF Served
    <3>3. PackageSetVersion[request[d]][phase[d]] \in {Key(c)}
      BY <3>1 DEF Key
    <3> QED BY <1>b, <2>1, <3>1, <3>2, <3>3, ServedOn
  <2> QED BY <1>b, <1>o, <2>1, <2>2
<1>5. ASSUME NEW c \in Callers, FetchArtifact(c) PROVE \A d \in Callers : Served(d)'
  <2>1. UNCHANGED request /\ Awaiting(c) \in SUBSET Callers
    BY <1>5 DEF FetchArtifact, Awaiting
  <2>2. CASE Fail(c, "unfetched")
    BY <1>r, <2>1, <2>2 DEF Fail, Settled
  <2>3. CASE UNCHANGED <<phase, selections>> /\ (pc' = [pc EXCEPT ![c] = "promoting"] \/ UNCHANGED pc)
    <3>1. \A d \in Callers : Quiet(d)
      BY <1>5, <1>t, <2>1, <2>3 DEF TypeOK, Keyed, Materializing, FetchArtifact
    <3> QED BY <1>q, <3>1
  <2> QED BY <1>5, <2>2, <2>3 DEF FetchArtifact
<1>6. ASSUME NEW c \in Callers, Promoted(c) PROVE \A d \in Callers : Served(d)'
  <2>1. request[c] \in Extractable[phase[c]] /\ pc[c] \in Materializing
    BY <1>6 DEF Promoted, CacheExtracted, Materializing
  <2> QED BY <1>6, <1>b, <2>1 DEF Promoted
<1>7. ASSUME NEW c \in Callers, Lose(c) PROVE \A d \in Callers : Served(d)'
  <2>1. UNCHANGED request /\ pc[c] \in Materializing /\ Awaiting(c) \in SUBSET Callers
    BY <1>7 DEF Lose, Materializing, Awaiting
  <2>2. CASE VerifyManifest(cache[Key(c)]) /\ Advance(Awaiting(c), {Key(c)})
    <3>1. request[c] \in Layered[phase[c]]
      BY <2>1 DEF Typed, LayerKnown, Keyed
    <3>2. request[c] \in Extractable[phase[c]]
      BY <2>2, <3>1, CachedForCall
    <3> QED BY <1>b, <2>1, <2>2, <3>2
  <2>3. CASE Fail(c, "rejected")
    BY <1>r, <2>1, <2>3 DEF Fail, Settled
  <2> QED BY <1>7, <2>2, <2>3 DEF Lose
<1>8. ASSUME NEW c \in Callers, Abandon(c) PROVE \A d \in Callers : Served(d)'
  <2>1. UNCHANGED request /\ Awaiting(c) \in SUBSET Callers /\ Reject(Awaiting(c), "rejected")
    BY <1>8 DEF Abandon, Awaiting, Fail
  <2> QED BY <1>r, <2>1 DEF Settled
<1>9. ASSUME NEW p \in Procs, Crash(p) PROVE \A d \in Callers : Served(d)'
  <2>1. UNCHANGED <<request, phase, selections>>
    BY <1>9 DEF Crash
  <2>2. \A d \in Callers : pc'[d] = pc[d] \/ pc'[d] = "dead"
    BY <1>9, <1>t DEF Crash, TypeOK
  <2>3. "dead" \notin Keyed \cup {"class", "resolved", "idle"}
    BY DEF Keyed, Materializing
  <2>4. \A d \in Callers : Quiet(d)
    BY <2>1, <2>2, <2>3
  <2> QED BY <1>q, <2>4
<1>10. CASE UNCHANGED vars
  BY <1>10, <1>q DEF vars, code
<1> QED
  BY <1>1, <1>2, <1>3, <1>4, <1>5, <1>6, <1>7, <1>8, <1>9, <1>10 DEF Next, Step

\* The name is not empty once it is trimmed.
Nonempty(p) == p.text # ""

\* Every such name that was asked for is kept.
LEMMA NamesKept ==
    ASSUME NEW r \in Requests, NEW p \in ToSet(Arguments[r].packages), Nonempty(p)
    PROVE  Contains(Requested(r), p.text)
<1> DEFINE ps == Arguments[r].packages
           texts == [i \in DOMAIN ps |-> ps[i].text]
           firsts == {i \in DOMAIN ps : /\ Nonempty(ps[i])
                                        /\ \A j \in 1..(i - 1) : ps[j].text # ps[i].text}
           found == {i \in DOMAIN ps : ps[i].text = p.text}
<1>1. Len(ps) \in Nat /\ DOMAIN ps = 1..Len(ps)
  BY LayerLockfiles, LenProperties
<1>2. found \in SUBSET Nat /\ found # {}
  BY <1>1 DEF ToSet
<1>3. PICK k \in found : \A m \in found : k <= m
  BY <1>2, LeastNumber
<1>4. k \in DOMAIN ps /\ ps[k].text = p.text
  BY <1>3
<1>5. k \in firsts
  <2>1. \A j \in 1..(k - 1) : j \in DOMAIN ps /\ j < k
    BY <1>1, <1>4
  <2>2. \A j \in 1..(k - 1) : ps[j].text # p.text
    BY <1>1, <1>3, <1>4, <2>1
  <2>3. Nonempty(ps[k])
    BY <1>4 DEF Nonempty
  <2> QED BY <1>4, <2>2, <2>3
<1>6. DOMAIN texts = 1..Len(ps) /\ Len(texts) = Len(ps)
  <2> DEFINE n == Len(ps)
  <2>1. n \in Nat /\ texts = [i \in 1..n |-> ps[i].text]
    BY <1>1
  <2> HIDE DEF n
  <2>2. DOMAIN texts = 1..n /\ Len(texts) = n
    BY <2>1
  <2> QED BY <2>2 DEF n
<1>7. PICK j \in 1..Len(Picked(texts, firsts)) : Picked(texts, firsts)[j] = texts[k]
  <2> DEFINE S == {texts[i] : i \in 1..Len(ps)}
  <2>1. \A i \in 1..Len(texts) : i \in firsts => texts[i] \in S
    BY <1>6
  <2>2. Len(texts) \in Nat /\ k \in 1..Len(texts)
    BY <1>1, <1>4, <1>6
  <2> HIDE DEF S, texts, firsts, found
  <2>3. \E j \in 1..Len(Picked(texts, firsts)) : Picked(texts, firsts)[j] = texts[k]
    BY ONLY <1>5, <2>1, <2>2, PickedHas
  <2> QED BY <2>3
<1>8. Requested(r) = Picked(texts, firsts)
  BY DEF Requested, NormalizeRequestedPackages, Nonempty
<1> QED BY <1>4, <1>7, <1>8 DEF Contains

LEMMA NamesListed ==
    ASSUME NEW r \in Requests
    PROVE  \E S : Requested(r) \in Seq(S)
<1> DEFINE ps == Arguments[r].packages
           texts == [i \in DOMAIN ps |-> ps[i].text]
           S == {texts[i] : i \in DOMAIN ps}
<1>1. PICK is : Requested(r) = Picked(texts, is)
  BY DEF Requested, NormalizeRequestedPackages
<1>2. Len(texts) \in Nat /\ \A i \in 1..Len(texts) : texts[i] \in S
  <2> DEFINE n == Len(ps)
  <2>1. n \in Nat /\ texts = [i \in 1..n |-> ps[i].text] /\ DOMAIN ps = 1..n
    BY LayerLockfiles, LenProperties
  <2> HIDE DEF n
  <2> QED BY <2>1
<1> HIDE DEF texts, S
<1>3. Picked(texts, is) \in Seq(S)
  BY <1>2, PickedType
<1> QED BY <1>1, <1>3

\* The requested names of a class are those whose entry is of it.
LEMMA NamesOfClass ==
    ASSUME NEW names, NEW S, names \in Seq(S), NEW lockfile, NEW class, NEW n,
           Contains(names, n),
           LET e == EntryByName(lockfile, n)
           IN  IF class = "pure_python" THEN e.kind = "pure_python" ELSE IsNativePlatformEntry(e)
    PROVE  Contains(RequestedOf(names, lockfile, class), n)
<1> DEFINE OfClass(e) == IF class = "pure_python" THEN e.kind = "pure_python"
                         ELSE IsNativePlatformEntry(e)
           is == {i \in DOMAIN names : OfClass(EntryByName(lockfile, names[i]))}
<1>1. Len(names) \in Nat /\ DOMAIN names = 1..Len(names) /\ \A i \in 1..Len(names) : names[i] \in S
  BY LenProperties, ElementOfSeq
<1>2. PICK k \in 1..Len(names) : names[k] = n
  BY DEF Contains
<1>3. k \in is
  BY <1>1, <1>2
<1>4. RequestedOf(names, lockfile, class) = Picked(names, is)
  BY DEF RequestedOf
<1>5. \E j \in 1..Len(Picked(names, is)) : Picked(names, is)[j] = names[k]
  <2> HIDE DEF is
  <2> QED BY <1>1, <1>3, PickedHas
<1> QED BY <1>2, <1>4, <1>5 DEF Contains

\* A later entry hides an earlier one, so a name that has one has a last one.
LEMMA EntryFound ==
    ASSUME NEW S, NEW lockfile \in Seq(S), NEW n, \E e \in ToSet(lockfile) : e.name = n
    PROVE  /\ EntryByName(lockfile, n) \in ToSet(lockfile)
           /\ EntryByName(lockfile, n).name = n
<1> DEFINE N == Len(lockfile)
           named == {i \in DOMAIN lockfile : lockfile[i].name = n}
           mirrored == {N - i : i \in named}
<1>1. N \in Nat /\ DOMAIN lockfile = 1..N
  BY LenProperties
<1>2. named # {} /\ named \subseteq 1..N
  BY <1>1 DEF ToSet
<1>3. mirrored \in SUBSET Nat /\ mirrored # {}
  BY <1>1, <1>2
<1>4. PICK m \in mirrored : \A o \in mirrored : m <= o
  BY <1>3, LeastNumber
<1>5. PICK i \in named : m = N - i
  BY <1>4
<1>6. \A j \in named : j <= i
  <2>1. ASSUME NEW j \in named PROVE j <= i
    <3>1. N - i <= N - j
      BY <1>4, <1>5
    <3> QED BY <1>1, <1>2, <3>1
  <2> QED BY <2>1
<1>7. \E k \in DOMAIN lockfile : /\ lockfile[k].name = n
                                /\ \A j \in DOMAIN lockfile : lockfile[j].name = n => j <= k
  BY <1>6
<1> QED BY <1>7 DEF EntryByName, ToSet

LEMMA ServedHolds == Spec => [](CacheExtracted /\ \A c \in Callers : Served(c))
<1>1. Init => CacheExtracted
  BY LayerLeftovers DEF Init, CacheExtracted
<1>2. Init => \A c \in Callers : Served(c)
  BY DEF Init, Served, Keyed, Materializing
<1> DEFINE Inv == CacheExtracted /\ \A c \in Callers : Served(c)
<1>3. Typed /\ Inv /\ [Next]_vars => Inv'
  BY CacheStep, ServedStep
<1>4. Init => Inv
  BY <1>1, <1>2
<1> HIDE DEF Inv
<1>5. Spec => []Inv
  BY <1>3, <1>4, TypedHolds, PTL DEF Spec
<1> QED BY <1>5 DEF Inv

\* A call that resolves has, for every package it asked for, a layer that was
\* made for that package from a verified entry for this host (lines 575-690):
\* so it is also when the layer was made for another request with the same
\* hash, by another process, or before, and when a later entry hides an
\* earlier one of the same name.
THEOREM ResolvedIsPinnedHolds == Spec => []ResolvedIsPinned
<1>1. Typed /\ CacheExtracted /\ (\A c \in Callers : Served(c)) => ResolvedIsPinned
  <2> SUFFICES ASSUME Typed, \A c \in Callers : Served(c), NEW c \in Callers, pc[c] = "resolved",
                      NEW p \in ToSet(Arguments[request[c]].packages), Nonempty(p)
               PROVE  \E k \in selections[c] : \A r \in k[2] :
                          /\ Contains(RequestedOf(Requested(r), Lockfile(r), k[1]), p.text)
                          /\ \E e \in Entries[r][k[1]] :
                                 /\ e.name = p.text /\ e.digest /\ e.https /\ Extracts(e)
                                 /\ k[1] = "native_platform" => WheelMatchesTarget(e, Target)
    BY DEF ResolvedIsPinned, Nonempty
  <2> DEFINE q == request[c]
             names == Requested(q)
             e == EntryByName(Lockfile(q), p.text)
  <2>1. q \in Requests
    BY DEF Served
  <2>2. Contains(names, p.text)
    BY <2>1, NamesKept
  <2>3. names # <<>>
    BY <2>2, EmptySeq DEF Contains
  <2>4. q \in Admitted /\ \A class \in Classes : Given(c, class)
    BY <2>3 DEF Served
  <2>5. /\ VerifyLockfile(Lockfile(q))
        /\ \A n \in ToSet(names) : \E f \in ToSet(Lockfile(q)) : f.name = n
        /\ \A f \in ToSet(Lockfile(q)) : f.kind = "pure_python" \/ IsNativePlatformEntry(f)
    BY <2>4 DEF Admitted, AssertServerPackageLockfile, Lockfile
  <2>6. PICK S : names \in Seq(S)
    BY <2>1, NamesListed
  <2>7. p.text \in ToSet(names)
    <3>1. DOMAIN names = 1..Len(names)
      BY <2>6, LenProperties
    <3> QED BY <2>2, <3>1 DEF Contains, ToSet
  <2>8. e \in ToSet(Lockfile(q)) /\ e.name = p.text
    BY <2>1, <2>5, <2>7, LayerLockfiles, EntryFound
  <2>9. e.digest /\ e.https
    BY <2>5, <2>8 DEF VerifyLockfile
  <2>10. PICK class \in Classes :
             IF class = "pure_python" THEN e.kind = "pure_python" ELSE IsNativePlatformEntry(e)
    BY <2>5, <2>8 DEF Classes
  <2>11. e \in EntriesOf(Lockfile(q), class)
    BY <2>8, <2>10 DEF EntriesOf
  <2>12. q \in Layered[class]
    BY <2>4, <2>10, <2>11 DEF Layered
  <2>13. /\ PackageSetVersion[q][class] \in selections[c]
         /\ q \in Extractable[class]
         /\ class = "native_platform" => q \in OnTarget
    BY <2>4, <2>10, <2>12 DEF Given
  <2>14. Contains(RequestedOf(names, Lockfile(q), class), p.text)
    BY <2>2, <2>6, <2>10, NamesOfClass
  <2>15. /\ Extracts(e)
         /\ class = "native_platform" => WheelMatchesTarget(e, Target)
    <3>1. e \in Entries[q][class]
      BY <2>1, <2>10, <2>11 DEF Entries
    <3>2. Extracts(e)
      BY <2>13, <2>10, <3>1 DEF Extractable
    <3>3. class = "native_platform" => WheelMatchesTarget(e, Target)
      BY <2>13, <3>1 DEF OnTarget
    <3> QED BY <3>2, <3>3
  <2> DEFINE k == PackageSetVersion[q][class]
  <2>16. k[1] = class
    BY <2>4, <2>10, KeyExtracts
  <2>17. ASSUME NEW r \in k[2]
         PROVE  /\ Contains(RequestedOf(Requested(r), Lockfile(r), class), p.text)
                /\ e \in Entries[r][class]
    <3>1. /\ r \in Requests
          /\ RequestedOf(Requested(r), Lockfile(r), class) = RequestedOf(names, Lockfile(q), class)
          /\ EntriesOf(Lockfile(r), class) = EntriesOf(Lockfile(q), class)
      BY <2>4, <2>10, KeyShared DEF Admitted
    <3>2. e \in Entries[r][class]
      BY <2>10, <2>11, <3>1 DEF Entries
    <3> QED BY <2>14, <3>1, <3>2
  <2> HIDE DEF e, k
  <2>18. k \in selections[c]
    BY <2>13 DEF k
  <2> QED BY <2>8, <2>9, <2>15, <2>16, <2>17, <2>18
<1> QED BY <1>1, TypedHolds, ServedHolds, PTL
===============================================================================
