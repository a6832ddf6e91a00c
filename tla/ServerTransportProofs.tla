------------------------- MODULE ServerTransportProofs -------------------------
(***************************************************************************)
(* Proofs about ServerTransport, for any set of calls, any number of       *)
(* workers and any set of faults.                                          *)
(***************************************************************************)
EXTENDS ServerTransport, SequenceTheorems, FiniteSetTheorems, TLAPS

USE WorkersAssumption

\* The messages the adapter writes to a worker are requests.
LEMMA RequestTypes ==
    ASSUME NEW g \in Workers
    PROVE  /\ HelloOf(g) \in Request
           /\ \A r \in Runs : RunOf(r, g) \in Request
           /\ \A c \in Closers : ShutdownOf(c, g) \in Request
BY DEF HelloOf, RunOf, ShutdownOf, Request

\* What decodeFrames leaves over is made of units of its input.
LEMMA RemainingUnits ==
    ASSUME NEW S, NEW m \in Seq(S)
    PROVE  Remaining(m) \in Seq(S)
<1> DEFINE k == Cardinality(WholeFrames(m))
<1>1. Len(m) \in Nat
  BY LenProperties
<1>2. IsFiniteSet(1..Len(m))
  BY <1>1, FS_Interval
<1>3. WholeFrames(m) \in SUBSET (1..Len(m))
  BY DEF WholeFrames
<1>4. IsFiniteSet(WholeFrames(m))
  BY <1>2, <1>3, FS_Subset
<1>5. k \in Nat
  BY <1>4, FS_CardinalityType
<1> HIDE DEF k
<1>6. \A i \in (2 * k + 1)..Len(m) : m[i] \in S
  BY <1>1, <1>5, ElementOfSeq
<1>7. SubSeq(m, 2 * k + 1, Len(m)) \in Seq(S)
  BY <1>1, <1>5, <1>6, SubSeqProperties
<1> QED BY <1>7 DEF Remaining, k

\* The remainder with a chunk behind it, and what stays in the pipe, are
\* made of units of their sources.
LEMMA MergedUnits ==
    ASSUME NEW S, NEW rem \in Seq(S), NEW o \in Seq(S), NEW n \in 1..Len(o)
    PROVE  /\ rem \o SubSeq(o, 1, n) \in Seq(S)
           /\ SubSeq(o, n + 1, Len(o)) \in Seq(S)
<1>1. Len(o) \in Nat /\ n \in Nat /\ n <= Len(o)
  BY LenProperties
<1>2. \A i \in 1..Len(o) : o[i] \in S
  BY ElementOfSeq
<1>3. \A i \in 1..n : o[i] \in S
  BY <1>1, <1>2
<1>4. SubSeq(o, 1, n) \in Seq(S)
  BY <1>1, <1>3, SubSeqProperties
<1>5. \A i \in (n + 1)..Len(o) : o[i] \in S
  BY <1>1, <1>2
<1>6. SubSeq(o, n + 1, Len(o)) \in Seq(S)
  BY <1>1, <1>5, SubSeqProperties
<1> QED BY <1>4, <1>6, ConcatProperties

-------------------------------------------------------------------------------
(* Type correctness.                                                       *)

\* Rejecting every pending promise keeps the types of what it settles.
LEMMA RejectPendingTypes ==
    ASSUME TypeOK, RejectPending
    PROVE  /\ pending' \subseteq Request
           /\ phase' \in [Runs -> {"idle", "accepted", "hello", "sent"} \cup Settled]
           /\ at' \in [Runs -> Workers \cup {NoWorker}]
           /\ cphase' \in [Closers -> {"idle", "waiting", "resumed", "done"}]
           /\ cchild' \in [Closers -> Workers \cup {NoWorker}]
           /\ helloState' \in [Workers -> {"none", "unheard", "pending", "ok", "failed"}]
           /\ uncaught' \in BOOLEAN
BY DEF TypeOK, RejectPending, Settled

\* Delivering decoded frames keeps the types of what it settles.
LEMMA DeliverTypes ==
    ASSUME TypeOK, NEW frames, Deliver(frames)
    PROVE  /\ pending' \subseteq Request
           /\ phase' \in [Runs -> {"idle", "accepted", "hello", "sent"} \cup Settled]
           /\ at' \in [Runs -> Workers \cup {NoWorker}]
           /\ cphase' \in [Closers -> {"idle", "waiting", "resumed", "done"}]
           /\ cchild' \in [Closers -> Workers \cup {NoWorker}]
           /\ helloState' \in [Workers -> {"none", "unheard", "pending", "ok", "failed"}]
           /\ uncaught' \in BOOLEAN
BY DEF TypeOK, Deliver, Settled

\* A write to a worker's stdin keeps a sequence of requests there.
LEMMA WriteTypes ==
    ASSUME TypeOK, NEW g \in Workers, NEW q \in Request, WriteTo(g, <<q>>)
    PROVE  inbox' \in [Workers -> Seq(Request)] /\ uncaught' \in BOOLEAN
<1>1. inbox[g] \in Seq(Request) /\ <<q>> \in Seq(Request)
  BY DEF TypeOK
<1>2. inbox[g] \o <<q>> \in Seq(Request)
  BY <1>1, ConcatProperties
<1>3. inbox' \in [Workers -> Seq(Request)]
  BY <1>2 DEF TypeOK, WriteTo
<1>4. uncaught' \in BOOLEAN
  BY Zenon DEF TypeOK, WriteTo
<1> QED BY <1>3, <1>4

\* Spawning a worker with its hello in front of its stdin keeps the types.
LEMMA SpawnTypes ==
    ASSUME TypeOK, NEW g \in Workers, NEW promise \in {"unheard", "pending"},
           NEW requests \in SUBSET Request, NEW messages \in Seq(Request),
           Spawn(g, promise, requests, messages)
    PROVE  /\ spawned' \in 0..MaxWorkers
           /\ child' \in Workers \cup {NoWorker}
           /\ proc' \in [Workers -> {"none", "reaped"} \cup Unreaped]
           /\ helloState' \in [Workers -> {"none", "unheard", "pending", "ok", "failed"}]
           /\ pending' \subseteq Request
           /\ inbox' \in [Workers -> Seq(Request)]
<1>1. HelloOf(g) \in Request
  BY RequestTypes
<1>2. <<HelloOf(g)>> \in Seq(Request)
  BY <1>1
<1>3. <<HelloOf(g)>> \o messages \in Seq(Request)
  BY <1>2, ConcatProperties
<1>4. inbox' \in [Workers -> Seq(Request)]
  BY <1>3 DEF TypeOK, Spawn
<1>5. pending' \subseteq Request
  BY <1>1 DEF TypeOK, Spawn
<1>6. spawned' \in 0..MaxWorkers /\ child' \in Workers \cup {NoWorker}
  BY DEF TypeOK, Spawn, CanSpawn, Workers
<1>7. /\ proc' \in [Workers -> {"none", "reaped"} \cup Unreaped]
      /\ helloState' \in [Workers -> {"none", "unheard", "pending", "ok", "failed"}]
  BY DEF TypeOK, Spawn, Unreaped, Live
<1> QED BY <1>4, <1>5, <1>6, <1>7

\* A signal leaves a process in one of its states.
LEMMA KillTypes ==
    ASSUME TypeOK, NEW g
    PROVE  Kill(proc, g) \in [Workers -> {"none", "reaped"} \cup Unreaped]
BY DEF TypeOK, Kill, Unreaped, Live

\* No call, microtask, event or worker step breaks a type.
LEMMA TypeStep == TypeOK /\ [Next]_vars => TypeOK'
<1> SUFFICES ASSUME TypeOK, [Next]_vars PROVE TypeOK'
  OBVIOUS
<1> USE DEF hostVars, callVars, workerVars
<1>1. ASSUME NEW r \in Runs, Run(r) PROVE TypeOK'
  BY <1>1 DEF TypeOK, Run, Admission, Settled
<1>2. ASSUME NEW r \in Runs, StartRun(r) PROVE TypeOK'
  <2>1. CASE child # NoWorker /\ UNCHANGED <<child, pending, spawned, proc, inbox>>
    BY <1>2, <2>1, ZenonT(60) DEF TypeOK, StartRun, Spawn, CanSpawn
  <2>2. ASSUME NEW g \in Workers, Spawn(g, "pending", {}, <<>>),
               phase' = [phase EXCEPT ![r] = "hello"], at' = [at EXCEPT ![r] = g]
        PROVE  TypeOK'
    <3>1. /\ spawned' \in 0..MaxWorkers
          /\ child' \in Workers \cup {NoWorker}
          /\ proc' \in [Workers -> {"none", "reaped"} \cup Unreaped]
          /\ helloState' \in [Workers -> {"none", "unheard", "pending", "ok", "failed"}]
          /\ pending' \subseteq Request
          /\ inbox' \in [Workers -> Seq(Request)]
      BY <2>2, SpawnTypes, EmptySeq
    <3> QED BY <1>2, <2>2, <3>1 DEF TypeOK, StartRun
  <2>3. CASE phase' = [phase EXCEPT ![r] = "failed"] /\
             UNCHANGED <<child, pending, at, helloState, spawned, proc, inbox>>
    BY <1>2, <2>3 DEF TypeOK, StartRun, Settled
  <2> QED BY <1>2, <2>1, <2>2, <2>3 DEF StartRun
<1>3. ASSUME NEW r \in Runs, ResumeRun(r) PROVE TypeOK'
  <2>1. CASE phase' = [phase EXCEPT ![r] = "failed"] /\
             UNCHANGED <<child, pending, at, helloState, spawned, proc, inbox, uncaught>>
    BY <1>3, <2>1 DEF TypeOK, ResumeRun, Settled
  <2>2. ASSUME child # NoWorker, at' = [at EXCEPT ![r] = child],
               pending' = pending \cup {RunOf(r, child)},
               \/ /\ phase' = [phase EXCEPT ![r] = "sent"]
                  /\ WriteTo(child, <<RunOf(r, child)>>)
               \/ /\ phase' = [phase EXCEPT ![r] = "failed"]
                  /\ UNCHANGED <<inbox, uncaught>>,
               UNCHANGED <<child, helloState, spawned, proc>>
        PROVE  TypeOK'
    <3>1. child \in Workers /\ RunOf(r, child) \in Request
      BY <2>2, RequestTypes DEF TypeOK
    <3>2. inbox' \in [Workers -> Seq(Request)] /\ uncaught' \in BOOLEAN
      BY <2>2, <3>1, WriteTypes DEF TypeOK
    <3> QED BY <1>3, <2>2, <3>1, <3>2, ZenonT(60) DEF TypeOK, ResumeRun, Settled
  <2>3. ASSUME NEW g \in Workers, at' = [at EXCEPT ![r] = g],
               \/ /\ phase' = [phase EXCEPT ![r] = "sent"]
                  /\ Spawn(g, "unheard", {RunOf(r, g)}, <<RunOf(r, g)>>)
               \/ /\ phase' = [phase EXCEPT ![r] = "failed"]
                  /\ Spawn(g, "unheard", {RunOf(r, g)}, <<>>),
               UNCHANGED uncaught
        PROVE  TypeOK'
    <3>1. {RunOf(r, g)} \in SUBSET Request /\ <<RunOf(r, g)>> \in Seq(Request)
      BY RequestTypes
    <3>2. /\ spawned' \in 0..MaxWorkers
          /\ child' \in Workers \cup {NoWorker}
          /\ proc' \in [Workers -> {"none", "reaped"} \cup Unreaped]
          /\ helloState' \in [Workers -> {"none", "unheard", "pending", "ok", "failed"}]
          /\ pending' \subseteq Request
          /\ inbox' \in [Workers -> Seq(Request)]
      <4>1. CASE Spawn(g, "unheard", {RunOf(r, g)}, <<RunOf(r, g)>>)
        BY <4>1, <3>1, SpawnTypes
      <4>2. CASE Spawn(g, "unheard", {RunOf(r, g)}, <<>>)
        BY <4>2, <3>1, SpawnTypes, EmptySeq
      <4> QED BY <2>3, <4>1, <4>2
    <3>3. /\ phase' \in [Runs -> {"idle", "accepted", "hello", "sent"} \cup Settled]
          /\ at' \in [Runs -> Workers \cup {NoWorker}]
      BY <2>3 DEF TypeOK, Settled
    <3>4. UNCHANGED <<closed, frameRemainder, cphase, cchild, out, logged, served>>
      BY <1>3 DEF ResumeRun
    <3> QED BY <2>3, <3>2, <3>3, <3>4 DEF TypeOK
  <2> QED BY <1>3, <2>1, <2>2, <2>3 DEF ResumeRun
<1>4. ASSUME NEW c \in Closers, Close(c) PROVE TypeOK'
  <2>1. CASE child = NoWorker
    BY <1>4, <2>1 DEF TypeOK, Close
  <2>2. CASE child # NoWorker
    <3>1. child \in Workers /\ ShutdownOf(c, child) \in Request
      BY <2>2, RequestTypes DEF TypeOK
    <3>2. inbox' \in [Workers -> Seq(Request)] /\ uncaught' \in BOOLEAN
      BY <1>4, <2>2, <3>1, WriteTypes DEF Close
    <3> QED BY <1>4, <2>2, <3>1, <3>2 DEF TypeOK, Close
  <2> QED BY <2>1, <2>2
<1>5. ASSUME NEW c \in Closers, FinishClose(c) PROVE TypeOK'
  BY <1>5, KillTypes, EmptySeq DEF TypeOK, FinishClose
<1>6. ASSUME NEW c \in Closers, ShutdownTimer(c) PROVE TypeOK'
  BY <1>6 DEF TypeOK, ShutdownTimer
<1>7. ASSUME NEW g \in Workers, DataEvent(g) PROVE TypeOK'
  <2> PICK n \in 1..Len(out[g]) : Data(g, n)
    BY <1>7 DEF DataEvent
  <2> DEFINE merged == frameRemainder \o SubSeq(out[g], 1, n)
  <2>1. out[g] \in Seq(Unit) /\ frameRemainder \in Seq(Unit)
    BY DEF TypeOK
  <2>2. merged \in Seq(Unit) /\ SubSeq(out[g], n + 1, Len(out[g])) \in Seq(Unit)
    BY <2>1, MergedUnits
  <2>3. Remaining(merged) \in Seq(Unit)
    BY <2>2, RemainingUnits
  <2>4. out' \in [Workers -> Seq(Unit)]
    BY <2>2 DEF TypeOK, Data
  <2>5. /\ frameRemainder' \in Seq(Unit)
        /\ proc' \in [Workers -> {"none", "reaped"} \cup Unreaped]
    BY <2>1, <2>3, KillTypes, SMTT(30) DEF TypeOK, Data
  <2>6. CASE RejectPending
    BY <2>4, <2>5, <2>6, RejectPendingTypes DEF TypeOK, Data
  <2>7. CASE Deliver(FramesIn(merged))
    BY <2>4, <2>5, <2>7, DeliverTypes DEF TypeOK, Data
  <2>8. CASE uncaught' = TRUE /\ UNCHANGED <<pending, frameRemainder, callVars, proc>>
    BY <2>4, <2>5, <2>8 DEF TypeOK, Data
  <2> QED BY <2>6, <2>7, <2>8 DEF Data
<1>8. ASSUME NEW g \in Workers, SpawnError(g) PROVE TypeOK'
  BY <1>8, RejectPendingTypes, EmptySeq DEF TypeOK, SpawnError, Unreaped
<1>9. ASSUME NEW g \in Workers, Exit(g) PROVE TypeOK'
  BY <1>9, RejectPendingTypes DEF TypeOK, Exit
<1>10. ASSUME NEW g \in Workers, WorkerReply(g) PROVE TypeOK'
  <2> DEFINE q == Head(inbox[g])
  <2>1. q \in Request /\ Tail(inbox[g]) \in Seq(Request)
    BY <1>10, HeadTailProperties DEF TypeOK, WorkerReply
  <2>2. \A a \in AnswersTo(q) : Frame(q, a) \in Seq(Unit)
    BY <2>1 DEF AnswersTo, Frame, Part, Unit, Answers
  <2>3. \A a \in AnswersTo(q) : out[g] \o Frame(q, a) \in Seq(Unit)
    BY <2>2, ConcatProperties DEF TypeOK
  <2> HIDE DEF q
  <2>4. out' \in [Workers -> Seq(Unit)]
    BY <1>10, <2>3 DEF TypeOK, WorkerReply, q
  <2>5. logged' \in [Workers -> Nat] /\ served' \subseteq Request
    BY <1>10, <2>1, SMTT(30) DEF TypeOK, WorkerReply, q
  <2>6. proc' \in [Workers -> {"none", "reaped"} \cup Unreaped]
    BY <1>10 DEF TypeOK, WorkerReply, Unreaped
  <2>7. <<>> \in Seq(Request)
    BY EmptySeq
  <2>8. inbox' \in [Workers -> Seq(Request)]
    BY <1>10, <2>1, <2>7 DEF TypeOK, WorkerReply, q
  <2> QED BY <1>10, <2>4, <2>5, <2>6, <2>8 DEF TypeOK, WorkerReply
<1>11. ASSUME NEW g \in Workers, WorkerDies(g) PROVE TypeOK'
  <2>1. CASE UNCHANGED out
    BY <1>11, <2>1, EmptySeq DEF TypeOK, WorkerDies, Unreaped
  <2>2. CASE /\ inbox[g] # <<>>
             /\ out' = [out EXCEPT ![g] = Append(@, Part("head", Head(inbox[g]), "result"))]
    <3>1. Part("head", Head(inbox[g]), "result") \in Unit
      BY <2>2, HeadTailProperties DEF TypeOK, Part, Unit, Answers
    <3>2. out' \in [Workers -> Seq(Unit)]
      BY <2>2, <3>1, AppendProperties DEF TypeOK
    <3> QED BY <1>11, <3>2, EmptySeq DEF TypeOK, WorkerDies, Unreaped
  <2> QED BY <1>11, <2>1, <2>2 DEF WorkerDies
<1>12. CASE UNCHANGED vars
  BY <1>12 DEF TypeOK, vars
<1> QED
  BY <1>1, <1>2, <1>3, <1>4, <1>5, <1>6, <1>7, <1>8, <1>9, <1>10, <1>11, <1>12 DEF Next

\* Every variable keeps its type, for every instance.
THEOREM TypeCorrect == Spec => []TypeOK
<1>1. Init => TypeOK
  <2>1. <<>> \in Seq(Unit) /\ <<>> \in Seq(Request)
    BY EmptySeq
  <2>2. Init => /\ frameRemainder \in Seq(Unit)
                /\ inbox \in [Workers -> Seq(Request)]
                /\ out \in [Workers -> Seq(Unit)]
    BY <2>1 DEF Init
  <2>3. Init => child \in Workers \cup {NoWorker} /\ spawned \in 0..MaxWorkers
    BY DEF Init
  <2>4. Init => /\ closed \in BOOLEAN /\ uncaught \in BOOLEAN
                /\ pending \subseteq Request /\ served \subseteq Request
    BY DEF Init
  <2>5. Init => /\ at \in [Runs -> Workers \cup {NoWorker}]
                /\ cchild \in [Closers -> Workers \cup {NoWorker}]
                /\ logged \in [Workers -> Nat]
    BY DEF Init
  <2> QED BY <2>2, <2>3, <2>4, <2>5 DEF Init, TypeOK
<1> QED BY <1>1, TypeStep, PTL DEF Spec
-------------------------------------------------------------------------------
(* Ownership of the worker.  OneWorker and PendingIsCurrent speak of the   *)
(* time before close(); to use that, a close() that got past its call must *)
(* have set closed.                                                        *)

CloseIsKnown == \A c \in Closers : cphase[c] # "idle" => closed

Ownership == OneWorker /\ PendingIsCurrent /\ CloseIsKnown

\* What RejectPending and Deliver leave of it: they only shrink pending, and
\* a close() they resume was waiting.
LEMMA SettlingKeepsCloseKnown ==
    ASSUME TypeOK, CloseIsKnown, closed' = closed,
           \/ RejectPending
           \/ \E frames : Deliver(frames)
    PROVE  CloseIsKnown' /\ pending' \subseteq pending
BY DEF TypeOK, CloseIsKnown, RejectPending, Deliver

\* The ownership of processes and of pending requests is inductive.
LEMMA OwnershipStep == TypeOK /\ Ownership /\ [Next]_vars => Ownership'
<1> SUFFICES ASSUME TypeOK, Ownership, [Next]_vars PROVE Ownership'
  OBVIOUS
<1> USE DEF hostVars, callVars, workerVars
<1>1. ASSUME NEW r \in Runs, Run(r) PROVE Ownership'
  BY <1>1 DEF Ownership, OneWorker, PendingIsCurrent, CloseIsKnown, Run
<1>2. ASSUME NEW g \in Workers, NEW promise, NEW requests, NEW messages,
             Spawn(g, promise, requests, messages),
             \A q \in requests : q.to = g,
             UNCHANGED <<closed, cphase>>
      PROVE  Ownership'
  <2>1. OneWorker'
    BY <1>2 DEF TypeOK, Ownership, OneWorker, Spawn, CanSpawn, Unreaped, Live, NoWorker, Workers
  <2>2. closed \/ pending = {}
    BY <1>2 DEF TypeOK, Ownership, PendingIsCurrent, Spawn, CanSpawn, Request, NoWorker, Workers
  <2>3. PendingIsCurrent'
    BY <1>2, <2>2 DEF PendingIsCurrent, Spawn, HelloOf
  <2>4. CloseIsKnown'
    BY <1>2 DEF Ownership, CloseIsKnown
  <2> QED BY <2>1, <2>3, <2>4 DEF Ownership
<1>3. ASSUME NEW r \in Runs, StartRun(r) PROVE Ownership'
  <2>1. ASSUME NEW g \in Workers, Spawn(g, "pending", {}, <<>>) PROVE Ownership'
    BY <1>2, <1>3, <2>1 DEF StartRun
  <2>2. CASE UNCHANGED <<child, pending, proc>>
    BY <1>3, <2>2 DEF StartRun, Ownership, OneWorker, PendingIsCurrent, CloseIsKnown
  <2> QED BY <1>3, <2>1, <2>2 DEF StartRun
<1>4. ASSUME NEW r \in Runs, ResumeRun(r) PROVE Ownership'
  <2>1. ASSUME NEW g \in Workers, NEW messages,
               Spawn(g, "unheard", {RunOf(r, g)}, messages)
        PROVE  Ownership'
    <3>1. \A q \in {RunOf(r, g)} : q.to = g
      BY DEF RunOf
    <3> QED BY <1>2, <1>4, <2>1, <3>1 DEF ResumeRun
  <2>2. CASE UNCHANGED <<child, pending, proc>>
    BY <1>4, <2>2 DEF ResumeRun, Ownership, OneWorker, PendingIsCurrent, CloseIsKnown
  <2>3. CASE UNCHANGED <<child, proc>> /\ pending' = pending \cup {RunOf(r, child)}
    BY <1>4, <2>3 DEF ResumeRun, Ownership, OneWorker, PendingIsCurrent, CloseIsKnown, RunOf
  <2> QED BY <1>4, <2>1, <2>2, <2>3 DEF ResumeRun
<1>5. ASSUME NEW c \in Closers, Close(c) PROVE Ownership'
  BY <1>5 DEF Close, Ownership, OneWorker, PendingIsCurrent, CloseIsKnown
<1>6. ASSUME NEW c \in Closers, FinishClose(c) PROVE Ownership'
  <2>1. closed /\ closed'
    BY <1>6 DEF FinishClose, Ownership, CloseIsKnown
  <2> QED BY <2>1 DEF Ownership, OneWorker, PendingIsCurrent, CloseIsKnown
<1>7. ASSUME NEW c \in Closers, ShutdownTimer(c) PROVE Ownership'
  <2>1. closed /\ closed'
    BY <1>7 DEF ShutdownTimer, Ownership, CloseIsKnown
  <2> QED BY <2>1 DEF Ownership, OneWorker, PendingIsCurrent, CloseIsKnown
<1>8. ASSUME NEW g \in Workers, DataEvent(g) PROVE Ownership'
  <2> PICK n \in 1..Len(out[g]) : Data(g, n)
    BY <1>8 DEF DataEvent
  <2>1. UNCHANGED <<closed, child>> /\ (proc' = proc \/ proc' = Kill(proc, g))
    BY DEF Data
  <2>2. \A h \in Workers : proc'[h] \in Unreaped => proc[h] \in Unreaped
    BY <2>1 DEF TypeOK, Kill, Unreaped, Live
  <2>3. CloseIsKnown' /\ pending' \subseteq pending
    <3>1. CASE RejectPending
      BY <3>1, <2>1, SettlingKeepsCloseKnown DEF Ownership
    <3>2. ASSUME NEW frames, Deliver(frames) PROVE CloseIsKnown' /\ pending' \subseteq pending
      BY <3>2, <2>1, SettlingKeepsCloseKnown DEF Ownership
    <3>3. CASE UNCHANGED <<pending, frameRemainder, callVars, proc>>
      BY <3>3, <2>1 DEF Ownership, CloseIsKnown
    <3> QED BY <3>1, <3>2, <3>3 DEF Data
  <2> QED BY <2>1, <2>2, <2>3 DEF Ownership, OneWorker, PendingIsCurrent
<1>9. ASSUME NEW g \in Workers, SpawnError(g) PROVE Ownership'
  <2>1. CloseIsKnown' /\ pending' \subseteq pending
    BY <1>9, SettlingKeepsCloseKnown DEF SpawnError, Ownership
  <2>2. \A h \in Workers : proc'[h] \in Unreaped => proc[h] \in Unreaped
    BY <1>9 DEF TypeOK, SpawnError, Unreaped, Live
  <2> QED BY <1>9, <2>1, <2>2 DEF SpawnError, Ownership, OneWorker, PendingIsCurrent
<1>10. ASSUME NEW g \in Workers, Exit(g) PROVE Ownership'
  <2>1. CloseIsKnown'
    BY <1>10, SettlingKeepsCloseKnown DEF Exit, Ownership
  <2>2. PendingIsCurrent'
    BY <1>10 DEF Exit, RejectPending, PendingIsCurrent
  <2>3. OneWorker'
    BY <1>10 DEF TypeOK, Exit, Ownership, OneWorker, Unreaped, Live
  <2> QED BY <2>1, <2>2, <2>3 DEF Ownership
<1>11. ASSUME NEW g \in Workers, WorkerReply(g) \/ WorkerDies(g) PROVE Ownership'
  <2>1. \A h \in Workers : proc'[h] \in Unreaped => proc[h] \in Unreaped
    BY <1>11 DEF TypeOK, WorkerReply, WorkerDies, Unreaped, Live
  <2>2. UNCHANGED <<closed, child, pending, cphase>>
    BY <1>11 DEF WorkerReply, WorkerDies
  <2> QED BY <2>1, <2>2 DEF Ownership, OneWorker, PendingIsCurrent, CloseIsKnown
<1>12. CASE UNCHANGED vars
  BY <1>12 DEF vars, Ownership, OneWorker, PendingIsCurrent, CloseIsKnown
<1> QED
  BY <1>1, <1>3, <1>4, <1>5, <1>6, <1>7, <1>8, <1>9, <1>10, <1>11, <1>12 DEF Next

\* Ownership holds in every reachable state.
LEMMA OwnershipHolds == Spec => []Ownership
<1>1. Init => Ownership
  BY DEF Init, Ownership, OneWorker, PendingIsCurrent, CloseIsKnown, Unreaped, Live
<1> QED BY <1>1, TypeCorrect, OwnershipStep, PTL DEF Spec

\* Until close(), ensureStarted and the exit handler between them never let
\* two processes be unreaped, nor lose track of the one there is.
THEOREM OneWorkerHolds == Spec => []OneWorker
BY OwnershipHolds, PTL DEF Ownership

\* Until close(), what the exit and frame_too_large handlers reject are
\* requests of the current worker only.
THEOREM PendingIsCurrentHolds == Spec => []PendingIsCurrent
BY OwnershipHolds, PTL DEF Ownership
-------------------------------------------------------------------------------
(* No handler loses a caller.  A run that starts joins the hello of the    *)
(* worker that is there, so that hello must itself be pending or settled;  *)
(* and a close() that ends has a worker in cchild, which is what makes     *)
(* PendingDropped hold from then on.                                       *)

HelloKept(g) == helloState[g] \in {"ok", "failed"} \/ HelloOf(g) \in pending

CallersKept ==
    /\ \A c \in Closers : cphase[c] \in {"waiting", "resumed"} => cchild[c] # NoWorker
    /\ PendingDropped \/
       /\ child # NoWorker => HelloKept(child)
       /\ \A r \in Runs : /\ phase[r] = "sent" => RunOf(r, at[r]) \in pending
                          /\ phase[r] = "hello" => HelloKept(at[r])
    /\ \A r \in Runs : phase[r] = "hello" => at[r] \in Workers

\* A step that settles pending requests settles their callers with them.
LEMMA SettlingKeepsCallers ==
    ASSUME TypeOK, CallersKept, child' = child \/ child' = NoWorker,
           \/ RejectPending
           \/ \E frames : Deliver(frames)
    PROVE  CallersKept'
<1> DEFINE gone(q) == q \in pending /\ q \notin pending'
<1> DEFINE RunsKept ==
       \A r \in Runs : /\ phase'[r] = "sent" => phase[r] = "sent" /\ ~ gone(RunOf(r, at[r]))
                       /\ phase'[r] = "hello" => phase[r] = "hello"
<1> DEFINE HellosKept ==
       \A g \in Workers :
          /\ gone(HelloOf(g)) => helloState'[g] \in {"ok", "failed"}
          /\ helloState[g] \in {"ok", "failed"} => helloState'[g] \in {"ok", "failed"}
<1> DEFINE ClosersKept ==
       \A c \in Closers :
          /\ cphase'[c] \in {"waiting", "resumed"} => cphase[c] \in {"waiting", "resumed"}
          /\ cphase[c] = "done" => cphase'[c] = "done"
<1>1. ASSUME RejectPending PROVE RunsKept /\ HellosKept /\ ClosersKept
  <2>1. RunsKept
    BY <1>1 DEF TypeOK, RejectPending, AwaitsAnswer
  <2>2. HellosKept
    BY <1>1 DEF TypeOK, RejectPending
  <2>3. ClosersKept
    BY <1>1 DEF TypeOK, RejectPending
  <2> QED BY <2>1, <2>2, <2>3
<1>2. ASSUME NEW frames, Deliver(frames) PROVE RunsKept /\ HellosKept /\ ClosersKept
  <2>1. RunsKept
    BY <1>2 DEF TypeOK, Deliver
  <2>2. HellosKept
    BY <1>2 DEF TypeOK, Deliver
  <2>3. ClosersKept
    BY <1>2 DEF TypeOK, Deliver
  <2> QED BY <2>1, <2>2, <2>3
<1>3. RunsKept /\ HellosKept /\ ClosersKept
  BY <1>1, <1>2
<1>4. UNCHANGED <<at, cchild>>
  BY DEF RejectPending, Deliver
<1>5. PendingDropped => PendingDropped'
  BY <1>3, <1>4 DEF PendingDropped
<1>6. \A g \in Workers : HelloKept(g) => HelloKept(g)'
  BY <1>3 DEF HelloKept
<1>7. child' # NoWorker => child' = child /\ child \in Workers
  BY DEF TypeOK
<1> QED BY <1>3, <1>4, <1>5, <1>6, <1>7 DEF CallersKept

\* No step forgets the entry of a caller that still waits for it.
LEMMA CallersStep == TypeOK /\ CallersKept /\ [Next]_vars => CallersKept'
<1> SUFFICES ASSUME TypeOK, CallersKept, [Next]_vars PROVE CallersKept'
  OBVIOUS
<1> USE DEF hostVars, callVars, workerVars
<1>1. ASSUME NEW r \in Runs, Run(r) PROVE CallersKept'
  BY <1>1 DEF TypeOK, CallersKept, PendingDropped, HelloKept, Run, Admission
<1>2. ASSUME NEW r \in Runs, StartRun(r) PROVE CallersKept'
  <2>1. PendingDropped <=> PendingDropped'
    BY <1>2 DEF StartRun, PendingDropped
  <2>2. \A q \in pending : q \in pending'
    BY <1>2 DEF StartRun, Spawn
  <2>3. CASE phase' = [phase EXCEPT ![r] = "failed"] /\
             UNCHANGED <<child, pending, at, helloState>>
    BY <1>2, <2>1, <2>3 DEF TypeOK, StartRun, CallersKept, HelloKept
  <2>4. CASE /\ child # NoWorker /\ UNCHANGED <<child, pending>>
             /\ phase' = [phase EXCEPT ![r] = "hello"]
             /\ at' = [at EXCEPT ![r] = child]
             /\ helloState' = [helloState EXCEPT ![child] =
                                  IF @ = "unheard" THEN "pending" ELSE @]
    <3>1. \A g \in Workers : HelloKept(g) => HelloKept(g)'
      BY <2>4 DEF TypeOK, HelloKept
    <3>2. child \in Workers
      BY <2>4 DEF TypeOK
    <3> QED BY <1>2, <2>1, <2>4, <3>1, <3>2 DEF TypeOK, StartRun, CallersKept
  <2>5. ASSUME NEW g \in Workers, Spawn(g, "pending", {}, <<>>),
               phase' = [phase EXCEPT ![r] = "hello"], at' = [at EXCEPT ![r] = g]
        PROVE  CallersKept'
    <3>1. HelloKept(g)' /\ child' = g
      BY <2>5 DEF HelloKept, Spawn
    <3>2. \A h \in Workers : HelloKept(h) => HelloKept(h)'
      BY <2>2, <2>5, <3>1 DEF TypeOK, HelloKept, Spawn
    <3> QED BY <1>2, <2>1, <2>2, <2>5, <3>1, <3>2 DEF TypeOK, StartRun, CallersKept
  <2> QED BY <1>2, <2>3, <2>4, <2>5 DEF StartRun
<1>3. ASSUME NEW r \in Runs, ResumeRun(r) PROVE CallersKept'
  <2>1. PendingDropped <=> PendingDropped'
    BY <1>3 DEF ResumeRun, PendingDropped
  <2>2. \A q \in pending : q \in pending'
    BY <1>3 DEF ResumeRun, Spawn
  <2>3. CASE phase' = [phase EXCEPT ![r] = "failed"] /\
             UNCHANGED <<child, pending, at, helloState>>
    BY <1>3, <2>1, <2>3 DEF TypeOK, ResumeRun, CallersKept, HelloKept
  <2>4. CASE /\ UNCHANGED <<child, helloState>>
             /\ at' = [at EXCEPT ![r] = child]
             /\ pending' = pending \cup {RunOf(r, child)}
             /\ \/ phase' = [phase EXCEPT ![r] = "sent"]
                \/ phase' = [phase EXCEPT ![r] = "failed"]
    <3>1. \A g \in Workers : HelloKept(g) => HelloKept(g)'
      BY <2>4 DEF HelloKept
    <3>2. child # NoWorker => child \in Workers
      BY DEF TypeOK
    <3> QED BY <1>3, <2>1, <2>4, <3>1, <3>2 DEF TypeOK, ResumeRun, CallersKept
  <2>5. ASSUME NEW g \in Workers, NEW messages,
               Spawn(g, "unheard", {RunOf(r, g)}, messages),
               at' = [at EXCEPT ![r] = g],
               \/ phase' = [phase EXCEPT ![r] = "sent"]
               \/ phase' = [phase EXCEPT ![r] = "failed"]
        PROVE  CallersKept'
    <3>1. HelloKept(g)' /\ child' = g /\ RunOf(r, g) \in pending'
      BY <2>5 DEF HelloKept, Spawn
    <3>2. \A h \in Workers : HelloKept(h) => HelloKept(h)'
      BY <2>2, <2>5, <3>1 DEF TypeOK, HelloKept, Spawn
    <3> QED BY <1>3, <2>1, <2>2, <2>5, <3>1, <3>2 DEF TypeOK, ResumeRun, CallersKept
  <2> QED BY <1>3, <2>3, <2>4, <2>5 DEF ResumeRun
<1>4. ASSUME NEW c \in Closers, Close(c) PROVE CallersKept'
  <2>1. PendingDropped => PendingDropped'
    BY <1>4 DEF TypeOK, Close, PendingDropped
  <2>2. \A q \in pending : q \in pending'
    BY <1>4 DEF Close
  <2>3. \A g \in Workers : HelloKept(g) => HelloKept(g)'
    BY <1>4, <2>2 DEF Close, HelloKept
  <2>4. child # NoWorker => child \in Workers
    BY DEF TypeOK
  <2> QED BY <1>4, <2>1, <2>2, <2>3, <2>4 DEF TypeOK, Close, CallersKept
<1>5. ASSUME NEW c \in Closers, FinishClose(c) PROVE CallersKept'
  <2>1. PendingDropped'
    BY <1>5 DEF TypeOK, FinishClose, PendingDropped, CallersKept
  <2> QED BY <1>5, <2>1 DEF TypeOK, FinishClose, CallersKept
<1>6. ASSUME NEW c \in Closers, ShutdownTimer(c) PROVE CallersKept'
  <2>1. PendingDropped <=> PendingDropped'
    BY <1>6 DEF TypeOK, ShutdownTimer, PendingDropped
  <2> QED BY <1>6, <2>1 DEF TypeOK, ShutdownTimer, CallersKept, HelloKept
<1>7. ASSUME NEW g \in Workers, DataEvent(g) PROVE CallersKept'
  <2> PICK n \in 1..Len(out[g]) : Data(g, n)
    BY <1>7 DEF DataEvent
  <2>1. CASE RejectPending
    BY <2>1, SettlingKeepsCallers DEF Data
  <2>2. ASSUME NEW frames, Deliver(frames) PROVE CallersKept'
    BY <2>2, SettlingKeepsCallers DEF Data
  <2>3. CASE UNCHANGED <<pending, frameRemainder, callVars, proc>>
    BY <2>3 DEF Data, CallersKept, PendingDropped, HelloKept
  <2> QED BY <2>1, <2>2, <2>3 DEF Data
<1>8. ASSUME NEW g \in Workers, SpawnError(g) \/ Exit(g) PROVE CallersKept'
  BY <1>8, SettlingKeepsCallers DEF SpawnError, Exit
<1>9. ASSUME NEW g \in Workers, WorkerReply(g) \/ WorkerDies(g) PROVE CallersKept'
  BY <1>9 DEF WorkerReply, WorkerDies, CallersKept, PendingDropped, HelloKept
<1>10. CASE UNCHANGED vars
  BY <1>10 DEF vars, CallersKept, PendingDropped, HelloKept
<1> QED
  BY <1>1, <1>2, <1>3, <1>4, <1>5, <1>6, <1>7, <1>8, <1>9, <1>10 DEF Next

\* Exits, oversized frames, failed spawns, respawns and protocol errors never
\* leave a run waiting for an entry that is not in pending; only close() does.
THEOREM NoLostRunHolds == Spec => []NoLostRun
<1>1. Init => CallersKept
  BY DEF Init, CallersKept
<1>2. CallersKept => NoLostRun
  BY DEF CallersKept, NoLostRun, HelloKept
<1> QED BY <1>1, <1>2, TypeCorrect, CallersStep, PTL DEF Spec
-------------------------------------------------------------------------------
(* A caller gets its own answer.  The body of a frame is only in a stream  *)
(* when the request was served; a run is written to one worker, the one    *)
(* at[r] names, and at[r] does not change after that.                      *)

Gone == {"sent"} \cup Settled      \* phases of a run after its write

WrittenRequests ==
    {q \in Request : q.type = "run" =>
        q.of \in Runs /\ q.to = at[q.of] /\ phase[q.of] \in Gone}

ServedUnits == {u \in Unit : u.part = "body" => u.request \in served}

AnswersKnown ==
    /\ served \subseteq WrittenRequests
    /\ inbox \in [Workers -> Seq(WrittenRequests)]
    /\ out \in [Workers -> Seq(ServedUnits)]
    /\ frameRemainder \in Seq(ServedUnits)
    /\ \A r \in Runs : phase[r] = "result" => RunOf(r, at[r]) \in served

\* Once written, a run stays where it was written: no step after the write
\* moves at[r] or takes the run back to an earlier phase.
LEMMA WrittenStays ==
    ASSUME TypeOK, [Next]_vars
    PROVE  /\ \A r \in Runs : phase[r] \in Gone => phase'[r] \in Gone /\ at'[r] = at[r]
           /\ WrittenRequests \subseteq WrittenRequests'
<1> USE DEF hostVars, callVars, workerVars
<1> DEFINE Stays == \A r \in Runs : phase[r] \in Gone => phase'[r] \in Gone /\ at'[r] = at[r]
<1>1. ASSUME NEW r \in Runs, Run(r) \/ StartRun(r) \/ ResumeRun(r) PROVE Stays
  <2>1. phase[r] \in {"idle", "accepted", "hello"}
    BY <1>1 DEF Run, StartRun, ResumeRun, Resumable
  <2>2. \A s \in Runs : s # r => phase'[s] = phase[s] /\ at'[s] = at[s]
    BY <1>1 DEF TypeOK, Run, StartRun, ResumeRun
  <2>3. phase[r] \notin Gone
    BY <2>1 DEF Gone, Settled
  <2> QED BY <2>2, <2>3
<1>2. ASSUME NEW c \in Closers, Close(c) \/ FinishClose(c) \/ ShutdownTimer(c) PROVE Stays
  BY <1>2 DEF Close, FinishClose, ShutdownTimer
<1>3. ASSUME RejectPending PROVE Stays
  BY <1>3 DEF TypeOK, RejectPending, Gone, Settled
<1>4. ASSUME NEW frames, Deliver(frames) PROVE Stays
  BY <1>4 DEF TypeOK, Deliver, Gone, Settled
<1>5. ASSUME NEW g \in Workers, DataEvent(g) \/ SpawnError(g) \/ Exit(g) PROVE Stays
  <2>1. CASE SpawnError(g) \/ Exit(g)
    BY <2>1, <1>3 DEF SpawnError, Exit
  <2>2. CASE DataEvent(g)
    <3> PICK n \in 1..Len(out[g]) : Data(g, n)
      BY <2>2 DEF DataEvent
    <3>1. CASE UNCHANGED <<pending, frameRemainder, callVars, proc>>
      BY <3>1
    <3> QED BY <3>1, <1>3, <1>4 DEF Data
  <2> QED BY <1>5, <2>1, <2>2
<1>6. ASSUME NEW g \in Workers, WorkerReply(g) \/ WorkerDies(g) PROVE Stays
  BY <1>6 DEF WorkerReply, WorkerDies
<1>7. ASSUME UNCHANGED vars PROVE Stays
  BY <1>7 DEF vars
<1>8. Stays
  BY <1>1, <1>2, <1>5, <1>6, <1>7 DEF Next
<1>9. WrittenRequests \subseteq WrittenRequests'
  BY <1>8 DEF WrittenRequests
<1> QED BY <1>8, <1>9

\* The frames decoded from units whose bodies are served are answers to
\* served requests: decodeFrames cuts off a frame only when its body is there.
LEMMA FramesServed ==
    ASSUME NEW m \in Seq(ServedUnits), NEW f \in FramesIn(m)
    PROVE  f.request \in served
<1> PICK k \in WholeFrames(m) : f = m[2 * k - 1]
  BY DEF FramesIn
<1>1. k \in 1..Len(m) /\ IsFrame(m, k)
  BY DEF WholeFrames
<1>2. Len(m) \in Nat
  BY LenProperties
<1>3. 2 * k \in 1..Len(m) /\ 2 * k - 1 \in 1..Len(m)
  BY <1>1, <1>2 DEF IsFrame
<1>4. f \in Unit /\ m[2 * k] \in ServedUnits
  BY <1>3, ElementOfSeq DEF ServedUnits
<1>5. m[2 * k] = [f EXCEPT !.part = "body"]
  BY <1>1 DEF IsFrame
<1>6. m[2 * k].part = "body" /\ m[2 * k].request = f.request
  BY <1>4, <1>5 DEF Unit
<1> QED BY <1>4, <1>6 DEF ServedUnits

\* No step of a caller, a handler or a worker puts an answer in a stream, or
\* settles a run with one, that the worker it was written to did not give.
LEMMA AnswersStep == TypeOK /\ AnswersKnown /\ [Next]_vars => AnswersKnown'
<1> SUFFICES ASSUME TypeOK, AnswersKnown, [Next]_vars PROVE AnswersKnown'
  OBVIOUS
<1> USE DEF hostVars, callVars, workerVars
<1> DEFINE InboxWritten == inbox' \in [Workers -> Seq(WrittenRequests')]
<1> DEFINE NewResults == {r \in Runs : phase'[r] = "result" /\ phase[r] # "result"}
<1>w. WrittenRequests \subseteq WrittenRequests'
  BY WrittenStays
<1>r. \A r \in Runs : phase[r] = "result" => at'[r] = at[r]
  BY WrittenStays DEF Gone, Settled
<1>m. \A g \in Workers : inbox[g] \in Seq(WrittenRequests')
  BY <1>w, SeqMonotonic DEF AnswersKnown
<1>i. ASSUME UNCHANGED inbox PROVE InboxWritten
  BY <1>m, <1>i DEF TypeOK
<1>u. ASSUME UNCHANGED served PROVE ServedUnits' = ServedUnits
  BY <1>u DEF ServedUnits
<1>q. ASSUME NewResults = {}, InboxWritten, UNCHANGED <<out, frameRemainder, served>>
      PROVE  AnswersKnown'
  BY <1>w, <1>r, <1>q, <1>u DEF AnswersKnown
<1>p. ASSUME NEW g \in Workers, NEW q \in WrittenRequests', WriteTo(g, <<q>>)
      PROVE  InboxWritten
  <2>1. inbox[g] \in Seq(WrittenRequests') /\ <<q>> \in Seq(WrittenRequests')
    BY <1>m
  <2>2. inbox[g] \o <<q>> \in Seq(WrittenRequests')
    BY <2>1, ConcatProperties
  <2> QED BY <1>p, <1>m, <2>2 DEF TypeOK, WriteTo
<1>s. ASSUME NEW g \in Workers, NEW promise, NEW requests,
             NEW messages \in Seq(WrittenRequests'),
             Spawn(g, promise, requests, messages)
      PROVE  InboxWritten
  <2>1. HelloOf(g) \in WrittenRequests'
    BY RequestTypes DEF WrittenRequests, HelloOf
  <2>2. <<HelloOf(g)>> \in Seq(WrittenRequests')
    BY <2>1
  <2>3. <<HelloOf(g)>> \o messages \in Seq(WrittenRequests')
    BY <2>2, ConcatProperties
  <2> QED BY <1>s, <1>m, <2>3 DEF TypeOK, Spawn
<1>e. <<>> \in Seq(WrittenRequests') /\ <<>> \in Seq(ServedUnits')
  BY EmptySeq
<1>1. ASSUME NEW r \in Runs, Run(r) PROVE AnswersKnown'
  <2>1. NewResults = {}
    BY <1>1 DEF TypeOK, Run, Admission
  <2> QED BY <1>1, <2>1, <1>i, <1>q DEF Run
<1>2. ASSUME NEW r \in Runs, StartRun(r) PROVE AnswersKnown'
  <2>1. NewResults = {}
    BY <1>2 DEF TypeOK, StartRun
  <2>2. ASSUME NEW g \in Workers, Spawn(g, "pending", {}, <<>>) PROVE InboxWritten
    BY <2>2, <1>e, <1>s
  <2>3. InboxWritten
    BY <1>2, <1>i, <2>2 DEF StartRun
  <2> QED BY <1>2, <2>1, <2>3, <1>q DEF StartRun
<1>3. ASSUME NEW r \in Runs, ResumeRun(r) PROVE AnswersKnown'
  <2>1. NewResults = {}
    BY <1>3 DEF TypeOK, ResumeRun
  <2>2. ASSUME NEW g \in Workers, at' = [at EXCEPT ![r] = g],
               phase' = [phase EXCEPT ![r] = "sent"]
        PROVE  RunOf(r, g) \in WrittenRequests' /\ <<RunOf(r, g)>> \in Seq(WrittenRequests')
    <3>1. RunOf(r, g) \in Request
      BY RequestTypes
    <3>2. RunOf(r, g).of = r /\ RunOf(r, g).to = g
      BY DEF RunOf
    <3>3. at'[r] = g /\ phase'[r] \in Gone
      BY <2>2 DEF TypeOK, Gone
    <3>4. RunOf(r, g) \in WrittenRequests'
      BY <3>1, <3>2, <3>3 DEF WrittenRequests
    <3> QED BY <3>4
  <2>3. ASSUME NEW g \in Workers, at' = [at EXCEPT ![r] = g],
               phase' = [phase EXCEPT ![r] = "sent"],
               Spawn(g, "unheard", {RunOf(r, g)}, <<RunOf(r, g)>>)
        PROVE  InboxWritten
    BY <2>2, <2>3, <1>s
  <2>4. ASSUME NEW g \in Workers, Spawn(g, "unheard", {RunOf(r, g)}, <<>>)
        PROVE  InboxWritten
    BY <1>e, <2>4, <1>s
  <2>5. ASSUME child # NoWorker, at' = [at EXCEPT ![r] = child],
               phase' = [phase EXCEPT ![r] = "sent"],
               WriteTo(child, <<RunOf(r, child)>>)
        PROVE  InboxWritten
    <3>1. child \in Workers
      BY <2>5 DEF TypeOK
    <3> QED BY <3>1, <2>2, <2>5, <1>p
  <2>6. InboxWritten
    BY <1>3, <1>i, <2>3, <2>4, <2>5 DEF ResumeRun
  <2> QED BY <1>3, <2>1, <2>6, <1>q DEF ResumeRun
<1>4. ASSUME NEW c \in Closers, Close(c) PROVE AnswersKnown'
  <2>1. ASSUME child # NoWorker, WriteTo(child, <<ShutdownOf(c, child)>>) PROVE InboxWritten
    <3>1. child \in Workers /\ ShutdownOf(c, child) \in Request
      BY <2>1, RequestTypes DEF TypeOK
    <3>2. ShutdownOf(c, child) \in WrittenRequests'
      BY <3>1 DEF WrittenRequests, ShutdownOf
    <3> QED BY <2>1, <3>1, <3>2, <1>p
  <2>2. NewResults = {}
    BY <1>4 DEF Close
  <2> QED BY <1>4, <2>1, <2>2, <1>i, <1>q DEF Close
<1>5. ASSUME NEW c \in Closers, FinishClose(c) PROVE AnswersKnown'
  <2>1. frameRemainder' = <<>> /\ UNCHANGED <<phase, inbox, out, served>>
    BY <1>5 DEF FinishClose
  <2> QED BY <2>1, <1>i, <1>e, <1>w, <1>r, <1>u DEF AnswersKnown
<1>6. ASSUME NEW c \in Closers, ShutdownTimer(c) PROVE AnswersKnown'
  BY <1>6, <1>i, <1>q DEF ShutdownTimer
<1>7. ASSUME NEW g \in Workers, DataEvent(g) PROVE AnswersKnown'
  <2> PICK n \in 1..Len(out[g]) : Data(g, n)
    BY <1>7 DEF DataEvent
  <2> DEFINE merged == frameRemainder \o SubSeq(out[g], 1, n)
  <2>1. out[g] \in Seq(ServedUnits) /\ frameRemainder \in Seq(ServedUnits)
    BY DEF AnswersKnown
  <2>2. merged \in Seq(ServedUnits) /\ SubSeq(out[g], n + 1, Len(out[g])) \in Seq(ServedUnits)
    BY <2>1, MergedUnits
  <2>3. Remaining(merged) \in Seq(ServedUnits)
    BY <2>2, RemainingUnits
  <2>4. UNCHANGED <<inbox, served>>
    BY DEF Data
  <2>5. out' \in [Workers -> Seq(ServedUnits)]
    BY <2>2 DEF Data, AnswersKnown
  <2>6. frameRemainder' \in Seq(ServedUnits)
    BY <2>1, <2>3 DEF Data
  <2>7. \A r \in NewResults : RunOf(r, at[r]) \in served /\ at'[r] = at[r]
    <3>1. CASE RejectPending
      BY <3>1 DEF TypeOK, RejectPending
    <3>2. CASE Deliver(FramesIn(merged))
      <4> HIDE DEF merged
      <4>1. \A r \in NewResults : /\ at'[r] = at[r]
                                  /\ \E f \in FramesIn(merged) : f.request = RunOf(r, at[r])
        BY <3>2 DEF TypeOK, Deliver
      <4> QED BY <4>1, <2>2, FramesServed
    <3>3. CASE UNCHANGED <<pending, frameRemainder, callVars, proc>>
      BY <3>3
    <3> QED BY <3>1, <3>2, <3>3 DEF Data
  <2> QED BY <2>4, <2>5, <2>6, <2>7, <1>i, <1>w, <1>r, <1>u DEF AnswersKnown
<1>8. ASSUME NEW g \in Workers, SpawnError(g) \/ Exit(g) PROVE AnswersKnown'
  <2>1. NewResults = {}
    BY <1>8, ZenonT(60) DEF TypeOK, SpawnError, Exit, RejectPending
  <2>2. InboxWritten
    BY <1>8, <1>i, <1>m, <1>e DEF TypeOK, SpawnError, Exit
  <2> QED BY <1>8, <2>1, <2>2, <1>q DEF SpawnError, Exit
<1>9. ASSUME NEW g \in Workers, WorkerReply(g) PROVE AnswersKnown'
  <2> DEFINE q == Head(inbox[g])
  <2>1. inbox[g] \in Seq(WrittenRequests') /\ inbox[g] # <<>>
    BY <1>9, <1>m DEF WorkerReply
  <2>2. q \in WrittenRequests' /\ Tail(inbox[g]) \in Seq(WrittenRequests')
    BY <2>1, HeadTailProperties
  <2> HIDE DEF q
  <2>3. served' = served \cup {q} /\ UNCHANGED <<phase, at, frameRemainder>>
    BY <1>9 DEF WorkerReply, q
  <2>4. ServedUnits \subseteq ServedUnits'
    BY <2>3 DEF ServedUnits
  <2>5. InboxWritten
    BY <1>9, <1>m, <1>e, <2>2 DEF TypeOK, WorkerReply
  <2>6. PICK a \in AnswersTo(q) : out' = [out EXCEPT ![g] = @ \o Frame(q, a)]
    BY <1>9 DEF WorkerReply, q
  <2>7. Part("head", q, a) \in ServedUnits' /\ Part("body", q, a) \in ServedUnits'
    BY <2>2, <2>3 DEF WrittenRequests, ServedUnits, Part, Unit, AnswersTo, Answers
  <2>8. Frame(q, a) \in Seq(ServedUnits')
    BY <2>7 DEF Frame
  <2>9. \A h \in Workers : out[h] \in Seq(ServedUnits')
    BY <2>4, SeqMonotonic DEF AnswersKnown
  <2>10. out[g] \o Frame(q, a) \in Seq(ServedUnits')
    BY <2>8, <2>9, ConcatProperties
  <2>11. out' \in [Workers -> Seq(ServedUnits')]
    BY <2>6, <2>9, <2>10 DEF TypeOK
  <2>12. frameRemainder' \in Seq(ServedUnits')
    BY <2>3, <2>4, SeqMonotonic DEF AnswersKnown
  <2>13. served' \subseteq WrittenRequests'
    BY <2>2, <2>3, <1>w DEF AnswersKnown
  <2> QED BY <2>3, <2>5, <2>11, <2>12, <2>13 DEF AnswersKnown
<1>10. ASSUME NEW g \in Workers, WorkerDies(g) PROVE AnswersKnown'
  <2>1. UNCHANGED <<phase, at, frameRemainder, served>>
    BY <1>10 DEF WorkerDies
  <2>2. InboxWritten
    BY <1>10, <1>m, <1>e DEF TypeOK, WorkerDies
  <2>3. out' \in [Workers -> Seq(ServedUnits)]
    <3>1. CASE UNCHANGED out
      BY <3>1 DEF AnswersKnown
    <3>2. CASE /\ inbox[g] # <<>>
               /\ out' = [out EXCEPT ![g] = Append(@, Part("head", Head(inbox[g]), "result"))]
      <4>1. Part("head", Head(inbox[g]), "result") \in ServedUnits
        BY <3>2, HeadTailProperties DEF TypeOK, ServedUnits, Part, Unit, Answers
      <4>2. Append(out[g], Part("head", Head(inbox[g]), "result")) \in Seq(ServedUnits)
        BY <4>1, AppendProperties DEF AnswersKnown
      <4> QED BY <3>2, <4>2 DEF AnswersKnown
    <3> QED BY <1>10, <3>1, <3>2 DEF WorkerDies
  <2> QED BY <2>1, <2>2, <2>3, <1>w, <1>r, <1>u DEF AnswersKnown
<1>11. CASE UNCHANGED vars
  BY <1>11, <1>i, <1>q DEF vars
<1> QED
  BY <1>1, <1>2, <1>3, <1>4, <1>5, <1>6, <1>7, <1>8, <1>9, <1>10, <1>11 DEF Next

\* A run that resolves was answered by the worker it was written to, and no
\* restart executes a run twice.
THEOREM OwnAnswerHolds == Spec => []OwnAnswer
<1>1. Init => AnswersKnown
  BY EmptySeq DEF Init, AnswersKnown
<1>2. TypeOK /\ AnswersKnown => OwnAnswer
  <2> SUFFICES ASSUME TypeOK, AnswersKnown PROVE OwnAnswer
    OBVIOUS
  <2>1. ASSUME NEW p \in served, NEW q \in served,
               p.type = "run", q.type = "run", p.of = q.of
        PROVE  p = q
    <3>1. p \in Request /\ q \in Request /\ p.to = at[p.of] /\ q.to = at[q.of]
      BY <2>1 DEF TypeOK, AnswersKnown, WrittenRequests
    <3>2. p.to = q.to
      BY <2>1, <3>1
    <3> QED BY <2>1, <3>1, <3>2 DEF Request
  <2> QED BY <2>1 DEF AnswersKnown, OwnAnswer
<1> QED BY <1>1, <1>2, TypeCorrect, AnswersStep, PTL DEF Spec
-------------------------------------------------------------------------------
(* The transport implements the contract.  A step either makes one call,   *)
(* or settles open calls and no others, or is a close().                   *)

Status == [r \in Runs |->
              IF phase[r] \in Settled \cup {"idle"} THEN phase[r] ELSE "open"]

SettlesOpenCalls ==
    \A r \in Runs :
        \/ Status'[r] = Status[r]
        \/ Status[r] = "open" /\ Status'[r] \in {"result", "failed"}

\* A step that only settles open calls, and leaves closed alone, is a Settle
\* of the contract, or a stuttering step.
LEMMA SettlingIsSettle ==
    ASSUME SettlesOpenCalls, closed' = closed
    PROVE  [Contract!Next]_(Contract!vars)
<1>1. /\ Status = [r \in Runs |-> Status[r]] /\ Status' = [r \in Runs |-> Status'[r]]
  BY DEF Status
<1> PICK S \in SUBSET Runs : S = {r \in Runs : Status'[r] # Status[r]}
  OBVIOUS
<1>2. CASE S = {}
  <2>1. Status' = Status
    BY <1>1, <1>2
  <2> QED BY <2>1 DEF Contract!vars, Status
<1>3. CASE S # {}
  <2> DEFINE answer == [r \in S |-> Status'[r]]
  <2>1. answer \in [S -> {"result", "failed"}]
    BY DEF SettlesOpenCalls
  <2>2. Status' = [r \in Runs |-> IF r \in S THEN answer[r] ELSE Status[r]]
    BY <1>1
  <2>3. \A r \in S : Status[r] = "open"
    BY DEF SettlesOpenCalls
  <2> HIDE DEF answer
  <2>4. Contract!Settle(S)
    BY <1>3, <2>1, <2>2, <2>3 DEF Contract!Settle, Status
  <2> QED BY <2>4 DEF Contract!Next
<1> QED BY <1>2, <1>3

\* Every step of the transport is a step the contract allows, or changes
\* nothing a caller sees.
LEMMA ContractStep == TypeOK /\ [Next]_vars => [Contract!Next]_(Contract!vars)
<1> SUFFICES ASSUME TypeOK, [Next]_vars PROVE [Contract!Next]_(Contract!vars)
  OBVIOUS
<1> USE DEF hostVars, callVars, workerVars
<1>1. ASSUME NEW r \in Runs, Run(r) PROVE [Contract!Next]_(Contract!vars)
  <2>1. Status[r] = "idle" /\ closed' = closed
    BY <1>1 DEF Run, Status
  <2>2. Status' = [Status EXCEPT ![r] = IF closed THEN "refused" ELSE "open"]
    <3>1. phase' = [phase EXCEPT ![r] = IF closed THEN "refused" ELSE "accepted"]
      BY <1>1 DEF Run, Admission
    <3> QED BY <3>1 DEF TypeOK, Status, Settled
  <2>3. Contract!Call(r)
    BY <2>1, <2>2 DEF Contract!Call, Status
  <2> QED BY <2>3 DEF Contract!Next
<1>2. ASSUME NEW r \in Runs, StartRun(r) \/ ResumeRun(r)
      PROVE  [Contract!Next]_(Contract!vars)
  <2>1. phase[r] \in {"accepted", "hello"} /\ closed' = closed
    BY <1>2 DEF StartRun, ResumeRun, Resumable
  <2>2. \E p \in {"hello", "sent", "failed"} : phase' = [phase EXCEPT ![r] = p]
    BY <1>2 DEF StartRun, ResumeRun
  <2>3. SettlesOpenCalls
    BY <2>1, <2>2 DEF TypeOK, SettlesOpenCalls, Status, Settled
  <2> QED BY <2>1, <2>3, SettlingIsSettle
<1>3. ASSUME NEW c \in Closers, Close(c) PROVE [Contract!Next]_(Contract!vars)
  <2>1. closed' = TRUE /\ phase' = phase
    BY <1>3 DEF Close
  <2>2. Contract!Close
    BY <2>1 DEF Contract!Close
  <2> QED BY <2>2 DEF Contract!Next
<1>4. ASSUME UNCHANGED <<phase, closed>> PROVE [Contract!Next]_(Contract!vars)
  BY <1>4 DEF Contract!vars
<1>5. ASSUME NEW c \in Closers, FinishClose(c) \/ ShutdownTimer(c)
      PROVE  [Contract!Next]_(Contract!vars)
  BY <1>4, <1>5 DEF FinishClose, ShutdownTimer
<1>6. ASSUME closed' = closed, RejectPending \/ \E frames : Deliver(frames)
      PROVE  [Contract!Next]_(Contract!vars)
  <2>1. \A r \in Runs : \/ phase'[r] = phase[r]
                        \/ phase[r] = "sent" /\ phase'[r] \in {"result", "failed"}
    <3>1. ASSUME RejectPending
          PROVE  \A r \in Runs : \/ phase'[r] = phase[r]
                                 \/ phase[r] = "sent" /\ phase'[r] = "failed"
      BY <3>1 DEF RejectPending, AwaitsAnswer
    <3>2. ASSUME NEW frames, Deliver(frames)
          PROVE  \A r \in Runs : \/ phase'[r] = phase[r]
                                 \/ phase[r] = "sent" /\ phase'[r] \in {"result", "failed"}
      BY <3>2 DEF Deliver
    <3> QED BY <1>6, <3>1, <3>2
  <2>2. SettlesOpenCalls
    BY <2>1 DEF SettlesOpenCalls, Status, Settled
  <2> QED BY <1>6, <2>2, SettlingIsSettle
<1>7. ASSUME NEW g \in Workers, DataEvent(g) PROVE [Contract!Next]_(Contract!vars)
  <2> PICK n \in 1..Len(out[g]) : Data(g, n)
    BY <1>7 DEF DataEvent
  <2>1. closed' = closed
    BY DEF Data
  <2>2. CASE UNCHANGED <<pending, frameRemainder, callVars, proc>>
    BY <1>4, <2>1, <2>2
  <2> QED BY <1>6, <2>1, <2>2 DEF Data
<1>8. ASSUME NEW g \in Workers, SpawnError(g) \/ Exit(g)
      PROVE  [Contract!Next]_(Contract!vars)
  BY <1>6, <1>8 DEF SpawnError, Exit
<1>9. ASSUME NEW g \in Workers, WorkerReply(g) \/ WorkerDies(g)
      PROVE  [Contract!Next]_(Contract!vars)
  BY <1>4, <1>9 DEF WorkerReply, WorkerDies
<1>10. CASE UNCHANGED vars
  BY <1>4, <1>10 DEF vars
<1> QED
  BY <1>1, <1>2, <1>3, <1>5, <1>7, <1>8, <1>9, <1>10 DEF Next

\* The transport implements the contract of every runtime: a call is refused
\* exactly when close() came before it, and a settled promise stays as it is
\* through restarts, late answers and dropped workers.
THEOREM ImplementsContract == Spec => KeepsContract
<1>1. Init => Contract!Init
  BY DEF Init, Contract!Init, Settled
<1> QED BY <1>1, TypeCorrect, ContractStep, PTL DEF Spec, KeepsContract, Contract!Spec
===============================================================================
