---------------------------- MODULE ServerTransport ----------------------------
(***************************************************************************)
(* The server runtime's path from runtime.run() to the Rust worker and     *)
(* back: NodeRuntime.run/close (the Bun and Deno runtimes are the same     *)
(* text), RustWorkerTransport, and the worker's request loop.              *)
(*                                                                         *)
(* The host is one JavaScript thread.  A step of it is either a call made  *)
(* by the embedding program (Run, Close), a continuation in the microtask  *)
(* queue (StartRun, ResumeRun, FinishClose), or an event of the loop (a    *)
(* chunk of stdout, an exit, a failed spawn, the shutdown timer).  Events  *)
(* wait until the microtask queue is empty.  Worker processes are numbered *)
(* in the order they are spawned; this.child is one of the numbers.        *)
(*                                                                         *)
(* Bytes are abstracted to units: a frame is its head (any proper prefix   *)
(* that holds the length) followed by its body, and a chunk of stdout is   *)
(* any run of units, so a chunk may end in the middle of a frame.          *)
(***************************************************************************)
EXTENDS Integers, Sequences, FiniteSets

CONSTANTS
    Runs,           \* calls of runtime.run() the embedding program makes
    Closers,        \* calls of runtime.close() it makes
    MaxWorkers,     \* bound: worker processes spawned in a behaviour
    StderrLines,    \* bound: log lines the unread stderr pipe takes
    Faults          \* what may go wrong around the transport

FaultKinds ==
    {"start",       \* ensureStarted throws before it spawns
     "spawn",       \* the operating system cannot start the process
     "crash",       \* the worker dies on its own
     "torn",        \* a dying worker leaves half a frame in the pipe
     "late",        \* its last bytes are read after the next worker's first
     "epipe",       \* a write to a dead worker raises EPIPE on stdin
     "large",       \* a run request does not fit in a frame
     "oversize",    \* a run result does not fit in a frame
     "error"}       \* the worker answers with a protocol error

ASSUME WorkersAssumption == MaxWorkers \in Nat \ {0} /\ StderrLines \in Nat
ASSUME FaultsAssumption  == Faults \subseteq FaultKinds

Workers  == 1..MaxWorkers
NoWorker == 0
Adapter  == "adapter"      \* the sender of a hello

VARIABLES
    closed,          \* NodeRuntime.closed
    child,           \* RustWorkerTransport.child, NoWorker for null
    pending,         \* RustWorkerTransport.pending, the keys of the map
    frameRemainder,  \* RustWorkerTransport.frameRemainder
    phase,           \* phase[r]: how far the call run() r has come
    at,              \* at[r]: the worker whose hello or answer r awaits
    cphase,          \* cphase[c]: how far the call close() c has come
    cchild,          \* cchild[c]: the local variable child of close() c
    helloState,      \* helloState[g]: the promise of worker g's hello
    spawned,         \* how many workers were spawned
    proc,            \* proc[g]: the process of worker g
    inbox,           \* inbox[g]: requests in its stdin
    out,             \* out[g]: units in its stdout the host has not read
    logged,          \* logged[g]: lines it left in its stderr
    served,          \* the requests some worker has answered
    uncaught         \* an exception or a rejection nobody handles

hostVars   == <<closed, child, pending, frameRemainder>>
callVars   == <<phase, at, cphase, cchild, helloState>>
workerVars == <<spawned, proc, inbox, out, logged, served>>
vars       == <<hostVars, callVars, workerVars, uncaught>>
-------------------------------------------------------------------------------
(* Requests, and the units their answers are made of.                      *)

Request == [type : {"hello", "run", "shutdown"},
            of   : {Adapter} \cup Runs \cup Closers,
            to   : Workers]

HelloOf(g)       == [type |-> "hello",    of |-> Adapter, to |-> g]
RunOf(r, g)      == [type |-> "run",      of |-> r,       to |-> g]
CancelOf(c, g)   == [type |-> "cancel",   of |-> c,       to |-> g]   \* mutant: other message
ShutdownOf(c, g) == [type |-> "shutdown", of |-> c,       to |-> g]

Answers == {"result", "error", "oversize"}

Unit == [part : {"head", "body"}, request : Request, answer : Answers]

Part(p, q, a) == [part |-> p, request |-> q, answer |-> a]
Frame(q, a)   == <<Part("head", q, a), Part("body", q, a)>>

Live      == {"up", "killed"}            \* the process is running
Unreaped  == Live \cup {"dead", "failed"}
Settled   == {"result", "failed", "refused"}
-------------------------------------------------------------------------------
(* decodeFrames on the remainder and a chunk: whole frames are cut off the *)
(* front, and what it stops at decides the rest.                           *)

IsFrameUnchecked(m, i) ==                                    \* mutant: length not checked
    2 * i <= Len(m) /\ m[2 * i - 1].part = "head"
IsFrame(m, i) ==
    /\ 2 * i <= Len(m)
    /\ m[2 * i - 1].part = "head"
    /\ m[2 * i - 1].answer # "oversize"
    /\ m[2 * i] = [m[2 * i - 1] EXCEPT !.part = "body"]

\* The frames decodeFrames cuts off the front of m: frame i is its units
\* 2i - 1 and 2i.
WholeFrames(m) == {k \in 1..Len(m) : \A i \in 1..k : IsFrame(m, i)}

FramesIn(m) == {m[2 * i - 1] : i \in WholeFrames(m)}

Remaining(m) == SubSeq(m, 2 * Cardinality(WholeFrames(m)) + 1, Len(m))

\* The next four bytes are a length above the limit: an oversized head, or
\* text from the middle of a frame, which always reads as a larger number.
TooLarge(rest) ==
    /\ rest # <<>>
    /\ rest[1].part = "body" \/ rest[1].answer = "oversize"

\* A head followed by bytes of another frame.
Misaligned(rest) == Len(rest) > 1 /\ ~ TooLarge(rest)
-------------------------------------------------------------------------------
Init ==
    /\ closed = FALSE /\ child = NoWorker /\ pending = {} /\ frameRemainder = <<>>
    /\ phase  = [r \in Runs |-> "idle"]    /\ at     = [r \in Runs |-> NoWorker]
    /\ cphase = [c \in Closers |-> "idle"] /\ cchild = [c \in Closers |-> NoWorker]
    /\ helloState = [g \in Workers |-> "none"]
    /\ spawned = 0
    /\ proc   = [g \in Workers |-> "none"]
    /\ inbox  = [g \in Workers |-> <<>>]
    /\ out    = [g \in Workers |-> <<>>]
    /\ logged = [g \in Workers |-> 0]
    /\ served = {} /\ uncaught = FALSE
-------------------------------------------------------------------------------
(* Calls of the embedding program.                                         *)

\* The preflight refuses a call once closed is set.
AdmitsAlways == "accepted"                                   \* mutant: check dropped
Admission == IF closed THEN "refused" ELSE "accepted"

\* NodeRuntime.run: after the preflight, the transport's run is put in the
\* microtask queue.
Run(r) ==
    /\ ~ uncaught
    /\ phase[r] = "idle"
    /\ phase' = [phase EXCEPT ![r] = Admission]
    /\ UNCHANGED <<hostVars, at, cphase, cchild, helloState, workerVars, uncaught>>

\* The write to a worker's stdin: lost when the process is gone, and then
\* it may raise an error event on a stream nobody listens to.
WriteTo(g, messages) ==
    /\ inbox' = IF proc[g] \in Live
                THEN [inbox EXCEPT ![g] = @ \o messages] ELSE inbox
    /\ \/ uncaught' = uncaught
       \/ proc[g] = "dead" /\ "epipe" \in Faults /\ uncaught' = TRUE

\* NodeRuntime.close and RustWorkerTransport.close up to its await.
Close(c) ==
    /\ ~ uncaught
    /\ cphase[c] = "idle"
    /\ closed' = TRUE
    /\ cchild' = [cchild EXCEPT ![c] = child]
    /\ \/ /\ child = NoWorker
          /\ cphase' = [cphase EXCEPT ![c] = "done"]
          /\ UNCHANGED <<pending, inbox, uncaught>>
       \/ /\ child # NoWorker
          /\ cphase' = [cphase EXCEPT ![c] = "waiting"]
          /\ pending' = pending \cup {ShutdownOf(c, child)}
          /\ WriteTo(child, <<ShutdownOf(c, child)>>)
    /\ UNCHANGED <<child, frameRemainder, phase, at, helloState,
                   spawned, proc, out, logged, served>>
-------------------------------------------------------------------------------
(* Microtasks.                                                             *)

\* ensureStarted returns the child it has; a process is spawned only when
\* there is none.
SpawnsAgain(g) == spawned < MaxWorkers /\ g = spawned + 1    \* mutant: guard dropped
CanSpawn(g) == child = NoWorker /\ spawned < MaxWorkers /\ g = spawned + 1

\* ensureStarted with this.child null: the process is spawned and its hello
\* registered and written, then the messages of the caller behind it.
Spawn(g, promise, requests, messages) ==
    /\ CanSpawn(g)
    /\ spawned' = g
    /\ child' = g
    /\ proc' = [proc EXCEPT ![g] = "up"]
    /\ helloState' = [helloState EXCEPT ![g] = promise]
    /\ pending' = pending \cup {HelloOf(g)} \cup requests
    /\ inbox' = [inbox EXCEPT ![g] = <<HelloOf(g)>> \o messages]

\* RustWorkerTransport.run up to its await of helloPromise.
StartRun(r) ==
    /\ ~ uncaught
    /\ phase[r] = "accepted"
    /\ \/ /\ child # NoWorker
          /\ phase' = [phase EXCEPT ![r] = "hello"]
          /\ at' = [at EXCEPT ![r] = child]
          /\ helloState' = [helloState EXCEPT ![child] =
                               IF @ = "unheard" THEN "pending" ELSE @]
          /\ UNCHANGED <<child, pending, spawned, proc, inbox>>
       \/ \E g \in Workers :
          /\ Spawn(g, "pending", {}, <<>>)
          /\ phase' = [phase EXCEPT ![r] = "hello"]
          /\ at' = [at EXCEPT ![r] = g]
       \/ /\ child = NoWorker /\ "start" \in Faults
          /\ phase' = [phase EXCEPT ![r] = "failed"]
          /\ UNCHANGED <<child, pending, at, helloState, spawned, proc, inbox>>
    /\ UNCHANGED <<closed, frameRemainder, cphase, cchild,
                   out, logged, served, uncaught>>

Resumable(r) == phase[r] = "hello" /\ helloState[at[r]] \in {"ok", "failed"}

\* RustWorkerTransport.run after the await: the hello failed and so does the
\* run; or sendProtocolMessage registers the run and writes it.  An encoding
\* that is too large throws after the entry was put in pending.
ResumeRun(r) ==
    /\ ~ uncaught
    /\ Resumable(r)
    /\ \/ /\ \/ helloState[at[r]] = "failed"
             \/ helloState[at[r]] = "ok" /\ child = NoWorker /\ "start" \in Faults
          /\ phase' = [phase EXCEPT ![r] = "failed"]
          /\ UNCHANGED <<child, pending, at, helloState, spawned, proc, inbox, uncaught>>
       \/ /\ helloState[at[r]] = "ok" /\ child # NoWorker
          /\ at' = [at EXCEPT ![r] = child]
          /\ pending' = pending \cup {RunOf(r, child)}
          /\ \/ /\ phase' = [phase EXCEPT ![r] = "sent"]
                /\ WriteTo(child, <<RunOf(r, child)>>)
             \/ /\ "large" \in Faults
                /\ phase' = [phase EXCEPT ![r] = "failed"]
                /\ UNCHANGED <<inbox, uncaught>>
          /\ UNCHANGED <<child, helloState, spawned, proc>>
       \/ \E g \in Workers :
          /\ helloState[at[r]] = "ok"
          /\ at' = [at EXCEPT ![r] = g]
          /\ \/ /\ phase' = [phase EXCEPT ![r] = "sent"]
                /\ Spawn(g, "unheard", {RunOf(r, g)}, <<RunOf(r, g)>>)
             \/ /\ "large" \in Faults
                /\ phase' = [phase EXCEPT ![r] = "failed"]
                /\ Spawn(g, "unheard", {RunOf(r, g)}, <<>>)
          /\ UNCHANGED uncaught
    /\ UNCHANGED <<closed, frameRemainder, cphase, cchild, out, logged, served>>

\* child.kill("SIGTERM"): a signal to a process that is gone does nothing.
KillForgotten(p, g) == p                                     \* mutant: no signal
Kill(p, g) == [p EXCEPT ![g] = IF @ = "up" THEN "killed" ELSE @]

\* RustWorkerTransport.close after its await.  The test reads this.child,
\* the signal goes to the child this call saw; pending is emptied without
\* settling what it holds.
FinishClose(c) ==
    /\ ~ uncaught
    /\ cphase[c] = "resumed"
    /\ cphase' = [cphase EXCEPT ![c] = "done"]
    /\ proc' = IF child # NoWorker THEN Kill(proc, cchild[c]) ELSE proc
    /\ child' = NoWorker
    /\ pending' = {}
    /\ frameRemainder' = <<>>
    /\ UNCHANGED <<closed, phase, at, cchild, helloState,
                   spawned, inbox, out, logged, served, uncaught>>

MicrotasksDone ==
    /\ ~ uncaught
    /\ \A r \in Runs : phase[r] # "accepted" /\ ~ Resumable(r)
    /\ \A c \in Closers : cphase[c] # "resumed"
-------------------------------------------------------------------------------
(* Events of the host's loop.                                              *)

AwaitsNothing(r) == FALSE                                    \* mutant: map cleared, runs not rejected
AwaitsAnswer(r) == phase[r] = "sent" /\ RunOf(r, at[r]) \in pending

\* Rejecting q is nobody's to catch: a run whose request could not be
\* encoded, or a hello sent on behalf of a run that does not await it.
Unheard(q) ==
    \/ q.type = "run" /\ phase[q.of] # "sent"
    \/ q.type = "hello" /\ helloState[q.to] = "unheard"

\* Every pending promise is rejected and the map emptied.
RejectPending ==
    /\ pending' = {}
    /\ phase' = [r \in Runs |-> IF AwaitsAnswer(r) THEN "failed" ELSE phase[r]]
    /\ helloState' = [g \in Workers |->
                         IF HelloOf(g) \in pending THEN "failed" ELSE helloState[g]]
    /\ cphase' = [c \in Closers |->
                     IF cphase[c] = "waiting" /\ ShutdownOf(c, cchild[c]) \in pending
                     THEN "resumed" ELSE cphase[c]]
    /\ uncaught' = \E q \in pending : Unheard(q)
    /\ UNCHANGED <<at, cchild>>

\* The answers in a chunk settle the requests they name; an answer to a
\* request that is not pending is dropped.
Deliver(frames) ==
    LET answered(q) == \E f \in frames : f.request = q /\ q \in pending
        resolved(q) == [part |-> "head", request |-> q, answer |-> "result"] \in frames
    IN
    /\ pending' = {q \in pending : ~ answered(q)}
    /\ phase' = [r \in Runs |->
                    IF phase[r] = "sent" /\ answered(RunOf(r, at[r]))
                    THEN IF resolved(RunOf(r, at[r])) THEN "result" ELSE "failed"
                    ELSE phase[r]]
    /\ helloState' = [g \in Workers |->
                         IF answered(HelloOf(g))
                         THEN IF resolved(HelloOf(g)) THEN "ok" ELSE "failed"
                         ELSE helloState[g]]
    /\ cphase' = [c \in Closers |->
                     IF cphase[c] = "waiting" /\ answered(ShutdownOf(c, cchild[c]))
                     THEN "resumed" ELSE cphase[c]]
    /\ uncaught' = \E q \in pending : answered(q) /\ ~ resolved(q) /\ Unheard(q)
    /\ UNCHANGED <<at, cchild>>

\* child.stdout "data": a chunk of n units.
Data(g, n) ==
    LET merged == frameRemainder \o SubSeq(out[g], 1, n)
        rest   == Remaining(merged)
    IN
    /\ MicrotasksDone
    /\ "late" \in Faults \/ \A h \in 1..g - 1 : out[h] = <<>>
    /\ out' = [out EXCEPT ![g] = SubSeq(@, n + 1, Len(@))]
    /\ \/ /\ TooLarge(rest)          \* frame_too_large: decoded frames are dropped
          /\ RejectPending
          /\ proc' = Kill(proc, g)
          /\ UNCHANGED frameRemainder
       \/ /\ ~ TooLarge(rest)        \* whole frames; bytes are missing for the rest
          /\ Deliver(FramesIn(merged))
          /\ frameRemainder' = rest
          /\ UNCHANGED proc
       \/ /\ Misaligned(rest)        \* a foreign length happens to be too large
          /\ RejectPending
          /\ proc' = Kill(proc, g)
          /\ UNCHANGED frameRemainder
       \/ /\ Misaligned(rest)        \* a frame of mixed bytes: JSON.parse throws
          /\ uncaught' = TRUE
          /\ UNCHANGED <<pending, frameRemainder, callVars, proc>>
    /\ UNCHANGED <<closed, child, spawned, inbox, logged, served>>

\* child "error" for a process that was never started: pending is rejected,
\* this.child stays.
SpawnError(g) ==
    /\ MicrotasksDone
    /\ "spawn" \in Faults
    /\ proc[g] = "up" /\ inbox[g] # <<>> /\ Head(inbox[g]) = HelloOf(g)
    /\ RejectPending
    /\ proc' = [proc EXCEPT ![g] = "failed"]
    /\ inbox' = [inbox EXCEPT ![g] = <<>>]
    /\ UNCHANGED <<closed, child, frameRemainder, spawned, out, logged, served>>

\* child "exit": this.child is set to null whichever worker exited.
Exit(g) ==
    /\ MicrotasksDone
    /\ proc[g] = "dead"
    /\ proc' = [proc EXCEPT ![g] = "reaped"]
    /\ RejectPending
    /\ child' = NoWorker
    /\ UNCHANGED <<closed, frameRemainder, spawned, inbox, out, logged, served>>

\* The 1000 ms timer of close().
ShutdownTimerMissing(c) == FALSE                             \* mutant: no timeout
ShutdownTimer(c) ==
    /\ MicrotasksDone
    /\ cphase[c] = "waiting"
    /\ cphase' = [cphase EXCEPT ![c] = "resumed"]
    /\ UNCHANGED <<hostVars, phase, at, cchild, helloState, workerVars, uncaught>>
-------------------------------------------------------------------------------
(* The worker process.                                                     *)

\* What handle_protocol_request may answer q with.
AnswersTo(q) ==
    {"result"} \cup ({"error"} \cap Faults)
               \cup (IF q.type = "run" THEN {"oversize"} \cap Faults ELSE {})

\* One round of run_worker's loop.  A run leaves a line in stderr before its
\* answer is written, and that write blocks once the pipe is full; after the
\* answer to a shutdown the process ends.
WorkerReply(g) ==
    /\ proc[g] \in Live
    /\ inbox[g] # <<>>
    /\ LET q == Head(inbox[g]) IN
       /\ q.type = "run" => logged[g] < StderrLines
       /\ \E a \in AnswersTo(q) : out' = [out EXCEPT ![g] = @ \o Frame(q, a)]
       /\ logged' = IF q.type = "run" THEN [logged EXCEPT ![g] = @ + 1] ELSE logged
       /\ served' = served \cup {q}
       /\ IF q.type = "shutdown"
          THEN /\ proc' = [proc EXCEPT ![g] = "dead"]
               /\ inbox' = [inbox EXCEPT ![g] = <<>>]
          ELSE /\ inbox' = [inbox EXCEPT ![g] = Tail(@)]
               /\ UNCHANGED proc
    /\ UNCHANGED <<hostVars, callVars, spawned, uncaught>>

\* The process dies, on the signal or by itself, perhaps while it writes.
WorkerDies(g) ==
    /\ proc[g] = "killed" \/ (proc[g] = "up" /\ "crash" \in Faults)
    /\ proc' = [proc EXCEPT ![g] = "dead"]
    /\ inbox' = [inbox EXCEPT ![g] = <<>>]
    /\ \/ UNCHANGED out
       \/ /\ "torn" \in Faults /\ inbox[g] # <<>>
          /\ out' = [out EXCEPT ![g] = Append(@, Part("head", Head(inbox[g]), "result"))]
    /\ UNCHANGED <<hostVars, callVars, spawned, logged, served, uncaught>>
-------------------------------------------------------------------------------
DataEvent(g) == \E n \in 1..Len(out[g]) : Data(g, n)

Next ==
    \/ \E r \in Runs : Run(r) \/ StartRun(r) \/ ResumeRun(r)
    \/ \E c \in Closers : Close(c) \/ FinishClose(c) \/ ShutdownTimer(c)
    \/ \E g \in Workers : DataEvent(g) \/ SpawnError(g) \/ Exit(g)
    \/ \E g \in Workers : WorkerReply(g) \/ WorkerDies(g)

Spec == Init /\ [][Next]_vars

\* The event loop runs its microtasks and delivers its events, timers fire,
\* a worker goes on with its loop, a signal arrives.  Nobody has to call
\* run() or close(), and no fault has to happen.
Fairness ==
    /\ \A r \in Runs : WF_vars(StartRun(r)) /\ WF_vars(ResumeRun(r))
    /\ \A c \in Closers : WF_vars(FinishClose(c)) /\ WF_vars(ShutdownTimer(c))
    /\ \A g \in Workers : /\ WF_vars(DataEvent(g)) /\ WF_vars(Exit(g))
                          /\ WF_vars(WorkerReply(g))
                          /\ WF_vars(proc[g] = "killed" /\ WorkerDies(g))

FairSpec == Spec /\ Fairness
-------------------------------------------------------------------------------
TypeOK ==
    /\ closed \in BOOLEAN
    /\ child \in Workers \cup {NoWorker}
    /\ pending \subseteq Request
    /\ frameRemainder \in Seq(Unit)
    /\ phase \in [Runs -> {"idle", "accepted", "hello", "sent"} \cup Settled]
    /\ at \in [Runs -> Workers \cup {NoWorker}]
    /\ cphase \in [Closers -> {"idle", "waiting", "resumed", "done"}]
    /\ cchild \in [Closers -> Workers \cup {NoWorker}]
    /\ helloState \in [Workers -> {"none", "unheard", "pending", "ok", "failed"}]
    /\ spawned \in 0..MaxWorkers
    /\ proc \in [Workers -> {"none", "reaped"} \cup Unreaped]
    /\ inbox \in [Workers -> Seq(Request)]
    /\ out \in [Workers -> Seq(Unit)]
    /\ logged \in [Workers -> Nat]
    /\ served \subseteq Request
    /\ uncaught \in BOOLEAN

\* Until close() is called the transport owns every process it started: there
\* is at most one that was not reaped, and this.child names it.  ensureStarted
\* spawns only when child is null, and only the exit handler sets it to null.
OneWorker ==
    ~ closed => \A g \in Workers : proc[g] \in Unreaped => g = child

\* Until close() is called, everything pending was written to the current
\* worker, so the handlers that reject the whole map on an exit fail no
\* request of another worker.
PendingIsCurrent ==
    ~ closed => \A q \in pending : q.to = child

\* A close() that found a worker ran to its end: the only code that forgets
\* pending requests without settling them.
PendingDropped == \E c \in Closers : cphase[c] = "done" /\ cchild[c] # NoWorker

\* A run that awaits a hello or an answer has its entry in pending, through
\* exits, oversized frames, failed spawns and restarts, unless a close()
\* dropped it: no handler loses a caller.
NoLostRun ==
    PendingDropped \/
    \A r \in Runs :
        /\ phase[r] = "sent" => RunOf(r, at[r]) \in pending
        /\ phase[r] = "hello" =>
              helloState[at[r]] \in {"ok", "failed"} \/ HelloOf(at[r]) \in pending

\* A run that resolves was answered by the worker it was written to, and no
\* run is executed twice, whatever was restarted in between.
OwnAnswer ==
    /\ \A r \in Runs : phase[r] = "result" => RunOf(r, at[r]) \in served
    /\ \A p, q \in served : p.type = "run" /\ q.type = "run" /\ p.of = q.of => p = q

\* The contract every runtime keeps with its callers.
Contract == INSTANCE RunService WITH
    status <- [r \in Runs |->
                  IF phase[r] \in Settled \cup {"idle"} THEN phase[r] ELSE "open"]

\* run() is refused after close() and only then, and a call is settled once.
KeepsContract == Contract!Spec

\* The next run of worker g waits for room in a stderr nobody reads.
Blocked(g) ==
    /\ proc[g] \in Live /\ logged[g] = StderrLines
    /\ inbox[g] # <<>> /\ Head(inbox[g]).type = "run"

\* Every admitted run is settled, unless close() was called or a worker is
\* blocked on its stderr: worker deaths, failed spawns and protocol errors all
\* end as errors, and no caller of the shared worker is left waiting.
RunsSettleUnlessClosed ==
    \A r \in Runs : phase[r] = "accepted" ~>
        (phase[r] \in Settled \/ closed \/ \E g \in Workers : Blocked(g))

\* close() returns although the worker may be dead, busy or blocked.
CloseReturns == \A c \in Closers : cphase[c] = "waiting" ~> cphase[c] = "done"

\* The worker a close() found is not running any more some time after.
CloseStopsWorker ==
    \A c \in Closers, g \in Workers :
        cphase[c] = "done" /\ cchild[c] = g ~> proc[g] \notin Live

\* docs/reference/server-engine-protocol-v1.md: "Oversized frames fail closed
\* with frame_too_large": the adapter turns one into rejected calls, and no
\* handler of it throws.
OversizedFailsClosed == ~ uncaught

\* docs/architecture.md: "Runtime returns RunResult": every admitted run is
\* settled, in every environment.
RunsSettle == \A r \in Runs : phase[r] = "accepted" ~> phase[r] \in Settled
===============================================================================
