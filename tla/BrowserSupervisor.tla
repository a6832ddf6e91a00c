--------------------------- MODULE BrowserSupervisor ---------------------------
(***************************************************************************)
(* The browser runtime's path from runtime.run() to the Pyodide worker and *)
(* back: BrowserRuntime.run/close, BrowserWorkerSupervisor, and the        *)
(* message loop of pyodide-worker.mjs.                                     *)
(*                                                                         *)
(* Calls share one worker.  A wall-clock timeout cannot stop one call, so  *)
(* it terminates the worker, and the next call creates another.  Workers   *)
(* are numbered in the order worker() creates them; workerPromise is one   *)
(* of the numbers.  As in ServerTransport, events of the loop wait until   *)
(* the microtasks (StartRun, Post) are done; microtasks are taken in any   *)
(* order.  The end of a reset() is an event of its own: a Node worker      *)
(* thread needs time to terminate, and works on until it does.             *)
(***************************************************************************)
EXTENDS Integers, Sequences, FiniteSets

CONSTANTS
    Runs,           \* calls of runtime.run() the embedding program makes
    Closers,        \* calls of runtime.close() it makes
    MaxWorkers,     \* bound: workers created in a behaviour
    Faults          \* what may go wrong around the supervisor

FaultKinds ==
    {"integrity",   \* a package or an engine asset does not verify
     "create",      \* createWorkerPort rejects
     "error",       \* a worker raises an error event, or exits
     "invalid",     \* a worker posts something that is not a result
     "late"}        \* a message is delivered after its worker's terminate()

ASSUME BrowserWorkersAssumption == MaxWorkers \in Nat \ {0}
ASSUME BrowserFaultsAssumption  == Faults \subseteq FaultKinds

Workers  == 1..MaxWorkers
NoWorker == 0

VARIABLES
    closed,          \* BrowserRuntime.closed
    integrity,       \* BrowserRuntime.integrityPromise
    workerPromise,   \* BrowserWorkerSupervisor.workerPromise, NoWorker for null
    workerToken,     \* BrowserWorkerSupervisor.workerToken
    pending,         \* BrowserWorkerSupervisor.pending, the keys of the map
    phase,           \* phase[r]: how far the call run() r has come
    at,              \* at[r]: the worker r awaits, was posted to, or resets
    heard,           \* heard[r]: whose output r's answer carries
    cphase,          \* cphase[c]: how far the call close() c has come
    cworker,         \* cworker[c]: the worker the reset() of close() c awaits
    created,         \* how many workers were created
    token,           \* token[g]: the token worker g's error handler holds
    port,            \* port[g]: the promise of worker g's port, and the worker
    sick,            \* sick[g]: what worker g did wrong
    inbox,           \* inbox[g]: messages posted to it
    running,         \* running[g]: requests whose handler has not answered
    lines,           \* lines[g]: whose output is in stdoutLines, stderrLines
    out,             \* out[g]: messages it posted that were not delivered
    earlier          \* history, earlier[r]: calls settled when r was posted

hostVars   == <<closed, integrity, workerPromise, workerToken, pending>>
callVars   == <<phase, at, heard, cphase, cworker, earlier>>
workerVars == <<created, token, port, sick, inbox, running, lines, out>>
vars       == <<hostVars, callVars, workerVars>>

Settled == {"result", "failed", "timeout", "rejected", "refused"}
Alive   == {"creating", "ready"}         \* a worker exists, or will
Answer  == [run : Runs, lines : SUBSET Runs, valid : BOOLEAN]

SettledRuns == {r \in Runs : phase[r] \in Settled}
-------------------------------------------------------------------------------
Init ==
    /\ closed = FALSE /\ integrity = "none"
    /\ workerPromise = NoWorker /\ workerToken = 0 /\ pending = {}
    /\ phase  = [r \in Runs |-> "idle"]    /\ at      = [r \in Runs |-> NoWorker]
    /\ heard  = [r \in Runs |-> {}]        /\ earlier = [r \in Runs |-> {}]
    /\ cphase = [c \in Closers |-> "idle"] /\ cworker = [c \in Closers |-> NoWorker]
    /\ created = 0
    /\ token   = [g \in Workers |-> 0]    /\ port    = [g \in Workers |-> "none"]
    /\ sick    = [g \in Workers |-> "no"] /\ inbox   = [g \in Workers |-> <<>>]
    /\ running = [g \in Workers |-> {}]   /\ lines   = [g \in Workers |-> {}]
    /\ out     = [g \in Workers |-> <<>>]
-------------------------------------------------------------------------------
(* Calls of the embedding program, and the microtasks they continue in.    *)

AdmitsAlways == "integrity"                                  \* mutant: check dropped
Admission == IF closed THEN "refused" ELSE "integrity"

\* BrowserRuntime.run up to its await of the integrity check, which the
\* first call starts and every call shares.
Run(r) ==
    /\ phase[r] = "idle"
    /\ phase' = [phase EXCEPT ![r] = Admission]
    /\ integrity' = IF ~ closed /\ integrity = "none" THEN "pending" ELSE integrity
    /\ UNCHANGED <<closed, workerPromise, workerToken, pending, at, heard, cphase,
                   cworker, earlier, workerVars>>

\* worker() with workerPromise null: the next worker is created and its
\* error handler remembers the token.
CreateWorker(g) ==
    /\ workerPromise = NoWorker
    /\ created < MaxWorkers /\ g = created + 1
    /\ created' = g
    /\ workerPromise' = g
    /\ workerToken' = workerToken + 1
    /\ token' = [token EXCEPT ![g] = workerToken + 1]
    /\ port' = [port EXCEPT ![g] = "creating"]

\* BrowserRuntime.run after that await: an error envelope, the simulated
\* engine for code that needs a capability the browser does not have, or
\* supervisor.run up to its await of worker().  closed is not read again.
StartRun(r) ==
    /\ phase[r] = "integrity"
    /\ \/ /\ integrity = "bad"
          /\ phase' = [phase EXCEPT ![r] = "failed"]
          /\ UNCHANGED <<heard, at, workerPromise, workerToken, created, token, port>>
       \/ /\ integrity = "ok"
          /\ phase' = [phase EXCEPT ![r] = "result"]
          /\ heard' = [heard EXCEPT ![r] = {r}]
          /\ UNCHANGED <<at, workerPromise, workerToken, created, token, port>>
       \/ /\ integrity = "ok" /\ workerPromise # NoWorker
          /\ phase' = [phase EXCEPT ![r] = "worker"]
          /\ at' = [at EXCEPT ![r] = workerPromise]
          /\ UNCHANGED <<heard, workerPromise, workerToken, created, token, port>>
       \/ \E g \in Workers :
          /\ integrity = "ok"
          /\ CreateWorker(g)
          /\ phase' = [phase EXCEPT ![r] = "worker"]
          /\ at' = [at EXCEPT ![r] = g]
          /\ UNCHANGED heard
    /\ UNCHANGED <<closed, integrity, pending, cphase, cworker, earlier,
                   sick, inbox, running, lines, out>>

\* supervisor.run after its await: the request is registered with its timer
\* and posted; a worker that was terminated meanwhile never sees it.
Post(r) ==
    /\ phase[r] = "worker"
    /\ \/ /\ port[at[r]] = "failed"
          /\ phase' = [phase EXCEPT ![r] = "rejected"]
          /\ UNCHANGED <<pending, earlier, inbox>>
       \/ /\ port[at[r]] \in {"ready", "exited", "terminated"}
          /\ phase' = [phase EXCEPT ![r] = "posted"]
          /\ pending' = pending \cup {r}
          /\ earlier' = [earlier EXCEPT ![r] = SettledRuns]
          /\ inbox' = IF port[at[r]] = "ready"
                      THEN [inbox EXCEPT ![at[r]] = Append(@, r)] ELSE inbox
    /\ UNCHANGED <<closed, integrity, workerPromise, workerToken, at, heard, cphase,
                   cworker, created, token, port, sick, running, lines, out>>

TokenGivenBack ==                                            \* mutant: counts down
    /\ workerPromise' = NoWorker
    /\ workerToken' = workerToken - 1
\* reset() up to its await: the current worker is taken out, and the token
\* moves on so that its error handler is not heard any more.
Reset ==
    /\ workerPromise' = NoWorker
    /\ workerToken' = IF workerPromise = NoWorker THEN workerToken ELSE workerToken + 1

\* reset() after its await, for the worker it took out.
ResetEnds(g) ==
    \/ g = NoWorker /\ UNCHANGED port
    \/ g # NoWorker /\ port[g] \in {"ready", "exited"} /\ port' = [port EXCEPT ![g] = "terminated"]

ResetRejects(g) == g # NoWorker /\ port[g] = "failed" /\ UNCHANGED port

\* The timer's reset() settles: the call gets "wall time reached".  When the
\* worker it took out could not be created, reset() rejects and nothing
\* settles the call.
FinishReset(r) ==
    /\ phase[r] = "resetting"
    /\ \/ ResetEnds(at[r]) /\ phase' = [phase EXCEPT ![r] = "timeout"]
       \/ ResetRejects(at[r]) /\ phase' = [phase EXCEPT ![r] = "lost"]
    /\ UNCHANGED <<hostVars, at, heard, cphase, cworker, earlier, created, token, sick,
                   inbox, running, lines, out>>

\* BrowserRuntime.close and the supervisor's close up to its await.
Close(c) ==
    /\ cphase[c] = "idle"
    /\ closed' = TRUE
    /\ cphase' = [cphase EXCEPT ![c] = "resetting"]
    /\ cworker' = [cworker EXCEPT ![c] = workerPromise]
    /\ Reset
    /\ UNCHANGED <<integrity, pending, phase, at, heard, earlier, workerVars>>

\* close() after its await: timers are cleared and pending emptied, and
\* nothing is settled; or reset() rejects and so does close().
FinishClose(c) ==
    /\ cphase[c] = "resetting"
    /\ \/ /\ ResetEnds(cworker[c])
          /\ cphase' = [cphase EXCEPT ![c] = "done"]
          /\ pending' = {}
       \/ /\ ResetRejects(cworker[c])
          /\ cphase' = [cphase EXCEPT ![c] = "rejected"]
          /\ UNCHANGED pending
    /\ UNCHANGED <<closed, integrity, workerPromise, workerToken, phase, at, heard,
                   cworker, earlier, created, token, sick, inbox, running, lines, out>>

MicrotasksDone ==
    \A r \in Runs :
        /\ phase[r] = "integrity" => integrity = "pending" \/
                                     (workerPromise = NoWorker /\ created = MaxWorkers)
        /\ phase[r] = "worker" => port[at[r]] = "creating"
-------------------------------------------------------------------------------
(* Events of the host's loop.                                              *)

\* ensureIntegrity settles, once for all calls.
IntegrityKnown ==
    /\ MicrotasksDone
    /\ integrity = "pending"
    /\ integrity' \in {"ok"} \cup (IF "integrity" \in Faults THEN {"bad"} ELSE {})
    /\ UNCHANGED <<closed, workerPromise, workerToken, pending, callVars, workerVars>>

\* createWorkerPort settles.  A rejection stays in workerPromise.
PortSettles(g) ==
    /\ MicrotasksDone
    /\ port[g] = "creating"
    /\ \E p \in {"ready"} \cup (IF "create" \in Faults THEN {"failed"} ELSE {}) :
          port' = [port EXCEPT ![g] = p]
    /\ UNCHANGED <<hostVars, callVars, created, token, sick, inbox, running, lines, out>>

TimerMissing(r) == FALSE                                     \* mutant: timer not armed
\* The wall-clock timer of a pending request: it resets whatever worker is
\* the current one.
Timer(r) ==
    /\ MicrotasksDone
    /\ r \in pending
    /\ pending' = pending \ {r}
    /\ phase' = [phase EXCEPT ![r] = "resetting"]
    /\ at' = [at EXCEPT ![r] = workerPromise]
    /\ Reset
    /\ UNCHANGED <<closed, integrity, heard, cphase, cworker, earlier, workerVars>>

RejectPending ==
    /\ pending' = {}
    /\ phase' = [r \in Runs |-> IF r \in pending THEN "rejected" ELSE phase[r]]

\* worker.onMessage, which does not look at the token: an answer settles the
\* request it names, if that is pending, with the guest's success or error;
\* anything else drops the current worker and fails every pending request.
Message(g) ==
    LET m == Head(out[g]) IN
    /\ MicrotasksDone
    /\ out[g] # <<>>
    /\ port[g] = "ready" \/ "late" \in Faults
    /\ out' = [out EXCEPT ![g] = Tail(@)]
    /\ \/ /\ ~ m.valid
          /\ workerPromise' = NoWorker
          /\ RejectPending
          /\ UNCHANGED heard
       \/ /\ m.valid /\ m.run \in pending
          /\ pending' = pending \ {m.run}
          /\ \E s \in {"result", "failed"} : phase' = [phase EXCEPT ![m.run] = s]
          /\ heard' = [heard EXCEPT ![m.run] = m.lines]
          /\ UNCHANGED workerPromise
       \/ /\ m.valid /\ m.run \notin pending
          /\ UNCHANGED <<pending, phase, heard, workerPromise>>
    /\ UNCHANGED <<closed, integrity, workerToken, at, cphase, cworker, earlier, created,
                   token, port, sick, inbox, running, lines>>

AlwaysHears(g) == TRUE                                       \* mutant: token not compared
HandlerHears(g) == token[g] = workerToken

\* worker.onError: only the worker whose token is current is heard.
ErrorHandler(g) ==
    \/ /\ HandlerHears(g)
       /\ workerPromise' = NoWorker
       /\ RejectPending
    \/ /\ ~ HandlerHears(g)
       /\ UNCHANGED <<workerPromise, pending, phase>>

\* An error event.  A Node worker thread exits, a browser worker lives on.
WorkerError(g) ==
    /\ MicrotasksDone
    /\ "error" \in Faults
    /\ port[g] = "ready" /\ sick[g] = "no"
    /\ sick' = [sick EXCEPT ![g] = "error"]
    /\ \E p \in {"ready", "exited"} : port' = [port EXCEPT ![g] = p]
    /\ ErrorHandler(g)
    /\ UNCHANGED <<closed, integrity, workerToken, at, heard, cphase, cworker, earlier,
                   created, token, inbox, running, lines, out>>

\* A terminated Node worker thread exits with code 1, which the port reports
\* as an error.
WorkerExit(g) ==
    /\ MicrotasksDone
    /\ port[g] = "terminated" /\ sick[g] = "no"
    /\ sick' = [sick EXCEPT ![g] = "exit"]
    /\ ErrorHandler(g)
    /\ UNCHANGED <<closed, integrity, workerToken, at, heard, cphase, cworker, earlier,
                   created, token, port, inbox, running, lines, out>>
-------------------------------------------------------------------------------
(* The worker.  Its handler is asynchronous: while a request waits for     *)
(* Pyodide, a package or its own coroutine, the next message is taken.     *)

LinesKept(g) == lines[g]                                     \* mutant: output not reset
ResetOutput(g) == {}

Takes(g) ==
    /\ port[g] = "ready" /\ inbox[g] # <<>>
    /\ inbox' = [inbox EXCEPT ![g] = Tail(@)]
    /\ running' = [running EXCEPT ![g] = @ \cup {Head(inbox[g])}]
    /\ lines' = [lines EXCEPT ![g] = ResetOutput(g)]
    /\ UNCHANGED <<hostVars, callVars, created, token, port, sick, out>>

\* The guest prints: one pair of buffers holds the output of every request.
Prints(g, r) ==
    /\ port[g] = "ready" /\ r \in running[g] \ lines[g]
    /\ lines' = [lines EXCEPT ![g] = @ \cup {r}]
    /\ UNCHANGED <<hostVars, callVars, created, token, port, sick, inbox, running, out>>

Answers(g, r) ==
    /\ port[g] = "ready" /\ r \in running[g]
    /\ running' = [running EXCEPT ![g] = @ \ {r}]
    /\ \E ok \in {TRUE} \cup (IF "invalid" \in Faults THEN {FALSE} ELSE {}) :
          /\ out' = [out EXCEPT ![g] = Append(@, [run |-> r, lines |-> lines[g], valid |-> ok])]
          /\ sick' = IF ok THEN sick ELSE [sick EXCEPT ![g] = "invalid"]
    /\ UNCHANGED <<hostVars, callVars, created, token, port, inbox, lines>>
-------------------------------------------------------------------------------
Next ==
    \/ \E r \in Runs : Run(r) \/ StartRun(r) \/ Post(r) \/ Timer(r) \/ FinishReset(r)
    \/ \E c \in Closers : Close(c) \/ FinishClose(c)
    \/ IntegrityKnown
    \/ \E g \in Workers : PortSettles(g) \/ Message(g) \/ WorkerError(g) \/ WorkerExit(g)
    \/ \E g \in Workers : Takes(g) \/ \E r \in Runs : Prints(g, r) \/ Answers(g, r)

Spec == Init /\ [][Next]_vars

\* Promises of the platform settle, microtasks run and timers fire.  Nothing
\* is assumed of the guest: it may never answer.
Fairness ==
    /\ \A r \in Runs : /\ WF_vars(StartRun(r)) /\ WF_vars(Post(r))
                       /\ WF_vars(Timer(r)) /\ WF_vars(FinishReset(r))
    /\ \A c \in Closers : WF_vars(FinishClose(c))
    /\ WF_vars(IntegrityKnown)
    /\ \A g \in Workers : WF_vars(PortSettles(g))

FairSpec == Spec /\ Fairness
-------------------------------------------------------------------------------
TypeOK ==
    /\ closed \in BOOLEAN
    /\ integrity \in {"none", "pending", "ok", "bad"}
    /\ workerPromise \in Workers \cup {NoWorker}
    /\ workerToken \in Nat
    /\ pending \subseteq Runs
    /\ phase \in [Runs -> {"idle", "integrity", "worker", "posted", "resetting", "lost"}
                             \cup Settled]
    /\ at \in [Runs -> Workers \cup {NoWorker}]
    /\ heard \in [Runs -> SUBSET Runs]
    /\ cphase \in [Closers -> {"idle", "resetting", "done", "rejected"}]
    /\ cworker \in [Closers -> Workers \cup {NoWorker}]
    /\ earlier \in [Runs -> SUBSET Runs]
    /\ created \in 0..MaxWorkers
    /\ token \in [Workers -> Nat]
    /\ port \in [Workers -> {"none", "failed", "exited", "terminated"} \cup Alive]
    /\ sick \in [Workers -> {"no", "error", "exit", "invalid"}]
    /\ inbox \in [Workers -> Seq(Runs)]
    /\ running \in [Workers -> SUBSET Runs]
    /\ lines \in [Workers -> SUBSET Runs]
    /\ out \in [Workers -> Seq(Answer)]

\* Some worker posted a payload that is not a result.  The handler for it
\* does not look at the token, so it may hit a worker that did nothing.
InvalidSeen == \E g \in Workers : sick[g] = "invalid"

\* A reset() in progress will terminate worker g.
BeingReset(g) ==
    \/ \E r \in Runs : phase[r] = "resetting" /\ at[r] = g
    \/ \E c \in Closers : cphase[c] = "resetting" /\ cworker[c] = g

\* A worker that did nothing wrong is the current one or is being
\* terminated: timeouts, closes and late exits of other workers abandon none.
HealthyWorkerOwned ==
    InvalidSeen \/
    \A g \in Workers :
        port[g] \in Alive /\ sick[g] = "no" => g = workerPromise \/ BeingReset(g)

\* A request on a healthy worker is not failed by the error or the exit of
\* another worker.
FailsWithItsWorker ==
    [][\A r \in Runs :
          phase[r] = "posted" /\ phase'[r] = "rejected" /\ ~ InvalidSeen =>
             sick'[at[r]] # "no" \/ at[r] # workerPromise]_vars

\* A run does not see the output of a call that was settled before the run
\* was posted, although all calls share the worker's two buffers.
NoStaleOutput ==
    \A r \in Runs : phase[r] \in Settled => heard[r] \cap earlier[r] = {}

\* The contract every runtime keeps with its callers.
Contract == INSTANCE RunService WITH
    status <- [r \in Runs |->
                  IF phase[r] \in {"timeout", "rejected"} THEN "failed"
                  ELSE IF phase[r] \in Settled \cup {"idle"} THEN phase[r] ELSE "open"]

\* run() is refused after close() and only then, and a call is settled once,
\* although a timer, an answer and an error of the worker race for it.
KeepsContract == Contract!Spec

\* docs/architecture.md: "Runtime returns RunResult": a run is settled unless
\* the runtime was closed, although the guest may never answer, the worker it
\* was posted to may be terminated on behalf of another call, and every
\* integrity check or worker may fail.
RunsSettle ==
    \A r \in Runs : phase[r] = "integrity" ~> (phase[r] \in Settled \/ closed)
===============================================================================
