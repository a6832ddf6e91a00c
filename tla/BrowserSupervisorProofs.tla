------------------------ MODULE BrowserSupervisorProofs ------------------------
(***************************************************************************)
(* Proofs about BrowserSupervisor, for any number of calls, closes and     *)
(* workers and every set of faults.                                        *)
(***************************************************************************)
EXTENDS BrowserSupervisor, SequenceTheorems, TLAPS

\* The call has not been posted to a worker.
Unposted == {"idle", "integrity", "worker"}

\* The requests waiting in the inbox of worker g, and those it still works on.
Waiting(g) == {inbox[g][i] : i \in DOMAIN inbox[g]}
Work(g)    == running[g] \cup Waiting(g)

Messages(g) == {out[g][i] : i \in DOMAIN out[g]}

\* Inductive: only posted requests are pending; a call that awaits a worker,
\* or was posted to one, has one.
CallsPlaced ==
    /\ \A r \in pending : phase[r] = "posted"
    /\ \A r \in Runs : phase[r] \in {"worker", "posted"} => at[r] \in Workers

\* Inductive: a payload that is not a result is the fault of its worker.
InvalidBlamed == \A g \in Workers : \A m \in Messages(g) : ~ m.valid => sick[g] = "invalid"

\* Inductive: workers are created in order, and an error handler that is heard
\* is the one of the current worker, or there is none.
TokensOrdered ==
    /\ workerPromise <= created
    /\ \A g \in Workers : port[g] # "none" => g <= created
    /\ \A g \in Workers : g <= created =>
           /\ token[g] <= workerToken
           /\ workerPromise # NoWorker /\ g # workerPromise => token[g] < workerToken

\* Inductive: a request is in one place: not posted, in one inbox once, worked
\* on by one worker, or answered; a worker that was not ready has none.
RequestsApart ==
    /\ \A g \in Workers : port[g] \in {"none", "creating"} => Work(g) = {}
    /\ \A g \in Workers : \A i, j \in DOMAIN inbox[g] : inbox[g][i] = inbox[g][j] => i = j
    /\ \A g \in Workers : running[g] \cap Waiting(g) = {}
    /\ \A g, h \in Workers : g # h => Work(g) \cap Work(h) = {}
    /\ \A g, h \in Workers : \A m \in Messages(g) : m.run \notin Work(h)
    /\ \A g \in Workers : \A r \in Work(g) : phase[r] \notin Unposted
    /\ \A g \in Workers : \A m \in Messages(g) : phase[m.run] \notin Unposted

\* Nothing can be posted to worker g any more.
Shut(g) == g # workerPromise /\ \A r \in Runs : ~ (phase[r] = "worker" /\ at[r] = g)

\* Inductive: a worker that still works on a call which is not posted any more
\* is given no other.
LeftoversShut ==
    \A g \in Workers : port[g] = "ready" /\ (\E r \in Work(g) : phase[r] # "posted") => Shut(g)

\* Inductive: the calls settled before one was posted are not among those its
\* worker still works on, nor in the output it will be given.
OutputFresh ==
    /\ \A r \in Runs : earlier[r] \subseteq SettledRuns
    /\ \A r \in Runs : phase[r] \in Unposted => earlier[r] = {} /\ heard[r] = {}
    /\ \A g \in Workers : \A r \in Work(g) : Work(g) \cap earlier[r] = {}
    /\ \A g \in Workers : \A r \in running[g] : lines[g] \cap earlier[r] = {}
    /\ \A g \in Workers : \A m \in Messages(g) : m.lines \cap earlier[m.run] = {}
    /\ \A r \in Runs : heard[r] \cap earlier[r] = {}
-------------------------------------------------------------------------------
(* Types.                                                                  *)

LEMMA WorkerNumbers ==
    /\ Workers \subseteq Nat \ {0} /\ NoWorker \notin Workers /\ NoWorker \in Nat
    /\ \A g \in Workers : g <= MaxWorkers
BY BrowserWorkersAssumption DEF Workers, NoWorker

\* Reading the first message leaves the others.
LEMMA HeadTail ==
    ASSUME NEW S, NEW s \in Seq(S), s # <<>>
    PROVE  Head(s) \in S /\ Tail(s) \in Seq(S)
OBVIOUS

LEMMA RunsUpdated ==
    ASSUME NEW f \in [Runs -> SUBSET Runs], NEW r \in Runs, NEW S, S \subseteq Runs
    PROVE  [f EXCEPT ![r] = S] \in [Runs -> SUBSET Runs]
OBVIOUS

LEMMA TypeStep == TypeOK /\ [Next]_vars => TypeOK'
<1> SUFFICES ASSUME TypeOK, [Next]_vars PROVE TypeOK'
  OBVIOUS
<1> USE DEF TypeOK
<1>c. ASSUME NEW g \in Workers, CreateWorker(g)
      PROVE  /\ created' \in 0..MaxWorkers /\ workerPromise' \in Workers /\ workerToken' \in Nat
             /\ token' \in [Workers -> Nat]
             /\ port' \in [Workers -> {"none", "failed", "exited", "terminated"} \cup Alive]
  BY <1>c, WorkerNumbers DEF CreateWorker, Alive, Workers
<1>r. ASSUME Reset PROVE workerPromise' \in Workers \cup {NoWorker} /\ workerToken' \in Nat
  BY <1>r DEF Reset
<1>1. ASSUME NEW r \in Runs, Run(r) PROVE TypeOK'
  BY <1>1 DEF Run, Admission, workerVars, Settled
<1>2. ASSUME NEW r \in Runs, StartRun(r) PROVE TypeOK'
  <2>1. UNCHANGED <<closed, integrity, pending, cphase, cworker, earlier, sick, inbox, running, lines, out>>
    BY <1>2 DEF StartRun
  <2>p. \E p \in {"failed", "result", "worker"} : phase' = [phase EXCEPT ![r] = p]
    BY <1>2 DEF StartRun
  <2>h. heard' = heard \/ heard' = [heard EXCEPT ![r] = {r}]
    BY <1>2 DEF StartRun
  <2>a. at' = at \/ \E g \in Workers \cup {NoWorker} : at' = [at EXCEPT ![r] = g]
    BY <1>2 DEF StartRun
  <2>2. /\ phase' \in [Runs -> {"idle", "integrity", "worker", "posted", "resetting", "lost"} \cup Settled]
        /\ heard' \in [Runs -> SUBSET Runs]
        /\ at' \in [Runs -> Workers \cup {NoWorker}]
    <3>1. phase' \in [Runs -> {"idle", "integrity", "worker", "posted", "resetting", "lost"} \cup Settled]
      BY <2>p DEF Settled
    <3>2. heard' \in [Runs -> SUBSET Runs]
      <4>1. heard \in [Runs -> SUBSET Runs] /\ {r} \subseteq Runs
        OBVIOUS
      <4> HIDE DEF TypeOK
      <4>2. CASE heard' = heard
        BY <4>1, <4>2
      <4>3. CASE heard' = [heard EXCEPT ![r] = {r}]
        BY <4>1, <4>3, RunsUpdated
      <4> QED BY <2>h, <4>2, <4>3
    <3>3. at' \in [Runs -> Workers \cup {NoWorker}]
      BY <2>a
    <3> QED BY <3>1, <3>2, <3>3
  <2>3. \/ UNCHANGED <<workerPromise, workerToken, created, token, port>>
        \/ \E g \in Workers : CreateWorker(g)
    BY <1>2 DEF StartRun
  <2> QED BY <1>c, <2>1, <2>2, <2>3
<1>3. ASSUME NEW r \in Runs, Post(r) PROVE TypeOK'
  <2>1. SettledRuns \subseteq Runs
    BY DEF SettledRuns
  <2>2. inbox' \in [Workers -> Seq(Runs)]
    <3>1. inbox' = inbox \/ inbox' = [inbox EXCEPT ![at[r]] = Append(@, r)]
      BY <1>3 DEF Post
    <3>2. ASSUME at[r] \in Workers PROVE Append(inbox[at[r]], r) \in Seq(Runs)
      BY <3>2
    <3> QED BY <3>1, <3>2
  <2>3. /\ phase' \in [Runs -> {"idle", "integrity", "worker", "posted", "resetting", "lost"} \cup Settled]
        /\ pending' \subseteq Runs /\ earlier' \in [Runs -> SUBSET Runs]
    <3>1. \E p \in {"rejected", "posted"} : phase' = [phase EXCEPT ![r] = p]
      BY <1>3 DEF Post
    <3>2. pending' \subseteq pending \cup {r} /\ earlier' \in {earlier, [earlier EXCEPT ![r] = SettledRuns]}
      BY <1>3 DEF Post
    <3>3. phase' \in [Runs -> {"idle", "integrity", "worker", "posted", "resetting", "lost"} \cup Settled]
      BY <3>1 DEF Settled
    <3>4. pending' \subseteq Runs
      BY <3>2
    <3>5. earlier' \in [Runs -> SUBSET Runs]
      <4>1. earlier \in [Runs -> SUBSET Runs]
        OBVIOUS
      <4> HIDE DEF TypeOK
      <4>2. CASE earlier' = earlier
        BY <4>1, <4>2
      <4>3. CASE earlier' = [earlier EXCEPT ![r] = SettledRuns]
        BY <2>1, <4>1, <4>3, RunsUpdated
      <4> QED BY <3>2, <4>2, <4>3
    <3> QED BY <3>3, <3>4, <3>5
  <2>4. UNCHANGED <<closed, integrity, workerPromise, workerToken, at, heard, cphase, cworker,
                    created, token, port, sick, running, lines, out>>
    BY <1>3 DEF Post
  <2> QED BY <2>2, <2>3, <2>4
<1>4. ASSUME NEW g, g = NoWorker \/ g \in Workers, ResetEnds(g) \/ ResetRejects(g)
      PROVE  port' \in [Workers -> {"none", "failed", "exited", "terminated"} \cup Alive]
  BY <1>4 DEF ResetEnds, ResetRejects
<1>5. ASSUME NEW r \in Runs, FinishReset(r) PROVE TypeOK'
  <2>1. port' \in [Workers -> {"none", "failed", "exited", "terminated"} \cup Alive]
    BY <1>4, <1>5 DEF FinishReset
  <2> QED BY <1>5, <2>1 DEF FinishReset, hostVars, Settled
<1>6. ASSUME NEW c \in Closers, Close(c) PROVE TypeOK'
  BY <1>r, <1>6 DEF Close, workerVars
<1>7. ASSUME NEW c \in Closers, FinishClose(c) PROVE TypeOK'
  <2>1. port' \in [Workers -> {"none", "failed", "exited", "terminated"} \cup Alive]
    BY <1>4, <1>7 DEF FinishClose
  <2> QED BY <1>7, <2>1 DEF FinishClose
<1>8. CASE IntegrityKnown
  BY <1>8 DEF IntegrityKnown, callVars, workerVars
<1>9. ASSUME NEW r \in Runs, Timer(r) PROVE TypeOK'
  BY <1>r, <1>9 DEF Timer, workerVars
<1>10. ASSUME NEW g \in Workers, PortSettles(g) PROVE TypeOK'
  BY <1>10 DEF PortSettles, hostVars, callVars, Alive
<1>11. ASSUME RejectPending
       PROVE  /\ pending' \subseteq Runs
              /\ phase' \in [Runs -> {"idle", "integrity", "worker", "posted", "resetting", "lost"} \cup Settled]
  BY <1>11 DEF RejectPending, Settled
<1>12. ASSUME NEW g \in Workers, Message(g) PROVE TypeOK'
  <2>1. Head(out[g]) \in Answer /\ Tail(out[g]) \in Seq(Answer)
    BY <1>12, HeadTail DEF Message
  <2>2. out' \in [Workers -> Seq(Answer)]
    BY <1>12, <2>1 DEF Message
  <2>3. /\ pending' \subseteq Runs /\ workerPromise' \in Workers \cup {NoWorker}
        /\ heard' \in [Runs -> SUBSET Runs]
        /\ phase' \in [Runs -> {"idle", "integrity", "worker", "posted", "resetting", "lost"} \cup Settled]
    <3>1. CASE ~ Head(out[g]).valid /\ workerPromise' = NoWorker /\ RejectPending /\ UNCHANGED heard
      BY <1>11, <3>1
    <3>2. CASE UNCHANGED <<pending, phase, heard, workerPromise>>
      BY <3>2
    <3>3. CASE /\ pending' = pending \ {Head(out[g]).run} /\ UNCHANGED workerPromise
               /\ \E s \in {"result", "failed"} : phase' = [phase EXCEPT ![Head(out[g]).run] = s]
               /\ heard' = [heard EXCEPT ![Head(out[g]).run] = Head(out[g]).lines]
      BY <2>1, <3>3 DEF Answer, Settled
    <3> QED BY <1>12, <3>1, <3>2, <3>3 DEF Message
  <2> QED BY <1>12, <2>2, <2>3 DEF Message
<1>13. ASSUME NEW g \in Workers, WorkerError(g) \/ WorkerExit(g) PROVE TypeOK'
  <2>1. /\ pending' \subseteq Runs /\ workerPromise' \in Workers \cup {NoWorker}
        /\ phase' \in [Runs -> {"idle", "integrity", "worker", "posted", "resetting", "lost"} \cup Settled]
    BY <1>11, <1>13 DEF WorkerError, WorkerExit, ErrorHandler
  <2>2. /\ sick' \in [Workers -> {"no", "error", "exit", "invalid"}]
        /\ port' \in [Workers -> {"none", "failed", "exited", "terminated"} \cup Alive]
    BY <1>13, ZenonT(60) DEF WorkerError, WorkerExit, Alive
  <2> QED BY <1>13, <2>1, <2>2 DEF WorkerError, WorkerExit
<1>14. ASSUME NEW g \in Workers, Takes(g) PROVE TypeOK'
  <2>1. Head(inbox[g]) \in Runs /\ Tail(inbox[g]) \in Seq(Runs)
    BY <1>14, HeadTail DEF Takes
  <2> QED BY <1>14, <2>1 DEF Takes, ResetOutput, hostVars, callVars
<1>15. ASSUME NEW g \in Workers, NEW r \in Runs, Prints(g, r) PROVE TypeOK'
  BY <1>15 DEF Prints, hostVars, callVars
<1>16. ASSUME NEW g \in Workers, NEW r \in Runs, Answers(g, r) PROVE TypeOK'
  <2>1. ASSUME NEW ok \in BOOLEAN
        PROVE  Append(out[g], [run |-> r, lines |-> lines[g], valid |-> ok]) \in Seq(Answer)
    <3>1. [run |-> r, lines |-> lines[g], valid |-> ok] \in Answer
      BY DEF Answer
    <3> QED BY <3>1
  <2>2. out' \in [Workers -> Seq(Answer)]
    <3> PICK ok \in BOOLEAN :
             out' = [out EXCEPT ![g] = Append(@, [run |-> r, lines |-> lines[g], valid |-> ok])]
      BY <1>16 DEF Answers
    <3> DEFINE answer == [run |-> r, lines |-> lines[g], valid |-> ok]
    <3>1. Append(out[g], answer) \in Seq(Answer)
      BY <2>1
    <3>2. out' = [out EXCEPT ![g] = Append(out[g], answer)]
      OBVIOUS
    <3> HIDE DEF answer
    <3> QED BY <3>1, <3>2
  <2>3. sick' \in [Workers -> {"no", "error", "exit", "invalid"}] /\ running' \in [Workers -> SUBSET Runs]
    BY <1>16 DEF Answers
  <2> QED BY <1>16, <2>2, <2>3 DEF Answers, hostVars, callVars
<1>17. CASE UNCHANGED vars
  BY <1>17 DEF vars, hostVars, callVars, workerVars
<1> QED
  BY <1>1, <1>2, <1>3, <1>5, <1>6, <1>7, <1>8, <1>9, <1>10, <1>12, <1>13, <1>14, <1>15, <1>16, <1>17
     DEF Next

\* The state keeps its type.
THEOREM SupervisorTypeCorrect == Spec => []TypeOK
<1>1. Init => TypeOK
  <2> SUFFICES ASSUME Init PROVE TypeOK
    OBVIOUS
  <2> USE DEF Init
  <2>1. inbox \in [Workers -> Seq(Runs)] /\ out \in [Workers -> Seq(Answer)]
    BY EmptySeq
  <2>2. created \in 0..MaxWorkers /\ workerToken \in Nat /\ token \in [Workers -> Nat]
    BY BrowserWorkersAssumption
  <2>3. /\ sick \in [Workers -> {"no"}] /\ port \in [Workers -> {"none"}]
        /\ phase \in [Runs -> {"idle"}] /\ cphase \in [Closers -> {"idle"}]
    OBVIOUS
  <2>4. /\ closed \in BOOLEAN /\ integrity = "none" /\ workerPromise = NoWorker /\ pending \subseteq Runs
        /\ at \in [Runs -> {NoWorker}] /\ cworker \in [Closers -> {NoWorker}]
        /\ heard \in [Runs -> SUBSET Runs] /\ earlier \in [Runs -> SUBSET Runs]
        /\ running \in [Workers -> SUBSET Runs] /\ lines \in [Workers -> SUBSET Runs]
    OBVIOUS
  <2> HIDE DEF Init
  <2> QED BY <2>1, <2>2, <2>3, <2>4 DEF TypeOK
<1> QED BY <1>1, TypeStep, PTL DEF Spec
-------------------------------------------------------------------------------
(* Where the calls are.                                                    *)

\* A step that leaves the calls and the pending map alone keeps the invariant.
LEMMA CallsStill ==
    CallsPlaced /\ UNCHANGED <<pending, phase, at>> => CallsPlaced'
BY DEF CallsPlaced

LEMMA PlacedStep == TypeOK /\ CallsPlaced /\ [Next]_vars => CallsPlaced'
<1> SUFFICES ASSUME TypeOK, CallsPlaced, [Next]_vars PROVE CallsPlaced'
  OBVIOUS
<1>t. /\ phase \in [Runs -> {"idle", "integrity", "worker", "posted", "resetting", "lost"} \cup Settled]
      /\ at \in [Runs -> Workers \cup {NoWorker}]
      /\ pending \subseteq Runs /\ workerPromise \in Workers \cup {NoWorker}
  BY DEF TypeOK
<1>w. NoWorker \notin Workers
  BY WorkerNumbers
<1>1. ASSUME NEW r \in Runs, Run(r) PROVE CallsPlaced'
  <2>1. /\ pending' = pending /\ at' = at /\ phase[r] = "idle"
        /\ \E p \in {"refused", "integrity"} : phase' = [phase EXCEPT ![r] = p]
    BY <1>1 DEF Run, Admission
  <2> QED BY <1>t, <2>1 DEF CallsPlaced
<1>2. ASSUME NEW r \in Runs, StartRun(r) PROVE CallsPlaced'
  <2>1. pending' = pending /\ phase[r] = "integrity"
    BY <1>2 DEF StartRun
  <2>2. \/ at' = at /\ \E p \in {"failed", "result"} : phase' = [phase EXCEPT ![r] = p]
        \/ \E g \in Workers : at' = [at EXCEPT ![r] = g] /\ phase' = [phase EXCEPT ![r] = "worker"]
    BY <1>t, <1>2 DEF StartRun
  <2>3. CASE at' = at /\ \E p \in {"failed", "result"} : phase' = [phase EXCEPT ![r] = p]
    BY <1>t, <2>1, <2>3 DEF CallsPlaced
  <2>4. ASSUME NEW g \in Workers, at' = [at EXCEPT ![r] = g], phase' = [phase EXCEPT ![r] = "worker"]
        PROVE  CallsPlaced'
    BY <1>t, <2>1, <2>4 DEF CallsPlaced
  <2> QED BY <2>2, <2>3, <2>4
<1>3. ASSUME NEW r \in Runs, Post(r) PROVE CallsPlaced'
  <2>1. /\ at' = at /\ phase[r] = "worker"
        /\ \/ pending' = pending /\ phase' = [phase EXCEPT ![r] = "rejected"]
           \/ pending' = pending \cup {r} /\ phase' = [phase EXCEPT ![r] = "posted"]
    BY <1>3 DEF Post
  <2> QED BY <1>t, <2>1 DEF CallsPlaced
<1>4. ASSUME NEW r \in Runs, Timer(r) PROVE CallsPlaced'
  <2>1. /\ pending' = pending \ {r} /\ phase' = [phase EXCEPT ![r] = "resetting"]
        /\ at' = [at EXCEPT ![r] = workerPromise]
    BY <1>4 DEF Timer
  <2> QED BY <1>t, <2>1 DEF CallsPlaced
<1>5. ASSUME NEW r \in Runs, FinishReset(r) PROVE CallsPlaced'
  <2>1. /\ pending' = pending /\ at' = at /\ phase[r] = "resetting"
        /\ \E p \in {"timeout", "lost"} : phase' = [phase EXCEPT ![r] = p]
    BY <1>5 DEF FinishReset, hostVars
  <2> QED BY <1>t, <2>1 DEF CallsPlaced
<1>6. ASSUME NEW c \in Closers, Close(c) \/ FinishClose(c) PROVE CallsPlaced'
  <2>1. pending' \subseteq pending /\ at' = at /\ phase' = phase
    BY <1>6 DEF Close, FinishClose
  <2> QED BY <2>1 DEF CallsPlaced
<1>7. ASSUME RejectPending, at' = at PROVE CallsPlaced'
  BY <1>t, <1>7 DEF CallsPlaced, RejectPending
<1>8. ASSUME NEW g \in Workers, Message(g) PROVE CallsPlaced'
  <2>1. /\ at' = at
        /\ \/ RejectPending
           \/ UNCHANGED <<pending, phase>>
           \/ \E r \in pending : /\ pending' = pending \ {r}
                                 /\ \E s \in {"result", "failed"} : phase' = [phase EXCEPT ![r] = s]
    BY <1>8 DEF Message
  <2> QED BY <1>t, <1>7, <2>1 DEF CallsPlaced
<1>9. ASSUME NEW g \in Workers, WorkerError(g) \/ WorkerExit(g) PROVE CallsPlaced'
  <2>1. at' = at /\ (RejectPending \/ UNCHANGED <<pending, phase>>)
    BY <1>9 DEF WorkerError, WorkerExit, ErrorHandler
  <2> QED BY <1>7, <2>1, CallsStill
<1>10. ASSUME UNCHANGED hostVars, UNCHANGED callVars PROVE CallsPlaced'
  BY <1>10, CallsStill DEF hostVars, callVars
<1>11. CASE IntegrityKnown
  BY <1>11, CallsStill DEF IntegrityKnown, callVars
<1>12. ASSUME NEW g \in Workers,
              PortSettles(g) \/ Takes(g) \/ \E r \in Runs : Prints(g, r) \/ Answers(g, r)
       PROVE  CallsPlaced'
  BY <1>10, <1>12 DEF PortSettles, Takes, Prints, Answers
<1>13. CASE UNCHANGED vars
  BY <1>10, <1>13 DEF vars
<1> QED
  BY <1>1, <1>2, <1>3, <1>4, <1>5, <1>6, <1>8, <1>9, <1>11, <1>12, <1>13 DEF Next

LEMMA CallsPlacedInvariant == Spec => []CallsPlaced
<1>1. Init => CallsPlaced
  BY DEF Init, CallsPlaced
<1> QED BY <1>1, PlacedStep, SupervisorTypeCorrect, PTL DEF Spec
-------------------------------------------------------------------------------
(* The supervisor implements the contract.  What a caller sees of phase is *)
(* Seen: a step makes one call, settles open calls and no others, or is a  *)
(* close().                                                                *)

Seen == [r \in Runs |->
            IF phase[r] \in {"timeout", "rejected"} THEN "failed"
            ELSE IF phase[r] \in Settled \cup {"idle"} THEN phase[r] ELSE "open"]

Open == {"integrity", "worker", "posted", "resetting", "lost"}

\* Calls that are not idle and not settled move on, or are settled.
OnlyOpenMove ==
    \A r \in Runs : \/ phase'[r] = phase[r]
                    \/ phase[r] \in Open /\ phase'[r] \in (Open \cup Settled) \ {"refused"}

\* Such a step is a Settle of the contract, or changes nothing a caller sees.
LEMMA MovingIsSettle ==
    ASSUME TypeOK, OnlyOpenMove, closed' = closed
    PROVE  [Contract!Next]_(Contract!vars)
<1>1. Seen = [r \in Runs |-> Seen[r]] /\ Seen' = [r \in Runs |-> Seen'[r]]
  BY DEF Seen
<1>s. \A r \in Runs : Seen'[r] # Seen[r] => Seen[r] = "open" /\ Seen'[r] \in {"result", "failed"}
  BY DEF OnlyOpenMove, Open, Seen, Settled
<1> PICK S \in SUBSET Runs : S = {r \in Runs : Seen'[r] # Seen[r]}
  OBVIOUS
<1>2. CASE S = {}
  <2>1. Seen' = Seen
    BY <1>1, <1>2
  <2> QED BY <2>1 DEF Contract!vars, Seen
<1>3. CASE S # {}
  <2> DEFINE answer == [r \in S |-> Seen'[r]]
  <2>1. answer \in [S -> {"result", "failed"}]
    BY <1>s
  <2>2. Seen' = [r \in Runs |-> IF r \in S THEN answer[r] ELSE Seen[r]]
    BY <1>1
  <2>3. \A r \in S : Seen[r] = "open"
    BY <1>s
  <2> HIDE DEF answer
  <2>4. Contract!Settle(S)
    BY <1>3, <2>1, <2>2, <2>3 DEF Contract!Settle, Seen
  <2> QED BY <2>4 DEF Contract!Next
<1> QED BY <1>2, <1>3

LEMMA ContractStep == TypeOK /\ CallsPlaced /\ [Next]_vars => [Contract!Next]_(Contract!vars)
<1> SUFFICES ASSUME TypeOK, CallsPlaced, [Next]_vars PROVE [Contract!Next]_(Contract!vars)
  OBVIOUS
<1>t. phase \in [Runs -> {"idle", "integrity", "worker", "posted", "resetting", "lost"} \cup Settled]
  BY DEF TypeOK
<1>p. \A r \in pending : r \in Runs /\ phase[r] = "posted"
  BY DEF TypeOK, CallsPlaced
<1>u. ASSUME UNCHANGED <<phase, closed>> PROVE [Contract!Next]_(Contract!vars)
  BY <1>u DEF Contract!vars
<1>1. ASSUME NEW r \in Runs, Run(r) PROVE [Contract!Next]_(Contract!vars)
  <2>1. /\ phase[r] = "idle" /\ closed' = closed
        /\ phase' = [phase EXCEPT ![r] = IF closed THEN "refused" ELSE "integrity"]
    BY <1>1 DEF Run, Admission
  <2>2. Seen' = [Seen EXCEPT ![r] = IF closed THEN "refused" ELSE "open"]
    BY <1>t, <2>1 DEF Seen, Settled
  <2>3. Seen[r] = "idle"
    BY <2>1 DEF Seen
  <2>4. Contract!Call(r)
    BY <2>1, <2>2, <2>3 DEF Contract!Call, Seen
  <2> QED BY <2>4 DEF Contract!Next
<1>2. ASSUME NEW c \in Closers, Close(c) PROVE [Contract!Next]_(Contract!vars)
  <2>1. closed' = TRUE /\ phase' = phase
    BY <1>2 DEF Close
  <2>2. Contract!Close
    BY <2>1 DEF Contract!Close
  <2> QED BY <2>2 DEF Contract!Next
<1>3. ASSUME NEW r \in Runs, phase[r] \in Open, closed' = closed,
             NEW p \in (Open \cup Settled) \ {"refused"}, phase' = [phase EXCEPT ![r] = p]
      PROVE  [Contract!Next]_(Contract!vars)
  <2>1. OnlyOpenMove
    BY <1>t, <1>3 DEF OnlyOpenMove
  <2> QED BY <1>3, <2>1, MovingIsSettle
<1>4. ASSUME NEW r \in Runs, StartRun(r) PROVE [Contract!Next]_(Contract!vars)
  <2>1. /\ phase[r] = "integrity" /\ closed' = closed
        /\ \E p \in {"failed", "result", "worker"} : phase' = [phase EXCEPT ![r] = p]
    BY <1>4 DEF StartRun
  <2> QED BY <1>3, <2>1 DEF Open, Settled
<1>5. ASSUME NEW r \in Runs, Post(r) PROVE [Contract!Next]_(Contract!vars)
  <2>1. /\ phase[r] = "worker" /\ closed' = closed
        /\ \E p \in {"rejected", "posted"} : phase' = [phase EXCEPT ![r] = p]
    BY <1>5 DEF Post
  <2> QED BY <1>3, <2>1 DEF Open, Settled
<1>6. ASSUME NEW r \in Runs, Timer(r) PROVE [Contract!Next]_(Contract!vars)
  <2>1. phase[r] = "posted" /\ closed' = closed /\ phase' = [phase EXCEPT ![r] = "resetting"]
    BY <1>6, <1>p DEF Timer
  <2> QED BY <1>3, <2>1 DEF Open, Settled
<1>7. ASSUME NEW r \in Runs, FinishReset(r) PROVE [Contract!Next]_(Contract!vars)
  <2>1. /\ phase[r] = "resetting" /\ closed' = closed
        /\ \E p \in {"timeout", "lost"} : phase' = [phase EXCEPT ![r] = p]
    BY <1>7 DEF FinishReset, hostVars
  <2> QED BY <1>3, <2>1 DEF Open, Settled
<1>8. ASSUME RejectPending, closed' = closed PROVE [Contract!Next]_(Contract!vars)
  <2>1. OnlyOpenMove
    BY <1>8, <1>p DEF RejectPending, OnlyOpenMove, Open, Settled
  <2> QED BY <1>8, <2>1, MovingIsSettle
<1>9. ASSUME NEW g \in Workers, Message(g) PROVE [Contract!Next]_(Contract!vars)
  <2>1. closed' = closed
    BY <1>9 DEF Message
  <2>2. \/ RejectPending
        \/ phase' = phase
        \/ \E r \in pending : \E s \in {"result", "failed"} : phase' = [phase EXCEPT ![r] = s]
    BY <1>9 DEF Message
  <2> QED BY <1>3, <1>8, <1>p, <1>u, <2>1, <2>2 DEF Open, Settled
<1>10. ASSUME NEW g \in Workers, WorkerError(g) \/ WorkerExit(g)
       PROVE  [Contract!Next]_(Contract!vars)
  <2>1. closed' = closed /\ (RejectPending \/ phase' = phase)
    BY <1>10 DEF WorkerError, WorkerExit, ErrorHandler
  <2> QED BY <1>8, <1>u, <2>1
<1>11. ASSUME NEW c \in Closers, FinishClose(c) PROVE [Contract!Next]_(Contract!vars)
  BY <1>u, <1>11 DEF FinishClose
<1>12. CASE IntegrityKnown
  BY <1>u, <1>12 DEF IntegrityKnown, callVars
<1>13. ASSUME NEW g \in Workers,
              PortSettles(g) \/ Takes(g) \/ \E r \in Runs : Prints(g, r) \/ Answers(g, r)
       PROVE  [Contract!Next]_(Contract!vars)
  BY <1>u, <1>13 DEF PortSettles, Takes, Prints, Answers, hostVars, callVars
<1>14. CASE UNCHANGED vars
  BY <1>u, <1>14 DEF vars, hostVars, callVars
<1> QED
  BY <1>1, <1>2, <1>4, <1>5, <1>6, <1>7, <1>9, <1>10, <1>11, <1>12, <1>13, <1>14 DEF Next

\* The supervisor implements the contract of every runtime: run() is refused
\* exactly when close() came before it, and a call that was settled stays as
\* it is through timers, resets, late answers and errors of its worker.
THEOREM SupervisorKeepsContract == Spec => KeepsContract
<1>1. Init => Contract!Init
  BY DEF Init, Contract!Init, Settled
<1> QED
  BY <1>1, SupervisorTypeCorrect, CallsPlacedInvariant, ContractStep, PTL
     DEF Spec, KeepsContract, Contract!Spec
-------------------------------------------------------------------------------
(* Messages and faults of workers.                                         *)

\* Taking the first element leaves no new ones, appending adds one.
LEMMA TailElements ==
    ASSUME NEW S, NEW s \in Seq(S), s # <<>>
    PROVE  /\ DOMAIN Tail(s) = 1..(Len(s) - 1) /\ \A i \in DOMAIN Tail(s) : Tail(s)[i] = s[i + 1]
           /\ {Tail(s)[i] : i \in DOMAIN Tail(s)} \subseteq {s[i] : i \in DOMAIN s}
           /\ Head(s) \in {s[i] : i \in DOMAIN s}
<1>1. Len(s) \in Nat /\ Len(s) # 0 /\ DOMAIN s = 1..Len(s) /\ Head(s) = s[1]
  OBVIOUS
<1>2. DOMAIN Tail(s) = 1..(Len(s) - 1) /\ \A i \in DOMAIN Tail(s) : Tail(s)[i] = s[i + 1]
  OBVIOUS
<1>3. \A i \in 1..(Len(s) - 1) : i + 1 \in 1..Len(s)
  BY <1>1
<1>4. 1 \in 1..Len(s)
  BY <1>1
<1> QED BY <1>1, <1>2, <1>3, <1>4

LEMMA AppendElements ==
    ASSUME NEW S, NEW s \in Seq(S), NEW e
    PROVE  {Append(s, e)[i] : i \in DOMAIN Append(s, e)} = {s[i] : i \in DOMAIN s} \cup {e}
<1>1. Len(s) \in Nat /\ DOMAIN s = 1..Len(s) /\ DOMAIN Append(s, e) = 1..(Len(s) + 1)
  OBVIOUS
<1>2. \A i \in 1..Len(s) : Append(s, e)[i] = s[i]
  BY <1>1
<1>3. Append(s, e)[Len(s) + 1] = e
  BY <1>1
<1>4. 1..(Len(s) + 1) = 1..Len(s) \cup {Len(s) + 1}
  BY <1>1
<1> QED BY <1>1, <1>2, <1>3, <1>4

LEMMA AnswersElements ==
    \A s \in Seq(Answer) : \A e :
        {Append(s, e)[i] : i \in DOMAIN Append(s, e)} = {s[i] : i \in DOMAIN s} \cup {e}
BY AppendElements

LEMMA BlamedStep == TypeOK /\ InvalidBlamed /\ [Next]_vars => InvalidBlamed'
<1> SUFFICES ASSUME TypeOK, InvalidBlamed, [Next]_vars PROVE InvalidBlamed'
  OBVIOUS
<1>t. out \in [Workers -> Seq(Answer)] /\ sick \in [Workers -> {"no", "error", "exit", "invalid"}]
  BY DEF TypeOK
<1>1. ASSUME NEW g \in Workers, Message(g) PROVE InvalidBlamed'
  <2>1. out[g] # <<>> /\ out' = [out EXCEPT ![g] = Tail(out[g])] /\ sick' = sick
    BY <1>1 DEF Message
  <2>2. \A h \in Workers : Messages(h)' \subseteq Messages(h)
    BY <1>t, <2>1, TailElements DEF Messages
  <2> QED BY <2>1, <2>2 DEF InvalidBlamed
<1>2. ASSUME NEW g \in Workers, WorkerError(g) \/ WorkerExit(g) PROVE InvalidBlamed'
  <2>1. out' = out /\ sick[g] = "no" /\ \E s : sick' = [sick EXCEPT ![g] = s]
    BY <1>2 DEF WorkerError, WorkerExit
  <2>2. \A h \in Workers : Messages(h)' = Messages(h)
    BY <2>1 DEF Messages
  <2> QED BY <1>t, <2>1, <2>2 DEF InvalidBlamed
<1>3. ASSUME NEW g \in Workers, NEW r \in Runs, Answers(g, r) PROVE InvalidBlamed'
  <2> PICK ok \in BOOLEAN :
           /\ out' = [out EXCEPT ![g] = Append(@, [run |-> r, lines |-> lines[g], valid |-> ok])]
           /\ sick' = IF ok THEN sick ELSE [sick EXCEPT ![g] = "invalid"]
    BY <1>3 DEF Answers
  <2> DEFINE answer == [run |-> r, lines |-> lines[g], valid |-> ok]
  <2>1. answer.valid = ok
    OBVIOUS
  <2>2. out' = [out EXCEPT ![g] = Append(out[g], answer)]
    OBVIOUS
  <2> HIDE DEF answer
  <2>3. Messages(g)' = Messages(g) \cup {answer} /\ \A h \in Workers \ {g} : Messages(h)' = Messages(h)
    <3>1. /\ out'[g] = Append(out[g], answer) /\ out[g] \in Seq(Answer)
          /\ \A h \in Workers \ {g} : out'[h] = out[h]
      BY <1>t, <2>2
    <3>2. {Append(out[g], answer)[i] : i \in DOMAIN Append(out[g], answer)} = Messages(g) \cup {answer}
      BY <3>1, AppendElements, SMTT(30) DEF Messages
    <3> QED BY <3>1, <3>2, SMTT(30) DEF Messages
  <2>4. /\ \A h \in Workers : sick[h] = "invalid" => sick'[h] = "invalid"
        /\ ~ ok => sick'[g] = "invalid"
    BY <1>t
  <2> QED BY <2>1, <2>3, <2>4 DEF InvalidBlamed
<1>4. ASSUME UNCHANGED <<out, sick>> PROVE InvalidBlamed'
  BY <1>4 DEF InvalidBlamed, Messages
<1>5. ASSUME NEW r \in Runs, Run(r) \/ StartRun(r) \/ Post(r) \/ Timer(r) \/ FinishReset(r)
      PROVE  InvalidBlamed'
  BY <1>4, <1>5 DEF Run, StartRun, Post, Timer, FinishReset, workerVars
<1>6. ASSUME NEW c \in Closers, Close(c) \/ FinishClose(c) PROVE InvalidBlamed'
  BY <1>4, <1>6 DEF Close, FinishClose, workerVars
<1>7. CASE IntegrityKnown
  BY <1>4, <1>7 DEF IntegrityKnown, workerVars
<1>8. ASSUME NEW g \in Workers, PortSettles(g) \/ Takes(g) \/ \E r \in Runs : Prints(g, r)
      PROVE  InvalidBlamed'
  BY <1>4, <1>8 DEF PortSettles, Takes, Prints
<1>9. CASE UNCHANGED vars
  BY <1>4, <1>9 DEF vars, workerVars
<1> QED BY <1>1, <1>2, <1>3, <1>5, <1>6, <1>7, <1>8, <1>9 DEF Next

LEMMA InvalidBlamedInvariant == Spec => []InvalidBlamed
<1>1. Init => InvalidBlamed
  BY DEF Init, InvalidBlamed, Messages
<1> QED BY <1>1, BlamedStep, SupervisorTypeCorrect, PTL DEF Spec

\* A worker that once did something wrong did.
LEMMA FaultsRemembered == TypeOK /\ [Next]_vars /\ InvalidSeen => InvalidSeen'
<1> SUFFICES ASSUME TypeOK, [Next]_vars, NEW h \in Workers, sick[h] = "invalid"
             PROVE  sick'[h] = "invalid"
  BY DEF InvalidSeen
<1>1. sick \in [Workers -> {"no", "error", "exit", "invalid"}]
  BY DEF TypeOK
<1>2. \/ sick' = sick
      \/ \E g \in Workers : /\ sick' = [sick EXCEPT ![g] = "invalid"]
      \/ \E g \in Workers : sick[g] = "no" /\ \E s : sick' = [sick EXCEPT ![g] = s]
  BY DEF Next, Run, StartRun, Post, Timer, FinishReset, Close, FinishClose, IntegrityKnown,
         PortSettles, Message, WorkerError, WorkerExit, Takes, Prints, Answers, vars, workerVars
<1> QED BY <1>1, <1>2
-------------------------------------------------------------------------------
(* Tokens.                                                                 *)

\* No worker is created, no port appears, and the current worker and the
\* token are as they were or were reset.
TokensStill ==
    /\ UNCHANGED <<created, token>>
    /\ \A g \in Workers : port'[g] # "none" => port[g] # "none"
    /\ \/ UNCHANGED <<workerPromise, workerToken>>
       \/ workerPromise' = NoWorker /\ workerToken' \in {workerToken, workerToken + 1}

LEMMA TokensKept == TypeOK /\ TokensOrdered /\ TokensStill => TokensOrdered'
<1> SUFFICES ASSUME TypeOK, TokensOrdered, TokensStill PROVE TokensOrdered'
  OBVIOUS
<1>1. /\ created \in Nat /\ workerToken \in Nat /\ \A g \in Workers : token[g] \in Nat
      /\ Workers \subseteq Nat /\ NoWorker = 0
  BY WorkerNumbers, BrowserWorkersAssumption DEF TypeOK, NoWorker
<1>2. workerPromise' <= created'
  BY <1>1 DEF TokensOrdered, TokensStill
<1>3. \A g \in Workers : port'[g] # "none" => g <= created'
  BY DEF TokensOrdered, TokensStill
<1>4. ASSUME NEW g \in Workers, g <= created'
      PROVE  /\ token'[g] <= workerToken'
             /\ workerPromise' # NoWorker /\ g # workerPromise' => token'[g] < workerToken'
  BY <1>1, <1>4 DEF TokensOrdered, TokensStill
<1> QED BY <1>2, <1>3, <1>4 DEF TokensOrdered

LEMMA TokensStep == TypeOK /\ TokensOrdered /\ [Next]_vars => TokensOrdered'
<1> SUFFICES ASSUME TypeOK, TokensOrdered, [Next]_vars PROVE TokensOrdered'
  OBVIOUS
<1> USE TokensKept
<1>t. port \in [Workers -> {"none", "failed", "exited", "terminated"} \cup Alive]
  BY DEF TypeOK
<1>1. ASSUME NEW g \in Workers, CreateWorker(g) PROVE TokensOrdered'
  <2>1. /\ created \in Nat /\ workerToken \in Nat /\ token \in [Workers -> Nat]
        /\ Workers \subseteq Nat /\ g \in Nat
    BY WorkerNumbers, BrowserWorkersAssumption DEF TypeOK
  <2>2. /\ workerPromise = NoWorker /\ g = created + 1 /\ created' = g
        /\ workerPromise' = g /\ workerToken' = workerToken + 1
        /\ token' = [token EXCEPT ![g] = workerToken + 1] /\ port' = [port EXCEPT ![g] = "creating"]
    BY <1>1 DEF CreateWorker
  <2>3. workerPromise' <= created'
    BY <2>1, <2>2
  <2>4. ASSUME NEW h \in Workers, port'[h] # "none" PROVE h <= created'
    <3>1. h = g \/ port[h] # "none"
      BY <1>t, <2>2, <2>4
    <3> QED BY <2>1, <2>2, <3>1 DEF TokensOrdered
  <2>5. ASSUME NEW h \in Workers, h <= created', h # g PROVE token'[h] < workerToken'
    <3>1. h <= created
      BY <2>1, <2>2, <2>5
    <3>2. token'[h] = token[h] /\ token[h] <= workerToken /\ token[h] \in Nat
      BY <2>1, <2>2, <2>5, <3>1 DEF TokensOrdered
    <3> QED BY <2>1, <2>2, <3>2
  <2>6. token'[g] = workerToken' /\ workerToken' \in Nat
    BY <2>1, <2>2
  <2>7. \A h \in Workers : token'[h] \in Nat
    BY <2>1, <2>2
  <2>8. ASSUME NEW h \in Workers, h <= created'
        PROVE  /\ token'[h] <= workerToken'
               /\ workerPromise' # NoWorker /\ h # workerPromise' => token'[h] < workerToken'
    <3>1. CASE h = g
      BY <2>2, <2>6, <3>1
    <3>2. CASE h # g
      BY <2>5, <2>6, <2>7, <2>8, <3>2
    <3> QED BY <3>1, <3>2
  <2> QED BY <2>3, <2>4, <2>8 DEF TokensOrdered
<1>2. ASSUME NEW r \in Runs, StartRun(r) PROVE TokensOrdered'
  <2>1. \/ UNCHANGED <<workerPromise, workerToken, created, token, port>>
        \/ \E g \in Workers : CreateWorker(g)
    BY <1>2 DEF StartRun
  <2> QED BY <1>1, <2>1 DEF TokensStill
<1>3. ASSUME Reset PROVE \/ UNCHANGED <<workerPromise, workerToken>>
                         \/ /\ workerPromise' = NoWorker
                            /\ workerToken' \in {workerToken, workerToken + 1}
  BY <1>3 DEF Reset
<1>4. ASSUME NEW g, ResetEnds(g) \/ ResetRejects(g)
      PROVE  \A h \in Workers : port'[h] # "none" => port[h] # "none"
  BY <1>4, <1>t DEF ResetEnds, ResetRejects
<1>5. ASSUME NEW r \in Runs, Run(r) \/ Post(r) \/ Timer(r) \/ FinishReset(r) PROVE TokensOrdered'
  BY <1>3, <1>4, <1>5 DEF TokensStill, Run, Post, Timer, FinishReset, workerVars, hostVars
<1>6. ASSUME NEW c \in Closers, Close(c) \/ FinishClose(c) PROVE TokensOrdered'
  BY <1>3, <1>4, <1>6 DEF TokensStill, Close, FinishClose, workerVars
<1>7. CASE IntegrityKnown
  BY <1>7 DEF TokensStill, IntegrityKnown, workerVars
<1>8. ASSUME NEW g \in Workers, PortSettles(g) \/ Message(g) PROVE TokensOrdered'
  BY <1>t, <1>8 DEF TokensStill, PortSettles, Message, hostVars
<1>9. ASSUME NEW g \in Workers, WorkerError(g) \/ WorkerExit(g) PROVE TokensOrdered'
  BY <1>t, <1>9 DEF TokensStill, WorkerError, WorkerExit, ErrorHandler
<1>10. ASSUME NEW g \in Workers, Takes(g) \/ \E r \in Runs : Prints(g, r) \/ Answers(g, r)
       PROVE  TokensOrdered'
  BY <1>10 DEF TokensStill, Takes, Prints, Answers, hostVars
<1>11. CASE UNCHANGED vars
  BY <1>11 DEF TokensStill, vars, hostVars, workerVars
<1> QED BY <1>2, <1>5, <1>6, <1>7, <1>8, <1>9, <1>10, <1>11 DEF Next

LEMMA TokensOrderedInvariant == Spec => []TokensOrdered
<1>1. Init => TokensOrdered
  BY WorkerNumbers DEF Init, TokensOrdered, NoWorker
<1> QED BY <1>1, TokensStep, SupervisorTypeCorrect, PTL DEF Spec

\* A handler that is heard is the current worker's, or there is no current
\* worker.
LEMMA HeardIsCurrent ==
    ASSUME TypeOK, TokensOrdered, NEW g \in Workers, port[g] # "none", HandlerHears(g)
    PROVE  workerPromise \in {g, NoWorker}
<1>1. workerToken \in Nat /\ token[g] \in Nat /\ g <= created
  BY DEF TypeOK, TokensOrdered
<1> QED BY <1>1 DEF TokensOrdered, HandlerHears
-------------------------------------------------------------------------------
(* Healthy workers are owned.                                              *)

\* No reset() in progress ends, and no worker becomes a healthy one.
ResetsStill ==
    /\ \A r \in Runs : phase[r] = "resetting" => phase'[r] = "resetting" /\ at'[r] = at[r]
    /\ \A c \in Closers : cphase[c] = "resetting" => cphase'[c] = "resetting" /\ cworker'[c] = cworker[c]

HealthyStill ==
    \A g \in Workers : port'[g] \in Alive /\ sick'[g] = "no" => port[g] \in Alive /\ sick[g] = "no"

LEMMA ResetsKept == ResetsStill => \A g \in Workers : BeingReset(g) => BeingReset(g)'
BY DEF ResetsStill, BeingReset

LEMMA OwnedKept ==
    ASSUME HealthyWorkerOwned, ~ InvalidSeen, ResetsStill, HealthyStill,
           \A g \in Workers : port'[g] \in Alive /\ sick'[g] = "no" /\ g = workerPromise =>
               g = workerPromise' \/ BeingReset(g)'
    PROVE  HealthyWorkerOwned'
BY ResetsKept DEF HealthyWorkerOwned, HealthyStill

LEMMA OwnedStep ==
    /\ TypeOK /\ CallsPlaced /\ InvalidBlamed /\ TokensOrdered /\ HealthyWorkerOwned /\ [Next]_vars
    => HealthyWorkerOwned'
<1> SUFFICES ASSUME TypeOK, CallsPlaced, InvalidBlamed, TokensOrdered, HealthyWorkerOwned,
                    ~ InvalidSeen, [Next]_vars
             PROVE  HealthyWorkerOwned'
  BY FaultsRemembered DEF HealthyWorkerOwned
<1>t. /\ phase \in [Runs -> {"idle", "integrity", "worker", "posted", "resetting", "lost"} \cup Settled]
      /\ at \in [Runs -> Workers \cup {NoWorker}] /\ cphase \in [Closers -> {"idle", "resetting", "done", "rejected"}]
      /\ cworker \in [Closers -> Workers \cup {NoWorker}]
      /\ port \in [Workers -> {"none", "failed", "exited", "terminated"} \cup Alive]
      /\ sick \in [Workers -> {"no", "error", "exit", "invalid"}]
  BY DEF TypeOK
<1>p. \A r \in pending : r \in Runs /\ phase[r] = "posted"
  BY DEF TypeOK, CallsPlaced
<1>w. NoWorker \notin Workers
  BY WorkerNumbers
<1>o. \A g \in Workers : port[g] \in Alive /\ sick[g] = "no" => g = workerPromise \/ BeingReset(g)
  BY DEF HealthyWorkerOwned
\* Steps that leave the current worker, the resets, the ports and the faults.
<1>k. ASSUME ResetsStill, HealthyStill, workerPromise' = workerPromise PROVE HealthyWorkerOwned'
  BY <1>k, OwnedKept
<1>1. ASSUME NEW r \in Runs, Run(r) PROVE HealthyWorkerOwned'
  <2>1. /\ phase[r] = "idle" /\ \E p : phase' = [phase EXCEPT ![r] = p]
        /\ UNCHANGED <<at, cphase, cworker, workerPromise, port, sick>>
    BY <1>1 DEF Run, workerVars
  <2>2. ResetsStill /\ HealthyStill
    BY <1>t, <2>1 DEF ResetsStill, HealthyStill
  <2> QED BY <1>k, <2>1, <2>2
<1>2. ASSUME NEW r \in Runs, StartRun(r) PROVE HealthyWorkerOwned'
  <2>1. /\ phase[r] = "integrity" /\ \E p : phase' = [phase EXCEPT ![r] = p]
        /\ at' = at \/ \E g : at' = [at EXCEPT ![r] = g]
        /\ UNCHANGED <<cphase, cworker, sick>>
    BY <1>2 DEF StartRun
  <2>2. ResetsStill
    BY <1>t, <2>1 DEF ResetsStill
  <2>3. CASE UNCHANGED <<workerPromise, port>>
    <3>1. HealthyStill
      BY <2>1, <2>3 DEF HealthyStill
    <3> QED BY <1>k, <2>2, <2>3, <3>1
  <2>4. ASSUME NEW g \in Workers, CreateWorker(g) PROVE HealthyWorkerOwned'
    <3>1. workerPromise = NoWorker /\ workerPromise' = g /\ port' = [port EXCEPT ![g] = "creating"]
      BY <2>4 DEF CreateWorker
    <3>2. ASSUME NEW h \in Workers, port'[h] \in Alive, sick'[h] = "no", h # g
          PROVE  BeingReset(h)'
      <4>1. port[h] \in Alive /\ sick[h] = "no" /\ h # workerPromise
        BY <1>t, <1>w, <2>1, <3>1, <3>2
      <4> QED BY <1>o, <2>2, <4>1, ResetsKept
    <3> QED BY <3>1, <3>2 DEF HealthyWorkerOwned
  <2> QED BY <1>2, <2>3, <2>4 DEF StartRun
<1>3. ASSUME NEW r \in Runs, Post(r) PROVE HealthyWorkerOwned'
  <2>1. /\ phase[r] = "worker" /\ \E p : phase' = [phase EXCEPT ![r] = p]
        /\ UNCHANGED <<at, cphase, cworker, workerPromise, port, sick>>
    BY <1>3 DEF Post
  <2>2. ResetsStill /\ HealthyStill
    BY <1>t, <2>1 DEF ResetsStill, HealthyStill
  <2> QED BY <1>k, <2>1, <2>2
<1>4. ASSUME NEW r \in Runs, Timer(r) PROVE HealthyWorkerOwned'
  <2>1. /\ phase' = [phase EXCEPT ![r] = "resetting"] /\ at' = [at EXCEPT ![r] = workerPromise]
        /\ UNCHANGED <<cphase, cworker, port, sick>> /\ phase[r] = "posted"
    BY <1>4, <1>p DEF Timer, workerVars
  <2>2. ResetsStill /\ HealthyStill
    BY <1>t, <2>1 DEF ResetsStill, HealthyStill
  <2>3. \A g \in Workers : g = workerPromise => BeingReset(g)'
    BY <1>t, <2>1 DEF BeingReset
  <2> QED BY <2>2, <2>3, OwnedKept
<1>5. ASSUME NEW c \in Closers, Close(c) PROVE HealthyWorkerOwned'
  <2>1. /\ cphase' = [cphase EXCEPT ![c] = "resetting"] /\ cworker' = [cworker EXCEPT ![c] = workerPromise]
        /\ UNCHANGED <<phase, at, port, sick>> /\ cphase[c] = "idle"
    BY <1>5 DEF Close, workerVars
  <2>2. ResetsStill /\ HealthyStill
    BY <1>t, <2>1 DEF ResetsStill, HealthyStill
  <2>3. \A g \in Workers : g = workerPromise => BeingReset(g)'
    BY <1>t, <2>1 DEF BeingReset
  <2> QED BY <2>2, <2>3, OwnedKept
<1>6. ASSUME NEW r \in Runs, FinishReset(r) PROVE HealthyWorkerOwned'
  <2>1. /\ \E p : phase' = [phase EXCEPT ![r] = p]
        /\ UNCHANGED <<at, cphase, cworker, workerPromise, sick>>
        /\ ResetEnds(at[r]) \/ ResetRejects(at[r])
    BY <1>6 DEF FinishReset, hostVars
  <2>2. ASSUME NEW g \in Workers, port'[g] \in Alive PROVE port[g] \in Alive /\ g # at[r]
    BY <1>t, <1>w, <2>1, <2>2 DEF ResetEnds, ResetRejects, Alive
  <2>3. ASSUME NEW g \in Workers, g # at[r], BeingReset(g) PROVE BeingReset(g)'
    BY <1>t, <2>1, <2>3 DEF BeingReset
  <2> QED BY <1>o, <2>1, <2>2, <2>3 DEF HealthyWorkerOwned
<1>7. ASSUME NEW c \in Closers, FinishClose(c) PROVE HealthyWorkerOwned'
  <2>1. /\ \E p : cphase' = [cphase EXCEPT ![c] = p]
        /\ UNCHANGED <<phase, at, cworker, workerPromise, sick>>
        /\ ResetEnds(cworker[c]) \/ ResetRejects(cworker[c])
    BY <1>7 DEF FinishClose
  <2>2. ASSUME NEW g \in Workers, port'[g] \in Alive PROVE port[g] \in Alive /\ g # cworker[c]
    BY <1>t, <1>w, <2>1, <2>2 DEF ResetEnds, ResetRejects, Alive
  <2>3. ASSUME NEW g \in Workers, g # cworker[c], BeingReset(g) PROVE BeingReset(g)'
    BY <1>t, <2>1, <2>3 DEF BeingReset
  <2> QED BY <1>o, <2>1, <2>2, <2>3 DEF HealthyWorkerOwned
<1>8. ASSUME RejectPending, UNCHANGED <<at, cphase, cworker>> PROVE ResetsStill
  BY <1>t, <1>p, <1>8 DEF RejectPending, ResetsStill
<1>9. ASSUME NEW g \in Workers, Message(g) PROVE HealthyWorkerOwned'
  <2>1. out[g] # <<>> /\ UNCHANGED <<at, cphase, cworker, port, sick>>
    BY <1>9 DEF Message
  <2>2. Head(out[g]) \in Messages(g)
    BY <2>1, TailElements DEF TypeOK, Messages
  <2>3. Head(out[g]).valid
    BY <2>2 DEF InvalidBlamed, InvalidSeen
  <2>4. /\ workerPromise' = workerPromise
        /\ \/ phase' = phase
           \/ \E r \in pending : \E s \in {"result", "failed"} : phase' = [phase EXCEPT ![r] = s]
    BY <1>9, <2>3 DEF Message
  <2>5. ResetsStill /\ HealthyStill
    BY <1>t, <1>p, <2>1, <2>4 DEF ResetsStill, HealthyStill
  <2> QED BY <1>k, <2>4, <2>5
<1>10. ASSUME NEW g \in Workers, WorkerError(g) \/ WorkerExit(g) PROVE HealthyWorkerOwned'
  <2>1. /\ UNCHANGED <<at, cphase, cworker>> /\ port[g] # "none" /\ sick'[g] # "no"
        /\ \A h \in Workers \ {g} : port'[h] = port[h] /\ sick'[h] = sick[h]
        /\ ErrorHandler(g)
    BY <1>t, <1>10 DEF WorkerError, WorkerExit
  <2>2. HealthyStill
    BY <2>1 DEF HealthyStill
  <2>3. CASE ~ HandlerHears(g)
    <3>1. UNCHANGED <<workerPromise, phase>>
      BY <2>1, <2>3 DEF ErrorHandler
    <3>2. ResetsStill
      BY <2>1, <3>1 DEF ResetsStill
    <3> QED BY <1>k, <2>2, <3>1, <3>2
  <2>4. CASE HandlerHears(g)
    <3>1. workerPromise \in {g, NoWorker}
      BY <2>1, <2>4, HeardIsCurrent
    <3>2. RejectPending
      BY <2>1, <2>4 DEF ErrorHandler
    <3>3. ResetsStill
      BY <1>8, <2>1, <3>2
    <3> QED BY <1>w, <2>1, <2>2, <3>1, <3>3, OwnedKept
  <2> QED BY <2>3, <2>4
<1>11. ASSUME NEW g \in Workers, PortSettles(g) PROVE HealthyWorkerOwned'
  <2>1. /\ port[g] = "creating" /\ \E p : port' = [port EXCEPT ![g] = p]
        /\ UNCHANGED <<phase, at, cphase, cworker, workerPromise, sick>>
    BY <1>11 DEF PortSettles, hostVars, callVars
  <2>2. ResetsStill /\ HealthyStill
    BY <1>t, <2>1 DEF ResetsStill, HealthyStill, Alive
  <2> QED BY <1>k, <2>1, <2>2
<1>12. ASSUME UNCHANGED <<phase, at, cphase, cworker, workerPromise, port>>, HealthyStill
       PROVE  HealthyWorkerOwned'
  BY <1>k, <1>12 DEF ResetsStill
<1>13. CASE IntegrityKnown
  BY <1>12, <1>13 DEF IntegrityKnown, callVars, workerVars, HealthyStill
<1>14. ASSUME NEW g \in Workers, Takes(g) \/ \E r \in Runs : Prints(g, r)
       PROVE  HealthyWorkerOwned'
  BY <1>12, <1>14 DEF Takes, Prints, hostVars, callVars, HealthyStill
<1>15. ASSUME NEW g \in Workers, NEW r \in Runs, Answers(g, r) PROVE HealthyWorkerOwned'
  <2>1. sick' = sick \/ sick' = [sick EXCEPT ![g] = "invalid"]
    BY <1>15 DEF Answers
  <2>2. UNCHANGED <<phase, at, cphase, cworker, workerPromise, port>>
    BY <1>15 DEF Answers, hostVars, callVars
  <2>3. HealthyStill
    BY <1>t, <2>1, <2>2 DEF HealthyStill
  <2> QED BY <1>12, <2>2, <2>3
<1>16. CASE UNCHANGED vars
  BY <1>12, <1>16 DEF vars, hostVars, callVars, workerVars, HealthyStill
<1> QED
  BY <1>1, <1>2, <1>3, <1>4, <1>5, <1>6, <1>7, <1>9, <1>10, <1>11, <1>13, <1>14, <1>15, <1>16
     DEF Next

\* A worker that did nothing wrong is the current one or is being terminated:
\* timeouts, closes and late exits of other workers abandon none.
THEOREM HealthyWorkerOwnedHolds == Spec => []HealthyWorkerOwned
<1>1. Init => HealthyWorkerOwned
  BY DEF Init, HealthyWorkerOwned, Alive
<1> QED
  BY <1>1, OwnedStep, SupervisorTypeCorrect, CallsPlacedInvariant, InvalidBlamedInvariant,
     TokensOrderedInvariant, PTL DEF Spec
-------------------------------------------------------------------------------
(* Requests fail with their worker.                                        *)

FailsOnlyWithItsWorker ==
    \A r \in Runs :
        phase[r] = "posted" /\ phase'[r] = "rejected" /\ ~ InvalidSeen =>
           sick'[at[r]] # "no" \/ at[r] # workerPromise

LEMMA FailsStep ==
    TypeOK /\ CallsPlaced /\ InvalidBlamed /\ TokensOrdered /\ [Next]_vars => FailsOnlyWithItsWorker
<1> SUFFICES ASSUME TypeOK, CallsPlaced, InvalidBlamed, TokensOrdered, [Next]_vars, ~ InvalidSeen,
                    NEW r \in Runs, phase[r] = "posted", phase'[r] = "rejected"
             PROVE  sick'[at[r]] # "no" \/ at[r] # workerPromise
  BY DEF FailsOnlyWithItsWorker
<1>t. /\ phase \in [Runs -> {"idle", "integrity", "worker", "posted", "resetting", "lost"} \cup Settled]
      /\ at[r] \in Workers /\ NoWorker \notin Workers /\ sick \in [Workers -> {"no", "error", "exit", "invalid"}]
  BY WorkerNumbers DEF TypeOK, CallsPlaced
<1>1. ASSUME NEW g \in Workers, WorkerError(g) \/ WorkerExit(g)
      PROVE  sick'[at[r]] # "no" \/ at[r] # workerPromise
  <2>1. port[g] # "none" /\ sick'[g] # "no" /\ ErrorHandler(g)
    BY <1>t, <1>1 DEF WorkerError, WorkerExit
  <2>2. HandlerHears(g)
    BY <2>1 DEF ErrorHandler
  <2>3. workerPromise \in {g, NoWorker}
    BY <2>1, <2>2, HeardIsCurrent
  <2> QED BY <1>t, <2>1, <2>3
\* No other step rejects a request that was posted.
<1>2. ASSUME NEW g \in Workers, Message(g) PROVE FALSE
  <2>1. Head(out[g]) \in Messages(g)
    BY <1>2, TailElements DEF TypeOK, Messages, Message
  <2>2. Head(out[g]).valid
    BY <2>1 DEF InvalidBlamed, InvalidSeen
  <2>3. phase' = phase \/ \E q : \E s \in {"result", "failed"} : phase' = [phase EXCEPT ![q] = s]
    BY <1>2, <2>2 DEF Message
  <2> QED BY <1>t, <2>3
<1>3. ASSUME NEW q \in Runs, Run(q) \/ StartRun(q) \/ Post(q) \/ Timer(q) \/ FinishReset(q) PROVE FALSE
  <2>1. \E p : /\ phase' = [phase EXCEPT ![q] = p]
               /\ p # "rejected" \/ phase[q] = "worker"
    BY <1>3 DEF Run, Admission, StartRun, Post, Timer, FinishReset
  <2> QED BY <1>t, <2>1
<1>4. ASSUME phase' = phase PROVE FALSE
  BY <1>4
<1>5. ASSUME NEW c \in Closers, Close(c) \/ FinishClose(c) PROVE FALSE
  BY <1>4, <1>5 DEF Close, FinishClose
<1>6. ASSUME NEW g \in Workers,
             PortSettles(g) \/ Takes(g) \/ \E q \in Runs : Prints(g, q) \/ Answers(g, q)
      PROVE  FALSE
  BY <1>4, <1>6 DEF PortSettles, Takes, Prints, Answers, callVars
<1>7. CASE IntegrityKnown \/ UNCHANGED vars
  BY <1>4, <1>7 DEF IntegrityKnown, vars, callVars
<1> QED BY <1>1, <1>2, <1>3, <1>5, <1>6, <1>7 DEF Next

\* A request on a healthy worker is not failed by the error or the exit of
\* another worker: the token keeps the handlers of replaced workers out.
THEOREM FailsWithItsWorkerHolds == Spec => FailsWithItsWorker
<1>1. TypeOK /\ CallsPlaced /\ InvalidBlamed /\ TokensOrdered /\ [Next]_vars => [FailsOnlyWithItsWorker]_vars
  BY FailsStep
<1>2. Spec => [][FailsOnlyWithItsWorker]_vars
  BY <1>1, SupervisorTypeCorrect, CallsPlacedInvariant, InvalidBlamedInvariant,
     TokensOrderedInvariant, PTL DEF Spec
<1> QED BY <1>2 DEF FailsWithItsWorker, FailsOnlyWithItsWorker
-------------------------------------------------------------------------------
(* Where the requests are.                                                 *)

LEMMA WorkerContents ==
    ASSUME TypeOK, NEW g \in Workers
    PROVE  /\ inbox[g] \in Seq(Runs) /\ out[g] \in Seq(Answer)
           /\ Waiting(g) \subseteq Runs /\ running[g] \subseteq Runs /\ Work(g) \subseteq Runs
           /\ \A m \in Messages(g) : m \in Answer /\ m.run \in Runs
<1>1. inbox[g] \in Seq(Runs) /\ out[g] \in Seq(Answer) /\ running[g] \subseteq Runs
  BY DEF TypeOK
<1>2. \A i \in DOMAIN inbox[g] : inbox[g][i] \in Runs
  BY <1>1, ElementOfSeq
<1>3. \A i \in DOMAIN out[g] : out[g][i] \in Answer
  BY <1>1, ElementOfSeq
<1>4. \A m \in Answer : m.run \in Runs
  BY DEF Answer
<1> QED BY <1>1, <1>2, <1>3, <1>4 DEF Waiting, Work, Messages

\* Calls are not posted again, and settled calls stay settled.
PhasesOn ==
    \A r \in Runs : \/ phase'[r] = phase[r]
                    \/ phase[r] \notin Settled /\ (phase[r] \in Unposted \/ phase'[r] \notin Unposted)

LEMMA PhasesMoveOn == TypeOK /\ CallsPlaced /\ [Next]_vars => PhasesOn
<1> SUFFICES ASSUME TypeOK, CallsPlaced, [Next]_vars PROVE PhasesOn
  OBVIOUS
<1>t. phase \in [Runs -> {"idle", "integrity", "worker", "posted", "resetting", "lost"} \cup Settled]
  BY DEF TypeOK
<1>p. \A r \in pending : r \in Runs /\ phase[r] = "posted"
  BY DEF TypeOK, CallsPlaced
<1>1. ASSUME NEW r \in Runs, phase[r] \in Unposted, \E p : phase' = [phase EXCEPT ![r] = p]
      PROVE  PhasesOn
  BY <1>t, <1>1 DEF PhasesOn, Unposted, Settled
<1>2. ASSUME NEW r \in Runs, phase[r] \in {"posted", "resetting"},
             NEW p \in {"resetting", "lost"} \cup Settled, phase' = [phase EXCEPT ![r] = p]
      PROVE  PhasesOn
  BY <1>t, <1>2 DEF PhasesOn, Unposted, Settled
<1>3. ASSUME RejectPending PROVE PhasesOn
  BY <1>t, <1>p, <1>3 DEF PhasesOn, RejectPending, Unposted, Settled
<1>4. ASSUME phase' = phase PROVE PhasesOn
  BY <1>4 DEF PhasesOn
<1>5. ASSUME NEW r \in Runs, Run(r) \/ StartRun(r) \/ Post(r) PROVE PhasesOn
  BY <1>1, <1>5 DEF Run, StartRun, Post, Unposted
<1>6. ASSUME NEW r \in Runs, Timer(r) \/ FinishReset(r) PROVE PhasesOn
  <2>1. /\ phase[r] \in {"posted", "resetting"}
        /\ \E p \in {"resetting", "lost", "timeout"} : phase' = [phase EXCEPT ![r] = p]
    BY <1>p, <1>6 DEF Timer, FinishReset
  <2> QED BY <1>2, <2>1 DEF Settled
<1>7. ASSUME NEW g \in Workers, Message(g) PROVE PhasesOn
  <2>1. \/ RejectPending
        \/ phase' = phase
        \/ \E r \in pending : \E s \in {"result", "failed"} : phase' = [phase EXCEPT ![r] = s]
    BY <1>7 DEF Message
  <2> QED BY <1>2, <1>3, <1>4, <1>p, <2>1 DEF Settled
<1>8. ASSUME NEW g \in Workers, WorkerError(g) \/ WorkerExit(g) PROVE PhasesOn
  BY <1>3, <1>4, <1>8 DEF WorkerError, WorkerExit, ErrorHandler
<1>9. ASSUME NEW c \in Closers, Close(c) \/ FinishClose(c) PROVE PhasesOn
  BY <1>4, <1>9 DEF Close, FinishClose
<1>10. ASSUME NEW g \in Workers,
              PortSettles(g) \/ Takes(g) \/ \E r \in Runs : Prints(g, r) \/ Answers(g, r)
       PROVE  PhasesOn
  BY <1>4, <1>10 DEF PortSettles, Takes, Prints, Answers, callVars
<1>11. CASE IntegrityKnown \/ UNCHANGED vars
  BY <1>4, <1>11 DEF IntegrityKnown, vars, callVars
<1> QED BY <1>5, <1>6, <1>7, <1>8, <1>9, <1>10, <1>11 DEF Next

\* A worker that was ready once is not created again, and only a worker that
\* was created gets ready.
PortsOn ==
    \A g \in Workers : /\ port'[g] \in {"none", "creating"} => port[g] \in {"none", "creating"}
                       /\ port'[g] = "ready" => port[g] \in {"creating", "ready"}

LEMMA PortsMoveOn == TypeOK /\ TokensOrdered /\ [Next]_vars => PortsOn
<1> SUFFICES ASSUME TypeOK, TokensOrdered, [Next]_vars PROVE PortsOn
  OBVIOUS
<1>t. port \in [Workers -> {"none", "failed", "exited", "terminated"} \cup Alive]
  BY DEF TypeOK
<1>0. ASSUME port' = port PROVE PortsOn
  BY <1>0 DEF PortsOn
<1>1. ASSUME NEW g \in Workers, NEW p, p \notin {"none", "creating"} \/ port[g] \in {"none", "creating"},
             p = "ready" => port[g] \in {"creating", "ready"}, port' = [port EXCEPT ![g] = p]
      PROVE  PortsOn
  BY <1>t, <1>1 DEF PortsOn
<1>2. ASSUME NEW r \in Runs, StartRun(r) PROVE PortsOn
  <2>1. ASSUME NEW g \in Workers, CreateWorker(g) PROVE PortsOn
    <3>1. g = created + 1 /\ port' = [port EXCEPT ![g] = "creating"]
      BY <2>1 DEF CreateWorker
    <3>2. created \in Nat
      BY BrowserWorkersAssumption DEF TypeOK
    <3>3. ~ (g <= created)
      BY <3>1, <3>2
    <3>4. port[g] = "none"
      BY <3>3 DEF TokensOrdered
    <3> QED BY <1>1, <3>1, <3>4
  <2> QED BY <1>0, <1>2, <2>1 DEF StartRun
<1>3. ASSUME NEW g, g = NoWorker \/ g \in Workers, ResetEnds(g) \/ ResetRejects(g) PROVE PortsOn
  BY <1>0, <1>1, <1>3 DEF ResetEnds, ResetRejects
<1>4. ASSUME NEW r \in Runs, FinishReset(r) PROVE PortsOn
  BY <1>3, <1>4 DEF FinishReset, TypeOK
<1>5. ASSUME NEW c \in Closers, FinishClose(c) PROVE PortsOn
  BY <1>3, <1>5 DEF FinishClose, TypeOK
<1>6. ASSUME NEW g \in Workers, PortSettles(g) \/ WorkerError(g) PROVE PortsOn
  BY <1>1, <1>6 DEF PortSettles, WorkerError
<1>7. ASSUME NEW r \in Runs, Run(r) \/ Post(r) \/ Timer(r) PROVE PortsOn
  BY <1>0, <1>7 DEF Run, Post, Timer, workerVars
<1>8. ASSUME NEW g \in Workers,
             Message(g) \/ WorkerExit(g) \/ Takes(g) \/ \E r \in Runs : Prints(g, r) \/ Answers(g, r)
      PROVE  PortsOn
  BY <1>0, <1>8 DEF Message, WorkerExit, Takes, Prints, Answers
<1>9. ASSUME NEW c \in Closers, Close(c) PROVE PortsOn
  BY <1>0, <1>9 DEF Close, workerVars
<1>10. CASE IntegrityKnown \/ UNCHANGED vars
  BY <1>0, <1>10 DEF IntegrityKnown, vars, workerVars
<1> QED BY <1>2, <1>4, <1>5, <1>6, <1>7, <1>8, <1>9, <1>10 DEF Next

LEMMA AppendDistinct ==
    ASSUME NEW S, NEW s \in Seq(S), NEW e, e \notin {s[i] : i \in DOMAIN s},
           \A i, j \in DOMAIN s : s[i] = s[j] => i = j
    PROVE  \A i, j \in DOMAIN Append(s, e) : Append(s, e)[i] = Append(s, e)[j] => i = j
<1>1. Len(s) \in Nat /\ DOMAIN s = 1..Len(s) /\ DOMAIN Append(s, e) = 1..(Len(s) + 1)
  OBVIOUS
<1>2. \A i \in 1..Len(s) : Append(s, e)[i] = s[i]
  BY <1>1
<1>3. Append(s, e)[Len(s) + 1] = e
  BY <1>1
<1>4. 1..(Len(s) + 1) = 1..Len(s) \cup {Len(s) + 1}
  BY <1>1
<1>5. \A i \in 1..Len(s) : Append(s, e)[i] # e
  BY <1>1, <1>2
<1>6. \A i, j \in 1..Len(s) : Append(s, e)[i] = Append(s, e)[j] => i = j
  BY <1>1, <1>2
<1> QED BY <1>1, <1>3, <1>4, <1>5, <1>6

LEMMA TailDistinct ==
    ASSUME NEW S, NEW s \in Seq(S), s # <<>>, \A i, j \in DOMAIN s : s[i] = s[j] => i = j
    PROVE  /\ \A i, j \in DOMAIN Tail(s) : Tail(s)[i] = Tail(s)[j] => i = j
           /\ Head(s) \notin {Tail(s)[i] : i \in DOMAIN Tail(s)}
           /\ {s[i] : i \in DOMAIN s} = {Tail(s)[i] : i \in DOMAIN Tail(s)} \cup {Head(s)}
<1>1. Len(s) \in Nat /\ Len(s) # 0 /\ DOMAIN s = 1..Len(s) /\ Head(s) = s[1]
  OBVIOUS
<1>2. DOMAIN Tail(s) = 1..(Len(s) - 1) /\ \A i \in DOMAIN Tail(s) : Tail(s)[i] = s[i + 1]
  BY TailElements
<1>3. \A i \in 1..(Len(s) - 1) : i + 1 \in 1..Len(s) /\ i + 1 # 1 /\ i \in Nat
  BY <1>1
<1>4. 1 \in 1..Len(s)
  BY <1>1
<1>5. \A i, j \in 1..(Len(s) - 1) : s[i + 1] = s[j + 1] => i = j
  <2> SUFFICES ASSUME NEW i \in 1..(Len(s) - 1), NEW j \in 1..(Len(s) - 1), s[i + 1] = s[j + 1]
               PROVE  i = j
    OBVIOUS
  <2>1. i + 1 = j + 1
    BY <1>1, <1>3
  <2> QED BY <1>3, <2>1
<1>6. \A i \in 1..(Len(s) - 1) : s[i + 1] # s[1]
  BY <1>1, <1>3, <1>4
<1>7. \A k \in 1..Len(s) : k = 1 \/ (k - 1 \in 1..(Len(s) - 1) /\ (k - 1) + 1 = k)
  BY <1>1
<1>8. {s[i] : i \in DOMAIN s} = {Tail(s)[i] : i \in DOMAIN Tail(s)} \cup {Head(s)}
  <2>1. ASSUME NEW k \in 1..Len(s) PROVE s[k] \in {Tail(s)[i] : i \in DOMAIN Tail(s)} \cup {Head(s)}
    <3>1. CASE k = 1
      BY <1>1, <3>1
    <3>2. CASE k - 1 \in DOMAIN Tail(s) /\ Tail(s)[k - 1] = s[k]
      BY <3>2
    <3> QED BY <1>2, <1>7, <3>1, <3>2
  <2> QED BY <1>1, <2>1, TailElements
<1>9. \A i, j \in DOMAIN Tail(s) : Tail(s)[i] = Tail(s)[j] => i = j
  BY <1>2, <1>5
<1>10. \A i \in DOMAIN Tail(s) : Tail(s)[i] # Head(s)
  BY <1>1, <1>2, <1>6
<1> QED BY <1>8, <1>9, <1>10

\* What a step does to the workers: nothing, or one of five steps.
LEMMA WorkerSteps ==
    [Next]_vars =>
        \/ UNCHANGED <<inbox, running, lines, out>>
        \/ \E r \in Runs : Post(r)
        \/ \E g \in Workers : Takes(g) \/ Message(g) \/ \E r \in Runs : Prints(g, r) \/ Answers(g, r)
<1> SUFFICES ASSUME [Next]_vars PROVE
        \/ UNCHANGED <<inbox, running, lines, out>>
        \/ \E r \in Runs : Post(r)
        \/ \E g \in Workers : Takes(g) \/ Message(g) \/ \E r \in Runs : Prints(g, r) \/ Answers(g, r)
  OBVIOUS
<1>1. ASSUME NEW r \in Runs, Run(r) \/ StartRun(r) \/ Timer(r) \/ FinishReset(r)
      PROVE  UNCHANGED <<inbox, running, lines, out>>
  BY <1>1 DEF Run, StartRun, Timer, FinishReset, workerVars
<1>2. ASSUME NEW c \in Closers, Close(c) \/ FinishClose(c)
      PROVE  UNCHANGED <<inbox, running, lines, out>>
  BY <1>2 DEF Close, FinishClose, workerVars
<1>3. ASSUME NEW g \in Workers, PortSettles(g) \/ WorkerError(g) \/ WorkerExit(g)
      PROVE  UNCHANGED <<inbox, running, lines, out>>
  BY <1>3 DEF PortSettles, WorkerError, WorkerExit
<1>4. CASE IntegrityKnown \/ UNCHANGED vars
  BY <1>4 DEF IntegrityKnown, vars, workerVars
<1> QED BY <1>1, <1>2, <1>3, <1>4 DEF Next

\* A step that moves no request between workers keeps requests apart.
LEMMA ApartStill ==
    ASSUME TypeOK, RequestsApart, PhasesOn, PortsOn, UNCHANGED <<inbox, running>>,
           \A g \in Workers : Messages(g)' \subseteq Messages(g)
    PROVE  RequestsApart'
<1>1. \A g \in Workers : Work(g)' = Work(g) /\ Waiting(g)' = Waiting(g)
  BY DEF Work, Waiting
<1>2. \A g \in Workers : /\ Work(g) \subseteq Runs
                         /\ \A m \in Messages(g) : m.run \in Runs
  BY WorkerContents
<1>3. \A r \in Runs : phase[r] \notin Unposted => phase'[r] \notin Unposted
  BY DEF PhasesOn
<1>4. \A g \in Workers : port'[g] \in {"none", "creating"} => Work(g)' = {}
  BY <1>1 DEF PortsOn, RequestsApart
<1>5. \A g, h \in Workers : \A m \in Messages(g)' : m.run \notin Work(h)'
  BY <1>1 DEF RequestsApart
<1>6. \A g \in Workers : \A r \in Work(g)' : phase'[r] \notin Unposted
  BY <1>1, <1>2, <1>3 DEF RequestsApart
<1>7. \A g \in Workers : \A m \in Messages(g)' : phase'[m.run] \notin Unposted
  BY <1>2, <1>3 DEF RequestsApart
<1>8. /\ \A g \in Workers : \A i, j \in DOMAIN inbox'[g] : inbox'[g][i] = inbox'[g][j] => i = j
      /\ \A g \in Workers : running'[g] \cap Waiting(g)' = {}
      /\ \A g, h \in Workers : g # h => Work(g)' \cap Work(h)' = {}
  BY <1>1 DEF RequestsApart
<1> QED BY <1>4, <1>5, <1>6, <1>7, <1>8 DEF RequestsApart

LEMMA ApartStep ==
    /\ TypeOK /\ CallsPlaced /\ TokensOrdered /\ RequestsApart /\ [Next]_vars => RequestsApart'
<1> SUFFICES ASSUME TypeOK, CallsPlaced, TokensOrdered, RequestsApart, [Next]_vars
             PROVE  RequestsApart'
  OBVIOUS
<1>a. PhasesOn /\ PortsOn
  BY PhasesMoveOn, PortsMoveOn
<1>c. \A g \in Workers : /\ inbox[g] \in Seq(Runs) /\ out[g] \in Seq(Answer)
                         /\ Work(g) \subseteq Runs /\ \A m \in Messages(g) : m.run \in Runs
  BY WorkerContents
<1>t. /\ inbox \in [Workers -> Seq(Runs)] /\ out \in [Workers -> Seq(Answer)]
      /\ running \in [Workers -> SUBSET Runs] /\ at \in [Runs -> Workers \cup {NoWorker}]
      /\ phase \in [Runs -> {"idle", "integrity", "worker", "posted", "resetting", "lost"} \cup Settled]
  BY DEF TypeOK
<1>u. \A r \in Runs : phase[r] \notin Unposted => phase'[r] \notin Unposted
  BY <1>a DEF PhasesOn
<1>w. \A h \in Workers : \A q \in Work(h) : q \in Runs /\ phase[q] \notin Unposted
  BY <1>c DEF RequestsApart
<1>m. \A h \in Workers : \A m \in Messages(h) : m.run \in Runs /\ phase[m.run] \notin Unposted
  BY <1>c DEF RequestsApart
<1>d. /\ \A h, k \in Workers : h # k => Work(h) \cap Work(k) = {}
      /\ \A h, k \in Workers : \A m \in Messages(h) : m.run \notin Work(k)
      /\ \A h \in Workers : running[h] \cap Waiting(h) = {}
  BY DEF RequestsApart
<1>0. ASSUME UNCHANGED <<inbox, running, out>> PROVE RequestsApart'
  <2>1. \A g \in Workers : Messages(g)' \subseteq Messages(g)
    BY <1>0 DEF Messages
  <2> QED BY <1>0, <1>a, <2>1, ApartStill
<1>1. ASSUME NEW r \in Runs, Post(r) PROVE RequestsApart'
  <2>1. /\ phase[r] = "worker" /\ at[r] \in Workers /\ UNCHANGED <<running, out>> /\ port' = port
        /\ \/ UNCHANGED inbox
           \/ /\ port[at[r]] = "ready" /\ phase' = [phase EXCEPT ![r] = "posted"]
              /\ inbox' = [inbox EXCEPT ![at[r]] = Append(@, r)]
    BY <1>1 DEF Post, CallsPlaced
  <2>2. CASE /\ port[at[r]] = "ready" /\ phase' = [phase EXCEPT ![r] = "posted"]
             /\ inbox' = [inbox EXCEPT ![at[r]] = Append(@, r)]
    <3> PICK g \in Workers : g = at[r]
      BY <2>1
    <3>1. g \in Workers /\ inbox'[g] = Append(inbox[g], r) /\ \A h \in Workers \ {g} : inbox'[h] = inbox[h]
      BY <1>t, <2>1, <2>2
    <3>2. \A h \in Workers : r \notin Work(h) /\ \A m \in Messages(h) : m.run # r
      BY <2>1 DEF RequestsApart, Unposted
    <3>3. Waiting(g)' = Waiting(g) \cup {r} /\ \A h \in Workers \ {g} : Waiting(h)' = Waiting(h)
      <4>1. {Append(inbox[g], r)[i] : i \in DOMAIN Append(inbox[g], r)} = Waiting(g) \cup {r}
        <5> DEFINE q == inbox[g]
        <5>1. q \in Seq(Runs)
          BY <1>c, <3>1
        <5> HIDE DEF q
        <5>2. {Append(q, r)[i] : i \in DOMAIN Append(q, r)} = {q[i] : i \in DOMAIN q} \cup {r}
          BY <5>1, AppendElements
        <5> QED BY <5>2 DEF q, Waiting
      <4> QED BY <3>1, <4>1 DEF Waiting
    <3>4. Work(g)' = Work(g) \cup {r} /\ \A h \in Workers \ {g} : Work(h)' = Work(h)
      <4>1. \A h \in Workers : Work(h)' = running[h] \cup Waiting(h)'
        BY <2>1 DEF Work
      <4> QED BY <3>1, <3>3, <4>1 DEF Work
    <3>5. \A h \in Workers : Messages(h)' = Messages(h)
      BY <2>1 DEF Messages
    <3>6. phase'[r] \notin Unposted
      BY <1>t, <2>2 DEF Unposted
    <3>7. \A h \in Workers : port'[h] \in {"none", "creating"} => Work(h)' = {}
      BY <2>1, <2>2, <3>4 DEF RequestsApart
    <3>8. \A h \in Workers : \A i, j \in DOMAIN inbox'[h] : inbox'[h][i] = inbox'[h][j] => i = j
      <4>1. \A i, j \in DOMAIN Append(inbox[g], r) : Append(inbox[g], r)[i] = Append(inbox[g], r)[j] => i = j
        <5>1. r \notin {inbox[g][i] : i \in DOMAIN inbox[g]}
          BY <3>1, <3>2 DEF Work, Waiting
        <5>2. \A i, j \in DOMAIN inbox[g] : inbox[g][i] = inbox[g][j] => i = j
          BY <3>1 DEF RequestsApart
        <5> QED BY <1>c, <3>1, <5>1, <5>2, AppendDistinct, SMTT(30)
      <4> QED BY <3>1, <4>1 DEF RequestsApart
    <3>9. \A h \in Workers : running'[h] \cap Waiting(h)' = {}
      <4>1. \A h \in Workers : Waiting(h)' \subseteq Waiting(h) \cup {r}
        BY <3>1, <3>3
      <4>2. \A h \in Workers : r \notin running[h] /\ running'[h] = running[h]
        BY <2>1, <3>2 DEF Work
      <4> QED BY <1>d, <4>1, <4>2
    <3>10. \A h, k \in Workers : h # k => Work(h)' \cap Work(k)' = {}
      <4> TAKE h, k \in Workers
      <4>1. CASE h = g
        BY <1>d, <3>2, <3>4, <4>1
      <4>2. CASE k = g
        BY <1>d, <3>2, <3>4, <4>2
      <4>3. CASE h # g /\ k # g
        BY <1>d, <3>4, <4>3
      <4> QED BY <4>1, <4>2, <4>3
    <3>11. \A h, k \in Workers : \A m \in Messages(h)' : m.run \notin Work(k)'
      <4>1. \A k \in Workers : Work(k)' \subseteq Work(k) \cup {r}
        BY <3>4
      <4> QED BY <1>d, <3>2, <3>5, <4>1
    <3>12. \A h \in Workers : \A q \in Work(h)' : phase'[q] \notin Unposted
      <4>1. \A h \in Workers : Work(h)' \subseteq Work(h) \cup {r}
        BY <3>4
      <4> QED BY <1>u, <1>w, <3>6, <4>1
    <3>13. \A h \in Workers : \A m \in Messages(h)' : phase'[m.run] \notin Unposted
      BY <1>m, <1>u, <3>5
    <3> QED BY <3>7, <3>8, <3>9, <3>10, <3>11, <3>12, <3>13 DEF RequestsApart
  <2> QED BY <1>0, <2>1, <2>2
<1>2. ASSUME NEW g \in Workers, Takes(g) PROVE RequestsApart'
  <2>1. /\ inbox[g] # <<>> /\ inbox' = [inbox EXCEPT ![g] = Tail(inbox[g])]
        /\ running' = [running EXCEPT ![g] = running[g] \cup {Head(inbox[g])}]
        /\ UNCHANGED <<out, port, phase>>
    BY <1>2 DEF Takes, callVars
  <2>2. /\ inbox'[g] = Tail(inbox[g]) /\ running'[g] = running[g] \cup {Head(inbox[g])}
        /\ \A h \in Workers \ {g} : inbox'[h] = inbox[h] /\ running'[h] = running[h]
    BY <1>t, <2>1
  <2>3. \A i, j \in DOMAIN inbox[g] : inbox[g][i] = inbox[g][j] => i = j
    BY DEF RequestsApart
  <2>4. /\ \A i, j \in DOMAIN Tail(inbox[g]) : Tail(inbox[g])[i] = Tail(inbox[g])[j] => i = j
        /\ Head(inbox[g]) \notin Waiting(g)' /\ Waiting(g) = Waiting(g)' \cup {Head(inbox[g])}
    <3> DEFINE s == inbox[g]
    <3>1. s \in Seq(Runs) /\ s # <<>> /\ \A i, j \in DOMAIN s : s[i] = s[j] => i = j
      BY <1>c, <2>1, <2>3
    <3>2. Waiting(g) = {s[i] : i \in DOMAIN s} /\ Waiting(g)' = {Tail(s)[i] : i \in DOMAIN Tail(s)}
      BY <2>2 DEF Waiting
    <3> HIDE DEF s
    <3>3. /\ \A i, j \in DOMAIN Tail(s) : Tail(s)[i] = Tail(s)[j] => i = j
          /\ Head(s) \notin Waiting(g)' /\ Waiting(g) = Waiting(g)' \cup {Head(s)}
      BY <3>1, <3>2, TailDistinct
    <3> QED BY <3>3 DEF s
  <2>5. \A h \in Workers \ {g} : Waiting(h)' = Waiting(h)
    BY <2>2 DEF Waiting
  <2>6. \A h \in Workers : Work(h)' = Work(h) /\ Messages(h)' = Messages(h)
    BY <2>1, <2>2, <2>4, <2>5 DEF Work, Messages
  <2>7. \A h \in Workers : running'[h] \cap Waiting(h)' = {}
    BY <2>2, <2>4, <2>5 DEF RequestsApart
  <2>8. \A h \in Workers : \A i, j \in DOMAIN inbox'[h] : inbox'[h][i] = inbox'[h][j] => i = j
    BY <2>2, <2>4 DEF RequestsApart
  <2> QED BY <2>1, <2>6, <2>7, <2>8 DEF RequestsApart
<1>3. ASSUME NEW g \in Workers, NEW r \in Runs, Answers(g, r) PROVE RequestsApart'
  <2> PICK ok \in BOOLEAN :
           out' = [out EXCEPT ![g] = Append(@, [run |-> r, lines |-> lines[g], valid |-> ok])]
    BY <1>3 DEF Answers
  <2> DEFINE answer == [run |-> r, lines |-> lines[g], valid |-> ok]
  <2>1. answer.run = r /\ out' = [out EXCEPT ![g] = Append(out[g], answer)]
    OBVIOUS
  <2> HIDE DEF answer
  <2>2. /\ r \in running[g] /\ running' = [running EXCEPT ![g] = running[g] \ {r}]
        /\ UNCHANGED <<inbox, port, phase>>
    BY <1>3 DEF Answers, callVars
  <2>3. /\ out'[g] = Append(out[g], answer) /\ running'[g] = running[g] \ {r}
        /\ \A h \in Workers \ {g} : out'[h] = out[h] /\ running'[h] = running[h]
    BY <1>t, <2>1, <2>2
  <2>4. Messages(g)' = Messages(g) \cup {answer} /\ \A h \in Workers \ {g} : Messages(h)' = Messages(h)
    <3> DEFINE q == out[g]
    <3>1. q \in Seq(Answer)
      BY <1>c
    <3> HIDE DEF q
    <3>2. {Append(q, answer)[i] : i \in DOMAIN Append(q, answer)} = {q[i] : i \in DOMAIN q} \cup {answer}
      BY <3>1, AnswersElements, Zenon
    <3>3. {out'[g][i] : i \in DOMAIN out'[g]} = Messages(g) \cup {answer}
      BY <2>3, <3>2 DEF q, Messages
    <3> QED BY <2>3, <3>3 DEF Messages
  <2>5. \A h \in Workers : Waiting(h)' = Waiting(h)
    BY <2>2 DEF Waiting
  <2>6. r \notin Waiting(g) /\ r \in Work(g)
    BY <2>2 DEF RequestsApart, Work
  <2>7. Work(g)' = Work(g) \ {r} /\ \A h \in Workers \ {g} : Work(h)' = Work(h)
    BY <2>3, <2>5, <2>6 DEF Work
  <2>8. \A h \in Workers : r \notin Work(h)'
    BY <2>6, <2>7 DEF RequestsApart
  <2>9. \A h, k \in Workers : \A m \in Messages(h)' : m.run \notin Work(k)'
    BY <2>1, <2>4, <2>7, <2>8 DEF RequestsApart
  <2>10. \A h \in Workers : \A m \in Messages(h)' : phase'[m.run] \notin Unposted
    BY <2>1, <2>2, <2>4, <2>6 DEF RequestsApart
  <2>11. \A h \in Workers : running'[h] \cap Waiting(h)' = {}
    BY <2>3, <2>5 DEF RequestsApart
  <2>12. \A h, k \in Workers : h # k => Work(h)' \cap Work(k)' = {}
    BY <2>7 DEF RequestsApart
  <2>13. \A h \in Workers : (port'[h] \in {"none", "creating"} => Work(h)' = {})
                            /\ \A q \in Work(h)' : phase'[q] \notin Unposted
    BY <2>2, <2>7 DEF RequestsApart
  <2> QED BY <2>2, <2>9, <2>10, <2>11, <2>12, <2>13 DEF RequestsApart
<1>4. ASSUME NEW g \in Workers, Message(g) PROVE RequestsApart'
  <2>1. /\ out[g] # <<>> /\ out' = [out EXCEPT ![g] = Tail(out[g])]
        /\ UNCHANGED <<inbox, running>>
    BY <1>4 DEF Message
  <2>2. \A h \in Workers : Messages(h)' \subseteq Messages(h)
    BY <1>t, <2>1, TailElements DEF Messages
  <2> QED BY <1>a, <2>1, <2>2, ApartStill
<1>5. ASSUME NEW g \in Workers, NEW r \in Runs, Prints(g, r) PROVE RequestsApart'
  BY <1>0, <1>5 DEF Prints
<1> QED BY <1>0, <1>1, <1>2, <1>3, <1>4, <1>5, WorkerSteps

LEMMA RequestsApartInvariant == Spec => []RequestsApart
<1>1. Init => RequestsApart
  BY DEF Init, RequestsApart, Work, Waiting, Messages
<1> QED
  BY <1>1, ApartStep, SupervisorTypeCorrect, CallsPlacedInvariant, TokensOrderedInvariant, PTL DEF Spec
-------------------------------------------------------------------------------
(* A worker with leftovers is shut.                                        *)

\* No call starts to await a worker, and no worker becomes the current one.
AwaitsStill ==
    /\ workerPromise' \in {workerPromise, NoWorker}
    /\ \A q \in Runs : phase'[q] = "worker" => phase[q] = "worker" /\ at'[q] = at[q]

LEMMA AwaitsSteps ==
    TypeOK /\ CallsPlaced /\ [Next]_vars => AwaitsStill \/ \E r \in Runs : StartRun(r)
<1> SUFFICES ASSUME TypeOK, CallsPlaced, [Next]_vars, ~ \E r \in Runs : StartRun(r)
             PROVE  AwaitsStill
  OBVIOUS
<1>t. /\ phase \in [Runs -> {"idle", "integrity", "worker", "posted", "resetting", "lost"} \cup Settled]
      /\ at \in [Runs -> Workers \cup {NoWorker}]
  BY DEF TypeOK
<1>0. ASSUME UNCHANGED <<phase, at>>, workerPromise' \in {workerPromise, NoWorker} PROVE AwaitsStill
  BY <1>0 DEF AwaitsStill
<1>1. ASSUME NEW r \in Runs, NEW p, p # "worker", phase' = [phase EXCEPT ![r] = p],
             \A q \in Runs : q # r => at'[q] = at[q], workerPromise' \in {workerPromise, NoWorker}
      PROVE  AwaitsStill
  BY <1>t, <1>1 DEF AwaitsStill
<1>2. ASSUME RejectPending, at' = at, workerPromise' \in {workerPromise, NoWorker} PROVE AwaitsStill
  BY <1>t, <1>2 DEF AwaitsStill, RejectPending
<1>3. ASSUME NEW r \in Runs, Run(r) \/ Post(r) \/ FinishReset(r) PROVE AwaitsStill
  <2>1. /\ \E p \in {"refused", "integrity", "rejected", "posted", "timeout", "lost"} :
               phase' = [phase EXCEPT ![r] = p]
        /\ at' = at /\ workerPromise' = workerPromise
    BY <1>3 DEF Run, Admission, Post, FinishReset, hostVars
  <2> QED BY <1>1, <2>1
<1>4. ASSUME NEW r \in Runs, Timer(r) PROVE AwaitsStill
  <2>1. /\ phase' = [phase EXCEPT ![r] = "resetting"] /\ at' = [at EXCEPT ![r] = workerPromise]
        /\ workerPromise' = NoWorker
    BY <1>4 DEF Timer, Reset
  <2>2. \A q \in Runs : q # r => at'[q] = at[q]
    BY <1>t, <2>1
  <2> QED BY <1>1, <2>1, <2>2
<1>5. ASSUME NEW g \in Workers, Message(g) PROVE AwaitsStill
  <2>1. /\ at' = at /\ workerPromise' \in {workerPromise, NoWorker}
        /\ \/ RejectPending
           \/ phase' = phase
           \/ \E r \in pending : \E s \in {"result", "failed"} : phase' = [phase EXCEPT ![r] = s]
    BY <1>5 DEF Message
  <2> QED BY <1>0, <1>1, <1>2, <2>1 DEF TypeOK
<1>6. ASSUME NEW g \in Workers, WorkerError(g) \/ WorkerExit(g) PROVE AwaitsStill
  <2>1. /\ at' = at /\ workerPromise' \in {workerPromise, NoWorker}
        /\ RejectPending \/ phase' = phase
    BY <1>6 DEF WorkerError, WorkerExit, ErrorHandler
  <2> QED BY <1>0, <1>2, <2>1
<1>7. ASSUME NEW c \in Closers, Close(c) \/ FinishClose(c) PROVE AwaitsStill
  BY <1>0, <1>7 DEF Close, FinishClose, Reset
<1>8. ASSUME NEW g \in Workers,
             PortSettles(g) \/ Takes(g) \/ \E r \in Runs : Prints(g, r) \/ Answers(g, r)
      PROVE  AwaitsStill
  BY <1>0, <1>8 DEF PortSettles, Takes, Prints, Answers, hostVars, callVars
<1>9. CASE IntegrityKnown \/ UNCHANGED vars
  BY <1>0, <1>9 DEF IntegrityKnown, vars, hostVars, callVars
<1> QED BY <1>3, <1>4, <1>5, <1>6, <1>7, <1>8, <1>9 DEF Next

\* A worker that was created and is shut stays so.
LEMMA ShutStays ==
    ASSUME TypeOK, CallsPlaced, TokensOrdered, [Next]_vars,
           NEW g \in Workers, port[g] # "none", Shut(g)
    PROVE  Shut(g)'
<1>t. /\ phase \in [Runs -> {"idle", "integrity", "worker", "posted", "resetting", "lost"} \cup Settled]
      /\ at \in [Runs -> Workers \cup {NoWorker}] /\ g # NoWorker
  BY WorkerNumbers DEF TypeOK
<1>1. CASE AwaitsStill
  BY <1>1, <1>t DEF AwaitsStill, Shut
<1>2. ASSUME NEW r \in Runs, StartRun(r) PROVE Shut(g)'
  <2>1. ASSUME NEW h \in Workers, CreateWorker(h) PROVE h # g /\ workerPromise' = h
    <3>1. h = created + 1 /\ workerPromise' = h /\ g <= created
      BY <2>1 DEF CreateWorker, TokensOrdered
    <3>2. created \in Nat
      BY BrowserWorkersAssumption DEF TypeOK
    <3>3. ~ (h <= created)
      BY <3>1, <3>2
    <3> QED BY <3>1, <3>3
  <2>2. \/ UNCHANGED <<workerPromise, at>> /\ \E p \in {"failed", "result"} : phase' = [phase EXCEPT ![r] = p]
        \/ \E h \in Workers : /\ workerPromise' = h /\ h # g
                              /\ at' = [at EXCEPT ![r] = h] /\ phase' = [phase EXCEPT ![r] = "worker"]
    <3>1. workerPromise # g /\ workerPromise \in Workers \cup {NoWorker}
      BY DEF Shut, TypeOK
    <3> QED BY <1>2, <2>1, <3>1 DEF StartRun
  <2>3. workerPromise' # g
    BY <2>2 DEF Shut
  <2>4. \A q \in Runs : ~ (phase'[q] = "worker" /\ at'[q] = g)
    BY <1>t, <2>2 DEF Shut
  <2> QED BY <2>3, <2>4 DEF Shut
<1> QED BY <1>1, <1>2, AwaitsSteps

\* How posted calls leave that state: an event drops the current worker, or
\* one call is settled by its answer.
PostedStill(but) == \A q \in Runs \ but : phase[q] = "posted" => phase'[q] = "posted"

LEMMA PostedSteps ==
    ASSUME TypeOK, CallsPlaced, [Next]_vars
    PROVE  \/ MicrotasksDone /\ workerPromise' = NoWorker
           \/ \E g \in Workers : \E m \in Messages(g) : PostedStill({m.run})
           \/ PostedStill({})
<1>t. phase \in [Runs -> {"idle", "integrity", "worker", "posted", "resetting", "lost"} \cup Settled]
  BY DEF TypeOK
<1>0. ASSUME phase' = phase PROVE PostedStill({})
  BY <1>0 DEF PostedStill
<1>1. ASSUME NEW r \in Runs, phase[r] # "posted", NEW p, phase' = [phase EXCEPT ![r] = p]
      PROVE  PostedStill({})
  BY <1>t, <1>1 DEF PostedStill
<1>2. ASSUME NEW r \in Runs, Run(r) \/ StartRun(r) \/ Post(r) \/ FinishReset(r) PROVE PostedStill({})
  <2>1. phase[r] # "posted" /\ \E p : phase' = [phase EXCEPT ![r] = p]
    BY <1>2 DEF Run, StartRun, Post, FinishReset
  <2> QED BY <1>1, <2>1
<1>3. ASSUME NEW r \in Runs, Timer(r) PROVE MicrotasksDone /\ workerPromise' = NoWorker
  BY <1>3 DEF Timer, Reset
<1>4. ASSUME NEW g \in Workers, WorkerError(g) \/ WorkerExit(g)
      PROVE  PostedStill({}) \/ (MicrotasksDone /\ workerPromise' = NoWorker)
  BY <1>0, <1>4 DEF WorkerError, WorkerExit, ErrorHandler
<1>5. ASSUME NEW g \in Workers, Message(g)
      PROVE  \/ MicrotasksDone /\ workerPromise' = NoWorker
             \/ \E m \in Messages(g) : PostedStill({m.run})
             \/ PostedStill({})
  <2>1. Head(out[g]) \in Messages(g) /\ Head(out[g]).run \in Runs
    <3>1. Head(out[g]) \in Messages(g)
      BY <1>5, TailElements DEF TypeOK, Messages, Message
    <3> QED BY <3>1, WorkerContents
  <2>2. \/ MicrotasksDone /\ workerPromise' = NoWorker
        \/ phase' = phase
        \/ \E s : phase' = [phase EXCEPT ![Head(out[g]).run] = s]
    BY <1>5 DEF Message
  <2>3. ASSUME NEW s, phase' = [phase EXCEPT ![Head(out[g]).run] = s]
        PROVE  PostedStill({Head(out[g]).run})
    BY <1>t, <2>1, <2>3 DEF PostedStill
  <2> QED BY <1>0, <2>1, <2>2, <2>3
<1>6. ASSUME NEW c \in Closers, Close(c) \/ FinishClose(c) PROVE PostedStill({})
  BY <1>0, <1>6 DEF Close, FinishClose
<1>7. ASSUME NEW g \in Workers,
             PortSettles(g) \/ Takes(g) \/ \E r \in Runs : Prints(g, r) \/ Answers(g, r)
      PROVE  PostedStill({})
  BY <1>0, <1>7 DEF PortSettles, Takes, Prints, Answers, callVars
<1>8. CASE IntegrityKnown \/ UNCHANGED vars
  BY <1>0, <1>8 DEF IntegrityKnown, vars, callVars
<1> QED BY <1>2, <1>3, <1>4, <1>5, <1>6, <1>7, <1>8 DEF Next

\* Requests get to a worker only by being posted.
LEMMA WorkArrives ==
    ASSUME TypeOK, CallsPlaced, RequestsApart, [Next]_vars, NEW g \in Workers, NEW q \in Work(g)'
    PROVE  \/ q \in Work(g)
           \/ q \in Runs /\ Post(q) /\ at[q] = g /\ port[g] = "ready" /\ phase'[q] = "posted"
<1>t. /\ inbox \in [Workers -> Seq(Runs)] /\ running \in [Workers -> SUBSET Runs]
      /\ inbox[g] \in Seq(Runs)
      /\ phase \in [Runs -> {"idle", "integrity", "worker", "posted", "resetting", "lost"} \cup Settled]
  BY DEF TypeOK
<1>0. ASSUME inbox' = inbox, running'[g] \subseteq running[g] PROVE q \in Work(g)
  BY <1>0 DEF Work, Waiting
<1>1. ASSUME NEW r \in Runs, Post(r)
      PROVE  \/ q \in Work(g)
             \/ q = r /\ at[q] = g /\ port[g] = "ready" /\ phase'[q] = "posted"
  <2>1. /\ at[r] \in Workers /\ running' = running
        /\ \/ inbox' = inbox
           \/ /\ port[at[r]] = "ready" /\ phase' = [phase EXCEPT ![r] = "posted"]
              /\ inbox' = [inbox EXCEPT ![at[r]] = Append(inbox[at[r]], r)]
    BY <1>1 DEF Post, CallsPlaced
  <2>2. CASE inbox' = inbox \/ at[r] # g
    <3>1. inbox'[g] = inbox[g] /\ running'[g] = running[g]
      BY <1>t, <2>1, <2>2
    <3> QED BY <3>1 DEF Work, Waiting
  <2>3. CASE inbox' # inbox /\ at[r] = g
    <3>1. inbox'[g] = Append(inbox[g], r) /\ running'[g] = running[g]
      BY <1>t, <2>1, <2>3
    <3>2. {Append(inbox[g], r)[i] : i \in DOMAIN Append(inbox[g], r)} = Waiting(g) \cup {r}
      <4> DEFINE s == inbox[g]
      <4>1. s \in Seq(Runs) /\ Waiting(g) = {s[i] : i \in DOMAIN s}
        BY <1>t DEF Waiting
      <4> HIDE DEF s
      <4>2. s \in Seq(Runs)
        BY <4>1
      <4>3. {Append(s, r)[i] : i \in DOMAIN Append(s, r)} = {s[i] : i \in DOMAIN s} \cup {r}
        BY <4>2, AppendElements
      <4> QED BY <4>1, <4>3 DEF s
    <3>3. q \in Work(g) \cup {r}
      BY <3>1, <3>2 DEF Work, Waiting
    <3>4. port[g] = "ready" /\ phase'[r] = "posted"
      BY <1>t, <2>1, <2>3
    <3> QED BY <2>3, <3>3, <3>4
  <2> QED BY <2>2, <2>3
<1>2. ASSUME NEW h \in Workers, Takes(h) PROVE q \in Work(g)
  <2>1. /\ inbox[h] # <<>> /\ inbox' = [inbox EXCEPT ![h] = Tail(inbox[h])]
        /\ running' = [running EXCEPT ![h] = running[h] \cup {Head(inbox[h])}]
    BY <1>2 DEF Takes
  <2>2. CASE h # g
    <3>1. inbox'[g] = inbox[g] /\ running'[g] = running[g]
      BY <2>1, <2>2 DEF TypeOK
    <3> QED BY <3>1 DEF Work, Waiting
  <2>3. CASE h = g
    <3>1. inbox'[g] = Tail(inbox[g]) /\ running'[g] = running[g] \cup {Head(inbox[g])}
      BY <1>t, <2>1, <2>3
    <3>2. Head(inbox[g]) \in Waiting(g) /\ Waiting(g)' \subseteq Waiting(g)
      BY <1>t, <2>1, <2>3, <3>1, TailElements DEF Waiting
    <3> QED BY <3>1, <3>2 DEF Work
  <2> QED BY <2>2, <2>3
<1>3. ASSUME NEW h \in Workers, NEW r \in Runs, Answers(h, r) PROVE q \in Work(g)
  <2>1. inbox' = inbox /\ running' = [running EXCEPT ![h] = running[h] \ {r}]
    BY <1>3 DEF Answers
  <2> QED BY <1>0, <1>t, <2>1
<1>4. ASSUME NEW h \in Workers, Message(h) \/ \E r \in Runs : Prints(h, r) PROVE q \in Work(g)
  BY <1>0, <1>4 DEF Message, Prints
<1> QED BY <1>0, <1>1, <1>2, <1>3, <1>4, WorkerSteps

LEMMA LeftoversStep ==
    /\ TypeOK /\ CallsPlaced /\ TokensOrdered /\ RequestsApart /\ LeftoversShut /\ [Next]_vars
    => LeftoversShut'
<1> SUFFICES ASSUME TypeOK, CallsPlaced, TokensOrdered, RequestsApart, LeftoversShut, [Next]_vars,
                    NEW g \in Workers, port'[g] = "ready", NEW q \in Work(g)', phase'[q] # "posted"
             PROVE  Shut(g)'
  BY DEF LeftoversShut
<1>1. q \in Work(g)
  BY WorkArrives
<1>2. port[g] = "ready"
  BY <1>1, PortsMoveOn DEF PortsOn, RequestsApart
<1>3. q \in Runs /\ \A h \in Workers : \A m \in Messages(h) : m.run # q
  BY <1>1, WorkerContents DEF RequestsApart
<1>4. CASE phase[q] # "posted"
  <2>1. Shut(g)
    BY <1>1, <1>2, <1>4 DEF LeftoversShut
  <2> QED BY <1>2, <2>1, ShutStays
<1>5. CASE phase[q] = "posted"
  <2>1. MicrotasksDone /\ workerPromise' = NoWorker
    BY <1>3, <1>5, PostedSteps DEF PostedStill
  <2>2. \A r \in Runs : ~ (phase[r] = "worker" /\ at[r] = g)
    BY <1>2, <2>1 DEF MicrotasksDone
  <2>3. AwaitsStill
    <3>1. ASSUME NEW r \in Runs, StartRun(r) PROVE phase'[q] = "posted"
      <4>1. phase[r] = "integrity" /\ \E p : phase' = [phase EXCEPT ![r] = p]
        BY <3>1 DEF StartRun
      <4> QED BY <1>3, <1>5, <4>1 DEF TypeOK
    <3> QED BY <3>1, AwaitsSteps
  <2>4. g # NoWorker
    BY WorkerNumbers
  <2> QED BY <2>1, <2>2, <2>3, <2>4 DEF AwaitsStill, Shut
<1> QED BY <1>4, <1>5

LEMMA LeftoversShutInvariant == Spec => []LeftoversShut
<1>1. Init => LeftoversShut
  BY DEF Init, LeftoversShut
<1> QED
  BY <1>1, LeftoversStep, SupervisorTypeCorrect, CallsPlacedInvariant, TokensOrderedInvariant,
     RequestsApartInvariant, PTL DEF Spec
-------------------------------------------------------------------------------
(* Output is fresh.                                                        *)

\* No request moves, and what was printed stays: only phase and heard change.
LEMMA FreshStill ==
    ASSUME TypeOK, CallsPlaced, OutputFresh, [Next]_vars, earlier' = earlier,
           \A g \in Workers : /\ Work(g)' \subseteq Work(g) /\ Messages(g)' \subseteq Messages(g)
                              /\ \A r \in running'[g] : lines'[g] \cap earlier[r] = {},
           \A r \in Runs : heard'[r] # heard[r] =>
               phase'[r] \notin Unposted /\ heard'[r] \cap earlier[r] = {}
    PROVE  OutputFresh'
<1>1. \A r \in Runs : earlier'[r] \subseteq SettledRuns'
  BY PhasesMoveOn DEF OutputFresh, PhasesOn, SettledRuns
<1>2. \A r \in Runs : phase'[r] \in Unposted => earlier'[r] = {} /\ heard'[r] = {}
  <2>1. \A r \in Runs : phase'[r] \in Unposted => phase[r] \in Unposted
    BY PhasesMoveOn DEF PhasesOn
  <2> QED BY <2>1 DEF OutputFresh
<1>3. \A g \in Workers : \A r \in Work(g)' : Work(g)' \cap earlier'[r] = {}
  BY DEF OutputFresh
<1>4. \A g \in Workers : \A r \in running'[g] : lines'[g] \cap earlier'[r] = {}
  OBVIOUS
<1>5. \A g \in Workers : \A m \in Messages(g)' : m.lines \cap earlier'[m.run] = {}
  BY DEF OutputFresh
<1>6. \A r \in Runs : heard'[r] \cap earlier'[r] = {}
  BY DEF OutputFresh
<1> QED BY <1>1, <1>2, <1>3, <1>4, <1>5, <1>6 DEF OutputFresh

\* The calls settled before r was posted are not among the work of the worker
\* it is posted to: such a worker would be shut.
LEMMA PostFresh ==
    ASSUME TypeOK, CallsPlaced, TokensOrdered, RequestsApart, LeftoversShut, OutputFresh,
           [Next]_vars, NEW r \in Runs, Post(r), earlier' = [earlier EXCEPT ![r] = SettledRuns]
    PROVE  OutputFresh'
<1>1. /\ phase[r] = "worker" /\ r \notin SettledRuns /\ UNCHANGED <<heard, running, lines, out>>
      /\ \A q \in Runs \ {r} : phase'[q] = phase[q]
      /\ \A q \in Runs \ {r} : earlier'[q] = earlier[q]
      /\ earlier'[r] = SettledRuns
  <2>1. /\ phase[r] = "worker" /\ UNCHANGED <<heard, running, lines, out>>
        /\ \E p : phase' = [phase EXCEPT ![r] = p]
    BY DEF Post
  <2>2. r \notin SettledRuns
    BY <2>1 DEF SettledRuns, Settled
  <2> QED BY <2>1, <2>2 DEF TypeOK
<1>2. ASSUME NEW h \in Workers PROVE r \notin Work(h) /\ \A m \in Messages(h) : m.run \in Runs \ {r}
  BY <1>1, WorkerContents DEF RequestsApart, Unposted
<1>3. ASSUME NEW h \in Workers, NEW q \in Work(h)'
      PROVE  q \in Runs /\ (q \in Work(h) \/ (q = r /\ at[r] = h /\ port[h] = "ready"))
  <2>1. \/ q \in Work(h)
        \/ q \in Runs /\ Post(q) /\ at[q] = h /\ port[h] = "ready" /\ phase'[q] = "posted"
    BY <1>3, WorkArrives
  <2>2. Post(q) => phase[q] = "worker"
    BY DEF Post
  <2> QED BY <1>1, <2>1, <2>2, WorkerContents
<1>4. SettledRuns \subseteq SettledRuns'
  BY PhasesMoveOn DEF PhasesOn, SettledRuns
<1>5. \A q \in Runs : earlier'[q] \subseteq SettledRuns'
  BY <1>1, <1>4 DEF OutputFresh
<1>6. ASSUME NEW q \in Runs, phase'[q] \in Unposted PROVE earlier'[q] = {} /\ heard'[q] = {}
  <2>1. phase'[r] = "posted" \/ phase'[r] = "rejected"
    BY DEF Post, TypeOK
  <2>2. q # r /\ phase[q] \in Unposted
    BY <1>1, <1>6, <2>1 DEF Unposted
  <2> QED BY <1>1, <2>2 DEF OutputFresh
<1>7. ASSUME NEW h \in Workers, NEW q \in Work(h)', NEW x \in Work(h)', x \in earlier'[q] PROVE FALSE
  <2>1. CASE q = r
    <3>1. at[r] = h /\ port[h] = "ready"
      BY <1>2, <1>3, <2>1
    <3>2. x \in SettledRuns /\ x \in Work(h)
      BY <1>1, <1>3, <1>7, <2>1
    <3>3. phase[x] # "posted"
      BY <3>2 DEF SettledRuns, Settled
    <3>4. Shut(h)
      BY <3>1, <3>2, <3>3 DEF LeftoversShut
    <3> QED BY <1>1, <3>1, <3>4 DEF Shut
  <2>2. CASE q # r
    <3>1. q \in Runs /\ q \in Work(h) /\ x \in earlier[q] /\ x \in SettledRuns
      BY <1>1, <1>3, <1>7, <2>2 DEF OutputFresh
    <3>2. x \in Work(h)
      BY <1>1, <1>3, <3>1
    <3> QED BY <3>1, <3>2 DEF OutputFresh
  <2> QED BY <2>1, <2>2
<1>8. ASSUME NEW h \in Workers, NEW q \in running'[h] PROVE lines'[h] \cap earlier'[q] = {}
  <2>1. q \in running[h] /\ q \in Runs \ {r}
    BY <1>1, <1>2, <1>8, WorkerContents DEF Work
  <2> QED BY <1>1, <2>1 DEF OutputFresh
<1>9. ASSUME NEW h \in Workers, NEW m \in Messages(h)' PROVE m.lines \cap earlier'[m.run] = {}
  <2>1. m \in Messages(h)
    BY <1>1 DEF Messages
  <2> QED BY <1>1, <1>2, <2>1 DEF OutputFresh
<1>10. ASSUME NEW q \in Runs PROVE heard'[q] \cap earlier'[q] = {}
  <2>1. heard[r] = {}
    BY <1>1 DEF OutputFresh, Unposted
  <2> QED BY <1>1, <2>1 DEF OutputFresh
<1>11. \A h \in Workers : \A q \in Work(h)' : Work(h)' \cap earlier'[q] = {}
  BY <1>7
<1> QED BY <1>5, <1>6, <1>8, <1>9, <1>10, <1>11 DEF OutputFresh

LEMMA FreshStep ==
    /\ TypeOK /\ CallsPlaced /\ TokensOrdered /\ RequestsApart /\ LeftoversShut /\ OutputFresh
    /\ [Next]_vars
    => OutputFresh'
<1> SUFFICES ASSUME TypeOK, CallsPlaced, TokensOrdered, RequestsApart, LeftoversShut, OutputFresh,
                    [Next]_vars
             PROVE  OutputFresh'
  OBVIOUS
<1>t. /\ heard \in [Runs -> SUBSET Runs] /\ lines \in [Workers -> SUBSET Runs]
      /\ running \in [Workers -> SUBSET Runs] /\ out \in [Workers -> Seq(Answer)]
      /\ phase \in [Runs -> {"idle", "integrity", "worker", "posted", "resetting", "lost"} \cup Settled]
  BY DEF TypeOK
<1>r. ASSUME NEW h \in Workers, NEW r \in running[h]
      PROVE  r \in Work(h) /\ lines[h] \cap earlier[r] = {} /\ Work(h) \cap earlier[r] = {}
  BY DEF OutputFresh, Work
\* Steps that touch neither the workers nor earlier.
<1>0. ASSUME UNCHANGED <<inbox, running, lines, out, earlier>>,
             \A r \in Runs : heard'[r] # heard[r] =>
                 phase'[r] \notin Unposted /\ heard'[r] \cap earlier[r] = {}
      PROVE  OutputFresh'
  <2>1. \A g \in Workers : Work(g)' \subseteq Work(g) /\ Messages(g)' \subseteq Messages(g)
    BY <1>0 DEF Work, Waiting, Messages
  <2>2. \A g \in Workers : \A r \in running'[g] : lines'[g] \cap earlier[r] = {}
    BY <1>0 DEF OutputFresh
  <2> QED BY <1>0, <2>1, <2>2, FreshStill
<1>1. ASSUME NEW r \in Runs, StartRun(r) PROVE OutputFresh'
  <2>1. /\ UNCHANGED <<inbox, running, lines, out, earlier>> /\ phase[r] = "integrity"
        /\ \/ heard' = heard
           \/ heard' = [heard EXCEPT ![r] = {r}] /\ phase' = [phase EXCEPT ![r] = "result"]
    BY <1>1 DEF StartRun
  <2>2. earlier[r] = {}
    BY <2>1 DEF OutputFresh, Unposted
  <2>3. \A q \in Runs : heard'[q] # heard[q] =>
            phase'[q] \notin Unposted /\ heard'[q] \cap earlier[q] = {}
    BY <1>t, <2>1, <2>2 DEF Unposted
  <2> QED BY <1>0, <2>1, <2>3
<1>2. ASSUME NEW r \in Runs, Post(r) PROVE OutputFresh'
  <2>1. \/ UNCHANGED <<inbox, running, lines, out, earlier, heard>>
        \/ earlier' = [earlier EXCEPT ![r] = SettledRuns]
    BY <1>2 DEF Post
  <2> QED BY <1>0, <1>2, <2>1, PostFresh
<1>3. ASSUME NEW g \in Workers, Takes(g) PROVE OutputFresh'
  <2>1. UNCHANGED <<heard, earlier, out, phase>> /\ lines' = [lines EXCEPT ![g] = {}]
        /\ running' = [running EXCEPT ![g] = running[g] \cup {Head(inbox[g])}]
    BY <1>3 DEF Takes, ResetOutput, callVars
  <2>2. \A h \in Workers : Work(h)' \subseteq Work(h)
    <3> SUFFICES ASSUME NEW h \in Workers, NEW q \in Work(h)' PROVE q \in Work(h)
      OBVIOUS
    <3>1. Post(q) => phase[q] = "worker"
      BY DEF Post
    <3> QED BY <2>1, <3>1, WorkArrives
  <2>3. \A h \in Workers : Messages(h)' \subseteq Messages(h)
    BY <2>1 DEF Messages
  <2>4. ASSUME NEW h \in Workers, NEW r \in running'[h] PROVE lines'[h] \cap earlier[r] = {}
    BY <1>r, <1>t, <2>1
  <2> QED BY <2>1, <2>2, <2>3, <2>4, FreshStill
<1>4. ASSUME NEW g \in Workers, NEW r \in Runs, Prints(g, r) PROVE OutputFresh'
  <2>1. /\ UNCHANGED <<heard, earlier, out, inbox, running>> /\ r \in running[g]
        /\ lines' = [lines EXCEPT ![g] = lines[g] \cup {r}]
    BY <1>4 DEF Prints, callVars
  <2>2. \A h \in Workers : Work(h)' \subseteq Work(h) /\ Messages(h)' \subseteq Messages(h)
    BY <2>1 DEF Work, Waiting, Messages
  <2>3. ASSUME NEW h \in Workers, NEW q \in running'[h] PROVE lines'[h] \cap earlier[q] = {}
    <3>1. q \in running[h] /\ lines'[h] \subseteq lines[h] \cup (IF h = g THEN {r} ELSE {})
      BY <1>t, <2>1
    <3>2. h = g => r \notin earlier[q]
      BY <1>r, <2>1, <3>1
    <3> QED BY <1>r, <3>1, <3>2
  <2> QED BY <2>1, <2>2, <2>3, FreshStill
<1>5. ASSUME NEW g \in Workers, NEW r \in Runs, Answers(g, r) PROVE OutputFresh'
  <2> PICK ok \in BOOLEAN :
           out' = [out EXCEPT ![g] = Append(@, [run |-> r, lines |-> lines[g], valid |-> ok])]
    BY <1>5 DEF Answers
  <2> DEFINE answer == [run |-> r, lines |-> lines[g], valid |-> ok]
  <2>1. answer.run = r /\ answer.lines = lines[g] /\ out' = [out EXCEPT ![g] = Append(out[g], answer)]
    OBVIOUS
  <2> HIDE DEF answer
  <2>2. /\ UNCHANGED <<heard, earlier, inbox, lines, phase>> /\ r \in running[g]
        /\ running' = [running EXCEPT ![g] = running[g] \ {r}]
    BY <1>5 DEF Answers, callVars
  <2>3. \A h \in Workers : running'[h] \subseteq running[h]
    BY <1>t, <2>2
  <2>4. \A h \in Workers : Work(h)' \subseteq Work(h)
    BY <2>2, <2>3 DEF Work, Waiting
  <2>5. out'[g] = Append(out[g], answer) /\ out[g] \in Seq(Answer) /\ \A h \in Workers \ {g} : out'[h] = out[h]
    BY <1>t, <2>1
  <2>6. Messages(g)' = Messages(g) \cup {answer} /\ \A h \in Workers \ {g} : Messages(h)' = Messages(h)
    <3>1. {Append(out[g], answer)[i] : i \in DOMAIN Append(out[g], answer)} = Messages(g) \cup {answer}
      <4> DEFINE q == out[g]
      <4>1. q \in Seq(Answer)
        BY <2>5
      <4> HIDE DEF q
      <4>2. {Append(q, answer)[i] : i \in DOMAIN Append(q, answer)} = {q[i] : i \in DOMAIN q} \cup {answer}
        BY <4>1, AnswersElements, Zenon
      <4> QED BY <4>2 DEF q, Messages
    <3> QED BY <2>5, <3>1 DEF Messages
  <2>7. answer.lines \cap earlier[answer.run] = {}
    BY <1>r, <2>1, <2>2
  <2>8. \A h \in Workers : \A m \in Messages(h)' : m.lines \cap earlier'[m.run] = {}
    BY <2>2, <2>6, <2>7 DEF OutputFresh
  <2>9. \A h \in Workers : \A q \in Work(h)' : Work(h)' \cap earlier'[q] = {}
    BY <2>2, <2>4 DEF OutputFresh
  <2>10. \A h \in Workers : \A q \in running'[h] : lines'[h] \cap earlier'[q] = {}
    BY <1>r, <2>2, <2>3
  <2>11. SettledRuns' = SettledRuns
    BY <2>2 DEF SettledRuns
  <2> QED BY <2>2, <2>8, <2>9, <2>10, <2>11 DEF OutputFresh
<1>6. ASSUME NEW g \in Workers, Message(g) PROVE OutputFresh'
  <2>1. /\ UNCHANGED <<earlier, inbox, running, lines>> /\ out[g] # <<>>
        /\ out' = [out EXCEPT ![g] = Tail(out[g])]
        /\ \/ heard' = heard
           \/ /\ heard' = [heard EXCEPT ![Head(out[g]).run] = Head(out[g]).lines]
              /\ \E s \in {"result", "failed"} : phase' = [phase EXCEPT ![Head(out[g]).run] = s]
    BY <1>6 DEF Message
  <2>2. Head(out[g]) \in Messages(g) /\ \A h \in Workers : Messages(h)' \subseteq Messages(h)
    BY <1>t, <2>1, TailElements DEF Messages
  <2>3. \A h \in Workers : Work(h)' \subseteq Work(h)
    BY <2>1 DEF Work, Waiting
  <2>4. \A h \in Workers : \A r \in running'[h] : lines'[h] \cap earlier[r] = {}
    BY <1>r, <2>1
  <2>5. ASSUME NEW r \in Runs, heard'[r] # heard[r]
        PROVE  phase'[r] \notin Unposted /\ heard'[r] \cap earlier[r] = {}
    <3>1. /\ r = Head(out[g]).run /\ heard'[r] = Head(out[g]).lines
          /\ phase'[r] \in {"result", "failed"}
      BY <1>t, <2>1, <2>5
    <3> QED BY <2>2, <3>1 DEF OutputFresh, Unposted
  <2> QED BY <2>1, <2>2, <2>3, <2>4, <2>5, FreshStill
<1>7. ASSUME NEW r \in Runs, Run(r) \/ Timer(r) \/ FinishReset(r) PROVE OutputFresh'
  BY <1>0, <1>7 DEF Run, Timer, FinishReset, workerVars
<1>8. ASSUME NEW c \in Closers, Close(c) \/ FinishClose(c) PROVE OutputFresh'
  BY <1>0, <1>8 DEF Close, FinishClose, workerVars
<1>9. ASSUME NEW g \in Workers, PortSettles(g) \/ WorkerError(g) \/ WorkerExit(g) PROVE OutputFresh'
  BY <1>0, <1>9 DEF PortSettles, WorkerError, WorkerExit, callVars
<1>10. CASE IntegrityKnown \/ UNCHANGED vars
  BY <1>0, <1>10 DEF IntegrityKnown, vars, callVars, workerVars
<1> QED BY <1>1, <1>2, <1>3, <1>4, <1>5, <1>6, <1>7, <1>8, <1>9, <1>10 DEF Next

\* A run does not see the output of a call that was settled before the run was
\* posted: a worker that still works on such a call is given no other.
THEOREM NoStaleOutputHolds == Spec => []NoStaleOutput
<1>1. Init => OutputFresh
  BY DEF Init, OutputFresh, Work, Waiting, Messages
<1>2. OutputFresh => NoStaleOutput
  BY DEF OutputFresh, NoStaleOutput
<1> QED
  BY <1>1, <1>2, FreshStep, SupervisorTypeCorrect, CallsPlacedInvariant, TokensOrderedInvariant,
     RequestsApartInvariant, LeftoversShutInvariant, PTL DEF Spec
===============================================================================
