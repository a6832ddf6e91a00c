----------------------------- MODULE ReplayProofs ------------------------------
(***************************************************************************)
(* Two runs of one deterministic request have the same replay hash: what   *)
(* the simulated engine and the guest of the worker compute depends on the *)
(* request alone.  The guest's output after n calls is a recursive         *)
(* function of the request, and the invariant says that an undisturbed     *)
(* guest has printed just that, whatever ran in the interpreter before.    *)
(***************************************************************************)
EXTENDS RuntimeRequestsProofs
-------------------------------------------------------------------------------
(* The simulated engine.                                                   *)

LEMMA PrintsReplay ==
    ASSUME NEW code, NEW det, det.enabled, NEW c1, NEW c2
    PROVE  CollectPrints(code, det, c1) = CollectPrints(code, det, c2)
BY DEF CollectPrints

\* The clock and the chance that a deterministic request meets do not count.
LEMMA SimulationReplays ==
    ASSUME NEW q, q.determinism.enabled, NEW e1, NEW e2
    PROVE  ReplayOf(SimulateRun(q, e1)) = ReplayOf(SimulateRun(q, e2))
<1>1. CASE ~ ValidRunRequest(q)
    BY <1>1 DEF SimulateRun, Result, ReplayOf
<1>2. CASE ValidRunRequest(q)
  <2>1. \A audit, started, ended :
            EvaluateRun(q, e1.chance, audit, started, ended)
                = EvaluateRun(q, e2.chance, audit, started, ended)
    <3>1. CollectPrints(q.code, q.determinism, e1.chance)
              = CollectPrints(q.code, q.determinism, e2.chance)
        BY PrintsReplay
    <3>2. QED
        BY <3>1, SMTT(30) DEF EvaluateRun
  <2>2. SimulateRun(q, e1) = SimulateRun(q, e2)
      BY <1>2, <2>1, Zenon DEF SimulateRun
  <2>3. QED
      BY <2>2
<1>3. QED
    BY <1>1, <1>2

\* The copy of the grant leaves the determinism of a request alone.
LEMMA MaterializeKeeps ==
    ASSUME NEW q, RunRequest(q)
    PROVE  Materialize(q).determinism = q.determinism
<1>1. PICK m : m = Materialize(q)
    OBVIOUS
<1>2. m = q \/ \E g : m = [q EXCEPT !.permissions.http = g]
    BY <1>1 DEF Materialize
<1>3. QED
    BY <1>1, <1>2 DEF RunRequest
-------------------------------------------------------------------------------
(* The guest of a deterministic request.                                   *)

NothingRan == [out |-> <<>>, drawn |-> 0, tags |-> {}]

\* What a call adds to what the guest printed, drew and reported.
RanCall(q, ran, c) ==
    LET line == IF c.op = "print" THEN <<"text">>
                ELSE IF c.op = "time" THEN <<"time", q.determinism.epochMs>>
                ELSE <<"rng", PythonSeed(q.determinism.rngSeedHex), ran.drawn + 1>>
    IN  [out   |-> IF c.op \in {"print", "time", "rng"} THEN Append(ran.out, line) ELSE ran.out,
         drawn |-> IF c.op = "rng" THEN ran.drawn + 1 ELSE ran.drawn,
         tags  |-> IF c.op = "fail" THEN ran.tags \cup {"plain"} ELSE ran.tags]

RanStep(q, ran, i) == IF i = 0 THEN NothingRan ELSE RanCall(q, ran[i - 1], q.code.calls[i])

\* RanUpTo(q)[n] is what the guest left after its first n calls.
RanUpTo(q) ==
    LET ran[i \in 0..Len(q.code.calls)] ==
            IF i = 0 THEN NothingRan ELSE RanCall(q, ran[i - 1], q.code.calls[i])
    IN  ran

LEMMA RanUnfolds ==
    ASSUME NEW q, HasCalls(q)
    PROVE  RanUpTo(q) = [i \in 0..Len(q.code.calls) |-> RanStep(q, RanUpTo(q), i)]
<1> DEFINE m == Len(q.code.calls)
           T == {n \in Nat : \E ran : ran = [i \in 0..n |-> RanStep(q, ran, i)]}
<1>1. 0 \in T
  <2>1. [i \in 0..0 |-> NothingRan] = [i \in 0..0 |-> RanStep(q, [j \in 0..0 |-> NothingRan], i)]
      BY DEF RanStep
  <2>2. QED
      BY <2>1
<1>2. ASSUME NEW n \in Nat, n \in T PROVE n + 1 \in T
  <2>1. PICK ran : ran = [i \in 0..n |-> RanStep(q, ran, i)]
      BY <1>2
  <2> DEFINE more == [i \in 0..n + 1 |-> IF i = n + 1 THEN RanStep(q, ran, n + 1) ELSE ran[i]]
  <2>2. ASSUME NEW i \in 0..n + 1 PROVE more[i] = RanStep(q, more, i)
    <3>1. i = 0 \/ (i - 1 \in 0..n + 1 /\ i - 1 # n + 1)
        OBVIOUS
    <3>2. i = 0 \/ more[i - 1] = ran[i - 1]
        BY <3>1
    <3>3. more[i] = IF i = n + 1 THEN RanStep(q, ran, n + 1) ELSE ran[i]
        OBVIOUS
    <3>4. i = n + 1 \/ i \in 0..n
        OBVIOUS
    <3>5. i \in 0..n => ran[i] = RanStep(q, ran, i)
        BY <2>1
    <3> HIDE DEF more
    <3>6. RanStep(q, more, i) = RanStep(q, ran, i)
      <4>1. CASE i = 0
          BY <4>1, Zenon DEF RanStep
      <4>2. CASE more[i - 1] = ran[i - 1]
          BY <4>2, Zenon DEF RanStep
      <4>3. QED
          BY <3>2, <4>1, <4>2
    <3>7. QED
        BY <3>3, <3>4, <3>5, <3>6
  <2>3. more = [i \in 0..n + 1 |-> RanStep(q, more, i)]
      BY <2>2
  <2> HIDE DEF more
  <2>4. QED
      BY <2>3
<1>3. m \in T
  <2> HIDE DEF T
  <2>1. Nat \subseteq T
      BY <1>1, <1>2, SetInduction
  <2>2. QED
      BY <2>1 DEF HasCalls
<1>4. PICK ran : ran = [i \in 0..m |-> RanStep(q, ran, i)]
    BY <1>3
<1>5. QED
    BY <1>4, Zenon DEF RanUpTo, RanStep

LEMMA RanSteps ==
    ASSUME NEW q, HasCalls(q)
    PROVE  /\ RanUpTo(q)[0] = NothingRan
           /\ \A n \in 0..Len(q.code.calls) - 1 :
                 RanUpTo(q)[n + 1] = RanCall(q, RanUpTo(q)[n], q.code.calls[n + 1])
<1>1. \A i \in 0..Len(q.code.calls) : RanUpTo(q)[i] = RanStep(q, RanUpTo(q), i)
    BY RanUnfolds
<1>2. 0 \in 0..Len(q.code.calls)
    BY DEF HasCalls
<1>3. ASSUME NEW n \in 0..Len(q.code.calls) - 1
      PROVE  n + 1 \in 0..Len(q.code.calls) /\ n + 1 # 0 /\ (n + 1) - 1 = n
    BY DEF HasCalls
<1>4. QED
    BY <1>1, <1>2, <1>3 DEF RanStep

\* The call that ends the code with an exception nobody catches.
Ends(q, i) == q.code.calls[i].op = "fail" /\ ~ q.code.calls[i].caught

GoneBy(q, n) == n \in 0..Len(q.code.calls) /\ \A i \in 1..n : ~ Ends(q, i)

\* The interpreter p after the first n calls of q.
RunsAt(q, n, p) ==
    /\ GoneBy(q, n)
    /\ p.clock = q.determinism.epochMs /\ p.seed = PythonSeed(q.determinism.rngSeedHex)
    /\ p.out = RanUpTo(q)[n].out /\ p.drawn = RanUpTo(q)[n].drawn /\ p.tags = RanUpTo(q)[n].tags

Running(r) == RunsAt(input[r], pc[r] - 1, py)

\* What is posted when the guest failed after what it ran, or came to its end.
Failure(ran) ==
    [status |-> "error", stdout |-> ran.out,
     stderr |-> IF ran.tags = {} THEN "error" ELSE "traceback",
     errorCode |-> ClassifyTaggedError(ran.tags, "plain")]
Success(ran) ==
    [status |-> "ok", stdout |-> ran.out,
     stderr |-> IF ran.tags = {} THEN "" ELSE "traceback", errorCode |-> Null]

AnswersAt(q, n, a) ==
    /\ GoneBy(q, n)
    /\ \/ n < Len(q.code.calls) /\ Ends(q, n + 1) /\ a = Failure(RanUpTo(q)[n])
       \/ n = Len(q.code.calls) /\ a = Success(RanUpTo(q)[n])

Answers(q, a) == \E n \in Nat : AnswersAt(q, n, a)

\* A request has one answer.
LEMMA OneAnswer ==
    ASSUME NEW q, NEW a, NEW b, HasCalls(q), Answers(q, a), Answers(q, b)
    PROVE  a = b
<1>1. PICK n \in Nat, m \in Nat : AnswersAt(q, n, a) /\ AnswersAt(q, m, b)
    BY DEF Answers
<1>2. n = m
  <2>1. /\ n \in 0..Len(q.code.calls) /\ (n = Len(q.code.calls) \/ Ends(q, n + 1))
        /\ \A i \in 1..n : ~ Ends(q, i)
        /\ m \in 0..Len(q.code.calls) /\ (m = Len(q.code.calls) \/ Ends(q, m + 1))
        /\ \A i \in 1..m : ~ Ends(q, i)
      BY <1>1 DEF AnswersAt, GoneBy
  <2>2. ~ n < m
    <3> SUFFICES ASSUME n < m PROVE FALSE
        OBVIOUS
    <3>1. n + 1 \in 1..m /\ n # Len(q.code.calls)
        BY <2>1 DEF HasCalls
    <3>2. QED
        BY <2>1, <3>1
  <2>3. ~ m < n
    <3> SUFFICES ASSUME m < n PROVE FALSE
        OBVIOUS
    <3>1. m + 1 \in 1..n /\ m # Len(q.code.calls)
        BY <2>1 DEF HasCalls
    <3>2. QED
        BY <2>1, <3>1
  <2>4. QED
      BY <2>2, <2>3
<1>3. CASE n = Len(q.code.calls)
  <2>1. ~ n < Len(q.code.calls) /\ ~ m < Len(q.code.calls)
      BY <1>2, <1>3
  <2>2. a = Success(RanUpTo(q)[n]) /\ b = Success(RanUpTo(q)[m])
      BY <1>1, <2>1, Zenon DEF AnswersAt
  <2>3. QED
      BY <1>2, <2>2, Zenon
<1>4. CASE n # Len(q.code.calls)
  <2>1. a = Failure(RanUpTo(q)[n]) /\ b = Failure(RanUpTo(q)[m])
      BY <1>1, <1>2, <1>4, Zenon DEF AnswersAt
  <2>2. QED
      BY <1>2, <2>1, Zenon
<1>5. QED
    BY <1>3, <1>4

\* The outcome of the guest of q depends on q alone: it has the patched clock
\* and generator, and does not ask for the network.
Replayable(q) ==
    /\ q.code.calls \in Seq(ToSet(q.code.calls)) /\ ~ Uses(q.code, "http_request")
    /\ q.determinism.epochMs # Null /\ PythonSeed(q.determinism.rngSeedHex) # Null

\* A call that goes on brings the guest from its first n calls to its first n + 1.
LEMMA RunsOn ==
    ASSUME NEW q, HasCalls(q), NEW n, NEW p, NEW next, RunsAt(q, n, p), n # Len(q.code.calls),
           ~ Ends(q, n + 1), next.clock = p.clock, next.seed = p.seed,
           [out |-> next.out, drawn |-> next.drawn, tags |-> next.tags]
               = RanCall(q, [out |-> p.out, drawn |-> p.drawn, tags |-> p.tags], q.code.calls[n + 1])
    PROVE  RunsAt(q, n + 1, next)
<1> DEFINE ran == RanUpTo(q)[n]
           c == q.code.calls[n + 1]
<1>1. /\ n \in 0..Len(q.code.calls) - 1 /\ n + 1 \in 0..Len(q.code.calls)
      /\ \A i \in 1..n + 1 : i \in 1..n \/ i = n + 1
    BY DEF RunsAt, GoneBy, HasCalls
<1>2. GoneBy(q, n + 1)
    BY <1>1 DEF RunsAt, GoneBy
<1>3. RanUpTo(q)[n + 1] = RanCall(q, ran, c)
    BY <1>1, RanSteps
<1>4. p.out = ran.out /\ p.drawn = ran.drawn /\ p.tags = ran.tags
    BY DEF RunsAt
<1>5. RanCall(q, ran, c) = RanCall(q, [out |-> p.out, drawn |-> p.drawn, tags |-> p.tags], c)
    BY <1>4 DEF RanCall
<1>6. RanUpTo(q)[n + 1] = [out |-> next.out, drawn |-> next.drawn, tags |-> next.tags]
    BY <1>3, <1>5
<1>7. QED
    BY <1>2, <1>6 DEF RunsAt

LEMMA GuestReplays ==
    ASSUME Typed, NEW r \in Runs, GuestStep(r), Running(r), Replayable(input[r])
    PROVE  \/ phase'[r] \in Guests /\ Running(r)'
           \/ phase'[r] = "answered" /\ Answers(input[r], answer'[r])
<1> DEFINE q == input[r]
           n == pc[r] - 1
           before == [out |-> py.out, drawn |-> py.drawn, tags |-> py.tags]
           after  == [out |-> py'.out, drawn |-> py'.drawn, tags |-> py'.tags]
           c == q.code.calls[n + 1]
<1>1. /\ PyTyped /\ pc \in [Runs -> Nat \ {0}] /\ DOMAIN answer = Runs /\ phase \in [Runs -> Phases]
      /\ input' = input /\ phase[r] = "guest"
    BY DEF Typed, GuestStep, requestVars
<1>a. HasCalls(q) /\ DOMAIN q.code.calls = 1..Len(q.code.calls)
    BY LenProperties DEF Replayable, HasCalls
<1>2. n \in Nat /\ pc[r] = n + 1 /\ Call(r) = c /\ RunsAt(q, n, py)
    BY <1>1 DEF Call, Running
<1>3. AtEnd(r) <=> n = Len(q.code.calls)
    BY <1>a, <1>2 DEF AtEnd, RunsAt, GoneBy, HasCalls
<1>4. ~ AtEnd(r) => c.op # "http_request"
  <2>1. ~ AtEnd(r) => n + 1 \in DOMAIN q.code.calls
    <3>1. ~ AtEnd(r) => n + 1 \in 1..Len(q.code.calls)
        BY <1>a, <1>2, <1>3 DEF RunsAt, GoneBy, HasCalls
    <3>2. QED
        BY <1>a, <3>1
  <2>2. QED
      BY <2>1 DEF Replayable, Uses
<1>5. ASSUME ~ AtEnd(r), ~ Ends(q, n + 1), py'.clock = py.clock, py'.seed = py.seed,
             after = RanCall(q, before, c), pc'[r] = n + 2
      PROVE  Running(r)'
  <2>1. RunsAt(q, n + 1, py')
      BY <1>a, <1>2, <1>3, <1>5, RunsOn
  <2>2. input'[r] = q /\ pc'[r] - 1 = n + 1
      BY <1>1, <1>2, <1>5
  <2>3. QED
      BY <2>1, <2>2 DEF Running
<1>6. Continue(r) => pc'[r] = n + 2 /\ phase'[r] = "guest"
    BY <1>1, <1>2 DEF Continue
<1>7. CASE Prints(r)
  <2>1. ~ AtEnd(r) /\ Continue(r)
      BY <1>7 DEF Prints
  <2>2. py.clock = q.determinism.epochMs /\ py.seed = PythonSeed(q.determinism.rngSeedHex)
        /\ py.clock # Null /\ py.seed # Null
      BY <1>2 DEF RunsAt, Replayable
  <2>3. \/ c.op = "print" /\ py' = [py EXCEPT !.out = Append(@, <<"text">>)]
        \/ c.op = "time" /\ py' = [py EXCEPT !.out = Append(@, <<"time", py.clock>>)]
        \/ c.op = "rng" /\ py' = [py EXCEPT !.out = Append(@, <<"rng", py.seed, py.drawn + 1>>),
                                            !.drawn = @ + 1]
      BY <1>2, <1>7, <2>2 DEF Prints
  <2>4. ~ Ends(q, n + 1) /\ py'.clock = py.clock /\ py'.seed = py.seed
      BY <1>1, <2>3 DEF Ends, PyTyped
  <2>5. after = RanCall(q, before, c)
    <3>1. CASE c.op = "print" /\ py' = [py EXCEPT !.out = Append(@, <<"text">>)]
        BY <1>1, <3>1 DEF PyTyped, RanCall
    <3>2. CASE c.op = "time" /\ py' = [py EXCEPT !.out = Append(@, <<"time", py.clock>>)]
        BY <1>1, <2>2, <3>2 DEF PyTyped, RanCall
    <3>3. CASE c.op = "rng" /\ py' = [py EXCEPT !.out = Append(@, <<"rng", py.seed, py.drawn + 1>>),
                                                !.drawn = @ + 1]
      <4>1. py'.out = Append(py.out, <<"rng", py.seed, py.drawn + 1>>)
            /\ py'.drawn = py.drawn + 1 /\ py'.tags = py.tags
          BY <1>1, <3>3 DEF PyTyped
      <4>2. QED
          BY <2>2, <3>3, <4>1 DEF RanCall
    <3>4. QED
        BY <2>3, <3>1, <3>2, <3>3
  <2>6. QED
      BY <1>5, <1>6, <2>1, <2>4, <2>5 DEF Guests
<1>8. CASE GuestFails(r)
  <2>1. ~ AtEnd(r) /\ c.op = "fail"
      BY <1>2, <1>8 DEF GuestFails
  <2>2. CASE c.caught /\ py' = [py EXCEPT !.tags = @ \cup {"plain"}] /\ Continue(r)
    <3>1. after = RanCall(q, before, c)
        BY <1>1, <2>1, <2>2 DEF PyTyped, RanCall
    <3>2. py'.clock = py.clock /\ py'.seed = py.seed /\ ~ Ends(q, n + 1)
        BY <1>1, <2>2 DEF PyTyped, Ends
    <3>3. QED
        BY <1>5, <1>6, <2>1, <2>2, <3>1, <3>2 DEF Guests
  <2>3. CASE ~ c.caught /\ Raise(r, "plain")
    <3>1. phase'[r] = "answered"
        BY <1>1, <2>3 DEF Raise
    <3>2. answer'[r] = Failure(before)
        BY <1>1, <2>3 DEF Raise, Failure
    <3>3. Failure(before) = Failure(RanUpTo(q)[n])
        BY <1>2 DEF RunsAt, Failure
    <3>4. n < Len(q.code.calls) /\ Ends(q, n + 1) /\ GoneBy(q, n)
        BY <1>a, <1>2, <1>3, <2>1, <2>3 DEF RunsAt, GoneBy, Ends, HasCalls
    <3>5. AnswersAt(q, n, answer'[r])
        BY <3>2, <3>3, <3>4, Zenon DEF AnswersAt
    <3>6. QED
        BY <1>2, <3>1, <3>5, Zenon DEF Answers
  <2>4. QED
      BY <1>2, <1>8, <2>2, <2>3 DEF GuestFails, Fails
<1>9. CASE Awaits(r)
  <2>1. ~ AtEnd(r) /\ c.op = "await" /\ py' = py /\ pc'[r] = n + 2 /\ phase'[r] = "waiting"
      BY <1>1, <1>2, <1>9 DEF Awaits
  <2>2. after = RanCall(q, before, c) /\ ~ Ends(q, n + 1)
      BY <2>1 DEF RanCall, Ends
  <2>3. QED
      BY <1>5, <2>1, <2>2 DEF Guests
<1>10. CASE Finishes(r)
  <2>1. n = Len(q.code.calls) /\ phase'[r] = "answered"
      BY <1>1, <1>3, <1>10 DEF Finishes
  <2>2. answer'[r] = Success(before)
      BY <1>1, <1>10, ZenonT(60) DEF Finishes, Success
  <2>3. Success(before) = Success(RanUpTo(q)[n])
    <3>1. py.out = RanUpTo(q)[n].out /\ py.tags = RanUpTo(q)[n].tags
        BY <1>2 DEF RunsAt
    <3>2. before.out = py.out /\ before.tags = py.tags
        OBVIOUS
    <3>3. QED
        BY <3>1, <3>2, Zenon DEF Success
  <2>4. AnswersAt(q, n, answer'[r])
      BY <1>2, <2>1, <2>2, <2>3, Zenon DEF AnswersAt, RunsAt
  <2>5. QED
      BY <1>2, <2>1, <2>4, Zenon DEF Answers
<1>11. ~ HttpGet(r)
    BY <1>2, <1>4 DEF HttpGet
<1>12. QED
    BY <1>7, <1>8, <1>9, <1>10, <1>11 DEF GuestStep
-------------------------------------------------------------------------------
(* What the steps of a run leave of the others.                            *)

\* The steps that r takes, and that are taken with it.
Own(r) ==
    \/ \E q \in Requests[runtime.host] : Run(r, q)
    \/ TransportRuns(r) \/ Dispatch(r) \/ Deliver(r) \/ Timeout(r)
    \/ Takes(r) \/ Prepare(r) \/ PackagesSettle(r) \/ Start(r) \/ GuestStep(r) \/ Resumes(r)

Left(r) ==
    /\ pc'[r] = pc[r] /\ answer'[r] = answer[r] /\ engine'[r] = engine[r] /\ result'[r] = result[r]
    /\ phase'[r] = phase[r] \/ phase'[r] \in {"orphan", "lost"}

\* Another run is left as it was, but may lose its worker.
LEMMA OthersLeft ==
    ASSUME Typed, [Next]_vars, NEW r \in Runs, ~ Own(r)
    PROVE  Left(r)
<1>1. /\ phase \in [Runs -> Phases] /\ DOMAIN result = Runs /\ DOMAIN answer = Runs
      /\ engine \in [Runs -> {"none", "started", "guest", "simulated"}] /\ pc \in [Runs -> Nat \ {0}]
    BY DEF Typed
<1>2. ASSUME NEW t \in Runs, t # r,
             UNCHANGED pc \/ \E x : pc' = [pc EXCEPT ![t] = x],
             UNCHANGED answer \/ \E x : answer' = [answer EXCEPT ![t] = x],
             UNCHANGED engine \/ \E x : engine' = [engine EXCEPT ![t] = x],
             UNCHANGED result \/ \E x : result' = [result EXCEPT ![t] = x],
             UNCHANGED phase \/ \E x : phase' = [phase EXCEPT ![t] = x]
      PROVE  Left(r)
    BY <1>1, <1>2 DEF Left
<1>3. ASSUME NEW t \in Runs, NEW q \in Requests[runtime.host], Run(t, q) PROVE Left(r)
  <2>1. t # r
      BY <1>3 DEF Own
  <2>2. UNCHANGED <<pc, answer, engine>> /\ (UNCHANGED result \/ \E x : result' = [result EXCEPT ![t] = x])
        /\ \E x : phase' = [phase EXCEPT ![t] = x]
      BY <1>3 DEF Run, Resolve, workerVars
  <2>3. QED
      BY <1>2, <2>1, <2>2
<1>4. ASSUME NEW t \in Runs, TransportRuns(t) \/ Dispatch(t) \/ Deliver(t) PROVE Left(r)
  <2>1. t # r
      BY <1>4 DEF Own
  <2>2. UNCHANGED <<pc, answer>>
      BY <1>4 DEF TransportRuns, Dispatch, Deliver, workerVars
  <2>3. UNCHANGED engine \/ \E x : engine' = [engine EXCEPT ![t] = x]
      BY <1>4 DEF TransportRuns, Dispatch, Deliver
  <2>4. UNCHANGED result \/ \E x : result' = [result EXCEPT ![t] = x]
      BY <1>4 DEF TransportRuns, Dispatch, Deliver, Resolve
  <2>5. \E x : phase' = [phase EXCEPT ![t] = x]
      BY <1>4 DEF TransportRuns, Dispatch, Deliver, Resolve
  <2>6. QED
      BY <1>2, <2>1, <2>2, <2>3, <2>4, <2>5
<1>5. ASSUME NEW t \in Runs,
             Takes(t) \/ Prepare(t) \/ PackagesSettle(t) \/ Start(t) \/ Resumes(t)
      PROVE  Left(r)
  <2>1. t # r
      BY <1>5 DEF Own
  <2>2. UNCHANGED <<pc, result>> /\ (UNCHANGED engine \/ \E x : engine' = [engine EXCEPT ![t] = x])
      BY <1>5 DEF Takes, Prepare, PackagesSettle, Start, Resumes, requestVars
  <2>3. UNCHANGED answer \/ \E x : answer' = [answer EXCEPT ![t] = x]
      BY <1>5 DEF Takes, Prepare, PackagesSettle, Start, Resumes, Raise
  <2>4. \E x : phase' = [phase EXCEPT ![t] = x]
      BY <1>5 DEF Takes, Prepare, PackagesSettle, Start, Resumes, Raise
  <2>5. QED
      BY <1>2, <2>1, <2>2, <2>3, <2>4
<1>6. ASSUME NEW t \in Runs, GuestStep(t) PROVE Left(r)
  <2>1. t # r
      BY <1>6 DEF Own
  <2>2. UNCHANGED <<engine, result>>
      BY <1>6 DEF GuestStep, requestVars
  <2>3. UNCHANGED phase \/ \E x : phase' = [phase EXCEPT ![t] = x]
      BY <1>6, GuestMoves
  <2>4. /\ UNCHANGED pc \/ \E x : pc' = [pc EXCEPT ![t] = x]
        /\ UNCHANGED answer \/ \E x : answer' = [answer EXCEPT ![t] = x]
    <3>1. \A raised : Fails(t, raised) =>
              /\ UNCHANGED pc \/ \E x : pc' = [pc EXCEPT ![t] = x]
              /\ UNCHANGED answer \/ \E x : answer' = [answer EXCEPT ![t] = x]
        BY DEF Fails, Continue, Raise
    <3>2. Continue(t) => UNCHANGED answer /\ \E x : pc' = [pc EXCEPT ![t] = x]
        BY DEF Continue
    <3>3. Awaits(t) => UNCHANGED answer /\ \E x : pc' = [pc EXCEPT ![t] = x]
        BY DEF Awaits
    <3>4. Finishes(t) => UNCHANGED pc /\ \E x : answer' = [answer EXCEPT ![t] = x]
        BY Zenon DEF Finishes
    <3>5. Prints(t) \/ GuestFails(t) \/ HttpGet(t) => Continue(t) \/ \E raised : Fails(t, raised)
        BY DEF Prints, GuestFails, HttpGet, HttpGetSync
    <3>6. QED
        BY <1>6, <3>1, <3>2, <3>3, <3>4, <3>5 DEF GuestStep
  <2>5. QED
      BY <1>2, <2>1, <2>2, <2>3, <2>4
<1>7. ASSUME NEW t \in Runs, Timeout(t) PROVE Left(r)
  <2>1. t # r
      BY <1>7 DEF Own
  <2>2. /\ UNCHANGED <<pc, answer, engine>> /\ \E x : result' = [result EXCEPT ![t] = x]
        /\ phase' = [s \in Runs |-> IF [phase EXCEPT ![t] = "done"][s] \in InWorker \cup {"posted"}
                                    THEN "orphan" ELSE [phase EXCEPT ![t] = "done"][s]]
      BY <1>7 DEF Timeout, ReplaceWorker
  <2>3. phase'[r] = phase[r] \/ phase'[r] = "orphan"
      BY <1>1, <2>1, <2>2
  <2>4. QED
      BY <1>1, <2>1, <2>2, <2>3 DEF Left
<1>8. CASE Close
  <2>1. UNCHANGED <<pc, answer, engine, result>> /\ (phase'[r] = phase[r] \/ phase'[r] = "lost")
      BY <1>1, <1>8 DEF Close, ReplaceWorker, requestVars
  <2>2. QED
      BY <2>1 DEF Left
<1>9. CASE IntegrityKnown \/ EngineSettles \/ UNCHANGED vars
    BY <1>9 DEF IntegrityKnown, EngineSettles, vars, requestVars, workerVars, Left
<1>10. QED
    BY <1>3, <1>4, <1>5, <1>6, <1>7, <1>8, <1>9 DEF Next

\* The steps that do not print, draw or report leave that of the interpreter.
PyKept ==
    /\ py'.out = py.out /\ py'.tags = py.tags
    /\ py'.clock = py.clock /\ py'.seed = py.seed /\ py'.drawn = py.drawn

LEMMA PyMoves ==
    ASSUME Typed, [Next]_vars
    PROVE  \/ \A s \in Runs : phase'[s] \notin InWorker
           \/ \E t \in Runs : Takes(t) \/ Start(t) \/ GuestStep(t)
           \/ PyKept
<1>1. PyTyped
    BY DEF Typed
<1>2. UNCHANGED py => PyKept
    BY DEF PyKept
<1>3. ASSUME NEW r \in Runs,
             \/ \E q \in Requests[runtime.host] : Run(r, q)
             \/ TransportRuns(r) \/ Dispatch(r) \/ Deliver(r) \/ Resumes(r)
      PROVE  UNCHANGED py
    BY <1>3 DEF Run, TransportRuns, Dispatch, Deliver, Resumes, workerVars
<1>4. ASSUME NEW r \in Runs, Prepare(r) PROVE PyKept
  <2>1. UNCHANGED py \/ py' = [py EXCEPT !.bridged = TRUE]
      BY <1>4 DEF Prepare
  <2>2. QED
      BY <1>1, <2>1 DEF PyTyped, PyKept
<1>5. ASSUME NEW r \in Runs, PackagesSettle(r) PROVE PyKept
  <2>1. UNCHANGED py \/ \E l : py' = [py EXCEPT !.loaded = l]
      BY <1>5 DEF PackagesSettle
  <2>2. QED
      BY <1>1, <2>1 DEF PyTyped, PyKept
<1>6. CASE EngineSettles
  <2>1. \E l : py' = [py EXCEPT !.load = l]
      BY <1>6 DEF EngineSettles
  <2>2. QED
      BY <1>1, <2>1 DEF PyTyped, PyKept
<1>7. CASE IntegrityKnown \/ UNCHANGED vars
    BY <1>2, <1>7 DEF IntegrityKnown, vars, workerVars
<1>8. ASSUME NEW r \in Runs, Timeout(r) PROVE \A s \in Runs : phase'[s] \notin InWorker
    BY <1>8 DEF Timeout, ReplaceWorker, InWorker
<1>9. CASE Close
    BY <1>9 DEF Close, ReplaceWorker, InWorker
<1>10. QED
    BY <1>2, <1>3, <1>4, <1>5, <1>6, <1>7, <1>8, <1>9 DEF Next
-------------------------------------------------------------------------------
(* What an undisturbed run of a deterministic request computes.            *)

Deterministic(q) == q.determinism.enabled /\ ~ Uses(q.code, "http_request")
Preparing == {"engine", "packages", "start"}

Replays(r) ==
    /\ phase[r] \in Preparing => py.out = <<>> /\ py.tags = {}
    /\ phase[r] \in Guests => Running(r)
    /\ phase[r] = "answered" /\ engine[r] = "started" => Answers(input[r], answer[r])
    /\ phase[r] = "done" /\ engine[r] = "guest" =>
          \E a : Answers(input[r], a) /\ ReplayOf(result[r]) = ReplayOf(BrowserResult(a, 0, 0))

Staged(r) ==
    /\ phase[r] \in Unstarted => pc[r] = 1 /\ engine[r] = "none"
    /\ engine[r] = "guest" => phase[r] = "done"

GuestsReplay ==
    \A r \in Runs : Staged(r) /\ (r \notin disturbed /\ Deterministic(input[r]) => Replays(r))

\* What passed the boundary has a number for a clock, and a seed.
LEMMA AcceptedReplayable ==
    ASSUME NEW q, RunRequest(q), ValidRunRequest(q), Deterministic(q)
    PROVE  Replayable(q)
<1>1. q.code \notin Odd /\ q.determinism \notin Odd
      /\ q.determinism.epochMs \notin Odd /\ q.determinism.rngSeedHex \notin Odd
    BY DEF ValidRunRequest, ValidDeterminism, IsPresent, IsNumber
<1>2. q.code.calls \in Seq(ToSet(q.code.calls)) /\ q.determinism.rngSeedHex \in Seed
    BY <1>1 DEF RunRequest
<1>3. q.determinism.epochMs # Null
    BY <1>1 DEF Odd
<1>4. PythonSeed(q.determinism.rngSeedHex) \in Nat \X Nat
    BY <1>2 DEF PythonSeed, Seed
<1>5. PythonSeed(q.determinism.rngSeedHex) # Null
    BY <1>4, ValuesAssumption DEF Odd
<1>6. QED
    BY <1>2, <1>3, <1>5 DEF Replayable, Deterministic

\* The clock of the host is not part of what is replayed.
LEMMA AnswerReplays ==
    ASSUME NEW a, NEW started, NEW ended
    PROVE  ReplayOf(BrowserResult(a, started, ended)) = ReplayOf(BrowserResult(a, 0, 0))
<1>1. CASE a.status = "ok"
    BY <1>1 DEF BrowserResult, OkResult, Result, ReplayOf
<1>2. CASE a.status # "ok" /\ a.errorCode = "AEG-POLICY-DENIED"
    BY <1>2 DEF BrowserResult, PolicyDeniedResult, Result, ReplayOf
<1>3. CASE a.status # "ok" /\ a.errorCode # "AEG-POLICY-DENIED"
    BY <1>3 DEF BrowserResult, EngineErrorResult, Result, ReplayOf
<1>4. QED
    BY <1>1, <1>2, <1>3

\* A run that takes no step keeps what it has, unless another disturbs it.
LEMMA OthersReplay ==
    ASSUME Inv, Apart, GuestsReplay, [Next]_vars, NEW r \in Runs, ~ Own(r)
    PROVE  Staged(r)' /\ (r \notin disturbed' /\ Deterministic(input'[r]) => Replays(r)')
<1>1. Typed /\ InboxPosted /\ InputsKnown
    BY DEF Inv
<1>2. Left(r) /\ Staged(r)
    BY <1>1, OthersLeft DEF GuestsReplay
<1>3. Staged(r)'
  <2>1. phase[r] = "done" => phase'[r] = "done"
      BY <1>1, DoneStays
  <2>2. QED
      BY <1>2, <2>1 DEF Left, Staged, Unstarted
<1>4. ASSUME r \notin disturbed', Deterministic(input'[r]) PROVE Replays(r)'
  <2>1. r \notin disturbed
      BY <1>4, DisturbedGrows
  <2>2. CASE phase'[r] # phase[r] \/ phase[r] = "idle"
      BY <1>2, <2>2 DEF Left, Replays, Preparing, Guests
  <2>3. CASE phase'[r] = phase[r] /\ phase[r] # "idle"
    <3>1. input'[r] = input[r]
        BY <1>1, <2>3, InputKept
    <3>2. Replays(r)
        BY <1>4, <2>1, <3>1 DEF GuestsReplay
    <3>3. phase[r] \in InWorker => PyKept
      <4>1. ASSUME phase[r] \in InWorker, NEW t \in Runs, Takes(t) PROVE FALSE
        <5>1. r \in {s \in Runs : phase[s] \in InWorker}
            BY <4>1
        <5>2. QED
            BY <1>4, <4>1, <5>1 DEF Takes
      <4>2. ASSUME phase[r] \in InWorker, NEW t \in Runs, Start(t) \/ GuestStep(t) PROVE FALSE
        <5>1. t # r /\ phase[t] \in InWorker
            BY <4>2 DEF Own, Start, GuestStep, InWorker
        <5>2. QED
            BY <2>1, <4>2, <5>1 DEF Apart
      <4>3. QED
          BY <1>1, <2>3, <4>1, <4>2, PyMoves
    <3>4. CASE phase[r] \in InWorker
      <4>1. PyKept /\ pc'[r] = pc[r]
          BY <1>2, <3>3, <3>4 DEF Left
      <4>2. phase[r] \in Guests => Running(r)'
          BY <3>1, <3>2, <4>1 DEF Replays, PyKept, Running, RunsAt
      <4>3. phase[r] \in Preparing => py'.out = <<>> /\ py'.tags = {}
          BY <3>2, <4>1 DEF Replays, PyKept
      <4>4. QED
          BY <2>3, <3>4, <4>2, <4>3 DEF Replays, InWorker
    <3>5. CASE phase[r] \notin InWorker
      <4>1. phase[r] \notin Preparing /\ phase[r] \notin Guests
          BY <3>5 DEF InWorker, Preparing, Guests
      <4>2. /\ answer'[r] = answer[r] /\ engine'[r] = engine[r] /\ result'[r] = result[r]
          BY <1>2 DEF Left
      <4>3. QED
          BY <2>3, <3>1, <3>2, <4>1, <4>2 DEF Replays
    <3>6. QED
        BY <3>4, <3>5
  <2>4. QED
      BY <2>2, <2>3
<1>5. QED
    BY <1>3, <1>4

\* The steps of the host for a run, but for the delivery of its answer.
LEMMA HostReplays ==
    ASSUME Typed, NEW r \in Runs, Staged(r),
           \/ \E q \in Requests[runtime.host] : Run(r, q)
           \/ TransportRuns(r) \/ Dispatch(r) \/ Timeout(r)
    PROVE  Staged(r)' /\ Replays(r)'
<1>1. /\ phase \in [Runs -> Phases] /\ pc \in [Runs -> Nat \ {0}]
      /\ engine \in [Runs -> {"none", "started", "guest", "simulated"}]
    BY DEF Typed
<1>2. ASSUME pc'[r] = pc[r], phase[r] \in Unstarted,
             phase'[r] \in {"done", "integrity", "transport", "handed", "posted"},
             engine'[r] = engine[r] \/ (engine'[r] = "simulated" /\ phase'[r] = "done")
      PROVE  Staged(r)' /\ Replays(r)'
    BY <1>2 DEF Staged, Replays, Unstarted, Preparing, Guests
<1>3. ASSUME NEW q \in Requests[runtime.host], Run(r, q) PROVE Staged(r)' /\ Replays(r)'
  <2>1. phase[r] = "idle" /\ UNCHANGED <<engine, pc>>
      BY <1>3 DEF Run, workerVars
  <2>2. phase'[r] \in {"done", "integrity", "transport"}
      BY <1>1, <1>3 DEF Run, Resolve
  <2>3. QED
      BY <1>2, <2>1, <2>2 DEF Unstarted
<1>4. CASE TransportRuns(r)
  <2>1. phase[r] = "transport" /\ UNCHANGED pc
      BY <1>4 DEF TransportRuns, workerVars
  <2>2. \/ phase'[r] = "handed" /\ UNCHANGED engine
        \/ phase'[r] = "done" /\ engine'[r] = "simulated"
      BY <1>1, <1>4 DEF TransportRuns, Resolve
  <2>3. QED
      BY <1>2, <2>1, <2>2 DEF Unstarted
<1>5. CASE Dispatch(r)
  <2>1. phase[r] = "integrity" /\ UNCHANGED pc
      BY <1>5 DEF Dispatch
  <2>2. \/ phase'[r] \in {"done", "posted"} /\ UNCHANGED engine
        \/ phase'[r] = "done" /\ engine'[r] = "simulated"
      BY <1>1, <1>5 DEF Dispatch, Resolve
  <2>3. QED
      BY <1>2, <2>1, <2>2 DEF Unstarted
<1>6. CASE Timeout(r)
  <2>1. phase'[r] = "done" /\ UNCHANGED engine /\ phase[r] # "done"
      BY <1>1, <1>6 DEF Timeout, ReplaceWorker, InWorker
  <2>2. QED
      BY <2>1 DEF Staged, Replays, Unstarted, Preparing, Guests
<1>7. QED
    BY <1>3, <1>4, <1>5, <1>6

\* The steps of the worker that come before the code, and after an await.
LEMMA WorkerReplays ==
    ASSUME Typed, InboxPosted, NEW r \in Runs, Staged(r),
           Takes(r) \/ Prepare(r) \/ PackagesSettle(r) \/ Resumes(r)
    PROVE  Staged(r)' /\ (Replays(r) => Replays(r)')
<1>1. /\ phase \in [Runs -> Phases] /\ pc \in [Runs -> Nat \ {0}] /\ PyTyped
      /\ engine \in [Runs -> {"none", "started", "guest", "simulated"}]
    BY DEF Typed
<1>2. UNCHANGED <<pc, engine, input>>
    BY DEF Takes, Prepare, PackagesSettle, Resumes, requestVars
<1>3. CASE Takes(r)
  <2>1. phase[r] = "posted" /\ phase'[r] = "engine"
      BY <1>1, <1>3, TakenWasPosted DEF Takes
  <2>2. py'.out = <<>> /\ py'.tags = {}
    <3>1. PICK l : py' = [py EXCEPT !.out = <<>>, !.tags = {}, !.load = l]
        BY <1>3 DEF Takes
    <3>2. QED
        BY <1>1, <3>1 DEF PyTyped
  <2>3. QED
      BY <1>2, <2>1, <2>2 DEF Staged, Replays, Unstarted, Preparing, Guests
<1>4. CASE Prepare(r) \/ PackagesSettle(r)
  <2>1. phase[r] \in {"engine", "packages"}
      BY <1>4 DEF Prepare, PackagesSettle
  <2>2. phase'[r] \in {"answered", "start", "packages"}
      BY <1>1, <1>4 DEF Prepare, PackagesSettle, Raise
  <2>3. py'.out = py.out /\ py'.tags = py.tags
    <3>1. \/ UNCHANGED py \/ py' = [py EXCEPT !.bridged = TRUE]
          \/ \E l : py' = [py EXCEPT !.loaded = l]
        BY <1>4 DEF Prepare, PackagesSettle
    <3>2. QED
        BY <1>1, <3>1 DEF PyTyped
  <2>4. pc'[r] = 1 /\ engine'[r] = "none"
      BY <1>2, <2>1 DEF Staged, Unstarted
  <2>5. QED
      BY <2>1, <2>2, <2>3, <2>4 DEF Staged, Replays, Unstarted, Preparing, Guests
<1>5. CASE Resumes(r)
  <2>1. phase[r] = "waiting" /\ phase'[r] = "guest" /\ UNCHANGED py
      BY <1>1, <1>5 DEF Resumes
  <2>2. Running(r) => Running(r)'
      BY <1>2, <2>1 DEF Running, RunsAt
  <2>3. QED
      BY <1>2, <2>1, <2>2 DEF Staged, Replays, Unstarted, Preparing, Guests
<1>6. QED
    BY <1>3, <1>4, <1>5

\* The code starts in an interpreter whose clock and generator are patched anew.
LEMMA StartReplays ==
    ASSUME Typed, NEW r \in Runs, Staged(r), Start(r)
    PROVE  /\ Staged(r)'
           /\ Replayable(input[r]) /\ input[r].determinism.enabled /\ Replays(r) => Replays(r)'
<1>1. /\ phase \in [Runs -> Phases] /\ pc \in [Runs -> Nat \ {0}] /\ PyTyped
      /\ engine \in [Runs -> {"none", "started", "guest", "simulated"}]
    BY DEF Typed
<1>2. /\ phase[r] = "start" /\ phase'[r] = "guest" /\ UNCHANGED <<pc, input>> /\ engine'[r] = "started"
      /\ py' = Bridged(Patched(py, input[r].determinism), RequestedNetwork(input[r]))
    BY <1>1 DEF Start
<1>3. Staged(r)' /\ pc'[r] = 1
    BY <1>2 DEF Staged, Unstarted
<1>4. ASSUME Replayable(input[r]), input[r].determinism.enabled, Replays(r) PROVE Running(r)'
  <2> DEFINE q == input[r]
             det == q.determinism
  <2>1. py.out = <<>> /\ py.tags = {}
      BY <1>2, <1>4 DEF Replays, Preparing
  <2>2. PICK p : p = Patched(py, det)
      OBVIOUS
  <2>3. /\ p.clock = det.epochMs /\ p.seed = PythonSeed(det.rngSeedHex) /\ p.drawn = 0
        /\ p.out = <<>> /\ p.tags = {}
    <3>1. p = [py EXCEPT !.clock = det.epochMs, !.seed = PythonSeed(det.rngSeedHex), !.drawn = 0]
        BY <1>4, <2>2 DEF Patched
    <3>2. QED
        BY <1>1, <2>1, <3>1 DEF PyTyped
  <2>4. /\ py'.clock = p.clock /\ py'.seed = p.seed /\ py'.drawn = p.drawn
        /\ py'.out = p.out /\ py'.tags = p.tags
    <3>1. DOMAIN p = DOMAIN py
        BY <2>2 DEF Patched
    <3>2. py' = p \/ \E g : py' = [p EXCEPT !.grant = g, !.used = 0, !.spent = 0]
        BY <1>2, <2>2 DEF Bridged
    <3>3. {"clock", "seed", "drawn", "out", "tags"} \subseteq DOMAIN p
        BY <1>1, <3>1 DEF PyTyped
    <3>4. QED
        BY <3>2, <3>3
  <2>5. HasCalls(q)
      BY <1>4, LenProperties DEF Replayable, HasCalls
  <2>6. RanUpTo(q)[0] = NothingRan /\ GoneBy(q, 0)
    <3>1. 0 \in 0..Len(q.code.calls) /\ \A i \in 1..0 : FALSE
        BY <2>5 DEF HasCalls
    <3>2. QED
        BY <2>5, <3>1, RanSteps DEF GoneBy
  <2>7. RunsAt(q, 0, py')
      BY <2>3, <2>4, <2>6 DEF RunsAt, NothingRan
  <2>8. pc'[r] - 1 = 0 /\ input'[r] = q
      BY <1>2, <1>3
  <2>9. QED
      BY <2>7, <2>8 DEF Running
<1>5. QED
    BY <1>2, <1>3, <1>4 DEF Replays, Preparing, Guests

LEMMA ReplayStep ==
    ASSUME Inv, Apart, GuestsReplay, [Next]_vars
    PROVE  GuestsReplay'
<1>1. /\ Typed /\ InboxPosted /\ InputsKnown /\ phase \in [Runs -> Phases] /\ DOMAIN result = Runs
      /\ engine \in [Runs -> {"none", "started", "guest", "simulated"}] /\ pc \in [Runs -> Nat \ {0}]
    BY DEF Inv, Typed
<1> SUFFICES ASSUME NEW r \in Runs
             PROVE  Staged(r)' /\ (r \notin disturbed' /\ Deterministic(input'[r]) => Replays(r)')
    BY DEF GuestsReplay
<1>2. Staged(r) /\ (r \notin disturbed' => r \notin disturbed)
    BY DisturbedGrows DEF GuestsReplay
<1>3. CASE ~ Own(r)
    BY <1>3, OthersReplay
<1>4. CASE \/ \E q \in Requests[runtime.host] : Run(r, q)
           \/ TransportRuns(r) \/ Dispatch(r) \/ Timeout(r)
    BY <1>1, <1>2, <1>4, HostReplays
<1>5. ASSUME phase[r] \in InWorker \cup {"posted", "answered"}, UNCHANGED input,
             r \notin disturbed', Deterministic(input'[r])
      PROVE  Replays(r) /\ Replayable(input[r]) /\ input[r].determinism.enabled
  <2>1. phase[r] \notin {"idle", "done"}
      BY <1>5 DEF InWorker
  <2>2. RunRequest(input[r]) /\ ValidRunRequest(input[r])
      BY <1>1, <2>1, AcceptedRequest
  <2>3. Deterministic(input[r])
      BY <1>5
  <2>4. Replayable(input[r])
      BY <2>2, <2>3, AcceptedReplayable
  <2>5. QED
      BY <1>2, <1>5, <2>3, <2>4 DEF GuestsReplay, Deterministic
<1>6. CASE Takes(r) \/ Prepare(r) \/ PackagesSettle(r) \/ Resumes(r)
  <2>1. UNCHANGED input
      BY <1>6 DEF Takes, Prepare, PackagesSettle, Resumes, requestVars
  <2>2. phase[r] \in InWorker \cup {"posted"}
    <3>1. Takes(r) => phase[r] = "posted"
        BY <1>1, TakenWasPosted
    <3>2. QED
        BY <1>6, <3>1 DEF Prepare, PackagesSettle, Resumes, InWorker
  <2>3. Staged(r)' /\ (Replays(r) => Replays(r)')
      BY <1>1, <1>2, <1>6, WorkerReplays
  <2>4. QED
      BY <1>5, <2>1, <2>2, <2>3
<1>7. CASE Start(r)
  <2>1. UNCHANGED input /\ phase[r] \in InWorker
      BY <1>7 DEF Start, InWorker
  <2>2. QED
      BY <1>1, <1>2, <1>5, <1>7, <2>1, StartReplays
<1>8. CASE GuestStep(r)
  <2>1. UNCHANGED <<input, engine>> /\ phase[r] = "guest" /\ phase[r] \in InWorker
      BY <1>8 DEF GuestStep, requestVars, InWorker
  <2>2. phase'[r] \in Guests \cup {"answered"}
    <3>1. UNCHANGED phase \/ \E p \in {"answered", "waiting"} : phase' = [phase EXCEPT ![r] = p]
        BY <1>8, GuestMoves
    <3>2. QED
        BY <1>1, <2>1, <3>1 DEF Guests
  <2>3. Staged(r)'
      BY <1>2, <2>1, <2>2 DEF Staged, Unstarted, Guests
  <2>4. ASSUME r \notin disturbed', Deterministic(input'[r]) PROVE Replays(r)'
    <3>1. Running(r) /\ Replayable(input[r])
        BY <1>5, <2>1, <2>4 DEF Replays, Guests
    <3>2. \/ phase'[r] \in Guests /\ Running(r)'
          \/ phase'[r] = "answered" /\ Answers(input[r], answer'[r])
        BY <1>1, <1>8, <3>1, GuestReplays
    <3>3. QED
        BY <2>1, <3>2 DEF Replays, Guests, Preparing
  <2>5. QED
      BY <2>3, <2>4
<1>9. CASE Deliver(r)
  <2>1. UNCHANGED input /\ phase[r] = "answered" /\ phase'[r] = "done"
      BY <1>1, <1>9 DEF Deliver, Resolve
  <2>2. engine'[r] = IF engine[r] = "started" THEN "guest" ELSE engine[r]
      BY <1>1, <1>9 DEF Deliver
  <2>3. Staged(r)'
      BY <2>1 DEF Staged, Unstarted
  <2>4. ASSUME r \notin disturbed', Deterministic(input'[r]), engine'[r] = "guest"
        PROVE  Answers(input[r], answer[r])
               /\ ReplayOf(result'[r]) = ReplayOf(BrowserResult(answer[r], 0, 0))
    <3>1. engine[r] = "started"
        BY <1>2, <2>1, <2>2, <2>4 DEF Staged
    <3>2. Answers(input[r], answer[r])
        BY <1>5, <2>1, <2>4, <3>1 DEF Replays
    <3>3. PICK env \in Clocks :
              Resolve(r, WithRuntimeBoundaryAudit(Capabilities,
                             BrowserResult(answer[r], env.started, env.ended)))
        BY <1>9 DEF Deliver
    <3>4. EngineMade(BrowserResult(answer[r], env.started, env.ended))
        BY ClocksRead, BrowserResultMade DEF ReadsClock
    <3>5. ReplayOf(result'[r]) = ReplayOf(BrowserResult(answer[r], env.started, env.ended))
        BY <1>1, <3>3, <3>4, BoundaryAdded DEF Resolve
    <3>6. QED
        BY <3>2, <3>5, AnswerReplays
  <2>5. r \notin disturbed' /\ Deterministic(input'[r]) => Replays(r)'
      BY <2>1, <2>4 DEF Replays, Preparing, Guests
  <2>6. QED
      BY <2>3, <2>5
<1>10. QED
    BY <1>3, <1>4, <1>6, <1>7, <1>8, <1>9 DEF Own

LEMMA GuestsReplayHolds == Spec => []GuestsReplay
<1>1. Init => GuestsReplay
    BY DEF Init, GuestsReplay, Staged, Replays, Preparing, Guests
<1>2. Inv /\ (Apart /\ Vouched /\ GuestsWithin) /\ GuestsReplay /\ [Next]_vars => GuestsReplay'
    BY ReplayStep
<1>3. QED
    BY <1>1, <1>2, InvHolds, WorkerHolds, PTL DEF Spec

\* Two runs of one deterministic request have the same replay hash, whatever
\* ran in the interpreter between them, and whichever workers were replaced
\* (browser-runtime.ts, pyodide-worker.mjs, simulated.ts).
THEOREM ReplayAgreesHolds == Spec => []ReplayAgrees
<1>1. Inv /\ SimulatedFits /\ GuestsReplay => ReplayAgrees
  <2> SUFFICES ASSUME Inv, SimulatedFits, GuestsReplay, NEW r \in Done, NEW s \in Done,
                      input[r] = input[s], engine[r] \in {"simulated", "guest"},
                      engine[s] = engine[r], {r, s} \cap disturbed = {},
                      input[r].determinism.enabled,
                      engine[r] = "guest" => ~ Uses(input[r].code, "http_request")
               PROVE  ReplayOf(result[r]) = ReplayOf(result[s])
      BY DEF ReplayAgrees
  <2> DEFINE q == input[r]
  <2>1. r \in Runs /\ s \in Runs /\ phase[r] = "done" /\ phase[s] = "done"
      BY DEF Done
  <2>2. RunRequest(q) /\ ValidRunRequest(q)
      BY <2>1, AcceptedRequest DEF Inv
  <2>3. CASE engine[r] = "simulated"
    <3>1. PICK e1 \in Clocks : ReplayOf(result[r]) = ReplayOf(SimulateRun(Materialize(q), e1))
        BY <2>1, <2>3 DEF SimulatedFits
    <3>2. PICK e2 \in Clocks : ReplayOf(result[s]) = ReplayOf(SimulateRun(Materialize(q), e2))
        BY <2>1, <2>3 DEF SimulatedFits
    <3>3. Materialize(q).determinism.enabled
        BY <2>2, MaterializeKeeps
    <3>4. QED
        BY <3>1, <3>2, <3>3, SimulationReplays
  <2>4. CASE engine[r] = "guest"
    <3>1. Deterministic(q)
        BY <2>4 DEF Deterministic
    <3>2. PICK a : Answers(q, a) /\ ReplayOf(result[r]) = ReplayOf(BrowserResult(a, 0, 0))
        BY <2>1, <2>4, <3>1 DEF GuestsReplay, Replays
    <3>3. PICK b : Answers(q, b) /\ ReplayOf(result[s]) = ReplayOf(BrowserResult(b, 0, 0))
        BY <2>1, <2>4, <3>1 DEF GuestsReplay, Replays
    <3>4. HasCalls(q)
        BY <2>2, <3>1, AcceptedReplayable, LenProperties DEF Replayable, HasCalls
    <3>5. QED
        BY <3>2, <3>3, <3>4, OneAnswer
  <2>5. QED
      BY <2>3, <2>4
<1>2. QED
    BY <1>1, InvHolds, SimulatedHolds, GuestsReplayHolds, PTL
===============================================================================
