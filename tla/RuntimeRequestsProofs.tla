------------------------- MODULE RuntimeRequestsProofs -------------------------
(***************************************************************************)
(* Proofs about RuntimeRequests, for any calls, requests, runtimes and     *)
(* sizes of responses: first what its operators make of a request, then    *)
(* the steps of the runtime and of the worker.                             *)
(***************************************************************************)
EXTENDS RuntimeRequests, Induction, TLAPS
-------------------------------------------------------------------------------
(* The policy's verdict on the calls of a program.                         *)

AttemptKinds == {"fs_read", "fs_write", "http_request", "env_read"}
VerdictKinds == AttemptKinds \cup {"policy_denied"}

\* The code of a request is a sequence of calls.
HasCalls(q) == Len(q.code.calls) \in Nat

\* The attempts are numbered, and of the four kinds that are spelled out.
LEMMA AttemptsAreKnown ==
    ASSUME NEW q, HasCalls(q)
    PROVE  /\ Len(CollectAttempts(q.code)) \in Nat
           /\ \A i \in 1..Len(CollectAttempts(q.code)) :
                 CollectAttempts(q.code)[i].kind \in AttemptKinds
<1> DEFINE calls == q.code.calls
           S == {calls[i] : i \in {j \in 1..Len(calls) : calls[j].op \in AttemptKinds}}
           all == Spelled(q.code, "fs_write") \o Spelled(q.code, "fs_read")
                  \o Spelled(q.code, "http_request") \o Spelled(q.code, "env_read")
<1>1. ASSUME NEW kind \in AttemptKinds PROVE Spelled(q.code, kind) \in Seq(S)
  <2> DEFINE is == {i \in DOMAIN calls : calls[i].op = kind /\ calls[i].spelled}
  <2>1. \A i \in 1..Len(calls) : i \in is => calls[i] \in S
      BY <1>1
  <2> HIDE DEF is, S
  <2>2. Picked(calls, is) \in Seq(S)
      BY <2>1, PickedType DEF HasCalls
  <2>3. QED
      BY <2>2 DEF Spelled, is
<1> HIDE DEF S
<1>2. all \in Seq(S)
  <2>1. /\ Spelled(q.code, "fs_write") \in Seq(S) /\ Spelled(q.code, "fs_read") \in Seq(S)
        /\ Spelled(q.code, "http_request") \in Seq(S) /\ Spelled(q.code, "env_read") \in Seq(S)
      BY <1>1 DEF AttemptKinds
  <2>2. QED
      BY <2>1, ConcatProperties
<1>3. CollectAttempts(q.code) = [i \in DOMAIN all |-> AttemptOf(all[i])]
    BY DEF CollectAttempts
<1> HIDE DEF all
<1>4. Len(all) \in Nat /\ DOMAIN all = 1..Len(all) /\ \A i \in 1..Len(all) : all[i] \in S
    BY <1>2, LenProperties, ElementOfSeq
<1>5. \A c \in S : AttemptOf(c).kind \in AttemptKinds
    BY DEF S, AttemptOf
<1>6. /\ DOMAIN CollectAttempts(q.code) = 1..Len(all)
      /\ \A i \in 1..Len(all) : CollectAttempts(q.code)[i] = AttemptOf(all[i])
    BY <1>3, <1>4
<1>7. Len(CollectAttempts(q.code)) = Len(all)
    BY <1>3, <1>4
<1>8. QED
    BY <1>4, <1>5, <1>6, <1>7

\* An attempt is audited under its own kind exactly when it is allowed.
LEMMA DecisionKind ==
    ASSUME NEW p, NEW a, NEW budget
    PROVE  LET d == EvaluatePolicyAttempt(p, a, budget)
           IN  d.kind = IF d.reason = "allow" THEN a.kind ELSE "policy_denied"
<1>1. \A reason, kind, b :
          /\ Decision(reason, kind, b).reason = reason
          /\ Decision(reason, kind, b).kind = IF reason = "allow" THEN kind ELSE "policy_denied"
    BY DEF Decision
<1>2. \E reason, b : CheckFs(p.fs, a, budget) = Decision(reason, a.kind, b)
    BY Zenon DEF CheckFs
<1>3. \E reason, b : CheckHttp(p.http, a, budget) = Decision(reason, a.kind, b)
    BY Zenon DEF CheckHttp
<1>4. \E reason, b : CheckEnv(p.env, a, budget) = Decision(reason, a.kind, b)
    BY Zenon DEF CheckEnv
<1>5. \E reason, b : EvaluatePolicyAttempt(p, a, budget) = Decision(reason, a.kind, b)
    BY <1>2, <1>3, <1>4, Zenon DEF EvaluatePolicyAttempt
<1>6. QED
    BY <1>1, <1>5

\* What is known after one more attempt.
Judge(q, acc, i) ==
    LET d == EvaluatePolicyAttempt(q.permissions, CollectAttempts(q.code)[i], acc.budget)
    IN  IF acc.reason # "allow" THEN acc
        ELSE [reason |-> d.reason, budget |-> d.budget, kinds |-> Append(acc.kinds, d.kind)]

NothingJudged == [reason |-> "allow", budget |-> EmptyBudget, kinds |-> <<>>]

JudgeStep(q, judged, i) == IF i = 0 THEN NothingJudged ELSE Judge(q, judged[i - 1], i)

LEMMA JudgedUnfolds ==
    ASSUME NEW q, Len(CollectAttempts(q.code)) \in Nat
    PROVE  JudgedUpTo(q) =
               [i \in 0..Len(CollectAttempts(q.code)) |-> JudgeStep(q, JudgedUpTo(q), i)]
<1> DEFINE m == Len(CollectAttempts(q.code))
           T == {n \in Nat : \E judged : judged = [i \in 0..n |-> JudgeStep(q, judged, i)]}
<1>1. 0 \in T
  <2>1. [i \in 0..0 |-> NothingJudged] =
            [i \in 0..0 |-> JudgeStep(q, [j \in 0..0 |-> NothingJudged], i)]
      BY DEF JudgeStep
  <2>2. QED
      BY <2>1
<1>2. ASSUME NEW n \in Nat, n \in T PROVE n + 1 \in T
  <2>1. PICK judged : judged = [i \in 0..n |-> JudgeStep(q, judged, i)]
      BY <1>2
  <2> DEFINE more == [i \in 0..n + 1 |-> IF i = n + 1 THEN JudgeStep(q, judged, n + 1)
                                         ELSE judged[i]]
  <2>2. ASSUME NEW i \in 0..n + 1 PROVE more[i] = JudgeStep(q, more, i)
    <3>1. i = 0 \/ (i - 1 \in 0..n + 1 /\ i - 1 # n + 1)
        OBVIOUS
    <3>2. i = 0 \/ more[i - 1] = judged[i - 1]
        BY <3>1
    <3>3. more[i] = IF i = n + 1 THEN JudgeStep(q, judged, n + 1) ELSE judged[i]
        OBVIOUS
    <3>4. i = n + 1 \/ i \in 0..n
        OBVIOUS
    <3>5. i \in 0..n => judged[i] = JudgeStep(q, judged, i)
        BY <2>1
    <3> HIDE DEF more
    <3>6. JudgeStep(q, more, i) = JudgeStep(q, judged, i)
      <4>1. CASE i = 0
          BY <4>1, Zenon DEF JudgeStep
      <4>2. CASE more[i - 1] = judged[i - 1]
          BY <4>2, Zenon DEF JudgeStep
      <4>3. QED
          BY <3>2, <4>1, <4>2
    <3>7. QED
        BY <3>3, <3>4, <3>5, <3>6
  <2>3. more = [i \in 0..n + 1 |-> JudgeStep(q, more, i)]
      BY <2>2
  <2> HIDE DEF more
  <2>4. QED
      BY <2>3
<1>3. m \in T
  <2> HIDE DEF T
  <2>1. Nat \subseteq T
      BY <1>1, <1>2, SetInduction
  <2>2. QED
      BY <2>1
<1>4. PICK judged : judged = [i \in 0..m |-> JudgeStep(q, judged, i)]
    BY <1>3
<1>5. QED
    BY <1>4, Zenon DEF JudgedUpTo, JudgeStep, Judge, NothingJudged

\* The kinds of a trail in which nothing but a last entry is a denial.
DenialIsLast(kinds, denied) ==
    /\ \A i \in 1..Len(kinds) - 1 : kinds[i] # "policy_denied"
    /\ denied <=> Len(kinds) > 0 /\ kinds[Len(kinds)] = "policy_denied"

\* The loop over the attempts stops at the first denial.
LEMMA JudgedStops ==
    ASSUME NEW q, HasCalls(q)
    PROVE  /\ Judged(q).kinds \in Seq(VerdictKinds)
           /\ DenialIsLast(Judged(q).kinds, Judged(q).reason # "allow")
<1> DEFINE m == Len(CollectAttempts(q.code))
           f == JudgedUpTo(q)
           Good(acc) == /\ acc.kinds \in Seq(VerdictKinds)
                        /\ DenialIsLast(acc.kinds, acc.reason # "allow")
           T == {n \in Nat : n <= m => Good(f[n])}
<1>0. m \in Nat /\ f[0] = NothingJudged /\ \A i \in 1..m : f[i] = Judge(q, f[i - 1], i)
  <2>1. m \in Nat
      BY AttemptsAreKnown
  <2>2. \A i \in 0..m : f[i] = JudgeStep(q, f, i)
      BY <2>1, JudgedUnfolds
  <2>3. QED
      BY <2>1, <2>2 DEF JudgeStep
<1>a. \A i \in 1..m : CollectAttempts(q.code)[i].kind \in AttemptKinds
    BY AttemptsAreKnown
<1> HIDE DEF f, m
<1>1. 0 \in T
  <2>1. f[0].kinds = <<>> /\ f[0].reason = "allow"
      BY <1>0 DEF NothingJudged
  <2>2. Good(f[0])
      BY <2>1, EmptySeq DEF DenialIsLast
  <2>3. QED
      BY <2>2
<1>2. ASSUME NEW n \in Nat, n \in T PROVE n + 1 \in T
  <2>1. CASE n + 1 <= m
    <3>1. n + 1 \in 1..m /\ (n + 1) - 1 = n /\ n <= m
        BY <1>0, <2>1
    <3>2. f[n + 1] = Judge(q, f[n], n + 1) /\ Good(f[n])
        BY <1>0, <1>2, <3>1
    <3>3. CASE f[n].reason # "allow"
      <4>1. f[n + 1] = f[n]
          BY <3>2, <3>3 DEF Judge
      <4>2. QED
          BY <3>2, <4>1
    <3>4. CASE f[n].reason = "allow"
      <4>1. PICK d : d = EvaluatePolicyAttempt(q.permissions, CollectAttempts(q.code)[n + 1],
                                               f[n].budget)
          OBVIOUS
      <4>2. d.kind = IF d.reason = "allow" THEN CollectAttempts(q.code)[n + 1].kind
                     ELSE "policy_denied"
          BY <4>1, DecisionKind
      <4>3. f[n + 1] = [reason |-> d.reason, budget |-> d.budget,
                        kinds |-> Append(f[n].kinds, d.kind)]
          BY <3>2, <3>4, <4>1, Zenon DEF Judge
      <4>4. f[n + 1].kinds = Append(f[n].kinds, d.kind) /\ f[n + 1].reason = d.reason
          BY <4>3
      <4>5. CollectAttempts(q.code)[n + 1].kind \in AttemptKinds
          BY <1>a, <3>1
      <4>6. d.kind \in VerdictKinds /\ (d.kind = "policy_denied" <=> d.reason # "allow")
          BY <4>2, <4>5 DEF VerdictKinds, AttemptKinds
      <4> DEFINE x == f[n].kinds
                 e == d.kind
      <4>7. x \in Seq(VerdictKinds) /\ DenialIsLast(x, FALSE) /\ e \in VerdictKinds
          BY <3>2, <3>4, <4>6
      <4> HIDE DEF x, e
      <4>8. /\ Append(x, e) \in Seq(VerdictKinds) /\ Len(Append(x, e)) = Len(x) + 1
            /\ Append(x, e)[Len(x) + 1] = e
            /\ \A i \in 1..Len(x) : Append(x, e)[i] = x[i]
            /\ Len(x) \in Nat
          BY <4>7, AppendProperties, LenProperties
      <4>9. \A i \in 1..Len(x) : x[i] # "policy_denied"
        <5>1. \A i \in 1..Len(x) : i \in 1..Len(x) - 1 \/ (i = Len(x) /\ Len(x) > 0)
            BY <4>8
        <5>2. QED
            BY <4>7, <5>1 DEF DenialIsLast
      <4>10. DenialIsLast(Append(x, e), e = "policy_denied")
          BY <4>7, <4>8, <4>9 DEF DenialIsLast
      <4>11. Good(f[n + 1])
        <5>1. (f[n + 1].reason # "allow") <=> (e = "policy_denied")
            BY <4>4, <4>6 DEF e
        <5>2. QED
            BY <4>4, <4>8, <4>10, <5>1 DEF DenialIsLast, x, e
      <4>12. QED
          BY <4>11
    <3>5. QED
        BY <3>3, <3>4
  <2>2. QED
      BY <2>1
<1>3. Nat \subseteq T
  <2> HIDE DEF T
  <2>1. QED
      BY <1>1, <1>2, SetInduction
<1>4. Good(f[m])
    BY <1>0, <1>3
<1>5. QED
    BY <1>4 DEF Judged, f, m
-------------------------------------------------------------------------------
(* Results and their trails.                                               *)

\* What the engines themselves put on a trail; the boundary's kinds are apart.
EngineKinds  == VerdictKinds \cup {"determinism_time", "determinism_rng", "engine_error"}
BoundaryOnly == {"runtime_channel", "runtime_binding"}
Kinds == EngineKinds \cup BoundaryOnly

Event == [seq : Nat, kind : Kinds, tsMs : Nat]

\* A result has its fields, and an error exactly when its status says so.
Shaped(x) ==
    /\ x \in [status : {"ok", "error"}, exitCode : Nat, stdout : {x.stdout},
              stderr : {x.stderr}, termination : Terminations, error : ErrorCodes \cup {Null},
              audit : Seq(Event), startedTsMs : Nat, endedTsMs : Nat, durationMs : Nat]
    /\ x.status = "error" <=> x.error # Null

KindsOf(audit) == [i \in DOMAIN audit |-> audit[i].kind]

\* The trail is numbered, and the denial that ended the run is its last entry.
Audited(x) ==
    /\ \A i \in 1..Len(x.audit) : x.audit[i].seq = i
    /\ x.termination = "policy_denied" => x.status = "error"
    /\ DenialIsLast(KindsOf(x.audit), x.termination = "policy_denied")

EngineMade(x) ==
    /\ Shaped(x) /\ Audited(x)
    /\ \A i \in 1..Len(x.audit) : x.audit[i].kind \in EngineKinds

LEMMA NumbersCount == \A n \in Nat : IsNumber(n)
BY ValuesAssumption DEF IsNumber, IsPresent

\* A result of the right shape is one validateRunResult accepts.
LEMMA ShapedIsValid ==
    ASSUME NEW x, Shaped(x)
    PROVE  ValidRunResult(x)
<1>1. x.exitCode \in Nat /\ x.startedTsMs \in Nat /\ x.endedTsMs \in Nat /\ x.durationMs \in Nat
    BY DEF Shaped
<1>2. x.status \in {"ok", "error"} /\ x.termination \in Terminations
      /\ (x.status = "error" => x.error \in ErrorCodes)
    BY DEF Shaped
<1>3. x.audit \in Seq(Event)
    BY DEF Shaped
<1>4. \A i \in DOMAIN x.audit : x.audit[i].seq \in Nat /\ x.audit[i].tsMs \in Nat
  <2> DEFINE trail == x.audit
  <2>1. trail \in Seq(Event)
      BY <1>3
  <2> HIDE DEF trail
  <2>2. DOMAIN trail = 1..Len(trail) /\ \A i \in 1..Len(trail) : trail[i] \in Event
      BY <2>1, LenProperties, ElementOfSeq
  <2>3. \A i \in DOMAIN trail : trail[i].seq \in Nat /\ trail[i].tsMs \in Nat
      BY <2>2 DEF Event
  <2>4. QED
      BY <2>3 DEF trail
<1>5. QED
    BY <1>1, <1>2, <1>4, NumbersCount DEF ValidRunResult, ValidMeta, ValidError

LEMMA DurationIsNumber ==
    ASSUME NEW started \in Nat, NEW ended \in Nat
    PROVE  DurationMs(started, ended) \in Nat
BY DEF DurationMs

LEMMA ResultShaped ==
    ASSUME NEW exit \in Nat, NEW out, NEW err, NEW termination \in Terminations,
           NEW error \in ErrorCodes \cup {Null}, NEW audit \in Seq(Event),
           NEW started \in Nat, NEW ended \in Nat
    PROVE  /\ Shaped(Result(exit, out, err, termination, error, audit, started, ended))
           /\ LET x == Result(exit, out, err, termination, error, audit, started, ended)
              IN  /\ x.audit = audit /\ x.termination = termination /\ x.error = error
                  /\ x.status = IF error = Null THEN "ok" ELSE "error"
                  /\ x.startedTsMs = started
BY DurationIsNumber DEF Result, Shaped

LEMMA TrailNumbered ==
    ASSUME NEW kinds \in Seq(Kinds), NEW ts \in Nat
    PROVE  /\ Trail(kinds, ts) \in Seq(Event)
           /\ Len(Trail(kinds, ts)) = Len(kinds)
           /\ \A i \in 1..Len(kinds) : /\ Trail(kinds, ts)[i].seq = i
                                       /\ Trail(kinds, ts)[i].kind = kinds[i]
           /\ KindsOf(Trail(kinds, ts)) = kinds
<1>1. Len(kinds) \in Nat /\ DOMAIN kinds = 1..Len(kinds) /\ \A i \in 1..Len(kinds) : kinds[i] \in Kinds
    BY LenProperties, ElementOfSeq
<1>2. kinds = [i \in 1..Len(kinds) |-> kinds[i]]
    BY <1>1
<1>3. Trail(kinds, ts) = [i \in 1..Len(kinds) |-> [seq |-> i, kind |-> kinds[i], tsMs |-> ts]]
    BY <1>1 DEF Trail
<1>4. Trail(kinds, ts) \in [1..Len(kinds) -> Event]
    BY <1>1, <1>3 DEF Event
<1>5. Trail(kinds, ts) \in Seq(Event) /\ Len(Trail(kinds, ts)) = Len(kinds)
    BY <1>1, <1>4, IsASeq
<1>6. \A i \in 1..Len(kinds) : Trail(kinds, ts)[i].seq = i /\ Trail(kinds, ts)[i].kind = kinds[i]
    BY <1>3
<1>7. DOMAIN Trail(kinds, ts) = 1..Len(kinds)
    BY <1>3
<1>8. QED
    BY <1>2, <1>5, <1>6, <1>7 DEF KindsOf

\* A result whose trail is that of its verdicts.
LEMMA ResultMade ==
    ASSUME NEW exit \in Nat, NEW out, NEW err, NEW termination \in Terminations,
           NEW error \in ErrorCodes \cup {Null}, NEW kinds \in Seq(EngineKinds),
           NEW ts \in Nat, NEW started \in Nat, NEW ended \in Nat,
           termination = "policy_denied" => error # Null,
           DenialIsLast(kinds, termination = "policy_denied")
    PROVE  EngineMade(Result(exit, out, err, termination, error, Trail(kinds, ts), started, ended))
<1> DEFINE trail == Trail(kinds, ts)
           x == Result(exit, out, err, termination, error, trail, started, ended)
<1>1. kinds \in Seq(Kinds) /\ \A i \in 1..Len(kinds) : kinds[i] \in EngineKinds
  <2>1. kinds \in Seq(Kinds)
      BY SeqMonotonic DEF Kinds
  <2>2. QED
      BY <2>1, ElementOfSeq
<1>2. /\ trail \in Seq(Event) /\ Len(trail) = Len(kinds) /\ KindsOf(trail) = kinds
      /\ \A i \in 1..Len(kinds) : trail[i].seq = i /\ trail[i].kind = kinds[i]
    BY <1>1, TrailNumbered
<1> HIDE DEF trail
<1>3. /\ Shaped(x) /\ x.audit = trail /\ x.termination = termination /\ x.error = error
      /\ x.status = IF error = Null THEN "ok" ELSE "error"
    BY <1>2, ResultShaped
<1> HIDE DEF x
<1>4. Audited(x)
    BY <1>2, <1>3 DEF Audited
<1>5. \A i \in 1..Len(x.audit) : x.audit[i].kind \in EngineKinds
    BY <1>1, <1>2, <1>3
<1>6. QED
    BY <1>3, <1>4, <1>5 DEF EngineMade, x, trail

\* The boundary's kinds go first, and the whole is numbered again.
LEMMA PrefixAdded ==
    ASSUME NEW x, Shaped(x), NEW kinds \in Seq(Kinds),
           \A i \in 1..Len(x.audit) : \A j \in 1..Len(kinds) : kinds[j] # x.audit[i].kind
    PROVE  LET y == WithAuditPrefix(x, kinds)
           IN  /\ Shaped(y) /\ y = [x EXCEPT !.audit = y.audit]
               /\ Len(y.audit) = Len(kinds) + Len(x.audit)
               /\ \A i \in 1..Len(y.audit) : y.audit[i].seq = i
               /\ \A i \in 1..Len(kinds) : y.audit[i].kind = kinds[i]
               /\ \A i \in 1..Len(x.audit) : y.audit[Len(kinds) + i].kind = x.audit[i].kind
<1> DEFINE own == {i \in DOMAIN x.audit : \A j \in DOMAIN kinds : kinds[j] # x.audit[i].kind}
           prefix == Trail(kinds, x.startedTsMs)
           trail == x.audit
           whole == prefix \o trail
           y == [x EXCEPT !.audit = Renumbered(whole)]
<1>1. /\ trail \in Seq(Event) /\ Len(trail) \in Nat /\ DOMAIN trail = 1..Len(trail)
      /\ Len(kinds) \in Nat /\ DOMAIN kinds = 1..Len(kinds) /\ x.startedTsMs \in Nat
    BY LenProperties DEF Shaped
<1>2. own = DOMAIN trail
    BY <1>1
<1>3. Picked(trail, own) = trail
    BY <1>1, <1>2, PickedAll
<1>4. WithAuditPrefix(x, kinds) = y
    BY <1>3 DEF WithAuditPrefix
<1>5. /\ prefix \in Seq(Event) /\ Len(prefix) = Len(kinds)
      /\ \A i \in 1..Len(kinds) : prefix[i].kind = kinds[i]
    BY <1>1, TrailNumbered
<1> HIDE DEF own, prefix, trail
<1>6. /\ whole \in Seq(Event) /\ Len(whole) = Len(kinds) + Len(trail)
      /\ \A i \in 1..Len(kinds) + Len(trail) :
            whole[i] = IF i <= Len(kinds) THEN prefix[i] ELSE trail[i - Len(kinds)]
  <2>1. prefix \in Seq(Event) /\ trail \in Seq(Event)
      BY <1>1, <1>5
  <2>2. /\ prefix \o trail \in Seq(Event) /\ Len(prefix \o trail) = Len(prefix) + Len(trail)
        /\ \A i \in 1..Len(prefix) + Len(trail) :
              (prefix \o trail)[i] = IF i <= Len(prefix) THEN prefix[i] ELSE trail[i - Len(prefix)]
      BY <2>1, ConcatProperties
  <2>3. Len(prefix) = Len(kinds)
      BY <1>5
  <2>4. QED
      BY <2>2, <2>3
<1> HIDE DEF whole
<1>7. DOMAIN whole = 1..Len(whole) /\ Len(whole) \in Nat /\ \A i \in 1..Len(whole) : whole[i] \in Event
    BY <1>6, LenProperties, ElementOfSeq
<1>8. Renumbered(whole) = [i \in 1..Len(whole) |-> [whole[i] EXCEPT !.seq = i]]
    BY <1>7 DEF Renumbered
<1>9. \A i \in 1..Len(whole) : /\ Renumbered(whole)[i] \in Event
                               /\ Renumbered(whole)[i].seq = i
                               /\ Renumbered(whole)[i].kind = whole[i].kind
    BY <1>7, <1>8 DEF Event
<1>10. Renumbered(whole) \in Seq(Event) /\ Len(Renumbered(whole)) = Len(whole)
  <2>1. Renumbered(whole) \in [1..Len(whole) -> Event]
      BY <1>8, <1>9
  <2>2. QED
      BY <1>7, <2>1, IsASeq
<1> DEFINE new == Renumbered(whole)
<1> HIDE DEF new
<1>11. y = [x EXCEPT !.audit = new] /\ y.audit = new
  <2>1. y = [x EXCEPT !.audit = new]
      BY DEF new
  <2>2. QED
      BY <2>1 DEF Shaped
<1>12. new \in Seq(Event) /\ Len(new) = Len(kinds) + Len(trail) /\ \A i \in 1..Len(new) : new[i].seq = i
    BY <1>6, <1>9, <1>10 DEF new
<1>13. \A i \in 1..Len(kinds) : new[i].kind = kinds[i]
  <2> SUFFICES ASSUME NEW i \in 1..Len(kinds) PROVE new[i].kind = kinds[i]
      OBVIOUS
  <2>1. i \in 1..Len(whole) /\ i \in 1..Len(kinds) + Len(trail) /\ i <= Len(kinds)
      BY <1>1, <1>6
  <2>2. whole[i] = prefix[i] /\ new[i].kind = whole[i].kind
      BY <1>6, <1>9, <2>1 DEF new
  <2>3. QED
      BY <1>5, <2>2
<1>14. \A i \in 1..Len(trail) : new[Len(kinds) + i].kind = trail[i].kind
  <2> SUFFICES ASSUME NEW i \in 1..Len(trail) PROVE new[Len(kinds) + i].kind = trail[i].kind
      OBVIOUS
  <2>1. /\ Len(kinds) + i \in 1..Len(whole) /\ Len(kinds) + i \in 1..Len(kinds) + Len(trail)
        /\ ~ (Len(kinds) + i <= Len(kinds)) /\ (Len(kinds) + i) - Len(kinds) = i
      BY <1>1, <1>6
  <2>2. whole[Len(kinds) + i] = trail[i] /\ new[Len(kinds) + i].kind = whole[Len(kinds) + i].kind
      BY <1>6, <1>9, <2>1 DEF new
  <2>3. QED
      BY <2>2
<1> HIDE DEF y
<1>15. Shaped(y)
  <2>1. y = [x EXCEPT !.audit = new] /\ new \in Seq(Event)
      BY <1>11, <1>12
  <2>2. QED
      BY <2>1 DEF Shaped
<1>16. QED
    BY <1>4, <1>11, <1>12, <1>13, <1>14, <1>15 DEF trail

Prefixed(x, kinds) == \A i \in DOMAIN kinds : x.audit[i].kind = kinds[i]

\* What run() resolves to: a trail that starts with the boundary.
Final(caps, x) == Shaped(x) /\ Audited(x) /\ Prefixed(x, BoundaryKinds(caps))

LEMMA BoundaryKindsKnown ==
    ASSUME NEW caps
    PROVE  /\ BoundaryKinds(caps) \in Seq(BoundaryOnly)
           /\ BoundaryKinds(caps) \in Seq(Kinds)
           /\ \A i \in 1..Len(BoundaryKinds(caps)) : BoundaryKinds(caps)[i] \in BoundaryOnly
           /\ DOMAIN BoundaryKinds(caps) = 1..Len(BoundaryKinds(caps))
           /\ Len(BoundaryKinds(caps)) \in Nat \ {0}
<1>1. /\ <<"runtime_binding">> \in Seq(BoundaryOnly)
      /\ <<"runtime_channel", "runtime_binding">> \in Seq(BoundaryOnly)
    BY DEF BoundaryOnly
<1>2. /\ BoundaryKinds(caps) \in Seq(BoundaryOnly)
      /\ Len(BoundaryKinds(caps)) \in Nat \ {0}
    BY <1>1 DEF BoundaryKinds
<1>3. BoundaryOnly \subseteq Kinds
    BY DEF Kinds
<1> DEFINE kinds == BoundaryKinds(caps)
<1> HIDE DEF kinds
<1>4. /\ kinds \in Seq(Kinds) /\ DOMAIN kinds = 1..Len(kinds)
      /\ \A i \in 1..Len(kinds) : kinds[i] \in BoundaryOnly
  <2>1. kinds \in Seq(BoundaryOnly)
      BY <1>2 DEF kinds
  <2>2. kinds \in Seq(Kinds)
      BY <1>3, <2>1, SeqMonotonic
  <2>3. QED
      BY <2>1, <2>2, LenProperties, ElementOfSeq
<1>5. QED
    BY <1>2, <1>4 DEF kinds

\* The kinds of a trail, one by one.
LEMMA KindsByIndex ==
    ASSUME NEW trail \in Seq(Event)
    PROVE  /\ Len(KindsOf(trail)) = Len(trail) /\ Len(trail) \in Nat
           /\ \A i \in 1..Len(trail) : KindsOf(trail)[i] = trail[i].kind
<1>1. Len(trail) \in Nat /\ DOMAIN trail = 1..Len(trail)
    BY LenProperties
<1>2. KindsOf(trail) = [i \in 1..Len(trail) |-> trail[i].kind]
    BY <1>1 DEF KindsOf
<1>3. QED
    BY <1>1, <1>2

LEMMA BoundaryAdded ==
    ASSUME NEW caps, NEW x, EngineMade(x)
    PROVE  LET y == WithRuntimeBoundaryAudit(caps, x)
           IN  Final(caps, y) /\ ReplayOf(y) = ReplayOf(x) /\ y.error = x.error
<1> DEFINE kinds == BoundaryKinds(caps)
           y == WithAuditPrefix(x, kinds)
           k == Len(kinds)
           n == Len(x.audit)
<1>1. /\ kinds \in Seq(Kinds) /\ \A i \in 1..k : kinds[i] \in BoundaryOnly
      /\ DOMAIN kinds = 1..k /\ k \in Nat \ {0}
    BY BoundaryKindsKnown
<1>2. /\ Shaped(x) /\ Audited(x) /\ x.audit \in Seq(Event)
      /\ \A i \in 1..n : x.audit[i].kind \in EngineKinds
    BY DEF EngineMade, Shaped
<1>3. BoundaryOnly \cap EngineKinds = {} /\ "policy_denied" \notin BoundaryOnly
    BY DEF BoundaryOnly, EngineKinds, VerdictKinds, AttemptKinds
<1>4. WithRuntimeBoundaryAudit(caps, x) = y
    BY DEF WithRuntimeBoundaryAudit
<1> HIDE DEF kinds
<1>5. /\ Shaped(y) /\ y = [x EXCEPT !.audit = y.audit]
      /\ Len(y.audit) = k + n
      /\ \A i \in 1..Len(y.audit) : y.audit[i].seq = i
      /\ \A i \in 1..k : y.audit[i].kind = kinds[i]
      /\ \A i \in 1..n : y.audit[k + i].kind = x.audit[i].kind
    BY <1>1, <1>2, <1>3, PrefixAdded
<1> HIDE DEF y
<1>6. /\ y.termination = x.termination /\ y.status = x.status /\ y.error = x.error
      /\ y.exitCode = x.exitCode /\ y.stdout = x.stdout /\ y.stderr = x.stderr
    BY <1>2, <1>5 DEF Shaped
<1>7. y.audit \in Seq(Event) /\ n \in Nat
    BY <1>2, <1>5, LenProperties DEF Shaped
<1>8. /\ Len(KindsOf(y.audit)) = k + n
      /\ \A i \in 1..k : KindsOf(y.audit)[i] # "policy_denied"
      /\ \A i \in 1..n : KindsOf(y.audit)[k + i] = KindsOf(x.audit)[i]
      /\ Len(KindsOf(x.audit)) = n
  <2>1. /\ Len(KindsOf(y.audit)) = Len(y.audit)
        /\ \A i \in 1..Len(y.audit) : KindsOf(y.audit)[i] = y.audit[i].kind
      BY <1>7, KindsByIndex
  <2>2. /\ Len(KindsOf(x.audit)) = n
        /\ \A i \in 1..n : KindsOf(x.audit)[i] = x.audit[i].kind
      BY <1>2, KindsByIndex
  <2>3. \A i \in 1..k : i \in 1..Len(y.audit)
      BY <1>1, <1>5, <1>7
  <2>4. \A i \in 1..n : k + i \in 1..Len(y.audit)
      BY <1>1, <1>5, <1>7
  <2>5. \A i \in 1..k : KindsOf(y.audit)[i] # "policy_denied"
      BY <1>1, <1>3, <1>5, <2>1, <2>3
  <2>6. QED
      BY <1>5, <2>1, <2>2, <2>4, <2>5
<1>9. DenialIsLast(KindsOf(y.audit), y.termination = "policy_denied")
  <2> DEFINE a == KindsOf(x.audit)
             b == KindsOf(y.audit)
  <2>1. DenialIsLast(a, y.termination = "policy_denied")
      BY <1>2, <1>6 DEF Audited
  <2>2. /\ Len(b) = k + n /\ Len(a) = n
        /\ \A i \in 1..k : b[i] # "policy_denied" /\ \A j \in 1..n : b[k + j] = a[j]
      BY <1>8
  <2> HIDE DEF a, b, k, n
  <2>3. k \in Nat \ {0} /\ n \in Nat
      BY <1>1, <1>7 DEF k, n
  <2>4. ASSUME NEW i \in 1..Len(b) - 1 PROVE b[i] # "policy_denied"
    <3>1. CASE i <= k
        BY <2>2, <2>3, <3>1
    <3>2. CASE i > k
      <4>1. i - k \in 1..n - 1 /\ i - k \in 1..n /\ k + (i - k) = i
          BY <2>2, <2>3, <3>2
      <4>2. b[k + (i - k)] = a[i - k] /\ a[i - k] # "policy_denied"
          BY <2>1, <2>2, <2>3, <4>1 DEF DenialIsLast
      <4>3. QED
          BY <4>1, <4>2
    <3>3. QED
        BY <2>2, <2>3, <3>1, <3>2
  <2>5. CASE n = 0
    <3>1. Len(b) = k /\ b[k] # "policy_denied"
        BY <2>2, <2>3, <2>5
    <3>2. QED
        BY <2>1, <2>2, <2>4, <2>5, <3>1 DEF DenialIsLast, a, b
  <2>6. CASE n > 0
    <3>1. n \in 1..n /\ b[k + n] = a[n] /\ Len(b) > 0
        BY <2>2, <2>3, <2>6
    <3>2. QED
        BY <2>1, <2>2, <2>4, <2>6, <3>1 DEF DenialIsLast, a, b
  <2>7. QED
      BY <2>3, <2>5, <2>6
<1>10. Audited(y)
    BY <1>2, <1>5, <1>6, <1>9 DEF Audited
<1>11. Prefixed(y, kinds)
    BY <1>1, <1>5 DEF Prefixed
<1>12. QED
    BY <1>4, <1>5, <1>6, <1>10, <1>11 DEF Final, ReplayOf, kinds

\* A request is refused at the boundary with a trail that ends as it does.
LEMMA BoundaryErrorFinal ==
    ASSUME NEW caps, NEW exit \in Nat, NEW message, NEW termination \in Terminations,
           NEW error \in ErrorCodes, NEW terminal \in {"engine_error", "policy_denied"},
           NEW now \in Nat, termination = "policy_denied" <=> terminal = "policy_denied"
    PROVE  LET y == BoundaryErrorResult(caps, exit, message, termination, error, terminal, now)
           IN  Final(caps, y) /\ y.error = error
<1> DEFINE b == BoundaryKinds(caps)
           kinds == Append(b, terminal)
           x == Result(exit, <<>>, message, termination, error, <<>>, now, now)
           y == WithAuditPrefix(x, kinds)
           k == Len(b)
<1>1. /\ b \in Seq(Kinds) /\ \A i \in 1..k : b[i] \in BoundaryOnly
      /\ DOMAIN b = 1..k /\ k \in Nat \ {0}
    BY BoundaryKindsKnown
<1>2. terminal \in Kinds /\ "policy_denied" \notin BoundaryOnly
    BY DEF Kinds, EngineKinds, VerdictKinds, BoundaryOnly
<1>3. error # Null
    BY ValuesAssumption DEF Odd
<1>4. /\ Shaped(x) /\ x.audit = <<>> /\ x.termination = termination /\ x.error = error
      /\ x.status = "error"
  <2>1. <<>> \in Seq(Event)
      BY EmptySeq
  <2>2. error \in ErrorCodes \cup {Null}
      OBVIOUS
  <2>3. /\ Shaped(x) /\ x.audit = <<>> /\ x.termination = termination /\ x.error = error
        /\ x.status = IF error = Null THEN "ok" ELSE "error"
    <3>1. PICK trail : trail = <<>>
        OBVIOUS
    <3>2. PICK out : out = <<>>
        OBVIOUS
    <3>3. trail \in Seq(Event)
        BY <2>1, <3>1
    <3> DEFINE z == Result(exit, out, message, termination, error, trail, now, now)
    <3>4. /\ Shaped(z) /\ z.audit = trail /\ z.termination = termination /\ z.error = error
          /\ z.status = IF error = Null THEN "ok" ELSE "error"
        BY <2>2, <3>3, ResultShaped
    <3>5. z = x
        BY <3>1, <3>2
    <3> HIDE DEF z, x
    <3>6. QED
        BY <3>1, <3>4, <3>5
  <2>4. QED
      BY <1>3, <2>3
<1>5. BoundaryErrorResult(caps, exit, message, termination, error, terminal, now) = y
    BY DEF BoundaryErrorResult
<1> HIDE DEF b
<1>6. /\ kinds \in Seq(Kinds) /\ Len(kinds) = k + 1 /\ kinds[k + 1] = terminal
      /\ \A i \in 1..k : kinds[i] = b[i]
    BY <1>1, <1>2, AppendProperties
<1> HIDE DEF kinds, x
<1>7. /\ Shaped(y) /\ y = [x EXCEPT !.audit = y.audit]
      /\ Len(y.audit) = k + 1
      /\ \A i \in 1..Len(y.audit) : y.audit[i].seq = i
      /\ \A i \in 1..Len(kinds) : y.audit[i].kind = kinds[i]
  <2>1. Len(x.audit) = 0
      BY <1>4
  <2>2. \A i \in 1..Len(x.audit) : \A j \in 1..Len(kinds) : kinds[j] # x.audit[i].kind
      BY <2>1
  <2>3. /\ Shaped(y) /\ y = [x EXCEPT !.audit = y.audit]
        /\ Len(y.audit) = Len(kinds) + Len(x.audit)
        /\ \A i \in 1..Len(y.audit) : y.audit[i].seq = i
        /\ \A i \in 1..Len(kinds) : y.audit[i].kind = kinds[i]
      BY <1>4, <1>6, <2>2, PrefixAdded
  <2>4. QED
      BY <1>1, <1>6, <2>1, <2>3
<1> HIDE DEF y
<1>8. y.termination = termination /\ y.error = error /\ y.status = "error"
    BY <1>4, <1>7 DEF Shaped
<1>9. /\ Len(KindsOf(y.audit)) = k + 1
      /\ \A i \in 1..k + 1 : KindsOf(y.audit)[i] = kinds[i]
  <2>1. y.audit \in Seq(Event)
      BY <1>7 DEF Shaped
  <2>2. QED
      BY <1>6, <1>7, <2>1, KindsByIndex, SMTT(30)
<1>10. DenialIsLast(KindsOf(y.audit), y.termination = "policy_denied")
  <2> DEFINE a == KindsOf(y.audit)
  <2>1. Len(a) = k + 1 /\ a[k + 1] = terminal /\ \A i \in 1..k : a[i] # "policy_denied"
      BY <1>1, <1>2, <1>6, <1>9
  <2> HIDE DEF a
  <2>2. DenialIsLast(a, termination = "policy_denied")
      BY <1>1, <2>1 DEF DenialIsLast
  <2>3. QED
      BY <1>8, <2>2 DEF a
<1>11. Audited(y)
    BY <1>7, <1>8, <1>10 DEF Audited
<1>12. Prefixed(y, b)
    BY <1>1, <1>6, <1>7 DEF Prefixed
<1>13. QED
    BY <1>5, <1>7, <1>8, <1>11, <1>12 DEF Final, b

LEMMA RefusalFinal ==
    ASSUME NEW host, NEW caps, NEW isClosed, NEW q, NEW now \in Nat
    PROVE  Final(caps, Refusal(host, caps, isClosed, q, now))
<1>1. \A message :
         /\ Final(caps, BoundaryErrorResult(caps, 1, message, "internal_error", "AEG-INTERNAL",
                                            "engine_error", now))
         /\ Final(caps, BoundaryErrorResult(caps, 2, message, "internal_error",
                                            "AEG-INVALID-REQUEST", "engine_error", now))
         /\ Final(caps, BoundaryErrorResult(caps, 2, message, "engine_error",
                                            "AEG-UNSUPPORTED-HOST", "engine_error", now))
         /\ Final(caps, BoundaryErrorResult(caps, 2, message, "policy_denied",
                                            "AEG-UNSUPPORTED-HOST", "policy_denied", now))
  <2>1. /\ {"internal_error", "engine_error", "policy_denied"} \subseteq Terminations
        /\ {"AEG-INTERNAL", "AEG-INVALID-REQUEST", "AEG-UNSUPPORTED-HOST"} \subseteq ErrorCodes
      BY DEF Terminations, ErrorCodes
  <2>2. QED
      BY <2>1, BoundaryErrorFinal
<1>2. QED
    BY <1>1, Zenon DEF Refusal
-------------------------------------------------------------------------------
(* What the engines answer.                                                *)

LEMMA NoTrail ==
    ASSUME NEW ts
    PROVE  <<>> = Trail(<<>>, ts) /\ <<>> \in Seq(EngineKinds) /\ DenialIsLast(<<>>, FALSE)
BY EmptySeq DEF Trail, DenialIsLast

LEMMA OneEntry ==
    ASSUME NEW kind \in EngineKinds, NEW ts
    PROVE  /\ PushAudit(<<>>, kind, ts) = Trail(<<kind>>, ts)
           /\ <<kind>> \in Seq(EngineKinds)
           /\ DenialIsLast(<<kind>>, kind = "policy_denied")
<1>1. PushAudit(<<>>, kind, ts) = <<[seq |-> 1, kind |-> kind, tsMs |-> ts]>>
    BY DEF PushAudit
<1>2. Trail(<<kind>>, ts) = <<[seq |-> 1, kind |-> kind, tsMs |-> ts]>>
    BY DEF Trail
<1>3. QED
    BY <1>1, <1>2 DEF DenialIsLast

LEMMA WorkerResultsMade ==
    ASSUME NEW out, NEW err, NEW started \in Nat, NEW ended \in Nat
    PROVE  /\ EngineMade(PolicyDeniedResult(err, started, ended))
           /\ EngineMade(EngineErrorResult(err, out, started, ended))
           /\ EngineMade(OkResult(out, err, started, ended))
           /\ \A wallMs \in Nat : EngineMade(TimeoutResult(wallMs, started))
<1>1. /\ {"policy_denied", "engine_error", "ok", "timeout"} \subseteq Terminations
      /\ {"AEG-POLICY-DENIED", "AEG-ENGINE", "AEG-TIMEOUT"} \subseteq ErrorCodes
      /\ {"policy_denied", "engine_error"} \subseteq EngineKinds
    BY DEF Terminations, ErrorCodes, EngineKinds, VerdictKinds
<1>2. \A e \in ErrorCodes : e # Null
    BY ValuesAssumption DEF Odd
<1>3. EngineMade(PolicyDeniedResult(err, started, ended))
  <2>1. EngineMade(Result(13, <<>>, err, "policy_denied", "AEG-POLICY-DENIED",
                          Trail(<<"policy_denied">>, started), started, ended))
    <3>1. <<"policy_denied">> \in Seq(EngineKinds) /\ DenialIsLast(<<"policy_denied">>, TRUE)
        BY <1>1, OneEntry
    <3>2. QED
        BY <1>1, <1>2, <3>1, ResultMade
  <2>2. PushAudit(<<>>, "policy_denied", started) = Trail(<<"policy_denied">>, started)
      BY <1>1, OneEntry
  <2>3. QED
      BY <2>1, <2>2, Zenon DEF PolicyDeniedResult
<1>4. EngineMade(EngineErrorResult(err, out, started, ended))
  <2>1. EngineMade(Result(1, out, err, "engine_error", "AEG-ENGINE",
                          Trail(<<"engine_error">>, started), started, ended))
    <3>1. <<"engine_error">> \in Seq(EngineKinds) /\ DenialIsLast(<<"engine_error">>, FALSE)
        BY <1>1, OneEntry
    <3>2. QED
        BY <1>1, <1>2, <3>1, ResultMade
  <2>2. PushAudit(<<>>, "engine_error", started) = Trail(<<"engine_error">>, started)
      BY <1>1, OneEntry
  <2>3. QED
      BY <2>1, <2>2, Zenon DEF EngineErrorResult
<1>5. EngineMade(OkResult(out, err, started, ended))
    BY <1>1, <1>2, NoTrail, ResultMade DEF OkResult
<1>6. ASSUME NEW wallMs \in Nat PROVE EngineMade(TimeoutResult(wallMs, started))
  <2>1. started + wallMs \in Nat
      OBVIOUS
  <2>2. <<>> = Trail(<<>>, started) /\ <<>> \in Seq(EngineKinds) /\ DenialIsLast(<<>>, FALSE)
      BY NoTrail
  <2>3. EngineMade(Result(124, <<>>, "wall_time_reached", "timeout", "AEG-TIMEOUT",
                          Trail(<<>>, started), started, started + wallMs))
    <3>1. /\ 124 \in Nat /\ "timeout" \in Terminations /\ "AEG-TIMEOUT" \in ErrorCodes \cup {Null}
          /\ "timeout" # "policy_denied" /\ DenialIsLast(<<>>, "timeout" = "policy_denied")
        BY <1>1, <2>2
    <3>2. PICK message : message = "wall_time_reached"
        OBVIOUS
    <3>3. PICK until : until = started + wallMs
        OBVIOUS
    <3>4. until \in Nat
        BY <2>1, <3>3
    <3>5. PICK kinds : kinds = <<>>
        OBVIOUS
    <3>6. PICK none : none = <<>>
        OBVIOUS
    <3>7. kinds \in Seq(EngineKinds) /\ DenialIsLast(kinds, FALSE)
        BY <2>2, <3>5
    <3>8. DenialIsLast(kinds, "timeout" = "policy_denied")
        BY <3>7
    <3>9. EngineMade(Result(124, none, message, "timeout", "AEG-TIMEOUT",
                            Trail(kinds, started), started, until))
        BY <3>1, <3>4, <3>7, <3>8, ResultMade
    <3>10. QED
        BY <3>2, <3>3, <3>5, <3>6, <3>9
  <2>4. QED
      BY <2>2, <2>3, Zenon DEF TimeoutResult
<1>7. QED
    BY <1>3, <1>4, <1>5, <1>6

LEMMA BrowserResultMade ==
    ASSUME NEW message, NEW started \in Nat, NEW ended \in Nat
    PROVE  EngineMade(BrowserResult(message, started, ended))
BY WorkerResultsMade, Zenon DEF BrowserResult

LEMMA DenialAfter ==
    ASSUME NEW a \in Seq(EngineKinds), NEW b \in Seq(EngineKinds), NEW denied,
           \A i \in 1..Len(a) : a[i] # "policy_denied", DenialIsLast(b, denied)
    PROVE  a \o b \in Seq(EngineKinds) /\ DenialIsLast(a \o b, denied)
<1> DEFINE c == a \o b
           k == Len(a)
           n == Len(b)
<1>1. /\ c \in Seq(EngineKinds) /\ Len(c) = k + n /\ k \in Nat /\ n \in Nat
      /\ \A i \in 1..k + n : c[i] = IF i <= k THEN a[i] ELSE b[i - k]
    BY ConcatProperties, LenProperties
<1> HIDE DEF c, k, n
<1>a. \A i \in 1..k : a[i] # "policy_denied"
    BY DEF k
<1>b. /\ \A i \in 1..n - 1 : b[i] # "policy_denied"
      /\ denied <=> n > 0 /\ b[n] = "policy_denied"
    BY DEF DenialIsLast, n
<1>2. ASSUME NEW i \in 1..k + n - 1 PROVE c[i] # "policy_denied"
  <2>1. CASE i <= k
      BY <1>1, <1>a, <2>1
  <2>2. CASE ~ (i <= k)
    <3>1. i - k \in 1..n - 1 /\ i \in 1..k + n
        BY <1>1, <2>2
    <3>2. c[i] = b[i - k]
        BY <1>1, <2>2, <3>1
    <3>3. QED
        BY <1>b, <3>1, <3>2
  <2>3. QED
      BY <2>1, <2>2
<1>3. CASE n = 0
  <2>1. ~ (k + n > 0) \/ c[k + n] # "policy_denied"
      BY <1>1, <1>a, <1>3
  <2>2. denied <=> FALSE
      BY <1>b, <1>3
  <2>3. DenialIsLast(c, denied)
      BY <1>1, <1>2, <2>1, <2>2 DEF DenialIsLast
  <2>4. QED
      BY <1>1, <2>3 DEF c
<1>4. CASE n > 0
  <2>1. k + n \in 1..k + n /\ ~ (k + n <= k) /\ (k + n) - k = n /\ k + n > 0
      BY <1>1, <1>4
  <2>2. c[k + n] = b[n]
      BY <1>1, <2>1
  <2>3. DenialIsLast(c, denied)
      BY <1>1, <1>2, <1>4, <1>b, <2>1, <2>2 DEF DenialIsLast
  <2>4. QED
      BY <1>1, <2>3 DEF c
<1>5. QED
    BY <1>1, <1>3, <1>4

\* What a valid request is to the simulated engine.
Simulable(q) == ValidRunRequest(q) => q.determinism.epochMs \in Nat /\ HasCalls(q)

LEMMA RequestSimulable ==
    ASSUME NEW q, q = Bad \/ RunRequest(q)
    PROVE  Simulable(q)
<1> SUFFICES ASSUME ValidRunRequest(q) PROVE q.determinism.epochMs \in Nat /\ HasCalls(q)
    BY DEF Simulable
<1>1. RunRequest(q) /\ q.determinism \notin Odd /\ q.code \notin Odd
    BY DEF ValidRunRequest, ValidDeterminism, IsPresent, Odd
<1>2. q.determinism.epochMs \in Odd \cup Int /\ q.code.calls \in Seq(ToSet(q.code.calls))
    BY <1>1 DEF RunRequest, Number
<1>3. q.determinism.epochMs \notin Odd /\ q.determinism.epochMs >= 0
    BY DEF ValidRunRequest, ValidDeterminism, IsNumber, IsPresent
<1>4. q.determinism.epochMs \in Nat
    BY <1>2, <1>3
<1>5. HasCalls(q)
    BY <1>2, LenProperties DEF HasCalls
<1>6. QED
    BY <1>4, <1>5

\* The trail of an evaluation whose policy allowed everything.
LEMMA EvaluationMade ==
    ASSUME NEW q, NEW chance, NEW kinds \in Seq(EngineKinds), NEW ts \in Nat,
           NEW started \in Nat, NEW ended \in Nat,
           Judged(q).reason = "allow", DenialIsLast(kinds, FALSE)
    PROVE  EngineMade(EvaluateRun(q, chance, Trail(kinds, ts), started, ended))
<1>1. /\ {"ok", "timeout", "memory_limit", "output_limit"} \subseteq Terminations
      /\ {"AEG-TIMEOUT", "AEG-MEMORY-LIMIT", "AEG-OUTPUT-LIMIT"} \subseteq ErrorCodes
    BY DEF Terminations, ErrorCodes
<1>2. \A out, err : \A exit \in Nat, error \in ErrorCodes \cup {Null},
         termination \in {"ok", "timeout", "memory_limit", "output_limit"} :
             EngineMade(Result(exit, out, err, termination, error, Trail(kinds, ts), started, ended))
  <2> SUFFICES ASSUME NEW exit \in Nat, NEW out, NEW err,
                      NEW termination \in {"ok", "timeout", "memory_limit", "output_limit"},
                      NEW error \in ErrorCodes \cup {Null}
               PROVE  EngineMade(Result(exit, out, err, termination, error, Trail(kinds, ts),
                                        started, ended))
      OBVIOUS
  <2>1. termination \in Terminations /\ termination # "policy_denied"
      BY <1>1
  <2>2. DenialIsLast(kinds, termination = "policy_denied")
      BY <2>1
  <2>3. QED
      BY <2>1, <2>2, ResultMade
<1>3. \A out, err :
        EngineMade(Result(124, out, err, "timeout", "AEG-TIMEOUT", Trail(kinds, ts), started, ended))
  <2>1. 124 \in Nat /\ "AEG-TIMEOUT" \in ErrorCodes \cup {Null}
        /\ "timeout" \in {"ok", "timeout", "memory_limit", "output_limit"}
      BY <1>1
  <2>2. QED
      BY <1>2, <2>1
<1>4. \A out, err :
        EngineMade(Result(137, out, err, "memory_limit", "AEG-MEMORY-LIMIT", Trail(kinds, ts),
                          started, ended))
  <2>1. 137 \in Nat /\ "AEG-MEMORY-LIMIT" \in ErrorCodes \cup {Null}
        /\ "memory_limit" \in {"ok", "timeout", "memory_limit", "output_limit"}
      BY <1>1
  <2>2. QED
      BY <1>2, <2>1
<1>5. \A out, err :
        EngineMade(Result(122, out, err, "output_limit", "AEG-OUTPUT-LIMIT", Trail(kinds, ts),
                          started, ended))
  <2>1. 122 \in Nat /\ "AEG-OUTPUT-LIMIT" \in ErrorCodes \cup {Null}
        /\ "output_limit" \in {"ok", "timeout", "memory_limit", "output_limit"}
      BY <1>1
  <2>2. QED
      BY <1>2, <2>1
<1>6. \A out, err :
        EngineMade(Result(0, out, err, "ok", Null, Trail(kinds, ts), started, ended))
  <2>1. 0 \in Nat /\ Null \in ErrorCodes \cup {Null}
      OBVIOUS
  <2>2. "ok" \in {"ok", "timeout", "memory_limit", "output_limit"}
      OBVIOUS
  <2>3. QED
      BY <1>2, <2>1, <2>2
<1>7. QED
    BY <1>3, <1>4, <1>5, <1>6, ZenonT(60) DEF EvaluateRun

ReadsClock(env) == env.started \in Nat /\ env.ended \in Nat

LEMMA SimulationMade ==
    ASSUME NEW q, NEW env, Simulable(q), ReadsClock(env)
    PROVE  EngineMade(SimulateRun(q, env))
<1>1. env.started \in Nat /\ env.ended \in Nat
    BY DEF ReadsClock
<1>2. CASE ~ ValidRunRequest(q)
  <2>1. /\ 2 \in Nat /\ "internal_error" \in Terminations /\ "internal_error" # "policy_denied"
        /\ "AEG-INVALID-REQUEST" \in ErrorCodes \cup {Null}
      BY DEF Terminations, ErrorCodes
  <2>2. PICK kinds : kinds = <<>>
      OBVIOUS
  <2>3. kinds \in Seq(EngineKinds) /\ DenialIsLast(kinds, FALSE)
      BY <2>2, NoTrail
  <2>4. DenialIsLast(kinds, "internal_error" = "policy_denied")
      BY <2>3
  <2>5. PICK message : message = "invalid_request"
      OBVIOUS
  <2>6. PICK none : none = <<>>
      OBVIOUS
  <2>7. EngineMade(Result(2, none, message, "internal_error", "AEG-INVALID-REQUEST",
                          Trail(kinds, env.started), env.started, env.started))
      BY <1>1, <2>1, <2>3, <2>4, ResultMade
  <2>8. EngineMade(Result(2, <<>>, "invalid_request", "internal_error", "AEG-INVALID-REQUEST",
                          <<>>, env.started, env.started))
    <3>1. Trail(kinds, env.started) = <<>>
        BY <2>2, NoTrail
    <3>2. QED
        BY <2>2, <2>5, <2>6, <2>7, <3>1
  <2>9. QED
      BY <1>2, <2>8, Zenon DEF SimulateRun
<1>3. CASE ValidRunRequest(q)
  <2> DEFINE det == q.determinism
             started == IF det.enabled THEN det.epochMs ELSE env.started
             ended(steps) == IF det.enabled THEN det.epochMs + steps ELSE env.ended
             judged == Judged(q)
             clock == IF ~ det.enabled /\ Uses(q.code, "time") THEN <<"determinism_time">> ELSE <<>>
             chance == IF ~ det.enabled /\ Uses(q.code, "rng") THEN <<"determinism_rng">> ELSE <<>>
             kinds == clock \o chance \o judged.kinds
             trail == Trail(kinds, started)
  <2>1. det.epochMs \in Nat /\ HasCalls(q)
      BY <1>3 DEF Simulable
  <2>2. started \in Nat /\ \A n \in Nat : ended(n) \in Nat
      BY <1>1, <2>1
  <2>3. judged.kinds \in Seq(VerdictKinds) /\ DenialIsLast(judged.kinds, judged.reason # "allow")
      BY <2>1, JudgedStops
  <2>4. judged.kinds \in Seq(EngineKinds)
      BY <2>3, SeqMonotonic DEF EngineKinds
  <2>5. /\ clock \in Seq(EngineKinds) /\ \A i \in 1..Len(clock) : clock[i] # "policy_denied"
        /\ chance \in Seq(EngineKinds) /\ \A i \in 1..Len(chance) : chance[i] # "policy_denied"
    <3>1. \A kind \in {"determinism_time", "determinism_rng"} :
              /\ <<kind>> \in Seq(EngineKinds)
              /\ \A i \in 1..Len(<<kind>>) : <<kind>>[i] # "policy_denied"
        BY DEF EngineKinds
    <3>2. <<>> \in Seq(EngineKinds) /\ \A i \in 1..Len(<<>>) : <<>>[i] # "policy_denied"
        BY EmptySeq
    <3>3. QED
        BY <3>1, <3>2, Zenon
  <2>6. kinds \in Seq(EngineKinds) /\ DenialIsLast(kinds, judged.reason # "allow")
    <3> HIDE DEF clock, chance, judged
    <3>1. \A i \in 1..Len(clock \o chance) : (clock \o chance)[i] # "policy_denied"
        BY <2>5, ConcatProperties, LenProperties
    <3>2. clock \o chance \in Seq(EngineKinds)
        BY <2>5, ConcatProperties
    <3>3. DenialIsLast(judged.kinds, judged.reason # "allow")
        BY <2>3
    <3> DEFINE both == clock \o chance
               verdicts == judged.kinds
               denied == judged.reason # "allow"
    <3>4. /\ both \in Seq(EngineKinds) /\ verdicts \in Seq(EngineKinds)
          /\ \A i \in 1..Len(both) : both[i] # "policy_denied"
          /\ DenialIsLast(verdicts, denied)
        BY <2>4, <3>1, <3>2, <3>3
    <3> HIDE DEF both, verdicts, denied
    <3>5. both \o verdicts \in Seq(EngineKinds) /\ DenialIsLast(both \o verdicts, denied)
        BY <3>4, DenialAfter
    <3>6. QED
        BY <3>5 DEF both, verdicts, denied
  <2>7. SimulateRun(q, env) =
            IF judged.reason # "allow"
            THEN Result(13, <<>>, judged.reason, "policy_denied", "AEG-POLICY-DENIED", trail,
                        started, ended(Len(trail)))
            ELSE EvaluateRun(q, env.chance, trail, started, ended(Len(trail) + 1))
      BY <1>3, Zenon DEF SimulateRun
  <2>8. Len(trail) \in Nat
    <3>1. kinds \in Seq(Kinds)
        BY <2>6, SeqMonotonic DEF Kinds
    <3> HIDE DEF kinds, started
    <3>2. trail \in Seq(Event)
        BY <2>2, <3>1, TrailNumbered
    <3>3. QED
        BY <3>2, LenProperties
  <2>9. ended(Len(trail)) \in Nat /\ ended(Len(trail) + 1) \in Nat
    <3> HIDE DEF trail, ended
    <3>1. PICK n : n = Len(trail)
        OBVIOUS
    <3>2. n \in Nat /\ n + 1 \in Nat
        BY <2>8, <3>1
    <3>3. ended(n) \in Nat /\ ended(n + 1) \in Nat
        BY <2>2, <3>2
    <3>4. QED
        BY <3>1, <3>3
  <2> HIDE DEF judged, kinds, started, ended
  <2>10. CASE judged.reason # "allow"
    <3>1. /\ 13 \in Nat /\ "policy_denied" \in Terminations
          /\ "AEG-POLICY-DENIED" \in ErrorCodes \cup {Null} /\ "AEG-POLICY-DENIED" # Null
        BY ValuesAssumption DEF Terminations, ErrorCodes, Odd
    <3>2. DenialIsLast(kinds, TRUE)
        BY <2>6, <2>10
    <3>3. PICK until : until = ended(Len(trail))
        OBVIOUS
    <3>4. PICK message : message = judged.reason
        OBVIOUS
    <3>5. until \in Nat /\ DenialIsLast(kinds, "policy_denied" = "policy_denied")
        BY <2>9, <3>2, <3>3
    <3>6. PICK none : none = <<>>
        OBVIOUS
    <3>7. EngineMade(Result(13, none, message, "policy_denied", "AEG-POLICY-DENIED",
                            Trail(kinds, started), started, until))
        BY <2>2, <2>6, <3>1, <3>5, ResultMade
    <3>8. QED
        BY <2>7, <2>10, <3>3, <3>4, <3>6, <3>7
  <2>11. CASE judged.reason = "allow"
    <3>1. PICK until : until = ended(Len(trail) + 1)
        OBVIOUS
    <3>2. until \in Nat /\ DenialIsLast(kinds, FALSE) /\ Judged(q).reason = "allow"
        BY <2>6, <2>9, <2>11, <3>1 DEF judged
    <3>3. EngineMade(EvaluateRun(q, env.chance, Trail(kinds, started), started, until))
        BY <2>2, <2>6, <3>2, EvaluationMade
    <3>4. QED
        BY <2>7, <2>11, <3>1, <3>3
  <2>12. QED
      BY <2>10, <2>11
<1>4. QED
    BY <1>2, <1>3
-------------------------------------------------------------------------------
(* The types of the variables, and what they are for the requests that     *)
(* passed the boundary.                                                    *)

Phases == {"idle", "transport", "handed", "integrity", "posted", "answered", "orphan", "lost",
           "done"} \cup InWorker

PyTyped ==
    py \in [load : {"none", "loading", "ready", "failed"}, bridged : BOOLEAN,
            loaded : SUBSET runtime.packages, clock : {py.clock}, seed : {py.seed},
            drawn : {py.drawn}, grant : {py.grant}, used : Nat, spent : Nat, out : {py.out},
            tags : SUBSET {"policy", "engine", "plain"}]

GotTyped ==
    /\ DOMAIN got = Runs
    /\ \A r \in Runs : got[r] \in [responses : Nat, bytes : Nat, origins : {got[r].origins}]

Typed ==
    /\ runtime \in Runtimes /\ closed \in BOOLEAN
    /\ integrity \in {"none", "pending", "ok", "bad"}
    /\ DOMAIN input = Runs
    /\ phase \in [Runs -> Phases]
    /\ DOMAIN result = Runs
    /\ engine \in [Runs -> {"none", "started", "guest", "simulated"}]
    /\ inbox \in Seq(Runs)
    /\ PyTyped
    /\ active \in Runs \cup {Null}
    /\ pc \in [Runs -> Nat \ {0}]
    /\ want \in [Runs -> SUBSET runtime.packages]
    /\ DOMAIN answer = Runs
    /\ GotTyped
    /\ disturbed \subseteq Runs

\* A run that is under way, or whose outcome an engine computed, was called
\* with a request that passed the boundary.
Passed(q) == Accepts(runtime.host, Capabilities, FALSE, q)

InputsKnown ==
    \A r \in Runs :
        /\ phase[r] # "idle" => input[r] \in Requests[runtime.host]
        /\ phase[r] \notin {"idle", "done"} \/ engine[r] # "none" => phase[r] # "idle" /\ Passed(input[r])
        /\ phase[r] = "transport" => ~ Browser

\* What a runtime resolves to.
Sound(x) ==
    /\ Shaped(x) /\ Audited(x)
    /\ Browser => Prefixed(x, BoundaryKinds(Capabilities))

ResultsSound == \A r \in Done : Sound(result[r])

\* What waits for the worker was posted, once.
InboxPosted ==
    /\ \A i \in 1..Len(inbox) : phase[inbox[i]] = "posted"
    /\ \A i, j \in 1..Len(inbox) : inbox[i] = inbox[j] => i = j

\* The size of a response is a number.
LEMMA SizesAreNumbers == \A size \in PayloadSizes : size \in Nat
BY PayloadAssumption

LEMMA InitTyped == Init => Typed
<1> SUFFICES ASSUME Init PROVE Typed
    OBVIOUS
<1>1. PyTyped
    BY DEF Init, PyTyped, Fresh
<1>2. GotTyped
    BY DEF Init, GotTyped
<1>3. inbox \in Seq(Runs)
    BY EmptySeq DEF Init
<1>4. /\ DOMAIN input = Runs /\ DOMAIN result = Runs /\ DOMAIN answer = Runs
      /\ pc \in [Runs -> Nat \ {0}]
    BY DEF Init
<1>5. phase \in [Runs -> Phases] /\ engine \in [Runs -> {"none", "started", "guest", "simulated"}]
    BY DEF Init, Phases
<1>6. want \in [Runs -> SUBSET runtime.packages]
    BY DEF Init
<1>7. /\ runtime \in Runtimes /\ closed \in BOOLEAN
      /\ integrity \in {"none", "pending", "ok", "bad"}
      /\ active \in Runs \cup {Null} /\ disturbed \subseteq Runs
    BY DEF Init
<1>8. QED
    BY <1>1, <1>2, <1>3, <1>4, <1>5, <1>6, <1>7 DEF Typed

\* A call() of the guest's that raises.
LEMMA FailsTyped ==
    ASSUME Typed, NEW r \in Runs, NEW raised \in {"policy", "engine", "plain"}, Fails(r, raised),
           UNCHANGED runtime
    PROVE  /\ PyTyped' /\ pc' \in [Runs -> Nat \ {0}] /\ DOMAIN answer' = Runs
           /\ phase' \in [Runs -> Phases] /\ active' \in Runs \cup {Null}
<1>1. /\ PyTyped /\ pc \in [Runs -> Nat \ {0}] /\ DOMAIN answer = Runs
      /\ phase \in [Runs -> Phases] /\ active \in Runs \cup {Null}
    BY DEF Typed
<1>2. CASE /\ py' = [py EXCEPT !.tags = @ \cup {raised}]
           /\ Continue(r)
    BY <1>1, <1>2 DEF PyTyped, Continue
<1>3. CASE Raise(r, raised) /\ UNCHANGED <<py, pc>>
    BY <1>1, <1>3 DEF PyTyped, Raise, Phases
<1>4. QED
    BY <1>2, <1>3 DEF Fails

LEMMA GuestStepTyped ==
    ASSUME Typed, NEW r \in Runs, GuestStep(r)
    PROVE  Typed'
<1>1. UNCHANGED <<runtime, input, result, engine, closed, integrity, inbox, want, disturbed>>
    BY DEF GuestStep, requestVars
<1>2. /\ PyTyped /\ pc \in [Runs -> Nat \ {0}] /\ DOMAIN answer = Runs
      /\ phase \in [Runs -> Phases] /\ active \in Runs \cup {Null} /\ GotTyped
    BY DEF Typed
<1>3. UNCHANGED got => GotTyped'
    BY <1>2 DEF GotTyped
<1>a. Continue(r) => /\ pc' \in [Runs -> Nat \ {0}] /\ DOMAIN answer' = Runs
                     /\ phase' \in [Runs -> Phases] /\ active' \in Runs \cup {Null}
    BY <1>2 DEF Continue
<1>4. /\ PyTyped' /\ pc' \in [Runs -> Nat \ {0}] /\ DOMAIN answer' = Runs
      /\ phase' \in [Runs -> Phases] /\ active' \in Runs \cup {Null} /\ GotTyped'
  <2>1. CASE Prints(r)
    <3>1. PyTyped'
        BY <1>1, <1>2, <2>1, ZenonT(60) DEF Prints, PyTyped
    <3>2. QED
        BY <1>3, <1>a, <2>1, <3>1 DEF Prints
  <2>2. CASE HttpGet(r)
    <3>1. CASE HttpGetSync(r)
      <4>1. CASE Fails(r, "engine") /\ UNCHANGED got
          BY <1>1, <1>3, <4>1, FailsTyped
      <4>2. CASE Fails(r, "policy") /\ UNCHANGED got
          BY <1>1, <1>3, <4>2, FailsTyped
      <4>3. ASSUME NEW size \in PayloadSizes,
                   py' = [py EXCEPT !.used = @ + 1, !.spent = @ + size],
                   got' = [got EXCEPT ![r] =
                       [responses |-> @.responses + 1, bytes |-> @.bytes + size,
                        origins |-> @.origins \cup {BridgeOrigin(Call(r).target)}]],
                   Continue(r)
            PROVE  PyTyped' /\ GotTyped'
        <5>1. size \in Nat
            BY SizesAreNumbers
        <5>2. PyTyped'
          <6>1. PICK u, v : u = py.used + 1 /\ v = py.spent + size
              OBVIOUS
          <6>2. u \in Nat /\ v \in Nat
              BY <1>2, <5>1, <6>1 DEF PyTyped
          <6>3. py' = [py EXCEPT !.used = u, !.spent = v]
              BY <4>3, <6>1
          <6>4. QED
              BY <1>1, <1>2, <6>2, <6>3 DEF PyTyped
        <5>3. GotTyped'
          <6>1. PICK o : o = got[r].origins \cup {BridgeOrigin(Call(r).target)}
              OBVIOUS
          <6>2. got' = [got EXCEPT ![r] = [responses |-> got[r].responses + 1,
                                           bytes |-> got[r].bytes + size, origins |-> o]]
              BY <4>3, <6>1
          <6>3. QED
              BY <1>2, <5>1, <6>2 DEF GotTyped
        <5>4. QED
            BY <5>2, <5>3
      <4>4. QED
          BY <1>a, <3>1, <4>1, <4>2, <4>3 DEF HttpGetSync
    <3>2. CASE (Fails(r, "plain") \/ Fails(r, "policy")) /\ UNCHANGED got
        BY <1>1, <1>3, <3>2, FailsTyped
    <3>3. QED
        BY <2>2, <3>1, <3>2 DEF HttpGet
  <2>3. CASE GuestFails(r)
      BY <1>1, <1>3, <2>3, FailsTyped DEF GuestFails
  <2>4. CASE Awaits(r)
      BY <1>1, <1>2, <1>3, <2>4 DEF Awaits, PyTyped, Phases, InWorker
  <2>5. CASE Finishes(r)
      BY <1>1, <1>2, <1>3, <2>5 DEF Finishes, PyTyped, Phases
  <2>6. QED
      BY <2>1, <2>2, <2>3, <2>4, <2>5 DEF GuestStep
<1>5. QED
    BY <1>1, <1>4 DEF Typed

\* The steps of the host.
LEMMA HostStepTyped ==
    ASSUME Typed, NEW r \in Runs,
           \/ \E q \in Requests[runtime.host] : Run(r, q)
           \/ TransportRuns(r) \/ Dispatch(r) \/ Deliver(r) \/ Timeout(r)
    PROVE  Typed'
<1>1. /\ DOMAIN input = Runs /\ phase \in [Runs -> Phases] /\ DOMAIN result = Runs
      /\ engine \in [Runs -> {"none", "started", "guest", "simulated"}]
      /\ integrity \in {"none", "pending", "ok", "bad"} /\ inbox \in Seq(Runs)
      /\ PyTyped /\ active \in Runs \cup {Null}
    BY DEF Typed
<1>2. /\ UNCHANGED <<runtime, want, pc, answer, got, disturbed, closed>> => /\ GotTyped'
         /\ runtime' \in Runtimes /\ closed' \in BOOLEAN /\ DOMAIN answer' = Runs
         /\ pc' \in [Runs -> Nat \ {0}] /\ want' \in [Runs -> SUBSET runtime'.packages]
         /\ disturbed' \subseteq Runs
      /\ UNCHANGED <<runtime, py>> => PyTyped'
    BY DEF Typed, GotTyped, PyTyped
<1>3. \A x, p : /\ p \in Phases /\ phase' = [phase EXCEPT ![r] = p] => phase' \in [Runs -> Phases]
                /\ result' = [result EXCEPT ![r] = x] => DOMAIN result' = Runs
    BY <1>1
<1>4. "done" \in Phases /\ "integrity" \in Phases /\ "transport" \in Phases
      /\ "handed" \in Phases /\ "posted" \in Phases /\ "orphan" \in Phases
    BY DEF Phases
<1>5. ASSUME NEW q \in Requests[runtime.host], Run(r, q) PROVE Typed'
  <2>1. UNCHANGED <<runtime, want, pc, answer, got, disturbed, closed, engine, inbox, py, active>>
      BY <1>5 DEF Run, workerVars
  <2>2. DOMAIN input' = Runs
      BY <1>1, <1>5 DEF Run
  <2>3. phase' \in [Runs -> Phases] /\ DOMAIN result' = Runs
      BY <1>1, <1>3, <1>4, <1>5 DEF Run, Resolve
  <2>4. integrity' \in {"none", "pending", "ok", "bad"}
      BY <1>1, <1>5 DEF Run
  <2>5. QED
      BY <1>1, <1>2, <2>1, <2>2, <2>3, <2>4 DEF Typed
<1>6. CASE TransportRuns(r)
  <2>1. UNCHANGED <<runtime, want, pc, answer, got, disturbed, closed, input, integrity, inbox, py,
                    active>>
      BY <1>6 DEF TransportRuns, workerVars
  <2>2. phase' \in [Runs -> Phases] /\ DOMAIN result' = Runs
      BY <1>1, <1>3, <1>4, <1>6 DEF TransportRuns, Resolve
  <2>3. engine' \in [Runs -> {"none", "started", "guest", "simulated"}]
      BY <1>1, <1>6 DEF TransportRuns
  <2>4. QED
      BY <1>1, <1>2, <2>1, <2>2, <2>3 DEF Typed
<1>7. CASE Dispatch(r)
  <2>1. UNCHANGED <<runtime, want, pc, answer, got, disturbed, closed, input, integrity, py, active>>
      BY <1>7 DEF Dispatch
  <2>2. phase' \in [Runs -> Phases] /\ DOMAIN result' = Runs
      BY <1>1, <1>3, <1>4, <1>7 DEF Dispatch, Resolve
  <2>3. engine' \in [Runs -> {"none", "started", "guest", "simulated"}]
      BY <1>1, <1>7 DEF Dispatch
  <2>4. inbox' \in Seq(Runs)
    <3>1. inbox' = inbox \/ inbox' = Append(inbox, r)
        BY <1>7, Zenon DEF Dispatch
    <3>2. QED
        BY <1>1, <3>1, AppendProperties
  <2>5. QED
      BY <1>1, <1>2, <2>1, <2>2, <2>3, <2>4 DEF Typed
<1>8. CASE Deliver(r)
  <2>1. UNCHANGED <<runtime, want, pc, answer, got, disturbed, closed, input, integrity, inbox, py,
                    active>>
      BY <1>8 DEF Deliver, workerVars
  <2>2. phase' \in [Runs -> Phases] /\ DOMAIN result' = Runs
      BY <1>1, <1>3, <1>4, <1>8 DEF Deliver, Resolve
  <2>3. engine' \in [Runs -> {"none", "started", "guest", "simulated"}]
      BY <1>1, <1>8 DEF Deliver
  <2>4. QED
      BY <1>1, <1>2, <2>1, <2>2, <2>3 DEF Typed
<1>9. CASE Timeout(r)
  <2>1. UNCHANGED <<runtime, want, pc, answer, got, disturbed, closed, input, integrity, engine>>
      BY <1>9 DEF Timeout
  <2>2. phase' \in [Runs -> Phases]
    <3>1. PICK gone, at : /\ at = [phase EXCEPT ![r] = "done"]
                          /\ ReplaceWorker(at, gone, "orphan")
        BY <1>9 DEF Timeout
    <3>2. at \in [Runs -> Phases]
        BY <1>1, <1>4, <3>1
    <3>3. phase' = [s \in Runs |-> IF at[s] \in gone THEN "orphan" ELSE at[s]]
        BY <3>1 DEF ReplaceWorker
    <3>4. QED
        BY <1>4, <3>2, <3>3
  <2>3. DOMAIN result' = Runs
      BY <1>1, <1>3, <1>9 DEF Timeout
  <2>4. py' = Fresh /\ active' = Null /\ inbox' = <<>>
      BY <1>9 DEF Timeout, ReplaceWorker
  <2>5. PyTyped' /\ inbox' \in Seq(Runs)
      BY <2>4, EmptySeq DEF Fresh, PyTyped
  <2>6. QED
      BY <1>1, <1>2, <2>1, <2>2, <2>3, <2>4, <2>5 DEF Typed
<1>10. QED
    BY <1>5, <1>6, <1>7, <1>8, <1>9

\* The steps of the worker that are no guest's.
LEMMA WorkerStepTyped ==
    ASSUME Typed, NEW r \in Runs,
           Takes(r) \/ Prepare(r) \/ PackagesSettle(r) \/ Start(r) \/ Resumes(r)
    PROVE  Typed'
<1>1. /\ phase \in [Runs -> Phases] /\ inbox \in Seq(Runs) /\ pc \in [Runs -> Nat \ {0}]
      /\ engine \in [Runs -> {"none", "started", "guest", "simulated"}]
      /\ want \in [Runs -> SUBSET runtime.packages]
      /\ PyTyped /\ active \in Runs \cup {Null} /\ DOMAIN answer = Runs /\ disturbed \subseteq Runs
    BY DEF Typed
<1>2. /\ UNCHANGED <<runtime, closed, integrity, input, result, got, pc>> =>
             /\ GotTyped' /\ runtime' \in Runtimes /\ closed' \in BOOLEAN
             /\ integrity' \in {"none", "pending", "ok", "bad"}
             /\ DOMAIN input' = Runs /\ DOMAIN result' = Runs
             /\ pc' \in [Runs -> Nat \ {0}]
      /\ UNCHANGED <<runtime, want>> => want' \in [Runs -> SUBSET runtime'.packages]
    BY DEF Typed, GotTyped
<1>3. \A p \in Phases : phase' = [phase EXCEPT ![r] = p] => phase' \in [Runs -> Phases]
    BY <1>1
<1>4. {"engine", "start", "packages", "answered", "guest"} \subseteq Phases
    BY DEF Phases, InWorker
<1>5. \A raised : Raise(r, raised) => /\ phase' \in [Runs -> Phases] /\ DOMAIN answer' = Runs
                                      /\ active' \in Runs \cup {Null}
    BY <1>1, <1>3, <1>4 DEF Raise
<1>6. CASE Takes(r)
  <2>1. /\ UNCHANGED <<runtime, closed, integrity, input, result, got, pc, engine, want, active,
                       answer>>
        /\ inbox' = Tail(inbox) /\ inbox # <<>> /\ phase' = [phase EXCEPT ![r] = "engine"]
        /\ py' = [py EXCEPT !.out = <<>>, !.tags = {},
                            !.load = IF @ = "none" THEN "loading" ELSE @]
      BY <1>6 DEF Takes, requestVars
  <2>2. inbox' \in Seq(Runs)
      BY <1>1, <2>1, HeadTailProperties
  <2>3. PyTyped'
    <3>1. PICK l : l = IF py.load = "none" THEN "loading" ELSE py.load
        OBVIOUS
    <3>2. l \in {"none", "loading", "ready", "failed"}
        BY <1>1, <3>1 DEF PyTyped
    <3>3. py' = [py EXCEPT !.out = <<>>, !.tags = {}, !.load = l]
        BY <2>1, <3>1
    <3>4. QED
        BY <1>1, <2>1, <3>2, <3>3 DEF PyTyped
  <2>4. disturbed' \subseteq Runs
      BY <1>1, <1>6 DEF Takes
  <2>5. phase' \in [Runs -> Phases]
      BY <1>3, <1>4, <2>1
  <2>6. QED
      BY <1>1, <1>2, <2>1, <2>2, <2>3, <2>4, <2>5 DEF Typed
<1>7. CASE Prepare(r)
  <2>1. UNCHANGED <<runtime, closed, integrity, input, result, got, pc, engine, inbox, disturbed>>
      BY <1>7 DEF Prepare, requestVars
  <2>2. /\ PyTyped' /\ want' \in [Runs -> SUBSET runtime'.packages]
        /\ phase' \in [Runs -> Phases] /\ DOMAIN answer' = Runs /\ active' \in Runs \cup {Null}
    <3>1. CASE Raise(r, "plain") /\ UNCHANGED <<py, want>>
        BY <1>1, <1>2, <1>5, <2>1, <3>1 DEF PyTyped
    <3>2. CASE /\ py' = [py EXCEPT !.bridged = TRUE]
               /\ want' = [want EXCEPT ![r] = runtime.packages \ py.loaded]
               /\ phase' = [phase EXCEPT ![r] =
                     IF runtime.packages \subseteq py.loaded THEN "start" ELSE "packages"]
               /\ UNCHANGED <<answer, active>>
      <4>1. PyTyped'
          BY <1>1, <2>1, <3>2 DEF PyTyped
      <4>2. want' \in [Runs -> SUBSET runtime'.packages]
          BY <1>1, <2>1, <3>2
      <4>3. phase' \in [Runs -> Phases]
          BY <1>3, <1>4, <3>2
      <4>4. QED
          BY <1>1, <3>2, <4>1, <4>2, <4>3
    <3>3. QED
        BY <1>7, <3>1, <3>2 DEF Prepare
  <2>3. QED
      BY <1>1, <1>2, <2>1, <2>2 DEF Typed
<1>8. CASE PackagesSettle(r)
  <2>1. UNCHANGED <<runtime, closed, integrity, input, result, got, pc, engine, inbox, disturbed, want>>
      BY <1>8 DEF PackagesSettle, requestVars
  <2>2. /\ PyTyped'
        /\ phase' \in [Runs -> Phases] /\ DOMAIN answer' = Runs /\ active' \in Runs \cup {Null}
    <3>1. CASE Raise(r, "plain") /\ UNCHANGED py
        BY <1>1, <1>5, <2>1, <3>1 DEF PyTyped
    <3>2. CASE /\ py' = [py EXCEPT !.loaded = @ \cup want[r]]
               /\ phase' = [phase EXCEPT ![r] = "start"]
               /\ UNCHANGED <<answer, active>>
      <4>1. PyTyped'
        <5>1. PICK l : l = py.loaded \cup want[r]
            OBVIOUS
        <5>2. l \in SUBSET runtime.packages /\ py' = [py EXCEPT !.loaded = l]
            BY <1>1, <3>2, <5>1 DEF PyTyped
        <5>3. QED
            BY <1>1, <2>1, <5>2 DEF PyTyped
      <4>2. QED
          BY <1>1, <1>3, <1>4, <3>2, <4>1
    <3>3. QED
        BY <1>8, <3>1, <3>2 DEF PackagesSettle
  <2>3. QED
      BY <1>1, <1>2, <2>1, <2>2 DEF Typed
<1>9. CASE Start(r)
  <2>1. UNCHANGED <<runtime, closed, integrity, input, result, got, pc, inbox, disturbed, want, answer>>
      BY <1>9 DEF Start
  <2>2. /\ py' = Bridged(Patched(py, input[r].determinism), RequestedNetwork(input[r]))
        /\ active' = r /\ phase' = [phase EXCEPT ![r] = "guest"]
        /\ engine' = [engine EXCEPT ![r] = "started"]
      BY <1>9 DEF Start
  <2>3. PyTyped'
    <3>1. PICK det, network : det = input[r].determinism /\ network = RequestedNetwork(input[r])
        OBVIOUS
    <3>2. PICK p : p = Patched(py, det)
        OBVIOUS
    <3>3. p \in [load : {"none", "loading", "ready", "failed"}, bridged : BOOLEAN,
                 loaded : SUBSET runtime.packages, clock : {p.clock}, seed : {p.seed},
                 drawn : {p.drawn}, grant : {p.grant}, used : Nat, spent : Nat, out : {p.out},
                 tags : SUBSET {"policy", "engine", "plain"}]
        BY <1>1, <3>2 DEF PyTyped, Patched
    <3>4. py' = p \/ py' = [p EXCEPT !.grant = network, !.used = 0, !.spent = 0]
        BY <2>2, <3>1, <3>2 DEF Bridged
    <3>5. CASE py' = p
        BY <2>1, <3>3, <3>5 DEF PyTyped
    <3>6. CASE py' = [p EXCEPT !.grant = network, !.used = 0, !.spent = 0]
        BY <2>1, <3>3, <3>6 DEF PyTyped
    <3>7. QED
        BY <3>4, <3>5, <3>6
  <2>4. phase' \in [Runs -> Phases] /\ engine' \in [Runs -> {"none", "started", "guest", "simulated"}]
      BY <1>1, <1>3, <1>4, <2>2
  <2>5. QED
      BY <1>1, <1>2, <2>1, <2>2, <2>3, <2>4 DEF Typed
<1>10. CASE Resumes(r)
  <2>1. UNCHANGED <<runtime, closed, integrity, input, result, got, pc, inbox, disturbed, want, answer,
                    engine, py>>
      BY <1>10 DEF Resumes, requestVars
  <2>2. active' = r /\ phase' \in [Runs -> Phases]
      BY <1>3, <1>4, <1>10 DEF Resumes
  <2>3. PyTyped'
      BY <1>1, <2>1 DEF PyTyped
  <2>4. QED
      BY <1>1, <1>2, <2>1, <2>2, <2>3 DEF Typed
<1>11. QED
    BY <1>6, <1>7, <1>8, <1>9, <1>10

LEMMA TypedStep == Typed /\ [Next]_vars => Typed'
<1> SUFFICES ASSUME Typed, [Next]_vars PROVE Typed'
    OBVIOUS
<1>1. CASE UNCHANGED vars
    BY <1>1 DEF Typed, PyTyped, GotTyped, vars, requestVars, workerVars
<1>2. CASE IntegrityKnown
  <2>1. UNCHANGED <<runtime, input, result, engine, closed, phase, inbox, py, active, pc, want,
                    answer, got, disturbed>>
      BY <1>2 DEF IntegrityKnown, requestVars, workerVars
  <2>2. integrity' \in {"none", "pending", "ok", "bad"}
      BY <1>2, Zenon DEF IntegrityKnown
  <2>3. QED
      BY <2>1, <2>2 DEF Typed, PyTyped, GotTyped
<1>3. CASE EngineSettles
  <2>1. UNCHANGED <<runtime, input, result, engine, closed, integrity, phase, inbox, active, pc, want,
                    answer, got, disturbed>>
      BY <1>3 DEF EngineSettles, requestVars
  <2>2. PyTyped'
    <3>1. PICK l \in {"ready", "failed"} : py' = [py EXCEPT !.load = l]
        BY <1>3 DEF EngineSettles
    <3>2. PyTyped
        BY DEF Typed
    <3>3. QED
        BY <2>1, <3>1, <3>2 DEF PyTyped
  <2>3. QED
      BY <2>1, <2>2 DEF Typed, GotTyped
<1>4. CASE Close
  <2>1. UNCHANGED <<runtime, input, result, engine, integrity, pc, want, answer, got, disturbed>>
      BY <1>4 DEF Close, requestVars
  <2>2. /\ py' = Fresh /\ active' = Null /\ inbox' = <<>> /\ closed' = TRUE
        /\ \E gone : phase' = [s \in Runs |-> IF phase[s] \in gone THEN "lost" ELSE phase[s]]
      BY <1>4, Zenon DEF Close, ReplaceWorker
  <2>3. phase' \in [Runs -> Phases]
      BY <2>2 DEF Typed, Phases
  <2>4. PyTyped' /\ inbox' \in Seq(Runs)
      BY <2>2, EmptySeq DEF Fresh, PyTyped
  <2>5. QED
      BY <2>1, <2>2, <2>3, <2>4 DEF Typed, GotTyped
<1>5. QED
    BY <1>1, <1>2, <1>3, <1>4, GuestStepTyped, HostStepTyped, WorkerStepTyped DEF Next
-------------------------------------------------------------------------------
(* What an accepted request is, and how far the runs come.                 *)

LEMMA AcceptedRequest ==
    ASSUME Typed, InputsKnown, NEW r \in Runs,
           phase[r] \notin {"idle", "done"} \/ engine[r] # "none"
    PROVE  RunRequest(input[r]) /\ ValidRunRequest(input[r]) /\ input[r].host = runtime.host
<1>1. input[r] \in Requests[runtime.host] /\ Passed(input[r])
    BY DEF InputsKnown
<1>2. ValidRunRequest(input[r]) /\ input[r].host = runtime.host
    BY <1>1 DEF Passed, Accepts
<1>3. input[r] # Bad
    BY <1>2 DEF ValidRunRequest, IsPresent, Odd
<1>4. QED
    BY <1>1, <1>2, <1>3, RequestsAssumption DEF Typed

LEMMA MaterializeSimulable ==
    ASSUME NEW q, RunRequest(q), ValidRunRequest(q)
    PROVE  Simulable(q) /\ Simulable(Materialize(q))
<1>1. Simulable(q)
    BY RequestSimulable
<1>2. q.determinism.epochMs \in Nat /\ HasCalls(q)
    BY <1>1 DEF Simulable
<1>3. PICK m : m = Materialize(q)
    OBVIOUS
<1>4. m = q \/ \E g : m = [q EXCEPT !.permissions.http = g]
    BY <1>3 DEF Materialize
<1>5. m.determinism = q.determinism /\ m.code = q.code
    BY <1>4 DEF RunRequest
<1>6. QED
    BY <1>1, <1>2, <1>3, <1>5 DEF Simulable, HasCalls

LEMMA WallTimeIsNumber ==
    ASSUME NEW q, RunRequest(q), ValidRunRequest(q)
    PROVE  q.limits.time.wallMs \in Nat
<1> DEFINE l == q.limits
<1>1. l \notin Odd /\ l.time \notin Odd /\ l.time.wallMs \notin Odd /\ l.time.wallMs >= 0
    BY DEF ValidRunRequest, ValidLimits, IsNumber, IsPresent
<1>2. l \in Odd \/ l.time \in Odd \/ l.time.wallMs \in Odd \cup Int
    BY DEF RunRequest, Number
<1>3. QED
    BY <1>1, <1>2

LEMMA TakenWasPosted ==
    ASSUME Typed, InboxPosted, NEW r \in Runs, Takes(r)
    PROVE  /\ phase[r] = "posted" /\ Len(inbox) \in Nat \ {0} /\ inbox[1] = r
           /\ Len(inbox') = Len(inbox) - 1
           /\ \A i \in 1..Len(inbox) - 1 : inbox'[i] = inbox[i + 1]
<1>1. inbox \in Seq(Runs) /\ inbox # <<>> /\ Head(inbox) = r /\ inbox' = Tail(inbox)
    BY DEF Typed, Takes
<1>2. /\ Len(inbox) \in Nat \ {0} /\ inbox[1] = r
      /\ Len(inbox') = Len(inbox) - 1
      /\ \A i \in 1..Len(inbox) - 1 : inbox'[i] = inbox[i + 1]
  <2>1. Len(inbox) \in Nat /\ Len(inbox) # 0
      BY <1>1, LenProperties, EmptySeq
  <2>2. QED
      BY <1>1, <2>1
<1>3. 1 \in 1..Len(inbox)
    BY <1>2
<1>4. QED
    BY <1>2, <1>3 DEF InboxPosted

LEMMA GuestMoves ==
    ASSUME NEW r \in Runs, GuestStep(r)
    PROVE  UNCHANGED phase \/ \E p \in {"answered", "waiting"} : phase' = [phase EXCEPT ![r] = p]
<1>1. \A raised : Fails(r, raised) => UNCHANGED phase \/ phase' = [phase EXCEPT ![r] = "answered"]
    BY DEF Fails, Raise, Continue
<1>2. Prints(r) => UNCHANGED phase
    BY DEF Prints, Continue
<1>3. HttpGet(r) => UNCHANGED phase \/ phase' = [phase EXCEPT ![r] = "answered"]
    BY <1>1 DEF HttpGet, HttpGetSync, Continue
<1>4. GuestFails(r) => UNCHANGED phase \/ phase' = [phase EXCEPT ![r] = "answered"]
    BY <1>1 DEF GuestFails
<1>5. Awaits(r) => phase' = [phase EXCEPT ![r] = "waiting"]
    BY DEF Awaits
<1>6. Finishes(r) => phase' = [phase EXCEPT ![r] = "answered"]
    BY DEF Finishes
<1>7. QED
    BY <1>2, <1>3, <1>4, <1>5, <1>6 DEF GuestStep

\* No step but run() itself brings a run under way, or takes one back.
Forward ==
    /\ UNCHANGED <<runtime, input>>
    /\ \A s \in Runs :
          /\ phase'[s] = "idle" <=> phase[s] = "idle"
          /\ phase'[s] # "done" => phase[s] # "done"
          /\ engine'[s] # "none" => engine[s] # "none" \/ phase[s] \notin {"idle", "done"}
          /\ phase'[s] = "transport" => phase[s] = "transport"

LEMMA StepsForward ==
    ASSUME Typed, InboxPosted, [Next]_vars
    PROVE  Forward \/ \E r \in Runs : \E q \in Requests[runtime.host] : Run(r, q)
<1>1. phase \in [Runs -> Phases] /\ engine \in [Runs -> {"none", "started", "guest", "simulated"}]
    BY DEF Typed
<1>2. CASE UNCHANGED vars
    BY <1>2 DEF vars, requestVars, Forward
<1>3. ASSUME NEW r \in Runs, NEW p \in Phases \ {"idle", "transport"},
             phase[r] \notin {"idle", "done"}, phase' = [phase EXCEPT ![r] = p],
             UNCHANGED <<runtime, input>>,
             UNCHANGED engine \/ \E e : engine' = [engine EXCEPT ![r] = e]
      PROVE  Forward
    BY <1>1, <1>3 DEF Forward
<1>4. {"handed", "integrity", "posted", "answered", "orphan", "lost", "done", "engine", "packages",
       "start", "guest", "waiting"} \subseteq Phases \ {"idle", "transport"}
    BY DEF Phases, InWorker
<1>5. ASSUME NEW r \in Runs, TransportRuns(r) PROVE Forward
  <2>1. /\ phase[r] = "transport" /\ UNCHANGED <<runtime, input>>
        /\ UNCHANGED engine \/ \E e : engine' = [engine EXCEPT ![r] = e]
      BY <1>5 DEF TransportRuns
  <2>2. \E p \in {"handed", "done"} : phase' = [phase EXCEPT ![r] = p]
      BY <1>5 DEF TransportRuns, Resolve
  <2>3. QED
      BY <1>3, <1>4, <2>1, <2>2
<1>6. ASSUME NEW r \in Runs, Dispatch(r) PROVE Forward
  <2>1. /\ phase[r] = "integrity" /\ UNCHANGED <<runtime, input>>
        /\ UNCHANGED engine \/ \E e : engine' = [engine EXCEPT ![r] = e]
      BY <1>6 DEF Dispatch
  <2>2. \E p \in {"posted", "done"} : phase' = [phase EXCEPT ![r] = p]
      BY <1>6 DEF Dispatch, Resolve
  <2>3. QED
      BY <1>3, <1>4, <2>1, <2>2
<1>7. ASSUME NEW r \in Runs, Deliver(r) PROVE Forward
  <2>1. /\ phase[r] = "answered" /\ UNCHANGED <<runtime, input>>
        /\ \E e : engine' = [engine EXCEPT ![r] = e]
      BY <1>7 DEF Deliver
  <2>2. phase' = [phase EXCEPT ![r] = "done"]
      BY <1>7 DEF Deliver, Resolve
  <2>3. QED
      BY <1>3, <1>4, <2>1, <2>2
<1>8. ASSUME NEW r \in Runs, GuestStep(r) PROVE Forward
  <2>1. phase[r] = "guest" /\ UNCHANGED <<runtime, input, engine>>
      BY <1>8 DEF GuestStep, requestVars
  <2>2. UNCHANGED phase \/ \E p \in {"answered", "waiting"} : phase' = [phase EXCEPT ![r] = p]
      BY <1>8, GuestMoves
  <2>3. CASE UNCHANGED phase
      BY <2>1, <2>3 DEF Forward
  <2>4. QED
      BY <1>3, <1>4, <2>1, <2>2, <2>3
<1>9. ASSUME NEW r \in Runs, Takes(r) \/ Prepare(r) \/ PackagesSettle(r) \/ Start(r) \/ Resumes(r),
             phase[r] \notin {"idle", "done"}
      PROVE  Forward
  <2>1. /\ UNCHANGED <<runtime, input>>
        /\ UNCHANGED engine \/ \E e : engine' = [engine EXCEPT ![r] = e]
      BY <1>9 DEF Takes, Prepare, PackagesSettle, Start, Resumes, requestVars
  <2>2. \E p \in {"engine", "answered", "start", "packages", "guest"} :
            phase' = [phase EXCEPT ![r] = p]
      BY <1>9 DEF Takes, Prepare, PackagesSettle, Start, Resumes, Raise
  <2>3. QED
      BY <1>3, <1>4, <1>9, <2>1, <2>2
<1>10. ASSUME NEW at, NEW gone, NEW fate \in {"orphan", "lost"}, ReplaceWorker(at, gone, fate),
              at \in [Runs -> Phases], {"idle", "done"} \cap gone = {},
              \A s \in Runs : /\ at[s] = phase[s] \/ (at[s] = "done" /\ phase[s] # "idle"),
              UNCHANGED <<runtime, input, engine>>
       PROVE  Forward
  <2>1. phase' = [s \in Runs |-> IF at[s] \in gone THEN fate ELSE at[s]]
      BY <1>10 DEF ReplaceWorker
  <2>2. QED
      BY <1>1, <1>10, <2>1 DEF Forward
<1>11. CASE Close
  <2>1. UNCHANGED <<runtime, input, engine>>
      BY <1>11 DEF Close, requestVars
  <2>2. ReplaceWorker(phase, InWorker \cup {"posted", "orphan", "answered"}, "lost")
      BY <1>11 DEF Close
  <2>3. {"idle", "done"} \cap (InWorker \cup {"posted", "orphan", "answered"}) = {}
      BY DEF InWorker
  <2>4. QED
      BY <1>1, <1>10, <2>1, <2>2, <2>3
<1>12. ASSUME NEW r \in Runs, Timeout(r) PROVE Forward
  <2>1. UNCHANGED <<runtime, input, engine>> /\ phase[r] # "idle"
      BY <1>12 DEF Timeout, InWorker
  <2>2. PICK at : at = [phase EXCEPT ![r] = "done"]
      OBVIOUS
  <2>3. ReplaceWorker(at, InWorker \cup {"posted"}, "orphan")
      BY <1>12, <2>2 DEF Timeout
  <2>4. /\ at \in [Runs -> Phases]
        /\ \A s \in Runs : at[s] = phase[s] \/ (at[s] = "done" /\ phase[s] # "idle")
      BY <1>1, <1>4, <2>1, <2>2
  <2>5. {"idle", "done"} \cap (InWorker \cup {"posted"}) = {}
      BY DEF InWorker
  <2>6. QED
      BY <1>10, <2>1, <2>3, <2>4, <2>5
<1>13. CASE IntegrityKnown \/ EngineSettles
    BY <1>13 DEF IntegrityKnown, EngineSettles, requestVars, Forward
<1>14. ASSUME NEW r \in Runs, Takes(r) \/ Prepare(r) \/ PackagesSettle(r) \/ Start(r) \/ Resumes(r)
       PROVE  phase[r] \notin {"idle", "done"}
  <2>1. CASE Takes(r)
      BY <2>1, TakenWasPosted
  <2>2. QED
      BY <1>14, <2>1 DEF Prepare, PackagesSettle, Start, Resumes
<1>15. QED
    BY <1>2, <1>5, <1>6, <1>7, <1>8, <1>9, <1>11, <1>12, <1>13, <1>14 DEF Next

LEMMA InboxStep == Typed /\ InboxPosted /\ [Next]_vars => InboxPosted'
<1> SUFFICES ASSUME Typed, InboxPosted, [Next]_vars PROVE InboxPosted'
    OBVIOUS
<1>1. phase \in [Runs -> Phases] /\ inbox \in Seq(Runs)
    BY DEF Typed
<1>2. Len(inbox) \in Nat /\ \A i \in 1..Len(inbox) : inbox[i] \in Runs
    BY <1>1, LenProperties, ElementOfSeq
<1>3. CASE UNCHANGED <<phase, inbox>>
    BY <1>3 DEF InboxPosted
<1>4. ASSUME NEW r \in Runs, phase[r] # "posted", NEW p, phase' = [phase EXCEPT ![r] = p],
             UNCHANGED inbox
      PROVE  InboxPosted'
    BY <1>1, <1>2, <1>4 DEF InboxPosted
<1>5. ASSUME inbox' = <<>> PROVE InboxPosted'
  <2>1. Len(inbox') = 0
      BY <1>5
  <2>2. QED
      BY <2>1 DEF InboxPosted
<1>6. ASSUME NEW r \in Runs, NEW q \in Requests[runtime.host], Run(r, q) PROVE InboxPosted'
  <2>1. phase[r] = "idle" /\ UNCHANGED inbox
      BY <1>6 DEF Run, workerVars
  <2>2. \E p : phase' = [phase EXCEPT ![r] = p]
      BY <1>6 DEF Run, Resolve
  <2>3. QED
      BY <1>4, <2>1, <2>2
<1>7. ASSUME NEW r \in Runs, TransportRuns(r) PROVE InboxPosted'
  <2>1. phase[r] = "transport" /\ UNCHANGED inbox
      BY <1>7 DEF TransportRuns, workerVars
  <2>2. \E p : phase' = [phase EXCEPT ![r] = p]
      BY <1>7 DEF TransportRuns, Resolve
  <2>3. QED
      BY <1>4, <2>1, <2>2
<1>8. ASSUME NEW r \in Runs, Dispatch(r) PROVE InboxPosted'
  <2>1. phase[r] = "integrity"
      BY <1>8 DEF Dispatch
  <2>2. CASE UNCHANGED inbox
    <3>1. \E p : phase' = [phase EXCEPT ![r] = p]
        BY <1>8 DEF Dispatch, Resolve
    <3>2. QED
        BY <1>4, <2>1, <2>2, <3>1
  <2>3. CASE inbox' = Append(inbox, r) /\ phase' = [phase EXCEPT ![r] = "posted"]
    <3>1. /\ Len(inbox') = Len(inbox) + 1 /\ inbox'[Len(inbox) + 1] = r
          /\ \A i \in 1..Len(inbox) : inbox'[i] = inbox[i]
        BY <1>1, <2>3, AppendProperties
    <3>2. \A i \in 1..Len(inbox) : inbox[i] # r
        BY <2>1 DEF InboxPosted
    <3>3. \A i \in 1..Len(inbox) + 1 : i = Len(inbox) + 1 \/ i \in 1..Len(inbox)
        BY <1>2
    <3>4. \A i \in 1..Len(inbox) : phase'[inbox[i]] = "posted"
        BY <1>1, <1>2, <2>3, <3>2 DEF InboxPosted
    <3>5. phase'[r] = "posted"
        BY <1>1, <2>3
    <3>6. \A i \in 1..Len(inbox') : phase'[inbox'[i]] = "posted"
        BY <3>1, <3>3, <3>4, <3>5
    <3>7. \A i, j \in 1..Len(inbox') : inbox'[i] = inbox'[j] => i = j
        BY <3>1, <3>2, <3>3 DEF InboxPosted
    <3>8. QED
        BY <3>6, <3>7 DEF InboxPosted
  <2>4. QED
      BY <1>8, <2>2, <2>3 DEF Dispatch
<1>9. ASSUME NEW r \in Runs, Takes(r) PROVE InboxPosted'
  <2>1. /\ Len(inbox) \in Nat \ {0} /\ inbox[1] = r
        /\ Len(inbox') = Len(inbox) - 1
        /\ \A i \in 1..Len(inbox) - 1 : inbox'[i] = inbox[i + 1]
      BY <1>9, TakenWasPosted
  <2>2. phase' = [phase EXCEPT ![r] = "engine"]
      BY <1>9 DEF Takes
  <2>3. \A i \in 1..Len(inbox) - 1 : /\ i + 1 \in 1..Len(inbox) /\ i + 1 # 1 /\ 1 \in 1..Len(inbox)
                                     /\ inbox[i + 1] \in Runs
      BY <1>2, <2>1
  <2>4. \A i \in 1..Len(inbox) - 1 : inbox[i + 1] # r /\ phase[inbox[i + 1]] = "posted"
      BY <2>1, <2>3 DEF InboxPosted
  <2>5. \A i \in 1..Len(inbox') : phase'[inbox'[i]] = "posted"
      BY <1>1, <2>1, <2>2, <2>3, <2>4
  <2>6. \A i, j \in 1..Len(inbox') : inbox'[i] = inbox'[j] => i = j
    <3> SUFFICES ASSUME NEW i \in 1..Len(inbox) - 1, NEW j \in 1..Len(inbox) - 1,
                        inbox[i + 1] = inbox[j + 1]
                 PROVE  i = j
        BY <2>1
    <3>1. i + 1 = j + 1
        BY <2>3 DEF InboxPosted
    <3>2. QED
        BY <2>1, <3>1
  <2>7. QED
      BY <2>5, <2>6 DEF InboxPosted
<1>10. ASSUME NEW r \in Runs, Deliver(r) PROVE InboxPosted'
  <2>1. phase[r] = "answered" /\ UNCHANGED inbox /\ phase' = [phase EXCEPT ![r] = "done"]
      BY <1>10 DEF Deliver, workerVars, Resolve
  <2>2. QED
      BY <1>4, <2>1
<1>11. ASSUME NEW r \in Runs, Prepare(r) \/ PackagesSettle(r) \/ Start(r) \/ Resumes(r)
       PROVE  InboxPosted'
  <2>1. phase[r] # "posted" /\ UNCHANGED inbox
      BY <1>11 DEF Prepare, PackagesSettle, Start, Resumes
  <2>2. \E p : phase' = [phase EXCEPT ![r] = p]
      BY <1>11 DEF Prepare, PackagesSettle, Start, Resumes, Raise
  <2>3. QED
      BY <1>4, <2>1, <2>2
<1>12. ASSUME NEW r \in Runs, GuestStep(r) PROVE InboxPosted'
  <2>1. phase[r] = "guest" /\ UNCHANGED inbox
      BY <1>12 DEF GuestStep
  <2>2. UNCHANGED phase \/ \E p : phase' = [phase EXCEPT ![r] = p]
      BY <1>12, GuestMoves
  <2>3. QED
      BY <1>3, <1>4, <2>1, <2>2
<1>13. ASSUME NEW r \in Runs, Timeout(r) PROVE InboxPosted'
    BY <1>5, <1>13 DEF Timeout, ReplaceWorker
<1>14. CASE Close
    BY <1>5, <1>14 DEF Close, ReplaceWorker
<1>15. CASE IntegrityKnown \/ EngineSettles \/ UNCHANGED vars
    BY <1>3, <1>15 DEF IntegrityKnown, EngineSettles, vars, workerVars
<1>16. QED
    BY <1>6, <1>7, <1>8, <1>9, <1>10, <1>11, <1>12, <1>13, <1>14, <1>15 DEF Next

LEMMA InputsStep == Typed /\ InboxPosted /\ InputsKnown /\ [Next]_vars => InputsKnown'
<1> SUFFICES ASSUME Typed, InboxPosted, InputsKnown, [Next]_vars PROVE InputsKnown'
    OBVIOUS
<1>1. /\ phase \in [Runs -> Phases] /\ DOMAIN input = Runs
      /\ engine \in [Runs -> {"none", "started", "guest", "simulated"}]
    BY DEF Typed
<1>2. CASE Forward
  <2>1. UNCHANGED <<runtime, input>>
      BY <1>2 DEF Forward
  <2>2. \A q : Passed(q)' <=> Passed(q)
      BY <2>1 DEF Passed, Capabilities, Browser
  <2>3. Browser' <=> Browser
      BY <2>1 DEF Browser
  <2> SUFFICES ASSUME NEW s \in Runs
               PROVE  /\ phase'[s] # "idle" => input'[s] \in Requests[runtime'.host]
                      /\ phase'[s] \notin {"idle", "done"} \/ engine'[s] # "none" =>
                             phase'[s] # "idle" /\ Passed(input'[s])
                      /\ phase'[s] = "transport" => ~ Browser
      BY <2>1, <2>2, <2>3 DEF InputsKnown, Passed
  <2>4. /\ phase'[s] = "idle" <=> phase[s] = "idle"
        /\ phase'[s] # "done" => phase[s] # "done"
        /\ engine'[s] # "none" => engine[s] # "none" \/ phase[s] \notin {"idle", "done"}
        /\ phase'[s] = "transport" => phase[s] = "transport"
      BY <1>2 DEF Forward
  <2>5. /\ phase[s] # "idle" => input[s] \in Requests[runtime.host]
        /\ phase[s] \notin {"idle", "done"} \/ engine[s] # "none" => phase[s] # "idle" /\ Passed(input[s])
        /\ phase[s] = "transport" => ~ Browser
      BY DEF InputsKnown
  <2>6. QED
      BY <2>1, <2>4, <2>5
<1>3. ASSUME NEW r \in Runs, NEW q \in Requests[runtime.host], Run(r, q) PROVE InputsKnown'
  <2>1. /\ UNCHANGED <<runtime, engine>> /\ phase[r] = "idle"
        /\ input' = [input EXCEPT ![r] = q]
      BY <1>3 DEF Run
  <2>2. \/ phase' = [phase EXCEPT ![r] = "done"]
        \/ /\ Accepts(runtime.host, Capabilities, closed, q)
           /\ phase' = [phase EXCEPT ![r] = IF Browser THEN "integrity" ELSE "transport"]
      BY <1>3 DEF Run, Resolve
  <2>3. Accepts(runtime.host, Capabilities, closed, q) => Passed(q)
      BY DEF Accepts, Passed
  <2>4. \A x : Passed(x)' <=> Passed(x)
      BY <2>1 DEF Passed, Capabilities, Browser
  <2>5. (Browser' <=> Browser) /\ engine[r] = "none"
      BY <1>1, <2>1 DEF Browser, InputsKnown
  <2> SUFFICES ASSUME NEW s \in Runs
               PROVE  /\ phase'[s] # "idle" => input'[s] \in Requests[runtime'.host]
                      /\ phase'[s] \notin {"idle", "done"} \/ engine'[s] # "none" =>
                             phase'[s] # "idle" /\ Passed(input'[s])
                      /\ phase'[s] = "transport" => ~ Browser
      BY <2>1, <2>4, <2>5 DEF InputsKnown, Passed
  <2>6. CASE s = r
    <3>1. input'[s] = q /\ engine'[s] = "none"
        BY <1>1, <2>1, <2>5, <2>6
    <3>2. CASE phase' = [phase EXCEPT ![r] = "done"]
      <4>1. phase'[s] = "done"
          BY <1>1, <2>6, <3>2
      <4>2. QED
          BY <2>1, <3>1, <4>1
    <3>3. CASE /\ Accepts(runtime.host, Capabilities, closed, q)
               /\ phase' = [phase EXCEPT ![r] = IF Browser THEN "integrity" ELSE "transport"]
      <4>1. phase'[s] = IF Browser THEN "integrity" ELSE "transport"
          BY <1>1, <2>6, <3>3
      <4>2. QED
          BY <2>1, <2>3, <3>1, <3>3, <4>1
    <3>4. QED
        BY <2>2, <3>2, <3>3
  <2>7. CASE s # r
    <3>1. input'[s] = input[s] /\ engine'[s] = engine[s] /\ phase'[s] = phase[s]
        BY <1>1, <2>1, <2>2, <2>7
    <3>2. QED
        BY <2>1, <3>1 DEF InputsKnown
  <2>8. QED
      BY <2>6, <2>7
<1>4. QED
    BY <1>2, <1>3, StepsForward

\* The results that an engine made are sound once the boundary is put in front.
LEMMA BoundarySound ==
    ASSUME NEW x, EngineMade(x)
    PROVE  Sound(WithRuntimeBoundaryAudit(Capabilities, x))
BY BoundaryAdded DEF Final, Sound

LEMMA ClocksRead == 
    /\ \A env \in Clocks : ReadsClock(env)
    /\ Now \in Nat
BY DEF Clocks, ReadsClock, Now

LEMMA ResultsStep ==
    Typed /\ InboxPosted /\ InputsKnown /\ ResultsSound /\ [Next]_vars => ResultsSound'
<1> SUFFICES ASSUME Typed, InboxPosted, InputsKnown, ResultsSound, [Next]_vars PROVE ResultsSound'
    OBVIOUS
<1>1. phase \in [Runs -> Phases] /\ DOMAIN result = Runs
    BY DEF Typed
<1>2. UNCHANGED runtime => \A x : Sound(x)' <=> Sound(x)
    BY DEF Sound, Capabilities, Browser
<1>3. ASSUME UNCHANGED <<runtime, result>>, \A s \in Runs : phase'[s] = "done" => phase[s] = "done"
      PROVE  ResultsSound'
    BY <1>2, <1>3 DEF ResultsSound, Done, Sound
<1>4. ASSUME UNCHANGED runtime, NEW r \in Runs, NEW x, Sound(x),
             result' = [result EXCEPT ![r] = x],
             \A s \in Runs : phase'[s] = "done" => s = r \/ phase[s] = "done"
      PROVE  ResultsSound'
  <2> SUFFICES ASSUME NEW s \in Runs, phase'[s] = "done" PROVE Sound(result'[s])
      BY <1>2, <1>4 DEF ResultsSound, Done, Sound
  <2>1. CASE s = r
      BY <1>1, <1>4, <2>1
  <2>2. CASE s # r
      BY <1>1, <1>4, <2>2 DEF ResultsSound, Done
  <2>3. QED
      BY <2>1, <2>2
<1>5. ASSUME UNCHANGED runtime, NEW r \in Runs, NEW x, Sound(x), Resolve(r, x)
      PROVE  ResultsSound'
    BY <1>1, <1>4, <1>5 DEF Resolve
<1>6. ASSUME UNCHANGED <<runtime, result>>, NEW r \in Runs, NEW p, p # "done",
             phase' = [phase EXCEPT ![r] = p]
      PROVE  ResultsSound'
    BY <1>1, <1>3, <1>6
<1>7. ASSUME NEW r \in Runs, NEW q \in Requests[runtime.host], Run(r, q) PROVE ResultsSound'
  <2>1. UNCHANGED runtime
      BY <1>7 DEF Run
  <2>2. CASE Resolve(r, Refusal(runtime.host, Capabilities, closed, q, Now))
    <3>1. Sound(Refusal(runtime.host, Capabilities, closed, q, Now))
        BY RefusalFinal, ClocksRead DEF Final, Sound
    <3>2. QED
        BY <1>5, <2>1, <2>2, <3>1
  <2>3. CASE /\ phase' = [phase EXCEPT ![r] = IF Browser THEN "integrity" ELSE "transport"]
             /\ UNCHANGED result
    <3>1. PICK p : p = IF Browser THEN "integrity" ELSE "transport"
        OBVIOUS
    <3>2. p # "done" /\ phase' = [phase EXCEPT ![r] = p]
        BY <2>3, <3>1
    <3>3. QED
        BY <1>6, <2>1, <2>3, <3>2
  <2>4. QED
      BY <1>7, <2>2, <2>3 DEF Run
<1>8. ASSUME NEW r \in Runs, TransportRuns(r) PROVE ResultsSound'
  <2>1. UNCHANGED runtime /\ phase[r] = "transport"
      BY <1>8 DEF TransportRuns
  <2>2. CASE \E env \in Clocks : Resolve(r, SimulateRun(input[r], env))
    <3>1. PICK env \in Clocks : Resolve(r, SimulateRun(input[r], env))
        BY <2>2
    <3>2. RunRequest(input[r])
        BY <2>1, AcceptedRequest
    <3>3. EngineMade(SimulateRun(input[r], env))
        BY <3>2, RequestSimulable, ClocksRead, SimulationMade
    <3>4. ~ Browser
        BY <2>1 DEF InputsKnown
    <3>5. Sound(SimulateRun(input[r], env))
        BY <3>3, <3>4 DEF EngineMade, Sound
    <3>6. QED
        BY <1>5, <2>1, <3>1, <3>5
  <2>3. CASE phase' = [phase EXCEPT ![r] = "handed"] /\ UNCHANGED result
      BY <1>6, <2>1, <2>3
  <2>4. QED
      BY <1>8, <2>2, <2>3 DEF TransportRuns
<1>9. ASSUME NEW r \in Runs, Dispatch(r) PROVE ResultsSound'
  <2>1. UNCHANGED runtime /\ phase[r] = "integrity"
      BY <1>9 DEF Dispatch
  <2>2. RunRequest(input[r]) /\ ValidRunRequest(input[r])
      BY <2>1, AcceptedRequest
  <2>3. CASE \E env \in Clocks :
                Resolve(r, WithRuntimeBoundaryAudit(Capabilities,
                        EngineErrorResult("integrity", <<>>, env.started, env.ended)))
    <3>1. PICK env \in Clocks :
                Resolve(r, WithRuntimeBoundaryAudit(Capabilities,
                        EngineErrorResult("integrity", <<>>, env.started, env.ended)))
        BY <2>3
    <3>2. EngineMade(EngineErrorResult("integrity", <<>>, env.started, env.ended))
        BY ClocksRead, WorkerResultsMade DEF ReadsClock
    <3>3. QED
        BY <1>5, <2>1, <3>1, <3>2, BoundarySound
  <2>4. CASE \E env \in Clocks :
                Resolve(r, WithRuntimeBoundaryAudit(Capabilities,
                        SimulateRun(Materialize(input[r]), env)))
    <3>1. PICK env \in Clocks :
                Resolve(r, WithRuntimeBoundaryAudit(Capabilities,
                        SimulateRun(Materialize(input[r]), env)))
        BY <2>4
    <3>2. EngineMade(SimulateRun(Materialize(input[r]), env))
        BY <2>2, MaterializeSimulable, ClocksRead, SimulationMade
    <3>3. QED
        BY <1>5, <2>1, <3>1, <3>2, BoundarySound
  <2>5. ASSUME NEW valid \in BOOLEAN,
               phase' = [phase EXCEPT ![r] = IF valid THEN "posted" ELSE "done"],
               result' = IF valid THEN result
                         ELSE [result EXCEPT ![r] = WithRuntimeBoundaryAudit(Capabilities,
                                   EngineErrorResult("invalid_worker_request", <<>>, Now, Now))]
        PROVE  ResultsSound'
    <3>1. CASE valid
        BY <1>6, <2>1, <2>5, <3>1
    <3>2. CASE ~ valid
      <4>1. EngineMade(EngineErrorResult("invalid_worker_request", <<>>, Now, Now))
          BY ClocksRead, WorkerResultsMade
      <4>2. QED
          BY <1>1, <1>4, <2>1, <2>5, <3>2, <4>1, BoundarySound
    <3>3. QED
        BY <3>1, <3>2
  <2>6. QED
    <3>1. ValidWorkerRequest(input[r]) \in BOOLEAN
        BY DEF ValidWorkerRequest
    <3>2. QED
        BY <1>9, <2>3, <2>4, <2>5, <3>1, Zenon DEF Dispatch
<1>10. ASSUME NEW r \in Runs, Deliver(r) PROVE ResultsSound'
  <2>1. UNCHANGED runtime
      BY <1>10 DEF Deliver
  <2>2. PICK env \in Clocks :
            Resolve(r, WithRuntimeBoundaryAudit(Capabilities,
                           BrowserResult(answer[r], env.started, env.ended)))
      BY <1>10 DEF Deliver
  <2>3. EngineMade(BrowserResult(answer[r], env.started, env.ended))
      BY ClocksRead, BrowserResultMade DEF ReadsClock
  <2>4. QED
      BY <1>5, <2>1, <2>2, <2>3, BoundarySound
<1>11. ASSUME NEW r \in Runs, Timeout(r) PROVE ResultsSound'
  <2>1. /\ UNCHANGED runtime /\ phase[r] \notin {"idle", "done"}
        /\ result' = [result EXCEPT ![r] = WithRuntimeBoundaryAudit(Capabilities,
                                          TimeoutResult(input[r].limits.time.wallMs, Now))]
        /\ ReplaceWorker([phase EXCEPT ![r] = "done"], InWorker \cup {"posted"}, "orphan")
      BY <1>11 DEF Timeout, InWorker
  <2>2. RunRequest(input[r]) /\ ValidRunRequest(input[r])
      BY <2>1, AcceptedRequest
  <2>3. EngineMade(TimeoutResult(input[r].limits.time.wallMs, Now))
      BY <2>2, WallTimeIsNumber, ClocksRead, WorkerResultsMade
  <2>4. Sound(WithRuntimeBoundaryAudit(Capabilities, TimeoutResult(input[r].limits.time.wallMs, Now)))
      BY <2>3, BoundarySound
  <2>5. \A s \in Runs : phase'[s] = "done" => s = r \/ phase[s] = "done"
      BY <1>1, <2>1 DEF ReplaceWorker
  <2>6. QED
      BY <1>4, <2>1, <2>4, <2>5
<1>12. ASSUME NEW r \in Runs, GuestStep(r) PROVE ResultsSound'
  <2>1. UNCHANGED <<runtime, result>>
      BY <1>12 DEF GuestStep, requestVars
  <2>2. UNCHANGED phase \/ \E p \in {"answered", "waiting"} : phase' = [phase EXCEPT ![r] = p]
      BY <1>12, GuestMoves
  <2>3. QED
      BY <1>3, <1>6, <2>1, <2>2
<1>13. ASSUME NEW r \in Runs, Takes(r) \/ Prepare(r) \/ PackagesSettle(r) \/ Start(r) \/ Resumes(r)
       PROVE  ResultsSound'
  <2>1. UNCHANGED <<runtime, result>>
      BY <1>13 DEF Takes, Prepare, PackagesSettle, Start, Resumes, requestVars
  <2>2. \E p \in {"engine", "answered", "start", "packages", "guest"} :
            phase' = [phase EXCEPT ![r] = p]
      BY <1>13 DEF Takes, Prepare, PackagesSettle, Start, Resumes, Raise
  <2>3. QED
      BY <1>6, <2>1, <2>2
<1>14. CASE Close
  <2>1. UNCHANGED <<runtime, result>>
      BY <1>14 DEF Close, requestVars
  <2>2. \A s \in Runs : phase'[s] = "done" => phase[s] = "done"
      BY <1>14 DEF Close, ReplaceWorker
  <2>3. QED
      BY <1>3, <2>1, <2>2
<1>15. CASE IntegrityKnown \/ EngineSettles \/ UNCHANGED vars
    BY <1>3, <1>15 DEF IntegrityKnown, EngineSettles, vars, requestVars
<1>16. QED
    BY <1>7, <1>8, <1>9, <1>10, <1>11, <1>12, <1>13, <1>14, <1>15 DEF Next

Inv == Typed /\ InputsKnown /\ InboxPosted /\ ResultsSound

LEMMA InvHolds == Spec => []Inv
<1>1. Init => Inv
  <2> SUFFICES ASSUME Init PROVE Inv
      OBVIOUS
  <2>1. InputsKnown /\ ResultsSound
      BY DEF Init, InputsKnown, ResultsSound, Done
  <2>2. InboxPosted
    <3>1. Len(inbox) = 0
        BY DEF Init
    <3>2. QED
        BY <3>1 DEF InboxPosted
  <2>3. QED
      BY <2>1, <2>2, InitTyped DEF Inv
<1>2. Inv /\ [Next]_vars => Inv'
    BY TypedStep, InputsStep, InboxStep, ResultsStep DEF Inv
<1>3. QED
    BY <1>1, <1>2, PTL DEF Spec

\* The state is well typed, and every result is one validateRunResult accepts.
THEOREM RequestsTypeCorrect == Spec => []TypeOK
<1>1. Inv => TypeOK
  <2> SUFFICES ASSUME Inv PROVE TypeOK
      OBVIOUS
  <2>1. Typed /\ InputsKnown /\ ResultsSound
      BY DEF Inv
  <2>2. \A r \in Done : ValidRunResult(result[r])
      BY <2>1, ShapedIsValid DEF ResultsSound, Sound
  <2>3. \A r \in Runs : phase[r] # "idle" => input[r] \in Requests[runtime.host]
      BY <2>1 DEF InputsKnown
  <2>4. /\ py.load \in {"none", "loading", "ready", "failed"}
        /\ py.tags \subseteq {"policy", "engine", "plain"}
      BY <2>1 DEF Typed, PyTyped
  <2>5. QED
      BY <2>1, <2>2, <2>3, <2>4 DEF Typed, TypeOK, Phases
<1>2. QED
    BY <1>1, InvHolds, PTL

\* Whoever denies a run, its trail is numbered, ends with the denial, and on
\* the browser starts with the channel and the binding.
THEOREM DenialAuditedHolds == Spec => []DenialAudited
<1>1. Inv => DenialAudited
  <2> SUFFICES ASSUME Inv, NEW r \in Done
               PROVE  LET x == result[r]
                          n == Len(x.audit)
                      IN  /\ \A i \in 1..n : x.audit[i].seq = i
                          /\ x.termination = "policy_denied" <=>
                                 n > 0 /\ x.audit[n].kind = "policy_denied"
                          /\ x.termination = "policy_denied" => x.status = "error"
                          /\ \A i \in 1..(n - 1) : x.audit[i].kind # "policy_denied"
                          /\ Browser => \A i \in DOMAIN BoundaryKinds(Capabilities) :
                                            x.audit[i].kind = BoundaryKinds(Capabilities)[i]
      BY DEF DenialAudited
  <2> DEFINE x == result[r]
             n == Len(x.audit)
             a == KindsOf(x.audit)
  <2>1. Sound(x)
      BY DEF Inv, ResultsSound
  <2> HIDE DEF x
  <2>2. x.audit \in Seq(Event)
      BY <2>1 DEF Sound, Shaped
  <2>3. n \in Nat /\ Len(a) = n /\ \A i \in 1..n : a[i] = x.audit[i].kind
      BY <2>2, KindsByIndex
  <2>4. DenialIsLast(a, x.termination = "policy_denied")
      BY <2>1 DEF Sound, Audited
  <2> HIDE DEF a, n
  <2>5. /\ x.termination = "policy_denied" <=> n > 0 /\ x.audit[n].kind = "policy_denied"
        /\ \A i \in 1..(n - 1) : x.audit[i].kind # "policy_denied"
    <3>1. n > 0 => n \in 1..n
        BY <2>3
    <3>2. \A i \in 1..(n - 1) : i \in 1..n
        BY <2>3
    <3>3. QED
        BY <2>3, <2>4, <3>1, <3>2 DEF DenialIsLast
  <2>6. /\ \A i \in 1..n : x.audit[i].seq = i
        /\ x.termination = "policy_denied" => x.status = "error"
      BY <2>1 DEF Sound, Audited, n
  <2>7. Browser => \A i \in DOMAIN BoundaryKinds(Capabilities) :
                       x.audit[i].kind = BoundaryKinds(Capabilities)[i]
      BY <2>1 DEF Sound, Prefixed
  <2>8. QED
      BY <2>5, <2>6, <2>7 DEF x, n
<1>2. QED
    BY <1>1, InvHolds, PTL
-------------------------------------------------------------------------------
(* A run that was answered by the simulated engine.                        *)

\* What is done stays as it is.
LEMMA DoneStays ==
    ASSUME Typed, InboxPosted, [Next]_vars, NEW s \in Runs, phase[s] = "done"
    PROVE  /\ phase'[s] = "done" /\ result'[s] = result[s] /\ input'[s] = input[s]
           /\ engine'[s] = engine[s] /\ runtime' = runtime
<1>1. /\ phase \in [Runs -> Phases] /\ DOMAIN result = Runs /\ DOMAIN input = Runs
      /\ engine \in [Runs -> {"none", "started", "guest", "simulated"}]
    BY DEF Typed
<1>2. ASSUME NEW r \in Runs, phase[r] # "done", UNCHANGED runtime,
             UNCHANGED phase \/ \E p : phase' = [phase EXCEPT ![r] = p],
             UNCHANGED result \/ \E x : result' = [result EXCEPT ![r] = x],
             UNCHANGED input \/ \E q : input' = [input EXCEPT ![r] = q],
             UNCHANGED engine \/ \E e : engine' = [engine EXCEPT ![r] = e]
      PROVE  /\ phase'[s] = "done" /\ result'[s] = result[s] /\ input'[s] = input[s]
             /\ engine'[s] = engine[s] /\ runtime' = runtime
  <2>1. s # r
      BY <1>2
  <2>2. phase'[s] = phase[s]
      BY <1>1, <1>2, <2>1
  <2>3. result'[s] = result[s]
      BY <1>1, <1>2, <2>1
  <2>4. input'[s] = input[s]
      BY <1>1, <1>2, <2>1
  <2>5. engine'[s] = engine[s]
      BY <1>1, <1>2, <2>1
  <2>6. QED
      BY <1>2, <2>2, <2>3, <2>4, <2>5
<1>3. ASSUME NEW r \in Runs, NEW q \in Requests[runtime.host], Run(r, q)
      PROVE  /\ phase'[s] = "done" /\ result'[s] = result[s] /\ input'[s] = input[s]
             /\ engine'[s] = engine[s] /\ runtime' = runtime
  <2>1. /\ phase[r] = "idle" /\ UNCHANGED <<runtime, engine>>
        /\ input' = [input EXCEPT ![r] = q]
      BY <1>3 DEF Run
  <2>2. /\ \E p : phase' = [phase EXCEPT ![r] = p]
        /\ UNCHANGED result \/ \E x : result' = [result EXCEPT ![r] = x]
      BY <1>3 DEF Run, Resolve
  <2>3. QED
      BY <1>2, <2>1, <2>2
<1>4. ASSUME NEW r \in Runs, TransportRuns(r)
      PROVE  /\ phase'[s] = "done" /\ result'[s] = result[s] /\ input'[s] = input[s]
             /\ engine'[s] = engine[s] /\ runtime' = runtime
  <2>1. /\ phase[r] = "transport" /\ UNCHANGED <<runtime, input>>
        /\ UNCHANGED engine \/ \E e : engine' = [engine EXCEPT ![r] = e]
      BY <1>4 DEF TransportRuns
  <2>2. /\ \E p : phase' = [phase EXCEPT ![r] = p]
        /\ UNCHANGED result \/ \E x : result' = [result EXCEPT ![r] = x]
      BY <1>4 DEF TransportRuns, Resolve
  <2>3. QED
      BY <1>2, <2>1, <2>2
<1>5. ASSUME NEW r \in Runs, Dispatch(r)
      PROVE  /\ phase'[s] = "done" /\ result'[s] = result[s] /\ input'[s] = input[s]
             /\ engine'[s] = engine[s] /\ runtime' = runtime
  <2>1. /\ phase[r] = "integrity" /\ UNCHANGED <<runtime, input>>
        /\ UNCHANGED engine \/ \E e : engine' = [engine EXCEPT ![r] = e]
      BY <1>5 DEF Dispatch
  <2>2. \E p : phase' = [phase EXCEPT ![r] = p]
      BY <1>5 DEF Dispatch, Resolve
  <2>3. UNCHANGED result \/ \E x : result' = [result EXCEPT ![r] = x]
      BY <1>5 DEF Dispatch, Resolve
  <2>4. QED
      BY <1>2, <2>1, <2>2, <2>3
<1>6. ASSUME NEW r \in Runs, Deliver(r)
      PROVE  /\ phase'[s] = "done" /\ result'[s] = result[s] /\ input'[s] = input[s]
             /\ engine'[s] = engine[s] /\ runtime' = runtime
  <2>1. /\ phase[r] = "answered" /\ UNCHANGED <<runtime, input>>
        /\ \E e : engine' = [engine EXCEPT ![r] = e]
      BY <1>6 DEF Deliver
  <2>2. /\ \E p : phase' = [phase EXCEPT ![r] = p]
        /\ \E x : result' = [result EXCEPT ![r] = x]
      BY <1>6 DEF Deliver, Resolve
  <2>3. QED
      BY <1>2, <2>1, <2>2
<1>7. ASSUME NEW r \in Runs, Timeout(r)
      PROVE  /\ phase'[s] = "done" /\ result'[s] = result[s] /\ input'[s] = input[s]
             /\ engine'[s] = engine[s] /\ runtime' = runtime
  <2>1. /\ phase[r] # "done" /\ UNCHANGED <<runtime, input, engine>>
        /\ \E x : result' = [result EXCEPT ![r] = x]
        /\ ReplaceWorker([phase EXCEPT ![r] = "done"], InWorker \cup {"posted"}, "orphan")
      BY <1>7 DEF Timeout, InWorker
  <2>2. phase'[s] = "done"
      BY <1>1, <2>1 DEF ReplaceWorker, InWorker
  <2>3. result'[s] = result[s]
      BY <1>1, <2>1
  <2>4. QED
      BY <2>1, <2>2, <2>3
<1>8. ASSUME NEW r \in Runs, GuestStep(r)
      PROVE  /\ phase'[s] = "done" /\ result'[s] = result[s] /\ input'[s] = input[s]
             /\ engine'[s] = engine[s] /\ runtime' = runtime
  <2>1. phase[r] = "guest" /\ UNCHANGED <<runtime, input, result, engine>>
      BY <1>8 DEF GuestStep, requestVars
  <2>2. UNCHANGED phase \/ \E p \in {"answered", "waiting"} : phase' = [phase EXCEPT ![r] = p]
      BY <1>8, GuestMoves
  <2>3. QED
      BY <1>2, <2>1, <2>2
<1>9. ASSUME NEW r \in Runs, Takes(r) \/ Prepare(r) \/ PackagesSettle(r) \/ Start(r) \/ Resumes(r)
      PROVE  /\ phase'[s] = "done" /\ result'[s] = result[s] /\ input'[s] = input[s]
             /\ engine'[s] = engine[s] /\ runtime' = runtime
  <2>1. /\ UNCHANGED <<runtime, input, result>>
        /\ UNCHANGED engine \/ \E e : engine' = [engine EXCEPT ![r] = e]
      BY <1>9 DEF Takes, Prepare, PackagesSettle, Start, Resumes, requestVars
  <2>2. \E p : phase' = [phase EXCEPT ![r] = p]
      BY <1>9 DEF Takes, Prepare, PackagesSettle, Start, Resumes, Raise
  <2>3. phase[r] # "done"
    <3>1. CASE Takes(r)
        BY <3>1, TakenWasPosted
    <3>2. QED
        BY <1>9, <3>1 DEF Prepare, PackagesSettle, Start, Resumes
  <2>4. QED
      BY <1>2, <2>1, <2>2, <2>3
<1>10. CASE Close
  <2>1. UNCHANGED <<runtime, input, result, engine>>
      BY <1>10 DEF Close, requestVars
  <2>2. phase'[s] = "done"
      BY <1>1, <1>10 DEF Close, ReplaceWorker, InWorker
  <2>3. QED
      BY <2>1, <2>2
<1>11. CASE IntegrityKnown \/ EngineSettles \/ UNCHANGED vars
    BY <1>11 DEF IntegrityKnown, EngineSettles, vars, requestVars
<1>12. QED
    BY <1>3, <1>4, <1>5, <1>6, <1>7, <1>8, <1>9, <1>10, <1>11 DEF Next

\* A simulated run is done, with what simulateRun gives for its request, whose
\* grant the browser has copied.
SimulatedFits ==
    \A r \in Runs :
        engine[r] = "simulated" =>
            /\ phase[r] = "done"
            /\ \E env \in Clocks :
                  ReplayOf(result[r]) = ReplayOf(SimulateRun(Materialize(input[r]), env))

LEMMA SimulatedStep == Inv /\ SimulatedFits /\ [Next]_vars => SimulatedFits'
<1> SUFFICES ASSUME Inv, SimulatedFits, [Next]_vars PROVE SimulatedFits'
    OBVIOUS
<1>1. /\ phase \in [Runs -> Phases] /\ DOMAIN result = Runs /\ DOMAIN input = Runs
      /\ engine \in [Runs -> {"none", "started", "guest", "simulated"}]
      /\ Typed /\ InboxPosted /\ InputsKnown
    BY DEF Inv, Typed
<1>2. ASSUME NEW s \in Runs, engine[s] = "simulated"
      PROVE  /\ phase'[s] = "done"
             /\ \E env \in Clocks :
                   ReplayOf(result'[s]) = ReplayOf(SimulateRun(Materialize(input'[s]), env))
    BY <1>1, <1>2, DoneStays DEF SimulatedFits
<1>3. ASSUME \A s \in Runs : engine'[s] = "simulated" => engine[s] = "simulated" PROVE SimulatedFits'
    BY <1>2, <1>3 DEF SimulatedFits
<1>4. ASSUME NEW r \in Runs, NEW env \in Clocks, NEW x, Resolve(r, x), UNCHANGED input,
             ReplayOf(x) = ReplayOf(SimulateRun(Materialize(input[r]), env)),
             engine' = [engine EXCEPT ![r] = "simulated"]
      PROVE  SimulatedFits'
  <2>1. phase'[r] = "done" /\ result'[r] = x
      BY <1>1, <1>4 DEF Resolve
  <2>2. \A s \in Runs : engine'[s] = "simulated" => s = r \/ engine[s] = "simulated"
      BY <1>1, <1>4
  <2>3. QED
      BY <1>2, <1>4, <2>1, <2>2 DEF SimulatedFits
<1>5. ASSUME NEW r \in Runs, TransportRuns(r) PROVE SimulatedFits'
  <2>1. CASE UNCHANGED engine
      BY <1>3, <2>1
  <2>2. CASE /\ \E env \in Clocks : Resolve(r, SimulateRun(input[r], env))
             /\ engine' = [engine EXCEPT ![r] = "simulated"]
    <3>1. PICK env \in Clocks : Resolve(r, SimulateRun(input[r], env))
        BY <2>2
    <3>2. phase[r] = "transport" /\ UNCHANGED input
        BY <1>5 DEF TransportRuns
    <3>3. input[r].host = runtime.host /\ ~ Browser
        BY <1>1, <3>2, AcceptedRequest DEF InputsKnown
    <3>4. Materialize(input[r]) = input[r]
        BY <3>3 DEF Materialize, RequestedNetwork, Browser
    <3>5. QED
        BY <1>4, <2>2, <3>1, <3>2, <3>4
  <2>3. QED
      BY <1>5, <2>1, <2>2 DEF TransportRuns
<1>6. ASSUME NEW r \in Runs, Dispatch(r) PROVE SimulatedFits'
  <2>1. CASE UNCHANGED engine
      BY <1>3, <2>1
  <2>2. CASE /\ \E env \in Clocks :
                   Resolve(r, WithRuntimeBoundaryAudit(Capabilities,
                           SimulateRun(Materialize(input[r]), env)))
             /\ engine' = [engine EXCEPT ![r] = "simulated"]
    <3>1. PICK env \in Clocks :
                Resolve(r, WithRuntimeBoundaryAudit(Capabilities,
                        SimulateRun(Materialize(input[r]), env)))
        BY <2>2
    <3>2. phase[r] = "integrity" /\ UNCHANGED input
        BY <1>6 DEF Dispatch
    <3>3. EngineMade(SimulateRun(Materialize(input[r]), env))
      <4>1. RunRequest(input[r]) /\ ValidRunRequest(input[r])
          BY <1>1, <3>2, AcceptedRequest
      <4>2. QED
          BY <4>1, MaterializeSimulable, ClocksRead, SimulationMade
    <3>4. ReplayOf(WithRuntimeBoundaryAudit(Capabilities, SimulateRun(Materialize(input[r]), env)))
              = ReplayOf(SimulateRun(Materialize(input[r]), env))
        BY <3>3, BoundaryAdded
    <3>5. QED
        BY <1>4, <2>2, <3>1, <3>2, <3>4
  <2>3. QED
      BY <1>6, <2>1, <2>2 DEF Dispatch
<1>7. ASSUME NEW r \in Runs, Deliver(r) PROVE SimulatedFits'
    BY <1>1, <1>3, <1>7 DEF Deliver
<1>8. ASSUME NEW r \in Runs, Start(r) PROVE SimulatedFits'
    BY <1>1, <1>3, <1>8 DEF Start
<1>9. ASSUME NEW r \in Runs,
             \/ \E q \in Requests[runtime.host] : Run(r, q)
             \/ Timeout(r) \/ Takes(r) \/ Prepare(r) \/ PackagesSettle(r) \/ Resumes(r) \/ GuestStep(r)
      PROVE  SimulatedFits'
  <2>1. UNCHANGED engine
      BY <1>9 DEF Run, Timeout, Takes, Prepare, PackagesSettle, Resumes, GuestStep, requestVars
  <2>2. QED
      BY <1>3, <2>1
<1>10. CASE IntegrityKnown \/ EngineSettles \/ Close \/ UNCHANGED vars
  <2>1. UNCHANGED engine
      BY <1>10 DEF IntegrityKnown, EngineSettles, Close, vars, requestVars
  <2>2. QED
      BY <1>3, <2>1
<1>11. QED
    BY <1>5, <1>6, <1>7, <1>8, <1>9, <1>10 DEF Next

\* The simulated engine refuses as invalid what is not valid, and nothing else.
LEMMA SimulationRefuses ==
    ASSUME NEW q, NEW env
    PROVE  SimulateRun(q, env).error = "AEG-INVALID-REQUEST" <=> ~ ValidRunRequest(q)
<1>1. \A exit, out, err, termination, error, audit, started, ended :
          Result(exit, out, err, termination, error, audit, started, ended).error = error
    BY DEF Result
<1>2. CASE ~ ValidRunRequest(q)
  <2>1. SimulateRun(q, env) = Result(2, <<>>, "invalid_request", "internal_error",
                                     "AEG-INVALID-REQUEST", <<>>, env.started, env.started)
      BY <1>2, Zenon DEF SimulateRun
  <2>2. QED
      BY <1>1, <1>2, <2>1
<1>3. CASE ValidRunRequest(q)
  <2>1. \A chance, audit, started, ended :
            EvaluateRun(q, chance, audit, started, ended).error
                \in {"AEG-TIMEOUT", "AEG-MEMORY-LIMIT", "AEG-POLICY-DENIED", "AEG-OUTPUT-LIMIT", Null}
    <3> SUFFICES ASSUME NEW chance, NEW audit, NEW started, NEW ended
                 PROVE  EvaluateRun(q, chance, audit, started, ended).error
                            \in {"AEG-TIMEOUT", "AEG-MEMORY-LIMIT", "AEG-POLICY-DENIED",
                                 "AEG-OUTPUT-LIMIT", Null}
        OBVIOUS
    <3> DEFINE lines == CollectPrints(q.code, q.determinism, chance)
               out == IF q.code.stdout > 0 THEN <<<<"x", q.code.stdout>>>> \o lines ELSE lines
               err == IF q.code.stderr > 0 THEN "e" ELSE ""
               x == EvaluateRun(q, chance, audit, started, ended)
    <3>1. \/ x = Result(124, <<>>, "wall_time_reached", "timeout", "AEG-TIMEOUT", audit, started,
                        ended)
          \/ x = Result(137, <<>>, "memory_budget_reached", "memory_limit", "AEG-MEMORY-LIMIT",
                        audit, started, ended)
          \/ x = Result(13, <<>>, Judged(q).reason, "policy_denied", "AEG-POLICY-DENIED", audit,
                        started, ended)
          \/ x = Result(122, out, err, "output_limit", "AEG-OUTPUT-LIMIT", audit, started, ended)
          \/ x = Result(0, out, err, "ok", Null, audit, started, ended)
        BY DEF EvaluateRun
    <3> HIDE DEF x, out, err, lines
    <3>2. \/ x.error = "AEG-TIMEOUT" \/ x.error = "AEG-MEMORY-LIMIT"
          \/ x.error = "AEG-POLICY-DENIED" \/ x.error = "AEG-OUTPUT-LIMIT" \/ x.error = Null
        BY <3>1 DEF Result
    <3>3. QED
        BY <3>2 DEF x
  <2>2. \/ \E chance, audit, started, ended :
              SimulateRun(q, env) = EvaluateRun(q, chance, audit, started, ended)
        \/ \E exit, out, err, termination, audit, started, ended :
              SimulateRun(q, env) =
                  Result(exit, out, err, termination, "AEG-POLICY-DENIED", audit, started, ended)
      BY <1>3, Zenon DEF SimulateRun
  <2>3. /\ "AEG-INVALID-REQUEST" \in ErrorCodes
        /\ "AEG-INVALID-REQUEST" \notin {"AEG-TIMEOUT", "AEG-MEMORY-LIMIT", "AEG-POLICY-DENIED",
                                         "AEG-OUTPUT-LIMIT", Null}
      BY ValuesAssumption DEF ErrorCodes, Odd
  <2>4. SimulateRun(q, env).error \in {"AEG-TIMEOUT", "AEG-MEMORY-LIMIT", "AEG-POLICY-DENIED",
                                       "AEG-OUTPUT-LIMIT", Null}
      BY <1>1, <2>1, <2>2
  <2>5. QED
      BY <1>3, <2>3, <2>4
<1>4. QED
    BY <1>2, <1>3

\* The copied grant excludes the requested capability it was copied from.
LEMMA CopyConflicts ==
    ASSUME NEW q, RunRequest(q), ValidRunRequest(q)
    PROVE  ValidRunRequest(Materialize(q)) <=> RequestedNetwork(q) = Undefined
<1> DEFINE p == q.permissions
           c == q.requestedCapabilities
           n == RequestedNetwork(q)
           g == [allowOrigins |-> n.allowOrigins, denyOrigins |-> DenyOrigins(n),
                 maxRequests |-> n.maxRequests, maxBytes |-> n.maxBytes]
           m == [q EXCEPT !.permissions.http = g]
<1>1. CASE n = Undefined
    BY <1>1 DEF Materialize
<1>2. CASE n # Undefined
  <2>1. q.host = "browser" /\ c # Undefined /\ n = c.network
      BY <1>2 DEF RequestedNetwork
  <2>2. /\ ValidRequestedCapabilities(c, TRUE, p) /\ ValidPermissions(p)
      BY <2>1 DEF ValidRunRequest
  <2>3. c \notin Odd /\ ValidNetwork(n) /\ p.http = Null
      BY <1>2, <2>1, <2>2 DEF ValidRequestedCapabilities, IsPresent
  <2>4. p \notin Odd
      BY <2>2 DEF ValidPermissions, IsPresent
  <2>5. /\ p \in [fs : {p.fs}, http : Odd \cup Grant, env : {p.env}]
        /\ n \in Odd \cup Grant
      BY <2>1, <2>3, <2>4 DEF RunRequest
  <2>6. g \in Grant
    <3>1. n \in Grant /\ n.allowOrigins \in Odd \cup SUBSET Origin
          /\ n.denyOrigins \in Odd \cup SUBSET Origin
          /\ n.maxRequests \in Number /\ n.maxBytes \in Number
        BY <2>3, <2>5 DEF ValidNetwork, IsPresent, Grant
    <3>2. DenyOrigins(n) \in Odd \cup SUBSET Origin
        BY <3>1 DEF DenyOrigins
    <3>3. QED
        BY <3>1, <3>2 DEF Grant
  <2>7. g # Null
      BY <2>6, GrantAssumption DEF Odd
  <2>8. Materialize(q) = m
      BY <1>2, <2>3 DEF Materialize
  <2> HIDE DEF g, n
  <2>9. PICK np : np = [p EXCEPT !.http = g]
      OBVIOUS
  <2>10. m = [q EXCEPT !.permissions = np]
      BY <2>9
  <2>11. np.http = g
      BY <2>5, <2>9
  <2>12. m.host = "browser" /\ m.requestedCapabilities = c /\ m.permissions = np
      BY <2>1, <2>10 DEF RunRequest
  <2>13. ~ ValidRequestedCapabilities(c, TRUE, np)
      BY <1>2, <2>1, <2>7, <2>11 DEF ValidRequestedCapabilities
  <2> HIDE DEF m
  <2>14. ~ ValidRunRequest(m)
      BY <2>12, <2>13 DEF ValidRunRequest
  <2>15. QED
      BY <1>2, <2>8, <2>14 DEF n
<1>3. QED
    BY <1>1, <1>2

LEMMA SimulatedHolds == Spec => []SimulatedFits
<1>1. Init => SimulatedFits
    BY DEF Init, SimulatedFits
<1>2. QED
    BY <1>1, InvHolds, SimulatedStep, PTL DEF Spec

\* The fallback refuses an accepted request exactly when it asked for the network.
THEOREM AcceptedThenRefusedHolds == Spec => []AcceptedThenRefused
<1>1. Inv /\ SimulatedFits => AcceptedThenRefused
  <2> SUFFICES ASSUME Inv, SimulatedFits, NEW r \in Done, engine[r] = "simulated"
               PROVE  result[r].error = "AEG-INVALID-REQUEST" <=> RequestedNetwork(input[r]) # Undefined
      BY DEF AcceptedThenRefused
  <2>1. r \in Runs
      BY DEF Done
  <2>2. PICK env \in Clocks :
            ReplayOf(result[r]) = ReplayOf(SimulateRun(Materialize(input[r]), env))
      BY <2>1 DEF SimulatedFits
  <2>3. result[r].error = SimulateRun(Materialize(input[r]), env).error
      BY <2>2 DEF ReplayOf
  <2>4. RunRequest(input[r]) /\ ValidRunRequest(input[r])
      BY <2>1, AcceptedRequest DEF Inv
  <2>5. ValidRunRequest(Materialize(input[r])) <=> RequestedNetwork(input[r]) = Undefined
      BY <2>4, CopyConflicts
  <2>6. QED
      BY <2>3, <2>5, SimulationRefuses
<1>2. QED
    BY <1>1, InvHolds, SimulatedHolds, PTL
-------------------------------------------------------------------------------
(* The guests of the worker.                                               *)

Unstarted == {"idle", "transport", "handed", "integrity", "posted", "engine", "packages", "start"}
Guests    == {"guest", "waiting"}

\* How a run gets into the worker, and to its code.
Enters(s) ==
    /\ phase'[s] \in InWorker => phase[s] \in InWorker \/ Takes(s)
    /\ phase'[s] \in Guests => phase[s] \in Guests \/ Start(s)
    /\ phase'[s] \in Unstarted => phase[s] \in Unstarted
    /\ phase'[s] = "posted" => phase[s] = "posted" \/ integrity = "ok"

LEMMA WorkerEntered ==
    ASSUME Typed, InboxPosted, [Next]_vars, NEW s \in Runs
    PROVE  Enters(s)
<1>1. phase \in [Runs -> Phases]
    BY DEF Typed
<1>2. ASSUME phase'[s] = phase[s] PROVE Enters(s)
    BY <1>2 DEF Enters
<1>3. ASSUME phase'[s] \notin InWorker \cup {"posted"},
             phase'[s] \in Unstarted => phase[s] \in Unstarted
      PROVE  Enters(s)
    BY <1>3 DEF Enters, Guests, InWorker
<1>4. ASSUME NEW r \in Runs, NEW p, phase' = [phase EXCEPT ![r] = p]
      PROVE  (s # r => Enters(s)) /\ (s = r => phase'[s] = p)
    BY <1>1, <1>2, <1>4
<1>5. ASSUME NEW r \in Runs, NEW q \in Requests[runtime.host], Run(r, q) PROVE Enters(s)
  <2>1. phase[r] = "idle" /\ \E p \in {"done", "integrity", "transport"} : phase' = [phase EXCEPT ![r] = p]
      BY <1>5 DEF Run, Resolve
  <2>2. CASE s = r
    <3>1. phase[s] \in Unstarted /\ phase'[s] \in {"done", "integrity", "transport"}
        BY <1>4, <2>1, <2>2 DEF Unstarted
    <3>2. QED
        BY <1>3, <3>1 DEF InWorker
  <2>3. QED
      BY <1>4, <2>1, <2>2
<1>6. ASSUME NEW r \in Runs, TransportRuns(r) PROVE Enters(s)
  <2>1. phase[r] = "transport" /\ \E p \in {"done", "handed"} : phase' = [phase EXCEPT ![r] = p]
      BY <1>6 DEF TransportRuns, Resolve
  <2>2. CASE s = r
    <3>1. phase[s] \in Unstarted /\ phase'[s] \in {"done", "handed"}
        BY <1>4, <2>1, <2>2 DEF Unstarted
    <3>2. QED
        BY <1>3, <3>1 DEF InWorker
  <2>3. QED
      BY <1>4, <2>1, <2>2
<1>7. ASSUME NEW r \in Runs, Dispatch(r) PROVE Enters(s)
  <2>1. /\ phase[r] = "integrity"
        /\ \/ phase' = [phase EXCEPT ![r] = "done"]
           \/ integrity = "ok" /\ phase' = [phase EXCEPT ![r] = "posted"]
      BY <1>7 DEF Dispatch, Resolve
  <2>2. QED
      BY <1>4, <2>1 DEF Unstarted, InWorker, Enters, Guests
<1>8. ASSUME NEW r \in Runs, Deliver(r) PROVE Enters(s)
  <2>1. phase' = [phase EXCEPT ![r] = "done"]
      BY <1>8 DEF Deliver, Resolve
  <2>2. CASE s = r
    <3>1. phase'[s] = "done"
        BY <1>4, <2>1, <2>2
    <3>2. QED
        BY <1>3, <3>1 DEF InWorker, Unstarted
  <2>3. QED
      BY <1>4, <2>1, <2>2
<1>9. ASSUME NEW r \in Runs, Timeout(r) PROVE Enters(s)
  <2>1. phase'[s] = phase[s] \/ phase'[s] = "done" \/ phase'[s] = "orphan"
      BY <1>1, <1>9 DEF Timeout, ReplaceWorker
  <2>2. QED
      BY <1>2, <1>3, <2>1 DEF Unstarted, InWorker
<1>10. ASSUME NEW r \in Runs, Takes(r) PROVE Enters(s)
  <2>1. phase' = [phase EXCEPT ![r] = "engine"] /\ inbox # <<>> /\ Head(inbox) = r
      BY <1>10 DEF Takes
  <2>2. CASE s # r
      BY <1>4, <2>1, <2>2
  <2>3. CASE s = r
    <3>1. phase'[s] = "engine"
        BY <1>4, <2>1, <2>3
    <3>2. phase[s] = "posted"
        BY <1>10, <2>3, TakenWasPosted
    <3>3. QED
        BY <1>10, <2>3, <3>1, <3>2 DEF Enters, Guests, Unstarted
  <2>4. QED
      BY <2>2, <2>3
<1>11. ASSUME NEW r \in Runs, Prepare(r) PROVE Enters(s)
  <2>1. phase[r] = "engine" /\ \E p \in {"answered", "start", "packages"} :
                                  phase' = [phase EXCEPT ![r] = p]
      BY <1>11 DEF Prepare, Raise
  <2>2. QED
      BY <1>4, <2>1 DEF Unstarted, InWorker, Enters, Guests
<1>12. ASSUME NEW r \in Runs, PackagesSettle(r) PROVE Enters(s)
  <2>1. phase[r] = "packages" /\ \E p \in {"answered", "start"} : phase' = [phase EXCEPT ![r] = p]
      BY <1>12 DEF PackagesSettle, Raise
  <2>2. QED
      BY <1>4, <2>1 DEF Unstarted, InWorker, Enters, Guests
<1>13. ASSUME NEW r \in Runs, Start(r) PROVE Enters(s)
  <2>1. phase[r] = "start" /\ phase' = [phase EXCEPT ![r] = "guest"]
      BY <1>13 DEF Start
  <2>2. QED
      BY <1>4, <1>13, <2>1 DEF Unstarted, InWorker, Enters, Guests
<1>14. ASSUME NEW r \in Runs, GuestStep(r) PROVE Enters(s)
  <2>1. phase[r] = "guest"
      BY <1>14 DEF GuestStep
  <2>2. UNCHANGED phase \/ \E p \in {"answered", "waiting"} : phase' = [phase EXCEPT ![r] = p]
      BY <1>14, GuestMoves
  <2>3. QED
      BY <1>2, <1>4, <2>1, <2>2 DEF Unstarted, InWorker, Enters, Guests
<1>15. ASSUME NEW r \in Runs, Resumes(r) PROVE Enters(s)
  <2>1. phase[r] = "waiting" /\ phase' = [phase EXCEPT ![r] = "guest"]
      BY <1>15 DEF Resumes
  <2>2. QED
      BY <1>4, <2>1 DEF Unstarted, InWorker, Enters, Guests
<1>16. CASE Close
  <2>1. phase'[s] = phase[s] \/ phase'[s] = "lost"
      BY <1>1, <1>16 DEF Close, ReplaceWorker
  <2>2. QED
      BY <1>2, <1>3, <2>1 DEF Unstarted, InWorker
<1>17. CASE IntegrityKnown \/ EngineSettles \/ UNCHANGED vars
    BY <1>2, <1>17 DEF IntegrityKnown, EngineSettles, vars
<1>18. QED
    BY <1>5, <1>6, <1>7, <1>8, <1>9, <1>10, <1>11, <1>12, <1>13, <1>14, <1>15, <1>16, <1>17 DEF Next

\* Two runs that are in the worker at once disturb each other.
Apart ==
    \A r, s \in Runs : r # s /\ phase[r] \in InWorker /\ phase[s] \in InWorker => r \in disturbed

LEMMA DisturbedGrows ==
    ASSUME [Next]_vars
    PROVE  disturbed \subseteq disturbed' /\ (UNCHANGED disturbed \/ \E r \in Runs : Takes(r))
<1>1. \A r : Takes(r) => disturbed \subseteq disturbed'
    BY DEF Takes
<1>2. \A r : /\ \A q : Run(r, q) => UNCHANGED disturbed
             /\ TransportRuns(r) \/ Dispatch(r) \/ Deliver(r) \/ Timeout(r) => UNCHANGED disturbed
             /\ Prepare(r) \/ PackagesSettle(r) \/ Start(r) \/ GuestStep(r) \/ Resumes(r) =>
                    UNCHANGED disturbed
    BY DEF Run, TransportRuns, Dispatch, Deliver, Timeout, Prepare, PackagesSettle, Start, GuestStep,
           Resumes
<1>3. IntegrityKnown \/ EngineSettles \/ Close \/ UNCHANGED vars => UNCHANGED disturbed
    BY DEF IntegrityKnown, EngineSettles, Close, vars
<1>4. QED
    BY <1>1, <1>2, <1>3 DEF Next

LEMMA ApartStep == Typed /\ InboxPosted /\ Apart /\ [Next]_vars => Apart'
<1> SUFFICES ASSUME Typed, InboxPosted, Apart, [Next]_vars,
                    NEW r \in Runs, NEW s \in Runs, r # s,
                    phase'[r] \in InWorker, phase'[s] \in InWorker
             PROVE  r \in disturbed'
    BY DEF Apart
<1>1. disturbed \subseteq disturbed'
    BY DisturbedGrows
<1>2. /\ phase[r] \in InWorker \/ Takes(r)
      /\ phase[s] \in InWorker \/ Takes(s)
    BY WorkerEntered DEF Enters
<1>3. CASE phase[r] \in InWorker /\ phase[s] \in InWorker
    BY <1>1, <1>3 DEF Apart
<1>4. ASSUME NEW t \in Runs, NEW u \in Runs, t # u, Takes(t), phase[u] \in InWorker
      PROVE  t \in disturbed' /\ u \in disturbed'
    BY <1>4 DEF Takes
<1>5. CASE Takes(r) /\ Takes(s)
    BY <1>5 DEF Takes
<1>6. QED
    BY <1>2, <1>3, <1>4, <1>5

\* What the steps that are not of a guest leave of the bridge.
BridgeKept ==
    /\ UNCHANGED got
    /\ py'.grant = py.grant /\ py'.used = py.used /\ py'.spent = py.spent

LEMMA BridgeMoves ==
    ASSUME Typed, [Next]_vars
    PROVE  \/ UNCHANGED got /\ \A s \in Runs : phase'[s] \notin InWorker
           \/ \E r \in Runs : Start(r) \/ GuestStep(r)
           \/ BridgeKept
<1>1. PyTyped /\ phase \in [Runs -> Phases]
    BY DEF Typed
<1>2. UNCHANGED <<got, py>> => BridgeKept
    BY DEF BridgeKept
<1>3. ASSUME NEW r \in Runs,
             \/ \E q \in Requests[runtime.host] : Run(r, q)
             \/ TransportRuns(r) \/ Dispatch(r) \/ Deliver(r) \/ Resumes(r)
      PROVE  UNCHANGED <<got, py>>
    BY <1>3 DEF Run, TransportRuns, Dispatch, Deliver, Resumes, workerVars
<1>4. ASSUME NEW r \in Runs, Takes(r) PROVE BridgeKept
  <2>1. PICK l : py' = [py EXCEPT !.out = <<>>, !.tags = {}, !.load = l]
      BY <1>4 DEF Takes
  <2>2. UNCHANGED got
      BY <1>4 DEF Takes
  <2>3. QED
      BY <1>1, <2>1, <2>2 DEF PyTyped, BridgeKept
<1>5. ASSUME NEW r \in Runs, Prepare(r) PROVE BridgeKept
  <2>1. UNCHANGED got /\ (UNCHANGED py \/ py' = [py EXCEPT !.bridged = TRUE])
      BY <1>5 DEF Prepare
  <2>2. QED
      BY <1>1, <2>1 DEF PyTyped, BridgeKept
<1>6. ASSUME NEW r \in Runs, PackagesSettle(r) PROVE BridgeKept
  <2>1. UNCHANGED got /\ (UNCHANGED py \/ \E l : py' = [py EXCEPT !.loaded = l])
      BY <1>6 DEF PackagesSettle
  <2>2. QED
      BY <1>1, <2>1 DEF PyTyped, BridgeKept
<1>7. CASE EngineSettles
  <2>1. UNCHANGED got /\ \E l : py' = [py EXCEPT !.load = l]
      BY <1>7 DEF EngineSettles
  <2>2. QED
      BY <1>1, <2>1 DEF PyTyped, BridgeKept
<1>8. CASE IntegrityKnown \/ UNCHANGED vars
    BY <1>2, <1>8 DEF IntegrityKnown, vars, workerVars
<1>9. ASSUME NEW r \in Runs, Timeout(r)
      PROVE  UNCHANGED got /\ \A s \in Runs : phase'[s] \notin InWorker
    BY <1>9 DEF Timeout, ReplaceWorker, InWorker
<1>10. CASE Close
    BY <1>10 DEF Close, ReplaceWorker, InWorker
<1>11. QED
    BY <1>2, <1>3, <1>4, <1>5, <1>6, <1>7, <1>8, <1>9, <1>10 DEF Next

\* What the interpreter has loaded passed the check of the packages.
Vouched ==
    /\ integrity = "ok" => PackagesSelected(runtime.packages, runtime.lockfile)
    /\ py.loaded # {} => integrity = "ok"
    /\ \A r \in Runs : phase[r] \in InWorker \cup {"posted"} => integrity = "ok"

LEMMA LoadedMoves ==
    ASSUME Typed, [Next]_vars
    PROVE  py'.loaded = py.loaded \/ py'.loaded = {} \/ \E r \in Runs : PackagesSettle(r)
<1>1. PyTyped
    BY DEF Typed
<1>2. ASSUME NEW r \in Runs,
             \/ \E q \in Requests[runtime.host] : Run(r, q)
             \/ TransportRuns(r) \/ Dispatch(r) \/ Deliver(r) \/ Resumes(r)
      PROVE  UNCHANGED py
    BY <1>2 DEF Run, TransportRuns, Dispatch, Deliver, Resumes, workerVars
<1>3. ASSUME NEW r \in Runs, Takes(r) PROVE py'.loaded = py.loaded
  <2>1. PICK l : py' = [py EXCEPT !.out = <<>>, !.tags = {}, !.load = l]
      BY <1>3 DEF Takes
  <2>2. QED
      BY <1>1, <2>1 DEF PyTyped
<1>4. ASSUME NEW r \in Runs, Prepare(r) PROVE py'.loaded = py.loaded
  <2>1. UNCHANGED py \/ py' = [py EXCEPT !.bridged = TRUE]
      BY <1>4 DEF Prepare
  <2>2. QED
      BY <1>1, <2>1 DEF PyTyped
<1>5. ASSUME NEW r \in Runs, Start(r) PROVE py'.loaded = py.loaded
    BY <1>1, <1>5 DEF PyTyped, Start, Bridged, Patched
<1>6. ASSUME NEW r \in Runs, GuestStep(r) PROVE py'.loaded = py.loaded
  <2>1. \A raised : Fails(r, raised) => py'.loaded = py.loaded
      BY <1>1 DEF Fails, PyTyped
  <2>2. Prints(r) => py'.loaded = py.loaded
      BY <1>1 DEF Prints, PyTyped
  <2>3. HttpGet(r) => py'.loaded = py.loaded
      BY <1>1, <2>1 DEF HttpGet, HttpGetSync, PyTyped
  <2>4. GuestFails(r) => py'.loaded = py.loaded
      BY <2>1 DEF GuestFails
  <2>5. Awaits(r) \/ Finishes(r) => UNCHANGED py
      BY DEF Awaits, Finishes
  <2>6. QED
      BY <1>6, <2>2, <2>3, <2>4, <2>5 DEF GuestStep
<1>7. CASE EngineSettles
  <2>1. \E l : py' = [py EXCEPT !.load = l]
      BY <1>7 DEF EngineSettles
  <2>2. QED
      BY <1>1, <2>1 DEF PyTyped
<1>8. CASE IntegrityKnown \/ UNCHANGED vars
    BY <1>8 DEF IntegrityKnown, vars, workerVars
<1>9. ASSUME NEW r \in Runs, Timeout(r) PROVE py'.loaded = {}
    BY <1>9 DEF Timeout, ReplaceWorker, Fresh
<1>10. CASE Close
    BY <1>10 DEF Close, ReplaceWorker, Fresh
<1>11. QED
    BY <1>2, <1>3, <1>4, <1>5, <1>6, <1>7, <1>8, <1>9, <1>10 DEF Next

LEMMA IntegrityMoves ==
    ASSUME [Next]_vars
    PROVE  /\ UNCHANGED runtime
           /\ integrity = "ok" => integrity' = "ok"
           /\ integrity' = "ok" => integrity = "ok" \/ IntegrityKnown
<1>1. ASSUME NEW r \in Runs, NEW q \in Requests[runtime.host], Run(r, q)
      PROVE  UNCHANGED runtime /\ (integrity = "ok" <=> integrity' = "ok")
  <2>1. UNCHANGED runtime /\ (UNCHANGED integrity \/
                              integrity' = IF Browser /\ integrity = "none" THEN "pending" ELSE integrity)
      BY <1>1 DEF Run
  <2>2. QED
      BY <2>1
<1>2. ASSUME NEW r \in Runs,
             \/ TransportRuns(r) \/ Dispatch(r) \/ Deliver(r) \/ Timeout(r) \/ Takes(r)
             \/ Prepare(r) \/ PackagesSettle(r) \/ Start(r) \/ GuestStep(r) \/ Resumes(r)
      PROVE  UNCHANGED <<runtime, integrity>>
    BY <1>2 DEF TransportRuns, Dispatch, Deliver, Timeout, Takes, Prepare, PackagesSettle, Start,
                GuestStep, Resumes, requestVars
<1>3. CASE EngineSettles \/ Close \/ UNCHANGED vars
    BY <1>3 DEF EngineSettles, Close, vars, requestVars
<1>4. CASE IntegrityKnown
    BY <1>4 DEF IntegrityKnown, requestVars
<1>5. QED
    BY <1>1, <1>2, <1>3, <1>4 DEF Next

LEMMA VouchedStep == Typed /\ InboxPosted /\ Vouched /\ [Next]_vars => Vouched'
<1> SUFFICES ASSUME Typed, InboxPosted, Vouched, [Next]_vars PROVE Vouched'
    OBVIOUS
<1>1. /\ UNCHANGED runtime
      /\ integrity = "ok" => integrity' = "ok"
      /\ integrity' = "ok" => integrity = "ok" \/ IntegrityKnown
    BY IntegrityMoves
<1>2. integrity' = "ok" => PackagesSelected(runtime'.packages, runtime'.lockfile)
  <2>1. IntegrityKnown => (integrity' = "ok" => PackagesSelected(runtime.packages, runtime.lockfile))
      BY DEF IntegrityKnown
  <2>2. QED
      BY <1>1, <2>1 DEF Vouched
<1>3. ASSUME NEW r \in Runs, phase'[r] \in InWorker \cup {"posted"} PROVE integrity' = "ok"
  <2>1. phase[r] \in InWorker \/ Takes(r) \/ phase[r] = "posted" \/ integrity = "ok"
      BY <1>3, WorkerEntered DEF Enters
  <2>2. Takes(r) => phase[r] = "posted"
      BY TakenWasPosted
  <2>3. QED
      BY <1>1, <2>1, <2>2 DEF Vouched
<1>4. py'.loaded # {} => integrity' = "ok"
  <2>1. ASSUME NEW r \in Runs, PackagesSettle(r) PROVE integrity = "ok"
      BY <2>1 DEF PackagesSettle, Vouched, InWorker
  <2>2. py'.loaded = py.loaded \/ py'.loaded = {} \/ integrity = "ok"
      BY <2>1, LoadedMoves
  <2>3. QED
      BY <1>1, <2>2 DEF Vouched
<1>5. QED
    BY <1>2, <1>3, <1>4 DEF Vouched, PackagesSelected, VerifyBrowserLockfile

\* A guest's step leaves the bridge alone, or returns a response it lets through.
Responds(r, url, size) ==
    /\ py.grant # Null /\ ~ BridgeRefuses(py.grant, py.used, url)
    /\ ~ BytesExceeded(py.grant, py.spent, size)
    /\ py'.grant = py.grant /\ py'.used = py.used + 1 /\ py'.spent = py.spent + size
    /\ got' = [got EXCEPT ![r] = [responses |-> got[r].responses + 1, bytes |-> got[r].bytes + size,
                                  origins |-> got[r].origins \cup {BridgeOrigin(url)}]]

LEMMA GuestBridge ==
    ASSUME Typed, NEW r \in Runs, GuestStep(r)
    PROVE  BridgeKept \/ \E url : \E size \in PayloadSizes : Responds(r, url, size)
<1>1. PyTyped
    BY DEF Typed
<1>2. \A raised : Fails(r, raised) /\ UNCHANGED got => BridgeKept
    BY <1>1 DEF Fails, PyTyped, BridgeKept
<1>3. Prints(r) => BridgeKept
    BY <1>1 DEF Prints, PyTyped, BridgeKept
<1>4. GuestFails(r) => BridgeKept
    BY <1>2 DEF GuestFails
<1>5. Awaits(r) \/ Finishes(r) => BridgeKept
    BY DEF Awaits, Finishes, BridgeKept
<1>6. CASE HttpGet(r)
  <2>1. CASE \E raised : Fails(r, raised) /\ UNCHANGED got
      BY <1>2, <2>1
  <2>2. CASE /\ py.grant # Null /\ ~ BridgeRefuses(py.grant, py.used, Call(r).target)
             /\ HttpGetSync(r) /\ ~ \E raised : Fails(r, raised) /\ UNCHANGED got
    <3>1. PICK size \in PayloadSizes :
              /\ ~ BytesExceeded(py.grant, py.spent, size)
              /\ py' = [py EXCEPT !.used = @ + 1, !.spent = @ + size]
              /\ got' = [got EXCEPT ![r] =
                   [responses |-> @.responses + 1, bytes |-> @.bytes + size,
                    origins |-> @.origins \cup {BridgeOrigin(Call(r).target)}]]
        BY <2>2 DEF HttpGetSync
    <3>2. py'.grant = py.grant /\ py'.used = py.used + 1 /\ py'.spent = py.spent + size
        BY <1>1, <3>1 DEF PyTyped
    <3>3. PICK url : url = Call(r).target
        OBVIOUS
    <3>4. Responds(r, url, size)
        BY <2>2, <3>1, <3>2, <3>3 DEF Responds
    <3>5. QED
        BY <3>4
  <2>3. QED
      BY <1>6, <2>1, <2>2 DEF HttpGet
<1>7. QED
    BY <1>3, <1>4, <1>5, <1>6 DEF GuestStep

LEMMA InputKept ==
    ASSUME Typed, [Next]_vars, NEW r \in Runs
    PROVE  input'[r] = input[r] \/ phase[r] = "idle"
<1>1. DOMAIN input = Runs
    BY DEF Typed
<1>2. ASSUME NEW s \in Runs, NEW q \in Requests[runtime.host], Run(s, q)
      PROVE  input'[r] = input[r] \/ phase[r] = "idle"
    BY <1>1, <1>2 DEF Run
<1>3. ASSUME NEW s \in Runs,
             \/ TransportRuns(s) \/ Dispatch(s) \/ Deliver(s) \/ Timeout(s) \/ Takes(s)
             \/ Prepare(s) \/ PackagesSettle(s) \/ Start(s) \/ GuestStep(s) \/ Resumes(s)
      PROVE  UNCHANGED input
    BY <1>3 DEF TransportRuns, Dispatch, Deliver, Timeout, Takes, Prepare, PackagesSettle, Start,
                GuestStep, Resumes, requestVars
<1>4. CASE IntegrityKnown \/ EngineSettles \/ Close \/ UNCHANGED vars
    BY <1>4 DEF IntegrityKnown, EngineSettles, Close, vars, requestVars
<1>5. QED
    BY <1>2, <1>3, <1>4 DEF Next

\* What the network gave to g is within the grant n.
Within(g, n) ==
    /\ g.responses > 0 => /\ n.maxRequests > 0 => g.responses <= n.maxRequests
                          /\ n.maxBytes > 0 => g.bytes <= n.maxBytes
    /\ g.origins \cap DenyOrigins(n) = {}
    /\ n.allowOrigins # {} => g.origins \subseteq n.allowOrigins

NothingGot(g) == g.responses = 0 /\ g.bytes = 0 /\ g.origins = {}

\* The bridge of an undisturbed guest is its own, and counts what it got.
OwnBridge(r) ==
    /\ py.grant = RequestedNetwork(input[r])
    /\ py.used = got[r].responses /\ py.spent = got[r].bytes

GuestsWithin ==
    \A r \in Runs :
        /\ phase[r] \in Unstarted => NothingGot(got[r])
        /\ r \notin disturbed /\ RequestedNetwork(input[r]) # Undefined =>
              /\ Within(got[r], RequestedNetwork(input[r]))
              /\ phase[r] \in Guests => OwnBridge(r)

LEMMA ResponseWithin ==
    ASSUME Typed, InputsKnown, NEW r \in Runs, phase[r] = "guest",
           RequestedNetwork(input[r]) # Undefined, OwnBridge(r),
           Within(got[r], RequestedNetwork(input[r])),
           NEW url, NEW size \in PayloadSizes, Responds(r, url, size)
    PROVE  /\ Within(got'[r], RequestedNetwork(input[r]))
           /\ py'.grant = RequestedNetwork(input[r])
           /\ py'.used = got'[r].responses /\ py'.spent = got'[r].bytes
<1> DEFINE n == RequestedNetwork(input[r])
           o == BridgeOrigin(url)
<1>1. RunRequest(input[r]) /\ ValidRunRequest(input[r])
    BY AcceptedRequest
<1>2. n.maxRequests \in Nat /\ n.maxBytes \in Nat
  <2>1. n = input[r].requestedCapabilities.network /\ input[r].requestedCapabilities # Undefined
      BY DEF RequestedNetwork
  <2>2. ValidNetwork(n) /\ input[r].requestedCapabilities \notin Odd
      BY <1>1, <2>1 DEF ValidRunRequest, ValidRequestedCapabilities, IsPresent
  <2>3. n \in Grant
      BY <1>1, <2>1, <2>2 DEF RunRequest, ValidNetwork, IsPresent
  <2>4. n.maxRequests \in Odd \cup Int /\ n.maxBytes \in Odd \cup Int
      BY <2>3 DEF Grant, Number
  <2>5. QED
      BY <2>2, <2>4 DEF ValidNetwork, IsNumber, IsPresent
<1>3. /\ py.grant = n /\ py.used = got[r].responses /\ py.spent = got[r].bytes
      /\ got[r].responses \in Nat /\ got[r].bytes \in Nat /\ size \in Nat
    BY SizesAreNumbers DEF OwnBridge, Typed, GotTyped
<1>4. /\ got'[r].responses = got[r].responses + 1 /\ got'[r].bytes = got[r].bytes + size
      /\ got'[r].origins = got[r].origins \cup {o}
    BY DEF Responds, Typed, GotTyped
<1>5. /\ py'.grant = n /\ py'.used = got'[r].responses /\ py'.spent = got'[r].bytes
    BY <1>3, <1>4 DEF Responds
<1>6. /\ n.maxRequests > 0 => py.used < n.maxRequests
      /\ n.maxBytes > 0 => py.spent + size <= n.maxBytes
      /\ o \notin DenyOrigins(n)
      /\ n.allowOrigins # {} => o \in n.allowOrigins
  <2>1. ~ BridgeRefuses(n, py.used, url) /\ ~ BytesExceeded(n, py.spent, size)
      BY <1>3 DEF Responds
  <2>2. /\ o \notin DenyOrigins(n)
        /\ n.allowOrigins # {} => o \in n.allowOrigins
        /\ ~ RequestsExhausted(n, py.used)
      BY <2>1 DEF BridgeRefuses
  <2>3. /\ n.maxRequests > 0 => py.used < n.maxRequests
        /\ n.maxBytes > 0 => py.spent + size <= n.maxBytes
      BY <1>2, <1>3, <2>1, <2>2 DEF RequestsExhausted, BytesExceeded
  <2>4. QED
      BY <2>2, <2>3
<1> HIDE DEF n, o
<1>7. got[r].origins \cap DenyOrigins(n) = {}
      /\ (n.allowOrigins # {} => got[r].origins \subseteq n.allowOrigins)
    BY DEF Within, n
<1>8. /\ n.maxRequests > 0 => got'[r].responses <= n.maxRequests
      /\ n.maxBytes > 0 => got'[r].bytes <= n.maxBytes
    BY <1>2, <1>3, <1>4, <1>6
<1>9. /\ got'[r].origins \cap DenyOrigins(n) = {}
      /\ n.allowOrigins # {} => got'[r].origins \subseteq n.allowOrigins
    BY <1>4, <1>6, <1>7
<1>10. Within(got'[r], n)
    BY <1>8, <1>9 DEF Within
<1>11. QED
    BY <1>5, <1>10 DEF n

LEMMA GuestsStep ==
    ASSUME Inv, Apart, GuestsWithin, [Next]_vars
    PROVE  GuestsWithin'
<1>1. /\ Typed /\ InputsKnown /\ InboxPosted /\ DOMAIN got = Runs /\ phase \in [Runs -> Phases]
    BY DEF Inv, Typed, GotTyped
<1> SUFFICES ASSUME NEW r \in Runs
             PROVE  /\ phase'[r] \in Unstarted => NothingGot(got'[r])
                    /\ r \notin disturbed' /\ RequestedNetwork(input'[r]) # Undefined =>
                          /\ Within(got'[r], RequestedNetwork(input'[r]))
                          /\ phase'[r] \in Guests =>
                                 /\ py'.grant = RequestedNetwork(input'[r])
                                 /\ py'.used = got'[r].responses /\ py'.spent = got'[r].bytes
    BY DEF GuestsWithin, OwnBridge
<1>2. /\ phase[r] \in Unstarted => NothingGot(got[r])
      /\ r \notin disturbed /\ RequestedNetwork(input[r]) # Undefined =>
            /\ Within(got[r], RequestedNetwork(input[r]))
            /\ phase[r] \in Guests => OwnBridge(r)
    BY DEF GuestsWithin
<1>3. /\ phase'[r] \in Guests => phase[r] \in Guests \/ Start(r)
      /\ phase'[r] \in Unstarted => phase[r] \in Unstarted
    BY <1>1, WorkerEntered DEF Enters
<1>4. /\ r \notin disturbed' => r \notin disturbed
      /\ input'[r] = input[r] \/ phase[r] = "idle"
    BY <1>1, DisturbedGrows, InputKept
<1>5. \A n : NothingGot(got[r]) => Within(got[r], n)
    BY DEF NothingGot, Within
<1>6. ASSUME got'[r] = got[r]
      PROVE  /\ phase'[r] \in Unstarted => NothingGot(got'[r])
             /\ r \notin disturbed' /\ RequestedNetwork(input'[r]) # Undefined =>
                   Within(got'[r], RequestedNetwork(input'[r]))
  <2>1. CASE phase[r] = "idle"
      BY <1>2, <1>3, <1>5, <1>6, <2>1 DEF Unstarted
  <2>2. CASE input'[r] = input[r]
      BY <1>2, <1>3, <1>4, <1>6, <2>2
  <2>3. QED
      BY <1>4, <2>1, <2>2
<1>7. CASE UNCHANGED got /\ \A s \in Runs : phase'[s] \notin InWorker
    BY <1>6, <1>7 DEF Guests, InWorker
<1>8. CASE BridgeKept /\ ~ Start(r)
  <2>1. got'[r] = got[r] /\ py'.grant = py.grant /\ py'.used = py.used /\ py'.spent = py.spent
      BY <1>8 DEF BridgeKept
  <2>2. ASSUME phase'[r] \in Guests, r \notin disturbed', RequestedNetwork(input'[r]) # Undefined
        PROVE  /\ py'.grant = RequestedNetwork(input'[r])
               /\ py'.used = got'[r].responses /\ py'.spent = got'[r].bytes
    <3>1. phase[r] \in Guests /\ input'[r] = input[r]
        BY <1>3, <1>4, <1>8, <2>2 DEF Guests
    <3>2. OwnBridge(r)
        BY <1>2, <1>4, <2>2, <3>1
    <3>3. QED
        BY <2>1, <3>1, <3>2 DEF OwnBridge
  <2>3. QED
      BY <1>6, <2>1, <2>2
<1>9. CASE Start(r)
  <2>1. /\ phase[r] = "start" /\ got'[r] = got[r] /\ input'[r] = input[r]
        /\ py' = Bridged(Patched(py, input[r].determinism), RequestedNetwork(input[r]))
      BY <1>9 DEF Start
  <2>2. NothingGot(got[r])
      BY <1>2, <2>1 DEF Unstarted
  <2>3. ASSUME RequestedNetwork(input[r]) # Undefined
        PROVE  py'.grant = RequestedNetwork(input[r]) /\ py'.used = 0 /\ py'.spent = 0
    <3>1. PICK p : p = Patched(py, input[r].determinism)
        OBVIOUS
    <3>2. {"grant", "used", "spent"} \subseteq DOMAIN p
      <4>1. PyTyped
          BY <1>1 DEF Typed
      <4>2. {"grant", "used", "spent"} \subseteq DOMAIN py
          BY <4>1 DEF PyTyped
      <4>3. QED
          BY <3>1, <4>2 DEF Patched
    <3>3. py' = [p EXCEPT !.grant = RequestedNetwork(input[r]), !.used = 0, !.spent = 0]
        BY <2>1, <2>3, <3>1 DEF Bridged
    <3>4. QED
        BY <3>2, <3>3
  <2>4. QED
      BY <1>6, <2>1, <2>2, <2>3 DEF NothingGot
<1>10. ASSUME NEW t \in Runs, t # r, Start(t) \/ GuestStep(t), ~ Start(r)
       PROVE  /\ phase'[r] \in Unstarted => NothingGot(got'[r])
              /\ r \notin disturbed' /\ RequestedNetwork(input'[r]) # Undefined =>
                    /\ Within(got'[r], RequestedNetwork(input'[r]))
                    /\ phase'[r] \in Guests =>
                           /\ py'.grant = RequestedNetwork(input'[r])
                           /\ py'.used = got'[r].responses /\ py'.spent = got'[r].bytes
  <2>1. got'[r] = got[r]
    <3>1. CASE Start(t)
        BY <3>1 DEF Start
    <3>2. CASE GuestStep(t)
      <4>1. BridgeKept \/ \E url : \E size \in PayloadSizes : Responds(t, url, size)
          BY <1>1, <3>2, GuestBridge
      <4>2. QED
          BY <1>1, <1>10, <4>1 DEF BridgeKept, Responds
    <3>3. QED
        BY <1>10, <3>1, <3>2
  <2>2. phase[t] \in InWorker
      BY <1>10 DEF Start, GuestStep, InWorker
  <2>3. phase'[r] \in Guests => phase[r] \in InWorker
      BY <1>3, <1>10 DEF Guests, InWorker
  <2>4. phase'[r] \in Guests => r \in disturbed
      BY <1>10, <2>2, <2>3 DEF Apart
  <2>5. QED
      BY <1>4, <1>6, <2>1, <2>4
<1>11. CASE GuestStep(r) /\ ~ Start(r)
  <2>1. phase[r] = "guest" /\ input'[r] = input[r] /\ disturbed' = disturbed
      BY <1>11 DEF GuestStep, requestVars
  <2>2. CASE BridgeKept
      BY <1>8, <1>11, <2>2
  <2>3. ASSUME NEW url, NEW size \in PayloadSizes, Responds(r, url, size)
        PROVE  /\ phase'[r] \notin Unstarted
               /\ r \notin disturbed' /\ RequestedNetwork(input'[r]) # Undefined =>
                     /\ Within(got'[r], RequestedNetwork(input'[r]))
                     /\ phase'[r] \in Guests =>
                            /\ py'.grant = RequestedNetwork(input'[r])
                            /\ py'.used = got'[r].responses /\ py'.spent = got'[r].bytes
    <3>1. phase'[r] \notin Unstarted
        BY <1>3, <2>1 DEF Unstarted
    <3>2. ASSUME r \notin disturbed, RequestedNetwork(input[r]) # Undefined
          PROVE  /\ Within(got'[r], RequestedNetwork(input[r]))
                 /\ py'.grant = RequestedNetwork(input[r])
                 /\ py'.used = got'[r].responses /\ py'.spent = got'[r].bytes
      <4>1. OwnBridge(r) /\ Within(got[r], RequestedNetwork(input[r]))
          BY <1>2, <2>1, <3>2 DEF Guests
      <4>2. QED
          BY <1>1, <2>1, <2>3, <3>2, <4>1, ResponseWithin
    <3>3. QED
        BY <2>1, <3>1, <3>2
  <2>4. BridgeKept \/ \E url : \E size \in PayloadSizes : Responds(r, url, size)
      BY <1>1, <1>11, GuestBridge
  <2>5. QED
      BY <2>2, <2>3, <2>4
<1>12. QED
  <2>1. \/ UNCHANGED got /\ \A s \in Runs : phase'[s] \notin InWorker
        \/ \E t \in Runs : Start(t) \/ GuestStep(t)
        \/ BridgeKept
      BY <1>1, BridgeMoves
  <2>2. QED
      BY <1>7, <1>8, <1>9, <1>10, <1>11, <2>1

LEMMA WorkerHolds == Spec => [](Apart /\ Vouched /\ GuestsWithin)
<1>1. Init => Apart /\ Vouched /\ GuestsWithin
  <2> SUFFICES ASSUME Init PROVE Apart /\ Vouched /\ GuestsWithin
      OBVIOUS
  <2>1. Apart
      BY DEF Init, Apart, InWorker
  <2>2. Vouched
      BY DEF Init, Vouched, Fresh, InWorker
  <2>3. \A r \in Runs : NothingGot(got[r]) /\ phase[r] = "idle"
      BY DEF Init, NothingGot
  <2>4. \A r \in Runs : \A n : Within(got[r], n)
      BY <2>3 DEF NothingGot, Within
  <2>5. GuestsWithin
      BY <2>3, <2>4 DEF GuestsWithin, Guests
  <2>6. QED
      BY <2>1, <2>2, <2>5
<1>2. Inv /\ (Apart /\ Vouched /\ GuestsWithin) /\ [Next]_vars => (Apart /\ Vouched /\ GuestsWithin)'
    BY ApartStep, VouchedStep, GuestsStep DEF Inv
<1>3. QED
    BY <1>1, <1>2, InvHolds, PTL DEF Spec

\* A guest that was not overlapped gets from the network what its request
\* grants, and the packages in the interpreter are pinned.
THEOREM GuestWithinGrantHolds == Spec => []GuestWithinGrant
<1>1. Typed /\ Vouched /\ GuestsWithin => GuestWithinGrant
  <2> SUFFICES ASSUME Typed, Vouched, GuestsWithin PROVE GuestWithinGrant
      OBVIOUS
  <2>1. \A r \in Runs \ disturbed :
           RequestedNetwork(input[r]) # Undefined => Within(got[r], RequestedNetwork(input[r]))
      BY DEF GuestsWithin
  <2>2. ASSUME py.loaded # {}
        PROVE  /\ VerifyBrowserLockfile(runtime.lockfile)
               /\ py.loaded \subseteq PinnedNames(runtime.lockfile)
    <3>1. PackagesSelected(runtime.packages, runtime.lockfile)
        BY <2>2 DEF Vouched
    <3>2. py.loaded \subseteq runtime.packages
        BY DEF Typed, PyTyped
    <3>3. QED
        BY <2>2, <3>1, <3>2 DEF PackagesSelected
  <2>3. QED
      BY <2>1, <2>2 DEF GuestWithinGrant, Within
<1>2. Inv => Typed
    BY DEF Inv
<1>3. QED
    BY <1>1, <1>2, InvHolds, WorkerHolds, PTL
===============================================================================
