------------------------------- MODULE Induction -------------------------------
(***************************************************************************)
(* Induction over the natural numbers as a fact about sets of numbers,     *)
(* from the well-foundedness of < on Nat.  The proofs about recursive      *)
(* functions use it: the set is that of the numbers up to which a claim    *)
(* holds.                                                                  *)
(***************************************************************************)
EXTENDS Picking, WellFoundedInduction, SequenceTheorems, TLAPS

NatLess == {p \in Nat \X Nat : p[1] < p[2]}

LEMMA NatLessWellFounded == IsWellFoundedOn(NatLess, Nat)
<1>1. NatLess = OpToRel(<, Nat)
    BY DEF NatLess, OpToRel
<1>2. QED
    BY <1>1, NatLessThanWellFounded

\* A set of numbers that is not empty has a least one.
LEMMA LeastNumber ==
    ASSUME NEW T \in SUBSET Nat, T # {}
    PROVE  \E n \in T : \A m \in T : n <= m
<1>1. PICK n \in T : \A m \in T : ~ (<<m, n>> \in NatLess)
    BY NatLessWellFounded, WFMin
<1>2. \A m \in Nat : m < n => <<m, n>> \in NatLess
    BY DEF NatLess
<1>3. ASSUME NEW m \in T PROVE n <= m
  <2>1. ~ (m < n) /\ n \in Nat /\ m \in Nat
      BY <1>1, <1>2
  <2>2. QED
      BY <2>1
<1>4. QED
    BY <1>3

\* A set that holds 0, and with every number the next one, holds all.
LEMMA SetInduction ==
    ASSUME NEW T, 0 \in T, \A n \in Nat : n \in T => n + 1 \in T
    PROVE  Nat \subseteq T
<1> SUFFICES ASSUME Nat \ T # {} PROVE FALSE
    OBVIOUS
<1>1. PICK n \in Nat \ T : \A m \in Nat \ T : n <= m
    BY LeastNumber
<1>2. n # 0 /\ n - 1 \in Nat /\ n - 1 \notin Nat \ T
    BY <1>1
<1>3. QED
    BY <1>2
-------------------------------------------------------------------------------
(* Array.filter.                                                           *)

PickStep(s, is, picked, i) ==
    IF i = 0 THEN <<>>
    ELSE IF i \in is THEN Append(picked[i - 1], s[i]) ELSE picked[i - 1]

\* The recursion has a solution, so PickedUpTo is one.
LEMMA PickedUnfolds ==
    ASSUME NEW s, NEW is, Len(s) \in Nat
    PROVE  PickedUpTo(s, is) = [i \in 0..Len(s) |-> PickStep(s, is, PickedUpTo(s, is), i)]
<1> DEFINE T == {n \in Nat : \E picked : picked = [i \in 0..n |-> PickStep(s, is, picked, i)]}
<1>1. 0 \in T
  <2>1. [i \in 0..0 |-> <<>>] = [i \in 0..0 |-> PickStep(s, is, [j \in 0..0 |-> <<>>], i)]
      BY DEF PickStep
  <2>2. QED
      BY <2>1
<1>2. ASSUME NEW n \in Nat, n \in T PROVE n + 1 \in T
  <2>1. PICK picked : picked = [i \in 0..n |-> PickStep(s, is, picked, i)]
      BY <1>2
  <2> DEFINE more == [i \in 0..n + 1 |-> IF i = n + 1 THEN PickStep(s, is, picked, n + 1)
                                         ELSE picked[i]]
  <2>2. ASSUME NEW i \in 0..n + 1 PROVE more[i] = PickStep(s, is, more, i)
    <3>1. i = 0 \/ (i - 1 \in 0..n + 1 /\ i - 1 # n + 1)
        OBVIOUS
    <3>2. i = 0 \/ more[i - 1] = picked[i - 1]
        BY <3>1
    <3>3. more[i] = IF i = n + 1 THEN PickStep(s, is, picked, n + 1) ELSE picked[i]
        OBVIOUS
    <3>4. i = n + 1 \/ i \in 0..n
        OBVIOUS
    <3>5. i \in 0..n => picked[i] = PickStep(s, is, picked, i)
        BY <2>1
    <3> HIDE DEF more
    <3>6. PickStep(s, is, more, i) = PickStep(s, is, picked, i)
      <4>1. CASE i = 0
          BY <4>1, Zenon DEF PickStep
      <4>2. CASE more[i - 1] = picked[i - 1]
          BY <4>2, Zenon DEF PickStep
      <4>3. QED
          BY <3>2, <4>1, <4>2
    <3>7. QED
        BY <3>3, <3>4, <3>5, <3>6
  <2>3. more = [i \in 0..n + 1 |-> PickStep(s, is, more, i)]
      BY <2>2
  <2> HIDE DEF more
  <2>4. QED
      BY <2>3
<1>3. Len(s) \in T
  <2> HIDE DEF T
  <2>1. Nat \subseteq T
      BY <1>1, <1>2, SetInduction
  <2>2. QED
      BY <2>1
<1>4. PICK picked : picked = [i \in 0..Len(s) |-> PickStep(s, is, picked, i)]
    BY <1>3
<1>5. QED
    BY <1>4 DEF PickedUpTo, PickStep

LEMMA PickedSteps ==
    ASSUME NEW s, NEW is, Len(s) \in Nat
    PROVE  /\ PickedUpTo(s, is)[0] = <<>>
           /\ \A i \in 0..Len(s) - 1 :
                 PickedUpTo(s, is)[i + 1] =
                     IF i + 1 \in is THEN Append(PickedUpTo(s, is)[i], s[i + 1])
                     ELSE PickedUpTo(s, is)[i]
<1>1. \A i \in 0..Len(s) : PickedUpTo(s, is)[i] = PickStep(s, is, PickedUpTo(s, is), i)
    BY PickedUnfolds
<1>2. 0 \in 0..Len(s)
    OBVIOUS
<1>3. ASSUME NEW i \in 0..Len(s) - 1
      PROVE  i + 1 \in 0..Len(s) /\ i + 1 # 0 /\ (i + 1) - 1 = i
    OBVIOUS
<1>4. QED
    BY <1>1, <1>2, <1>3 DEF PickStep

\* What is picked is of the kind of what may be picked.
LEMMA PickedType ==
    ASSUME NEW s, NEW is, NEW S, Len(s) \in Nat, \A i \in 1..Len(s) : i \in is => s[i] \in S
    PROVE  Picked(s, is) \in Seq(S)
<1> DEFINE f == PickedUpTo(s, is)
           T == {n \in Nat : n <= Len(s) => f[n] \in Seq(S)}
<1>0. /\ f[0] = <<>>
      /\ \A i \in 0..Len(s) - 1 : f[i + 1] = IF i + 1 \in is THEN Append(f[i], s[i + 1]) ELSE f[i]
    BY PickedSteps
<1> HIDE DEF f
<1>1. 0 \in T
    BY <1>0, EmptySeq
<1>2. ASSUME NEW n \in Nat, n \in T PROVE n + 1 \in T
  <2>1. CASE n + 1 <= Len(s)
    <3>1. n \in 0..Len(s) - 1 /\ n <= Len(s) /\ n + 1 \in 1..Len(s)
        BY <2>1
    <3>2. f[n] \in Seq(S) /\ (n + 1 \in is => s[n + 1] \in S)
        BY <1>2, <3>1
    <3>3. n + 1 \in is => Append(f[n], s[n + 1]) \in Seq(S)
        BY <3>2, AppendProperties
    <3>4. f[n + 1] = IF n + 1 \in is THEN Append(f[n], s[n + 1]) ELSE f[n]
        BY <1>0, <3>1
    <3>5. f[n + 1] \in Seq(S)
        BY <3>2, <3>3, <3>4
    <3>6. QED
        BY <3>5
  <2>2. QED
      BY <2>1
<1>3. Nat \subseteq T
  <2> HIDE DEF T
  <2>1. QED
      BY <1>1, <1>2, SetInduction
<1>4. QED
    BY <1>3 DEF Picked, f

\* Who picks everything has the sequence.
LEMMA PickedAll ==
    ASSUME NEW S, NEW s \in Seq(S), NEW is, DOMAIN s \subseteq is
    PROVE  Picked(s, is) = s
<1> DEFINE f == PickedUpTo(s, is)
           T == {n \in Nat : n <= Len(s) => /\ f[n] \in Seq(S) /\ Len(f[n]) = n
                                            /\ \A j \in 1..n : f[n][j] = s[j]}
<1>a. Len(s) \in Nat /\ DOMAIN s = 1..Len(s) /\ \A j \in 1..Len(s) : s[j] \in S
    BY LenProperties, ElementOfSeq
<1>0. f[0] = <<>> /\ \A i \in 0..Len(s) - 1 : f[i + 1] = Append(f[i], s[i + 1])
  <2>1. \A i \in 0..Len(s) - 1 : i + 1 \in is
      BY <1>a
  <2>2. QED
      BY <1>a, <2>1, PickedSteps
<1> HIDE DEF f
<1>1. 0 \in T
  <2>1. f[0] \in Seq(S) /\ Len(f[0]) = 0
      BY <1>0, EmptySeq
  <2>2. \A j \in 1..0 : f[0][j] = s[j]
      OBVIOUS
  <2>3. QED
      BY <2>1, <2>2
<1>2. ASSUME NEW n \in Nat, n \in T PROVE n + 1 \in T
  <2>1. CASE n + 1 <= Len(s)
    <3>1. n \in 0..Len(s) - 1 /\ n <= Len(s) /\ n + 1 \in 1..Len(s)
        BY <1>a, <2>1
    <3>2. /\ f[n] \in Seq(S) /\ Len(f[n]) = n /\ \A j \in 1..n : f[n][j] = s[j]
          /\ s[n + 1] \in S /\ f[n + 1] = Append(f[n], s[n + 1])
        BY <1>0, <1>2, <1>a, <3>1
    <3> DEFINE x == f[n]
               e == s[n + 1]
    <3>3. x \in Seq(S) /\ e \in S /\ Len(x) = n
        BY <3>2
    <3> HIDE DEF x, e
    <3>4. /\ Append(x, e) \in Seq(S) /\ Len(Append(x, e)) = n + 1
          /\ \A j \in 1..n : Append(x, e)[j] = x[j]
          /\ Append(x, e)[n + 1] = e
        BY <3>3, AppendProperties
    <3>5. \A j \in 1..n + 1 : j = n + 1 \/ j \in 1..n
        OBVIOUS
    <3>6. \A j \in 1..n + 1 : f[n + 1][j] = s[j]
        BY <3>2, <3>4, <3>5 DEF x, e
    <3>7. f[n + 1] \in Seq(S) /\ Len(f[n + 1]) = n + 1
        BY <3>2, <3>4 DEF x, e
    <3>8. QED
        BY <3>6, <3>7
  <2>2. QED
      BY <2>1
<1>3. f[Len(s)] \in Seq(S) /\ Len(f[Len(s)]) = Len(s) /\ \A j \in 1..Len(s) : f[Len(s)][j] = s[j]
  <2>1. Nat \subseteq T
    <3> HIDE DEF T
    <3>1. QED
        BY <1>1, <1>2, SetInduction
  <2>2. QED
      BY <2>1, <1>a
<1>4. f[Len(s)] = s
    BY <1>3, <1>a, SeqEqual
<1>5. QED
    BY <1>4 DEF Picked, f

\* What may be picked is picked.
LEMMA PickedHas ==
    ASSUME NEW s, NEW is, NEW S, Len(s) \in Nat, \A i \in 1..Len(s) : i \in is => s[i] \in S,
           NEW k \in 1..Len(s), k \in is
    PROVE  \E j \in 1..Len(Picked(s, is)) : Picked(s, is)[j] = s[k]
<1> DEFINE f == PickedUpTo(s, is)
           Has(n) == \E j \in 1..Len(f[n]) : f[n][j] = s[k]
           T == {n \in Nat : n <= Len(s) => f[n] \in Seq(S) /\ (k <= n => Has(n))}
<1>0. /\ f[0] = <<>>
      /\ \A i \in 0..Len(s) - 1 : f[i + 1] = IF i + 1 \in is THEN Append(f[i], s[i + 1]) ELSE f[i]
    BY PickedSteps
<1> HIDE DEF f
<1>1. 0 \in T
  <2>1. f[0] \in Seq(S)
      BY <1>0, EmptySeq
  <2>2. ~ (k <= 0)
      OBVIOUS
  <2>3. QED
      BY <2>1, <2>2
<1>2. ASSUME NEW n \in Nat, n \in T PROVE n + 1 \in T
  <2> SUFFICES ASSUME n + 1 <= Len(s) PROVE f[n + 1] \in Seq(S) /\ (k <= n + 1 => Has(n + 1))
      OBVIOUS
  <2>1. n \in 0..Len(s) - 1 /\ n <= Len(s) /\ n + 1 \in 1..Len(s)
      OBVIOUS
  <2>2. f[n] \in Seq(S) /\ (k <= n => Has(n))
      BY <1>2, <2>1
  <2>3. CASE n + 1 \in is
    <3> DEFINE x == f[n]
               e == s[n + 1]
    <3>1. x \in Seq(S) /\ e \in S /\ f[n + 1] = Append(x, e)
        BY <1>0, <2>1, <2>2, <2>3
    <3>2. /\ Append(x, e) \in Seq(S)
          /\ Len(Append(x, e)) = Len(x) + 1 /\ Len(x) \in Nat
          /\ \A j \in 1..Len(x) : Append(x, e)[j] = x[j]
          /\ Append(x, e)[Len(x) + 1] = e
      <4> HIDE DEF x, e
      <4>1. QED
          BY <3>1, AppendProperties, LenProperties
    <3>3. k = n + 1 => Has(n + 1)
        BY <3>1, <3>2, SMTT(30)
    <3>4. k <= n => Has(n + 1)
        BY <2>2, <3>1, <3>2
    <3>5. QED
        BY <3>1, <3>2, <3>3, <3>4
  <2>4. CASE n + 1 \notin is
    <3>1. f[n + 1] = f[n] /\ k # n + 1
        BY <1>0, <2>1, <2>4
    <3>2. QED
        BY <2>2, <3>1
  <2>5. QED
      BY <2>3, <2>4
<1>3. Nat \subseteq T
  <2> HIDE DEF T
  <2>1. QED
      BY <1>1, <1>2, SetInduction
<1>4. f[Len(s)] \in Seq(S) /\ Has(Len(s))
    BY <1>3
<1>5. QED
    BY <1>4 DEF Picked, f
===============================================================================
