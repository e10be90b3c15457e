----------------------------- MODULE SumLemmas -----------------------------
(***************************************************************************)
(* What a fold that adds up numbers along a sequence computes.  FoldLeft   *)
(* is a recursive function over the sets of indices, which takes away the  *)
(* greatest one: the lemmas say that there is such a function, and what    *)
(* its values at the sets 1 .. k are.                                      *)
(***************************************************************************)
EXTENDS Integers, Sequences, SequencesExt, WellFoundedInduction, TLAPS

\* f adds up the numbers of w, over every set of its indices.
AddsUp(f, w, n) ==
    f = [t \in SUBSET (1 .. n) |-> IF t = {} THEN 0 ELSE f[t \ {Max(t)}] + w[Max(t)]]

\* The sum of the first k numbers.
UpTo(f, k) == f[1 .. k]

LEMMA LeastOf ==
    ASSUME NEW S \in SUBSET Nat, S # {}
    PROVE  \E x \in S : \A y \in S : x <= y
<1>1. PICK x \in S : \A y \in S : ~(<<y, x>> \in OpToRel(<, Nat))
  BY NatLessThanWellFounded, WFMin, Zenon
<1>2. ASSUME NEW y \in S PROVE x <= y
  <2>1. ~(<<y, x>> \in {ss \in Nat \X Nat : ss[1] < ss[2]})
    BY <1>1 DEF OpToRel
  <2> QED
    BY <2>1, SMT
<1> QED
  BY <1>2

LEMMA MaxOf ==
    ASSUME NEW n \in Nat, NEW t \in SUBSET (1 .. n), t # {}
    PROVE  Max(t) \in t /\ \A y \in t : y <= Max(t)
<1> DEFINE R == {n - x : x \in t}
<1>1. R \in SUBSET Nat /\ R # {}
  <2>1. \A x \in t : n - x \in Nat
    OBVIOUS
  <2> QED
    BY <2>1
<1> HIDE DEF R
<1>2. PICK r \in R : \A q \in R : r <= q
  BY <1>1, LeastOf
<1>3. PICK x \in t : r = n - x
  BY DEF R
<1>4. \A y \in t : n - y \in R
  BY DEF R
<1>5. \A y \in t : x >= y
  BY <1>2, <1>3, <1>4
<1> QED
  BY <1>5 DEF Max

\* The greatest of 1 .. k is k.
LEMMA MaxOfInterval ==
    ASSUME NEW k \in Nat, k # 0
    PROVE  Max(1 .. k) = k /\ (1 .. k) \ {k} = 1 .. k - 1
<1>1. PICK t : t = 1 .. k
  OBVIOUS
<1>2. t \in SUBSET (1 .. k) /\ k \in t
  BY <1>1
<1>3. Max(t) \in t /\ \A y \in t : y <= Max(t)
  BY <1>2, MaxOf
<1>4. Max(t) = k
  BY <1>1, <1>2, <1>3
<1> QED
  BY <1>1, <1>4

LEMMA AddsUpExists ==
    ASSUME NEW n \in Nat, NEW w \in [1 .. n -> Nat]
    PROVE  \E f : AddsUp(f, w, n)
<1> DEFINE bad == {m \in 0 .. n : ~ \E f : AddsUp(f, w, m)}
<1>1. SUFFICES ASSUME bad # {} PROVE FALSE
  <2>1. bad = {} => n \notin bad
    OBVIOUS
  <2> QED
    BY <2>1
<1>2. PICK m \in bad : \A k \in bad : m <= k
  <2>1. bad \in SUBSET Nat
    OBVIOUS
  <2> HIDE DEF bad
  <2> QED
    BY <1>1, <2>1, LeastOf
<1>3. m # 0
  <2> SUFFICES ASSUME m = 0 PROVE \E f : AddsUp(f, w, m)
    OBVIOUS
  <2>1. SUBSET (1 .. 0) = {{}}
    OBVIOUS
  <2>2. AddsUp([t \in SUBSET (1 .. 0) |-> 0], w, 0)
    BY <2>1 DEF AddsUp
  <2> QED
    BY <2>2
<1>4. m - 1 \in 0 .. n /\ m - 1 \notin bad /\ m \in 1 .. n
  BY <1>2, <1>3
<1>5. PICK g : AddsUp(g, w, m - 1)
  BY <1>4
<1> DEFINE f == [t \in SUBSET (1 .. m) |->
                   IF m \in t THEN g[t \ {m}] + w[m] ELSE g[t]]
<1>6. ASSUME NEW t \in SUBSET (1 .. m)
      PROVE  f[t] = IF t = {} THEN 0 ELSE f[t \ {Max(t)}] + w[Max(t)]
  <2>1. CASE m \in t
    <3>1. Max(t) = m
      <4>1. m \in Nat /\ t # {}
        BY <2>1, <1>4
      <4>2. Max(t) \in t /\ \A y \in t : y <= Max(t)
        BY <4>1, MaxOf
      <4>3. Max(t) \in 1 .. m /\ m <= Max(t)
        BY <4>2, <2>1
      <4> QED
        BY <4>3, <1>4
    <3>2. t \ {m} \in SUBSET (1 .. m) /\ f[t \ {m}] = g[t \ {m}]
      OBVIOUS
    <3> QED
      BY <2>1, <3>1, <3>2
  <2>2. CASE m \notin t
    <3>1. t \in SUBSET (1 .. m - 1)
      BY <2>2, <1>4
    <3>2. f[t] = g[t]
      BY <2>2
    <3>3. f[t \ {Max(t)}] = g[t \ {Max(t)}]
      BY <2>2
    <3>4. g[t] = IF t = {} THEN 0 ELSE g[t \ {Max(t)}] + w[Max(t)]
      BY <3>1, <1>5 DEF AddsUp
    <3> QED
      BY <3>2, <3>3, <3>4
  <2> QED
    BY <2>1, <2>2
<1>7. AddsUp(f, w, m)
  BY <1>6 DEF AddsUp
<1> QED
  BY <1>2, <1>7

\* The numbers up to k are those up to k - 1, and the k-th.
LEMMA AddsUpTo ==
    ASSUME NEW n \in Nat, NEW w \in [1 .. n -> Nat], NEW f, AddsUp(f, w, n)
    PROVE  /\ UpTo(f, 0) = 0
           /\ \A k \in 1 .. n : UpTo(f, k) = UpTo(f, k - 1) + w[k]
<1>1. UpTo(f, 0) = 0
  <2>1. 1 .. 0 = {} /\ {} \in SUBSET (1 .. n)
    OBVIOUS
  <2> QED
    BY <2>1 DEF AddsUp, UpTo
<1>2. ASSUME NEW k \in 1 .. n PROVE UpTo(f, k) = UpTo(f, k - 1) + w[k]
  <2>1. 1 .. k \in SUBSET (1 .. n) /\ 1 .. k # {}
    BY <1>2
  <2>2. UpTo(f, k) = f[(1 .. k) \ {Max(1 .. k)}] + w[Max(1 .. k)]
    BY <2>1 DEF AddsUp, UpTo
  <2>3. Max(1 .. k) = k /\ (1 .. k) \ {k} = 1 .. k - 1
    BY <1>2, MaxOfInterval
  <2> QED
    BY <2>2, <2>3 DEF UpTo
<1> QED
  BY <1>1, <1>2

LEMMA SumIsNat ==
    ASSUME NEW n \in Nat, NEW w \in [1 .. n -> Nat], NEW f, AddsUp(f, w, n)
    PROVE  \A k \in 0 .. n : UpTo(f, k) \in Nat
<1> DEFINE bad == {k \in 0 .. n : UpTo(f, k) \notin Nat}
<1>1. SUFFICES ASSUME bad # {} PROVE FALSE
  OBVIOUS
<1>2. PICK k \in bad : \A j \in bad : k <= j
  <2>1. bad \in SUBSET Nat
    OBVIOUS
  <2> HIDE DEF bad
  <2> QED
    BY <1>1, <2>1, LeastOf
<1>3. k # 0
  BY <1>2, AddsUpTo
<1>4. k - 1 \in 0 .. n /\ k - 1 \notin bad /\ k \in 1 .. n
  BY <1>2, <1>3
<1>5. UpTo(f, k) = UpTo(f, k - 1) + w[k] /\ w[k] \in Nat
  BY <1>4, AddsUpTo
<1> QED
  BY <1>2, <1>4, <1>5

\* The sum is the first number and the sum of the others.
LEMMA SumOfTail ==
    ASSUME NEW n \in Nat, n # 0, NEW w \in [1 .. n -> Nat], NEW f, AddsUp(f, w, n),
           NEW v \in [1 .. n - 1 -> Nat], \A i \in 1 .. n - 1 : v[i] = w[i + 1],
           NEW g, AddsUp(g, v, n - 1)
    PROVE  UpTo(f, n) = w[1] + UpTo(g, n - 1)
<1> DEFINE bad == {k \in 1 .. n : UpTo(f, k) # w[1] + UpTo(g, k - 1)}
<1>0. /\ UpTo(f, 0) = 0 /\ \A k \in 1 .. n : UpTo(f, k) = UpTo(f, k - 1) + w[k]
      /\ \A k \in 0 .. n : UpTo(f, k) \in Nat
  BY AddsUpTo, SumIsNat
<1>a. PICK m \in Nat : m = n - 1
  OBVIOUS
<1>b. v \in [1 .. m -> Nat] /\ AddsUp(g, v, m)
  BY <1>a
<1>c. /\ UpTo(g, 0) = 0 /\ \A k \in 1 .. m : UpTo(g, k) = UpTo(g, k - 1) + v[k]
      /\ \A k \in 0 .. m : UpTo(g, k) \in Nat
  BY <1>b, AddsUpTo, SumIsNat
<1>1. SUFFICES ASSUME bad # {} PROVE FALSE
  <2>1. n \in 1 .. n
    OBVIOUS
  <2>2. bad = {} => n \notin bad
    BY Zenon
  <2> QED
    BY <2>1, <2>2
<1>2. PICK k \in bad : \A j \in bad : k <= j
  <2>1. bad \in SUBSET Nat
    OBVIOUS
  <2> HIDE DEF bad
  <2> QED
    BY <1>1, <2>1, LeastOf
<1>3. k # 1
  <2>1. UpTo(f, 1) = UpTo(f, 0) + w[1] /\ UpTo(f, 0) = 0
    BY <1>0
  <2>2. UpTo(g, 0) = 0
    BY <1>c
  <2>3. w[1] \in Nat
    OBVIOUS
  <2>4. UpTo(f, 1) = w[1] + UpTo(g, 1 - 1)
    BY <2>1, <2>2, <2>3
  <2> QED
    BY <2>4, <1>2
<1>4. k - 1 \in 1 .. n /\ k - 1 \notin bad /\ k \in 1 .. n
  BY <1>2, <1>3
<1>5. UpTo(f, k - 1) = w[1] + UpTo(g, (k - 1) - 1)
  BY <1>4
<1>6. UpTo(f, k) = UpTo(f, k - 1) + w[k]
  BY <1>0, <1>4
<1>7. k - 1 \in 1 .. n - 1
  BY <1>4
<1>8. UpTo(g, k - 1) = UpTo(g, (k - 1) - 1) + v[k - 1] /\ v[k - 1] = w[k]
  BY <1>7, <1>a, <1>c
<1>9. w[1] \in Nat /\ w[k] \in Nat /\ UpTo(g, (k - 1) - 1) \in Nat
  BY <1>4, <1>7, <1>a, <1>c
<1> QED
  BY <1>2, <1>5, <1>6, <1>8, <1>9
=============================================================================
