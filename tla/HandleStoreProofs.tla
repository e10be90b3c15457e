------------------------- MODULE HandleStoreProofs -------------------------
(***************************************************************************)
(* For every server, root, width and capacity, the handle store decodes    *)
(* the pointer of every well-formed handle to it, and a wild copy needs a  *)
(* root with a zero limb in its prefix.  RoundTrip is not inductive by     *)
(* itself: the limbs of every pointer must also lie below limbs_size,      *)
(* where no later copy reaches.  That alone, which needs nothing of the    *)
(* handles, is why what a pointer decodes to never changes                 *)
(* (SettledWhenMade).                                                      *)
(***************************************************************************)
EXTENDS HandleStore, WellFoundedInduction, TLAPS

\* The limbs of every entry lie below the place of the next copy.
Below ==
    \A e \in entries :
        /\ e[2].pos \in Nat /\ e[2].length \in Nat
        /\ e[2] = RootPtr \/ e[2].pos + e[2].length <= limbsSize

IInv == TypeOK /\ Below /\ RoundTrip /\ CrashNeedsGap

-----------------------------------------------------------------------------
\* fhandle3_length stops somewhere for every handle, well formed or not.
LEMMA LimbCountExists ==
    ASSUME NEW h \in [Positions -> Limb]
    PROVE  \E n \in 0 .. Counted :
              /\ \A i \in 0 .. n - 1 : h[i] # 0
              /\ n < Counted => h[n] = 0
<1> USE HandleStoreAssumption DEF Positions, PrefixLength
<1> DEFINE stops == {m \in 0 .. Counted : m = Counted \/ h[m] = 0}
<1>1. stops \in SUBSET Nat /\ Counted \in stops
  OBVIOUS
<1> HIDE DEF stops
<1>2. PICK n \in stops : \A m \in stops : ~(<<m, n>> \in OpToRel(<, Nat))
  BY <1>1, NatLessThanWellFounded, WFMin, Zenon
<1>3. ASSUME NEW m \in stops PROVE n <= m
  <2>1. ~(<<m, n>> \in {ss \in Nat \X Nat : ss[1] < ss[2]})
    BY <1>2 DEF OpToRel
  <2> QED
    BY <1>1, <2>1, SMT
<1>4. n \in 0 .. Counted /\ (n = Counted \/ h[n] = 0)
  BY DEF stops
<1>5. \A i \in 0 .. n - 1 : h[i] # 0
  <2> SUFFICES ASSUME NEW i \in 0 .. n - 1, h[i] = 0 PROVE FALSE
    OBVIOUS
  <2>1. i \in stops
    BY <1>4 DEF stops
  <2> QED
    BY <1>3, <1>4, <2>1
<1> QED
  BY <1>4, <1>5

LEMMA LimbCountStops ==
    ASSUME NEW h \in [Positions -> Limb]
    PROVE  LimbCount(h) \in 0 .. Counted
<1> DEFINE Counts(m) == /\ \A i \in 0 .. m - 1 : h[i] # 0
                        /\ m < Counted => h[m] = 0
<1>1. \E n \in 0 .. Counted : Counts(n)
  BY LimbCountExists
<1>2. LimbCount(h) = CHOOSE m \in 0 .. Counted : Counts(m)
  BY DEF LimbCount
<1> HIDE DEF Counts
<1> QED
  BY <1>1, <1>2

\* fhandle3_length finds the end of a well-formed handle.
LEMMA LimbCountOf ==
    ASSUME NEW h \in [Positions -> Limb], NEW n \in 1 .. Counted,
           \A i \in Positions : h[i] # 0 <=> i < n
    PROVE  LimbCount(h) = n
<1> USE HandleStoreAssumption DEF Positions, PrefixLength
<1> DEFINE Counts(m) == /\ \A i \in 0 .. m - 1 : h[i] # 0
                        /\ m < Counted => h[m] = 0
<1>1. n \in 0 .. Counted /\ Counts(n)
  OBVIOUS
<1>2. \A m \in 0 .. Counted : Counts(m) => m = n
  <2> SUFFICES ASSUME NEW m \in 0 .. Counted, Counts(m), m # n PROVE FALSE
    OBVIOUS
  <2>1. CASE m < n
    <3>1. m < Counted /\ m \in 0 .. Width - 1
      BY <2>1
    <3> QED
      BY <2>1, <3>1
  <2>2. CASE n < m
    <3>1. n \in 0 .. m - 1 /\ n \in 0 .. Width - 1
      BY <2>2
    <3> QED
      BY <3>1
  <2> QED
    BY <2>1, <2>2
<1>3. LimbCount(h) = CHOOSE m \in 0 .. Counted : Counts(m)
  BY DEF LimbCount
<1> QED
  BY <1>1, <1>2, <1>3

\* What is known of a handle that is about to be stored.
LEMMA HandleFacts ==
    ASSUME NEW h \in Handles
    PROVE  /\ h \in [Positions -> Limb]
           /\ LimbCount(h) \in 0 .. Counted
           /\ Skipped(h) \in {0, PrefixLength}
           /\ Kept(h) = LimbCount(h) - Skipped(h)
           /\ Kept(h) >= 0 => Kept(h) \in 0 .. Counted
<1>1. h \in [Positions -> Limb]
  BY HandleStoreAssumption
<1>2. LimbCount(h) \in 0 .. Counted
  BY <1>1, LimbCountStops
<1> QED
  BY <1>1, <1>2, HandleStoreAssumption DEF Kept, Skipped, PrefixLength

\* A well-formed handle ends where fhandle3_length says.
LEMMA WellFormedFacts ==
    ASSUME NEW h \in Handles, WellFormed(h)
    PROVE  /\ LimbCount(h) \in 1 .. Counted
           /\ \A i \in Positions : h[i] # 0 <=> i < LimbCount(h)
<1>1. PICK n \in 1 .. Counted : \A i \in Positions : h[i] # 0 <=> i < n
  BY DEF WellFormed
<1>2. LimbCount(h) = n
  BY <1>1, LimbCountOf, HandleFacts
<1> QED
  BY <1>1, <1>2

\* A handle with the prefix of a root without a zero limb there has as many.
LEMMA PrefixCounts ==
    ASSUME NEW h \in Handles, HasRootPrefix(h), root[1] # 0, root[2] # 0
    PROVE  LimbCount(h) >= PrefixLength
<1> USE HandleStoreAssumption DEF PrefixLength
<1>1. h[0] # 0 /\ h[1] # 0 /\ h[2] # 0
  BY DEF HasRootPrefix
<1> DEFINE Counts(m) == /\ \A i \in 0 .. m - 1 : h[i] # 0
                        /\ m < Counted => h[m] = 0
<1>2. \E n \in 0 .. Counted : Counts(n)
  BY LimbCountExists, HandleFacts
<1>3. LimbCount(h) = CHOOSE m \in 0 .. Counted : Counts(m)
  BY DEF LimbCount
<1>4. LimbCount(h) \in 0 .. Counted /\ Counts(LimbCount(h))
  <2> HIDE DEF Counts
  <2> QED
    BY <1>2, <1>3
<1>5. LimbCount(h) < 3 => h[LimbCount(h)] = 0
  BY <1>4
<1> QED
  BY <1>1, <1>4, <1>5

\* Decoding reads the limbs of the pointer and nothing else of the state.
LEMMA DecodeStable ==
    ASSUME NEW p \in [compressed : BOOLEAN, length : Nat, pos : Nat],
           p = RootPtr \/ p.pos + p.length <= limbsSize,
           \A i \in 0 .. limbsSize - 1 : limbs'[i] = limbs[i],
           limbsSize \in Nat, root' = root
    PROVE  Decode(p)' = Decode(p)
<1> DEFINE start == IF p.compressed THEN PrefixLength ELSE 0
<1>1. \A i \in start .. start + p.length - 1 :
         limbs'[p.pos + i - start] = limbs[p.pos + i - start]
  <2>1. CASE p = RootPtr
    BY <2>1 DEF RootPtr, Pointer
  <2>2. CASE p.pos + p.length <= limbsSize
    BY <2>2 DEF PrefixLength
  <2> QED
    BY <2>1, <2>2
<1> QED
  BY <1>1 DEF Decode

\* The limbs that are copied are limbs of the handle.
LEMMA CopiedFrom ==
    ASSUME NEW size \in Nat, NEW count \in 0 .. Counted, NEW skip \in {0, 3},
           NEW kept \in Nat, kept = count - skip, NEW i \in size .. size + kept - 1
    PROVE  skip + i - size \in Positions
<1>1. Counted \in Nat /\ Width \in Nat /\ Counted <= Width
  BY HandleStoreAssumption DEF PrefixLength
<1>2. skip + i - size \in 0 .. count - 1
  OBVIOUS
<1> QED
  BY <1>1, <1>2 DEF Positions

\* The pointer of a handle decodes to it as soon as it has been stored.
LEMMA DecodeStored ==
    ASSUME TypeOK, NEW h \in Handles, WellFormed(h), Store(h),
           NEW q, q = Pointer(HasRootPrefix(h), Kept(h), limbsSize)
    PROVE  Decode(q)' = h
<1> USE HandleStoreAssumption
<1> DEFINE n == LimbCount(h)
<1> PICK pos \in Nat : pos = limbsSize
  BY DEF TypeOK
<1>0. Skipped(h) \in Nat /\ Skipped(h) \in {0, 3}
  BY HandleFacts DEF PrefixLength
<1>1. /\ n \in 1 .. Counted /\ Kept(h) = n - Skipped(h) /\ Kept(h) \in 0 .. Counted
      /\ \A i \in Positions : h[i] # 0 <=> i < n
      /\ h \in [Positions -> Limb] /\ root' = root
  BY HandleFacts, WellFormedFacts DEF Store
<1>2. \A i \in 0 .. LimbsCapacity - 1 :
         i \in pos .. pos + Kept(h) - 1 => limbs'[i] = h[Skipped(h) + i - pos]
  BY DEF Store, TypeOK
<1>3. pos + Kept(h) < LimbsCapacity
  BY DEF Store, Fits
<1>4. q # RootPtr
  <2>1. CASE HasRootPrefix(h)
    BY <2>1 DEF RootPtr, Pointer
  <2>2. CASE ~HasRootPrefix(h)
    BY <2>2, <1>1 DEF RootPtr, Pointer, Skipped
  <2> QED
    BY <2>1, <2>2
<1>5. q.compressed = HasRootPrefix(h) /\ q.length = Kept(h) /\ q.pos = pos
  BY DEF Pointer
<1>6. Skipped(h) = IF q.compressed THEN PrefixLength ELSE 0
  BY <1>5 DEF Skipped
<1>7. \A i \in Positions : Decode(q)'[i] = h[i]
  <2> SUFFICES ASSUME NEW i \in Positions PROVE Decode(q)'[i] = h[i]
    OBVIOUS
  <2>1. CASE i \in Skipped(h) .. n - 1
    <3>1. pos + i - Skipped(h) \in pos .. pos + Kept(h) - 1
      BY <2>1, <1>0, <1>1 DEF Positions
    <3>2. limbs'[pos + i - Skipped(h)] = h[Skipped(h) + (pos + i - Skipped(h)) - pos]
      BY <3>1, <1>2, <1>3, <1>1
    <3>3. Skipped(h) + (pos + i - Skipped(h)) - pos = i
      BY <1>0 DEF Positions
    <3>4. Decode(q)'[i] = limbs'[pos + i - Skipped(h)]
      <4>1. i \in Skipped(h) .. Skipped(h) + q.length - 1
        BY <2>1, <1>0, <1>1, <1>5
      <4> QED
        BY <4>1, <1>5, <1>6 DEF Decode
    <3> QED
      BY <3>2, <3>3, <3>4
  <2>2. CASE i < Skipped(h)
    <3>1. HasRootPrefix(h) /\ Skipped(h) = 3 /\ i \in {0, 1, 2}
      BY <2>2 DEF Skipped, PrefixLength, Positions
    <3>2. i \notin PrefixLength .. PrefixLength + q.length - 1
      <4>1. q.length \in Nat
        BY <1>1, <1>5
      <4>2. i \in Nat /\ i < 3
        BY <3>1
      <4> QED
        BY <4>1, <4>2 DEF PrefixLength
    <3>3. q.compressed
      BY <3>1, <1>5
    <3>4. Decode(q)'[i] = IF i = 0 THEN Magic ELSE root[i]
      <4>1. i = 0 \/ i < PrefixLength
        BY <3>1 DEF PrefixLength
      <4> QED
        BY <4>1, <3>2, <3>3, <1>1, <1>4 DEF Decode
    <3> QED
      BY <3>1, <3>4 DEF HasRootPrefix
  <2>3. CASE i >= n /\ i >= Skipped(h)
    <3>1. i \notin Skipped(h) .. Skipped(h) + q.length - 1
      BY <2>3, <1>0, <1>1, <1>5 DEF Positions
    <3>2. q.compressed => i >= PrefixLength
      BY <2>3, <1>6 DEF Positions
    <3>3. Decode(q)'[i] = 0
      BY <3>1, <3>2, <1>4, <1>6 DEF Decode, PrefixLength, Positions
    <3>4. h[i] = 0
      BY <2>3, <1>1 DEF Positions
    <3> QED
      BY <3>3, <3>4
  <2> QED
    BY <2>1, <2>2, <2>3, <1>0, <1>1 DEF Positions
<1>8. Decode(q)' = h
  BY <1>1, <1>7 DEF Decode
<1> QED
  BY <1>8

LEMMA StoreIInv ==
    ASSUME IInv, NEW h \in Handles, Store(h)
    PROVE  IInv'
<1> USE HandleStoreAssumption
<1> PICK q : q = Pointer(HasRootPrefix(h), Kept(h), limbsSize)
  OBVIOUS
<1>1. /\ limbsSize \in Nat /\ limbsSize' = limbsSize + Kept(h) /\ Kept(h) \in 0 .. Counted
      /\ limbsSize' < LimbsCapacity
      /\ entries' = entries \cup {<<h, q>>}
      /\ status' = status /\ root' = root /\ root \in Roots
      /\ limbs \in [0 .. LimbsCapacity - 1 -> Limb]
  BY HandleFacts DEF Store, Fits, NextFree, IInv, TypeOK
<1>2. \A i \in 0 .. limbsSize - 1 : limbs'[i] = limbs[i]
  <2>1. \A i \in 0 .. limbsSize - 1 :
           i \in DOMAIN limbs /\ i \notin limbsSize .. limbsSize + Kept(h) - 1
    BY <1>1
  <2> QED
    BY <2>1 DEF Store
<1>3. /\ q.pos = limbsSize /\ q.length = Kept(h) /\ q.compressed = HasRootPrefix(h)
      /\ q = [compressed |-> q.compressed, length |-> q.length, pos |-> q.pos]
  BY DEF Pointer
<1>4. q \in Ptrs
  <2>1. HasRootPrefix(h) \in BOOLEAN
    BY DEF HasRootPrefix
  <2>2. limbsSize \in 0 .. LimbsCapacity
    BY <1>1
  <2> QED
    BY <2>1, <2>2, <1>1 DEF Ptrs
<1>5. limbs' \in [0 .. LimbsCapacity - 1 -> Limb]
  <2> SUFFICES ASSUME NEW i \in 0 .. LimbsCapacity - 1,
                      i \in limbsSize .. limbsSize + Kept(h) - 1
               PROVE  h[Skipped(h) + i - limbsSize] \in Limb
    BY <1>1 DEF Store
  <2>1. /\ Skipped(h) \in {0, 3} /\ Kept(h) = LimbCount(h) - Skipped(h)
        /\ LimbCount(h) \in 0 .. Counted
    BY HandleFacts DEF PrefixLength
  <2>2. Skipped(h) + i - limbsSize \in Positions
    <3> DEFINE skip == Skipped(h)
               count == LimbCount(h)
               kept == Kept(h)
    <3>1. limbsSize \in Nat /\ kept \in Nat
      BY <1>1
    <3>2. skip \in {0, 3} /\ count \in 0 .. Counted /\ kept = count - skip
      BY <2>1
    <3>3. i \in limbsSize .. limbsSize + kept - 1
      OBVIOUS
    <3> HIDE DEF skip, count, kept
    <3>4. skip + i - limbsSize \in Positions
      BY <3>1, <3>2, <3>3, CopiedFrom
    <3> QED
      BY <3>4 DEF skip
  <2> QED
    BY <2>2, HandleFacts
<1>6. TypeOK'
  BY <1>1, <1>4, <1>5 DEF IInv, TypeOK
<1>7. Below'
  <2> SUFFICES ASSUME NEW e \in entries'
               PROVE  /\ e[2].pos \in Nat /\ e[2].length \in Nat
                      /\ e[2] = RootPtr \/ e[2].pos + e[2].length <= limbsSize'
    BY DEF Below
  <2>1. CASE e \in entries
    BY <2>1, <1>1 DEF IInv, Below
  <2>2. CASE e = <<h, q>>
    BY <2>2, <1>1, <1>3
  <2> QED
    BY <2>1, <2>2, <1>1
<1>8. RoundTrip'
  <2> SUFFICES ASSUME NEW e \in entries', WellFormed(e[1]) PROVE Decode(e[2])' = e[1]
    BY DEF RoundTrip
  <2>1. CASE e \in entries
    <3>1. e[2] \in Ptrs
      BY <2>1 DEF IInv, TypeOK
    <3>2. e[2] \in [compressed : BOOLEAN, length : Nat, pos : Nat]
      BY <3>1 DEF Ptrs, Pointer
    <3>3. e[2] = RootPtr \/ e[2].pos + e[2].length <= limbsSize
      BY <2>1 DEF IInv, Below
    <3>4. \A p : p = e[2] => Decode(p)' = Decode(p)
      BY <3>2, <3>3, <1>1, <1>2, DecodeStable
    <3>5. \A p : p = e[2] => Decode(p) = e[1]
      BY <2>1 DEF IInv, RoundTrip
    <3> QED
      BY <3>4, <3>5
  <2>2. CASE e = <<h, q>>
    <3>0. WellFormed(h)
      BY <2>2
    <3>1. Decode(q)' = h
      BY <3>0, DecodeStored DEF IInv
    <3> QED
      BY <2>2, <3>1
  <2> QED
    BY <2>1, <2>2, <1>1
<1> QED
  BY <1>1, <1>6, <1>7, <1>8 DEF IInv, CrashNeedsGap

LEMMA StoreRootIInv ==
    ASSUME IInv, StoreRoot
    PROVE  IInv'
<1> USE HandleStoreAssumption
<1>1. RootPtr \in Ptrs
  <2>1. RootPtr = Pointer(FALSE, 0, 1) /\ 1 \in 0 .. LimbsCapacity /\ 0 \in 0 .. Counted
    BY DEF RootPtr, PrefixLength
  <2>2. \A c \in BOOLEAN, n \in 0 .. Counted, p \in 0 .. LimbsCapacity :
           Pointer(c, n, p) \in Ptrs
    BY DEF Ptrs
  <2> QED
    BY <2>1, <2>2
<1>2. TypeOK' /\ CrashNeedsGap'
  BY <1>1 DEF StoreRoot, IInv, TypeOK, CrashNeedsGap
<1>3. Below'
  <2>1. RootPtr.pos \in Nat /\ RootPtr.length \in Nat
    BY DEF RootPtr, Pointer
  <2> QED
    BY <2>1 DEF StoreRoot, IInv, Below
<1>4. \A p : Decode(p)' = Decode(p)
  BY DEF StoreRoot, Decode
<1>5. Decode(RootPtr) = root
  BY DEF IInv, TypeOK, Decode, RootPtr, Pointer
<1>6. RoundTrip'
  BY <1>4, <1>5 DEF StoreRoot, IInv, RoundTrip
<1> QED
  BY <1>2, <1>3, <1>6 DEF IInv

LEMMA StepIInv == IInv /\ [Next]_vars => IInv'
<1> SUFFICES ASSUME IInv, [Next]_vars PROVE IInv'
  OBVIOUS
<1>1. CASE StoreRoot
  BY <1>1, StoreRootIInv
<1>2. ASSUME NEW h \in Handles, Store(h) PROVE IInv'
  BY <1>2, StoreIInv
<1>3. ASSUME NEW h \in Handles, StoreNoRoom(h) PROVE IInv'
  <2>1. \A p : Decode(p)' = Decode(p)
    BY <1>3 DEF StoreNoRoom, Decode
  <2> QED
    BY <1>3, <2>1 DEF StoreNoRoom, IInv, TypeOK, Below, RoundTrip, CrashNeedsGap
<1>4. ASSUME NEW h \in Handles, StoreTooShort(h) PROVE IInv'
  <2>1. \A p : Decode(p)' = Decode(p)
    BY <1>4 DEF StoreTooShort, Decode
  <2>2. root[1] = 0 \/ root[2] = 0
    <3> SUFFICES ASSUME root[1] # 0, root[2] # 0 PROVE FALSE
      OBVIOUS
    <3>1. HasRootPrefix(h) /\ LimbCount(h) < PrefixLength
      BY <1>4, HandleFacts DEF StoreTooShort, Skipped, PrefixLength
    <3> QED
      BY <3>1, PrefixCounts, HandleFacts, HandleStoreAssumption DEF PrefixLength
  <2> QED
    BY <1>4, <2>1, <2>2 DEF StoreTooShort, IInv, TypeOK, Below, RoundTrip, CrashNeedsGap
<1>5. CASE UNCHANGED vars
  <2>1. \A p : Decode(p)' = Decode(p)
    BY <1>5 DEF vars, Decode
  <2> QED
    BY <1>5, <2>1 DEF vars, IInv, TypeOK, Below, RoundTrip, CrashNeedsGap
<1> QED
  BY <1>1, <1>2, <1>3, <1>4, <1>5 DEF Next

LEMMA InitIInv == Init => IInv
  BY HandleStoreAssumption DEF Init, IInv, TypeOK, Below, RoundTrip, CrashNeedsGap

LEMMA Invariance == Spec => []IInv
<1>1. IInv /\ [Next]_vars => IInv'
  BY StepIInv
<1> QED
  BY <1>1, InitIInv, PTL DEF Spec

(***************************************************************************)
(* Whatever the server's handles and the root, the pointer of a well-formed*)
(* handle decodes to it for ever, however many handles are stored after it *)
(* and in whatever order.                                                  *)
(***************************************************************************)
THEOREM PointersDecode == Spec => []RoundTrip
<1>1. IInv => RoundTrip
  BY DEF IInv
<1> QED
  BY <1>1, Invariance, PTL

(***************************************************************************)
(* Unless the root has a zero limb in its prefix, handleToPtr never takes  *)
(* the prefix off a shorter handle, whatever the handles are, so that the  *)
(* unsigned length of the copy never wraps.                                *)
(***************************************************************************)
THEOREM NoWildCopy == Spec => []CrashNeedsGap
<1>1. IInv => CrashNeedsGap
  BY DEF IInv
<1> QED
  BY <1>1, Invariance, PTL

(***************************************************************************)
(* limbs_size stays below the capacity and every pointer fits its bits.    *)
(***************************************************************************)
THEOREM TypeCorrect == Spec => []TypeOK
<1>1. IInv => TypeOK
  BY DEF IInv
<1> QED
  BY <1>1, Invariance, PTL

-----------------------------------------------------------------------------
\* What holds whatever the handles: the limbs of every pointer lie below the
\* place of the next copy, and that place never moves back.
SInv ==
    /\ limbsSize \in Nat
    /\ DOMAIN limbs = 0 .. LimbsCapacity - 1
    /\ limbsSize < LimbsCapacity
    /\ \A e \in entries :
          /\ e[2] \in [compressed : BOOLEAN, length : Nat, pos : Nat]
          /\ e[2] = RootPtr \/ e[2].pos + e[2].length <= limbsSize

\* A pointer that is stored has its limbs where they were copied.
LEMMA StoreSInv ==
    ASSUME SInv, NEW h \in Handles, Store(h)
    PROVE  /\ SInv'
           /\ \A i \in 0 .. limbsSize - 1 : limbs'[i] = limbs[i]
<1> USE HandleStoreAssumption
<1> PICK q : q = Pointer(HasRootPrefix(h), Kept(h), limbsSize)
  OBVIOUS
<1>1. Kept(h) \in Nat
  <2>1. LimbCount(h) \in 0 .. Counted
    BY LimbCountStops
  <2>2. Skipped(h) \in {0, 3}
    BY DEF Skipped, PrefixLength
  <2> QED
    BY <2>1, <2>2 DEF Kept, Store, PrefixLength
<1>2. /\ limbsSize \in Nat /\ limbsSize' = limbsSize + Kept(h)
      /\ limbsSize' < LimbsCapacity
      /\ entries' = entries \cup {<<h, q>>}
      /\ DOMAIN limbs = 0 .. LimbsCapacity - 1
      /\ DOMAIN limbs' = DOMAIN limbs
  BY <1>1 DEF Store, Fits, NextFree, SInv
<1>3. /\ q.pos = limbsSize /\ q.length = Kept(h)
      /\ q \in [compressed : BOOLEAN, length : Nat, pos : Nat]
  <2>1. HasRootPrefix(h) \in BOOLEAN
    BY DEF HasRootPrefix
  <2> QED
    BY <2>1, <1>1, <1>2 DEF Pointer
<1>4. ASSUME NEW i \in 0 .. limbsSize - 1 PROVE limbs'[i] = limbs[i]
  <2>1. i \in DOMAIN limbs /\ i \notin limbsSize .. limbsSize + Kept(h) - 1
    BY <1>1, <1>2 DEF SInv
  <2> QED
    BY <2>1 DEF Store
<1>5. ASSUME NEW e \in entries'
      PROVE  /\ e[2] \in [compressed : BOOLEAN, length : Nat, pos : Nat]
             /\ e[2] = RootPtr \/ e[2].pos + e[2].length <= limbsSize'
  <2>1. CASE e \in entries
    BY <2>1, <1>1, <1>2 DEF SInv
  <2>2. CASE e = <<h, q>>
    BY <2>2, <1>1, <1>2, <1>3
  <2> QED
    BY <2>1, <2>2, <1>2, <1>5
<1>6. SInv'
  BY <1>1, <1>2, <1>5 DEF SInv
<1> QED
  BY <1>4, <1>6

LEMMA StepSInv ==
    ASSUME SInv, [Next]_vars
    PROVE  /\ SInv'
           /\ \A i \in 0 .. limbsSize - 1 : limbs'[i] = limbs[i]
           /\ entries \subseteq entries' /\ root' = root
<1>1. CASE StoreRoot
  <2>1. RootPtr \in [compressed : BOOLEAN, length : Nat, pos : Nat]
    BY DEF RootPtr, Pointer
  <2> QED
    BY <1>1, <2>1 DEF StoreRoot, SInv
<1>2. ASSUME NEW h \in Handles, Store(h)
      PROVE  /\ SInv'
             /\ \A i \in 0 .. limbsSize - 1 : limbs'[i] = limbs[i]
             /\ entries \subseteq entries' /\ root' = root
  BY <1>2, StoreSInv DEF Store
<1>3. ASSUME NEW h \in Handles, StoreNoRoom(h) \/ StoreTooShort(h)
      PROVE  UNCHANGED <<root, limbs, limbsSize, entries>>
  BY <1>3 DEF StoreNoRoom, StoreTooShort
<1>4. UNCHANGED <<root, limbs, limbsSize, entries>> => SInv'
  BY DEF SInv
<1> QED
  BY <1>1, <1>2, <1>3, <1>4 DEF Next, vars

\* One step never changes what an earlier pointer stands for.
LEMMA StepStable ==
    ASSUME SInv, [Next]_vars
    PROVE  \A e \in entries : e \in entries' /\ Decode(e[2])' = Decode(e[2])
<1> SUFFICES ASSUME NEW e \in entries PROVE Decode(e[2])' = Decode(e[2])
  BY StepSInv
<1> USE DEF SInv
<1>1. PICK p : p = e[2]
  OBVIOUS
<1>2. /\ p \in [compressed : BOOLEAN, length : Nat, pos : Nat]
      /\ p = RootPtr \/ p.pos + p.length <= limbsSize
  BY <1>1
<1>3. Decode(p)' = Decode(p)
  BY <1>2, StepSInv, DecodeStable
<1> QED
  BY <1>1, <1>3 DEF Decode

(***************************************************************************)
(* Whatever the handles of the server, well formed or not, what a pointer  *)
(* decodes to is settled when handleToPtr makes it: no handle stored later *)
(* changes it.                                                             *)
(***************************************************************************)
THEOREM SettledWhenMade == Spec => PointersStable
<1>1. Init => SInv
  BY HandleStoreAssumption DEF Init, SInv
<1>2. SInv /\ [Next]_vars => SInv'
  BY StepSInv
<1>3. SInv /\ [Next]_vars
      => [\A e \in entries : e \in entries' /\ Decode(e[2])' = Decode(e[2])]_vars
  BY StepStable
<1> QED
  BY <1>1, <1>2, <1>3, PTL DEF Spec, PointersStable
=============================================================================
