-------------------------- MODULE NameCacheProofs --------------------------
(***************************************************************************)
(* For every set of names, every assignment of keys and lengths and every  *)
(* capacity, the name cache is type correct, never has two nodes for one   *)
(* name, never lets two strings overlap, finds every name again, and       *)
(* implements Interning.                                                   *)
(*                                                                         *)
(* That a name is not inserted twice is not inductive by itself.  What     *)
(* makes it true is that every node was reached by the comparisons its own *)
(* name makes at the nodes above it, and that two nodes neither of which   *)
(* is above the other part at some node above both.  The nodes above a     *)
(* node are not in the state, so the invariant asserts that some way to    *)
(* assign them exists.                                                     *)
(***************************************************************************)
EXTENDS NameCache, TLAPS, WellFoundedInduction

InUse == 0 .. nodeSize - 1

\* above[x] holds the pair <<a, s>> when x hangs below the s side of node a.
AboveType(above) ==
    /\ above \in [Nodes -> SUBSET (Nodes \X Sides)]
    /\ above[0] = {}

\* A name is where its own comparisons lead.
Placed(above) ==
    \A x \in InUse : \A a \in Nodes : \A s \in Sides :
        <<a, s>> \in above[x] =>
            a \in InUse /\ kid[a][s] # 0 /\ Branch(nameOf[x], a) = s

\* A child is behind its parent in the node array, below it and below all
\* that is above the parent.
Hung(above) ==
    \A x \in InUse : \A s \in Sides :
        kid[x][s] # 0 =>
            /\ kid[x][s] \in InUse /\ x < kid[x][s]
            /\ above[kid[x][s]] = above[x] \cup {<<x, s>>}

\* What is above a node is above all that is below it.
Nested(above) ==
    \A x \in InUse : \A a \in Nodes : \A s \in Sides :
        <<a, s>> \in above[x] => above[a] \subseteq above[x]

Parted(above, x, y) ==
    \/ \E s \in Sides : <<x, s>> \in above[y] \/ <<y, s>> \in above[x]
    \/ \E a \in Nodes : \E s, t \in Sides :
          s # t /\ <<a, s>> \in above[x] /\ <<a, t>> \in above[y]

\* The walk has taken the turns the wanted name takes.
OnCourse(above) ==
    pc = "walk" =>
        /\ cur \in InUse
        /\ \A a \in Nodes : \A s \in Sides :
              <<a, s>> \in above[cur] => Branch(want, a) = s

TreeOK(above) ==
    /\ AboveType(above)
    /\ Placed(above)
    /\ Hung(above)
    /\ Nested(above)
    /\ \A x, y \in InUse : x # y => Parted(above, x, y)
    /\ OnCourse(above)

InUseOK ==
    /\ \A x \in Live : nameOf[x] \in Names
    /\ \A x \in Nodes \ InUse : \A s \in Sides : kid[x][s] = 0
    /\ pc = "walk" => want \in Names

\* The strings lie one after the other below tableSize.
Packed ==
    /\ \A x \in Live : namePtr[x] >= 4
    /\ \A x \in Live : namePtr[x] + Length[nameOf[x]] + 1 <= tableSize + 4
    /\ StringsDisjoint

IInv ==
    /\ TypeOK
    /\ InUseOK
    /\ Packed
    /\ \E above \in [Nodes -> SUBSET (Nodes \X Sides)] : TreeOK(above)

-----------------------------------------------------------------------------
LEMMA Align4Bound == \A n \in Nat : Align4(n) \in Nat /\ Align4(n) >= n
  BY DEF Align4

\* The comparison has three outcomes.
LEMMA BranchType ==
    \A n, x : Branch(n, x) \in Sides \cup {"here"}
  BY DEF Branch, Sides

\* At a node other than the root, a comparison is "here" for no other name.
LEMMA BranchHere ==
    ASSUME NEW n, NEW x \in Nodes
    PROVE  /\ Branch(n, x) = "here" => n = nameOf[x]
           /\ x # 0 => Branch(nameOf[x], x) = "here"
  BY DEF Branch, KeyAt, Nodes

(***************************************************************************)
(* The cache is type correct, and nodes are filled in the order of their   *)
(* numbers.                                                                *)
(***************************************************************************)
LEMMA InitIInv == Init => IInv
<1> SUFFICES ASSUME Init PROVE IInv
  OBVIOUS
<1> USE NameCacheAssumption
<1> DEFINE above == [x \in Nodes |-> {}]
<1>1. TypeOK /\ InUseOK
  BY DEF Init, TypeOK, InUseOK, Nodes, Sides, Live, Empty, InUse
<1>2. Packed
  BY DEF Init, Packed, StringsDisjoint, Live
<1>3. TreeOK(above)
  BY DEF Init, TreeOK, AboveType, Placed, Hung, Nested, OnCourse, InUse, Nodes, Sides
<1>4. above \in [Nodes -> SUBSET (Nodes \X Sides)]
  OBVIOUS
<1> QED
  BY <1>1, <1>2, <1>3, <1>4 DEF IInv

-----------------------------------------------------------------------------
(***************************************************************************)
(* The insertion is the step that changes the tree: the new node goes      *)
(* below cur, where the wanted name's comparisons have led.                *)
(***************************************************************************)
LEMMA InsertTree ==
    ASSUME IInv, NEW s \in Sides, Insert(s)
    PROVE  (\E above \in [Nodes -> SUBSET (Nodes \X Sides)] : TreeOK(above))'
<1> USE NameCacheAssumption
<1>1. PICK above \in [Nodes -> SUBSET (Nodes \X Sides)] : TreeOK(above)
  BY DEF IInv
<1> DEFINE z == nodeSize
           below == above[cur] \cup {<<cur, s>>}
<1>2. /\ z \in Nodes /\ z # 0 /\ z \notin InUse /\ cur \in InUse /\ cur \in Nodes
      /\ InUse \subseteq Nodes /\ 0 \in InUse
      /\ InUse' = InUse \cup {z}
  <2>1. nodeSize \in 1 .. NodeCapacity /\ nodeSize < NodeCapacity /\ nodeSize' = nodeSize + 1
    BY DEF IInv, TypeOK, Insert, HasRoom
  <2>2. cur \in InUse
    BY <1>1 DEF TreeOK, OnCourse, Insert
  <2> QED
    BY <2>1, <2>2 DEF InUse, Nodes
<1>3. PICK new \in [Nodes -> SUBSET (Nodes \X Sides)] : new = [above EXCEPT ![z] = below]
  <2>1. below \in SUBSET (Nodes \X Sides)
    BY <1>2
  <2>2. [above EXCEPT ![z] = below] \in [Nodes -> SUBSET (Nodes \X Sides)]
    BY <2>1
  <2> QED
    BY <2>2
<1>4. /\ new[z] = below
      /\ \A x \in InUse : new[x] = above[x] /\ nameOf'[x] = nameOf[x]
      /\ nameOf'[z] = want
  BY <1>2, <1>1, <1>3 DEF Insert, IInv, TypeOK
<1>5. /\ kid \in [Nodes -> [Sides -> Nodes]]
      /\ kid'[cur][s] = z
      /\ \A x \in Nodes : \A t \in Sides : <<x, t>> # <<cur, s>> => kid'[x][t] = kid[x][t]
      /\ \A t \in Sides : kid'[z][t] = 0
  <2>1. kid \in [Nodes -> [Sides -> Nodes]] /\ \A t \in Sides : kid[z][t] = 0
    BY <1>2 DEF IInv, TypeOK, InUseOK
  <2>2. kid' = [kid EXCEPT ![cur] = [kid[cur] EXCEPT ![s] = z]]
    BY DEF Insert, Link
  <2>3. kid[cur] \in [Sides -> Nodes]
    BY <2>1, <1>2
  <2>4. kid'[cur] = [kid[cur] EXCEPT ![s] = z]
    BY <2>1, <2>2, <1>2
  <2>5. \A x \in Nodes : x # cur => kid'[x] = kid[x]
    BY <2>1, <2>2
  <2> QED
    BY <2>1, <2>3, <2>4, <2>5, <1>2
<1>6. \A n : \A a \in InUse : Branch(n, a)' = Branch(n, a)
  BY <1>2, <1>4 DEF Branch, KeyAt, Insert
<1>7. AboveType(new)
  BY <1>1, <1>2, <1>3 DEF TreeOK, AboveType
<1>8. Placed(new)'
  <2> SUFFICES ASSUME NEW x \in InUse', NEW a \in Nodes, NEW t \in Sides, <<a, t>> \in new[x]
               PROVE  a \in InUse /\ kid'[a][t] # 0 /\ Branch(nameOf[x], a)' = t
    BY <1>2 DEF Placed
  <2>1. CASE x \in InUse
    <3>1. a \in InUse /\ kid[a][t] # 0 /\ Branch(nameOf[x], a) = t
      BY <2>1, <1>1, <1>4 DEF TreeOK, Placed
    <3>2. kid'[a][t] # 0
      BY <3>1, <1>5, <1>2
    <3> QED
      BY <2>1, <3>1, <3>2, <1>4, <1>6
  <2>2. CASE x = z /\ <<a, t>> = <<cur, s>>
    <3>1. Branch(want, cur) = s
      BY DEF Insert
    <3> QED
      BY <2>2, <3>1, <1>2, <1>4, <1>5, <1>6
  <2>3. CASE x = z /\ <<a, t>> \in above[cur]
    <3>1. a \in InUse /\ kid[a][t] # 0 /\ Branch(want, a) = t
      BY <2>3, <1>1, <1>2 DEF TreeOK, Placed, OnCourse, Insert
    <3>2. kid'[a][t] # 0
      BY <3>1, <1>5, <1>2
    <3> QED
      BY <2>3, <3>1, <3>2, <1>4, <1>6
  <2> QED
    BY <2>1, <2>2, <2>3, <1>2, <1>4
<1>9. Hung(new)'
  <2> SUFFICES ASSUME NEW x \in InUse', NEW t \in Sides, kid'[x][t] # 0
               PROVE  /\ kid'[x][t] \in InUse'
                      /\ x < kid'[x][t]
                      /\ new[kid'[x][t]] = new[x] \cup {<<x, t>>}
    BY DEF Hung
  <2>1. CASE <<x, t>> = <<cur, s>>
    <3>1. cur < z
      BY <1>2 DEF IInv, TypeOK, InUse
    <3> QED
      BY <2>1, <3>1, <1>2, <1>4, <1>5
  <2>2. CASE <<x, t>> # <<cur, s>>
    <3>1. x \in InUse /\ kid'[x][t] = kid[x][t]
      BY <2>2, <1>2, <1>5
    <3>2. /\ kid[x][t] \in InUse /\ x < kid[x][t]
          /\ above[kid[x][t]] = above[x] \cup {<<x, t>>}
      BY <2>2, <3>1, <1>1 DEF TreeOK, Hung
    <3> QED
      BY <3>1, <3>2, <1>2, <1>4
  <2> QED
    BY <2>1, <2>2
<1>10. \A x \in InUse : Parted(new, x, z)
  <2> SUFFICES ASSUME NEW x \in InUse PROVE Parted(new, x, z)
    OBVIOUS
  <2>1. CASE x = cur
    BY <2>1, <1>4 DEF Parted
  <2>2. CASE x # cur
    <3>1. Parted(above, x, cur)
      BY <2>2, <1>1, <1>2 DEF TreeOK
    <3>2. CASE \E t \in Sides : <<x, t>> \in above[cur]
      BY <3>2, <1>4 DEF Parted
    <3>3. CASE \E t \in Sides : <<cur, t>> \in above[x]
      <4>1. PICK t \in Sides : <<cur, t>> \in above[x]
        BY <3>3
      <4>2. kid[cur][t] # 0
        BY <4>1, <1>1, <1>2 DEF TreeOK, Placed
      <4>3. t # s
        BY <4>2 DEF Insert
      <4> QED
        BY <4>1, <4>3, <1>2, <1>4 DEF Parted
    <3>4. CASE \E a \in Nodes : \E t, u \in Sides :
                  t # u /\ <<a, t>> \in above[x] /\ <<a, u>> \in above[cur]
      BY <3>4, <1>4 DEF Parted
    <3> QED
      BY <3>1, <3>2, <3>3, <3>4 DEF Parted
  <2> QED
    BY <2>1, <2>2
<1>11. \A x, y \in InUse' : x # y => Parted(new, x, y)
  <2> SUFFICES ASSUME NEW x \in InUse', NEW y \in InUse', x # y
               PROVE  Parted(new, x, y)
    OBVIOUS
  <2>1. CASE x \in InUse /\ y \in InUse
    <3>1. Parted(above, x, y)
      BY <2>1, <1>1 DEF TreeOK
    <3> QED
      BY <2>1, <3>1, <1>4 DEF Parted
  <2>2. CASE y = z
    BY <2>2, <1>2, <1>10
  <2>3. CASE x = z
    <3>1. Parted(new, y, x)
      BY <2>3, <1>2, <1>10
    <3> QED
      BY <3>1 DEF Parted
  <2> QED
    BY <2>1, <2>2, <2>3, <1>2
<1>12. OnCourse(new)'
  BY DEF OnCourse, Insert
<1>13. Nested(new)'
  <2> SUFFICES ASSUME NEW x \in InUse', NEW a \in Nodes, NEW t \in Sides, <<a, t>> \in new[x]
               PROVE  new[a] \subseteq new[x]
    BY DEF Nested
  <2>1. CASE x \in InUse
    <3>1. a \in InUse /\ above[a] \subseteq above[x]
      BY <2>1, <1>1, <1>2, <1>4 DEF TreeOK, Placed, Nested
    <3> QED
      BY <2>1, <3>1, <1>4
  <2>2. CASE x = z /\ <<a, t>> = <<cur, s>>
    BY <2>2, <1>2, <1>4
  <2>3. CASE x = z /\ <<a, t>> \in above[cur]
    <3>1. a \in InUse /\ above[a] \subseteq above[cur]
      BY <2>3, <1>1, <1>2 DEF TreeOK, Placed, Nested
    <3> QED
      BY <2>3, <3>1, <1>2, <1>4
  <2> QED
    BY <2>1, <2>2, <2>3, <1>2, <1>4
<1>14. TreeOK(new)'
  BY <1>7, <1>8, <1>9, <1>11, <1>12, <1>13 DEF TreeOK, AboveType, Parted
<1> QED
  BY <1>3, <1>14

\* The strings: the new one starts where the last one ended, rounded up.
LEMMA InsertPacked ==
    ASSUME IInv, NEW s \in Sides, Insert(s)
    PROVE  Packed' /\ tableSize' \in Nat
<1> USE NameCacheAssumption
<1> DEFINE z == nodeSize
<1>1. /\ tableSize \in Nat /\ want \in Names /\ Length[want] \in Nat
      /\ nodeSize \in 1 .. NodeCapacity /\ nodeSize < NodeCapacity
      /\ nameOf \in [Nodes -> Names \cup {Empty}] /\ namePtr \in [Nodes -> Nat]
  BY DEF IInv, TypeOK, InUseOK, Insert, HasRoom
<1>2. /\ z \in Nodes /\ Live' = Live \cup {z} /\ z \notin Live /\ Live \subseteq Nodes
      /\ \A x \in Live : x < z
  <2>1. nodeSize' = nodeSize + 1
    BY DEF Insert
  <2> QED BY <1>1, <2>1 DEF Live, Nodes
<1>3. /\ tableSize' \in Nat
      /\ tableSize' >= tableSize + Length[want] + 1
  <2>1. tableSize' = tableSize + Align4(Length[want] + 1)
    BY DEF Insert
  <2>2. Align4(Length[want] + 1) \in Nat /\ Align4(Length[want] + 1) >= Length[want] + 1
    BY <1>1, Align4Bound
  <2> QED
    BY <2>1, <2>2, <1>1
<1>4. /\ nameOf'[z] = want /\ namePtr'[z] = tableSize + 4
      /\ \A x \in Live : nameOf'[x] = nameOf[x] /\ namePtr'[x] = namePtr[x]
  BY <1>1, <1>2 DEF Insert, PtrTo
<1>5. \A x \in Live : Length[nameOf[x]] \in Nat /\ namePtr[x] \in Nat
  BY <1>1, <1>2 DEF IInv, InUseOK
<1>6. \A x \in Live' : namePtr'[x] >= 4
  BY <1>1, <1>2, <1>4 DEF IInv, Packed
<1>7. \A x \in Live' : namePtr'[x] + Length[nameOf'[x]] + 1 <= tableSize' + 4
  <2>1. \A x \in Live : namePtr[x] + Length[nameOf[x]] + 1 <= tableSize + 4
    BY DEF IInv, Packed
  <2> QED
    BY <2>1, <1>1, <1>2, <1>3, <1>4, <1>5
<1>8. StringsDisjoint'
  <2> SUFFICES ASSUME NEW x \in Live', NEW y \in Live', x < y
               PROVE  namePtr'[x] + Length[nameOf'[x]] + 1 <= namePtr'[y]
    BY DEF StringsDisjoint
  <2>1. x \in Live
    BY <1>1, <1>2 DEF Live
  <2>2. CASE y \in Live
    BY <2>1, <2>2, <1>4 DEF IInv, Packed, StringsDisjoint
  <2>3. CASE y = z
    BY <2>1, <2>3, <1>4 DEF IInv, Packed
  <2> QED
    BY <2>2, <2>3, <1>2
<1> QED
  BY <1>3, <1>6, <1>7, <1>8 DEF Packed

LEMMA InsertTypeOK ==
    ASSUME IInv, NEW s \in Sides, Insert(s)
    PROVE  TypeOK' /\ InUseOK'
<1> USE NameCacheAssumption
<1>1. TypeOK /\ InUseOK /\ want \in Names
  BY DEF IInv, InUseOK, Insert
<1>2. nodeSize \in Nodes /\ nodeSize' \in 1 .. NodeCapacity /\ nodeSize' = nodeSize + 1
  BY <1>1 DEF TypeOK, Insert, HasRoom, Nodes
<1>3. tableSize' \in Nat
  BY InsertPacked
<1>4. PtrTo(tableSize) \in Nat
  BY <1>1 DEF TypeOK, PtrTo
<1>5. kid' = [kid EXCEPT ![cur] = [kid[cur] EXCEPT ![s] = nodeSize]]
  BY DEF Insert, Link
<1>6. [kid[cur] EXCEPT ![s] = nodeSize] \in [Sides -> Nodes]
  BY <1>1, <1>2 DEF TypeOK
<1>7. kid' \in [Nodes -> [Sides -> Nodes]]
  BY <1>1, <1>5, <1>6 DEF TypeOK
<1>8. TypeOK'
  BY <1>1, <1>2, <1>3, <1>4, <1>7 DEF TypeOK, Insert
<1>9. \A x \in Live' : nameOf'[x] \in Names
  <2>1. Live' = Live \cup {nodeSize}
    BY <1>1, <1>2 DEF TypeOK, Live
  <2>2. nameOf'[nodeSize] = want
    BY <1>1, <1>2 DEF TypeOK, Insert
  <2>3. \A x \in Live : x \in Nodes /\ x # nodeSize
    BY <1>1 DEF TypeOK, Live, Nodes
  <2>4. \A x \in Live : nameOf'[x] = nameOf[x]
    BY <2>3, <1>1 DEF TypeOK, Insert
  <2> QED
    BY <2>1, <2>2, <2>4, <1>1 DEF InUseOK
<1>10. \A x \in Nodes \ InUse' : \A t \in Sides : kid'[x][t] = 0
  <2> SUFFICES ASSUME NEW x \in Nodes \ InUse', NEW t \in Sides PROVE kid'[x][t] = 0
    OBVIOUS
  <2>1. x \notin InUse /\ cur \in InUse
    BY <1>1, <1>2 DEF IInv, TreeOK, OnCourse, Insert, InUse, TypeOK
  <2>2. kid'[x] = kid[x]
    BY <2>1, <1>1, <1>5 DEF TypeOK
  <2> QED
    BY <2>1, <2>2, <1>1 DEF InUseOK
<1> QED
  BY <1>8, <1>9, <1>10 DEF InUseOK, Insert

\* Every other step leaves the tree alone and moves at most the cursor.
LEMMA TreeKept ==
    ASSUME IInv,
           UNCHANGED <<nodeSize, nameOf, kid, namePtr, tableSize>>,
           pc' = "walk" =>
             \/ cur' = 0
             \/ cur' = cur /\ want' = want /\ pc = "walk"
             \/ /\ pc = "walk" /\ want' = want
                /\ \E s \in Sides : /\ Branch(want, cur) = s /\ kid[cur][s] # 0
                                    /\ cur' = kid[cur][s]
    PROVE  /\ (\E above \in [Nodes -> SUBSET (Nodes \X Sides)] : TreeOK(above))'
           /\ Packed'
<1> USE NameCacheAssumption
<1>1. PICK above \in [Nodes -> SUBSET (Nodes \X Sides)] : TreeOK(above)
  BY DEF IInv
<1>2. /\ InUse' = InUse /\ Live' = Live /\ 0 \in InUse
      /\ \A n, x : Branch(n, x)' = Branch(n, x)
  BY DEF InUse, Live, Branch, KeyAt, IInv, TypeOK
<1>3. Placed(above)' /\ Hung(above)' /\ Nested(above)' /\ AboveType(above)'
  BY <1>1, <1>2 DEF TreeOK, Placed, Hung, Nested, AboveType
<1>4. OnCourse(above)'
  <2> SUFFICES ASSUME pc' = "walk"
               PROVE  /\ cur' \in InUse
                      /\ \A a \in Nodes : \A t \in Sides :
                            <<a, t>> \in above[cur'] => Branch(want', a) = t
    BY <1>2 DEF OnCourse
  <2>1. CASE cur' = 0
    BY <2>1, <1>1, <1>2 DEF TreeOK, AboveType
  <2>2. CASE cur' = cur /\ want' = want /\ pc = "walk"
    BY <2>2, <1>1 DEF TreeOK, OnCourse
  <2>3. ASSUME pc = "walk", want' = want, NEW s \in Sides, Branch(want, cur) = s,
               kid[cur][s] # 0, cur' = kid[cur][s]
        PROVE  /\ cur' \in InUse
               /\ \A a \in Nodes : \A t \in Sides :
                     <<a, t>> \in above[cur'] => Branch(want', a) = t
    <3>1. cur' \in InUse /\ above[cur'] = above[cur] \cup {<<cur, s>>}
      BY <2>3, <1>1 DEF TreeOK, Hung, OnCourse
    <3> QED
      BY <2>3, <3>1, <1>1 DEF TreeOK, OnCourse
  <2> QED
    BY <2>1, <2>2, <2>3
<1>5. TreeOK(above)'
  BY <1>1, <1>2, <1>3, <1>4 DEF TreeOK, Parted
<1>6. Packed'
  BY <1>2 DEF IInv, Packed, StringsDisjoint
<1> QED
  BY <1>5, <1>6

-----------------------------------------------------------------------------
LEMMA StepIInv == IInv /\ [Next]_vars => IInv'
<1> SUFFICES ASSUME IInv, [Next]_vars PROVE IInv'
  OBVIOUS
<1> USE NameCacheAssumption
<1>1. CASE CallEmpty
  <2>1. TypeOK' /\ InUseOK'
    BY <1>1 DEF CallEmpty, IInv, TypeOK, InUseOK, Live, InUse
  <2> QED
    BY <1>1, <2>1, TreeKept DEF CallEmpty, IInv
<1>2. ASSUME NEW n \in Names, Call(n) PROVE IInv'
  <2>1. TypeOK'
    <3>1. pc' = "walk" /\ want' = n /\ cur' = 0 /\ 0 \in Nodes
      BY <1>2 DEF Call, Nodes
    <3>2. UNCHANGED <<nodeSize, nameOf, kid, namePtr, tableSize, answer>>
      BY <1>2 DEF Call
    <3> QED
      BY <3>1, <3>2 DEF IInv, TypeOK
  <2>2. InUseOK'
    BY <1>2 DEF Call, IInv, InUseOK, Live, InUse
  <2> QED
    BY <1>2, <2>1, <2>2, TreeKept DEF Call, IInv
<1>3. CASE Found
  <2>1. TypeOK' /\ InUseOK'
    BY <1>3 DEF Found, IInv, TypeOK, InUseOK, Live, InUse
  <2> QED
    BY <1>3, <2>1, TreeKept DEF Found, IInv
<1>4. ASSUME NEW s \in Sides, Descend(s) PROVE IInv'
  <2>1. TypeOK' /\ InUseOK'
    BY <1>4 DEF Descend, IInv, TypeOK, InUseOK, Live, InUse
  <2> QED
    BY <1>4, <2>1, TreeKept DEF Descend, IInv
<1>5. ASSUME NEW s \in Sides, Insert(s) PROVE IInv'
  BY <1>5, InsertTypeOK, InsertPacked, InsertTree DEF IInv
<1>6. ASSUME NEW s \in Sides, Abort(s) PROVE IInv'
  <2>1. TypeOK' /\ InUseOK'
    BY <1>6 DEF Abort, IInv, TypeOK, InUseOK, Live, InUse
  <2> QED
    BY <1>6, <2>1, TreeKept DEF Abort, IInv
<1>7. CASE UNCHANGED vars
  <2>1. TypeOK' /\ InUseOK'
    BY <1>7 DEF vars, IInv, TypeOK, InUseOK, Live, InUse
  <2> QED
    BY <1>7, <2>1, TreeKept DEF vars, IInv
<1> QED
  BY <1>1, <1>2, <1>3, <1>4, <1>5, <1>6, <1>7 DEF Next, Turn

LEMMA Invariance == Spec => []IInv
<1> QED
  BY InitIInv, StepIInv, PTL DEF Spec

(***************************************************************************)
(* Every variable keeps its type: in particular node_size never passes the *)
(* capacity and every child offset points into the node array.             *)
(***************************************************************************)
THEOREM TypeCorrect == Spec => []TypeOK
<1>1. IInv => TypeOK
  BY DEF IInv
<1> QED
  BY <1>1, Invariance, PTL

LEMMA OnceFromIInv == IInv => NamesInternedOnce
<1> SUFFICES ASSUME IInv, NEW x \in Live, NEW y \in Live, nameOf[x] = nameOf[y], x # y
             PROVE  FALSE
  BY DEF NamesInternedOnce
<1>1. PICK above \in [Nodes -> SUBSET (Nodes \X Sides)] : TreeOK(above)
  BY DEF IInv
<1>2. x \in InUse /\ y \in InUse /\ x # 0 /\ y # 0 /\ x \in Nodes /\ y \in Nodes
  BY NameCacheAssumption DEF IInv, TypeOK, Live, InUse, Nodes
<1>3. Parted(above, x, y)
  BY <1>1, <1>2 DEF TreeOK
<1>4. \A z \in InUse : \A a \in Nodes : \A s \in Sides :
         <<a, s>> \in above[z] => Branch(nameOf[z], a) = s
  BY <1>1 DEF TreeOK, Placed
<1>5. Branch(nameOf[x], x) = "here" /\ Branch(nameOf[y], y) = "here"
  BY <1>2, BranchHere
<1>6. \A s \in Sides : s # "here"
  BY DEF Sides
<1> QED
  BY <1>2, <1>3, <1>4, <1>5, <1>6 DEF Parted

(***************************************************************************)
(* A name never has two nodes, whatever the keys: GetOrAddNameByKey finds  *)
(* every name it has inserted, and pointers can stand for names.           *)
(***************************************************************************)
THEOREM InternedOnce == Spec => []NamesInternedOnce
<1> QED
  BY Invariance, OnceFromIInv, PTL

(***************************************************************************)
(* The strings never overlap, whatever their lengths: rounding the length  *)
(* and the terminator up to a multiple of four leaves room for both.       *)
(***************************************************************************)
THEOREM StringsApart == Spec => []StringsDisjoint
<1>1. IInv => StringsDisjoint
  BY DEF IInv, Packed
<1> QED
  BY <1>1, Invariance, PTL

-----------------------------------------------------------------------------
(* The walk to a name *)

\* A non-empty set of natural numbers has a greatest element below a bound.
LEMMA GreatestIn ==
    ASSUME NEW N \in Nat, NEW S \in SUBSET (0 .. N), S # {}
    PROVE  \E x \in S : \A y \in S : y <= x
<1> DEFINE R == {N - x : x \in S}
<1>1. R \in SUBSET Nat /\ R # {}
  <2>1. \A x \in S : N - x \in Nat
    OBVIOUS
  <2> QED
    BY <2>1
<1> HIDE DEF R
<1>2. PICK r \in R : \A q \in R : ~(<<q, r>> \in OpToRel(<, Nat))
  BY <1>1, NatLessThanWellFounded, WFMin, Zenon
<1>3. \A q \in R : r <= q
  <2> SUFFICES ASSUME NEW q \in R PROVE r <= q
    OBVIOUS
  <2>1. ~(<<q, r>> \in {ss \in Nat \X Nat : ss[1] < ss[2]})
    BY <1>2 DEF OpToRel
  <2> QED
    BY <1>1, <2>1, SMT
<1>4. PICK x \in S : r = N - x
  BY DEF R
<1>5. \A y \in S : N - y \in R
  BY DEF R
<1>6. \A y \in S : y <= x
  BY <1>3, <1>4, <1>5
<1> QED
  BY <1>6

\* The nodes on the way to y are y and those above it.
OnWay(above, x, y) == x = y \/ \E s \in Sides : <<x, s>> \in above[y]

\* When the walk for a name has been at a node on the way, its next node is
\* on the way, and when it has not been there, it is not.
LEMMA WayDown ==
    ASSUME IInv, NEW above \in [Nodes -> SUBSET (Nodes \X Sides)], TreeOK(above),
           NEW y \in Live, NEW x \in InUse, NEW s \in Sides,
           Branch(nameOf[y], x) = s
    PROVE  /\ kid[x][s] # 0 => (OnWay(above, x, y) <=> OnWay(above, kid[x][s], y))
           /\ kid[x][s] = 0 => ~OnWay(above, x, y)
<1> DEFINE k == kid[x][s]
<1>1. /\ y \in InUse /\ y \in Nodes /\ y # 0 /\ x \in Nodes
      /\ Branch(nameOf[y], y) = "here" /\ "here" \notin Sides
  <2>1. y \in InUse /\ y \in Nodes /\ y # 0
    BY NameCacheAssumption DEF IInv, TypeOK, Live, InUse, Nodes
  <2>2. x \in Nodes
    BY NameCacheAssumption DEF IInv, TypeOK, InUse, Nodes
  <2> QED
    BY <2>1, <2>2, BranchHere DEF Sides
<1>2. \A z \in InUse : \A a \in Nodes : \A t \in Sides :
         <<a, t>> \in above[z] =>
            a \in InUse /\ kid[a][t] # 0 /\ Branch(nameOf[z], a) = t /\ above[a] \subseteq above[z]
  BY DEF TreeOK, Placed, Nested
<1>3. x # y
  BY <1>1
<1>4. kid[x][s] = 0 => ~OnWay(above, x, y)
  BY <1>1, <1>2, <1>3 DEF OnWay
<1>5. ASSUME k # 0
      PROVE  k \in InUse /\ above[k] = above[x] \cup {<<x, s>>}
  BY <1>5 DEF TreeOK, Hung
<1>6. ASSUME k # 0, OnWay(above, x, y)
      PROVE  OnWay(above, k, y)
  <2>1. <<x, s>> \in above[y] /\ above[x] \subseteq above[y]
    BY <1>1, <1>2, <1>3, <1>6 DEF OnWay
  <2>2. above[k] \subseteq above[y] /\ k \in InUse
    BY <1>5, <1>6, <2>1
  <2>3. CASE k # y
    <3>1. Parted(above, k, y)
      BY <1>1, <2>2, <2>3 DEF TreeOK
    <3>2. ASSUME NEW t \in Sides, <<y, t>> \in above[k]
          PROVE  FALSE
      <4>1. <<y, t>> \in above[y]
        BY <2>2, <3>2
      <4>2. Branch(nameOf[y], y) = t
        BY <1>1, <1>2, <4>1
      <4> QED
        BY <1>1, <4>2
    <3>3. ASSUME NEW a \in Nodes, NEW t \in Sides, NEW u \in Sides,
                 t # u, <<a, t>> \in above[k], <<a, u>> \in above[y]
          PROVE  FALSE
      <4>1. <<a, t>> \in above[y]
        BY <2>2, <3>3
      <4>2. Branch(nameOf[y], a) = t
        BY <1>1, <1>2, <4>1
      <4>3. Branch(nameOf[y], a) = u
        BY <1>1, <1>2, <3>3
      <4> QED
        BY <3>3, <4>2, <4>3
    <3> QED
      BY <3>1, <3>2, <3>3 DEF Parted, OnWay
  <2> QED
    BY <2>3 DEF OnWay
<1>7. ASSUME k # 0, OnWay(above, k, y)
      PROVE  OnWay(above, x, y)
  <2>1. <<x, s>> \in above[k] /\ k \in InUse
    BY <1>5, <1>7
  <2>2. CASE k = y
    BY <2>1, <2>2 DEF OnWay
  <2>3. CASE k # y
    <3>1. above[k] \subseteq above[y]
      <4>1. k \in Nodes
        <5>1. InUse \subseteq Nodes
          BY NameCacheAssumption DEF InUse, Nodes, IInv, TypeOK
        <5> QED
          BY <2>1, <5>1
      <4>2. PICK u \in Sides : <<k, u>> \in above[y]
        BY <1>7, <2>3 DEF OnWay
      <4> QED
        BY <1>1, <1>2, <4>1, <4>2
    <3> QED
      BY <2>1, <3>1 DEF OnWay
  <2> QED
    BY <2>2, <2>3
<1> QED
  BY <1>4, <1>6, <1>7

\* The walk for the name of node y, from a node on the way to y, ends at y.
LEMMA WalkEnds == IInv => EveryNameIsFound
<1> SUFFICES ASSUME IInv, NEW y \in Live PROVE WalkFor(nameOf[y]) = y
  BY DEF EveryNameIsFound
<1> USE NameCacheAssumption
<1>1. PICK above \in [Nodes -> SUBSET (Nodes \X Sides)] : TreeOK(above)
  BY DEF IInv
<1>2. /\ y \in InUse /\ y \in Nodes /\ y # 0 /\ 0 \in InUse /\ 0 \in Nodes
      /\ InUse \subseteq Nodes /\ nameOf[y] \in Names
      /\ kid \in [Nodes -> [Sides -> Nodes]]
  <2>1. y \in InUse /\ y \in Nodes /\ y # 0
    BY DEF IInv, TypeOK, Live, InUse, Nodes
  <2>2. 0 \in InUse /\ 0 \in Nodes /\ InUse \subseteq Nodes
    BY DEF IInv, TypeOK, InUse, Nodes
  <2> QED
    BY <2>1, <2>2 DEF IInv, TypeOK, InUseOK
<1>3. PICK n : n = nameOf[y]
  OBVIOUS
<1> DEFINE Turn1(f, x) == IF Branch(n, x) = "here" THEN x
                          ELSE IF kid[x][Branch(n, x)] = 0 THEN 0
                          ELSE f[kid[x][Branch(n, x)]]
           W(f) == f = [x \in Nodes |-> Turn1(f, x)]
           f0 == [x \in Nodes |-> IF x \in InUse
                                  THEN IF OnWay(above, x, y) THEN y ELSE 0
                                  ELSE IF Branch(n, x) = "here" THEN x ELSE 0]
           walk == CHOOSE f : W(f)
<1>4. WalkFor(n) = walk[0]
  BY DEF WalkFor
<1>5. \A x \in Nodes : Branch(n, x) # "here" => Branch(n, x) \in Sides
  BY BranchType
<1>6. ASSUME NEW x \in Nodes
      PROVE  f0[x] = Turn1(f0, x)
  <2>1. CASE x \notin InUse
    <3>1. Branch(n, x) # "here" => kid[x][Branch(n, x)] = 0
      BY <1>5, <2>1 DEF IInv, InUseOK
    <3> QED
      BY <2>1, <3>1
  <2>2. CASE x \in InUse /\ Branch(n, x) = "here"
    <3>1. x # 0
      BY <1>2, <1>3, <2>2 DEF Branch, KeyAt
    <3>2. nameOf[x] = n /\ x \in Live
      BY <2>2, <3>1, BranchHere DEF Live, InUse
    <3>3. x = y
      BY <1>3, <3>2, OnceFromIInv DEF NamesInternedOnce
    <3> QED
      BY <2>2, <3>3 DEF OnWay
  <2>3. CASE x \in InUse /\ Branch(n, x) # "here"
    <3>1. PICK s \in Sides : s = Branch(n, x)
      BY <1>5, <2>3
    <3>2. /\ kid[x][s] # 0 => (OnWay(above, x, y) <=> OnWay(above, kid[x][s], y))
          /\ kid[x][s] = 0 => ~OnWay(above, x, y)
      BY <1>1, <1>3, <2>3, <3>1, WayDown
    <3>3. kid[x][s] # 0 => kid[x][s] \in InUse /\ kid[x][s] \in Nodes
      BY <1>1, <1>2, <2>3 DEF TreeOK, Hung
    <3> QED
      BY <2>3, <3>1, <3>2, <3>3
  <2> QED
    BY <2>1, <2>2, <2>3
<1>7. W(f0)
  <2>1. f0 = [x \in Nodes |-> f0[x]]
    OBVIOUS
  <2> HIDE DEF f0, Turn1
  <2> QED
    BY <1>6, <2>1
<1>8. W(walk)
  <2> HIDE DEF W, f0
  <2> QED
    BY <1>7
<1>9. \A x \in Nodes : walk[x] = Turn1(walk, x)
  <2> HIDE DEF walk, Turn1
  <2> QED
    BY <1>8
<1> HIDE DEF walk, f0, W
<1>10. ASSUME NEW j \in Nodes, walk[j] # f0[j]
       PROVE  FALSE
  <2> DEFINE S == {x \in Nodes : walk[x] # f0[x]}
  <2>1. S \in SUBSET (0 .. NodeCapacity - 1) /\ S # {} /\ NodeCapacity - 1 \in Nat
    BY <1>10 DEF Nodes
  <2> HIDE DEF S
  <2>2. PICK x \in S : \A z \in S : z <= x
    BY <2>1, GreatestIn
  <2>3. x \in Nodes /\ walk[x] # f0[x]
    BY <2>2 DEF S
  <2>4. PICK s : s = Branch(n, x)
    OBVIOUS
  <2>5. s \in Sides /\ kid[x][s] # 0
    BY <1>5, <1>6, <1>9, <2>3, <2>4
  <2>6. x \in InUse /\ x < kid[x][s] /\ kid[x][s] \in Nodes
    BY <1>1, <1>2, <2>3, <2>5 DEF IInv, InUseOK, TreeOK, Hung
  <2>7. kid[x][s] \notin S
    BY <2>2, <2>3, <2>6 DEF Nodes
  <2>8. walk[kid[x][s]] = f0[kid[x][s]]
    BY <2>6, <2>7 DEF S
  <2> QED
    BY <1>6, <1>9, <2>3, <2>4, <2>5, <2>8
<1>11. OnWay(above, 0, y)
  <2>1. Parted(above, 0, y) /\ above[0] = {}
    BY <1>1, <1>2 DEF TreeOK, AboveType
  <2> QED
    BY <2>1 DEF Parted, OnWay
<1>12. f0[0] = y
  BY <1>2, <1>11 DEF f0
<1> QED
  BY <1>2, <1>3, <1>4, <1>10, <1>12

(***************************************************************************)
(* The search of GetOrAddNameByKey ends at a name's own node for every     *)
(* name there is, whatever was inserted after it and although the wrapping *)
(* comparison of the keys is not an order.                                 *)
(***************************************************************************)
THEOREM FoundForEver == Spec => []EveryNameIsFound
<1> QED
  BY Invariance, WalkEnds, PTL

-----------------------------------------------------------------------------
LEMMA InitContract == Init => Contract!Init
<1> SUFFICES ASSUME Init PROVE Contract!Init
  OBVIOUS
<1>1. Live = {}
  BY DEF Init, Live
<1> QED
  BY <1>1 DEF Init, Contract!Init, tableBar

LEMMA InsertContract ==
    ASSUME IInv, IInv', NEW s \in Sides, Insert(s)
    PROVE  Contract!Next
<1> USE NameCacheAssumption
<1> DEFINE z == nodeSize
<1>1. /\ want \in Names /\ tableSize \in Nat
      /\ nodeSize \in 1 .. NodeCapacity /\ nodeSize < NodeCapacity
      /\ nameOf \in [Nodes -> Names \cup {Empty}] /\ namePtr \in [Nodes -> Nat]
  BY DEF IInv, TypeOK, InUseOK, Insert, HasRoom
<1>2. z \in Nodes /\ Live' = Live \cup {z} /\ z \notin Live /\ Live \subseteq Nodes
  <2>1. nodeSize' = nodeSize + 1
    BY DEF Insert
  <2> QED BY <1>1, <2>1 DEF Live, Nodes
<1>3. /\ nameOf'[z] = want /\ namePtr'[z] = tableSize + 4
      /\ \A x \in Live : nameOf'[x] = nameOf[x] /\ namePtr'[x] = namePtr[x]
      /\ answer' = <<want, tableSize + 4>>
  BY <1>1, <1>2 DEF Insert, PtrTo
<1>4. tableBar' = tableBar \cup {answer'}
  BY <1>2, <1>3 DEF tableBar
<1>5. \A x \in Live : nameOf[x] # want
  <2>1. NamesInternedOnce'
    BY OnceFromIInv, PTL
  <2> QED
    BY <2>1, <1>2, <1>3 DEF NamesInternedOnce
<1>6. \A x \in Live : namePtr[x] # tableSize + 4
  <2> SUFFICES ASSUME NEW x \in Live PROVE namePtr[x] # tableSize + 4
    OBVIOUS
  <2>1. namePtr[x] \in Nat /\ Length[nameOf[x]] \in Nat
    BY <1>1, <1>2 DEF IInv, InUseOK
  <2>2. namePtr[x] + Length[nameOf[x]] + 1 <= tableSize + 4
    BY DEF IInv, Packed
  <2> QED
    BY <2>1, <2>2, <1>1
<1>7. answer' \in {want} \X (Nat \ {0})
  BY <1>1, <1>3
<1>8. \A entry \in tableBar : entry[1] # want /\ entry[2] # answer'[2]
  BY <1>3, <1>5, <1>6 DEF tableBar
<1>9. Contract!Add(want)
  BY <1>4, <1>7, <1>8 DEF Contract!Add
<1> QED
  BY <1>1, <1>9 DEF Contract!Next

LEMMA FoundContract == ASSUME IInv, Found PROVE Contract!Next
<1> USE NameCacheAssumption
<1>1. want \in Names /\ cur \in InUse /\ cur \in Nodes
  BY DEF IInv, InUseOK, TreeOK, OnCourse, Found, TypeOK
<1>2. nameOf[cur] = want
  BY <1>1, BranchHere DEF Found
<1>3. cur # 0
  BY <1>1 DEF Found, Branch, KeyAt
<1>4. cur \in Live
  BY <1>1, <1>3 DEF InUse, Live, IInv, TypeOK
<1>5. <<want, namePtr[cur]>> \in tableBar /\ tableBar' = tableBar
  BY <1>2, <1>4 DEF tableBar, Found, Live
<1>6. Contract!Recall(want)
  BY <1>5 DEF Contract!Recall, Found
<1> QED
  BY <1>1, <1>6 DEF Contract!Next

LEMMA StepContract ==
    IInv /\ IInv' /\ [Next]_vars => [Contract!Next]_(Contract!vars)
<1> SUFFICES ASSUME IInv, IInv', [Next]_vars PROVE [Contract!Next]_(Contract!vars)
  OBVIOUS
<1>1. CASE CallEmpty
  <2>1. Contract!InternEmpty
    BY <1>1 DEF CallEmpty, Contract!InternEmpty, tableBar, Live
  <2> QED
    BY <2>1 DEF Contract!Next
<1>2. CASE UNCHANGED <<nodeSize, nameOf, namePtr, answer>>
  BY <1>2 DEF Contract!vars, tableBar, Live
<1>3. CASE Found
  BY <1>3, FoundContract
<1>4. CASE \E s \in Sides : Insert(s)
  BY <1>4, InsertContract
<1> QED
  BY <1>1, <1>2, <1>3, <1>4 DEF Next, Turn, Call, Descend, Abort, vars

(***************************************************************************)
(* The search tree and the string table together are the abstract          *)
(* interning table: a name is answered with one non-null pointer for ever, *)
(* and no other name is answered with it.                                  *)
(***************************************************************************)
THEOREM Refinement == Spec => Implements
<1> QED
  BY InitContract, StepContract, Invariance, PTL DEF Spec, Implements, Contract!Spec
=============================================================================
