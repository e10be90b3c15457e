-------------------------- MODULE CachedTreeProofs --------------------------
(***************************************************************************)
(* For every set of names and paths, every server and all capacities, the  *)
(* tree is type correct, no two directories share entries, and no two      *)
(* entries are the same directory or file before a removal has moved the   *)
(* pointer of one entry to another.                                        *)
(*                                                                         *)
(* The properties are inductive together with three facts: a block lies    *)
(* below metaSize, a directory record that was not given out has no block, *)
(* and what the toc and the listings lead to are slots of the array.       *)
(***************************************************************************)
EXTENDS CachedTree, TLAPS, WellFoundedInduction, SequenceTheorems

AllNames == Names \cup {Dot, Empty}
Fields == {"key", "name", "type", "obj"}

Made(e) == meta[e].obj \in IF meta[e].type = "file" THEN 0 .. fileSize - 1
                                                   ELSE 0 .. dirSize - 1

MetaOK ==
    /\ DOMAIN meta = Slots
    /\ \A e \in Slots : /\ DOMAIN meta[e] = Fields
                        /\ meta[e].name \in AllNames
                        /\ meta[e].type \in Types
                        /\ Made(e)

DirRecord == [base : Nat, size : Nat, cap : Nat, path : Seq(AllNames)]

DirsOK ==
    /\ dirs \in [Dirs -> DirRecord]
    /\ \A d \in Dirs : d >= dirSize => dirs[d].cap = 0

BlocksOK ==
    \A d \in Dirs :
        /\ dirs[d].size <= dirs[d].cap /\ dirs[d].cap \in {0, Block}
        /\ dirs[d].cap # 0 => dirs[d].base + dirs[d].cap <= metaSize

SizesOK ==
    /\ metaSize \in 0 .. MetaCapacity - 1
    /\ dirSize \in 1 .. DirCapacity /\ fileSize \in 0 .. FileCapacity

TocOK ==
    /\ toc \in Seq([path : Seq(AllNames), entry : Slots])
    /\ Len(toc) <= TocCapacity

\* The part of the invariant that is about the tree, and all of it.
TreeInv ==
    /\ MetaOK /\ DirsOK /\ BlocksOK /\ SizesOK /\ TocOK
    /\ BlocksDisjoint /\ ObjectsOwnedOnce

IInv ==
    /\ TreeInv
    /\ listing \in Seq(Slots)
    /\ removed \in {"nothing", "entries", "records"}
    /\ status \in Statuses

-----------------------------------------------------------------------------
(* Looking up leads to slots *)

\* A non-empty set of natural numbers has a least element.
LEMMA LeastIn ==
    ASSUME NEW S \in SUBSET Nat, S # {}
    PROVE  Least(S) \in S /\ \A y \in S : Least(S) <= y
<1>1. PICK x \in S : \A y \in S : ~(<<y, x>> \in OpToRel(<, Nat))
  BY NatLessThanWellFounded, WFMin, Zenon
<1>2. ASSUME NEW y \in S
      PROVE  x <= y
  <2>1. ~(<<y, x>> \in {ss \in Nat \X Nat : ss[1] < ss[2]})
    BY <1>1 DEF OpToRel
  <2>. QED  BY <2>1, SMT
<1>. QED  BY <1>2 DEF Least

\* What a directory search finds is an entry of the directory.
LEMMA LookupInSpan ==
    ASSUME IInv, NEW d \in Dirs, NEW n, LookupIn(d, n) # None
    PROVE  LookupIn(d, n) \in Span(d)
<1>. DEFINE hits == {e \in Span(d) : Matches(e, n)}
<1>1. Span(d) \subseteq Nat
  BY DEF IInv, TreeInv, DirsOK, DirRecord, Span
<1>2. hits # {} /\ LookupIn(d, n) = Least(hits)
  BY DEF LookupIn
<1>3. Least(hits) \in hits
  BY <1>1, <1>2, LeastIn
<1>. QED  BY <1>2, <1>3

\* A parent that is found is a slot.
LEMMA ParentSlot ==
    ASSUME IInv, NEW path, ParentOf(path) # None
    PROVE  ParentOf(path) \in Slots
<1>1. CASE Len(path) = 1
  BY <1>1, CachedTreeAssumption DEF ParentOf, Slots
<1>2. CASE Len(path) # 1
  <2>. DEFINE hits == {i \in DOMAIN toc : toc[i].path = Front(path)}
  <2>1. ParentOf(path) = LookupToc(Front(path))
    BY <1>2 DEF ParentOf
  <2>2. hits # {} /\ ParentOf(path) = toc[Least(hits)].entry
    BY <2>1 DEF LookupToc
  <2>3. toc \in Seq([path : Seq(AllNames), entry : Slots])
    BY DEF IInv, TreeInv, TocOK
  <2>4. hits \in SUBSET Nat
    BY <2>3
  <2>5. Least(hits) \in hits
    BY <2>2, <2>4, LeastIn
  <2>6. Least(hits) \in 1 .. Len(toc)
    BY <2>3, <2>5
  <2>7. toc[Least(hits)] \in [path : Seq(AllNames), entry : Slots]
    BY <2>3, <2>6, ElementOfSeq
  <2>. QED  BY <2>2, <2>7
<1>. QED  BY <1>1, <1>2

\* An entry that is no file has a directory record that was given out.
LEMMA DirOfEntry ==
    ASSUME IInv, NEW e \in Slots, meta[e].type # "file"
    PROVE  meta[e].obj \in 0 .. dirSize - 1 /\ meta[e].obj \in Dirs
BY CachedTreeAssumption DEF IInv, TreeInv, MetaOK, Made, SizesOK, Dirs

\* What a directory record is made of.
LEMMA RecordFields ==
    ASSUME TreeInv, NEW d \in Dirs
    PROVE  /\ dirs[d] \in DirRecord /\ DOMAIN dirs = Dirs
           /\ dirs[d].base \in Nat /\ dirs[d].size \in Nat /\ dirs[d].cap \in Nat
           /\ dirs[d].path \in Seq(AllNames)
<1>1. dirs[d] \in DirRecord /\ DOMAIN dirs = Dirs
  BY DEF TreeInv, DirsOK
<1>. QED  BY <1>1 DEF DirRecord

-----------------------------------------------------------------------------
(* Where a new entry goes *)

\* The slot of a new entry is in the array, outside all other blocks, and
\* the block of its directory stays apart from theirs.
LEMMA SlotFacts ==
    ASSUME TreeInv, NEW d \in 0 .. dirSize - 1, SlotFree(d)
    PROVE  /\ d \in Dirs
           /\ BaseOf(d) \in Nat /\ Slot(d) \in Slots
           /\ dirs[d].size + 1 <= Block
           /\ BaseOf(d) + Block <= IF dirs[d].cap = 0 THEN metaSize + Block ELSE metaSize
           /\ \A e \in Span(d) : BaseOf(d) = dirs[d].base /\ e < Slot(d)
           /\ \A c \in Dirs \ {d} : dirs[c].cap # 0 =>
                 \/ dirs[c].base + dirs[c].cap <= BaseOf(d)
                 \/ BaseOf(d) + Block <= dirs[c].base
<1>1. d \in Dirs /\ Block \in Nat \ {0} /\ metaSize \in Nat /\ MetaCapacity \in Nat
  BY CachedTreeAssumption DEF TreeInv, SizesOK, Dirs
<1>2. dirs[d].base \in Nat /\ dirs[d].size \in Nat /\ dirs[d].cap \in {0, Block}
      /\ dirs[d].size <= dirs[d].cap
      /\ (dirs[d].cap # 0 => dirs[d].base + dirs[d].cap <= metaSize)
  BY <1>1 DEF TreeInv, DirsOK, DirRecord, BlocksOK
<1>3. metaSize <= MetaCapacity - 1
  BY <1>1 DEF TreeInv, SizesOK
<1>4. BaseOf(d) \in Nat /\ Slot(d) \in Slots /\ dirs[d].size + 1 <= Block
      /\ BaseOf(d) + Block <= IF dirs[d].cap = 0 THEN metaSize + Block ELSE metaSize
  BY <1>1, <1>2, <1>3 DEF SlotFree, BlockFits, BaseOf, Slot, Slots
<1>5. ASSUME NEW e \in Span(d)
      PROVE  BaseOf(d) = dirs[d].base /\ e < Slot(d)
  BY <1>1, <1>2, <1>5 DEF Span, BaseOf, Slot
<1>6. ASSUME NEW c \in Dirs \ {d}, dirs[c].cap # 0
      PROVE  \/ dirs[c].base + dirs[c].cap <= BaseOf(d)
             \/ BaseOf(d) + Block <= dirs[c].base
  <2>1. CASE dirs[d].cap = 0
    BY <1>1, <1>6, <2>1 DEF TreeInv, BlocksOK, BaseOf
  <2>2. CASE dirs[d].cap # 0
    BY <1>1, <1>2, <1>6, <2>2 DEF TreeInv, BlocksDisjoint, BaseOf
  <2>. QED  BY <2>1, <2>2
<1>. QED  BY <1>1, <1>4, <1>5, <1>6

-----------------------------------------------------------------------------
(* Making and freeing entries *)

\* Entries in use are slots of the array.
LEMMA SpanInArray ==
    ASSUME TreeInv, NEW d \in Dirs
    PROVE  Span(d) \subseteq Slots /\ Slot(d) \in Slots
<1>1. Block \in Nat \ {0} /\ metaSize \in Nat /\ MetaCapacity \in Nat
      /\ metaSize <= MetaCapacity - 1
  BY CachedTreeAssumption DEF TreeInv, SizesOK
<1>2. dirs[d].base \in Nat /\ dirs[d].size \in Nat /\ dirs[d].cap \in {0, Block}
      /\ dirs[d].size <= dirs[d].cap
      /\ (dirs[d].cap # 0 => dirs[d].base + dirs[d].cap <= metaSize)
  BY DEF TreeInv, DirsOK, DirRecord, BlocksOK
<1>. QED  BY <1>1, <1>2 DEF Span, Slot, BaseOf, Slots

\* When directory d has got a slot and no other record has grown, the blocks
\* are apart and the slot is the only entry that has come into use.
LEMMA ClaimedBlocks ==
    ASSUME TreeInv, NEW d \in 0 .. dirSize - 1, SlotFree(d), TakeBlock(d),
           dirs'[d] = ClaimSlot(d),
           \A c \in Dirs \ {d} :
              dirs'[c] = dirs[c] \/ (dirs'[c].cap = 0 /\ dirs'[c].size = 0
                                      /\ dirs'[c].base = 0)
    PROVE  /\ BlocksOK' /\ BlocksDisjoint'
           /\ metaSize' \in 0 .. MetaCapacity - 1
           /\ \A c \in Dirs : Span(c)' \subseteq Span(c) \cup {Slot(d)}
<1>. USE CachedTreeAssumption
<1>1. PICK b \in Nat : b = BaseOf(d)
  BY SlotFacts
<1>2. /\ d \in Dirs /\ dirs[d].size + 1 <= Block
      /\ b + Block <= IF dirs[d].cap = 0 THEN metaSize + Block ELSE metaSize
  BY <1>1, SlotFacts
<1>3. dirs[d].size \in Nat /\ dirs[d].cap \in {0, Block} /\ metaSize \in Nat
  BY <1>2 DEF TreeInv, DirsOK, DirRecord, BlocksOK, SizesOK
<1>4. dirs'[d].base = b /\ dirs'[d].size = dirs[d].size + 1 /\ dirs'[d].cap = Block
  BY <1>1 DEF ClaimSlot
<1>5. metaSize' = IF dirs[d].cap = 0 THEN metaSize + Block ELSE metaSize
  BY DEF TakeBlock
<1>6. metaSize' \in 0 .. MetaCapacity - 1
  BY <1>3, <1>5 DEF TreeInv, SizesOK, SlotFree, BlockFits
<1>7. BlocksOK'
  <2> SUFFICES ASSUME NEW c \in Dirs
               PROVE  /\ dirs'[c].size <= dirs'[c].cap /\ dirs'[c].cap \in {0, Block}
                      /\ dirs'[c].cap # 0 => dirs'[c].base + dirs'[c].cap <= metaSize'
    BY DEF BlocksOK
  <2>1. CASE c = d
    BY <2>1, <1>2, <1>3, <1>4, <1>5
  <2>2. CASE c # d /\ dirs'[c] = dirs[c]
    <3>1. /\ dirs[c].size <= dirs[c].cap /\ dirs[c].cap \in {0, Block}
          /\ dirs[c].cap # 0 => dirs[c].base + dirs[c].cap <= metaSize
          /\ dirs[c].base \in Nat
      BY DEF TreeInv, BlocksOK, DirsOK, DirRecord
    <3>2. metaSize <= metaSize' /\ metaSize' \in Nat
      BY <1>3, <1>5, <1>6
    <3>3. PICK x, y, m, n \in Nat :
             /\ x = dirs[c].base /\ y = dirs[c].cap /\ m = metaSize /\ n = metaSize'
      BY <1>3, <3>1, <3>2
    <3>4. dirs[c].cap # 0 => dirs[c].base + dirs[c].cap <= metaSize'
      <4>1. x + y <= m /\ m <= n => x + y <= n
        OBVIOUS
      <4>. QED  BY <3>1, <3>2, <3>3, <4>1
    <3>. QED  BY <2>2, <3>1, <3>4
  <2>3. CASE c # d /\ dirs'[c].cap = 0 /\ dirs'[c].size = 0
    BY <2>3
  <2>. QED  BY <2>1, <2>2, <2>3
<1>8. \A c \in Dirs \ {d} : dirs'[c].cap # 0 =>
         /\ dirs'[c] = dirs[c]
         /\ \/ dirs'[c].base + dirs'[c].cap <= b
            \/ b + Block <= dirs'[c].base
  BY <1>1, SlotFacts
<1>9. BlocksDisjoint'
  <2> SUFFICES ASSUME NEW c \in Dirs, NEW a \in Dirs, c # a,
                      dirs'[c].cap # 0, dirs'[a].cap # 0
               PROVE  \/ dirs'[c].base + dirs'[c].cap <= dirs'[a].base
                      \/ dirs'[a].base + dirs'[a].cap <= dirs'[c].base
    BY DEF BlocksDisjoint
  <2>1. CASE c = d
    BY <2>1, <1>4, <1>8
  <2>2. CASE a = d
    BY <2>2, <1>4, <1>8
  <2>3. CASE c # d /\ a # d
    BY <2>3, <1>8 DEF TreeInv, BlocksDisjoint
  <2>. QED  BY <2>1, <2>2, <2>3
<1>10. ASSUME NEW c \in Dirs
       PROVE  Span(c)' \subseteq Span(c) \cup {Slot(d)}
  <2>1. CASE c = d
    <3>1. Span(d)' = b .. b + dirs[d].size
      BY <1>3, <1>4 DEF Span
    <3>2. Slot(d) = b + dirs[d].size
      BY <1>1 DEF Slot
    <3>3. dirs[d].size # 0 => dirs[d].base = b
      BY <1>1, <1>2, <1>3 DEF BaseOf, TreeInv, BlocksOK
    <3>4. Span(d) = dirs[d].base .. dirs[d].base + dirs[d].size - 1
      BY DEF Span
    <3>5. CASE dirs[d].size = 0
      BY <2>1, <3>1, <3>2, <3>5
    <3>6. CASE dirs[d].size # 0
      <4>1. Span(d) = b .. b + dirs[d].size - 1
        BY <3>3, <3>4, <3>6
      <4>2. ASSUME NEW k \in Nat
            PROVE  \A x \in b .. b + k : x \in b .. b + k - 1 \/ x = b + k
        OBVIOUS
      <4>. QED  BY <1>3, <2>1, <3>1, <3>2, <4>1, <4>2
    <3>. QED  BY <3>5, <3>6
  <2>2. CASE c # d /\ dirs'[c] = dirs[c]
    BY <2>2 DEF Span
  <2>3. CASE c # d /\ dirs'[c].size = 0 /\ dirs'[c].base = 0
    BY <2>3 DEF Span
  <2>. QED  BY <2>1, <2>2, <2>3
<1>. QED  BY <1>6, <1>7, <1>9, <1>10

\* An entry for an object no other entry is, is the only one to be it.
LEMMA OwnedAfter ==
    ASSUME TreeInv, NEW s \in Slots, NEW type, NEW obj,
           removed' = removed,
           \A c \in Dirs : Span(c)' \subseteq Span(c) \cup {s},
           meta'[s].type = type, meta'[s].obj = obj,
           \A e \in Slots : meta[e].type = type => meta[e].obj # obj,
           \A e \in Slots \ {s} : meta'[e] = meta[e]
    PROVE  ObjectsOwnedOnce'
<1> SUFFICES ASSUME removed # "records",
                    NEW c \in Dirs, NEW d \in Dirs, NEW e \in Span(c)', NEW f \in Span(d)',
                    meta'[e].type = meta'[f].type, meta'[e].obj = meta'[f].obj
             PROVE  e = f
  BY DEF ObjectsOwnedOnce
<1>1. e \in Span(c) \cup {s} /\ f \in Span(d) \cup {s}
  OBVIOUS
<1>2. e \in Slots /\ f \in Slots
  BY <1>1, SpanInArray
<1>3. CASE e # s /\ f # s
  BY <1>1, <1>2, <1>3 DEF TreeInv, ObjectsOwnedOnce
<1>4. CASE e = s \/ f = s
  BY <1>2, <1>4
<1>. QED  BY <1>3, <1>4

\* A new directory record and its entry keep the invariant.
LEMMA MakeDirTree ==
    ASSUME TreeInv, NEW d \in 0 .. dirSize - 1, NEW n \in Names \cup {Dot},
           DirFits(d), MakeDir(d, n), removed' = removed
    PROVE  TreeInv'
<1>. USE CachedTreeAssumption
<1>1. PICK s \in Slots : s = Slot(d)
  BY SlotFacts DEF DirFits
<1>2. PICK new \in Nat : new = dirSize
  BY DEF TreeInv, SizesOK
<1>3. /\ d \in Dirs /\ new \in Dirs /\ d # new
      /\ BaseOf(d) \in Nat /\ dirs[d].size \in Nat
  <2>1. SlotFree(d) /\ dirSize < DirCapacity
    BY DEF DirFits
  <2>2. d \in Dirs /\ BaseOf(d) \in Nat
    BY <2>1, SlotFacts
  <2>3. new \in Dirs /\ d # new
    BY <1>2, <2>1 DEF Dirs
  <2>. QED  BY <2>2, <2>3, RecordFields
<1>4. PathIn(d, n) \in Seq(AllNames)
  <2>1. <<n>> \in Seq(AllNames) /\ <<>> \in Seq(AllNames)
    BY DEF AllNames
  <2>2. dirs[d].path \in Seq(AllNames)
    BY <1>3, RecordFields
  <2>. QED  BY <2>1, <2>2, ConcatProperties DEF PathIn
<1>5. PICK p \in Seq(AllNames) : p = PathIn(d, n)
  BY <1>4
<1>6. dirs' = [dirs EXCEPT ![d] = ClaimSlot(d),
                           ![new] = [base |-> 0, size |-> 0, cap |-> 0, path |-> p]]
  BY <1>2, <1>5 DEF MakeDir
<1>7. DOMAIN dirs = Dirs
  BY DEF TreeInv, DirsOK
<1>8. /\ dirs'[d] = ClaimSlot(d)
      /\ dirs'[new] = [base |-> 0, size |-> 0, cap |-> 0, path |-> p]
      /\ \A c \in Dirs \ {d, new} : dirs'[c] = dirs[c]
      /\ DOMAIN dirs' = Dirs
      /\ dirs' = [c \in Dirs |-> dirs'[c]]
  BY <1>3, <1>6, <1>7
<1>9. meta' = [meta EXCEPT ![s] = Entry(n, "dir", new)]
  BY <1>1, <1>2 DEF MakeDir
<1>10. meta'[s] = Entry(n, "dir", new) /\ \A e \in Slots \ {s} : meta'[e] = meta[e]
  BY <1>9 DEF TreeInv, MetaOK
<1>11. dirSize' = new + 1 /\ fileSize' = fileSize
  BY <1>2 DEF MakeDir
<1>12. MetaOK'
  BY <1>2, <1>9, <1>10, <1>11 DEF TreeInv, MetaOK, Made, SizesOK, Entry, Types, AllNames, Fields
<1>13. DirsOK'
  <2>1. ClaimSlot(d) \in DirRecord
    <3>1. dirs[d].size + 1 \in Nat /\ Block \in Nat /\ dirs[d].path \in Seq(AllNames)
      BY <1>3, RecordFields
    <3>. QED  BY <1>3, <3>1 DEF ClaimSlot, DirRecord
  <2>2. [base |-> 0, size |-> 0, cap |-> 0, path |-> p] \in DirRecord
    BY DEF DirRecord
  <2>3. \A c \in Dirs : dirs'[c] \in DirRecord
    BY <1>8, <2>1, <2>2, RecordFields
  <2>4. ASSUME NEW c \in Dirs, c >= new + 1
        PROVE  dirs'[c].cap = 0
    <3>1. c \in Nat /\ d < new
      BY <1>2 DEF Dirs
    <3>2. c \in Dirs \ {d, new} /\ c >= dirSize
      BY <1>2, <2>4, <3>1
    <3>3. dirs[c].cap = 0
      BY <3>2 DEF TreeInv, DirsOK
    <3>. QED  BY <1>8, <3>2, <3>3
  <2>. QED  BY <1>8, <1>11, <2>3, <2>4 DEF DirsOK
<1>14. SlotFree(d) /\ TakeBlock(d)
  BY DEF DirFits, MakeDir
<1>15. \A c \in Dirs \ {d} :
          dirs'[c] = dirs[c] \/ (dirs'[c].cap = 0 /\ dirs'[c].size = 0 /\ dirs'[c].base = 0)
  BY <1>8
<1>16. /\ BlocksOK' /\ BlocksDisjoint' /\ metaSize' \in 0 .. MetaCapacity - 1
       /\ \A c \in Dirs : Span(c)' \subseteq Span(c) \cup {s}
  BY <1>1, <1>8, <1>14, <1>15, ClaimedBlocks
<1>17. SizesOK'
  BY <1>2, <1>11, <1>16 DEF DirFits, TreeInv, SizesOK
<1>18. TocOK'
  <2>1. toc' = Append(toc, [path |-> p, entry |-> s])
    BY <1>1, <1>5 DEF MakeDir
  <2>. QED  BY <2>1 DEF DirFits, TreeInv, TocOK
<1>19. ObjectsOwnedOnce'
  <2>1. \A e \in Slots : meta[e].type = "dir" => meta[e].obj # new
    BY <1>2 DEF TreeInv, MetaOK, Made
  <2>2. meta'[s].type = "dir" /\ meta'[s].obj = new
    BY <1>10 DEF Entry
  <2>. QED  BY <1>10, <1>16, <2>1, <2>2, OwnedAfter
<1>. QED  BY <1>12, <1>13, <1>16, <1>17, <1>18, <1>19 DEF TreeInv

\* A new file and its entry keep the invariant.
LEMMA MakeFileTree ==
    ASSUME TreeInv, NEW d \in 0 .. dirSize - 1, NEW n \in Names,
           FileFits(d), MakeFile(d, n), removed' = removed
    PROVE  TreeInv'
<1>. USE CachedTreeAssumption
<1>1. PICK s \in Slots : s = Slot(d)
  BY SlotFacts DEF FileFits
<1>2. PICK new \in Nat : new = fileSize
  BY DEF TreeInv, SizesOK
<1>3. d \in Dirs /\ BaseOf(d) \in Nat /\ dirs[d].size \in Nat
  BY SlotFacts, RecordFields DEF FileFits
<1>4. dirs' = [dirs EXCEPT ![d] = ClaimSlot(d)]
  BY DEF MakeFile
<1>5. /\ dirs'[d] = ClaimSlot(d)
      /\ \A c \in Dirs \ {d} : dirs'[c] = dirs[c]
      /\ DOMAIN dirs' = Dirs
      /\ dirs' = [c \in Dirs |-> dirs'[c]]
  BY <1>3, <1>4, RecordFields
<1>6. meta' = [meta EXCEPT ![s] = Entry(n, "file", new)]
  BY <1>1, <1>2 DEF MakeFile
<1>7. meta'[s] = Entry(n, "file", new) /\ \A e \in Slots \ {s} : meta'[e] = meta[e]
  BY <1>6 DEF TreeInv, MetaOK
<1>8. dirSize' = dirSize /\ fileSize' = new + 1 /\ toc' = toc
  BY <1>2 DEF MakeFile
<1>9. MetaOK'
  <2>1. DOMAIN meta' = Slots
    BY <1>6 DEF TreeInv, MetaOK
  <2>2. /\ DOMAIN meta'[s] = Fields /\ meta'[s].name \in AllNames
        /\ meta'[s].type \in Types /\ Made(s)'
    BY <1>2, <1>7, <1>8 DEF Made, Entry, Types, AllNames, Fields
  <2>3. \A e \in Slots \ {s} : Made(e)'
    BY <1>2, <1>7, <1>8 DEF TreeInv, MetaOK, Made, SizesOK
  <2>. QED  BY <1>7, <2>1, <2>2, <2>3 DEF TreeInv, MetaOK
<1>10. DirsOK'
  <2>1. ClaimSlot(d) \in DirRecord
    <3>1. dirs[d].size + 1 \in Nat /\ Block \in Nat /\ dirs[d].path \in Seq(AllNames)
      BY <1>3, RecordFields
    <3>. QED  BY <1>3, <3>1 DEF ClaimSlot, DirRecord
  <2>2. \A c \in Dirs : dirs'[c] \in DirRecord
    BY <1>5, <2>1, RecordFields
  <2>3. ASSUME NEW c \in Dirs, c >= dirSize
        PROVE  dirs'[c].cap = 0
    <3>1. c # d /\ dirs[c].cap = 0
      BY <2>3 DEF TreeInv, DirsOK, SizesOK
    <3>. QED  BY <1>5, <3>1
  <2>. QED  BY <1>5, <1>8, <2>2, <2>3 DEF DirsOK
<1>11. SlotFree(d) /\ TakeBlock(d)
  BY DEF FileFits, MakeFile
<1>12. /\ BlocksOK' /\ BlocksDisjoint' /\ metaSize' \in 0 .. MetaCapacity - 1
       /\ \A c \in Dirs : Span(c)' \subseteq Span(c) \cup {s}
  BY <1>1, <1>5, <1>11, ClaimedBlocks
<1>13. SizesOK'
  BY <1>2, <1>8, <1>12 DEF FileFits, TreeInv, SizesOK
<1>14. TocOK'
  BY <1>8 DEF TreeInv, TocOK
<1>15. ObjectsOwnedOnce'
  <2>1. \A e \in Slots : meta[e].type = "file" => meta[e].obj # new
    BY <1>2 DEF TreeInv, MetaOK, Made, SizesOK
  <2>2. meta'[s].type = "file" /\ meta'[s].obj = new
    BY <1>7 DEF Entry
  <2>. QED  BY <1>7, <1>12, <2>1, <2>2, OwnedAfter
<1>. QED  BY <1>9, <1>10, <1>12, <1>13, <1>14, <1>15 DEF TreeInv

\* A move gives an entry a number of bytes of the next one, and no pointer
\* when it is of fewer bytes than lie before the end of the pointer.
LEMMA MovedBytes ==
    ASSUME NEW n \in Nat, NEW e \in Nat, NEW x \in Nat
    PROVE  /\ Moved(e, n, x) \in Nat
           /\ n < End.record => Moved(e, n, x) < End.record
<1>. USE CachedTreeAssumption
<1>. DEFINE bytes == n - End.entry * (x - e)
<1>1. End.entry \in Nat \ {0} /\ End.record \in Nat \ {0} /\ End.record <= End.entry
  OBVIOUS
<1>2. CASE x \notin e .. e + n - 1 \/ bytes < 0
  BY <1>1, <1>2 DEF Moved
<1>3. CASE ~(x \notin e .. e + n - 1 \/ bytes < 0)
  <2>1. PICK k \in Nat : k = x - e
    BY <1>3
  <2>2. \A a \in Nat, b \in Nat : a * b \in Nat
    OBVIOUS
  <2>3. End.entry * k \in Nat
    BY <1>1, <2>2
  <2>4. bytes \in Nat /\ bytes <= n
    BY <1>1, <1>3, <2>1, <2>3
  <2>5. Moved(e, n, x) = IF bytes > End.entry THEN End.entry ELSE bytes
    BY <1>3 DEF Moved
  <2>. QED  BY <1>1, <2>4, <2>5
<1>. QED  BY <1>2, <1>3

\* What an entry that is partly overwritten is then, when its type and its
\* pointer still belong together.
LEMMA OverlaidEntry ==
    ASSUME NEW own, NEW next, NEW m \in Nat, NEW some, ~Torn(own, next, m)
    PROVE  /\ DOMAIN Overlaid(own, next, m, some) = Fields
           /\ Overlaid(own, next, m, some).name \in {own.name, next.name, some}
           /\ \/ /\ Overlaid(own, next, m, some).type = own.type
                 /\ Overlaid(own, next, m, some).obj = own.obj
              \/ /\ Overlaid(own, next, m, some).type = next.type
                 /\ Overlaid(own, next, m, some).obj = next.obj
           /\ m < End.record => /\ Overlaid(own, next, m, some).type = own.type
                                /\ Overlaid(own, next, m, some).obj = own.obj
BY CachedTreeAssumption DEF Overlaid, Torn, Fields

\* What is moved is in the directory, and so is what is moved into it.
LEMMA BehindIt ==
    ASSUME NEW b \in Nat, NEW k \in Nat, NEW e \in b .. b + k - 1,
           NEW x \in e .. e + (b + k - 1 - e) - 1
    PROVE  /\ x \in b .. b + k - 1 /\ x + 1 \in b .. b + k - 1
           /\ e <= x /\ x \in Nat
OBVIOUS

\* What a removal makes of the entries: each stays what it is or becomes what
\* the next one is, and becomes nothing else below the bytes of a pointer.
LEMMA FreedEntries ==
    ASSUME TreeInv, NEW d \in Dirs, NEW e \in Span(d), FreeEntry(d, e),
           ~UNCHANGED <<tree, removed>>
    PROVE  /\ DOMAIN meta' = Slots
           /\ \A x \in Slots :
                 \/ meta'[x] = meta[x]
                 \/ /\ x \in Span(d) /\ x + 1 \in Span(d) /\ e <= x
                    /\ DOMAIN meta'[x] = Fields
                    /\ meta'[x].name \in AllNames
                    /\ \/ meta'[x].type = meta[x].type /\ meta'[x].obj = meta[x].obj
                       \/ /\ meta'[x].type = meta[x + 1].type
                          /\ meta'[x].obj = meta[x + 1].obj
                          /\ removed' = "records"
<1>. USE CachedTreeAssumption
<1>. DEFINE n == Followers(d, e)
            M(x) == Moved(e, n, x)
<1>1. PICK b \in Nat, k \in Nat \ {0} : b = dirs[d].base /\ k = dirs[d].size
  BY RecordFields DEF Span
<1>2. Span(d) = b .. b + k - 1 /\ e \in b .. b + k - 1
  BY <1>1 DEF Span
<1>3. n = b + k - 1 - e /\ n \in Nat /\ e \in Nat
  <2>1. e \in Nat /\ e <= b + k - 1
    BY <1>1, <1>2
  <2>2. n = b + k - 1 - e
    BY <1>1 DEF Followers
  <2>. QED  BY <2>1, <2>2
<1>4. ~\E x \in e .. e + n - 1 : Torn(meta[x], meta[x + 1], M(x))
  BY DEF FreeEntry
<1>5. PICK some \in AllNames :
        meta' = [x \in Slots |-> IF x \in e .. e + n - 1
                                 THEN Overlaid(meta[x], meta[x + 1], M(x), some)
                                 ELSE meta[x]]
  BY <1>4 DEF FreeEntry, AllNames
<1>6. removed' = IF removed = "records" \/ n >= End.record THEN "records" ELSE "entries"
  BY <1>4 DEF FreeEntry
<1>7. ASSUME NEW x \in Slots, x \in e .. e + n - 1
      PROVE  /\ x \in Span(d) /\ x + 1 \in Span(d) /\ e <= x
             /\ DOMAIN meta'[x] = Fields
             /\ meta'[x].name \in AllNames
             /\ \/ meta'[x].type = meta[x].type /\ meta'[x].obj = meta[x].obj
                \/ /\ meta'[x].type = meta[x + 1].type
                   /\ meta'[x].obj = meta[x + 1].obj
                   /\ removed' = "records"
  <2>1. x \in Span(d) /\ x + 1 \in Span(d) /\ e <= x /\ x \in Nat
    <3>1. e \in b .. b + k - 1
      BY <1>2
    <3>2. x \in e .. e + (b + k - 1 - e) - 1
      BY <1>3, <1>7
    <3>3. /\ x \in b .. b + k - 1 /\ x + 1 \in b .. b + k - 1
          /\ e <= x /\ x \in Nat
      BY ONLY b \in Nat, k \in Nat \ {0}, <3>1, <3>2, BehindIt
    <3>. QED  BY <1>2, <3>3
  <2>2. meta[x].name \in AllNames /\ meta[x + 1].name \in AllNames
    BY <2>1, SpanInArray DEF TreeInv, MetaOK
  <2>3. meta'[x] = Overlaid(meta[x], meta[x + 1], M(x), some)
    BY <1>5, <1>7
  <2>4. M(x) \in Nat /\ (n < End.record => M(x) < End.record)
    BY <1>3, <2>1, MovedBytes
  <2>5. ~Torn(meta[x], meta[x + 1], M(x))
    BY <1>4, <1>7
  <2>6. /\ DOMAIN meta'[x] = Fields
        /\ meta'[x].name \in {meta[x].name, meta[x + 1].name, some}
        /\ \/ meta'[x].type = meta[x].type /\ meta'[x].obj = meta[x].obj
           \/ meta'[x].type = meta[x + 1].type /\ meta'[x].obj = meta[x + 1].obj
        /\ M(x) < End.record =>
              meta'[x].type = meta[x].type /\ meta'[x].obj = meta[x].obj
    <3>. HIDE DEF M
    <3>1. ~Torn(meta[x], meta[x + 1], M(x)) /\ M(x) \in Nat
      BY <2>4, <2>5
    <3>. QED  BY <2>3, <3>1, OverlaidEntry
  <2>7. n < End.record \/ n >= End.record
    BY <1>3
  <2>. QED  BY <1>6, <2>1, <2>2, <2>4, <2>6, <2>7
<1>. QED  BY <1>5, <1>7

\* A removal brings no entry into use.
LEMMA FreedSpan ==
    ASSUME TreeInv, NEW d \in Dirs, NEW e \in Span(d), FreeEntry(d, e),
           ~UNCHANGED <<tree, removed>>, NEW c \in Dirs
    PROVE  Span(c)' \subseteq Span(c)
<1>1. PICK b \in Nat, m \in Nat \ {0} : b = dirs[d].base /\ m = dirs[d].size
  BY RecordFields DEF Span
<1>2. dirs' = [dirs EXCEPT ![d].size = @ - 1]
  BY DEF FreeEntry
<1>3. CASE c = d
  <2>1. dirs'[d].base = b /\ dirs'[d].size = m - 1
    <3>1. PICK r \in DirRecord : r = dirs[d]
      BY RecordFields
    <3>2. dirs'[d] = [r EXCEPT !.size = r.size - 1]
      BY <1>2, <3>1, RecordFields
    <3>. QED  BY <1>1, <3>1, <3>2 DEF DirRecord
  <2>2. Span(d) = b .. b + m - 1 /\ Span(d)' = b .. b + (m - 1) - 1
    BY <1>1, <2>1 DEF Span
  <2>. QED  BY <1>3, <2>2
<1>4. CASE c # d
  BY <1>2, <1>4, RecordFields DEF Span
<1>. QED  BY <1>3, <1>4

\* Freeing an entry keeps the invariant: each entry stays what it is, or
\* becomes what the next is, and one entry falls out of use.
LEMMA FreeTree ==
    ASSUME TreeInv, NEW d \in Dirs, NEW e \in Span(d), FreeEntry(d, e),
           ~UNCHANGED <<tree, removed>>
    PROVE  TreeInv'
<1>. USE CachedTreeAssumption
<1>1. e \in Slots
  BY SpanInArray
<1>2. DOMAIN meta' = Slots
  BY FreedEntries
<1>3. \A f \in Slots :
        \/ meta'[f] = meta[f]
        \/ /\ f + 1 \in Slots
           /\ DOMAIN meta'[f] = Fields /\ meta'[f].name \in AllNames
           /\ \/ meta'[f].type = meta[f].type /\ meta'[f].obj = meta[f].obj
              \/ /\ meta'[f].type = meta[f + 1].type
                 /\ meta'[f].obj = meta[f + 1].obj
                 /\ removed' = "records"
  BY FreedEntries, SpanInArray
<1>4. /\ metaSize' = metaSize /\ dirSize' = dirSize
      /\ fileSize' = fileSize /\ toc' = toc
  BY DEF FreeEntry
<1>5. MetaOK'
  BY <1>2, <1>3, <1>4 DEF TreeInv, MetaOK, Made
<1>6. dirs[d].size \in Nat \ {0} /\ dirs[d].base \in Nat
  BY RecordFields DEF Span
<1>7. dirs' = [dirs EXCEPT ![d].size = @ - 1]
  BY DEF FreeEntry
<1>8. /\ dirs'[d] = [dirs[d] EXCEPT !.size = @ - 1]
      /\ \A c \in Dirs \ {d} : dirs'[c] = dirs[c]
      /\ DOMAIN dirs' = Dirs
      /\ dirs' = [c \in Dirs |-> dirs'[c]]
  BY <1>7, RecordFields
<1>9. /\ dirs'[d].base = dirs[d].base /\ dirs'[d].size = dirs[d].size - 1
      /\ dirs'[d].cap = dirs[d].cap /\ dirs'[d] \in DirRecord
  <2>1. PICK r \in DirRecord : r = dirs[d]
    BY RecordFields
  <2>2. dirs'[d] = [r EXCEPT !.size = r.size - 1]
    BY <1>8, <2>1
  <2>3. r.size - 1 \in Nat
    BY <1>6, <2>1
  <2>4. [r EXCEPT !.size = r.size - 1] \in DirRecord
    BY <2>3 DEF DirRecord
  <2>. QED  BY <2>1, <2>2, <2>4 DEF DirRecord
<1>10. \A c \in Dirs : /\ dirs'[c].base = dirs[c].base
                       /\ dirs'[c].cap = dirs[c].cap
                       /\ dirs'[c].size <= dirs[c].size
  <2>1. \A c \in Dirs : dirs[c].size \in Nat
    BY RecordFields
  <2>2. \A c \in Dirs : dirs[c].size <= dirs[c].size
    BY <2>1
  <2>3. dirs'[d].size <= dirs[d].size
    BY <1>6, <1>9
  <2>. QED  BY <1>8, <1>9, <2>2, <2>3
<1>11. DirsOK'
  <2>1. \A c \in Dirs : dirs'[c] \in DirRecord
    BY <1>8, <1>9, RecordFields
  <2>2. \A c \in Dirs : c >= dirSize' => dirs'[c].cap = 0
    BY <1>4, <1>10 DEF TreeInv, DirsOK
  <2>. QED  BY <1>8, <2>1, <2>2 DEF DirsOK
<1>12. BlocksOK'
  <2> SUFFICES ASSUME NEW c \in Dirs
               PROVE  /\ dirs'[c].size <= dirs'[c].cap /\ dirs'[c].cap \in {0, Block}
                      /\ dirs'[c].cap # 0 => dirs'[c].base + dirs'[c].cap <= metaSize'
    BY DEF BlocksOK
  <2>1. /\ dirs[c].size \in Nat /\ dirs[c].cap \in Nat
        /\ dirs[c].size <= dirs[c].cap /\ dirs[c].cap \in {0, Block}
        /\ dirs[c].cap # 0 => dirs[c].base + dirs[c].cap <= metaSize
    BY RecordFields DEF TreeInv, BlocksOK
  <2>2. dirs'[c].size <= dirs[c].cap
    <3>1. CASE c = d
      BY <1>9, <2>1, <3>1
    <3>2. CASE c # d
      BY <1>8, <2>1, <3>2
    <3>. QED  BY <3>1, <3>2
  <2>. QED  BY <1>4, <1>10, <2>1, <2>2
<1>13. SizesOK' /\ TocOK'
  BY <1>4 DEF TreeInv, SizesOK, TocOK
<1>14. BlocksDisjoint'
  BY <1>10 DEF TreeInv, BlocksDisjoint
<1>15. \A c \in Dirs : Span(c)' \subseteq Span(c)
  BY FreedSpan
<1>16. ObjectsOwnedOnce'
  <2> SUFFICES ASSUME NEW a \in Dirs, NEW c \in Dirs,
                      NEW f \in Span(a)', NEW g \in Span(c)',
                      meta'[f].type = meta'[g].type, meta'[f].obj = meta'[g].obj,
                      removed' # "records"
               PROVE  f = g
    BY DEF ObjectsOwnedOnce
  <2>1. f \in Span(a) /\ g \in Span(c)
    BY <1>15
  <2>2. f \in Slots /\ g \in Slots
    BY <2>1, SpanInArray
  <2>3. meta[f].type = meta[g].type /\ meta[f].obj = meta[g].obj
    BY <1>3, <2>2
  <2>4. removed # "records"
    BY DEF FreeEntry
  <2>. QED  BY <2>1, <2>3, <2>4 DEF TreeInv, ObjectsOwnedOnce
<1>. QED  BY <1>5, <1>11, <1>12, <1>13, <1>14, <1>16 DEF TreeInv

-----------------------------------------------------------------------------
(* What a path leads to *)

\* The parent of a path that is asked for has a directory record.
LEMMA ParentDir ==
    ASSUME IInv, NEW path, ParentOf(path) # None, ~Confused(path)
    PROVE  meta[ParentOf(path)].obj \in 0 .. dirSize - 1
           /\ meta[ParentOf(path)].obj \in Dirs
<1>1. ParentOf(path) \in Slots
  BY ParentSlot
<1>2. meta[ParentOf(path)].type # "file"
  BY DEF Confused
<1>. QED  BY <1>1, <1>2, DirOfEntry

\* A path that stands for something leads to an entry its parent uses.
LEMMA ResolveInSpan ==
    ASSUME IInv, NEW path, Stat(path) # "none"
    PROVE  /\ meta[ParentOf(path)].obj \in Dirs
           /\ Resolve(path) \in Span(meta[ParentOf(path)].obj)
<1>1. Resolve(path) # None
  BY DEF Stat
<1>2. ParentOf(path) # None /\ ~Confused(path)
  BY <1>1 DEF Resolve
<1>3. Resolve(path) = LookupIn(meta[ParentOf(path)].obj, Last(path))
  BY <1>2 DEF Resolve
<1>4. meta[ParentOf(path)].obj \in Dirs
  BY <1>2, ParentDir
<1>. QED  BY <1>1, <1>3, <1>4, LookupInSpan

\* The last component of a path is a name.
LEMMA LastName ==
    ASSUME NEW path \in Paths
    PROVE  Last(path) \in Names
<1>1. path \in Seq(Names) /\ path # <<>>
  BY CachedTreeAssumption
<1>. QED  BY <1>1 DEF Last

-----------------------------------------------------------------------------
(* The steps *)

\* A step that leaves the tree alone keeps what is said of the tree.
LEMMA TreeUnchanged ==
    ASSUME TreeInv, UNCHANGED tree, removed' = removed
    PROVE  TreeInv'
<1>1. /\ meta' = meta /\ metaSize' = metaSize /\ dirs' = dirs
      /\ dirSize' = dirSize /\ fileSize' = fileSize /\ toc' = toc
  BY DEF tree
<1>2. MetaOK' /\ DirsOK' /\ BlocksOK' /\ SizesOK' /\ TocOK'
  BY <1>1 DEF TreeInv, MetaOK, Made, DirsOK, BlocksOK, SizesOK, TocOK
<1>3. BlocksDisjoint'
  BY <1>1 DEF TreeInv, BlocksDisjoint
<1>4. ObjectsOwnedOnce'
  BY <1>1 DEF TreeInv, ObjectsOwnedOnce, Span
<1>. QED  BY <1>2, <1>3, <1>4 DEF TreeInv

\* Making a directory in one that exists, or finding it there, or failing an
\* assert instead.
LEMMA CreateSubdirectoryStep ==
    ASSUME IInv, NEW d \in 0 .. dirSize - 1, NEW n \in Names \cup {Dot},
           CreateSubdirectory(d, n)
    PROVE  TreeInv' /\ removed' = removed /\ status' \in Statuses
<1>1. CASE LookupIn(d, n) = None /\ DirFits(d)
  <2>1. MakeDir(d, n) /\ removed' = removed /\ status' = status
    BY <1>1 DEF CreateSubdirectory
  <2>. QED  BY <1>1, <2>1, MakeDirTree DEF IInv
<1>2. CASE LookupIn(d, n) # None \/ ~DirFits(d)
  <2>1. UNCHANGED <<tree, removed>> /\ status' \in {status, "aborted"}
    BY <1>2 DEF CreateSubdirectory
  <2>. QED  BY <2>1, TreeUnchanged DEF IInv, Statuses
<1>. QED  BY <1>1, <1>2

\* The same for a file.
LEMMA CreateFileEntryStep ==
    ASSUME IInv, NEW d \in 0 .. dirSize - 1, NEW n \in Names,
           CreateFileEntry(d, n)
    PROVE  TreeInv' /\ removed' = removed /\ status' \in Statuses
<1>1. CASE LookupIn(d, n) = None /\ FileFits(d)
  <2>1. MakeFile(d, n) /\ removed' = removed /\ status' = status
    BY <1>1 DEF CreateFileEntry
  <2>. QED  BY <1>1, <2>1, MakeFileTree DEF IInv
<1>2. CASE ~(LookupIn(d, n) = None /\ FileFits(d))
  <2>1. UNCHANGED <<tree, removed>> /\ status' = "aborted"
    BY <1>2 DEF CreateFileEntry
  <2>. QED  BY <2>1, TreeUnchanged DEF IInv, Statuses
<1>. QED  BY <1>1, <1>2

\* While a directory is read, it has a record.
LEMMA CurrentDir ==
    ASSUME IInv, listing # <<>>
    PROVE  /\ Last(listing) \in Slots
           /\ meta[Last(listing)].type # "file" => Current \in 0 .. dirSize - 1
<1>1. Last(listing) \in Slots
  BY DEF IInv, Last
<1>. QED  BY <1>1, DirOfEntry DEF Current

LEMMA FailStep ==
    ASSUME IInv, NEW how \in Statuses, Fail(how)
    PROVE  IInv'
<1>1. UNCHANGED <<tree, listing, removed>> /\ status' = how
  BY DEF Fail
<1>. QED  BY <1>1, TreeUnchanged DEF IInv

LEMMA ListDirStep ==
    ASSUME IInv, NEW n \in Names \cup {Dot}, ListDir(n)
    PROVE  IInv'
<1>1. listing # <<>> /\ meta[Last(listing)].type # "file"
  BY DEF ListDir, Listed, Listing
<1>2. PICK d \in 0 .. dirSize - 1 : d = Current
  BY <1>1, CurrentDir
<1>3. d \in Dirs
  BY CachedTreeAssumption DEF IInv, TreeInv, SizesOK, Dirs
<1>4. PICK hit : hit = LookupIn(d, n)
  OBVIOUS
<1>5. hit = None \/ hit \in Slots
  <2>1. Span(d) \subseteq Slots
    BY <1>3, SpanInArray DEF IInv
  <2>. QED  BY <1>3, <1>4, <2>1, LookupInSpan
<1>6. CASE hit # None /\ meta[hit].type = "file"
  <2>1. Fail("crashed")
    BY <1>2, <1>4, <1>6 DEF ListDir
  <2>. QED  BY <2>1, FailStep DEF Statuses
<1>7. CASE ~(hit # None /\ meta[hit].type = "file")
  <2>1. /\ CreateSubdirectory(d, n)
        /\ listing' \in {listing, Append(listing, IF hit = None THEN Slot(d) ELSE hit)}
    BY <1>2, <1>4, <1>7 DEF ListDir
  <2>2. Slot(d) \in Slots
    BY <1>3, SpanInArray DEF IInv
  <2>3. listing' \in Seq(Slots)
    BY <1>5, <2>1, <2>2 DEF IInv
  <2>. QED  BY <2>1, <2>3, CreateSubdirectoryStep DEF IInv
<1>. QED  BY <1>6, <1>7

LEMMA ListFileStep ==
    ASSUME IInv, NEW n \in Names, ListFile(n)
    PROVE  IInv'
<1>1. listing # <<>> /\ meta[Last(listing)].type # "file"
  BY DEF ListFile, Listed, Listing
<1>2. PICK d \in 0 .. dirSize - 1 : d = Current
  BY <1>1, CurrentDir
<1>3. CreateFileEntry(d, n) /\ listing' = listing
  BY <1>2 DEF ListFile
<1>. QED  BY <1>3, CreateFileEntryStep DEF IInv

LEMMA ListEndStep ==
    ASSUME IInv, ListEnd
    PROVE  IInv'
<1>1. UNCHANGED tree /\ removed' = removed /\ status' = status
  BY DEF ListEnd
<1>2. listing # <<>> /\ listing' = SubSeq(listing, 1, Len(listing) - 1)
  BY DEF ListEnd, Listing, Front
<1>3. listing' \in Seq(Slots)
  BY <1>2 DEF IInv
<1>. QED  BY <1>1, <1>3, TreeUnchanged DEF IInv

LEMMA CreationStep ==
    ASSUME IInv, NEW path \in Paths, Mkdir(path) \/ Mknod(path)
    PROVE  IInv'
<1>1. ParentOf(path) # None /\ ~Confused(path) /\ listing' = listing
  BY DEF Mkdir, Mknod, InDirectory
<1>2. PICK d \in 0 .. dirSize - 1 : d = meta[ParentOf(path)].obj
  BY <1>1, ParentDir
<1>3. \/ CreateSubdirectory(d, Last(path)) \/ CreateFileEntry(d, Last(path))
      \/ UNCHANGED <<tree, removed, status>>
  BY <1>2 DEF Mkdir, Mknod
<1>4. TreeInv' /\ removed' = removed /\ status' \in Statuses
  BY <1>3, LastName, CreateSubdirectoryStep, CreateFileEntryStep, TreeUnchanged DEF IInv
<1>. QED  BY <1>1, <1>4 DEF IInv

LEMMA RemovalStep ==
    ASSUME IInv, NEW path \in Paths, Unlink(path) \/ Rmdir(path)
    PROVE  IInv'
<1>1. Stat(path) # "none" /\ listing' = listing
  BY DEF Unlink, Rmdir
<1>2. PICK d \in Dirs : d = meta[ParentOf(path)].obj /\ Resolve(path) \in Span(d)
  BY <1>1, ResolveInSpan
<1>3. PICK e \in Span(d) : e = Resolve(path)
  BY <1>2
<1>4. FreeEntry(d, e)
  BY <1>2, <1>3 DEF Unlink, Rmdir
<1>5. TreeInv'
  <2>1. CASE UNCHANGED <<tree, removed>>
    BY <2>1, TreeUnchanged DEF IInv
  <2>2. CASE ~UNCHANGED <<tree, removed>>
    BY <1>4, <2>2, FreeTree DEF IInv
  <2>. QED  BY <2>1, <2>2
<1>6. removed' \in {removed, "entries", "records"} /\ status' \in {status, "garbled"}
  BY <1>4 DEF FreeEntry
<1>. QED  BY <1>1, <1>5, <1>6 DEF IInv, Statuses

LEMMA StepIInv ==
    ASSUME IInv, [Next]_vars
    PROVE  IInv'
<1>1. ASSUME NEW n \in Names \cup {Dot}, ListDir(n)  PROVE IInv'
  BY <1>1, ListDirStep
<1>2. ASSUME NEW n \in Names, ListFile(n)  PROVE IInv'
  BY <1>2, ListFileStep
<1>3. CASE ListEnd
  BY <1>3, ListEndStep
<1>4. CASE Creation
  BY <1>4, CreationStep DEF Creation
<1>5. CASE Removal
  BY <1>5, RemovalStep DEF Removal
<1>6. ASSUME NEW path \in Paths, GetattrConfused(path) \/ MknodNoParent(path)
      PROVE  IInv'
  <2>1. Fail("confused") \/ Fail("crashed")
    BY <1>6 DEF GetattrConfused, MknodNoParent
  <2>. QED  BY <2>1, FailStep DEF Statuses
<1>7. CASE ListConfused
  <2>1. Fail("confused")
    BY <1>7 DEF ListConfused
  <2>. QED  BY <2>1, FailStep DEF Statuses
<1>8. CASE UNCHANGED vars
  <2>1. UNCHANGED <<tree, listing, removed, status>>
    BY <1>8 DEF vars, tree
  <2>. QED  BY <2>1, TreeUnchanged DEF IInv
<1>. QED  BY <1>1, <1>2, <1>3, <1>4, <1>5, <1>6, <1>7, <1>8 DEF Next, Populate

LEMMA InitIInv ==
    ASSUME Init
    PROVE  IInv
<1>. USE CachedTreeAssumption
<1>1. MetaOK
  BY DEF Init, MetaOK, Made, Types, AllNames, Fields
<1>2. DirsOK
  <2>1. <<Empty>> \in Seq(AllNames) /\ <<>> \in Seq(AllNames)
    BY DEF AllNames
  <2>. QED  BY <2>1 DEF Init, DirsOK, DirRecord
<1>3. BlocksOK /\ BlocksDisjoint
  BY DEF Init, BlocksOK, BlocksDisjoint
<1>4. SizesOK
  BY DEF Init, SizesOK
<1>5. TocOK
  BY DEF Init, TocOK
<1>6. ObjectsOwnedOnce
  <2>1. \A d \in Dirs : Span(d) = {}
    BY DEF Init, Span
  <2>. QED  BY <2>1 DEF ObjectsOwnedOnce
<1>7. listing \in Seq(Slots)
  BY DEF Init, Slots
<1>. QED  BY <1>1, <1>2, <1>3, <1>4, <1>5, <1>6, <1>7 DEF Init, IInv, TreeInv, Statuses

LEMMA Invariance == Spec => []IInv
BY InitIInv, StepIInv, PTL DEF Spec

-----------------------------------------------------------------------------
\* Every entry of the array is of a known type and refers to a record that
\* was given out, no directory uses more entries than its block has, no
\* array outgrows its capacity, and the toc leads to slots of the array.
THEOREM TypeCorrect == Spec => []TypeOK
<1>1. ASSUME IInv  PROVE TypeOK
  <2>1. MetaOK /\ BlocksOK /\ SizesOK /\ TocOK
    BY <1>1 DEF IInv, TreeInv
  <2>2. \A i \in DOMAIN toc : toc[i].entry \in Slots
    <3> SUFFICES ASSUME NEW i \in DOMAIN toc
                 PROVE  toc[i].entry \in Slots
      OBVIOUS
    <3>1. toc \in Seq([path : Seq(AllNames), entry : Slots]) /\ i \in 1 .. Len(toc)
      BY <2>1 DEF TocOK
    <3>2. toc[i] \in [path : Seq(AllNames), entry : Slots]
      BY <3>1, ElementOfSeq
    <3>. QED  BY <3>2
  <2>. QED  BY <1>1, <2>1, <2>2
            DEF IInv, MetaOK, Made, AllNames, BlocksOK, SizesOK, TocOK, TypeOK
<1>. QED  BY <1>1, Invariance, PTL

\* No two directories share entries, removals included: allocate_dir_entires
\* never gives out an entry twice.
THEOREM BlocksApart == Spec => []BlocksDisjoint
<1>1. ASSUME IInv  PROVE BlocksDisjoint
  BY <1>1 DEF IInv, TreeInv
<1>. QED  BY <1>1, Invariance, PTL

\* No two entries are the same directory or the same file, until a removal
\* has as many entries behind it as an entry has bytes up to the end of its
\* pointer: the memmove of FreeEntry copies that pointer then, and less before.
THEOREM OwnedOnce == Spec => []ObjectsOwnedOnce
<1>1. ASSUME IInv  PROVE ObjectsOwnedOnce
  BY <1>1 DEF IInv, TreeInv
<1>. QED  BY <1>1, Invariance, PTL
=============================================================================
