--------------------------- MODULE TreePathsProofs ---------------------------
(***************************************************************************)
(* For every set of names and paths, every capacity and every server that  *)
(* lists "." first: the root is never taken for a file; and until          *)
(* something is removed, the toc and the directories agree, names are not  *)
(* twice in a directory, handlers find their parents, and making a file or *)
(* a directory changes no other path.                                      *)
(*                                                                         *)
(* Without "." the first entry listed in the root becomes the root itself, *)
(* be it a file, so ListsDot is a hypothesis of all of it.                 *)
(*                                                                         *)
(* What makes this inductive is Whole: the i-th toc entry leads to the     *)
(* entry of record i, and its path is that of the directory this entry is  *)
(* in, and its name behind it; and no path is there twice.  So the toc     *)
(* holds the directories that a walk can reach, and nothing else           *)
(* (TocIsTheDirectories).                                                  *)
(***************************************************************************)
EXTENDS CachedTreeProofs

Intact == removed = "nothing"

\* Nothing has been listed yet.
Fresh ==
    /\ metaSize = 0 /\ dirSize = 1 /\ fileSize = 0 /\ toc = <<>>
    /\ listing = <<0>> /\ Intact
    /\ meta[0].obj = 0 /\ \A e \in Slots : meta[e].type = "none"
    /\ dirs[0].path = <<Empty>>
    /\ \A d \in Dirs : dirs[d].cap = 0

\* The root is the entry "." in slot 0, which is all of record 0's block that
\* is used: the root's own entries are in the block of record 1.
Rooted ==
    /\ meta[0].type = "dir" /\ meta[0].obj = 1
    /\ dirs[0].base = 0 /\ dirs[0].size = 1 /\ dirs[0].cap = Block
    /\ dirSize > 1
    /\ \A e \in Slots : meta[e].type = "dir" => meta[e].obj # 0
    /\ \A d \in Dirs : \A e \in Span(d) : meta[e].type # "none"
    /\ \A i \in DOMAIN toc : meta[toc[i].entry].type # "none"
    /\ status = "ok" => \A i \in DOMAIN listing : meta[listing[i]].type # "none"

\* The path that is put before the names in a directory.
PathOf(d) == IF d = 1 THEN <<>> ELSE dirs[d].path

NamesOK ==
    \A d \in Dirs : \A e \in Span(d) :
        /\ meta[e].name \in Names \cup {Dot}
        /\ meta[e].key = Key[meta[e].name]
        /\ meta[e].type # "none"

NamesOnce ==
    \A d \in Dirs : \A e, f \in Span(d) : meta[e].name = meta[f].name => e = f

RecordsOK ==
    /\ Len(toc) = dirSize - 1
    /\ \A i \in 1 .. Len(toc) :
          /\ meta[toc[i].entry].type = "dir" /\ meta[toc[i].entry].obj = i
          /\ dirs[i].path = toc[i].path

ParentsOK ==
    /\ toc # <<>> => toc[1].path = <<Empty, Dot>> /\ toc[1].entry = 0
    /\ \A i \in 2 .. Len(toc) : \E d \in 1 .. dirSize - 1 :
          /\ toc[i].entry \in Span(d)
          /\ toc[i].path = Append(PathOf(d), meta[toc[i].entry].name)

PathsDistinct == \A i, j \in DOMAIN toc : toc[i].path = toc[j].path => i = j

\* The tree as long as nothing was removed.
Whole ==
    /\ Intact
    /\ NamesOK /\ NamesOnce /\ RecordsOK /\ ParentsOK /\ PathsDistinct
    /\ listing = <<>> => status \notin {"crashed", "confused"}

PInv ==
    /\ IInv
    /\ Fresh \/ Rooted
    /\ Intact => Whole

-----------------------------------------------------------------------------
(* Looking up *)

\* The search of a directory finds a match, or there is none.
LEMMA LookupHit ==
    ASSUME TreeInv, NEW d \in Dirs, NEW n
    PROVE  \/ LookupIn(d, n) = None /\ \A e \in Span(d) : ~Matches(e, n)
           \/ LookupIn(d, n) # None /\ LookupIn(d, n) \in Span(d)
              /\ Matches(LookupIn(d, n), n)
<1>. DEFINE hits == {e \in Span(d) : Matches(e, n)}
<1>1. Span(d) \subseteq Slots
  BY SpanInArray
<1>2. CASE hits = {}
  BY <1>2 DEF LookupIn
<1>3. CASE hits # {}
  <2>1. LookupIn(d, n) = Least(hits)
    BY <1>3 DEF LookupIn
  <2>2. hits \in SUBSET Nat
    BY <1>1, CachedTreeAssumption DEF Slots
  <2>3. Least(hits) \in hits
    BY <1>3, <2>2, LeastIn
  <2>. HIDE DEF hits
  <2>4. Least(hits) \in Slots
    BY <1>1, <2>3 DEF hits
  <2>5. Least(hits) # None
    BY <2>4, CachedTreeAssumption DEF Slots, None
  <2>. QED  BY <2>1, <2>3, <2>5 DEF hits
<1>. QED  BY <1>2, <1>3

\* The search of the toc finds an entry with the path, or there is none.
LEMMA TocHit ==
    ASSUME TreeInv, NEW path
    PROVE  \/ LookupToc(path) = None /\ \A i \in 1 .. Len(toc) : toc[i].path # path
           \/ LookupToc(path) # None
              /\ \E i \in 1 .. Len(toc) : toc[i].path = path /\ LookupToc(path) = toc[i].entry
<1>. DEFINE hits == {i \in DOMAIN toc : toc[i].path = path}
<1>1. toc \in Seq([path : Seq(AllNames), entry : Slots])
  BY DEF TreeInv, TocOK
<1>2. DOMAIN toc = 1 .. Len(toc)
  BY <1>1
<1>3. CASE hits = {}
  BY <1>2, <1>3 DEF LookupToc
<1>4. CASE hits # {}
  <2>1. LookupToc(path) = toc[Least(hits)].entry
    BY <1>4 DEF LookupToc
  <2>2. hits \in SUBSET Nat
    BY <1>1
  <2>3. Least(hits) \in hits
    BY <1>4, <2>2, LeastIn
  <2>4. Least(hits) \in 1 .. Len(toc) /\ toc[Least(hits)].path = path
    BY <1>2, <2>3
  <2>5. toc[Least(hits)] \in [path : Seq(AllNames), entry : Slots]
    BY <1>1, <2>4, ElementOfSeq
  <2>6. toc[Least(hits)].entry # None
    BY <2>5, CachedTreeAssumption DEF Slots, None
  <2>. QED  BY <2>1, <2>4, <2>6
<1>. QED  BY <1>3, <1>4

\* No path is in the toc twice, so the search finds any entry there is.
LEMMA TocFinds ==
    ASSUME TreeInv, PathsDistinct, NEW i \in 1 .. Len(toc)
    PROVE  LookupToc(toc[i].path) = toc[i].entry
<1>1. DOMAIN toc = 1 .. Len(toc)
  BY DEF TreeInv, TocOK
<1>. QED  BY <1>1, TocHit DEF PathsDistinct

\* No entry is in two directories.
LEMMA OneDirectory ==
    ASSUME TreeInv, NEW c \in Dirs, NEW d \in Dirs, NEW e \in Span(c), e \in Span(d)
    PROVE  c = d
<1>1. \A x \in Dirs : /\ dirs[x].base \in Nat /\ dirs[x].size \in Nat /\ dirs[x].cap \in Nat
                      /\ dirs[x].size <= dirs[x].cap
  BY RecordFields DEF TreeInv, BlocksOK
<1>2. e \in Nat
  BY SpanInArray, CachedTreeAssumption DEF Slots
<1>3. /\ dirs[c].base <= e /\ e < dirs[c].base + dirs[c].cap /\ dirs[c].cap # 0
      /\ dirs[d].base <= e /\ e < dirs[d].base + dirs[d].cap /\ dirs[d].cap # 0
  BY <1>1, <1>2 DEF Span
<1>. QED  BY <1>1, <1>2, <1>3 DEF TreeInv, BlocksDisjoint

\* A toc entry is a path and a slot.
LEMMA TocEntry ==
    ASSUME TreeInv, NEW i \in 1 .. Len(toc)
    PROVE  toc[i].path \in Seq(AllNames) /\ toc[i].entry \in Slots
<1>1. toc \in Seq([path : Seq(AllNames), entry : Slots])
  BY DEF TreeInv, TocOK
<1>2. toc[i] \in [path : Seq(AllNames), entry : Slots]
  BY <1>1, ElementOfSeq
<1>. QED  BY <1>2

-----------------------------------------------------------------------------
(* Paths of directories *)

\* The front and the last of a sequence with one appended to it.
LEMMA AppendParts ==
    ASSUME NEW S, NEW s \in Seq(S), NEW x
    PROVE  /\ Front(Append(s, x)) = s /\ Last(Append(s, x)) = x
           /\ Append(s, x) # <<>> /\ Len(Append(s, x)) = Len(s) + 1
<1>1. Len(Append(s, x)) = Len(s) + 1 /\ Len(s) \in Nat
  OBVIOUS
<1>2. Last(Append(s, x)) = x
  BY <1>1 DEF Last
<1>3. Front(Append(s, x)) = s
  BY <1>1 DEF Front
<1>. QED  BY <1>1, <1>2, <1>3

\* A path that is not empty is its front and its last component.
LEMMA PathParts ==
    ASSUME NEW S, NEW s \in Seq(S), s # <<>>
    PROVE  /\ Front(s) \in Seq(S) /\ Last(s) \in S /\ s = Append(Front(s), Last(s))
           /\ Len(Front(s)) = Len(s) - 1 /\ Len(s) \in Nat \ {0}
<1>1. Len(s) \in Nat \ {0}
  OBVIOUS
<1>2. Front(s) \in Seq(S) /\ Len(Front(s)) = Len(s) - 1
  <2>1. PICK n \in Nat \ {0} : n = Len(s)
    BY <1>1
  <2>2. n - 1 \in Int /\ \A i \in 1 .. n - 1 : s[i] \in S
    BY <2>1
  <2>3. /\ SubSeq(s, 1, n - 1) \in Seq(S)
        /\ Len(SubSeq(s, 1, n - 1)) = IF 1 <= n - 1 THEN (n - 1) - 1 + 1 ELSE 0
    BY <2>2, SubSeqProperties
  <2>4. Len(SubSeq(s, 1, n - 1)) = n - 1
    BY <2>3
  <2>. QED  BY <2>1, <2>3, <2>4 DEF Front
<1>3. Last(s) \in S
  BY <1>1 DEF Last
<1>4. s = Append(Front(s), Last(s))
  BY <1>1, <1>2 DEF Front, Last
<1>. QED  BY <1>1, <1>2, <1>3, <1>4

LEMMA AppendApart ==
    ASSUME NEW S, NEW T, NEW s \in Seq(S), NEW t \in Seq(T), NEW x, NEW y,
           Append(s, x) = Append(t, y)
    PROVE  s = t /\ x = y
BY AppendParts

\* The path before the names in a directory is a sequence of names.
LEMMA PathOfSeq ==
    ASSUME TreeInv, NEW d \in Dirs
    PROVE  PathOf(d) \in Seq(AllNames)
BY RecordFields DEF PathOf

\* A directory other than the root is in a directory, under its name.
LEMMA TocParent ==
    ASSUME TreeInv, Rooted, Whole, NEW i \in 2 .. Len(toc)
    PROVE  \E d \in 1 .. dirSize - 1 :
              /\ d \in Dirs /\ toc[i].entry \in Span(d)
              /\ meta[toc[i].entry].name \in Names \cup {Dot}
              /\ toc[i].path = Append(PathOf(d), meta[toc[i].entry].name)
<1>1. PICK d \in 1 .. dirSize - 1 :
         toc[i].entry \in Span(d) /\ toc[i].path = Append(PathOf(d), meta[toc[i].entry].name)
  BY DEF Whole, ParentsOK
<1>2. d \in Dirs
  BY CachedTreeAssumption DEF TreeInv, SizesOK, Dirs
<1>. QED  BY <1>1, <1>2 DEF Whole, NamesOK

\* Records other than the root's, and toc entries, are one to one.
LEMMA TocOfRecord ==
    ASSUME TreeInv, Whole, NEW d \in 1 .. dirSize - 1
    PROVE  /\ d \in 1 .. Len(toc) /\ d \in Dirs /\ dirs[d].path = toc[d].path
           /\ d # 1 => d \in 2 .. Len(toc) /\ PathOf(d) = toc[d].path
<1>1. dirSize \in Nat /\ Len(toc) = dirSize - 1 /\ d \in Dirs
  BY CachedTreeAssumption DEF TreeInv, SizesOK, Whole, RecordsOK, Dirs
<1>2. d \in 1 .. Len(toc)
  BY <1>1
<1>. QED  BY <1>1, <1>2 DEF Whole, RecordsOK, PathOf

\* So its path is that of the directory and one more name.
LEMMA PathOfParent ==
    ASSUME TreeInv, Rooted, Whole, NEW d \in 1 .. dirSize - 1, d # 1
    PROVE  \E c \in Dirs : \E n \in Names \cup {Dot} : PathOf(d) = Append(PathOf(c), n)
<1>1. d \in 2 .. Len(toc) /\ PathOf(d) = toc[d].path
  BY TocOfRecord
<1>2. PICK c \in Dirs : /\ meta[toc[d].entry].name \in Names \cup {Dot}
                        /\ toc[d].path = Append(PathOf(c), meta[toc[d].entry].name)
  BY <1>1, TocParent
<1>. QED  BY <1>1, <1>2

\* The path of the root's own record is nobody else's.
LEMMA RootPathApart ==
    ASSUME TreeInv, Rooted, Whole, NEW d \in 1 .. dirSize - 1, NEW n \in Names \cup {Dot}
    PROVE  Append(PathOf(d), n) # toc[1].path
<1>. SUFFICES ASSUME Append(PathOf(d), n) = toc[1].path  PROVE FALSE
  OBVIOUS
<1>1. toc[1].path = Append(<<Empty>>, Dot)
  <2>1. toc # <<>>
    BY TocOfRecord DEF TreeInv, TocOK
  <2>. QED  BY <2>1 DEF Whole, ParentsOK
<1>2. PathOf(d) = <<Empty>>
  <2>1. PathOf(d) \in Seq(AllNames) /\ <<Empty>> \in Seq(AllNames)
    BY TocOfRecord, PathOfSeq DEF AllNames
  <2>. QED  BY <1>1, <2>1, AppendApart
<1>3. d # 1
  BY <1>2 DEF PathOf
<1>4. PICK c \in Dirs : \E m \in Names \cup {Dot} : <<Empty>> = Append(PathOf(c), m)
  BY <1>2, <1>3, PathOfParent
<1>5. PICK m \in Names \cup {Dot} : Append(<<>>, Empty) = Append(PathOf(c), m)
  BY <1>4
<1>6. m = Empty
  <2>1. PathOf(c) \in Seq(AllNames) /\ <<>> \in Seq(AllNames)
    BY PathOfSeq
  <2>. QED  BY <1>5, <2>1, AppendApart
<1>. QED  BY <1>6, CachedTreeAssumption

\* Two directories have different paths.
LEMMA PathsApart ==
    ASSUME TreeInv, Rooted, Whole, NEW c \in 1 .. dirSize - 1, NEW d \in 1 .. dirSize - 1,
           PathOf(c) = PathOf(d)
    PROVE  c = d
<1>1. ASSUME NEW e \in 1 .. dirSize - 1, e # 1
      PROVE  PathOf(e) # <<>>
  <2>1. PICK b \in Dirs, n \in Names \cup {Dot} : PathOf(e) = Append(PathOf(b), n)
    BY <1>1, PathOfParent
  <2>2. PathOf(b) \in Seq(AllNames)
    BY PathOfSeq
  <2>. QED  BY <2>1, <2>2, AppendParts
<1>2. CASE c = 1 \/ d = 1
  BY <1>1, <1>2 DEF PathOf
<1>3. CASE c # 1 /\ d # 1
  <2>1. toc[c].path = toc[d].path /\ c \in DOMAIN toc /\ d \in DOMAIN toc
    BY <1>3, TocOfRecord DEF TreeInv, TocOK
  <2>. QED  BY <2>1 DEF Whole, PathsDistinct
<1>. QED  BY <1>2, <1>3
-----------------------------------------------------------------------------
(* What a path leads to *)

\* What is in the toc under a path is in the directory with the path of its
\* parent, under its last name.
LEMMA TocPlace ==
    ASSUME TreeInv, Rooted, Whole, NEW p \in Seq(Names) \ {<<>>},
           NEW i \in 1 .. Len(toc), toc[i].path = p
    PROVE  /\ i # 1
           /\ \E d \in 1 .. dirSize - 1 :
                 /\ d \in Dirs /\ toc[i].entry \in Span(d) /\ PathOf(d) = Front(p)
                 /\ Matches(toc[i].entry, Last(p))
<1>1. i # 1
  <2>1. toc[1].path = <<Empty, Dot>> \/ i # 1
    BY DEF Whole, ParentsOK
  <2>2. p[1] \in Names
    OBVIOUS
  <2>. QED  BY <2>1, <2>2, CachedTreeAssumption
<1>2. i \in 2 .. Len(toc)
  BY <1>1
<1>3. PICK d \in 1 .. dirSize - 1 :
         /\ d \in Dirs /\ toc[i].entry \in Span(d)
         /\ p = Append(PathOf(d), meta[toc[i].entry].name)
  BY <1>2, TocParent
<1>4. PathOf(d) = Front(p) /\ meta[toc[i].entry].name = Last(p)
  <2>1. PathOf(d) \in Seq(AllNames)
    BY <1>3, PathOfSeq
  <2>. QED  BY <1>3, <2>1, AppendParts
<1>5. meta[toc[i].entry].key = Key[meta[toc[i].entry].name]
  BY <1>3 DEF Whole, NamesOK
<1>. QED  BY <1>1, <1>3, <1>4, <1>5 DEF Matches

\* The parent of a path is the directory whose path is its front, if there is
\* one.
LEMMA ParentIs ==
    ASSUME TreeInv, Rooted, Whole, NEW p \in Seq(Names) \ {<<>>}
    PROVE  \/ ParentOf(p) = None /\ \A d \in 1 .. dirSize - 1 : PathOf(d) # Front(p)
           \/ /\ ParentOf(p) # None /\ ~Confused(p) /\ meta[ParentOf(p)].type = "dir"
              /\ meta[ParentOf(p)].obj \in 1 .. dirSize - 1
              /\ PathOf(meta[ParentOf(p)].obj) = Front(p)
<1>. DEFINE q == Front(p)
<1>1. q \in Seq(Names) /\ Len(q) = Len(p) - 1 /\ Len(p) \in Nat \ {0}
  BY PathParts
<1>2. dirSize \in Nat
  BY CachedTreeAssumption DEF TreeInv, SizesOK
<1>3. CASE Len(p) = 1
  <2>1. ParentOf(p) = 0 /\ q = <<>>
    BY <1>1, <1>3 DEF ParentOf
  <2>2. meta[0].type = "dir" /\ meta[0].obj = 1 /\ dirSize > 1
    BY DEF Rooted
  <2>. QED  BY <1>2, <2>1, <2>2 DEF None, Confused, PathOf
<1>4. CASE Len(p) # 1
  <2>1. ParentOf(p) = LookupToc(q) /\ q # <<>>
    BY <1>1, <1>4 DEF ParentOf
  <2>2. CASE LookupToc(q) = None /\ \A i \in 1 .. Len(toc) : toc[i].path # q
    BY <2>1, <2>2, TocOfRecord DEF PathOf
  <2>3. CASE LookupToc(q) # None
    <3>1. PICK i \in 1 .. Len(toc) : toc[i].path = q /\ LookupToc(q) = toc[i].entry
      BY <2>3, TocHit
    <3>2. i # 1
      BY <1>1, <2>1, <3>1, TocPlace
    <3>3. /\ meta[toc[i].entry].type = "dir" /\ meta[toc[i].entry].obj = i
          /\ i \in 1 .. dirSize - 1
      BY DEF Whole, RecordsOK
    <3>4. PathOf(i) = q
      BY <3>1, <3>2, <3>3, TocOfRecord
    <3>. QED  BY <2>1, <2>3, <3>1, <3>3, <3>4 DEF Confused
  <2>. QED  BY <2>2, <2>3, TocHit
<1>. QED  BY <1>3, <1>4

\* The toc leads to the directory a path stands for, and only then.
LEMMA TocIsTheDirectories ==
    ASSUME TreeInv, Rooted, Whole, NEW p \in Seq(Names) \ {<<>>}
    PROVE  LookupToc(p) = IF Resolve(p) # None /\ meta[Resolve(p)].type = "dir"
                          THEN Resolve(p) ELSE None
<1>1. CASE ParentOf(p) = None
  <2>1. Resolve(p) = None
    BY <1>1 DEF Resolve
  <2>2. \A i \in 1 .. Len(toc) : toc[i].path # p
    BY <1>1, ParentIs, TocPlace
  <2>. QED  BY <2>1, <2>2, TocHit
<1>2. CASE ParentOf(p) # None
  <2>1. PICK d \in 1 .. dirSize - 1 : d = meta[ParentOf(p)].obj /\ PathOf(d) = Front(p)
    BY <1>2, ParentIs
  <2>2. Resolve(p) = LookupIn(d, Last(p))
    BY <1>2, <2>1, ParentIs DEF Resolve
  <2>3. d \in Dirs
    BY TocOfRecord
  <2>4. ASSUME NEW i \in 1 .. Len(toc), toc[i].path = p
        PROVE  /\ toc[i].entry \in Span(d) /\ Matches(toc[i].entry, Last(p))
               /\ meta[toc[i].entry].type = "dir"
    <3>1. PICK c \in 1 .. dirSize - 1 :
             /\ c \in Dirs /\ toc[i].entry \in Span(c) /\ PathOf(c) = Front(p)
             /\ Matches(toc[i].entry, Last(p))
      BY <2>4, TocPlace
    <3>2. c = d
      BY <2>1, <3>1, PathsApart
    <3>. QED  BY <3>1, <3>2 DEF Whole, RecordsOK
  <2>5. CASE LookupIn(d, Last(p)) = None
    <3>1. \A e \in Span(d) : ~Matches(e, Last(p))
      BY <2>3, <2>5, LookupHit
    <3>2. \A i \in 1 .. Len(toc) : toc[i].path # p
      BY <2>4, <3>1
    <3>. QED  BY <2>2, <2>5, <3>2, TocHit
  <2>6. CASE LookupIn(d, Last(p)) # None
    <3>1. PICK f \in Span(d) : f = LookupIn(d, Last(p)) /\ Matches(f, Last(p))
      BY <2>3, <2>6, LookupHit
    <3>2. f \in Slots
      BY <2>3, SpanInArray
    <3>3. CASE meta[f].type = "dir"
      <4>1. PICK r \in 1 .. dirSize - 1 : r = meta[f].obj
        <5>1. meta[f].obj \in 0 .. dirSize - 1
          BY <3>2, <3>3 DEF TreeInv, MetaOK, Made
        <5>2. meta[f].obj # 0
          BY <3>2, <3>3 DEF Rooted
        <5>3. dirSize \in Nat
          BY CachedTreeAssumption DEF TreeInv, SizesOK
        <5>. QED  BY <5>1, <5>2, <5>3
      <4>2. r \in 1 .. Len(toc) /\ meta[toc[r].entry].type = "dir" /\ meta[toc[r].entry].obj = r
        BY TocOfRecord DEF Whole, RecordsOK
      <4>3. r # 1
        <5>. SUFFICES ASSUME r = 1  PROVE FALSE
          OBVIOUS
        <5>1. 0 \in Dirs /\ 0 \in Span(0)
          BY CachedTreeAssumption DEF Rooted, Span, Dirs
        <5>2. f = 0
          BY <2>3, <3>3, <4>1, <5>1 DEF Whole, Intact, Rooted, TreeInv, ObjectsOwnedOnce
        <5>3. d = 0
          BY <2>3, <5>1, <5>2, OneDirectory
        <5>. QED  BY <5>3
      <4>4. r \in 2 .. Len(toc)
        BY <4>2, <4>3
      <4>5. PICK c \in 1 .. dirSize - 1 :
               /\ c \in Dirs /\ toc[r].entry \in Span(c)
               /\ toc[r].path = Append(PathOf(c), meta[toc[r].entry].name)
        BY <4>4, TocParent
      <4>6. toc[r].entry = f
        BY <2>3, <3>3, <4>1, <4>2, <4>5 DEF Whole, Intact, TreeInv, ObjectsOwnedOnce
      <4>7. c = d
        BY <2>3, <4>5, <4>6, OneDirectory
      <4>8. toc[r].path = p
        <5>1. meta[f].name = Last(p)
          BY <3>1 DEF Matches
        <5>2. toc[r].path = Append(Front(p), Last(p))
          BY <2>1, <4>5, <4>6, <4>7, <5>1
        <5>. QED  BY <5>2, PathParts
      <4>9. LookupToc(p) = f
        BY <4>2, <4>6, <4>8, TocFinds DEF Whole
      <4>. QED  BY <2>2, <2>6, <3>1, <3>3, <4>9
    <3>4. CASE meta[f].type # "dir"
      <4>1. ASSUME NEW i \in 1 .. Len(toc), toc[i].path = p
            PROVE  FALSE
        <5>1. toc[i].entry \in Span(d) /\ meta[toc[i].entry].name = meta[f].name
          BY <2>4, <3>1, <4>1 DEF Matches
        <5>2. toc[i].entry = f
          BY <2>3, <5>1 DEF Whole, NamesOnce
        <5>. QED  BY <2>4, <3>4, <4>1, <5>2
      <4>2. LookupToc(p) = None
        BY <4>1, TocHit
      <4>. QED  BY <2>2, <3>1, <3>4, <4>2
    <3>. QED  BY <3>3, <3>4
  <2>. QED  BY <2>5, <2>6
<1>. QED  BY <1>1, <1>2
\* An entry a path stands for is in the directory with the path's front.
LEMMA ResolveIs ==
    ASSUME TreeInv, Rooted, Whole, NEW p \in Seq(Names) \ {<<>>}
    PROVE  /\ Resolve(p) = None => ParentOf(p) = None \/ LookupIn(meta[ParentOf(p)].obj, Last(p)) = None
           /\ Resolve(p) # None =>
                 \E d \in 1 .. dirSize - 1 :
                    /\ d \in Dirs /\ PathOf(d) = Front(p) /\ d = meta[ParentOf(p)].obj
                    /\ ParentOf(p) # None
                    /\ Resolve(p) = LookupIn(d, Last(p))
                    /\ Resolve(p) \in Span(d) /\ Matches(Resolve(p), Last(p))
                    /\ meta[Resolve(p)].type \in {"dir", "file"}
<1>1. ParentOf(p) # None => Resolve(p) = LookupIn(meta[ParentOf(p)].obj, Last(p))
  BY ParentIs DEF Resolve
<1>2. ASSUME Resolve(p) # None
      PROVE  \E d \in 1 .. dirSize - 1 :
                    /\ d \in Dirs /\ PathOf(d) = Front(p) /\ d = meta[ParentOf(p)].obj
                    /\ ParentOf(p) # None
                    /\ Resolve(p) = LookupIn(d, Last(p))
                    /\ Resolve(p) \in Span(d) /\ Matches(Resolve(p), Last(p))
                    /\ meta[Resolve(p)].type \in {"dir", "file"}
  <2>1. ParentOf(p) # None
    BY <1>2 DEF Resolve
  <2>2. PICK d \in 1 .. dirSize - 1 : d = meta[ParentOf(p)].obj /\ PathOf(d) = Front(p)
    BY <2>1, ParentIs
  <2>3. d \in Dirs /\ Resolve(p) = LookupIn(d, Last(p))
    BY <1>1, <2>1, <2>2, TocOfRecord
  <2>4. Resolve(p) \in Span(d) /\ Matches(Resolve(p), Last(p))
    BY <1>2, <2>3, LookupHit
  <2>5. Resolve(p) \in Slots /\ meta[Resolve(p)].type # "none"
    BY <2>3, <2>4, SpanInArray DEF Whole, NamesOK
  <2>6. meta[Resolve(p)].type \in {"dir", "file"}
    BY <2>5 DEF TreeInv, MetaOK, Types
  <2>. QED  BY <2>1, <2>2, <2>3, <2>4, <2>6
<1>. QED  BY <1>1, <1>2

\* The two ways to a path, one step of each: what a path stands for is what
\* is found under its last name in what its front stands for.
LEMMA ResolveNext ==
    ASSUME TreeInv, Rooted, Whole, NEW p \in Seq(Names) \ {<<>>}
    PROVE  Resolve(p) =
              IF Front(p) = <<>> THEN LookupIn(1, Last(p))
              ELSE IF Resolve(Front(p)) = None THEN None
              ELSE IF meta[Resolve(Front(p))].type = "file" THEN None
              ELSE LookupIn(meta[Resolve(Front(p))].obj, Last(p))
<1>. DEFINE q == Front(p)
<1>1. q \in Seq(Names) /\ Len(q) = Len(p) - 1 /\ Len(p) \in Nat \ {0}
  BY PathParts
<1>2. ParentOf(p) # None => Resolve(p) = LookupIn(meta[ParentOf(p)].obj, Last(p))
  BY ParentIs DEF Resolve
<1>3. CASE q = <<>>
  <2>1. ParentOf(p) = 0
    BY <1>1, <1>3 DEF ParentOf
  <2>. QED  BY <1>2, <1>3, <2>1 DEF Rooted, None
<1>4. CASE q # <<>>
  <2>1. ParentOf(p) = LookupToc(q)
    BY <1>1, <1>4 DEF ParentOf
  <2>2. q \in Seq(Names) \ {<<>>}
    BY <1>1, <1>4
  <2>3. LookupToc(q) = IF Resolve(q) # None /\ meta[Resolve(q)].type = "dir"
                       THEN Resolve(q) ELSE None
    BY <2>2, TocIsTheDirectories
  <2>4. Resolve(q) # None => meta[Resolve(q)].type \in {"dir", "file"}
    BY <2>2, ResolveIs
  <2>5. ParentOf(p) = None => Resolve(p) = None
    BY DEF Resolve
  <2>. QED  BY <1>2, <1>4, <2>1, <2>3, <2>4, <2>5
<1>. QED  BY <1>3, <1>4
-----------------------------------------------------------------------------
(* What the invariant says of the paths *)

\* Before anything is listed, nothing is found.
LEMMA FreshIsEmpty ==
    ASSUME TreeInv, Fresh
    PROVE  /\ \A d \in Dirs : Span(d) = {} /\ \A n : LookupIn(d, n) = None
           /\ \A p : LookupToc(p) = None
           /\ \A p \in Seq(Names) \ {<<>>} : Resolve(p) = None
<1>1. ASSUME NEW d \in Dirs
      PROVE  Span(d) = {} /\ \A n : LookupIn(d, n) = None
  <2>1. dirs[d].base \in Nat /\ dirs[d].size = 0
    <3>1. dirs[d].size \in Nat /\ dirs[d].base \in Nat
      BY RecordFields
    <3>2. dirs[d].cap = 0 /\ dirs[d].size <= dirs[d].cap
      BY DEF Fresh, TreeInv, BlocksOK
    <3>. QED  BY <3>1, <3>2
  <2>2. Span(d) = {}
    BY <2>1 DEF Span
  <2>. QED  BY <2>2 DEF LookupIn
<1>2. \A p : LookupToc(p) = None
  BY DEF Fresh, LookupToc
<1>3. 0 \in Dirs /\ meta[0].obj = 0
  BY CachedTreeAssumption DEF Fresh, Dirs
<1>4. ASSUME NEW p \in Seq(Names) \ {<<>>}
      PROVE  Resolve(p) = None
  BY <1>1, <1>2, <1>3 DEF Resolve, ParentOf
<1>. QED  BY <1>1, <1>2, <1>4

\* The beginnings of a path.
Beginning(p, k) == SubSeq(p, 1, k)

LEMMA Beginnings ==
    ASSUME NEW S, NEW p \in Seq(S), NEW k \in 1 .. Len(p)
    PROVE  /\ Beginning(p, k) \in Seq(S) /\ Beginning(p, k) # <<>>
           /\ Last(Beginning(p, k)) = p[k]
           /\ k = 1 => Front(Beginning(p, k)) = <<>>
           /\ k # 1 => Front(Beginning(p, k)) = Beginning(p, k - 1)
                       /\ Beginning(p, k - 1) # <<>>
           /\ Beginning(p, Len(p)) = p
<1>. USE DEF Beginning
<1>1. PICK n \in Nat : n = Len(p)
  OBVIOUS
<1>2. ASSUME NEW j \in 1 .. n
      PROVE  /\ SubSeq(p, 1, j) \in Seq(S) /\ Len(SubSeq(p, 1, j)) = j
             /\ \A i \in 1 .. j : SubSeq(p, 1, j)[i] = p[i]
             /\ SubSeq(p, 1, j) # <<>>
  <2>1. j \in Int /\ 1 \in Int /\ \A i \in 1 .. j : p[i] \in S
    BY <1>1
  <2>2. /\ SubSeq(p, 1, j) \in Seq(S)
        /\ Len(SubSeq(p, 1, j)) = IF 1 <= j THEN j - 1 + 1 ELSE 0
        /\ \A i \in 1 .. j - 1 + 1 : SubSeq(p, 1, j)[i] = p[1 + i - 1]
    BY <2>1, SubSeqProperties
  <2>3. j - 1 + 1 = j /\ 1 <= j /\ \A i \in 1 .. j : 1 + i - 1 = i
    OBVIOUS
  <2>4. Len(SubSeq(p, 1, j)) = j
    BY <2>2, <2>3
  <2>. QED  BY <2>2, <2>3, <2>4
<1>3. k \in 1 .. n /\ k - 1 \in 0 .. n
  BY <1>1
<1>4. Last(SubSeq(p, 1, k)) = p[k]
  BY <1>2, <1>3 DEF Last
<1>5. Front(SubSeq(p, 1, k)) = SubSeq(SubSeq(p, 1, k), 1, k - 1)
  BY <1>2, <1>3 DEF Front
<1>6. CASE k = 1
  BY <1>2, <1>3, <1>4, <1>5, <1>6
<1>7. CASE k # 1
  <2>1. k - 1 \in 1 .. n /\ k - 1 \in 1 .. k
    BY <1>3, <1>7
  <2>. QED  BY <1>2, <1>3, <1>4, <1>5, <1>7, <2>1
<1>8. SubSeq(p, 1, Len(p)) = p
  OBVIOUS
<1>. QED  BY <1>2, <1>3, <1>4, <1>6, <1>7, <1>8
\* What the walk finds under name n in what entry e stands for.
Below(e, n) ==
    IF e = None THEN None
    ELSE IF meta[e].type = "file" THEN None
    ELSE LookupIn(meta[e].obj, n)

LEMMA ResolveBelow ==
    ASSUME TreeInv, Fresh \/ (Rooted /\ Whole), NEW p \in Seq(Names) \ {<<>>}
    PROVE  Resolve(p) = Below(IF Front(p) = <<>> THEN 0 ELSE Resolve(Front(p)), Last(p))
<1>1. CASE Rooted /\ Whole
  <2>1. meta[0].type # "file" /\ meta[0].obj = 1
    BY <1>1 DEF Rooted
  <2>. QED  BY <1>1, <2>1, ResolveNext DEF Below, None
<1>2. CASE Fresh
  <2>1. Front(p) \in Seq(Names)
    BY PathParts
  <2>2. 0 \in Dirs /\ meta[0].obj = 0
    BY <1>2, CachedTreeAssumption DEF Fresh, Dirs
  <2>. QED  BY <1>2, <2>1, <2>2, FreshIsEmpty DEF Below
<1>. QED  BY <1>1, <1>2

\* A path is found by the toc if and only if it is found by a walk.
LEMMA WalkIsResolve ==
    ASSUME TreeInv, Fresh \/ (Rooted /\ Whole), NEW p \in Seq(Names) \ {<<>>}
    PROVE  Walk(p) = Resolve(p)
<1>. DEFINE N == Len(p)
            Next1(f, k) == IF k = 0 THEN 0 ELSE Below(f[k - 1], p[k])
            W(f) == f = [k \in 0 .. N |-> IF k = 0 THEN 0
                                          ELSE IF f[k - 1] = None THEN None
                                          ELSE IF meta[f[k - 1]].type = "file" THEN None
                                          ELSE LookupIn(meta[f[k - 1]].obj, p[k])]
            f0 == [k \in 0 .. N |-> IF k = 0 THEN 0 ELSE Resolve(Beginning(p, k))]
            at == CHOOSE f : W(f)
<1>1. N \in Nat \ {0}
  OBVIOUS
<1>2. \A f : W(f) <=> f = [k \in 0 .. N |-> Next1(f, k)]
  BY DEF Below
<1>3. ASSUME NEW k \in 1 .. N
      PROVE  f0[k] = Below(f0[k - 1], p[k])
  <2>1. /\ Beginning(p, k) \in Seq(Names) /\ Beginning(p, k) # <<>>
        /\ Last(Beginning(p, k)) = p[k]
        /\ k = 1 => Front(Beginning(p, k)) = <<>>
        /\ k # 1 => Front(Beginning(p, k)) = Beginning(p, k - 1) /\ Beginning(p, k - 1) # <<>>
    BY Beginnings
  <2>2. Resolve(Beginning(p, k)) = Below(IF k = 1 THEN 0 ELSE Resolve(Beginning(p, k - 1)), p[k])
    BY <2>1, ResolveBelow
  <2>3. k \in 0 .. N /\ k # 0 /\ k - 1 \in 0 .. N /\ (k - 1 = 0 <=> k = 1)
    BY <1>1
  <2>. QED  BY <2>2, <2>3
<1>4. W(f0)
  <2>. HIDE DEF f0
  <2>1. \A k \in 0 .. N : f0[k] = Next1(f0, k)
    <3>1. f0[0] = 0
      BY <1>1 DEF f0
    <3>2. \A k \in 0 .. N : k # 0 => k \in 1 .. N
      BY <1>1
    <3>. QED  BY <1>3, <3>1, <3>2
  <2>2. f0 = [k \in 0 .. N |-> f0[k]]
    BY DEF f0
  <2>3. f0 = [k \in 0 .. N |-> Next1(f0, k)]
    BY <2>1, <2>2
  <2>. QED  BY <1>2, <2>3
<1>5. W(at)
  <2>. HIDE DEF W, f0
  <2>. QED  BY <1>4
<1>6. Walk(p) = at[N]
  BY DEF Walk
<1>7. at = [k \in 0 .. N |-> Next1(at, k)]
  <2>. HIDE DEF at, W, Next1
  <2>. QED  BY <1>2, <1>5
<1>. HIDE DEF at, f0, W
<1>8. ASSUME NEW j \in 0 .. N, at[j] # f0[j]
      PROVE  FALSE
  <2>. DEFINE S == {k \in 0 .. N : at[k] # f0[k]}
  <2>1. S \in SUBSET Nat /\ S # {}
    BY <1>1, <1>8
  <2>. HIDE DEF S
  <2>2. PICK k \in S : \A y \in S : k <= y
    BY <2>1, LeastIn
  <2>3. k \in 0 .. N /\ at[k] # f0[k]
    BY <2>2 DEF S
  <2>4. k # 0
    <3>1. at[0] = 0 /\ f0[0] = 0
      BY <1>1, <1>7 DEF f0
    <3>. QED  BY <2>3, <3>1
  <2>5. k \in 1 .. N /\ k - 1 \in 0 .. N /\ ~(k <= k - 1)
    BY <1>1, <2>3, <2>4
  <2>6. at[k - 1] = f0[k - 1]
    BY <2>2, <2>5 DEF S
  <2>. QED  BY <1>3, <1>7, <2>3, <2>4, <2>5, <2>6
<1>9. at[N] = f0[N]
  BY <1>1, <1>8
<1>10. f0[N] = Resolve(p)
  <2>1. Beginning(p, N) = p
    BY <1>1, Beginnings
  <2>2. N \in 0 .. N /\ N # 0
    BY <1>1
  <2>3. f0[N] = Resolve(Beginning(p, N))
    <3>. HIDE DEF N
    <3>. QED  BY <2>2 DEF f0
  <2>. QED  BY <2>1, <2>3
<1>. QED  BY <1>6, <1>9, <1>10

\* What a directory lists is found by its path.
LEMMA ListedIsThere ==
    ASSUME TreeInv, Fresh \/ (Rooted /\ Whole), NEW path \in Seq(Names),
           path = <<>> \/ Stat(path) = "dir", NEW e \in Readdir(path),
           meta[e].name # Dot
    PROVE  Resolve(Append(path, meta[e].name)) = e
<1>1. CASE Fresh
  <2>1. path = <<>>
    BY <1>1, FreshIsEmpty DEF Stat
  <2>2. 0 \in Dirs /\ meta[0].obj = 0
    BY <1>1, CachedTreeAssumption DEF Fresh, Dirs
  <2>3. Span(0) = {}
    BY <1>1, <2>2, FreshIsEmpty
  <2>. QED  BY <2>1, <2>2, <2>3 DEF Readdir
<1>2. CASE Rooted /\ Whole
  <2>. DEFINE r == IF path = <<>> THEN 0 ELSE Resolve(path)
              d == meta[r].obj
              n == meta[e].name
              p == Append(path, n)
  <2>1. r # None /\ meta[r].type = "dir" /\ r \in Slots
    <3>1. CASE path = <<>>
      BY <1>2, <3>1, CachedTreeAssumption DEF Rooted, None, Slots
    <3>2. CASE path # <<>>
      <4>1. path \in Seq(Names) \ {<<>>} /\ Stat(path) = "dir"
        BY <3>2
      <4>2. Resolve(path) # None /\ meta[Resolve(path)].type = "dir"
        BY <4>1 DEF Stat
      <4>3. PICK c \in Dirs : Resolve(path) \in Span(c)
        BY <1>2, <4>1, <4>2, ResolveIs
      <4>. QED  BY <3>2, <4>2, <4>3, SpanInArray
    <3>. QED  BY <3>1, <3>2
  <2>2. d \in Dirs
    <3>1. d \in 0 .. dirSize - 1
      BY <2>1 DEF TreeInv, MetaOK, Made
    <3>2. dirSize \in 1 .. DirCapacity /\ DirCapacity \in Nat
      BY CachedTreeAssumption DEF TreeInv, SizesOK
    <3>. HIDE DEF d
    <3>. QED  BY <3>1, <3>2 DEF Dirs
  <2>3. e \in Span(d)
    BY DEF Readdir
  <2>4. n \in Names /\ Matches(e, n)
    BY <1>2, <2>2, <2>3 DEF Whole, NamesOK, Matches
  <2>5. LookupIn(d, n) = e
    <3>. HIDE DEF d
    <3>1. LookupIn(d, n) \in Span(d) /\ meta[LookupIn(d, n)].name = n
      BY <2>2, <2>3, <2>4, LookupHit DEF Matches
    <3>. QED  BY <1>2, <2>2, <2>3, <3>1 DEF Whole, NamesOnce
  <2>6. p \in Seq(Names) \ {<<>>} /\ Front(p) = path /\ Last(p) = n
    <3>1. p \in Seq(Names)
      BY <2>4
    <3>. QED  BY <3>1, AppendParts
  <2>7. Resolve(p) = LookupIn(d, n)
    <3>1. Resolve(p) = Below(r, n)
      BY <1>2, <2>6, ResolveBelow
    <3>. QED  BY <2>1, <3>1 DEF Below
  <2>. QED  BY <2>5, <2>7
<1>. QED  BY <1>1, <1>2

\* No handler meets a parent that is a file, or none.
LEMMA NoConfusion ==
    ASSUME TreeInv, Rooted, Whole, NEW path \in Paths
    PROVE  ~GetattrConfused(path) /\ ~MknodNoParent(path)
<1>1. path \in Seq(Names) \ {<<>>}
  BY CachedTreeAssumption
<1>2. ~GetattrConfused(path)
  BY <1>1, ParentIs DEF GetattrConfused, Confused
<1>3. ASSUME MknodNoParent(path)
      PROVE  FALSE
  <2>1. ParentOf(path) = None /\ Reached(path)
    BY <1>3 DEF MknodNoParent
  <2>2. /\ Front(path) \in Seq(Names) /\ Len(Front(path)) = Len(path) - 1
        /\ Len(path) \in Nat \ {0}
    BY <1>1, PathParts
  <2>3. Len(path) # 1
    BY <2>1 DEF ParentOf, None
  <2>4. Front(path) \in Seq(Names) \ {<<>>} /\ ParentOf(path) = LookupToc(Front(path))
    BY <2>2, <2>3 DEF ParentOf
  <2>5. Stat(Front(path)) = "dir"
    <3>1. Len(path) - 1 \in 1 .. Len(path) - 1
      BY <2>2, <2>3
    <3>2. Stat(SubSeq(path, 1, Len(path) - 1)) = "dir"
      BY <2>1, <3>1 DEF Reached
    <3>. QED  BY <3>2 DEF Front
  <2>6. LookupToc(Front(path)) # None
    BY <2>4, <2>5, TocIsTheDirectories DEF Stat
  <2>. QED  BY <2>1, <2>4, <2>6
<1>. QED  BY <1>2, <1>3
-----------------------------------------------------------------------------
(* Making an entry *)

\* Directory d has got an entry in slot s, and nothing else has changed.
Grown(d, s, e) ==
    /\ meta'[s] = e /\ \A x \in Slots \ {s} : meta'[x] = meta[x]
    /\ Span(d)' = Span(d) \cup {s}
    /\ \A c \in Dirs \ {d} : Span(c)' = Span(c)
    /\ \A c \in 0 .. dirSize - 1 :
          dirs'[c].path = dirs[c].path /\ (c # d => dirs'[c] = dirs[c])

\* The slot of a new entry comes into use, and no other does.
LEMMA SlotClaimed ==
    ASSUME TreeInv, NEW d \in 0 .. dirSize - 1, SlotFree(d), dirs'[d] = ClaimSlot(d),
           \A c \in Dirs \ {d} :
              dirs'[c] = dirs[c] \/ (dirs[c].cap = 0 /\ dirs'[c].size = 0
                                      /\ dirs'[c].base = 0)
    PROVE  /\ Span(d)' = Span(d) \cup {Slot(d)}
           /\ \A c \in Dirs \ {d} : Span(c)' = Span(c)
           /\ \A c \in Dirs : Slot(d) \notin Span(c)
<1>1. PICK b \in Nat : b = BaseOf(d)
  BY SlotFacts
<1>2. PICK m \in Nat : m = dirs[d].size
  BY SlotFacts, RecordFields
<1>3. Slot(d) = b + m /\ m + 1 <= Block /\ Block \in Nat
  BY <1>1, <1>2, SlotFacts, CachedTreeAssumption DEF Slot
<1>4. Span(d)' = b .. b + m
  <2>1. dirs'[d].base = b /\ dirs'[d].size = m + 1
    BY <1>1, <1>2 DEF ClaimSlot
  <2>2. b + (m + 1) - 1 = b + m
    OBVIOUS
  <2>. QED  BY <2>1, <2>2 DEF Span
<1>5. Span(d) = b .. b + m - 1
  <2>1. d \in Dirs
    BY SlotFacts
  <2>2. CASE m = 0
    <3>1. PICK x \in Nat : x = dirs[d].base
      BY <2>1, RecordFields
    <3>2. Span(d) = x .. x + 0 - 1
      BY <1>2, <2>2, <3>1 DEF Span
    <3>. QED  BY <2>2, <3>2
  <2>3. CASE m # 0
    <3>1. dirs[d].cap # 0
      BY <1>2, <2>1, <2>3, RecordFields DEF TreeInv, BlocksOK
    <3>2. dirs[d].base = b
      BY <1>1, <3>1 DEF BaseOf
    <3>. QED  BY <1>2, <3>2 DEF Span
  <2>. QED  BY <2>2, <2>3
<1>6. Span(d)' = Span(d) \cup {Slot(d)} /\ Slot(d) \notin Span(d)
  BY <1>3, <1>4, <1>5
<1>7. ASSUME NEW c \in Dirs \ {d}
      PROVE  Span(c)' = Span(c) /\ Slot(d) \notin Span(c)
  <2>1. /\ dirs[c].base \in Nat /\ dirs[c].size \in Nat /\ dirs[c].cap \in Nat
        /\ dirs[c].size <= dirs[c].cap
    BY RecordFields DEF TreeInv, BlocksOK
  <2>2. CASE dirs[c].cap = 0
    <3>1. dirs[c].size = 0
      BY <2>1, <2>2
    <3>2. Span(c) = {}
      BY <2>1, <3>1 DEF Span
    <3>3. dirs'[c] = dirs[c] \/ (dirs'[c].size = 0 /\ dirs'[c].base = 0)
      OBVIOUS
    <3>4. Span(c)' = {}
      BY <3>2, <3>3 DEF Span
    <3>. QED  BY <3>2, <3>4
  <2>3. CASE dirs[c].cap # 0
    <3>1. Span(c)' = Span(c)
      BY <2>3 DEF Span
    <3>2. PICK x, y, z \in Nat : x = dirs[c].base /\ y = dirs[c].size /\ z = dirs[c].cap
      BY <2>1
    <3>3. y <= z /\ (x + z <= b \/ b + Block <= x)
      BY <1>1, <2>1, <2>3, <3>2, SlotFacts
    <3>4. Span(c) = x .. x + y - 1
      BY <3>2 DEF Span
    <3>. QED  BY <1>3, <3>1, <3>3, <3>4
  <2>. QED  BY <2>2, <2>3
<1>. QED  BY <1>6, <1>7
LEMMA MakeDirGrows ==
    ASSUME TreeInv, NEW d \in 0 .. dirSize - 1, NEW n \in Names \cup {Dot},
           DirFits(d), MakeDir(d, n)
    PROVE  /\ Grown(d, Slot(d), Entry(n, "dir", dirSize))
           /\ Slot(d) \in Slots /\ \A c \in Dirs : Slot(d) \notin Span(c)
           /\ dirSize' = dirSize + 1 /\ dirs'[dirSize].path = PathIn(d, n)
           /\ toc' = Append(toc, [path |-> PathIn(d, n), entry |-> Slot(d)])
<1>. DEFINE s == Slot(d)
            new == dirSize
<1>1. SlotFree(d) /\ dirSize < DirCapacity
  BY DEF DirFits
<1>2. s \in Slots /\ d \in Dirs
  BY <1>1, SlotFacts
<1>3. new \in Dirs /\ d # new /\ new \notin 0 .. dirSize - 1 /\ new \in Nat
  BY <1>1, CachedTreeAssumption DEF TreeInv, SizesOK, Dirs
<1>4. PICK p : p = PathIn(d, n)
  OBVIOUS
<1>5. DOMAIN dirs = Dirs /\ DOMAIN meta = Slots
  BY DEF TreeInv, DirsOK, MetaOK
<1>6. /\ dirs' = [dirs EXCEPT ![d] = ClaimSlot(d),
                              ![new] = [base |-> 0, size |-> 0, cap |-> 0, path |-> p]]
      /\ meta' = [meta EXCEPT ![s] = Entry(n, "dir", new)]
      /\ dirSize' = new + 1
      /\ toc' = Append(toc, [path |-> p, entry |-> s])
  BY <1>4 DEF MakeDir
<1>. HIDE DEF s, new
<1>7. /\ dirs'[d] = ClaimSlot(d)
      /\ dirs'[new] = [base |-> 0, size |-> 0, cap |-> 0, path |-> p]
      /\ \A c \in Dirs \ {d, new} : dirs'[c] = dirs[c]
  BY <1>2, <1>3, <1>5, <1>6
<1>8. meta'[s] = Entry(n, "dir", new) /\ \A x \in Slots \ {s} : meta'[x] = meta[x]
  BY <1>2, <1>5, <1>6
<1>9. dirs[new].cap = 0
  BY <1>3 DEF TreeInv, DirsOK, new
<1>10. \A c \in Dirs \ {d} :
          dirs'[c] = dirs[c] \/ (dirs[c].cap = 0 /\ dirs'[c].size = 0 /\ dirs'[c].base = 0)
  BY <1>7, <1>9
<1>11. /\ Span(d)' = Span(d) \cup {s}
       /\ \A c \in Dirs \ {d} : Span(c)' = Span(c)
       /\ \A c \in Dirs : s \notin Span(c)
  BY <1>1, <1>7, <1>10, SlotClaimed DEF s
<1>12. ASSUME NEW c \in 0 .. dirSize - 1
       PROVE  dirs'[c].path = dirs[c].path /\ (c # d => dirs'[c] = dirs[c])
  <2>1. c # new /\ c \in Dirs
    BY <1>1, <1>3, CachedTreeAssumption DEF TreeInv, SizesOK, Dirs
  <2>. QED  BY <1>7, <2>1 DEF ClaimSlot
<1>13. Grown(d, s, Entry(n, "dir", new))
  BY <1>8, <1>11, <1>12 DEF Grown
<1>14. dirs'[new].path = p
  BY <1>7
<1>. QED  BY <1>2, <1>4, <1>6, <1>11, <1>13, <1>14 DEF s, new

LEMMA MakeFileGrows ==
    ASSUME TreeInv, NEW d \in 0 .. dirSize - 1, NEW n \in Names,
           FileFits(d), MakeFile(d, n)
    PROVE  /\ Grown(d, Slot(d), Entry(n, "file", fileSize))
           /\ Slot(d) \in Slots /\ \A c \in Dirs : Slot(d) \notin Span(c)
           /\ UNCHANGED <<dirSize, toc>>
<1>. DEFINE s == Slot(d)
<1>1. SlotFree(d)
  BY DEF FileFits
<1>2. s \in Slots /\ d \in Dirs
  BY <1>1, SlotFacts
<1>3. DOMAIN dirs = Dirs /\ DOMAIN meta = Slots
  BY DEF TreeInv, DirsOK, MetaOK
<1>4. /\ dirs' = [dirs EXCEPT ![d] = ClaimSlot(d)]
      /\ meta' = [meta EXCEPT ![s] = Entry(n, "file", fileSize)]
      /\ dirSize' = dirSize /\ toc' = toc
  BY DEF MakeFile
<1>. HIDE DEF s
<1>5. dirs'[d] = ClaimSlot(d) /\ \A c \in Dirs \ {d} : dirs'[c] = dirs[c]
  BY <1>2, <1>3, <1>4
<1>6. meta'[s] = Entry(n, "file", fileSize) /\ \A x \in Slots \ {s} : meta'[x] = meta[x]
  BY <1>2, <1>3, <1>4
<1>7. /\ Span(d)' = Span(d) \cup {s}
      /\ \A c \in Dirs \ {d} : Span(c)' = Span(c)
      /\ \A c \in Dirs : s \notin Span(c)
  BY <1>1, <1>5, SlotClaimed DEF s
<1>8. ASSUME NEW c \in 0 .. dirSize - 1
      PROVE  dirs'[c].path = dirs[c].path /\ (c # d => dirs'[c] = dirs[c])
  <2>1. c \in Dirs
    BY CachedTreeAssumption DEF TreeInv, SizesOK, Dirs
  <2>. QED  BY <1>5, <2>1 DEF ClaimSlot
<1>. QED  BY <1>2, <1>4, <1>6, <1>7, <1>8 DEF Grown, s
\* The elements of a sequence with one appended to it.
LEMMA Appended ==
    ASSUME NEW S, NEW s \in Seq(S), NEW x, NEW t, t = Append(s, x)
    PROVE  /\ Len(t) = Len(s) + 1 /\ DOMAIN t = 1 .. Len(s) + 1 /\ Len(s) \in Nat
           /\ \A i \in 1 .. Len(s) : t[i] = s[i]
           /\ t[Len(s) + 1] = x
           /\ \A i \in DOMAIN t : (i \in 1 .. Len(s) /\ t[i] = s[i])
                                 \/ (i = Len(s) + 1 /\ t[i] = x)
OBVIOUS

\* The path of a new directory is that of the one it is in and its name.
LEMMA PathInIs ==
    ASSUME TreeInv, Rooted, NEW d \in 1 .. dirSize - 1, NEW n \in Names \cup {Dot},
           meta'[0] = meta[0]
    PROVE  PathIn(d, n) = Append(PathOf(d), n)
<1>1. PathOf(d) \in Seq(AllNames)
  <2>1. d \in Dirs
    BY CachedTreeAssumption DEF TreeInv, SizesOK, Dirs
  <2>. QED  BY <2>1, PathOfSeq
<1>2. PathIn(d, n) = PathOf(d) \o <<n>>
  BY DEF PathIn, PathOf, Rooted
<1>3. PathOf(d) \o <<n>> = Append(PathOf(d), n)
  BY <1>1
<1>. QED  BY <1>2, <1>3

\* An entry made in a directory other than record 0 leaves the root where it
\* is, removals or not.
LEMMA GrownRooted ==
    ASSUME TreeInv, Rooted, NEW d \in 1 .. dirSize - 1, NEW s \in Slots, NEW e,
           Grown(d, s, e), \A c \in Dirs : s \notin Span(c),
           e.type \in {"file", "dir"}, e.type = "dir" => e.obj = dirSize,
           dirSize' \in {dirSize, dirSize + 1},
           toc' = toc \/ (\E p : toc' = Append(toc, [path |-> p, entry |-> s])),
           status' = "ok" => listing' = listing \/ listing' = Append(listing, s),
           listing \in Seq(Slots), status' = "ok" => status = "ok"
    PROVE  Rooted' /\ meta'[0] = meta[0]
<1>1. 0 \in Dirs /\ 0 \in Slots /\ dirSize \in Nat \ {0}
  BY CachedTreeAssumption DEF TreeInv, SizesOK, Dirs, Slots
<1>2. 0 \in Span(0)
  BY DEF Rooted, Span
<1>3. meta'[0] = meta[0]
  BY <1>1, <1>2 DEF Grown
<1>4. \A x \in Slots : meta'[x].type = "dir" => meta'[x].obj # 0
  BY <1>1 DEF Grown, Rooted
<1>5. ASSUME NEW x \in Slots, meta[x].type # "none"
      PROVE  meta'[x].type # "none"
  BY <1>5 DEF Grown
<1>6. meta'[s].type # "none"
  BY DEF Grown
<1>7. \A i \in DOMAIN toc' : meta'[toc'[i].entry].type # "none"
  <2>1. \A i \in 1 .. Len(toc) : meta'[toc[i].entry].type # "none"
    BY <1>5, TocEntry DEF Rooted
  <2>2. toc \in Seq([path : Seq(AllNames), entry : Slots]) /\ DOMAIN toc = 1 .. Len(toc)
    BY DEF TreeInv, TocOK
  <2>3. CASE toc' = toc
    BY <2>1, <2>2, <2>3
  <2>4. ASSUME NEW p, toc' = Append(toc, [path |-> p, entry |-> s])
        PROVE  \A i \in DOMAIN toc' : meta'[toc'[i].entry].type # "none"
    <3>. SUFFICES ASSUME NEW i \in DOMAIN toc'
                  PROVE  meta'[toc'[i].entry].type # "none"
      OBVIOUS
    <3>1. (i \in 1 .. Len(toc) /\ toc'[i] = toc[i]) \/ toc'[i] = [path |-> p, entry |-> s]
      <4>1. PICK t, x : t = toc' /\ x = [path |-> p, entry |-> s]
        OBVIOUS
      <4>2. t = Append(toc, x) /\ i \in DOMAIN t
        BY <2>4, <4>1
      <4>3. (i \in 1 .. Len(toc) /\ t[i] = toc[i]) \/ t[i] = x
        BY <2>2, <4>2, Appended
      <4>. QED  BY <4>1, <4>3
    <3>2. toc'[i] = [path |-> p, entry |-> s] => toc'[i].entry = s
      OBVIOUS
    <3>. QED  BY <1>6, <2>1, <3>1, <3>2
  <2>. QED  BY <2>3, <2>4
<1>8. ASSUME status' = "ok"
      PROVE  \A i \in DOMAIN listing' : meta'[listing'[i]].type # "none"
  <2>1. \A i \in DOMAIN listing : listing[i] \in Slots /\ meta[listing[i]].type # "none"
    BY <1>8 DEF Rooted
  <2>2. \A i \in DOMAIN listing : meta'[listing[i]].type # "none"
    BY <1>5, <2>1
  <2>. QED  BY <1>6, <1>8, <2>2
<1>9. dirSize' > 1
  BY <1>1 DEF Rooted
<1>10. dirs'[0] = dirs[0]
  <2>1. 0 \in 0 .. dirSize - 1 /\ 0 # d
    BY <1>1
  <2>. QED  BY <2>1 DEF Grown
<1>11. ASSUME NEW c \in Dirs, NEW x \in Span(c)'
       PROVE  meta'[x].type # "none"
  <2>1. x \in Span(c) \/ x = s
    BY DEF Grown
  <2>2. x \in Span(c) => x \in Slots /\ meta[x].type # "none"
    BY SpanInArray DEF Rooted
  <2>. QED  BY <1>5, <1>6, <2>1, <2>2
<1>. QED  BY <1>3, <1>4, <1>7, <1>8, <1>9, <1>10, <1>11 DEF Rooted
\* What the toc leads to is in use.
LEMMA TocInUse ==
    ASSUME TreeInv, Rooted, Whole, NEW i \in 1 .. Len(toc)
    PROVE  \E c \in Dirs : toc[i].entry \in Span(c)
<1>1. CASE i = 1
  <2>1. 0 \in Dirs /\ 0 \in Span(0)
    BY CachedTreeAssumption DEF Rooted, Span, Dirs
  <2>2. toc # <<>>
    BY DEF TreeInv, TocOK
  <2>. QED  BY <1>1, <2>1, <2>2 DEF Whole, ParentsOK
<1>2. CASE i # 1
  <2>1. i \in 2 .. Len(toc)
    BY <1>2
  <2>. QED  BY <2>1, TocParent
<1>. QED  BY <1>1, <1>2

\* When the name was not in the directory before, no name is in it twice.
LEMMA GrownNames ==
    ASSUME TreeInv, Whole, NEW d \in Dirs, NEW s \in Slots, NEW e, NEW n \in Names \cup {Dot},
           Grown(d, s, e), \A c \in Dirs : s \notin Span(c),
           e.name = n, e.key = Key[n], e.type \in {"file", "dir"}, LookupIn(d, n) = None
    PROVE  NamesOK' /\ NamesOnce'
<1>1. ASSUME NEW c \in Dirs, NEW x \in Span(c)'
      PROVE  \/ x \in Span(c) /\ x # s /\ meta'[x] = meta[x]
             \/ c = d /\ x = s /\ meta'[x] = e
  BY SpanInArray DEF Grown
<1>2. NamesOK'
  BY <1>1 DEF NamesOK, Whole
<1>3. \A x \in Span(d) : meta[x].name # n
  <2>1. \A x \in Span(d) : ~Matches(x, n)
    BY LookupHit
  <2>. QED  BY <2>1 DEF Whole, NamesOK, Matches
<1>4. NamesOnce'
  <2>. SUFFICES ASSUME NEW c \in Dirs, NEW x \in Span(c)', NEW y \in Span(c)',
                       meta'[x].name = meta'[y].name
                PROVE  x = y
    BY DEF NamesOnce
  <2>1. CASE x # s /\ y # s
    <3>1. x \in Span(c) /\ y \in Span(c) /\ meta[x].name = meta[y].name
      BY <1>1, <2>1
    <3>. QED  BY <3>1 DEF Whole, NamesOnce
  <2>2. CASE x = s /\ y # s
    BY <1>1, <1>3, <2>2
  <2>3. CASE x # s /\ y = s
    BY <1>1, <1>3, <2>3
  <2>. QED  BY <2>1, <2>2, <2>3
<1>. QED  BY <1>2, <1>4

\* What is said of the toc entries there were remains true.
LEMMA GrownToc ==
    ASSUME TreeInv, Rooted, Whole, NEW d \in 1 .. dirSize - 1, NEW s \in Slots, NEW e,
           Grown(d, s, e), \A c \in Dirs : s \notin Span(c), NEW i \in 1 .. Len(toc)
    PROVE  /\ meta'[toc[i].entry] = meta[toc[i].entry]
           /\ meta[toc[i].entry].type = "dir" /\ meta[toc[i].entry].obj = i
           /\ dirs'[i].path = toc[i].path
           /\ i # 1 => \E c \in 1 .. dirSize - 1 :
                          /\ toc[i].entry \in Span(c)'
                          /\ toc[i].path = Append(PathOf(c)', meta'[toc[i].entry].name)
<1>1. meta'[toc[i].entry] = meta[toc[i].entry]
  <2>1. toc[i].entry # s /\ toc[i].entry \in Slots
    BY TocInUse, TocEntry
  <2>. QED  BY <2>1 DEF Grown
<1>2. meta[toc[i].entry].type = "dir" /\ meta[toc[i].entry].obj = i /\ dirs[i].path = toc[i].path
  BY DEF Whole, RecordsOK
<1>3. i \in 0 .. dirSize - 1
  BY DEF Whole, RecordsOK
<1>4. dirs'[i].path = dirs[i].path
  BY <1>3 DEF Grown
<1>5. ASSUME i # 1
      PROVE  \E c \in 1 .. dirSize - 1 :
                /\ toc[i].entry \in Span(c)'
                /\ toc[i].path = Append(PathOf(c)', meta'[toc[i].entry].name)
  <2>1. i \in 2 .. Len(toc)
    BY <1>5
  <2>2. PICK c \in 1 .. dirSize - 1 :
           /\ c \in Dirs /\ toc[i].entry \in Span(c)
           /\ toc[i].path = Append(PathOf(c), meta[toc[i].entry].name)
    BY <2>1, TocParent
  <2>3. toc[i].entry \in Span(c)'
    BY <2>2 DEF Grown
  <2>4. c \in 0 .. dirSize - 1
    OBVIOUS
  <2>5. PathOf(c)' = PathOf(c)
    BY <2>4 DEF Grown, PathOf
  <2>. QED  BY <1>1, <2>2, <2>3, <2>5
<1>. QED  BY <1>1, <1>2, <1>4, <1>5

LEMMA MakeFileWhole ==
    ASSUME TreeInv, Rooted, Whole, NEW d \in 1 .. dirSize - 1, NEW n \in Names,
           FileFits(d), MakeFile(d, n), LookupIn(d, n) = None, status' = "ok",
           removed' = removed
    PROVE  Whole'
<1>1. PICK s \in Slots : s = Slot(d)
  BY MakeFileGrows
<1>2. PICK e : e = Entry(n, "file", fileSize)
  OBVIOUS
<1>3. Grown(d, s, e) /\ (\A c \in Dirs : s \notin Span(c)) /\ dirSize' = dirSize /\ toc' = toc
  BY <1>1, <1>2, MakeFileGrows
<1>4. e.name = n /\ e.key = Key[n] /\ e.type \in {"file", "dir"}
  BY <1>2 DEF Entry
<1>5. d \in Dirs
  BY TocOfRecord
<1>6. NamesOK' /\ NamesOnce'
  BY <1>3, <1>4, <1>5, GrownNames
<1>7. RecordsOK'
  BY <1>3, GrownToc DEF Whole, RecordsOK
<1>8. ParentsOK'
  <2>1. \A i \in 2 .. Len(toc) : i \in 1 .. Len(toc) /\ i # 1
    OBVIOUS
  <2>. QED  BY <1>3, <2>1, GrownToc DEF Whole, ParentsOK
<1>9. PathsDistinct'
  BY <1>3 DEF Whole, PathsDistinct
<1>. QED  BY <1>6, <1>7, <1>8, <1>9 DEF Whole, Intact

\* The path of a directory that is new in another is not in the toc.
LEMMA NewPathApart ==
    ASSUME TreeInv, Rooted, Whole, NEW d \in 1 .. dirSize - 1, NEW n \in Names \cup {Dot},
           LookupIn(d, n) = None, NEW i \in 1 .. Len(toc)
    PROVE  toc[i].path # Append(PathOf(d), n)
<1>. SUFFICES ASSUME toc[i].path = Append(PathOf(d), n)  PROVE FALSE
  OBVIOUS
<1>1. i # 1
  BY RootPathApart
<1>2. i \in 2 .. Len(toc)
  BY <1>1
<1>3. PICK c \in 1 .. dirSize - 1 :
         /\ c \in Dirs /\ toc[i].entry \in Span(c)
         /\ toc[i].path = Append(PathOf(c), meta[toc[i].entry].name)
  BY <1>2, TocParent
<1>4. d \in Dirs
  BY TocOfRecord
<1>5. PathOf(c) = PathOf(d) /\ meta[toc[i].entry].name = n
  <2>1. PathOf(c) \in Seq(AllNames) /\ PathOf(d) \in Seq(AllNames)
    BY <1>3, <1>4, PathOfSeq
  <2>2. PICK a, b, m :
           /\ a \in Seq(AllNames) /\ b \in Seq(AllNames)
           /\ a = PathOf(c) /\ b = PathOf(d) /\ m = meta[toc[i].entry].name
    BY <2>1
  <2>3. Append(a, m) = Append(b, n)
    BY <1>3, <2>2
  <2>4. a = b /\ m = n
    <3>1. a \in Seq(AllNames) /\ b \in Seq(AllNames)
      BY <2>2
    <3>2. PICK z : z = Append(a, m) /\ z = Append(b, n)
      BY <2>3
    <3>3. Front(z) = a /\ Last(z) = m
      BY <3>1, <3>2, AppendParts
    <3>4. Front(z) = b /\ Last(z) = n
      BY <3>1, <3>2, AppendParts
    <3>. QED  BY <3>3, <3>4
  <2>. QED  BY <2>2, <2>4
<1>6. c = d
  BY <1>5, PathsApart
<1>7. Matches(toc[i].entry, n)
  BY <1>3, <1>5 DEF Whole, NamesOK, Matches
<1>. QED  BY <1>3, <1>4, <1>6, <1>7, LookupHit
LEMMA MakeDirWhole ==
    ASSUME TreeInv, Rooted, Whole, NEW d \in 1 .. dirSize - 1, NEW n \in Names \cup {Dot},
           DirFits(d), MakeDir(d, n), LookupIn(d, n) = None, status' = "ok", removed' = removed,
           meta'[0] = meta[0]
    PROVE  Whole'
<1>e. PICK s \in Slots, new \in Nat : s = Slot(d) /\ new = dirSize
  <2>1. Slot(d) \in Slots
    <3>1. d \in 0 .. dirSize - 1
      OBVIOUS
    <3>. QED  BY <3>1, MakeDirGrows
  <2>2. dirSize \in Nat
    BY CachedTreeAssumption DEF TreeInv, SizesOK
  <2>. QED  BY <2>1, <2>2
<1>1. PICK e : s = Slot(d) /\ new = dirSize /\ e = Entry(n, "dir", new)
  BY <1>e
<1>2. PICK q : q = Append(PathOf(d), n)
  OBVIOUS
<1>3. PathIn(d, n) = q
  BY <1>2, PathInIs
<1>4. /\ Grown(d, s, e) /\ (\A c \in Dirs : s \notin Span(c)) /\ dirSize' = new + 1
      /\ dirs'[new].path = q
      /\ toc' = Append(toc, [path |-> q, entry |-> s])
  BY <1>1, <1>3, MakeDirGrows
<1>5. e.name = n /\ e.key = Key[n] /\ e.type = "dir" /\ e.obj = new
  BY <1>1 DEF Entry
<1>6. d \in Dirs /\ Len(toc) = new - 1
  BY <1>1, TocOfRecord DEF Whole, RecordsOK
<1>7. NamesOK' /\ NamesOnce'
  BY <1>4, <1>5, <1>6, GrownNames
<1>8. /\ Len(toc') = new /\ DOMAIN toc' = 1 .. new
      /\ \A i \in 1 .. new - 1 : toc'[i] = toc[i]
      /\ toc'[new] = [path |-> q, entry |-> s]
  <2>1. PICK t, x : t = toc' /\ x = [path |-> q, entry |-> s]
    OBVIOUS
  <2>2. t = Append(toc, x) /\ toc \in Seq([path : Seq(AllNames), entry : Slots])
    BY <1>4, <2>1 DEF TreeInv, TocOK
  <2>3. /\ Len(t) = Len(toc) + 1 /\ DOMAIN t = 1 .. Len(toc) + 1
        /\ \A i \in 1 .. Len(toc) : t[i] = toc[i]
        /\ t[Len(toc) + 1] = x
    BY <2>2, Appended
  <2>4. Len(toc) + 1 = new
    BY <1>6
  <2>. QED  BY <1>6, <2>1, <2>3, <2>4
<1>9. toc'[new].path = q /\ toc'[new].entry = s /\ meta'[s] = e
  BY <1>4, <1>8 DEF Grown
<1>10. RecordsOK'
  <2>1. ASSUME NEW i \in 1 .. new
        PROVE  /\ meta'[toc'[i].entry].type = "dir" /\ meta'[toc'[i].entry].obj = i
               /\ dirs'[i].path = toc'[i].path
    <3>1. CASE i = new
      BY <1>4, <1>5, <1>9, <3>1
    <3>2. CASE i # new
      <4>1. i \in 1 .. new - 1 /\ i \in 1 .. Len(toc)
        BY <1>6, <3>2
      <4>2. /\ meta'[toc[i].entry] = meta[toc[i].entry]
            /\ meta[toc[i].entry].type = "dir" /\ meta[toc[i].entry].obj = i
            /\ dirs'[i].path = toc[i].path
        BY <1>4, <4>1, GrownToc
      <4>3. toc'[i] = toc[i]
        BY <1>8, <4>1
      <4>. QED  BY <4>2, <4>3
    <3>. QED  BY <3>1, <3>2
  <2>2. Len(toc') = dirSize' - 1
    BY <1>4, <1>8
  <2>. QED  BY <1>8, <2>1, <2>2 DEF RecordsOK
<1>11. ParentsOK'
  <2>1. toc'[1].path = <<Empty, Dot>> /\ toc'[1].entry = 0
    <3>1. 1 \in 1 .. new - 1 /\ toc # <<>>
      BY <1>1, <1>6 DEF TreeInv, TocOK
    <3>. QED  BY <1>8, <3>1 DEF Whole, ParentsOK
  <2>2. ASSUME NEW i \in 2 .. new
        PROVE  \E c \in 1 .. dirSize' - 1 :
                  /\ toc'[i].entry \in Span(c)'
                  /\ toc'[i].path = Append(PathOf(c)', meta'[toc'[i].entry].name)
    <3>1. CASE i = new
      <4>1. d \in 1 .. dirSize' - 1
        BY <1>1, <1>4
      <4>2. s \in Span(d)' /\ PathOf(d)' = PathOf(d)
        BY <1>4 DEF Grown, PathOf
      <4>. QED  BY <1>2, <1>5, <1>9, <3>1, <4>1, <4>2
    <3>2. CASE i # new
      <4>1. i \in 1 .. new - 1 /\ i \in 1 .. Len(toc) /\ i # 1
        BY <1>6, <3>2
      <4>2. PICK c \in 1 .. dirSize - 1 :
               /\ toc[i].entry \in Span(c)'
               /\ toc[i].path = Append(PathOf(c)', meta'[toc[i].entry].name)
        BY <1>4, <4>1, GrownToc
      <4>3. c \in 1 .. dirSize' - 1 /\ toc'[i] = toc[i]
        BY <1>1, <1>4, <1>8, <4>1
      <4>. QED  BY <4>2, <4>3
    <3>. QED  BY <3>1, <3>2
  <2>. QED  BY <1>8, <2>1, <2>2 DEF ParentsOK
<1>12. PathsDistinct'
  <2>1. ASSUME NEW i \in 1 .. new - 1
        PROVE  toc'[i].path # q
    BY <1>2, <1>6, <1>8, NewPathApart
  <2>2. ASSUME NEW i \in 1 .. new - 1, NEW j \in 1 .. new - 1, toc'[i].path = toc'[j].path
        PROVE  i = j
    <3>1. i \in DOMAIN toc /\ j \in DOMAIN toc
      BY <1>6 DEF TreeInv, TocOK
    <3>. QED  BY <1>8, <2>2, <3>1 DEF Whole, PathsDistinct
  <2>3. \A i \in 1 .. new : i \in 1 .. new - 1 \/ i = new
    OBVIOUS
  <2>. QED  BY <1>8, <1>9, <2>1, <2>2, <2>3 DEF PathsDistinct
<1>. QED  BY <1>7, <1>10, <1>11, <1>12 DEF Whole, Intact
-----------------------------------------------------------------------------
(* The steps *)

LEMMA FreshWhole ==
    ASSUME TreeInv, Fresh
    PROVE  Whole
<1>1. NamesOK /\ NamesOnce
  BY FreshIsEmpty DEF NamesOK, NamesOnce
<1>2. RecordsOK /\ ParentsOK /\ PathsDistinct
  BY DEF Fresh, RecordsOK, ParentsOK, PathsDistinct
<1>. QED  BY <1>1, <1>2 DEF Whole, Fresh

\* The first entry is "." and becomes the root.
LEMMA FirstEntry ==
    ASSUME TreeInv, Fresh, DirFits(0), MakeDir(0, Dot), listing' = listing, status' = "ok",
           removed' = removed
    PROVE  Rooted' /\ Whole'
<1>1. 0 \in Dirs /\ 0 \in Slots /\ 0 \in 0 .. dirSize - 1 /\ dirSize = 1
  BY CachedTreeAssumption DEF Fresh, Dirs, Slots
<1>2. dirs[0].cap = 0 /\ dirs[0].size = 0 /\ Span(0) = {}
  <2>1. dirs[0].cap = 0 /\ dirs[0].size <= dirs[0].cap /\ dirs[0].size \in Nat
    BY <1>1, RecordFields DEF Fresh, TreeInv, BlocksOK
  <2>. QED  BY <1>1, <2>1, FreshIsEmpty
<1>3. Slot(0) = 0 /\ BaseOf(0) = 0
  BY <1>2 DEF Slot, BaseOf, Fresh
<1>4. PICK q : q = PathIn(0, Dot)
  OBVIOUS
<1>5. /\ Grown(0, 0, Entry(Dot, "dir", 1)) /\ dirSize' = 2 /\ dirs'[1].path = q
      /\ toc' = Append(toc, [path |-> q, entry |-> 0])
  <2>1. /\ Grown(0, Slot(0), Entry(Dot, "dir", dirSize)) /\ dirSize' = dirSize + 1
        /\ dirs'[dirSize].path = q
        /\ toc' = Append(toc, [path |-> q, entry |-> Slot(0)])
    <3>1. Dot \in Names \cup {Dot}
      OBVIOUS
    <3>. QED  BY <1>1, <1>4, <3>1, MakeDirGrows
  <2>2. dirSize = 1 /\ Slot(0) = 0
    BY <1>1, <1>3
  <2>. QED  BY <2>1, <2>2
<1>6. /\ meta'[0] = [key |-> Key[Dot], name |-> Dot, type |-> "dir", obj |-> 1]
      /\ \A e \in Slots \ {0} : meta'[e] = meta[e]
  BY <1>5 DEF Grown, Entry
<1>7. q = <<Empty, Dot>>
  <2>1. meta'[0].obj = 1
    BY <1>6
  <2>2. q = <<Empty>> \o <<Dot>>
    BY <1>4, <2>1 DEF PathIn, Fresh
  <2>3. <<Empty>> \in Seq(AllNames) /\ Dot \in AllNames
    BY DEF AllNames
  <2>4. Append(<<Empty>>, Dot) = <<Empty>> \o <<Dot>>
    BY <2>3, AppendIsConcat
  <2>5. PICK z : z = <<Empty, Dot>>
    OBVIOUS
  <2>6. z = Append(<<Empty>>, Dot)
    BY <2>5
  <2>. QED  BY <2>2, <2>4, <2>5, <2>6
<1>8. Len(toc') = 1 /\ DOMAIN toc' = {1} /\ toc'[1] = [path |-> q, entry |-> 0]
  BY <1>5 DEF Fresh
<1>9. toc'[1].path = q /\ toc'[1].entry = 0
  BY <1>8
<1>10. dirs'[0].base = 0 /\ dirs'[0].size = 1 /\ dirs'[0].cap = Block
  <2>1. dirs' = [dirs EXCEPT ![0] = ClaimSlot(0),
                   ![1] = [base |-> 0, size |-> 0, cap |-> 0, path |-> PathIn(0, Dot)]]
    BY <1>1 DEF MakeDir
  <2>2. dirs'[0] = ClaimSlot(0)
    BY <1>1, <2>1, RecordFields
  <2>. QED  BY <1>2, <1>3, <2>2 DEF ClaimSlot
<1>11. Span(0)' = {0} /\ \A c \in Dirs \ {0} : Span(c)' = {}
  BY <1>2, <1>5, FreshIsEmpty DEF Grown
<1>12. Rooted'
  <2>1. \A e \in Slots : meta'[e].type = "dir" => meta'[e].obj # 0
    BY <1>6 DEF Fresh
  <2>2. \A i \in DOMAIN listing' : meta'[listing'[i]].type # "none"
    BY <1>6 DEF Fresh
  <2>3. \A i \in DOMAIN toc' : meta'[toc'[i].entry].type # "none"
    BY <1>6, <1>8, <1>9
  <2>4. \A c \in Dirs : \A e \in Span(c)' : e = 0
    BY <1>11
  <2>5. meta'[0].type = "dir" /\ meta'[0].obj = 1
    BY <1>6
  <2>. QED  BY <1>5, <1>10, <2>1, <2>2, <2>3, <2>4, <2>5 DEF Rooted
<1>13. NamesOK' /\ NamesOnce'
  <2>1. \A c \in Dirs : \A e \in Span(c)' : e = 0
    BY <1>11
  <2>. QED  BY <1>6, <2>1 DEF NamesOK, NamesOnce
<1>14. RecordsOK' /\ ParentsOK' /\ PathsDistinct'
  BY <1>5, <1>6, <1>7, <1>8, <1>9 DEF RecordsOK, ParentsOK, PathsDistinct
<1>. QED  BY <1>12, <1>13, <1>14 DEF Whole, Fresh, Intact

LEMMA RootedUnchanged ==
    ASSUME Rooted, UNCHANGED tree,
           status' = "ok" =>
               \A i \in DOMAIN listing' : meta[listing'[i]].type # "none"
    PROVE  Rooted'
BY DEF Rooted, Span, tree

LEMMA WholeUnchanged ==
    ASSUME Whole, UNCHANGED <<tree, removed>>, listing' = <<>> => status' \notin {"crashed", "confused"}
    PROVE  Whole'
<1>1. \A d : Span(d)' = Span(d) /\ PathOf(d)' = PathOf(d)
  BY DEF tree, Span, PathOf
<1>2. NamesOK' /\ NamesOnce'
  BY <1>1 DEF Whole, NamesOK, NamesOnce, tree
<1>3. RecordsOK' /\ PathsDistinct'
  BY DEF Whole, RecordsOK, PathsDistinct, tree
<1>4. ParentsOK'
  BY <1>1 DEF Whole, ParentsOK, tree
<1>. QED  BY <1>2, <1>3, <1>4 DEF Whole, Intact

LEMMA CreateSubdirectoryPaths ==
    ASSUME IInv, Rooted, NEW d \in 1 .. dirSize - 1, NEW n \in Names \cup {Dot},
           CreateSubdirectory(d, n), status = "ok",
           NEW next, next = IF LookupIn(d, n) = None THEN Slot(d) ELSE LookupIn(d, n),
           listing' = listing \/ listing' = Append(listing, next)
    PROVE  Rooted' /\ (Whole => Whole')
<1>1. CASE LookupIn(d, n) = None /\ DirFits(d)
  <2>1. MakeDir(d, n) /\ removed' = removed /\ status' = "ok" /\ next = Slot(d)
    BY <1>1 DEF CreateSubdirectory
  <2>2. d \in 0 .. dirSize - 1
    OBVIOUS
  <2>3. PICK s, e, q :
           s \in Slots /\ s = Slot(d) /\ e = Entry(n, "dir", dirSize) /\ q = PathIn(d, n)
    BY <1>1, <2>1, <2>2, MakeDirGrows DEF IInv
  <2>4. /\ Grown(d, s, e) /\ (\A c \in Dirs : s \notin Span(c)) /\ dirSize' = dirSize + 1
        /\ toc' = Append(toc, [path |-> q, entry |-> s])
    BY <1>1, <2>1, <2>2, <2>3, MakeDirGrows DEF IInv
  <2>5. e.type = "dir" /\ e.obj = dirSize
    BY <2>3 DEF Entry
  <2>6. Rooted' /\ meta'[0] = meta[0]
    BY <2>1, <2>3, <2>4, <2>5, GrownRooted DEF IInv
  <2>. QED  BY <1>1, <2>1, <2>6, MakeDirWhole DEF IInv
<1>2. CASE LookupIn(d, n) # None
  <2>1. UNCHANGED tree /\ removed' = removed /\ status' = "ok" /\ next = LookupIn(d, n)
    BY <1>2 DEF CreateSubdirectory
  <2>2. d \in Dirs
    BY CachedTreeAssumption DEF IInv, TreeInv, SizesOK, Dirs
  <2>3. meta[next].type # "none"
    BY <1>2, <2>1, <2>2, LookupInSpan DEF Rooted
  <2>4. \A i \in DOMAIN listing : meta[listing[i]].type # "none"
    BY DEF Rooted
  <2>5. \A i \in DOMAIN listing' : meta[listing'[i]].type # "none"
    <3>1. CASE listing' = listing
      BY <2>4, <3>1
    <3>2. CASE listing' = Append(listing, next)
      <4>1. PICK t : t = listing'
        OBVIOUS
      <4>2. \A i \in DOMAIN t : (i \in 1 .. Len(listing) /\ t[i] = listing[i]) \/ t[i] = next
        BY <3>2, <4>1, Appended DEF IInv
      <4>3. DOMAIN listing = 1 .. Len(listing)
        BY DEF IInv
      <4>. QED  BY <2>3, <2>4, <4>1, <4>2, <4>3
    <3>. QED  BY <3>1, <3>2
  <2>. QED  BY <2>1, <2>5, RootedUnchanged, WholeUnchanged
<1>3. CASE LookupIn(d, n) = None /\ ~DirFits(d)
  <2>1. UNCHANGED <<tree, removed>> /\ status' = "aborted"
    BY <1>3 DEF CreateSubdirectory
  <2>. QED  BY <2>1, RootedUnchanged, WholeUnchanged
<1>. QED  BY <1>1, <1>2, <1>3

LEMMA CreateFileEntryPaths ==
    ASSUME IInv, Rooted, NEW d \in 1 .. dirSize - 1, NEW n \in Names,
           CreateFileEntry(d, n), listing' = listing, status = "ok"
    PROVE  Rooted' /\ (Whole => Whole')
<1>1. CASE LookupIn(d, n) = None /\ FileFits(d)
  <2>1. MakeFile(d, n) /\ removed' = removed /\ status' = "ok"
    BY <1>1 DEF CreateFileEntry
  <2>2. d \in 0 .. dirSize - 1
    OBVIOUS
  <2>3. PICK s, e :
           s \in Slots /\ s = Slot(d) /\ e = Entry(n, "file", fileSize)
    BY <1>1, <2>1, <2>2, MakeFileGrows DEF IInv
  <2>4. /\ Grown(d, s, e) /\ (\A c \in Dirs : s \notin Span(c)) /\ dirSize' = dirSize
        /\ toc' = toc
    BY <1>1, <2>1, <2>2, <2>3, MakeFileGrows DEF IInv
  <2>5. e.type = "file"
    BY <2>3 DEF Entry
  <2>6. Rooted'
    BY <2>1, <2>3, <2>4, <2>5, GrownRooted DEF IInv
  <2>. QED  BY <1>1, <2>1, <2>6, MakeFileWhole DEF IInv
<1>2. CASE ~(LookupIn(d, n) = None /\ FileFits(d))
  <2>1. UNCHANGED <<tree, removed>> /\ status' = "aborted"
    BY <1>2 DEF CreateFileEntry
  <2>. QED  BY <2>1, RootedUnchanged, WholeUnchanged
<1>. QED  BY <1>1, <1>2

\* Freeing an entry leaves the root where it is: it is in record 0, and
\* nothing is freed there.
LEMMA FreeRooted ==
    ASSUME IInv, Rooted, NEW d \in 1 .. dirSize - 1, NEW e \in Span(d), FreeEntry(d, e),
           ~UNCHANGED <<tree, removed>>, UNCHANGED listing
    PROVE  Rooted'
<1>1. d \in Dirs /\ d # 0 /\ 0 \in Dirs /\ 0 \in Slots /\ TreeInv
  BY CachedTreeAssumption DEF IInv, TreeInv, SizesOK, Dirs, Slots
<1>2. 0 \in Span(0)
  BY DEF Rooted, Span
<1>3. 0 \notin Span(d)
  BY <1>1, <1>2, OneDirectory
<1>4. \A x \in Slots :
         \/ meta'[x] = meta[x]
         \/ /\ x \in Span(d) /\ x + 1 \in Span(d)
            /\ \/ meta'[x].type = meta[x].type /\ meta'[x].obj = meta[x].obj
               \/ meta'[x].type = meta[x + 1].type /\ meta'[x].obj = meta[x + 1].obj
  BY <1>1, FreedEntries
<1>5. \A x \in Span(d) : x \in Slots /\ meta[x].type # "none"
  BY <1>1, SpanInArray DEF Rooted
<1>6. meta'[0] = meta[0]
  BY <1>1, <1>3, <1>4
<1>7. ASSUME NEW x \in Slots
      PROVE  /\ meta'[x].type = "dir" => meta'[x].obj # 0
             /\ meta[x].type # "none" => meta'[x].type # "none"
  BY <1>4, <1>5 DEF Rooted
<1>8. /\ dirs' = [dirs EXCEPT ![d].size = @ - 1] /\ dirSize' = dirSize /\ toc' = toc
      /\ status' = status
  BY DEF FreeEntry
<1>9. dirs'[0] = dirs[0]
  BY <1>1, <1>8
<1>10. \A i \in DOMAIN toc : toc[i].entry \in Slots
  <2>1. DOMAIN toc = 1 .. Len(toc)
    BY DEF IInv, TreeInv, TocOK
  <2>. QED  BY <1>1, <2>1, TocEntry
<1>11. \A i \in DOMAIN listing : listing[i] \in Slots
  BY DEF IInv
<1>12. ASSUME NEW c \in Dirs, NEW x \in Span(c)'
       PROVE  meta'[x].type # "none"
  <2>1. x \in Span(c)
    BY <1>1, FreedSpan
  <2>2. x \in Slots /\ meta[x].type # "none"
    BY <1>1, <2>1, SpanInArray DEF Rooted
  <2>. QED  BY <1>7, <2>2
<1>. QED  BY <1>6, <1>7, <1>8, <1>9, <1>10, <1>11, <1>12 DEF Rooted

\* The parent of a path is not the record whose only entry is the root.
LEMMA ParentNotZero ==
    ASSUME IInv, Rooted, NEW path, ParentOf(path) # None, ~Confused(path)
    PROVE  meta[ParentOf(path)].obj \in 1 .. dirSize - 1
<1>1. ParentOf(path) \in Slots /\ meta[ParentOf(path)].obj \in 0 .. dirSize - 1
  BY ParentSlot, ParentDir
<1>2. meta[ParentOf(path)].type # "none"
  <2>1. CASE Len(path) = 1
    BY <2>1 DEF ParentOf, Rooted
  <2>2. CASE Len(path) # 1
    <3>1. ParentOf(path) = LookupToc(Front(path))
      BY <2>2 DEF ParentOf
    <3>2. PICK i \in 1 .. Len(toc) : LookupToc(Front(path)) = toc[i].entry
      BY <3>1, TocHit DEF IInv
    <3>3. DOMAIN toc = 1 .. Len(toc)
      BY DEF IInv, TreeInv, TocOK
    <3>. QED  BY <3>1, <3>2, <3>3 DEF Rooted
  <2>. QED  BY <2>1, <2>2
<1>3. meta[ParentOf(path)].type = "dir"
  BY <1>1, <1>2 DEF Confused, IInv, TreeInv, MetaOK, Types
<1>4. meta[ParentOf(path)].obj # 0
  BY <1>1, <1>3 DEF Rooted
<1>5. dirSize \in Nat
  BY CachedTreeAssumption DEF IInv, TreeInv, SizesOK
<1>. QED  BY <1>1, <1>4, <1>5

\* What is being listed is a directory, and not record 0.
LEMMA CurrentNotZero ==
    ASSUME IInv, Rooted, Listing, meta[Last(listing)].type # "file"
    PROVE  Current \in 1 .. dirSize - 1
<1>1. listing # <<>> /\ status = "ok" /\ listing \in Seq(Slots)
  BY DEF Listing, IInv
<1>2. Last(listing) \in Slots /\ Current \in 0 .. dirSize - 1
  BY <1>1, CurrentDir
<1>3. meta[Last(listing)].type # "none"
  <2>1. Len(listing) \in DOMAIN listing
    BY <1>1
  <2>. QED  BY <1>1, <2>1 DEF Rooted, Last
<1>4. meta[Last(listing)].type = "dir"
  BY <1>2, <1>3 DEF IInv, TreeInv, MetaOK, Types
<1>5. Current # 0
  BY <1>2, <1>4 DEF Rooted, Current
<1>6. dirSize \in Nat
  BY CachedTreeAssumption DEF IInv, TreeInv, SizesOK
<1>. QED  BY <1>2, <1>5, <1>6

\* A step before anything is listed: the server lists ".", or there is no
\* place for it.
LEMMA FreshStep ==
    ASSUME ListsDot, IInv, Fresh, [Next]_vars
    PROVE  (Fresh \/ Rooted)' /\ Whole'
<1>1. NothingListed /\ Current = 0 /\ listing # <<>> /\ meta[Last(listing)].type = "none"
  <2>1. Len(listing) = 1 /\ Last(listing) = 0 /\ listing # <<>>
    BY DEF Fresh, Last
  <2>2. 0 \in Slots
    BY CachedTreeAssumption DEF Slots
  <2>. QED  BY <2>1, <2>2 DEF Fresh, NothingListed, Current
<1>2. ASSUME UNCHANGED <<tree, listing, removed>>
      PROVE  (Fresh \/ Rooted)' /\ Whole'
  <2>1. Fresh'
    BY <1>2 DEF Fresh, Intact, tree
  <2>2. Whole'
    BY <1>1, <1>2, FreshWhole, WholeUnchanged DEF IInv
  <2>. QED  BY <2>1, <2>2
<1>3. ASSUME NEW n \in Names \cup {Dot}, ListDir(n)
      PROVE  (Fresh \/ Rooted)' /\ Whole'
  <2>1. n = Dot /\ status = "ok"
    BY <1>1, <1>3 DEF ListDir, Listed, Listing
  <2>2. LookupIn(0, Dot) = None
    <3>1. 0 \in Dirs
      BY CachedTreeAssumption DEF Dirs
    <3>. QED  BY <3>1, FreshIsEmpty DEF IInv
  <2>3. CreateSubdirectory(0, Dot) /\ listing' = listing
    <3>1. Dot \notin Descended
      BY CachedTreeAssumption
    <3>. QED  BY <1>1, <1>3, <2>1, <2>2, <3>1 DEF ListDir
  <2>4. CASE DirFits(0)
    BY <2>1, <2>2, <2>3, <2>4, FirstEntry DEF CreateSubdirectory, IInv
  <2>5. CASE ~DirFits(0)
    BY <1>2, <2>2, <2>3, <2>5 DEF CreateSubdirectory
  <2>. QED  BY <2>4, <2>5
<1>4. ASSUME NEW n \in Names, ListFile(n)
      PROVE  FALSE
  BY <1>1, <1>4, CachedTreeAssumption DEF ListFile, Listed
<1>5. ~ListEnd /\ ~ListConfused
  BY <1>1 DEF ListEnd, ListConfused
<1>6. ~Creation /\ ~Removal
      /\ ~(\E path \in Paths : GetattrConfused(path) \/ MknodNoParent(path))
  <2>1. ~Mounted
    BY <1>1 DEF Mounted
  <2>. QED  BY <2>1 DEF Creation, Removal, Mkdir, Mknod, Unlink, Rmdir, GetattrConfused,
                         MknodNoParent, InDirectory, Reached
<1>7. CASE UNCHANGED vars
  BY <1>2, <1>7 DEF vars, tree
<1>. QED  BY <1>3, <1>4, <1>5, <1>6, <1>7 DEF Next, Populate

\* Listing and the end of it.
LEMMA ListDirPaths ==
    ASSUME IInv, Rooted, Intact => Whole, NEW n \in Names \cup {Dot}, ListDir(n)
    PROVE  Rooted' /\ (Intact' => Whole')
<1>1. Listing /\ meta[Last(listing)].type # "file" /\ listing # <<>> /\ status = "ok"
  BY DEF ListDir, Listed, Listing
<1>2. PICK d \in 1 .. dirSize - 1 : d = Current
  BY <1>1, CurrentNotZero
<1>3. PICK hit : hit = LookupIn(d, n)
  OBVIOUS
<1>4. CASE hit # None /\ meta[hit].type = "file"
  <2>1. UNCHANGED <<tree, listing, removed>> /\ status' = "crashed"
    BY <1>2, <1>3, <1>4 DEF ListDir, Fail
  <2>2. Whole => Whole'
    BY <1>1, <2>1, WholeUnchanged
  <2>. QED  BY <2>1, <2>2, RootedUnchanged DEF Intact
<1>5. CASE ~(hit # None /\ meta[hit].type = "file")
  <2>1. PICK next : next = IF LookupIn(d, n) = None THEN Slot(d) ELSE LookupIn(d, n)
    OBVIOUS
  <2>2. CreateSubdirectory(d, n) /\ (listing' = listing \/ listing' = Append(listing, next))
    BY <1>2, <1>3, <1>5, <2>1 DEF ListDir
  <2>3. removed' = removed
    BY <2>2 DEF CreateSubdirectory
  <2>4. Rooted' /\ (Whole => Whole')
    BY <1>1, <2>1, <2>2, CreateSubdirectoryPaths
  <2>. QED  BY <2>3, <2>4 DEF Intact
<1>. QED  BY <1>4, <1>5

LEMMA ListFilePaths ==
    ASSUME IInv, Rooted, Intact => Whole, NEW n \in Names, ListFile(n)
    PROVE  Rooted' /\ (Intact' => Whole')
<1>1. Listing /\ meta[Last(listing)].type # "file" /\ status = "ok"
  BY DEF ListFile, Listed, Listing
<1>2. PICK d \in 1 .. dirSize - 1 : d = Current
  BY <1>1, CurrentNotZero
<1>3. CreateFileEntry(d, n) /\ listing' = listing
  BY <1>2 DEF ListFile
<1>4. removed' = removed
  BY <1>3 DEF CreateFileEntry
<1>5. Rooted' /\ (Whole => Whole')
  BY <1>1, <1>3, CreateFileEntryPaths
<1>. QED  BY <1>4, <1>5 DEF Intact

LEMMA ListEndPaths ==
    ASSUME IInv, Rooted, Intact => Whole, ListEnd
    PROVE  Rooted' /\ (Intact' => Whole')
<1>1. UNCHANGED tree /\ status' = status /\ removed' = removed /\ listing' = Front(listing)
  BY DEF ListEnd
<1>2. listing # <<>> /\ status = "ok" /\ listing \in Seq(Slots)
  BY DEF ListEnd, Listing, IInv
<1>3. \A i \in DOMAIN listing' : i \in DOMAIN listing /\ listing'[i] = listing[i]
  BY <1>1, <1>2 DEF Front
<1>4. \A i \in DOMAIN listing' : meta[listing'[i]].type # "none"
  BY <1>2, <1>3 DEF Rooted
<1>5. Rooted'
  BY <1>1, <1>4, RootedUnchanged
<1>6. Whole => Whole'
  BY <1>1, <1>2, WholeUnchanged
<1>. QED  BY <1>1, <1>5, <1>6 DEF Intact

LEMMA CreationPaths ==
    ASSUME IInv, Rooted, Intact => Whole, NEW path \in Paths, Mkdir(path) \/ Mknod(path)
    PROVE  Rooted' /\ (Intact' => Whole')
<1>1. /\ ParentOf(path) # None /\ ~Confused(path) /\ listing' = listing
      /\ listing = <<>> /\ status = "ok" /\ Last(path) \in Names
  BY LastName DEF Mkdir, Mknod, InDirectory, Reached, Mounted
<1>2. PICK d \in 1 .. dirSize - 1 : d = meta[ParentOf(path)].obj
  BY <1>1, ParentNotZero
<1>3. CASE CreateSubdirectory(d, Last(path))
  <2>1. PICK next : next = IF LookupIn(d, Last(path)) = None THEN Slot(d)
                           ELSE LookupIn(d, Last(path))
    OBVIOUS
  <2>2. Rooted' /\ (Whole => Whole')
    BY <1>1, <1>3, <2>1, CreateSubdirectoryPaths
  <2>. QED  BY <1>3, <2>2 DEF CreateSubdirectory, Intact
<1>4. CASE CreateFileEntry(d, Last(path))
  <2>1. Rooted' /\ (Whole => Whole')
    BY <1>1, <1>4, CreateFileEntryPaths
  <2>. QED  BY <1>4, <2>1 DEF CreateFileEntry, Intact
<1>5. CASE UNCHANGED <<tree, removed, status>>
  <2>1. Whole => Whole'
    BY <1>1, <1>5, WholeUnchanged
  <2>2. \A i \in DOMAIN listing' : meta[listing'[i]].type # "none"
    BY <1>1 DEF Rooted
  <2>. QED  BY <1>5, <2>1, <2>2, RootedUnchanged DEF Intact
<1>. QED  BY <1>2, <1>3, <1>4, <1>5 DEF Mkdir, Mknod

LEMMA RemovalPaths ==
    ASSUME IInv, Rooted, Intact => Whole, NEW path \in Paths, Unlink(path) \/ Rmdir(path)
    PROVE  Rooted' /\ (Intact' => Whole')
<1>1. Stat(path) # "none" /\ listing' = listing /\ status = "ok"
  BY DEF Unlink, Rmdir, InDirectory, Reached, Mounted
<1>2. ParentOf(path) # None /\ ~Confused(path)
  BY <1>1 DEF Stat, Resolve
<1>3. PICK d \in 1 .. dirSize - 1 : d = meta[ParentOf(path)].obj
  BY <1>2, ParentNotZero
<1>4. PICK e \in Span(d) : e = Resolve(path)
  BY <1>1, <1>3, ResolveInSpan
<1>5. FreeEntry(d, e)
  BY <1>3, <1>4 DEF Unlink, Rmdir
<1>6. status' \in {"ok", "garbled"}
  BY <1>1, <1>5 DEF FreeEntry
<1>7. CASE UNCHANGED <<tree, removed>>
  <2>1. Whole => Whole'
    BY <1>6, <1>7, WholeUnchanged
  <2>2. \A i \in DOMAIN listing' : meta[listing'[i]].type # "none"
    BY <1>1 DEF Rooted
  <2>. QED  BY <1>7, <2>1, <2>2, RootedUnchanged DEF Intact
<1>8. CASE ~UNCHANGED <<tree, removed>>
  <2>1. Rooted'
    BY <1>1, <1>5, <1>8, FreeRooted
  <2>2. removed' # "nothing"
    BY <1>5, <1>8 DEF FreeEntry
  <2>. QED  BY <2>1, <2>2 DEF Intact
<1>. QED  BY <1>7, <1>8

LEMMA RootedStep ==
    ASSUME IInv, Rooted, Intact => Whole, [Next]_vars
    PROVE  Rooted' /\ (Intact' => Whole')
<1>1. ASSUME NEW n \in Names \cup {Dot}, ListDir(n)  PROVE Rooted' /\ (Intact' => Whole')
  BY <1>1, ListDirPaths
<1>2. ASSUME NEW n \in Names, ListFile(n)  PROVE Rooted' /\ (Intact' => Whole')
  BY <1>2, ListFilePaths
<1>3. CASE ListEnd
  BY <1>3, ListEndPaths
<1>4. ASSUME NEW path \in Paths, Mkdir(path) \/ Mknod(path)
      PROVE  Rooted' /\ (Intact' => Whole')
  BY <1>4, CreationPaths
<1>5. ASSUME NEW path \in Paths, Unlink(path) \/ Rmdir(path)
      PROVE  Rooted' /\ (Intact' => Whole')
  BY <1>5, RemovalPaths
<1>6. ASSUME NEW path \in Paths, GetattrConfused(path) \/ MknodNoParent(path)
      PROVE  Rooted' /\ (Intact' => Whole')
  <2>1. /\ UNCHANGED <<tree, removed>> /\ status' # "ok"
    BY <1>6 DEF GetattrConfused, MknodNoParent, Fail
  <2>2. ~Intact
    BY <1>6, NoConfusion DEF IInv
  <2>. QED  BY <2>1, <2>2, RootedUnchanged DEF Intact
<1>7. CASE ListConfused
  <2>1. UNCHANGED <<tree, listing, removed>> /\ status' # "ok" /\ listing # <<>>
    BY <1>7 DEF ListConfused, Listing, Fail
  <2>2. Whole => Whole'
    BY <2>1, WholeUnchanged
  <2>. QED  BY <2>1, <2>2, RootedUnchanged DEF Intact
<1>8. CASE UNCHANGED vars
  <2>1. UNCHANGED <<tree, listing, removed, status>>
    BY <1>8 DEF vars, tree
  <2>2. Whole => Whole'
    BY <2>1, WholeUnchanged DEF Whole
  <2>3. status' = "ok" => \A i \in DOMAIN listing' : meta[listing'[i]].type # "none"
    BY <2>1 DEF Rooted
  <2>. QED  BY <2>1, <2>2, <2>3, RootedUnchanged DEF Intact
<1>. QED  BY <1>1, <1>2, <1>3, <1>4, <1>5, <1>6, <1>7, <1>8
          DEF Next, Populate, Creation, Removal

LEMMA StepPInv ==
    ASSUME ListsDot, PInv, [Next]_vars
    PROVE  PInv'
<1>1. IInv'
  BY StepIInv DEF PInv
<1>2. CASE Fresh
  <2>1. Whole
    BY <1>2 DEF PInv, Fresh
  <2>2. (Fresh \/ Rooted)' /\ Whole'
    BY <1>2, FreshStep DEF PInv
  <2>. QED  BY <1>1, <2>2 DEF PInv
<1>3. CASE Rooted
  BY <1>1, <1>3, RootedStep DEF PInv
<1>. QED  BY <1>2, <1>3 DEF PInv

LEMMA InitPInv ==
    ASSUME Init
    PROVE  PInv
<1>1. IInv
  BY InitIInv
<1>2. Fresh
  BY CachedTreeAssumption DEF Init, Fresh, Intact, Slots, Dirs
<1>. QED  BY <1>1, <1>2, FreshWhole DEF PInv, Init, IInv

LEMMA PathsInvariance == ListsDot => (Spec => []PInv)
<1>. SUFFICES ASSUME ListsDot  PROVE Spec => []PInv
  OBVIOUS
<1>. QED  BY InitPInv, StepPInv, PTL DEF Spec

-----------------------------------------------------------------------------
\* The root is never taken for a file, removals included, when the server
\* lists "." before anything else: slot 0 is never written again.
THEOREM RootStays == ListsDot => (Spec => []RootIsDirectory)
<1>. SUFFICES ASSUME ListsDot  PROVE Spec => []RootIsDirectory
  OBVIOUS
<1>1. ASSUME PInv  PROVE RootIsDirectory
  <2>1. 0 \in Slots
    BY CachedTreeAssumption DEF Slots
  <2>. QED  BY <1>1, <2>1 DEF PInv, Fresh, Rooted, RootIsDirectory
<1>. QED  BY <1>1, PathsInvariance, PTL

\* Until something is removed, no directory has a name twice, however often
\* the server lists it and mkdir and mknod ask for it.
THEOREM NamesOnceEach == ListsDot => (Spec => []SiblingsDistinct)
<1>. SUFFICES ASSUME ListsDot  PROVE Spec => []SiblingsDistinct
  OBVIOUS
<1>1. ASSUME PInv  PROVE SiblingsDistinct
  BY <1>1 DEF PInv, Whole, NamesOnce, Intact, SiblingsDistinct
<1>. QED  BY <1>1, PathsInvariance, PTL

\* The tree as the lemmas about paths want it.
LEMMA PInvPaths ==
    ASSUME PInv, Intact
    PROVE  TreeInv /\ (Fresh \/ (Rooted /\ Whole))
BY DEF PInv, IInv

\* Until something is removed, LookupPath, which searches the toc, finds what
\* a walk through the directories finds, at any depth.
THEOREM TocIsTheTree == ListsDot => (Spec => []TocAgrees)
<1>. SUFFICES ASSUME ListsDot  PROVE Spec => []TocAgrees
  OBVIOUS
<1>1. ASSUME PInv  PROVE TocAgrees
  <2>. SUFFICES ASSUME Intact, NEW path \in Paths
                PROVE  Resolve(path) = Walk(path)
    BY DEF TocAgrees, Intact
  <2>1. path \in Seq(Names) \ {<<>>}
    BY CachedTreeAssumption
  <2>. QED  BY <1>1, <2>1, PInvPaths, WalkIsResolve
<1>. QED  BY <1>1, PathsInvariance, PTL

\* Until something is removed, the entries that cnfs_readdir lists in a
\* directory, except ".", are those that the lookup of cnfs_getattr finds under
\* their paths.
THEOREM ListedIsFound == ListsDot => (Spec => []ReaddirAgrees)
<1>. SUFFICES ASSUME ListsDot  PROVE Spec => []ReaddirAgrees
  OBVIOUS
<1>1. ASSUME PInv  PROVE ReaddirAgrees
  <2>. SUFFICES ASSUME Intact, NEW path \in Paths \cup {<<>>},
                       path = <<>> \/ Stat(path) = "dir", NEW e \in Readdir(path),
                       meta[e].name # Dot
                PROVE  Resolve(Append(path, meta[e].name)) = e
    BY DEF ReaddirAgrees, Intact
  <2>1. path \in Seq(Names)
    <3>1. <<>> \in Seq(Names) /\ \A p \in Paths : p \in Seq(Names)
      BY CachedTreeAssumption
    <3>. QED  BY <3>1
  <2>. QED  BY <1>1, <2>1, PInvPaths, ListedIsThere
<1>. QED  BY <1>1, PathsInvariance, PTL

\* Until something is removed, no handler follows a parent that is not there
\* or one that is a file.
THEOREM ParentsAreThere == ListsDot => (Spec => []HandlersFindParents)
<1>. SUFFICES ASSUME ListsDot  PROVE Spec => []HandlersFindParents
  OBVIOUS
<1>1. ASSUME PInv  PROVE HandlersFindParents
  BY <1>1 DEF PInv, Whole, Intact, HandlersFindParents
<1>. QED  BY <1>1, PathsInvariance, PTL

-----------------------------------------------------------------------------
(* Making an entry, and the other paths *)

\* What path p stands for, by the records of directories: what its last name
\* is in the record with its front for a path, if there is one.
ByRecords(p) ==
    /\ \A r \in 1 .. dirSize - 1 : PathOf(r) = Front(p) => Resolve(p) = LookupIn(r, Last(p))
    /\ (\A r \in 1 .. dirSize - 1 : PathOf(r) # Front(p)) => Resolve(p) = None
    /\ Resolve(p) # None => Resolve(p) \in Slots /\ meta[Resolve(p)].type # "none"

AllByRecords == \A p \in Seq(Names) \ {<<>>} : ByRecords(p)

\* Searches find what there is.
Searches ==
    \A d \in Dirs, n \in Names :
        \/ LookupIn(d, n) = None /\ \A e \in Span(d) : ~Matches(e, n)
        \/ LookupIn(d, n) # None /\ LookupIn(d, n) \in Span(d)
           /\ Matches(LookupIn(d, n), n)

LEMMA ResolveByRecords ==
    TreeInv /\ Rooted /\ Whole => AllByRecords /\ Searches
<1>. SUFFICES ASSUME TreeInv, Rooted, Whole  PROVE AllByRecords /\ Searches
  OBVIOUS
<1>1. ASSUME NEW p \in Seq(Names) \ {<<>>}
      PROVE  ByRecords(p)
  <2>1. ASSUME NEW r \in 1 .. dirSize - 1, PathOf(r) = Front(p)
        PROVE  Resolve(p) = LookupIn(r, Last(p))
    <3>1. ParentOf(p) # None /\ ~Confused(p)
      BY <2>1, ParentIs
    <3>2. PICK c \in 1 .. dirSize - 1 : c = meta[ParentOf(p)].obj /\ PathOf(c) = Front(p)
      BY <3>1, ParentIs
    <3>3. c = r
      BY <2>1, <3>2, PathsApart
    <3>. QED  BY <3>1, <3>2, <3>3 DEF Resolve
  <2>2. (\A r \in 1 .. dirSize - 1 : PathOf(r) # Front(p)) => Resolve(p) = None
    BY ParentIs DEF Resolve
  <2>3. ASSUME Resolve(p) # None
        PROVE  Resolve(p) \in Slots /\ meta[Resolve(p)].type # "none"
    <3>1. PICK d \in Dirs : Resolve(p) \in Span(d) /\ meta[Resolve(p)].type \in {"dir", "file"}
      BY <2>3, ResolveIs
    <3>. QED  BY <3>1, SpanInArray
  <2>. QED  BY <2>1, <2>2, <2>3 DEF ByRecords
<1>2. Searches
  BY LookupHit DEF Searches
<1>. QED  BY <1>1, <1>2 DEF AllByRecords

LEMMA ResolveByRecordsNext ==
    (TreeInv /\ Rooted /\ Whole)' => (AllByRecords /\ Searches)'
BY ResolveByRecords, PTL

\* A search for a name finds the same as before, except for the new name in
\* the directory that has grown.
LEMMA SearchKept ==
    ASSUME TreeInv, Searches, Searches', NamesOnce', NamesOK',
           NEW d \in Dirs, NEW s \in Slots, NEW e, NEW n \in Names,
           Grown(d, s, e), \A c \in Dirs : s \notin Span(c), e.name = n, e.key = Key[n],
           NEW r \in Dirs, NEW m \in Names, r # d \/ m # n
    PROVE  LookupIn(r, m)' = LookupIn(r, m)
<1>1. Span(r) \subseteq Span(r)' /\ \A x \in Span(r) : x \in Slots /\ meta'[x] = meta[x]
  BY SpanInArray DEF Grown
<1>2. \A x \in Span(r)' : x \in Span(r) \/ (r = d /\ x = s)
  BY DEF Grown
<1>3. \A x \in Span(r) : Matches(x, m)' <=> Matches(x, m)
  BY <1>1 DEF Matches
<1>4. \A x \in Span(r)' : Matches(x, m)' => x \in Span(r) /\ Matches(x, m)
  <2>. SUFFICES ASSUME NEW x \in Span(r)', Matches(x, m)'
                PROVE  x \in Span(r) /\ Matches(x, m)
    OBVIOUS
  <2>1. x \in Span(r)
    <3>1. ASSUME r = d, x = s
          PROVE  FALSE
      <4>1. meta'[s].name = n /\ meta'[x].name = m
        BY DEF Grown, Matches
      <4>. QED  BY <3>1, <4>1
    <3>. QED  BY <1>2, <3>1
  <2>. QED  BY <1>3, <2>1
<1>5. CASE LookupIn(r, m) = None
  <2>1. \A x \in Span(r) : ~Matches(x, m)
    BY <1>5 DEF Searches
  <2>2. \A x \in Span(r)' : ~Matches(x, m)'
    BY <1>4, <2>1
  <2>. QED  BY <1>5, <2>2 DEF Searches
<1>6. CASE LookupIn(r, m) # None
  <2>1. PICK f \in Span(r) : f = LookupIn(r, m) /\ Matches(f, m)
    BY <1>6 DEF Searches
  <2>2. f \in Span(r)' /\ Matches(f, m)'
    BY <1>1, <1>3, <2>1
  <2>3. PICK g \in Span(r)' : g = LookupIn(r, m)' /\ Matches(g, m)'
    BY <2>2 DEF Searches
  <2>4. meta'[f].name = meta'[g].name
    BY <2>2, <2>3 DEF Matches
  <2>5. f = g
    BY <2>2, <2>3, <2>4 DEF NamesOnce
  <2>. QED  BY <2>1, <2>3, <2>5
<1>. QED  BY <1>5, <1>6

\* Only the path of the new entry comes to stand for something.
LEMMA OnlyThatPath ==
    ASSUME TreeInv, Rooted, Whole, (TreeInv /\ Rooted /\ Whole)',
           NEW d \in 1 .. dirSize - 1, NEW s \in Slots, NEW e,
           NEW path \in Seq(Names) \ {<<>>}, PathOf(d) = Front(path),
           Grown(d, s, e), \A c \in Dirs : s \notin Span(c),
           e.name = Last(path), e.key = Key[Last(path)],
           dirSize' \in {dirSize, dirSize + 1}
    PROVE  /\ Stat(path)' # "none"
           /\ \A other \in Seq(Names) \ {<<>>} : other # path => Stat(other)' = Stat(other)
<1>1. /\ AllByRecords /\ Searches /\ AllByRecords' /\ Searches'
      /\ NamesOK' /\ NamesOnce' /\ RecordsOK'
  BY ResolveByRecords, ResolveByRecordsNext DEF Whole
<1>2. d \in Dirs /\ dirSize \in Nat /\ \A r \in 1 .. dirSize - 1 : r \in Dirs
  <2>1. dirSize \in Nat
    BY CachedTreeAssumption DEF TreeInv, SizesOK
  <2>. QED  BY <2>1, TocOfRecord
<1>3. \A r \in 1 .. dirSize - 1 : PathOf(r)' = PathOf(r) /\ r \in 1 .. dirSize' - 1
  <2>1. \A r \in 1 .. dirSize - 1 : r \in 0 .. dirSize - 1
    OBVIOUS
  <2>2. \A r \in 1 .. dirSize - 1 : dirs'[r].path = dirs[r].path
    BY <2>1 DEF Grown
  <2>3. \A r \in 1 .. dirSize - 1 : PathOf(r)' = PathOf(r)
    BY <2>2 DEF PathOf
  <2>4. \A r \in 1 .. dirSize - 1 : r \in 1 .. dirSize' - 1
    <3>1. PICK k, l \in Nat : k = dirSize /\ l = dirSize' /\ l \in {k, k + 1}
      BY <1>2
    <3>2. k <= l
      BY <3>1
    <3>3. \A r \in 1 .. k - 1 : r \in 1 .. l - 1
      BY <3>2
    <3>. QED  BY <3>1, <3>3
  <2>. QED  BY <2>3, <2>4
<1>4. Last(path) \in Names
  BY PathParts
<1>5. Stat(path)' # "none"
  <2>1. Resolve(path)' = LookupIn(d, Last(path))'
    BY <1>1, <1>3 DEF AllByRecords, ByRecords
  <2>2. s \in Span(d)' /\ Matches(s, Last(path))'
    BY DEF Grown, Matches
  <2>3. LookupIn(d, Last(path))' # None
    BY <1>1, <1>2, <1>4, <2>2 DEF Searches
  <2>4. meta'[Resolve(path)'].type # "none"
    BY <1>1, <2>1, <2>3 DEF AllByRecords, ByRecords
  <2>. QED  BY <2>1, <2>3, <2>4 DEF Stat
<1>6. ASSUME NEW other \in Seq(Names) \ {<<>>}, other # path
      PROVE  Stat(other)' = Stat(other)
  <2>1. Last(other) \in Names
    BY PathParts
  <2>2. ByRecords(other) /\ ByRecords(other)'
    BY <1>1 DEF AllByRecords
  <2>3. ASSUME NEW r \in 1 .. dirSize - 1, PathOf(r) = Front(other)
        PROVE  Resolve(other)' = Resolve(other)
    <3>1. r # d \/ Last(other) # Last(path)
      <4>. SUFFICES ASSUME r = d, Last(other) = Last(path)  PROVE FALSE
        OBVIOUS
      <4>1. Front(other) = Front(path)
        BY <2>3
      <4>2. other = Append(Front(other), Last(other)) /\ path = Append(Front(path), Last(path))
        BY PathParts
      <4>. QED  BY <1>6, <4>1, <4>2
    <3>2. LookupIn(r, Last(other))' = LookupIn(r, Last(other))
      BY <1>1, <1>2, <1>4, <2>1, <3>1, SearchKept
    <3>. QED  BY <1>3, <2>2, <2>3, <3>2 DEF ByRecords
  <2>4. ASSUME \A r \in 1 .. dirSize - 1 : PathOf(r) # Front(other)
        PROVE  Resolve(other) = None /\ Resolve(other)' = None
    <3>1. Resolve(other) = None
      BY <2>2, <2>4 DEF ByRecords
    <3>2. ASSUME NEW r \in 1 .. dirSize' - 1, PathOf(r)' = Front(other)
          PROVE  Resolve(other)' = None
      <4>1. r \notin 1 .. dirSize - 1
        BY <1>3, <2>4, <3>2
      <4>2. r = dirSize
        BY <1>2, <4>1
      <4>3. r \in Dirs /\ r # d
        <5>1. dirSize' \in 1 .. DirCapacity
          BY DEF TreeInv, SizesOK
        <5>2. dirSize' = dirSize + 1
          BY <1>2, <3>2, <4>2
        <5>. QED  BY <1>2, <4>2, <5>1, <5>2, CachedTreeAssumption DEF Dirs
      <4>4. Span(r) = {}
        <5>1. dirs[r].cap = 0
          BY <1>2, <4>2, <4>3 DEF TreeInv, DirsOK
        <5>2. dirs[r].base \in Nat /\ dirs[r].size = 0
          <6>1. dirs[r].base \in Nat /\ dirs[r].size \in Nat /\ dirs[r].size <= dirs[r].cap
            BY <4>3, RecordFields DEF TreeInv, BlocksOK
          <6>. QED  BY <5>1, <6>1
        <5>. QED  BY <5>2 DEF Span
      <4>5. Span(r)' = {}
        BY <4>3, <4>4 DEF Grown
      <4>6. LookupIn(r, Last(other))' = None
        BY <1>1, <2>1, <4>3, <4>5 DEF Searches
      <4>. QED  BY <2>2, <3>2, <4>6 DEF ByRecords
    <3>3. (\A r \in 1 .. dirSize' - 1 : PathOf(r)' # Front(other)) => Resolve(other)' = None
      BY <2>2 DEF ByRecords
    <3>. QED  BY <3>1, <3>2, <3>3
  <2>5. Resolve(other)' = Resolve(other)
    BY <2>3, <2>4
  <2>6. ASSUME Resolve(other) # None
        PROVE  meta'[Resolve(other)] = meta[Resolve(other)]
    <3>1. PICK c \in Dirs : Resolve(other) \in Span(c)
      BY <2>6, ResolveIs
    <3>2. Resolve(other) \in Slots \ {s}
      BY <3>1, SpanInArray
    <3>. QED  BY <3>2 DEF Grown
  <2>. QED  BY <2>5, <2>6 DEF Stat
<1>. QED  BY <1>5, <1>6

\* Mkdir and mknod, when they have succeeded.
LEMMA CreateLocal ==
    ASSUME PInv, PInv', ListsDot, Intact, status' = "ok",
           NEW path \in Paths, Mkdir(path) \/ Mknod(path)
    PROVE  /\ Stat(path)' # "none"
           /\ \A other \in Paths \ {path} : Stat(other)' = Stat(other)
<1>1. path \in Seq(Names) \ {<<>>} /\ Paths \subseteq Seq(Names) \ {<<>>}
  BY CachedTreeAssumption
<1>2. ParentOf(path) # None /\ ~Confused(path)
  BY DEF Mkdir, Mknod, InDirectory
<1>3. IInv /\ Rooted /\ Whole /\ TreeInv
  <2>1. listing = <<>>
    BY DEF Mkdir, Mknod, InDirectory, Reached, Mounted
  <2>. QED  BY <2>1 DEF PInv, Fresh, IInv
<1>4. PICK d \in 1 .. dirSize - 1 :
         /\ d = meta[ParentOf(path)].obj /\ PathOf(d) = Front(path)
         /\ LookupIn(d, Last(path)) = Resolve(path)
  BY <1>1, <1>2, <1>3, ParentIs DEF Resolve
<1>5. PICK n \in Names : n = Last(path)
  BY LastName
<1>6. d \in 0 .. dirSize - 1 /\ n \in Names \cup {Dot}
  BY <1>4
<1>11. CASE Resolve(path) # None
  <2>1. UNCHANGED tree
    BY <1>4, <1>5, <1>11 DEF Mkdir, Mknod, CreateSubdirectory
  <2>2. Stat(path) # "none"
    BY <1>1, <1>3, <1>11, ResolveIs DEF Stat
  <2>3. \A p : Stat(p)' = Stat(p)
    BY <2>1 DEF tree, Stat, Resolve, Confused, ParentOf, LookupToc, LookupIn, Matches, Span
  <2>. QED  BY <2>2, <2>3
<1>. SUFFICES ASSUME Resolve(path) = None
              PROVE  /\ Stat(path)' # "none"
                     /\ \A other \in Paths \ {path} : Stat(other)' = Stat(other)
  BY <1>11
<1>7. \/ DirFits(d) /\ MakeDir(d, n) /\ removed' = removed
      \/ FileFits(d) /\ MakeFile(d, n) /\ removed' = removed
  BY <1>4, <1>5 DEF Mkdir, Mknod, CreateSubdirectory, CreateFileEntry
<1>8. (TreeInv /\ Rooted /\ Whole)'
  <2>1. Rooted'
    BY <1>3, CreationPaths
  <2>. QED  BY <1>7, <2>1 DEF PInv, IInv, Intact
<1>9. PICK s, e :
         /\ s \in Slots
         /\ Grown(d, s, e) /\ \A c \in Dirs : s \notin Span(c)
         /\ e.name = Last(path) /\ e.key = Key[Last(path)]
         /\ dirSize' \in {dirSize, dirSize + 1}
  <2>1. CASE DirFits(d) /\ MakeDir(d, n)
    BY <1>3, <1>5, <1>6, <2>1, MakeDirGrows DEF Entry
  <2>2. CASE FileFits(d) /\ MakeFile(d, n)
    BY <1>3, <1>5, <1>6, <2>2, MakeFileGrows DEF Entry
  <2>. QED  BY <1>7, <2>1, <2>2
<1>10. /\ Stat(path)' # "none"
       /\ \A other \in Seq(Names) \ {<<>>} : other # path => Stat(other)' = Stat(other)
  BY <1>1, <1>3, <1>4, <1>8, <1>9, OnlyThatPath
<1>. QED  BY <1>1, <1>10

\* Until something is removed, a mkdir or mknod that succeeds makes its path
\* stand for something, and what every other path stands for stays the same.
THEOREM CreationsAreLocal == ListsDot => (Spec => CreateIsLocal)
<1>. SUFFICES ASSUME ListsDot  PROVE Spec => CreateIsLocal
  OBVIOUS
<1>1. ASSUME PInv, PInv', [Next]_vars
      PROVE  [ \A path \in Paths :
                 /\ removed = "nothing"
                 /\ Mkdir(path) \/ Mknod(path)
                 /\ status' = "ok"
                 => /\ Stat(path)' # "none"
                    /\ \A other \in Paths \ {path} : Stat(other)' = Stat(other)
             ]_vars
  BY <1>1, CreateLocal DEF Intact
<1>. QED  BY <1>1, PathsInvariance, PTL DEF Spec, CreateIsLocal
=============================================================================
