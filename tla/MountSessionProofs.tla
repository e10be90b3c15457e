------------------------- MODULE MountSessionProofs -------------------------
(***************************************************************************)
(* For every server whose directories form a tree, whatever it replies,    *)
(* however the replies are cut up and wherever a connection fails: no      *)
(* cookie is sent that is not the server's, unless it promised more and    *)
(* sent nothing; every directory is delivered in order; the root is read   *)
(* to its end before cnfs mounts; and a directory below is incomplete only *)
(* when its first reply did not hold all of it.                            *)
(*                                                                         *)
(* The invariant says what is left to read of a reply.  Its numbered items *)
(* are the cookies and the calls of the callback: they come in order, each *)
(* entry behind its cookie, and none is left out between the last entry    *)
(* delivered and the last one of the reply.                                *)
(***************************************************************************)
EXTENDS MountSession, SumLemmas, SequenceTheorems

Plain == {"head", "attr", "id", "name", "flag", "length", "handle", "next", "mount", "last"}

Items ==
    [kind : Plain]
    \cup [kind : {"port"}, port : Ports]
    \cup [kind : {"verf"}, verf : Directories]
    \cup [kind : {"cookie"}, cookie : Nat]
    \cup [kind : {"iter"}, entry : Nat, lacks : SUBSET {"attr", "handle"}]
    \cup [kind : {"eof"}, more : BOOLEAN]

\* What is known of an item.
LEMMA ItemFacts ==
    ASSUME NEW x \in Items
    PROVE  /\ x.kind \in Plain \cup {"port", "verf", "cookie", "iter", "eof"}
           /\ x.kind = "port" => x.port \in Ports
           /\ x.kind = "verf" => x.verf \in Directories
           /\ x.kind = "cookie" => x.cookie \in Nat
           /\ x.kind = "iter" => x.entry \in Nat /\ x.lacks \subseteq {"attr", "handle"}
           /\ x.kind = "eof" => x.more \in BOOLEAN
           /\ Words[x.kind] \in 0 .. MaxBuffer
<1>1. CASE x \in [kind : Plain]
  BY <1>1, ReadDirPlusAssumption, MountSessionAssumption DEF Plain
<1>2. CASE x \in [kind : {"port"}, port : Ports]
  BY <1>2, ReadDirPlusAssumption, MountSessionAssumption
<1>3. CASE x \in [kind : {"verf"}, verf : Directories]
  BY <1>3, ReadDirPlusAssumption
<1>4. CASE x \in [kind : {"cookie"}, cookie : Nat]
  BY <1>4, ReadDirPlusAssumption
<1>5. CASE x \in [kind : {"iter"}, entry : Nat, lacks : SUBSET {"attr", "handle"}]
  BY <1>5, ReadDirPlusAssumption
<1>6. CASE x \in [kind : {"eof"}, more : BOOLEAN]
  BY <1>6, ReadDirPlusAssumption
<1> QED
  BY <1>1, <1>2, <1>3, <1>4, <1>5, <1>6 DEF Items

LEMMA ItemsMade ==
    /\ \A k \in Plain : Item(k) \in Items /\ Item(k).kind = k
    /\ \A p \in Ports : [kind |-> "port", port |-> p] \in Items
    /\ \A d \in Directories : [kind |-> "verf", verf |-> d] \in Items
    /\ \A i \in Nat : [kind |-> "cookie", cookie |-> i] \in Items
    /\ \A i \in Nat, lacks \in SUBSET {"attr", "handle"} :
          [kind |-> "iter", entry |-> i, lacks |-> lacks] \in Items
    /\ \A more \in BOOLEAN : [kind |-> "eof", more |-> more] \in Items
<1>1. \A k \in Plain : Item(k) \in Items /\ Item(k).kind = k
  BY DEF Items, Item
<1>2. \A p \in Ports : [kind |-> "port", port |-> p] \in Items
  BY DEF Items
<1>3. \A d \in Directories : [kind |-> "verf", verf |-> d] \in Items
  BY DEF Items
<1>4. \A i \in Nat : [kind |-> "cookie", cookie |-> i] \in Items
  BY DEF Items
<1>5. \A i \in Nat, lacks \in SUBSET {"attr", "handle"} :
          [kind |-> "iter", entry |-> i, lacks |-> lacks] \in Items
  BY DEF Items
<1>6. \A more \in BOOLEAN : [kind |-> "eof", more |-> more] \in Items
  BY DEF Items
<1> QED
  BY <1>1, <1>2, <1>3, <1>4, <1>5, <1>6

-----------------------------------------------------------------------------
(* How much a reply is *)

LEMMA SizeIsNat ==
    ASSUME NEW s \in Seq(Items)
    PROVE  Size(s) \in Nat
<1> DEFINE n == Len(s)
           w == [i \in 1 .. n |-> Words[s[i].kind]]
           Adds(f) == f = [t \in SUBSET (1 .. n) |->
                         IF t = {} THEN 0 ELSE f[t \ {Max(t)}] + Words[s[Max(t)].kind]]
<1>1. n \in Nat /\ DOMAIN s = 1 .. n
  OBVIOUS
<1>2. w \in [1 .. n -> Nat]
  <2>1. ASSUME NEW i \in 1 .. n PROVE Words[s[i].kind] \in Nat
    <3>1. s[i] \in Items
      BY <1>1
    <3>2. Words[s[i].kind] \in 0 .. MaxBuffer
      BY <3>1, ItemFacts
    <3>3. MaxBuffer \in Nat
      BY ReadDirPlusAssumption
    <3> QED
      BY <3>2, <3>3
  <2> QED
    BY <2>1
<1>3. \A t \in SUBSET (1 .. n) : t # {} => w[Max(t)] = Words[s[Max(t)].kind]
  <2> SUFFICES ASSUME NEW t \in SUBSET (1 .. n), t # {}
               PROVE  w[Max(t)] = Words[s[Max(t)].kind]
    OBVIOUS
  <2>1. Max(t) \in t
    BY <1>1, MaxOf
  <2> QED
    BY <2>1
<1>4. ASSUME NEW f PROVE Adds(f) <=> AddsUp(f, w, n)
  <2>1. [t \in SUBSET (1 .. n) |->
           IF t = {} THEN 0 ELSE f[t \ {Max(t)}] + Words[s[Max(t)].kind]]
      = [t \in SUBSET (1 .. n) |-> IF t = {} THEN 0 ELSE f[t \ {Max(t)}] + w[Max(t)]]
    BY <1>3
  <2> QED
    BY <2>1 DEF AddsUp
<1>5. Size(s) = (CHOOSE f : Adds(f))[1 .. n]
  BY <1>1 DEF Size, FoldLeft, MapThenFoldSet
<1>6. \E f : Adds(f)
  BY <1>1, <1>2, <1>4, AddsUpExists
<1> HIDE DEF Adds, w
<1>7. Adds(CHOOSE f : Adds(f))
  BY <1>6
<1>8. PICK f : AddsUp(f, w, n) /\ Size(s) = UpTo(f, n)
  BY <1>4, <1>5, <1>7 DEF UpTo
<1>9. n \in 0 .. n
  BY <1>1
<1> QED
  BY <1>1, <1>2, <1>8, <1>9, SumIsNat

\* What a server or portmap or mountd may reply is made of items.
LEMMA RepliesMade ==
    ASSUME NEW s \in Seq(Items), NEW n \in 0 .. Len(s)
    PROVE  /\ Whole(s).items = s /\ Whole(s).words \in Nat
           /\ Only(n, s).items = s /\ Only(n, s).words \in Nat
<1>1. SubSeq(s, 1, n) \in Seq(Items)
  OBVIOUS
<1> QED
  BY <1>1, SizeIsNat DEF Whole, Only

-----------------------------------------------------------------------------
(* The numbered items of a reply *)

Numbered(x) == x.kind \in {"cookie", "iter"}
Number(x) == IF x.kind = "cookie" THEN x.cookie ELSE x.entry

\* The numbered items of s are those of the entries behind i up to j, in order.
Delivers(s, i, j) ==
    /\ \A k \in DOMAIN s : Numbered(s[k]) => Number(s[k]) \in i + 1 .. j
    /\ \A v \in i + 1 .. j : \E k \in DOMAIN s : s[k].kind = "iter" /\ s[k].entry = v
    /\ \A k, l \in DOMAIN s : k < l /\ Numbered(s[k]) /\ Numbered(s[l]) =>
          \/ Number(s[k]) < Number(s[l])
          \/ Number(s[k]) = Number(s[l]) /\ s[k].kind = "cookie" /\ s[l].kind = "iter"

\* Before the callback is called for an entry, its cookie has been read.
CookiesFirst(s) ==
    \A k \in DOMAIN s : s[k].kind = "iter" =>
        \E l \in DOMAIN s : l < k /\ s[l].kind = "cookie" /\ s[l].cookie = s[k].entry

EntryKinds == {"id", "name", "cookie", "attr", "flag", "length", "handle", "iter", "next"}

\* What is left out of an entry is what the server may leave out.
Lacking(s, d) ==
    \A k \in DOMAIN s : s[k].kind = "iter" => s[k].lacks \subseteq Entries[d][s[k].entry].lacks

\* s is what the server lists of the entries behind i up to j of directory d.
Lists(s, d, i, j) ==
    /\ s \in Seq(Items)
    /\ \A k \in DOMAIN s : s[k].kind \in EntryKinds
    /\ Delivers(s, i, j) /\ CookiesFirst(s) /\ Lacking(s, d)

LEMMA NumbersAreNat == ASSUME NEW x \in Items, Numbered(x) PROVE Number(x) \in Nat
  BY ItemFacts DEF Numbered, Number

\* A concatenation has the items of both parts.
LEMMA Concatenated ==
    ASSUME NEW a \in Seq(Items), NEW b \in Seq(Items), NEW c, c = a \o b
    PROVE  /\ c \in Seq(Items) /\ Len(a) \in Nat /\ Len(b) \in Nat
           /\ DOMAIN a = 1 .. Len(a) /\ DOMAIN b = 1 .. Len(b)
           /\ Len(c) = Len(a) + Len(b) /\ DOMAIN c = 1 .. Len(a) + Len(b)
           /\ \A i \in 1 .. Len(a) : c[i] = a[i]
           /\ \A i \in 1 .. Len(b) : c[Len(a) + i] = b[i]
           /\ \A i \in DOMAIN c : i \notin DOMAIN a => i - Len(a) \in DOMAIN b /\ c[i] = b[i - Len(a)]
  OBVIOUS

\* Two lists in a row.
LEMMA DeliversJoin ==
    ASSUME NEW a \in Seq(Items), NEW b \in Seq(Items), NEW c, c = a \o b,
           NEW i \in Nat, NEW j \in Nat, NEW m \in Nat, i <= j, j <= m,
           Delivers(a, i, j), Delivers(b, j, m)
    PROVE  Delivers(c, i, m)
<1>1. /\ c \in Seq(Items) /\ Len(a) \in Nat /\ Len(b) \in Nat
      /\ DOMAIN a = 1 .. Len(a) /\ DOMAIN b = 1 .. Len(b)
      /\ Len(c) = Len(a) + Len(b) /\ DOMAIN c = 1 .. Len(a) + Len(b)
      /\ \A k \in 1 .. Len(a) : c[k] = a[k]
      /\ \A k \in 1 .. Len(b) : c[Len(a) + k] = b[k]
      /\ \A k \in DOMAIN c : k \notin DOMAIN a => k - Len(a) \in DOMAIN b /\ c[k] = b[k - Len(a)]
  BY Concatenated
<1>2. /\ \A k \in DOMAIN a : Numbered(a[k]) => Number(a[k]) \in i + 1 .. j
      /\ \A k \in DOMAIN b : Numbered(b[k]) => Number(b[k]) \in j + 1 .. m
  BY DEF Delivers
<1>3. ASSUME NEW k \in DOMAIN c, Numbered(c[k]) PROVE Number(c[k]) \in i + 1 .. m
  <2>1. CASE k \in DOMAIN a
    BY <1>1, <1>2, <1>3, <2>1
  <2>2. CASE k \notin DOMAIN a
    BY <1>1, <1>2, <1>3, <2>2
  <2> QED
    BY <2>1, <2>2
<1>4. ASSUME NEW v \in i + 1 .. m
      PROVE  \E k \in DOMAIN c : c[k].kind = "iter" /\ c[k].entry = v
  <2>1. CASE v <= j
    <3>1. PICK k \in DOMAIN a : a[k].kind = "iter" /\ a[k].entry = v
      <4>1. v \in i + 1 .. j
        BY <2>1
      <4> QED
        BY <4>1 DEF Delivers
    <3> QED
      BY <3>1, <1>1
  <2>2. CASE v > j
    <3>1. PICK k \in DOMAIN b : b[k].kind = "iter" /\ b[k].entry = v
      BY <2>2 DEF Delivers
    <3>2. Len(a) + k \in DOMAIN c /\ c[Len(a) + k] = b[k]
      BY <3>1, <1>1
    <3> QED
      BY <3>1, <3>2
  <2> QED
    BY <2>1, <2>2
<1>5. ASSUME NEW k \in DOMAIN c, NEW l \in DOMAIN c, k < l, Numbered(c[k]), Numbered(c[l])
      PROVE  \/ Number(c[k]) < Number(c[l])
             \/ Number(c[k]) = Number(c[l]) /\ c[k].kind = "cookie" /\ c[l].kind = "iter"
  <2>1. CASE k \in DOMAIN a /\ l \in DOMAIN a
    <3>1. c[k] = a[k] /\ c[l] = a[l]
      BY <1>1, <2>1
    <3> QED
      BY <1>5, <2>1, <3>1 DEF Delivers
  <2>2. CASE k \in DOMAIN a /\ l \notin DOMAIN a
    <3>1. c[k] = a[k] /\ l - Len(a) \in DOMAIN b /\ c[l] = b[l - Len(a)]
      BY <1>1, <2>2
    <3>2. Number(c[k]) \in i + 1 .. j /\ Number(c[l]) \in j + 1 .. m
      BY <1>2, <1>5, <2>2, <3>1
    <3> QED
      BY <3>2
  <2>3. CASE k \notin DOMAIN a
    <3>1. /\ k - Len(a) \in DOMAIN b /\ c[k] = b[k - Len(a)]
          /\ l - Len(a) \in DOMAIN b /\ c[l] = b[l - Len(a)]
          /\ k - Len(a) < l - Len(a)
      BY <1>1, <1>5, <2>3
    <3> QED
      BY <1>5, <3>1 DEF Delivers
  <2> QED
    BY <2>1, <2>2, <2>3
<1> QED
  BY <1>3, <1>4, <1>5 DEF Delivers

LEMMA CookiesFirstJoin ==
    ASSUME NEW a \in Seq(Items), NEW b \in Seq(Items), NEW c, c = a \o b,
           CookiesFirst(a), CookiesFirst(b)
    PROVE  CookiesFirst(c)
<1>1. /\ Len(a) \in Nat /\ Len(b) \in Nat
      /\ DOMAIN a = 1 .. Len(a) /\ DOMAIN b = 1 .. Len(b) /\ DOMAIN c = 1 .. Len(a) + Len(b)
      /\ \A k \in 1 .. Len(a) : c[k] = a[k]
      /\ \A k \in 1 .. Len(b) : c[Len(a) + k] = b[k]
      /\ \A k \in DOMAIN c : k \notin DOMAIN a => k - Len(a) \in DOMAIN b /\ c[k] = b[k - Len(a)]
  BY Concatenated
<1> SUFFICES ASSUME NEW k \in DOMAIN c, c[k].kind = "iter"
             PROVE  \E l \in DOMAIN c : l < k /\ c[l].kind = "cookie" /\ c[l].cookie = c[k].entry
  BY DEF CookiesFirst
<1>2. CASE k \in DOMAIN a
  <2>1. PICK l \in DOMAIN a : l < k /\ a[l].kind = "cookie" /\ a[l].cookie = a[k].entry
    BY <1>1, <1>2 DEF CookiesFirst
  <2> QED
    BY <1>1, <1>2, <2>1
<1>3. CASE k \notin DOMAIN a
  <2>1. k - Len(a) \in DOMAIN b /\ c[k] = b[k - Len(a)]
    BY <1>1, <1>3
  <2>2. PICK l \in DOMAIN b : l < k - Len(a) /\ b[l].kind = "cookie" /\ b[l].cookie = c[k].entry
    BY <2>1 DEF CookiesFirst
  <2>3. Len(a) + l \in DOMAIN c /\ c[Len(a) + l] = b[l] /\ Len(a) + l < k
    BY <1>1, <2>2
  <2> QED
    BY <2>2, <2>3
<1> QED
  BY <1>2, <1>3

LEMMA LackingJoin ==
    ASSUME NEW a \in Seq(Items), NEW b \in Seq(Items), NEW c, c = a \o b, NEW d,
           Lacking(a, d), Lacking(b, d)
    PROVE  Lacking(c, d)
  BY Concatenated DEF Lacking

LEMMA ListsJoin ==
    ASSUME NEW a, NEW b, NEW c, c = a \o b, NEW d,
           NEW i \in Nat, NEW j \in Nat, NEW m \in Nat, i <= j, j <= m,
           Lists(a, d, i, j), Lists(b, d, j, m)
    PROVE  Lists(c, d, i, m)
<1>1. /\ a \in Seq(Items) /\ b \in Seq(Items) /\ Delivers(c, i, m) /\ CookiesFirst(c)
      /\ Lacking(c, d)
  BY DeliversJoin, CookiesFirstJoin, LackingJoin DEF Lists
<1>2. c \in Seq(Items) /\ \A k \in DOMAIN c : c[k].kind \in EntryKinds
  BY <1>1, Concatenated DEF Lists
<1> QED
  BY <1>1, <1>2 DEF Lists

\* Items that are not numbered list nothing.
Unnumbered == EntryKinds \ {"cookie", "iter"}

LEMMA ListsNothing ==
    ASSUME NEW s \in Seq(Items), \A k \in DOMAIN s : s[k].kind \in Unnumbered,
           NEW d, NEW i \in Nat
    PROVE  Lists(s, d, i, i)
<1>1. \A k \in DOMAIN s : /\ s[k].kind \in EntryKinds /\ ~Numbered(s[k])
                          /\ s[k].kind # "iter" /\ s[k].kind # "cookie"
  BY DEF Numbered, Unnumbered
<1>2. i + 1 .. i = {}
  OBVIOUS
<1> QED
  BY <1>1, <1>2 DEF Lists, Delivers, CookiesFirst, Lacking

\* A cookie, items that are not numbered, and the call of the callback.
LEMMA ListsOne ==
    ASSUME NEW d, NEW i \in Nat, NEW c \in Items, NEW x \in Items, NEW m \in Seq(Items),
           c.kind = "cookie", c.cookie = i + 1, x.kind = "iter", x.entry = i + 1,
           x.lacks \subseteq Entries[d][i + 1].lacks,
           \A k \in DOMAIN m : m[k].kind \in Unnumbered,
           NEW s, s = (<<c>> \o m) \o <<x>>
    PROVE  Lists(s, d, i, i + 1)
<1> PICK a, b, n : a = <<c>> \o m /\ b = <<x>> /\ n = Len(m) + 2
  OBVIOUS
<1>1. /\ n \in Nat /\ n >= 2 /\ s \in Seq(Items) /\ DOMAIN s = 1 .. n
      /\ s[1] = c /\ s[n] = x /\ \A k \in DOMAIN s : k # 1 /\ k # n => s[k].kind \in Unnumbered
  <2>1. Len(m) \in Nat /\ DOMAIN m = 1 .. Len(m)
    OBVIOUS
  <2>2. /\ a \in Seq(Items) /\ Len(a) = Len(m) + 1 /\ DOMAIN a = 1 .. Len(m) + 1
        /\ a[1] = c /\ \A k \in DOMAIN a : k # 1 => a[k].kind \in Unnumbered
    <3>1. PICK h : h = <<c>>
      OBVIOUS
    <3>2. h \in Seq(Items) /\ Len(h) = 1 /\ h[1] = c /\ DOMAIN h = {1}
      BY <3>1
    <3>3. a = h \o m
      BY <3>1
    <3>4. /\ a \in Seq(Items) /\ Len(a) = 1 + Len(m) /\ DOMAIN a = 1 .. 1 + Len(m)
          /\ \A k \in 1 .. 1 : a[k] = h[k]
          /\ \A k \in DOMAIN a : k \notin DOMAIN h => k - 1 \in DOMAIN m /\ a[k] = m[k - 1]
      BY <3>2, <3>3, Concatenated
    <3> QED
      BY <2>1, <3>2, <3>4
  <2>3. b \in Seq(Items) /\ Len(b) = 1 /\ b[1] = x /\ DOMAIN b = {1}
    OBVIOUS
  <2>4. /\ s \in Seq(Items) /\ DOMAIN s = 1 .. Len(a) + 1
        /\ \A k \in 1 .. Len(a) : s[k] = a[k]
        /\ \A k \in 1 .. 1 : s[Len(a) + k] = b[k]
    <3>1. s = a \o b
      OBVIOUS
    <3> QED
      BY <2>2, <2>3, <3>1, Concatenated
  <2> QED
    BY <2>1, <2>2, <2>3, <2>4
<1>2. Numbered(c) /\ Number(c) = i + 1 /\ Numbered(x) /\ Number(x) = i + 1
  BY DEF Numbered, Number
<1>3. \A k \in DOMAIN s : k # 1 /\ k # n =>
         ~Numbered(s[k]) /\ s[k].kind \in EntryKinds /\ s[k].kind # "iter"
  BY <1>1 DEF Numbered, Unnumbered
<1>4. 1 \in DOMAIN s /\ n \in DOMAIN s /\ 1 < n
  BY <1>1
<1>5. Delivers(s, i, i + 1)
  <2>0. i + 1 .. i + 1 = {i + 1}
    OBVIOUS
  <2>1. ASSUME NEW k \in DOMAIN s, Numbered(s[k]) PROVE Number(s[k]) = i + 1
    <3>1. k = 1 \/ k = n
      BY <1>3, <2>1
    <3> QED
      BY <1>1, <1>2, <3>1
  <2>2. s[n].kind = "iter" /\ s[n].entry = i + 1
    BY <1>1
  <2>3. ASSUME NEW k \in DOMAIN s, NEW l \in DOMAIN s, k < l, Numbered(s[k]), Numbered(s[l])
        PROVE  k = 1 /\ l = n
    <3>1. (k = 1 \/ k = n) /\ (l = 1 \/ l = n)
      BY <1>3, <2>3
    <3> QED
      BY <1>1, <2>3, <3>1
  <2>4. s[1].kind = "cookie"
    BY <1>1
  <2> QED
    BY <1>1, <1>2, <1>4, <2>0, <2>1, <2>2, <2>3, <2>4 DEF Delivers
<1>6. \A k \in DOMAIN s : s[k].kind = "iter" => k = n
  BY <1>1, <1>3
<1>7. CookiesFirst(s)
  BY <1>1, <1>4, <1>6 DEF CookiesFirst
<1>8. Lacking(s, d)
  BY <1>1, <1>6 DEF Lacking
<1>9. \A k \in DOMAIN s : s[k].kind \in EntryKinds
  BY <1>1, <1>3 DEF EntryKinds
<1> QED
  BY <1>1, <1>5, <1>7, <1>8, <1>9 DEF Lists

\* What lists nothing may stand in front and behind.
LEMMA ListsBetween ==
    ASSUME NEW d, NEW i \in Nat, NEW j \in Nat, i <= j, NEW a, NEW b, NEW c, NEW u, NEW v,
           u = a \o b, v = u \o c,
           Lists(a, d, i, i), Lists(b, d, i, j), Lists(c, d, j, j)
    PROVE  Lists(v, d, i, j)
<1>1. i <= i /\ j <= j
  OBVIOUS
<1>2. Lists(u, d, i, j)
  BY <1>1, ListsJoin
<1> QED
  BY <1>1, <1>2, ListsJoin

\* Concatenation with a name, for the prover: the parts can be grouped otherwise.
Joined(a, b) == a \o b

LEMMA Associative ==
    ASSUME NEW S, NEW a \in Seq(S), NEW b \in Seq(S), NEW c \in Seq(S)
    PROVE  /\ Joined(Joined(a, b), c) = Joined(a, Joined(b, c))
           /\ Joined(a, b) \in Seq(S)
  BY ConcatAssociative DEF Joined

\* The items of one entry.
LEMMA EntryLists ==
    ASSUME NEW d, NEW i \in Nat, NEW lacks \in SUBSET {"attr", "handle"},
           lacks \subseteq Entries[d][i + 1].lacks
    PROVE  Lists(EntryItems(i + 1, lacks), d, i, i + 1)
<1>a. PICK c, x : /\ c = [kind |-> "cookie", cookie |-> i + 1]
                /\ x = [kind |-> "iter", entry |-> i + 1, lacks |-> lacks]
  OBVIOUS
<1>1. /\ c \in Items /\ c.kind = "cookie" /\ c.cookie = i + 1
      /\ x \in Items /\ x.kind = "iter" /\ x.entry = i + 1 /\ x.lacks = lacks
  <2>1. i + 1 \in Nat
    OBVIOUS
  <2>2. c \in Items /\ x \in Items
    BY <1>a, <2>1, ItemsMade
  <2> QED
    BY <1>a, <2>2
<1> DEFINE Bare(s) == s \in Seq(Items) /\ \A k \in DOMAIN s : s[k].kind \in Unnumbered
<1>2. \A k \in {"id", "name", "attr", "flag", "length", "handle", "next"} :
         Item(k) \in Items /\ Item(k).kind \in Unnumbered
  BY ItemsMade DEF Plain, Unnumbered, EntryKinds
<1>3. /\ Bare(<<>>) /\ \A k \in {"attr", "flag", "next"} : Bare(<<Item(k)>>)
      /\ Bare(<<Item("id"), Item("name")>>) /\ Bare(<<Item("length"), Item("handle")>>)
  <2>1. ASSUME NEW y \in Items, y.kind \in Unnumbered PROVE Bare(<<y>>)
    BY <2>1
  <2>2. ASSUME NEW y \in Items, NEW z \in Items, y.kind \in Unnumbered, z.kind \in Unnumbered
        PROVE  Bare(<<y, z>>)
    <3>1. PICK s : s = <<y, z>>
      OBVIOUS
    <3>2. s \in Seq(Items) /\ DOMAIN s = {1, 2} /\ s[1] = y /\ s[2] = z
      BY <3>1
    <3> QED
      BY <2>2, <3>1, <3>2
  <2>3. Bare(<<>>)
    OBVIOUS
  <2> HIDE DEF Bare
  <2> QED
    BY <1>2, <2>1, <2>2, <2>3
<1>4. ASSUME NEW s, NEW t, Bare(s), Bare(t) PROVE Bare(s \o t)
  BY <1>4, Concatenated
<1>b. PICK at, fl, ha, first, nx :
      /\ at = (IF "attr" \in lacks THEN <<>> ELSE <<Item("attr")>>) /\ fl = <<Item("flag")>>
      /\ ha = (IF "handle" \in lacks THEN <<>> ELSE <<Item("length"), Item("handle")>>)
      /\ first = <<Item("id"), Item("name")>> /\ nx = <<Item("next")>>
  OBVIOUS
<1> HIDE DEF Bare
<1>5. Bare(at) /\ Bare(fl) /\ Bare(ha) /\ Bare(first) /\ Bare(nx)
  BY <1>b, <1>3
<1>d. PICK m, s : m = (at \o fl) \o ha /\ s = (<<c>> \o m) \o <<x>>
  OBVIOUS
<1>6. Bare(m)
  BY <1>d, <1>4, <1>5
<1>7. Lists(s, d, i, i + 1)
  BY <1>d, <1>1, <1>6, ListsOne DEF Bare
<1>e. PICK j : j = i + 1
  OBVIOUS
<1>j. j \in Nat /\ i <= j /\ i <= i /\ j <= j
  BY <1>e
<1>8. Lists(first, d, i, i) /\ Lists(nx, d, j, j)
  BY <1>e, <1>5, <1>j, ListsNothing DEF Bare
<1>f. PICK u, v : u = first \o s /\ v = u \o nx
  OBVIOUS
<1>9. Lists(v, d, i, j)
  <2>1. Lists(first, d, i, i) /\ Lists(s, d, i, j) /\ Lists(nx, d, j, j)
    BY <1>e, <1>7, <1>8
  <2> QED
    BY <1>f, <1>j, <2>1, ListsBetween
<1>10. EntryItems(i + 1, lacks) = v
  <2>a. PICK lc, lx : lc = <<c>> /\ lx = <<x>>
    OBVIOUS
  <2>1. /\ at \in Seq(Items) /\ fl \in Seq(Items) /\ ha \in Seq(Items)
        /\ first \in Seq(Items) /\ nx \in Seq(Items) /\ lc \in Seq(Items) /\ lx \in Seq(Items)
    BY <2>a, <1>1, <1>5 DEF Bare
  <2>2. EntryItems(i + 1, lacks) = ((((first \o lc) \o at) \o fl) \o ha) \o (lx \o nx)
    <3>1. <<Item("id"), Item("name"), c>> = first \o lc
      BY <1>b, <2>a
    <3>2. <<x, Item("next")>> = lx \o nx
      BY <1>b, <2>a
    <3> QED
      BY <1>a, <1>b, <3>1, <3>2, Zenon DEF EntryItems
  <2>3. ((((first \o lc) \o at) \o fl) \o ha) \o (lx \o nx)
      = (first \o ((lc \o ((at \o fl) \o ha)) \o lx)) \o nx
    <3>a. PICK fh, cm : fh = Joined(Joined(at, fl), ha) /\ cm = Joined(lc, fh)
      OBVIOUS
    <3>1. /\ Joined(at, fl) \in Seq(Items) /\ fh \in Seq(Items)
          /\ Joined(first, lc) \in Seq(Items) /\ cm \in Seq(Items)
          /\ Joined(first, cm) \in Seq(Items)
      BY <2>1, <3>a, Associative
    <3>2. Joined(Joined(Joined(first, lc), at), fl) = Joined(Joined(first, lc), Joined(at, fl))
      BY <2>1, <3>1, Associative
    <3>3. Joined(Joined(Joined(first, lc), Joined(at, fl)), ha) = Joined(Joined(first, lc), fh)
      BY <2>1, <3>a, <3>1, Associative
    <3>4. Joined(Joined(first, lc), fh) = Joined(first, cm)
      BY <2>1, <3>a, <3>1, Associative
    <3>5. Joined(Joined(first, cm), Joined(lx, nx)) = Joined(Joined(Joined(first, cm), lx), nx)
      BY <2>1, <3>1, Associative
    <3>6. Joined(Joined(first, cm), lx) = Joined(first, Joined(cm, lx))
      BY <2>1, <3>1, Associative
    <3>7. Joined(Joined(Joined(Joined(Joined(first, lc), at), fl), ha), Joined(lx, nx))
        = Joined(Joined(first, Joined(Joined(lc, Joined(Joined(at, fl), ha)), lx)), nx)
      BY <3>a, <3>2, <3>3, <3>4, <3>5, <3>6
    <3> QED
      BY <3>7, Zenon DEF Joined
  <2> QED
    BY <1>d, <1>f, <2>a, <2>2, <2>3, Zenon
<1> QED
  BY <1>9, <1>10, <1>e, Zenon

\* FlattenSeq is a recursive function: there is one for every sequence of lists.
Flattens(f, q, n) == f = [i \in 1 .. n |-> IF i = 1 THEN q[i] ELSE f[i - 1] \o q[i]]

LEMMA FlattensExists ==
    ASSUME NEW n \in Nat, NEW q
    PROVE  \E f : Flattens(f, q, n)
<1> DEFINE bad == {m \in 0 .. n : ~ \E f : Flattens(f, q, m)}
<1>1. SUFFICES ASSUME bad # {} PROVE FALSE
  <2>1. n \in 0 .. n
    OBVIOUS
  <2>2. bad = {} => n \notin bad
    BY Zenon
  <2> QED
    BY <2>1, <2>2
<1>2. PICK m \in bad : \A k \in bad : m <= k
  <2>1. bad \in SUBSET Nat
    OBVIOUS
  <2> HIDE DEF bad
  <2> QED
    BY <1>1, <2>1, LeastOf
<1>3. m # 0
  <2> SUFFICES ASSUME m = 0 PROVE \E f : Flattens(f, q, m)
    OBVIOUS
  <2> DEFINE f == [i \in 1 .. 0 |-> 0]
  <2>1. \A i \in 1 .. 0 : FALSE
    OBVIOUS
  <2>2. f = [i \in 1 .. 0 |-> IF i = 1 THEN q[i] ELSE f[i - 1] \o q[i]]
    BY <2>1
  <2>3. Flattens(f, q, 0)
    BY <2>2 DEF Flattens
  <2> QED
    BY <2>3
<1>4. m - 1 \in 0 .. n /\ m - 1 \notin bad /\ m \in 1 .. n
  BY <1>2, <1>3
<1>5. PICK g : Flattens(g, q, m - 1)
  BY <1>4
<1> DEFINE f == [i \in 1 .. m |-> IF i = m THEN IF m = 1 THEN q[m] ELSE g[m - 1] \o q[m]
                                         ELSE g[i]]
<1>6. ASSUME NEW i \in 1 .. m PROVE f[i] = IF i = 1 THEN q[i] ELSE f[i - 1] \o q[i]
  <2>1. CASE i = m
    <3>1. m # 1 => m - 1 \in 1 .. m /\ m - 1 # m
      BY <1>4
    <3>2. m # 1 => f[m - 1] = g[m - 1]
      BY <3>1
    <3>3. f[m] = IF m = 1 THEN q[m] ELSE g[m - 1] \o q[m]
      BY <2>1
    <3> QED
      BY <2>1, <3>2, <3>3
  <2>2. CASE i # m
    <3>1. i \in 1 .. m - 1 /\ (i # 1 => i - 1 \in 1 .. m /\ i - 1 # m)
      BY <2>2, <1>4
    <3>2. f[i] = g[i] /\ (i # 1 => f[i - 1] = g[i - 1])
      BY <2>2, <3>1
    <3>3. g[i] = IF i = 1 THEN q[i] ELSE g[i - 1] \o q[i]
      BY <3>1, <1>5 DEF Flattens
    <3> QED
      BY <3>2, <3>3
  <2> QED
    BY <2>1, <2>2
<1>7. Flattens(f, q, m)
  BY <1>6 DEF Flattens
<1> QED
  BY <1>2, <1>7

\* The entries of a reply are listed in a row.
LEMMA FlattenLists ==
    ASSUME NEW d, NEW i \in Nat, NEW n \in Nat, NEW q, DOMAIN q = 1 .. n, q \in Seq(Seq(Items)),
           \A k \in 1 .. n : Lists(q[k], d, i + k - 1, i + k)
    PROVE  Lists(FlattenSeq(q), d, i, i + n)
<1>1. Len(q) = n
  OBVIOUS
<1>2. CASE n = 0
  <2>1. FlattenSeq(q) = q /\ q = <<>>
    BY <1>1, <1>2 DEF FlattenSeq
  <2>2. <<>> \in Seq(Items) /\ DOMAIN <<>> = {} /\ i + 1 .. i + 0 = {}
    OBVIOUS
  <2> QED
    BY <1>2, <2>1, <2>2 DEF Lists, Delivers, CookiesFirst, Lacking
<1>3. CASE n # 0
  <2>1. FlattenSeq(q) = (CHOOSE f : Flattens(f, q, n))[n]
    BY <1>1, <1>3 DEF FlattenSeq, Flattens
  <2>2. PICK f : Flattens(f, q, n) /\ FlattenSeq(q) = f[n]
    BY <2>1, FlattensExists
  <2> DEFINE bad == {k \in 1 .. n : ~Lists(f[k], d, i, i + k)}
  <2>3. SUFFICES ASSUME bad # {} PROVE FALSE
    <3>1. n \in 1 .. n
      BY <1>3
    <3>2. bad = {} => n \notin bad
      BY Zenon
    <3> QED
      BY <3>1, <3>2, <2>2
  <2>4. PICK k \in bad : \A l \in bad : k <= l
    <3>1. bad \in SUBSET Nat
      OBVIOUS
    <3> HIDE DEF bad
    <3> QED
      BY <2>3, <3>1, LeastOf
  <2>5. k # 1
    <3>1. f[1] = q[1]
      BY <1>3, <2>2 DEF Flattens
    <3>2. Lists(q[1], d, i + 1 - 1, i + 1) /\ i + 1 - 1 = i
      BY <1>3
    <3>3. k = 1 => Lists(f[k], d, i, i + k)
      BY <3>1, <3>2
    <3> QED
      BY <2>4, <3>3
  <2>6. k - 1 \in 1 .. n /\ k - 1 \notin bad /\ k \in 1 .. n
    BY <2>4, <2>5
  <2>7. Lists(f[k - 1], d, i, i + (k - 1))
    BY <2>6
  <2>8. f[k] = f[k - 1] \o q[k]
    BY <2>2, <2>5, <2>6 DEF Flattens
  <2>9. Lists(q[k], d, i + (k - 1), i + k)
    <3>1. i + k - 1 = i + (k - 1)
      BY <2>6
    <3> QED
      BY <2>6, <3>1
  <2>10. i + (k - 1) \in Nat /\ i + k \in Nat /\ i <= i + (k - 1) /\ i + (k - 1) <= i + k
    BY <2>6
  <2>11. Lists(f[k], d, i, i + k)
    <3>1. PICK a, b, c, j, m : /\ a = f[k - 1] /\ b = q[k] /\ c = f[k]
                               /\ j = i + (k - 1) /\ m = i + k
      OBVIOUS
    <3>2. /\ c = a \o b /\ Lists(a, d, i, j) /\ Lists(b, d, j, m)
          /\ j \in Nat /\ m \in Nat /\ i <= j /\ j <= m
      BY <2>7, <2>8, <2>9, <2>10, <3>1
    <3>3. Lists(c, d, i, m)
      BY <3>2, ListsJoin
    <3> QED
      BY <3>1, <3>3
  <2> QED
    BY <2>4, <2>11
<1> QED
  BY <1>2, <1>3

-----------------------------------------------------------------------------
(* What is left to read of a reply *)

Has(s, kind) == \E k \in DOMAIN s : s[k].kind = kind

\* Nothing is numbered before the verifier, and the verifier is the server's.
VerfFirst(s, d) ==
    \A k \in DOMAIN s : s[k].kind = "verf" =>
        s[k].verf = d /\ \A l \in DOMAIN s : Numbered(s[l]) => k < l

\* The cookie of an entry is still to come, or it is the last one read.
CookieKnown(s, last) ==
    \A k \in DOMAIN s : s[k].kind = "iter" =>
        \/ \E l \in DOMAIN s : l < k /\ s[l].kind = "cookie" /\ s[l].cookie = s[k].entry
        \/ /\ ~Has(s, "verf") /\ last = s[k].entry
           /\ \A l \in DOMAIN s : l < k => s[l].kind # "cookie"

\* The end of a reply: it says whether the server has more, and the cookie that
\* is written back is that of the last entry if it has, or none, when d is one of
\* the directories p of which the server promised more and sent nothing.
EndRight(s, d, verf, last, i, j, p) ==
    \A k \in DOMAIN s : s[k].kind = "eof" =>
        /\ k = Len(s)
        /\ verf = d \/ Has(s, "verf")
        /\ ~s[k].more => j = Len(Entries[d])
        /\ s[k].more =>
              \/ Has(s, "cookie")
              \/ ~Has(s, "verf") /\ last = i
              \/ /\ ~Has(s, "verf")
                 /\ \E l \in DOMAIN s : s[l].kind = "iter" /\ s[l].entry = last
              \/ d \in p /\ (Has(s, "verf") \/ last = Junk)

\* s is what is left of a reply for directory d, of which the first i entries
\* have been delivered, when the call holds this verifier and last cookie.
Reply(s, d, verf, last, i, p) ==
    /\ s \in Seq(Items)
    /\ VerfFirst(s, d) /\ CookieKnown(s, last) /\ Lacking(s, d)
    /\ \E j \in i .. Len(Entries[d]) :
          Delivers(s, i, j) /\ EndRight(s, d, verf, last, i, j, p)

\* What is known of the entries of a directory.
LEMMA EntryFacts ==
    ASSUME NEW d \in Directories
    PROVE  /\ Len(Entries[d]) \in Nat /\ DOMAIN Entries[d] = 1 .. Len(Entries[d])
           /\ \A k \in DOMAIN Entries[d] :
                 /\ Entries[d][k].lacks \in SUBSET {"attr", "handle"}
                 /\ Entries[d][k].below \in Directories \cup {NoDir}
<1> DEFINE R == [type  : {"dir", "file", "other"},
                 below : Directories \cup {NoDir},
                 lacks : SUBSET {"attr", "handle"}]
<1>1. PICK e : e = Entries[d]
  OBVIOUS
<1>2. e \in Seq(R)
  BY <1>1, ReadDirPlusAssumption
<1>3. Len(e) \in Nat /\ DOMAIN e = 1 .. Len(e) /\ \A k \in DOMAIN e : e[k] \in R
  <2> HIDE DEF R
  <2> QED
    BY <1>2
<1>4. \A k \in DOMAIN e : /\ e[k].lacks \in SUBSET {"attr", "handle"}
                         /\ e[k].below \in Directories \cup {NoDir}
  BY <1>3
<1> QED
  BY <1>1, <1>3, <1>4

\* What is before the entries of a reply.
LEMMA DirItemsMade ==
    ASSUME NEW d \in Directories, NEW attr \in BOOLEAN, NEW a, a = DirItems(d, attr)
    PROVE  /\ a \in Seq(Items) /\ Len(a) = IF attr THEN 3 ELSE 2
           /\ \A k \in DOMAIN a : a[k].kind \in {"head", "attr", "verf"}
           /\ \A k \in DOMAIN a : a[k].kind = "verf" => a[k].verf = d
           /\ Has(a, "verf")
<1>1. PICK v : v = [kind |-> "verf", verf |-> d]
  OBVIOUS
<1>2. PICK h, t : h = Item("head") /\ t = Item("attr")
  OBVIOUS
<1>3. /\ v \in Items /\ v.kind = "verf" /\ v.verf = d
      /\ h \in Items /\ h.kind = "head" /\ t \in Items /\ t.kind = "attr"
  BY <1>1, <1>2, ItemsMade DEF Plain
<1>4. PICK p, q, r, b : /\ p = <<h>> /\ q = (IF attr THEN <<t>> ELSE <<>>) /\ r = <<v>>
                        /\ b = p \o q
  OBVIOUS
<1>5. /\ p \in Seq(Items) /\ Len(p) = 1 /\ p[1] = h
      /\ r \in Seq(Items) /\ Len(r) = 1 /\ r[1] = v
  BY <1>3, <1>4
<1>6. /\ q \in Seq(Items) /\ Len(q) = IF attr THEN 1 ELSE 0
      /\ \A k \in DOMAIN q : q[k] = t
  BY <1>3, <1>4
<1>7. a = b \o r
  BY <1>1, <1>2, <1>4 DEF DirItems
<1>8. /\ b \in Seq(Items) /\ Len(b) = Len(p) + Len(q) /\ DOMAIN b = 1 .. Len(b)
      /\ \A k \in DOMAIN b : b[k] = h \/ b[k] = t
  <2>1. /\ b \in Seq(Items) /\ Len(b) = Len(p) + Len(q) /\ DOMAIN b = 1 .. Len(p) + Len(q)
        /\ DOMAIN p = 1 .. Len(p) /\ \A k \in 1 .. Len(p) : b[k] = p[k]
        /\ \A k \in DOMAIN b : k \notin DOMAIN p => k - Len(p) \in DOMAIN q /\ b[k] = q[k - Len(p)]
    BY <1>4, <1>5, <1>6, Concatenated
  <2> QED
    BY <2>1, <1>5, <1>6
<1>9. /\ a \in Seq(Items) /\ Len(a) = Len(b) + 1 /\ DOMAIN a = 1 .. Len(b) + 1
      /\ \A k \in DOMAIN b : a[k] = b[k]
      /\ a[Len(b) + 1] = v
  <2>1. /\ a \in Seq(Items) /\ Len(b) \in Nat /\ Len(r) \in Nat
        /\ DOMAIN b = 1 .. Len(b) /\ DOMAIN r = 1 .. Len(r)
        /\ Len(a) = Len(b) + Len(r) /\ DOMAIN a = 1 .. Len(b) + Len(r)
        /\ \A k \in 1 .. Len(b) : a[k] = b[k]
        /\ \A k \in 1 .. Len(r) : a[Len(b) + k] = r[k]
        /\ \A k \in DOMAIN a : k \notin DOMAIN b => k - Len(b) \in DOMAIN r /\ a[k] = r[k - Len(b)]
    <3>1. b \in Seq(Items) /\ r \in Seq(Items) /\ a = b \o r
      BY <1>5, <1>7, <1>8
    <3> QED
      BY <3>1
  <2>2. a[Len(b) + 1] = r[1]
    BY <2>1, <1>5
  <2> QED
    BY <2>1, <2>2, <1>5, <1>8
<1>10. \A k \in DOMAIN a : a[k] = h \/ a[k] = t \/ a[k] = v
  <2>1. Len(b) \in Nat
    BY <1>8
  <2>2. \A k \in DOMAIN a : k \in DOMAIN b \/ k = Len(b) + 1
    BY <1>8, <1>9, <2>1
  <2> QED
    BY <1>8, <1>9, <2>2
<1>11. Has(a, "verf")
  <2>1. Len(b) \in Nat /\ Len(b) + 1 \in DOMAIN a
    BY <1>8, <1>9
  <2> QED
    BY <2>1, <1>3, <1>9 DEF Has
<1>12. \A k \in DOMAIN a : a[k].kind \in {"head", "attr", "verf"}
  BY <1>3, <1>10
<1>13. \A k \in DOMAIN a : a[k].kind = "verf" => a[k].verf = d
  BY <1>3, <1>10
<1> QED
  BY <1>5, <1>6, <1>8, <1>9, <1>11, <1>12, <1>13

\* An error: its items end before there is anything to deliver.
LEMMA ErrorReply ==
    ASSUME NEW p, NEW d \in Directories, NEW attr \in BOOLEAN, NEW verf, NEW last,
           NEW i \in 0 .. Len(Entries[d])
    PROVE  Reply(DirItems(d, attr), d, verf, last, i, p)
<1>1. PICK a : a = DirItems(d, attr)
  OBVIOUS
<1>2. /\ a \in Seq(Items)
      /\ \A k \in DOMAIN a : a[k].kind \in {"head", "attr", "verf"}
      /\ \A k \in DOMAIN a : a[k].kind = "verf" => a[k].verf = d
  BY <1>1, DirItemsMade
<1>3. \A k \in DOMAIN a : ~Numbered(a[k]) /\ a[k].kind # "iter" /\ a[k].kind # "eof"
  BY <1>2 DEF Numbered
<1>4. Len(Entries[d]) \in Nat
  BY ReadDirPlusAssumption
<1>5. i + 1 .. i = {}
  BY <1>4
<1>6. Delivers(a, i, i)
  BY <1>3, <1>5 DEF Delivers
<1>7. /\ VerfFirst(a, d) /\ CookieKnown(a, last) /\ Lacking(a, d)
      /\ EndRight(a, d, verf, last, i, i, p)
  BY <1>2, <1>3 DEF VerfFirst, CookieKnown, EndRight, Lacking
<1> QED
  BY <1>1, <1>2, <1>4, <1>6, <1>7 DEF Reply

\* A page: behind the verifier, the entries up to the j-th.
LEMMA PageReply ==
    ASSUME NEW p, NEW d \in Directories, NEW i \in 0 .. Len(Entries[d]),
           NEW j \in i .. Len(Entries[d]), NEW more \in BOOLEAN,
           j < Len(Entries[d]) => more,
           NEW attr \in BOOLEAN, NEW bare \in BOOLEAN, NEW verf, NEW last,
           Promises(Page(d, i, j, more, attr, bare)) => d \in p
    PROVE  Reply(Page(d, i, j, more, attr, bare), d, verf, last, i, p)
<1> DEFINE q == [k \in 1 .. j - i |->
                  EntryItems(i + k, IF bare THEN Entries[d][i + k].lacks ELSE {})]
<1>0. /\ Len(Entries[d]) \in Nat /\ i \in Nat /\ j \in Nat /\ i <= j
      /\ \A k \in 1 .. Len(Entries[d]) : Entries[d][k].lacks \in SUBSET {"attr", "handle"}
  <2>1. Len(Entries[d]) \in Nat
    BY EntryFacts
  <2>2. \A k \in 1 .. Len(Entries[d]) : Entries[d][k].lacks \in SUBSET {"attr", "handle"}
    BY EntryFacts
  <2>3. i \in Nat /\ j \in Nat /\ i <= j
    BY <2>1
  <2> QED
    BY <2>1, <2>2, <2>3
<1>1. ASSUME NEW k \in 1 .. j - i PROVE Lists(q[k], d, i + k - 1, i + k)
  <2>1. PICK lacks \in SUBSET {"attr", "handle"} :
          /\ lacks = IF bare THEN Entries[d][i + k].lacks ELSE {}
          /\ lacks \subseteq Entries[d][i + k].lacks
    <3>1. i + k \in 1 .. Len(Entries[d])
      BY <1>0
    <3>2. Entries[d][i + k].lacks \in SUBSET {"attr", "handle"}
      BY <1>0, <3>1
    <3>3. {} \in SUBSET {"attr", "handle"}
      OBVIOUS
    <3> QED
      BY <3>2, <3>3
  <2>2. PICK m \in Nat : m = i + k - 1
    BY <1>0
  <2>3. i + k = m + 1
    BY <2>2, <1>0
  <2>4. q[k] = EntryItems(m + 1, lacks)
    BY <2>1, <2>3
  <2>5. Lists(q[k], d, m, m + 1)
    BY <2>1, <2>3, <2>4, EntryLists
  <2> QED
    BY <2>2, <2>3, <2>5
<1>2. DOMAIN q = 1 .. j - i /\ q \in Seq(Seq(Items)) /\ j - i \in Nat /\ i + (j - i) = j
  <2>1. \A k \in 1 .. j - i : q[k] \in Seq(Items)
    BY <1>1 DEF Lists
  <2> HIDE DEF q
  <2>2. DOMAIN q = 1 .. j - i /\ j - i \in Nat
    BY <1>0 DEF q
  <2>3. PICK n \in Nat : n = j - i
    BY <2>2
  <2>4. q \in [1 .. n -> Seq(Items)]
    <3>1. q = [k \in 1 .. n |-> q[k]]
      BY <2>3 DEF q
    <3> QED
      BY <2>1, <2>3, <3>1
  <2>5. q \in Seq(Seq(Items))
    BY <2>4
  <2> QED
    BY <1>0, <2>2, <2>5
<1>3. PICK f : f = FlattenSeq(q)
  OBVIOUS
<1>4. PICK a, e : a = DirItems(d, attr) /\ e = [kind |-> "eof", more |-> more]
  OBVIOUS
<1>5. PICK s : s = Page(d, i, j, more, attr, bare)
  OBVIOUS
<1>6. s = (a \o f) \o <<e>>
  BY <1>3, <1>4, <1>5 DEF Page
<1> HIDE DEF q
<1>7. Lists(f, d, i, j)
  <2>1. PICK n \in Nat : n = j - i
    BY <1>2
  <2>2. Lists(FlattenSeq(q), d, i, i + n)
    BY <1>0, <1>1, <1>2, <2>1, FlattenLists
  <2> QED
    BY <1>2, <1>3, <2>1, <2>2
<1>8. /\ a \in Seq(Items)
      /\ \A k \in DOMAIN a : a[k].kind \in {"head", "attr", "verf"}
      /\ \A k \in DOMAIN a : a[k].kind = "verf" => a[k].verf = d
      /\ Has(a, "verf")
  BY <1>4, DirItemsMade
<1>9. e \in Items /\ e.kind = "eof" /\ e.more = more
  BY <1>4, ItemsMade
<1>10. PICK b, t : b = a \o f /\ t = <<e>>
  OBVIOUS
<1>11. t \in Seq(Items) /\ DOMAIN t = {1} /\ t[1] = e /\ Len(t) = 1
  BY <1>9, <1>10
<1>12. /\ b \in Seq(Items) /\ Len(a) \in Nat /\ Len(f) \in Nat
       /\ DOMAIN a = 1 .. Len(a) /\ DOMAIN f = 1 .. Len(f)
       /\ Len(b) = Len(a) + Len(f) /\ DOMAIN b = 1 .. Len(a) + Len(f)
       /\ \A k \in 1 .. Len(a) : b[k] = a[k]
       /\ \A k \in 1 .. Len(f) : b[Len(a) + k] = f[k]
       /\ \A k \in DOMAIN b : k \notin DOMAIN a => k - Len(a) \in DOMAIN f /\ b[k] = f[k - Len(a)]
  BY <1>7, <1>8, <1>10, Concatenated DEF Lists
<1>13. /\ s \in Seq(Items) /\ Len(s) = Len(b) + 1 /\ DOMAIN s = 1 .. Len(b) + 1
       /\ \A k \in 1 .. Len(b) : s[k] = b[k]
       /\ s[Len(b) + 1] = e
       /\ \A k \in DOMAIN s : k \notin DOMAIN b => k = Len(b) + 1
  <2>1. s = b \o t
    BY <1>6, <1>10
  <2>2. b \in Seq(Items) /\ Len(b) \in Nat /\ DOMAIN b = 1 .. Len(b)
    BY <1>12
  <2>3. /\ s \in Seq(Items) /\ Len(b) \in Nat /\ Len(t) \in Nat
        /\ DOMAIN b = 1 .. Len(b) /\ DOMAIN t = 1 .. Len(t)
        /\ Len(s) = Len(b) + Len(t) /\ DOMAIN s = 1 .. Len(b) + Len(t)
        /\ \A k \in 1 .. Len(b) : s[k] = b[k]
        /\ \A k \in 1 .. Len(t) : s[Len(b) + k] = t[k]
        /\ \A k \in DOMAIN s : k \notin DOMAIN b => k - Len(b) \in DOMAIN t /\ s[k] = t[k - Len(b)]
    <3>1. b \in Seq(Items) /\ t \in Seq(Items) /\ s = b \o t
      BY <2>1, <2>2, <1>11
    <3> QED
      BY <3>1
  <2>4. s[Len(b) + 1] = t[1]
    BY <2>3, <1>11
  <2> QED
    BY <2>2, <2>3, <2>4, <1>11
<1>14. Delivers(s, i, j) /\ CookiesFirst(s)
  <2>1. \A k \in DOMAIN a : ~Numbered(a[k]) /\ a[k].kind # "iter"
    BY <1>8 DEF Numbered
  <2>2. Delivers(a, i, i) /\ CookiesFirst(a)
    BY <1>0, <2>1 DEF Delivers, CookiesFirst
  <2>3. Delivers(b, i, j) /\ CookiesFirst(b)
    <3>1. f \in Seq(Items) /\ Delivers(f, i, j) /\ CookiesFirst(f) /\ b = a \o f
      BY <1>7, <1>10 DEF Lists
    <3>2. i <= i
      BY <1>0
    <3>3. Delivers(b, i, j)
      BY <1>0, <1>8, <2>2, <3>1, <3>2, DeliversJoin, Zenon
    <3> QED
      BY <1>8, <2>2, <3>1, <3>3, CookiesFirstJoin, Zenon
  <2>4. ~Numbered(e) /\ e.kind # "iter"
    BY <1>9 DEF Numbered
  <2>5. Delivers(t, j, j) /\ CookiesFirst(t)
    BY <1>0, <1>11, <2>4 DEF Delivers, CookiesFirst
  <2>6. s = b \o t
    BY <1>6, <1>10
  <2>7. Delivers(s, i, j)
    <3>1. j <= j
      BY <1>0
    <3> QED
      BY <1>0, <1>11, <1>12, <2>3, <2>5, <2>6, <3>1, DeliversJoin, Zenon
  <2> QED
    BY <1>11, <1>12, <2>3, <2>5, <2>6, <2>7, CookiesFirstJoin
<1>15. \A k \in DOMAIN s : s[k].kind = "verf" => k \in DOMAIN a /\ s[k].verf = d
  <2> SUFFICES ASSUME NEW k \in DOMAIN s, s[k].kind = "verf"
               PROVE  k \in DOMAIN a /\ s[k].verf = d
    OBVIOUS
  <2>1. k \in DOMAIN b /\ s[k] = b[k]
    BY <1>9, <1>12, <1>13
  <2>2. k \in DOMAIN a
    <3> SUFFICES ASSUME k \notin DOMAIN a PROVE FALSE
      OBVIOUS
    <3>1. k - Len(a) \in DOMAIN f /\ b[k] = f[k - Len(a)]
      BY <1>12, <2>1
    <3>2. f[k - Len(a)].kind \in EntryKinds
      BY <1>7, <3>1 DEF Lists
    <3> QED
      BY <2>1, <3>1, <3>2 DEF EntryKinds
  <2> QED
    BY <1>8, <1>12, <2>1, <2>2
<1>16. \A k \in DOMAIN s : Numbered(s[k]) => k \notin DOMAIN a
  <2> SUFFICES ASSUME NEW k \in DOMAIN a, k \in DOMAIN s PROVE ~Numbered(s[k])
    OBVIOUS
  <2>1. k \in DOMAIN b /\ s[k] = b[k] /\ b[k] = a[k]
    BY <1>12, <1>13
  <2> QED
    BY <1>8, <2>1 DEF Numbered
<1>17. VerfFirst(s, d)
  BY <1>12, <1>13, <1>15, <1>16 DEF VerfFirst
<1>18. CookieKnown(s, last)
  BY <1>14 DEF CookieKnown, CookiesFirst
<1>19. \A k \in DOMAIN s : s[k].kind = "eof" => k = Len(s) /\ s[k] = e
  <2> SUFFICES ASSUME NEW k \in DOMAIN s, s[k].kind = "eof", k # Len(b) + 1 PROVE FALSE
    BY <1>13
  <2>1. k \in DOMAIN b /\ s[k] = b[k]
    BY <1>12, <1>13
  <2>2. CASE k \in DOMAIN a
    BY <1>8, <1>12, <2>1, <2>2
  <2>3. CASE k \notin DOMAIN a
    <3>1. k - Len(a) \in DOMAIN f /\ b[k] = f[k - Len(a)]
      BY <1>12, <2>1, <2>3
    <3>2. f[k - Len(a)].kind \in EntryKinds
      BY <1>7, <3>1 DEF Lists
    <3> QED
      BY <2>1, <3>1, <3>2 DEF EntryKinds
  <2> QED
    BY <2>2, <2>3
<1>20. Has(s, "verf")
  BY <1>8, <1>12, <1>13 DEF Has
<1>21. more => Has(s, "cookie") \/ d \in p
  <2> SUFFICES ASSUME more PROVE Has(s, "cookie") \/ d \in p
    OBVIOUS
  <2>1. CASE i # j
    <3>1. j \in i + 1 .. j
      BY <1>0, <2>1
    <3>2. PICK k \in DOMAIN s : s[k].kind = "iter" /\ s[k].entry = j
      BY <1>14, <3>1 DEF Delivers
    <3> QED
      BY <1>14, <3>2 DEF CookiesFirst, Has
  <2>2. CASE i = j
    <3>1. \A k \in DOMAIN s : s[k].kind # "cookie"
      <4>1. i + 1 .. j = {}
        BY <1>0, <2>2
      <4> QED
        BY <1>14, <4>1 DEF Delivers, Numbered
    <3>2. Len(b) + 1 \in DOMAIN s
      BY <1>12, <1>13
    <3>3. Promises(s)
      BY <1>9, <1>13, <3>1, <3>2 DEF Promises
    <3> QED
      BY <1>5, <3>3
  <2> QED
    BY <2>1, <2>2
<1>l. Lacking(s, d)
  <2>1. /\ \A k \in DOMAIN a : a[k].kind # "iter"
        /\ Lacking(f, d) /\ e.kind # "iter"
    BY <1>7, <1>8, <1>9 DEF Lists
  <2>2. Lacking(a, d) /\ Lacking(t, d)
    BY <1>11, <2>1 DEF Lacking
  <2>3. Lacking(b, d)
    BY <1>7, <1>8, <1>10, <2>1, <2>2, LackingJoin DEF Lists
  <2>4. s = b \o t
    BY <1>6, <1>10
  <2> QED
    BY <1>11, <1>12, <2>2, <2>3, <2>4, LackingJoin
<1>22. EndRight(s, d, verf, last, i, j, p)
  BY <1>0, <1>9, <1>19, <1>20, <1>21 DEF EndRight
<1> QED
  BY <1>0, <1>5, <1>13, <1>14, <1>17, <1>18, <1>22, <1>l DEF Reply

-----------------------------------------------------------------------------
(* Reading one item of a reply *)

LEMMA TailItems ==
    ASSUME NEW s \in Seq(Items), s # <<>>, NEW r, r = Tail(s)
    PROVE  /\ r \in Seq(Items) /\ Len(s) \in Nat /\ Len(s) >= 1 /\ DOMAIN s = 1 .. Len(s)
           /\ Len(r) = Len(s) - 1 /\ DOMAIN r = 1 .. Len(s) - 1
           /\ s[1] \in Items /\ 1 \in DOMAIN s
           /\ \A k \in DOMAIN r : k \in Nat /\ k + 1 \in DOMAIN s /\ 1 < k + 1 /\ r[k] = s[k + 1]
           /\ \A k \in DOMAIN s : k # 1 => /\ k - 1 \in DOMAIN r /\ r[k - 1] = s[k]
                                           /\ 1 < k /\ k \in Nat
  OBVIOUS

\* Without its first item, a reply has the same of everything else.
LEMMA TailHas ==
    ASSUME NEW s \in Seq(Items), s # <<>>, NEW r, r = Tail(s), NEW kind
    PROVE  /\ Has(r, kind) => Has(s, kind)
           /\ Has(s, kind) /\ s[1].kind # kind => Has(r, kind)
<1>1. ASSUME NEW k \in DOMAIN r, r[k].kind = kind PROVE Has(s, kind)
  <2>1. k + 1 \in DOMAIN s /\ r[k] = s[k + 1]
    BY TailItems
  <2> QED
    BY <1>1, <2>1 DEF Has
<1>2. ASSUME NEW k \in DOMAIN s, s[k].kind = kind, s[1].kind # kind PROVE Has(r, kind)
  <2>1. k # 1
    BY <1>2
  <2>2. k - 1 \in DOMAIN r /\ r[k - 1] = s[k]
    BY <2>1, TailItems
  <2> QED
    BY <1>2, <2>2 DEF Has
<1> QED
  BY <1>1, <1>2 DEF Has

LEMMA TailVerfFirst ==
    ASSUME NEW s \in Seq(Items), s # <<>>, NEW r, r = Tail(s), NEW d, VerfFirst(s, d)
    PROVE  /\ VerfFirst(r, d)
           /\ Numbered(s[1]) => ~Has(s, "verf") /\ ~Has(r, "verf")
<1>1. ASSUME NEW k \in DOMAIN r, r[k].kind = "verf",
             NEW l \in DOMAIN r, Numbered(r[l])
      PROVE  k < l
  <2>1. k + 1 \in DOMAIN s /\ s[k + 1].kind = "verf" /\ l + 1 \in DOMAIN s /\ Numbered(s[l + 1])
    BY <1>1, TailItems
  <2>2. k + 1 < l + 1 /\ k \in Nat /\ l \in Nat
    BY <2>1, TailItems DEF VerfFirst
  <2> QED
    BY <2>2
<1>2. ASSUME NEW k \in DOMAIN r, r[k].kind = "verf" PROVE r[k].verf = d
  BY <1>2, TailItems DEF VerfFirst
<1>3. ASSUME Numbered(s[1]) PROVE ~Has(s, "verf")
  <2>1. ASSUME NEW k \in DOMAIN s, s[k].kind = "verf" PROVE FALSE
    <3>1. k < 1
      BY <1>3, <2>1, TailItems DEF VerfFirst
    <3> QED
      BY <3>1, TailItems
  <2> QED
    BY <2>1 DEF Has
<1> QED
  BY <1>1, <1>2, <1>3, TailHas DEF VerfFirst

LEMMA TailLacking ==
    ASSUME NEW s \in Seq(Items), s # <<>>, NEW r, r = Tail(s), NEW d, Lacking(s, d)
    PROVE  Lacking(r, d)
  BY TailItems DEF Lacking

\* What comes behind an item that is not numbered comes behind its reader.
LEMMA TailDelivers ==
    ASSUME NEW s \in Seq(Items), s # <<>>, NEW r, r = Tail(s),
           NEW i \in Nat, NEW j \in Nat, Delivers(s, i, j), s[1].kind # "iter"
    PROVE  Delivers(r, i, j)
<1>1. \A k \in DOMAIN r : Numbered(r[k]) => Number(r[k]) \in i + 1 .. j
  BY TailItems DEF Delivers
<1>2. ASSUME NEW v \in i + 1 .. j PROVE \E k \in DOMAIN r : r[k].kind = "iter" /\ r[k].entry = v
  <2>1. PICK k \in DOMAIN s : s[k].kind = "iter" /\ s[k].entry = v
    BY DEF Delivers
  <2>2. k # 1
    BY <2>1
  <2>3. k - 1 \in DOMAIN r /\ r[k - 1] = s[k]
    BY <2>2, TailItems
  <2> QED
    BY <2>1, <2>3
<1>3. ASSUME NEW k \in DOMAIN r, NEW l \in DOMAIN r, k < l, Numbered(r[k]), Numbered(r[l])
      PROVE  \/ Number(r[k]) < Number(r[l])
             \/ Number(r[k]) = Number(r[l]) /\ r[k].kind = "cookie" /\ r[l].kind = "iter"
  <2>1. /\ k + 1 \in DOMAIN s /\ r[k] = s[k + 1] /\ k \in Nat
        /\ l + 1 \in DOMAIN s /\ r[l] = s[l + 1] /\ l \in Nat
    BY TailItems
  <2>2. k + 1 < l + 1
    BY <1>3, <2>1
  <2> QED
    BY <1>3, <2>1, <2>2 DEF Delivers
<1> QED
  BY <1>1, <1>2, <1>3 DEF Delivers

\* An item that changes nothing else.
LEMMA ReplyTakes ==
    ASSUME NEW p, NEW s, s # <<>>, NEW r, r = Tail(s), NEW d \in Directories,
           NEW verf, NEW last, NEW i \in Nat, Reply(s, d, verf, last, i, p),
           s[1].kind \notin {"verf", "cookie", "iter", "eof"}
    PROVE  Reply(r, d, verf, last, i, p)
<1>1. s \in Seq(Items) /\ VerfFirst(s, d) /\ CookieKnown(s, last) /\ Lacking(s, d)
  BY DEF Reply
<1>2. PICK j \in i .. Len(Entries[d]) : Delivers(s, i, j) /\ EndRight(s, d, verf, last, i, j, p)
  BY DEF Reply
<1>3. j \in Nat
  BY <1>2, EntryFacts
<1>4. Delivers(r, i, j) /\ VerfFirst(r, d)
  BY <1>1, <1>2, <1>3, TailDelivers, TailVerfFirst
<1>5. \A kind \in {"verf", "cookie"} : Has(r, kind) <=> Has(s, kind)
  BY <1>1, TailHas
<1>6. CookieKnown(r, last)
  <2> SUFFICES ASSUME NEW k \in DOMAIN r, r[k].kind = "iter"
               PROVE  \/ \E l \in DOMAIN r : l < k /\ r[l].kind = "cookie" /\ r[l].cookie = r[k].entry
                      \/ /\ ~Has(r, "verf") /\ last = r[k].entry
                         /\ \A l \in DOMAIN r : l < k => r[l].kind # "cookie"
    BY DEF CookieKnown
  <2>1. k + 1 \in DOMAIN s /\ r[k] = s[k + 1] /\ k \in Nat
    BY <1>1, TailItems
  <2>2. CASE \E l \in DOMAIN s : l < k + 1 /\ s[l].kind = "cookie" /\ s[l].cookie = s[k + 1].entry
    <3>1. PICK l \in DOMAIN s : l < k + 1 /\ s[l].kind = "cookie" /\ s[l].cookie = s[k + 1].entry
      BY <2>2
    <3>2. l # 1
      BY <3>1
    <3>3. l - 1 \in DOMAIN r /\ r[l - 1] = s[l] /\ l \in Nat
      BY <1>1, <3>2, TailItems
    <3> QED
      BY <2>1, <3>1, <3>3
  <2>3. CASE /\ ~Has(s, "verf") /\ last = s[k + 1].entry
             /\ \A l \in DOMAIN s : l < k + 1 => s[l].kind # "cookie"
    <3>1. \A l \in DOMAIN r : l < k => r[l].kind # "cookie"
      <4> SUFFICES ASSUME NEW l \in DOMAIN r, l < k PROVE r[l].kind # "cookie"
        OBVIOUS
      <4>1. l + 1 \in DOMAIN s /\ r[l] = s[l + 1] /\ l \in Nat
        BY <1>1, TailItems
      <4>2. l + 1 < k + 1
        BY <2>1, <4>1
      <4> QED
        BY <2>3, <4>1, <4>2
    <3> QED
      BY <1>5, <2>1, <2>3, <3>1
  <2> QED
    BY <1>1, <2>1, <2>2, <2>3 DEF CookieKnown
<1>7. EndRight(r, d, verf, last, i, j, p)
  <2> SUFFICES ASSUME NEW k \in DOMAIN r, r[k].kind = "eof"
               PROVE  /\ k = Len(r)
                      /\ verf = d \/ Has(r, "verf")
                      /\ ~r[k].more => j = Len(Entries[d])
                      /\ r[k].more =>
                            \/ Has(r, "cookie")
                            \/ ~Has(r, "verf") /\ last = i
                            \/ /\ ~Has(r, "verf")
                               /\ \E l \in DOMAIN r : r[l].kind = "iter" /\ r[l].entry = last
                            \/ d \in p /\ (Has(r, "verf") \/ last = Junk)
    BY DEF EndRight
  <2>1. k + 1 \in DOMAIN s /\ r[k] = s[k + 1] /\ k \in Nat
    BY <1>1, TailItems
  <2>2. /\ k + 1 = Len(s)
        /\ verf = d \/ Has(s, "verf")
        /\ ~r[k].more => j = Len(Entries[d])
        /\ r[k].more =>
              \/ Has(s, "cookie")
              \/ ~Has(s, "verf") /\ last = i
              \/ /\ ~Has(s, "verf")
                 /\ \E l \in DOMAIN s : s[l].kind = "iter" /\ s[l].entry = last
              \/ d \in p /\ (Has(s, "verf") \/ last = Junk)
    BY <1>2, <2>1 DEF EndRight
  <2>3. ASSUME NEW l \in DOMAIN s, s[l].kind = "iter"
        PROVE  l - 1 \in DOMAIN r /\ r[l - 1] = s[l]
    <3>1. l # 1
      BY <2>3
    <3> QED
      BY <1>1, <3>1, TailItems
  <2>4. k = Len(r)
    BY <1>1, <2>1, <2>2, TailItems
  <2> QED
    BY <1>5, <2>2, <2>3, <2>4
<1> QED
  BY <1>1, <1>2, <1>4, <1>6, <1>7, TailItems, TailLacking DEF Reply

\* What is known of the end of a reply, once its first item has been read.
LEMMA TailEnd ==
    ASSUME NEW p, NEW s \in Seq(Items), s # <<>>, NEW r, r = Tail(s), NEW d, NEW verf, NEW last,
           NEW i, NEW j, EndRight(s, d, verf, last, i, j, p),
           NEW k \in DOMAIN r, r[k].kind = "eof"
    PROVE  /\ k = Len(r)
           /\ verf = d \/ Has(s, "verf")
           /\ ~r[k].more => j = Len(Entries[d])
           /\ r[k].more =>
                 \/ Has(s, "cookie")
                 \/ ~Has(s, "verf") /\ last = i
                 \/ /\ ~Has(s, "verf")
                    /\ \E l \in DOMAIN s : s[l].kind = "iter" /\ s[l].entry = last
                 \/ d \in p /\ (Has(s, "verf") \/ last = Junk)
<1>1. k + 1 \in DOMAIN s /\ r[k] = s[k + 1] /\ k \in Nat /\ Len(r) = Len(s) - 1 /\ Len(s) \in Nat
  BY TailItems
<1>2. s[k + 1].kind = "eof"
  BY <1>1
<1>3. k + 1 = Len(s)
  BY <1>1, <1>2 DEF EndRight
<1>4. k = Len(r)
  BY <1>1, <1>3
<1> QED
  BY <1>1, <1>2, <1>4 DEF EndRight

\* The verifier: it is the server's.
LEMMA ReplyVerf ==
    ASSUME NEW p, NEW s, s # <<>>, NEW r, r = Tail(s), NEW d \in Directories,
           NEW verf, NEW last, NEW i \in Nat, Reply(s, d, verf, last, i, p),
           s[1].kind = "verf"
    PROVE  s[1].verf = d /\ Reply(r, d, d, Junk, i, p)
<1>1. s \in Seq(Items) /\ VerfFirst(s, d) /\ CookieKnown(s, last) /\ Lacking(s, d)
  BY DEF Reply
<1>2. PICK j \in i .. Len(Entries[d]) : Delivers(s, i, j) /\ EndRight(s, d, verf, last, i, j, p)
  BY DEF Reply
<1>3. j \in Nat
  BY <1>2, EntryFacts
<1>4. Delivers(r, i, j) /\ VerfFirst(r, d)
  BY <1>1, <1>2, <1>3, TailDelivers, TailVerfFirst
<1>5. Has(s, "verf") /\ s[1].verf = d
  BY <1>1, TailItems DEF Has, VerfFirst
<1>6. Has(s, "cookie") => Has(r, "cookie")
  BY <1>1, TailHas
<1>7. CookieKnown(r, Junk)
  <2> SUFFICES ASSUME NEW k \in DOMAIN r, r[k].kind = "iter"
               PROVE  \E l \in DOMAIN r : l < k /\ r[l].kind = "cookie" /\ r[l].cookie = r[k].entry
    BY DEF CookieKnown
  <2>1. k + 1 \in DOMAIN s /\ r[k] = s[k + 1] /\ k \in Nat
    BY <1>1, TailItems
  <2>2. PICK l \in DOMAIN s : l < k + 1 /\ s[l].kind = "cookie" /\ s[l].cookie = s[k + 1].entry
    BY <1>1, <1>5, <2>1 DEF CookieKnown
  <2>3. l # 1
    BY <2>2
  <2>4. l - 1 \in DOMAIN r /\ r[l - 1] = s[l] /\ l \in Nat
    BY <1>1, <2>3, TailItems
  <2>5. l - 1 < k
    BY <2>1, <2>2, <2>4
  <2>6. r[l - 1].kind = "cookie" /\ r[l - 1].cookie = r[k].entry
    BY <2>1, <2>2, <2>4
  <2> QED
    BY <2>4, <2>5, <2>6, Zenon
<1>8. EndRight(r, d, d, Junk, i, j, p)
  <2> SUFFICES ASSUME NEW k \in DOMAIN r, r[k].kind = "eof"
               PROVE  /\ k = Len(r) /\ (~r[k].more => j = Len(Entries[d]))
                      /\ r[k].more => Has(r, "cookie") \/ d \in p
    BY DEF EndRight
  <2> QED
    BY <1>1, <1>2, <1>5, <1>6, TailEnd
<1>9. r \in Seq(Items) /\ Lacking(r, d)
  BY <1>1, TailItems, TailLacking
<1> QED
  BY <1>2, <1>4, <1>5, <1>7, <1>8, <1>9 DEF Reply

\* The cookie of an entry, which is delivered next.
LEMMA ReplyCookie ==
    ASSUME NEW p, NEW s, s # <<>>, NEW r, r = Tail(s), NEW d \in Directories,
           NEW verf, NEW last, NEW i \in Nat, Reply(s, d, verf, last, i, p),
           s[1].kind = "cookie"
    PROVE  Reply(r, d, verf, s[1].cookie, i, p)
<1>1. s \in Seq(Items) /\ VerfFirst(s, d) /\ CookieKnown(s, last) /\ Lacking(s, d)
  BY DEF Reply
<1>2. PICK j \in i .. Len(Entries[d]) : Delivers(s, i, j) /\ EndRight(s, d, verf, last, i, j, p)
  BY DEF Reply
<1>3. j \in Nat
  BY <1>2, EntryFacts
<1>4. 1 \in DOMAIN s /\ Numbered(s[1]) /\ Number(s[1]) = s[1].cookie
  BY <1>1, TailItems DEF Numbered, Number
<1>5. Delivers(r, i, j) /\ VerfFirst(r, d) /\ ~Has(s, "verf") /\ ~Has(r, "verf")
  BY <1>1, <1>2, <1>3, <1>4, TailDelivers, TailVerfFirst
<1>6. CookieKnown(r, s[1].cookie)
  <2> SUFFICES ASSUME NEW k \in DOMAIN r, r[k].kind = "iter"
               PROVE  \/ \E l \in DOMAIN r : l < k /\ r[l].kind = "cookie" /\ r[l].cookie = r[k].entry
                      \/ /\ s[1].cookie = r[k].entry
                         /\ \A l \in DOMAIN r : l < k => r[l].kind # "cookie"
    BY <1>5 DEF CookieKnown
  <2>1. k + 1 \in DOMAIN s /\ r[k] = s[k + 1] /\ k \in Nat /\ 1 < k + 1
    BY <1>1, TailItems
  <2>2. PICK l \in DOMAIN s : l < k + 1 /\ s[l].kind = "cookie" /\ s[l].cookie = s[k + 1].entry
    BY <1>1, <1>4, <2>1 DEF CookieKnown
  <2>3. CASE l # 1
    <3>1. l - 1 \in DOMAIN r /\ r[l - 1] = s[l] /\ l \in Nat
      BY <1>1, <2>3, TailItems
    <3>2. l - 1 < k
      BY <2>1, <2>2, <3>1
    <3>3. r[l - 1].kind = "cookie" /\ r[l - 1].cookie = r[k].entry
      BY <2>1, <2>2, <3>1
    <3> QED
      BY <3>1, <3>2, <3>3, Zenon
  <2>4. CASE l = 1
    <3>1. s[1].cookie = r[k].entry
      BY <2>1, <2>2, <2>4
    <3>2. Numbered(s[k + 1]) /\ Number(s[k + 1]) = s[1].cookie
      BY <2>1, <3>1 DEF Numbered, Number
    <3>3. ASSUME NEW m \in DOMAIN r, m < k, r[m].kind = "cookie" PROVE FALSE
      <4>1. m + 1 \in DOMAIN s /\ r[m] = s[m + 1] /\ m \in Nat /\ 1 < m + 1
        BY <1>1, TailItems
      <4>2. Numbered(s[m + 1]) /\ s[m + 1].kind # "iter" /\ Number(s[m + 1]) \in Nat
        BY <1>1, <3>3, <4>1, NumbersAreNat DEF Numbered
      <4>3. Number(s[1]) < Number(s[m + 1])
        BY <1>2, <1>4, <4>1, <4>2 DEF Delivers
      <4>4. m + 1 < k + 1
        BY <2>1, <3>3, <4>1
      <4>5. Number(s[m + 1]) <= Number(s[k + 1])
        <5>1. Number(s[m + 1]) < Number(s[k + 1]) \/ Number(s[m + 1]) = Number(s[k + 1])
          BY <1>2, <2>1, <3>2, <4>1, <4>2, <4>4 DEF Delivers
        <5>2. Number(s[k + 1]) \in Nat
          BY <1>1, <2>1, <3>2, NumbersAreNat
        <5> QED
          BY <4>2, <5>1, <5>2
      <4>6. Number(s[1]) \in Nat
        BY <1>1, <1>4, NumbersAreNat
      <4> QED
        BY <1>4, <3>2, <4>2, <4>3, <4>5, <4>6
    <3> QED
      BY <3>1, <3>3
  <2> QED
    BY <2>3, <2>4
<1>7. \E l \in DOMAIN r : r[l].kind = "iter" /\ r[l].entry = s[1].cookie
  <2>1. s[1].cookie \in i + 1 .. j
    BY <1>2, <1>4 DEF Delivers
  <2>2. PICK l \in DOMAIN s : s[l].kind = "iter" /\ s[l].entry = s[1].cookie
    BY <1>2, <2>1 DEF Delivers
  <2>3. l # 1
    BY <2>2
  <2>4. l - 1 \in DOMAIN r /\ r[l - 1] = s[l]
    BY <1>1, <2>3, TailItems
  <2>5. r[l - 1].kind = "iter" /\ r[l - 1].entry = s[1].cookie
    BY <2>2, <2>4
  <2> QED
    BY <2>4, <2>5, Zenon
<1>8. EndRight(r, d, verf, s[1].cookie, i, j, p)
  <2> SUFFICES ASSUME NEW k \in DOMAIN r, r[k].kind = "eof"
               PROVE  k = Len(r) /\ verf = d /\ (~r[k].more => j = Len(Entries[d]))
    BY <1>5, <1>7 DEF EndRight
  <2>1. EndRight(s, d, verf, last, i, j, p)
    BY <1>2
  <2>2. /\ k = Len(r) /\ (verf = d \/ Has(s, "verf"))
        /\ ~r[k].more => j = Len(Entries[d])
    BY <1>1, <2>1, TailEnd
  <2> QED
    BY <1>5, <2>2
<1> QED
  BY <1>1, <1>2, <1>5, <1>6, <1>8, TailItems, TailLacking DEF Reply

\* The call of the callback: it is for the next entry, whose cookie was the
\* last one read.
LEMMA ReplyIter ==
    ASSUME NEW p, NEW s, s # <<>>, NEW r, r = Tail(s), NEW d \in Directories,
           NEW verf, NEW last, NEW i \in Nat, Reply(s, d, verf, last, i, p),
           s[1].kind = "iter"
    PROVE  /\ s[1].entry = i + 1 /\ i + 1 \in DOMAIN Entries[d]
           /\ s[1].lacks \subseteq Entries[d][i + 1].lacks
           /\ Reply(r, d, verf, last, i + 1, p)
<1>1. s \in Seq(Items) /\ VerfFirst(s, d) /\ CookieKnown(s, last) /\ Lacking(s, d)
  BY DEF Reply
<1>2. PICK j \in i .. Len(Entries[d]) : Delivers(s, i, j) /\ EndRight(s, d, verf, last, i, j, p)
  BY DEF Reply
<1>3. j \in Nat /\ Len(Entries[d]) \in Nat /\ DOMAIN Entries[d] = 1 .. Len(Entries[d])
  BY <1>2, EntryFacts
<1>4. 1 \in DOMAIN s /\ Numbered(s[1]) /\ Number(s[1]) = s[1].entry /\ s[1].kind # "cookie"
  BY <1>1, TailItems DEF Numbered, Number
<1>5. s[1].entry \in i + 1 .. j
  BY <1>2, <1>4 DEF Delivers
<1>6. ASSUME NEW k \in DOMAIN r, Numbered(r[k])
      PROVE  Number(r[k]) \in Nat /\ Number(r[k]) > s[1].entry
  <2>1. k + 1 \in DOMAIN s /\ r[k] = s[k + 1] /\ 1 < k + 1
    BY <1>1, TailItems
  <2>2. Number(s[1]) < Number(s[k + 1])
    BY <1>2, <1>4, <1>6, <2>1 DEF Delivers
  <2>3. Number(r[k]) \in Nat
    BY <1>1, <1>6, TailItems, NumbersAreNat
  <2> QED
    BY <1>4, <1>5, <2>1, <2>2, <2>3
<1>7. s[1].entry = i + 1
  <2>1. i + 1 \in i + 1 .. j
    BY <1>3, <1>5
  <2>2. PICK k \in DOMAIN s : s[k].kind = "iter" /\ s[k].entry = i + 1
    BY <1>2, <2>1 DEF Delivers
  <2>3. CASE k # 1
    <3>1. k - 1 \in DOMAIN r /\ r[k - 1] = s[k]
      BY <1>1, <2>3, TailItems
    <3>2. Numbered(r[k - 1]) /\ Number(r[k - 1]) = i + 1
      BY <2>2, <3>1 DEF Numbered, Number
    <3> QED
      BY <1>3, <1>5, <1>6, <3>1, <3>2
  <2> QED
    BY <2>2, <2>3
<1>8. i + 1 \in i + 1 .. j /\ i + 1 \in DOMAIN Entries[d] /\ j \in i + 1 .. Len(Entries[d])
  BY <1>2, <1>3, <1>5, <1>7
<1>9. Delivers(r, i + 1, j)
  <2>1. ASSUME NEW k \in DOMAIN r, Numbered(r[k]) PROVE Number(r[k]) \in i + 1 + 1 .. j
    <3>1. Number(r[k]) \in i + 1 .. j
      BY <1>1, <1>2, <2>1, TailItems DEF Delivers
    <3> QED
      BY <1>6, <1>7, <2>1, <3>1
  <2>2. ASSUME NEW v \in i + 1 + 1 .. j
        PROVE  \E k \in DOMAIN r : r[k].kind = "iter" /\ r[k].entry = v
    <3>1. v \in i + 1 .. j /\ v # i + 1
      BY <1>3
    <3>2. PICK k \in DOMAIN s : s[k].kind = "iter" /\ s[k].entry = v
      BY <1>2, <3>1 DEF Delivers
    <3>3. k # 1
      BY <1>7, <3>1, <3>2
    <3>4. k - 1 \in DOMAIN r /\ r[k - 1] = s[k]
      BY <1>1, <3>3, TailItems
    <3>5. r[k - 1].kind = "iter" /\ r[k - 1].entry = v
      BY <3>2, <3>4
    <3> QED
      BY <3>4, <3>5, Zenon
  <2>3. ASSUME NEW k \in DOMAIN r, NEW l \in DOMAIN r, k < l, Numbered(r[k]), Numbered(r[l])
        PROVE  \/ Number(r[k]) < Number(r[l])
               \/ Number(r[k]) = Number(r[l]) /\ r[k].kind = "cookie" /\ r[l].kind = "iter"
    <3>1. /\ k + 1 \in DOMAIN s /\ r[k] = s[k + 1] /\ k \in Nat
          /\ l + 1 \in DOMAIN s /\ r[l] = s[l + 1] /\ l \in Nat
      BY <1>1, TailItems
    <3>2. k + 1 < l + 1
      BY <2>3, <3>1
    <3> QED
      BY <1>2, <2>3, <3>1, <3>2 DEF Delivers
  <2> QED
    BY <2>1, <2>2, <2>3 DEF Delivers
<1>10. VerfFirst(r, d) /\ ~Has(s, "verf") /\ ~Has(r, "verf")
  BY <1>1, <1>4, TailVerfFirst
<1>11. last = i + 1
  <2>1. \A l \in DOMAIN s : ~(l < 1)
    BY <1>1, TailItems
  <2> QED
    BY <1>1, <1>4, <1>7, <2>1 DEF CookieKnown
<1>12. CookieKnown(r, last)
  <2> SUFFICES ASSUME NEW k \in DOMAIN r, r[k].kind = "iter"
               PROVE  \E l \in DOMAIN r : l < k /\ r[l].kind = "cookie" /\ r[l].cookie = r[k].entry
    BY DEF CookieKnown
  <2>1. k + 1 \in DOMAIN s /\ r[k] = s[k + 1] /\ k \in Nat
    BY <1>1, TailItems
  <2>2. r[k].entry # last
    <3>1. Numbered(r[k]) /\ Number(r[k]) = r[k].entry
      BY DEF Numbered, Number
    <3> QED
      BY <1>6, <1>7, <1>11, <3>1
  <2>3. PICK l \in DOMAIN s : l < k + 1 /\ s[l].kind = "cookie" /\ s[l].cookie = s[k + 1].entry
    BY <1>1, <2>1, <2>2 DEF CookieKnown
  <2>4. l # 1
    BY <2>3
  <2>5. l - 1 \in DOMAIN r /\ r[l - 1] = s[l] /\ l \in Nat
    BY <1>1, <2>4, TailItems
  <2>6. l - 1 < k
    BY <2>1, <2>3, <2>5
  <2>7. r[l - 1].kind = "cookie" /\ r[l - 1].cookie = r[k].entry
    BY <2>1, <2>3, <2>5
  <2> QED
    BY <2>5, <2>6, <2>7, Zenon
<1>13. EndRight(r, d, verf, last, i + 1, j, p)
  <2> SUFFICES ASSUME NEW k \in DOMAIN r, r[k].kind = "eof"
               PROVE  k = Len(r) /\ verf = d /\ (~r[k].more => j = Len(Entries[d]))
    BY <1>10, <1>11 DEF EndRight
  <2> QED
    BY <1>1, <1>2, <1>10, TailEnd
<1>14. s[1].lacks \subseteq Entries[d][i + 1].lacks
  BY <1>1, <1>4, <1>7 DEF Lacking
<1> QED
  BY <1>1, <1>7, <1>8, <1>9, <1>10, <1>12, <1>13, <1>14, TailItems, TailLacking DEF Reply

\* The end: what is written back is the cookie of the last entry delivered,
\* with the server's verifier, or all entries have been delivered, or the server
\* promised more and sent none.
LEMMA ReplyEof ==
    ASSUME NEW p, NEW s, s # <<>>, NEW d \in Directories,
           NEW verf, NEW last, NEW i \in Nat, Reply(s, d, verf, last, i, p),
           s[1].kind = "eof"
    PROVE  IF s[1].more THEN \/ last = i /\ verf = d
                             \/ last = Junk /\ d \in p
                        ELSE i = Len(Entries[d])
<1>1. s \in Seq(Items)
  BY DEF Reply
<1>2. PICK j \in i .. Len(Entries[d]) : Delivers(s, i, j) /\ EndRight(s, d, verf, last, i, j, p)
  BY DEF Reply
<1>3. j \in Nat /\ Len(Entries[d]) \in Nat /\ i <= j
  BY <1>2, EntryFacts
<1>4. 1 \in DOMAIN s /\ 1 = Len(s) /\ DOMAIN s = 1 .. Len(s)
  <2>1. 1 \in DOMAIN s /\ DOMAIN s = 1 .. Len(s)
    BY <1>1, TailItems
  <2> QED
    BY <1>2, <2>1 DEF EndRight
<1>5. \A k \in DOMAIN s : k = 1
  BY <1>4
<1>6. ~Has(s, "verf") /\ ~Has(s, "cookie") /\ ~Has(s, "iter")
  BY <1>5 DEF Has
<1>7. i = j
  <2> SUFFICES ASSUME i < j PROVE FALSE
    BY <1>3
  <2>1. i + 1 \in i + 1 .. j
    BY <1>3
  <2> QED
    BY <1>2, <1>6, <2>1 DEF Delivers, Has
<1>8. s[1].more \in BOOLEAN
  BY <1>1, <1>4, ItemFacts
<1> QED
  BY <1>2, <1>4, <1>6, <1>7, <1>8 DEF EndRight, Has

-----------------------------------------------------------------------------
(* The invariant *)

CallType ==
    [proc : {"getport", "dump", "mnt", "readdirplus"}, dir : Directories \cup {NoDir},
     phase : CallPhases, cookie : Nat \cup {Junk}, verf : Directories \cup {NoVerf},
     last : Nat \cup {Junk}, more : BOOLEAN, items : Seq(Items), have : 0 .. MaxBuffer,
     coming : Nat, missing : 0 .. MaxBuffer, tried : BOOLEAN]

Types ==
    /\ stack \in Seq(CallType)
    /\ seen \in [Directories -> Seq(Nat)] /\ cached \in [Directories -> SUBSET Nat]
    /\ over \subseteq Directories /\ unread \subseteq over /\ promised \subseteq Directories
    /\ status \in {"ok", "ended", "crashed", "astray"}
    /\ program \in {"cnfs", "nfsls"} /\ port \in Ports \cup {Unknown} /\ usable \in BOOLEAN
    /\ phase \in {"start", "getport", "dump", "mnt", "listing", "serve", "mounted", "finished"}

\* A call of nfs_readdirplus: what it has sent, what is left of its reply, and
\* what it has found out.
Listing(c) ==
    /\ c.dir \in Directories
    /\ c.phase = "send" => /\ c.cookie = Len(seen[c.dir])
                           /\ c.cookie # 0 => c.verf = c.dir
    /\ c.phase \in {"recv", "read", "again"} =>
          Reply(c.items, c.dir, c.verf, c.last, Len(seen[c.dir]), promised)
    /\ c.phase = "done" =>
          IF c.more THEN \/ c.cookie = Len(seen[c.dir]) /\ c.verf = c.dir
                         \/ c.cookie = Junk /\ c.dir \in promised
                    ELSE Len(seen[c.dir]) = Len(Entries[c.dir])

\* Any other call.
Other(c) ==
    /\ c.dir = NoDir /\ c.phase # "done"
    /\ \A k \in DOMAIN c.items : c.items[k].kind \in Plain \cup {"port"}

Right(c) ==
    /\ c.phase = "again" => c.have + c.missing <= MaxBuffer
    /\ IF c.proc = "readdirplus" THEN Listing(c) ELSE Other(c)

\* The calls are right, those further out are in the callback, and no two are
\* for the same directory, nor any for one that was read.
Nested ==
    \A i \in DOMAIN stack :
        /\ Right(stack[i])
        /\ i < Len(stack) => stack[i].phase = "read"
        /\ stack[i].dir \notin over
        /\ \A j \in DOMAIN stack : i # j => stack[i].dir # stack[j].dir

\* Nothing is known yet of the directory below an entry not delivered.
Untouched ==
    \A d \in Directories : \A k \in DOMAIN Entries[d] :
        LET b == Entries[d][k].below
        IN  b # NoDir /\ k > Len(seen[d]) =>
                /\ seen[b] = <<>> /\ b \notin over
                /\ \A i \in DOMAIN stack : stack[i].dir # b

\* What was delivered is in the cache, or is what the callback passes over.
Bounded ==
    \A d \in Directories :
        /\ Len(seen[d]) <= Len(Entries[d])
        /\ \A i \in 1 .. Len(seen[d]) : i \in cached[d] \/ PassedOver(d, i)

\* What is going on in each phase.
Stages ==
    /\ phase = "start" => stack = <<>>
    /\ phase \in {"getport", "dump", "mnt"} => Len(stack) = 1 /\ Top.proc = phase
    /\ phase \in {"start", "getport", "dump", "mnt"} =>
          over = {} /\ \A d \in Directories : seen[d] = <<>>
    /\ phase = "listing" => /\ stack # <<>> /\ stack[1].dir = Root
                            /\ \A i \in DOMAIN stack : stack[i].proc = "readdirplus"
    /\ phase \in {"serve", "mounted", "finished"} =>
          stack = <<>> /\ (port # "zero" => Root \in over)

IInv ==
    /\ Types /\ OnlyFirstReplyBelow /\ CookiesAreServers
    /\ status = "ok" => Nested /\ Untouched /\ Bounded /\ Stages

-----------------------------------------------------------------------------
(* The calls on the stack *)

\* The invariant speaks of calls as far as these fields go.
LEMMA CallFields ==
    ASSUME NEW c \in CallType
    PROVE  /\ c.proc \in {"getport", "dump", "mnt", "readdirplus"}
           /\ c.dir \in Directories \cup {NoDir} /\ c.phase \in CallPhases
           /\ c.items \in Seq(Items) /\ c.more \in BOOLEAN
           /\ c.have \in 0 .. MaxBuffer /\ c.missing \in 0 .. MaxBuffer /\ c.coming \in Nat
           /\ c.have \in Nat /\ c.missing \in Nat /\ MaxBuffer \in Nat
  BY ReadDirPlusAssumption DEF CallType

LEMMA NewCallType ==
    ASSUME NEW proc \in {"getport", "dump", "mnt", "readdirplus"},
           NEW dir \in Directories \cup {NoDir}
    PROVE  NewCall(proc, dir) \in CallType
<1>1. <<>> \in Seq(Items) /\ 0 \in 0 .. MaxBuffer
  BY ReadDirPlusAssumption
<1> QED
  BY <1>1 DEF NewCall, CallType, CallPhases

LEMMA SetTopFacts ==
    ASSUME NEW S, NEW s \in Seq(S), s # <<>>, NEW c \in S, NEW t,
           t = [s EXCEPT ![Len(s)] = c]
    PROVE  /\ Len(s) \in Nat /\ Len(s) >= 1 /\ DOMAIN s = 1 .. Len(s) /\ Len(s) \in DOMAIN s
           /\ t \in Seq(S) /\ Len(t) = Len(s) /\ DOMAIN t = DOMAIN s /\ t # <<>>
           /\ t[Len(s)] = c /\ \A i \in DOMAIN s : i # Len(s) => t[i] = s[i]
  OBVIOUS

LEMMA AppendFacts ==
    ASSUME NEW S, NEW s \in Seq(S), NEW c \in S, NEW t, t = Append(s, c)
    PROVE  /\ Len(s) \in Nat /\ DOMAIN s = 1 .. Len(s)
           /\ t \in Seq(S) /\ Len(t) = Len(s) + 1 /\ DOMAIN t = 1 .. Len(s) + 1 /\ t # <<>>
           /\ t[Len(s) + 1] = c /\ \A i \in DOMAIN s : t[i] = s[i]
  OBVIOUS

LEMMA FrontFacts ==
    ASSUME NEW S, NEW s \in Seq(S), Len(s) > 1, NEW t, t = Front(s)
    PROVE  /\ Len(s) \in Nat /\ DOMAIN s = 1 .. Len(s)
           /\ t \in Seq(S) /\ Len(t) = Len(s) - 1 /\ DOMAIN t = 1 .. Len(s) - 1 /\ t # <<>>
           /\ \A i \in DOMAIN t : i \in DOMAIN s /\ t[i] = s[i]
<1>1. Len(s) \in Nat /\ DOMAIN s = 1 .. Len(s) /\ \A i \in 1 .. Len(s) : s[i] \in S
  OBVIOUS
<1>2. PICK m \in Nat : m = Len(s) - 1
  <2>1. Len(s) - 1 \in Nat
    BY <1>1
  <2> QED
    BY <2>1
<1>3. t = SubSeq(s, 1, m)
  BY <1>2 DEF Front
<1>4. m >= 1 /\ m <= Len(s)
  BY <1>1, <1>2
<1>5. t = [i \in 1 .. m |-> s[i]]
  BY <1>1, <1>3, <1>4
<1>6. t \in Seq(S) /\ Len(t) = m /\ DOMAIN t = 1 .. m
  <2>1. \A i \in 1 .. m : s[i] \in S
    BY <1>1, <1>2, <1>4
  <2> QED
    BY <1>5, <2>1
<1>7. \A i \in DOMAIN t : i \in DOMAIN s /\ t[i] = s[i]
  BY <1>1, <1>2, <1>4, <1>5
<1> QED
  BY <1>1, <1>2, <1>4, <1>6, <1>7

LEMMA OneCall ==
    ASSUME NEW S, NEW c \in S, NEW t, t = <<c>>
    PROVE  /\ t \in Seq(S) /\ Len(t) = 1 /\ DOMAIN t = {1} /\ t[1] = c /\ t # <<>>
  OBVIOUS

\* The innermost call.
LEMMA TopFacts ==
    ASSUME Types, stack # <<>>
    PROVE  /\ Len(stack) \in Nat /\ Len(stack) >= 1 /\ DOMAIN stack = 1 .. Len(stack)
           /\ Len(stack) \in DOMAIN stack /\ Top \in CallType /\ Top = stack[Len(stack)]
  BY DEF Types, Top

LEMMA InListing ==
    ASSUME Types, Stages, stack # <<>>
    PROVE  /\ phase \in {"getport", "dump", "mnt", "listing"}
           /\ Top.proc = "readdirplus" => phase = "listing"
           /\ Len(stack) # 1 => phase = "listing"
           /\ phase # "listing" => Top.proc = phase
  BY DEF Types, Stages

\* A reply is right for whoever promised what, but for its own directory.
LEMMA SameReply ==
    ASSUME NEW p, NEW q, NEW d, d \in p <=> d \in q,
           NEW s, NEW verf, NEW last, NEW i, Reply(s, d, verf, last, i, p)
    PROVE  Reply(s, d, verf, last, i, q)
  BY DEF Reply, EndRight

\* The innermost call goes on, and nothing else changes, except that the server
\* may have promised it more.
LEMMA TopStep ==
    ASSUME IInv, status = "ok", stack # <<>>,
           NEW c \in CallType, c.proc = Top.proc, c.dir = Top.dir, Right(c)',
           stack' = SetTop(c), UNCHANGED <<listings, status, program, phase, usable>>,
           promised' \in {promised, promised \cup {Top.dir}}, promised' \subseteq Directories,
           port' \in Ports \cup {Unknown}
    PROVE  IInv'
<1>1. Types /\ OnlyFirstReplyBelow /\ CookiesAreServers /\ Nested /\ Untouched /\ Bounded /\ Stages
  BY DEF IInv
<1>2. seen' = seen /\ cached' = cached /\ over' = over /\ unread' = unread
  BY DEF listings
<1> PICK n : n = Len(stack)
  OBVIOUS
<1>3. /\ n \in Nat /\ n >= 1 /\ DOMAIN stack = 1 .. n /\ n \in DOMAIN stack
      /\ stack' \in Seq(CallType) /\ Len(stack') = n /\ DOMAIN stack' = DOMAIN stack
      /\ stack'[n] = c /\ \A i \in DOMAIN stack : i # n => stack'[i] = stack[i]
      /\ Top = stack[n] /\ stack' # <<>>
  <2>1. stack \in Seq(CallType)
    BY <1>1 DEF Types
  <2>2. stack' = [stack EXCEPT ![Len(stack)] = c]
    BY DEF SetTop
  <2> QED
    BY <2>1, <2>2, SetTopFacts DEF Top
<1>4. Types'
  BY <1>1, <1>2, <1>3 DEF Types
<1>5. OnlyFirstReplyBelow'
  BY <1>1, <1>2 DEF OnlyFirstReplyBelow
<1>6. \A i \in DOMAIN stack : /\ stack'[i].dir = stack[i].dir /\ stack'[i].proc = stack[i].proc
                             /\ i # n => stack'[i].phase = "read"
  <2>1. \A i \in DOMAIN stack : i # n => stack[i].phase = "read"
    BY <1>1, <1>3 DEF Nested
  <2> QED
    BY <1>3, <2>1
<1>7. ASSUME NEW i \in DOMAIN stack PROVE Right(stack[i])'
  <2>1. CASE i = n
    <3>1. stack'[i] = c
      BY <1>3, <2>1
    <3>2. Right(c)'
      OBVIOUS
    <3> QED
      BY <1>2, <3>1, <3>2 DEF Right, Listing, Other
  <2>2. CASE i # n
    <3>1. stack'[i] = stack[i] /\ Right(stack[i]) /\ stack[i].phase = "read"
      BY <1>1, <1>3, <1>6, <2>2 DEF Nested
    <3>2. stack[i].dir # Top.dir
      BY <1>1, <1>3, <2>2 DEF Nested
    <3>3. stack[i].dir \in promised' <=> stack[i].dir \in promised
      BY <3>2
    <3>4. PICK e : e = stack[i]
      OBVIOUS
    <3>5. ASSUME e.proc = "readdirplus"
          PROVE  /\ e.dir \in Directories
                 /\ Reply(e.items, e.dir, e.verf, e.last, Len(seen[e.dir]), promised')
      <4>1. /\ e.dir \in Directories
            /\ Reply(e.items, e.dir, e.verf, e.last, Len(seen[e.dir]), promised)
        BY <3>1, <3>4, <3>5 DEF Right, Listing
      <4> QED
        BY <3>3, <3>4, <4>1, SameReply
    <3> QED
      BY <1>2, <3>1, <3>4, <3>5 DEF Right, Listing, Other
  <2> QED
    BY <2>1, <2>2
<1>8. Nested'
  <2>1. ASSUME NEW i \in DOMAIN stack'
        PROVE  /\ i < Len(stack') => stack'[i].phase = "read"
               /\ stack'[i].dir \notin over'
               /\ \A j \in DOMAIN stack' : i # j => stack'[i].dir # stack'[j].dir
    BY <1>1, <1>2, <1>3, <1>6 DEF Nested
  <2> QED
    BY <1>3, <1>7, <2>1 DEF Nested
<1>9. Untouched'
  BY <1>1, <1>2, <1>3, <1>6 DEF Untouched
<1>10. Bounded'
  BY <1>1, <1>2 DEF Bounded
<1>11. Stages'
  <2>1. 1 \in DOMAIN stack
    BY <1>3
  <2>2. phase \in {"getport", "dump", "mnt", "listing"}
    BY <1>1, InListing
  <2> QED
    BY <1>1, <1>2, <1>3, <1>6, <2>1, <2>2 DEF Stages, Top
<1>12. CookiesAreServers'
  <2> SUFFICES ASSUME NEW i \in DOMAIN stack',
                      stack'[i].proc = "readdirplus", stack'[i].phase = "send"
               PROVE  /\ stack'[i].cookie = Len(seen'[stack'[i].dir])
                      /\ stack'[i].cookie # 0 => stack'[i].verf = stack'[i].dir
    BY DEF CookiesAreServers
  <2>1. stack'[i] = c
    BY <1>3, <1>6
  <2> QED
    BY <1>2, <2>1 DEF Right, Listing
<1> QED
  BY <1>4, <1>5, <1>8, <1>9, <1>10, <1>11, <1>12 DEF IInv

\* The innermost call goes on, and nothing else changes.
LEMMA TopGoes ==
    ASSUME IInv, status = "ok", stack # <<>>,
           NEW c \in CallType, c.proc = Top.proc, c.dir = Top.dir, Right(c),
           stack' = SetTop(c), UNCHANGED <<listings, promised, status, program, phase, usable>>,
           port' \in Ports \cup {Unknown}
    PROVE  IInv'
<1>1. seen' = seen /\ promised' = promised
  BY DEF listings
<1>2. Right(c)'
  BY <1>1 DEF Right, Listing, Other
<1>3. promised \subseteq Directories
  BY DEF IInv, Types
<1> QED
  BY <1>1, <1>2, <1>3, TopStep

-----------------------------------------------------------------------------
(* Sending a call and receiving its reply *)

LEMMA DirectoryRepliesRight ==
    ASSUME Bounded, NEW c \in CallType, Listing(c), c.phase = "send",
           seen \in [Directories -> Seq(Nat)], NEW reply \in DirectoryReplies(c),
           NEW p, Promises(reply.items) => c.dir \in p
    PROVE  /\ reply.items \in Seq(Items) /\ reply.words \in Nat
           /\ Reply(reply.items, c.dir, c.verf, c.last, Len(seen[c.dir]), p)
<1> PICK d \in Directories : d = c.dir
  BY DEF Listing
<1> PICK n : n = Len(seen[d])
  OBVIOUS
<1>1. n \in 0 .. Len(Entries[d]) /\ Len(Entries[d]) \in Nat /\ c.cookie = n
  BY EntryFacts DEF Bounded, Listing
<1>2. CASE \E attr \in BOOLEAN : reply = Only(IF attr THEN 2 ELSE 1, DirItems(d, attr))
  <2>1. PICK attr \in BOOLEAN : reply = Only(IF attr THEN 2 ELSE 1, DirItems(d, attr))
    BY <1>2
  <2>2. PICK a : a = DirItems(d, attr)
    OBVIOUS
  <2>3. a \in Seq(Items) /\ Len(a) = IF attr THEN 3 ELSE 2
    BY <2>2, DirItemsMade
  <2>4. PICK m : m = IF attr THEN 2 ELSE 1
    OBVIOUS
  <2>5. m \in 0 .. Len(a)
    BY <2>3, <2>4
  <2>6. reply.items = a /\ reply.words \in Nat
    BY <2>1, <2>2, <2>3, <2>4, <2>5, RepliesMade
  <2>7. Reply(a, d, c.verf, c.last, n, p)
    BY <1>1, <2>2, ErrorReply
  <2> QED
    BY <2>3, <2>6, <2>7
<1>3. CASE \E z \in (n .. Len(Entries[d])) \X BOOLEAN, attr \in BOOLEAN, bare \in BOOLEAN :
             /\ z[1] < Len(Entries[d]) => z[2]
             /\ reply = Whole(Page(d, n, z[1], z[2], attr, bare))
  <2>1. PICK z \in (n .. Len(Entries[d])) \X BOOLEAN, attr \in BOOLEAN, bare \in BOOLEAN :
             /\ z[1] < Len(Entries[d]) => z[2]
             /\ reply = Whole(Page(d, n, z[1], z[2], attr, bare))
    BY <1>3
  <2>2. PICK j \in n .. Len(Entries[d]), more \in BOOLEAN : j = z[1] /\ more = z[2]
    BY <2>1
  <2>3. PICK s : s = Page(d, n, j, more, attr, bare)
    OBVIOUS
  <2>4. (j < Len(Entries[d]) => more) /\ reply = Whole(s)
    BY <2>1, <2>2, <2>3
  <2>5. Reply(s, d, c.verf, c.last, n, p)
    <3>1. reply.items = s
      BY <2>4 DEF Whole
    <3>2. Promises(Page(d, n, j, more, attr, bare)) => d \in p
      BY <2>3, <3>1
    <3> QED
      BY <1>1, <2>3, <2>4, <3>2, PageReply
  <2>6. s \in Seq(Items) /\ 0 \in 0 .. Len(s)
    BY <2>5 DEF Reply
  <2>7. reply.items = s /\ reply.words \in Nat
    BY <2>4, <2>6, RepliesMade
  <2> QED
    BY <2>5, <2>6, <2>7
<1>4. (\E attr \in BOOLEAN : reply = Only(IF attr THEN 2 ELSE 1, DirItems(d, attr)))
      \/ \E z \in (n .. Len(Entries[d])) \X BOOLEAN, attr \in BOOLEAN, bare \in BOOLEAN :
             /\ z[1] < Len(Entries[d]) => z[2]
             /\ reply = Whole(Page(d, n, z[1], z[2], attr, bare))
  <2>1. \/ reply \in {Only(IF attr THEN 2 ELSE 1, DirItems(d, attr)) : attr \in BOOLEAN}
        \/ reply \in {Whole(Page(d, n, z[1], z[2], attr, bare)) :
                     z \in {q \in (n .. Len(Entries[d])) \X BOOLEAN : q[1] < Len(Entries[d]) => q[2]},
                     attr \in BOOLEAN, bare \in BOOLEAN}
    BY <1>1 DEF DirectoryReplies
  <2>2. CASE reply \in {Only(IF attr THEN 2 ELSE 1, DirItems(d, attr)) : attr \in BOOLEAN}
    BY <2>2
  <2>3. CASE reply \in {Whole(Page(d, n, z[1], z[2], attr, bare)) :
                     z \in {q \in (n .. Len(Entries[d])) \X BOOLEAN : q[1] < Len(Entries[d]) => q[2]},
                     attr \in BOOLEAN, bare \in BOOLEAN}
    BY <2>3
  <2> QED
    BY <2>1, <2>2, <2>3
<1> QED
  BY <1>2, <1>3, <1>4

\* The other replies hold no entries.
LEMMA OtherRepliesRight ==
    ASSUME NEW reply \in GetportReplies \cup DumpReplies \cup MntReplies
    PROVE  /\ reply.items \in Seq(Items) /\ reply.words \in Nat
           /\ \A k \in DOMAIN reply.items : reply.items[k].kind \in Plain \cup {"port"}
<1> PICK h, m, l, n, o :
      /\ h = Item("head") /\ m = Item("mount") /\ l = Item("last") /\ n = Item("handle")
      /\ o = Item("length")
  OBVIOUS
<1>1. /\ o \in Items /\ o.kind \in Plain
      /\ h \in Items /\ h.kind \in Plain /\ m \in Items /\ m.kind \in Plain
      /\ l \in Items /\ l.kind \in Plain /\ n \in Items /\ n.kind \in Plain
  BY ItemsMade DEF Plain
<1> DEFINE Good(s) == s \in Seq(Items) /\ \A k \in DOMAIN s : s[k].kind \in Plain \cup {"port"}
<1>2. ASSUME NEW p \in Ports
      PROVE  Good(GetportItems(p)) /\ Len(GetportItems(p)) = 2
  <2>1. PICK x : x = [kind |-> "port", port |-> p]
    OBVIOUS
  <2>2. x \in Items /\ x.kind = "port"
    BY <2>1, ItemsMade
  <2>3. PICK s : s = <<h, x>>
    OBVIOUS
  <2>4. s \in Seq(Items) /\ DOMAIN s = 1 .. 2 /\ s[1] = h /\ s[2] = x /\ Len(s) = 2
    BY <1>1, <2>2, <2>3
  <2>5. \A k \in DOMAIN s : s[k].kind \in Plain \cup {"port"}
    BY <1>1, <2>2, <2>4
  <2>6. GetportItems(p) = s
    BY <2>1, <2>3 DEF GetportItems
  <2> QED
    BY <2>4, <2>5, <2>6
<1>3. ASSUME NEW i \in Nat PROVE Good(DumpItems(i))
  <2>1. PICK a, b, c, e : /\ a = <<h>> /\ b = [k \in 1 .. i |-> m] /\ c = <<l>> /\ e = a \o b
    OBVIOUS
  <2>2. a \in Seq(Items) /\ b \in Seq(Items) /\ c \in Seq(Items)
    BY <1>1, <2>1
  <2>3. DOMAIN a = {1} /\ a[1] = h /\ DOMAIN b = 1 .. i /\ DOMAIN c = {1} /\ c[1] = l
    BY <2>1
  <2>4. \A k \in DOMAIN b : b[k] = m
    BY <2>1
  <2>5. Good(e)
    <3>1. /\ e \in Seq(Items) /\ Len(a) = 1
          /\ \A k \in DOMAIN e : k \in 1 .. Len(a) \/ k - Len(a) \in DOMAIN b
          /\ \A k \in 1 .. Len(a) : e[k] = a[k]
          /\ \A k \in DOMAIN e : k \notin 1 .. Len(a) => e[k] = b[k - Len(a)]
      BY <2>1, <2>2, <2>3
    <3> QED
      BY <1>1, <2>3, <2>4, <3>1
  <2>6. PICK s : s = e \o c
    OBVIOUS
  <2>7. Good(s)
    <3>1. e \in Seq(Items)
      BY <2>5
    <3>2. /\ s \in Seq(Items) /\ DOMAIN e = 1 .. Len(e)
          /\ \A k \in DOMAIN s : k \in DOMAIN e \/ k - Len(e) \in DOMAIN c
          /\ \A k \in DOMAIN e : s[k] = e[k]
          /\ \A k \in DOMAIN s : k \notin DOMAIN e => s[k] = c[k - Len(e)]
      BY <2>2, <2>6, <3>1
    <3> QED
      BY <1>1, <2>3, <2>5, <3>2
  <2>8. DumpItems(i) = s
    BY <2>1, <2>6 DEF DumpItems
  <2> QED
    BY <2>7, <2>8
<1>4. Good(MntItems) /\ Len(MntItems) = 3
  <2>1. PICK s : s = <<h, o, n>>
    OBVIOUS
  <2>2. /\ s \in Seq(Items) /\ DOMAIN s = 1 .. 3 /\ Len(s) = 3
        /\ s[1] = h /\ s[2] = o /\ s[3] = n
    BY <1>1, <2>1
  <2>3. \A k \in DOMAIN s : s[k].kind \in Plain \cup {"port"}
    BY <1>1, <2>2
  <2>4. MntItems = s
    BY <2>1 DEF MntItems
  <2> QED
    BY <2>2, <2>3, <2>4
<1>5. Good(<<h>>)
  <2>1. PICK s : s = <<h>>
    OBVIOUS
  <2>2. s \in Seq(Items) /\ DOMAIN s = {1} /\ s[1] = h
    BY <1>1, <2>1
  <2> QED
    BY <1>1, <2>1, <2>2
<1>6. ASSUME NEW s, Good(s)
      PROVE  /\ Whole(s).items = s /\ Whole(s).words \in Nat
             /\ Len(s) \in {2, 3} => Only(1, s).items = s /\ Only(1, s).words \in Nat
  <2>1. s \in Seq(Items)
    BY <1>6
  <2>2. Len(s) \in Nat
    BY <2>1
  <2>3. 0 \in 0 .. Len(s) /\ (Len(s) \in {2, 3} => 1 \in 0 .. Len(s))
    BY <2>2
  <2> QED
    BY <2>1, <2>3, RepliesMade
<1>7. \E s : Good(s) /\ (reply = Whole(s) \/ (Len(s) \in {2, 3} /\ reply = Only(1, s)))
  <2> HIDE DEF Good
  <2>1. CASE reply \in GetportReplies
    <3>1. "zero" \in Ports
      BY DEF Ports
    <3> QED
      BY <1>2, <2>1, <3>1 DEF GetportReplies
  <2>2. CASE reply \in DumpReplies
    <3>1. 0 .. 2 \subseteq Nat
      OBVIOUS
    <3> QED
      BY <1>3, <1>5, <2>2, <3>1 DEF DumpReplies
  <2>3. CASE reply \in MntReplies
    BY <1>4, <2>3 DEF MntReplies
  <2> QED
    BY <2>1, <2>2, <2>3
<1>8. PICK s : Good(s) /\ (reply = Whole(s) \/ (Len(s) \in {2, 3} /\ reply = Only(1, s)))
  BY <1>7
<1> QED
  BY <1>6, <1>8

LEMMA TopRight ==
    ASSUME IInv, status = "ok", stack # <<>>
    PROVE  /\ Types /\ Bounded /\ Top \in CallType /\ Right(Top) /\ seen \in [Directories -> Seq(Nat)]
           /\ Top.dir \notin over /\ port \in Ports \cup {Unknown}
           /\ promised \subseteq Directories
  BY TopFacts DEF IInv, Nested, Types

LEMMA SendStep ==
    ASSUME IInv, NEW replies, Send(replies), UNCHANGED <<program, phase, port, usable>>,
           IF Top.proc = "readdirplus" THEN replies = DirectoryReplies(Top)
           ELSE replies \subseteq GetportReplies \cup DumpReplies \cup MntReplies
    PROVE  IInv'
<1>1. status = "ok" /\ stack # <<>> /\ Top.phase = "send"
  BY DEF Send
<1>2. PICK reply \in replies :
        /\ stack' = SetTop([Top EXCEPT !.phase = "recv", !.items = reply.items,
                                       !.coming = reply.words])
        /\ promised' = IF Promises(reply.items) THEN promised \cup {Top.dir} ELSE promised
  BY DEF Send
<1> PICK t \in CallType : t = Top
  BY <1>1, TopRight
<1>3. Right(t) /\ Bounded /\ seen \in [Directories -> Seq(Nat)]
  BY <1>1, TopRight
<1>4. /\ reply.items \in Seq(Items) /\ reply.words \in Nat
      /\ IF t.proc = "readdirplus"
         THEN Reply(reply.items, t.dir, t.verf, t.last, Len(seen[t.dir]), promised') /\ t.dir \in Directories
         ELSE t.dir = NoDir /\ ~Promises(reply.items) /\ \A k \in DOMAIN reply.items : reply.items[k].kind \in Plain \cup {"port"}
  <2>1. CASE t.proc = "readdirplus"
    <3>1. Listing(t)
      BY <1>3, <2>1 DEF Right
    <3>2. reply \in DirectoryReplies(t)
      BY <1>2, <2>1
    <3>3. Promises(reply.items) => t.dir \in promised'
      BY <1>2
    <3> QED
      BY <1>1, <1>3, <2>1, <3>1, <3>2, <3>3, DirectoryRepliesRight DEF Listing
  <2>2. CASE t.proc # "readdirplus"
    <3>1. reply \in GetportReplies \cup DumpReplies \cup MntReplies
      BY <1>2, <2>2
    <3>2. t.dir = NoDir
      BY <1>3, <2>2 DEF Right, Other
    <3>3. ~Promises(reply.items)
      BY <3>1, OtherRepliesRight DEF Promises, Plain
    <3> QED
      BY <2>2, <3>1, <3>2, <3>3, OtherRepliesRight
  <2> QED
    BY <2>1, <2>2
<1> PICK c : c = [t EXCEPT !.phase = "recv", !.items = reply.items, !.coming = reply.words]
  OBVIOUS
<1>5. /\ c \in CallType /\ c.proc = t.proc /\ c.dir = t.dir /\ c.phase = "recv"
      /\ c.items = reply.items /\ c.verf = t.verf /\ c.last = t.last
  BY <1>4 DEF CallType, CallPhases
<1>7. /\ stack' = SetTop(c) /\ UNCHANGED <<listings, status>> /\ port' \in Ports \cup {Unknown}
      /\ UNCHANGED <<program, phase, usable>>
  BY <1>1, <1>2, TopRight DEF Send
<1>6. Right(c)'
  <2>1. seen' = seen
    BY <1>7 DEF listings
  <2> QED
    BY <1>4, <1>5, <2>1 DEF Right, Listing, Other
<1>8. /\ promised' \in {promised, promised \cup {Top.dir}} /\ promised' \subseteq Directories
  BY <1>1, <1>2, <1>4, TopRight
<1> QED
  BY <1>1, <1>5, <1>6, <1>7, <1>8, TopStep

\* The reply is being received: it has been cut up, and nothing else.
LEMMA StillRight ==
    ASSUME NEW t \in CallType, Right(t), t.phase \in {"recv", "read", "again"},
           NEW c \in CallType, c.proc = t.proc, c.dir = t.dir, c.verf = t.verf,
           c.last = t.last, c.items = t.items,
           c.phase = "read" \/ (c.phase = "again" /\ c.have + c.missing <= MaxBuffer)
    PROVE  Right(c)
  BY DEF Right, Listing, Other

LEMMA ReceiveStep ==
    ASSUME IInv, NEW k \in 1 .. MaxBuffer, RecvHeader(k) \/ Refill(k) \/ RecvAgain(k),
           UNCHANGED <<program, phase, port, usable>>
    PROVE  IInv'
<1>1. status = "ok" /\ stack # <<>>
  BY DEF RecvHeader, Refill, RecvAgain, Reading
<1> PICK t \in CallType : t = Top
  BY <1>1, TopRight
<1>2. Right(t) /\ port' \in Ports \cup {Unknown}
  BY <1>1, TopRight
<1>3. k \in Nat /\ MaxBuffer \in Nat /\ t.have \in Nat /\ t.missing \in Nat /\ t.coming \in Nat
      /\ t.have <= MaxBuffer /\ t.missing <= MaxBuffer
  BY CallFields, ReadDirPlusAssumption
<1>4. PICK c \in CallType :
        /\ stack' = SetTop(c) /\ t.phase \in {"recv", "read", "again"}
        /\ c.proc = t.proc /\ c.dir = t.dir /\ c.verf = t.verf
        /\ c.last = t.last /\ c.items = t.items
        /\ c.phase = "read" \/ (c.phase = "again" /\ c.have + c.missing <= MaxBuffer)
  <2>1. CASE RecvHeader(k)
    <3>1. k \in 0 .. MaxBuffer /\ t.coming - k \in Nat /\ t.phase = "recv"
      BY <1>3, <2>1 DEF RecvHeader
    <3>2. PICK c : c = [t EXCEPT !.phase = "read", !.have = k, !.coming = @ - k]
      OBVIOUS
    <3>3. c \in CallType /\ c.phase = "read"
      BY <3>1, <3>2 DEF CallType, CallPhases
    <3>4. /\ c.proc = t.proc /\ c.dir = t.dir /\ c.verf = t.verf
          /\ c.last = t.last /\ c.items = t.items
      BY <3>2 DEF CallType
    <3> QED
      BY <2>1, <3>1, <3>2, <3>3, <3>4 DEF RecvHeader
  <2>2. CASE RecvAgain(k)
    <3>1. k <= t.missing /\ k <= t.coming /\ t.phase = "again"
      BY <2>2 DEF RecvAgain
    <3>2. t.have + k \in 0 .. MaxBuffer /\ t.coming - k \in Nat /\ 0 \in 0 .. MaxBuffer
      <4>1. t.have + t.missing <= MaxBuffer
        BY <1>2, <3>1 DEF Right
      <4> QED
        BY <1>3, <3>1, <4>1
    <3>3. PICK c : c = [t EXCEPT !.have = @ + k, !.coming = @ - k, !.phase = "read", !.missing = 0]
      OBVIOUS
    <3>4. c \in CallType /\ c.phase = "read"
      BY <3>2, <3>3 DEF CallType, CallPhases
    <3>5. /\ c.proc = t.proc /\ c.dir = t.dir /\ c.verf = t.verf
          /\ c.last = t.last /\ c.items = t.items
      BY <3>3 DEF CallType
    <3> QED
      BY <2>2, <3>1, <3>3, <3>4, <3>5 DEF RecvAgain
  <2>3. CASE Refill(k)
    <3>1. k <= MaxBuffer - t.have /\ k <= t.coming /\ t.phase = "read"
      BY <2>3 DEF Refill, Reading
    <3>2. t.have + k \in 0 .. MaxBuffer /\ t.coming - k \in Nat
      BY <1>3, <3>1
    <3>3. PICK missing : missing = Missing(t.have + k, t.coming - k)
      OBVIOUS
    <3>4. missing \in 0 .. MaxBuffer /\ t.have + k + missing <= MaxBuffer
      BY <1>3, <3>2, <3>3 DEF Missing, Lower
    <3>p. PICK ph \in {"read", "again"} : ph = IF missing = 0 THEN "read" ELSE "again"
      OBVIOUS
    <3>5. PICK c : c = [t EXCEPT !.have = @ + k, !.coming = @ - k, !.tried = TRUE,
                                 !.missing = missing, !.phase = ph]
      OBVIOUS
    <3>6. c \in CallType /\ c.phase = ph /\ c.have = t.have + k /\ c.missing = missing
      BY <3>2, <3>4, <3>5 DEF CallType, CallPhases
    <3>7. /\ c.proc = t.proc /\ c.dir = t.dir /\ c.verf = t.verf
          /\ c.last = t.last /\ c.items = t.items
      BY <3>5 DEF CallType
    <3>8. stack' = SetTop(c)
      BY <2>3, <3>3, <3>p, <3>5 DEF Refill
    <3> QED
      BY <3>1, <3>4, <3>6, <3>7, <3>8
  <2> QED
    BY <2>1, <2>2, <2>3
<1>5. Right(c)
  BY <1>2, <1>4, StillRight
<1>6. UNCHANGED <<listings, promised, status>>
  BY DEF RecvHeader, Refill, RecvAgain
<1> QED
  BY <1>1, <1>2, <1>4, <1>5, <1>6, TopGoes

\* The call when its next item has been read.
LEMMA AdvancedFacts ==
    ASSUME IInv, Reading, InBuffer
    PROVE  /\ Advanced \in CallType /\ Advanced.proc = Top.proc /\ Advanced.dir = Top.dir
           /\ Advanced.phase = "read" /\ Top.phase = "read"
           /\ Advanced.items = Tail(Top.items) /\ Top.items # <<>>
           /\ Advanced.verf = Top.verf /\ Advanced.last = Top.last
           /\ Top \in CallType /\ Right(Top) /\ Next1 = Top.items[1] /\ Next1 \in Items
           /\ status = "ok" /\ stack # <<>>
<1>1. status = "ok" /\ stack # <<>> /\ Top.phase = "read" /\ Top.items # <<>>
  BY DEF Reading
<1> PICK t \in CallType : t = Top
  BY <1>1, TopRight
<1>2. Right(t)
  BY <1>1, TopRight
<1>3. t.items \in Seq(Items) /\ t.have \in 0 .. MaxBuffer /\ MaxBuffer \in Nat
  BY CallFields
<1>4. Next1 = t.items[1] /\ Next1 \in Items /\ Tail(t.items) \in Seq(Items)
  BY <1>1, <1>3 DEF Next1
<1>5. PICK w \in 0 .. MaxBuffer : w = Words[Next1.kind] /\ w <= t.have
  <2>1. Words[Next1.kind] \in 0 .. MaxBuffer
    BY <1>4, ItemFacts
  <2> QED
    BY <2>1 DEF InBuffer
<1>6. t.have - w \in 0 .. MaxBuffer
  BY <1>3, <1>5
<1> PICK c : c = [t EXCEPT !.have = @ - w, !.items = Tail(@), !.tried = FALSE]
  OBVIOUS
<1>7. /\ c \in CallType /\ c.proc = t.proc /\ c.dir = t.dir /\ c.phase = t.phase
      /\ c.items = Tail(t.items) /\ c.verf = t.verf /\ c.last = t.last
  BY <1>4, <1>6 DEF CallType
<1>8. Advanced = c
  BY <1>5 DEF Advanced
<1> QED
  BY <1>1, <1>2, <1>4, <1>7, <1>8

\* An item is read within the call: the plain ones, the port, the verifier and
\* the cookie of an entry.
LEMMA TakeStep ==
    ASSUME IInv, Take \/ TakeVerf \/ TakeCookie \/ TakePort,
           TakePort \/ UNCHANGED port, UNCHANGED <<program, phase, usable>>
    PROVE  IInv'
<1>1. Reading /\ InBuffer /\ stack # <<>> /\ status = "ok"
  BY DEF Take, TakeVerf, TakeCookie, TakePort, Reading
<1> PICK t : t = Top
  OBVIOUS
<1> PICK a : a = Advanced
  OBVIOUS
<1> PICK x : x = Next1
  OBVIOUS
<1>2. /\ a \in CallType /\ a.proc = t.proc /\ a.dir = t.dir
      /\ a.phase = "read" /\ t.phase = "read" /\ a.items = Tail(t.items) /\ t.items # <<>>
      /\ a.verf = t.verf /\ a.last = t.last /\ t \in CallType /\ Right(t)
      /\ x = t.items[1] /\ x \in Items
  BY <1>1, AdvancedFacts
<1>3. t.items \in Seq(Items) /\ seen \in [Directories -> Seq(Nat)]
  BY <1>1, <1>2, TopRight, CallFields
<1>4. ASSUME t.proc # "readdirplus"
      PROVE  /\ t.dir = NoDir /\ x.kind \in Plain \cup {"port"}
             /\ \A k \in DOMAIN Tail(t.items) : Tail(t.items)[k].kind \in Plain \cup {"port"}
  <2>1. t.dir = NoDir /\ \A k \in DOMAIN t.items : t.items[k].kind \in Plain \cup {"port"}
    BY <1>2, <1>4 DEF Right, Other
  <2> QED
    BY <1>2, <1>3, <2>1, TailItems
<1>5. ASSUME t.proc = "readdirplus"
      PROVE  /\ t.dir \in Directories
             /\ Reply(t.items, t.dir, t.verf, t.last, Len(seen[t.dir]), promised)
             /\ Len(seen[t.dir]) \in Nat
  <2>1. Listing(t)
    BY <1>2, <1>5 DEF Right
  <2>2. t.dir \in Directories /\ Reply(t.items, t.dir, t.verf, t.last, Len(seen[t.dir]), promised)
    BY <1>2, <2>1 DEF Listing
  <2> QED
    BY <1>3, <2>2
<1>6. ASSUME NEW c \in CallType, c.proc = t.proc, c.dir = t.dir, c.phase = "read",
             c.items = Tail(t.items),
             t.proc = "readdirplus" => Reply(c.items, c.dir, c.verf, c.last, Len(seen[c.dir]), promised)
      PROVE  Right(c)
  BY <1>4, <1>5, <1>6 DEF Right, Listing, Other
<1>7. UNCHANGED <<listings, promised, status>>
  BY DEF Take, TakeVerf, TakeCookie, TakePort
<1>8. CASE Take
  <2>1. stack' = SetTop(a) /\ x.kind \notin {"verf", "cookie", "iter", "eof"}
    BY <1>8 DEF Take
  <2>2. t.proc = "readdirplus" => Reply(a.items, a.dir, a.verf, a.last, Len(seen[a.dir]), promised)
    BY <1>2, <1>5, <2>1, ReplyTakes
  <2>3. Right(a)
    BY <1>2, <1>6, <2>2
  <2>4. port' \in Ports \cup {Unknown}
    BY <1>1, TopRight, <1>2, <1>8 DEF Take, TakePort
  <2> QED
    BY <1>1, <1>2, <1>7, <2>1, <2>3, <2>4, TopGoes
<1>9. CASE TakePort
  <2>1. stack' = SetTop(a) /\ x.kind = "port" /\ port' = x.port
    BY <1>9 DEF TakePort
  <2>2. t.proc = "readdirplus" => Reply(a.items, a.dir, a.verf, a.last, Len(seen[a.dir]), promised)
    BY <1>2, <1>5, <2>1, ReplyTakes
  <2>3. Right(a)
    BY <1>2, <1>6, <2>2
  <2>4. port' \in Ports \cup {Unknown}
    BY <1>2, <2>1, ItemFacts
  <2> QED
    BY <1>1, <1>2, <1>7, <2>1, <2>3, <2>4, TopGoes
<1>10. CASE TakeVerf
  <2>1. x.kind = "verf" /\ stack' = SetTop([a EXCEPT !.verf = x.verf, !.last = Junk])
    BY <1>10 DEF TakeVerf, KeepVerf
  <2>2. t.proc = "readdirplus"
    BY <1>4, <2>1 DEF Plain
  <2>3. x.verf = t.dir /\ Reply(Tail(t.items), t.dir, t.dir, Junk, Len(seen[t.dir]), promised)
    <3>1. PICK s, d, verf, last, i :
            s = t.items /\ d = t.dir /\ verf = t.verf /\ last = t.last /\ i = Len(seen[t.dir])
      OBVIOUS
    <3>2. s # <<>> /\ d \in Directories /\ i \in Nat /\ Reply(s, d, verf, last, i, promised) /\ s[1].kind = "verf"
      BY <1>2, <1>5, <2>1, <2>2, <3>1
    <3>3. s[1].verf = d /\ Reply(Tail(s), d, d, Junk, i, promised)
      BY <3>2, ReplyVerf
    <3> QED
      BY <1>2, <3>1, <3>3
  <2>4. PICK c : c = [a EXCEPT !.verf = x.verf, !.last = Junk]
    OBVIOUS
  <2>5. t.dir \in Directories
    BY <1>5, <2>2
  <2>6. /\ c \in CallType /\ c.proc = t.proc /\ c.dir = t.dir /\ c.phase = "read"
        /\ c.items = Tail(t.items) /\ c.verf = t.dir /\ c.last = Junk
    BY <1>2, <2>3, <2>4, <2>5 DEF CallType
  <2>7. Right(c)
    BY <1>6, <2>3, <2>6
  <2>8. port' \in Ports \cup {Unknown} /\ stack' = SetTop(c)
    <3>1. ~TakePort
      BY <2>1 DEF TakePort
    <3> QED
      BY <1>1, <2>1, <2>4, <3>1, TopRight
  <2> QED
    BY <1>1, <1>7, <2>6, <2>7, <2>8, TopGoes
<1>11. CASE TakeCookie
  <2>1. x.kind = "cookie" /\ stack' = SetTop([a EXCEPT !.last = x.cookie])
    BY <1>11 DEF TakeCookie
  <2>2. t.proc = "readdirplus"
    BY <1>4, <2>1 DEF Plain
  <2>3. Reply(Tail(t.items), t.dir, t.verf, x.cookie, Len(seen[t.dir]), promised)
    BY <1>2, <1>5, <2>1, <2>2, ReplyCookie
  <2>4. PICK c : c = [a EXCEPT !.last = x.cookie]
    OBVIOUS
  <2>5. x.cookie \in Nat
    BY <1>2, <2>1, ItemFacts
  <2>6. /\ c \in CallType /\ c.proc = t.proc /\ c.dir = t.dir /\ c.phase = "read"
        /\ c.items = Tail(t.items) /\ c.verf = t.verf /\ c.last = x.cookie
    BY <1>2, <2>4, <2>5 DEF CallType
  <2>7. Right(c)
    BY <1>6, <2>3, <2>6
  <2>8. port' \in Ports \cup {Unknown} /\ stack' = SetTop(c)
    <3>1. ~TakePort
      BY <2>1 DEF TakePort
    <3> QED
      BY <1>1, <2>1, <2>4, <3>1, TopRight
  <2> QED
    BY <1>1, <1>7, <2>6, <2>7, <2>8, TopGoes
<1> QED
  BY <1>8, <1>9, <1>10, <1>11

\* The end of a reply.
LEMMA EofStep ==
    ASSUME IInv, TakeEof, UNCHANGED <<program, phase, port, usable>>
    PROVE  IInv'
<1>1. Reading /\ InBuffer /\ stack # <<>> /\ status = "ok"
  BY DEF TakeEof, Reading
<1> PICK t : t = Top
  OBVIOUS
<1> PICK a : a = Advanced
  OBVIOUS
<1> PICK x : x = Next1
  OBVIOUS
<1>2. /\ a \in CallType /\ a.proc = t.proc /\ a.dir = t.dir
      /\ a.phase = "read" /\ t.phase = "read" /\ a.items = Tail(t.items) /\ t.items # <<>>
      /\ a.verf = t.verf /\ a.last = t.last /\ t \in CallType /\ Right(t)
      /\ x = t.items[1] /\ x \in Items
  BY <1>1, AdvancedFacts
<1>3. t.items \in Seq(Items) /\ seen \in [Directories -> Seq(Nat)]
  BY <1>1, <1>2, TopRight, CallFields
<1>4. /\ x.kind = "eof"
      /\ stack' = SetTop([a EXCEPT !.phase = "done", !.more = x.more, !.cookie = t.last])
      /\ UNCHANGED <<listings, promised, status>>
  BY DEF TakeEof
<1>5. t.proc = "readdirplus"
  <2> SUFFICES ASSUME t.proc # "readdirplus" PROVE FALSE
    OBVIOUS
  <2>1. \A k \in DOMAIN t.items : t.items[k].kind \in Plain \cup {"port"}
    BY <1>2 DEF Right, Other
  <2>2. 1 \in DOMAIN t.items
    BY <1>2, <1>3, TailItems
  <2> QED
    BY <1>2, <1>4, <2>1, <2>2 DEF Plain
<1>6. t.dir \in Directories /\ Reply(t.items, t.dir, t.verf, t.last, Len(seen[t.dir]), promised)
  <2>1. Listing(t)
    BY <1>2, <1>5 DEF Right
  <2> QED
    BY <1>2, <2>1 DEF Listing
<1>7. Len(seen[t.dir]) \in Nat
  BY <1>3, <1>6
<1>8. IF x.more THEN \/ t.last = Len(seen[t.dir]) /\ t.verf = t.dir
                     \/ t.last = Junk /\ t.dir \in promised
                ELSE Len(seen[t.dir]) = Len(Entries[t.dir])
  BY <1>2, <1>4, <1>6, <1>7, ReplyEof
<1>9. x.more \in BOOLEAN /\ t.last \in Nat \cup {Junk}
  BY <1>2, <1>4, ItemFacts DEF CallType
<1> PICK c : c = [a EXCEPT !.phase = "done", !.more = x.more, !.cookie = t.last]
  OBVIOUS
<1>10. /\ c \in CallType /\ c.proc = t.proc /\ c.dir = t.dir /\ c.phase = "done"
       /\ c.more = x.more /\ c.cookie = t.last /\ c.verf = t.verf
  BY <1>2, <1>9 DEF CallType, CallPhases
<1>11. Right(c)
  <2>1. Listing(c)
    BY <1>6, <1>8, <1>10 DEF Listing
  <2> QED
    BY <1>5, <1>10, <2>1 DEF Right
<1>12. port' \in Ports \cup {Unknown} /\ stack' = SetTop(c)
  BY <1>1, <1>4, TopRight
<1> QED
  BY <1>1, <1>4, <1>10, <1>11, <1>12, TopGoes

-----------------------------------------------------------------------------
(* The callback, and the return of the call it made *)

\* What the callback is called for, and what it leaves alone.
LEMMA IterateFacts ==
    ASSUME IInv, ServerTree, Iterate, NEW t, t = Top
    PROVE  /\ status = "ok" /\ stack # <<>> /\ t \in CallType /\ t.proc = "readdirplus"
           /\ t.dir \in Directories /\ t.dir \notin over /\ t.phase = "read" /\ phase = "listing"
           /\ Advanced \in CallType /\ Advanced.proc = t.proc /\ Advanced.dir = t.dir
           /\ Advanced.phase = "read"
           /\ seen \in [Directories -> Seq(Nat)]
           /\ Next1.entry = Len(seen[t.dir]) + 1 /\ Next1.entry \in DOMAIN Entries[t.dir]
           /\ Reply(Advanced.items, t.dir, Advanced.verf, Advanced.last, Next1.entry, promised)
           /\ Next1.lacks \subseteq Entries[t.dir][Next1.entry].lacks
           /\ seen' = [seen EXCEPT ![t.dir] = Append(@, Next1.entry)]
           /\ over' = over /\ unread' = unread /\ promised' = promised
<1>1. Reading /\ Next1.kind = "iter" /\ status = "ok" /\ stack # <<>>
  BY DEF Iterate, Reading
<1>2. /\ t \in CallType /\ Right(t) /\ seen \in [Directories -> Seq(Nat)]
      /\ t.dir \notin over /\ Types /\ Stages
  BY <1>1, TopRight DEF IInv
<1>3. InBuffer
  BY <1>1, <1>2, CallFields, ReadDirPlusAssumption DEF InBuffer
<1> PICK x : x = Next1
  OBVIOUS
<1> PICK a : a = Advanced
  OBVIOUS
<1>4. /\ a \in CallType /\ a.proc = t.proc /\ a.dir = t.dir
      /\ a.phase = "read" /\ t.phase = "read" /\ a.items = Tail(t.items) /\ t.items # <<>>
      /\ a.verf = t.verf /\ a.last = t.last /\ x = t.items[1] /\ x.kind = "iter"
  BY <1>1, <1>3, AdvancedFacts
<1>5. t.items \in Seq(Items)
  BY <1>2, CallFields
<1>6. t.proc = "readdirplus"
  <2> SUFFICES ASSUME t.proc # "readdirplus" PROVE FALSE
    OBVIOUS
  <2>1. \A k \in DOMAIN t.items : t.items[k].kind \in Plain \cup {"port"}
    BY <1>2 DEF Right, Other
  <2>2. 1 \in DOMAIN t.items
    BY <1>4, <1>5, TailItems
  <2> QED
    BY <1>4, <2>1, <2>2 DEF Plain
<1>7. t.dir \in Directories /\ Reply(t.items, t.dir, t.verf, t.last, Len(seen[t.dir]), promised)
  <2>1. Listing(t)
    BY <1>2, <1>6 DEF Right
  <2> QED
    BY <1>4, <2>1 DEF Listing
<1>8. Len(seen[t.dir]) \in Nat
  BY <1>2, <1>7
<1>9. /\ x.entry = Len(seen[t.dir]) + 1 /\ x.entry \in DOMAIN Entries[t.dir]
      /\ x.lacks \subseteq Entries[t.dir][x.entry].lacks
      /\ Reply(a.items, t.dir, a.verf, a.last, x.entry, promised)
  <2>1. PICK s, d, verf, last, i :
            s = t.items /\ d = t.dir /\ verf = t.verf /\ last = t.last /\ i = Len(seen[t.dir])
    OBVIOUS
  <2>2. s # <<>> /\ d \in Directories /\ i \in Nat /\ Reply(s, d, verf, last, i, promised) /\ s[1].kind = "iter"
    BY <1>4, <1>7, <1>8, <2>1
  <2>3. /\ s[1].entry = i + 1 /\ i + 1 \in DOMAIN Entries[d]
        /\ s[1].lacks \subseteq Entries[d][i + 1].lacks
        /\ Reply(Tail(s), d, verf, last, i + 1, promised)
    BY <2>2, ReplyIter
  <2> QED
    BY <1>4, <2>1, <2>3
<1>10. phase = "listing"
  BY <1>1, <1>2, <1>6, InListing
<1>11. /\ seen' = [seen EXCEPT ![t.dir] = Append(@, x.entry)]
       /\ over' = over /\ unread' = unread /\ promised' = promised
  BY DEF Iterate
<1> QED
  BY <1>1, <1>2, <1>4, <1>6, <1>7, <1>9, <1>10, <1>11

LEMMA IterateStep ==
    ASSUME IInv, ServerTree, Iterate, UNCHANGED <<program, phase, port, usable>>
    PROVE  IInv'
<1> PICK t : t = Top
  OBVIOUS
<1> PICK a : a = Advanced
  OBVIOUS
<1> PICK d : d = t.dir
  OBVIOUS
<1> PICK k : k = Next1.entry
  OBVIOUS
<1> PICK n : n = Len(stack)
  OBVIOUS
<1> PICK b : b = Entries[d][k].below
  OBVIOUS
<1>1. /\ status = "ok" /\ stack # <<>> /\ t \in CallType /\ t.proc = "readdirplus"
      /\ d \in Directories /\ d \notin over /\ t.phase = "read" /\ phase = "listing"
      /\ a \in CallType /\ a.proc = t.proc /\ a.dir = d /\ a.phase = "read"
      /\ seen \in [Directories -> Seq(Nat)]
      /\ k = Len(seen[d]) + 1 /\ k \in DOMAIN Entries[d]
      /\ Reply(a.items, d, a.verf, a.last, k, promised)
      /\ over' = over /\ unread' = unread /\ promised' = promised
  BY IterateFacts
<1>s. seen' = [seen EXCEPT ![d] = Append(@, k)]
  BY IterateFacts
<1>2. /\ Types /\ OnlyFirstReplyBelow /\ CookiesAreServers
      /\ Nested /\ Untouched /\ Bounded /\ Stages
  BY <1>1 DEF IInv
<1>3. /\ n \in Nat /\ n >= 1 /\ DOMAIN stack = 1 .. n /\ n \in DOMAIN stack
      /\ t = stack[n] /\ stack \in Seq(CallType)
  BY <1>1, <1>2, TopFacts DEF Types
<1>4. /\ seen' \in [Directories -> Seq(Nat)] /\ Len(seen'[d]) = k /\ Len(seen[d]) < k
      /\ \A e \in Directories : e # d => seen'[e] = seen[e]
  <2>1. seen[d] \in Seq(Nat) /\ Len(seen[d]) \in Nat /\ k \in Nat
    BY <1>1
  <2>2. PICK q : q = Append(seen[d], k)
    OBVIOUS
  <2>3. q \in Seq(Nat) /\ Len(q) = Len(seen[d]) + 1
    BY <2>1, <2>2
  <2>4. seen' = [seen EXCEPT ![d] = q]
    BY <1>1, <1>s, <2>2
  <2>5. Len(seen[d]) < k
    BY <1>1, <2>1
  <2> QED
    BY <1>1, <2>3, <2>4, <2>5
<1>5. OnlyFirstReplyBelow'
  BY <1>1, <1>2, <1>4 DEF OnlyFirstReplyBelow, Types
<1>c. /\ cached' \in [Directories -> SUBSET Nat]
      /\ \A e \in Directories : cached[e] \subseteq cached'[e]
      /\ Cacheable(k, Next1.lacks) => k \in cached'[d]
  <2>1. k \in Nat /\ cached \in [Directories -> SUBSET Nat]
    BY <1>1, <1>2, EntryFacts DEF Types
  <2>2. PICK q : q = cached[d] \cup {k}
    OBVIOUS
  <2>3. cached' = IF Cacheable(k, Next1.lacks) THEN [cached EXCEPT ![d] = q] ELSE cached
    BY <2>2 DEF Iterate
  <2>4. q \in SUBSET Nat
    BY <1>1, <2>1, <2>2
  <2> QED
    BY <1>1, <2>1, <2>2, <2>3, <2>4
<1>6. ASSUME status' = "ok" PROVE Bounded'
  <2>1. DOMAIN Entries[d] = 1 .. Len(Entries[d]) /\ Len(Entries[d]) \in Nat
    BY <1>1, EntryFacts
  <2>2. k <= Len(Entries[d]) /\ k \in Nat
    BY <1>1, <2>1
  <2>3. k \in cached'[d] \/ PassedOver(d, k)
    <3>1. PICK lacks : lacks = Next1.lacks
      OBVIOUS
    <3>2. d = Top.dir /\ lacks \subseteq Entries[d][k].lacks
      BY <3>1, IterateFacts
    <3>3. Callback(k, lacks)
      BY <3>1 DEF Iterate
    <3>4. "attr" \in lacks => "handle" \in lacks
      BY <1>6, <3>3 DEF Callback
    <3>5. CASE "attr" \in lacks
      BY <3>2, <3>4, <3>5 DEF PassedOver
    <3>6. CASE "attr" \notin lacks
      BY <1>c, <3>1, <3>2, <3>6 DEF PassedOver, Cacheable
    <3> QED
      BY <3>5, <3>6
  <2>4. Len(seen[d]) \in Nat /\ Len(seen[d]) + 1 = k
    BY <1>1
  <2>5. \A i \in 1 .. k : i \in 1 .. Len(seen[d]) \/ i = k
    BY <2>4
  <2> QED
    BY <1>1, <1>2, <1>4, <1>c, <2>2, <2>3, <2>5 DEF Bounded
<1>7. ASSUME NEW e \in Directories, NEW m \in DOMAIN Entries[e],
             Entries[e][m].below # NoDir, m > Len(seen'[e])
      PROVE  /\ seen'[Entries[e][m].below] = <<>> /\ Entries[e][m].below \notin over
             /\ \A i \in DOMAIN stack : stack[i].dir # Entries[e][m].below
             /\ b # Entries[e][m].below
  <2>1. Len(seen[e]) \in Nat /\ Len(seen'[e]) \in Nat /\ m \in Nat
    BY <1>1, <1>4, <1>7, EntryFacts
  <2>2. m > Len(seen[e])
    BY <1>4, <1>7, <2>1
  <2>3. /\ seen[Entries[e][m].below] = <<>> /\ Entries[e][m].below \notin over
        /\ \A i \in DOMAIN stack : stack[i].dir # Entries[e][m].below
    BY <1>2, <1>7, <2>2 DEF Untouched
  <2>4. Entries[e][m].below # d /\ Entries[e][m].below \in Directories
    BY <1>3, <1>7, <2>3, EntryFacts
  <2>5. seen'[Entries[e][m].below] = seen[Entries[e][m].below]
    BY <1>4, <2>4
  <2>6. ~(e = d /\ m = k)
    BY <1>4, <1>7, <2>1
  <2>7. b # Entries[e][m].below
    BY <1>1, <1>7, <2>6 DEF ServerTree
  <2> QED
    BY <2>3, <2>5, <2>7
<1>8. ASSUME NEW i \in DOMAIN stack, i # n
      PROVE  /\ stack[i].phase = "read" /\ stack[i].dir # d
             /\ \A c : c = stack[i] => Right(c)'
  <2>1. i < n /\ Right(stack[i])
    BY <1>2, <1>3, <1>8 DEF Nested
  <2>2. stack[i].phase = "read" /\ stack[i].dir # d
    BY <1>2, <1>3, <1>8, <2>1 DEF Nested
  <2>3. PICK c \in CallType : c = stack[i]
    BY <1>3
  <2>4. ASSUME c.proc = "readdirplus" PROVE Right(c)'
    <3>1. Listing(c) /\ c.dir \in Directories /\ c.dir # d /\ c.phase = "read"
      BY <2>1, <2>2, <2>3, <2>4 DEF Right, Listing
    <3>2. seen'[c.dir] = seen[c.dir] /\ promised' = promised
      BY <1>1, <1>4, <3>1
    <3> QED
      BY <2>4, <3>1, <3>2 DEF Right, Listing
  <2>5. ASSUME c.proc # "readdirplus" PROVE Right(c)'
    BY <2>1, <2>2, <2>3, <2>5 DEF Right, Other
  <2>6. Right(c)'
    BY <2>4, <2>5
  <2> QED
    BY <2>2, <2>3, <2>6
<1>9. ASSUME NEW c, c = a PROVE Right(c)'
  BY <1>1, <1>4, <1>9 DEF Right, Listing
<1>10. \A i \in DOMAIN stack : stack[i].proc = "readdirplus"
  BY <1>1, <1>2 DEF Stages
<1>11. stack[1].dir = Root /\ 1 \in DOMAIN stack
  BY <1>1, <1>2, <1>3 DEF Stages
<1> PICK top : top = SetTop(a)
  OBVIOUS
<1>12. /\ top \in Seq(CallType) /\ Len(top) = n /\ DOMAIN top = 1 .. n
       /\ top[n] = a /\ \A i \in DOMAIN stack : i # n => top[i] = stack[i]
  <2>1. top = [stack EXCEPT ![Len(stack)] = a]
    BY DEF SetTop
  <2> QED
    BY <1>1, <1>3, <2>1, SetTopFacts
<1>13. /\ \A i \in DOMAIN stack : stack[i].dir \notin over
       /\ \A i, j \in DOMAIN stack : i # j => stack[i].dir # stack[j].dir
  BY <1>2 DEF Nested
<1>14. /\ \A i \in 1 .. n : /\ top[i] \in CallType /\ top[i].dir = stack[i].dir
                           /\ top[i].proc = "readdirplus" /\ top[i].phase = "read"
       /\ top[1].dir = Root
  <2>1. \A i \in 1 .. n : /\ top[i] \in CallType /\ top[i].dir = stack[i].dir
                         /\ top[i].proc = "readdirplus" /\ top[i].phase = "read"
    <3> SUFFICES ASSUME NEW i \in 1 .. n
                 PROVE  /\ top[i] \in CallType /\ top[i].dir = stack[i].dir
                        /\ top[i].proc = "readdirplus" /\ top[i].phase = "read"
      OBVIOUS
    <3>1. CASE i = n
      BY <1>1, <1>3, <1>12, <3>1
    <3>2. CASE i # n
      BY <1>3, <1>8, <1>10, <1>12, <3>2
    <3> QED
      BY <3>1, <3>2
  <2> QED
    BY <1>3, <1>11, <2>1
<1>15. ASSUME NEW i \in 1 .. n, NEW c, c = top[i] PROVE Right(c)'
  <2>1. CASE i = n
    BY <1>9, <1>12, <1>15, <2>1
  <2>2. CASE i # n
    BY <1>3, <1>8, <1>12, <1>15, <2>2
  <2> QED
    BY <2>1, <2>2
<1>16. CASE stack' = stack /\ status' \in {"ended", "crashed"}
  <2>1. Types'
    BY <1>1, <1>2, <1>4, <1>c, <1>16 DEF Types
  <2>2. CookiesAreServers'
    <3>1. \A i \in DOMAIN stack : stack[i].phase # "send"
      BY <1>1, <1>3, <1>8
    <3> QED
      BY <1>16, <3>1 DEF CookiesAreServers
  <2> QED
    BY <1>5, <1>16, <2>1, <2>2 DEF IInv
<1>17. CASE stack' = top /\ status' = status
  <2>1. Types'
    BY <1>1, <1>2, <1>4, <1>c, <1>12, <1>17 DEF Types
  <2>2. CookiesAreServers'
    BY <1>1, <1>12, <1>14, <1>17 DEF CookiesAreServers
  <2>3. Nested'
    <3> SUFFICES ASSUME NEW i \in 1 .. n
                 PROVE  /\ Right(stack[i])'
                        /\ i < n => top[i].phase = "read"
                        /\ top[i].dir \notin over
                        /\ \A j \in 1 .. n : i # j => top[i].dir # top[j].dir
      BY <1>1, <1>12, <1>17 DEF Nested
    <3>1. PICK c : c = top[i]
      OBVIOUS
    <3>2. Right(c)'
      BY <1>15, <3>1
    <3>3. Right(stack[i])'
      BY <1>17, <3>1, <3>2 DEF Right, Listing, Other
    <3> QED
      BY <1>3, <1>13, <1>14, <3>3
  <2>4. Untouched'
    BY <1>1, <1>3, <1>7, <1>12, <1>14, <1>17 DEF Untouched
  <2>5. Stages'
    BY <1>1, <1>3, <1>12, <1>14, <1>17 DEF Stages
  <2> QED
    BY <1>1, <1>5, <1>6, <1>17, <2>1, <2>2, <2>3, <2>4, <2>5 DEF IInv
<1>18. CASE stack' = Append(top, NewCall("readdirplus", b)) /\ status' = status /\ b # NoDir
  <2> PICK c : c = NewCall("readdirplus", b)
    OBVIOUS
  <2>1. b \in Directories /\ b # d
    <3>1. b \in Directories
      BY <1>1, <1>18, EntryFacts
    <3>2. \A i \in DOMAIN stack : stack[i].dir # b
      BY <1>1, <1>2, <1>4, <1>18 DEF Untouched
    <3> QED
      BY <1>3, <3>1, <3>2
  <2>2. /\ seen[b] = <<>> /\ b \notin over /\ \A i \in DOMAIN stack : stack[i].dir # b
    BY <1>1, <1>2, <1>4, <1>18 DEF Untouched
  <2>3. /\ c \in CallType /\ c.proc = "readdirplus" /\ c.dir = b /\ c.phase = "send"
        /\ c.cookie = 0
    BY <2>1, NewCallType DEF NewCall
  <2>4. Len(seen'[b]) = 0
    BY <1>4, <2>1, <2>2
  <2>5. Right(c)'
    BY <2>1, <2>3, <2>4 DEF Right, Listing
  <2>u. PICK u : u = Append(top, c)
    OBVIOUS
  <2>6. /\ u \in Seq(CallType) /\ Len(u) = n + 1 /\ DOMAIN u = 1 .. n + 1 /\ u # <<>>
        /\ u[n + 1] = c /\ \A i \in 1 .. n : u[i] = top[i]
    BY <1>12, <2>3, <2>u, AppendFacts
  <2>7. \A i \in 1 .. n + 1 : i \in 1 .. n \/ i = n + 1
    BY <1>3
  <2>8. stack' = u
    BY <1>18, <2>u
  <2>d. /\ \A i \in 1 .. n : i \in DOMAIN stack /\ u[i].dir = stack[i].dir
        /\ u[n + 1].dir = b
    <3>1. u[n + 1].dir = b
      BY <2>3, <2>6
    <3>2. \A i \in 1 .. n : u[i].dir = stack[i].dir
      BY <1>14, <2>6
    <3>3. \A i \in 1 .. n : i \in DOMAIN stack
      BY <1>3
    <3> QED
      BY <3>1, <3>2, <3>3
  <2>9. Types'
    BY <1>1, <1>2, <1>4, <1>c, <1>18, <2>6, <2>8 DEF Types
  <2>10. CookiesAreServers'
    <3> SUFFICES ASSUME NEW i \in 1 .. n + 1, u[i].phase = "send"
                 PROVE  /\ u[i].cookie = Len(seen'[u[i].dir])
                        /\ u[i].cookie # 0 => u[i].verf = u[i].dir
      BY <1>1, <1>18, <2>6, <2>8 DEF CookiesAreServers
    <3>1. i = n + 1
      BY <1>14, <2>6, <2>7
    <3> QED
      BY <2>3, <2>4, <2>6, <3>1
  <2>11. Nested'
    <3> SUFFICES ASSUME NEW i \in 1 .. n + 1
                 PROVE  /\ Right(stack[i])'
                        /\ i < n + 1 => u[i].phase = "read"
                        /\ u[i].dir \notin over
                        /\ \A j \in 1 .. n + 1 : i # j => u[i].dir # u[j].dir
      BY <1>1, <2>6, <2>8 DEF Nested
    <3>1. Right(stack[i])'
      <4>1. PICK e : e = u[i]
        OBVIOUS
      <4>2. Right(e)'
        BY <1>15, <2>5, <2>6, <2>7, <4>1
      <4> QED
        BY <2>8, <4>1, <4>2 DEF Right, Listing, Other
    <3>2. i < n + 1 => u[i].phase = "read"
      BY <1>3, <1>14, <2>6, <2>7
    <3>3. u[i].dir \notin over
      BY <1>13, <2>2, <2>7, <2>d
    <3>4. ASSUME NEW j \in 1 .. n + 1, i # j PROVE u[i].dir # u[j].dir
      <4>1. CASE i \in 1 .. n /\ j \in 1 .. n
        BY <1>13, <2>d, <3>4, <4>1
      <4>2. CASE i \in 1 .. n /\ j = n + 1
        BY <2>2, <2>d, <4>2
      <4>3. CASE i = n + 1 /\ j \in 1 .. n
        BY <2>2, <2>d, <4>3
      <4> QED
        BY <2>7, <3>4, <4>1, <4>2, <4>3
    <3> QED
      BY <3>1, <3>2, <3>3, <3>4
  <2>12. Untouched'
    <3> SUFFICES ASSUME NEW e \in Directories, NEW m \in DOMAIN Entries[e],
                        Entries[e][m].below # NoDir, m > Len(seen'[e])
                 PROVE  /\ seen'[Entries[e][m].below] = <<>>
                        /\ Entries[e][m].below \notin over'
                        /\ \A i \in 1 .. n + 1 : u[i].dir # Entries[e][m].below
      BY <2>6, <2>8 DEF Untouched
    <3> QED
      <4>1. /\ seen'[Entries[e][m].below] = <<>> /\ Entries[e][m].below \notin over
            /\ \A i \in DOMAIN stack : stack[i].dir # Entries[e][m].below
            /\ b # Entries[e][m].below
        BY <1>7, Zenon
      <4> QED
        BY <1>1, <2>7, <2>d, <4>1
  <2>13. Stages'
    <3>1. \A i \in 1 .. n + 1 : u[i].proc = "readdirplus"
      BY <1>14, <2>3, <2>6, <2>7
    <3>2. u[1].dir = Root
      BY <1>3, <1>14, <2>6
    <3> QED
      BY <1>1, <2>6, <2>8, <3>1, <3>2 DEF Stages
  <2> QED
    BY <1>1, <1>5, <1>6, <1>18, <2>9, <2>10, <2>11, <2>12, <2>13 DEF IInv
<1>19. \/ stack' = stack /\ status' \in {"ended", "crashed"}
       \/ stack' = top /\ status' = status
       \/ /\ stack' = Append(top, NewCall("readdirplus", b))
          /\ status' = status /\ b # NoDir
  <2>1. Callback(k, Next1.lacks)
    BY DEF Iterate
  <2>2. top = SetTop(Advanced) /\ b = Entries[Top.dir][k].below
    OBVIOUS
  <2> QED
    BY <2>1, <2>2 DEF Callback
<1> QED
  BY <1>16, <1>17, <1>18, <1>19

LEMMA ReturnStep ==
    ASSUME IInv, ReturnBelow, UNCHANGED <<program, phase, port, usable>>
    PROVE  IInv'
<1> PICK n : n = Len(stack)
  OBVIOUS
<1> PICK t : t = Top
  OBVIOUS
<1> PICK d : d = t.dir
  OBVIOUS
<1>1. /\ status = "ok" /\ n > 1 /\ t.phase = "done" /\ stack' = Front(stack)
      /\ over' = over \cup {d}
      /\ unread' = IF t.more THEN unread \cup {d} ELSE unread
      /\ seen' = seen /\ cached' = cached /\ promised' = promised /\ status' = status
  BY DEF ReturnBelow
<1>2. /\ Types /\ OnlyFirstReplyBelow /\ CookiesAreServers
      /\ Nested /\ Untouched /\ Bounded /\ Stages
  BY <1>1 DEF IInv
<1>3. stack # <<>> /\ stack \in Seq(CallType)
  BY <1>1, <1>2 DEF Types
<1>4. /\ n \in Nat /\ DOMAIN stack = 1 .. n /\ t \in CallType /\ t = stack[n]
      /\ n \in DOMAIN stack /\ 1 \in DOMAIN stack /\ n # 1
  BY <1>1, <1>2, <1>3, TopFacts
<1>5. phase = "listing"
  BY <1>2, <1>3, <1>4, InListing
<1>6. /\ \A i \in DOMAIN stack : stack[i].proc = "readdirplus"
      /\ stack[1].dir = Root
  BY <1>2, <1>5 DEF Stages
<1>7. Listing(t) /\ d \in Directories
  <2>1. Right(t)
    BY <1>2, <1>4 DEF Nested
  <2> QED
    BY <1>4, <1>6, <2>1 DEF Right, Listing
<1>8. \A i \in DOMAIN stack : i # n => stack[i].dir # d
  BY <1>2, <1>4 DEF Nested
<1>9. Root # d
  BY <1>4, <1>6, <1>8
<1> PICK u : u = stack'
  OBVIOUS
<1>10. /\ u \in Seq(CallType) /\ Len(u) = n - 1 /\ DOMAIN u = 1 .. n - 1 /\ u # <<>>
       /\ \A i \in DOMAIN u : i \in DOMAIN stack /\ u[i] = stack[i]
  BY <1>1, <1>3, FrontFacts
<1>11. Types'
  BY <1>1, <1>2, <1>7, <1>10 DEF Types
<1>12. OnlyFirstReplyBelow'
  <2>1. t.more \/ Len(seen[d]) = Len(Entries[d])
    BY <1>1, <1>7 DEF Listing
  <2> QED
    BY <1>1, <1>2, <1>9, <2>1 DEF OnlyFirstReplyBelow
<1>13. \A i \in DOMAIN u : i # n /\ i < n /\ u[i].phase = "read" /\ u[i].dir # d /\ u[i].dir \notin over
  <2> SUFFICES ASSUME NEW i \in DOMAIN u
               PROVE  i # n /\ i < n /\ u[i].phase = "read" /\ u[i].dir # d /\ u[i].dir \notin over
    OBVIOUS
  <2>1. i < n /\ i # n /\ i \in DOMAIN stack /\ u[i] = stack[i]
    BY <1>4, <1>10
  <2> QED
    BY <1>2, <1>4, <1>8, <2>1 DEF Nested
<1>14. CookiesAreServers'
  <2>1. \A i \in DOMAIN u : u[i].phase # "send"
    BY <1>13
  <2> QED
    BY <1>1, <2>1 DEF CookiesAreServers
<1>15. Nested'
  <2> SUFFICES ASSUME NEW i \in DOMAIN u
               PROVE  /\ Right(stack[i])'
                      /\ i < Len(u) => u[i].phase = "read"
                      /\ u[i].dir \notin over'
                      /\ \A j \in DOMAIN u : i # j => u[i].dir # u[j].dir
    BY DEF Nested
  <2>1. Right(stack[i])'
    <3>1. Right(stack[i]) /\ u[i] = stack[i]
      BY <1>2, <1>10 DEF Nested
    <3> QED
      BY <1>1, <3>1 DEF Right, Listing, Other
  <2>2. \A j \in DOMAIN u : i # j => u[i].dir # u[j].dir
    BY <1>2, <1>10 DEF Nested
  <2> QED
    BY <1>1, <1>13, <2>1, <2>2
<1>16. Untouched'
  <2> SUFFICES ASSUME NEW e \in Directories, NEW m \in DOMAIN Entries[e],
                      Entries[e][m].below # NoDir, m > Len(seen[e])
               PROVE  /\ seen[Entries[e][m].below] = <<>>
                      /\ Entries[e][m].below \notin over'
                      /\ \A i \in DOMAIN u : u[i].dir # Entries[e][m].below
    BY <1>1 DEF Untouched
  <2>1. /\ seen[Entries[e][m].below] = <<>>
        /\ Entries[e][m].below \notin over
        /\ \A i \in DOMAIN stack : stack[i].dir # Entries[e][m].below
    BY <1>2 DEF Untouched
  <2> QED
    BY <1>1, <1>4, <1>10, <2>1
<1>17. Bounded'
  BY <1>1, <1>2 DEF Bounded
<1>18. Stages'
  <2>1. 1 \in DOMAIN u
    BY <1>1, <1>4, <1>10
  <2> QED
    BY <1>5, <1>6, <1>10, <2>1 DEF Stages
<1> QED
  BY <1>11, <1>12, <1>14, <1>15, <1>16, <1>17, <1>18 DEF IInv

-----------------------------------------------------------------------------
(* The program around the calls *)

\* The program ends: by a signal or an assert.
LEMMA EndedStep ==
    ASSUME IInv, status' = "ended", UNCHANGED <<stack, listings, promised, program, phase, port, usable>>
    PROVE  IInv'
<1>1. Types' /\ OnlyFirstReplyBelow' /\ CookiesAreServers'
  BY DEF IInv, Types, OnlyFirstReplyBelow, CookiesAreServers, listings
<1> QED
  BY <1>1 DEF IInv

\* A call is made when none is, or in the place of one.
LEMMA FirstCall ==
    ASSUME IInv, ServerTree, status = "ok", phase \in {"start", "getport", "dump", "mnt"},
           NEW proc, NEW dir, stack' = <<NewCall(proc, dir)>>,
           \/ proc \in {"getport", "dump", "mnt"} /\ dir = NoDir /\ phase' = proc
           \/ proc = "readdirplus" /\ dir = Root /\ phase' = "listing",
           UNCHANGED <<listings, promised, status, program, port, usable>>
    PROVE  IInv'
<1>1. /\ Types /\ OnlyFirstReplyBelow /\ CookiesAreServers
      /\ Nested /\ Untouched /\ Bounded /\ Stages
  BY DEF IInv
<1>2. /\ seen' = seen /\ cached' = cached /\ over' = over /\ unread' = unread
      /\ promised' = promised /\ status' = "ok"
  BY DEF listings
<1>3. over = {} /\ \A d \in Directories : seen[d] = <<>>
  BY <1>1 DEF Stages
<1> PICK c : c = NewCall(proc, dir)
  OBVIOUS
<1>4. /\ c \in CallType /\ c.proc = proc /\ c.dir = dir /\ c.phase = "send"
      /\ c.cookie = 0 /\ c.items = <<>>
  BY NewCallType, ReadDirPlusAssumption DEF NewCall
<1>5. /\ stack' \in Seq(CallType) /\ Len(stack') = 1 /\ DOMAIN stack' = {1} /\ stack'[1] = c
      /\ stack' # <<>>
  BY <1>4, OneCall
<1>6. Types'
  BY <1>1, <1>2, <1>5 DEF Types
<1>7. OnlyFirstReplyBelow'
  BY <1>1, <1>2 DEF OnlyFirstReplyBelow
<1>8. proc = "readdirplus" => dir \in Directories /\ Len(seen[dir]) = 0
  BY <1>3, ReadDirPlusAssumption
<1>9. CookiesAreServers'
  BY <1>2, <1>4, <1>5, <1>8 DEF CookiesAreServers
<1>10. Right(stack[1])'
  <2>1. DOMAIN c.items = {}
    BY <1>4
  <2> QED
    BY <1>2, <1>4, <1>5, <1>8, <2>1 DEF Right, Listing, Other
<1>11. Nested'
  BY <1>2, <1>3, <1>5, <1>10 DEF Nested
<1>12. Untouched'
  <2> SUFFICES ASSUME NEW e \in Directories, NEW m \in DOMAIN Entries[e],
                      Entries[e][m].below # NoDir, m > Len(seen[e])
               PROVE  /\ seen[Entries[e][m].below] = <<>>
                      /\ Entries[e][m].below \notin over
                      /\ c.dir # Entries[e][m].below
    BY <1>2, <1>5 DEF Untouched
  <2>1. Entries[e][m].below # Root /\ Entries[e][m].below # NoDir
    BY DEF ServerTree
  <2>2. Entries[e][m].below \in Directories
    BY EntryFacts
  <2> QED
    BY <1>3, <1>4, <2>1, <2>2
<1>13. Bounded'
  BY <1>1, <1>2 DEF Bounded
<1>14. Stages'
  BY <1>2, <1>3, <1>4, <1>5 DEF Stages, Top
<1> QED
  BY <1>6, <1>7, <1>9, <1>11, <1>12, <1>13, <1>14 DEF IInv

\* No call is made any more.
LEMMA NoCall ==
    ASSUME Types, Untouched, Bounded, OnlyFirstReplyBelow', unread' = unread,
           status' = "ok", stack' = <<>>, seen' = seen, cached' = cached, promised' = promised,
           over' = over \/ over' = over \cup {Root},
           \A e \in Directories : \A m \in DOMAIN Entries[e] :
               Entries[e][m].below # NoDir => Entries[e][m].below # Root,
           phase' \in {"serve", "mounted", "finished"}, usable' \in BOOLEAN,
           port' = port, program' = program, port # "zero" => Root \in over'
    PROVE  IInv'
<1>1. DOMAIN (stack') = {} /\ stack' \in Seq(CallType)
  OBVIOUS
<1>2. Types'
  BY <1>1, ReadDirPlusAssumption DEF Types
<1>3. CookiesAreServers' /\ Nested'
  BY <1>1 DEF CookiesAreServers, Nested
<1>4. Untouched'
  BY <1>1 DEF Untouched
<1>5. Bounded'
  BY DEF Bounded
<1>6. Stages'
  BY DEF Stages
<1> QED
  BY <1>2, <1>3, <1>4, <1>5, <1>6 DEF IInv

\* A call is made, or the program ends.
LEMMA CallStep ==
    ASSUME IInv, ServerTree, status = "ok", phase \in {"start", "getport", "dump", "mnt"},
           NEW proc, NEW dir, NEW next, ConnectAndCall(next, NewCall(proc, dir)),
           \/ proc \in {"getport", "dump", "mnt"} /\ dir = NoDir /\ next = proc
           \/ proc = "readdirplus" /\ dir = Root /\ next = "listing",
           UNCHANGED <<program, port, usable>>
    PROVE  IInv'
<1>1. CASE /\ phase' = next /\ stack' = <<NewCall(proc, dir)>>
           /\ UNCHANGED <<listings, promised, status>>
  BY <1>1, FirstCall
<1>2. CASE status' = "ended" /\ UNCHANGED <<phase, stack, listings, promised>>
  BY <1>2, EndedStep
<1> QED
  BY <1>1, <1>2 DEF ConnectAndCall

\* The calls before the root is read.
LEMMA MountStep ==
    ASSUME IInv, ServerTree, ConnectPortmap \/ GotPort \/ Dumped \/ GotRoot
    PROVE  IInv'
<1>1. CASE ConnectPortmap
  BY <1>1, CallStep DEF ConnectPortmap, At
<1>2. CASE GotPort
  <2>1. status = "ok" /\ phase = "getport" /\ UNCHANGED <<program, port, usable>>
    BY <1>2 DEF GotPort, Answered, At
  <2>2. CASE ConnectAndCall("mnt", NewCall("mnt", NoDir))
    BY <2>1, <2>2, CallStep
  <2>3. CASE ConnectAndCall("dump", NewCall("dump", NoDir))
    BY <2>1, <2>3, CallStep
  <2> QED
    BY <1>2, <2>2, <2>3 DEF GotPort
<1>3. CASE Dumped
  <2>1. /\ status = "ok" /\ phase = "dump" /\ UNCHANGED <<program, port, usable>>
        /\ ConnectAndCall("mnt", NewCall("mnt", NoDir))
    BY <1>3 DEF Dumped, Answered, At, Call, ConnectAndCall
  <2> QED
    BY <2>1, CallStep
<1>4. CASE GotRoot
  BY <1>4, CallStep DEF GotRoot, Answered, At
<1> QED
  BY <1>1, <1>2, <1>3, <1>4

\* Another page of the root: what the last one wrote back is the server's.
LEMMA NextPageStep ==
    ASSUME IInv, NextPage
    PROVE  IInv'
<1> PICK t : t = Top
  OBVIOUS
<1>1. /\ status = "ok" /\ phase = "listing" /\ Len(stack) = 1 /\ t.phase = "done" /\ t.more
      /\ t.cookie # Junk /\ UNCHANGED <<listings, promised, status, program, phase, port, usable>>
  BY DEF NextPage, At, ReadMore
<1>2. Types /\ Stages /\ Nested /\ Bounded
  BY <1>1 DEF IInv
<1>3. stack # <<>> /\ stack \in Seq(CallType) /\ DOMAIN stack = {1} /\ t = stack[1] /\ t \in CallType
  <2>1. stack \in Seq(CallType)
    BY <1>2 DEF Types
  <2>2. stack # <<>> /\ DOMAIN stack = 1 .. Len(stack)
    <3>1. PICK S : S = CallType
      OBVIOUS
    <3>2. stack \in Seq(S) /\ Len(stack) = 1
      BY <1>1, <2>1, <3>1
    <3> QED
      BY <3>2
  <2>3. 1 .. 1 = {1}
    OBVIOUS
  <2> QED
    BY <1>1, <2>1, <2>2, <2>3 DEF Top
<1>4. t.proc = "readdirplus" /\ t.dir = Root
  BY <1>1, <1>2, <1>3 DEF Stages
<1>5. t.cookie = Len(seen[Root]) /\ t.verf = Root
  <2>1. Right(t)
    BY <1>2, <1>3 DEF Nested
  <2> QED
    BY <1>1, <1>4, <2>1 DEF Right, Listing
<1>6. Len(seen[Root]) \in Nat /\ Root \in Directories
  BY <1>2, ReadDirPlusAssumption DEF Types
<1> PICK c : c = NewCall("readdirplus", Root)
  OBVIOUS
<1>7. c \in CallType /\ c.proc = "readdirplus" /\ c.dir = Root /\ c.phase = "send"
  BY <1>6, NewCallType DEF NewCall
<1>8. PICK e : e = [c EXCEPT !.cookie = t.cookie, !.verf = t.verf]
  OBVIOUS
<1>9. /\ e \in CallType /\ e.proc = "readdirplus" /\ e.dir = Root /\ e.phase = "send"
      /\ e.cookie = t.cookie /\ e.verf = t.verf
  BY <1>5, <1>6, <1>7, <1>8 DEF CallType
<1>10. Right(e)
  BY <1>5, <1>6, <1>9 DEF Right, Listing
<1>11. stack' = SetTop(e)
  <2>1. stack' = <<e>>
    BY <1>8 DEF NextPage
  <2>2. [stack EXCEPT ![1] = e] = <<e>>
    BY <1>1, <1>3
  <2> QED
    BY <1>1, <2>1, <2>2 DEF SetTop
<1>12. port' \in Ports \cup {Unknown}
  BY <1>1, <1>2 DEF Types
<1> QED
  BY <1>1, <1>3, <1>4, <1>9, <1>10, <1>11, <1>12, TopGoes

\* The cookie of the last page is not set: the server promised more and sent none.
LEMMA AstrayStep ==
    ASSUME IInv, GoAstray
    PROVE  IInv'
<1> PICK t : t = Top
  OBVIOUS
<1>1. /\ status = "ok" /\ phase = "listing" /\ Len(stack) = 1 /\ t.phase = "done" /\ t.more
      /\ t.cookie = Junk /\ status' = "astray"
      /\ UNCHANGED <<stack, listings, promised, program, phase, port, usable>>
  BY DEF GoAstray, At, ReadMore
<1>2. Types /\ Stages /\ Nested /\ OnlyFirstReplyBelow /\ CookiesAreServers
  BY <1>1 DEF IInv
<1>3. stack \in Seq(CallType) /\ DOMAIN stack = {1} /\ t = stack[1]
  <2>1. stack \in Seq(CallType)
    BY <1>2 DEF Types
  <2> QED
    BY <1>1, <2>1 DEF Top
<1>4. t.proc = "readdirplus" /\ t.dir = Root
  BY <1>1, <1>2, <1>3 DEF Stages
<1>5. Root \in promised
  <2>1. Right(t)
    BY <1>2, <1>3 DEF Nested
  <2>2. Len(seen[Root]) \in Nat
    BY <1>2, ReadDirPlusAssumption DEF Types
  <2> QED
    BY <1>1, <1>4, <2>1, <2>2, ReadDirPlusAssumption DEF Right, Listing
<1>6. Types' /\ OnlyFirstReplyBelow' /\ CookiesAreServers'
  BY <1>1, <1>2, <1>5 DEF Types, OnlyFirstReplyBelow, CookiesAreServers, listings
<1> QED
  BY <1>1, <1>6 DEF IInv

\* The mount: the root is complete, or there is no port.
LEMMA LastStep ==
    ASSUME IInv, ServerTree, GotNoPort \/ RootRead \/ Serve
    PROVE  IInv'
<1>1. status = "ok"
  BY DEF GotNoPort, RootRead, Serve, Answered, At
<1>2. /\ Types /\ OnlyFirstReplyBelow /\ Untouched /\ Bounded /\ Nested /\ Stages
  BY <1>1 DEF IInv
<1>3. \A e \in Directories : \A m \in DOMAIN Entries[e] :
         Entries[e][m].below # NoDir => Entries[e][m].below # Root
  BY DEF ServerTree
<1>4. CASE GotNoPort
  <2>1. /\ status' = "ok" /\ stack' = <<>> /\ seen' = seen /\ over' = over /\ unread' = unread
        /\ cached' = cached /\ promised' = promised
        /\ phase' \in {"serve", "mounted", "finished"} /\ usable' = usable
        /\ port' = port /\ program' = program /\ port = "zero"
    BY <1>1, <1>4 DEF GotNoPort, listings
  <2>2. OnlyFirstReplyBelow' /\ usable' \in BOOLEAN
    BY <1>2, <2>1 DEF OnlyFirstReplyBelow, Types
  <2> QED
    BY <1>2, <1>3, <2>1, <2>2, NoCall
<1>5. CASE RootRead
  <2> PICK t : t = Top
    OBVIOUS
  <2>1. /\ status' = "ok" /\ stack' = <<>> /\ seen' = seen /\ over' = over \cup {Root}
        /\ unread' = unread /\ cached' = cached /\ promised' = promised
        /\ phase' \in {"serve", "mounted", "finished"} /\ usable' = usable
        /\ port' = port /\ program' = program
        /\ phase = "listing" /\ Len(stack) = 1 /\ t.phase = "done" /\ ~t.more
    BY <1>1, <1>5 DEF RootRead, At, ReadMore
  <2>2. t = stack[1] /\ 1 \in DOMAIN stack
    <3>1. stack \in Seq(CallType)
      BY <1>2 DEF Types
    <3> QED
      BY <2>1, <3>1 DEF Top
  <2>3. t.proc = "readdirplus" /\ t.dir = Root
    BY <1>2, <2>1, <2>2 DEF Stages
  <2>4. Len(seen[Root]) = Len(Entries[Root])
    <3>1. Right(t)
      BY <1>2, <2>2 DEF Nested
    <3> QED
      BY <2>1, <2>3, <3>1 DEF Right, Listing
  <2>5. OnlyFirstReplyBelow' /\ usable' \in BOOLEAN
    BY <1>2, <2>1, <2>4 DEF OnlyFirstReplyBelow, Types
  <2>6. Root \in over'
    BY <2>1
  <2> QED
    BY <1>2, <1>3, <2>1, <2>5, <2>6, NoCall
<1>6. CASE Serve
  <2>1. /\ status' = "ok" /\ stack' = stack /\ seen' = seen /\ over' = over /\ unread' = unread
        /\ cached' = cached /\ promised' = promised
        /\ phase' = "mounted" /\ usable' \in BOOLEAN
        /\ port' = port /\ program' = program /\ phase = "serve"
    BY <1>1, <1>6 DEF Serve, dirvars, listings, At
  <2>2. stack = <<>> /\ (port # "zero" => Root \in over)
    BY <1>2, <2>1 DEF Stages
  <2>3. OnlyFirstReplyBelow'
    BY <1>2, <2>1 DEF OnlyFirstReplyBelow
  <2> QED
    BY <1>2, <1>3, <2>1, <2>2, <2>3, NoCall
<1> QED
  BY <1>4, <1>5, <1>6

LEMMA InitInv == Init => IInv
<1> SUFFICES ASSUME Init PROVE IInv
  OBVIOUS
<1>1. /\ stack = <<>> /\ seen = [d \in Directories |-> <<>>]
      /\ cached = [d \in Directories |-> {}]
      /\ over = {} /\ unread = {} /\ promised = {} /\ status = "ok"
      /\ program \in {"cnfs", "nfsls"}
      /\ phase = "start" /\ port = Unknown /\ usable = FALSE
  BY DEF Init
<1>2. DOMAIN stack = {} /\ stack \in Seq(CallType) /\ <<>> \in Seq(Nat)
  BY <1>1
<1>3. \A d \in Directories : seen[d] = <<>> /\ Len(seen[d]) = 0
  BY <1>1
<1>4. Types
  BY <1>1, <1>2 DEF Types
<1>5. OnlyFirstReplyBelow /\ CookiesAreServers /\ Nested
  BY <1>1, <1>2 DEF OnlyFirstReplyBelow, CookiesAreServers, Nested
<1>6. Untouched
  BY <1>1, <1>2, <1>3, EntryFacts DEF Untouched
<1>7. Bounded
  <2>1. \A d \in Directories : Len(Entries[d]) \in Nat
    BY EntryFacts
  <2> QED
    BY <1>3, <2>1 DEF Bounded
<1>8. Stages
  BY <1>1, <1>3 DEF Stages
<1> QED
  BY <1>4, <1>5, <1>6, <1>7, <1>8 DEF IInv

LEMMA StepInv ==
    ASSUME ServerTree, IInv, [Next]_vars
    PROVE  IInv'
<1>1. CASE UNCHANGED vars
  BY <1>1 DEF vars, dirvars, listings, IInv, Types, OnlyFirstReplyBelow, CookiesAreServers,
              Nested, Untouched, Bounded, Stages, Right, Listing, Other, Top
<1>2. CASE ConnectPortmap \/ GotPort \/ Dumped \/ GotRoot
  BY <1>2, MountStep
<1>3. CASE SendOther
  <2>1. /\ UNCHANGED <<program, phase, port, usable>>
        /\ \/ Top.proc = "getport" /\ Send(GetportReplies)
           \/ Top.proc = "dump" /\ Send(DumpReplies)
           \/ Top.proc = "mnt" /\ Send(MntReplies)
    BY <1>3 DEF SendOther
  <2>2. PICK replies : /\ replies \subseteq GetportReplies \cup DumpReplies \cup MntReplies
                       /\ Send(replies) /\ Top.proc # "readdirplus"
    BY <2>1
  <2> QED
    BY <2>1, <2>2, SendStep
<1>4. CASE TakePort
  <2>1. UNCHANGED <<program, phase, usable>>
    BY <1>4 DEF TakePort
  <2> QED
    BY <1>4, <2>1, TakeStep
<1>5. CASE NextPage \/ GoAstray
  BY <1>5, NextPageStep, AstrayStep
<1>6. CASE GotNoPort \/ RootRead \/ Serve
  BY <1>6, LastStep
<1>7. CASE ReadDirectory /\ UNCHANGED <<program, phase, port, usable>>
  <2>1. CASE Top.proc = "readdirplus" /\ Send(DirectoryReplies(Top))
    BY <1>7, <2>1, SendStep
  <2>2. CASE \E k \in 1 .. MaxBuffer : RecvHeader(k) \/ Refill(k) \/ RecvAgain(k)
    BY <1>7, <2>2, ReceiveStep
  <2>3. CASE Starve
    <3>1. status' = "ended" /\ UNCHANGED <<stack, listings, promised, program, phase, port, usable>>
      BY <1>7, <2>3 DEF Starve
    <3> QED
      BY <3>1, EndedStep
  <2>4. CASE Take \/ TakeVerf \/ TakeCookie
    BY <1>7, <2>4, TakeStep
  <2>5. CASE TakeEof
    BY <1>7, <2>5, EofStep
  <2>6. CASE Iterate
    BY <1>7, <2>6, IterateStep
  <2>7. CASE ReturnBelow
    BY <1>7, <2>7, ReturnStep
  <2> QED
    BY <1>7, <2>1, <2>2, <2>3, <2>4, <2>5, <2>6, <2>7 DEF ReadDirectory
<1> QED
  BY <1>1, <1>2, <1>3, <1>4, <1>5, <1>6, <1>7 DEF Next

LEMMA Invariance == ServerTree => (Spec => []IInv)
<1> SUFFICES ASSUME ServerTree PROVE Spec => []IInv
  OBVIOUS
<1>1. Init => IInv
  BY InitInv
<1>2. IInv /\ [Next]_vars => IInv'
  BY StepInv
<1> QED
  BY <1>1, <1>2, PTL DEF Spec

\* The state stays of its type: the buffer of a call never holds more words
\* than InlineStorage has, whatever arrives and however it is cut up.
THEOREM TypeCorrect == ServerTree => (Spec => []TypeOK)
<1> SUFFICES ASSUME ServerTree PROVE Spec => []TypeOK
  OBVIOUS
<1>1. IInv => TypeOK
  <2> SUFFICES ASSUME Types PROVE TypeOK
    BY DEF IInv
  <2>1. ASSUME NEW i \in DOMAIN stack
        PROVE  /\ stack[i].proc \in {"getport", "dump", "mnt", "readdirplus"}
               /\ stack[i].phase \in CallPhases
               /\ stack[i].have \in 0 .. MaxBuffer /\ stack[i].coming \in Nat
               /\ stack[i].missing \in 0 .. MaxBuffer
    <3>1. stack[i] \in CallType
      BY DEF Types
    <3> QED
      BY <3>1, CallFields
  <2> QED
    BY <2>1 DEF Types, TypeOK
<1> QED
  BY <1>1, Invariance, PTL

\* When portmap knows mountd, cnfs mounts, and nfsls lists, only a root that was
\* read to its end and of which every entry is in the cache that populateCache_cb
\* does not pass over (cnfs_main.c:563, nfs_common.inl:907-916).
THEOREM RootIsComplete == ServerTree => (Spec => []MountedHasRoot)
<1> SUFFICES ASSUME ServerTree PROVE Spec => []MountedHasRoot
  OBVIOUS
<1>1. IInv => MountedHasRoot
  <2> SUFFICES ASSUME IInv, Through, port # "zero"
               PROVE  /\ Root \in over /\ Len(seen[Root]) = Len(Entries[Root])
                      /\ \A i \in DOMAIN Entries[Root] : i \in cached[Root] \/ PassedOver(Root, i)
    BY DEF MountedHasRoot
  <2>1. Root \in over /\ Root \notin unread
    BY DEF IInv, Stages, Through, OnlyFirstReplyBelow
  <2>2. Len(seen[Root]) = Len(Entries[Root])
    BY <2>1 DEF IInv, OnlyFirstReplyBelow
  <2>3. Root \in Directories /\ DOMAIN Entries[Root] = 1 .. Len(Entries[Root])
    BY ReadDirPlusAssumption, EntryFacts
  <2> QED
    BY <2>1, <2>2, <2>3 DEF IInv, Bounded, Through
<1> QED
  BY <1>1, Invariance, PTL

\* The callback got every entry of what was read, except of a directory below the
\* root whose first reply did not hold all of it (nfs_common.inl:897).
THEOREM FirstReplyBelow == ServerTree => (Spec => []OnlyFirstReplyBelow)
<1> SUFFICES ASSUME ServerTree PROVE Spec => []OnlyFirstReplyBelow
  OBVIOUS
<1>1. IInv => OnlyFirstReplyBelow
  BY DEF IInv
<1> QED
  BY <1>1, Invariance, PTL

\* A call asks for the entries behind the last one delivered, with the verifier
\* of the server; the uninitialized cookie is sent only when the server has sent
\* a reply without entries which says that there are more (nfs_common.inl:690).
THEOREM CookiesAreRight == ServerTree => (Spec => []CookiesAreServers)
<1> SUFFICES ASSUME ServerTree PROVE Spec => []CookiesAreServers
  OBVIOUS
<1>1. IInv => CookiesAreServers
  BY DEF IInv
<1> QED
  BY <1>1, Invariance, PTL

-----------------------------------------------------------------------------
(* The contract *)

LEMMA InitRefines == Init => Contract!Init
  BY DEF Init, Contract!Init

\* The callback delivers the next entry, a call that returns ends a directory,
\* and nothing else does either.
LEMMA StepRefines ==
    ASSUME ServerTree, IInv, [Next]_vars
    PROVE  [Contract!Next]_(Contract!vars)
<1>1. CASE seen' = seen /\ over' = over
  BY <1>1 DEF Contract!vars
<1>2. CASE Iterate
  <2> PICK t : t = Top
    OBVIOUS
  <2>1. /\ t.dir \in Directories /\ t.dir \notin over /\ seen \in [Directories -> Seq(Nat)]
        /\ Next1.entry = Len(seen[t.dir]) + 1 /\ Next1.entry \in DOMAIN Entries[t.dir]
        /\ seen' = [seen EXCEPT ![t.dir] = Append(@, Next1.entry)]
        /\ over' = over
    BY <1>2, IterateFacts
  <2>2. Len(seen[t.dir]) < EntriesOf(t.dir)
    <3>1. Len(Entries[t.dir]) \in Nat /\ DOMAIN Entries[t.dir] = 1 .. Len(Entries[t.dir])
      BY <2>1, EntryFacts
    <3>2. Len(seen[t.dir]) \in Nat
      BY <2>1
    <3> QED
      BY <2>1, <3>1, <3>2 DEF EntriesOf
  <2>3. seen' = [seen EXCEPT ![t.dir] = Append(@, Len(@) + 1)]
    BY <2>1
  <2>4. Contract!Deliver(t.dir)
    BY <2>1, <2>2, <2>3 DEF Contract!Deliver
  <2> QED
    BY <2>1, <2>4 DEF Contract!Next
<1>3. ASSUME NEW d \in Directories, d \notin over, d = Root => Len(seen[d]) = Len(Entries[d]),
             over' = over \cup {d}, seen' = seen
      PROVE  Contract!Next
  <2>1. Contract!End(d)
    BY <1>3 DEF Contract!End, EntriesOf
  <2> QED
    BY <2>1 DEF Contract!Next
<1>4. CASE ReturnBelow
  <2> PICK t : t = Top
    OBVIOUS
  <2> PICK n : n = Len(stack)
    OBVIOUS
  <2>1. /\ status = "ok" /\ n > 1 /\ over' = over \cup {t.dir} /\ seen' = seen
    BY <1>4 DEF ReturnBelow
  <2>2. Types /\ Nested /\ Stages
    BY <2>1 DEF IInv
  <2>3. stack # <<>>
    BY <2>1
  <2>4. n \in DOMAIN stack /\ 1 \in DOMAIN stack /\ n # 1 /\ t = stack[n] /\ t \in CallType
    BY <2>1, <2>2, <2>3, TopFacts
  <2>5. phase = "listing"
    BY <2>2, <2>3, <2>4, InListing
  <2>6. stack[1].dir = Root /\ t.proc = "readdirplus"
    BY <2>2, <2>4, <2>5 DEF Stages
  <2>7. t.dir # Root /\ t.dir \notin over /\ Right(t)
    BY <2>2, <2>4, <2>6 DEF Nested
  <2>8. t.dir \in Directories
    BY <2>6, <2>7 DEF Right, Listing
  <2> QED
    BY <1>3, <2>1, <2>7, <2>8
<1>5. CASE RootRead
  <2> PICK t : t = Top
    OBVIOUS
  <2>1. /\ status = "ok" /\ seen' = seen /\ over' = over \cup {Root}
        /\ phase = "listing" /\ Len(stack) = 1 /\ t.phase = "done" /\ ~t.more
    BY <1>5 DEF RootRead, At, ReadMore
  <2>2. Types /\ Nested /\ Stages
    BY <2>1 DEF IInv
  <2>3. t = stack[1] /\ 1 \in DOMAIN stack
    <3>1. stack \in Seq(CallType)
      BY <2>2 DEF Types
    <3> QED
      BY <2>1, <3>1 DEF Top
  <2>4. t.proc = "readdirplus" /\ t.dir = Root
    BY <2>1, <2>2, <2>3 DEF Stages
  <2>5. Right(t) /\ Root \notin over
    BY <2>2, <2>3, <2>4 DEF Nested
  <2>6. Len(seen[Root]) = Len(Entries[Root])
    BY <2>1, <2>4, <2>5 DEF Right, Listing
  <2> QED
    BY <1>3, <2>1, <2>5, <2>6, ReadDirPlusAssumption
<1>6. CASE ~Iterate /\ ~ReturnBelow /\ ~RootRead
  <2>1. ASSUME UNCHANGED listings PROVE seen' = seen /\ over' = over
    BY <2>1 DEF listings
  <2>2. UNCHANGED listings \/ UNCHANGED vars \/ UNCHANGED dirvars
    BY <1>6 DEF Next, ConnectPortmap, SendOther, TakePort, GotNoPort, GotPort, Dumped, GotRoot,
                NextPage, GoAstray, Serve, ConnectAndCall, Call, ReadDirectory, Send, RecvHeader, Refill,
                RecvAgain, Starve, Take, TakeVerf, TakeCookie, TakeEof
  <2>3. UNCHANGED vars \/ UNCHANGED dirvars => seen' = seen /\ over' = over
    BY DEF vars, dirvars, listings
  <2> QED
    BY <1>1, <2>1, <2>2, <2>3
<1> QED
  BY <1>2, <1>4, <1>5, <1>6

\* Whatever the server replies and wherever a connection fails, the entries of
\* a directory are delivered to the callback in order and once each, and the
\* listing of the root does not end before all are (nfs_common.inl:642).
THEOREM KeepsContract == ServerTree => (Spec => Implements)
<1> SUFFICES ASSUME ServerTree PROVE Spec => Implements
  OBVIOUS
<1>1. Init => Contract!Init
  BY InitRefines
<1>2. IInv /\ [Next]_vars => [Contract!Next]_(Contract!vars)
  BY StepRefines
<1> QED
  BY <1>1, <1>2, Invariance, PTL DEF Spec, Implements, Contract!Spec
=============================================================================
