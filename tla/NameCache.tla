----------------------------- MODULE NameCache -----------------------------
(***************************************************************************)
(* The name cache of src/cache/cached_tree.c: every file name, directory   *)
(* name and directory path of the tree is interned in a string table, and  *)
(* an unbalanced binary search tree over (length, crc) keys finds the      *)
(* string again.  One step of the model is one turn of the loop of         *)
(* GetOrAddNameByKey.                                                      *)
(*                                                                         *)
(* A name is a positive number, and names are numbered as memcmp orders    *)
(* them; memcmp is only reached for names with equal keys, which have      *)
(* equal lengths.  The empty name is 0.                                    *)
(***************************************************************************)
EXTENDS Integers

CONSTANTS
    Names,          \* the names the callers intern
    Key,            \* Key[n]: the entry key of a name, crc16 and length
    Length,         \* Length[n]: its number of characters
    KeyMod,         \* keys are compared modulo this, 2^32 in the code
    SentinelKey,    \* the key of the root node, 0x7fff, which is no name's
    NodeCapacity,   \* name_cache_node_capacity
    TableCapacity   \* name_stringtable_capacity

ASSUME NameCacheAssumption ==
    /\ Names \subseteq Nat \ {0}
    /\ KeyMod \in Nat \ {0}
    /\ Key \in [Names -> 0 .. KeyMod - 1]
    /\ Length \in [Names -> Nat \ {0}]
    /\ SentinelKey \in Nat
    /\ \A n \in Names : Key[n] # SentinelKey
    /\ NodeCapacity \in Nat \ {0}
    /\ TableCapacity \in Nat

VARIABLES
    nodeSize,    \* name_cache_node_size: nodes 0 .. nodeSize-1 are in use
    nameOf,      \* the name a node stands for (its entry_key and its string)
    kid,         \* kid[x][side]: the child on that side, 0 if the offset is 0
    namePtr,     \* name_ptr.v of a node
    tableSize,   \* name_stringtable_size
    pc,          \* "idle", "walk" in the loop, "aborted" by an assert, or
                 \* "overrun" after a string that ran past the table
    want,        \* the name being looked up
    cur,         \* currentBranch
    answer       \* the last <<name, pointer>> returned

vars == <<nodeSize, nameOf, kid, namePtr, tableSize, pc, want, cur, answer>>

Empty == 0
Nodes == 0 .. NodeCapacity - 1
Sides == {"left", "right"}
Live  == 1 .. nodeSize - 1      \* the nodes that hold a name
AlignDown(n) == (n \div 4) * 4                       \* mutant of Align4
Align4(n) == ((n + 3) \div 4) * 4

\* A name_ptr is the offset of the string plus 4, so that 0 is no pointer.
BareOffset(offset) == offset                         \* mutant of PtrTo
PtrTo(offset) == offset + 4

LinkRight(x, s, z) == [kid EXCEPT ![x]["right"] = z]  \* mutant of Link
Link(x, s, z) == [kid EXCEPT ![x][s] = z]

KeyAt(x) == IF x = 0 THEN SentinelKey ELSE Key[nameOf[x]]

\* Mutant of Branch: the memcmp of equal keys never ends the walk.
BranchPast(n, x) ==
    IF 2 * ((Key[n] - KeyAt(x)) % KeyMod) >= KeyMod THEN "left" ELSE "right"

\* The comparison of the loop.  The keys are subtracted as unsigned words
\* and the difference is read as a signed one, so the order wraps around.
Branch(n, x) ==
    IF Key[n] # KeyAt(x)
    THEN IF 2 * ((Key[n] - KeyAt(x)) % KeyMod) >= KeyMod THEN "left" ELSE "right"
    ELSE IF n = nameOf[x] THEN "here"
         ELSE IF n < nameOf[x] THEN "left" ELSE "right"

\* ResetCache: only the root sentinel is in use and the table is empty.
Init ==
    /\ nodeSize = 1
    /\ nameOf = [x \in Nodes |-> Empty]
    /\ kid = [x \in Nodes |-> [s \in Sides |-> 0]]
    /\ namePtr = [x \in Nodes |-> 0]
    /\ tableSize = 0
    /\ pc = "idle" /\ want = Empty /\ cur = 0 /\ answer = <<Empty, 0>>

CallEmpty ==
    /\ pc = "idle"
    /\ answer' = <<Empty, 0>>
    /\ UNCHANGED <<nodeSize, nameOf, kid, namePtr, tableSize, pc, want, cur>>

Call(n) ==
    /\ pc = "idle"
    /\ pc' = "walk" /\ want' = n /\ cur' = 0
    /\ UNCHANGED <<nodeSize, nameOf, kid, namePtr, tableSize, answer>>

Found ==
    /\ pc = "walk" /\ Branch(want, cur) = "here"
    /\ answer' = <<want, namePtr[cur]>>
    /\ pc' = "idle"
    /\ UNCHANGED <<nodeSize, nameOf, kid, namePtr, tableSize, want, cur>>

DescendStays(s) ==      \* mutant of Descend: currentBranch is not advanced
    /\ pc = "walk" /\ Branch(want, cur) = s
    /\ kid[cur][s] # 0
    /\ UNCHANGED vars

Descend(s) ==
    /\ pc = "walk" /\ Branch(want, cur) = s
    /\ kid[cur][s] # 0
    /\ cur' = kid[cur][s]
    /\ UNCHANGED <<nodeSize, nameOf, kid, namePtr, tableSize, pc, want, answer>>

HasRoomForLast == nodeSize <= NodeCapacity /\ tableSize < TableCapacity \* mutant
HasRoom == nodeSize < NodeCapacity /\ tableSize < TableCapacity

\* A new node under cur.  The string is copied behind the others whatever
\* its length: only the start of the string is checked against the capacity.
\* A string that runs past the table is written over the nodes behind it,
\* which are not followed any further.
Insert(s) ==
    /\ pc = "walk" /\ Branch(want, cur) = s
    /\ kid[cur][s] = 0
    /\ HasRoom
    /\ kid' = Link(cur, s, nodeSize)
    /\ nameOf' = [nameOf EXCEPT ![nodeSize] = want]
    /\ namePtr' = [namePtr EXCEPT ![nodeSize] = PtrTo(tableSize)]
    /\ nodeSize' = nodeSize + 1
    /\ tableSize' = tableSize + Align4(Length[want] + 1)
    /\ answer' = <<want, PtrTo(tableSize)>>
    /\ pc' = IF tableSize + Length[want] + 1 <= TableCapacity THEN "idle" ELSE "overrun"
    /\ UNCHANGED <<want, cur>>

\* One of the two asserts of the insertion fails.
Abort(s) ==
    /\ pc = "walk" /\ Branch(want, cur) = s
    /\ kid[cur][s] = 0
    /\ ~HasRoom
    /\ pc' = "aborted"
    /\ UNCHANGED <<nodeSize, nameOf, kid, namePtr, tableSize, want, cur, answer>>

Turn == Found \/ \E s \in Sides : Descend(s) \/ Insert(s) \/ Abort(s)
Next == CallEmpty \/ (\E n \in Names : Call(n)) \/ Turn

Spec == Init /\ [][Next]_vars

\* The loop runs on a thread that is scheduled until the call returns.
FairSpec == Spec /\ WF_vars(Turn)

-----------------------------------------------------------------------------
TypeOK ==
    /\ nodeSize \in 1 .. NodeCapacity
    /\ nameOf \in [Nodes -> Names \cup {Empty}]
    /\ kid \in [Nodes -> [Sides -> Nodes]]
    /\ namePtr \in [Nodes -> Nat]
    /\ tableSize \in Nat
    /\ pc \in {"idle", "walk", "aborted", "overrun"}
    /\ want \in Names \cup {Empty}
    /\ cur \in Nodes
    /\ answer \in (Names \cup {Empty}) \X Nat

(***************************************************************************)
(* No name has two nodes: GetOrAddNameByKey always finds a name that is    *)
(* already there, although the wrapping comparison of the keys is not an   *)
(* order and keys of different names collide.                              *)
(***************************************************************************)
NamesInternedOnce ==
    \A x, y \in Live : nameOf[x] = nameOf[y] => x = y

(***************************************************************************)
(* A fresh walk for a name in the tree ends at its node: no insertion      *)
(* hides a name that was interned before it.                               *)
(***************************************************************************)
WalkFor(n) ==
    LET walk[x \in Nodes] ==
            LET s == Branch(n, x)
            IN  IF s = "here" THEN x
                ELSE IF kid[x][s] = 0 THEN 0 ELSE walk[kid[x][s]]
    IN  walk[0]

EveryNameIsFound == \A x \in Live : WalkFor(nameOf[x]) = x

(***************************************************************************)
(* The strings of two nodes do not overlap in the table, terminators       *)
(* included.                                                               *)
(***************************************************************************)
StringsDisjoint ==
    \A x, y \in Live :
        x < y => namePtr[x] + Length[nameOf[x]] + 1 <= namePtr[y]

(***************************************************************************)
(* The strings lie within the table.  The assert before the copy,          *)
(* cached_tree.c:240, is there for this.                                   *)
(***************************************************************************)
StringsInTable ==
    \A x \in Live : (namePtr[x] - 4) + Length[nameOf[x]] + 1 <= TableCapacity

(***************************************************************************)
(* The walk ends: no chain of child offsets is a cycle.                    *)
(***************************************************************************)
CallsReturn == (pc = "walk") ~> (pc # "walk")

(***************************************************************************)
(* The tree implements the abstract interning table.                       *)
(***************************************************************************)
tableBar == {<<nameOf[x], namePtr[x]>> : x \in Live}
Contract == INSTANCE Interning
              WITH table <- tableBar, reply <- answer, Ptrs <- Nat \ {0}
Implements == Contract!Spec
=============================================================================
