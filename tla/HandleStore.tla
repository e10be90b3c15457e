---------------------------- MODULE HandleStore ----------------------------
(***************************************************************************)
(* How the cached tree keeps NFS file handles (handleToPtr, ptrToHandle    *)
(* and fhandle3_length).  A handle is cut at its first zero limb, its      *)
(* prefix is dropped when the server gave the root the same one, and the   *)
(* other limbs are appended to one array shared by all entries.  An entry  *)
(* keeps a pointer: whether the prefix was dropped, how many limbs there   *)
(* are and where they start.                                               *)
(***************************************************************************)
EXTENDS Integers

CONSTANTS
    Handles,        \* the handles the server sends
    Roots,          \* those of them that mountd may give for the root
    Limb,           \* the values of a 32-bit limb
    Magic,          \* 0x1000001, the first limb of a handle with a prefix
    Width,          \* limbs in a handle, 16 in the code
    Counted,        \* limbs fhandle3_length looks at, 8 in the code
    LimbsCapacity   \* limbs_capacity

PrefixLength == 3
Positions == 0 .. Width - 1

ASSUME HandleStoreAssumption ==
    /\ Width \in Nat /\ Counted \in PrefixLength .. Width
    /\ Magic \in Limb \ {0} /\ 0 \in Limb
    /\ Handles \subseteq [Positions -> Limb] /\ Roots \subseteq Handles
    /\ LimbsCapacity \in Nat \ {0}

VARIABLES
    root,        \* rootHandle, set when mountd has answered
    limbs,       \* the shared array
    limbsSize,   \* limbs_size
    entries,     \* the pairs <<handle, pointer>> of the entries of the tree
    status       \* "ok", "aborted" by an assert, "crashed" by a wild copy

vars == <<root, limbs, limbsSize, entries, status>>

\* fhandle3_length, in limbs: how many come before the first zero limb.
LimbCount(h) ==
    CHOOSE n \in 0 .. Counted :
        /\ \A i \in 0 .. n - 1 : h[i] # 0
        /\ n < Counted => h[n] = 0

HasMagic(h) == h[0] = Magic                               \* mutant of HasRootPrefix
HasRootPrefix(h) ==
    /\ h[0] = Magic
    /\ h[1] = root[1]
    /\ h[2] = root[2]

Skipped(h) == IF HasRootPrefix(h) THEN PrefixLength ELSE 0

Kept(h) == LimbCount(h) - Skipped(h)

\* The packed word: bit 31, bits 27 to 30 and bits 0 to 26.
Pointer(compressed, length, pos) ==
    [compressed |-> compressed, length |-> length, pos |-> pos]

\* The word 1 stands for the root handle.
RootPtr == Pointer(FALSE, 0, 1)

\* ptrToHandle
Decode(p) ==
    LET start == IF p.compressed THEN PrefixLength ELSE 0
    IN  [i \in Positions |->
            IF i \in start .. start + p.length - 1 THEN limbs[p.pos + i - start]
            ELSE IF p = RootPtr THEN root[i]
            ELSE IF p.compressed /\ i = 0 THEN Magic
            ELSE IF p.compressed /\ i < PrefixLength THEN root[i]
            ELSE 0]

Init ==
    /\ root \in Roots
    /\ limbs = [i \in 0 .. LimbsCapacity - 1 |-> 0]
    /\ limbsSize = 0
    /\ entries = {}
    /\ status = "ok"

StoreRoot ==
    /\ status = "ok"
    /\ entries' = entries \cup {<<root, RootPtr>>}
    /\ UNCHANGED <<root, limbs, limbsSize, status>>

FitsUpTo(n) == limbsSize + n <= LimbsCapacity              \* mutant of Fits
Fits(n) == limbsSize + n < LimbsCapacity

NextFreeStays(n) == limbsSize                              \* mutant of NextFree
NextFree(n) == limbsSize + n

Store(h) ==
    /\ status = "ok" /\ h # root
    /\ Kept(h) >= 0 /\ Fits(Kept(h))
    /\ limbs' = [i \in DOMAIN limbs |->
                    IF i \in limbsSize .. limbsSize + Kept(h) - 1
                    THEN h[Skipped(h) + i - limbsSize] ELSE limbs[i]]
    /\ limbsSize' = NextFree(Kept(h))
    /\ entries' = entries \cup {<<h, Pointer(HasRootPrefix(h), Kept(h), limbsSize)>>}
    /\ UNCHANGED <<root, status>>

\* The assert that the limbs fit fails.
StoreNoRoom(h) ==
    /\ status = "ok" /\ h # root
    /\ Kept(h) >= 0 /\ ~Fits(Kept(h))
    /\ status' = "aborted"
    /\ UNCHANGED <<root, limbs, limbsSize, entries>>

\* The prefix is longer than what is left of the handle before its first
\* zero limb and the unsigned length wraps.  In the assert the sum of both
\* wraps back when the array holds as many limbs; the copy runs off it.
StoreTooShort(h) ==
    /\ status = "ok" /\ h # root
    /\ Kept(h) < 0
    /\ status' = IF limbsSize + Kept(h) < 0 THEN "aborted" ELSE "crashed"
    /\ UNCHANGED <<root, limbs, limbsSize, entries>>

Next ==
    \/ StoreRoot
    \/ \E h \in Handles : Store(h) \/ StoreNoRoom(h) \/ StoreTooShort(h)

Spec == Init /\ [][Next]_vars

-----------------------------------------------------------------------------
Ptrs == {Pointer(c, n, p) : c \in BOOLEAN, n \in 0 .. Counted, p \in 0 .. LimbsCapacity}

TypeOK ==
    /\ root \in Roots
    /\ limbs \in [0 .. LimbsCapacity - 1 -> Limb]
    /\ limbsSize \in 0 .. LimbsCapacity - 1
    /\ entries \subseteq Handles \X Ptrs
    /\ status \in {"ok", "aborted", "crashed"}

(***************************************************************************)
(* The handles the representation is made for: non-zero limbs, not more    *)
(* than fhandle3_length looks at, followed by zeroes only.  The handles of *)
(* the Linux server whose prefix is compressed are of this kind.           *)
(***************************************************************************)
WellFormed(h) ==
    \E n \in 1 .. Counted :
        \A i \in Positions : h[i] # 0 <=> i < n

(***************************************************************************)
(* Every pointer made from such a handle decodes to it, however many       *)
(* handles of any kind have been stored since: no call goes to the server  *)
(* with the handle of another file.                                        *)
(***************************************************************************)
RoundTrip == \A e \in entries : WellFormed(e[1]) => Decode(e[2]) = e[1]

(***************************************************************************)
(* A handle is opaque to a client (RFC 1813), so that of every file should *)
(* come back as the server sent it, whatever is in it.                     *)
(***************************************************************************)
OpaqueRoundTrip == \A e \in entries : Decode(e[2]) = e[1]

(***************************************************************************)
(* Whatever the handles, what a pointer stands for is settled when it is   *)
(* made: no later handle changes the limbs of an earlier one.              *)
(***************************************************************************)
PointersStable ==
    [][\A e \in entries : e \in entries' /\ Decode(e[2])' = Decode(e[2])]_vars

(***************************************************************************)
(* No handle, of whatever kind, ends the program with a wild copy unless   *)
(* the prefix of the root has a zero limb: with any other root, one that   *)
(* has the prefix is not shorter than it.                                  *)
(***************************************************************************)
CrashNeedsGap == status = "crashed" => root[1] = 0 \/ root[2] = 0
=============================================================================
