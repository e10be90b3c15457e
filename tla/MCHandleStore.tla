--------------------------- MODULE MCHandleStore ---------------------------
(***************************************************************************)
(* Handles of five limbs of which four are counted, over the limbs 0, 1,   *)
(* 2 and the magic 7.  The well-formed ones are compressed or not, keep    *)
(* no limb or one, and differ from the root in each limb of the prefix.    *)
(* The malformed ones are what an opaque handle may also be: with a zero   *)
(* limb inside, and longer than what is counted.  Of the two roots one has *)
(* a zero limb in its prefix: a handle that shares it may be shorter.      *)
(***************************************************************************)
EXTENDS HandleStore, Sequences

Handle(s) == [i \in 0 .. 4 |-> IF i < Len(s) THEN s[i + 1] ELSE 0]

MCRoots == {Handle(<<7, 1, 2, 1>>), Handle(<<7, 1>>)}
MCWellFormed ==
    MCRoots \cup
    {Handle(s) : s \in {<<7, 1, 2>>, <<7, 1, 2, 2>>, <<7, 2, 2, 1>>, <<2>>}}
MCHandles ==
    MCWellFormed \cup
    {Handle(s) : s \in {<<7, 1, 0, 2>>, <<2, 2, 2, 2, 2>>}}

ASSUME WellFormedOnly == \A h \in MCWellFormed : WellFormed(h)
=============================================================================
