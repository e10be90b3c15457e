----------------------------- MODULE Interning -----------------------------
(***************************************************************************)
(* What the name cache of micronfs promises its callers, whatever data     *)
(* structure it is built from: a name is given a pointer the first time    *)
(* it is seen, and is answered with that same pointer ever after.  The     *)
(* cached tree compares names by comparing these pointers and never frees  *)
(* them, so this is the contract of GetOrAddName.                          *)
(***************************************************************************)
EXTENDS Naturals

CONSTANTS
    Names,   \* the non-empty names
    Empty,   \* the empty name, which is never stored
    Ptrs     \* the pointers a stored name can be given

VARIABLES
    table,   \* the pairs <<name, pointer>> given out so far
    reply    \* the last answer, <<name, pointer>>

vars == <<table, reply>>

Init ==
    /\ table = {}
    /\ reply = <<Empty, 0>>

\* The empty name has the null pointer and leaves no trace.
InternEmpty ==
    /\ reply' = <<Empty, 0>>
    /\ UNCHANGED table

\* A name seen before is answered with the pointer it has.
Recall(n) ==
    /\ \E entry \in table : entry[1] = n /\ reply' = entry
    /\ UNCHANGED table

\* A new name is given a pointer no other name has.
Add(n) ==
    /\ reply' \in {n} \X Ptrs
    /\ \A entry \in table : entry[1] # n /\ entry[2] # reply'[2]
    /\ table' = table \cup {reply'}

Next == InternEmpty \/ \E n \in Names : Recall(n) \/ Add(n)

Spec == Init /\ [][Next]_vars
=============================================================================
