-------------------------- MODULE DirectoryListing --------------------------
(***************************************************************************)
(* What reading directories from the server promises the cache: the        *)
(* entries of a directory are delivered in order, each once, and the       *)
(* listing of a directory that must be complete ends when all of them are. *)
(***************************************************************************)
EXTENDS Naturals, Sequences

CONSTANTS
    Directories,    \* the directories of the server
    Length(_),      \* Length(d): the number of entries of directory d
    Complete        \* the directories whose listing may not be given up early

VARIABLES
    delivered,      \* per directory, the entries delivered, by their number
    over            \* the directories whose listing has ended

vars == <<delivered, over>>

Init ==
    /\ delivered = [d \in Directories |-> <<>>]
    /\ over = {}

Deliver(d) ==
    /\ d \notin over
    /\ Len(delivered[d]) < Length(d)
    /\ delivered' = [delivered EXCEPT ![d] = Append(@, Len(@) + 1)]
    /\ UNCHANGED over

End(d) ==
    /\ d \notin over
    /\ d \in Complete => Len(delivered[d]) = Length(d)
    /\ over' = over \cup {d}
    /\ UNCHANGED delivered

Next == \E d \in Directories : Deliver(d) \/ End(d)

Spec == Init /\ [][Next]_vars
=============================================================================
