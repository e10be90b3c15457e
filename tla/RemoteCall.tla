----------------------------- MODULE RemoteCall -----------------------------
(***************************************************************************)
(* What nfs_create, nfs_write and nfs_read promise the FUSE handlers that  *)
(* call them, whatever happens on the connection: a call is answered once  *)
(* by the server, and returns that answer and no other.                    *)
(***************************************************************************)
EXTENDS Naturals

CONSTANTS
    Workers,        \* the threads that call
    Calls,          \* the calls, told apart
    Answer(_),      \* Answer(c): the answers the server may give to call c
    NoCall,         \* no call is being made
    NoAnswer        \* the call has not been answered

VARIABLES
    calling,        \* the call each worker is in
    answered,       \* the server's answer to it
    returned        \* what the last call of the worker returned

vars == <<calling, answered, returned>>

Init ==
    /\ calling = [w \in Workers |-> NoCall]
    /\ answered = [w \in Workers |-> NoAnswer]
    /\ returned = [w \in Workers |-> NoAnswer]

\* A call is made by one worker at a time.
Invoke(w, c) ==
    /\ calling[w] = NoCall
    /\ \A v \in Workers : calling[v] # c
    /\ calling' = [calling EXCEPT ![w] = c]
    /\ UNCHANGED <<answered, returned>>

Serve(w) ==
    /\ calling[w] # NoCall /\ answered[w] = NoAnswer
    /\ \E a \in Answer(calling[w]) : answered' = [answered EXCEPT ![w] = a]
    /\ UNCHANGED <<calling, returned>>

Return(w) ==
    /\ answered[w] # NoAnswer
    /\ returned' = [returned EXCEPT ![w] = answered[w]]
    /\ calling' = [calling EXCEPT ![w] = NoCall]
    /\ answered' = [answered EXCEPT ![w] = NoAnswer]

Next == \E w \in Workers : (\E c \in Calls : Invoke(w, c)) \/ Serve(w) \/ Return(w)

Spec == Init /\ [][Next]_vars
=============================================================================
