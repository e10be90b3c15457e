---------------------------- MODULE RpcSerializer ----------------------------
(***************************************************************************)
(* How a call is put together: RPCSerializer_InitCall writes the header of *)
(* the call into a buffer of fixed size, each Push appends an argument,    *)
(* and RPCSerializer_Send sends the header's own first word and Size more  *)
(* bytes.  Size does not count that word, and WritePtr does.               *)
(*                                                                         *)
(* An argument is written by one step, behind the EnsureSize of the Push   *)
(* that writes it, which ends the program when the argument does not fit.  *)
(***************************************************************************)
EXTENDS Integers, Sequences, SequencesExt

CONSTANTS
    MaxSize,        \* bytes in InlineStorage, 512 in the code
    CallBytes       \* sizeof(RPCCall), 28 in the code

Align4(n) == 4 * ((n + 3) \div 4)

ASSUME RpcSerializerAssumption ==
    /\ MaxSize \in Nat /\ MaxSize % 4 = 0
    /\ CallBytes \in Nat /\ CallBytes % 4 = 0
    /\ 4 <= CallBytes /\ CallBytes <= MaxSize

VARIABLES
    pushes,         \* the arguments of the call that are still to be pushed
    size,           \* Size
    at,             \* WritePtr, from the start of the buffer
    refused         \* has EnsureSize ended the program?

buffer == <<pushes, size, at, refused>>

-----------------------------------------------------------------------------
(* Arguments *)

Argument(kind, n) == [kind |-> kind, n |-> n]
U32       == Argument("u32", 0)
U64       == Argument("u64", 0)
NullAuth  == Argument("null", 0)
String(n) == Argument("string", n)                  \* of n bytes
U32s(n)   == Argument("array", n)                   \* of n words
Ensure(n) == Argument("ensure", n)                  \* an EnsureSize by itself
Arguments == [kind : {"u32", "u64", "null", "string", "array", "ensure"}, n : Nat]

\* What EnsureSize is called with for p, and what p takes in the buffer.
NeededUnaligned(p) ==                               \* mutants of Needed
    CASE p.kind = "u32" -> 4 [] p.kind = "u64" -> 8 [] p.kind = "null" -> 16
      [] p.kind = "string" -> p.n + 4 [] p.kind = "array" -> 4 + 4 * p.n
      [] OTHER -> p.n
NeededTwice(p) ==
    CASE p.kind = "u32" -> 4 [] p.kind = "u64" -> 8 [] p.kind = "null" -> 16
      [] p.kind = "string" -> Align4(p.n) + 8 [] p.kind = "array" -> 4 + 4 * p.n
      [] OTHER -> p.n
Needed(p) ==
    CASE p.kind = "u32" -> 4 [] p.kind = "u64" -> 8 [] p.kind = "null" -> 16
      [] p.kind = "string" -> Align4(p.n) + 4 [] p.kind = "array" -> 4 + 4 * p.n
      [] OTHER -> p.n

Written(p) ==
    CASE p.kind = "u32" -> 4 [] p.kind = "u64" -> 8 [] p.kind = "null" -> 16
      [] p.kind = "string" -> 4 + Align4(p.n) [] p.kind = "array" -> 4 + 4 * p.n
      [] OTHER -> 0

\* ComputeAuthSize, and RPCSerializer_PushUnixAuth as PushUnixAuthN calls it.
AuthSize(name, gids) == 4 + 4 + Align4(name) + 4 + 4 + 4 + 4 * gids
UnixAuth == <<Ensure(AuthSize(0, 1)), U32, U32, U32, String(0), U32, U32, U32s(1), U32, U32>>

\* The arguments of the calls cnfs makes, with the bytes of their strings.
GetportCall             == <<NullAuth, U32, U32, U32, U32>>
MntCall(path)           == UnixAuth \o <<String(path)>>
ReaddirplusCall(handle) == UnixAuth \o <<String(handle), U32, U32, U32, U32, U32, U32>>
CreateCall(dir, name)   == UnixAuth \o <<String(dir), String(name)>> \o [i \in 1 .. 8 |-> U32]
WriteCall(handle, n)    == UnixAuth \o <<String(handle), U64, U32, U32, String(n)>>
ReadCall(handle)        == UnixAuth \o <<String(handle), U64, U32>>

-----------------------------------------------------------------------------
InitCall(arguments) ==
    /\ pushes' = arguments
    /\ size' = CallBytes - 4 /\ at' = CallBytes
    /\ UNCHANGED refused

Push ==
    /\ ~refused /\ pushes # <<>>
    /\ size + Needed(Head(pushes)) < MaxSize
    /\ pushes' = Tail(pushes)
    /\ size' = size + Written(Head(pushes))
    /\ at' = at + Written(Head(pushes))
    /\ UNCHANGED refused

EnsureFails ==
    /\ ~refused /\ pushes # <<>>
    /\ ~(size + Needed(Head(pushes)) < MaxSize)
    /\ refused' = TRUE
    /\ UNCHANGED <<pushes, size, at>>

-----------------------------------------------------------------------------
(***************************************************************************)
(* No argument is written behind the end of the buffer, whatever lengths   *)
(* the strings have, and what Send sends is what was written: the assert   *)
(* of EnsureSize on Size, which is 4 less than WritePtr has moved, is as   *)
(* strict as it must be (rpc_serializer.h:165).                            *)
(***************************************************************************)
BufferHolds == at <= MaxSize /\ at = size + 4

(***************************************************************************)
(* The program ends in EnsureSize only for a call that does not fit: there *)
(* is no call whose arguments fit in the buffer, to the last byte, that    *)
(* cannot be made.                                                         *)
(***************************************************************************)
Total(arguments) == FoldLeft(LAMBDA sum, p : sum + Written(p), 0, arguments)
RefusedOnlyWhenFull == refused => at + Total(pushes) > MaxSize
=============================================================================
