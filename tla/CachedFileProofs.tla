-------------------------- MODULE CachedFileProofs --------------------------
(***************************************************************************)
(* For every size of the buffer, all lengths and sizes, and whatever other *)
(* clients do: a call stays inside its buffer, the sizes agree and copies  *)
(* stay inside the content but for the named exceptions.                   *)
(*                                                                         *)
(* The buffer's part of the invariant is about RpcSerializer alone: Size   *)
(* is a multiple of 4, so that one which is less than MaxSize leaves room  *)
(* for the word it does not count.  The file's part adds what holds while  *)
(* a call is made: the size is that of the write, and the content is       *)
(* allocated for the size unless that was set since.                       *)
(*                                                                         *)
(* That no call is refused which fits (RefusedWhenFull) is a fact about    *)
(* the layouts of the calls: what EnsureSize is called for, and finds no   *)
(* room for, is written by that argument or by those behind it.            *)
(***************************************************************************)
EXTENDS CachedFile, SumLemmas

BufferInv ==
    /\ pushes \in Seq(Arguments)
    /\ size \in Nat /\ size % 4 = 0
    /\ at = size + 4 /\ CallBytes <= at /\ at <= MaxSize
    /\ refused \in BOOLEAN

FileInv ==
    /\ op.proc \in {"none", "read"} /\ file # NoFile /\ ~strayed =>
          file.size = server /\ file.good
    /\ op.proc = "write" => file # NoFile /\ file.size = op.n /\ op.n # 0
    /\ op.proc \in {"read"} => file # NoFile
    /\ op.proc \in {"getport", "mnt", "readdirplus", "create"} => file = NoFile
    /\ file # NoFile /\ ~unallocated /\ status = "ok" => file.cap = file.size
    /\ CopiesInside

FileRecord == [size : Sizes, cap : Sizes, crc : Crcs, good : BOOLEAN,
               handle : {HandleBytes} \cup Garbage]

\* TypeOK without the buffer.
FileTypes ==
    /\ file = NoFile \/ file \in FileRecord
    /\ server \in Sizes \cup {Gone}
    /\ op \in [proc : {"none", "getport", "mnt", "readdirplus", "create", "read", "write"},
               n : Nat]
    /\ strayed \in BOOLEAN /\ unallocated \in BOOLEAN
    /\ status \in {"ok", "aborted", "wild", "crashed"}

IInv == FileTypes /\ BufferInv /\ FileInv

\* The lengths of handles are numbers.
LEMMA HandlesAreWords == HandleSizes \in SUBSET Nat /\ HandleBytes \in Nat /\ Garbage \in SUBSET Nat
<1>1. HandleSizes \in SUBSET Nat
  BY DEF HandleSizes
<1> QED BY <1>1, CachedFileAssumption

-----------------------------------------------------------------------------
(* The buffer *)

\* A string takes a number of words.
LEMMA StringsAreWords ==
    ASSUME NEW n \in Nat
    PROVE  /\ Align4(n) \in Nat /\ (Align4(n) + 4) % 4 = 0
           /\ (4 + 4 * n) % 4 = 0
<1> DEFINE k == (n + 3) \div 4
<1>1. k \in Nat
  OBVIOUS
<1>2. Align4(n) = 4 * k
  BY DEF Align4
<1> HIDE DEF k
<1>3. 4 * k \in Nat /\ (4 * k + 4) % 4 = 0
  BY <1>1
<1>4. (4 + 4 * n) % 4 = 0
  OBVIOUS
<1> QED BY <1>2, <1>3, <1>4

\* What a Push writes is a number of words, and EnsureSize was asked for it.
LEMMA WrittenIsEnsured ==
    ASSUME NEW p \in Arguments
    PROVE  /\ Needed(p) \in Nat /\ Written(p) \in Nat
           /\ Written(p) % 4 = 0 /\ Written(p) <= Needed(p)
<1>1. p.n \in Nat /\ p.kind \in {"u32", "u64", "null", "string", "array", "ensure"}
  BY DEF Arguments
<1>2. Align4(p.n) \in Nat /\ (Align4(p.n) + 4) % 4 = 0 /\ (4 + 4 * p.n) % 4 = 0
  BY <1>1, StringsAreWords
<1>3. CASE p.kind = "string"
  BY <1>2, <1>3 DEF Needed, Written
<1>4. CASE p.kind = "array"
  BY <1>1, <1>2, <1>4 DEF Needed, Written
<1>5. CASE p.kind \in {"u32", "u64", "null"}
  <2>1. 4 % 4 = 0 /\ 8 % 4 = 0 /\ 16 % 4 = 0
    OBVIOUS
  <2>2. CASE p.kind = "u32"
    BY <2>1, <2>2 DEF Needed, Written
  <2>3. CASE p.kind = "u64"
    BY <2>1, <2>3 DEF Needed, Written
  <2>4. CASE p.kind = "null"
    BY <2>1, <2>4 DEF Needed, Written
  <2> QED BY <1>5, <2>2, <2>3, <2>4
<1>6. CASE p.kind = "ensure"
  BY <1>1, <1>6 DEF Needed, Written
<1> QED BY <1>1, <1>3, <1>4, <1>5, <1>6

\* A step of the serializer keeps the call inside the buffer.
LEMMA SerializerStep ==
    ASSUME BufferInv, Push \/ EnsureFails
    PROVE  BufferInv'
<1>1. CASE EnsureFails
  BY <1>1 DEF EnsureFails, BufferInv
<1>2. CASE Push
  <2>1. pushes # <<>> /\ Head(pushes) \in Arguments /\ Tail(pushes) \in Seq(Arguments)
    BY <1>2 DEF Push, BufferInv
  <2> DEFINE w == Written(Head(pushes))
  <2>2. w \in Nat /\ w % 4 = 0 /\ size + w < MaxSize
    <3>1. w \in Nat /\ w % 4 = 0 /\ w <= Needed(Head(pushes)) /\ Needed(Head(pushes)) \in Nat
      BY <2>1, WrittenIsEnsured
    <3> HIDE DEF w
    <3> QED BY <3>1, <1>2, RpcSerializerAssumption DEF Push, BufferInv
  <2>3. size' = size + w /\ at' = at + w /\ pushes' = Tail(pushes) /\ refused' = refused
    BY <1>2 DEF Push
  <2> HIDE DEF w
  <2>4. (size + w) % 4 = 0 /\ (size + w) + 4 <= MaxSize
    BY <2>2, RpcSerializerAssumption DEF BufferInv
  <2> QED BY <2>1, <2>2, <2>3, <2>4, RpcSerializerAssumption DEF BufferInv
<1> QED BY <1>1, <1>2

\* A call begins with its header in the buffer.
LEMMA CallBegins ==
    ASSUME BufferInv, NEW arguments \in Seq(Arguments), InitCall(arguments)
    PROVE  BufferInv'
<1>1. (CallBytes - 4) % 4 = 0
  BY RpcSerializerAssumption
<1> QED BY <1>1, RpcSerializerAssumption DEF InitCall, BufferInv

\* The layouts are sequences of arguments.
LEMMA Layouts ==
    ASSUME NEW h \in Nat, NEW n \in Nat
    PROVE  /\ GetportCall \in Seq(Arguments) /\ MntCall(n) \in Seq(Arguments)
           /\ ReaddirplusCall(h) \in Seq(Arguments) /\ CreateCall(h, n) \in Seq(Arguments)
           /\ WriteCall(h, n) \in Seq(Arguments) /\ ReadCall(h) \in Seq(Arguments)
<1> DEFINE A == Arguments
<1>1. U32 \in A /\ U64 \in A /\ NullAuth \in A /\ String(0) \in A /\ String(h) \in A
        /\ String(n) \in A /\ U32s(1) \in A
  BY DEF U32, U64, NullAuth, String, U32s, Argument, Arguments
<1>2. Ensure(AuthSize(0, 1)) \in A
  BY DEF Ensure, AuthSize, Align4, Argument, Arguments
<1> HIDE DEF A
<1>3. UnixAuth \in Seq(A)
  BY <1>1, <1>2 DEF UnixAuth
<1>4. [i \in 1 .. 8 |-> U32] \in Seq(A)
  BY <1>1
<1>5. <<String(n)>> \in Seq(A) /\ <<String(h), U32, U32, U32, U32, U32, U32>> \in Seq(A)
        /\ <<String(h), String(n)>> \in Seq(A) /\ <<String(h), U64, U32>> \in Seq(A)
        /\ <<String(h), U64, U32, U32, String(n)>> \in Seq(A)
        /\ <<NullAuth, U32, U32, U32, U32>> \in Seq(A)
  BY <1>1
<1>6. \A s, t \in Seq(A) : s \o t \in Seq(A)
  OBVIOUS
<1> QED BY <1>3, <1>4, <1>5, <1>6
        DEF A, GetportCall, MntCall, ReaddirplusCall, CreateCall, WriteCall, ReadCall

-----------------------------------------------------------------------------
(* The steps *)

\* The parts of the invariant make up TypeOK.
LEMMA TypesOK == FileTypes /\ BufferInv => TypeOK
<1> SUFFICES ASSUME FileTypes, BufferInv PROVE TypeOK
  OBVIOUS
<1>1. size \in 0 .. MaxSize /\ at \in CallBytes .. MaxSize
  BY RpcSerializerAssumption DEF BufferInv
<1>2. refused \in BOOLEAN
  BY Zenon DEF BufferInv
<1> QED BY <1>1, <1>2, Zenon DEF TypeOK, FileTypes, FileRecord

\* The invariant holds at the start.
LEMMA InitHolds == Init => IInv
<1> SUFFICES ASSUME Init PROVE IInv
  OBVIOUS
<1>1. GetportCall \in Seq(Arguments)
  BY Layouts
<1>2. BufferInv
  <2>1. (CallBytes - 4) % 4 = 0
    BY RpcSerializerAssumption
  <2>2. refused \in BOOLEAN
    BY Zenon DEF Init
  <2>3. /\ pushes \in Seq(Arguments) /\ size = CallBytes - 4 /\ at = CallBytes
    BY <1>1 DEF Init
  <2> QED BY <2>1, <2>2, <2>3, RpcSerializerAssumption DEF BufferInv
<1>3. FileTypes
  <2>1. strayed \in BOOLEAN /\ unallocated \in BOOLEAN
    BY Zenon DEF Init
  <2>2. /\ op \in [proc : {"none", "getport", "mnt", "readdirplus", "create", "read", "write"},
                 n : Nat]
        /\ file = NoFile /\ server \in Sizes \cup {Gone}
        /\ status \in {"ok", "aborted", "wild", "crashed"}
    BY DEF Init
  <2> QED BY <2>1, <2>2 DEF FileTypes
<1>4. FileInv
  BY DEF Init, FileInv, CopiesInside
<1> QED BY <1>2, <1>3, <1>4 DEF IInv

\* The buffer after a step of a handler: a call begins, or nothing changes.
LEMMA BufferAfter ==
    ASSUME BufferInv,
           \/ UNCHANGED buffer
           \/ \E arguments \in Seq(Arguments) : InitCall(arguments)
    PROVE  BufferInv'
<1>1. CASE UNCHANGED buffer
  BY <1>1 DEF BufferInv, buffer
<1>2. CASE \E arguments \in Seq(Arguments) : InitCall(arguments)
  BY <1>2, CallBegins
<1> QED BY <1>1, <1>2

\* The length of a handle is a number.
LEMMA HandleLengths == FileTypes /\ file # NoFile => file.handle \in Nat
<1> QED BY CachedFileAssumption, HandlesAreWords DEF FileTypes, FileRecord

\* Every action keeps the invariant, the serializer's first.
LEMMA SerializeHolds == ASSUME IInv, Serialize PROVE IInv'
<1>1. BufferInv'
  BY SerializerStep DEF IInv, Serialize
<1>2. UNCHANGED <<file, server, op, strayed, unallocated, status>>
  BY DEF Serialize
<1> QED BY <1>1, <1>2 DEF IInv, FileTypes, FileInv, CopiesInside

\* A call of nfs_init_cache begins.
LEMMA MountHolds == ASSUME IInv, Mount PROVE IInv'
<1> USE CachedFileAssumption
<1>1. BufferInv'
  BY BufferAfter, Layouts, HandlesAreWords DEF IInv, Mount, Begin
<1>2. FileTypes'
  BY DEF IInv, Mount, Begin, FileTypes
<1>3. FileInv'
  BY DEF IInv, Mount, Begin, Sent, FileTypes, FileInv, CopiesInside
<1> QED BY <1>1, <1>2, <1>3 DEF IInv

\* The file is listed with the size the server has, or is not there.
LEMMA ListHolds == ASSUME IInv, List PROVE IInv'
<1> USE CachedFileAssumption
<1>1. BufferInv'
  BY BufferAfter DEF IInv, List
<1>2. /\ file = NoFile /\ status = "ok" /\ op' = Idle
      /\ UNCHANGED <<server, strayed, status>>
  BY DEF IInv, List, Sent, Running, FileInv
<1>3. CASE server = Gone
  <2>1. UNCHANGED <<file, unallocated>>
    BY <1>3 DEF List
  <2> QED BY <1>1, <1>2, <2>1 DEF IInv, Idle, FileTypes, FileInv, CopiesInside
<1>4. CASE server # Gone
  <2>1. file' = [size |-> server, cap |-> 0, crc |-> 0, good |-> TRUE, handle |-> HandleBytes]
    BY <1>4 DEF List
  <2>2. unallocated' \in BOOLEAN /\ (~unallocated' => server = 0)
    BY <1>4 DEF List
  <2>3. file' \in FileRecord /\ file'.size = server /\ file'.cap = 0 /\ file'.good
    BY <1>4, <2>1 DEF IInv, FileTypes, FileRecord
  <2>4. FileTypes'
    BY <1>2, <2>2, <2>3 DEF IInv, Idle, FileTypes
  <2>5. FileInv'
    BY <1>2, <2>2, <2>3 DEF Idle, FileInv, CopiesInside
  <2> QED BY <1>1, <2>4, <2>5 DEF IInv
<1> QED BY <1>3, <1>4

\* A file is about to be created.
LEMMA MknodHolds == ASSUME IInv, NEW name \in Names, Mknod(name) PROVE IInv'
<1> USE CachedFileAssumption
<1>1. BufferInv'
  BY BufferAfter, Layouts, HandlesAreWords DEF IInv, Mknod, Begin
<1>2. FileTypes'
  BY DEF IInv, Mknod, Begin, FileTypes
<1>3. FileInv'
  BY DEF IInv, Mknod, Begin, Free, FileTypes, FileInv, CopiesInside
<1> QED BY <1>1, <1>2, <1>3 DEF IInv

\* nfs_create has returned: the sizes agree if the handle is good.
LEMMA CreatedHolds ==
    ASSUME IInv, NEW created \in BOOLEAN, NEW good \in BOOLEAN,
           NEW handle \in Garbage \cup {HandleBytes}, Created(created, good, handle)
    PROVE  IInv'
<1> USE CachedFileAssumption
<1>1. BufferInv'
  BY BufferAfter DEF IInv, Created
<1>2. /\ file = NoFile /\ status = "ok" /\ op' = Idle /\ unallocated' = FALSE
      /\ server' = IF created THEN 0 ELSE server
  BY DEF IInv, Created, Sent, Running, FileInv
<1>3. server' \in Sizes \cup {Gone}
  BY <1>2 DEF IInv, FileTypes
<1>4. /\ file' = [size |-> 0, cap |-> 0, crc |-> 0, good |-> good, handle |-> handle]
      /\ status' = status /\ strayed' = ~good
  BY DEF Created
<1>5. strayed' \in BOOLEAN /\ (~strayed' => good /\ created)
  BY <1>4 DEF Created
<1>6. file' \in FileRecord /\ file'.size = 0 /\ file'.cap = 0 /\ (~strayed' => file'.good)
  BY <1>4, <1>5 DEF FileRecord
<1>7. FileTypes'
  BY <1>2, <1>3, <1>4, <1>5, <1>6 DEF Idle, FileTypes
<1>8. FileInv'
  BY <1>2, <1>4, <1>5, <1>6 DEF Idle, FileInv, CopiesInside
<1> QED BY <1>1, <1>7, <1>8 DEF IInv

\* The file is forgotten.
LEMMA UnlinkHolds == ASSUME IInv, Unlink PROVE IInv'
<1>1. BufferInv'
  BY BufferAfter DEF IInv, Unlink
<1>2. FileTypes'
  BY DEF IInv, Unlink, FileTypes
<1>3. FileInv'
  BY DEF IInv, Unlink, Cached, Free, Idle, Running, FileTypes, FileInv, CopiesInside
<1> QED BY <1>1, <1>2, <1>3 DEF IInv

\* Truncation is one of the exceptions of both properties.
LEMMA TruncateHolds == ASSUME IInv, NEW n \in Sizes, Truncate(n) PROVE IInv'
<1>1. BufferInv'
  BY BufferAfter DEF IInv, Truncate
<1>2. FileTypes'
  BY DEF IInv, Truncate, Cached, FileTypes, FileRecord
<1>3. FileInv'
  BY DEF IInv, Truncate, Cached, Free, Idle, Running, FileTypes, FileInv, CopiesInside
<1> QED BY <1>1, <1>2, <1>3 DEF IInv

\* AddFile allocates for a new size; for the old one the content is already allocated
\* unless the size was set without.
LEMMA WriteHolds == ASSUME IInv, NEW n \in Sizes, NEW crc \in Crcs, Write(n, crc) PROVE IInv'
<1> USE CachedFileAssumption
<1>0. file \in FileRecord /\ file # NoFile /\ status = "ok" /\ n \in Nat /\ n # 0
  BY DEF IInv, Write, Cached, Free, Running, FileTypes
<1>1. BufferInv'
  BY <1>0, BufferAfter, Layouts, HandleLengths DEF IInv, Write, Begin
<1>2. /\ op' = [proc |-> "write", n |-> n] /\ UNCHANGED <<server, strayed>>
  BY DEF Write, Begin
<1>3. CASE n = file.size /\ crc = file.crc
  <2>1. UNCHANGED <<file, unallocated, status>>
    BY <1>3 DEF Write, AddFile
  <2> QED BY <1>0, <1>1, <1>2, <1>3, <2>1 DEF IInv, FileTypes, FileInv, CopiesInside
<1>4. CASE ~(n = file.size /\ crc = file.crc)
  <2>1. /\ file' = Stored(n, crc) /\ unallocated' = (unallocated /\ n = file.size)
        /\ status' = IF Inside(n, 0, Allocated(n)) THEN "ok" ELSE "wild"
    BY <1>4 DEF Write, AddFile
  <2>2. /\ file' \in FileRecord /\ file'.size = n /\ file'.cap = Allocated(n)
        /\ file' # NoFile
    BY <1>0, <2>1 DEF Stored, Allocated, FileRecord, NoFile
  <2>3. unallocated' \in BOOLEAN
    BY <2>1
  <2>4. FileTypes'
    BY <1>2, <1>0, <2>1, <2>2, <2>3 DEF IInv, FileTypes
  <2>5. ~unallocated' => file'.cap = file'.size /\ status' = "ok"
    <3>1. CASE n # file.size
      BY <1>0, <2>1, <2>2, <3>1 DEF Inside, Allocated
    <3>2. CASE n = file.size
      <4>1. ~unallocated' => file.cap = n
        BY <1>0, <2>1, <3>2 DEF IInv, FileInv
      <4>2. Allocated(n) = file.cap
        BY <3>2 DEF Allocated
      <4> QED BY <1>0, <2>1, <2>2, <4>1, <4>2 DEF Inside
    <3> QED BY <3>1, <3>2
  <2>6. FileInv'
    BY <1>0, <1>2, <2>2, <2>5 DEF FileInv, CopiesInside
  <2> QED BY <1>1, <2>4, <2>6 DEF IInv
<1> QED BY <1>3, <1>4

\* The sizes agree after a write that covers what the server had.
LEMMA WroteHolds == ASSUME IInv, NEW k \in Sizes, Wrote(k) PROVE IInv'
<1> USE CachedFileAssumption
<1>1. BufferInv'
  BY BufferAfter DEF IInv, Wrote
<1>2. FileTypes'
  BY DEF IInv, Wrote, Idle, FileTypes
<1>3. /\ file # NoFile /\ file.size = op.n /\ op.n # 0 /\ op' = Idle /\ status = "ok"
      /\ UNCHANGED <<file, unallocated, status>>
  BY DEF IInv, Wrote, Sent, Running, FileInv
<1>4. strayed' \in BOOLEAN /\ (~strayed' => k = op.n /\ server <= k)
  BY DEF Wrote
<1>5. ~strayed' => file.size = server' /\ file.good
  <2>1. k > 0 => file.good
    BY DEF Wrote
  <2>2. server' = IF k > 0 /\ k > server THEN k ELSE server
    BY DEF Wrote
  <2>3. k \in Nat /\ server \in Int
    BY DEF IInv, FileTypes, Gone
  <2> QED BY <1>3, <1>4, <2>1, <2>2, <2>3
<1>6. FileInv'
  BY <1>3, <1>4, <1>5 DEF IInv, Idle, FileInv, CopiesInside
<1> QED BY <1>1, <1>2, <1>6 DEF IInv

\* A read at the start allocates for the size.
LEMMA ReadHolds == ASSUME IInv, NEW off \in {0, Page}, Read(off) PROVE IInv'
<1> USE CachedFileAssumption
<1>0. file \in FileRecord /\ file # NoFile /\ status = "ok" /\ op = Idle
  BY DEF IInv, Read, Cached, Free, Running, FileTypes
<1>1. BufferInv'
  BY <1>0, BufferAfter, Layouts, HandleLengths DEF IInv, Read, Begin
<1>2. FileTypes'
  BY <1>0 DEF IInv, Read, Begin, FileTypes, FileRecord
<1>3. FileInv'
  BY <1>0 DEF IInv, Read, Begin, Idle, FileTypes, FileRecord, FileInv, CopiesInside, NoFile
<1> QED BY <1>1, <1>2, <1>3 DEF IInv

\* If the sizes agree and the content is allocated, what the server has fits.
LEMMA DataReadHolds == ASSUME IInv, DataRead PROVE IInv'
<1> USE CachedFileAssumption
<1>1. BufferInv'
  BY BufferAfter DEF IInv, DataRead
<1>2. FileTypes'
  BY DEF IInv, DataRead, Idle, FileTypes
<1>3. FileInv'
  BY DEF IInv, DataRead, Idle, Sent, Running, FileTypes, FileRecord, FileInv, CopiesInside,
         Inside, Delivered, Lower, Gone
<1> QED BY <1>1, <1>2, <1>3 DEF IInv

\* The steps that end the program.
LEMMA EndHolds == ASSUME IInv, WriteBehind \/ ReadFails PROVE IInv'
<1>1. BufferInv'
  BY BufferAfter DEF IInv, WriteBehind, ReadFails
<1> QED BY <1>1 DEF IInv, WriteBehind, ReadFails, FileTypes, FileInv, CopiesInside

\* What another client does is one of the exceptions.
LEMMA OtherClientHolds ==
    ASSUME IInv, NEW n \in Sizes \cup {Gone}, OtherClient(n)
    PROVE  IInv'
<1>1. BufferInv'
  BY BufferAfter DEF IInv, OtherClient
<1>2. strayed' \in BOOLEAN /\ (file # NoFile => strayed')
  BY DEF OtherClient
<1>3. FileTypes'
  BY <1>2 DEF IInv, OtherClient, FileTypes
<1>4. FileInv'
  BY <1>2 DEF IInv, OtherClient, Running, FileTypes, FileInv, CopiesInside
<1> QED BY <1>1, <1>3, <1>4 DEF IInv

-----------------------------------------------------------------------------
(* The theorems *)

\* The invariant holds in every reachable state: it does at the start, and
\* every step of the serializer, a handler or another client keeps it.
THEOREM Invariance == Spec => []IInv
<1>1. Init => IInv
  BY InitHolds
<1>2. IInv /\ [Next]_vars => IInv'
  <2> SUFFICES ASSUME IInv, [Next]_vars PROVE IInv'
    OBVIOUS
  <2>1. CASE UNCHANGED vars
    BY <2>1 DEF vars, buffer, IInv, FileTypes, BufferInv, FileInv, CopiesInside
  <2>2. CASE Next
    BY <2>2, SerializeHolds, MountHolds, ListHolds, MknodHolds, CreatedHolds, UnlinkHolds,
       TruncateHolds, WriteHolds, WroteHolds, ReadHolds, DataReadHolds, EndHolds,
       OtherClientHolds DEF Next
  <2> QED BY <2>1, <2>2
<1> QED BY <1>1, <1>2, PTL DEF Spec

\* Type correctness, for every size of the buffer and all sizes and lengths.
THEOREM TypeCorrect == Spec => []TypeOK
<1>1. IInv => TypeOK
  BY TypesOK DEF IInv
<1> QED BY <1>1, Invariance, PTL

\* Whatever lengths strings and handles have, no Push writes behind the buffer.
THEOREM CallsStayInBuffer == Spec => []BufferHolds
<1>1. IInv => BufferHolds
  BY DEF IInv, BufferInv, BufferHolds
<1> QED BY <1>1, Invariance, PTL

\* The size getattr reports is the server's, but for the named exceptions.
THEOREM SizesAgree == Spec => []SizeAgrees
<1>1. IInv => SizeAgrees
  BY DEF IInv, FileInv, SizeAgrees, Cached, Free, Idle
<1> QED BY <1>1, Invariance, PTL

\* Content is copied to what is allocated for it, but for the named exceptions.
THEOREM CopiesStayInside == Spec => []CopiesInside
<1>1. IInv => CopiesInside
  BY DEF IInv, FileInv
<1> QED BY <1>1, Invariance, PTL

-----------------------------------------------------------------------------
(* The program ends in EnsureSize only for a call that does not fit.  An   *)
(* EnsureSize by itself stands only at the beginning of a call, before the *)
(* credentials, and they take at least as much as it asks for.             *)

\* What the credentials put behind their EnsureSize.
AuthFollows(s) ==
    /\ Len(s) >= 7 /\ s[1] = Ensure(AuthSize(0, 1))
    /\ s[2] = U32 /\ s[3] = U32 /\ s[4] = U32 /\ s[5] = String(0)
    /\ s[6] = U32 /\ s[7] = U32

EnsureFirst(s) ==
    /\ \A j \in DOMAIN s : s[j].kind = "ensure" => j = 1
    /\ s # <<>> /\ s[1].kind = "ensure" => AuthFollows(s)

\* An EnsureSize by itself and the rest of the credentials are together in the
\* call, and the call that was refused does not fit.
FitInv == EnsureFirst(pushes) /\ RefusedOnlyWhenFull

\* Total is a sum in the sense of SumLemmas.
LEMMA TotalAddsUp ==
    ASSUME NEW s \in Seq(Arguments), NEW w, w = [i \in 1 .. Len(s) |-> Written(s[i])]
    PROVE  /\ w \in [1 .. Len(s) -> Nat]
           /\ \E f : AddsUp(f, w, Len(s)) /\ Total(s) = UpTo(f, Len(s))
<1> DEFINE n == Len(s)
           Adds(f) == f = [t \in SUBSET (1 .. n) |->
                             IF t = {} THEN 0 ELSE f[t \ {Max(t)}] + Written(s[Max(t)])]
<1>1. n \in Nat /\ DOMAIN s = 1 .. n
  OBVIOUS
<1>2. w \in [1 .. n -> Nat]
  BY WrittenIsEnsured
<1>3. \A t \in SUBSET (1 .. n) : t # {} => w[Max(t)] = Written(s[Max(t)])
  <2> SUFFICES ASSUME NEW t \in SUBSET (1 .. n), t # {} PROVE w[Max(t)] = Written(s[Max(t)])
    OBVIOUS
  <2>1. Max(t) \in t
    BY <1>1, MaxOf
  <2> QED
    BY <2>1
<1>4. ASSUME NEW f PROVE Adds(f) <=> AddsUp(f, w, n)
  <2>1. [t \in SUBSET (1 .. n) |->
           IF t = {} THEN 0 ELSE f[t \ {Max(t)}] + Written(s[Max(t)])]
      = [t \in SUBSET (1 .. n) |-> IF t = {} THEN 0 ELSE f[t \ {Max(t)}] + w[Max(t)]]
    BY <1>3
  <2> QED
    BY <2>1 DEF AddsUp
<1>5. Total(s) = (CHOOSE f : Adds(f))[1 .. n]
  BY <1>1 DEF Total, FoldLeft, MapThenFoldSet
<1>6. \E f : Adds(f)
  BY <1>1, <1>2, <1>4, AddsUpExists
<1> HIDE DEF Adds
<1>7. Adds(CHOOSE f : Adds(f))
  BY <1>6
<1> QED
  BY <1>2, <1>4, <1>5, <1>7 DEF UpTo

\* What a call takes is what its first argument takes, and the others.
LEMMA TotalOfTail ==
    ASSUME NEW s \in Seq(Arguments)
    PROVE  /\ Total(s) \in Nat
           /\ s # <<>> => Total(s) = Written(s[1]) + Total(Tail(s))
<1>1. Total(s) \in Nat
  <2>1. PICK w : w = [i \in 1 .. Len(s) |-> Written(s[i])]
    OBVIOUS
  <2>2. PICK f : AddsUp(f, w, Len(s)) /\ Total(s) = UpTo(f, Len(s))
    BY <2>1, TotalAddsUp
  <2>3. w \in [1 .. Len(s) -> Nat] /\ Len(s) \in Nat /\ Len(s) \in 0 .. Len(s)
    BY <2>1, TotalAddsUp
  <2> QED
    BY <2>2, <2>3, SumIsNat
<1>2. ASSUME s # <<>> PROVE Total(s) = Written(s[1]) + Total(Tail(s))
  <2>1. PICK w : w = [i \in 1 .. Len(s) |-> Written(s[i])]
    OBVIOUS
  <2>2. PICK f : AddsUp(f, w, Len(s)) /\ Total(s) = UpTo(f, Len(s))
    BY <2>1, TotalAddsUp
  <2>3. PICK r : r = Tail(s)
    OBVIOUS
  <2>4. /\ r \in Seq(Arguments) /\ Len(r) = Len(s) - 1 /\ Len(s) \in Nat /\ Len(s) # 0
        /\ \A i \in 1 .. Len(r) : r[i] = s[i + 1]
    BY <1>2, <2>3
  <2>5. PICK v : v = [i \in 1 .. Len(r) |-> Written(r[i])]
    OBVIOUS
  <2>6. PICK g : AddsUp(g, v, Len(r)) /\ Total(r) = UpTo(g, Len(r))
    BY <2>4, <2>5, TotalAddsUp
  <2>7. w \in [1 .. Len(s) -> Nat] /\ v \in [1 .. Len(s) - 1 -> Nat]
    <3>1. v \in [1 .. Len(r) -> Nat]
      BY <2>4, <2>5, TotalAddsUp
    <3> QED
      BY <3>1, <2>1, <2>4, TotalAddsUp
  <2>8. \A i \in 1 .. Len(s) - 1 : v[i] = w[i + 1]
    BY <2>1, <2>4, <2>5
  <2>9. UpTo(f, Len(s)) = w[1] + UpTo(g, Len(s) - 1)
    BY <2>2, <2>4, <2>6, <2>7, <2>8, SumOfTail
  <2>10. w[1] = Written(s[1])
    BY <2>1, <2>4
  <2> QED
    BY <2>2, <2>3, <2>4, <2>6, <2>9, <2>10
<1> QED
  BY <1>1, <1>2

\* r is what is left of s behind its first k arguments.
Behind(s, r, k) ==
    /\ r \in Seq(Arguments) /\ Len(r) = Len(s) - k
    /\ \A i \in 1 .. Len(r) : r[i] = s[i + k]

LEMMA BehindTail ==
    ASSUME NEW s \in Seq(Arguments), NEW k \in Nat, k < Len(s), NEW r, Behind(s, r, k)
    PROVE  Behind(s, Tail(r), k + 1) /\ Total(r) = Written(s[k + 1]) + Total(Tail(r))
<1>1. r \in Seq(Arguments) /\ r # <<>> /\ r[1] = s[k + 1] /\ 1 \in 1 .. Len(r)
  BY DEF Behind
<1>2. /\ Tail(r) \in Seq(Arguments) /\ Len(Tail(r)) = Len(r) - 1
      /\ \A i \in 1 .. Len(Tail(r)) : Tail(r)[i] = r[i + 1]
  BY <1>1
<1>3. Total(r) = Written(s[k + 1]) + Total(Tail(r))
  BY <1>1, TotalOfTail
<1> QED
  BY <1>2, <1>3 DEF Behind

\* The credentials take what their EnsureSize asks for.
LEMMA AuthIsEnsured ==
    ASSUME NEW s \in Seq(Arguments), AuthFollows(s)
    PROVE  Needed(s[1]) <= Total(s)
<1>0. Len(s) \in Nat /\ Len(s) >= 7 /\ Behind(s, s, 0)
  BY DEF AuthFollows, Behind
<1>1. PICK r1 : Behind(s, r1, 1) /\ Total(s) = Written(s[1]) + Total(r1)
  BY <1>0, BehindTail
<1>2. PICK r2 : Behind(s, r2, 2) /\ Total(r1) = Written(s[2]) + Total(r2)
  BY <1>0, <1>1, BehindTail
<1>3. PICK r3 : Behind(s, r3, 3) /\ Total(r2) = Written(s[3]) + Total(r3)
  BY <1>0, <1>2, BehindTail
<1>4. PICK r4 : Behind(s, r4, 4) /\ Total(r3) = Written(s[4]) + Total(r4)
  BY <1>0, <1>3, BehindTail
<1>5. PICK r5 : Behind(s, r5, 5) /\ Total(r4) = Written(s[5]) + Total(r5)
  BY <1>0, <1>4, BehindTail
<1>6. PICK r6 : Behind(s, r6, 6) /\ Total(r5) = Written(s[6]) + Total(r6)
  BY <1>0, <1>5, BehindTail
<1>7. PICK r7 : Behind(s, r7, 7) /\ Total(r6) = Written(s[7]) + Total(r7)
  BY <1>0, <1>6, BehindTail
<1>8. Total(r7) \in Nat
  BY <1>7, TotalOfTail DEF Behind
<1>12. Needed(s[1]) = 24 /\ Written(s[1]) = 0
  BY DEF AuthFollows, Ensure, AuthSize, Align4, Argument, Needed, Written
<1>13. Written(U32) = 4 /\ Written(String(0)) = 4 
  BY DEF U32, String, Align4, Argument, Written
<1>14. /\ Written(s[2]) = 4 /\ Written(s[3]) = 4 /\ Written(s[4]) = 4 /\ Written(s[5]) = 4
       /\ Written(s[6]) = 4 /\ Written(s[7]) = 4
  BY <1>13 DEF AuthFollows
<1> QED
  BY <1>1, <1>2, <1>3, <1>4, <1>5, <1>6, <1>7, <1>8, <1>12, <1>14

\* What EnsureSize asks for is in the call.
LEMMA NeededIsInTotal ==
    ASSUME NEW s \in Seq(Arguments), s # <<>>, EnsureFirst(s)
    PROVE  Needed(s[1]) <= Total(s)
<1>1. s[1] \in Arguments /\ Tail(s) \in Seq(Arguments)
  OBVIOUS
<1>2. CASE s[1].kind = "ensure"
  BY <1>2, AuthIsEnsured DEF EnsureFirst
<1>3. CASE s[1].kind # "ensure"
  <2>1. Needed(s[1]) = Written(s[1])
    <3>1. s[1].kind \in {"u32", "u64", "null", "string", "array"} /\ s[1].n \in Nat
      BY <1>1, <1>3 DEF Arguments
    <3>2. Align4(s[1].n) \in Nat
      BY <3>1, StringsAreWords
    <3> QED
      BY <3>1, <3>2 DEF Needed, Written
  <2>2. Total(s) = Written(s[1]) + Total(Tail(s)) /\ Total(Tail(s)) \in Nat
    BY <1>1, TotalOfTail
  <2>3. Written(s[1]) \in Nat
    BY <1>1, WrittenIsEnsured
  <2> QED
    BY <2>1, <2>2, <2>3
<1> QED
  BY <1>2, <1>3

\* A step of the serializer.
LEMMA SerializerFits ==
    ASSUME BufferInv, FitInv, Push \/ EnsureFails
    PROVE  FitInv'
<1>1. pushes \in Seq(Arguments) /\ pushes # <<>> /\ Head(pushes) = pushes[1]
  BY DEF Push, EnsureFails, BufferInv
<1>2. CASE Push
  <2>1. PICK r : r = Tail(pushes)
    OBVIOUS
  <2>2. /\ r \in Seq(Arguments) /\ Len(r) = Len(pushes) - 1 /\ pushes' = r
        /\ \A i \in DOMAIN r : r[i] = pushes[i + 1] /\ i + 1 \in DOMAIN pushes /\ i \in Nat
    BY <1>1, <1>2, <2>1 DEF Push
  <2>3. \A i \in DOMAIN r : r[i].kind # "ensure"
    BY <2>2 DEF FitInv, EnsureFirst
  <2>4. r # <<>> => 1 \in DOMAIN r
    BY <2>2
  <2>5. EnsureFirst(r)
    BY <2>3, <2>4 DEF EnsureFirst
  <2>6. ~refused'
    BY <1>2 DEF Push
  <2> QED
    BY <2>2, <2>5, <2>6 DEF FitInv, RefusedOnlyWhenFull
<1>3. CASE EnsureFails
  <2>1. UNCHANGED <<pushes, size, at>>
    BY <1>3 DEF EnsureFails
  <2>2. Needed(pushes[1]) <= Total(pushes) /\ Total(pushes) \in Nat
    BY <1>1, NeededIsInTotal, TotalOfTail DEF FitInv
  <2>3. Needed(pushes[1]) \in Nat
    BY <1>1, WrittenIsEnsured
  <2>4. ~(size + Needed(pushes[1]) < MaxSize)
    BY <1>1, <1>3 DEF EnsureFails
  <2>5. at = size + 4 /\ size \in Nat
    BY DEF BufferInv
  <2>6. at + Total(pushes) > MaxSize
    BY <2>2, <2>3, <2>4, <2>5, RpcSerializerAssumption
  <2> QED
    BY <2>1, <2>6 DEF FitInv, RefusedOnlyWhenFull
<1> QED
  BY <1>2, <1>3

\* A concatenation has the arguments of both parts.
LEMMA Concatenated ==
    ASSUME NEW a \in Seq(Arguments), NEW b \in Seq(Arguments), NEW c, c = a \o b
    PROVE  /\ DOMAIN b = 1 .. Len(b) /\ Len(b) \in Nat
           /\ Len(c) = Len(a) + Len(b) /\ DOMAIN c = 1 .. Len(a) + Len(b)
           /\ \A i \in 1 .. Len(a) + Len(b) :
                 c[i] = IF i <= Len(a) THEN a[i] ELSE b[i - Len(a)]
  OBVIOUS

\* In each layout the only EnsureSize by itself is that of the credentials.
LEMMA LayoutsEnsureFirst ==
    ASSUME NEW h \in Nat, NEW n \in Nat
    PROVE  /\ EnsureFirst(GetportCall) /\ EnsureFirst(MntCall(n))
           /\ EnsureFirst(ReaddirplusCall(h)) /\ EnsureFirst(CreateCall(h, n))
           /\ EnsureFirst(WriteCall(h, n)) /\ EnsureFirst(ReadCall(h))
<1> DEFINE Plain(s) == s \in Seq(Arguments) /\ \A j \in DOMAIN s : s[j].kind # "ensure"
<1>1. /\ U32.kind = "u32" /\ U64.kind = "u64" /\ NullAuth.kind = "null"
      /\ \A k : String(k).kind = "string" /\ U32s(k).kind = "array"
  BY DEF U32, U64, NullAuth, String, U32s, Argument
<1>2. U32 \in Arguments /\ U64 \in Arguments /\ NullAuth \in Arguments
        /\ String(h) \in Arguments /\ String(n) \in Arguments
  BY DEF U32, U64, NullAuth, String, Argument, Arguments
<1>3. ASSUME NEW rest, Plain(rest) PROVE EnsureFirst(UnixAuth \o rest)
  <2>1. PICK a : a = UnixAuth
    OBVIOUS
  <2>2. /\ Len(a) = 10 /\ a[1] = Ensure(AuthSize(0, 1))
        /\ a[2] = U32 /\ a[3] = U32 /\ a[4] = U32 /\ a[5] = String(0)
        /\ a[6] = U32 /\ a[7] = U32 /\ a[8] = U32s(1) /\ a[9] = U32 /\ a[10] = U32
    BY <2>1 DEF UnixAuth
  <2>3. a \in Seq(Arguments)
    <3>1. Ensure(AuthSize(0, 1)) \in Arguments /\ String(0) \in Arguments /\ U32s(1) \in Arguments
      BY DEF Ensure, AuthSize, Align4, String, U32s, Argument, Arguments
    <3> QED
      BY <1>2, <2>1, <3>1 DEF UnixAuth
  <2>4. PICK c : c = a \o rest
    OBVIOUS
  <2>5. /\ Len(c) = 10 + Len(rest) /\ DOMAIN c = 1 .. 10 + Len(rest) /\ Len(rest) \in Nat
        /\ \A i \in 1 .. 10 : c[i] = a[i]
        /\ \A i \in 11 .. 10 + Len(rest) : c[i] = rest[i - 10] /\ i - 10 \in DOMAIN rest
    <3>1. rest \in Seq(Arguments)
      BY <1>3
    <3>2. /\ DOMAIN rest = 1 .. Len(rest) /\ Len(rest) \in Nat
          /\ Len(c) = Len(a) + Len(rest) /\ DOMAIN c = 1 .. Len(a) + Len(rest)
          /\ \A i \in 1 .. Len(a) + Len(rest) :
                c[i] = IF i <= Len(a) THEN a[i] ELSE rest[i - Len(a)]
      BY <3>1, <2>3, <2>4, Concatenated
    <3>3. Len(a) = 10
      BY <2>2
    <3> QED
      BY <3>2, <3>3
  <2>6. AuthFollows(c)
    BY <2>2, <2>5 DEF AuthFollows
  <2>7. ASSUME NEW j \in DOMAIN c, c[j].kind = "ensure" PROVE j = 1
    <3>1. CASE j \in 11 .. 10 + Len(rest)
      BY <1>3, <2>5, <2>7, <3>1
    <3>2. CASE j \in 2 .. 10
      <4>1. a[j] \in {U32, String(0), U32s(1)}
        BY <2>2, <3>2
      <4> QED
        BY <1>1, <2>5, <2>7, <3>2, <4>1
    <3> QED
      BY <2>5, <3>1, <3>2
  <2> QED
    BY <2>1, <2>4, <2>6, <2>7 DEF EnsureFirst
<1>4. Plain(<<NullAuth, U32, U32, U32, U32>>)
  BY <1>1, <1>2
<1>5. Plain(<<String(n)>>)
  BY <1>1, <1>2
<1>6. Plain(<<String(h), U32, U32, U32, U32, U32, U32>>)
  BY <1>1, <1>2
<1>7. Plain(<<String(h), U64, U32, U32, String(n)>>)
  BY <1>1, <1>2
<1>8. Plain(<<String(h), U64, U32>>)
  BY <1>1, <1>2
<1>9. Plain(<<String(h), String(n)>> \o [i \in 1 .. 8 |-> U32])
  <2>1. PICK a : a = <<String(h), String(n)>>
    OBVIOUS
  <2>2. PICK b : b = [i \in 1 .. 8 |-> U32]
    OBVIOUS
  <2>3. Plain(a) /\ Plain(b)
    BY <1>1, <1>2, <2>1, <2>2
  <2>4. Plain(a \o b)
    BY <2>3
  <2> QED
    BY <2>1, <2>2, <2>4
<1>10. CreateCall(h, n) = UnixAuth \o (<<String(h), String(n)>> \o [i \in 1 .. 8 |-> U32])
  <2>1. UnixAuth \in Seq(Arguments)
    <3>1. Ensure(AuthSize(0, 1)) \in Arguments /\ String(0) \in Arguments /\ U32s(1) \in Arguments
      BY DEF Ensure, AuthSize, Align4, String, U32s, Argument, Arguments
    <3> QED
      BY <1>2, <3>1 DEF UnixAuth
  <2>2. <<String(h), String(n)>> \in Seq(Arguments) /\ [i \in 1 .. 8 |-> U32] \in Seq(Arguments)
    BY <1>2
  <2>3. \A a, b, c \in Seq(Arguments) : (a \o b) \o c = a \o (b \o c)
    OBVIOUS
  <2> QED
    BY <2>1, <2>2, <2>3 DEF CreateCall
<1>11. EnsureFirst(GetportCall)
  <2>1. PICK s : s = <<NullAuth, U32, U32, U32, U32>>
    OBVIOUS
  <2>2. Plain(s)
    BY <2>1, <1>4
  <2>3. s # <<>> => 1 \in DOMAIN s
    BY <2>2
  <2> QED
    BY <2>1, <2>2, <2>3 DEF GetportCall, EnsureFirst
<1> HIDE DEF Plain
<1> QED
  BY <1>3, <1>5, <1>6, <1>7, <1>8, <1>9, <1>10, <1>11
     DEF MntCall, ReaddirplusCall, WriteCall, ReadCall

\* The buffer after a step of a handler: a call that fits its layout begins,
\* while the program runs, or nothing changes.
LEMMA FitAfter ==
    ASSUME FitInv,
           \/ UNCHANGED buffer
           \/ ~refused /\ \E s : EnsureFirst(s) /\ InitCall(s)
    PROVE  FitInv'
<1>1. CASE UNCHANGED buffer
  BY <1>1 DEF FitInv, RefusedOnlyWhenFull, buffer
<1>2. CASE ~refused /\ \E s : EnsureFirst(s) /\ InitCall(s)
  BY <1>2 DEF InitCall, FitInv, RefusedOnlyWhenFull
<1> QED
  BY <1>1, <1>2

\* Every step keeps the invariant.
LEMMA StepFits == IInv /\ FitInv /\ [Next]_vars => FitInv'
<1> SUFFICES ASSUME IInv, FitInv, [Next]_vars PROVE FitInv'
  OBVIOUS
<1> USE CachedFileAssumption
<1>1. CASE UNCHANGED vars
  BY <1>1, FitAfter DEF vars
<1>2. CASE Serialize
  BY <1>2, SerializerFits DEF Serialize, IInv
<1>3. CASE Mount
  BY <1>3, FitAfter, LayoutsEnsureFirst, HandlesAreWords DEF Mount, Begin, Sent, Running
<1>4. CASE List
  BY <1>4, FitAfter DEF List
<1>5. ASSUME NEW name \in Names, Mknod(name) PROVE FitInv'
  BY <1>5, FitAfter, LayoutsEnsureFirst, HandlesAreWords DEF Mknod, Begin, Free, Running
<1>6. ASSUME NEW created \in BOOLEAN, NEW good \in BOOLEAN,
             NEW handle \in Garbage \cup {HandleBytes}, Created(created, good, handle)
      PROVE  FitInv'
  BY <1>6, FitAfter DEF Created
<1>7. CASE Unlink
  BY <1>7, FitAfter DEF Unlink
<1>8. ASSUME NEW n \in Sizes, Truncate(n) PROVE FitInv'
  BY <1>8, FitAfter DEF Truncate
<1>9. ASSUME NEW n \in Sizes, NEW crc \in Crcs, Write(n, crc) PROVE FitInv'
  <2>1. file.handle \in Nat /\ n \in Nat /\ ~refused
    BY <1>9, HandleLengths DEF IInv, Write, Cached, Free, Running
  <2>2. EnsureFirst(WriteCall(file.handle, n))
    BY <2>1, LayoutsEnsureFirst
  <2> QED
    BY <1>9, <2>1, <2>2, FitAfter DEF Write, Begin
<1>10. ASSUME NEW k \in Sizes, Wrote(k) PROVE FitInv'
  BY <1>10, FitAfter DEF Wrote
<1>11. ASSUME NEW off \in {0, Page}, Read(off) PROVE FitInv'
  <2>1. file.handle \in Nat /\ ~refused
    BY <1>11, HandleLengths DEF IInv, Read, Cached, Free, Running
  <2>2. EnsureFirst(ReadCall(file.handle))
    BY <2>1, LayoutsEnsureFirst
  <2> QED
    BY <1>11, <2>1, <2>2, FitAfter DEF Read, Begin
<1>12. CASE DataRead
  BY <1>12, FitAfter DEF DataRead
<1>13. CASE WriteBehind \/ ReadFails
  BY <1>13, FitAfter DEF WriteBehind, ReadFails
<1>14. ASSUME NEW n \in Sizes \cup {Gone}, OtherClient(n) PROVE FitInv'
  BY <1>14, FitAfter DEF OtherClient
<1> QED
  BY <1>1, <1>2, <1>3, <1>4, <1>5, <1>6, <1>7, <1>8, <1>9, <1>10, <1>11, <1>12, <1>13, <1>14
     DEF Next

(***************************************************************************)
(* EnsureSize ends the program only for a call that does not fit into the  *)
(* buffer, for all lengths of names, handles and contents: what it asks    *)
(* for in advance, for the credentials, is no more than they take.         *)
(***************************************************************************)
THEOREM RefusedWhenFull == Spec => []RefusedOnlyWhenFull
<1>1. Init => FitInv
  BY LayoutsEnsureFirst DEF Init, FitInv, RefusedOnlyWhenFull
<1>2. IInv /\ FitInv /\ [Next]_vars => FitInv'
  BY StepFits
<1>3. FitInv => RefusedOnlyWhenFull
  BY DEF FitInv
<1> QED
  BY <1>1, <1>2, <1>3, Invariance, PTL DEF Spec
=============================================================================
