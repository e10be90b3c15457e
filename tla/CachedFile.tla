----------------------------- MODULE CachedFile -----------------------------
(***************************************************************************)
(* A file of the mounted tree: what the cache knows of it, its size, the   *)
(* bytes allocated for its content and their crc, and what the server has  *)
(* of it.  The handlers cnfs_mknod, cnfs_unlink, cnfs_truncate, cnfs_read  *)
(* and cnfs_write run one after another, and call the server through the   *)
(* buffer of RpcSerializer; before them nfs_init_cache lists the file.     *)
(* Other clients of the server change the file too.                        *)
(*                                                                         *)
(* The content that is cached is never handed out, so of a content only    *)
(* the size and the crc are modelled.                                      *)
(***************************************************************************)
EXTENDS RpcSerializer

CONSTANTS
    Sizes,          \* bound: the sizes of files and of writes
    Page,           \* what one read asks for
    Crcs,           \* crcs of contents
    Names,          \* bound: the lengths of file names
    HandleBytes,    \* the length of the handles of the server
    Garbage,        \* bound: the lengths of what a handle never set may decode to
    PathBytes       \* the length of "/nfs/git"

\* What fhandle3_length may return.
HandleSizes == {4 * limbs : limbs \in 0 .. 8}

ASSUME CachedFileAssumption ==
    /\ Sizes \in SUBSET Nat /\ 0 \in Sizes /\ Page \in Nat \ {0}
    /\ Names \in SUBSET (Nat \ {0}) /\ 0 \in Crcs
    /\ HandleBytes \in HandleSizes /\ Garbage \in SUBSET HandleSizes /\ PathBytes \in Nat

VARIABLES
    file,           \* the cached file, or NoFile
    server,         \* the size of the file on the server, or Gone
    op,             \* the call that is made, with the size or offset it is for
    strayed,        \* has anything happened since that may make the sizes of the
                    \* file here and on the server differ?
    unallocated,    \* has the size been set, and the content not allocated, since?
    status          \* "ok", "aborted" by an assert, "wild" after a copy to
                    \* behind the content, "crashed" by one of -1 bytes

vars == <<file, server, op, strayed, unallocated, status, buffer>>

NoFile == [size |-> -1]
Gone   == -1
Idle   == [proc |-> "none", n |-> 0]

Running == status = "ok" /\ ~refused
Free    == Running /\ op = Idle
Cached  == Free /\ file # NoFile

Begin(proc, n, arguments) ==
    /\ op' = [proc |-> proc, n |-> n]
    /\ InitCall(arguments)

\* The call is sent, and its reply read.
Sent(proc) == Running /\ op.proc = proc /\ pushes = <<>>

\* A copy of n bytes to off stays inside cap bytes.
Inside(n, off, cap) == n = 0 \/ off + n <= cap

Init ==
    /\ file = NoFile /\ server \in Sizes \cup {Gone}
    /\ op = [proc |-> "getport", n |-> 0]
    /\ strayed = FALSE /\ unallocated = FALSE /\ status = "ok"
    /\ pushes = GetportCall /\ size = CallBytes - 4 /\ at = CallBytes /\ refused = FALSE

Serialize ==
    /\ status = "ok"
    /\ Push \/ EnsureFails
    /\ UNCHANGED <<file, server, op, strayed, unallocated, status>>

\* nfs_init_cache
Mount ==
    /\ \/ Sent("getport") /\ Begin("mnt", 0, MntCall(PathBytes))
       \/ Sent("mnt") /\ Begin("readdirplus", 0, ReaddirplusCall(HandleBytes))
    /\ UNCHANGED <<file, server, strayed, unallocated, status>>

\* populateCache_cb, CreateFileEntry: nothing is allocated.
List ==
    /\ Sent("readdirplus")
    /\ op' = Idle
    /\ IF server = Gone THEN UNCHANGED <<file, unallocated>>
       ELSE /\ file' = [size |-> server, cap |-> 0, crc |-> 0, good |-> TRUE,
                        handle |-> HandleBytes]
            /\ unallocated' = (server # 0)
    /\ UNCHANGED <<server, strayed, status, buffer>>

\* cnfs_mknod.  The name is created on the server only if it is not there.
Mknod(name) ==
    /\ Free /\ file = NoFile
    /\ Begin("create", name, CreateCall(HandleBytes, name))
    /\ UNCHANGED <<file, server, strayed, unallocated, status>>

\* nfs_create has no return statement: the handle it fills in is the one the
\* handler gets, or any other.  None is longer than handleToPtr asserts.
Created(created, good, handle) ==
    /\ Sent("create")
    /\ created => server = Gone
    /\ good => created
    /\ handle = HandleBytes \/ (~good /\ handle \in Garbage)
    /\ server' = IF created THEN 0 ELSE server
    /\ op' = Idle
    /\ file' = [size |-> 0, cap |-> 0, crc |-> 0, good |-> good, handle |-> handle]
    /\ strayed' = ~good /\ unallocated' = FALSE
    /\ UNCHANGED <<status, buffer>>

\* cnfs_unlink: nfs_remove does nothing.
Unlink ==
    /\ Cached
    /\ file' = NoFile
    /\ strayed' = FALSE /\ unallocated' = FALSE
    /\ UNCHANGED <<server, op, status, buffer>>

\* cnfs_truncate: the server is not told.
Truncate(n) ==
    /\ Cached /\ n # file.size
    /\ file' = [file EXCEPT !.size = n]
    /\ strayed' = TRUE /\ unallocated' = TRUE
    /\ UNCHANGED <<server, op, status, buffer>>

\* AddFile: the content is allocated anew when the size changes.
Kept(n) == IF file.cap = 0 THEN n ELSE file.cap         \* mutant of Allocated
Allocated(n) == IF n # file.size THEN n ELSE file.cap

WithoutSize(n, crc) == [file EXCEPT !.cap = Allocated(n), !.crc = crc]
                                                        \* mutant of Stored
Stored(n, crc) == [file EXCEPT !.cap = Allocated(n), !.crc = crc, !.size = n]

AddFile(n, crc) ==
    IF n = file.size /\ crc = file.crc
      THEN UNCHANGED <<file, unallocated, status>>
      ELSE /\ file' = Stored(n, crc)
           /\ unallocated' = (unallocated /\ n = file.size)
           /\ status' = IF Inside(n, 0, Allocated(n)) THEN "ok" ELSE "wild"

\* cnfs_write at the start of the file, up to the call of nfs_write.
Write(n, crc) ==
    /\ Cached /\ n # 0
    /\ AddFile(n, crc)
    /\ Begin("write", n, WriteCall(file.handle, n))
    /\ UNCHANGED <<server, strayed>>

\* cnfs_write anywhere else.
WriteBehind ==
    /\ Cached
    /\ status' = "aborted"
    /\ UNCHANGED <<file, server, op, strayed, unallocated, buffer>>

\* The server has written the first k bytes; none, also because of an error.
\* cnfs_write does not look at what nfs_write returns.
Wrote(k) ==
    /\ Sent("write") /\ k <= op.n
    /\ k > 0 => file.good /\ server # Gone
    /\ server' = IF k > 0 /\ k > server THEN k ELSE server
    /\ strayed' = ~(k = op.n /\ server <= k)
    /\ op' = Idle
    /\ UNCHANGED <<file, unallocated, status, buffer>>

\* cnfs_read, up to the call of nfs_read.  FUSE asks for pages, up to the size.
Read(off) ==
    /\ Cached /\ off % Page = 0 /\ (off = 0 \/ off <= file.size)
    /\ IF off = 0 THEN /\ file' = [file EXCEPT !.cap = file.size]
                       /\ unallocated' = FALSE
                  ELSE UNCHANGED <<file, unallocated>>
    /\ Begin("read", off, ReadCall(file.handle))
    /\ UNCHANGED <<server, strayed, status>>

\* What the server has, up to a page of it, is copied behind off.
Lower(a, b) == IF a < b THEN a ELSE b
Delivered(off) == IF server <= off THEN 0 ELSE Lower(server - off, Page)

DataRead ==
    /\ Sent("read")
    /\ file.good /\ server # Gone
    /\ status' = IF Inside(Delivered(op.n), op.n, file.cap) THEN "ok" ELSE "wild"
    /\ op' = Idle
    /\ UNCHANGED <<file, server, strayed, unallocated, buffer>>

\* nfs_read returns -1 after an error, and as many bytes are copied.
ReadFails ==
    /\ Sent("read")
    /\ status' = "crashed"
    /\ UNCHANGED <<file, server, op, strayed, unallocated, buffer>>

\* Another client writes, truncates, creates or removes the file.
OtherClient(n) ==
    /\ Running /\ n # server
    /\ server' = n
    /\ strayed' = (strayed \/ file # NoFile)
    /\ UNCHANGED <<file, op, unallocated, status, buffer>>

Next ==
    \/ Serialize \/ Mount \/ List \/ Unlink \/ WriteBehind \/ DataRead \/ ReadFails
    \/ \E name \in Names : Mknod(name)
    \/ \E created, good \in BOOLEAN, handle \in Garbage \cup {HandleBytes} :
          Created(created, good, handle)
    \/ \E n \in Sizes : Truncate(n) \/ Wrote(n)
    \/ \E n \in Sizes, crc \in Crcs : Write(n, crc)
    \/ \E off \in {0, Page} : Read(off)
    \/ \E n \in Sizes \cup {Gone} : OtherClient(n)

Spec == Init /\ [][Next]_vars

-----------------------------------------------------------------------------
TypeOK ==
    /\ file = NoFile \/ file \in [size : Sizes, cap : Sizes, crc : Crcs, good : BOOLEAN,
                                 handle : {HandleBytes} \cup Garbage]
    /\ server \in Sizes \cup {Gone}
    /\ op \in [proc : {"none", "getport", "mnt", "readdirplus", "create", "read", "write"},
               n : Nat]
    /\ strayed \in BOOLEAN /\ unallocated \in BOOLEAN /\ refused \in BOOLEAN
    /\ status \in {"ok", "aborted", "wild", "crashed"}
    /\ size \in 0 .. MaxSize /\ at \in CallBytes .. MaxSize

(***************************************************************************)
(* Between handlers the size that getattr reports, and cnfs_read allocates *)
(* for, is that of the file on the server, unless, since they last agreed, *)
(* it was truncated here, which the server is not told (cnfs_main.c:446),  *)
(* changed by another client, created under a handle that was lost         *)
(* (nfs_common.inl:456), or written and the server took only a part of it  *)
(* or has kept what was behind it (cnfs_main.c:296).  A write that covers  *)
(* the whole file makes them agree again.                                  *)
(***************************************************************************)
SizeAgrees == Cached /\ ~strayed => file.size = server /\ file.good

(***************************************************************************)
(* The content of a file is copied to behind the bytes allocated for it    *)
(* only when the sizes have come apart in one of these ways, or the size   *)
(* was set without allocating and the first to touch the content is a      *)
(* write of the same size (cached_tree.c:623) or a read behind the first   *)
(* page (cnfs_main.c:403): AddFile itself always allocates enough.         *)
(***************************************************************************)
CopiesInside == status = "wild" => strayed \/ unallocated
=============================================================================
