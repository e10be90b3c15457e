# A TLA+ development for micronfs

micronfs is a small NFS version 3 client: a FUSE file system (`src/fuse`) and a
command line tool (`src/nfsls.c`) over a hand-written RPC layer
(`src/rpc_serializer.*`, `src/nfs_common.inl`) and an in-memory copy of the
server's directory tree (`src/cache`). This directory models the parts of it
that keep state, checks them with TLC and proves what can be proved with TLAPS.

## The system

At mount, `nfs_init_cache` asks the portmapper and mountd for the root handle
and reads the whole tree with READDIRPLUS. `populateCache_cb` is called for
every name and puts it into the cache. From then on FUSE handlers answer from
the cache, change it, and call the server for reading, writing and creating.

| component | code | state | operations | modelled in |
|---|---|---|---|---|
| name cache | `cached_tree.c` 192-277 | string table, search tree over (crc, length) keys | `GetOrAddName...`, `toCharPtr`, `ResetCache` | `NameCache`, contract `Interning` |
| handle store | `cached_tree.c` 60-141 | one array of limbs, a packed pointer per entry | `handleToPtr`, `ptrToHandle` | `HandleStore` |
| cached tree | `cached_tree.c` 33-58, 143-190, 279-582 | entry array, directory and file records, toc of full paths | lookup, creation, removal | `CachedTree` |
| file content | `cached_tree.c` 586-675, `cnfs_read`, `cnfs_write`, `cnfs_truncate` | size, crc and data of a file | `AddFile`, `UpdateFile` | `CachedFile` |
| FUSE handlers | `fuse/cnfs_main.c` | `dirCache`, `nfs_sock_fd`, the log | getattr, readdir, mkdir, mknod, unlink, rmdir, read, write, truncate | `CachedTree`, `CachedFile`; not the log |
| RPC serializer | `rpc_serializer.*` | call buffer, `Size`, `WritePtr` | `InitCall`, the `Push...`, `Send` | `RpcSerializer` |
| RPC session | `rpc_serializer.*`, `nfs_create`, `nfs_write`, `nfs_read` | counter of xids, buffer, rest of the fragment | `InitCall`, `Send`, `RecvHeader`, `RefillBuffer` | `RpcSession`, contract `RemoteCall` |
| directory paging | `nfs_readdirplus`, `populateCache_cb` | cookie, verifier, the calls made from within the callback | one page, callback per entry | `ReadDirPlus`, contract `DirectoryListing` |
| mount | `micronfs_glue.c`, `nfsls.c`, `main`, portmap and mountd calls | sockets, root handle | connect, getport, dump, mnt, the loop over the pages | `MountSession` |
| the rest | `crc32.c`, `micronfs.*`, `endian.h`, `stdint_msvc.h`, `utils/` | none | checksums, names of enums, macros | not modelled |

How they interact: the tree interns every name and full path (calls into the
name cache) and keeps a handle pointer per entry (calls into the handle store);
`populateCache_cb` is a callback out of the reading of a reply, and reads the
directory below, over a socket of its own, before it returns; the handlers run on
the threads of `fuse_main`, which share the tree and one socket without a lock.

What is hard here: keys that collide and a comparison that is no order; slots
and table entries that outlive what they were made for; limits guarded by
asserts (an abort, not an error); replies cut into segments and read through a
buffer smaller than they are; threads without locks. `PROJECT.json` lists each
of these at its line, with the properties that watch it.

What makes each component correct:

- name cache: a name has one pointer for ever, no other name has it, strings do
  not overlap and stay in the table, lookups end;
- handle store: a pointer decodes to the handle it was made from, whatever is stored later;
- tree: the two ways to a path, by the toc and by the directories, agree;
  directories do not share entries, and no name is in one twice; an operation on one path changes no other;
- RPC session: a call returns the reply to itself, whole and in order, leaves
  nothing on the connection, and returns;
- file content: the size is the server's, and copies stay inside what is allocated;
- RPC serializer: no call is written behind its buffer, and none that fits is refused;
- paging: every name of a directory is delivered once, with any page sizes, and the next
  page is asked for where the last one ended;
- mount: a tree is mounted only with all of its root that the cache takes, and the mount comes to an end.

## The modules

**Interning / NameCache.** `Interning` is the promise: a table from names to
pointers that only grows. `NameCache` is `GetOrAddNameByKey`, one step per turn
of its loop: `Call`, then `Descend` along `kid` (the left and right offsets) as
`Branch` decides, then `Found` or `Insert`, or `Abort` when an assert fails. A string
that runs past the table (`name_table`) ends the model in "overrun": what it does to the nodes behind
the table is not followed.
`Branch` keeps the code's comparison: keys are subtracted modulo `KeyMod` and the
difference is read as signed, and the names are compared only when keys are
equal. Names are numbered as memcmp orders them. `Key` is any function, so crc
collisions are included.

**HandleStore.** One action per way through `handleToPtr`: the root
(`StoreRoot`), another handle (`Store`), the failed assert (`StoreNoRoom`), and the
unsigned length that wraps (`StoreTooShort`), which the assert stops only while the array
holds fewer limbs than are missing. `Decode` is `ptrToHandle`. A limb
takes a few values of which 0 and the magic first limb matter.

**CachedTree.** The entry array with the block of each directory, the directory
records and the toc are modelled as they are, because their sharing is what can
go wrong; files have a record number only. In particular `InitCache` reserves
slot 0 of the array for the root and `ResetCache` gives it back, so the first
entry made in the root overwrites the root's own entry: with a server that
lists "." first this entry is a directory, which by accident leaves a working
tree, with "." as the root. `ListDir`, `ListFile` and `ListEnd` are
`populateCache_cb` and the reading of directories around it (a stack, `listing`). The server
may list a name that it has listed before, with the same type or another, as it does when
a directory changes between two pages: `CreateSubdirectory` and `CreateFileEntry` hold the lookup that the
code makes before it makes an entry. A file that is listed again fails the assert on the new entry; a
directory under the name of a file makes `populateCache_cb` follow the null pointer it gets back. A server
without "." may turn the root into a file; what is listed then goes into the record of a
file (`ListConfused`, status "confused").
`Mkdir`, `Mknod`, `Unlink` and `Rmdir` are the handlers, with the lookups of the directories on the way
that the kernel makes before them as guards; a name that exists is asked for like any other.

`FreeEntry` moves as many bytes as there are entries behind the freed one, over as many
entries as that is long: `End` is the layout of an entry, the byte at which each field ends, and an
entry whose first `m` bytes are those of the next one is `Overlaid`. A name pointer that is mixed from two
may point to any name. An entry that then is of one type with a record of the other, or whose
pointer to a record is mixed from two (`Torn`), is followed no further: the status is
"garbled". `removed` says what removals have moved so far: "entries" (keys, names and types at most) or
"records", pointers to records too. `GetattrConfused` and `MknodNoParent` are the
ways in which a handler fails on a stale toc entry. A failed assert ends in the
status "aborted".

**RemoteCall / RpcSession.** `RemoteCall` is the promise: a call is answered once and
returns that answer. `RpcSession` is the connection: `InitCall` reads the counter
of `RandomXid` and `Send` stores it back (a data race between threads), the
server serves requests in any order, `RecvHeader` receives the first segment and
asserts the xid, `Refill` and `RecvAgain` are the two `recv`s of `RefillBuffer`. Any
`recv` may return any part of what was sent. `Continue` is what a call does with what
it has: it reads the parts of its header, of which some are asserted to be in the
buffer and for others `EnsureSize` refills it once, and then the loop of `nfs_read`.
A reply has one of the `Forms` of its call: what was asked for, or a refusal. `nfs_read` and `nfs_write` return
at an error status and leave what is behind it (`Refusals`, `LeavesRest`); `nfs_create` reads
the attributes of the directory behind the status either way (`ReadWcc`).
`Close` is a server that goes away with any part of its replies delivered, and
`RecvFails` what `recv` returns then. When a call returns without the end of its reply having come, because of
a refusal or because `nfs_create` asserts nothing behind its last attributes, the status is
"behind"; a next call that takes the rest for its header is "derailed", and ends at the assert on the xid.
Words carry the call they answer, which only the properties look at.

**DirectoryListing / ReadDirPlus / MountSession.** `DirectoryListing` is the promise:
entries are delivered in order and once, and the root not given up before its end.
`ReadDirPlus` is the reading of a reply item by item (attributes, cookie, handle,
...) through the buffer. An item is what one call of `EnsureSize` is for, and `Ensured` are those it is
called for; an item that is not in the buffer is refilled for once and ends the
program otherwise (`Starve`). `Iterate` is the callback: it may make a call of its own
on a new connection, so the calls are a stack. The server picks any page it may send
(`DirectoryReplies`): an error, no entries, or some, with or without attributes and handles, and it may say that
there are more whenever it likes. `seen` are the entries the callback was called for and `cached` those it has
put into the cache: it passes over an entry of another type, or without attributes and handle
(`PassedOver`). After a page without entries `lastCookie` is uninitialized; when that page says that there
are more (`promised`), the root is read on with it, the status is "astray" (`GoAstray`), and the model follows
the program no further.
`MountSession` adds `main` of cnfs with `nfs_init_cache`, and `main` of nfsls: portmap,
mountd, and the loop over the pages of the root. `connect_name` gives sockets that are
connected or not (`ConnectAndCall`), and replies of portmap and mountd may be errors.

**RpcSerializer / CachedFile.** `RpcSerializer` is the buffer of a call. A call is a
sequence of arguments with their lengths, taken from the functions that make it
(`CreateCall`, `WriteCall`, ...), and `Push` and `EnsureFails` are one argument each.
`CachedFile` is one file, here and on the server: `AddFile` as `cnfs_write` calls it,
the `realloc` of `cnfs_read`, `cnfs_truncate`, `cnfs_mknod`, `cnfs_unlink`, what the server
may answer to each call, and other clients. A handler that calls the server is two
steps (`Write`, then `Wrote`) with the serializer in between, so that other clients
act in the middle of it. `strayed` and `unallocated` are history variables: they name the ways in
which the sizes come apart, and only the properties read them.

Each module holds the mutants its properties are tested with, marked as such,
next to the definitions they replace: one plausible error each.

## The runs

| run | question | bounds |
|---|---|---|
| `name_cache` | names interned once, found again, strings disjoint, calls return, contract implemented | 5 names, two pairs of colliding keys, three keys in a circle modulo 8; room for 4 nodes and strings of 4, 8 and 16 bytes in 40, so that the order decides which assert fails, or whether a string runs past the table |
| `name_table` | do strings stay in the table? **No.** | the same names, a table of 22 bytes |
| `handle_store` | do pointers decode, keep their meaning, and when is a copy wild? | 8 handles of up to 5 limbs over 4 values, 2 of them malformed; compressed or not, and different from the root in each limb of the prefix; 2 roots, one with a zero limb in its prefix; 7 limbs of room |
| `handle_opaque` | do the pointers of malformed handles decode too? **No.** | as above |
| `cached_tree` | what holds of the tree | 3 names, one too short to be descended into, two with the same first key byte; 5 paths up to depth 3; names listed any number of times; blocks of 3 entries, 4 blocks, 6 directories, 5 toc entries, 1 file |
| `tree_removals` | does an entry ever take over the record of another? Only when a pointer is moved | one directory of up to 6 entries of 5 bytes, so that a removal moves part of a name, a type, a record, or a whole entry |
| `tree_toc` | does the toc agree after removals? **No.** | as above |
| `tree_unlink` | does unlink remove that file only? **No.** | as above |
| `rpc_session` | one thread: own reply, whole, in order, clean connection, calls return, also when the server refuses or closes it | 4 calls, reads, writes, creates and refusals of each, headers of 1 to 8 words in parts, 0, 2 or 12 words behind them through a buffer of 8; xids that repeat |
| `rpc_threads` | and with two threads? **No.** | 2 calls |
| `mount` | does the mount come to an end, with a complete root? | a root of 3 entries, one a directory of 2; entries without attributes or handles, or of another type; pages of 0 to 3 entries; a buffer of 5 words and items of up to 3 |
| `cached_file` | do sizes agree, copies stay inside, and calls fit? | the buffer, header and page of the code; sizes 0, 5, 388, 389, 5000; names of 5, 372 and 373 bytes; handles of 32 bytes, the longest `fhandle3_length` finds |

The bounds are enough for the cases that differ. Both children of a node, a
chain of three and a wrapped comparison occur with five names. Every assert of
the tree can fail within its bounds, and a block fills up, is left by a removal and used
again; in `tree_removals` so many entries are behind a removal that each field of an entry, and
each part of a name, is the last one moved. A reply needs several buffers, a refill is complete, short, or at the
end of the reply, and segments cut a reply everywhere, its header included. In `mount`
the root takes one to three pages, or four with an empty last one, each cut at every
word, and any of them may be empty and promise more; an item is larger than two of the smallest segments, so that every `EnsureSize`
can succeed and fail. In `cached_file` 388 and 389 are the largest write that fits and the
smallest that does not, and so are 372 and 373 for names; 5000 is more than a page.

`TocAgrees`, `SiblingsDistinct` and `CreateIsLocal` are stated until the first removal
(`removed`), because `tree_toc` and `tree_unlink` show that removals break them;
so are `ReaddirAgrees` and `HandlersFindParents`.
`ObjectsOwnedOnce` is stated until a removal has moved a pointer to a record, which takes 24 entries behind
the freed one in the code: the file or directory is then that of two entries.
`BlocksDisjoint` and, with a server that lists ".", `RootIsDirectory` hold throughout.
`RpcSession` passes for one thread, which is FUSE's `-s` option and not the default.

What the code does wrong is part of several properties of the passing runs, each of which says
that nothing else goes wrong. `GetsThrough` excepts a mount that mountd refuses:
`mountd_mnt` does not look at the status and waits for a handle. `MountedHasRoot` excepts
a server without mountd (`main` mounts anyway), and counts no entry that `populateCache_cb` passes over. `OnlyFirstReplyBelow` excepts the
directories below the root of which only the first page was read (`unread`).
`CookiesAreServers` excepts a page without entries that promises more.
`SizeAgrees` and `CopiesInside` except the truncation the server is not told of, the
result of `nfs_write` that nobody looks at, the missing return of `nfs_create`, other
clients, and a size that was set without allocating. `QuietBetweenCalls` excepts the last attributes
of `nfs_create` and refusals of `nfs_read` and `nfs_write` whose end had not come when they returned, and
`RepliesMatch` the calls that come behind such a one.

The five violations are the findings of `PROJECT.json`. Each checks a statement
of the code's own asserts or comments, or of the RFC in the repository.

**Fairness.** `NameCache`: weak fairness of the loop, which runs on a thread that
is scheduled. `RpcSession`: weak fairness of each worker (a thread), of the server
and of the network (TCP on a connection that stays up, with a server that
answers). That the connection closes is not assumed and not excluded.
`MountSession`: weak fairness of its next-state relation, in which a program of one
thread, the server and the network take turns; every action of it is one of theirs,
and the server answers in finitely many pages: an empty one that promises more ends what the model follows. The code has no
timeouts, so liveness depends on all of them. `CachedTree`, `HandleStore` and
`CachedFile` promise no progress; other clients in particular need not act.

## The proofs

`NameCacheProofs` proves `TypeOK`, `NamesInternedOnce`, `StringsDisjoint` and the
refinement of `Interning` for all names, keys, lengths and capacities that satisfy
`NameCacheAssumption`. `NamesInternedOnce` is not inductive: that a name is not
inserted twice follows from the fact that the walk cannot leave the path that
leads to its node. The comparison is no order, so the usual search tree
invariant is not available. Instead the invariant `IInv` says that there is an
assignment `above` of the turns on the way to each node such that a child's turns
are its parent's and one more, a node's own name takes all the turns above it,
and two nodes are told apart by a turn. It holds because `Branch` depends on the
name and the node only. The walk has taken the turns of the wanted name
(`OnCourse`), so where it inserts, no node has that name. `StringsDisjoint` follows
from `Packed`, the strings lying one after the other below `tableSize`.
`EveryNameIsFound` is about a recursive function, the walk from the root for a name.
Its proof looks at the last node of a walk that goes astray: what is above a node is above
all that is below it (`Nested`), and children lie behind their parents in the node array, so
that a walk which has left the way to a node of its name would have a later one.

`HandleStoreProofs` proves `TypeOK`, `RoundTrip`, `CrashNeedsGap` and `PointersStable` for all
handles and roots. `RoundTrip` speaks of well-formed handles (non-zero limbs followed by zeroes),
and `handle_opaque` shows that it must. Its invariant adds that the limbs of
each pointer lie below `limbsSize`, so that a later store does not change them.
For `PointersStable`, that what a pointer stands for is settled when it is made, that is all:
`SInv` is only that the limbs lie below `limbsSize` and that this is
inside the array, and what `LimbCount` gives for any handle (`LimbCountStops`) keeps it.
`CrashNeedsGap` is `PrefixCounts`: a handle that has the prefix of a root without a zero limb there
is at least as long as the prefix.

`CachedTreeProofs` proves `TypeOK`, `BlocksDisjoint` and `ObjectsOwnedOnce` under
`CachedTreeAssumption`, for every server, removals and failed asserts included. The two
safety properties are inductive once three facts are added (`IInv`): a block lies
below `metaSize`, so that a block taken there meets no other; a record that was not
given out has no block; and the toc and the stack of listings lead to slots of the
array, so that every handler works on an entry that exists. A new entry takes one
slot that no block held and a record number no entry has, even if the slot is the
root's own (`ClaimedBlocks`, `OwnedAfter`). Removal takes the last slot out of use
(`FreeTree`), and of the entries behind the freed one it moves keys, names and types, but no pointer to a record
while there are fewer of them than an entry has bytes up to the end of that pointer (`removed`). An entry whose
type is moved without its record has the type it had or is `Torn`, so what it refers to stays its own. This is why the
wrong `memmove`, a disaster for `UnlinkIsLocal`, leaves `ObjectsOwnedOnce` alone up to that
bound, which a directory of 256 slots can reach, and `BlocksDisjoint` and `TypeOK` for ever.

`TreePathsProofs` goes on from there to what paths lead to: `RootIsDirectory` for all behaviours,
`SiblingsDistinct`, `TocAgrees`, `ReaddirAgrees` and `HandlersFindParents` as long as nothing
was removed, and `CreateIsLocal`. The hypothesis is `ListsDot`: the server lists ".", and lists it
first. Without it the first entry of the root is written over the root's own, a file if it is one,
and nothing of this holds. The invariant has two stages. Before the first entry (`Fresh`) there is
nothing; after it (`Rooted`) slot 0 is "." and record 1 holds the entries of the root. Until
a removal `Whole` adds that names are not twice in a directory (an entry is made only where the lookup
of its name has found none), that the i-th toc entry is
the entry of record i, and that its path is the path of the directory it is in and its own name.
So a walk along a path arrives exactly where the toc has it (`TocIsTheDirectories`), by
induction on the length of the path; and since a creation adds one entry, one record and one toc entry
behind all others, every walk but the one to the new path goes through the same records as before
(`CreateLocal`).

`CachedFileProofs` proves `TypeOK`, `BufferHolds`, `SizeAgrees` and `CopiesInside` under
`RpcSerializerAssumption` and `CachedFileAssumption`: for every size of the buffer and the
header that is a multiple of 4, and all lengths, sizes and pages. The buffer's half of
`IInv` says that `Size` is a multiple of 4 and 4 less than what `WritePtr` has moved: as every
argument takes words and `EnsureSize` compares with `<`, the word that `Size` does not count
still fits (`WrittenIsEnsured`, `SerializerStep`). The file's half says what holds while a
call is made: the size is that of the write being sent, and the content is allocated for the
size unless that was set since. `SizeAgrees` is about the time between handlers
and is not inductive without it. `RefusedOnlyWhenFull` is the other side of `BufferHolds`: an
`EnsureSize` that fails is for an argument that, with those behind it, takes more words than the buffer
has left. `EnsureFirst` says of what is left of a call that each size that is ensured is written by
the argument itself and the ones behind it; it holds of the calls cnfs makes (`LayoutsEnsureFirst`) and of
every rest of them.

`SumLemmas` is what that takes: the sums of the model are folds along a sequence, and the lemmas say
that the function a fold is made of exists, that its values are natural numbers, and what the
sum of a tail is.

`RpcSessionProofs` proves `TypeOK`, `RepliesMatch`, `QuietBetweenCalls` and the refinement of
`RemoteCall` under the hypothesis `OneThread`, which is FUSE's option `-s`; `rpc_threads` shows that
it is needed. Headers, their parts, the size of the buffer, the xids and the way replies are cut
up are arbitrary. The invariant follows the one call that is made: the server has its request or has
answered it (`Asked`); and what it has received and what is on the connection make up its reply, in
order, the whole of it while the connection is open (`Exchange`, `OnItsWay`). Between calls
the connection is empty. That is why the xid assert never fails (`status # "mismatch"`), xids that
repeat included. When a call has left a part of its reply behind, `LeftBehind` says
that what is next on the connection, or comes next, is not the beginning of a reply, so no call goes on with it.

`MountSessionProofs` proves `TypeOK`, `CookiesAreServers`, `OnlyFirstReplyBelow`,
`MountedHasRoot` and the refinement of `DirectoryListing`, for every server whose directories form a
tree (`ServerTree`; "." and ".." do not count, since the callback passes over them), whatever it
replies, with every cut of every reply. The core is `Reply`, which says what is left to read
of one: its numbered items are the cookies and the entries between the last one delivered and the last
one of the reply, each cookie before its entry and none left out, behind the verifier; and at its end
the last cookie read is that of the last entry delivered, or no more is said to come, or the server has promised
more and sent nothing. Of every entry delivered `Bounded` says that it is in the cache or passed over. Each item that is
read keeps it (`ReplyTakes`, `ReplyVerf`, `ReplyCookie`, `ReplyIter`, `ReplyEof`), and every reply of a
server has it at first (`ErrorReply`, `PageReply`), which needs what `FlattenSeq` makes of the entries
(`FlattenLists`). `Nested` and `Untouched` are about the calls from within the callback: no two of them
are for one directory, and nothing has been delivered of a directory below an entry that was
not. Without `ServerTree` the callback would be called for a directory while it is being
read.

The hypotheses `ListsDot`, `OneThread` and `ServerTree` hold of the instances TLC checks
(`MCMountSession` asserts the last; `TreeRemovals.cfg` and `RpcThreads.cfg` are without the first two), and so do the assumptions on the constants, among them that
"." is not the name of any other entry and that every item of a reply has a size.

Only model-checked: liveness, that is `CallsReturn` of the name cache and of the session, and
`GetsThrough`. It needs `ENABLED` and fairness, which are out of the prover's reach. Every other property of a passing
run is a theorem. Where a property is about a recursive function or a fold, the induction is an
argument about the least or the greatest counterexample.

## Not modelled, and why

- `crc32.c`, enum names, byte order, build files: no state and no control. A crc is
  a constant or a member of a set, so collisions are included.
- The values of attributes and authentication fields: lengths and order only.
- What no caller reaches: `UpdateFile` (`cnfs_write` asserts that the offset is 0),
  `AddFile`'s way of creating an entry (it is called for a path that was found),
  virtual files, `nfs_readdir`, `nfs_mknod`, `portmap_nullCall`, `searchDir_cb` and with it the
  flush of `nfs_readdirplus`, `RPCSerializer_Init`, `PushSattr3` and `PushEmptySattr3`.
- Replies that the RPC layer rejects (a denied call, a program that is not there): `accepted` and
  `accept_state` are read and not looked at. The refusals modelled are those of the NFS server.
- The log file and `fuse_opt` options: they change nothing that is modelled.
- The data race on `dirCache` between FUSE threads: handlers are atomic in
  `CachedTree` and run one at a time in `CachedFile`. What unsynchronised C code does is up to the
  build, and a model of one build would not be one of this code.
- Pointers to variables whose block has ended (`attribsPtr`, `handlePtr`): the callback is
  given the values they had.
- A connection that closes during the mount: it is modelled in `RpcSession`, whose calls read
  their replies by the same functions. Segments there and in `MountSession` are whole words.

## What is left

1. Proofs: what holds of paths after a removal, which is little; `TypeOK` of a session with
   several threads.
2. Composition: `ListDir` and `ListFile` of `CachedTree` as the callback of `ReadDirPlus`, so that a
   tree read in pages is shown to be the tree read at once.
