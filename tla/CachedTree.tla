----------------------------- MODULE CachedTree -----------------------------
(***************************************************************************)
(* The cached directory tree of src/cache/cached_tree.c, as the FUSE       *)
(* client fills it from the server (populateCache_cb) and changes it       *)
(* (cnfs_mkdir, cnfs_mknod, cnfs_unlink, cnfs_rmdir).                      *)
(*                                                                         *)
(* All entries live in one array and a directory owns a block of it, taken *)
(* when its first entry is made.  A table of contents, the toc, maps the   *)
(* full path of a directory to its entry, so that a path is looked up by   *)
(* one search of the toc and one of the directory, not by a walk.          *)
(*                                                                         *)
(* The path "/a/b" is the sequence <<a, b>>, so "/" is <<Empty>> and the   *)
(* empty string is <<>>.  Names are interned (module NameCache), so a name *)
(* stands for its pointer.                                                 *)
(***************************************************************************)
EXTENDS Integers, Sequences, SequencesExt

CONSTANTS
    Names,          \* the names the server and the kernel use
    Dot,            \* the name "." under which the server lists a directory
    Empty,          \* the empty name
    Key,            \* Key[n]: the bytes of its entry key
    End,            \* End[f]: the byte of an entry at which field f ends
    Paths,          \* the paths the kernel asks for
    Descended,      \* the names of three or more characters, below which
                    \* populateCache_cb lists
    ListsDot,       \* does the server list ".", and then before anything else?
                    \* Directories need not contain it (rfc1813_nfs_v3.txt:1659)
    Block,          \* entries a directory allocates at once, 256 in the code
    MetaCapacity,   \* metadata_capacity
    DirCapacity,    \* dir_entries_capacity
    FileCapacity,   \* file_entries_capacity
    TocCapacity     \* toc_capacity

None == -1
Slots == 0 .. MetaCapacity - 1
Dirs  == 0 .. DirCapacity - 1
NoKey == [i \in 1 .. End.key |-> 0]

ASSUME CachedTreeAssumption ==
    /\ Empty \notin Names /\ Dot \notin Names \cup {Empty}
    \* Padding ends where the record, the pointer to it, begins; the handle
    \* and more padding are between its end and that of the entry.
    /\ End \in [key : Nat, name : Nat, type : Nat, padding : Nat, record : Nat, entry : Nat]
    /\ 0 < End.key /\ End.key < End.name /\ End.name < End.type
    /\ End.type <= End.padding /\ End.padding < End.record /\ End.record <= End.entry
    /\ \A n \in Names \cup {Dot} : DOMAIN Key[n] = 1 .. End.key /\ Key[n] # NoKey
    /\ Paths \subseteq Seq(Names) \ {<<>>}
    /\ Descended \subseteq Names
    /\ ListsDot \in BOOLEAN
    /\ MetaCapacity \in Nat \ {0} /\ DirCapacity \in Nat \ {0}
    /\ FileCapacity \in Nat /\ TocCapacity \in Nat
    /\ Block \in Nat \ {0}

VARIABLES
    meta,       \* the entry array: key, name, type and cached_dir/cached_file
    metaSize,   \* metadata_size
    dirs,       \* dir_entries: block of entries in use, and full path
    dirSize,    \* dir_entries_size
    fileSize,   \* file_entries_size
    toc,        \* toc_entries up to toc_size
    listing,    \* the directories being read from the server, innermost last
    removed,    \* "nothing", or what a removal has overwritten: at most the
                \* names of "entries", or "records", the pointers to them, too
    status      \* "ok", or how the program failed

vars == <<meta, metaSize, dirs, dirSize, fileSize, toc, listing, removed, status>>
tree == <<meta, metaSize, dirs, dirSize, fileSize, toc>>

-----------------------------------------------------------------------------
(* Looking up *)

\* The entries of directory record d, by their index in the array.
Span(d) == dirs[d].base .. dirs[d].base + dirs[d].size - 1

Least(S) == CHOOSE x \in S : \A y \in S : x <= y

Matches(e, n) == meta[e].key = Key[n] /\ meta[e].name = n

\* Mutant of LookupIn: the search stops before the last entry.
LookupAllButLast(d, n) ==
    LET hits == {e \in Span(d) : Matches(e, n) /\ e + 1 \in Span(d)}
    IN  IF hits = {} THEN None ELSE Least(hits)

\* LookupInDirectoryByKey: the first entry with the key and the name.  No
\* name is a prefix of another, so memcmp over the length is equality.
LookupIn(d, n) ==
    LET hits == {e \in Span(d) : Matches(e, n)}
    IN  IF hits = {} THEN None ELSE Least(hits)

\* LookupDirPathByKey: the entry of the first toc entry with this path.
LookupToc(path) ==
    LET hits == {i \in DOMAIN toc : toc[i].path = path}
    IN  IF hits = {} THEN None ELSE toc[Least(hits)].entry

\* LookupParent: the root for a path of one component, without looking.
ParentOf(path) == IF Len(path) = 1 THEN 0 ELSE LookupToc(Front(path))

\* The parent's union holds a file where the code follows a directory.
Confused(path) ==
    ParentOf(path) # None /\ meta[ParentOf(path)].type = "file"

\* LookupPath
Resolve(path) ==
    IF ParentOf(path) = None \/ Confused(path) THEN None
    ELSE LookupIn(meta[ParentOf(path)].obj, Last(path))

\* What cnfs_getattr answers.
Stat(path) == IF Resolve(path) = None THEN "none" ELSE meta[Resolve(path)].type

\* The entries cnfs_readdir lists of a directory.  The root is not looked up.
Readdir(path) == Span(meta[IF path = <<>> THEN 0 ELSE Resolve(path)].obj)

-----------------------------------------------------------------------------
(* Making entries *)

\* allocate_dir_entires: a directory with no block is about to get one.
BaseKept(d) == dirs[d].base                            \* mutant of BaseOf
BaseOf(d) == IF dirs[d].cap = 0 THEN metaSize ELSE dirs[d].base
Slot(d) == BaseOf(d) + dirs[d].size

BlockFits == metaSize + Block < MetaCapacity
SlotOrFull(d) == IF dirs[d].cap = 0 THEN BlockFits         \* mutant of SlotFree
                 ELSE dirs[d].size <= dirs[d].cap
SlotFree(d) == IF dirs[d].cap = 0 THEN BlockFits ELSE dirs[d].size < dirs[d].cap

ClaimSlot(d) == [base |-> BaseOf(d), size |-> dirs[d].size + 1, cap |-> Block,
                 path |-> dirs[d].path]

\* Mutant of TakeBlock: the block is taken one entry short.
TakeShortBlock(d) == metaSize' = IF dirs[d].cap = 0 THEN metaSize + Block - 1 ELSE metaSize
TakeBlock(d) == metaSize' = IF dirs[d].cap = 0 THEN metaSize + Block ELSE metaSize

Entry(n, type, obj) == [key |-> Key[n], name |-> n, type |-> type, obj |-> obj]

\* GetOrCreateTocEntryForDir: the path of a new entry of directory d.  The
\* record of the root is read after the new entry has been written, which
\* matters when the new entry is the root's own slot.
PathFromRoot(d, n) == <<n>>                            \* mutant of PathIn
PathIn(d, n) ==
    (IF d # meta'[0].obj THEN dirs[d].path ELSE <<>>) \o <<n>>

MakeDir(d, n) ==
    /\ meta' = [meta EXCEPT ![Slot(d)] = Entry(n, "dir", dirSize)]
    /\ TakeBlock(d)
    /\ dirs' = [dirs EXCEPT
                  ![d] = ClaimSlot(d),
                  ![dirSize] = [base |-> 0, size |-> 0, cap |-> 0, path |-> PathIn(d, n)]]
    /\ dirSize' = dirSize + 1
    /\ toc' = Append(toc, [path |-> PathIn(d, n), entry |-> Slot(d)])
    /\ UNCHANGED fileSize

MakeFile(d, n) ==
    /\ meta' = [meta EXCEPT ![Slot(d)] = Entry(n, "file", fileSize)]
    /\ TakeBlock(d)
    /\ dirs' = [dirs EXCEPT ![d] = ClaimSlot(d)]
    /\ fileSize' = fileSize + 1
    /\ UNCHANGED <<dirSize, toc>>

\* The asserts on the way to a new directory and to a new file.
DirFits(d)  == SlotFree(d) /\ dirSize < DirCapacity /\ Len(toc) < TocCapacity
FileFits(d) == SlotFree(d) /\ fileSize < FileCapacity

Fail(how) == status' = how /\ UNCHANGED <<tree, listing, removed>>

\* What exists is not made again.
CreateSubdirectory(d, n) ==
    IF LookupIn(d, n) # None THEN UNCHANGED <<tree, removed, status>>
    ELSE IF DirFits(d) THEN MakeDir(d, n) /\ UNCHANGED <<removed, status>>
    ELSE status' = "aborted" /\ UNCHANGED <<tree, removed>>

\* The caller asserts that there is an entry, and there is none if the name
\* exists.
CreateFileEntry(d, n) ==
    IF LookupIn(d, n) = None /\ FileFits(d) THEN MakeFile(d, n) /\ UNCHANGED <<removed, status>>
    ELSE status' = "aborted" /\ UNCHANGED <<tree, removed>>

-----------------------------------------------------------------------------
(* FreeEntry.  The entries behind the freed one are to move down by one,   *)
(* but memmove is given their number and moves that many bytes, and then   *)
(* the last entry is cut off.                                              *)

\* The entries behind entry e of directory d.
Followers(d, e) == dirs[d].base + dirs[d].size - 1 - e

\* When n bytes are moved from entry e + 1 to entry e, so many of the bytes of
\* entry x are then those of the entry behind it.
Moved(e, n, x) ==
    LET bytes == n - End.entry * (x - e)
    IN  IF x \notin e .. e + n - 1 \/ bytes < 0 THEN 0
        ELSE IF bytes > End.entry THEN End.entry ELSE bytes

\* An entry whose first m bytes are those of the next one.  A pointer to a name
\* that is part the one's and part the other's points to some name, or none.
Overlaid(own, next, m, some) ==
    [key  |-> [i \in 1 .. End.key |-> IF i <= m THEN next.key[i] ELSE own.key[i]],
     name |-> IF m <= End.key THEN own.name ELSE IF m >= End.name THEN next.name ELSE some,
     type |-> IF m >= End.type THEN next.type ELSE own.type,
     obj  |-> IF m >= End.record THEN next.obj ELSE own.obj]

\* Is it of one type with a record of the other, or is its pointer to a record
\* that of neither?
Torn(own, next, m) ==
    /\ m >= End.type /\ m < End.record
    /\ m > End.padding \/ own.type # next.type

\* Mutant of FreeEntry: the next entry moves down and none is cut off.
MoveWithoutCut(d, e) ==
    /\ meta' = [meta EXCEPT ![e] = meta[e + 1]]
    /\ removed' = "entries"
    /\ UNCHANGED <<metaSize, dirs, dirSize, fileSize, toc, status>>

\* The model does not follow a program that reads a record as another.
FreeEntry(d, e) ==
    LET n    == Followers(d, e)
        m(x) == Moved(e, n, x)
    IN  IF \E x \in e .. e + n - 1 : Torn(meta[x], meta[x + 1], m(x))
        THEN status' = "garbled" /\ UNCHANGED <<tree, removed>>
        ELSE /\ \E some \in Names \cup {Dot, Empty} :
                  meta' = [x \in Slots |-> IF x \in e .. e + n - 1
                                           THEN Overlaid(meta[x], meta[x + 1], m(x), some)
                                           ELSE meta[x]]
             /\ dirs' = [dirs EXCEPT ![d].size = @ - 1]
             /\ removed' = IF removed = "records" \/ n >= End.record THEN "records" ELSE "entries"
             /\ UNCHANGED <<metaSize, dirSize, fileSize, toc, status>>

-----------------------------------------------------------------------------
(* InitCache: the size of the entry array is set to 1, for the root, and   *)
(* then to 0 by ResetCache.                                                *)

Init ==
    /\ meta = [e \in Slots |-> [key |-> NoKey, name |-> Empty, type |-> "none", obj |-> 0]]
    /\ metaSize = 0
    /\ dirs = [d \in Dirs |-> [base |-> 0, size |-> 0, cap |-> 0,
                               path |-> IF d = 0 THEN <<Empty>> ELSE <<>>]]
    /\ dirSize = 1
    /\ fileSize = 0
    /\ toc = <<>>
    /\ listing = <<0>>
    /\ removed = "nothing"
    /\ status = "ok"

(* Filling the tree: populateCache_cb is called for every name the server  *)
(* lists, and lists a directory below the one it is in before it returns.  *)
(* A server that lists "." lists it before all others.                     *)

Listing == status = "ok" /\ listing # <<>>

\* The directory being read, the innermost one.  For the root this is the
\* record its entry has now.
Current == meta[Last(listing)].obj

NothingListed == IF Len(listing) = 1 THEN toc = <<>> /\ fileSize = 0
                                     ELSE dirs[Current].cap = 0

\* What the server may list next in it.  What it has listed before it may list
\* again: the directory changes while it is read.
Listed(n) ==
    /\ Listing /\ meta[Last(listing)].type # "file"
    /\ n = Dot <=> ListsDot /\ NothingListed

\* A directory that exists is read again.  If a file has the name, there is no
\* entry, and the program reads the directory into it, if its name is long
\* enough, and gives it the handle, if there is one; without both it goes on
\* with the tree as it is.
ListDir(n) ==
    /\ Listed(n)
    /\ LET hit == LookupIn(Current, n)
       IN  IF hit # None /\ meta[hit].type = "file" THEN Fail("crashed")
           ELSE /\ CreateSubdirectory(Current, n)
                /\ listing' = IF n \notin Descended THEN listing
                              ELSE Append(listing, IF hit = None THEN Slot(Current) ELSE hit)

ListFile(n) ==
    /\ Listed(n)
    /\ CreateFileEntry(Current, n)
    /\ UNCHANGED listing

ListEnd ==
    /\ Listing
    /\ ~(ListsDot /\ NothingListed)
    /\ listing' = Front(listing)
    /\ UNCHANGED <<tree, removed, status>>

\* What is listed next is put into the record of a file, as if it were that of
\* a directory.
ListConfused ==
    /\ Listing /\ meta[Last(listing)].type = "file"
    /\ Fail("confused")

(* The FUSE handlers, run one at a time.  The kernel has looked up every   *)
(* directory on the way with cnfs_getattr.  Handlers that return an error  *)
(* change nothing.                                                         *)

Mounted == status = "ok" /\ listing = <<>>

Reached(path) ==
    /\ Mounted
    /\ \A k \in 1 .. Len(path) - 1 : Stat(SubSeq(path, 1, k)) = "dir"

\* cnfs_getattr takes the record of a file for that of a directory.
GetattrConfused(path) ==
    /\ Reached(path) /\ Confused(path)
    /\ Fail("confused")

InDirectory(path) == Reached(path) /\ ParentOf(path) # None /\ ~Confused(path)

Mkdir(path) ==
    /\ InDirectory(path)
    /\ CreateSubdirectory(meta[ParentOf(path)].obj, Last(path))
    /\ UNCHANGED listing

Mknod(path) ==
    /\ InDirectory(path)
    /\ IF Resolve(path) # None THEN UNCHANGED <<tree, removed, status>>
       ELSE CreateFileEntry(meta[ParentOf(path)].obj, Last(path))
    /\ UNCHANGED listing

\* cnfs_mknod does not check that there is a parent.
MknodNoParent(path) ==
    /\ Reached(path) /\ ParentOf(path) = None
    /\ Fail("crashed")

Unlink(path) ==
    /\ InDirectory(path) /\ Stat(path) = "file"
    /\ FreeEntry(meta[ParentOf(path)].obj, Resolve(path))
    /\ UNCHANGED listing

\* Only an empty directory is removed; its toc entry stays.
Rmdir(path) ==
    /\ InDirectory(path) /\ Stat(path) = "dir"
    /\ dirs[meta[Resolve(path)].obj].size = 0
    /\ FreeEntry(meta[ParentOf(path)].obj, Resolve(path))
    /\ UNCHANGED listing

Populate ==
    \/ \E n \in Names \cup {Dot} : ListDir(n)
    \/ \E n \in Names : ListFile(n)
    \/ ListEnd
    \/ ListConfused

Creation == \E path \in Paths : Mkdir(path) \/ Mknod(path)
Removal == \E path \in Paths : Unlink(path) \/ Rmdir(path)

Next ==
    \/ Populate
    \/ Creation
    \/ Removal
    \/ \E path \in Paths : GetattrConfused(path) \/ MknodNoParent(path)

Spec == Init /\ [][Next]_vars

-----------------------------------------------------------------------------
Types == {"none", "file", "dir"}
Statuses == {"ok", "aborted", "confused", "crashed", "garbled"}

TypeOK ==
    /\ \A e \in Slots :
          /\ meta[e].name \in Names \cup {Dot, Empty}
          /\ meta[e].type \in Types
          /\ meta[e].obj \in IF meta[e].type = "file" THEN 0 .. fileSize - 1
                                                      ELSE 0 .. dirSize - 1
    /\ metaSize \in 0 .. MetaCapacity - 1
    /\ \A d \in Dirs : dirs[d].size <= dirs[d].cap /\ dirs[d].cap \in {0, Block}
    /\ dirSize \in 1 .. DirCapacity /\ fileSize \in 0 .. FileCapacity
    /\ Len(toc) <= TocCapacity /\ \A i \in DOMAIN toc : toc[i].entry \in Slots
    /\ removed \in {"nothing", "entries", "records"}
    /\ status \in Statuses

\* The directory entries that can be found from the root by reading
\* directories, without the toc: the entry a path leads to.
Walk(path) ==
    LET at[k \in 0 .. Len(path)] ==
            IF k = 0 THEN 0
            ELSE IF at[k - 1] = None THEN None
            ELSE IF meta[at[k - 1]].type = "file" THEN None
            ELSE LookupIn(meta[at[k - 1]].obj, path[k])
    IN  at[Len(path)]

(***************************************************************************)
(* Until something is removed, looking a path up in the toc finds what a   *)
(* walk through the directories finds: the directory a path goes through   *)
(* is in the toc under its path, and what leads nowhere by one way leads   *)
(* nowhere by the other.                                                   *)
(***************************************************************************)
TocAgrees ==
    removed = "nothing" => \A path \in Paths : Resolve(path) = Walk(path)

(***************************************************************************)
(* What is registered in the toc is a directory, the one with the path it  *)
(* is registered under: "make sure it's a directory and that it has not    *)
(* been registered in the toc already" (cached_tree.c:347).                *)
(***************************************************************************)
TocLeadsToItsDirectory ==
    \A i \in DOMAIN toc :
        LET entry == meta[toc[i].entry]
        IN  entry.type = "dir" /\ dirs[entry.obj].path = toc[i].path

(***************************************************************************)
(* No two directories share entries, even after removals: the blocks of    *)
(* two directory records do not overlap.                                   *)
(***************************************************************************)
BlocksDisjoint ==
    \A c, d \in Dirs :
        c # d /\ dirs[c].cap # 0 /\ dirs[d].cap # 0 =>
            \/ dirs[c].base + dirs[c].cap <= dirs[d].base
            \/ dirs[d].base + dirs[d].cap <= dirs[c].base

(***************************************************************************)
(* Until something is removed, a directory has no name twice, although the *)
(* server may list a name again and mkdir and mknod may ask for one.       *)
(***************************************************************************)
SiblingsDistinct ==
    removed = "nothing" =>
        \A d \in Dirs : \A e, f \in Span(d) : meta[e].name = meta[f].name => e = f

(***************************************************************************)
(* No two entries are the same directory or the same file, until something *)
(* is removed with so many entries behind it (24 in the code) that memmove *)
(* gives the pointer of one entry to the one before it.                    *)
(***************************************************************************)
ObjectsOwnedOnce ==
    removed # "records" =>
        \A c, d \in Dirs : \A e \in Span(c), f \in Span(d) :
            meta[e].type = meta[f].type /\ meta[e].obj = meta[f].obj => e = f

(***************************************************************************)
(* The root is never taken for a file: its entry shares slot 0 with the    *)
(* first entry made in it, which must be a directory.                      *)
(***************************************************************************)
RootIsDirectory == meta[0].type # "file"

(***************************************************************************)
(* Until something is removed, a mkdir or mknod that succeeds makes its    *)
(* path and changes what no other path means.                              *)
(***************************************************************************)
CreateIsLocal ==
    [][ \A path \in Paths :
          /\ removed = "nothing"
          /\ Mkdir(path) \/ Mknod(path)
          /\ status' = "ok"
          => /\ Stat(path)' # "none"
             /\ \A other \in Paths \ {path} : Stat(other)' = Stat(other)
      ]_vars

(***************************************************************************)
(* Until something is removed, cnfs_readdir and cnfs_getattr agree: every  *)
(* entry that is listed in a directory is the one found when the kernel    *)
(* asks for it by its path, although the one reads the directory and the   *)
(* other goes through the toc.                                             *)
(***************************************************************************)
ReaddirAgrees ==
    removed = "nothing" =>
        \A path \in Paths \cup {<<>>} :
            path = <<>> \/ Stat(path) = "dir" =>
                \A e \in Readdir(path) :
                    meta[e].name # Dot => Resolve(Append(path, meta[e].name)) = e

(***************************************************************************)
(* Until something is removed, no handler meets a parent that is not       *)
(* there, which cnfs_mknod would follow (cnfs_main.c:334), or one that is  *)
(* a file.                                                                 *)
(***************************************************************************)
HandlersFindParents ==
    removed = "nothing" /\ listing = <<>> => status \notin {"crashed", "confused"}

(***************************************************************************)
(* cnfs_unlink, "Remove a file" (cnfs_main.c:465), removes that file and   *)
(* leaves every other path alone.                                          *)
(***************************************************************************)
UnlinkIsLocal ==
    [][ \A path \in Paths :
          Unlink(path) =>
             /\ Stat(path)' = "none"
             /\ \A other \in Paths \ {path} : Stat(other)' = Stat(other)
      ]_vars
=============================================================================
