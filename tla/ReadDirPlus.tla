----------------------------- MODULE ReadDirPlus -----------------------------
(***************************************************************************)
(* How micronfs reads a reply item by item (RPCDeserializer), and reads a  *)
(* directory with it: nfs_readdirplus, and populateCache_cb, which is      *)
(* called for every entry and calls nfs_readdirplus again for the          *)
(* directories in it, on a connection of their own.                        *)
(*                                                                         *)
(* The calls being made are a stack.  A call waits for one reply, which is *)
(* a sequence of items; the words of it that are not received are coming,  *)
(* which is FragmentSizeLeft, and those that are and have not been read    *)
(* are had.  The entries of a directory are numbered, and the cookie of an *)
(* entry is its number.                                                    *)
(***************************************************************************)
EXTENDS Integers, Sequences, SequencesExt

CONSTANTS
    Entries,        \* Entries[d]: the entries of directory d of the server, with
                    \* their type, the directory below if the name is that of a
                    \* directory and has three or more characters, and what the
                    \* server may leave out of them
    Root,           \* the directory that is mounted
    NoDir,          \* an entry below which nothing is listed
    Junk,           \* the value of an uninitialized cookie
    Words,          \* Words[kind]: the words of an item
    MaxBuffer       \* words in InlineStorage, 365 in the code

Directories == DOMAIN Entries
NoVerf == "no verifier"

ASSUME ReadDirPlusAssumption ==
    /\ Root \in Directories /\ NoDir \notin Directories /\ NoVerf \notin Directories
    /\ \A d \in Directories :
          /\ Entries[d] \in Seq([type  : {"dir", "file", "other"},
                                 below : Directories \cup {NoDir},
                                 lacks : SUBSET {"attr", "handle"}])
          /\ \A i \in DOMAIN Entries[d] :
                Entries[d][i].below # NoDir => Entries[d][i].type = "dir"
    /\ {"head", "attr", "verf", "id", "name", "cookie", "flag", "length", "handle",
         "next", "eof", "iter"} \subseteq DOMAIN Words
    /\ \A kind \in DOMAIN Words : Words[kind] \in 0 .. MaxBuffer
    /\ Words["iter"] = 0                    \* the callback takes none
    /\ Junk \notin Nat
    /\ MaxBuffer \in Nat /\ MaxBuffer >= Words["head"] + Words["attr"] + Words["verf"]

VARIABLES
    stack,          \* the calls being made, the innermost last
    seen,           \* per directory, the entries the callback was called for
    cached,         \* per directory, the entries it has put into the cache
    over,           \* the directories whose listing has returned
    unread,         \* those of them of which the server has more
    promised,       \* the directories of which the server sent no entry while it
                    \* said that there were more (for the properties only)
    status          \* "ok", "ended" by an assert or a signal, "crashed" by
                    \* following a null pointer, or "astray" with a cookie that
                    \* is whatever was on the stack

listings == <<seen, cached, over, unread>>
dirvars  == <<stack, listings, promised, status>>

-----------------------------------------------------------------------------
(* Calls and replies *)

\* A call that is about to be sent.
NewCall(proc, dir) ==
    [proc |-> proc, dir |-> dir, phase |-> "send", cookie |-> 0, verf |-> NoVerf,
     last |-> Junk, more |-> FALSE, items |-> <<>>, have |-> 0, coming |-> 0,
     missing |-> 0, tried |-> FALSE]

Top == stack[Len(stack)]
SetTop(c) == [stack EXCEPT ![Len(stack)] = c]

Item(kind) == [kind |-> kind]

\* A reply has all its items, or the first of them when it reports an error.
Size(items) == FoldLeft(LAMBDA sum, item : sum + Words[item.kind], 0, items)
Whole(items) == [items |-> items, words |-> Size(items)]
Only(n, items) == [items |-> items, words |-> Size(SubSeq(items, 1, n))]

\* The items of an entry: "id" is the fileid and the length of the name, and
\* the cookie comes with the flag of the attributes.  The server may leave out
\* the attributes or the handle.  Behind them the callback is called.
EntryItems(i, lacks) ==
    <<Item("id"), Item("name"), [kind |-> "cookie", cookie |-> i]>>
    \o (IF "attr" \in lacks THEN <<>> ELSE <<Item("attr")>>)
    \o <<Item("flag")>>
    \o (IF "handle" \in lacks THEN <<>> ELSE <<Item("length"), Item("handle")>>)
    \o <<[kind |-> "iter", entry |-> i, lacks |-> lacks], Item("next")>>

DirItems(d, attr) ==
    <<Item("head")>> \o (IF attr THEN <<Item("attr")>> ELSE <<>>)
                     \o <<[kind |-> "verf", verf |-> d]>>

\* The entries behind the cookie, up to some entry, whole or without what the
\* server may leave out.
Page(d, cookie, to, more, attr, bare) ==
    DirItems(d, attr)
    \o FlattenSeq([j \in 1 .. to - cookie |->
                      EntryItems(cookie + j, IF bare THEN Entries[d][cookie + j].lacks
                                                     ELSE {})])
    \o <<[kind |-> "eof", more |-> more]>>

\* What the server may reply to c: an error, which it is when a cookie has not
\* the verifier it came with, or some of the entries behind the cookie, possibly
\* none.  It may say that there are more whenever it likes, and must while there
\* are.
DirectoryReplies(c) ==
    LET valid == c.cookie \in 0 .. Len(Entries[c.dir]) /\ (c.cookie # 0 => c.verf = c.dir)
        n     == Len(Entries[c.dir])
    IN  {Only(IF attr THEN 2 ELSE 1, DirItems(c.dir, attr)) : attr \in BOOLEAN}
        \cup IF ~valid THEN {}
             ELSE {Whole(Page(c.dir, c.cookie, p[1], p[2], attr, bare)) :
                     p \in {q \in (c.cookie .. n) \X BOOLEAN : q[1] < n => q[2]},
                     attr \in BOOLEAN, bare \in BOOLEAN}

\* A reply that holds no entry and says that there are more.
Promises(items) ==
    /\ \E k \in DOMAIN items : items[k].kind = "eof" /\ items[k].more
    /\ \A k \in DOMAIN items : items[k].kind # "cookie"

-----------------------------------------------------------------------------
(* Reading a reply *)

\* RPCSerializer_Send, with the reply the server will give.
Send(replies) ==
    /\ status = "ok" /\ stack # <<>> /\ Top.phase = "send"
    /\ \E reply \in replies :
          /\ stack' = SetTop([Top EXCEPT !.phase = "recv", !.items = reply.items,
                                         !.coming = reply.words])
          /\ promised' = IF Promises(reply.items) THEN promised \cup {Top.dir} ELSE promised
    /\ UNCHANGED <<listings, status>>

\* RPCDeserializer_RecvHeader
RecvHeader(k) ==
    /\ status = "ok" /\ stack # <<>> /\ Top.phase = "recv"
    /\ k \in 1 .. Top.coming /\ k <= MaxBuffer
    /\ stack' = SetTop([Top EXCEPT !.phase = "read", !.have = k, !.coming = @ - k])
    /\ UNCHANGED <<listings, promised, status>>

Reading == status = "ok" /\ stack # <<>> /\ Top.phase = "read" /\ Top.items # <<>>
Next1 == Top.items[1]

\* The items EnsureSize is called for; for the others the size is asserted.
Ensured == {"id", "name", "cookie", "attr", "flag", "length", "handle", "next", "eof"}

InBuffer == Top.have >= Words[Next1.kind]

\* The next item is not in the buffer: RPCDeserializer_RefillBuffer, which
\* asks a second time for what the buffer lacks, up to the end of the reply.
Lower(a, b) == IF a < b THEN a ELSE b
MissingOfBuffer(have, coming) == MaxBuffer - have       \* mutants of Missing
MissingOfReply(have, coming) == coming
Missing(have, coming) == Lower(MaxBuffer - have, coming)

Refill(k) ==
    /\ Reading /\ ~InBuffer /\ Next1.kind \in Ensured /\ ~Top.tried
    /\ k \in 1 .. Top.coming /\ k <= MaxBuffer - Top.have
    /\ LET missing == Missing(Top.have + k, Top.coming - k)
       IN  stack' = SetTop([Top EXCEPT !.have = @ + k, !.coming = @ - k, !.tried = TRUE,
                                       !.missing = missing,
                                       !.phase = IF missing = 0 THEN "read" ELSE "again"])
    /\ UNCHANGED <<listings, promised, status>>

RecvAgain(k) ==
    /\ status = "ok" /\ stack # <<>> /\ Top.phase = "again"
    /\ k \in 1 .. Top.coming /\ k <= Top.missing
    /\ stack' = SetTop([Top EXCEPT !.have = @ + k, !.coming = @ - k, !.phase = "read",
                                   !.missing = 0])
    /\ UNCHANGED <<listings, promised, status>>

\* An assert fails: at once, or after the words behind the end of the buffer
\* have been taken for the item.
Starve ==
    /\ Reading /\ ~InBuffer
    /\ Next1.kind \notin Ensured \/ Top.tried
    /\ status' = "ended"
    /\ UNCHANGED <<stack, listings, promised>>

\* The call when its next item has been read.
Advanced == [Top EXCEPT !.have = @ - Words[Next1.kind], !.items = Tail(@), !.tried = FALSE]

\* An item is read that changes nothing else.
Take ==
    /\ Reading /\ InBuffer /\ Next1.kind \notin {"port", "verf", "cookie", "iter", "eof"}
    /\ stack' = SetTop(Advanced)
    /\ UNCHANGED <<listings, promised, status>>

-----------------------------------------------------------------------------
(* nfs_readdirplus *)

\* Mutant of TakeVerf: the verifier is not written back.
DropVerf(item) == [Advanced EXCEPT !.last = Junk]
KeepVerf(item) == [Advanced EXCEPT !.verf = item.verf, !.last = Junk]

TakeVerf ==
    /\ Reading /\ InBuffer /\ Next1.kind = "verf"
    /\ stack' = SetTop(KeepVerf(Next1))
    /\ UNCHANGED <<listings, promised, status>>

TakeCookie ==
    /\ Reading /\ InBuffer /\ Next1.kind = "cookie"
    /\ stack' = SetTop([Advanced EXCEPT !.last = Next1.cookie])
    /\ UNCHANGED <<listings, promised, status>>

\* The end of the reply: lastCookie is written back, also when no entry has set
\* it.
TakeEof ==
    /\ Reading /\ InBuffer /\ Next1.kind = "eof"
    /\ stack' = SetTop([Advanced EXCEPT !.phase = "done", !.more = Next1.more,
                                        !.cookie = Top.last])
    /\ UNCHANGED <<listings, promised, status>>

\* populateCache_cb.  It puts directories and files into the cache, and passes
\* over an entry of another type, or without attributes and handle.  It always
\* returns 1, so nfs_readdirplus never stops in the middle of a reply.
\* connect_name may return a socket that is not connected; sending on it raises
\* SIGPIPE.
Cacheable(i, lacks) == "attr" \notin lacks /\ Entries[Top.dir][i].type # "other"

Callback(i, lacks) ==
    LET below    == Entries[Top.dir][i].below
        descends == "attr" \notin lacks /\ below # NoDir
    IN  \/ /\ IF descends THEN "handle" \in lacks
                         ELSE "attr" \in lacks /\ "handle" \notin lacks
           /\ status' = "crashed" /\ UNCHANGED stack
        \/ /\ descends /\ "handle" \notin lacks
           /\ \/ /\ stack' = Append(SetTop(Advanced), NewCall("readdirplus", below))
                 /\ UNCHANGED status
              \/ status' = "ended" /\ UNCHANGED stack
        \/ /\ ~descends /\ ("attr" \in lacks => "handle" \in lacks)
           /\ stack' = SetTop(Advanced)
           /\ UNCHANGED status

Iterate ==
    /\ Reading /\ Next1.kind = "iter"
    /\ seen' = [seen EXCEPT ![Top.dir] = Append(@, Next1.entry)]
    /\ cached' = IF Cacheable(Next1.entry, Next1.lacks)
                  THEN [cached EXCEPT ![Top.dir] = @ \cup {Next1.entry}] ELSE cached
    /\ Callback(Next1.entry, Next1.lacks)
    /\ UNCHANGED <<over, unread, promised>>

\* A directory below the root is read with one call, whatever it returned.
ReturnBelow ==
    /\ status = "ok" /\ Len(stack) > 1 /\ Top.phase = "done"
    /\ stack' = Front(stack)
    /\ over' = over \cup {Top.dir}
    /\ unread' = IF Top.more THEN unread \cup {Top.dir} ELSE unread
    /\ UNCHANGED <<seen, cached, promised, status>>

ReadDirectory ==
    \/ /\ stack # <<>> /\ Top.proc = "readdirplus"
       /\ Send(DirectoryReplies(Top))
    \/ \E k \in 1 .. MaxBuffer : RecvHeader(k) \/ Refill(k) \/ RecvAgain(k)
    \/ Starve \/ Take \/ TakeVerf \/ TakeCookie \/ TakeEof \/ Iterate \/ ReturnBelow
=============================================================================
