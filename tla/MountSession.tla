---------------------------- MODULE MountSession ----------------------------
(***************************************************************************)
(* What happens before the file system is mounted: main of cnfs calls      *)
(* nfs_init_cache, which asks portmap for the port of mountd, mountd for   *)
(* the handle of the root, and reads the root with nfs_readdirplus until   *)
(* the server has no more.  nfsls, the command line tool, does the same,   *)
(* and lists the mounts before and takes its mount back after it.          *)
(***************************************************************************)
EXTENDS ReadDirPlus

ASSUME MountSessionAssumption == {"port", "mount", "last"} \subseteq DOMAIN Words

VARIABLES
    program,        \* the program that is run
    phase,          \* how far it is
    port,           \* what portmap answered
    usable          \* is nfs_sock_fd connected?

vars == <<dirvars, program, phase, port, usable>>

\* Ports are told apart by whether there is one.
Unknown == "unknown"
Ports   == {"zero", "some"}

Init ==
    /\ stack = <<>> /\ seen = [d \in Directories |-> <<>>]
    /\ cached = [d \in Directories |-> {}]
    /\ over = {} /\ unread = {} /\ promised = {} /\ status = "ok"
    /\ program \in {"cnfs", "nfsls"}
    /\ phase = "start" /\ port = Unknown /\ usable = FALSE

At(p) == status = "ok" /\ phase = p

\* connect_name returns a socket whether or not it is connected, or -1.  The
\* first call on one that is not ends the program: by SIGPIPE, or by an assert
\* on the socket or on the xid of the empty reply.
ConnectAndCall(next, call) ==
    \/ /\ phase' = next
       /\ stack' = <<call>>
       /\ UNCHANGED <<listings, promised, status>>
    \/ /\ status' = "ended"
       /\ UNCHANGED <<phase, stack, listings, promised>>

\* A call on the socket that is connected.
Call(next, call) ==
    /\ phase' = next
    /\ stack' = <<call>>
    /\ UNCHANGED <<listings, promised, status>>

ConnectPortmap ==
    /\ At("start")
    /\ ConnectAndCall("getport", NewCall("getport", NoDir))
    /\ UNCHANGED <<program, port, usable>>

\* The reply of portmap: an error holds no port, and 0 is the port of a
\* service it does not know.
GetportItems(p) == <<Item("head"), [kind |-> "port", port |-> p]>>
GetportReplies == {Whole(GetportItems(p)) : p \in Ports} \cup {Only(1, GetportItems("zero"))}

\* The reply of mountd to the dump of its mounts: an error, or mounts.
DumpItems(n) == <<Item("head")>> \o [i \in 1 .. n |-> Item("mount")] \o <<Item("last")>>
DumpReplies == {Whole(DumpItems(n)) : n \in 0 .. 2} \cup {Whole(<<Item("head")>>)}

\* The reply of mountd to the mount: it may refuse, and sends no handle.
MntItems == <<Item("head"), Item("length"), Item("handle")>>
MntReplies == {Whole(MntItems), Only(1, MntItems)}

SendOther ==
    /\ stack # <<>>
    /\ \/ Top.proc = "getport" /\ Send(GetportReplies)
       \/ Top.proc = "dump" /\ Send(DumpReplies)
       \/ Top.proc = "mnt" /\ Send(MntReplies)
    /\ UNCHANGED <<program, phase, port, usable>>

TakePort ==
    /\ At("getport") /\ Reading /\ InBuffer /\ Next1.kind = "port"
    /\ port' = Next1.port
    /\ stack' = SetTop(Advanced)
    /\ UNCHANGED <<listings, promised, status, program, phase, usable>>

\* A call other than nfs_readdirplus has read its reply.
Answered(p) == At(p) /\ stack # <<>> /\ Top.phase = "read" /\ Top.items = <<>>

\* Without a port nfs_init_cache returns -1, and so does main of nfsls.  main
\* of cnfs does not look at what nfs_init_cache returns.
GotNoPort ==
    /\ Answered("getport") /\ port = "zero"
    /\ stack' = <<>>
    /\ phase' = IF program = "cnfs" THEN "serve" ELSE "finished"
    /\ UNCHANGED <<listings, promised, status, program, port, usable>>

GotPort ==
    /\ Answered("getport") /\ port # "zero"
    /\ IF program = "cnfs" THEN ConnectAndCall("mnt", NewCall("mnt", NoDir))
                           ELSE ConnectAndCall("dump", NewCall("dump", NoDir))
    /\ UNCHANGED <<program, port, usable>>

Dumped ==
    /\ Answered("dump")
    /\ Call("mnt", NewCall("mnt", NoDir))
    /\ UNCHANGED <<program, port, usable>>

\* mountd_mnt does not look at the status.  Then the cache is made, and the
\* root read.
GotRoot ==
    /\ Answered("mnt")
    /\ ConnectAndCall("listing", NewCall("readdirplus", Root))
    /\ UNCHANGED <<program, port, usable>>

\* The loop around nfs_readdirplus: the cookie and the verifier that the last
\* call wrote back are given to the next.  If no entry has set the cookie it is
\* what was on the stack, and what the server makes of it is not followed.
StopAtFirst(more) == FALSE                              \* mutant of ReadMore
ReadMore(more) == more

NextPage ==
    /\ At("listing") /\ Len(stack) = 1 /\ Top.phase = "done" /\ ReadMore(Top.more)
    /\ Top.cookie # Junk
    /\ stack' = <<[NewCall("readdirplus", Root) EXCEPT !.cookie = Top.cookie, !.verf = Top.verf]>>
    /\ UNCHANGED <<listings, promised, status, program, phase, port, usable>>

GoAstray ==
    /\ At("listing") /\ Len(stack) = 1 /\ Top.phase = "done" /\ ReadMore(Top.more)
    /\ Top.cookie = Junk
    /\ status' = "astray"
    /\ UNCHANGED <<stack, listings, promised, program, phase, port, usable>>

\* nfsls prints the root and takes the mount back, without reading the reply.
RootRead ==
    /\ At("listing") /\ Len(stack) = 1 /\ Top.phase = "done" /\ ~ReadMore(Top.more)
    /\ stack' = <<>>
    /\ over' = over \cup {Root}
    /\ phase' = IF program = "cnfs" THEN "serve" ELSE "finished"
    /\ UNCHANGED <<seen, cached, unread, promised, status, program, port, usable>>

\* main of cnfs connects the socket of the handlers, unchecked, and mounts.
Serve ==
    /\ At("serve")
    /\ phase' = "mounted"
    /\ usable' \in BOOLEAN
    /\ UNCHANGED <<dirvars, program, port>>

Next ==
    \/ ConnectPortmap \/ SendOther \/ TakePort
    \/ GotNoPort \/ GotPort \/ Dumped \/ GotRoot
    \/ NextPage \/ GoAstray \/ RootRead \/ Serve
    \/ ReadDirectory /\ UNCHANGED <<program, phase, port, usable>>

\* The program runs, the server answers, and its words arrive.
Spec == Init /\ [][Next]_vars /\ WF_vars(Next)

-----------------------------------------------------------------------------
(***************************************************************************)
(* The directories of a server are a tree: below no two entries is the     *)
(* same directory, and below none is the root.  What "." and ".." lead to  *)
(* does not count as below, for populateCache_cb passes over both          *)
(* (nfs_common.inl:885).                                                   *)
(***************************************************************************)
ServerTree ==
    \A d, e \in Directories : \A i \in DOMAIN Entries[d], j \in DOMAIN Entries[e] :
        Entries[d][i].below # NoDir =>
            /\ Entries[d][i].below # Root
            /\ Entries[d][i].below = Entries[e][j].below => d = e /\ i = j

CallPhases == {"send", "recv", "read", "again", "done"}

TypeOK ==
    /\ \A i \in DOMAIN stack :
          /\ stack[i].proc \in {"getport", "dump", "mnt", "readdirplus"}
          /\ stack[i].phase \in CallPhases
          /\ stack[i].have \in 0 .. MaxBuffer /\ stack[i].coming \in Nat
          /\ stack[i].missing \in 0 .. MaxBuffer
    /\ DOMAIN seen = Directories /\ DOMAIN cached = Directories
    /\ over \subseteq Directories /\ unread \subseteq over /\ promised \subseteq Directories
    /\ status \in {"ok", "ended", "crashed", "astray"}
    /\ program \in {"cnfs", "nfsls"} /\ port \in Ports \cup {Unknown} /\ usable \in BOOLEAN
    /\ phase \in {"start", "getport", "dump", "mnt", "listing", "serve", "mounted", "finished"}

Through == status = "ok" /\ phase \in {"serve", "mounted", "finished"}

\* An entry that populateCache_cb may pass over, and prints a line for.
PassedOver(d, i) == Entries[d][i].type = "other" \/ {"attr", "handle"} \subseteq Entries[d][i].lacks

(***************************************************************************)
(* When portmap knows mountd, cnfs mounts, and nfsls lists, only a root    *)
(* that was read to its end and of which every entry is in the cache that  *)
(* populateCache_cb does not pass over (nfs_common.inl:907-916): nothing   *)
(* that goes wrong on the way leads to a mount of less (cnfs_main.c:563).  *)
(***************************************************************************)
MountedHasRoot ==
    Through /\ port # "zero" =>
        /\ Root \in over /\ Len(seen[Root]) = Len(Entries[Root])
        /\ \A i \in DOMAIN Entries[Root] : i \in cached[Root] \/ PassedOver(Root, i)

(***************************************************************************)
(* Of every directory that was read the callback got all the entries,      *)
(* however its replies were cut up, except of a directory below the root   *)
(* whose first reply did not hold all of it: the rest is never asked for.  *)
(***************************************************************************)
OnlyFirstReplyBelow ==
    /\ Root \notin unread
    /\ \A d \in over \ unread : Len(seen[d]) = Len(Entries[d])

(***************************************************************************)
(* A call asks for the entries behind the last one delivered, and with the *)
(* verifier of the server.  It goes astray with a cookie that no reply has *)
(* set (nfs_common.inl:690) only if the server has sent it a reply without *)
(* entries which says that there are more.                                 *)
(***************************************************************************)
CookiesAreServers ==
    /\ \A i \in DOMAIN stack :
          stack[i].proc = "readdirplus" /\ stack[i].phase = "send" =>
              /\ stack[i].cookie = Len(seen[stack[i].dir])
              /\ stack[i].cookie # 0 => stack[i].verf = stack[i].dir
    /\ status = "astray" => Root \in promised

(***************************************************************************)
(* mountd refuses the mount: its reply holds no handle, and mountd_mnt,    *)
(* which does not look at the status, waits for one.                       *)
(***************************************************************************)
Refused == stack # <<>> /\ Top.proc = "mnt" /\ Top.phase = "read" /\ Top.coming = 0
             /\ Top.items # <<>> /\ Next1.kind = "length" /\ ~InBuffer

(***************************************************************************)
(* The program gets through, ends or goes astray, unless mountd refuses    *)
(* the mount: no recv waits for words that do not come, on any connection. *)
(***************************************************************************)
GetsThrough == <>(phase \in {"mounted", "finished"} \/ status # "ok" \/ Refused)

(***************************************************************************)
(* The callback is called once for every entry of a directory, in order,   *)
(* and the reading of the root does not end before it was called for all.  *)
(***************************************************************************)
EntriesOf(d) == Len(Entries[d])
Contract == INSTANCE DirectoryListing
              WITH Length <- EntriesOf, Complete <- {Root}, delivered <- seen
Implements == Contract!Spec
=============================================================================
