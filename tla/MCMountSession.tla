--------------------------- MODULE MCMountSession ---------------------------
(***************************************************************************)
(* A root with ".", a directory below and a file, and a directory with "." *)
(* and something that is neither.  The sizes keep what matters of the real *)
(* ones: the attributes do not fit into two of the smallest segments, and  *)
(* a buffer holds the beginning of a reply but not all of it.              *)
(***************************************************************************)
EXTENDS MountSession

Entry(type, below, lacks) == [type |-> type, below |-> below, lacks |-> lacks]
MCEntries == [d \in {"root", "sub"} |->
    IF d = "root" THEN <<Entry("dir", "-", {}), Entry("dir", "sub", {"handle"}),
                           Entry("file", "-", {"attr", "handle"})>>
                  ELSE <<Entry("dir", "-", {"attr"}),
                         Entry("other", "-", {"handle"})>>]
MCWords == [kind \in {"head", "attr", "verf", "id", "name", "cookie", "flag", "length",
                      "handle", "next", "eof", "port", "mount", "last", "iter"} |->
              CASE kind = "attr"   -> 3
                [] kind = "handle" -> 2
                [] kind = "iter"   -> 0
                [] OTHER           -> 1]

ASSUME ServerIsTree == ServerTree
=============================================================================
