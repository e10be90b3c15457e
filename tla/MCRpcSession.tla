---------------------------- MODULE MCRpcSession ----------------------------
(***************************************************************************)
(* An array of two xids and a period of three stand for the five and 20    *)
(* of RandomXid.  Behind the array an xid is found a second time, so that  *)
(* two calls in a row have the same one.                                   *)
(***************************************************************************)
EXTENDS RpcSession

MCXid == [i \in 0 .. 2 |-> IF i = 1 THEN "xid b" ELSE "xid a"]

\* nfs_read: up to attributes_follow, the attributes, count and eof and size.
\* nfs_write: up to the flags of the wcc data, the attributes, count and verf.
\* nfs_create: up to handle_follows, the handle, attributes_follow, the
\* attributes, the flags of the wcc data, the attributes of the directory.
\* Of a refusal nfs_read and nfs_write read the status, and nfs_create what
\* it reads last of all replies.
Part(end, ensured) == [end |-> end, ensured |-> ensured]
MCHeader ==
    [read   |-> <<Part(1, FALSE), Part(4, TRUE), Part(5, FALSE)>>,
     write  |-> <<Part(1, FALSE), Part(4, TRUE), Part(6, FALSE)>>,
     create |-> <<Part(1, FALSE), Part(2, TRUE), Part(3, FALSE), Part(4, TRUE),
                  Part(5, FALSE), Part(8, TRUE)>>,
     refused    |-> <<Part(1, FALSE)>>,
     notCreated |-> <<Part(2, FALSE), Part(5, TRUE)>>]
MCForms ==
    [read |-> {"read", "refused"}, write |-> {"write", "refused"},
     create |-> {"create", "notCreated"}]
MCRefusals == {"refused"}
=============================================================================
