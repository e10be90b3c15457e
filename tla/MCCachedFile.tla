---------------------------- MODULE MCCachedFile ----------------------------
(***************************************************************************)
(* The sizes of the code: with handles of 32 bytes, the longest there are, *)
(* a write of 388 bytes is the largest that fits in the buffer of a call,  *)
(* and 389 the smallest that does not; so are 372 and 373 for the name of  *)
(* a file.  5000 bytes are more than a page.                               *)
(***************************************************************************)
EXTENDS CachedFile

MCSizes   == {0, 5, 388, 389, 5000}
MCNames   == {5, 372, 373}
MCGarbage == {0, 20}
=============================================================================
