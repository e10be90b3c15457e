---------------------------- MODULE MCNameCache ----------------------------
(***************************************************************************)
(* Five names whose keys are chosen for the hard cases of the comparison:  *)
(* 0, 3 and 6 precede one another in a circle modulo 8, and two pairs of   *)
(* names collide.  Their strings take 4, 8 and 16 bytes.  With room for    *)
(* four nodes and 40 bytes the order in which they come decides which of   *)
(* the asserts of the insertion fails, or whether a string runs past.      *)
(***************************************************************************)
EXTENDS NameCache

MCNames  == 1 .. 5
MCKey    == <<0, 3, 6, 3, 6>>
MCLength == <<3, 5, 13, 5, 13>>
=============================================================================
