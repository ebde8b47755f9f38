----------------------------- MODULE MCSpecState -----------------------------
(***************************************************************************)
(* Two pages of two bytes in one chain.  One load and store spans a page,  *)
(* one overlaps it, one is on the other page and one is not aligned; the   *)
(* copies of system calls cross from one page to the other.                *)
(***************************************************************************)
EXTENDS SpecStateProperties

MCAddrs == 0 .. 3
MCAccesses == {<<0, 2>>, <<1, 1>>, <<2, 1>>, <<1, 2>>}
MCBlocks == {<<1, 2>>}
MCValid == {0, 1, 2}
=============================================================================
