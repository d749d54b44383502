------------------------------ MODULE MCCache ------------------------------
(***************************************************************************)
(* CacheHistory for TLC: every trace of up to MaxOps operations on two     *)
(* sets of two lines, over more blocks than a set holds.                   *)
(***************************************************************************)
EXTENDS CacheHistory

MCTags == 0 .. 2

=============================================================================
