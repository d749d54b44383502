---------------------------- MODULE MCFetchLoop ----------------------------
(***************************************************************************)
(* FetchLoop for TLC: sets of three lines, some of them used at MAX_TIME.  *)
(***************************************************************************)
EXTENDS FetchLoop

MCTimes == 0 .. 2

=============================================================================
