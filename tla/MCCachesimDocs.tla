--------------------------- MODULE MCCachesimDocs ---------------------------
(***************************************************************************)
(* CachesimDocs for TLC: the command lines and traces of MCCachesim.       *)
(***************************************************************************)
EXTENDS MCCachesim, CachesimDocs

=============================================================================
