---------------------------- MODULE MCRecodeBoth ----------------------------
(***************************************************************************)
(* RecodeBoth for TLC, with the inputs of MCRecode.                        *)
(***************************************************************************)
EXTENDS RecodeBoth, MCRecode
=============================================================================
