----------------------------- MODULE MCColaList -----------------------------
(***************************************************************************)
(* ColaList for TLC: four blocks of memory, enough for two queues of one   *)
(* node or one of three, and for every address to be reused.               *)
(***************************************************************************)
EXTENDS ColaList

CONSTANTS a1, a2, a3, a4, v1

MCAddr   == {a1, a2, a3, a4}
MCValues == {v1, NULL}

=============================================================================
