----------------------------- MODULE MCCachesim -----------------------------
(***************************************************************************)
(* Cachesim for TLC, with 5-bit ints: command lines that are right, and    *)
(* one or more of each way to be wrong that the program may be given.      *)
(***************************************************************************)
EXTENDS Cachesim

Call(C, E, S) ==
  [argc |-> MIN_ARG, C |-> C, E |-> E, S |-> S, n |-> 0, m |-> 0, exists |-> TRUE]

CallV(C, E, S, n, m) ==
  [Call(C, E, S) EXCEPT !.argc = MAX_ARG, !.n = n, !.m = m]

Geometries == {<<4, 2, 1>>, <<4, 1, 2>>, <<8, 2, 2>>, <<8, 1, 1>>, <<1, 1, 1>>}

MCArgvs ==
  {Call(g[1], g[2], g[3]) : g \in Geometries}
  \cup {CallV(g[1], g[2], g[3], r[1], r[2]) :
          g \in Geometries, r \in {<<0, 0>>, <<1, 2>>, <<2, 1>>, <<-1, 1>>}}
  \cup {Call(2, 2, 2),      \* too small for its lines: B = 0
        Call(8, 8, 4),      \* E * S overflows to 0
        Call(6, 2, 1), Call(4, 0, 1), Call(4, 2, -2),
        [Call(4, 2, 1) EXCEPT !.argc = 4],
        [Call(4, 2, 1) EXCEPT !.argc = 7],
        [Call(4, 2, 1) EXCEPT !.exists = FALSE],
        [Call(6, 2, 1) EXCEPT !.exists = FALSE]}

MCGarbage == {-1, 1}

MCAddresses == {0, 1, 2, 31}

=============================================================================
