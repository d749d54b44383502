------------------------------ MODULE CacheOp ------------------------------
(***************************************************************************)
(* cache_op of src/cachesim/cachesim.c: the state it works on and the step *)
(* it takes.  Cache runs it on every trace for a fixed geometry; Cachesim  *)
(* runs it from main with the geometry of the command line.                *)
(***************************************************************************)
EXTENDS CacheLine

VARIABLES
  sets,   \* sets[i][j] is line j of set i
  time,   \* the global clock: how many operations have been simulated
  stats   \* the counters of stats_t

(* Fault: the clock counts misses only. *)
DoCacheOpMissClock(op, i, tag) ==
  LET k    == FetchLine(sets[i], tag)
      line == sets[i][k]
  IN  /\ sets'  = [sets EXCEPT ![i][k] = Updated(line, op, tag, time)]
      /\ time'  = time + One(IdCaso(line, tag) # "1")
      /\ stats' = Charged(stats, op, IdCaso(line, tag))

(* The operation "op" on the block with this tag in set i. *)
DoCacheOp(op, i, tag) ==
  LET k    == FetchLine(sets[i], tag)
      line == sets[i][k]
  IN  /\ sets'  = [sets EXCEPT ![i][k] = Updated(line, op, tag, time)]
      /\ time'  = time + 1
      /\ stats' = Charged(stats, op, IdCaso(line, tag))

=============================================================================
