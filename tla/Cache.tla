------------------------------- MODULE Cache -------------------------------
(***************************************************************************)
(* The simulation of one trace by a cache of fixed geometry: crear_cache,  *)
(* then one cache_op for every line of the trace file, in any order a      *)
(* trace can ask for.                                                      *)
(***************************************************************************)
EXTENDS CacheOp

CONSTANTS
  E,        \* lines per set
  S,        \* number of sets
  Tags,     \* the tags of the blocks the traces name
  MaxOps    \* bound: the length of the longest trace

ASSUME CacheAssumption ==
  /\ E \in Nat \ {0}
  /\ S \in Nat \ {0}
  /\ Tags \subseteq Tag
  /\ MaxOps \in Nat

vars == <<sets, time, stats>>

Lines == 0 .. E-1
Sets  == 0 .. S-1

Init ==
  /\ sets  = CrearSets(E, S)
  /\ time  = 0
  /\ stats = CrearStats

(* The next line of the trace, simulated. *)
Access(op, i, tag) ==
  /\ time < MaxOps
  /\ DoCacheOp(op, i, tag)

Next == \E op \in Operation, i \in Sets, tag \in Tags : Access(op, i, tag)

Spec == Init /\ [][Next]_vars

----------------------------------------------------------------------------
(* Types: every line, counter and clock keeps the type its struct gives it *)
(* (line_t, stats_t and cache_t in cachesim.h).                            *)
TypeOK ==
  /\ sets \in [Sets -> [Lines -> Line]]
  /\ time \in 0 .. MaxOps
  /\ stats \in Stats

(* No block is in two lines of its set, so the first line fetch_line finds *)
(* with the tag is the only one and no copy can go stale.                  *)
UniqueTags ==
  \A i \in Sets : \A j, k \in Valid(sets[i]) :
    j # k => sets[i][j].tag # sets[i][k].tag

(* No two lines of a set share a last-used time and none is in the future, *)
(* so the line fetch_line evicts is determined by the trace alone and not  *)
(* by where its scan starts.                                               *)
UniqueTimes ==
  \A i \in Sets : \A j \in Valid(sets[i]) :
    /\ sets[i][j].time_used < time
    /\ \A k \in Valid(sets[i]) :
         j # k => sets[i][j].time_used # sets[i][k].time_used

(* Lines fill in index order (README.md: the invalid line of lowest index  *)
(* is taken first), and a line never used is clean and carries the tag -1  *)
(* that verbose mode prints for it.                                        *)
FilledInOrder ==
  \A i \in Sets : \A j \in Lines :
    ~sets[i][j].valid_bit =>
      /\ sets[i][j] = EmptyLine
      /\ \A k \in Lines : k > j => ~sets[i][k].valid_bit

(* The summary print_stats shows adds up: every operation is one load or   *)
(* one store, dirty misses are misses and misses are accesses, and the     *)
(* cycles are one per access and one penalty per transfer with memory.     *)
Accounting ==
  /\ stats.loads + stats.stores = time
  /\ stats.dirty_rmiss <= stats.rmiss /\ stats.rmiss <= stats.loads
  /\ stats.dirty_wmiss <= stats.wmiss /\ stats.wmiss <= stats.stores
  /\ stats.cycles_r = stats.loads + PENALTY * (stats.rmiss + stats.dirty_rmiss)
  /\ stats.cycles_w = stats.stores + PENALTY * (stats.wmiss + stats.dirty_wmiss)

Misses      == stats.rmiss + stats.wmiss
DirtyMisses == stats.dirty_rmiss + stats.dirty_wmiss

ValidLines == {p \in Sets \X Lines : sets[p[1]][p[2]].valid_bit}
DirtyLines == {p \in Sets \X Lines : sets[p[1]][p[2]].dirty_bit}

(* Blocks are conserved.  Every block in the cache, and every block a      *)
(* dirty miss pushed out of it, came in with a miss of its own; every      *)
(* block that is dirty, or was written back, was dirtied by a store of its *)
(* own.  So "bytes read" covers the cache and "bytes written", and "bytes  *)
(* written" never counts a block nobody wrote.                             *)
BlocksConserved ==
  /\ Cardinality(ValidLines) + DirtyMisses <= Misses
  /\ Cardinality(DirtyLines) + DirtyMisses <= stats.stores
  /\ DirtyLines \subseteq ValidLines

(* On a miss in a full set, the line fetch_line picks has the lowest       *)
(* last-used time of the set (README.md:273, "bien la línea con menor      *)
(* valor de last-used").                                                   *)
VictimIsLeastRecent ==
  \A i \in Sets, t \in Tags :
    Hits(sets[i], t) = {} /\ Invalid(sets[i]) = {} =>
      FetchLine(sets[i], t) \in LeastRecent(sets[i], Lines)

----------------------------------------------------------------------------
(* The cache implements LRU: a set holds the tags of its valid lines, and  *)
(* their order of use is the order of time_used.                           *)

Resident(lines) == {lines[j].tag : j \in Valid(lines)}

DirtyTags(lines) == {lines[j].tag : j \in {k \in Valid(lines) : lines[k].dirty_bit}}

OlderTags(lines) ==
  {<<lines[p[1]].tag, lines[p[2]].tag>> :
     p \in {q \in Valid(lines) \X Valid(lines) :
              lines[q[1]].time_used < lines[q[2]].time_used}}

LruCache ==
  INSTANCE LRU WITH
    resident   <- [i \in Sets |-> Resident(sets[i])],
    dirty      <- [i \in Sets |-> DirtyTags(sets[i])],
    older      <- [i \in Sets |-> OlderTags(sets[i])],
    misses     <- Misses,
    writebacks <- DirtyMisses

(* Every cache_op is a hit, a load into a free line, or the eviction of    *)
(* the least recently used block, written back exactly when it is dirty,   *)
(* with the counters of misses and of dirty misses following it: what the  *)
(* README's "Detalle de casos" promises of fetch_line and cache_op.        *)
ImplementsLRU == LruCache!Spec

=============================================================================
