---------------------------- MODULE CacheHistory ----------------------------
(***************************************************************************)
(* Cache with the trace it has simulated so far, and what the README says  *)
(* of the whole summary computed from that trace alone, by the textbook    *)
(* definition of LRU: a block is in the cache when fewer than E other      *)
(* blocks of its set were accessed after it.                               *)
(***************************************************************************)
EXTENDS Cache, Sequences

VARIABLE trace   \* the operations simulated, in order

HInit == Init /\ trace = <<>>

HNext == \E op \in Operation, i \in Sets, tag \in Tags :
           /\ Access(op, i, tag)
           /\ trace' = Append(trace, [op |-> op, set |-> i, tag |-> tag])

HSpec == HInit /\ [][HNext]_<<sets, time, stats, trace>>

----------------------------------------------------------------------------
(* The accesses to a block among the first n operations of the trace h. *)
Uses(h, i, t, n) == {p \in 1 .. n : h[p].set = i /\ h[p].tag = t}

(* Is the block in the cache after the first n operations? *)
Cached(h, i, t, n) ==
  /\ Uses(h, i, t, n) # {}
  /\ Cardinality({u \in Tags \ {t} :
                    \E p \in Uses(h, i, u, n) : p > Max(Uses(h, i, t, n))}) < E

(* The misses of the trace: accesses to a block that is not in the cache. *)
MissesAt(h, op) ==
  {n \in DOMAIN h : h[n].op = op /\ ~Cached(h, h[n].set, h[n].tag, n - 1)}

(* Is the block dirty after n operations: written, and in the cache since? *)
Modified(h, i, t, n) ==
  \E p \in Uses(h, i, t, n) :
    h[p].op = "WRITE" /\ \A m \in p .. n : Cached(h, i, t, m)

(* The operations that push a modified block out of the cache. *)
WriteBacksAt(h, op) ==
  {n \in DOMAIN h :
     /\ h[n].op = op
     /\ \E t \in Tags : /\ Modified(h, h[n].set, t, n - 1)
                        /\ ~Cached(h, h[n].set, t, n)}

(* A block is in a valid line exactly when LRU keeps it, and its line is   *)
(* dirty exactly when it was written since it came in: fetch_line's stamps *)
(* and cache_op's dirty bits forget nothing over any sequence of accesses. *)
ContentsFollowTrace ==
  \A i \in Sets, t \in Tags :
    /\ t \in Resident(sets[i])  <=> Cached(trace, i, t, time)
    /\ t \in DirtyTags(sets[i]) <=> Modified(trace, i, t, time)

(* The four miss counters print_stats reports are the ones the trace has:  *)
(* a miss is an access to a block LRU does not hold, a dirty miss one that *)
(* pushes out a block holding unsaved stores.                              *)
StatisticsFollowTrace ==
  /\ stats.rmiss = Cardinality(MissesAt(trace, "READ"))
  /\ stats.wmiss = Cardinality(MissesAt(trace, "WRITE"))
  /\ stats.dirty_rmiss = Cardinality(WriteBacksAt(trace, "READ"))
  /\ stats.dirty_wmiss = Cardinality(WriteBacksAt(trace, "WRITE"))

=============================================================================
