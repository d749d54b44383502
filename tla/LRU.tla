-------------------------------- MODULE LRU --------------------------------
(***************************************************************************)
(* What the simulated cache promises (README.md, "Detalle de casos"): a    *)
(* set-associative, write-back cache that evicts the block least recently  *)
(* used.  No line, no clock and no time stamp: a set is the blocks it      *)
(* holds, which of them differ from memory, and the order of their uses.   *)
(***************************************************************************)
EXTENDS Integers, FiniteSets

CONSTANTS E, S, Tags

VARIABLES
  resident,    \* resident[i]: the tags of the blocks set i holds
  dirty,       \* dirty[i]: those written since they were brought in
  older,       \* older[i]: <<s, t>> when s was last used before t
  misses,      \* accesses that had to read memory
  writebacks   \* blocks written to memory when evicted

vars == <<resident, dirty, older, misses, writebacks>>

Init ==
  /\ resident = [i \in 0 .. S-1 |-> {}]
  /\ dirty    = [i \in 0 .. S-1 |-> {}]
  /\ older    = [i \in 0 .. S-1 |-> {}]
  /\ misses = 0
  /\ writebacks = 0

(* Set i keeps the blocks "kept" and makes t its most recently used one. *)
Use(i, t, write, kept) ==
  /\ resident' = [resident EXCEPT ![i] = kept \cup {t}]
  /\ dirty' = [dirty EXCEPT ![i] = (@ \cap kept) \cup {u \in {t} : write}]
  /\ older' = [older EXCEPT
                 ![i] = {p \in @ : p[1] \in kept \ {t} /\ p[2] \in kept \ {t}}
                        \cup ((kept \ {t}) \X {t})]

Hit(i, t, write) ==
  /\ t \in resident[i]
  /\ Use(i, t, write, resident[i])
  /\ UNCHANGED <<misses, writebacks>>

(* A miss while the set has room. *)
Load(i, t, write) ==
  /\ t \notin resident[i]
  /\ Cardinality(resident[i]) < E
  /\ Use(i, t, write, resident[i])
  /\ misses' = misses + 1
  /\ UNCHANGED writebacks

(* A miss in a full set: v, used before all the others, leaves it. *)
Evict(i, t, write, v) ==
  /\ t \notin resident[i]
  /\ Cardinality(resident[i]) = E
  /\ v \in resident[i]
  /\ \A u \in resident[i] \ {v} : <<v, u>> \in older[i]
  /\ Use(i, t, write, resident[i] \ {v})
  /\ misses' = misses + 1
  /\ writebacks' = writebacks + (IF v \in dirty[i] THEN 1 ELSE 0)

Access(i, t, write) ==
  \/ Hit(i, t, write)
  \/ Load(i, t, write)
  \/ \E v \in Tags : Evict(i, t, write, v)

Next == \E i \in 0 .. S-1, t \in Tags, write \in BOOLEAN : Access(i, t, write)

Spec == Init /\ [][Next]_vars

=============================================================================
