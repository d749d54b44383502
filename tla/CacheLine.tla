----------------------------- MODULE CacheLine -----------------------------
(***************************************************************************)
(* The lines, sets and statistics of src/cachesim/cachesim.c, and the      *)
(* functions that choose a line and change it: crear_cache, crear_stats,   *)
(* fetch_line, id_caso and the bodies of the three cases of cache_op.      *)
(* The number of lines of a set is its domain, as the C code reads         *)
(* cache->E.                                                               *)
(***************************************************************************)
EXTENDS Integers, FiniteSetsExt

CONSTANTS
  MAX_TIME,   \* the sentinel fetch_line starts its minimum from (999999)
  PENALTY,    \* cycles of one access to memory (100)
  UINT_MAX    \* the largest unsigned int: what "tag = -1" stores

ASSUME CacheLineAssumption ==
  /\ MAX_TIME \in Nat
  /\ PENALTY \in Nat
  /\ UINT_MAX \in Nat

Operation == {"READ", "WRITE"}
Caso      == {"1", "2a", "2b"}
Tag       == 0 .. UINT_MAX

Line == [tag : Tag, valid_bit : BOOLEAN, dirty_bit : BOOLEAN, time_used : Nat]

Stats == [loads : Nat, stores : Nat, rmiss : Nat, wmiss : Nat,
          dirty_rmiss : Nat, dirty_wmiss : Nat, cycles_r : Nat, cycles_w : Nat]

(* Fault: the tag is kept as the signed -1 the code writes. *)
EmptyLineSigned == [tag |-> -1, valid_bit |-> FALSE, dirty_bit |-> FALSE,
                    time_used |-> 0]

(* A line as crear_cache leaves it. *)
EmptyLine == [tag |-> UINT_MAX, valid_bit |-> FALSE, dirty_bit |-> FALSE,
              time_used |-> 0]

CrearSets(E, S) == [i \in 0 .. S-1 |-> [j \in 0 .. E-1 |-> EmptyLine]]

CrearStats == [loads |-> 0, stores |-> 0, rmiss |-> 0, wmiss |-> 0,
               dirty_rmiss |-> 0, dirty_wmiss |-> 0,
               cycles_r |-> 0, cycles_w |-> 0]

----------------------------------------------------------------------------
(* fetch_line: the line an access to "tag" works on. *)

Valid(lines)      == {j \in DOMAIN lines : lines[j].valid_bit}
Invalid(lines)    == {j \in DOMAIN lines : ~lines[j].valid_bit}
Hits(lines, tag)  == {j \in Valid(lines) : lines[j].tag = tag}

(* The lines the scan can choose to evict: its minimum starts at MAX_TIME, *)
(* so a line used at MAX_TIME or later never becomes the candidate.        *)
Evictable(lines) == {j \in Valid(lines) : lines[j].time_used < MAX_TIME}

(* Fault: the comparison the other way round. *)
MostRecent(lines, J) ==
  {j \in J : \A k \in J : lines[j].time_used >= lines[k].time_used}

LeastRecent(lines, J) ==
  {j \in J : \A k \in J : lines[j].time_used <= lines[k].time_used}

(* Fault: a free line is taken before looking for the tag. *)
FetchFreeFirst(lines, tag) ==
  IF Invalid(lines) # {} THEN Min(Invalid(lines))
  ELSE IF Hits(lines, tag) # {} THEN Min(Hits(lines, tag))
  ELSE IF Evictable(lines) # {} THEN Min(LeastRecent(lines, Evictable(lines)))
  ELSE 0

(* Fault: the scan remembers the last free line. *)
FetchLastFree(lines, tag) ==
  IF Hits(lines, tag) # {} THEN Min(Hits(lines, tag))
  ELSE IF Invalid(lines) # {} THEN Max(Invalid(lines))
  ELSE IF Evictable(lines) # {} THEN Min(LeastRecent(lines, Evictable(lines)))
  ELSE 0

FetchLine(lines, tag) ==
  IF Hits(lines, tag) # {} THEN Min(Hits(lines, tag))
  ELSE IF Invalid(lines) # {} THEN Min(Invalid(lines))
  ELSE IF Evictable(lines) # {} THEN Min(LeastRecent(lines, Evictable(lines)))
  ELSE 0

(* Fault: the dirty bit is tested before the tag. *)
DirtyBeforeTag(line, tag) ==
  IF line.valid_bit /\ line.dirty_bit THEN "2b"
  ELSE IF line.valid_bit /\ line.tag = tag THEN "1"
  ELSE "2a"

(* id_caso: hit, clean miss or dirty miss. *)
IdCaso(line, tag) ==
  IF line.valid_bit /\ line.tag = tag THEN "1"
  ELSE IF line.valid_bit /\ line.dirty_bit THEN "2b"
  ELSE "2a"

----------------------------------------------------------------------------
(* cache_op: what it does to the line and to the statistics. *)

(* Fault: a read that evicts a dirty block leaves the line dirty. *)
UpdatedStaysDirty(line, op, tag, now) ==
  [tag |-> tag, valid_bit |-> TRUE,
   dirty_bit |-> op = "WRITE" \/ line.dirty_bit,
   time_used |-> now]

(* Fault: a hit does not refresh the time of use (FIFO eviction). *)
UpdatedFifo(line, op, tag, now) ==
  [tag |-> tag, valid_bit |-> TRUE,
   dirty_bit |-> op = "WRITE" \/ (line.dirty_bit /\ IdCaso(line, tag) # "2b"),
   time_used |-> IF IdCaso(line, tag) = "1" THEN line.time_used ELSE now]

Updated(line, op, tag, now) ==
  [tag       |-> tag,
   valid_bit |-> TRUE,
   dirty_bit |-> \/ op = "WRITE"
                 \/ line.dirty_bit /\ IdCaso(line, tag) # "2b",
   time_used |-> now]

Cycles(caso) ==
  CASE caso = "1"  -> 1
    [] caso = "2a" -> 1 + PENALTY
    [] caso = "2b" -> 1 + 2 * PENALTY

One(condition) == IF condition THEN 1 ELSE 0

(* Fault: a dirty read miss is not counted among the misses. *)
ChargedDirtyOnly(st, op, caso) ==
  IF op = "WRITE"
  THEN [st EXCEPT !.stores      = @ + 1,
                  !.cycles_w    = @ + Cycles(caso),
                  !.wmiss       = @ + One(caso # "1"),
                  !.dirty_wmiss = @ + One(caso = "2b")]
  ELSE [st EXCEPT !.loads       = @ + 1,
                  !.cycles_r    = @ + Cycles(caso),
                  !.rmiss       = @ + One(caso = "2a"),
                  !.dirty_rmiss = @ + One(caso = "2b")]

Charged(st, op, caso) ==
  IF op = "WRITE"
  THEN [st EXCEPT !.stores      = @ + 1,
                  !.cycles_w    = @ + Cycles(caso),
                  !.wmiss       = @ + One(caso # "1"),
                  !.dirty_wmiss = @ + One(caso = "2b")]
  ELSE [st EXCEPT !.loads       = @ + 1,
                  !.cycles_r    = @ + Cycles(caso),
                  !.rmiss       = @ + One(caso # "1"),
                  !.dirty_rmiss = @ + One(caso = "2b")]

=============================================================================
