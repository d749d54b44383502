----------------------------- MODULE FetchLoop -----------------------------
(***************************************************************************)
(* fetch_line of src/cachesim/cachesim.c as the loop it is: one pass over  *)
(* the lines of a set with an early return and three running candidates.   *)
(* CacheOp uses its result as one operator, FetchLine; here the loop is    *)
(* shown to compute it for every set of lines and every tag.               *)
(***************************************************************************)
EXTENDS CacheLine

CONSTANTS
  E,        \* lines in the set
  Times     \* the last-used times its lines may carry

ASSUME FetchLoopAssumption ==
  /\ E \in Nat \ {0}
  /\ Times \subseteq Nat

VARIABLES
  lines, tag,      \* the set scanned and the tag asked for
  j,               \* the loop counter
  lowest_time,     \* the lowest last-used time seen, if below MAX_TIME
  to_eject,        \* the line that has it
  empty_line,      \* the first invalid line seen, or E + 1
  empty,           \* whether there is one
  target_line      \* the line returned, or NoLine while the scan runs

vars == <<lines, tag, j, lowest_time, to_eject, empty_line, empty, target_line>>

NoLine == -1

Init ==
  /\ lines \in [0 .. E-1 -> {l \in [tag : Tag, valid_bit : BOOLEAN,
                                    dirty_bit : BOOLEAN, time_used : Times] :
                               l.dirty_bit => l.valid_bit}]
  /\ tag \in Tag
  /\ j = 0
  /\ lowest_time = MAX_TIME
  /\ to_eject = 0
  /\ empty_line = E + 1
  /\ empty = FALSE
  /\ target_line = NoLine

Scanning == target_line = NoLine /\ j < E

(* The line has the tag: return it at once. *)
FoundHit ==
  /\ Scanning
  /\ lines[j].valid_bit /\ lines[j].tag = tag
  /\ target_line' = j
  /\ UNCHANGED <<lines, tag, j, lowest_time, to_eject, empty_line, empty>>

(* Fault: a line as old as the candidate replaces it. *)
SeenValidTies ==
  /\ Scanning
  /\ lines[j].valid_bit /\ lines[j].tag # tag
  /\ IF lines[j].time_used <= lowest_time
     THEN lowest_time' = lines[j].time_used /\ to_eject' = j
     ELSE UNCHANGED <<lowest_time, to_eject>>
  /\ j' = j + 1
  /\ UNCHANGED <<lines, tag, empty_line, empty, target_line>>

(* Another block's line: the candidate for eviction if older than all seen. *)
SeenValid ==
  /\ Scanning
  /\ lines[j].valid_bit /\ lines[j].tag # tag
  /\ IF lines[j].time_used < lowest_time
     THEN lowest_time' = lines[j].time_used /\ to_eject' = j
     ELSE UNCHANGED <<lowest_time, to_eject>>
  /\ j' = j + 1
  /\ UNCHANGED <<lines, tag, empty_line, empty, target_line>>

(* Fault: every invalid line is remembered, so the last one wins. *)
SeenInvalidLast ==
  /\ Scanning
  /\ ~lines[j].valid_bit
  /\ empty_line' = j /\ empty' = TRUE
  /\ j' = j + 1
  /\ UNCHANGED <<lines, tag, lowest_time, to_eject, target_line>>

(* Fault: the counter moves only past the first invalid line. *)
SeenInvalidStuck ==
  /\ Scanning
  /\ ~lines[j].valid_bit
  /\ IF j < empty_line
     THEN empty_line' = j /\ empty' = TRUE /\ j' = j + 1
     ELSE UNCHANGED <<empty_line, empty, j>>
  /\ UNCHANGED <<lines, tag, lowest_time, to_eject, target_line>>

(* An invalid line: remember the first. *)
SeenInvalid ==
  /\ Scanning
  /\ ~lines[j].valid_bit
  /\ IF j < empty_line
     THEN empty_line' = j /\ empty' = TRUE
     ELSE UNCHANGED <<empty_line, empty>>
  /\ j' = j + 1
  /\ UNCHANGED <<lines, tag, lowest_time, to_eject, target_line>>

(* The scan ended without a hit. *)
Return ==
  /\ target_line = NoLine /\ j = E
  /\ target_line' = IF empty THEN empty_line ELSE to_eject
  /\ UNCHANGED <<lines, tag, j, lowest_time, to_eject, empty_line, empty>>

Next == FoundHit \/ SeenValid \/ SeenInvalid \/ Return

(* The program is one thread that always runs on. *)
Spec == Init /\ [][Next]_vars /\ WF_vars(Next)

----------------------------------------------------------------------------
TypeOK ==
  /\ lines \in [0 .. E-1 -> Line]
  /\ tag \in Tag
  /\ j \in 0 .. E
  /\ lowest_time \in Nat
  /\ to_eject \in 0 .. E-1
  /\ empty_line \in (0 .. E-1) \cup {E + 1}
  /\ empty \in BOOLEAN
  /\ target_line \in (0 .. E-1) \cup {NoLine}

Seen == {k \in DOMAIN lines : k < j}

(* What the three candidates stand for after j iterations: the loop        *)
(* invariant from which Correct follows.                                   *)
LoopInv ==
  /\ empty = (Invalid(lines) \cap Seen # {})
  /\ empty_line = IF empty THEN Min(Invalid(lines) \cap Seen) ELSE E + 1
  /\ target_line = NoLine =>
       /\ Hits(lines, tag) \cap Seen = {}
       /\ IF Evictable(lines) \cap Seen = {}
          THEN lowest_time = MAX_TIME /\ to_eject = 0
          ELSE /\ to_eject = Min(LeastRecent(lines, Evictable(lines) \cap Seen))
               /\ lowest_time = lines[to_eject].time_used

(* The loop returns the line FetchLine names: the hit if there is one,     *)
(* else the invalid line of lowest index, else the least recently used of  *)
(* the lines last used before MAX_TIME, else line 0.                       *)
Correct == target_line # NoLine => target_line = FetchLine(lines, tag)

(* The scan always returns a line ("busca y devuelve siempre una linea",   *)
(* cachesim.h).                                                            *)
Returns == <>(target_line # NoLine)

=============================================================================
