------------------------------ MODULE Cachesim ------------------------------
(***************************************************************************)
(* The program src/cachesim/cachesim.c from its command line to its exit:  *)
(* main, parse_args, crear_cache, parse_trace, parse_address, the verbose  *)
(* line of every operation and the summary.  The simulation itself is the  *)
(* step DoCacheOp of CacheOp, here with the geometry the user asked for.   *)
(***************************************************************************)
EXTENDS CacheOp

CONSTANTS
  INT_BITS,   \* the width of int (32)
  Argvs,      \* the command lines tried
  Garbage,    \* what the uninitialised params.n and params.m may hold
  Addresses,  \* the addresses the traces name
  MaxOps      \* bound: the length of the longest trace

INT_MAX == 2^(INT_BITS - 1) - 1
INT_MIN == -2^(INT_BITS - 1)
MIN_ARG == 5
MAX_ARG == 8

(* What argv holds: the number of arguments, what atoi makes of each, and  *)
(* whether the trace file exists.                                          *)
Argv == [argc : Nat, C : Int, E : Int, S : Int, n : Int, m : Int,
         exists : BOOLEAN]

(* Bound: INT_MIN is given for none of the three.  all_power2 overflows on *)
(* it, which C leaves undefined, and lets it through: what follows are     *)
(* mallocs of a negative size or a negative B.                             *)
ASSUME NoIntMin == \A a \in Argvs : INT_MIN \notin {a.C, a.E, a.S}

ASSUME CachesimAssumption ==
  /\ INT_BITS \in Nat \ {0}
  /\ UINT_MAX = 2^INT_BITS - 1
  /\ Argvs \subseteq Argv
  /\ Garbage \subseteq Int
  /\ Addresses \subseteq 0 .. UINT_MAX
  /\ MaxOps \in Nat

(* What the proofs need to know of powers of two, over the exponents used. *)
ASSUME PowersOfTwo ==
  2^0 = 1 /\ \A k \in 0 .. 2 * INT_BITS : 2^(k + 1) = 2 * 2^k

VARIABLES
  pc,       \* the statement main is at
  argv,     \* the command line
  params,   \* argumentos_t, as parse_args fills it
  cache,    \* the scalar fields of cache_t, or NULL
  held,     \* what has been allocated or opened and not yet released
  verboso,  \* the last verbose line printed, or NoOutput
  summary,  \* what print_stats printed, or NoOutput
  exit      \* the status the shell sees, or Running

simulation == <<sets, time, stats>>
vars == <<sets, time, stats, pc, argv, params, cache, held, verboso, summary, exit>>

NULL     == [null |-> TRUE]
NoOutput == [nothing |-> TRUE]

NotShown == -1
Running  == -1
SIGFPE   == 136   \* killed by a division by zero

----------------------------------------------------------------------------
(* Arithmetic on int. *)

(* The product of two ints, as the machine leaves it when it overflows. *)
Wrap(x) == LET r == x % 2^INT_BITS IN IF r > INT_MAX THEN r - 2^INT_BITS ELSE r

(* x & (x - 1) = 0 and x # 0.  INT_MIN passes: its x - 1 wraps to INT_MAX,  *)
(* with which it has no bit in common.                                     *)
Power2(x) == x = INT_MIN \/ \E k \in 0 .. INT_BITS - 2 : x = 2^k

AllPower2(p) == Power2(p.C) /\ Power2(p.E) /\ Power2(p.S)

(* C division truncates towards zero; the divisor is not 0. *)
Quotient(a, b) == IF b > 0 THEN a \div b ELSE -(a \div (-b))

(* params.C / (params.E * params.S). *)
BlockSize(p) == Quotient(p.C, Wrap(p.E * p.S))

(* parse_address: the shifts by log2(S) and log2(B) divide by S and B.     *)
(* When B is 0, log2(B) has no int value and both shifts are by any count; *)
(* the mask still keeps the index below S.                                 *)
Shifted(address) == {address \div 2^k : k \in 0 .. INT_BITS - 1}

(* Fault: the offset bits are left in the index. *)
ParseAddressUnshifted(address, S, B) ==
  IF B = 0
  THEN [tag : Shifted(address), set_index : {address % S}]
  ELSE {[tag |-> address \div (S * B), set_index |-> address % S]}

ParseAddress(address, S, B) ==
  IF B = 0
  THEN [tag : Shifted(address), set_index : {x % S : x \in Shifted(address)}]
  ELSE {[tag |-> address \div (S * B), set_index |-> (address \div B) % S]}

----------------------------------------------------------------------------
Init ==
  /\ sets = << >> /\ time = 0 /\ stats = CrearStats
  /\ pc = "parse_args"
  /\ argv \in Argvs
  /\ params = NULL
  /\ cache = NULL
  /\ held = {}
  /\ verboso = NoOutput
  /\ summary = NoOutput
  /\ exit = Running

(* return, or the end of the process by a signal. *)
Leave(status) == exit' = status /\ pc' = "exit"

(* parse_args: four or seven arguments.  Without -v, n and m are left as   *)
(* the stack had them.                                                     *)
ParseArgs ==
  /\ pc = "parse_args"
  /\ IF argv.argc \in {MIN_ARG, MAX_ARG}
     THEN /\ \E n, m \in Garbage :
               params' = [C |-> argv.C, E |-> argv.E, S |-> argv.S,
                          n |-> IF argv.argc = MAX_ARG THEN argv.n ELSE n,
                          m |-> IF argv.argc = MAX_ARG THEN argv.m ELSE m]
          /\ pc' = "crear_cache"
          /\ UNCHANGED exit
     ELSE Leave(1) /\ UNCHANGED params
  /\ UNCHANGED <<simulation, argv, cache, held, verboso, summary>>

(* crear_cache and crear_stats.  The conditions on m and n in crear_cache  *)
(* hold of every value, so both are copied as they are.                    *)
CrearCache ==
  /\ pc = "crear_cache"
  /\ CASE AllPower2(params) /\ Wrap(params.E * params.S) = 0 ->
            /\ Leave(SIGFPE)
            /\ UNCHANGED <<sets, cache, held>>
       [] AllPower2(params) /\ Wrap(params.E * params.S) # 0 ->
            /\ cache' = [C |-> params.C, E |-> params.E, S |-> params.S,
                         B |-> BlockSize(params), n |-> params.n, m |-> params.m]
            /\ sets' = CrearSets(params.E, params.S)
            /\ held' = {"cache", "stats"}
            /\ pc' = "fopen"
            /\ UNCHANGED exit
       [] ~AllPower2(params) ->
            /\ held' = {"stats"}
            /\ pc' = "fopen"
            /\ UNCHANGED <<sets, cache, exit>>
  /\ UNCHANGED <<time, stats, argv, params, verboso, summary>>

(* Fault: the test for an invalid geometry is lost. *)
FopenUnchecked ==
  /\ pc = "fopen"
  /\ held' = IF argv.exists THEN held \cup {"tracefile"} ELSE held
  /\ IF argv.exists THEN pc' = "getline" /\ UNCHANGED exit ELSE Leave(1)
  /\ UNCHANGED <<simulation, argv, params, cache, verboso, summary>>

(* The trace file is opened before the cache is known to be there. *)
Fopen ==
  /\ pc = "fopen"
  /\ held' = IF argv.exists THEN held \cup {"tracefile"} ELSE held
  /\ IF argv.exists /\ cache # NULL
     THEN pc' = "getline" /\ UNCHANGED exit
     ELSE Leave(1)
  /\ UNCHANGED <<simulation, argv, params, cache, verboso, summary>>

(* What print_verboso shows of a verboso_t: line_tag is an int, so the tag  *)
(* UINT_MAX shows as -1, and last_used is left out when E is 1.            *)
PrintVerboso(v, E) ==
  [v EXCEPT !.line_tag  = IF @ = UINT_MAX THEN -1 ELSE @,
            !.last_used = IF E > 1 THEN @ ELSE NotShown]

(* Fault: the fields are copied after the line has been updated. *)
VerbosoAfter(a) ==
  LET k    == FetchLine(sets[a.set_index], a.tag)
      line == sets'[a.set_index][k]
  IN  [indice      |-> time,
       caso        |-> IdCaso(sets[a.set_index][k], a.tag),
       cache_index |-> a.set_index,
       cache_tag   |-> a.tag,
       cache_line  |-> k,
       line_tag    |-> line.tag,
       valid_bit   |-> line.valid_bit,
       dirty_bit   |-> line.dirty_bit,
       last_used   |-> line.time_used]

(* The verbose line of the operation about to be simulated: the state the  *)
(* line is found in.                                                       *)
Verboso(a) ==
  LET k    == FetchLine(sets[a.set_index], a.tag)
      line == sets[a.set_index][k]
  IN  [indice      |-> time,
       caso        |-> IdCaso(line, a.tag),
       cache_index |-> a.set_index,
       cache_tag   |-> a.tag,
       cache_line  |-> k,
       line_tag    |-> line.tag,
       valid_bit   |-> line.valid_bit,
       dirty_bit   |-> line.dirty_bit,
       last_used   |-> line.time_used]

(* Fault: the upper end of the range is not moved with the clock. *)
InVerboseRangeShort(now) ==
  /\ cache.m # -1 /\ cache.n # -1
  /\ now >= cache.n /\ now <= cache.m

(* The test that guards print_verboso, after the clock has moved.  The     *)
(* build (-O2) compares as if m + 1 could not overflow.                    *)
InVerboseRange(now) ==
  /\ cache.m # -1 /\ cache.n # -1
  /\ now >= cache.n /\ now <= cache.m + 1

(* One line of the trace: read, parsed, simulated and, in range, shown. *)
Simulate(op, address) ==
  /\ pc = "getline"
  /\ time < MaxOps
  /\ held' = held \cup {"line"}
  /\ \E a \in ParseAddress(address, cache.S, cache.B) :
       /\ DoCacheOp(op, a.set_index, a.tag)
       /\ verboso' = IF InVerboseRange(time + 1)
                     THEN PrintVerboso(Verboso(a), cache.E) ELSE verboso
  /\ UNCHANGED <<pc, argv, params, cache, summary, exit>>

(* A line sscanf does not read four fields from. *)
BadTraceLine ==
  /\ pc = "getline"
  /\ held' = held \cup {"line"}
  /\ Leave(1)
  /\ UNCHANGED <<simulation, argv, params, cache, verboso, summary>>

(* Fault: only the read misses bring bytes in. *)
SummaryReadsOnly ==
  [total    |-> stats.loads + stats.stores,
   misses   |-> stats.rmiss + stats.wmiss,
   bytes_r  |-> Wrap(stats.rmiss * cache.B),
   bytes_w  |-> Wrap((stats.dirty_rmiss + stats.dirty_wmiss) * cache.B)]

(* What print_stats derives from the counters. *)
Summary ==
  [total    |-> stats.loads + stats.stores,
   misses   |-> stats.rmiss + stats.wmiss,
   bytes_r  |-> Wrap((stats.rmiss + stats.wmiss) * cache.B),
   bytes_w  |-> Wrap((stats.dirty_rmiss + stats.dirty_wmiss) * cache.B)]

(* The end of the trace: the summary, every free, fclose and return 0. *)
EndOfTrace ==
  /\ pc = "getline"
  /\ summary' = Summary
  /\ held' = held \ {"line", "tracefile", "stats", "cache"}
  /\ Leave(0)
  /\ UNCHANGED <<simulation, argv, params, cache, verboso>>

Next ==
  \/ ParseArgs
  \/ CrearCache
  \/ Fopen
  \/ \E op \in Operation, address \in Addresses : Simulate(op, address)
  \/ BadTraceLine
  \/ EndOfTrace

Spec == Init /\ [][Next]_vars

----------------------------------------------------------------------------
(* Types, and what each stage of main may rely on: from the moment lines   *)
(* are read there is a cache of the geometry asked for and a clock that    *)
(* counts them.                                                            *)
TypeOK ==
  /\ pc \in {"parse_args", "crear_cache", "fopen", "getline", "exit"}
  /\ params = NULL \/ {params.n, params.m} \subseteq Int
  /\ time \in 0 .. MaxOps
  /\ stats \in Stats
  /\ cache # NULL =>
       /\ <<cache.C, cache.E, cache.S>> = <<argv.C, argv.E, argv.S>>
       /\ sets \in [0 .. cache.S-1 -> [0 .. cache.E-1 -> Line]]
  /\ pc = "getline" => cache # NULL /\ {"cache", "stats", "tracefile"} \subseteq held
  /\ exit \in {Running, 0, 1, SIGFPE}

Simulating == pc = "getline" /\ cache.B > 0

(* Two addresses work on the same block exactly when they are in the same  *)
(* B bytes of memory: parse_address neither splits a block over two sets   *)
(* or tags nor gives two blocks the same name, whatever C, E and S.        *)
BlocksHaveOneName ==
  Simulating =>
    \A x, y \in Addresses :
      ParseAddress(x, cache.S, cache.B) = ParseAddress(y, cache.S, cache.B)
        <=> x \div cache.B = y \div cache.B

(* A verbose line describes one line of the cache before the access: the   *)
(* case it names is the one its own tag, valid and dirty fields imply, a   *)
(* line never used shows tag -1 and time 0, and a used one was last used   *)
(* by an earlier operation.                                                *)
VerboseConsistent ==
  verboso # NoOutput =>
    LET v    == verboso
        same == v.line_tag % (UINT_MAX + 1) = v.cache_tag
    IN  /\ v.caso = "1"  <=> v.valid_bit /\ same
        /\ v.caso = "2b" <=> v.valid_bit /\ v.dirty_bit /\ ~same
        /\ IF v.valid_bit THEN v.last_used < v.indice
           ELSE /\ v.line_tag = -1 /\ ~v.dirty_bit
                /\ v.last_used = IF cache.E > 1 THEN 0 ELSE NotShown

(* The range the user asked for, when it is one README.md:184 allows. *)
ValidRange == argv.argc = MAX_ARG /\ 0 <= argv.n /\ argv.n <= argv.m

(* Every operation of the range is shown, with its own index (README.md:   *)
(* "para cada operación del rango").                                       *)
VerboseComplete ==
  [][time' # time /\ ValidRange /\ time \in argv.n .. argv.m
       => verboso' # NoOutput /\ verboso'.indice = time]_vars

(* The process succeeds only with a whole summary: every line of the trace *)
(* counted, memory traffic that covers all the blocks the cache ended up   *)
(* holding and all it wrote back, as long as the traffic fits in an int,   *)
(* and every allocation released.                                          *)
SummaryCovers ==
  exit = 0 =>
    /\ held = {}
    /\ summary.total = time
    /\ summary.misses <= summary.total
    /\ summary.misses * cache.B <= INT_MAX =>
       summary.bytes_r >= summary.bytes_w +
         cache.B * Cardinality({p \in (0 .. cache.S-1) \X (0 .. cache.E-1) :
                                  sets[p[1]][p[2]].valid_bit})

=============================================================================
