-------------------------- MODULE Cachesim_proofs --------------------------
(***************************************************************************)
(* Proofs about Cachesim, for every width of int, every command line and   *)
(* every trace.                                                            *)
(***************************************************************************)
EXTENDS Cachesim, CacheLine_proofs

(* The quotient and the remainder are the only two numbers that recompose  *)
(* the dividend.                                                           *)
LEMMA DivisionUnique ==
  ASSUME NEW a \in Int, NEW b \in Nat \ {0}, NEW q \in Int, NEW r \in 0 .. b-1,
         a = b * q + r
  PROVE  a \div b = q /\ a % b = r
OBVIOUS

LEMMA DivisionFacts ==
  ASSUME NEW a \in Int, NEW b \in Nat \ {0}
  PROVE  /\ a \div b \in Int /\ a % b \in 0 .. b-1
         /\ a = b * (a \div b) + (a % b)
OBVIOUS

LEMMA QuotientOfNat ==
  ASSUME NEW a \in Nat, NEW b \in Nat \ {0}
  PROVE  a \div b \in 0 .. a
OBVIOUS

(* Dividing by a product is dividing by one factor, then by the other. *)
LEMMA DivisionInSteps ==
  ASSUME NEW a \in Nat, NEW b \in Nat \ {0}, NEW c \in Nat \ {0}
  PROVE  a \div (c * b) = (a \div b) \div c
<1> DEFINE q == a \div b
           r == a % b
           s == q \div c
           t == q % c
<1>1. /\ q \in Int /\ r \in 0 .. b-1 /\ a = b * q + r
      /\ s \in Int /\ t \in 0 .. c-1 /\ q = c * s + t
  BY DivisionFacts
<1> HIDE DEF q, r, s, t
<1>2. b * t + r \in 0 .. c * b - 1
  <2>1. b * t \in Int /\ b * t >= 0 /\ b * t <= b * (c - 1)
    BY <1>1
  <2>2. b * (c - 1) = c * b - b
    OBVIOUS
  <2> QED BY <1>1, <2>1, <2>2
<1>3. a = (c * b) * s + (b * t + r)
  BY <1>1
<1>4. c * b \in Nat \ {0}
  OBVIOUS
<1>5. a \div (c * b) = s
  BY <1>1, <1>2, <1>3, <1>4, DivisionUnique
<1> QED BY <1>5 DEF q, s

----------------------------------------------------------------------------
(* Powers of two. *)
LEMMA Powers ==
  /\ \A k \in 0 .. 2 * INT_BITS : 2^k \in Nat \ {0}
  /\ \A k, l \in 0 .. INT_BITS : 2^(k + l) = 2^k * 2^l
  /\ \A k, l \in 0 .. INT_BITS : k < l => 2^k < 2^l
<1> DEFINE P(k) == 2^k
           N == INT_BITS
<1>1. /\ P(0) = 1
      /\ \A k \in 0 .. 2 * N : P(k + 1) = 2 * P(k)
      /\ N \in Nat \ {0}
  BY PowersOfTwo, CachesimAssumption
<1> HIDE DEF P, N
<1>2. \A k \in 0 .. 2 * N : P(k) \in Nat \ {0}
  <2> DEFINE T == {k \in 0 .. 2 * N : P(k) \notin Nat \ {0}}
  <2> SUFFICES ASSUME T # {} PROVE FALSE
    OBVIOUS
  <2>1. T \in SUBSET Nat
    BY <1>1
  <2>2. PICK m \in T : \A k \in T : m <= k
    <3> HIDE DEF T
    <3> QED BY <2>1, NatHasLeast
  <2>3. m # 0 /\ m \in 0 .. 2 * N
    BY <1>1
  <2>4. m - 1 \in 0 .. 2 * N /\ m - 1 \notin T
    BY <1>1, <2>2, <2>3
  <2>5. P(m - 1 + 1) = 2 * P(m - 1) /\ P(m - 1) \in Nat \ {0}
    BY <1>1, <2>4
  <2>6. m - 1 + 1 = m
    BY <2>3, <1>1
  <2> QED BY <2>2, <2>5, <2>6
<1>3. \A k, l \in 0 .. N : P(k + l) = P(k) * P(l)
  <2> SUFFICES ASSUME NEW k \in 0 .. N PROVE \A l \in 0 .. N : P(k + l) = P(k) * P(l)
    OBVIOUS
  <2> DEFINE T == {l \in 0 .. N : P(k + l) # P(k) * P(l)}
  <2> SUFFICES ASSUME T # {} PROVE FALSE
    OBVIOUS
  <2>1. T \in SUBSET Nat
    BY <1>1
  <2>2. PICK m \in T : \A l \in T : m <= l
    <3> HIDE DEF T
    <3> QED BY <2>1, NatHasLeast
  <2>3. P(k) \in Nat /\ k + 0 = k
    BY <1>1, <1>2
  <2>4. m # 0 /\ m \in 0 .. N
    BY <1>1, <2>3
  <2> DEFINE j == m - 1
  <2>5. /\ j \in 0 .. N /\ j \notin T /\ j + 1 = m /\ k + m = (k + j) + 1
        /\ k + j \in 0 .. 2 * N /\ j \in 0 .. 2 * N
    BY <1>1, <2>2, <2>4
  <2> HIDE DEF j
  <2>6. /\ P(k + j) = P(k) * P(j)
        /\ P(j + 1) = 2 * P(j) /\ P((k + j) + 1) = 2 * P(k + j)
        /\ P(j) \in Nat
    BY <1>1, <1>2, <2>5
  <2>7. P(k + m) = P(k) * P(m)
    <3>1. P(k + m) = 2 * (P(k) * P(j)) /\ P(k) * P(m) = P(k) * (2 * P(j))
      BY <2>5, <2>6
    <3>2. \A x, y \in Nat : 2 * (x * y) = x * (2 * y)
      OBVIOUS
    <3> QED BY <2>3, <2>6, <3>1, <3>2
  <2> QED BY <2>2, <2>7
<1>4. \A k, l \in 0 .. N : k < l => P(k) < P(l)
  <2> SUFFICES ASSUME NEW k \in 0 .. N, NEW l \in 0 .. N, k < l PROVE P(k) < P(l)
    OBVIOUS
  <2> DEFINE i == l - k
             j == i - 1
  <2>1. i \in 0 .. N /\ j \in 0 .. 2 * N /\ k + i = l /\ j + 1 = i
    BY <1>1
  <2> HIDE DEF i, j
  <2>2. P(l) = P(k) * P(i) /\ P(i) = 2 * P(j)
    BY <1>1, <1>3, <2>1
  <2>3. P(k) \in Nat \ {0} /\ P(j) \in Nat \ {0}
    BY <1>1, <1>2, <2>1
  <2>4. P(l) = P(k) * (2 * P(j))
    BY <2>2
  <2>5. \A x, y \in Nat \ {0} : x < x * (2 * y)
    OBVIOUS
  <2> QED BY <2>3, <2>4, <2>5
<1> QED BY <1>2, <1>3, <1>4 DEF P, N

(* crear_cache: what survives the test of all_power2 and the division has  *)
(* lines, sets and a block size that is no less than 0, even when E * S    *)
(* overflows to INT_MIN.                                                   *)
LEMMA GeometryFacts ==
  ASSUME NEW p, AllPower2(p), Wrap(p.E * p.S) # 0, INT_MIN \notin {p.C, p.E, p.S}
  PROVE  /\ p.C \in Nat \ {0} /\ p.E \in Nat \ {0} /\ p.S \in Nat \ {0}
         /\ BlockSize(p) \in Nat
<1> DEFINE N == INT_BITS
           P(k) == 2^k
<1>1. PICK a \in 0 .. N - 2, b \in 0 .. N - 2, c \in 0 .. N - 2 :
        p.E = P(a) /\ p.S = P(b) /\ p.C = P(c)
  BY DEF AllPower2, Power2
<1>2. /\ N \in Nat \ {0}
      /\ \A k \in 0 .. 2 * N : P(k) \in Nat \ {0}
      /\ \A k, l \in 0 .. N : P(k + l) = P(k) * P(l)
      /\ \A k, l \in 0 .. N : k < l => P(k) < P(l)
      /\ P(1) = 2
      /\ INT_MAX = P(N - 1) - 1
  <2>1. 2^1 = 2
    BY PowersOfTwo, CachesimAssumption
  <2> QED BY <2>1, Powers, CachesimAssumption DEF INT_MAX
<1>3. Wrap(p.E * p.S) =
        LET r == P(a + b) % P(N) IN IF r > INT_MAX THEN r - P(N) ELSE r
  <2>1. a \in 0 .. N /\ b \in 0 .. N
    BY <1>2
  <2>2. p.E * p.S = P(a + b)
    BY <1>1, <1>2, <2>1
  <2> QED BY <2>2 DEF Wrap
<1> HIDE DEF P, N
<1>4. P(N) = 2 * P(N - 1) /\ N - 1 \in 0 .. N
  <2>1. N - 1 \in 0 .. N /\ 1 \in 0 .. N /\ (N - 1) + 1 = N
    BY <1>2
  <2>2. P((N - 1) + 1) = P(N - 1) * P(1)
    BY <1>2, <2>1
  <2>3. P(N - 1) \in Nat /\ P(N - 1) * 2 = 2 * P(N - 1)
    BY <1>2, <2>1
  <2> QED BY <1>2, <2>1, <2>2, <2>3
<1> DEFINE W == Wrap(p.E * p.S)
           M == P(a + b)
           H == P(N - 1)
<1>5. /\ M \in Nat \ {0} /\ H \in Nat \ {0} /\ P(N) = 2 * H
      /\ p.C \in Nat \ {0} /\ p.E \in Nat \ {0} /\ p.S \in Nat \ {0}
      /\ p.C < H
  <2>1. a + b \in 0 .. 2 * N /\ N - 1 \in 0 .. 2 * N /\ c \in 0 .. N /\ c < N - 1
        /\ a \in 0 .. 2 * N /\ b \in 0 .. 2 * N /\ c \in 0 .. 2 * N
    <3>1. N \in Nat
      BY <1>2
    <3>2. a >= 0 /\ b >= 0 /\ c >= 0 /\ a <= N - 2 /\ b <= N - 2 /\ c <= N - 2
      BY <1>1, <3>1
    <3> QED BY <3>1, <3>2
  <2> QED BY <1>1, <1>2, <1>4, <2>1
<1>6. BlockSize(p) = IF W > 0 THEN p.C \div W ELSE -(p.C \div (-W))
  BY DEF BlockSize, Quotient
<1>7. W = LET r == M % (2 * H) IN IF r > H - 1 THEN r - 2 * H ELSE r
  BY <1>2, <1>3, <1>5
<1>8. CASE a + b < N - 1
  <2>1. a + b \in 0 .. N /\ N - 1 \in 0 .. N
    BY <1>1, <1>2, <1>8
  <2>2. M < H
    BY <1>2, <1>8, <2>1
  <2> HIDE DEF M, H
  <2>3. M % (2 * H) = M
    <3>1. M = (2 * H) * 0 + M /\ M \in 0 .. (2 * H) - 1 /\ 2 * H \in Nat \ {0}
      BY <1>5, <2>2
    <3> QED BY <3>1, DivisionUnique
  <2>4. W = M
    BY <1>5, <1>7, <2>2, <2>3
  <2> QED BY <1>5, <1>6, <2>4, QuotientOfNat
<1>9. CASE a + b = N - 1
  <2>1. M = H
    BY <1>9
  <2> HIDE DEF M, H
  <2>2. M % (2 * H) = H
    <3>1. M = (2 * H) * 0 + H /\ H \in 0 .. (2 * H) - 1 /\ 2 * H \in Nat \ {0}
      BY <1>5, <2>1
    <3> QED BY <3>1, DivisionUnique
  <2>3. W = -H
    BY <1>5, <1>7, <2>2
  <2>4. p.C \div H = 0
    <3>1. p.C = H * 0 + p.C /\ p.C \in 0 .. H - 1
      BY <1>5
    <3> QED BY <1>5, <3>1, DivisionUnique
  <2>5. BlockSize(p) = -(p.C \div H)
    BY <1>5, <1>6, <2>3
  <2> QED BY <1>5, <2>4, <2>5
<1>10. CASE a + b > N - 1
  <2> DEFINE e == (a + b) - N
  <2>1. e \in 0 .. N /\ N \in 0 .. N /\ e \in 0 .. 2 * N /\ N + e = a + b
    BY <1>2, <1>10
  <2> HIDE DEF e
  <2>2. M = P(N) * P(e) /\ P(e) \in Nat
    BY <1>2, <2>1
  <2> HIDE DEF M, H
  <2>3. M % (2 * H) = 0
    <3>1. M = (2 * H) * P(e) + 0 /\ 0 \in 0 .. (2 * H) - 1 /\ 2 * H \in Nat \ {0}
      BY <1>5, <2>2
    <3> QED BY <2>2, <3>1, DivisionUnique
  <2>4. W = 0
    BY <1>5, <1>7, <2>3
  <2> QED BY <2>4
<1> QED
  <2>1. a + b \in Nat /\ N - 1 \in Nat
    BY <1>2
  <2>2. a + b < N - 1 \/ a + b = N - 1 \/ a + b > N - 1
    BY <2>1
  <2> HIDE DEF M, H, W
  <2> QED BY <1>5, <1>8, <1>9, <1>10, <2>2

----------------------------------------------------------------------------
(* The inductive invariant. *)

(* What was read from the command line is still what argv says.            *)
Copied(r) ==
  /\ <<r.C, r.E, r.S>> = <<argv.C, argv.E, argv.S>>
  /\ r.n \in Int /\ r.m \in Int
  /\ argv.argc = MAX_ARG => r.n = argv.n /\ r.m = argv.m

(* What each stage of main has behind it. *)
Stages ==
  /\ pc \in {"parse_args", "crear_cache", "fopen", "getline", "exit"}
  /\ exit \in {Running, 0, 1, SIGFPE}
  /\ held \subseteq {"cache", "stats", "tracefile", "line"}
  /\ argv \in Argvs
  /\ params # NULL => Copied(params)
  /\ cache # NULL => Copied(cache)
  /\ pc \in {"parse_args", "crear_cache"} => cache = NULL /\ time = 0
  /\ pc = "crear_cache" => params # NULL
  /\ pc = "fopen" /\ cache # NULL => {"cache", "stats"} \subseteq held
  /\ pc = "getline" => cache # NULL /\ {"cache", "stats", "tracefile"} \subseteq held
  /\ pc # "exit" => exit = Running
  /\ verboso # NoOutput => cache # NULL

(* The counters, all of them driven by the clock. *)
Counters ==
  /\ time \in 0 .. MaxOps
  /\ stats \in Stats
  /\ stats.loads + stats.stores = time
  /\ stats.dirty_rmiss <= stats.rmiss /\ stats.rmiss <= stats.loads
  /\ stats.dirty_wmiss <= stats.wmiss /\ stats.wmiss <= stats.stores

Places == (0 .. cache.S-1) \X (0 .. cache.E-1)

ValidPlaces == {p \in Places : sets[p[1]][p[2]].valid_bit}

(* The cache: its geometry, its lines, and that every block in it or       *)
(* written back from it was a miss.                                        *)
Contents ==
  cache # NULL =>
    /\ cache.C \in Nat \ {0} /\ cache.E \in Nat \ {0} /\ cache.S \in Nat \ {0}
    /\ cache.B \in Nat
    /\ sets \in [0 .. cache.S-1 -> [0 .. cache.E-1 -> Line]]
    /\ \A i \in 0 .. cache.S-1, j \in 0 .. cache.E-1 :
         IF sets[i][j].valid_bit THEN sets[i][j].time_used < time
         ELSE sets[i][j] = EmptyLine
    /\ Cardinality(ValidPlaces) + (stats.dirty_rmiss + stats.dirty_wmiss)
         <= stats.rmiss + stats.wmiss

IInv == Stages /\ Counters /\ Contents /\ VerboseConsistent /\ SummaryCovers

LEMMA ParamsNotNull ==
  ASSUME NEW C, NEW E, NEW S, NEW n, NEW m
  PROVE  [C |-> C, E |-> E, S |-> S, n |-> n, m |-> m] # NULL
<1> DEFINE r == [C |-> C, E |-> E, S |-> S, n |-> n, m |-> m]
<1>1. "C" \in DOMAIN r /\ "C" \notin DOMAIN [null |-> TRUE]
  OBVIOUS
<1> QED BY <1>1 DEF NULL

LEMMA InitIInv == Init => IInv
<1> SUFFICES ASSUME Init PROVE IInv
  OBVIOUS
<1>1. Stages
  BY DEF Init, Stages, Running
<1>2. Counters
  BY CachesimAssumption DEF Init, Counters, CrearStats, Stats
<1>3. Contents
  BY DEF Init, Contents
<1>4. VerboseConsistent
  BY DEF Init, VerboseConsistent
<1>5. SummaryCovers
  BY DEF Init, SummaryCovers, Running
<1> QED BY <1>1, <1>2, <1>3, <1>4, <1>5 DEF IInv

LEMMA ParseArgsIInv == IInv /\ ParseArgs => IInv'
<1> SUFFICES ASSUME IInv, ParseArgs PROVE IInv'
  OBVIOUS
<1>1. /\ cache = NULL /\ cache' = NULL /\ time = 0 /\ time' = 0 /\ argv' = argv
      /\ stats' = stats /\ held' = held /\ verboso' = verboso /\ exit = Running
      /\ verboso = NoOutput /\ argv \in Argv /\ exit' # 0
  BY CachesimAssumption DEF IInv, Stages, ParseArgs, simulation, Leave, Running
<1>2. Stages'
  <2>1. CASE argv.argc \in {MIN_ARG, MAX_ARG}
    <3>1. PICK n \in Garbage, m \in Garbage :
            params' = [C |-> argv.C, E |-> argv.E, S |-> argv.S,
                       n |-> IF argv.argc = MAX_ARG THEN argv.n ELSE n,
                       m |-> IF argv.argc = MAX_ARG THEN argv.m ELSE m]
      BY <2>1 DEF ParseArgs
    <3>2. params' # NULL
      BY <3>1, ParamsNotNull
    <3>3. Copied(params)'
      BY <1>1, <3>1, CachesimAssumption DEF Copied, Argv
    <3>4. pc' = "crear_cache" /\ exit' = exit
      BY <2>1 DEF ParseArgs
    <3> QED BY <1>1, <3>2, <3>3, <3>4 DEF IInv, Stages
  <2>2. CASE argv.argc \notin {MIN_ARG, MAX_ARG}
    <3>1. pc' = "exit" /\ exit' = 1 /\ params' = params
      BY <2>2 DEF ParseArgs, Leave
    <3> QED BY <1>1, <3>1 DEF IInv, Stages, Copied
  <2> QED BY <2>1, <2>2
<1>3. Counters'
  BY <1>1 DEF IInv, Counters
<1>4. Contents'
  BY <1>1 DEF Contents, NULL
<1>5. VerboseConsistent'
  BY <1>1 DEF VerboseConsistent, NoOutput
<1>6. SummaryCovers'
  BY <1>1 DEF SummaryCovers
<1> QED BY <1>2, <1>3, <1>4, <1>5, <1>6 DEF IInv

LEMMA CrearCacheIInv == IInv /\ CrearCache => IInv'
<1> SUFFICES ASSUME IInv, CrearCache PROVE IInv'
  OBVIOUS
<1>1. /\ cache = NULL /\ time = 0 /\ time' = 0 /\ argv' = argv
      /\ stats' = stats /\ params' = params /\ params # NULL
      /\ verboso' = verboso /\ verboso = NoOutput /\ exit = Running
      /\ pc = "crear_cache" /\ exit' # 0
  <2>1. /\ pc = "crear_cache" /\ argv' = argv /\ params' = params /\ verboso' = verboso
        /\ stats' = stats /\ time' = time
    BY DEF CrearCache
  <2>2. exit' = exit \/ exit' = SIGFPE
    BY DEF CrearCache, Leave
  <2> QED BY <2>1, <2>2 DEF IInv, Stages, Running, SIGFPE
<1> DEFINE W == Wrap(params.E * params.S)
           made == [C |-> params.C, E |-> params.E, S |-> params.S,
                    B |-> BlockSize(params), n |-> params.n, m |-> params.m]
<1>2. \/ /\ AllPower2(params) /\ W # 0
         /\ cache' = made
         /\ sets' = CrearSets(params.E, params.S)
         /\ held' = {"cache", "stats"} /\ pc' = "fopen" /\ exit' = exit
      \/ /\ cache' = cache
         /\ pc' = "exit" \/ (pc' = "fopen" /\ exit' = exit)
         /\ exit' \in {Running, 1, SIGFPE}
         /\ held' = held \/ held' = {"stats"}
  BY <1>1 DEF CrearCache, Leave
<1>3. Copied(params)
  BY <1>1 DEF IInv, Stages
<1>4. Stages'
  <2>1. CASE cache' = made /\ held' = {"cache", "stats"} /\ pc' = "fopen" /\ exit' = exit
    <3>1. Copied(cache)'
      BY <1>1, <1>3, <2>1 DEF Copied
    <3>2. Copied(params)'
      BY <1>1, <1>3 DEF Copied
    <3> QED BY <1>1, <2>1, <3>1, <3>2 DEF IInv, Stages
  <2>2. CASE cache' = cache
    BY <1>1, <1>2, <1>3, <2>2 DEF IInv, Stages, Copied
  <2> QED BY <1>2, <2>1, <2>2
<1>5. Counters'
  BY <1>1 DEF IInv, Counters
<1>6. Contents'
  <2>1. CASE cache' = cache
    BY <1>1, <2>1 DEF Contents, NULL
  <2>2. CASE /\ AllPower2(params) /\ W # 0
             /\ cache' = made /\ sets' = CrearSets(params.E, params.S)
    <3>1. /\ params.C \in Nat \ {0} /\ params.E \in Nat \ {0} /\ params.S \in Nat \ {0}
          /\ BlockSize(params) \in Nat
      <4>1. <<params.C, params.E, params.S>> = <<argv.C, argv.E, argv.S>> /\ argv \in Argvs
        BY <1>3 DEF Copied, IInv, Stages
      <4>2. params.C = argv.C /\ params.E = argv.E /\ params.S = argv.S
        BY <4>1
      <4> QED BY <2>2, <4>1, <4>2, NoIntMin, GeometryFacts
    <3>2. /\ cache'.C = params.C /\ cache'.E = params.E /\ cache'.S = params.S
          /\ cache'.B = BlockSize(params)
      BY <2>2
    <3>3. EmptyLine \in Line /\ ~EmptyLine.valid_bit
      BY CacheLineAssumption DEF EmptyLine, Line, Tag
    <3>4. sets' = [i \in 0 .. cache'.S-1 |-> [j \in 0 .. cache'.E-1 |-> EmptyLine]]
      BY <2>2, <3>2 DEF CrearSets
    <3>5. /\ sets' \in [0 .. cache'.S-1 -> [0 .. cache'.E-1 -> Line]]
          /\ \A i \in 0 .. cache'.S-1, j \in 0 .. cache'.E-1 : sets'[i][j] = EmptyLine
      BY <3>3, <3>4
    <3>6. ValidPlaces' = {}
      BY <3>3, <3>5 DEF ValidPlaces, Places
    <3>7. Cardinality(ValidPlaces') = 0
      BY <3>6, FS_EmptySet
    <3>8. /\ stats.dirty_rmiss + stats.dirty_wmiss = 0
          /\ stats.rmiss + stats.wmiss = 0
      BY <1>1 DEF IInv, Counters, Stats
    <3> QED BY <1>1, <3>1, <3>2, <3>3, <3>5, <3>7, <3>8 DEF Contents
  <2> QED BY <1>2, <2>1, <2>2
<1>7. VerboseConsistent'
  BY <1>1 DEF VerboseConsistent, NoOutput
<1>8. SummaryCovers'
  BY <1>1 DEF SummaryCovers
<1> QED BY <1>4, <1>5, <1>6, <1>7, <1>8 DEF IInv

(* A step that leaves the simulation and the cache alone disturbs neither  *)
(* what they hold nor the verbose line.                                    *)
LEMMA SimulationUntouched ==
  ASSUME IInv, UNCHANGED <<simulation, argv, cache, verboso>>
  PROVE  Counters' /\ Contents' /\ VerboseConsistent'
<1>1. /\ sets' = sets /\ time' = time /\ stats' = stats /\ cache' = cache
      /\ verboso' = verboso
  BY DEF simulation
<1>2. Counters'
  BY <1>1 DEF IInv, Counters
<1>3. Contents'
  <2>1. ValidPlaces' = ValidPlaces
    BY <1>1 DEF ValidPlaces, Places
  <2> QED BY <1>1, <2>1 DEF IInv, Contents
<1>4. VerboseConsistent'
  BY <1>1 DEF IInv, VerboseConsistent
<1> QED BY <1>2, <1>3, <1>4

LEMMA FopenIInv == IInv /\ Fopen => IInv'
<1> SUFFICES ASSUME IInv, Fopen PROVE IInv'
  OBVIOUS
<1>1. Counters' /\ Contents' /\ VerboseConsistent'
  BY SimulationUntouched DEF Fopen
<1>2. Stages'
  <2>1. /\ argv' = argv /\ params' = params /\ cache' = cache /\ verboso' = verboso
        /\ held' = IF argv.exists THEN held \cup {"tracefile"} ELSE held
        /\ pc = "fopen" /\ exit = Running
    BY DEF IInv, Stages, Fopen
  <2>2. held' \subseteq {"cache", "stats", "tracefile", "line"}
    BY <2>1 DEF IInv, Stages
  <2>3. CASE argv.exists /\ cache # NULL
    <3>1. pc' = "getline" /\ exit' = exit
      BY <2>3 DEF Fopen
    <3> QED BY <2>1, <2>2, <2>3, <3>1 DEF IInv, Stages, Copied
  <2>4. CASE ~(argv.exists /\ cache # NULL)
    <3>1. pc' = "exit" /\ exit' = 1
      BY <2>4 DEF Fopen, Leave
    <3> QED BY <2>1, <2>2, <3>1 DEF IInv, Stages, Copied
  <2> QED BY <2>3, <2>4
<1>3. SummaryCovers'
  BY DEF IInv, Stages, SummaryCovers, Fopen, Leave, Running
<1> QED BY <1>1, <1>2, <1>3 DEF IInv

LEMMA BadTraceLineIInv == IInv /\ BadTraceLine => IInv'
<1> SUFFICES ASSUME IInv, BadTraceLine PROVE IInv'
  OBVIOUS
<1>1. Counters' /\ Contents' /\ VerboseConsistent'
  BY SimulationUntouched DEF BadTraceLine
<1>2. Stages'
  BY DEF IInv, Stages, Copied, BadTraceLine, Leave, Running
<1>3. SummaryCovers'
  BY DEF IInv, Stages, SummaryCovers, BadTraceLine, Leave, Running
<1> QED BY <1>1, <1>2, <1>3 DEF IInv

LEMMA IntMaxType == INT_MAX \in Nat
<1>1. INT_BITS - 1 \in 0 .. 2 * INT_BITS
  BY CachesimAssumption
<1>2. 2^(INT_BITS - 1) \in Nat \ {0}
  BY <1>1, Powers
<1> QED BY <1>2 DEF INT_MAX

LEMMA WrapOfSmall ==
  ASSUME NEW x \in Nat, x <= INT_MAX
  PROVE  Wrap(x) = x
<1> DEFINE H == 2^(INT_BITS - 1)
           M == 2^INT_BITS
<1>1. H \in Nat \ {0} /\ M \in Nat \ {0} /\ H < M /\ INT_MAX = H - 1
  <2>1. INT_BITS \in 0 .. 2 * INT_BITS /\ INT_BITS - 1 \in 0 .. 2 * INT_BITS
        /\ INT_BITS \in 0 .. INT_BITS /\ INT_BITS - 1 \in 0 .. INT_BITS
        /\ INT_BITS - 1 < INT_BITS
    BY CachesimAssumption
  <2> QED BY <2>1, Powers DEF INT_MAX
<1> HIDE DEF H, M
<1>2. x = M * 0 + x /\ x \in 0 .. M - 1
  BY <1>1
<1>3. x % M = x
  BY <1>1, <1>2, DivisionUnique
<1> QED BY <1>1, <1>3 DEF Wrap, M

LEMMA FinitePlaces ==
  ASSUME cache.S \in Nat, cache.E \in Nat
  PROVE  IsFiniteSet(ValidPlaces) /\ Cardinality(ValidPlaces) \in Nat
<1>1. IsFiniteSet(0 .. cache.S-1) /\ IsFiniteSet(0 .. cache.E-1)
  <2>1. 0 \in Int /\ cache.S-1 \in Int /\ cache.E-1 \in Int
    OBVIOUS
  <2> QED BY <2>1, FS_Interval
<1>2. IsFiniteSet(Places)
  BY <1>1, FS_Product DEF Places
<1>3. ValidPlaces \in SUBSET Places
  BY DEF ValidPlaces
<1> QED BY <1>2, <1>3, FS_Subset, FS_CardinalityType

LEMMA EndOfTraceIInv == IInv /\ EndOfTrace => IInv'
<1> SUFFICES ASSUME IInv, EndOfTrace PROVE IInv'
  OBVIOUS
<1>1. Counters' /\ Contents' /\ VerboseConsistent'
  BY SimulationUntouched DEF EndOfTrace
<1>2. held' = {}
  BY DEF IInv, Stages, EndOfTrace
<1>3. Stages'
  BY <1>2 DEF IInv, Stages, Copied, EndOfTrace, Leave, Running
<1>4. /\ sets' = sets /\ cache' = cache /\ time' = time /\ summary' = Summary
      /\ cache # NULL
  BY DEF IInv, Stages, EndOfTrace, simulation
<1> DEFINE misses == stats.rmiss + stats.wmiss
           dirty == stats.dirty_rmiss + stats.dirty_wmiss
           B == cache.B
           card == Cardinality(ValidPlaces)
<1>5. /\ misses \in Nat /\ dirty \in Nat /\ B \in Nat /\ card \in Nat
      /\ card + dirty <= misses
      /\ stats.loads + stats.stores = time /\ misses <= stats.loads + stats.stores
  <2>1. /\ cache.S \in Nat /\ cache.E \in Nat /\ B \in Nat /\ card + dirty <= misses
    BY <1>4 DEF IInv, Contents
  <2>2. card \in Nat
    BY <2>1, FinitePlaces
  <2> QED BY <2>1, <2>2 DEF IInv, Counters, Stats
<1>6. /\ summary'.total = stats.loads + stats.stores /\ summary'.misses = misses
      /\ summary'.bytes_r = Wrap(misses * B) /\ summary'.bytes_w = Wrap(dirty * B)
  BY <1>4 DEF Summary
<1>7. Cardinality({p \in (0 .. cache'.S-1) \X (0 .. cache'.E-1) :
                     sets'[p[1]][p[2]].valid_bit}) = card
  BY <1>4 DEF ValidPlaces, Places
<1>8. ASSUME misses * B <= INT_MAX
      PROVE  Wrap(misses * B) >= Wrap(dirty * B) + B * card
  <2> HIDE DEF misses, dirty, B, card
  <2>1. /\ misses * B \in Nat /\ dirty * B \in Nat /\ B * card \in Nat
        /\ dirty * B + B * card <= misses * B
    <3>1. \A x, y, z, b \in Nat : x + y <= z => y * b + b * x <= z * b
      OBVIOUS
    <3> QED BY <1>5, <3>1
  <2>2. dirty * B <= INT_MAX
    BY <1>8, <2>1, CachesimAssumption, IntMaxType
  <2> QED BY <1>8, <2>1, <2>2, WrapOfSmall
<1>9. SummaryCovers'
  <2> HIDE DEF misses, dirty, B, card
  <2> QED BY <1>2, <1>4, <1>5, <1>6, <1>7, <1>8 DEF SummaryCovers, B
<1> QED BY <1>1, <1>3, <1>9 DEF IInv

----------------------------------------------------------------------------
(* One line of the trace. *)

(* parse_address: the index is a set of the cache and the tag fits its     *)
(* unsigned int, whatever the shifts leave when B is 0.                    *)
LEMMA ParseAddressType ==
  ASSUME NEW address \in 0 .. UINT_MAX, NEW nsets \in Nat \ {0}, NEW B \in Nat,
         NEW a \in ParseAddress(address, nsets, B)
  PROVE  a.tag \in Tag /\ a.set_index \in 0 .. nsets-1
<1>1. address \in Nat /\ UINT_MAX \in Nat
  BY CacheLineAssumption
<1>2. ASSUME NEW x \in Nat PROVE x % nsets \in 0 .. nsets-1
  <2>1. x \in Int
    OBVIOUS
  <2> QED BY <2>1, DivisionFacts
<1>3. CASE B = 0
  <2>1. \A x \in Shifted(address) : x \in 0 .. address
    <3> SUFFICES ASSUME NEW k \in 0 .. INT_BITS - 1
                 PROVE  address \div 2^k \in 0 .. address
      BY DEF Shifted
    <3>1. 2^k \in Nat \ {0}
      BY Powers, CachesimAssumption
    <3> QED BY <1>1, <3>1, QuotientOfNat
  <2>2. a.tag \in Shifted(address) /\ \E x \in Shifted(address) : a.set_index = x % nsets
    BY <1>3 DEF ParseAddress
  <2> QED BY <1>1, <1>2, <2>1, <2>2 DEF Tag
<1>4. CASE B # 0
  <2>1. a.tag = address \div (nsets * B) /\ a.set_index = (address \div B) % nsets
    BY <1>4 DEF ParseAddress
  <2>2. nsets * B \in Nat \ {0} /\ B \in Nat \ {0}
    BY <1>4
  <2>3. address \div (nsets * B) \in 0 .. address /\ address \div B \in Nat
    BY <1>1, <2>2, QuotientOfNat
  <2> QED BY <1>1, <1>2, <2>1, <2>3 DEF Tag
<1> QED BY <1>3, <1>4

(* The operation replaces one line of one set by its updated form.         *)
LEMMA SimulateShape ==
  ASSUME IInv, NEW op \in Operation, NEW address \in Addresses, Simulate(op, address)
  PROVE  \E a \in ParseAddress(address, cache.S, cache.B) :
           LET i == a.set_index
               k == FetchLine(sets[i], a.tag)
               u == Updated(sets[i][k], op, a.tag, time)
           IN  /\ a.tag \in Tag
               /\ i \in 0 .. cache.S-1 /\ k \in 0 .. cache.E-1
               /\ sets[i][k] \in Line
               /\ u \in Line /\ u.valid_bit /\ u.time_used = time
               /\ sets' \in [0 .. cache.S-1 -> [0 .. cache.E-1 -> Line]]
               /\ \A i2 \in 0 .. cache.S-1, j \in 0 .. cache.E-1 :
                    sets'[i2][j] = IF i2 = i /\ j = k THEN u ELSE sets[i2][j]
               /\ stats' = Charged(stats, op, IdCaso(sets[i][k], a.tag))
               /\ verboso' = IF InVerboseRange(time + 1)
                             THEN PrintVerboso(Verboso(a), cache.E) ELSE verboso
<1>1. PICK a \in ParseAddress(address, cache.S, cache.B) :
        /\ DoCacheOp(op, a.set_index, a.tag)
        /\ verboso' = IF InVerboseRange(time + 1)
                      THEN PrintVerboso(Verboso(a), cache.E) ELSE verboso
  BY DEF Simulate
<1> DEFINE i == a.set_index
           k == FetchLine(sets[i], a.tag)
           u == Updated(sets[i][k], op, a.tag, time)
<1>2. /\ cache.E \in Nat \ {0} /\ cache.S \in Nat \ {0} /\ cache.B \in Nat
      /\ sets \in [0 .. cache.S-1 -> [0 .. cache.E-1 -> Line]]
      /\ time \in Nat
  BY DEF Simulate, IInv, Stages, Contents, Counters
<1>3. a.tag \in Tag /\ i \in 0 .. cache.S-1
  BY <1>2, ParseAddressType, CachesimAssumption
<1>4. sets[i] \in [0 .. cache.E-1 -> Line]
  BY <1>2, <1>3
<1>5. k \in 0 .. cache.E-1
  BY <1>2, <1>4, FetchLineFacts
<1>6. sets[i][k] \in Line
  BY <1>4, <1>5
<1>7. u \in Line /\ u.valid_bit /\ u.time_used = time
  BY <1>2, <1>3, <1>6 DEF Updated, Line
<1>8. /\ sets' = [sets EXCEPT ![i][k] = u]
      /\ stats' = Charged(stats, op, IdCaso(sets[i][k], a.tag))
  BY <1>1 DEF DoCacheOp
<1> HIDE DEF k, u, i
<1>9. /\ sets' \in [0 .. cache.S-1 -> [0 .. cache.E-1 -> Line]]
      /\ \A i2 \in 0 .. cache.S-1, j \in 0 .. cache.E-1 :
           sets'[i2][j] = IF i2 = i /\ j = k THEN u ELSE sets[i2][j]
  BY <1>2, <1>3, <1>5, <1>7, <1>8
<1> QED BY <1>1, <1>3, <1>5, <1>6, <1>7, <1>8, <1>9 DEF i, k, u

(* The verbose line shows the tag as an int: -1 stands for UINT_MAX, and   *)
(* taken modulo 2^INT_BITS it is the tag again.                            *)
LEMMA ShownTag ==
  ASSUME NEW t \in Tag
  PROVE  LET shown == IF t = UINT_MAX THEN -1 ELSE t
         IN  shown % (UINT_MAX + 1) = t
<1> DEFINE U == UINT_MAX
           M == UINT_MAX + 1
<1>1. U \in Nat /\ M \in Nat \ {0} /\ M = U + 1 /\ t \in 0 .. U
  BY CacheLineAssumption DEF Tag
<1> HIDE DEF M
<1>2. CASE t = U
  <2>1. -1 = M * (-1) + U /\ U \in 0 .. M - 1 /\ -1 \in Int
    BY <1>1
  <2>2. (-1) % M = U
    BY <1>1, <2>1, DivisionUnique
  <2> QED BY <1>2, <2>2 DEF M
<1>3. CASE t # U
  <2>1. t = M * 0 + t /\ t \in 0 .. M - 1 /\ t \in Int
    BY <1>1
  <2>2. t % M = t
    BY <1>1, <2>1, DivisionUnique
  <2> QED BY <1>3, <2>2 DEF M
<1> QED BY <1>2, <1>3

LEMMA SimulateIInv ==
  ASSUME IInv, NEW op \in Operation, NEW address \in Addresses, Simulate(op, address)
  PROVE  IInv'
<1>1. PICK a \in ParseAddress(address, cache.S, cache.B) :
        LET i == a.set_index
            k == FetchLine(sets[i], a.tag)
            u == Updated(sets[i][k], op, a.tag, time)
        IN  /\ a.tag \in Tag
            /\ i \in 0 .. cache.S-1 /\ k \in 0 .. cache.E-1
            /\ sets[i][k] \in Line
            /\ u \in Line /\ u.valid_bit /\ u.time_used = time
            /\ sets' \in [0 .. cache.S-1 -> [0 .. cache.E-1 -> Line]]
            /\ \A i2 \in 0 .. cache.S-1, j \in 0 .. cache.E-1 :
                 sets'[i2][j] = IF i2 = i /\ j = k THEN u ELSE sets[i2][j]
            /\ stats' = Charged(stats, op, IdCaso(sets[i][k], a.tag))
            /\ verboso' = IF InVerboseRange(time + 1)
                          THEN PrintVerboso(Verboso(a), cache.E) ELSE verboso
  BY SimulateShape
<1> DEFINE i == a.set_index
           k == FetchLine(sets[i], a.tag)
           line == sets[i][k]
           u == Updated(line, op, a.tag, time)
           caso == IdCaso(line, a.tag)
           p == <<i, k>>
           m == One(caso # "1")
           d == One(caso = "2b")
<1>2. /\ pc = "getline" /\ pc' = pc /\ time < MaxOps /\ time' = time + 1
      /\ argv' = argv /\ params' = params /\ cache' = cache /\ exit' = exit
      /\ held' = held \cup {"line"} /\ cache # NULL /\ exit = Running
  BY DEF Simulate, DoCacheOp, IInv, Stages
<1>3. /\ cache.E \in Nat \ {0} /\ cache.S \in Nat \ {0} /\ cache.B \in Nat
      /\ stats \in Stats /\ time \in Nat
      /\ \A i2 \in 0 .. cache.S-1, j \in 0 .. cache.E-1 :
           IF sets[i2][j].valid_bit THEN sets[i2][j].time_used < time
           ELSE sets[i2][j] = EmptyLine
  BY <1>2 DEF IInv, Contents, Counters
<1>4. /\ caso \in Caso
      /\ caso \in {"1", "2b"} => line.valid_bit
      /\ caso = "1" <=> line.valid_bit /\ line.tag = a.tag
      /\ caso = "2b" <=> line.valid_bit /\ line.dirty_bit /\ line.tag # a.tag
  BY DEF IdCaso, Caso
<1>5. /\ d \in 0 .. m /\ m \in 0 .. 1
      /\ stats' \in Stats
      /\ stats'.loads + stats'.stores = stats.loads + stats.stores + 1
      /\ stats'.rmiss + stats'.wmiss = stats.rmiss + stats.wmiss + m
      /\ stats'.dirty_rmiss + stats'.dirty_wmiss
           = stats.dirty_rmiss + stats.dirty_wmiss + d
      /\ op = "READ" =>
           /\ stats'.loads = stats.loads + 1 /\ stats'.stores = stats.stores
           /\ stats'.rmiss = stats.rmiss + m /\ stats'.wmiss = stats.wmiss
           /\ stats'.dirty_rmiss = stats.dirty_rmiss + d
           /\ stats'.dirty_wmiss = stats.dirty_wmiss
      /\ op = "WRITE" =>
           /\ stats'.loads = stats.loads /\ stats'.stores = stats.stores + 1
           /\ stats'.rmiss = stats.rmiss /\ stats'.wmiss = stats.wmiss + m
           /\ stats'.dirty_rmiss = stats.dirty_rmiss
           /\ stats'.dirty_wmiss = stats.dirty_wmiss + d
  <2>1. stats' = Charged(stats, op, caso)
    BY <1>1
  <2> HIDE DEF caso
  <2>2. /\ d \in 0 .. m /\ m \in 0 .. 1 /\ stats' \in Stats
        /\ op = "WRITE" =>
             /\ stats'.stores = stats.stores + 1 /\ stats'.loads = stats.loads
             /\ stats'.wmiss = stats.wmiss + m /\ stats'.rmiss = stats.rmiss
             /\ stats'.dirty_wmiss = stats.dirty_wmiss + d
             /\ stats'.dirty_rmiss = stats.dirty_rmiss
        /\ op = "READ" =>
             /\ stats'.loads = stats.loads + 1 /\ stats'.stores = stats.stores
             /\ stats'.rmiss = stats.rmiss + m /\ stats'.wmiss = stats.wmiss
             /\ stats'.dirty_rmiss = stats.dirty_rmiss + d
             /\ stats'.dirty_wmiss = stats.dirty_wmiss
    BY <1>3, <1>4, <2>1, ChargedCounters
  <2> HIDE DEF m, d
  <2>3. CASE op = "READ"
    BY <1>3, <2>2, <2>3 DEF Stats
  <2>4. CASE op = "WRITE"
    BY <1>3, <2>2, <2>4 DEF Stats
  <2> QED BY <2>2, <2>3, <2>4 DEF Operation
<1>6. verboso' # verboso => verboso' = PrintVerboso(Verboso(a), cache.E)
  BY <1>1
<1> HIDE DEF m, d, caso, u, k, i
<1>7. Stages'
  <2>1. Copied(params)' <=> Copied(params)
    BY <1>2 DEF Copied
  <2>2. Copied(cache)' <=> Copied(cache)
    BY <1>2 DEF Copied
  <2> QED BY <1>2, <2>1, <2>2 DEF IInv, Stages
<1>8. Counters'
  <2>1. time' \in 0 .. MaxOps
    BY <1>2, <1>3, CachesimAssumption
  <2>2. CASE op = "READ"
    BY <1>2, <1>3, <1>5, <2>1, <2>2 DEF IInv, Counters, Stats
  <2>3. CASE op = "WRITE"
    BY <1>2, <1>3, <1>5, <2>1, <2>3 DEF IInv, Counters, Stats
  <2> QED BY <2>2, <2>3 DEF Operation
<1>9. Contents'
  <2>1. /\ i \in 0 .. cache.S-1 /\ k \in 0 .. cache.E-1
        /\ u.valid_bit /\ u.time_used = time
        /\ sets' \in [0 .. cache.S-1 -> [0 .. cache.E-1 -> Line]]
        /\ \A i2 \in 0 .. cache.S-1, j \in 0 .. cache.E-1 :
             sets'[i2][j] = IF i2 = i /\ j = k THEN u ELSE sets[i2][j]
    BY <1>1 DEF i, k, u
  <2>2. \A i2 \in 0 .. cache.S-1, j \in 0 .. cache.E-1 :
          IF sets'[i2][j].valid_bit THEN sets'[i2][j].time_used < time'
          ELSE sets'[i2][j] = EmptyLine
    <3> SUFFICES ASSUME NEW i2 \in 0 .. cache.S-1, NEW j \in 0 .. cache.E-1
                 PROVE  IF sets'[i2][j].valid_bit THEN sets'[i2][j].time_used < time'
                        ELSE sets'[i2][j] = EmptyLine
      OBVIOUS
    <3>1. CASE i2 = i /\ j = k
      BY <1>2, <1>3, <2>1, <3>1
    <3>2. CASE ~(i2 = i /\ j = k)
      <4>1. sets'[i2][j] = sets[i2][j]
        BY <2>1, <3>2
      <4>2. sets[i2][j].time_used \in Nat
        BY <1>2 DEF IInv, Contents, Line
      <4> QED BY <1>2, <1>3, <4>1, <4>2
    <3> QED BY <3>1, <3>2
  <2>3. ValidPlaces' = ValidPlaces \cup {p}
    BY <1>2, <2>1 DEF ValidPlaces, Places
  <2>4. p \in ValidPlaces <=> line.valid_bit
    BY <2>1 DEF ValidPlaces, Places
  <2>5. /\ IsFiniteSet(ValidPlaces) /\ Cardinality(ValidPlaces) \in Nat
    BY <1>3, FinitePlaces
  <2>6. Cardinality(ValidPlaces') =
          IF line.valid_bit THEN Cardinality(ValidPlaces) ELSE Cardinality(ValidPlaces) + 1
    BY <2>3, <2>4, <2>5, FS_AddElement
  <2>7. /\ ~line.valid_bit => m = 1 /\ d = 0
        /\ m \in 0 .. 1 /\ d \in 0 .. m
    BY <1>4, <1>5 DEF m, d, One
  <2>8. Cardinality(ValidPlaces') + (stats'.dirty_rmiss + stats'.dirty_wmiss)
          <= stats'.rmiss + stats'.wmiss
    <3> DEFINE c == Cardinality(ValidPlaces)
               v == line.valid_bit
               D == stats.dirty_rmiss + stats.dirty_wmiss
               M == stats.rmiss + stats.wmiss
    <3>1. c + D <= M /\ c \in Nat /\ D \in Nat /\ M \in Nat
      <4>1. c + D <= M
        BY <1>2 DEF IInv, Contents
      <4>2. D \in Nat /\ M \in Nat
        BY <1>3 DEF Stats
      <4> QED BY <2>5, <4>1, <4>2
    <3>2. Cardinality(ValidPlaces') = IF v THEN c ELSE c + 1
      BY <2>6
    <3>3. stats'.dirty_rmiss + stats'.dirty_wmiss = D + d /\ stats'.rmiss + stats'.wmiss = M + m
      BY <1>5
    <3> HIDE DEF c, v, D, M
    <3> QED BY <2>7, <3>1, <3>2, <3>3 DEF v
  <2> QED BY <1>2, <1>3, <2>1, <2>2, <2>8 DEF IInv, Contents
<1>10. VerboseConsistent'
  <2>1. CASE verboso' = verboso
    BY <1>2, <2>1 DEF IInv, VerboseConsistent
  <2>2. CASE verboso' = PrintVerboso(Verboso(a), cache.E)
    <3>1. /\ verboso'.line_tag = IF line.tag = UINT_MAX THEN -1 ELSE line.tag
          /\ verboso'.last_used = IF cache.E > 1 THEN line.time_used ELSE NotShown
          /\ verboso'.caso = caso /\ verboso'.cache_tag = a.tag
          /\ verboso'.valid_bit = line.valid_bit /\ verboso'.dirty_bit = line.dirty_bit
          /\ verboso'.indice = time
      BY <2>2 DEF PrintVerboso, Verboso, i, k, caso
    <3>2. line \in Line /\ i \in 0 .. cache.S-1 /\ k \in 0 .. cache.E-1 /\ a.tag \in Tag
      BY <1>1 DEF i, k
    <3>3. verboso'.line_tag % (UINT_MAX + 1) = line.tag
      BY <3>1, <3>2, ShownTag DEF Line
    <3>4. IF line.valid_bit THEN line.time_used < time ELSE line = EmptyLine
      BY <1>3, <3>2
    <3>5. CASE line.valid_bit
      <4>1. verboso'.last_used < verboso'.indice
        BY <1>3, <3>1, <3>2, <3>4, <3>5 DEF NotShown, Line
      <4> QED BY <1>4, <3>1, <3>3, <3>5, <4>1 DEF VerboseConsistent
    <3>6. CASE ~line.valid_bit
      <4>1. line.tag = UINT_MAX /\ ~line.dirty_bit /\ line.time_used = 0
        BY <3>4, <3>6 DEF EmptyLine
      <4> QED BY <1>2, <1>4, <3>1, <3>3, <3>6, <4>1 DEF VerboseConsistent
    <3> QED BY <3>5, <3>6
  <2> QED BY <1>6, <2>1, <2>2
<1>11. SummaryCovers'
  BY <1>2 DEF SummaryCovers, Running
<1> QED BY <1>7, <1>8, <1>9, <1>10, <1>11 DEF IInv

LEMMA NextIInv == IInv /\ [Next]_vars => IInv'
<1> SUFFICES ASSUME IInv, [Next]_vars PROVE IInv'
  OBVIOUS
<1>1. CASE UNCHANGED vars
  <2>1. Counters' /\ Contents' /\ VerboseConsistent'
    BY <1>1, SimulationUntouched DEF vars, simulation
  <2>2. Stages'
    BY <1>1 DEF vars, IInv, Stages, Copied
  <2>3. SummaryCovers'
    BY <1>1 DEF vars, simulation, IInv, SummaryCovers
  <2> QED BY <2>1, <2>2, <2>3 DEF IInv
<1> QED BY <1>1, ParseArgsIInv, CrearCacheIInv, FopenIInv, SimulateIInv,
           BadTraceLineIInv, EndOfTraceIInv DEF Next

LEMMA Invariance == Spec => []IInv
BY InitIInv, NextIInv, PTL DEF Spec

----------------------------------------------------------------------------
(* Every stage of main finds what it relies on: no line is simulated       *)
(* without a cache whose lines are in the shape of the C, E and S asked    *)
(* for, with the trace open and the statistics allocated.                  *)
THEOREM TypeCorrect == Spec => []TypeOK
<1>1. IInv => TypeOK
  BY DEF IInv, Stages, Copied, Counters, Contents, TypeOK
<1> QED BY <1>1, Invariance, PTL

(* parse_address names every block of memory once, whatever C, E and S. *)
THEOREM OneNamePerBlock == Spec => []BlocksHaveOneName
<1>1. IInv => BlocksHaveOneName
  <2> SUFFICES ASSUME IInv, Simulating, NEW x \in Addresses, NEW y \in Addresses
               PROVE  ParseAddress(x, cache.S, cache.B) = ParseAddress(y, cache.S, cache.B)
                        <=> x \div cache.B = y \div cache.B
    BY DEF BlocksHaveOneName
  <2> DEFINE B == cache.B
             n == cache.S
             q == x \div B
             r == y \div B
  <2>1. n \in Nat \ {0} /\ B \in Nat \ {0} /\ x \in Nat /\ y \in Nat
    BY CachesimAssumption, CacheLineAssumption DEF Simulating, IInv, Stages, Contents
  <2> HIDE DEF B, n
  <2>2. q \in Nat /\ r \in Nat
    BY <2>1, QuotientOfNat
  <2>3. x \div (n * B) = q \div n /\ y \div (n * B) = r \div n
    BY <2>1, DivisionInSteps
  <2>4. ParseAddress(x, n, B) = ParseAddress(y, n, B)
          <=> q \div n = r \div n /\ q % n = r % n
    <3>1. /\ ParseAddress(x, n, B) = {[tag |-> q \div n, set_index |-> q % n]}
          /\ ParseAddress(y, n, B) = {[tag |-> r \div n, set_index |-> r % n]}
      BY <2>1, <2>3 DEF ParseAddress
    <3> DEFINE ax == [tag |-> q \div n, set_index |-> q % n]
               ay == [tag |-> r \div n, set_index |-> r % n]
    <3>2. ax = ay <=> q \div n = r \div n /\ q % n = r % n
      <4>1. /\ ax.tag = q \div n /\ ax.set_index = q % n
            /\ ay.tag = r \div n /\ ay.set_index = r % n
        OBVIOUS
      <4>2. q \div n = r \div n /\ q % n = r % n => ax = ay
        OBVIOUS
      <4> HIDE DEF ax, ay
      <4> QED BY <4>1, <4>2
    <3>3. {ax} = {ay} <=> ax = ay
      <4> HIDE DEF ax, ay
      <4> QED OBVIOUS
    <3> QED BY <3>1, <3>2, <3>3
  <2>5. q = n * (q \div n) + (q % n) /\ r = n * (r \div n) + (r % n)
    BY <2>1, <2>2, DivisionFacts
  <2> HIDE DEF q, r
  <2>6. q \div n = r \div n /\ q % n = r % n <=> q = r
    BY <2>5
  <2> QED BY <2>4, <2>6 DEF q, r, n, B
<1> QED BY <1>1, Invariance, PTL

(* What a verbose line says of its cache line hangs together. *)
THEOREM VerboseLinesConsistent == Spec => []VerboseConsistent
BY Invariance, PTL DEF IInv

(* An exit with status 0 has printed a summary that covers the whole trace *)
(* and the cache it left, and has released everything.                     *)
THEOREM SummaryIsWhole == Spec => []SummaryCovers
BY Invariance, PTL DEF IInv

(* Every operation of the range the user asked for gets its line. *)
THEOREM RangeIsShown == Spec => VerboseComplete
<1>1. ASSUME IInv, [Next]_vars, time' # time, ValidRange, time \in argv.n .. argv.m
      PROVE  verboso' # NoOutput /\ verboso'.indice = time
  <2>1. PICK op \in Operation, address \in Addresses : Simulate(op, address)
    BY <1>1 DEF Next, vars, simulation, ParseArgs, CrearCache, Fopen, BadTraceLine,
                EndOfTrace
  <2>2. PICK a \in ParseAddress(address, cache.S, cache.B) :
          verboso' = IF InVerboseRange(time + 1)
                     THEN PrintVerboso(Verboso(a), cache.E) ELSE verboso
    BY <2>1 DEF Simulate
  <2>3. /\ cache.n = argv.n /\ cache.m = argv.m
        /\ argv.n \in Int /\ argv.m \in Int /\ time \in Int
    BY <1>1, <2>1, CachesimAssumption
       DEF IInv, Stages, Copied, Counters, Simulate, ValidRange, Argv
  <2>4. InVerboseRange(time + 1)
    BY <1>1, <2>3 DEF InVerboseRange, ValidRange
  <2>5. verboso' = PrintVerboso(Verboso(a), cache.E)
    BY <2>2, <2>4
  <2>6. verboso'.indice = time /\ "indice" \in DOMAIN verboso'
    BY <2>5 DEF PrintVerboso, Verboso
  <2>7. "indice" \notin DOMAIN NoOutput
    BY DEF NoOutput
  <2> QED BY <2>6, <2>7
<1> QED BY <1>1, Invariance, PTL DEF Spec, VerboseComplete

=============================================================================
