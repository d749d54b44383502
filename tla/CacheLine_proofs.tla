-------------------------- MODULE CacheLine_proofs --------------------------
(***************************************************************************)
(* Facts about the operators of CacheLine, for sets of any number of lines,*)
(* which the proofs about Cache, Cachesim and FetchLoop share.             *)
(***************************************************************************)
EXTENDS CacheLine, FiniteSetTheorems, WellFoundedInduction, TLAPS

(* A nonempty set of naturals has a least element, and it is Min.          *)
LEMMA NatHasLeast ==
  ASSUME NEW T \in SUBSET Nat, T # {}
  PROVE  \E m \in T : \A k \in T : m <= k
<1> DEFINE Less == OpToRel(<, Nat)
<1>1. IsWellFoundedOn(Less, Nat)
  BY NatLessThanWellFounded
<1>2. PICK m \in T : \A k \in T : <<k, m>> \notin Less
  <2> HIDE DEF Less
  <2> QED
    BY <1>1, WFMin
<1>3. ASSUME NEW k \in T PROVE m <= k
  <2>1. k \in Nat /\ m \in Nat
    OBVIOUS
  <2>2. <<k, m>> \in Less <=> k < m
    BY <2>1 DEF OpToRel
  <2>3. ~(k < m)
    BY <1>2, <2>2
  <2>4. QED
    BY <2>1, <2>3
<1>4. QED
  BY <1>3

LEMMA MinIsLeast ==
  ASSUME NEW T \in SUBSET Nat, T # {}
  PROVE  /\ Min(T) \in T
         /\ \A y \in T : Min(T) <= y
BY NatHasLeast DEF Min

LEMMA LeastIsMin ==
  ASSUME NEW T \in SUBSET Nat, NEW m \in T, \A y \in T : m <= y
  PROVE  Min(T) = m
<1>1. Min(T) \in T /\ Min(T) <= m
  BY MinIsLeast
<1>2. m <= Min(T) /\ m \in Nat /\ Min(T) \in Nat
  BY <1>1
<1>3. QED
  BY <1>1, <1>2

(* Adding a number above all of them leaves the minimum as it is.          *)
LEMMA MinOfMore ==
  ASSUME NEW T \in SUBSET Nat, NEW n \in Nat, T # {}, \A k \in T : k < n
  PROVE  Min(T \union {n}) = Min(T)
<1>1. Min(T) \in T /\ \A y \in T : Min(T) <= y
  BY MinIsLeast
<1>2. Min(T) \in Nat /\ Min(T) < n
  BY <1>1
<1>3. \A y \in T \union {n} : Min(T) <= y
  BY <1>1, <1>2
<1>4. QED
  BY <1>1, <1>3, LeastIsMin

----------------------------------------------------------------------------
(* Among any lines of a set there is a least recently used one. *)
LEMMA LeastRecentExists ==
  ASSUME NEW n \in Nat, NEW lines \in [0 .. n-1 -> Line],
         NEW J \in SUBSET (0 .. n-1), J # {}
  PROVE  LeastRecent(lines, J) # {}
<1> DEFINE T == {lines[j].time_used : j \in J}
<1>1. T \in SUBSET Nat /\ T # {}
  BY DEF Line
<1>2. PICK t \in T : \A u \in T : t <= u
  <2> HIDE DEF T
  <2> QED BY <1>1, NatHasLeast
<1>3. PICK j \in J : lines[j].time_used = t
  BY <1>2
<1> QED BY <1>2, <1>3 DEF LeastRecent

(* fetch_line: the line it returns of a set of n lines, in each of its     *)
(* four cases.                                                             *)
LEMMA FetchLineFacts ==
  ASSUME NEW n \in Nat \ {0}, NEW lines \in [0 .. n-1 -> Line], NEW tag
  PROVE  LET k == FetchLine(lines, tag)
         IN  /\ k \in 0 .. n-1
             /\ Hits(lines, tag) # {} => k \in Hits(lines, tag)
             /\ Hits(lines, tag) = {} /\ Invalid(lines) # {} =>
                  k \in Invalid(lines) /\ \A j \in Invalid(lines) : k <= j
             /\ Hits(lines, tag) = {} /\ Invalid(lines) = {} /\ Evictable(lines) # {} =>
                  k \in LeastRecent(lines, Evictable(lines))
<1> DEFINE k == FetchLine(lines, tag)
<1>1. /\ 0 .. n-1 \subseteq Nat /\ 0 \in 0 .. n-1
      /\ Hits(lines, tag) \subseteq 0 .. n-1
      /\ Invalid(lines) \subseteq 0 .. n-1
      /\ Evictable(lines) \subseteq 0 .. n-1
      /\ LeastRecent(lines, Evictable(lines)) \subseteq Evictable(lines)
  BY DEF Hits, Valid, Invalid, Evictable, LeastRecent
<1>2. CASE Hits(lines, tag) # {}
  BY <1>1, <1>2, MinIsLeast DEF FetchLine
<1>3. CASE Hits(lines, tag) = {} /\ Invalid(lines) # {}
  BY <1>1, <1>3, MinIsLeast DEF FetchLine
<1>4. CASE Hits(lines, tag) = {} /\ Invalid(lines) = {} /\ Evictable(lines) # {}
  <2>1. LeastRecent(lines, Evictable(lines)) # {}
    BY <1>1, <1>4, LeastRecentExists
  <2> QED BY <1>1, <1>4, <2>1, MinIsLeast DEF FetchLine
<1>5. CASE Hits(lines, tag) = {} /\ Invalid(lines) = {} /\ Evictable(lines) = {}
  BY <1>1, <1>5 DEF FetchLine
<1> QED BY <1>2, <1>3, <1>4, <1>5

----------------------------------------------------------------------------
(* The counters after one operation, by case. *)
LEMMA ChargedCounters ==
  ASSUME NEW st \in Stats, NEW op \in Operation, NEW caso \in Caso
  PROVE  LET c    == Charged(st, op, caso)
             m    == One(caso # "1")
             d    == One(caso = "2b")
             cost == 1 + PENALTY * (m + d)
         IN  /\ c \in Stats
             /\ d \in 0 .. m /\ m \in 0 .. 1
             /\ Cycles(caso) = cost
             /\ op = "WRITE" =>
                  /\ c.stores = st.stores + 1 /\ c.cycles_w = st.cycles_w + cost
                  /\ c.wmiss = st.wmiss + m /\ c.dirty_wmiss = st.dirty_wmiss + d
                  /\ c.loads = st.loads /\ c.cycles_r = st.cycles_r
                  /\ c.rmiss = st.rmiss /\ c.dirty_rmiss = st.dirty_rmiss
             /\ op = "READ" =>
                  /\ c.loads = st.loads + 1 /\ c.cycles_r = st.cycles_r + cost
                  /\ c.rmiss = st.rmiss + m /\ c.dirty_rmiss = st.dirty_rmiss + d
                  /\ c.stores = st.stores /\ c.cycles_w = st.cycles_w
                  /\ c.wmiss = st.wmiss /\ c.dirty_wmiss = st.dirty_wmiss
<1> USE CacheLineAssumption DEF Caso, Operation, Cycles, One, Stats
<1>1. /\ One(caso = "2b") \in 0 .. One(caso # "1")
      /\ One(caso # "1") \in 0 .. 1
      /\ Cycles(caso) = 1 + PENALTY * (One(caso # "1") + One(caso = "2b"))
      /\ Cycles(caso) \in Nat
  <2>1. CASE caso = "1"
    BY <2>1
  <2>2. CASE caso = "2a"
    BY <2>2
  <2>3. CASE caso = "2b"
    BY <2>3
  <2> QED BY <2>1, <2>2, <2>3
<1> DEFINE m  == One(caso # "1")
           d  == One(caso = "2b")
           cy == Cycles(caso)
<1>2. m \in Nat /\ d \in Nat /\ cy \in Nat
  BY <1>1
<1>3. CASE op = "WRITE"
  <2>1. Charged(st, op, caso) =
          [st EXCEPT !.stores = @ + 1, !.cycles_w = @ + cy,
                     !.wmiss = @ + m, !.dirty_wmiss = @ + d]
    BY <1>3 DEF Charged
  <2> HIDE DEF m, d, cy, One, Cycles
  <2>2. Charged(st, op, caso) \in Stats
    <3>1. /\ st.stores + 1 \in Nat /\ st.cycles_w + cy \in Nat
          /\ st.wmiss + m \in Nat /\ st.dirty_wmiss + d \in Nat
      BY <1>2
    <3> DEFINE a == st.stores + 1
               b == st.cycles_w + cy
               e == st.wmiss + m
               f == st.dirty_wmiss + d
    <3>2. Charged(st, op, caso) = [st EXCEPT !.stores = a, !.cycles_w = b, !.wmiss = e, !.dirty_wmiss = f]
      BY <2>1
    <3>3. a \in Nat /\ b \in Nat /\ e \in Nat /\ f \in Nat
      BY <3>1
    <3> HIDE DEF a, b, e, f
    <3> QED BY <3>2, <3>3
  <2> QED BY <1>1, <1>2, <1>3, <2>1, <2>2 DEF m, d, cy
<1>4. CASE op = "READ"
  <2>1. Charged(st, op, caso) =
          [st EXCEPT !.loads = @ + 1, !.cycles_r = @ + cy,
                     !.rmiss = @ + m, !.dirty_rmiss = @ + d]
    BY <1>4 DEF Charged
  <2> HIDE DEF m, d, cy, One, Cycles
  <2>2. Charged(st, op, caso) \in Stats
    <3>1. /\ st.loads + 1 \in Nat /\ st.cycles_r + cy \in Nat
          /\ st.rmiss + m \in Nat /\ st.dirty_rmiss + d \in Nat
      BY <1>2
    <3> DEFINE a == st.loads + 1
               b == st.cycles_r + cy
               e == st.rmiss + m
               f == st.dirty_rmiss + d
    <3>2. Charged(st, op, caso) = [st EXCEPT !.loads = a, !.cycles_r = b, !.rmiss = e, !.dirty_rmiss = f]
      BY <2>1
    <3>3. a \in Nat /\ b \in Nat /\ e \in Nat /\ f \in Nat
      BY <3>1
    <3> HIDE DEF a, b, e, f
    <3> QED BY <3>2, <3>3
  <2> QED BY <1>1, <1>2, <1>4, <2>1, <2>2 DEF m, d, cy
<1> QED BY <1>3, <1>4

LEMMA CasoType ==
  ASSUME NEW line, NEW tag
  PROVE  IdCaso(line, tag) \in Caso
BY DEF IdCaso, Caso

=============================================================================
