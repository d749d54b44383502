---------------------------- MODULE Cache_proofs ----------------------------
(***************************************************************************)
(* Proofs about Cache, for every geometry, set of tags and trace length.   *)
(***************************************************************************)
EXTENDS CacheHistory, CacheLine_proofs

(* fetch_line: the line it returns, in each of its four cases. *)
LEMMA FetchLineCases ==
  ASSUME NEW lines \in [Lines -> Line], NEW tag
  PROVE  LET k == FetchLine(lines, tag)
         IN  /\ k \in Lines
             /\ Hits(lines, tag) # {} => k \in Hits(lines, tag)
             /\ Hits(lines, tag) = {} /\ Invalid(lines) # {} =>
                  k \in Invalid(lines) /\ \A j \in Invalid(lines) : k <= j
             /\ Hits(lines, tag) = {} /\ Invalid(lines) = {} /\ Evictable(lines) # {} =>
                  k \in LeastRecent(lines, Evictable(lines))
BY FetchLineFacts, CacheAssumption DEF Lines

----------------------------------------------------------------------------
(* The inductive invariant: the safety invariants of Cache need each other *)
(* and nothing else.                                                       *)
IInv == TypeOK /\ UniqueTags /\ UniqueTimes /\ FilledInOrder /\ Accounting

(* An access replaces one line of one set by its updated form. *)
LEMMA AccessShape ==
  ASSUME TypeOK, NEW op \in Operation, NEW i \in Sets, NEW tag \in Tags,
         Access(op, i, tag)
  PROVE  LET k == FetchLine(sets[i], tag)
             u == Updated(sets[i][k], op, tag, time)
         IN  /\ k \in Lines
             /\ u \in Line
             /\ u.tag = tag /\ u.valid_bit /\ u.time_used = time
             /\ sets' \in [Sets -> [Lines -> Line]]
             /\ \A i2 \in Sets, j \in Lines :
                  sets'[i2][j] = IF i2 = i /\ j = k THEN u ELSE sets[i2][j]
             /\ time < MaxOps /\ time' = time + 1 /\ time \in Nat
             /\ stats' = Charged(stats, op, IdCaso(sets[i][k], tag))
<1> DEFINE k == FetchLine(sets[i], tag)
           u == Updated(sets[i][k], op, tag, time)
<1>1. k \in Lines
  BY FetchLineCases DEF TypeOK
<1>2. sets[i][k] \in Line
  BY <1>1 DEF TypeOK
<1>3. u \in Line /\ u.tag = tag /\ u.valid_bit /\ u.time_used = time
  BY <1>2, CacheAssumption DEF Updated, Line, TypeOK
<1>4. sets' = [sets EXCEPT ![i][k] = u] /\ time' = time + 1 /\ time < MaxOps
      /\ stats' = Charged(stats, op, IdCaso(sets[i][k], tag))
  BY DEF Access, DoCacheOp
<1> HIDE DEF k, u
<1>5. sets' \in [Sets -> [Lines -> Line]]
  BY <1>1, <1>3, <1>4 DEF TypeOK
<1>6. \A i2 \in Sets, j \in Lines :
        sets'[i2][j] = IF i2 = i /\ j = k THEN u ELSE sets[i2][j]
  BY <1>1, <1>3, <1>4 DEF TypeOK
<1> QED BY <1>1, <1>3, <1>4, <1>5, <1>6 DEF k, u, TypeOK

LEMMA InitIInv == Init => IInv
<1> SUFFICES ASSUME Init PROVE IInv
  OBVIOUS
<1>1. EmptyLine \in Line
  BY CacheLineAssumption DEF EmptyLine, Line, Tag
<1>2. sets = [i \in Sets |-> [j \in Lines |-> EmptyLine]]
  BY DEF Init, CrearSets, Sets, Lines
<1>3. TypeOK
  BY <1>1, <1>2, CacheAssumption DEF Init, TypeOK, CrearStats, Stats
<1>4. \A i \in Sets : Valid(sets[i]) = {}
  BY <1>2 DEF Valid, EmptyLine
<1>5. UniqueTags /\ UniqueTimes
  BY <1>4 DEF UniqueTags, UniqueTimes
<1>6. FilledInOrder
  BY <1>2 DEF FilledInOrder, EmptyLine
<1>7. Accounting
  BY CacheLineAssumption DEF Init, Accounting, CrearStats
<1> QED BY <1>3, <1>5, <1>6, <1>7 DEF IInv

LEMMA NextIInv == IInv /\ [Next]_vars => IInv'
<1> SUFFICES ASSUME IInv, [Next]_vars PROVE IInv'
  OBVIOUS
<1>1. CASE UNCHANGED vars
  BY <1>1 DEF IInv, TypeOK, UniqueTags, UniqueTimes, FilledInOrder, Accounting, vars
<1>2. ASSUME NEW op \in Operation, NEW i \in Sets, NEW tag \in Tags,
             Access(op, i, tag)
      PROVE  IInv'
  <2> DEFINE k == FetchLine(sets[i], tag)
             u == Updated(sets[i][k], op, tag, time)
             caso == IdCaso(sets[i][k], tag)
  <2>1. /\ k \in Lines
        /\ u \in Line
        /\ u.tag = tag /\ u.valid_bit /\ u.time_used = time
        /\ sets' \in [Sets -> [Lines -> Line]]
        /\ \A i2 \in Sets, j \in Lines :
             sets'[i2][j] = IF i2 = i /\ j = k THEN u ELSE sets[i2][j]
        /\ time < MaxOps /\ time' = time + 1 /\ time \in Nat
        /\ stats' = Charged(stats, op, caso)
    BY <1>2, AccessShape DEF IInv
  <2>2. /\ Hits(sets[i], tag) # {} => k \in Hits(sets[i], tag)
        /\ Hits(sets[i], tag) = {} /\ Invalid(sets[i]) # {} =>
             k \in Invalid(sets[i]) /\ \A j \in Invalid(sets[i]) : k <= j
    BY FetchLineCases DEF IInv, TypeOK
  <2>3. stats \in Stats /\ caso \in Caso
    BY CasoType DEF IInv, TypeOK
  <2> HIDE DEF k, u, caso
  <2>4. TypeOK'
    <3>1. stats' \in Stats
      BY <2>1, <2>3, ChargedCounters
    <3>2. time' \in 0 .. MaxOps
      BY <2>1, CacheAssumption
    <3> QED BY <2>1, <3>1, <3>2 DEF TypeOK
  <2>5. UniqueTags'
    BY <2>1, <2>2 DEF IInv, TypeOK, UniqueTags, Valid, Hits
  <2>6. UniqueTimes'
    <3> SUFFICES ASSUME NEW i2 \in Sets, NEW j \in Lines, sets'[i2][j].valid_bit
                 PROVE  /\ sets'[i2][j].time_used < time'
                        /\ \A l \in Lines :
                             sets'[i2][l].valid_bit /\ j # l =>
                               sets'[i2][j].time_used # sets'[i2][l].time_used
      BY <2>1 DEF UniqueTimes, Valid
    <3>1. \A l \in Lines : sets[i2][l].valid_bit =>
            sets[i2][l].time_used \in Nat /\ sets[i2][l].time_used < time
      BY DEF IInv, TypeOK, UniqueTimes, Valid, Line
    <3>2. \A l, l2 \in Lines :
            sets[i2][l].valid_bit /\ sets[i2][l2].valid_bit /\ l # l2 =>
              sets[i2][l].time_used # sets[i2][l2].time_used
      BY DEF IInv, TypeOK, UniqueTimes, Valid
    <3> QED BY <2>1, <3>1, <3>2
  <2>7. FilledInOrder'
    <3> SUFFICES ASSUME NEW i2 \in Sets, NEW j \in Lines, ~sets'[i2][j].valid_bit
                 PROVE  /\ sets'[i2][j] = EmptyLine
                        /\ \A l \in Lines : l > j => ~sets'[i2][l].valid_bit
      BY DEF FilledInOrder
    <3>1. sets'[i2][j] = sets[i2][j] /\ ~(i2 = i /\ j = k)
      BY <2>1
    <3>2. sets[i2][j] = EmptyLine /\ \A l \in Lines : l > j => ~sets[i2][l].valid_bit
      BY <3>1 DEF IInv, FilledInOrder
    <3>3. i2 = i => k <= j
      <4> SUFFICES ASSUME i2 = i PROVE k <= j
        OBVIOUS
      <4>1. j \in Invalid(sets[i])
        BY <3>1 DEF Invalid, IInv, TypeOK
      <4>2. CASE Hits(sets[i], tag) = {}
        BY <2>2, <4>1, <4>2
      <4>3. CASE Hits(sets[i], tag) # {}
        <5>1. sets[i][k].valid_bit
          BY <2>2, <4>3 DEF Hits, Valid
        <5> QED BY <2>1, <3>2, <5>1, CacheAssumption DEF Lines
      <4> QED BY <4>2, <4>3
    <3>4. ASSUME NEW l \in Lines, l > j  PROVE ~sets'[i2][l].valid_bit
      <4>1. ~(i2 = i /\ l = k)
        BY <2>1, <3>3, <3>4, CacheAssumption DEF Lines
      <4> QED BY <2>1, <3>2, <3>4, <4>1
    <3> QED BY <3>1, <3>2, <3>4
  <2>8. Accounting'
    <3> DEFINE m == One(caso # "1")
               d == One(caso = "2b")
               pm == PENALTY * (m + d)
               R == stats.rmiss + stats.dirty_rmiss
               W == stats.wmiss + stats.dirty_wmiss
    <3>1. /\ d \in 0 .. m /\ m \in 0 .. 1
          /\ stats' \in Stats
          /\ op = "WRITE" =>
               /\ stats'.stores = stats.stores + 1
               /\ stats'.cycles_w = stats.cycles_w + (1 + pm)
               /\ stats'.wmiss = stats.wmiss + m
               /\ stats'.dirty_wmiss = stats.dirty_wmiss + d
               /\ stats'.loads = stats.loads /\ stats'.cycles_r = stats.cycles_r
               /\ stats'.rmiss = stats.rmiss /\ stats'.dirty_rmiss = stats.dirty_rmiss
          /\ op = "READ" =>
               /\ stats'.loads = stats.loads + 1
               /\ stats'.cycles_r = stats.cycles_r + (1 + pm)
               /\ stats'.rmiss = stats.rmiss + m
               /\ stats'.dirty_rmiss = stats.dirty_rmiss + d
               /\ stats'.stores = stats.stores /\ stats'.cycles_w = stats.cycles_w
               /\ stats'.wmiss = stats.wmiss /\ stats'.dirty_wmiss = stats.dirty_wmiss
      BY <2>1, <2>3, ChargedCounters
    <3> HIDE DEF m, d
    <3>2. R \in Nat /\ W \in Nat /\ pm \in Nat /\ PENALTY * R \in Nat /\ PENALTY * W \in Nat
      BY <2>3, <3>1, CacheLineAssumption DEF Stats
    <3>3. /\ PENALTY * (R + (m + d)) = PENALTY * R + pm
          /\ PENALTY * (W + (m + d)) = PENALTY * W + pm
      BY <3>1, <3>2, CacheLineAssumption
    <3>4. /\ R + (m + d) = stats.rmiss + m + (stats.dirty_rmiss + d)
          /\ W + (m + d) = stats.wmiss + m + (stats.dirty_wmiss + d)
      BY <2>3, <3>1 DEF Stats
    <3>5. /\ stats.loads + stats.stores = time
          /\ stats.dirty_rmiss <= stats.rmiss /\ stats.rmiss <= stats.loads
          /\ stats.dirty_wmiss <= stats.wmiss /\ stats.wmiss <= stats.stores
          /\ stats.cycles_r = stats.loads + PENALTY * R
          /\ stats.cycles_w = stats.stores + PENALTY * W
      BY DEF IInv, Accounting
    <3>6. CASE op = "WRITE"
      <4>1. PENALTY * (stats'.wmiss + stats'.dirty_wmiss) = PENALTY * W + pm
        BY <3>1, <3>3, <3>4, <3>6
      <4>2. PENALTY * (stats'.rmiss + stats'.dirty_rmiss) = PENALTY * R
        BY <3>1, <3>6
      <4> HIDE DEF pm, R, W
      <4> QED BY <2>1, <2>3, <3>1, <3>2, <3>5, <3>6, <4>1, <4>2 DEF Accounting, Stats
    <3>7. CASE op = "READ"
      <4>1. PENALTY * (stats'.rmiss + stats'.dirty_rmiss) = PENALTY * R + pm
        BY <3>1, <3>3, <3>4, <3>7
      <4>2. PENALTY * (stats'.wmiss + stats'.dirty_wmiss) = PENALTY * W
        BY <3>1, <3>7
      <4> HIDE DEF pm, R, W
      <4>3. /\ stats'.loads + stats'.stores = time'
            /\ stats'.dirty_rmiss <= stats'.rmiss /\ stats'.rmiss <= stats'.loads
            /\ stats'.dirty_wmiss <= stats'.wmiss /\ stats'.wmiss <= stats'.stores
        BY <2>1, <2>3, <3>1, <3>5, <3>7 DEF Stats
      <4>4. /\ stats'.cycles_r = stats'.loads + (PENALTY * R + pm)
            /\ stats'.cycles_w = stats'.stores + PENALTY * W
        BY <2>3, <3>1, <3>2, <3>5, <3>7 DEF Stats
      <4> QED BY <4>1, <4>2, <4>3, <4>4 DEF Accounting
    <3> QED BY <3>6, <3>7 DEF Operation
  <2> QED BY <2>4, <2>5, <2>6, <2>7, <2>8 DEF IInv
<1> QED BY <1>1, <1>2 DEF Next

LEMMA Invariance == Spec => []IInv
BY InitIInv, NextIInv, PTL DEF Spec

(* The lines keep their types and the clock stays within the trace. *)
THEOREM TypeCorrect == Spec => []TypeOK
BY Invariance, PTL DEF IInv

(* No block is ever in two lines of its set. *)
THEOREM NoDuplicates == Spec => []UniqueTags
BY Invariance, PTL DEF IInv

(* Last-used times are distinct and in the past. *)
THEOREM DistinctTimes == Spec => []UniqueTimes
BY Invariance, PTL DEF IInv

(* Sets fill in index order, and a line never used is as crear_cache left  *)
(* it.                                                                     *)
THEOREM FillOrder == Spec => []FilledInOrder
BY Invariance, PTL DEF IInv

(* The summary adds up, for every geometry, trace and penalty. *)
THEOREM SummaryAddsUp == Spec => []Accounting
BY Invariance, PTL DEF IInv

----------------------------------------------------------------------------
LEMMA LeastRecentVictim ==
  ASSUME IInv, MaxOps <= MAX_TIME
  PROVE  VictimIsLeastRecent
<1> SUFFICES ASSUME NEW i \in Sets, NEW t \in Tags,
                    Hits(sets[i], t) = {}, Invalid(sets[i]) = {}
             PROVE  FetchLine(sets[i], t) \in LeastRecent(sets[i], Lines)
  BY DEF VictimIsLeastRecent
<1>1. sets[i] \in [Lines -> Line] /\ time \in Nat /\ time <= MaxOps
  BY CacheAssumption DEF IInv, TypeOK
<1>2. Valid(sets[i]) = Lines
  BY <1>1 DEF Valid, Invalid
<1>3. ASSUME NEW j \in Lines PROVE sets[i][j].time_used < MAX_TIME
  <2>1. sets[i][j].time_used < time
    BY <1>2 DEF IInv, UniqueTimes
  <2>2. sets[i][j].time_used \in Nat
    BY <1>1 DEF Line
  <2>3. MaxOps \in Nat /\ MAX_TIME \in Nat
    BY CacheAssumption, CacheLineAssumption
  <2> QED BY <1>1, <2>1, <2>2, <2>3
<1>4. Evictable(sets[i]) = Lines /\ Lines # {}
  BY <1>2, <1>3, CacheAssumption DEF Evictable, Lines
<1> QED BY <1>1, <1>4, FetchLineCases

(* In a trace of at most MAX_TIME operations every line of a full set is a *)
(* candidate, so fetch_line evicts the least recently used.  Beyond that   *)
(* length it need not: the bound is what the constant costs.               *)
THEOREM EvictsLeastRecent ==
  ASSUME MaxOps <= MAX_TIME
  PROVE  Spec => []VictimIsLeastRecent
<1>1. IInv => VictimIsLeastRecent
  BY LeastRecentVictim
<1> QED BY <1>1, Invariance, PTL

----------------------------------------------------------------------------
(* Blocks are conserved: what an access does to the sets of valid and of   *)
(* dirty lines, and to the two counters the summary multiplies by B.       *)
LEMMA FiniteLines ==
  /\ IsFiniteSet(ValidLines) /\ Cardinality(ValidLines) \in Nat
  /\ IsFiniteSet(DirtyLines) /\ Cardinality(DirtyLines) \in Nat
<1>1. IsFiniteSet(Sets) /\ IsFiniteSet(Lines)
  BY FS_Interval, CacheAssumption DEF Sets, Lines
<1>2. IsFiniteSet(Sets \X Lines)
  BY <1>1, FS_Product
<1>3. ValidLines \in SUBSET (Sets \X Lines) /\ DirtyLines \in SUBSET (Sets \X Lines)
  BY DEF ValidLines, DirtyLines
<1> QED BY <1>2, <1>3, FS_Subset, FS_CardinalityType

LEMMA NextConserves ==
  IInv /\ BlocksConserved /\ [Next]_vars => BlocksConserved'
<1> SUFFICES ASSUME IInv, BlocksConserved, [Next]_vars PROVE BlocksConserved'
  OBVIOUS
<1>1. CASE UNCHANGED vars
  BY <1>1 DEF BlocksConserved, ValidLines, DirtyLines, Misses, DirtyMisses, vars
<1>2. ASSUME NEW op \in Operation, NEW i \in Sets, NEW tag \in Tags,
             Access(op, i, tag)
      PROVE  BlocksConserved'
  <2> DEFINE k == FetchLine(sets[i], tag)
             line == sets[i][k]
             u == Updated(line, op, tag, time)
             caso == IdCaso(line, tag)
             p == <<i, k>>
             m == One(caso # "1")
             d == One(caso = "2b")
             w == One(op = "WRITE")
  <2>1. /\ k \in Lines /\ p \in Sets \X Lines
        /\ u \in Line /\ u.valid_bit
        /\ sets' \in [Sets -> [Lines -> Line]]
        /\ \A i2 \in Sets, j \in Lines :
             sets'[i2][j] = IF i2 = i /\ j = k THEN u ELSE sets[i2][j]
        /\ stats' = Charged(stats, op, caso)
    BY <1>2, AccessShape DEF IInv
  <2>2. line \in Line /\ stats \in Stats /\ caso \in Caso
    BY <2>1, CasoType DEF IInv, TypeOK
  <2>3. /\ p \in ValidLines <=> line.valid_bit
        /\ p \in DirtyLines <=> line.dirty_bit
        /\ DirtyLines \subseteq ValidLines
    BY <2>1 DEF ValidLines, DirtyLines, BlocksConserved
  <2>4. ValidLines' = ValidLines \cup {p}
    <3> HIDE DEF u, k
    <3> QED BY <2>1 DEF ValidLines
  <2>5. DirtyLines' = IF u.dirty_bit THEN DirtyLines \cup {p} ELSE DirtyLines \ {p}
    <3> HIDE DEF u, k
    <3> QED BY <2>1 DEF DirtyLines
  <2>6. /\ Misses' = Misses + m
        /\ DirtyMisses' = DirtyMisses + d
        /\ stats'.stores = stats.stores + w
        /\ Misses \in Nat /\ DirtyMisses \in Nat /\ stats.stores \in Nat
    <3> HIDE DEF caso
    <3>1. m \in Nat /\ d \in Nat
      BY DEF One
    <3>2. CASE op = "WRITE"
      BY <2>1, <2>2, <3>1, <3>2, ChargedCounters DEF Misses, DirtyMisses, Stats, One
    <3>3. CASE op = "READ"
      BY <2>1, <2>2, <3>1, <3>3, ChargedCounters DEF Misses, DirtyMisses, Stats, One
    <3> QED BY <3>2, <3>3 DEF Operation
  <2>7. u.dirty_bit <=> op = "WRITE" \/ (line.dirty_bit /\ caso # "2b")
    BY <2>2 DEF Updated, Line
  <2>8. /\ Cardinality(ValidLines') =
             IF line.valid_bit THEN Cardinality(ValidLines) ELSE Cardinality(ValidLines) + 1
        /\ Cardinality(DirtyLines') =
             IF u.dirty_bit
             THEN IF line.dirty_bit THEN Cardinality(DirtyLines) ELSE Cardinality(DirtyLines) + 1
             ELSE IF line.dirty_bit THEN Cardinality(DirtyLines) - 1 ELSE Cardinality(DirtyLines)
    BY <2>3, <2>4, <2>5, FiniteLines, FS_AddElement, FS_RemoveElement
  <2>9. /\ line.dirty_bit => line.valid_bit
        /\ caso = "1" => line.valid_bit
        /\ caso = "2a" => ~line.dirty_bit
        /\ caso = "2b" => line.valid_bit /\ line.dirty_bit
    BY <2>3 DEF IdCaso
  <2>10. DirtyLines' \subseteq ValidLines'
    BY <2>3, <2>4, <2>5
  <2>11. /\ Cardinality(ValidLines) + DirtyMisses <= Misses
         /\ Cardinality(DirtyLines) + DirtyMisses <= stats.stores
    BY DEF BlocksConserved
  <2> HIDE DEF k, line, u, caso
  <2>12. /\ Cardinality(ValidLines') + DirtyMisses' <= Misses'
         /\ Cardinality(DirtyLines') + DirtyMisses' <= stats'.stores
    <3>1. CASE caso = "1"
      BY <3>1, <2>6, <2>7, <2>8, <2>9, <2>11, FiniteLines DEF One
    <3>2. CASE caso = "2a"
      BY <3>2, <2>6, <2>7, <2>8, <2>9, <2>11, FiniteLines DEF One
    <3>3. CASE caso = "2b"
      BY <3>3, <2>6, <2>7, <2>8, <2>9, <2>11, FiniteLines DEF One
    <3> QED BY <2>2, <3>1, <3>2, <3>3 DEF Caso
  <2> QED BY <2>10, <2>12 DEF BlocksConserved
<1> QED BY <1>1, <1>2 DEF Next

(* Bytes read cover the blocks held and written back, bytes written are of *)
(* blocks some store made dirty: for every geometry and every trace.       *)
THEOREM Conservation == Spec => []BlocksConserved
<1>1. Init => BlocksConserved
  <2> SUFFICES ASSUME Init PROVE BlocksConserved
    OBVIOUS
  <2>1. ValidLines = {} /\ DirtyLines = {}
    BY DEF Init, CrearSets, EmptyLine, ValidLines, DirtyLines, Sets, Lines
  <2> QED BY <2>1, FS_EmptySet
          DEF Init, CrearStats, BlocksConserved, Misses, DirtyMisses
<1> QED BY <1>1, NextConserves, Invariance, PTL DEF Spec

----------------------------------------------------------------------------
(***************************************************************************)
(* Cache implements LRU, in every trace of at most MAX_TIME operations.    *)
(***************************************************************************)

(* Every block in the cache was named by the trace. *)
TagsFromTrace == \A i \in Sets : \A j \in Valid(sets[i]) : sets[i][j].tag \in Tags

LEMMA TagsInvariance == Spec => []TagsFromTrace
<1>1. Init => TagsFromTrace
  BY DEF Init, CrearSets, EmptyLine, Valid, TagsFromTrace, Sets
<1>2. TypeOK /\ TagsFromTrace /\ [Next]_vars => TagsFromTrace'
  <2> SUFFICES ASSUME TypeOK, TagsFromTrace, [Next]_vars PROVE TagsFromTrace'
    OBVIOUS
  <2>1. CASE UNCHANGED vars
    BY <2>1 DEF TagsFromTrace, vars
  <2>2. ASSUME NEW op \in Operation, NEW i \in Sets, NEW tag \in Tags,
               Access(op, i, tag)
        PROVE  TagsFromTrace'
    BY <2>2, AccessShape DEF TagsFromTrace, Valid, TypeOK
  <2> QED BY <2>1, <2>2 DEF Next
<1> QED BY <1>1, <1>2, TypeCorrect, PTL DEF Spec

----------------------------------------------------------------------------
(* One set before an access ("lines") and after it ("next"): line k now    *)
(* holds block t, and is the most recently used.                           *)
Replaced(lines, next, k, t, now) ==
  /\ lines \in [Lines -> Line] /\ next \in [Lines -> Line]
  /\ k \in Lines
  /\ \A j \in Lines : j # k => next[j] = lines[j]
  /\ next[k].valid_bit /\ next[k].tag = t /\ next[k].time_used = now
  /\ \A j \in Lines : lines[j].valid_bit => lines[j].time_used < now
  /\ \A j, l \in Lines : lines[j].valid_bit /\ lines[l].valid_bit /\ j # l =>
       lines[j].tag # lines[l].tag /\ lines[j].time_used # lines[l].time_used
  /\ \A j \in Lines : lines[j].valid_bit /\ lines[j].tag = t => j = k

(* The blocks that stay: all but the one line k held, unless that is t. *)
Kept(lines, k, t) ==
  Resident(lines) \ (IF lines[k].valid_bit /\ lines[k].tag # t THEN {lines[k].tag} ELSE {})

LEMMA KeptLines ==
  ASSUME NEW lines, NEW next, NEW k, NEW t, NEW now \in Nat,
         Replaced(lines, next, k, t, now)
  PROVE  \A x : x # t =>
           (x \in Kept(lines, k, t) <=>
              \E j \in Lines : j # k /\ lines[j].valid_bit /\ lines[j].tag = x)
BY DEF Replaced, Kept, Resident, Valid

LEMMA ResidentAfter ==
  ASSUME NEW lines, NEW next, NEW k, NEW t, NEW now \in Nat,
         Replaced(lines, next, k, t, now)
  PROVE  Resident(next) = Kept(lines, k, t) \cup {t}
<1>1. ASSUME NEW x, x # t
      PROVE  x \in Resident(next) <=> x \in Kept(lines, k, t)
  BY <1>1, KeptLines DEF Replaced, Resident, Valid
<1>2. t \in Resident(next)
  BY DEF Replaced, Resident, Valid
<1> QED BY <1>1, <1>2

LEMMA DirtyAfter ==
  ASSUME NEW lines, NEW next, NEW k, NEW t, NEW now \in Nat, NEW write \in BOOLEAN,
         Replaced(lines, next, k, t, now),
         next[k].dirty_bit <=>
           write \/ (lines[k].valid_bit /\ lines[k].tag = t /\ lines[k].dirty_bit)
  PROVE  DirtyTags(next) =
           (DirtyTags(lines) \cap Kept(lines, k, t)) \cup {x \in {t} : write}
<1>1. ASSUME NEW x, x # t
      PROVE  x \in DirtyTags(next) <=> x \in DirtyTags(lines) \cap Kept(lines, k, t)
  <2>1. x \in DirtyTags(next) <=>
          \E j \in Lines : j # k /\ lines[j].valid_bit /\ lines[j].dirty_bit /\ lines[j].tag = x
    BY <1>1 DEF Replaced, DirtyTags, Valid
  <2>2. x \in DirtyTags(lines) <=>
          \E j \in Lines : lines[j].valid_bit /\ lines[j].dirty_bit /\ lines[j].tag = x
    BY DEF Replaced, DirtyTags, Valid
  <2> QED BY <1>1, <2>1, <2>2, KeptLines DEF Replaced
<1>2. t \in DirtyTags(next) <=> next[k].dirty_bit
  BY DEF Replaced, DirtyTags, Valid
<1>3. t \in DirtyTags(lines) \cap Kept(lines, k, t)
        <=> lines[k].valid_bit /\ lines[k].tag = t /\ lines[k].dirty_bit
  BY DEF Replaced, DirtyTags, Valid, Kept, Resident
<1> QED BY <1>1, <1>2, <1>3

LEMMA OlderPairs ==
  ASSUME NEW lines \in [Lines -> Line], NEW x, NEW y
  PROVE  <<x, y>> \in OlderTags(lines) <=>
           \E j, l \in Lines : /\ lines[j].valid_bit /\ lines[j].tag = x
                               /\ lines[l].valid_bit /\ lines[l].tag = y
                               /\ lines[j].time_used < lines[l].time_used
<1>1. \A j, l : <<j, l>>[1] = j /\ <<j, l>>[2] = l
  OBVIOUS
<1>2. ASSUME NEW j \in Lines, NEW l \in Lines,
             lines[j].valid_bit, lines[j].tag = x,
             lines[l].valid_bit, lines[l].tag = y,
             lines[j].time_used < lines[l].time_used
      PROVE  <<x, y>> \in OlderTags(lines)
  <2> DEFINE q == <<j, l>>
  <2>1. q \in Valid(lines) \X Valid(lines) /\ q[1] = j /\ q[2] = l
    BY <1>2 DEF Valid
  <2> QED BY <1>2, <2>1 DEF OlderTags
<1>3. ASSUME <<x, y>> \in OlderTags(lines)
      PROVE  \E j, l \in Lines : /\ lines[j].valid_bit /\ lines[j].tag = x
                                 /\ lines[l].valid_bit /\ lines[l].tag = y
                                 /\ lines[j].time_used < lines[l].time_used
  <2>1. PICK p \in Valid(lines) \X Valid(lines) :
          /\ lines[p[1]].time_used < lines[p[2]].time_used
          /\ <<x, y>> = <<lines[p[1]].tag, lines[p[2]].tag>>
    BY <1>3 DEF OlderTags
  <2> QED BY <2>1 DEF Valid
<1> QED BY <1>2, <1>3

LEMMA OlderAfter ==
  ASSUME NEW lines, NEW next, NEW k, NEW t, NEW now \in Nat,
         Replaced(lines, next, k, t, now)
  PROVE  LET K == Kept(lines, k, t) \ {t}
         IN  OlderTags(next) =
               {p \in OlderTags(lines) : p[1] \in K /\ p[2] \in K} \cup (K \X {t})
<1> DEFINE K == Kept(lines, k, t) \ {t}
           R == {p \in OlderTags(lines) : p[1] \in K /\ p[2] \in K} \cup (K \X {t})
<1>0. /\ lines \in [Lines -> Line] /\ next \in [Lines -> Line] /\ k \in Lines
      /\ \A j \in Lines : j # k => next[j] = lines[j]
      /\ next[k].valid_bit /\ next[k].tag = t /\ next[k].time_used = now
      /\ \A j \in Lines : lines[j].valid_bit => lines[j].time_used < now
      /\ \A j \in Lines : lines[j].valid_bit /\ lines[j].tag = t => j = k
      /\ \A j \in Lines : lines[j].time_used \in Nat /\ next[j].time_used \in Nat
      /\ \A j, l \in Lines : lines[j].valid_bit /\ lines[l].valid_bit /\ j # l =>
           lines[j].tag # lines[l].tag
  BY DEF Replaced, Line
<1>1. \A x : x \in K <=>
        x # t /\ \E j \in Lines : j # k /\ lines[j].valid_bit /\ lines[j].tag = x
  BY KeptLines
<1> HIDE DEF K
<1>2. ASSUME NEW x, NEW y
      PROVE  <<x, y>> \in OlderTags(next) <=> <<x, y>> \in R
  <2>1. <<x, y>> \in R <=>
          \/ <<x, y>> \in OlderTags(lines) /\ x \in K /\ y \in K
          \/ x \in K /\ y = t
    OBVIOUS
  <2>2. CASE y = t
    <3>1. <<x, y>> \in OlderTags(next) <=>
            \E j \in Lines : j # k /\ lines[j].valid_bit /\ lines[j].tag = x
      <4>1. ASSUME NEW j \in Lines, j # k, lines[j].valid_bit, lines[j].tag = x
            PROVE  <<x, y>> \in OlderTags(next)
        BY <1>0, <2>2, <4>1, OlderPairs
      <4>2. ASSUME <<x, y>> \in OlderTags(next)
            PROVE  \E j \in Lines : j # k /\ lines[j].valid_bit /\ lines[j].tag = x
        <5>1. PICK j \in Lines, l \in Lines :
                /\ next[j].valid_bit /\ next[j].tag = x
                /\ next[l].valid_bit /\ next[l].tag = y
                /\ next[j].time_used < next[l].time_used
          BY <1>0, <4>2, OlderPairs
        <5>2. l = k
          BY <1>0, <2>2, <5>1
        <5>3. j # k
          BY <1>0, <5>1, <5>2
        <5> QED BY <1>0, <5>1, <5>3
      <4> QED BY <4>1, <4>2
    <3>2. \A j \in Lines : j # k /\ lines[j].valid_bit => lines[j].tag # t
      BY <1>0
    <3> QED BY <1>1, <2>1, <2>2, <3>1, <3>2
  <2>3. CASE y # t
    <3>1. ASSUME <<x, y>> \in OlderTags(next)
          PROVE  <<x, y>> \in OlderTags(lines) /\ x \in K /\ y \in K
      <4>1. PICK j \in Lines, l \in Lines :
              /\ next[j].valid_bit /\ next[j].tag = x
              /\ next[l].valid_bit /\ next[l].tag = y
              /\ next[j].time_used < next[l].time_used
        BY <1>0, <3>1, OlderPairs
      <4>2. l # k
        BY <1>0, <2>3, <4>1
      <4>3. j # k
        BY <1>0, <4>1, <4>2
      <4>4. /\ lines[j].valid_bit /\ lines[j].tag = x
            /\ lines[l].valid_bit /\ lines[l].tag = y
            /\ lines[j].time_used < lines[l].time_used
        BY <1>0, <4>1, <4>2, <4>3
      <4>5. x # t
        BY <1>0, <4>3, <4>4
      <4> QED BY <1>0, <1>1, <2>3, <4>2, <4>3, <4>4, <4>5, OlderPairs
    <3>2. ASSUME <<x, y>> \in OlderTags(lines), x \in K, y \in K
          PROVE  <<x, y>> \in OlderTags(next)
      <4>1. PICK j \in Lines, l \in Lines :
              /\ lines[j].valid_bit /\ lines[j].tag = x
              /\ lines[l].valid_bit /\ lines[l].tag = y
              /\ lines[j].time_used < lines[l].time_used
        BY <1>0, <3>2, OlderPairs
      <4>2. j # k /\ l # k
        BY <1>0, <1>1, <3>2, <4>1
      <4> QED BY <1>0, <4>1, <4>2, OlderPairs
    <3> QED BY <2>1, <2>3, <3>1, <3>2
  <2> QED BY <2>2, <2>3
<1>3. \A p \in OlderTags(next) : p = <<p[1], p[2]>>
  BY DEF OlderTags
<1>4. \A p \in R : p = <<p[1], p[2]>>
  BY DEF OlderTags
<1> QED BY <1>2, <1>3, <1>4 DEF K

(* How many blocks a set holds is how many of its lines are valid. *)
LEMMA ResidentCount ==
  ASSUME NEW lines \in [Lines -> Line],
         \A j, l \in Valid(lines) : j # l => lines[j].tag # lines[l].tag
  PROVE  /\ IsFiniteSet(Resident(lines))
         /\ Invalid(lines) = {} => Cardinality(Resident(lines)) = E
         /\ Invalid(lines) # {} => Cardinality(Resident(lines)) < E
<1>1. IsFiniteSet(Lines) /\ Cardinality(Lines) = E
  BY FS_Interval, CacheAssumption DEF Lines
<1>2. Valid(lines) \in SUBSET Lines /\ (Valid(lines) = Lines <=> Invalid(lines) = {})
  BY DEF Valid, Invalid
<1>3. /\ IsFiniteSet(Valid(lines))
      /\ Cardinality(Valid(lines)) <= Cardinality(Lines)
      /\ Cardinality(Lines) = Cardinality(Valid(lines)) => Lines = Valid(lines)
  BY <1>1, <1>2, FS_Subset
<1>4. /\ IsFiniteSet(Resident(lines))
      /\ Cardinality(Resident(lines)) = Cardinality(Valid(lines))
  <2> DEFINE f == [j \in Valid(lines) |-> lines[j].tag]
  <2>1. f \in Bijection(Valid(lines), Resident(lines))
    BY DEF Bijection, Injection, IsInjective, Surjection, Resident
  <2>2. ExistsBijection(Valid(lines), Resident(lines))
    BY <2>1 DEF ExistsBijection
  <2> QED BY <1>3, <2>2, FS_Bijection
<1>5. Cardinality(Valid(lines)) \in Nat
  BY <1>3, FS_CardinalityType
<1> QED BY <1>1, <1>2, <1>3, <1>4, <1>5, CacheAssumption

LEMMA SameCardinality == \A X : LruCache!Cardinality(X) = Cardinality(X)
BY DEF Cardinality, LruCache!Cardinality

----------------------------------------------------------------------------
(* What an access does to its set, and that it leaves the others alone.    *)
LEMMA AccessEffect ==
  ASSUME IInv, NEW op \in Operation, NEW i \in Sets, NEW tag \in Tags,
         Access(op, i, tag)
  PROVE  LET lines == sets[i]
             k     == FetchLine(lines, tag)
             line  == lines[k]
             next  == sets'[i]
         IN  /\ k \in Lines /\ line \in Line
             /\ Hits(lines, tag) # {} => k \in Hits(lines, tag)
             /\ Hits(lines, tag) = {} /\ Invalid(lines) # {} => k \in Invalid(lines)
             /\ Replaced(lines, next, k, tag, time)
             /\ line.dirty_bit => line.valid_bit
             /\ next[k].dirty_bit <=>
                  op = "WRITE" \/ (line.valid_bit /\ line.tag = tag /\ line.dirty_bit)
             /\ \A i2 \in Sets : i2 # i => sets'[i2] = sets[i2]
             /\ sets' \in [Sets -> [Lines -> Line]]
             /\ time < MaxOps /\ time' = time + 1 /\ time \in Nat
             /\ stats \in Stats /\ IdCaso(line, tag) \in Caso
             /\ stats' = Charged(stats, op, IdCaso(line, tag))
<1> DEFINE lines == sets[i]
           next == sets'[i]
           k == FetchLine(lines, tag)
           line == lines[k]
           caso == IdCaso(line, tag)
           write == op = "WRITE"
<1>1. /\ k \in Lines
      /\ sets' \in [Sets -> [Lines -> Line]]
      /\ \A i2 \in Sets, j \in Lines :
           sets'[i2][j] = IF i2 = i /\ j = k THEN Updated(line, op, tag, time) ELSE sets[i2][j]
      /\ Updated(line, op, tag, time).tag = tag
      /\ Updated(line, op, tag, time).valid_bit
      /\ Updated(line, op, tag, time).time_used = time
      /\ time < MaxOps /\ time' = time + 1 /\ time \in Nat
      /\ stats' = Charged(stats, op, caso)
  BY AccessShape DEF IInv
<1>2. lines \in [Lines -> Line] /\ line \in Line /\ stats \in Stats /\ caso \in Caso
  BY <1>1, CasoType DEF IInv, TypeOK
<1>3. /\ Hits(lines, tag) # {} => k \in Hits(lines, tag)
      /\ Hits(lines, tag) = {} /\ Invalid(lines) # {} => k \in Invalid(lines)
  BY <1>2, FetchLineCases
<1>4. Replaced(lines, next, k, tag, time)
  <2>1. next \in [Lines -> Line] /\ \A j \in Lines : j # k => next[j] = lines[j]
    <3> HIDE DEF k
    <3> QED BY <1>1
  <2>2. next[k].valid_bit /\ next[k].tag = tag /\ next[k].time_used = time
    BY <1>1
  <2>3. \A j \in Lines : lines[j].valid_bit => lines[j].time_used < time
    BY <1>2 DEF IInv, UniqueTimes, Valid
  <2>4. \A j, l \in Lines : lines[j].valid_bit /\ lines[l].valid_bit /\ j # l =>
          lines[j].tag # lines[l].tag /\ lines[j].time_used # lines[l].time_used
    BY <1>2 DEF IInv, UniqueTags, UniqueTimes, Valid
  <2>5. \A j \in Lines : lines[j].valid_bit /\ lines[j].tag = tag => j = k
    <3> SUFFICES ASSUME NEW j \in Lines, lines[j].valid_bit, lines[j].tag = tag
                 PROVE  j = k
      OBVIOUS
    <3>1. j \in Hits(lines, tag)
      BY <1>2 DEF Hits, Valid
    <3>2. lines[k].valid_bit /\ lines[k].tag = tag
      BY <1>3, <3>1 DEF Hits, Valid
    <3> QED BY <1>1, <2>4, <3>2
  <2> QED BY <1>1, <1>2, <2>1, <2>2, <2>3, <2>4, <2>5 DEF Replaced
<1>5. line.dirty_bit => line.valid_bit
  BY <1>1, <1>2 DEF IInv, FilledInOrder, EmptyLine, Line
<1>6. next[k].dirty_bit <=> write \/ (line.valid_bit /\ line.tag = tag /\ line.dirty_bit)
  <2>1. next[k].dirty_bit <=> write \/ (line.dirty_bit /\ caso # "2b")
    BY <1>1, <1>2 DEF Updated, Line
  <2>2. line.dirty_bit /\ caso # "2b" <=> line.valid_bit /\ line.tag = tag /\ line.dirty_bit
    BY <1>5 DEF IdCaso
  <2> QED BY <2>1, <2>2
<1>7. \A i2 \in Sets : i2 # i => sets'[i2] = sets[i2]
  BY <1>1 DEF IInv, TypeOK
<1> QED BY <1>1, <1>2, <1>3, <1>4, <1>5, <1>6, <1>7

(* An access of Cache is an access of LRU. *)
LEMMA AccessRefines ==
  ASSUME IInv, TagsFromTrace, MaxOps <= MAX_TIME,
         NEW op \in Operation, NEW i \in Sets, NEW tag \in Tags,
         Access(op, i, tag)
  PROVE  LruCache!Access(i, tag, op = "WRITE")
<1> DEFINE lines == sets[i]
           next == sets'[i]
           k == FetchLine(lines, tag)
           line == lines[k]
           caso == IdCaso(line, tag)
           kept == Kept(lines, k, tag)
           write == op = "WRITE"
<1>1. /\ k \in Lines /\ line \in Line
      /\ Hits(lines, tag) # {} => k \in Hits(lines, tag)
      /\ Hits(lines, tag) = {} /\ Invalid(lines) # {} => k \in Invalid(lines)
      /\ Replaced(lines, next, k, tag, time)
      /\ next[k].dirty_bit <=> write \/ (line.valid_bit /\ line.tag = tag /\ line.dirty_bit)
      /\ \A i2 \in Sets : i2 # i => sets'[i2] = sets[i2]
      /\ time \in Nat /\ stats \in Stats /\ caso \in Caso
      /\ stats' = Charged(stats, op, caso)
  BY AccessEffect
<1>2. lines \in [Lines -> Line]
  BY DEF IInv, TypeOK
<1> HIDE DEF k, line, next, lines, caso
<1>3. LruCache!Use(i, tag, write, kept)
  <2>1. Resident(next) = kept \cup {tag}
    BY <1>1, ResidentAfter
  <2>2. DirtyTags(next) = (DirtyTags(lines) \cap kept) \cup {x \in {tag} : write}
    <3>1. write \in BOOLEAN
      OBVIOUS
    <3> HIDE DEF write, kept
    <3> QED BY <1>1, <3>1, DirtyAfter DEF line, kept
  <2>3. OlderTags(next) = {p \in OlderTags(lines) : p[1] \in kept \ {tag} /\ p[2] \in kept \ {tag}}
                          \cup ((kept \ {tag}) \X {tag})
    BY <1>1, OlderAfter
  <2> HIDE DEF kept, write
  <2>4. [i2 \in Sets |-> Resident(sets'[i2])] =
          [[i2 \in Sets |-> Resident(sets[i2])] EXCEPT ![i] = kept \cup {tag}]
    BY <1>1, <2>1 DEF next
  <2>5. [i2 \in Sets |-> DirtyTags(sets'[i2])] =
          [[i2 \in Sets |-> DirtyTags(sets[i2])] EXCEPT
             ![i] = (@ \cap kept) \cup {x \in {tag} : write}]
    BY <1>1, <2>2 DEF next, lines
  <2>6. [i2 \in Sets |-> OlderTags(sets'[i2])] =
          [[i2 \in Sets |-> OlderTags(sets[i2])] EXCEPT
             ![i] = {p \in @ : p[1] \in kept \ {tag} /\ p[2] \in kept \ {tag}}
                    \cup ((kept \ {tag}) \X {tag})]
    BY <1>1, <2>3 DEF next, lines
  <2> QED BY <2>4, <2>5, <2>6 DEF LruCache!Use
<1>4. /\ Misses' = Misses + One(caso # "1")
      /\ DirtyMisses' = DirtyMisses + One(caso = "2b")
  <2>1. One(caso # "1") \in Nat /\ One(caso = "2b") \in Nat
    BY DEF One
  <2>2. CASE op = "WRITE"
    BY <1>1, <1>2, <2>1, <2>2, ChargedCounters DEF Misses, DirtyMisses, Stats
  <2>3. CASE op = "READ"
    BY <1>1, <1>2, <2>1, <2>3, ChargedCounters DEF Misses, DirtyMisses, Stats
  <2> QED BY <2>2, <2>3 DEF Operation
<1>5. Misses \in Nat /\ DirtyMisses \in Nat
  BY <1>1 DEF Misses, DirtyMisses, Stats
<1>6. [i2 \in Sets |-> Resident(sets[i2])][i] = Resident(lines)
  BY DEF lines
<1>7. tag \in Resident(lines) <=> Hits(lines, tag) # {}
  BY DEF Resident, Hits
<1>8. CASE Hits(lines, tag) # {}
  <2>1. line.valid_bit /\ line.tag = tag
    BY <1>1, <1>8 DEF Hits, Valid, line
  <2>2. kept = Resident(lines) /\ caso = "1"
    BY <2>1 DEF Kept, IdCaso, caso, line
  <2>3. LruCache!Hit(i, tag, write)
    BY <1>3, <1>4, <1>5, <1>6, <1>7, <1>8, <2>2 DEF LruCache!Hit, One
  <2> QED BY <2>3 DEF LruCache!Access
<1>9. CASE Hits(lines, tag) = {} /\ Invalid(lines) # {}
  <2>1. ~line.valid_bit
    BY <1>1, <1>9 DEF Invalid, line
  <2>2. kept = Resident(lines) /\ caso = "2a"
    BY <2>1 DEF Kept, IdCaso, caso, line
  <2>3. Cardinality(Resident(lines)) < E
    BY <1>2, <1>9, ResidentCount DEF IInv, UniqueTags, lines
  <2>4. LruCache!Load(i, tag, write)
    BY <1>3, <1>4, <1>5, <1>6, <1>7, <1>9, <2>2, <2>3, SameCardinality DEF LruCache!Load, One
  <2> QED BY <2>4 DEF LruCache!Access
<1>10. CASE Hits(lines, tag) = {} /\ Invalid(lines) = {}
  <2> DEFINE v == line.tag
  <2>1. \A j \in Lines : lines[j].valid_bit /\ lines[j].tag # tag
    BY <1>2, <1>10 DEF Hits, Invalid, Valid
  <2>2. k \in LeastRecent(lines, Lines)
    BY <1>10, LeastRecentVictim DEF VictimIsLeastRecent, k, lines
  <2>3. v \in Resident(lines) /\ v \in Tags /\ v # tag
    BY <1>1, <1>2, <2>1 DEF Resident, Valid, TagsFromTrace, line, lines
  <2>4. kept = Resident(lines) \ {v}
    BY <1>1, <2>1 DEF Kept, line
  <2>5. \A x \in Resident(lines) \ {v} : <<v, x>> \in OlderTags(lines)
    <3> SUFFICES ASSUME NEW x \in Resident(lines), x # v
                 PROVE  <<v, x>> \in OlderTags(lines)
      OBVIOUS
    <3>1. PICK j \in Lines : lines[j].tag = x /\ lines[j].valid_bit
      BY <1>2 DEF Resident, Valid
    <3>2. lines[k].time_used <= lines[j].time_used /\ j # k
      BY <2>2, <3>1 DEF LeastRecent, line
    <3>3. lines[k].time_used < lines[j].time_used
      <4>1. lines[j].time_used \in Nat /\ lines[k].time_used \in Nat
        BY <1>1, <1>2 DEF Line
      <4>2. lines[j].time_used # lines[k].time_used
        BY <1>1, <2>1, <3>2 DEF Replaced
      <4> QED BY <3>2, <4>1, <4>2
    <3> QED BY <1>1, <1>2, <2>1, <3>1, <3>3, OlderPairs DEF line
  <2>6. Cardinality(Resident(lines)) = E
    BY <1>2, <1>10, ResidentCount DEF IInv, UniqueTags, lines
  <2>7. caso = IF line.dirty_bit THEN "2b" ELSE "2a"
    BY <1>1, <2>1 DEF caso, IdCaso, line
  <2>8. v \in DirtyTags(lines) <=> line.dirty_bit
    BY <1>1, <1>2, <2>1 DEF DirtyTags, Valid, Replaced, line
  <2>9. [i2 \in Sets |-> DirtyTags(sets[i2])][i] = DirtyTags(lines)
        /\ [i2 \in Sets |-> OlderTags(sets[i2])][i] = OlderTags(lines)
    BY DEF lines
  <2> HIDE DEF v, kept
  <2>10. LruCache!Evict(i, tag, write, v)
    BY <1>3, <1>4, <1>5, <1>6, <1>7, <1>10, <2>3, <2>4, <2>5, <2>6, <2>7, <2>8, <2>9, SameCardinality
       DEF LruCache!Evict, One
  <2> QED BY <2>3, <2>10 DEF LruCache!Access
<1> QED BY <1>8, <1>9, <1>10

(* Cache implements LRU.  The assumption is needed: the code's sentinel    *)
(* MAX_TIME makes fetch_line forget how recent a line is once the clock    *)
(* has passed it.                                                          *)
THEOREM Refinement ==
  ASSUME MaxOps <= MAX_TIME
  PROVE  Spec => ImplementsLRU
<1>1. Init => LruCache!Init
  <2> SUFFICES ASSUME Init PROVE LruCache!Init
    OBVIOUS
  <2>1. \A i \in Sets : Valid(sets[i]) = {}
    BY DEF Init, CrearSets, EmptyLine, Valid, Sets
  <2>2. \A i \in Sets : /\ Resident(sets[i]) = {} /\ DirtyTags(sets[i]) = {}
                        /\ OlderTags(sets[i]) = {}
    BY <2>1 DEF Resident, DirtyTags, OlderTags
  <2>3. Misses = 0 /\ DirtyMisses = 0
    BY DEF Init, CrearStats, Misses, DirtyMisses
  <2> QED BY <2>2, <2>3 DEF LruCache!Init, Sets
<1>2. IInv /\ TagsFromTrace /\ [Next]_vars => [LruCache!Next]_(LruCache!vars)
  <2> SUFFICES ASSUME IInv, TagsFromTrace, [Next]_vars
               PROVE  [LruCache!Next]_(LruCache!vars)
    OBVIOUS
  <2>1. CASE UNCHANGED vars
    BY <2>1 DEF vars, LruCache!vars, Misses, DirtyMisses
  <2>2. ASSUME NEW op \in Operation, NEW i \in Sets, NEW tag \in Tags,
               Access(op, i, tag)
        PROVE  LruCache!Next
    <3>1. LruCache!Access(i, tag, op = "WRITE")
      BY <2>2, AccessRefines
    <3>2. (op = "WRITE") \in BOOLEAN /\ i \in 0 .. S-1
      BY DEF Sets
    <3> QED BY <3>1, <3>2 DEF LruCache!Next
  <2> QED BY <2>1, <2>2 DEF Next
<1> QED BY <1>1, <1>2, Invariance, TagsInvariance, PTL
        DEF Spec, ImplementsLRU, LruCache!Spec

----------------------------------------------------------------------------
(***************************************************************************)
(* CacheHistory: what the summary reports is what the trace, read by the   *)
(* definition of LRU, has in it.                                           *)
(***************************************************************************)

Entry == [op : Operation, set : Sets, tag : Tags]

(* p is the last access to the block among the first n operations.         *)
LastUse(h, i, t, n, p) ==
  p \in Uses(h, i, t, n) /\ \A q \in Uses(h, i, t, n) : q <= p

LEMMA LastUseIsMax ==
  ASSUME NEW h, NEW i, NEW t, NEW n \in Nat, NEW p, LastUse(h, i, t, n, p)
  PROVE  Max(Uses(h, i, t, n)) = p
<1>1. Uses(h, i, t, n) \in SUBSET Nat
  BY DEF Uses
<1> HIDE DEF Uses
<1>2. \E x \in Uses(h, i, t, n) : \A y \in Uses(h, i, t, n) : x >= y
  BY <1>1 DEF LastUse
<1>3. /\ Max(Uses(h, i, t, n)) \in Uses(h, i, t, n)
      /\ \A y \in Uses(h, i, t, n) : Max(Uses(h, i, t, n)) >= y
  BY <1>2 DEF Max
<1> QED BY <1>1, <1>3 DEF LastUse

(* Every nonempty set of accesses has a last one. *)
LEMMA LastUseExists ==
  ASSUME NEW h, NEW i, NEW t, NEW n \in Nat, Uses(h, i, t, n) # {}
  PROVE  \E p : LastUse(h, i, t, n, p)
<1> DEFINE U == Uses(h, i, t, n)
           T == {n - p : p \in U}
<1>1. \A p \in U : p \in 1 .. n
  BY DEF Uses
<1> HIDE DEF U
<1>2. T \in SUBSET Nat /\ T # {}
  BY <1>1 DEF U
<1>3. PICK m \in T : \A k \in T : m <= k
  <2> HIDE DEF T
  <2> QED BY <1>2, NatHasLeast
<1>4. PICK p \in U : m = n - p
  BY <1>3
<1>5. ASSUME NEW q \in U PROVE q <= p
  <2>1. n - p <= n - q
    BY <1>3, <1>4
  <2> QED BY <1>1, <2>1
<1> QED BY <1>5 DEF LastUse, U

----------------------------------------------------------------------------
(* A longer trace says the same of its first operations. *)

Extends(g, h) == /\ h \in Seq(Entry) /\ g \in Seq(Entry) /\ Len(h) <= Len(g)
                 /\ \A p \in 1 .. Len(h) : g[p] = h[p]

LEMMA SameUses ==
  ASSUME NEW g, NEW h, Extends(g, h), NEW i, NEW t, NEW n \in 0 .. Len(h)
  PROVE  Uses(g, i, t, n) = Uses(h, i, t, n)
BY DEF Uses, Extends

LEMMA SameCached ==
  ASSUME NEW g, NEW h, Extends(g, h), NEW i, NEW t, NEW n \in 0 .. Len(h)
  PROVE  Cached(g, i, t, n) <=> Cached(h, i, t, n)
<1>1. \A u : Uses(g, i, u, n) = Uses(h, i, u, n)
  BY SameUses
<1> QED BY <1>1 DEF Cached

LEMMA SameModified ==
  ASSUME NEW g, NEW h, Extends(g, h), NEW i, NEW t, NEW n \in 0 .. Len(h)
  PROVE  Modified(g, i, t, n) <=> Modified(h, i, t, n)
<1>1. Uses(g, i, t, n) = Uses(h, i, t, n)
  BY SameUses
<1>2. \A p \in Uses(h, i, t, n) : p \in 1 .. n /\ p \in 1 .. Len(h) /\ g[p] = h[p]
  BY DEF Uses, Extends
<1>3. ASSUME NEW p \in Uses(h, i, t, n), NEW m \in p .. n
      PROVE  Cached(g, i, t, m) <=> Cached(h, i, t, m)
  <2>1. m \in 0 .. Len(h)
    BY <1>2 DEF Extends
  <2> QED BY <2>1, SameCached
<1> QED BY <1>1, <1>2, <1>3 DEF Modified

(* The blocks dirty after one more operation: those still in the cache     *)
(* that it wrote, or that were dirty before it.                            *)
LEMMA ModifiedStep ==
  ASSUME NEW h \in Seq(Entry), NEW i, NEW t, NEW n \in Nat, n + 1 = Len(h)
  PROVE  Modified(h, i, t, n + 1) <=>
           /\ Cached(h, i, t, n + 1)
           /\ \/ h[n + 1] = [op |-> "WRITE", set |-> i, tag |-> t]
              \/ Modified(h, i, t, n)
<1>1. n + 1 \in 1 .. Len(h) /\ h[n + 1] \in Entry
  <2>1. n + 1 \in 1 .. Len(h)
    OBVIOUS
  <2> QED BY <2>1
<1>2. \A p : p \in Uses(h, i, t, n + 1) <=>
             p \in Uses(h, i, t, n) \/ (p = n + 1 /\ h[n + 1].set = i /\ h[n + 1].tag = t)
  BY DEF Uses
<1>3. \A p \in Uses(h, i, t, n) : p \in 1 .. n
  BY DEF Uses
<1>4. h[n + 1] = [op |-> "WRITE", set |-> i, tag |-> t] <=>
        h[n + 1].op = "WRITE" /\ h[n + 1].set = i /\ h[n + 1].tag = t
  BY <1>1 DEF Entry
<1>5. ASSUME Modified(h, i, t, n + 1)
      PROVE  /\ Cached(h, i, t, n + 1)
             /\ \/ h[n + 1] = [op |-> "WRITE", set |-> i, tag |-> t]
                \/ Modified(h, i, t, n)
  <2>1. PICK p \in Uses(h, i, t, n + 1) :
          h[p].op = "WRITE" /\ \A m \in p .. n + 1 : Cached(h, i, t, m)
    BY <1>5 DEF Modified
  <2>2. CASE p = n + 1 /\ h[n + 1].set = i /\ h[n + 1].tag = t
    BY <1>4, <2>1, <2>2
  <2>3. CASE p \in Uses(h, i, t, n)
    <3>1. p \in 1 .. n /\ n + 1 \in p .. n + 1 /\ \A m \in p .. n : m \in p .. n + 1
      BY <1>3, <2>3
    <3> QED BY <2>1, <2>3, <3>1 DEF Modified
  <2> QED BY <1>2, <2>1, <2>2, <2>3
<1>6. ASSUME Cached(h, i, t, n + 1), h[n + 1] = [op |-> "WRITE", set |-> i, tag |-> t]
      PROVE  Modified(h, i, t, n + 1)
  <2>1. n + 1 \in Uses(h, i, t, n + 1) /\ h[n + 1].op = "WRITE"
    BY <1>2, <1>4, <1>6
  <2>2. \A m \in n + 1 .. n + 1 : m = n + 1
    OBVIOUS
  <2> QED BY <1>6, <2>1, <2>2 DEF Modified
<1>7. ASSUME Cached(h, i, t, n + 1), Modified(h, i, t, n)
      PROVE  Modified(h, i, t, n + 1)
  <2>1. PICK p \in Uses(h, i, t, n) :
          h[p].op = "WRITE" /\ \A m \in p .. n : Cached(h, i, t, m)
    BY <1>7 DEF Modified
  <2>2. p \in Uses(h, i, t, n + 1) /\ \A m \in p .. n + 1 : m = n + 1 \/ m \in p .. n
    BY <1>2, <1>3
  <2> QED BY <1>7, <2>1, <2>2 DEF Modified
<1> QED BY <1>5, <1>6, <1>7

----------------------------------------------------------------------------
(* What the lines of set i remember of the first n operations: each valid  *)
(* one is stamped with the last access to its block, and a block that is   *)
(* not there was last accessed before all those that are.                  *)
Recorded(h, i, lines, n) ==
  /\ \A j \in Valid(lines) :
       /\ lines[j].tag \in Tags
       /\ LastUse(h, i, lines[j].tag, n, lines[j].time_used + 1)
  /\ \A t \in Tags : t \notin Resident(lines) =>
       \A p \in Uses(h, i, t, n) :
         Invalid(lines) = {} /\ \A j \in Lines : p <= lines[j].time_used

(* So the blocks in the lines are those the definition of LRU keeps. *)
LEMMA ResidentIsCached ==
  ASSUME NEW lines \in [Lines -> Line], NEW h, NEW i, NEW n \in Nat, NEW t \in Tags,
         \A j, l \in Valid(lines) : j # l => lines[j].tag # lines[l].tag,
         Recorded(h, i, lines, n)
  PROVE  t \in Resident(lines) <=> Cached(h, i, t, n)
<1> DEFINE R == Resident(lines)
           later == {u \in Tags \ {t} :
                       \E p \in Uses(h, i, u, n) : p > Max(Uses(h, i, t, n))}
<1>1. /\ IsFiniteSet(R) /\ Cardinality(R) \in Nat /\ Cardinality(R) <= E
      /\ Invalid(lines) = {} => Cardinality(R) = E
  <2>1. /\ IsFiniteSet(R)
        /\ Invalid(lines) = {} => Cardinality(R) = E
        /\ Invalid(lines) # {} => Cardinality(R) < E
    BY ResidentCount
  <2>2. Cardinality(R) \in Nat
    BY <2>1, FS_CardinalityType
  <2> QED BY <2>1, <2>2, CacheAssumption
<1>2. IsFiniteSet(later) /\ Cardinality(later) \in Nat
  <2>1. IsFiniteSet(Tag)
    <3>1. 0 \in Int /\ UINT_MAX \in Int
      BY CacheLineAssumption
    <3> QED BY <3>1, FS_Interval DEF Tag
  <2>2. later \in SUBSET Tag
    BY CacheAssumption
  <2> QED BY <2>1, <2>2, FS_Subset, FS_CardinalityType
<1>3. Cached(h, i, t, n) <=> Uses(h, i, t, n) # {} /\ Cardinality(later) < E
  BY DEF Cached
<1>4. \A u : u \in R <=> \E j \in Lines : lines[j].valid_bit /\ lines[j].tag = u
  BY DEF Resident, Valid
<1>5. \A j \in Lines : lines[j].valid_bit =>
        lines[j].tag \in Tags /\ LastUse(h, i, lines[j].tag, n, lines[j].time_used + 1)
  BY DEF Recorded, Valid
<1>6. \A u : \A p \in Uses(h, i, u, n) : p \in Nat
  BY DEF Uses
<1>7. \A j \in Lines : lines[j].time_used \in Nat
  BY DEF Line
<1>8. ASSUME t \in R
      PROVE  Cached(h, i, t, n)
  <2>1. PICK j \in Lines : lines[j].valid_bit /\ lines[j].tag = t
    BY <1>4, <1>8
  <2>2. LastUse(h, i, t, n, lines[j].time_used + 1)
    BY <1>5, <2>1
  <2>3. Max(Uses(h, i, t, n)) = lines[j].time_used + 1 /\ Uses(h, i, t, n) # {}
    BY <2>2, LastUseIsMax DEF LastUse
  <2>4. later \in SUBSET (R \ {t})
    <3> SUFFICES ASSUME NEW u \in Tags, u # t,
                        NEW p \in Uses(h, i, u, n), p > lines[j].time_used + 1
                 PROVE  u \in R
      BY <2>3
    <3>1. u \notin R => p <= lines[j].time_used
      BY <2>1 DEF Recorded
    <3> QED BY <1>6, <1>7, <3>1
  <2>5. IsFiniteSet(R \ {t}) /\ Cardinality(R \ {t}) = Cardinality(R) - 1
    BY <1>1, <1>8, FS_RemoveElement
  <2>6. Cardinality(later) <= Cardinality(R \ {t})
    BY <2>4, <2>5, FS_Subset
  <2> HIDE DEF R, later
  <2> QED BY <1>1, <1>2, <1>3, <2>3, <2>5, <2>6, CacheAssumption
<1>9. ASSUME t \notin R, Uses(h, i, t, n) # {}
      PROVE  ~Cached(h, i, t, n)
  <2>1. PICK p : LastUse(h, i, t, n, p)
    BY <1>9, LastUseExists
  <2>2. Max(Uses(h, i, t, n)) = p /\ p \in Uses(h, i, t, n)
    BY <2>1, LastUseIsMax DEF LastUse
  <2>3. Invalid(lines) = {} /\ \A j \in Lines : p <= lines[j].time_used
    BY <1>9, <2>2 DEF Recorded
  <2>4. R \in SUBSET later
    <3> SUFFICES ASSUME NEW u \in R PROVE u \in later
      OBVIOUS
    <3>1. PICK j \in Lines : lines[j].valid_bit /\ lines[j].tag = u
      BY <1>4
    <3>2. /\ u \in Tags /\ u # t
          /\ lines[j].time_used + 1 \in Uses(h, i, u, n)
      BY <1>5, <1>9, <3>1 DEF LastUse
    <3>3. lines[j].time_used + 1 > p
      BY <1>6, <1>7, <2>2, <2>3
    <3> QED BY <2>2, <3>2, <3>3
  <2>5. Cardinality(R) <= Cardinality(later)
    BY <1>2, <2>4, FS_Subset
  <2> HIDE DEF R, later
  <2> QED BY <1>1, <1>2, <1>3, <2>3, <2>5, CacheAssumption
<1>10. Uses(h, i, t, n) = {} => ~Cached(h, i, t, n)
  BY DEF Cached
<1> QED BY <1>8, <1>9, <1>10

----------------------------------------------------------------------------
(* The invariant of CacheHistory. *)

HTypes   == trace \in Seq(Entry) /\ Len(trace) = time
Memory   == \A i \in Sets : Recorded(trace, i, sets[i], time)
DirtyInv == \A i \in Sets, t \in Tags :
              t \in DirtyTags(sets[i]) <=> Modified(trace, i, t, time)

HInv == /\ IInv /\ TagsFromTrace
        /\ HTypes /\ Memory /\ DirtyInv /\ StatisticsFollowTrace

(* The step of CacheHistory: an access, and its entry in the trace. *)
HAccess(op, i, tag) ==
  /\ Access(op, i, tag)
  /\ trace' = Append(trace, [op |-> op, set |-> i, tag |-> tag])

LEMMA TraceGrows ==
  ASSUME IInv, HTypes, NEW op \in Operation, NEW i \in Sets, NEW tag \in Tags,
         HAccess(op, i, tag)
  PROVE  /\ HTypes'
         /\ Extends(trace', trace)
         /\ time \in Nat /\ time = Len(trace) /\ time' = time + 1 /\ Len(trace') = time + 1
         /\ trace'[time + 1] = [op |-> op, set |-> i, tag |-> tag]
         /\ DOMAIN trace = 1 .. time /\ DOMAIN trace' = 1 .. time + 1
<1> DEFINE e == [op |-> op, set |-> i, tag |-> tag]
<1>1. time \in Nat /\ time' = time + 1
  BY AccessEffect DEF HAccess
<1>2. e \in Entry
  BY DEF Entry
<1>3. trace' = Append(trace, e) /\ trace \in Seq(Entry) /\ Len(trace) = time
  BY DEF HAccess, HTypes
<1> HIDE DEF e
<1>4. /\ trace' \in Seq(Entry) /\ Len(trace') = time + 1
      /\ trace'[time + 1] = e
      /\ \A p \in 1 .. time : trace'[p] = trace[p]
      /\ DOMAIN trace = 1 .. time /\ DOMAIN trace' = 1 .. time + 1
  BY <1>1, <1>2, <1>3
<1> QED BY <1>1, <1>3, <1>4 DEF Extends, HTypes, e

(* The accesses to each block after the step.                              *)
LEMMA UsesAfter ==
  ASSUME IInv, HTypes, NEW op \in Operation, NEW i \in Sets, NEW tag \in Tags,
         HAccess(op, i, tag), NEW i2, NEW t
  PROVE  Uses(trace', i2, t, time + 1) =
           IF i2 = i /\ t = tag THEN Uses(trace, i2, t, time) \cup {time + 1}
           ELSE Uses(trace, i2, t, time)
<1>1. /\ Extends(trace', trace)
      /\ time \in Nat /\ time = Len(trace)
      /\ trace'[time + 1] = [op |-> op, set |-> i, tag |-> tag]
  BY TraceGrows
<1>2. trace'[time + 1].set = i /\ trace'[time + 1].tag = tag
  BY <1>1
<1>3. Uses(trace', i2, t, time) = Uses(trace, i2, t, time)
  <2>1. time \in 0 .. Len(trace)
    BY <1>1
  <2> QED BY <1>1, <2>1, SameUses
<1>4. Uses(trace', i2, t, time + 1) =
        Uses(trace', i2, t, time)
          \cup {p \in {time + 1} : trace'[p].set = i2 /\ trace'[p].tag = t}
  BY <1>1 DEF Uses
<1> QED BY <1>2, <1>3, <1>4

LEMMA MemoryKept ==
  ASSUME HInv, MaxOps <= MAX_TIME,
         NEW op \in Operation, NEW i \in Sets, NEW tag \in Tags, HAccess(op, i, tag)
  PROVE  Memory'
<1> DEFINE n == time
<1>1. /\ n \in Nat /\ time' = n + 1
      /\ \A i2, t : Uses(trace', i2, t, n + 1) =
           IF i2 = i /\ t = tag THEN Uses(trace, i2, t, n) \cup {n + 1}
           ELSE Uses(trace, i2, t, n)
  <2>1. IInv /\ HTypes
    BY DEF HInv
  <2>2. n \in Nat /\ time' = n + 1
    BY <2>1, TraceGrows
  <2> QED BY <2>1, <2>2, UsesAfter
<1>2. \A i2, t : \A p \in Uses(trace, i2, t, n) : p \in Nat /\ p <= n
  BY <1>1 DEF Uses
<1>3. \A i2 \in Sets : Recorded(trace, i2, sets[i2], n)
  BY DEF HInv, Memory
<1>4. \A i2 \in Sets : i2 # i => sets'[i2] = sets[i2]
  BY AccessEffect DEF HInv, HAccess
<1>5. ASSUME NEW i2 \in Sets, i2 # i
      PROVE  Recorded(trace', i2, sets'[i2], n + 1)
  BY <1>1, <1>3, <1>4, <1>5 DEF Recorded, LastUse
<1> DEFINE lines == sets[i]
           next == sets'[i]
           k == FetchLine(lines, tag)
<1>6. /\ Replaced(lines, next, k, tag, n)
      /\ Hits(lines, tag) # {} => k \in Hits(lines, tag)
      /\ Hits(lines, tag) = {} /\ Invalid(lines) # {} => k \in Invalid(lines)
  BY AccessEffect DEF HInv, HAccess
<1>7. Hits(lines, tag) = {} /\ Invalid(lines) = {} => k \in LeastRecent(lines, Lines)
  BY LeastRecentVictim DEF HInv, VictimIsLeastRecent
<1> HIDE DEF n, k, lines, next
<1>8. /\ lines \in [Lines -> Line] /\ next \in [Lines -> Line] /\ k \in Lines
      /\ \A j \in Lines : j # k => next[j] = lines[j]
      /\ next[k].valid_bit /\ next[k].tag = tag /\ next[k].time_used = n
      /\ \A j \in Lines : lines[j].valid_bit /\ lines[j].tag = tag => j = k
      /\ \A j, l \in Lines : lines[j].valid_bit /\ lines[l].valid_bit /\ j # l =>
           lines[j].time_used # lines[l].time_used
      /\ \A j \in Lines : lines[j].time_used \in Nat /\ next[j].time_used \in Nat
  BY <1>6 DEF Replaced, Line
<1>9. /\ \A j \in Lines : lines[j].valid_bit =>
           /\ lines[j].tag \in Tags
           /\ LastUse(trace, i, lines[j].tag, n, lines[j].time_used + 1)
      /\ \A t \in Tags : t \notin Resident(lines) =>
           \A p \in Uses(trace, i, t, n) :
             Invalid(lines) = {} /\ \A j \in Lines : p <= lines[j].time_used
  BY <1>3, <1>8 DEF Recorded, Valid, lines
<1>10. ASSUME NEW j \in Lines, next[j].valid_bit
       PROVE  next[j].tag \in Tags /\ LastUse(trace', i, next[j].tag, n + 1, next[j].time_used + 1)
  <2>1. CASE j = k
    <3>1. next[j].tag = tag /\ next[j].time_used + 1 = n + 1
      BY <1>8, <2>1
    <3>2. Uses(trace', i, tag, n + 1) = Uses(trace, i, tag, n) \cup {n + 1}
      BY <1>1
    <3>3. \A q \in Uses(trace, i, tag, n) : q <= n + 1
      BY <1>1, <1>2
    <3>4. n + 1 <= n + 1
      BY <1>1
    <3> QED BY <3>1, <3>2, <3>3, <3>4 DEF LastUse
  <2>2. CASE j # k
    <3>1. next[j] = lines[j] /\ lines[j].valid_bit /\ lines[j].tag # tag
      BY <1>8, <1>10, <2>2
    <3> QED BY <1>1, <1>9, <3>1 DEF LastUse
  <2> QED BY <2>1, <2>2
<1>11. ASSUME NEW t \in Tags, t \notin Resident(next), NEW p \in Uses(trace', i, t, n + 1)
       PROVE  Invalid(next) = {} /\ \A j \in Lines : p <= next[j].time_used
  <2>1. t # tag /\ p \in Uses(trace, i, t, n)
    BY <1>1, <1>8, <1>11 DEF Resident, Valid
  <2>2. p \in Nat /\ p <= n
    BY <1>2, <2>1
  <2>3. CASE t \notin Resident(lines)
    <3>1. Invalid(lines) = {} /\ \A j \in Lines : p <= lines[j].time_used
      BY <1>9, <2>1, <2>3
    <3>2. Invalid(next) = {}
      BY <1>8, <3>1 DEF Invalid
    <3>3. \A j \in Lines : p <= next[j].time_used
      BY <1>8, <2>2, <3>1
    <3> QED BY <3>2, <3>3
  <2>4. CASE t \in Resident(lines)
    <3>1. PICK j \in Lines : lines[j].valid_bit /\ lines[j].tag = t
      BY <1>8, <2>4 DEF Resident, Valid
    <3>2. j = k
      BY <1>8, <1>11, <3>1 DEF Resident, Valid
    <3>3. Hits(lines, tag) = {}
      BY <1>6, <2>1, <3>1, <3>2 DEF Hits, Valid
    <3>4. Invalid(lines) = {}
      BY <1>6, <3>1, <3>2, <3>3 DEF Invalid
    <3>5. p <= lines[k].time_used + 1
      BY <1>9, <2>1, <3>1, <3>2 DEF LastUse
    <3>6. ASSUME NEW l \in Lines, l # k PROVE p <= next[l].time_used
      <4>1. lines[k].time_used <= lines[l].time_used
        BY <1>7, <3>3, <3>4 DEF LeastRecent
      <4>2. lines[l].valid_bit /\ lines[k].valid_bit
        BY <1>8, <3>4 DEF Invalid
      <4>3. lines[k].time_used # lines[l].time_used /\ next[l] = lines[l]
        BY <1>8, <3>6, <4>2
      <4>4. lines[k].time_used \in Nat /\ lines[l].time_used \in Nat
        BY <1>8
      <4> QED BY <2>2, <3>5, <4>1, <4>3, <4>4
    <3>7. Invalid(next) = {}
      BY <1>8, <3>4 DEF Invalid
    <3> QED BY <1>8, <2>2, <3>6, <3>7
  <2> QED BY <2>3, <2>4
<1>12. Recorded(trace', i, next, n + 1)
  BY <1>8, <1>10, <1>11 DEF Recorded, Valid
<1>13. \A i2 \in Sets : Recorded(trace', i2, sets'[i2], n + 1)
  BY <1>5, <1>12 DEF next
<1> QED BY <1>1, <1>13 DEF Memory, n

(* The blocks in the cache after the step, and those that were before.     *)
LEMMA CachedAfter ==
  ASSUME HInv, Memory', IInv', HTypes',
         NEW op \in Operation, NEW i \in Sets, NEW tag \in Tags, HAccess(op, i, tag)
  PROVE  /\ \A i2 \in Sets, t \in Tags :
              t \in Resident(sets[i2]) <=> Cached(trace, i2, t, time)
         /\ \A i2 \in Sets, t \in Tags :
              t \in Resident(sets'[i2]) <=> Cached(trace', i2, t, time + 1)
<1>1. time \in Nat /\ time' = time + 1
  BY TraceGrows DEF HInv
<1>2. ASSUME NEW i2 \in Sets, NEW t \in Tags
      PROVE  t \in Resident(sets[i2]) <=> Cached(trace, i2, t, time)
  <2>1. /\ sets[i2] \in [Lines -> Line] /\ Recorded(trace, i2, sets[i2], time)
        /\ \A j, l \in Valid(sets[i2]) : j # l => sets[i2][j].tag # sets[i2][l].tag
    BY DEF HInv, IInv, TypeOK, UniqueTags, Memory
  <2> QED BY <1>1, <2>1, ResidentIsCached
<1>3. ASSUME NEW i2 \in Sets, NEW t \in Tags
      PROVE  t \in Resident(sets'[i2]) <=> Cached(trace', i2, t, time + 1)
  <2>1. /\ sets'[i2] \in [Lines -> Line] /\ Recorded(trace', i2, sets'[i2], time + 1)
        /\ \A j, l \in Valid(sets'[i2]) : j # l => sets'[i2][j].tag # sets'[i2][l].tag
    BY <1>1 DEF IInv, TypeOK, UniqueTags, Memory
  <2>2. time + 1 \in Nat
    BY <1>1
  <2> QED BY <2>1, <2>2, ResidentIsCached
<1> QED BY <1>2, <1>3

(* What the access does, in the terms the trace is read in.                *)
LEMMA AccessInBlocks ==
  ASSUME IInv, NEW op \in Operation, NEW i \in Sets, NEW tag \in Tags,
         Access(op, i, tag)
  PROVE  LET lines == sets[i]
             next  == sets'[i]
             caso  == IdCaso(lines[FetchLine(lines, tag)], tag)
         IN  /\ tag \in Resident(next)
             /\ \A t : t # tag /\ t \in Resident(next) => t \in Resident(lines)
             /\ \A t : t # tag => (t \in DirtyTags(next) <=>
                                    t \in DirtyTags(lines) /\ t \in Resident(next))
             /\ tag \in DirtyTags(next) <=> op = "WRITE" \/ tag \in DirtyTags(lines)
             /\ caso = "1" <=> tag \in Resident(lines)
             /\ caso = "2b" <=> \E t \in DirtyTags(lines) : t \notin Resident(next)
             /\ DirtyTags(lines) \subseteq Resident(lines)
<1> DEFINE lines == sets[i]
           next == sets'[i]
           k == FetchLine(lines, tag)
           line == lines[k]
           caso == IdCaso(line, tag)
           kept == Kept(lines, k, tag)
           write == op = "WRITE"
<1>1. /\ k \in Lines
      /\ Hits(lines, tag) # {} => k \in Hits(lines, tag)
      /\ Replaced(lines, next, k, tag, time)
      /\ line.dirty_bit => line.valid_bit
      /\ next[k].dirty_bit <=> write \/ (line.valid_bit /\ line.tag = tag /\ line.dirty_bit)
      /\ time \in Nat
  BY AccessEffect
<1>2. lines \in [Lines -> Line]
  BY DEF IInv, TypeOK
<1> HIDE DEF k, line, next, lines, caso
<1>3. Resident(next) = kept \cup {tag}
  BY <1>1, ResidentAfter
<1>4. DirtyTags(next) = (DirtyTags(lines) \cap kept) \cup {x \in {tag} : write}
  <2>1. write \in BOOLEAN
    OBVIOUS
  <2> HIDE DEF write, kept
  <2> QED BY <1>1, <2>1, DirtyAfter DEF line, kept
<1>5. DirtyTags(lines) \subseteq Resident(lines)
  BY DEF DirtyTags, Resident
<1>6. \A x : x \in kept <=> x \in Resident(lines) /\ ~(line.valid_bit /\ line.tag # tag /\ x = line.tag)
  BY DEF Kept, line
<1>7. tag \in kept <=> tag \in Resident(lines)
  BY <1>6
<1>8. caso = "1" <=> tag \in Resident(lines)
  <2>1. tag \in Resident(lines) => line.valid_bit /\ line.tag = tag
    BY <1>1 DEF Resident, Hits, Valid, line
  <2>2. line.valid_bit /\ line.tag = tag => tag \in Resident(lines)
    BY <1>1, <1>2 DEF Resident, Valid, line
  <2> QED BY <2>1, <2>2 DEF IdCaso, caso
<1>9. caso = "2b" <=> \E t \in DirtyTags(lines) : t \notin Resident(next)
  <2>1. caso = "2b" <=> line.valid_bit /\ line.dirty_bit /\ line.tag # tag
    BY <1>1 DEF IdCaso, caso
  <2>2. ASSUME line.valid_bit, line.dirty_bit, line.tag # tag
        PROVE  line.tag \in DirtyTags(lines) /\ line.tag \notin Resident(next)
    BY <1>1, <1>2, <1>3, <1>6, <2>2 DEF DirtyTags, Valid, line
  <2>3. ASSUME NEW t \in DirtyTags(lines), t \notin Resident(next)
        PROVE  line.valid_bit /\ line.dirty_bit /\ line.tag # tag
    <3>1. line.valid_bit /\ line.tag # tag /\ t = line.tag
      BY <1>3, <1>5, <1>6, <2>3
    <3>2. PICK j \in Lines : lines[j].valid_bit /\ lines[j].dirty_bit /\ lines[j].tag = t
      BY <1>2 DEF DirtyTags, Valid
    <3>3. j = k
      BY <1>1, <3>1, <3>2 DEF Replaced, line
    <3> QED BY <3>1, <3>2, <3>3 DEF line
  <2> QED BY <2>1, <2>2, <2>3
<1>10. \A t : t # tag /\ t \in Resident(next) => t \in Resident(lines)
  BY <1>3, <1>6
<1>11. \A t : t # tag => (t \in DirtyTags(next) <=>
                          t \in DirtyTags(lines) /\ t \in Resident(next))
  BY <1>3, <1>4
<1>12. tag \in DirtyTags(next) <=> write \/ tag \in DirtyTags(lines)
  BY <1>4, <1>5, <1>7
<1>13. tag \in Resident(next)
  BY <1>3
<1> QED BY <1>5, <1>8, <1>9, <1>10, <1>11, <1>12, <1>13 DEF caso, line, k, next, lines

LEMMA DirtyKept ==
  ASSUME HInv, Memory', IInv', HTypes',
         NEW op \in Operation, NEW i \in Sets, NEW tag \in Tags, HAccess(op, i, tag)
  PROVE  DirtyInv'
<1> DEFINE n == time
           e == [op |-> op, set |-> i, tag |-> tag]
<1>1. /\ HTypes' /\ Extends(trace', trace)
      /\ n \in Nat /\ n = Len(trace) /\ time' = n + 1 /\ Len(trace') = n + 1
      /\ trace'[n + 1] = e
  BY TraceGrows DEF HInv
<1>2. \A i2 \in Sets : i2 # i => sets'[i2] = sets[i2]
  BY AccessEffect DEF HInv, HAccess
<1>3. \A i2 \in Sets, t \in Tags :
        t \in Resident(sets'[i2]) <=> Cached(trace', i2, t, n + 1)
  BY CachedAfter
<1>4. ASSUME NEW i2 \in Sets, NEW t \in Tags
      PROVE  Modified(trace', i2, t, n + 1) <=>
               /\ t \in Resident(sets'[i2])
               /\ (op = "WRITE" /\ i2 = i /\ t = tag) \/ t \in DirtyTags(sets[i2])
  <2>1. Modified(trace', i2, t, n) <=> Modified(trace, i2, t, n)
    <3>1. n \in 0 .. Len(trace)
      BY <1>1
    <3> QED BY <1>1, <3>1, SameModified
  <2>2. Modified(trace, i2, t, n) <=> t \in DirtyTags(sets[i2])
    BY DEF HInv, DirtyInv
  <2>3. Modified(trace', i2, t, n + 1) <=>
          /\ Cached(trace', i2, t, n + 1)
          /\ \/ trace'[n + 1] = [op |-> "WRITE", set |-> i2, tag |-> t]
             \/ Modified(trace', i2, t, n)
    <3>1. trace' \in Seq(Entry)
      BY <1>1 DEF HTypes
    <3> QED BY <1>1, <3>1, ModifiedStep
  <2>4. trace'[n + 1] = [op |-> "WRITE", set |-> i2, tag |-> t]
          <=> op = "WRITE" /\ i2 = i /\ t = tag
    BY <1>1
  <2> QED BY <1>3, <2>1, <2>2, <2>3, <2>4
<1>5. ASSUME NEW i2 \in Sets, NEW t \in Tags
      PROVE  t \in DirtyTags(sets'[i2]) <=> Modified(trace', i2, t, n + 1)
  <2>1. CASE i2 = i
    BY <1>4, <2>1, AccessInBlocks DEF HInv, HAccess
  <2>2. CASE i2 # i
    <3>1. DirtyTags(sets[i2]) \subseteq Resident(sets[i2])
      BY DEF DirtyTags, Resident
    <3> QED BY <1>2, <1>4, <2>2, <3>1
  <2> QED BY <2>1, <2>2
<1> QED BY <1>1, <1>5 DEF DirtyInv

(* One more operation is one more miss, or write-back, of its kind or none. *)
LEMMA MissesAfter ==
  ASSUME HInv, Memory', IInv', HTypes',
         NEW op \in Operation, NEW i \in Sets, NEW tag \in Tags, HAccess(op, i, tag),
         NEW o
  PROVE  LET caso == IdCaso(sets[i][FetchLine(sets[i], tag)], tag)
         IN  /\ MissesAt(trace', o) =
                  MissesAt(trace, o) \cup {p \in {time + 1} : o = op /\ caso # "1"}
             /\ WriteBacksAt(trace', o) =
                  WriteBacksAt(trace, o) \cup {p \in {time + 1} : o = op /\ caso = "2b"}
<1> DEFINE n == time
           caso == IdCaso(sets[i][FetchLine(sets[i], tag)], tag)
           g == trace'
           h == trace
<1>1. /\ Extends(g, h)
      /\ n \in Nat /\ n = Len(h)
      /\ g[n + 1].op = op /\ g[n + 1].set = i /\ g[n + 1].tag = tag
      /\ DOMAIN h = 1 .. n /\ DOMAIN g = 1 .. n + 1
  <2>1. IInv /\ HTypes
    BY DEF HInv
  <2>2. /\ Extends(g, h) /\ n \in Nat /\ n = Len(h)
        /\ g[n + 1] = [op |-> op, set |-> i, tag |-> tag]
        /\ DOMAIN h = 1 .. n /\ DOMAIN g = 1 .. n + 1
    BY <2>1, TraceGrows
  <2> HIDE DEF g, h, n
  <2> QED BY <2>2
<1>2. \A p \in 1 .. n : g[p] = h[p]
  BY <1>1 DEF Extends
<1>3. \A i2, t : \A m \in 0 .. n : Cached(g, i2, t, m) <=> Cached(h, i2, t, m)
  BY <1>1, SameCached
<1>4. \A i2, t : \A m \in 0 .. n : Modified(g, i2, t, m) <=> Modified(h, i2, t, m)
  BY <1>1, SameModified
<1>5. caso # "1" <=> ~Cached(g, i, tag, n)
  <2>1. caso = "1" <=> tag \in Resident(sets[i])
    BY AccessInBlocks DEF HInv, HAccess
  <2>2. tag \in Resident(sets[i]) <=> Cached(h, i, tag, n)
    BY CachedAfter
  <2>3. Cached(g, i, tag, n) <=> Cached(h, i, tag, n)
    BY <1>1, <1>3
  <2> QED BY <2>1, <2>2, <2>3
<1>6. caso = "2b" <=> \E t \in Tags : Modified(g, i, t, n) /\ ~Cached(g, i, t, n + 1)
  <2>1. caso = "2b" <=> \E t \in DirtyTags(sets[i]) : t \notin Resident(sets'[i])
    BY AccessInBlocks DEF HInv, HAccess
  <2>2. DirtyTags(sets[i]) \subseteq Tags
    BY DEF HInv, TagsFromTrace, DirtyTags, Valid
  <2>3. \A t \in Tags : t \in Resident(sets'[i]) <=> Cached(g, i, t, n + 1)
    BY CachedAfter
  <2>4. \A t \in Tags : t \in DirtyTags(sets[i]) <=> Modified(h, i, t, n)
    BY DEF HInv, DirtyInv
  <2>5. \A t \in Tags : Modified(g, i, t, n) <=> Modified(h, i, t, n)
    BY <1>1, <1>4
  <2> QED BY <2>1, <2>2, <2>3, <2>4, <2>5
<1> HIDE DEF n, caso, g, h
<1>7. MissesAt(g, o) = MissesAt(h, o) \cup {p \in {n + 1} : o = op /\ caso # "1"}
  <2>1. ASSUME NEW p \in 1 .. n
        PROVE  p \in MissesAt(g, o) <=> p \in MissesAt(h, o)
    <3>1. p - 1 \in 0 .. n /\ g[p] = h[p] /\ p \in 1 .. n + 1
      BY <1>1, <1>2
    <3>2. Cached(g, h[p].set, h[p].tag, p - 1) <=> Cached(h, h[p].set, h[p].tag, p - 1)
      BY <1>3, <3>1
    <3> QED BY <1>1, <3>1, <3>2 DEF MissesAt
  <2>2. n + 1 \in MissesAt(g, o) <=> o = op /\ caso # "1"
    <3>1. n + 1 \in 1 .. n + 1 /\ (n + 1) - 1 = n
      BY <1>1
    <3>2. Cached(g, g[n + 1].set, g[n + 1].tag, (n + 1) - 1) <=> Cached(g, i, tag, n)
      BY <1>1, <3>1
    <3> QED BY <1>1, <1>5, <3>1, <3>2 DEF MissesAt
  <2>3. MissesAt(g, o) \subseteq 1 .. n + 1 /\ MissesAt(h, o) \subseteq 1 .. n
    BY <1>1 DEF MissesAt
  <2>4. \A p \in 1 .. n + 1 : p \in 1 .. n \/ p = n + 1
    BY <1>1
  <2> QED BY <2>1, <2>2, <2>3, <2>4
<1>8. WriteBacksAt(g, o) = WriteBacksAt(h, o) \cup {p \in {n + 1} : o = op /\ caso = "2b"}
  <2>1. ASSUME NEW p \in 1 .. n
        PROVE  p \in WriteBacksAt(g, o) <=> p \in WriteBacksAt(h, o)
    <3>1. p - 1 \in 0 .. n /\ p \in 0 .. n /\ g[p] = h[p] /\ p \in 1 .. n + 1
      BY <1>1, <1>2
    <3>2. \A t : /\ Modified(g, h[p].set, t, p - 1) <=> Modified(h, h[p].set, t, p - 1)
                 /\ Cached(g, h[p].set, t, p) <=> Cached(h, h[p].set, t, p)
      BY <1>3, <1>4, <3>1
    <3> QED BY <1>1, <3>1, <3>2 DEF WriteBacksAt
  <2>2. n + 1 \in WriteBacksAt(g, o) <=> o = op /\ caso = "2b"
    <3>1. n + 1 \in 1 .. n + 1 /\ (n + 1) - 1 = n
      BY <1>1
    <3>2. (\E t \in Tags : /\ Modified(g, g[n + 1].set, t, (n + 1) - 1)
                           /\ ~Cached(g, g[n + 1].set, t, n + 1))
            <=> \E t \in Tags : Modified(g, i, t, n) /\ ~Cached(g, i, t, n + 1)
      BY <1>1, <3>1
    <3> QED BY <1>1, <1>6, <3>1, <3>2 DEF WriteBacksAt
  <2>3. WriteBacksAt(g, o) \subseteq 1 .. n + 1 /\ WriteBacksAt(h, o) \subseteq 1 .. n
    BY <1>1 DEF WriteBacksAt
  <2>4. \A p \in 1 .. n + 1 : p \in 1 .. n \/ p = n + 1
    BY <1>1
  <2> QED BY <2>1, <2>2, <2>3, <2>4
<1> QED BY <1>7, <1>8 DEF n, g, h, caso

LEMMA CountOneMore ==
  ASSUME NEW n \in Nat, NEW T \in SUBSET (1 .. n), NEW c \in BOOLEAN
  PROVE  /\ Cardinality(T) \in Nat
         /\ Cardinality(T \cup {p \in {n + 1} : c}) = Cardinality(T) + One(c)
<1>1. IsFiniteSet(T) /\ Cardinality(T) \in Nat
  <2>1. IsFiniteSet(1 .. n)
    <3>1. 1 \in Int /\ n \in Int
      OBVIOUS
    <3> QED BY <3>1, FS_Interval
  <2> QED BY <2>1, FS_Subset, FS_CardinalityType
<1>2. CASE c
  <2>1. n + 1 \notin T /\ T \cup {p \in {n + 1} : c} = T \cup {n + 1}
    BY <1>2
  <2> QED BY <1>1, <1>2, <2>1, FS_AddElement DEF One
<1>3. CASE ~c
  <2>1. T \cup {p \in {n + 1} : c} = T /\ One(c) = 0
    BY <1>3 DEF One
  <2>2. Cardinality(T) + 0 = Cardinality(T)
    BY <1>1
  <2> QED BY <1>1, <2>1, <2>2
<1> QED BY <1>2, <1>3

LEMMA StatisticsKept ==
  ASSUME HInv, Memory', IInv', HTypes',
         NEW op \in Operation, NEW i \in Sets, NEW tag \in Tags, HAccess(op, i, tag)
  PROVE  StatisticsFollowTrace'
<1> DEFINE caso == IdCaso(sets[i][FetchLine(sets[i], tag)], tag)
           miss(o) == o = op /\ caso # "1"
           back(o) == o = op /\ caso = "2b"
<1>1. time \in Nat /\ DOMAIN trace = 1 .. time
  BY TraceGrows DEF HInv
<1>2. stats \in Stats /\ caso \in Caso /\ stats' = Charged(stats, op, caso)
  BY AccessEffect DEF HInv, HAccess
<1>3. ASSUME NEW o
      PROVE  /\ Cardinality(MissesAt(trace', o)) = Cardinality(MissesAt(trace, o)) + One(miss(o))
             /\ Cardinality(WriteBacksAt(trace', o))
                  = Cardinality(WriteBacksAt(trace, o)) + One(back(o))
  <2>1. /\ MissesAt(trace', o) = MissesAt(trace, o) \cup {p \in {time + 1} : miss(o)}
        /\ WriteBacksAt(trace', o) = WriteBacksAt(trace, o) \cup {p \in {time + 1} : back(o)}
    BY MissesAfter
  <2>2. MissesAt(trace, o) \in SUBSET (1 .. time) /\ WriteBacksAt(trace, o) \in SUBSET (1 .. time)
    BY <1>1 DEF MissesAt, WriteBacksAt
  <2>3. miss(o) \in BOOLEAN /\ back(o) \in BOOLEAN
    OBVIOUS
  <2> DEFINE M == MissesAt(trace, o)
             B == WriteBacksAt(trace, o)
  <2> HIDE DEF miss, back, M, B
  <2>4. Cardinality(M \cup {p \in {time + 1} : miss(o)}) = Cardinality(M) + One(miss(o))
    BY <1>1, <2>2, <2>3, CountOneMore DEF M
  <2>5. Cardinality(B \cup {p \in {time + 1} : back(o)}) = Cardinality(B) + One(back(o))
    BY <1>1, <2>2, <2>3, CountOneMore DEF B
  <2> QED BY <2>1, <2>4, <2>5 DEF M, B
<1>4. /\ stats'.rmiss = stats.rmiss + One(miss("READ"))
      /\ stats'.wmiss = stats.wmiss + One(miss("WRITE"))
      /\ stats'.dirty_rmiss = stats.dirty_rmiss + One(back("READ"))
      /\ stats'.dirty_wmiss = stats.dirty_wmiss + One(back("WRITE"))
  <2> HIDE DEF caso
  <2>1. CASE op = "READ"
    <3>1. /\ stats'.rmiss = stats.rmiss + One(caso # "1")
          /\ stats'.dirty_rmiss = stats.dirty_rmiss + One(caso = "2b")
          /\ stats'.wmiss = stats.wmiss /\ stats'.dirty_wmiss = stats.dirty_wmiss
      BY <1>2, <2>1, ChargedCounters
    <3>2. /\ One(miss("WRITE")) = 0 /\ One(back("WRITE")) = 0
          /\ One(miss("READ")) = One(caso # "1") /\ One(back("READ")) = One(caso = "2b")
      BY <2>1 DEF One
    <3> QED BY <1>2, <3>1, <3>2 DEF Stats
  <2>2. CASE op = "WRITE"
    <3>1. /\ stats'.wmiss = stats.wmiss + One(caso # "1")
          /\ stats'.dirty_wmiss = stats.dirty_wmiss + One(caso = "2b")
          /\ stats'.rmiss = stats.rmiss /\ stats'.dirty_rmiss = stats.dirty_rmiss
      BY <1>2, <2>2, ChargedCounters
    <3>2. /\ One(miss("READ")) = 0 /\ One(back("READ")) = 0
          /\ One(miss("WRITE")) = One(caso # "1") /\ One(back("WRITE")) = One(caso = "2b")
      BY <2>2 DEF One
    <3> QED BY <1>2, <3>1, <3>2 DEF Stats
  <2> QED BY <2>1, <2>2 DEF Operation
<1> HIDE DEF miss, back, caso
<1> QED BY <1>3, <1>4 DEF HInv, StatisticsFollowTrace

LEMMA InitHInv == HInit => HInv
<1> SUFFICES ASSUME HInit PROVE HInv
  OBVIOUS
<1>1. IInv
  BY InitIInv DEF HInit
<1>2. HTypes
  BY DEF HInit, HTypes, Init
<1>3. \A i \in Sets : Valid(sets[i]) = {}
  BY DEF HInit, Init, CrearSets, EmptyLine, Valid, Sets
<1>4. TagsFromTrace
  BY <1>3 DEF TagsFromTrace
<1>5. \A i, t : Uses(trace, i, t, time) = {}
  BY DEF HInit, Init, Uses
<1>6. Memory
  BY <1>3, <1>5 DEF Memory, Recorded
<1>7. DirtyInv
  BY <1>3, <1>5 DEF DirtyInv, DirtyTags, Modified
<1>8. StatisticsFollowTrace
  <2>1. DOMAIN trace = {}
    BY DEF HInit
  <2>2. \A o : MissesAt(trace, o) = {} /\ WriteBacksAt(trace, o) = {}
    BY <2>1 DEF MissesAt, WriteBacksAt
  <2> QED BY <2>2, FS_EmptySet DEF HInit, Init, CrearStats, StatisticsFollowTrace
<1> QED BY <1>1, <1>2, <1>4, <1>6, <1>7, <1>8 DEF HInv

LEMMA NextHInv ==
  ASSUME MaxOps <= MAX_TIME
  PROVE  HInv /\ [HNext]_<<sets, time, stats, trace>> => HInv'
<1> SUFFICES ASSUME HInv, [HNext]_<<sets, time, stats, trace>> PROVE HInv'
  OBVIOUS
<1>1. CASE UNCHANGED <<sets, time, stats, trace>>
  BY <1>1 DEF HInv, IInv, TypeOK, UniqueTags, UniqueTimes, FilledInOrder, Accounting,
              TagsFromTrace, HTypes, Memory, DirtyInv, StatisticsFollowTrace
<1>2. ASSUME NEW op \in Operation, NEW i \in Sets, NEW tag \in Tags, HAccess(op, i, tag)
      PROVE  HInv'
  <2>1. Next
    BY <1>2 DEF HAccess, Next
  <2>2. IInv'
    BY <2>1, NextIInv DEF HInv
  <2>3. TagsFromTrace'
    BY <1>2, AccessShape DEF HInv, IInv, HAccess, TagsFromTrace, Valid, TypeOK
  <2>4. HTypes'
    BY <1>2, TraceGrows DEF HInv
  <2>5. Memory'
    BY <1>2, MemoryKept
  <2>6. DirtyInv'
    BY <1>2, <2>2, <2>4, <2>5, DirtyKept
  <2>7. StatisticsFollowTrace'
    BY <1>2, <2>2, <2>4, <2>5, StatisticsKept
  <2> QED BY <2>2, <2>3, <2>4, <2>5, <2>6, <2>7 DEF HInv
<1> QED BY <1>1, <1>2 DEF HNext, HAccess

LEMMA HInvariance ==
  ASSUME MaxOps <= MAX_TIME
  PROVE  HSpec => []HInv
BY InitHInv, NextHInv, PTL DEF HSpec

(* The valid lines are the blocks LRU keeps of the trace, and the dirty    *)
(* ones those stored to since they came in: for every geometry and every   *)
(* trace of at most MAX_TIME operations.                                   *)
THEOREM ContentsAreTheTrace ==
  ASSUME MaxOps <= MAX_TIME
  PROVE  HSpec => []ContentsFollowTrace
<1>1. HInv => ContentsFollowTrace
  <2> SUFFICES ASSUME HInv, NEW i \in Sets, NEW t \in Tags
               PROVE  /\ t \in Resident(sets[i])  <=> Cached(trace, i, t, time)
                      /\ t \in DirtyTags(sets[i]) <=> Modified(trace, i, t, time)
    BY DEF ContentsFollowTrace
  <2>1. /\ sets[i] \in [Lines -> Line] /\ Recorded(trace, i, sets[i], time)
        /\ \A j, l \in Valid(sets[i]) : j # l => sets[i][j].tag # sets[i][l].tag
        /\ time \in Nat
    BY CacheAssumption DEF HInv, IInv, TypeOK, UniqueTags, Memory
  <2> QED BY <2>1, ResidentIsCached DEF HInv, DirtyInv
<1> QED BY <1>1, HInvariance, PTL

(* The four miss counters of the summary are those of the trace. *)
THEOREM StatisticsAreTheTrace ==
  ASSUME MaxOps <= MAX_TIME
  PROVE  HSpec => []StatisticsFollowTrace
<1>1. HInv => StatisticsFollowTrace
  BY DEF HInv
<1> QED BY <1>1, HInvariance, PTL

=============================================================================
