-------------------------- MODULE FetchLoop_proofs --------------------------
(***************************************************************************)
(* Proofs about FetchLoop: the scan of fetch_line computes FetchLine, for  *)
(* sets of any number of lines with any tags and times.                    *)
(***************************************************************************)
EXTENDS FetchLoop, CacheLine_proofs

IInv == TypeOK /\ LoopInv /\ Correct

(* The minimum found so far is at most the one the scan started from.      *)
LEMMA LowestBelowMax ==
  ASSUME TypeOK, LoopInv, target_line = NoLine
  PROVE  /\ lowest_time <= MAX_TIME
         /\ Evictable(lines) \cap Seen # {} =>
              /\ to_eject \in LeastRecent(lines, Evictable(lines) \cap Seen)
              /\ \A k \in LeastRecent(lines, Evictable(lines) \cap Seen) : to_eject <= k
<1> DEFINE S == Evictable(lines) \cap Seen
           L == LeastRecent(lines, S)
<1>1. CASE S = {}
  BY <1>1, CacheLineAssumption DEF LoopInv
<1>2. CASE S # {}
  <2>1. S \in SUBSET Nat /\ L \subseteq S
    BY DEF TypeOK, Evictable, Valid, LeastRecent
  <2>2. L # {}
    <3> DEFINE T == {lines[k].time_used : k \in S}
    <3>1. T \in SUBSET Nat /\ T # {}
      BY <1>2 DEF TypeOK, Line, Evictable, Valid
    <3>2. PICK t \in T : \A u \in T : t <= u
      <4> HIDE DEF T
      <4> QED
        BY <3>1, NatHasLeast
    <3>3. PICK k \in S : lines[k].time_used = t
      BY <3>2
    <3>4. QED
      BY <3>2, <3>3 DEF LeastRecent
  <2>3. to_eject = Min(L) /\ lowest_time = lines[to_eject].time_used
    BY <1>2 DEF LoopInv
  <2> HIDE DEF L
  <2>4. to_eject \in L /\ \A k \in L : to_eject <= k
    BY <2>1, <2>2, <2>3, MinIsLeast
  <2>5. lowest_time < MAX_TIME
    BY <2>1, <2>3, <2>4 DEF Evictable
  <2>6. lowest_time <= MAX_TIME
    BY <2>5, CacheLineAssumption DEF TypeOK
  <2>7. QED
    BY <2>4, <2>6 DEF L
<1>3. QED
  BY <1>1, <1>2

LEMMA InitIInv == Init => IInv
<1> SUFFICES ASSUME Init PROVE IInv
  OBVIOUS
<1> USE FetchLoopAssumption, CacheLineAssumption
<1>1. lines \in [0 .. E-1 -> Line]
  BY DEF Init, Line
<1>2. TypeOK
  <2>1. /\ tag \in Tag /\ j = 0 /\ lowest_time = MAX_TIME /\ to_eject = 0
        /\ empty_line = E + 1 /\ empty = FALSE /\ target_line = NoLine
    BY DEF Init
  <2>2. 0 \in 0 .. E-1 /\ 0 \in 0 .. E
    OBVIOUS
  <2>3. QED
    BY <1>1, <2>1, <2>2 DEF TypeOK
<1>3. Seen = {}
  BY <1>1 DEF Init, Seen
<1>4. LoopInv
  BY <1>3 DEF Init, LoopInv
<1>5. Correct
  BY DEF Init, Correct
<1>6. QED
  BY <1>2, <1>4, <1>5 DEF IInv

(* A round that does not return moves the counter on: one more line seen.  *)
LEMMA SeesOneMore ==
  ASSUME TypeOK, j \in 0 .. E-1, j' = j + 1, lines' = lines
  PROVE  Seen' = Seen \union {j} /\ j \notin Seen /\ \A k \in Seen : k < j
BY DEF TypeOK, Seen

LEMMA HitStep == IInv /\ FoundHit => IInv'
<1> SUFFICES ASSUME IInv, FoundHit PROVE IInv'
  OBVIOUS
<1>1. j \in 0 .. E-1
  BY FetchLoopAssumption DEF IInv, TypeOK, FoundHit, Scanning
<1>2. TypeOK'
  BY <1>1 DEF IInv, TypeOK, FoundHit
<1>3. j # NoLine
  BY <1>1 DEF NoLine
<1>4. LoopInv'
  BY <1>3 DEF IInv, LoopInv, FoundHit, Seen
<1>5. FetchLine(lines, tag) = j
  <2>1. j \in Hits(lines, tag) /\ Hits(lines, tag) \in SUBSET Nat
    BY <1>1 DEF FoundHit, Hits, Valid, IInv, TypeOK
  <2>2. \A k \in Hits(lines, tag) : j <= k
    BY <1>1 DEF FoundHit, Scanning, IInv, LoopInv, TypeOK, Hits, Valid, Seen
  <2>3. QED
    BY <2>1, <2>2, LeastIsMin DEF FetchLine
<1>6. Correct'
  BY <1>5 DEF Correct, FoundHit
<1>7. QED
  BY <1>2, <1>4, <1>6 DEF IInv

LEMMA ValidStep == IInv /\ SeenValid => IInv'
<1> SUFFICES ASSUME IInv, SeenValid PROVE IInv'
  OBVIOUS
<1> DEFINE S == Evictable(lines) \cap Seen
           L == LeastRecent(lines, S)
<1>1. j \in 0 .. E-1 /\ j \in DOMAIN lines
  BY FetchLoopAssumption DEF IInv, TypeOK, SeenValid, Scanning
<1>2. lines[j].time_used \in Nat /\ lines[j].valid_bit
  BY <1>1 DEF IInv, TypeOK, Line, SeenValid
<1>3. TypeOK'
  BY <1>1, <1>2, FetchLoopAssumption DEF IInv, TypeOK, SeenValid
<1>4. Seen' = Seen \union {j} /\ j \notin Seen /\ \A k \in Seen : k < j
  BY <1>1, SeesOneMore DEF IInv, SeenValid
<1>5. /\ Invalid(lines) \cap Seen' = Invalid(lines) \cap Seen
      /\ Hits(lines, tag) \cap Seen' = Hits(lines, tag) \cap Seen
  BY <1>2, <1>4 DEF Invalid, Hits, SeenValid
<1>6. Evictable(lines) \cap Seen'
        = IF lines[j].time_used < MAX_TIME THEN S \union {j} ELSE S
  BY <1>1, <1>2, <1>4 DEF Evictable, Valid
<1>7. lowest_time <= MAX_TIME /\ lowest_time \in Nat /\ MAX_TIME \in Nat
  BY LowestBelowMax, CacheLineAssumption DEF IInv, TypeOK, SeenValid, Scanning
<1>8. S # {} => /\ to_eject \in L /\ \A k \in L : to_eject <= k
                /\ lowest_time = lines[to_eject].time_used
  BY LowestBelowMax DEF IInv, LoopInv, SeenValid, Scanning
<1>9. S = {} => lowest_time = MAX_TIME /\ to_eject = 0
  BY DEF IInv, LoopInv, SeenValid, Scanning
<1>10. /\ S \in SUBSET (0 .. E-1)
       /\ \A k \in S : lines[k].time_used \in Nat /\ k < j
  BY <1>4 DEF Evictable, Valid, IInv, TypeOK, Line
<1>11. IF Evictable(lines) \cap Seen' = {}
       THEN lowest_time' = MAX_TIME /\ to_eject' = 0
       ELSE /\ to_eject' = Min(LeastRecent(lines, Evictable(lines) \cap Seen'))
            /\ lowest_time' = lines[to_eject'].time_used
  <2>1. CASE lines[j].time_used < lowest_time
    <3>1. Evictable(lines) \cap Seen' = S \union {j}
      BY <1>2, <1>6, <1>7, <2>1
    <3>2. \A k \in S : lines[j].time_used < lines[k].time_used
      BY <1>2, <1>8, <1>10, <2>1 DEF LeastRecent
    <3> HIDE DEF S
    <3>3. LeastRecent(lines, S \union {j}) = {j}
      <4>1. \A k \in S : ~(lines[k].time_used <= lines[j].time_used)
        BY <1>2, <1>10, <3>2
      <4>2. \A k \in S \union {j} : lines[j].time_used <= lines[k].time_used
        BY <1>2, <1>10, <3>2
      <4>3. QED
        BY <4>1, <4>2 DEF LeastRecent
    <3>4. Min({j}) = j
      BY <1>1, LeastIsMin
    <3>5. to_eject' = j /\ lowest_time' = lines[j].time_used
      BY <2>1 DEF SeenValid
    <3>6. QED
      BY <3>1, <3>3, <3>4, <3>5
  <2>2. CASE ~(lines[j].time_used < lowest_time)
    <3>1. to_eject' = to_eject /\ lowest_time' = lowest_time
      BY <2>2 DEF SeenValid
    <3>2. CASE S = {}
      BY <1>2, <1>6, <1>7, <1>9, <2>2, <3>1, <3>2
    <3>3. CASE S # {} /\ ~(lines[j].time_used < MAX_TIME)
      BY <1>6, <3>1, <3>3 DEF IInv, LoopInv, SeenValid, Scanning
    <3>4. CASE S # {} /\ lines[j].time_used < MAX_TIME
      <4>1. Evictable(lines) \cap Seen' = S \union {j}
        BY <1>6, <3>4
      <4>2. to_eject \in L /\ (\A k \in L : to_eject <= k)
            /\ lowest_time = lines[to_eject].time_used
        BY <1>8, <3>4
      <4> HIDE DEF S
      <4>3. to_eject \in S /\ L \subseteq S
        BY <4>2 DEF LeastRecent
      <4>4. lines[to_eject].time_used <= lines[j].time_used
        BY <1>2, <1>7, <2>2, <4>2
      <4>5. to_eject \in LeastRecent(lines, S \union {j})
        BY <4>2, <4>3, <4>4 DEF LeastRecent
      <4>6. \A k \in LeastRecent(lines, S \union {j}) : to_eject <= k
        <5>1. ASSUME NEW k \in LeastRecent(lines, S \union {j}) PROVE to_eject <= k
          <6>1. CASE k \in S
            BY <4>2, <5>1, <6>1 DEF LeastRecent
          <6>2. CASE k = j
            BY <1>1, <1>10, <4>3, <6>2
          <6>3. QED
            BY <5>1, <6>1, <6>2 DEF LeastRecent
        <5>2. QED
          BY <5>1
      <4>7. LeastRecent(lines, S \union {j}) \in SUBSET Nat
        <5>1. LeastRecent(lines, S \union {j}) \subseteq S \union {j}
          BY DEF LeastRecent
        <5>2. j \in Nat /\ S \subseteq Nat
          BY <1>1, <1>10
        <5>3. QED
          BY <5>1, <5>2
      <4>8. Min(LeastRecent(lines, S \union {j})) = to_eject
        BY <4>5, <4>6, <4>7, LeastIsMin
      <4>9. QED
        BY <3>1, <4>1, <4>2, <4>8
    <3>5. QED
      BY <3>2, <3>3, <3>4
  <2>3. QED
    BY <2>1, <2>2
<1>12. LoopInv'
  <2>1. /\ lines' = lines /\ tag' = tag /\ target_line' = target_line
        /\ empty' = empty /\ empty_line' = empty_line
    BY DEF SeenValid
  <2>2. Hits(lines, tag) \cap Seen = {}
    BY DEF IInv, LoopInv, SeenValid, Scanning
  <2>3. /\ empty = (Invalid(lines) \cap Seen # {})
        /\ empty_line = IF empty THEN Min(Invalid(lines) \cap Seen) ELSE E + 1
    BY DEF IInv, LoopInv
  <2>4. QED
    BY <1>5, <1>11, <2>1, <2>2, <2>3 DEF LoopInv
<1>13. Correct'
  BY DEF Correct, SeenValid, Scanning
<1>14. QED
  BY <1>3, <1>12, <1>13 DEF IInv

LEMMA InvalidStep == IInv /\ SeenInvalid => IInv'
<1> SUFFICES ASSUME IInv, SeenInvalid PROVE IInv'
  OBVIOUS
<1> DEFINE V == Invalid(lines) \cap Seen
<1>1. j \in 0 .. E-1 /\ j \in DOMAIN lines /\ ~lines[j].valid_bit
  BY FetchLoopAssumption DEF IInv, TypeOK, SeenInvalid, Scanning
<1>2. TypeOK'
  <2>1. /\ empty_line' \in (0 .. E-1) \union {E + 1}
        /\ empty' \in BOOLEAN
    BY <1>1 DEF IInv, TypeOK, SeenInvalid
  <2>2. j' \in 0 .. E
    BY <1>1, FetchLoopAssumption DEF SeenInvalid
  <2>3. QED
    BY <2>1, <2>2 DEF IInv, TypeOK, SeenInvalid
<1>3. Seen' = Seen \union {j} /\ j \notin Seen /\ \A k \in Seen : k < j
  BY <1>1, SeesOneMore DEF IInv, SeenInvalid
<1>4. /\ Evictable(lines) \cap Seen' = Evictable(lines) \cap Seen
      /\ Hits(lines, tag) \cap Seen' = Hits(lines, tag) \cap Seen
      /\ Invalid(lines) \cap Seen' = V \union {j}
  BY <1>1, <1>3 DEF Invalid, Hits, Evictable, Valid
<1>5. V \in SUBSET Nat /\ (\A k \in V : k < j) /\ j \in Nat
  BY <1>1, <1>3 DEF Invalid, IInv, TypeOK
<1>6. empty = (V # {}) /\ empty_line = IF empty THEN Min(V) ELSE E + 1
  BY DEF IInv, LoopInv
<1>7. empty' = TRUE /\ empty_line' = Min(V \union {j})
  <2> HIDE DEF V
  <2>1. CASE V = {}
    <3>1. empty_line = E + 1
      BY <1>6, <2>1
    <3>2. j < empty_line
      BY <1>1, <3>1, FetchLoopAssumption
    <3>3. Min({j}) = j
      BY <1>5, LeastIsMin
    <3>4. QED
      BY <2>1, <3>2, <3>3 DEF SeenInvalid
  <2>2. CASE V # {}
    <3>1. Min(V) \in V /\ Min(V \union {j}) = Min(V)
      BY <1>5, <2>2, MinIsLeast, MinOfMore
    <3>2. empty_line = Min(V) /\ Min(V) \in Nat /\ Min(V) < j
      BY <1>5, <1>6, <2>2, <3>1
    <3>3. QED
      <4>1. ~(j < empty_line)
        BY <1>5, <3>2
      <4>2. QED
        BY <1>6, <2>2, <3>1, <3>2, <4>1 DEF SeenInvalid
  <2>3. QED
    BY <2>1, <2>2
<1>8. LoopInv'
  <2>1. /\ lines' = lines /\ tag' = tag /\ target_line' = target_line
        /\ to_eject' = to_eject /\ lowest_time' = lowest_time
        /\ target_line = NoLine
    BY DEF SeenInvalid, Scanning
  <2>2. /\ Hits(lines, tag) \cap Seen = {}
        /\ IF Evictable(lines) \cap Seen = {}
           THEN lowest_time = MAX_TIME /\ to_eject = 0
           ELSE /\ to_eject = Min(LeastRecent(lines, Evictable(lines) \cap Seen))
                /\ lowest_time = lines[to_eject].time_used
    BY <2>1 DEF IInv, LoopInv
  <2>3. V \union {j} # {}
    OBVIOUS
  <2> HIDE DEF V
  <2>4. QED
    BY <1>4, <1>7, <2>1, <2>2, <2>3 DEF LoopInv
<1>9. Correct'
  BY DEF Correct, SeenInvalid, Scanning
<1>10. QED
  BY <1>2, <1>8, <1>9 DEF IInv

LEMMA ReturnStep == IInv /\ Return => IInv'
<1> SUFFICES ASSUME IInv, Return PROVE IInv'
  OBVIOUS
<1>1. Seen = DOMAIN lines /\ DOMAIN lines = 0 .. E-1
  BY DEF Return, IInv, TypeOK, Seen
<1>2. /\ Invalid(lines) \cap Seen = Invalid(lines)
      /\ Hits(lines, tag) \cap Seen = Hits(lines, tag)
      /\ Evictable(lines) \cap Seen = Evictable(lines)
  BY <1>1 DEF Invalid, Hits, Evictable, Valid
<1>3. /\ empty = (Invalid(lines) # {})
      /\ empty_line = IF empty THEN Min(Invalid(lines)) ELSE E + 1
      /\ Hits(lines, tag) = {}
      /\ Evictable(lines) = {} => to_eject = 0
      /\ Evictable(lines) # {} => to_eject = Min(LeastRecent(lines, Evictable(lines)))
  BY <1>2 DEF IInv, LoopInv, Return
<1>4. target_line' = FetchLine(lines, tag)
  BY <1>3 DEF Return, FetchLine
<1>5. target_line' \in 0 .. E-1
  <2>1. CASE empty
    <3>1. Invalid(lines) \in SUBSET Nat /\ Invalid(lines) \subseteq 0 .. E-1
      BY <1>1 DEF Invalid
    <3>2. QED
      BY <1>3, <2>1, <3>1, MinIsLeast DEF Return
  <2>2. CASE ~empty
    BY <2>2 DEF Return, IInv, TypeOK
  <2>3. QED
    BY <2>1, <2>2
<1>6. target_line' # NoLine
  BY <1>5 DEF NoLine
<1>7. TypeOK'
  BY <1>5 DEF IInv, TypeOK, Return
<1>8. LoopInv'
  BY <1>6 DEF IInv, LoopInv, Return, Seen
<1>9. Correct'
  BY <1>4 DEF Correct, Return
<1>10. QED
  BY <1>7, <1>8, <1>9 DEF IInv

LEMMA Invariance == Spec => []IInv
<1>1. IInv /\ [Next]_vars => IInv'
  <2>1. IInv /\ UNCHANGED vars => IInv'
    BY DEF IInv, TypeOK, LoopInv, Correct, Seen, vars
  <2>2. QED
    BY <2>1, HitStep, ValidStep, InvalidStep, ReturnStep DEF Next
<1>2. QED
  BY <1>1, InitIInv, PTL DEF Spec

(* The loop's variables keep their types: in particular the line to evict  *)
(* and the free line are always lines of the set.                          *)
THEOREM TypeCorrect == Spec => []TypeOK
BY Invariance, PTL DEF IInv

(* What the three candidates stand for after every iteration.              *)
THEOREM LoopInvariant == Spec => []LoopInv
BY Invariance, PTL DEF IInv

(* fetch_line returns the line FetchLine names, which is what the modules  *)
(* above it use in its place.                                              *)
THEOREM ComputesFetchLine == Spec => []Correct
BY Invariance, PTL DEF IInv
=============================================================================
