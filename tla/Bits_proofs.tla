---------------------------- MODULE Bits_proofs ----------------------------
(***************************************************************************)
(* The puzzles of bits.c equal their references for words of every width,  *)
(* where TLC tries words of sixteen bits.                                  *)
(***************************************************************************)
EXTENDS BitsTests, WellFoundedInduction, TLAPS

(* What the assumption on the widths says of them.                         *)
LEMMA Widths == /\ W \in Nat /\ W >= 8 /\ BYTE \in Nat /\ BYTE >= 2
                /\ W = 4 * BYTE
BY WordAssumption

(* ~(~x | ~y) is x & y.                                                    *)
THEOREM bitAndCorrect ==
  ASSUME NEW x \in Word, NEW y \in Word
  PROVE  bitAnd(x, y) = test_bitAnd(x, y)
BY DEF bitAnd, test_bitAnd, Not, And, Or, Word

(* The or of what both have and what neither has, written with ~ and &,    *)
(* marks the bits where the words agree.                                   *)
THEOREM bitMatchCorrect ==
  ASSUME NEW x \in Word, NEW y \in Word
  PROVE  bitMatch(x, y) = test_bitMatch(x, y)
BY DEF bitMatch, test_bitMatch, Not, And, Word

(* ~x & ~y is ~(x | y).                                                    *)
THEOREM bitNorCorrect ==
  ASSUME NEW x \in Word, NEW y \in Word
  PROVE  bitNor(x, y) = test_bitNor(x, y)
BY DEF bitNor, test_bitNor, Not, And, Or, Word

(* bitXor, built from ~ and & only, is x ^ y.                              *)
THEOREM bitXorCorrect ==
  ASSUME NEW x \in Word, NEW y \in Word
  PROVE  bitXor(x, y) = test_bitXor(x, y)
BY DEF bitXor, test_bitXor, Not, And, Xor, Word

(* A shift count below the width is taken as it is.                        *)
LEMMA Count == ASSUME NEW n \in 0 .. W - 1 PROVE n % W = n
BY Widths

LEMMA ShiftBits ==
  ASSUME NEW x \in Word, NEW n \in 0 .. W - 1
  PROVE  Shl(x, n) = {i \in Bit : i - n \in x}
BY Count DEF Shl

(* x >> 31 is all ones or all zeros.                                       *)
LEMMA SignSpread ==
  ASSUME NEW x \in Word
  PROVE  Sar(x, W - 1) = IF Negative(x) THEN Bit ELSE Zero
BY Widths, Count DEF Sar, Negative, Bit, Zero, Word

LEMMA LNotValue == ASSUME NEW x PROVE LNot(x) = IF x = {} THEN {0} ELSE {}
BY DEF LNot, Truth, Zero, One

(* The sign of a word smeared over it, or the one of a word that is not 0, *)
(* is -1, 1 or 0 as sign's comment says.                                   *)
THEOREM signCorrect ==
  ASSUME NEW x \in Word PROVE sign(x) = test_sign(x)
<1>1. LNot(LNot(x)) = IF x = {} THEN {} ELSE {0}
  BY LNotValue
<1>2. CASE Negative(x)
  <2>1. x # {} /\ 0 \in Bit
    BY <1>2, Widths DEF Negative, Bit
  <2>2. QED
    BY <1>1, <1>2, <2>1, SignSpread DEF sign, test_sign, Or, Not, Zero, One
<1>3. CASE ~Negative(x)
  BY <1>1, <1>3, SignSpread DEF sign, test_sign, Or, Not, Zero, One
<1>4. QED
  BY <1>2, <1>3

(* Adding nothing, and 1 to all ones.                                      *)
LEMMA AddZero == ASSUME NEW x \in Word PROVE Add(Zero, x) = x
BY DEF Add, Xor, Carry, Zero, Word

LEMMA Wraps == Add(Bit, One) = Zero
BY Widths DEF Add, Xor, Carry, Zero, One, Bit

(* ~x + 1 keeps the lowest one bit and inverts those above it.             *)
LEMMA MinusBits ==
  ASSUME NEW x \in Word
  PROVE  Minus(x) = {i \in Bit : (i \in x) <=> ~(\E k \in x : k < i)}
<1>1. Carry(Not(x), One) = {i \in Bit : i > 0 /\ \A k \in Bit : k < i => k \notin x}
  BY Widths DEF Carry, Not, One, Bit, Word
<1>2. Minus(x) = Xor(Xor(Not(x), One), Carry(Not(x), One))
  BY DEF Minus, Add
<1>3. ASSUME NEW i \in Bit
      PROVE  i \in Minus(x) <=> ((i \in x) <=> ~(\E k \in x : k < i))
  <2>1. i \in Carry(Not(x), One) <=> i > 0 /\ ~(\E k \in x : k < i)
    BY <1>1 DEF Word
  <2>2. i \in Xor(Not(x), One) <=> ((i \in x) <=> i = 0)
    BY DEF Xor, Not, One
  <2>3. i = 0 => ~(\E k \in x : k < i)
    BY DEF Word, Bit
  <2>4. i \in Nat
    BY DEF Bit
  <2>5. i \in Minus(x) <=>
          ~(i \in Xor(Not(x), One) <=> i \in Carry(Not(x), One))
    BY <1>2 DEF Xor
  <2> DEFINE Below == \E k \in x : k < i
  <2>6. /\ i \in Carry(Not(x), One) <=> i > 0 /\ ~Below
        /\ i = 0 => ~Below
    BY <2>1, <2>3
  <2>7. i = 0 \/ i > 0
    BY <2>4
  <2>8. i = 0 => ~(i > 0)
    OBVIOUS
  <2>9. i \in Minus(x) <=> ((i \in x) <=> ~Below)
    <3> HIDE DEF Below
    <3> QED
      BY <2>2, <2>5, <2>6, <2>7, <2>8
  <2>10. QED
    BY <2>9
<1>4. Minus(x) \subseteq Bit
  <2>1. Not(x) \subseteq Bit /\ Carry(Not(x), One) \subseteq Bit
    BY DEF Not, Carry
  <2>2. One \subseteq Bit
    BY Widths DEF One, Bit
  <2>3. QED
    BY <1>2, <2>1, <2>2 DEF Xor
<1>5. QED
  BY <1>3, <1>4

(* A nonzero word or its negation has the sign bit.                        *)
LEMMA SignOfEither ==
  ASSUME NEW x \in Word
  PROVE  Negative(x) \/ Negative(Minus(x)) <=> x # {}
<1>1. W - 1 \in Minus(x) <=> ((W - 1 \in x) <=> ~(\E k \in x : k < W - 1))
  BY MinusBits, Widths DEF Bit
<1>2. \A k \in x : k # W - 1 => k < W - 1
  BY Widths DEF Word, Bit
<1>3. QED
  BY <1>1, <1>2 DEF Negative

LEMMA MinusIsWord == ASSUME NEW x \in Word PROVE Minus(x) \in Word
BY MinusBits DEF Word

LEMMA BangValue ==
  ASSUME NEW x \in Word
  PROVE  Add(Or(Sar(x, W - 1), Sar(Minus(x), W - 1)), One) = LNot(x)
<1>1. Or(Sar(x, W - 1), Sar(Minus(x), W - 1)) = IF x = {} THEN Zero ELSE Bit
  BY SignSpread, SignOfEither, MinusIsWord DEF Or, Zero
<1>2. Add(Zero, One) = One
  BY AddZero, Widths DEF One, Word, Bit
<1>3. QED
  BY <1>1, <1>2, Wraps, LNotValue DEF Zero, One

(* x or -x is negative for every word but 0, the least int included: bang, *)
(* which looks at that sign, is !x.                                        *)
THEOREM bangCorrect ==
  ASSUME NEW x \in Word PROVE bang(x) = test_bang(x)
BY BangValue DEF bang, test_bang, Minus

(* logicalNeg looks at the same sign, and is !x too.                       *)
THEOREM logicalNegCorrect ==
  ASSUME NEW x \in Word PROVE logicalNeg(x) = test_logicalNeg(x)
BY BangValue DEF logicalNeg, test_logicalNeg, Minus

(* So does isNonZero, which is x != 0.                                     *)
THEOREM isNonZeroCorrect ==
  ASSUME NEW x \in Word PROVE isNonZero(x) = test_isNonZero(x)
<1>1. Or(x, Minus(x)) \in Word /\ (Negative(Or(x, Minus(x))) <=> x # {})
  BY SignOfEither, MinusIsWord DEF Or, Negative, Word
<1>2. Sar(Or(x, Minus(x)), W - 1) = IF x = {} THEN Zero ELSE Bit
  BY <1>1, SignSpread
<1>3. And(Bit, One) = One
  BY Widths DEF And, One, Bit
<1>4. QED
  BY <1>2, <1>3 DEF isNonZero, test_isNonZero, Minus, Truth, And, Zero

(* The mask made from !x is all ones or 0, so conditional returns y for    *)
(* every x but 0, and z for 0.                                             *)
THEOREM conditionalCorrect ==
  ASSUME NEW x \in Word, NEW y \in Word, NEW z \in Word
  PROVE  conditional(x, y, z) = test_conditional(x, y, z)
<1>1. Shl(LNot(x), W - 1) = IF x = {} THEN {W - 1} ELSE {}
  BY Widths, Count, LNotValue DEF Shl, Bit
<1>2. Sar(Shl(LNot(x), W - 1), W - 1) = IF x = {} THEN Bit ELSE Zero
  <2>1. Shl(LNot(x), W - 1) \in Word
    BY DEF Shl, Word
  <2>2. QED
    BY <1>1, <2>1, SignSpread DEF Negative
<1>3. QED
  BY <1>2 DEF conditional, test_conditional, Or, And, Not, Zero, Word

(* -1 + x inverts the lowest one bit and those below it.                   *)
LEMMA MinusOneBits ==
  ASSUME NEW x \in Word
  PROVE  Add(Bit, x) = {i \in Bit : (i \in x) <=> (\E k \in x : k < i)}
<1>1. Carry(Bit, x) = {i \in Bit : \E k \in x : k < i}
  BY DEF Carry, Word
<1>2. ASSUME NEW i \in Bit
      PROVE  i \in Add(Bit, x) <=> ((i \in x) <=> (\E k \in x : k < i))
  <2>1. i \in Carry(Bit, x) <=> \E k \in x : k < i
    BY <1>1
  <2>2. i \in Xor(Bit, x) <=> i \notin x
    BY DEF Xor
  <2>3. i \in Add(Bit, x) <=> ~(i \in Xor(Bit, x) <=> i \in Carry(Bit, x))
    BY DEF Add, Xor
  <2>4. QED
    BY <2>1, <2>2, <2>3
<1>3. Add(Bit, x) \subseteq Bit
  BY <1>1 DEF Add, Xor, Word
<1>4. QED
  BY <1>2, <1>3

(* Adding the sign mask and flipping by it negates the negative words and  *)
(* leaves the others: absVal wraps at the least int as the reference does. *)
THEOREM absValCorrect ==
  ASSUME NEW x \in Word PROVE absVal(x) = test_absVal(x)
<1>1. CASE Negative(x)
  <2>1. absVal(x) = Xor(Add(Bit, x), Bit)
    BY <1>1, SignSpread DEF absVal
  <2>2. ASSUME NEW i \in Bit PROVE i \in Xor(Add(Bit, x), Bit) <=> i \in Minus(x)
    BY MinusBits, MinusOneBits DEF Xor
  <2>3. Xor(Add(Bit, x), Bit) \subseteq Bit /\ Minus(x) \subseteq Bit
    BY MinusBits, MinusOneBits DEF Xor
  <2>4. QED
    BY <1>1, <2>1, <2>2, <2>3 DEF test_absVal
<1>2. CASE ~Negative(x)
  BY <1>2, SignSpread, AddZero DEF absVal, test_absVal, Xor, Zero
<1>3. QED
  BY <1>1, <1>2

(* The bytes of the word.                                                  *)
LEMMA ByteShift ==
  ASSUME NEW n \in 0 .. 3
  PROVE  /\ Shl(Byte, n * BYTE) = ByteAt(n)
         /\ n * BYTE = IF n \in 0 .. 2 THEN n * BYTE ELSE 3 * BYTE
<1>1. (n * BYTE) % W = n * BYTE
  <2>1. n = 0 \/ n = 1 \/ n = 2 \/ n = 3
    OBVIOUS
  <2>2. n * BYTE \in 0 .. W - 1
    BY <2>1, Widths
  <2>3. QED
    BY <2>2, Count
<1>2. n = 0 \/ n = 1 \/ n = 2 \/ n = 3
  OBVIOUS
<1>3. Shl(Byte, n * BYTE) = n * BYTE .. n * BYTE + BYTE - 1
  BY <1>1, <1>2, Widths DEF Shl, Byte, Bit
<1>4. QED
  BY <1>2, <1>3 DEF ByteAt

(* Clearing byte n and putting c there by the same shift is what the       *)
(* switch of test_replaceByte does, for the four byte numbers.             *)
THEOREM replaceByteCorrect ==
  ASSUME NEW x \in Word, NEW n \in 0 .. 3, NEW c \in Word
  PROVE  replaceByte(x, n, c) = test_replaceByte(x, n, c)
BY ByteShift DEF replaceByte, test_replaceByte

(* Two shifts of -1 leave the bits from lowbit to highbit, and none when   *)
(* lowbit is the higher.                                                   *)
THEOREM bitMaskCorrect ==
  ASSUME NEW highbit \in 0 .. W - 1, NEW lowbit \in 0 .. W - 1
  PROVE  bitMask(highbit, lowbit) = test_bitMask(highbit, lowbit)
<1> DEFINE High == {i \in Bit : i >= highbit}
<1>1. Not(Zero) = Bit
  BY DEF Not, Zero
<1>2. Shl(Bit, highbit) = High
  BY Count, Widths DEF Shl, Bit
<1>3. Shl(Bit, lowbit) = {i \in Bit : i >= lowbit}
  BY Count, Widths DEF Shl, Bit
<1>4. \A i \in Bit : i - 1 \in High <=> i > highbit
  BY Widths DEF Bit
<1> HIDE DEF High
<1>5. Shl(High, 1) = {i \in Bit : i > highbit}
  <2>1. High \in Word /\ 1 \in 0 .. W - 1
    BY Widths DEF High, Word
  <2>2. Shl(High, 1) = {i \in Bit : i - 1 \in High}
    BY <2>1, ShiftBits
  <2>3. QED
    BY <1>4, <2>2
<1>6. bitMask(highbit, lowbit)
        = And(Not(Shl(Shl(Not(Zero), highbit), 1)), Shl(Not(Zero), lowbit))
  BY DEF bitMask
<1>7. bitMask(highbit, lowbit)
        = And(Not({i \in Bit : i > highbit}), {i \in Bit : i >= lowbit})
  BY <1>1, <1>2, <1>3, <1>5, <1>6
<1>8. QED
  BY <1>7 DEF test_bitMask, And, Not, Bit

(* The comparison of ints. A nonempty set of bits has a highest one.       *)
LEMMA Highest ==
  ASSUME NEW S \in SUBSET Bit, S # {}
  PROVE  \E m \in S : \A k \in S : k <= m
<1> DEFINE T == {W - k : k \in S}
           Less == OpToRel(<, Nat)
<1>1. T \subseteq Nat /\ T # {}
  <2>1. \A k \in S : W - k \in Nat
    BY Widths DEF Bit
  <2>2. QED
    BY <2>1
<1>2. IsWellFoundedOn(Less, Nat)
  BY NatLessThanWellFounded
<1>3. PICK t \in T : \A u \in T : <<u, t>> \notin Less
  <2> HIDE DEF T, Less
  <2> QED
    BY <1>1, <1>2, WFMin
<1>4. PICK m \in S : t = W - m
  OBVIOUS
<1>5. ASSUME NEW k \in S PROVE k <= m
  <2>1. W - k \in T /\ W - k \in Nat /\ t \in Nat
    BY <1>1
  <2>2. <<W - k, t>> \in Less <=> W - k < t
    BY <2>1 DEF OpToRel
  <2>3. ~(W - k < W - m)
    BY <1>3, <1>4, <2>1, <2>2
  <2>4. k \in Int /\ m \in Int
    BY DEF Bit
  <2>5. QED
    BY <2>3, <2>4, Widths
<1>6. QED
  BY <1>5

(* x + ~y, that is x - y - 1, of two ints of one sign is negative exactly  *)
(* when x is not greater: the carry into the sign bit is the comparison.   *)
LEMMA CarryCompares ==
  ASSUME NEW x \in Word, NEW y \in Word, Negative(x) <=> Negative(y)
  PROVE  W - 1 \in Carry(x, Not(y)) <=> ULess(y, x)
<1> DEFINE Top == W - 1
<1>0. Top \in Bit /\ \A k \in Bit : k \in Int /\ k <= Top
  BY Widths DEF Bit
<1>1. ASSUME NEW j \in x \ y, j < Top,
             \A k \in Bit : j < k /\ k < Top => k \in x \union Not(y)
      PROVE  ULess(y, x)
  <2> DEFINE S == {k \in x \ y : k >= j}
  <2>1. S \in SUBSET Bit /\ j \in S
    BY <1>0 DEF Word
  <2>2. PICK m \in S : \A k \in S : k <= m
    BY <2>1, Highest
  <2>3. ASSUME NEW k \in Bit, k > m PROVE k \in y <=> k \in x
    <3>1. k \notin x \ y
      BY <1>0, <2>1, <2>2, <2>3
    <3>2. CASE k = Top
      BY <3>2 DEF Negative
    <3>3. CASE k # Top
      BY <1>0, <1>1, <2>1, <2>3, <3>1, <3>3 DEF Not
    <3>4. QED
      BY <3>2, <3>3
  <2>4. QED
    BY <2>2, <2>3 DEF ULess
<1>2. ASSUME NEW i \in x \ y, \A k \in Bit : k > i => (k \in y <=> k \in x)
      PROVE  W - 1 \in Carry(x, Not(y))
  <2>1. i \in x \intersect Not(y)
    BY DEF Not, Word
  <2>2. i < Top
    <3>1. i # Top
      BY DEF Negative
    <3>2. QED
      BY <1>0, <2>1, <3>1 DEF Not
  <2>3. \A k \in Bit : i < k /\ k < Top => k \in x \union Not(y)
    BY <1>0, <1>2, <2>1 DEF Not
  <2>4. QED
    BY <1>0, <2>1, <2>2, <2>3 DEF Carry
<1>3. QED
  <2>1. ASSUME W - 1 \in Carry(x, Not(y)) PROVE ULess(y, x)
    <3>1. PICK j \in x \intersect Not(y) :
                 /\ j < Top
                 /\ \A k \in Bit : j < k /\ k < Top => k \in x \union Not(y)
      BY <2>1 DEF Carry
    <3>2. j \in x \ y
      BY DEF Not
    <3>3. QED
      BY <1>1, <3>1, <3>2
  <2>2. ASSUME ULess(y, x) PROVE W - 1 \in Carry(x, Not(y))
    BY <1>2, <2>2 DEF ULess
  <2>3. QED
    BY <2>1, <2>2

(* Inverting both sign bits leaves the bits that differ: two ints of one   *)
(* sign compare like unsigneds, and of two signs the negative one is less. *)
LEMMA SignedLess ==
  ASSUME NEW x \in Word, NEW y \in Word
  PROVE  SLess(y, x) <=> IF Negative(x) <=> Negative(y) THEN ULess(y, x)
                         ELSE Negative(y)
<1> DEFINE a == Xor(y, SignBit)
           b == Xor(x, SignBit)
           Top == W - 1
<1>1. Top \in Bit /\ \A k \in Bit : k \in Int /\ k <= Top
  BY Widths DEF Bit
<1>2. /\ \A k \in Bit \ {Top} : (k \in a <=> k \in y) /\ (k \in b <=> k \in x)
      /\ Top \in a <=> ~Negative(y)
      /\ Top \in b <=> ~Negative(x)
      /\ a \subseteq Bit /\ b \subseteq Bit
  BY <1>1 DEF Xor, SignBit, Negative, Word
<1>3. SLess(y, x) <=> \E i \in b \ a : \A j \in Bit : j > i => (j \in a <=> j \in b)
  BY DEF SLess, ULess
<1> HIDE DEF a, b
<1>4. CASE Negative(x) <=> Negative(y)
  <2>1. \A k \in Bit : /\ k \in b \ a <=> k \in x \ y
                       /\ (k \in a <=> k \in b) <=> (k \in y <=> k \in x)
    BY <1>2, <1>4 DEF Negative
  <2>2. QED
    BY <1>2, <1>3, <1>4, <2>1 DEF ULess, Word
<1>5. CASE Negative(x) /\ ~Negative(y)
  <2>1. Top \in a \ b
    BY <1>2, <1>5
  <2>2. ASSUME NEW i \in b \ a, \A j \in Bit : j > i => (j \in a <=> j \in b)
        PROVE  FALSE
    BY <1>1, <1>2, <2>1, <2>2
  <2>3. QED
    BY <1>3, <1>5, <2>2
<1>6. CASE ~Negative(x) /\ Negative(y)
  <2>1. Top \in b \ a
    BY <1>2, <1>6
  <2>2. \A j \in Bit : ~(j > Top)
    BY <1>1
  <2>3. QED
    BY <1>3, <1>6, <2>1, <2>2
<1>7. QED
  BY <1>4, <1>5, <1>6

(* x + ~y, one less than the difference, never overflows when the signs    *)
(* are equal, and the signs decide the others: isGreater is the signed     *)
(* comparison, at both ends of the ints too.                               *)
THEOREM isGreaterCorrect ==
  ASSUME NEW x \in Word, NEW y \in Word
  PROVE  isGreater(x, y) = test_isGreater(x, y)
<1> DEFINE d == Add(x, Not(y))
<1>1. d \in Word /\ Xor(x, y) \in Word
  BY DEF Add, Xor, Not, Carry, Word
<1>2. Negative(Xor(x, y)) <=> ~(Negative(x) <=> Negative(y))
  BY DEF Xor, Negative
<1>3. (Negative(x) <=> Negative(y)) => (Negative(d) <=> ~ULess(y, x))
  <2>1. W - 1 \in Bit
    BY Widths DEF Bit
  <2>2. Negative(d) <=> ~((W - 1 \in x <=> W - 1 \in Not(y))
                          <=> ~(W - 1 \in Carry(x, Not(y))))
    BY DEF Add, Xor, Negative
  <2>3. W - 1 \in Not(y) <=> ~Negative(y)
    BY <2>1 DEF Not, Negative
  <2>4. QED
    BY <2>2, <2>3, CarryCompares DEF Negative
<1>4. Or(Sar(Xor(x, y), W - 1), Sar(d, W - 1))
        = IF Negative(Xor(x, y)) \/ Negative(d) THEN Bit ELSE {}
  BY <1>1, SignSpread DEF Or, Zero
<1>5. 0 \in Bit
  BY Widths DEF Bit
<1>6. And(Sar(y, W - 1), LNot(Sar(x, W - 1)))
        = IF Negative(y) /\ ~Negative(x) THEN {0} ELSE {}
  BY <1>5, SignSpread, LNotValue DEF And, Zero
<1>7. isGreater(x, y)
        = IF (Negative(y) /\ ~Negative(x))
             \/ ((Negative(x) <=> Negative(y)) /\ ULess(y, x))
          THEN {0} ELSE {}
  <2>1. LNot(Or(Sar(Xor(x, y), W - 1), Sar(d, W - 1)))
          = IF (Negative(x) <=> Negative(y)) /\ ULess(y, x) THEN {0} ELSE {}
    BY <1>2, <1>3, <1>4, <1>5, LNotValue
  <2>2. QED
    BY <1>6, <2>1 DEF isGreater, Or
<1>8. QED
  BY <1>7, SignedLess DEF test_isGreater, Truth, One, Zero

(* A byte is added to its shifted copies, or put beside them: no carry     *)
(* arises, and every byte of the word is then the same.                    *)
LEMMA AddDisjoint ==
  ASSUME NEW x, NEW y, x \intersect y = {}
  PROVE  Add(x, y) = Or(x, y)
BY DEF Add, Or, Xor, Carry

LEMMA Spread ==
  ASSUME NEW b \in SUBSET Byte
  PROVE  /\ SpreadAdd(b) = SpreadOr(b)
         /\ SpreadOr(b) = {i \in Bit : \/ i \in b
                                      \/ i - BYTE \in b
                                      \/ i - 2 * BYTE \in b
                                      \/ i - 3 * BYTE \in b}
<1> DEFINE half == Or(b, Shl(b, BYTE))
<1>1. /\ BYTE \in 0 .. W - 1 /\ 2 * BYTE \in 0 .. W - 1
      /\ b \in Word /\ half \in Word
  <2>1. b \in Word
    BY Widths DEF Byte, Bit, Word
  <2>2. half \in Word
    BY <2>1 DEF Or, Shl, Word
  <2>3. QED
    BY <2>1, <2>2, Widths
<1>2. Shl(b, BYTE) = {i \in Bit : i - BYTE \in b}
  BY <1>1, ShiftBits
<1>3. Shl(half, 2 * BYTE) = {i \in Bit : i - 2 * BYTE \in half}
  BY <1>1, ShiftBits
<1>4. \A i \in Bit : i \in half <=> i \in b \/ i - BYTE \in b
  BY <1>2 DEF Or
<1>5. \A i \in Bit : i \in half => i < 2 * BYTE
  BY <1>4, Widths DEF Byte, Bit
<1>6. Add(Shl(b, BYTE), b) = half
  <2>1. \A i \in b : i < BYTE /\ i - BYTE \notin b
    BY Widths DEF Byte
  <2>2. Shl(b, BYTE) \intersect b = {}
    BY <1>2, <2>1
  <2>3. QED
    BY <2>2, AddDisjoint DEF Or
<1>7. \A i \in Bit : i - 2 * BYTE \in half
                     <=> i - 2 * BYTE \in b \/ i - 3 * BYTE \in b
  <2>1. ASSUME NEW i \in Bit PROVE i - 2 * BYTE \in half
                     <=> i - 2 * BYTE \in b \/ i - 3 * BYTE \in b
    <3>1. (i - 2 * BYTE) - BYTE = i - 3 * BYTE
      BY Widths DEF Bit
    <3>2. CASE i - 2 * BYTE \in Bit
      BY <1>4, <3>1, <3>2
    <3>3. CASE i - 2 * BYTE \notin Bit
      BY <1>1, <3>3, Widths DEF Bit, Byte, Word
    <3>4. QED
      BY <3>2, <3>3
  <2>2. QED
    BY <2>1
<1> HIDE DEF half
<1>8. Shl(half, 2 * BYTE) \intersect half = {}
  BY <1>1, <1>3, <1>5, Widths DEF Word, Bit
<1>9. SpreadAdd(b) = Or(Shl(half, 2 * BYTE), half)
  BY <1>6, <1>8, AddDisjoint DEF SpreadAdd
<1>10. SpreadOr(b) = Or(half, Shl(half, 2 * BYTE))
  BY DEF SpreadOr, half
<1>11. SpreadOr(b) \subseteq Bit
  BY <1>1, <1>3, <1>10 DEF Or, Word
<1>12. ASSUME NEW i \in Bit
       PROVE  i \in SpreadOr(b) <=> \/ i \in b
                                    \/ i - BYTE \in b
                                    \/ i - 2 * BYTE \in b
                                    \/ i - 3 * BYTE \in b
  BY <1>3, <1>4, <1>7, <1>10 DEF Or
<1>13. QED
  BY <1>9, <1>10, <1>11, <1>12 DEF Or

(* The width of a byte is even, so an odd bit of a byte is an odd bit of   *)
(* the word.                                                               *)
LEMMA Parity ==
  ASSUME NEW i \in Bit, NEW r \in {0, 1}
  PROVE  i % 2 = r <=> LET b == {j \in Byte : j % 2 = r}
                       IN \/ i \in b
                          \/ i - BYTE \in b
                          \/ i - 2 * BYTE \in b
                          \/ i - 3 * BYTE \in b
<1>1. PICK h \in Nat : BYTE = 2 * h
  <2>1. BYTE = 2 * (BYTE \div 2) /\ BYTE \div 2 \in Nat
    BY WordAssumption
  <2>2. QED
    BY <2>1
<1>2. /\ (i - BYTE) % 2 = i % 2
      /\ (i - 2 * BYTE) % 2 = i % 2
      /\ (i - 3 * BYTE) % 2 = i % 2
  BY <1>1 DEF Bit
<1>3. \/ i \in Byte
      \/ i - BYTE \in Byte
      \/ i - 2 * BYTE \in Byte
      \/ i - 3 * BYTE \in Byte
  BY Widths DEF Bit, Byte
<1>4. QED
  BY <1>2, <1>3

(* 0xAA spread by shifts and sums is the mask of every odd bit and of no   *)
(* even one, for any even width of a byte: allOddBits finds a 0 among them *)
(* exactly when there is one.                                              *)
THEOREM allOddBitsCorrect ==
  ASSUME NEW x \in Word PROVE allOddBits(x) = test_allOddBits(x)
<1> DEFINE b == {i \in Byte : i % 2 = 1}
           Ax8 == SpreadAdd(b)
<1>1. \A i \in Bit : i \in Ax8 <=> i % 2 = 1
  BY Spread, Parity
<1>2. Ax8 \subseteq Bit
  BY Spread
<1>3. allOddBits(x) = LNot(Xor(And(x, Ax8), Ax8))
  BY DEF allOddBits
<1> HIDE DEF Ax8
<1>4. Xor(And(x, Ax8), Ax8) = {} <=> \A i \in Bit : i % 2 = 1 => i \in x
  BY <1>1, <1>2 DEF Xor, And
<1>5. QED
  BY <1>3, <1>4 DEF test_allOddBits, LNot, Zero

(* 0x55 spread by shifts and ors is the mask of the even bits, which       *)
(* anyEvenBit meets exactly when some even bit is set.                     *)
THEOREM anyEvenBitCorrect ==
  ASSUME NEW x \in Word PROVE anyEvenBit(x) = test_anyEvenBit(x)
<1> DEFINE b == {i \in Byte : i % 2 = 0}
           m32 == SpreadOr(b)
<1>1. \A i \in Bit : i \in m32 <=> i % 2 = 0
  BY Spread, Parity
<1>2. m32 \subseteq Bit
  BY Spread
<1>3. anyEvenBit(x) = LNot(LNot(And(x, m32)))
  BY DEF anyEvenBit
<1> HIDE DEF m32
<1>4. And(x, m32) # {} <=> \E i \in Bit : i % 2 = 0 /\ i \in x
  BY <1>1, <1>2 DEF And
<1>5. QED
  BY <1>3, <1>4, LNotValue DEF test_anyEvenBit, Truth, One, Zero

(* Both swaps, bit by bit.                                                 *)
LEMMA ByteAtBounds ==
  ASSUME NEW n \in 0 .. 3
  PROVE  /\ n * BYTE \in 0 .. W - BYTE
         /\ ByteAt(n) = n * BYTE .. n * BYTE + BYTE - 1
         /\ ByteAt(n) \subseteq Bit
         /\ \A i \in Bit : i \in ByteAt(n) <=> i - n * BYTE \in Byte
<1>1. n = 0 \/ n = 1 \/ n = 2 \/ n = 3
  OBVIOUS
<1>2. n * BYTE \in 0 .. W - BYTE
  BY <1>1, Widths
<1>3. ByteAt(n) = n * BYTE .. n * BYTE + BYTE - 1
  BY <1>1 DEF ByteAt
<1>4. QED
  BY <1>2, <1>3, Widths DEF Bit, Byte

LEMMA TakeByte ==
  ASSUME NEW x \in Word, NEW n \in 0 .. 3
  PROVE  /\ And(Sar(x, n * BYTE), Byte) = {j \in Byte : j + n * BYTE \in x}
         /\ Shr(And(x, ByteAt(n)), n * BYTE) = {j \in Byte : j + n * BYTE \in x}
<1> DEFINE L == n * BYTE
<1>1. L \in 0 .. W - BYTE /\ L % W = L
  <2>1. L \in 0 .. W - BYTE
    BY ByteAtBounds
  <2> HIDE DEF L
  <2>2. L \in 0 .. W - 1
    BY <2>1, Widths
  <2>3. QED
    BY <2>1, <2>2, Count
<1>2. ByteAt(n) = L .. L + BYTE - 1
  BY ByteAtBounds
<1>3. Byte \subseteq Bit /\ \A j \in Byte : ~(j + L >= W)
  BY <1>1, Widths DEF Byte, Bit
<1>4. \A j \in Bit : j + L \in ByteAt(n) <=> j \in Byte
  BY <1>1, <1>2, Widths DEF Bit, Byte
<1> HIDE DEF L
<1>5. And(Sar(x, L), Byte) = {j \in Byte : j + L \in x}
  BY <1>1, <1>3 DEF And, Sar
<1>6. Shr(And(x, ByteAt(n)), L) = {j \in Byte : j + L \in x}
  BY <1>1, <1>3, <1>4 DEF And, Shr
<1>7. QED
  BY <1>5, <1>6 DEF L

LEMMA PutByte ==
  ASSUME NEW b \in SUBSET Byte, NEW n \in 0 .. 3
  PROVE  Shl(b, n * BYTE) = {i \in Bit : i - n * BYTE \in b}
<1>1. b \in Word
  BY Widths DEF Word, Byte, Bit
<1>2. n * BYTE \in 0 .. W - 1
  BY ByteAtBounds, Widths
<1>3. QED
  BY <1>1, <1>2, ShiftBits

(* byteSwap clears bytes n and m by a mask made with xor, which clears     *)
(* nothing when they are equal, and or-s them in exchanged: the reference, *)
(* which cuts them out and puts them back, gives the same for every pair.  *)
THEOREM byteSwapCorrect ==
  ASSUME NEW x \in Word, NEW n \in 0 .. 3, NEW m \in 0 .. 3
  PROVE  byteSwap(x, n, m) = test_byteSwap(x, n, m)
<1> DEFINE L == n * BYTE
           M == m * BYTE
           BN == ByteAt(n)
           BM == ByteAt(m)
           inN == {j \in Byte : j + L \in x}
           inM == {j \in Byte : j + M \in x}
           left == {j \in Byte : j + M \in x /\ j + M \notin BN}
<1>1. byteSwap(x, n, m)
        = Or(Or(And(x, Xor(Xor(Shl(Byte, M), Shl(Byte, L)), SpreadAdd(Byte))),
                Shl(And(Sar(x, M), Byte), L)),
             Shl(And(Sar(x, L), Byte), M))
  BY DEF byteSwap
<1>2. /\ Shl(Byte, L) = BN
      /\ Shl(Byte, M) = BM
  BY ByteShift
<1>3. SpreadAdd(Byte) = Bit
  <2>1. \A i \in Bit : \/ i \in Byte
                       \/ i - BYTE \in Byte
                       \/ i - 2 * BYTE \in Byte
                       \/ i - 3 * BYTE \in Byte
    BY Widths DEF Bit, Byte
  <2>2. QED
    BY <2>1, Spread
<1>4. And(Sar(x, L), Byte) = inN /\ And(Sar(x, M), Byte) = inM
  BY TakeByte
<1>5. /\ Shl(inM, L) = {i \in Bit : i - L \in inM}
      /\ Shl(inN, M) = {i \in Bit : i - M \in inN}
      /\ Shl(left, L) = {i \in Bit : i - L \in left}
  BY PutByte
<1>6. test_byteSwap(x, n, m)
        = LET x1 == And(x, Not(BN))
          IN Or(Or(And(x1, Not(BM)), Shl(Shr(And(x, BN), L), M)),
                Shl(Shr(And(x1, BM), M), L))
  <2>1. /\ L = IF n \in 0 .. 2 THEN n * BYTE ELSE 3 * BYTE
        /\ M = IF m \in 0 .. 2 THEN m * BYTE ELSE 3 * BYTE
    BY ByteShift
  <2>2. BYTE * m = M /\ BYTE * n = L
    BY Widths
  <2>3. QED
    BY <2>1, <2>2 DEF test_byteSwap
<1>7. Shr(And(x, BN), L) = inN
  BY TakeByte
<1>8. Shr(And(And(x, Not(BN)), BM), M) = left
  <2>1. And(x, Not(BN)) \in Word
    BY DEF And, Not, Word
  <2>2. Shr(And(And(x, Not(BN)), BM), M)
          = {j \in Byte : j + M \in And(x, Not(BN))}
    BY <2>1, TakeByte
  <2>3. QED
    BY <2>2 DEF And, Not, Word
<1>9. /\ \A i \in Bit : i \in BN <=> i - L \in Byte
      /\ \A i \in Bit : i \in BM <=> i - M \in Byte
      /\ BN \subseteq Bit /\ BM \subseteq Bit
  BY ByteAtBounds
<1>11. L \in Nat /\ M \in Nat
  BY ByteAtBounds, Widths
<1>12. n # m => BN \intersect BM = {}
  <2>1. /\ n = 0 \/ n = 1 \/ n = 2 \/ n = 3
        /\ m = 0 \/ m = 1 \/ m = 2 \/ m = 3
    OBVIOUS
  <2>2. QED
    BY <2>1, Widths DEF ByteAt
<1> HIDE DEF L, M, BN, BM
<1>13. byteSwap(x, n, m)
         = {i \in Bit : \/ i \in x /\ (i \in BN <=> i \in BM)
                       \/ i - L \in inM
                       \/ i - M \in inN}
  <2> HIDE DEF inN, inM
  <2>1. byteSwap(x, n, m)
          = Or(Or(And(x, Xor(Xor(BM, BN), Bit)), {i \in Bit : i - L \in inM}),
               {i \in Bit : i - M \in inN})
    BY <1>1, <1>2, <1>3, <1>4, <1>5
  <2>2. QED
    BY <2>1 DEF Or, And, Xor, Word
<1>14. test_byteSwap(x, n, m)
         = {i \in Bit : \/ i \in x /\ i \notin BN /\ i \notin BM
                       \/ i - M \in inN
                       \/ i - L \in left}
  <2> HIDE DEF inN, left
  <2>1. test_byteSwap(x, n, m)
          = Or(Or(And(And(x, Not(BN)), Not(BM)), {i \in Bit : i - M \in inN}),
               {i \in Bit : i - L \in left})
    BY <1>5, <1>6, <1>7, <1>8
  <2>2. QED
    BY <2>1 DEF Or, And, Not, Word
<1>15. CASE n = m
  <2>1. L = M /\ BN = BM
    BY <1>15 DEF L, M, BN, BM
  <2>2. \A i \in Bit : i - L \in inN <=> i \in BN /\ i \in x
    <3>1. \A i \in Bit : (i - L) + L = i
      BY <1>11 DEF Bit
    <3>2. QED
      BY <1>9, <3>1
  <2>3. QED
    BY <1>13, <1>14, <2>1, <2>2
<1>16. CASE n # m
  <2>1. \A i \in Bit : i - L \in inM <=> i - L \in left
    <3>1. ASSUME NEW j \in Byte, j + M \in x PROVE j + M \notin BN
      <4>1. j + M \in Bit /\ (j + M) - M = j
        BY <3>1, <1>11 DEF Byte, Word
      <4>2. j + M \in BM
        BY <1>9, <4>1
      <4>3. QED
        BY <1>12, <1>16, <4>2
    <3>2. QED
      BY <3>1
  <2>2. BN \intersect BM = {}
    BY <1>12, <1>16
  <2>3. QED
    BY <1>13, <1>14, <2>1, <2>2
<1>17. QED
  BY <1>15, <1>16
=============================================================================
