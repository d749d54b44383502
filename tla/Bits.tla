-------------------------------- MODULE Bits --------------------------------
(***************************************************************************)
(* The puzzles of src/datalab/bits.c, translated expression by expression. *)
(* A parameter that only counts a shift is a number, the others are words. *)
(* The constants 31, 32, 0xFF, 23, 127 ... of the code are named by the    *)
(* width they come from. A float has one sign bit, EX exponent bits and FR *)
(* fraction bits (1, 8, 23).                                               *)
(***************************************************************************)
EXTENDS Word

CONSTANTS EX, FR

ASSUME FloatAssumption ==
  /\ EX \in Nat /\ EX > 0 /\ FR \in Nat /\ FR > 0
  /\ W = 1 + EX + FR
  /\ EX + FR <= 2^(EX - 1)     \* every float up to 2^(W - 1) has its exponent

Byte == 0 .. BYTE - 1          \* 0xFF
Bias == 2^(EX - 1) - 1         \* 127
Inf == FR .. W - 2             \* 0x7F800000
Mag == Not(SignBit)            \* 0x7FFFFFFF

bitAnd(x, y) == Not(Or(Not(x), Not(y)))

bitMatch(x, y) == Not(And(Not(And(x, y)), Not(And(Not(x), Not(y)))))

bitNor(x, y) == And(Not(x), Not(y))

bitXor(x, y) == And(Not(And(x, y)), Not(And(Not(x), Not(y))))

(* A byte pattern spread over the word, with + as allOddBits and byteSwap  *)
(* do and with | as anyEvenBit does.                                       *)
SpreadAdd(b) ==
  LET x4 == Add(Shl(b, BYTE), b) IN Add(Shl(x4, 2 * BYTE), x4)

SpreadOr(b) ==
  LET m16 == Or(b, Shl(b, BYTE)) IN Or(m16, Shl(m16, 2 * BYTE))

allOddBits(x) ==
  LET Ax8 == SpreadAdd({i \in Byte : i % 2 = 1})    \* 0xAA
  IN LNot(Xor(And(x, Ax8), Ax8))

anyEvenBit(x) ==
  LNot(LNot(And(x, SpreadOr({i \in Byte : i % 2 = 0}))))    \* 0x55

byteSwap(x, n, m) ==
  LET bits_n == n * BYTE
      bits_m == m * BYTE
      nEnX == And(Sar(x, bits_n), Byte)
      mEnX == And(Sar(x, bits_m), Byte)
      mascara == Xor(Shl(Byte, bits_m), Shl(Byte, bits_n))
      resto == And(x, Xor(mascara, SpreadAdd(Byte)))
  IN Or(Or(resto, Shl(mEnX, bits_n)), Shl(nEnX, bits_m))

fitsBits(x, n) ==
  LET mover == W - n IN LNot(Xor(x, Sar(Shl(x, mover), mover)))

negate(x) == Add(Not(x), One)

sign(x) == Or(Sar(x, W - 1), LNot(LNot(x)))

addOK(x, y) ==
  LET signoX == Sar(x, W - 1)
      signoY == Sar(y, W - 1)
      signoSuma == Sar(Add(x, y), W - 1)
  IN LNot(And(Not(Xor(signoX, signoY)), Xor(signoX, signoSuma)))

bitMask(highbit, lowbit) ==
  And(Not(Shl(Shl(Not(Zero), highbit), 1)), Shl(Not(Zero), lowbit))

conditional(x, y, z) ==
  LET cero == Sar(Shl(LNot(x), W - 1), W - 1)
  IN Or(And(Not(cero), y), And(cero, z))

isAsciiDigit(x) ==
  LET controlSuperior == Sar(Add(x, Not(ToWord(57))), W - 1)
      controlInferior == Sar(Add(x, Add(Not(ToWord(48)), One)), W - 1)
  IN And(LNot(controlInferior), controlSuperior)

(* Fault: the signs are not compared before subtracting.                   *)
isGreaterOverflows(x, y) ==
  Or(And(Sar(y, W - 1), LNot(Sar(x, W - 1))), LNot(Sar(Add(x, Not(y)), W - 1)))

isGreater(x, y) ==
  LET signosIguales ==
        LNot(Or(Sar(Xor(x, y), W - 1), Sar(Add(x, Not(y)), W - 1)))
      signosDiferentes == And(Sar(y, W - 1), LNot(Sar(x, W - 1)))
  IN Or(signosDiferentes, signosIguales)

replaceByte(x, n, c) ==
  LET desplazamiento == n * BYTE
  IN Or(And(x, Not(Shl(Byte, desplazamiento))), Shl(c, desplazamiento))

absVal(x) == LET signoX == Sar(x, W - 1) IN Xor(Add(signoX, x), signoX)

bang(x) == Add(Or(Sar(x, W - 1), Sar(Add(Not(x), One), W - 1)), One)

isNonZero(x) == And(Sar(Or(x, Add(Not(x), One)), W - 1), One)

logicalNeg(x) == Add(Or(Sar(x, W - 1), Sar(Add(Not(x), One), W - 1)), One)

floatAbsVal(uf) == IF ULess(Inf, And(uf, Mag)) THEN uf ELSE And(uf, Mag)

floatIsEqual(uf, ug) ==
  Truth(/\ ~ULess(Inf, And(uf, Mag))
        /\ ~ULess(Inf, And(ug, Mag))
        /\ uf = ug \/ Shl(Or(uf, ug), 1) = Zero)

floatNegate(uf) ==
  IF ULess(Inf, And(uf, Mag)) THEN uf ELSE Xor(uf, SignBit)

floatIsLess(uf, ug) ==
  Truth(/\ ~ULess(Inf, And(uf, Mag))
        /\ ~ULess(Inf, And(ug, Mag))
        /\ Shl(Or(uf, ug), 1) # Zero
        /\ \/ Negative(uf) /\ ~Negative(ug)
           \/ Negative(uf) /\ Negative(ug) /\ ULess(ug, uf)
           \/ ~Negative(uf) /\ ~Negative(ug) /\ ULess(uf, ug))

floatFloat2Int(uf) ==
  LET exponent == Unsigned(And(Shr(uf, FR), 0 .. EX - 1))
      fraction == And(uf, 0 .. FR - 1)
      e == exponent - Bias
      shifted == IF e <= FR THEN Shr(fraction, FR - e) ELSE Shl(fraction, e - FR)
      value == Or(Shl(One, e), shifted)
  IN IF ULess(Inf, fraction) \/ exponent > Bias + W - 2 THEN SignBit
     ELSE IF exponent < Bias THEN Zero
     ELSE IF Negative(uf) THEN Minus(value) ELSE value

floatPower2(x) ==
  IF x <= -Bias THEN Zero
  ELSE IF x >= Bias + 1 THEN Inf
  ELSE Shl(ToWord(x + Bias), FR)
=============================================================================
