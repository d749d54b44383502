----------------------------- MODULE BitsTests -----------------------------
(***************************************************************************)
(* The reference of every puzzle: the test_ functions of                   *)
(* src/datalab/tests.c. Those on floats compute with the floats of the     *)
(* machine, which show_float of src/datalab/fshow.c takes apart: here a    *)
(* float is what fshow prints of it, mantissa * 2^(uexp - FR), and the     *)
(* comparison, the conversion and the powers are those of IEEE 754.        *)
(***************************************************************************)
EXTENDS Bits

test_bitAnd(x, y) == And(x, y)

test_bitMatch(x, y) == {i \in Bit : i \in x <=> i \in y}

test_bitNor(x, y) == Not(Or(x, y))

test_bitXor(x, y) == Xor(x, y)

test_allOddBits(x) == Truth(\A i \in Bit : i % 2 = 1 => i \in x)

test_anyEvenBit(x) == Truth(\E i \in Bit : i % 2 = 0 /\ i \in x)

(* The switches of test_byteSwap and test_replaceByte take every byte      *)
(* number but 0, 1 and 2 for the highest byte.                             *)
ByteAt(n) ==
  LET b == IF n \in 0 .. 2 THEN n ELSE 3
  IN b * BYTE .. b * BYTE + BYTE - 1

test_byteSwap(x, n, m) ==
  LET low(n0) == IF n0 \in 0 .. 2 THEN n0 * BYTE ELSE 3 * BYTE
      nmask == Shr(And(x, ByteAt(n)), low(n))
      x1 == And(x, Not(ByteAt(n)))
      mmask == Shr(And(x1, ByteAt(m)), low(m))
      x2 == And(x1, Not(ByteAt(m)))
  IN Or(Or(x2, Shl(nmask, BYTE * m)), Shl(mmask, BYTE * n))

test_fitsBits(x, n) ==
  Truth(-(2^(n - 1)) <= Signed(x) /\ Signed(x) <= 2^(n - 1) - 1)

test_negate(x) == Minus(x)

test_sign(x) ==
  IF x = Zero THEN Zero ELSE IF Negative(x) THEN Not(Zero) ELSE One

test_addOK(x, y) ==
  Truth(Signed(x) + Signed(y) = Signed(ToWord(Signed(x) + Signed(y))))

test_bitMask(highbit, lowbit) == {i \in Bit : lowbit <= i /\ i <= highbit}

test_conditional(x, y, z) == IF x # Zero THEN y ELSE z

test_isAsciiDigit(x) == Truth(48 <= Signed(x) /\ Signed(x) <= 57)

test_isGreater(x, y) == Truth(SLess(y, x))

test_replaceByte(x, n, c) ==
  Or(And(x, Not(ByteAt(n))), Shl(c, IF n \in 0 .. 2 THEN n * BYTE ELSE 3 * BYTE))

test_absVal(x) == IF Negative(x) THEN Minus(x) ELSE x

test_bang(x) == LNot(x)

test_isNonZero(x) == Truth(x # Zero)

test_logicalNeg(x) == LNot(x)

(* What fshow prints of the float whose bits are u. *)
get_exp(u) == Unsigned(And(Shr(u, FR), 0 .. EX - 1))

get_frac(u) == Unsigned(And(u, 0 .. FR - 1))

get_sign(u) == Negative(u)

show_float(u) ==
  LET denorm == get_exp(u) = 0
  IN [class |-> IF get_exp(u) = 2^EX - 1
                THEN IF get_frac(u) = 0 THEN "Infinity" ELSE "Not-A-Number"
                ELSE IF denorm THEN "Denormalized" ELSE "Normalized",
      minus |-> get_sign(u),
      uexp |-> IF denorm THEN 1 - Bias ELSE get_exp(u) - Bias,
      mantissa |-> IF denorm THEN get_frac(u) ELSE get_frac(u) + 2^FR]

isnan(u) == show_float(u).class = "Not-A-Number"

(* |f| < |g|: mantissas of normalized floats are in one binade, so the     *)
(* exponents decide first.                                                 *)
MagLess(f, g) ==
  \/ f.uexp < g.uexp
  \/ f.uexp = g.uexp /\ f.mantissa < g.mantissa

(* f < g, for floats that are numbers; -0 is not less than +0. *)
FloatLess(f, g) ==
  /\ f.mantissa # 0 \/ g.mantissa # 0
  /\ IF f.minus # g.minus THEN f.minus
     ELSE IF f.minus THEN MagLess(g, f) ELSE MagLess(f, g)

test_floatAbsVal(u) == IF isnan(u) \/ ~Negative(u) THEN u ELSE Xor(u, SignBit)

test_floatIsLess(u, v) ==
  Truth(~isnan(u) /\ ~isnan(v) /\ FloatLess(show_float(u), show_float(v)))

test_floatIsEqual(u, v) ==
  Truth(/\ ~isnan(u) /\ ~isnan(v)
        /\ ~FloatLess(show_float(u), show_float(v))
        /\ ~FloatLess(show_float(v), show_float(u)))

test_floatNegate(u) == IF isnan(u) THEN u ELSE Xor(u, SignBit)

(* (int) f truncates; what an int cannot hold gives TMin, as cvttss2si and *)
(* fistp do.                                                               *)
test_floatFloat2Int(u) ==
  LET f == show_float(u)
      magnitude == IF f.uexp >= FR THEN f.mantissa * 2^(f.uexp - FR)
                   ELSE f.mantissa \div 2^(FR - f.uexp)
  IN IF f.class \in {"Infinity", "Not-A-Number"} \/ f.uexp >= W - 1 THEN SignBit
     ELSE ToWord(IF f.minus THEN -magnitude ELSE magnitude)

(* 2.0^x by squaring. Every product of powers of two is exact until it     *)
(* leaves the range of the floats: above it is infinite, below half of the *)
(* smallest denormalized float it is 0.                                    *)
test_floatPower2(x) ==
  IF x > Bias THEN Inf
  ELSE IF x >= 1 - Bias THEN ToWord((x + Bias) * 2^FR)
  ELSE IF x >= 1 - Bias - FR THEN ToWord(2^(x - (1 - Bias - FR)))
  ELSE Zero
=============================================================================
