-------------------------------- MODULE Decl --------------------------------
(***************************************************************************)
(* src/datalab/decl.c: the table of puzzles that btest goes over, and the  *)
(* comparison of a puzzle of bits.c with its reference of tests.c, which   *)
(* the table ties together by function pointers.                           *)
(***************************************************************************)
EXTENDS BitsTests, Sequences

TMin == -(2^(W - 1))

TMax == 2^(W - 1) - 1

(* test_set: the puzzles, their number of arguments, rating and the range of *)
(* every argument. {1,1} stands for the bits of a float.                   *)
Row(name, args, rating, r1, r2, r3) ==
  [name |-> name, args |-> args, rating |-> rating, ranges |-> <<r1, r2, r3>>]

ALL == <<TMin, TMax>>
SYM == <<-TMax, TMax>>
NTH == <<0, 3>>
FLT == <<1, 1>>

test_set == <<
  Row("bitAnd", 2, 1, ALL, ALL, ALL),
  Row("bitMatch", 2, 1, ALL, ALL, ALL),
  Row("bitNor", 2, 1, ALL, ALL, ALL),
  Row("bitXor", 2, 1, ALL, ALL, ALL),
  Row("allOddBits", 1, 2, ALL, ALL, ALL),
  Row("anyEvenBit", 1, 2, ALL, ALL, ALL),
  Row("byteSwap", 3, 2, ALL, NTH, NTH),
  Row("fitsBits", 2, 2, ALL, <<1, W>>, ALL),
  Row("negate", 1, 2, ALL, ALL, ALL),
  Row("sign", 1, 2, SYM, ALL, ALL),
  Row("addOK", 2, 3, ALL, ALL, ALL),
  Row("bitMask", 2, 3, <<0, W - 1>>, <<0, W - 1>>, ALL),
  Row("conditional", 3, 3, ALL, ALL, ALL),
  Row("isAsciiDigit", 1, 3, ALL, ALL, ALL),
  Row("isGreater", 2, 3, ALL, ALL, ALL),
  Row("replaceByte", 3, 3, ALL, NTH, <<0, 2^BYTE - 1>>),
  Row("absVal", 1, 4, SYM, ALL, ALL),
  Row("bang", 1, 4, ALL, ALL, ALL),
  Row("isNonZero", 1, 4, ALL, ALL, ALL),
  Row("logicalNeg", 1, 4, ALL, ALL, ALL),
  Row("floatAbsVal", 1, 2, FLT, FLT, FLT),
  Row("floatIsEqual", 2, 2, FLT, FLT, FLT),
  Row("floatNegate", 1, 2, FLT, FLT, FLT),
  Row("floatIsLess", 2, 3, FLT, FLT, FLT),
  Row("floatFloat2Int", 1, 4, FLT, FLT, FLT),
  Row("floatPower2", 1, 4, FLT, FLT, FLT) >>

Tests == 1 .. Len(test_set)

(* The solution and the reference of a puzzle give the same result. The    *)
(* arguments are ints; those a puzzle does not have are ignored.           *)
Same(name, a1, a2, a3) ==
  LET x == ToWord(a1)
      y == ToWord(a2)
      z == ToWord(a3)
      s == Signed(x)
      n == Signed(y)
      m == Signed(z)
  IN /\ name = "bitAnd" => bitAnd(x, y) = test_bitAnd(x, y)
     /\ name = "bitMatch" => bitMatch(x, y) = test_bitMatch(x, y)
     /\ name = "bitNor" => bitNor(x, y) = test_bitNor(x, y)
     /\ name = "bitXor" => bitXor(x, y) = test_bitXor(x, y)
     /\ name = "allOddBits" => allOddBits(x) = test_allOddBits(x)
     /\ name = "anyEvenBit" => anyEvenBit(x) = test_anyEvenBit(x)
     /\ name = "byteSwap" => byteSwap(x, n, m) = test_byteSwap(x, n, m)
     /\ name = "fitsBits" => fitsBits(x, n) = test_fitsBits(x, n)
     /\ name = "negate" => negate(x) = test_negate(x)
     /\ name = "sign" => sign(x) = test_sign(x)
     /\ name = "addOK" => addOK(x, y) = test_addOK(x, y)
     /\ name = "bitMask" => bitMask(s, n) = test_bitMask(s, n)
     /\ name = "conditional" => conditional(x, y, z) = test_conditional(x, y, z)
     /\ name = "isAsciiDigit" => isAsciiDigit(x) = test_isAsciiDigit(x)
     /\ name = "isGreater" => isGreater(x, y) = test_isGreater(x, y)
     /\ name = "replaceByte" => replaceByte(x, n, z) = test_replaceByte(x, n, z)
     /\ name = "absVal" => absVal(x) = test_absVal(x)
     /\ name = "bang" => bang(x) = test_bang(x)
     /\ name = "isNonZero" => isNonZero(x) = test_isNonZero(x)
     /\ name = "logicalNeg" => logicalNeg(x) = test_logicalNeg(x)
     /\ name = "floatAbsVal" => floatAbsVal(x) = test_floatAbsVal(x)
     /\ name = "floatIsEqual" => floatIsEqual(x, y) = test_floatIsEqual(x, y)
     /\ name = "floatNegate" => floatNegate(x) = test_floatNegate(x)
     /\ name = "floatIsLess" => floatIsLess(x, y) = test_floatIsLess(x, y)
     /\ name = "floatFloat2Int" => floatFloat2Int(x) = test_floatFloat2Int(x)
     /\ name = "floatPower2" => floatPower2(s) = test_floatPower2(s)
=============================================================================
