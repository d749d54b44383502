------------------------------ MODULE MCBtest ------------------------------
(***************************************************************************)
(* btest with ints of 16 bits and floats of 5 exponent and 10 fraction     *)
(* bits. The command lines are the whole table with every option that      *)
(* changes the run, the forms of value get_num_val tells apart, and every  *)
(* puzzle with fixed arguments from the ends and corners of the ints.      *)
(***************************************************************************)
EXTENDS Btest

Option(letter) == [opt |-> letter]
With(letter, value) == [opt |-> letter, arg |-> value]
Num(k, text) == [opt |-> "123", k |-> k, arg |-> text]
Dec(v) == [float |-> FALSE, rest |-> FALSE, val |-> v]
Junk(v) == [float |-> FALSE, rest |-> TRUE, val |-> v]
Flo(bits, rest) == [float |-> TRUE, rest |-> rest, val |-> bits]

WholeTable == {
  <<>>,
  <<Option("g"), With("r", 2)>>,
  <<With("T", 0)>> }

Single == {
  <<Option("h")>>, <<Option("g"), Option("?")>>, <<With("r", -1)>>,
  <<With("f", "no puzzle")>>, <<With("f", "")>>,
  <<With("f", "bitXor"), With("T", -1), With("r", 7)>>,
  <<Option("g"), With("f", "fitsBits"), Num(2, Dec(5)), With("r", 0)>>,
  <<With("f", "negate"), Num(1, Dec(0)), Num(1, Dec(-3))>>,
  <<With("f", "negate"), Num(1, Dec(5)), Num(1, Dec(6))>>,
  <<With("f", "negate"), Num(1, Junk(0))>>,
  <<With("f", "negate"), Num(1, Dec(2^W - 1))>>,
  <<With("f", "negate"), Num(1, Dec(2^W))>>,
  <<With("f", "negate"), Num(1, Dec(TMin - 1))>>,
  <<With("f", "floatNegate"), Num(1, Flo(Bias * 2^FR, FALSE))>>,
  <<With("f", "floatNegate"), Num(1, Flo(Bias * 2^FR, TRUE))>>,
  <<With("f", "floatNegate"), Num(1, Flo(7, FALSE)), Num(1, Flo(9, FALSE))>>,
  <<With("f", "conditional"), Num(3, Dec(4)), Num(1, Dec(0))>> }

Corners ==
  {0, 1, 2, 47, 48, 57, 58, TMax - 1, TMax, TMin, TMin + 1, -1, -2, 21845, -21846}
    \union {2^k : k \in 2 .. W - 2} \union {-(2^k) : k \in 2 .. W - 2}

Powers == -Bias - FR - 2 .. Bias + 2

FloatCorners ==
  {e * 2^FR + f + s : e \in {0, 1, Bias - 1, Bias, Bias + FR, Bias + W - 2,
                             2^EX - 2, 2^EX - 1},
                      f \in {0, 1, 2^FR - 1}, s \in {0, TMin}}

Fixed1 ==
  {<<With("f", test_set[t].name), Num(1, Dec(v))>> :
     t \in {t \in Tests : test_set[t].args = 1},
     v \in Corners \union Powers \union FloatCorners}

Pairs(names, V1, V2) ==
  {<<With("f", n), Num(1, Dec(u)), Num(2, Dec(v))>> : n \in names, u \in V1, v \in V2}

IntCorners == {0, 1, 5, -1, -6, TMax, TMin, TMin + 1, 256, -256}

Fixed2 ==
  Pairs({"bitAnd", "bitMatch", "bitNor", "bitXor", "addOK", "isGreater"},
        IntCorners, IntCorners)
    \union Pairs({"fitsBits"}, Corners, 1 .. W)
    \union Pairs({"floatIsEqual", "floatIsLess"}, FloatCorners, {0, 1, TMin, 2^FR,
                  (2^EX - 1) * 2^FR, 2^W - 1, Bias * 2^FR, TMin + Bias * 2^FR})

Fixed3 ==
  {<<With("f", n), Num(1, Dec(u)), Num(2, Dec(v)), Num(3, Dec(w))>> :
     n \in {"byteSwap", "replaceByte", "conditional"},
     u \in {4660, -2, 0}, v \in 0 .. 4, w \in {0, 1, 3, 9}}

(* What rand draws: near one end, near the other, and the two ends in turn. *)
MCWeights ==
  {[r \in 1 .. TEST_RANGE |-> 3], [r \in 1 .. TEST_RANGE |-> 8],
   [r \in 1 .. TEST_RANGE |-> IF r % 2 = 0 THEN 0 ELSE 10]}

MCCommandLines == WholeTable \union Single \union Fixed1 \union Fixed2 \union Fixed3
=============================================================================
