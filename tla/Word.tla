-------------------------------- MODULE Word --------------------------------
(***************************************************************************)
(* The int and unsigned of the build (gcc -m32) as src/datalab/bits.c uses *)
(* them. A word is the set of its one bits, so every operator is defined   *)
(* for every width W without recursion. Signed sums wrap and a shift count *)
(* counts modulo the width, which is what the instructions gcc emits do    *)
(* where C leaves the result undefined.                                    *)
(***************************************************************************)
EXTENDS Integers, FiniteSetsExt

CONSTANTS
  W,      \* bits of an int (32)
  BYTE    \* bits of a byte (8)

ASSUME WordAssumption ==
  /\ BYTE \in Nat /\ BYTE >= 2 /\ BYTE % 2 = 0
  /\ W = 4 * BYTE

Bit == 0 .. W - 1

Word == SUBSET Bit

Zero == {}

One == {0}

SignBit == {W - 1}

(* The operators ~ & | ^ and !. *)
Not(x) == Bit \ x

And(x, y) == x \intersect y

Or(x, y) == x \union y

Xor(x, y) == (x \ y) \union (y \ x)

Truth(p) == IF p THEN One ELSE Zero

LNot(x) == Truth(x = Zero)

(* x << n, x >> n of an int and x >> n of an unsigned. *)
Negative(x) == W - 1 \in x

Shl(x, n) == {i \in Bit : i - (n % W) \in x}

Shr(x, n) == {i \in Bit : i + (n % W) \in x}

Sar(x, n) ==
  {i \in Bit : \/ i + (n % W) \in x
               \/ i + (n % W) >= W /\ Negative(x)}

(* A carry enters bit i when some lower bit generates one and every bit in *)
(* between passes it on.                                                   *)
Carry(x, y) ==
  {i \in Bit : \E j \in x \intersect y :
                 /\ j < i
                 /\ \A k \in Bit : j < k /\ k < i => k \in x \union y}

Add(x, y) == Xor(Xor(x, y), Carry(x, y))

Minus(x) == Add(Not(x), One)

(* x < y of unsigneds and of ints: the highest bit that differs decides.   *)
ULess(x, y) ==
  \E i \in y \ x : \A j \in Bit : j > i => (j \in x <=> j \in y)

SLess(x, y) == ULess(Xor(x, SignBit), Xor(y, SignBit))

(* The word of a number and the numbers of a word. *)
ToWord(v) == {i \in Bit : (v \div 2^i) % 2 = 1}

Unsigned(x) == MapThenSumSet(LAMBDA i : 2^i, x)

Signed(x) == Unsigned(x) - (IF Negative(x) THEN 2^W ELSE 0)
=============================================================================
