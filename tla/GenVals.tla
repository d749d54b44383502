------------------------------ MODULE GenVals ------------------------------
(***************************************************************************)
(* The values btest.c tries for an argument: gen_vals, and the range that  *)
(* test_function gives it.                                                 *)
(***************************************************************************)
EXTENDS Bits, SequencesExt

CONSTANT TEST_RANGE   \* values made around every interesting one (500000)

ASSUME RangeAssumption == TEST_RANGE \in Nat /\ TEST_RANGE >= 4

(* Fault: twelve values a round, forgetting the special ones.              *)
MAX_TEST_VALS_12 == 12 * TEST_RANGE

MAX_TEST_VALS == 13 * TEST_RANGE

(* min * (1 - weight) + max * weight, truncated to an int. *)
random_val(min, max, weight) ==
  LET tenths == min * (10 - weight) + max * weight
  IN IF tenths >= 0 THEN tenths \div 10 ELSE -((-tenths) \div 10)

(* The bits tried of a float: denormalized ones around zero, then around   *)
(* the smallest normalized, one and the largest, then the special values.  *)
FloatVals(range) ==
  LET TOP == 2^(W - 1)
      smallest_norm == 2^FR
      one == Bias * 2^FR
      largest_norm == (2^EX - 2) * 2^FR
      inf == (2^EX - 1) * 2^FR
      nan == inf + 2^(FR - 1)
      Round(i) == << i, TOP + i,
                     smallest_norm + i, smallest_norm - i,
                     TOP + smallest_norm + i, TOP + smallest_norm - i,
                     one + i, one - i, TOP + one + i, TOP + one - i,
                     largest_norm - i, TOP + largest_norm - i >>
      rounds == IF range > 2^FR THEN 2^FR ELSE range
  IN FlattenSeq([k \in 1 .. rounds |-> Round(k - 1)])
       \o << inf, TOP + inf, nan, TOP + nan >>

(* The ends of the range, the values around zero that it holds and a       *)
(* random one, per round: weights holds what each round draws.             *)
SampledVals(min, max, range, weights) ==
  LET IfHeld(v) == IF v >= min /\ v <= max THEN << v >> ELSE << >>
      Round(i) == << min + i, max - i >> \o IfHeld(i) \o IfHeld(-i)
                    \o << random_val(min, max, weights[i + 1]) >>
  IN FlattenSeq([k \in 1 .. range |-> Round(k - 1)])

gen_vals(min, max, range, weights) ==
  IF min = 1 /\ max = 1 THEN FloatVals(range)
  ELSE IF max - MAX_TEST_VALS <= min
       THEN [k \in 1 .. max - min + 1 |-> min + k - 1]
       ELSE SampledVals(min, max, range, weights)

(* pow(TEST_RANGE, 0.5) and pow(TEST_RANGE, 0.333), cut to an int: the     *)
(* exponent is less than a third, so an exact cube root is not reached.    *)
arg_test_range(args) ==
  LET root == {r \in 0 .. TEST_RANGE : \/ args = 1
                                       \/ args = 2 /\ r * r <= TEST_RANGE
                                       \/ r * r * r < TEST_RANGE}
  IN IF Max(root) < 1 THEN 1 ELSE Max(root)
=============================================================================
