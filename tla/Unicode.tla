------------------------------ MODULE Unicode ------------------------------
(***************************************************************************)
(* What the encodings recode57 deals with are, by their definition and not *)
(* by its code: the reference its conversions are compared with.           *)
(***************************************************************************)
EXTENDS Integers, Sequences, FiniteSets

(* The code points that are characters: all but the surrogates. *)
Scalar(c) == c \in Nat /\ c <= 1114111 /\ (c < 55296 \/ c > 57343)

Text(t) == t \in Seq(Int) /\ \A i \in DOMAIN t : Scalar(t[i])

(* The powers the encodings use, spelled out for the proofs. *)
ASSUME UnicodePowers ==
  \A base \in {64, 256} :
    /\ base^0 = 1 /\ base^1 = base
    /\ base^2 = base * base /\ base^3 = base * base * base

(* The n digits of x in a base, the first one holding all that is left. *)
Digits(x, base, n) ==
  [i \in 1 .. n |-> IF i = 1 THEN x \div base^(n-1) ELSE (x \div base^(n-i)) % base]

(* A number of n bytes in the byte order of an encoding. *)
Ordered(enc, x, n) ==
  LET d == Digits(x, 256, n)
  IN  IF enc \in {"UTF16LE", "UTF32LE"} THEN [i \in 1 .. n |-> d[n + 1 - i]] ELSE d

UTF8Form(c) ==
  LET n == 1 + Cardinality({last \in {127, 2047, 65535} : c > last})
      d == Digits(c, 64, n)
  IN  [i \in 1 .. n |-> IF i > 1 THEN 128 + d[i] ELSE d[1] + <<0, 192, 224, 240>>[n]]

UTF16Form(enc, c) ==
  IF c < 65536 THEN Ordered(enc, c, 2)
  ELSE Ordered(enc, 55296 + ((c - 65536) \div 1024), 2)
         \o Ordered(enc, 56320 + ((c - 65536) % 1024), 2)

Form(enc, c) ==
  CASE enc = "UTF8"                  -> UTF8Form(c)
    [] enc \in {"UTF16BE", "UTF16LE"} -> UTF16Form(enc, c)
    [] OTHER                         -> Ordered(enc, c, 4)

(* The characters of a text one after the other. *)
Encoded(enc) ==
  LET f[text \in Seq(Int)] ==
        IF text = <<>> THEN <<>> ELSE Form(enc, Head(text)) \o f[Tail(text)]
  IN  f

(* A text as a file: the code point FEFF first, except in UTF-8. *)
TextFile(enc, text) ==
  (IF enc = "UTF8" THEN <<>> ELSE Form(enc, 65279)) \o Encoded(enc)[text]

=============================================================================
