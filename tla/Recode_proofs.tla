--------------------------- MODULE Recode_proofs ---------------------------
(***************************************************************************)
(* recode57 for every size of buffer and every input. Recode: what is put  *)
(* in the buffers fits. RecodeText: however read() cuts the input, what    *)
(* comes out is the whole input converted at once, and what the encodings' *)
(* definition says when it is a text. RecodeBoth: the same of the Rust     *)
(* program up to where it stops, and both convert alike.                   *)
(***************************************************************************)
EXTENDS RecodeBoth, SequenceTheorems, FiniteSetTheorems, WellFoundedInduction, TLAPS

----------------------------------------------------------------------------
(* Induction, and functions defined by it.                                 *)

(* A nonempty set of naturals has a least element.                         *)
LEMMA NatHasLeast ==
  ASSUME NEW T \in SUBSET Nat, T # {}
  PROVE  \E m \in T : \A k \in T : m <= k
<1> DEFINE Less == OpToRel(<, Nat)
<1>1. IsWellFoundedOn(Less, Nat)
  BY NatLessThanWellFounded
<1>2. PICK m \in T : \A k \in T : <<k, m>> \notin Less
  <2> HIDE DEF Less
  <2> QED
    BY <1>1, WFMin
<1>3. ASSUME NEW k \in T PROVE m <= k
  <2>1. k \in Nat /\ m \in Nat
    OBVIOUS
  <2>2. <<k, m>> \in Less <=> k < m
    BY <2>1 DEF OpToRel
  <2>3. ~(k < m)
    BY <1>2, <2>2
  <2> QED
    BY <2>1, <2>3
<1> QED
  BY <1>3

(* Induction on the size of the elements of a set, a set of good ones      *)
(* standing for the predicate.                                             *)
LEMMA SizeInduction ==
  ASSUME NEW S, NEW size \in [S -> Nat], NEW T,
         \A s \in S : (\A u \in S : size[u] < size[s] => u \in T) => s \in T
  PROVE  S \subseteq T
<1> SUFFICES ASSUME NEW bad \in S, bad \notin T PROVE FALSE
  OBVIOUS
<1> DEFINE Sizes == {size[u] : u \in {v \in S : v \notin T}}
<1>1. Sizes \in SUBSET Nat /\ Sizes # {}
  OBVIOUS
<1>2. PICK m \in Sizes : \A k \in Sizes : m <= k
  <2> HIDE DEF Sizes
  <2> QED
    BY <1>1, NatHasLeast
<1>3. PICK s \in S : s \notin T /\ m = size[s]
  BY <1>2
<1>4. \A u \in S : size[u] < size[s] => u \in T
  <2> SUFFICES ASSUME NEW u \in S, u \notin T PROVE size[s] <= size[u]
    OBVIOUS
  <2>1. size[u] \in Sizes
    OBVIOUS
  <2> QED
    BY <1>2, <1>3, <2>1
<1> QED
  BY <1>3, <1>4

(* A function that puts together what comes out of an element and what     *)
(* comes out of a smaller one, until it stops, is well defined.            *)
Unfolds(g, D, stop, out, rest) ==
  g = [s \in D |-> IF s \in stop THEN <<>> ELSE out[s] \o g[rest[s]]]

LEMMA UnfoldingExists ==
  ASSUME NEW S, NEW size \in [S -> Nat], NEW stop, NEW out, NEW rest,
         \A s \in S : s \notin stop => rest[s] \in S /\ size[rest[s]] < size[s]
  PROVE  \E g : Unfolds(g, S, stop, out, rest)
<1> DEFINE Upto(m) == {s \in S : size[s] <= m}
           Solves(g, m) == Unfolds(g, Upto(m), stop, out, rest)
<1>1. \A m \in Nat : \A s \in Upto(m) : s \notin stop => rest[s] \in Upto(m)
  OBVIOUS
(* Two solutions agree where both are defined. *)
<1>2. ASSUME NEW m \in Nat, NEW n \in Nat, NEW g, NEW h, Solves(g, m), Solves(h, n)
      PROVE  \A s \in S : size[s] <= m /\ size[s] <= n => g[s] = h[s]
  <2> DEFINE T == {s \in S : size[s] <= m /\ size[s] <= n => g[s] = h[s]}
  <2>1. ASSUME NEW s \in S, \A u \in S : size[u] < size[s] => u \in T
        PROVE  s \in T
    <3> SUFFICES ASSUME size[s] <= m, size[s] <= n PROVE g[s] = h[s]
      OBVIOUS
    <3>1. /\ g[s] = IF s \in stop THEN <<>> ELSE out[s] \o g[rest[s]]
          /\ h[s] = IF s \in stop THEN <<>> ELSE out[s] \o h[rest[s]]
      BY <1>2, s \in Upto(m), s \in Upto(n) DEF Unfolds
    <3>2. s \notin stop => g[rest[s]] = h[rest[s]]
      BY <2>1
    <3> QED
      BY <3>1, <3>2
  <2> HIDE DEF T
  <2>2. S \subseteq T
    BY <2>1, SizeInduction
  <2> QED
    BY <2>2 DEF T
<1>3. \A m \in Nat : \E g : Solves(g, m)
  <2> DEFINE T == {m \in Nat : \E g : Solves(g, m)}
             id == [m \in Nat |-> m]
  <2>1. ASSUME NEW m \in Nat, \A k \in Nat : id[k] < id[m] => k \in T
        PROVE  m \in T
    <3> DEFINE h == IF m = 0 THEN <<>> ELSE CHOOSE g : Solves(g, m - 1)
               g == [s \in Upto(m) |->
                       IF s \in stop THEN <<>> ELSE out[s] \o h[rest[s]]]
    <3>1. m # 0 => Solves(h, m - 1)
      <4> SUFFICES ASSUME m # 0 PROVE \E k : Solves(k, m - 1)
        OBVIOUS
      <4>1. m - 1 \in Nat /\ id[m - 1] < id[m]
        OBVIOUS
      <4> HIDE DEF Solves, id
      <4> QED
        BY <2>1, <4>1
    <3>2. \A s \in Upto(m) : s \notin stop => m # 0 /\ rest[s] \in Upto(m - 1)
      OBVIOUS
    <3>3. \A s \in Upto(m) : s \notin stop => g[rest[s]] = h[rest[s]]
      <4> SUFFICES ASSUME NEW s \in Upto(m), s \notin stop, NEW t, t = rest[s]
                   PROVE  g[t] = h[t]
        OBVIOUS
      <4>1. t \in Upto(m) /\ t \in Upto(m - 1) /\ m # 0
        BY <3>2
      <4>2. h[t] = IF t \in stop THEN <<>> ELSE out[t] \o h[rest[t]]
        BY <3>1, <4>1 DEF Unfolds
      <4> QED
        BY <4>1, <4>2
    <3>4. g = [s \in Upto(m) |-> IF s \in stop THEN <<>> ELSE out[s] \o g[rest[s]]]
      <4> HIDE DEF Upto, h
      <4> QED
        BY <3>3
    <3>5. Solves(g, m)
      BY <3>4 DEF Unfolds
    <3> QED
      BY <3>5
  <2> HIDE DEF T
  <2>2. id \in [Nat -> Nat]
    OBVIOUS
  <2> HIDE DEF id
  <2>3. Nat \subseteq T
    BY <2>1, <2>2, SizeInduction
  <2> QED
    BY <2>3 DEF T
<1> DEFINE G(m) == CHOOSE g : Solves(g, m)
           f == [s \in S |-> G(size[s])[s]]
<1>4. \A m \in Nat : Solves(G(m), m)
  BY <1>3
<1> HIDE DEF G
<1>5. ASSUME NEW s \in S
      PROVE  f[s] = IF s \in stop THEN <<>> ELSE out[s] \o f[rest[s]]
  <2>1. Solves(G(size[s]), size[s]) /\ s \in Upto(size[s])
    BY <1>4
  <2>2. G(size[s])[s] = IF s \in stop THEN <<>> ELSE out[s] \o G(size[s])[rest[s]]
    BY <2>1 DEF Unfolds
  <2>3. ASSUME s \notin stop PROVE G(size[s])[rest[s]] = f[rest[s]]
    <3>1. rest[s] \in S /\ size[rest[s]] <= size[s] /\ size[rest[s]] \in Nat
      BY <2>3
    <3>2. Solves(G(size[rest[s]]), size[rest[s]])
      BY <1>4, <3>1
    <3> HIDE DEF Solves
    <3>3. G(size[s])[rest[s]] = G(size[rest[s]])[rest[s]]
      BY <1>2, <2>1, <3>1, <3>2
    <3> QED
      BY <3>1, <3>3
  <2> QED
    BY <2>2, <2>3
<1> HIDE DEF f
<1>6. f = [s \in S |-> f[s]]
  BY DEF f
<1>7. Unfolds(f, S, stop, out, rest)
  BY <1>5, <1>6 DEF Unfolds
<1> QED
  BY <1>7

----------------------------------------------------------------------------
(* The conversions, one code point at a time.                              *)

(* read_codepoint uses at most the bytes it is given, four at the most. *)
LEMMA ReadBounds ==
  ASSUME NEW enc \in Encoding, NEW buf \in Seq(Byte)
  PROVE  /\ ReadCodepoint(enc, buf).n \in 0 .. 4
         /\ ReadCodepoint(enc, buf).n <= Len(buf)
         /\ ReadCodepoint(enc, buf).cp \in Int
<1>1. Len(buf) \in Nat
  BY LenProperties
<1>2. \A i \in 1 .. Len(buf) : buf[i] \in Byte
  BY ElementOfSeq
<1>9. \A i \in 1 .. Len(buf) : buf[i] \in Int
  <2>1. \A b \in Byte : b \in Int
    BY DEF Byte
  <2> QED
    BY <1>2, <2>1
<1>3. Nothing.n = 0 /\ Nothing.cp = 0
  BY DEF Nothing
<1>4. \A n, c : Read(n, c).n = n /\ Read(n, c).cp = c
  BY DEF Read
<1>5. CASE ~HasCodepoint(enc, buf)
  BY <1>1, <1>3, <1>5 DEF ReadCodepoint
<1>6. CASE HasCodepoint(enc, buf) /\ enc \in UTF32
  <2>1. Len(buf) >= 4
    BY <1>6 DEF HasCodepoint, UTF16, UTF32
  <2>2. buf[1] \in Byte /\ buf[2] \in Byte /\ buf[3] \in Byte /\ buf[4] \in Byte
    BY <1>1, <1>2, <2>1
  <2>3. \A a, b, c, d \in Byte : Word(a, b, c, d) \in Int
    BY DEF Word, Byte
  <2>4. PICK w \in Int : ReadUTF32(enc, buf) = Read(4, w)
    <3>1. \/ ReadUTF32(enc, buf) = Read(4, Word(buf[4], buf[3], buf[2], buf[1]))
          \/ ReadUTF32(enc, buf) = Read(4, Word(buf[1], buf[2], buf[3], buf[4]))
      BY DEF ReadUTF32
    <3> QED
      BY <2>2, <2>3, <3>1
  <2> QED
    BY <1>1, <1>4, <1>6, <2>1, <2>4 DEF ReadCodepoint
<1>7. CASE HasCodepoint(enc, buf) /\ enc \in UTF16
  <2>1. Len(buf) >= 2
    <3>1. Len(buf) >= 4 \/ Len(buf) >= 2
      BY <1>7 DEF HasCodepoint, UTF16, UTF32
    <3> QED
      BY <1>1, <3>1
  <2>2. \A i \in 1 .. Len(buf) - 1 : Unit(enc, buf, i) \in Int
    BY <1>1, <1>9 DEF Unit, LittleEndian
  <2>3. Unit(enc, buf, 1) \in Int /\ (Len(buf) >= 4 => Unit(enc, buf, 3) \in Int)
    BY <1>1, <2>1, <2>2
  <2> DEFINE hs == Unit(enc, buf, 1)
             ls == Unit(enc, buf, 3)
  <2>4. CASE hs < 55296 \/ hs > 57344
    BY <1>1, <1>4, <1>7, <2>1, <2>3, <2>4 DEF ReadCodepoint, ReadUTF16, UTF16, UTF32
  <2>5. CASE ~(hs < 55296 \/ hs > 57344) /\ Len(buf) >= 4
    <3>1. ReadUTF16(enc, buf) = Read(4, (hs - 55296) * 1024 + (ls - 56320) + 65536)
      BY <2>5 DEF ReadUTF16
    <3>2. (hs - 55296) * 1024 + (ls - 56320) + 65536 \in Int
      BY <2>3, <2>5
    <3> QED
      BY <1>1, <1>4, <1>7, <2>5, <3>1, <3>2 DEF ReadCodepoint, UTF16, UTF32
  <2>6. CASE ~(hs < 55296 \/ hs > 57344) /\ ~(Len(buf) >= 4)
    <3>1. ReadUTF16(enc, buf) = Nothing
      BY <2>6 DEF ReadUTF16
    <3> QED
      BY <1>1, <1>3, <1>7, <3>1 DEF ReadCodepoint, UTF16, UTF32
  <2> QED
    BY <2>4, <2>5, <2>6
<1>8. CASE HasCodepoint(enc, buf) /\ enc \notin UTF32 /\ enc \notin UTF16
  <2>1. Len(buf) >= 1
    BY <1>8 DEF HasCodepoint
  <2>2. buf[1] \in Int /\ (Len(buf) > 1 => buf[2] \in Int)
        /\ (Len(buf) > 2 => buf[3] \in Int) /\ (Len(buf) > 3 => buf[4] \in Int)
    BY <1>1, <1>9, <2>1
  <2>3. \/ ReadUTF8(buf) = Nothing
        \/ ReadUTF8(buf) = Read(1, buf[1])
        \/ Len(buf) > 1 /\ ReadUTF8(buf) = Read(2, (buf[1] % 32) * 64 + Cont(buf[2]))
        \/ /\ Len(buf) > 2
           /\ ReadUTF8(buf) = Read(3, (buf[1] % 16) * 4096 + Cont(buf[2]) * 64 + Cont(buf[3]))
        \/ /\ Len(buf) > 3
           /\ ReadUTF8(buf) = Read(4, (buf[1] % 8) * 262144 + Cont(buf[2]) * 4096
                                        + Cont(buf[3]) * 64 + Cont(buf[4]))
    BY DEF ReadUTF8
  <2>4. \A b \in Int : Cont(b) \in Int /\ b % 32 \in Int /\ b % 16 \in Int /\ b % 8 \in Int
    BY DEF Cont
  <2>5. /\ Len(buf) > 1 => (buf[1] % 32) * 64 + Cont(buf[2]) \in Int
        /\ Len(buf) > 2 => (buf[1] % 16) * 4096 + Cont(buf[2]) * 64 + Cont(buf[3]) \in Int
        /\ Len(buf) > 3 => (buf[1] % 8) * 262144 + Cont(buf[2]) * 4096
                             + Cont(buf[3]) * 64 + Cont(buf[4]) \in Int
    <3>4. /\ Len(buf) > 2 => Len(buf) > 1
          /\ Len(buf) > 3 => Len(buf) > 1 /\ Len(buf) > 2
      BY <1>1
    <3>1. /\ Len(buf) > 1 => Cont(buf[2]) \in Int
          /\ Len(buf) > 2 => Cont(buf[2]) \in Int /\ Cont(buf[3]) \in Int
          /\ Len(buf) > 3 => Cont(buf[2]) \in Int /\ Cont(buf[3]) \in Int
                               /\ Cont(buf[4]) \in Int
      BY <3>4, <2>2, <2>4, Zenon
    <3>2. buf[1] % 32 \in Int /\ buf[1] % 16 \in Int /\ buf[1] % 8 \in Int
      BY <2>2, <2>4
    <3>3. \A a, b, c, d \in Int : /\ a * 64 + b \in Int
                                    /\ a * 4096 + b * 64 + c \in Int
                                    /\ a * 262144 + b * 4096 + c * 64 + d \in Int
      OBVIOUS
    <3> QED
      BY <3>1, <3>2, <3>3
  <2>6. /\ ReadUTF8(buf).n \in 0 .. 4 /\ ReadUTF8(buf).n <= Len(buf)
        /\ ReadUTF8(buf).cp \in Int
    BY <1>1, <1>3, <1>4, <2>1, <2>2, <2>3, <2>5
  <2> QED
    BY <1>8, <2>6 DEF ReadCodepoint
<1> QED
  BY <1>5, <1>6, <1>7, <1>8

(* Up to four bytes written one after another. *)
LEMMA Tuples ==
  ASSUME NEW a \in Byte, NEW b \in Byte, NEW c \in Byte, NEW d \in Byte
  PROVE  /\ <<a>> \in Seq(Byte)          /\ Len(<<a>>) = 1
         /\ <<a, b>> \in Seq(Byte)       /\ Len(<<a, b>>) = 2
         /\ <<a, b, c>> \in Seq(Byte)    /\ Len(<<a, b, c>>) = 3
         /\ <<a, b, c, d>> \in Seq(Byte) /\ Len(<<a, b, c, d>>) = 4
OBVIOUS

(* write_codepoint writes at most four bytes, whatever the code point. *)
LEMMA WriteBounds ==
  ASSUME NEW enc \in Encoding, NEW cp \in Int
  PROVE  WriteCodepoint(enc, cp) \in Seq(Byte) /\ Len(WriteCodepoint(enc, cp)) <= 4
<1>0. 0 \in Byte
  BY DEF Byte
<1>1. \A x \in Int, w \in Nat \ {0} : ByteOf(x, w) \in Byte
  BY DEF ByteOf, Byte
<1>2. \A x \in Int : WriteUnit(enc, x) \in Seq(Byte) /\ Len(WriteUnit(enc, x)) = 2
  BY <1>1, Tuples DEF WriteUnit
<1>3. CASE enc \in UTF32
  <2>1. /\ ByteOf(cp, 1) \in Byte /\ ByteOf(cp, 256) \in Byte
        /\ ByteOf(cp, 65536) \in Byte /\ ByteOf(cp, 16777216) \in Byte
    BY <1>1
  <2>2. WriteUTF32(enc, cp) \in Seq(Byte) /\ Len(WriteUTF32(enc, cp)) <= 4
    BY <2>1, Tuples DEF WriteUTF32
  <2>3. WriteCodepoint(enc, cp) = WriteUTF32(enc, cp)
    BY <1>3 DEF WriteCodepoint
  <2> QED
    BY <2>2, <2>3
<1>4. CASE enc \in UTF16
  <2>3. WriteCodepoint(enc, cp) = WriteUTF16(enc, cp)
    BY <1>4 DEF WriteCodepoint, UTF16, UTF32
  <2>1. CASE AtMost(cp, 65535)
    <3>1. WriteUTF16(enc, cp) = WriteUnit(enc, cp)
      BY <2>1 DEF WriteUTF16
    <3>2. WriteUnit(enc, cp) \in Seq(Byte) /\ Len(WriteUnit(enc, cp)) <= 4
      <4>1. WriteUnit(enc, cp) \in Seq(Byte) /\ Len(WriteUnit(enc, cp)) = 2
        BY <1>2
      <4> QED
        BY <4>1
    <3> QED
      BY <2>3, <3>1, <3>2
  <2>2. CASE ~AtMost(cp, 65535)
    <3> DEFINE u == (cp - 65536) \div 1024 + 55296
               v == ((cp - 65536) % 1024) + 56320
    <3>1. u \in Int /\ v \in Int
      OBVIOUS
    <3>2. WriteUTF16(enc, cp) = WriteUnit(enc, u) \o WriteUnit(enc, v)
      BY <2>2 DEF WriteUTF16
    <3> HIDE DEF u, v
    <3> DEFINE high == WriteUnit(enc, u)
               low  == WriteUnit(enc, v)
    <3>4. high \in Seq(Byte) /\ low \in Seq(Byte) /\ Len(high) = 2 /\ Len(low) = 2
      BY <1>2, <3>1
    <3> HIDE DEF high, low
    <3>5. high \o low \in Seq(Byte) /\ Len(high \o low) = Len(high) + Len(low)
      BY <3>4, ConcatProperties
    <3>6. high \o low \in Seq(Byte) /\ Len(high \o low) <= 4
      BY <3>4, <3>5
    <3>3. WriteUTF16(enc, cp) \in Seq(Byte) /\ Len(WriteUTF16(enc, cp)) <= 4
      BY <3>2, <3>6 DEF high, low
    <3> QED
      BY <2>3, <3>3
  <2> QED
    BY <2>1, <2>2
<1>5. CASE enc \notin UTF32 /\ enc \notin UTF16
  <2> DEFINE tail(weight) == 128 + ((cp \div weight) % 64)
  <2>1. tail(1) \in Byte /\ tail(64) \in Byte /\ tail(4096) \in Byte
    BY DEF Byte
  <2>2. 192 + ((cp \div 64) % 32) \in Byte
    BY DEF Byte
  <2>3. 224 + ((cp \div 4096) % 16) \in Byte
    BY DEF Byte
  <2>4. 240 + ((cp \div 16777216) % 8) \in Byte
    BY DEF Byte
  <2>5. AtMost(cp, 127) => cp \in Byte
    BY DEF Byte, AtMost
  <2>6. \/ AtMost(cp, 127) /\ WriteUTF8(cp) = <<cp>>
        \/ WriteUTF8(cp) = <<192 + ((cp \div 64) % 32), tail(1)>>
        \/ WriteUTF8(cp) = <<224 + ((cp \div 4096) % 16), tail(64), tail(1)>>
        \/ WriteUTF8(cp) =
             <<240 + ((cp \div 16777216) % 8), tail(4096), tail(64), tail(1)>>
        \/ WriteUTF8(cp) = <<>>
    BY DEF WriteUTF8
  <2> HIDE DEF tail
  <2> DEFINE two == 192 + ((cp \div 64) % 32)
             three == 224 + ((cp \div 4096) % 16)
             four == 240 + ((cp \div 16777216) % 8)
  <2>7. /\ two \in Byte /\ three \in Byte /\ four \in Byte
        /\ \/ cp \in Byte /\ WriteUTF8(cp) = <<cp>>
           \/ WriteUTF8(cp) = <<two, tail(1)>>
           \/ WriteUTF8(cp) = <<three, tail(64), tail(1)>>
           \/ WriteUTF8(cp) = <<four, tail(4096), tail(64), tail(1)>>
           \/ WriteUTF8(cp) = <<>>
    BY <2>2, <2>3, <2>4, <2>5, <2>6
  <2> HIDE DEF two, three, four
  <2>8. WriteUTF8(cp) \in Seq(Byte) /\ Len(WriteUTF8(cp)) <= 4
    <3>1. CASE cp \in Byte /\ WriteUTF8(cp) = <<cp>>
      <4>1. <<cp>> \in Seq(Byte) /\ Len(<<cp>>) = 1
        BY <3>1
      <4> QED
        BY <3>1, <4>1
    <3>2. CASE WriteUTF8(cp) = <<two, tail(1)>>
      <4>1. <<two, tail(1)>> \in Seq(Byte) /\ Len(<<two, tail(1)>>) = 2
        BY <2>1, <2>7
      <4> QED
        BY <3>2, <4>1
    <3>3. CASE WriteUTF8(cp) = <<three, tail(64), tail(1)>>
      <4>1. <<three, tail(64), tail(1)>> \in Seq(Byte)
            /\ Len(<<three, tail(64), tail(1)>>) = 3
        BY <2>1, <2>7
      <4> QED
        BY <3>3, <4>1
    <3>4. CASE WriteUTF8(cp) = <<four, tail(4096), tail(64), tail(1)>>
      <4>1. <<four, tail(4096), tail(64), tail(1)>> \in Seq(Byte)
            /\ Len(<<four, tail(4096), tail(64), tail(1)>>) = 4
        BY <2>1, <2>7
      <4> QED
        BY <3>4, <4>1
    <3>5. CASE WriteUTF8(cp) = <<>>
      BY <3>5, EmptySeq
    <3> QED
      BY <2>7, <3>1, <3>2, <3>3, <3>4, <3>5
  <2>9. WriteCodepoint(enc, cp) = WriteUTF8(cp)
    BY <1>5 DEF WriteCodepoint
  <2> QED
    BY <2>8, <2>9
<1> QED
  BY <1>3, <1>4, <1>5

(* The mark written is at most four bytes, and the one read is no longer   *)
(* than what was read.                                                     *)
LEMMA BomBounds ==
  ASSUME NEW enc \in Encoding, NEW bom
  PROVE  /\ WriteBom(enc) \in Seq(Byte) /\ Len(WriteBom(enc)) <= 4
         /\ BomToEnc(bom) \in Encoding
         /\ BOM_SIZES[enc] \in 0 .. 4
<1>1. 0 \in Byte /\ 254 \in Byte /\ 255 \in Byte
  BY DEF Byte
<1>2. \/ WriteBom(enc) = <<0, 0, 254, 255>> \/ WriteBom(enc) = <<255, 254, 0, 0>>
      \/ WriteBom(enc) = <<254, 255>> \/ WriteBom(enc) = <<255, 254>>
      \/ WriteBom(enc) = <<>>
  BY DEF WriteBom
<1>3. /\ <<0, 0, 254, 255>> \in Seq(Byte) /\ Len(<<0, 0, 254, 255>>) <= 4
      /\ <<255, 254, 0, 0>> \in Seq(Byte) /\ Len(<<255, 254, 0, 0>>) <= 4
      /\ <<254, 255>> \in Seq(Byte) /\ Len(<<254, 255>>) <= 4
      /\ <<255, 254>> \in Seq(Byte) /\ Len(<<255, 254>>) <= 4
      /\ <<>> \in Seq(Byte) /\ Len(<<>>) <= 4
  BY <1>1, Tuples, EmptySeq
<1>4. WriteBom(enc) \in Seq(Byte) /\ Len(WriteBom(enc)) <= 4
  <2> DEFINE Short(s) == s \in Seq(Byte) /\ Len(s) <= 4
  <2>1. /\ Short(<<0, 0, 254, 255>>) /\ Short(<<255, 254, 0, 0>>)
        /\ Short(<<254, 255>>) /\ Short(<<255, 254>>) /\ Short(<<>>)
    BY <1>3
  <2> HIDE DEF Short
  <2>2. Short(WriteBom(enc))
    BY <1>2, <2>1
  <2> QED
    BY <2>2 DEF Short
<1>5. BomToEnc(bom) \in Encoding
  BY DEF BomToEnc, Encoding
<1>6. BOM_SIZES[enc] \in 0 .. 4
  BY DEF BOM_SIZES
<1> QED
  BY <1>4, <1>5, <1>6

(* What SubSeq keeps. *)
LEMMA Pieces ==
  ASSUME NEW s \in Seq(Byte), NEW k \in 0 .. Len(s)
  PROVE  /\ SubSeq(s, 1, k) \in Seq(Byte) /\ Len(SubSeq(s, 1, k)) = k
         /\ Drop(s, k) \in Seq(Byte) /\ Len(Drop(s, k)) = Len(s) - k
BY SubSeqProperties, LenProperties, ElementOfSeq DEF Drop

(* A stray store of a zero in the first elements keeps a buffer a buffer.  *)
LEMMA Zeroed ==
  ASSUME NEW s \in Seq(Byte)
  PROVE  LET z == [i \in DOMAIN s |-> IF i <= 4 THEN 0 ELSE s[i]]
         IN  z \in Seq(Byte) /\ Len(z) = Len(s)
<1> DEFINE z == [i \in DOMAIN s |-> IF i <= 4 THEN 0 ELSE s[i]]
<1>1. DOMAIN s = 1 .. Len(s) /\ Len(s) \in Nat
  BY LenProperties
<1>2. 0 \in Byte
  BY DEF Byte
<1>3. \A i \in 1 .. Len(s) : s[i] \in Byte
  BY ElementOfSeq
<1>4. z \in [1 .. Len(s) -> Byte]
  BY <1>1, <1>2, <1>3
<1> HIDE DEF z
<1>5. z \in Seq(Byte) /\ Len(z) = Len(s)
  BY <1>1, <1>4
<1> QED
  BY <1>5 DEF z

----------------------------------------------------------------------------
(* What is in the buffers at each call: between two reads a byte of inbuf  *)
(* becomes at most one code point, and a code point at most four bytes.    *)
Filled ==
  /\ pc \in {"args", "bom"} =>
       inbuf = <<>> /\ codepoints = <<>> /\ outbuf = <<>> /\ orig_enc = UNKNOWN
  /\ pc \in {"bom", "read", "decode", "encode"} => dest_enc \in Encoding
  /\ pc \in {"read", "decode", "encode"} => orig_enc \in Encoding
  /\ pc = "read"   => codepoints = <<>> /\ Len(outbuf) <= MAXBOM
  /\ pc = "decode" => Len(codepoints) + Len(inbuf) <= NBUF /\ Len(outbuf) <= MAXBOM
  /\ pc = "encode" => 4 * Len(codepoints) + Len(outbuf) <= NBUF * 4 + MAXBOM

IInv == TypeOK /\ Filled

LEMMA InitIInv == Init => IInv
BY RecodeAssumption DEF Init, IInv, TypeOK, Filled

LEMMA NextIInv == IInv /\ [Next]_vars => IInv'
<1> SUFFICES ASSUME IInv, [Next]_vars PROVE IInv'
  OBVIOUS
<1>1. /\ stdin \in Seq(Byte) /\ stdout \in Seq(Byte) /\ inbuf \in Seq(Byte)
      /\ outbuf \in Seq(Byte) /\ codepoints \in Seq(Int)
  BY DEF IInv, TypeOK
<1>2. /\ Len(stdin) \in Nat /\ Len(inbuf) \in Nat
      /\ Len(outbuf) \in Nat /\ Len(codepoints) \in Nat
  BY <1>1, LenProperties
<1>3. MAXBOM = 4 /\ NBUF \in Nat /\ NBUF > 4 /\ Garbage \subseteq Byte
  BY RecodeAssumption
<1>4. CASE ParseArgs
  BY <1>4 DEF ParseArgs, IInv, TypeOK, Filled
<1>5. ASSUME NEW bom \in Seq(Byte), Len(bom) = 4, pc = "bom", TakeBom(bom),
             stdin' \in Seq(Byte), intact' \in BOOLEAN
      PROVE  IInv'
  <2>1. orig_enc' \in Encoding /\ BOM_SIZES[orig_enc'] \in 0 .. 4
    <3>1. orig_enc' = BomToEnc(bom)
      BY <1>5 DEF TakeBom
    <3>2. BomToEnc(bom) \in Encoding
      BY DEF BomToEnc, Encoding
    <3> QED
      BY <3>1, <3>2, BomBounds
  <2>2. inbuf' \in Seq(Byte) /\ Len(inbuf') <= 4
    <3> DEFINE n == BOM_SIZES[orig_enc']
    <3>1. inbuf' = Drop(bom, n)
      BY <1>5 DEF TakeBom
    <3>2. n \in 0 .. Len(bom)
      BY <1>5, <2>1
    <3> HIDE DEF n
    <3>3. Drop(bom, n) \in Seq(Byte) /\ Len(Drop(bom, n)) = Len(bom) - n
      BY <1>5, <3>2, Pieces
    <3> QED
      BY <1>5, <3>1, <3>2, <3>3
  <2>3. dest_enc \in Encoding /\ codepoints = <<>>
    BY <1>5 DEF IInv, Filled
  <2>4. outbuf' \in Seq(Byte) /\ Len(outbuf') <= 4
    BY <1>5, <2>3, BomBounds DEF TakeBom
  <2>5. pc' = "read" /\ UNCHANGED <<dest_enc, codepoints, stdout>>
    BY <1>5 DEF TakeBom
  <2>6. Len(outbuf') \in Nat /\ Len(inbuf') \in Nat
    BY <2>2, <2>4, LenProperties
  <2> QED
    BY <1>1, <1>3, <1>5, <2>1, <2>2, <2>3, <2>4, <2>5, <2>6 DEF IInv, TypeOK, Filled
<1>6. CASE ReadBom
  <2>1. 4 \in 0 .. Len(stdin)
    BY <1>2, <1>3, <1>6 DEF ReadBom
  <2>2. SubSeq(stdin, 1, 4) \in Seq(Byte) /\ Len(SubSeq(stdin, 1, 4)) = 4
        /\ Drop(stdin, 4) \in Seq(Byte)
    BY <1>1, <2>1, Pieces
  <2>3. pc = "bom" /\ TakeBom(SubSeq(stdin, 1, 4)) /\ stdin' = Drop(stdin, 4)
        /\ intact' = intact
    BY <1>3, <1>6 DEF ReadBom
  <2>4. intact' \in BOOLEAN
    BY <2>3 DEF IInv, TypeOK
  <2> QED
    BY <1>5, <2>2, <2>3, <2>4
<1>7. CASE ReadBomShort
  <2>1. PICK k \in 0 .. Min2(MAXBOM - 1, Len(stdin)) :
          \E junk \in [1 .. MAXBOM - k -> Garbage] :
            /\ TakeBom(SubSeq(stdin, 1, k) \o junk)
            /\ stdin' = Drop(stdin, k)
    BY <1>7 DEF ReadBomShort
  <2>2. k \in 0 .. 3 /\ k \in 0 .. Len(stdin)
    BY <1>2, <1>3, <2>1 DEF Min2
  <2>3. PICK junk \in [1 .. MAXBOM - k -> Garbage] :
          /\ TakeBom(SubSeq(stdin, 1, k) \o junk)
          /\ stdin' = Drop(stdin, k)
    BY <2>1
  <2>4. junk \in Seq(Byte) /\ Len(junk) = 4 - k
    <3>1. junk \in [1 .. 4 - k -> Byte] /\ 4 - k \in Nat
      BY <1>3, <2>2, <2>3
    <3> QED
      BY <3>1
  <2> DEFINE got == SubSeq(stdin, 1, k)
  <2>5. got \in Seq(Byte) /\ Len(got) = k /\ Drop(stdin, k) \in Seq(Byte)
    BY <1>1, <2>2, Pieces
  <2>6. TakeBom(got \o junk)
    BY <2>3
  <2> HIDE DEF got
  <2>7. got \o junk \in Seq(Byte) /\ Len(got \o junk) = Len(got) + Len(junk)
    BY <2>4, <2>5, ConcatProperties
  <2>8. Len(got \o junk) = 4
    BY <2>2, <2>4, <2>5, <2>7
  <2>9. pc = "bom" /\ intact' \in BOOLEAN /\ stdin' \in Seq(Byte)
    BY <1>7, <2>3, <2>5 DEF ReadBomShort
  <2> QED
    BY <1>5, <2>6, <2>7, <2>8, <2>9
<1>8. CASE ReadSome
  <2>1. PICK k \in 1 .. Min2(NBUF - Len(inbuf), Len(stdin)) :
          inbuf' = inbuf \o SubSeq(stdin, 1, k) /\ stdin' = Drop(stdin, k)
    BY <1>8 DEF ReadSome
  <2>2. k \in 0 .. Len(stdin) /\ Len(inbuf) + k <= NBUF
    BY <1>2, <1>3, <2>1 DEF Min2
  <2> DEFINE got == SubSeq(stdin, 1, k)
  <2>3. got \in Seq(Byte) /\ Len(got) = k /\ Drop(stdin, k) \in Seq(Byte)
    BY <1>1, <2>2, Pieces
  <2>4. inbuf' = inbuf \o got /\ stdin' \in Seq(Byte)
    BY <2>1, <2>3
  <2> HIDE DEF got
  <2>5. inbuf' \in Seq(Byte) /\ Len(inbuf') = Len(inbuf) + Len(got)
    BY <1>1, <2>3, <2>4, ConcatProperties
  <2>6. Len(inbuf') <= NBUF
    BY <2>2, <2>3, <2>5
  <2>7. pc = "read" /\ pc' = "decode"
        /\ UNCHANGED <<dest_enc, orig_enc, codepoints, outbuf, stdout, intact>>
    BY <1>8 DEF ReadSome
  <2>8. codepoints = <<>> /\ Len(codepoints) = 0 /\ Len(inbuf') \in Nat
    BY <2>5, <2>7, LenProperties DEF IInv, Filled
  <2> QED
    BY <1>1, <1>3, <2>4, <2>5, <2>6, <2>7, <2>8 DEF IInv, TypeOK, Filled
<1>9. CASE ReadEnd
  BY <1>9 DEF ReadEnd, IInv, TypeOK, Filled
<1>10. CASE ReadFails
  BY <1>10 DEF ReadFails, IInv, TypeOK, Filled
<1>11. CASE Decode
  <2>1. PICK r : r = ReadCodepoint(orig_enc, inbuf)
    OBVIOUS
  <2>2. /\ pc = "decode" /\ r.n > 0
        /\ codepoints' = Append(codepoints, r.cp)
        /\ inbuf' = Drop(inbuf, r.n)
        /\ UNCHANGED <<pc, dest_enc, orig_enc, stdin, outbuf, stdout, intact>>
    BY <1>11, <2>1 DEF Decode
  <2>3. orig_enc \in Encoding
    BY <2>2 DEF IInv, Filled
  <2>4. r.n \in 0 .. 4 /\ r.n <= Len(inbuf) /\ r.cp \in Int
    BY <1>1, <2>1, <2>3, ReadBounds
  <2>5. PICK n \in 1 .. 4 : n = r.n
    BY <2>2, <2>4
  <2>6. n \in 0 .. Len(inbuf)
    BY <1>2, <2>4, <2>5
  <2>7. inbuf' \in Seq(Byte) /\ Len(inbuf') = Len(inbuf) - n
    BY <1>1, <2>2, <2>5, <2>6, Pieces
  <2>8. codepoints' \in Seq(Int) /\ Len(codepoints') = Len(codepoints) + 1
    BY <1>1, <2>2, <2>4, AppendProperties
  <2>9. /\ Len(codepoints') + Len(inbuf') <= NBUF
        /\ Len(inbuf') <= NBUF /\ Len(codepoints') <= NBUF
    <3>1. Len(codepoints) + Len(inbuf) <= NBUF
      BY <2>2 DEF IInv, Filled
    <3>2. Len(inbuf') = Len(inbuf) - n /\ Len(codepoints') = Len(codepoints) + 1
      BY <2>7, <2>8
    <3>3. n \in 1 .. 4 /\ n <= Len(inbuf)
      BY <2>5, <2>6
    <3> QED
      BY <1>2, <1>3, <3>1, <3>2, <3>3
  <2> QED
    BY <2>2, <2>7, <2>8, <2>9 DEF IInv, TypeOK, Filled
<1>12. CASE DecodeEnd
  <2>1. outbuf' \in Seq(Byte) /\ Len(outbuf') = Len(outbuf)
    BY <1>1, <1>12, Zeroed DEF DecodeEnd
  <2>2. intact \in BOOLEAN
    BY DEF IInv, TypeOK
  <2>3. intact' \in BOOLEAN
    BY <1>12, <2>2 DEF DecodeEnd
  <2>4. /\ pc = "decode" /\ pc' = "encode"
        /\ UNCHANGED <<dest_enc, orig_enc, stdin, inbuf, codepoints, stdout>>
    BY <1>12 DEF DecodeEnd
  <2>5. Len(codepoints) + Len(inbuf) <= NBUF /\ Len(outbuf) <= MAXBOM
    BY <2>4 DEF IInv, Filled
  <2>6. 4 * Len(codepoints) + Len(outbuf') <= NBUF * 4 + MAXBOM
        /\ Len(outbuf') <= NBUF * 4 + MAXBOM
    BY <1>2, <1>3, <2>1, <2>5
  <2> QED
    BY <2>1, <2>3, <2>4, <2>6 DEF IInv, TypeOK, Filled
<1>13. CASE Encode
  <2>1. /\ pc = "encode" /\ codepoints # <<>>
        /\ codepoints' = Tail(codepoints)
        /\ outbuf' = outbuf \o WriteCodepoint(dest_enc, Head(codepoints))
        /\ UNCHANGED <<pc, dest_enc, orig_enc, stdin, inbuf, stdout, intact>>
    BY <1>13 DEF Encode
  <2>2. /\ Head(codepoints) \in Int
        /\ codepoints' \in Seq(Int) /\ Len(codepoints') = Len(codepoints) - 1
    BY <1>1, <2>1, HeadTailProperties
  <2>3. dest_enc \in Encoding /\ 4 * Len(codepoints) + Len(outbuf) <= NBUF * 4 + MAXBOM
    BY <2>1 DEF IInv, Filled
  <2>4. PICK w \in Seq(Byte) : outbuf' = outbuf \o w /\ Len(w) <= 4
    BY <2>1, <2>2, <2>3, WriteBounds
  <2>5. outbuf' \in Seq(Byte) /\ Len(outbuf') = Len(outbuf) + Len(w) /\ Len(w) \in Nat
    BY <1>1, <2>4, ConcatProperties, LenProperties
  <2>6. Len(codepoints') \in Nat
    BY <2>2, LenProperties
  <2>7. /\ 4 * Len(codepoints') + Len(outbuf') <= NBUF * 4 + MAXBOM
        /\ Len(outbuf') <= NBUF * 4 + MAXBOM
    BY <1>2, <1>3, <2>2, <2>3, <2>4, <2>5, <2>6
  <2>8. Len(codepoints') <= NBUF
    <3>1. Len(codepoints) <= NBUF
      BY DEF IInv, TypeOK
    <3> QED
      BY <1>2, <1>3, <2>2, <3>1
  <2> QED
    BY <2>1, <2>2, <2>5, <2>7, <2>8 DEF IInv, TypeOK, Filled
<1>14. ASSUME stdout' \in Seq(Byte), intact' \in BOOLEAN,
              pc = "encode", pc' = "read", codepoints = <<>>, outbuf' = <<>>,
              UNCHANGED <<dest_enc, orig_enc, stdin, inbuf, codepoints>>
       PROVE  IInv'
  <2>1. outbuf' \in Seq(Byte) /\ Len(outbuf') = 0
    BY <1>14, EmptySeq
  <2> QED
    BY <1>3, <1>14, <2>1 DEF IInv, TypeOK, Filled
<1>15. CASE WriteAll
  <2>1. stdout' \in Seq(Byte)
    BY <1>1, <1>15, ConcatProperties DEF WriteAll
  <2>2. intact' \in BOOLEAN
    BY <1>15 DEF WriteAll, IInv, TypeOK
  <2> QED
    BY <1>14, <1>15, <2>1, <2>2 DEF WriteAll
<1>16. CASE WriteShort
  <2>1. PICK k \in 0 .. Len(outbuf) - 1 : stdout' = stdout \o SubSeq(outbuf, 1, k)
    BY <1>16 DEF WriteShort
  <2>2. k \in 0 .. Len(outbuf)
    BY <1>2, <2>1
  <2>3. SubSeq(outbuf, 1, k) \in Seq(Byte)
    BY <1>1, <2>2, Pieces
  <2>4. stdout' \in Seq(Byte)
    BY <1>1, <2>1, <2>3, ConcatProperties
  <2> QED
    BY <1>14, <1>16, <2>4 DEF WriteShort
<1>17. CASE UNCHANGED vars
  BY <1>17 DEF vars, IInv, TypeOK, Filled
<1> QED
  BY <1>4, <1>6, <1>7, <1>8, <1>9, <1>10, <1>11, <1>12, <1>13, <1>15, <1>16, <1>17
     DEF Next

(* However the input is cut up and whatever it holds, what read() and      *)
(* encode_output put in the buffers of main fits in them, and every code   *)
(* point kept has an element of codepoints to be in.                       *)
THEOREM BuffersSuffice == Spec => []TypeOK
<1>1. IInv => TypeOK
  BY DEF IInv
<1> QED
  BY <1>1, InitIInv, NextIInv, PTL DEF Spec

----------------------------------------------------------------------------
(* The whole input converted at once.                                      *)

(* A code point leaves fewer bytes than there were. *)
LEMMA Consumed ==
  ASSUME NEW enc \in Encoding, NEW b \in Seq(Byte), NEW n \in 1 .. 4, n <= Len(b)
  PROVE  Drop(b, n) \in Seq(Byte) /\ Len(Drop(b, n)) = Len(b) - n
BY Pieces, LenProperties

LEMMA LenIsSize ==
  ASSUME NEW V
  PROVE  [s \in Seq(V) |-> Len(s)] \in [Seq(V) -> Nat]
BY LenProperties

LEMMA ConvertUnfold ==
  ASSUME NEW from \in Encoding, NEW to, NEW b \in Seq(Byte)
  PROVE  LET r == ReadCodepoint(from, b)
         IN  Convert(from, to)[b] =
               IF r.n = 0 THEN <<>>
               ELSE WriteCodepoint(to, r.cp) \o Convert(from, to)[Drop(b, r.n)]
<1> DEFINE r(s) == ReadCodepoint(from, s)
           S == Seq(Byte)
           size == [s \in S |-> Len(s)]
           stop == {s \in S : r(s).n = 0}
           out == [s \in S |-> WriteCodepoint(to, r(s).cp)]
           rest == [s \in S |-> Drop(s, r(s).n)]
           Def(f) == f = [s \in S |-> IF r(s).n = 0 THEN <<>>
                                      ELSE WriteCodepoint(to, r(s).cp) \o f[Drop(s, r(s).n)]]
<1>1. \A s \in S : s \notin stop => rest[s] \in S /\ size[rest[s]] < size[s]
  <2> SUFFICES ASSUME NEW s \in S, r(s).n # 0
               PROVE  Drop(s, r(s).n) \in S /\ Len(Drop(s, r(s).n)) < Len(s)
    OBVIOUS
  <2>1. r(s).n \in 1 .. 4 /\ r(s).n <= Len(s)
    BY ReadBounds
  <2> HIDE DEF r
  <2>2. Drop(s, r(s).n) \in Seq(Byte) /\ Len(Drop(s, r(s).n)) = Len(s) - r(s).n
    BY <2>1, Consumed
  <2> QED
    BY <2>1, <2>2, LenProperties
<1>2. \E g : Unfolds(g, S, stop, out, rest)
  <2>1. size \in [S -> Nat]
    BY LenIsSize
  <2> HIDE DEF S, size, stop, out, rest
  <2> QED
    BY <1>1, <2>1, UnfoldingExists
<1>3. \E g : Def(g)
  <2>1. PICK g : Unfolds(g, S, stop, out, rest)
    BY <1>2
  <2>2. \A s \in S : /\ s \in stop <=> r(s).n = 0
                     /\ out[s] = WriteCodepoint(to, r(s).cp)
                     /\ rest[s] = Drop(s, r(s).n)
    OBVIOUS
  <2> HIDE DEF r, S, stop, out, rest
  <2>3. Def(g)
    BY <2>1, <2>2 DEF Unfolds
  <2> QED
    BY <2>3
<1>4. Convert(from, to) = CHOOSE f : Def(f)
  BY DEF Convert
<1>5. Def(Convert(from, to))
  <2> HIDE DEF Def
  <2> QED
    BY <1>3, <1>4
<1> HIDE DEF r
<1> QED
  BY <1>5 DEF r



LEMMA EncodeAllUnfold ==
  ASSUME NEW to, NEW p \in Seq(Int)
  PROVE  EncodeAll(to)[p] =
           IF p = <<>> THEN <<>>
           ELSE WriteCodepoint(to, Head(p)) \o EncodeAll(to)[Tail(p)]
<1> DEFINE S == Seq(Int)
           size == [s \in S |-> Len(s)]
           out == [s \in S |-> WriteCodepoint(to, Head(s))]
           rest == [s \in S |-> Tail(s)]
           Def(f) == f = [s \in S |-> IF s = <<>> THEN <<>>
                                      ELSE WriteCodepoint(to, Head(s)) \o f[Tail(s)]]
<1>1. \A s \in S : s \notin {<<>>} => rest[s] \in S /\ size[rest[s]] < size[s]
  BY HeadTailProperties, LenProperties
<1>2. \E g : Unfolds(g, S, {<<>>}, out, rest)
  <2>1. size \in [S -> Nat]
    BY LenIsSize
  <2> HIDE DEF S, size, out, rest
  <2> QED
    BY <1>1, <2>1, UnfoldingExists
<1>3. \E g : Def(g)
  <2>1. PICK g : Unfolds(g, S, {<<>>}, out, rest)
    BY <1>2
  <2>2. \A s \in S : /\ s \in {<<>>} <=> s = <<>>
                     /\ out[s] = WriteCodepoint(to, Head(s))
                     /\ rest[s] = Tail(s)
    OBVIOUS
  <2> HIDE DEF S, out, rest
  <2>3. Def(g)
    BY <2>1, <2>2 DEF Unfolds
  <2> QED
    BY <2>3
<1>4. EncodeAll(to) = CHOOSE f : Def(f)
  BY DEF EncodeAll
<1>5. Def(EncodeAll(to))
  <2> HIDE DEF Def
  <2> QED
    BY <1>3, <1>4
<1> QED
  BY <1>5

LEMMA EncodedUnfold ==
  ASSUME NEW enc, NEW t \in Seq(Int)
  PROVE  Encoded(enc)[t] =
           IF t = <<>> THEN <<>> ELSE Form(enc, Head(t)) \o Encoded(enc)[Tail(t)]
<1> DEFINE S == Seq(Int)
           size == [s \in S |-> Len(s)]
           out == [s \in S |-> Form(enc, Head(s))]
           rest == [s \in S |-> Tail(s)]
           Def(f) == f = [s \in S |-> IF s = <<>> THEN <<>>
                                      ELSE Form(enc, Head(s)) \o f[Tail(s)]]
<1>1. \A s \in S : s \notin {<<>>} => rest[s] \in S /\ size[rest[s]] < size[s]
  BY HeadTailProperties, LenProperties
<1>2. \E g : Unfolds(g, S, {<<>>}, out, rest)
  <2>1. size \in [S -> Nat]
    BY LenIsSize
  <2> HIDE DEF S, size, out, rest
  <2> QED
    BY <1>1, <2>1, UnfoldingExists
<1>3. \E g : Def(g)
  <2>1. PICK g : Unfolds(g, S, {<<>>}, out, rest)
    BY <1>2
  <2>2. \A s \in S : /\ s \in {<<>>} <=> s = <<>>
                     /\ out[s] = Form(enc, Head(s))
                     /\ rest[s] = Tail(s)
    OBVIOUS
  <2> HIDE DEF S, out, rest
  <2>3. Def(g)
    BY <2>1, <2>2 DEF Unfolds
  <2> QED
    BY <2>3
<1>4. Encoded(enc) = CHOOSE f : Def(f)
  BY DEF Encoded
<1>5. Def(Encoded(enc))
  <2> HIDE DEF Def
  <2> QED
    BY <1>3, <1>4
<1> QED
  BY <1>5

(* A set that holds a sequence when it holds all that are shorter holds    *)
(* them all.                                                               *)
LEMMA LengthInduction ==
  ASSUME NEW V, NEW T,
         \A s \in Seq(V) : (\A u \in Seq(V) : Len(u) < Len(s) => u \in T) => s \in T
  PROVE  Seq(V) \subseteq T
<1> DEFINE S == Seq(V)
           size == [s \in S |-> Len(s)]
<1>1. size \in [S -> Nat]
  BY LenIsSize
<1>2. \A s \in S : (\A u \in S : size[u] < size[s] => u \in T) => s \in T
  OBVIOUS
<1> HIDE DEF S, size
<1>3. S \subseteq T
  BY <1>1, <1>2, SizeInduction
<1> QED
  BY <1>3 DEF S

LEMMA ConvertType ==
  ASSUME NEW from \in Encoding, NEW to \in Encoding, NEW b \in Seq(Byte)
  PROVE  Convert(from, to)[b] \in Seq(Byte)
<1> DEFINE T == {s \in Seq(Byte) : Convert(from, to)[s] \in Seq(Byte)}
<1>1. ASSUME NEW s \in Seq(Byte), \A u \in Seq(Byte) : Len(u) < Len(s) => u \in T
      PROVE  s \in T
  <2>1. PICK r : r = ReadCodepoint(from, s)
    OBVIOUS
  <2>2. r.n \in 0 .. 4 /\ r.n <= Len(s) /\ r.cp \in Int
    BY <2>1, ReadBounds
  <2>3. Convert(from, to)[s] =
          IF r.n = 0 THEN <<>> ELSE WriteCodepoint(to, r.cp) \o Convert(from, to)[Drop(s, r.n)]
    BY <2>1, ConvertUnfold
  <2>4. CASE r.n = 0
    BY <2>3, <2>4, EmptySeq
  <2>5. CASE r.n # 0
    <3>1. Drop(s, r.n) \in Seq(Byte) /\ Len(Drop(s, r.n)) = Len(s) - r.n
      BY <2>2, <2>5, Consumed
    <3>2. Drop(s, r.n) \in T
      BY <1>1, <2>2, <2>5, <3>1, LenProperties
    <3>3. WriteCodepoint(to, r.cp) \in Seq(Byte)
      BY <2>2, WriteBounds
    <3> QED
      BY <2>3, <2>5, <3>2, <3>3, ConcatProperties
  <2> QED
    BY <2>4, <2>5
<1> HIDE DEF T
<1>2. Seq(Byte) \subseteq T
  BY <1>1, LengthInduction
<1> QED
  BY <1>2 DEF T

LEMMA Joined ==
  ASSUME NEW a \in Seq(Byte), NEW b \in Seq(Byte), NEW c \in Seq(Byte)
  PROVE  (a \o b) \o c = a \o (b \o c)
BY ConcatAssociative

LEMMA EncodeAllAppend ==
  ASSUME NEW to \in Encoding, NEW p \in Seq(Int), NEW c \in Int
  PROVE  /\ EncodeAll(to)[p] \in Seq(Byte)
         /\ EncodeAll(to)[Append(p, c)] = EncodeAll(to)[p] \o WriteCodepoint(to, c)
<1> DEFINE E(s) == EncodeAll(to)[s]
           W(x) == WriteCodepoint(to, x)
           T == {s \in Seq(Int) : E(s) \in Seq(Byte) /\ E(Append(s, c)) = E(s) \o W(c)}
<1>0. \A x \in Int : W(x) \in Seq(Byte)
  BY WriteBounds
<1>9. \A s \in Seq(Int) : E(s) = IF s = <<>> THEN <<>> ELSE W(Head(s)) \o E(Tail(s))
  BY EncodeAllUnfold
<1> HIDE DEF E, W
<1>1. ASSUME NEW s \in Seq(Int), \A u \in Seq(Int) : Len(u) < Len(s) => u \in T
      PROVE  s \in T
  <2>1. /\ Append(s, c) \in Seq(Int) /\ Append(s, c) # <<>>
        /\ s # <<>> => Head(Append(s, c)) = Head(s) /\ Tail(Append(s, c)) = Append(Tail(s), c)
        /\ s = <<>> => Head(Append(s, c)) = c /\ Tail(Append(s, c)) = <<>>
    OBVIOUS
  <2>2. CASE s = <<>>
    <3>1. E(s) = <<>> /\ E(<<>>) = <<>>
      BY <2>2, <1>9
    <3>2. E(Append(s, c)) = W(c) \o <<>>
      BY <1>9, <2>1, <2>2, <3>1
    <3>3. W(c) \o <<>> = W(c) /\ <<>> \o W(c) = W(c) /\ E(s) \in Seq(Byte)
      BY <1>0, <3>1, ConcatEmptySeq, EmptySeq
    <3> QED
      BY <3>1, <3>2, <3>3
  <2>3. CASE s # <<>>
    <3>1. Head(s) \in Int /\ Tail(s) \in Seq(Int) /\ Len(Tail(s)) < Len(s)
      BY <2>3, HeadTailProperties, LenProperties
    <3>2. E(Tail(s)) \in Seq(Byte) /\ E(Append(Tail(s), c)) = E(Tail(s)) \o W(c)
      BY <1>1, <3>1
    <3>3. E(s) = W(Head(s)) \o E(Tail(s))
      BY <1>9, <2>3
    <3>4. E(Append(s, c)) = W(Head(s)) \o (E(Tail(s)) \o W(c))
      BY <1>9, <2>1, <2>3, <3>2
    <3>5. W(Head(s)) \o (E(Tail(s)) \o W(c)) = (W(Head(s)) \o E(Tail(s))) \o W(c)
      <4>1. W(Head(s)) \in Seq(Byte) /\ E(Tail(s)) \in Seq(Byte) /\ W(c) \in Seq(Byte)
        BY <1>0, <3>1, <3>2
      <4> QED
        BY <4>1, Joined
    <3>6. E(s) \in Seq(Byte)
      BY <1>0, <3>1, <3>2, <3>3, ConcatProperties
    <3> QED
      BY <3>3, <3>4, <3>5, <3>6
  <2> QED
    BY <2>2, <2>3
<1> HIDE DEF T
<1>2. Seq(Int) \subseteq T
  BY <1>1, LengthInduction
<1> QED
  BY <1>2 DEF T, E, W


(* What is decoded does not depend on the bytes after it.                  *)
LEMMA PrefixStable ==
  ASSUME NEW enc \in Encoding, NEW s \in Seq(Byte), NEW t \in Seq(Byte),
         ReadCodepoint(enc, s).n # 0
  PROVE  ReadCodepoint(enc, s \o t) = ReadCodepoint(enc, s)
<1>1. PICK u : u = s \o t
  OBVIOUS
<1>2. /\ Len(s) \in Nat /\ Len(u) \in Nat /\ Len(u) >= Len(s)
      /\ \A i \in 1 .. Len(s) : u[i] = s[i]
  BY <1>1, ConcatProperties, LenProperties
<1>3. HasCodepoint(enc, s)
  BY DEF ReadCodepoint, Nothing
<1> SUFFICES ReadCodepoint(enc, u) = ReadCodepoint(enc, s)
  BY <1>1
<1>4. CASE enc \in UTF32
  <2>1. Len(s) >= 4
    BY <1>3, <1>4 DEF HasCodepoint, UTF16, UTF32
  <2>2. /\ u[1] = s[1] /\ u[2] = s[2] /\ u[3] = s[3] /\ u[4] = s[4]
        /\ HasCodepoint(enc, u)
    BY <1>2, <1>4, <2>1 DEF HasCodepoint
  <2>3. ReadUTF32(enc, u) = ReadUTF32(enc, s)
    BY <2>2 DEF ReadUTF32
  <2> QED
    BY <1>3, <1>4, <2>2, <2>3 DEF ReadCodepoint
<1>5. CASE enc \in UTF16
  <2>0. enc \notin UTF32 /\ enc # "UTF8"
    BY <1>5 DEF UTF16, UTF32
  <2>1. Len(s) >= 4 \/ (Len(s) >= 2 /\ Unit(enc, s, 1) < 55296)
    BY <1>3, <2>0 DEF HasCodepoint
  <2>2. /\ Unit(enc, u, 1) = Unit(enc, s, 1)
        /\ Len(s) >= 4 => Unit(enc, u, 3) = Unit(enc, s, 3)
    BY <1>2, <2>1 DEF Unit
  <2>3. HasCodepoint(enc, u)
    BY <1>2, <1>5, <2>1, <2>2 DEF HasCodepoint
  <2>4. ReadCodepoint(enc, s) = ReadUTF16(enc, s) /\ ReadCodepoint(enc, u) = ReadUTF16(enc, u)
    BY <1>3, <1>5, <2>0, <2>3 DEF ReadCodepoint
  <2>5. Len(u) >= 4 \/ Unit(enc, s, 1) < 55296
    BY <1>2, <2>1
  <2>6. ReadUTF16(enc, u) = ReadUTF16(enc, s)
    <3>1. CASE Unit(enc, s, 1) < 55296 \/ Unit(enc, s, 1) > 57344
      BY <2>2, <3>1 DEF ReadUTF16
    <3>2. CASE ~(Unit(enc, s, 1) < 55296 \/ Unit(enc, s, 1) > 57344)
      <4>1. Len(s) >= 4 /\ Len(u) >= 4
        BY <1>2, <2>1, <3>2
      <4> QED
        BY <2>2, <3>2, <4>1 DEF ReadUTF16
    <3> QED
      BY <3>1, <3>2
  <2> QED
    BY <2>4, <2>6
<1>6. CASE enc \notin UTF32 /\ enc \notin UTF16
  <2>1. Len(s) >= 1 /\ HasCodepoint(enc, u)
    BY <1>2, <1>3, <1>6 DEF HasCodepoint
  <2>2. ReadCodepoint(enc, s) = ReadUTF8(s) /\ ReadCodepoint(enc, u) = ReadUTF8(u)
    BY <1>3, <1>6, <2>1 DEF ReadCodepoint
  <2>3. ReadUTF8(s).n # 0
    BY <2>2
  <2>4. /\ u[1] = s[1]
        /\ Len(s) > 1 => u[2] = s[2] /\ Len(u) > 1
        /\ Len(s) > 2 => u[2] = s[2] /\ u[3] = s[3] /\ Len(u) > 2 /\ Len(s) > 1
        /\ Len(s) > 3 => u[2] = s[2] /\ u[3] = s[3] /\ u[4] = s[4] /\ Len(u) > 3
                           /\ Len(s) > 2 /\ Len(s) > 1
    BY <1>2, <2>1
  <2>5. Nothing.n = 0
    BY DEF Nothing
  <2>6. ReadUTF8(u) = ReadUTF8(s)
    BY <2>3, <2>4, <2>5 DEF ReadUTF8
  <2> QED
    BY <2>2, <2>6
<1> QED
  BY <1>4, <1>5, <1>6

(* Bytes taken from the front of a sequence and the rest.                  *)
LEMMA DropOfJoin ==
  ASSUME NEW s \in Seq(Byte), NEW t \in Seq(Byte), NEW n \in 0 .. Len(s)
  PROVE  Drop(s \o t, n) = Drop(s, n) \o t
<1>1. Drop(s, n) \in Seq(Byte) /\ Len(Drop(s, n)) = Len(s) - n
      /\ \A i \in 1 .. Len(s) - n : Drop(s, n)[i] = s[n + i]
  BY SubSeqProperties, LenProperties, ElementOfSeq DEF Drop
<1>2. PICK u : u = s \o t
  OBVIOUS
<1>3. /\ u \in Seq(Byte) /\ Len(u) = Len(s) + Len(t)
      /\ \A i \in 1 .. Len(s) + Len(t) : u[i] = IF i <= Len(s) THEN s[i] ELSE t[i - Len(s)]
  BY <1>2, ConcatProperties
<1>4. Len(s) \in Nat /\ Len(t) \in Nat
  BY LenProperties
<1>5. Drop(u, n) \in Seq(Byte) /\ Len(Drop(u, n)) = Len(u) - n
      /\ \A i \in 1 .. Len(u) - n : Drop(u, n)[i] = u[n + i]
  <2>1. \A i \in n + 1 .. Len(u) : u[i] \in Byte
    BY <1>3, <1>4, ElementOfSeq
  <2> QED
    BY <1>3, <1>4, <2>1, SubSeqProperties DEF Drop
<1>6. PICK d, v : d = Drop(s, n) /\ v = d \o t
  OBVIOUS
<1>7. /\ v \in Seq(Byte) /\ Len(v) = (Len(s) - n) + Len(t)
      /\ \A i \in 1 .. (Len(s) - n) + Len(t) :
           v[i] = IF i <= Len(s) - n THEN Drop(s, n)[i] ELSE t[i - (Len(s) - n)]
  <2>1. d \in Seq(Byte) /\ Len(d) = Len(s) - n
    BY <1>1, <1>6
  <2>2. /\ v \in Seq(Byte) /\ Len(v) = Len(d) + Len(t)
        /\ \A i \in 1 .. Len(d) + Len(t) :
             v[i] = IF i <= Len(d) THEN d[i] ELSE t[i - Len(d)]
    BY <1>6, <2>1, ConcatProperties
  <2> QED
    BY <1>6, <2>1, <2>2
<1>8. \A i \in 1 .. Len(v) : Drop(u, n)[i] = v[i]
  <2> TAKE i \in 1 .. Len(v)
  <2>1. i \in 1 .. Len(u) - n /\ n + i \in 1 .. Len(s) + Len(t)
    BY <1>3, <1>4, <1>7
  <2>2. Drop(u, n)[i] = IF n + i <= Len(s) THEN s[n + i] ELSE t[(n + i) - Len(s)]
    BY <1>3, <1>5, <2>1
  <2>3. v[i] = IF i <= Len(s) - n THEN s[n + i] ELSE t[i - (Len(s) - n)]
    BY <1>1, <1>4, <1>7
  <2>4. (n + i <= Len(s) <=> i <= Len(s) - n) /\ (n + i) - Len(s) = i - (Len(s) - n)
    BY <1>4
  <2> QED
    BY <2>2, <2>3, <2>4
<1>9. Drop(u, n) = v
  BY <1>3, <1>4, <1>5, <1>7, <1>8, SeqEqual
<1> QED
  BY <1>2, <1>6, <1>9

LEMMA TakeAndDrop ==
  ASSUME NEW s \in Seq(Byte), NEW n \in 0 .. Len(s)
  PROVE  SubSeq(s, 1, n) \o Drop(s, n) = s
<1>1. Len(s) \in Nat
  BY LenProperties
<1>2. SubSeq(s, 1, n) \o SubSeq(s, n + 1, Len(s)) = SubSeq(s, 1, Len(s))
  <2>1. 1 \in 1 .. Len(s) + 1 /\ n \in 1 - 1 .. Len(s) /\ Len(s) \in n .. Len(s)
    BY <1>1
  <2> QED
    BY <2>1, ConcatAdjacentSubSeq
<1> QED
  BY <1>2, SubSeqFull DEF Drop

(* The bytes of a code point can be converted before those after it come.  *)
LEMMA ConvertJoin ==
  ASSUME NEW from \in Encoding, NEW to \in Encoding,
         NEW s \in Seq(Byte), NEW t \in Seq(Byte), ReadCodepoint(from, s).n # 0
  PROVE  Convert(from, to)[s \o t] =
           WriteCodepoint(to, ReadCodepoint(from, s).cp)
             \o Convert(from, to)[Drop(s, ReadCodepoint(from, s).n) \o t]
<1>0. PICK r : r = ReadCodepoint(from, s)
  OBVIOUS
<1>1. r = ReadCodepoint(from, s \o t) /\ r.n # 0
  BY <1>0, PrefixStable
<1>2. s \o t \in Seq(Byte)
  BY ConcatProperties
<1>3. Convert(from, to)[s \o t] =
        WriteCodepoint(to, r.cp) \o Convert(from, to)[Drop(s \o t, r.n)]
  BY <1>1, <1>2, ConvertUnfold
<1>4. r.n \in 0 .. Len(s)
  BY <1>0, ReadBounds, LenProperties
<1>5. Drop(s \o t, r.n) = Drop(s, r.n) \o t
  BY <1>4, DropOfJoin
<1> QED
  BY <1>0, <1>3, <1>5


----------------------------------------------------------------------------
(* The run of the C program and the conversion of the whole input.         *)

(* What was written and what the bytes and code points waiting stand for. *)
Adding ==
  stdout \o outbuf \o EncodeAll(dest_enc)[codepoints]
    \o Convert(orig_enc, dest_enc)[inbuf \o stdin]

Origin ==
  /\ source \in Sources
  /\ pc \in {"args", "bom"} => stdin = source.file /\ stdout = <<>>
  /\ orig_enc # UNKNOWN => dest_enc \in Encoding

AddsUp == intact /\ orig_enc # UNKNOWN => Adding = Ideal(source.file, dest_enc)

(* Between two pieces nothing that can be converted waits in a buffer,     *)
(* except before the first one is read.                                    *)
Waiting ==
  intact /\ orig_enc # UNKNOWN =>
    /\ Len(stdin) + MAXBOM <= Len(source.file)
    /\ pc = "encode" => ReadCodepoint(orig_enc, inbuf).n = 0
    /\ pc \in {"read", "exit"} =>
         /\ codepoints = <<>>
         /\ \/ Len(stdin) + MAXBOM = Len(source.file)
            \/ outbuf = <<>> /\ ReadCodepoint(orig_enc, inbuf).n = 0

TextInv == IInv /\ Origin /\ AddsUp /\ Waiting

TNext == Next /\ UNCHANGED source

LEMMA InitTextInv == TInit => TextInv
<1> SUFFICES ASSUME TInit PROVE TextInv
  OBVIOUS
<1>1. IInv
  BY InitIInv DEF TInit
<1> QED
  BY <1>1 DEF TInit, Init, TextInv, Origin, AddsUp, Waiting, UNKNOWN

LEMMA SourceIsBytes ==
  ASSUME NEW s \in Sources
  PROVE  s.file \in Seq(Byte)
BY SourcesAssumption, RecodeAssumption

(* The types of what Adding puts together. *)
LEMMA AddingTypes ==
  ASSUME IInv, Origin, orig_enc # UNKNOWN
  PROVE  /\ orig_enc \in Encoding /\ dest_enc \in Encoding
         /\ inbuf \o stdin \in Seq(Byte)
         /\ EncodeAll(dest_enc)[codepoints] \in Seq(Byte)
         /\ Convert(orig_enc, dest_enc)[inbuf \o stdin] \in Seq(Byte)
<1>1. /\ orig_enc \in Encoding /\ dest_enc \in Encoding
      /\ stdin \in Seq(Byte) /\ inbuf \in Seq(Byte) /\ codepoints \in Seq(Int)
  BY DEF IInv, TypeOK, Origin
<1>2. inbuf \o stdin \in Seq(Byte)
  BY <1>1, ConcatProperties
<1>3. 0 \in Int
  OBVIOUS
<1> QED
  BY <1>1, <1>2, <1>3, ConvertType, EncodeAllAppend

LEMMA NextTextInv == TextInv /\ [TNext]_<<vars, source>> => TextInv'
<1> SUFFICES ASSUME TextInv, [TNext]_<<vars, source>> PROVE TextInv'
  OBVIOUS
<1>0. IInv /\ IInv' /\ Origin /\ AddsUp /\ Waiting
  <2>1. [Next]_vars
    BY DEF TNext, vars
  <2> QED
    BY <2>1, NextIInv DEF TextInv
<1>1. /\ stdin \in Seq(Byte) /\ stdout \in Seq(Byte) /\ inbuf \in Seq(Byte)
      /\ outbuf \in Seq(Byte) /\ codepoints \in Seq(Int)
  BY <1>0 DEF IInv, TypeOK
<1>2. Len(stdin) \in Nat /\ Len(inbuf) \in Nat
  BY <1>1, LenProperties
<1>3. MAXBOM = 4
  BY RecodeAssumption
<1>4. UNCHANGED source
  BY DEF TNext
<1> SUFFICES Origin' /\ AddsUp' /\ Waiting'
  BY <1>0 DEF TextInv
<1>5. CASE ParseArgs
  BY <1>0, <1>4, <1>5 DEF ParseArgs, Origin, AddsUp, Waiting, IInv, Filled
<1>6. CASE ReadBom
  <2> DEFINE bom == SubSeq(stdin, 1, 4)
             n == BOM_SIZES[BomToEnc(bom)]
  <2>1. /\ pc = "bom" /\ pc' = "read" /\ stdin = source.file /\ stdout = <<>>
        /\ codepoints = <<>> /\ Len(stdin) >= 4 /\ dest_enc \in Encoding
        /\ orig_enc' = BomToEnc(bom) /\ inbuf' = Drop(bom, n)
        /\ outbuf' = WriteBom(dest_enc) /\ stdin' = Drop(stdin, 4)
        /\ UNCHANGED <<dest_enc, codepoints, stdout, intact>>
    BY <1>0, <1>3, <1>6 DEF ReadBom, TakeBom, Origin, IInv, Filled
  <2>2. bom \in Seq(Byte) /\ Len(bom) = 4 /\ Drop(stdin, 4) \in Seq(Byte)
        /\ Len(Drop(stdin, 4)) = Len(stdin) - 4
    <3>1. 4 \in 0 .. Len(stdin)
      BY <1>2, <2>1
    <3> QED
      BY <1>1, <3>1, Pieces
  <2>3. BomToEnc(bom) \in Encoding /\ n \in 0 .. 4
    <3>1. BomToEnc(bom) \in Encoding
      BY DEF BomToEnc, Encoding
    <3> QED
      BY <3>1, BomBounds
  <2>4. inbuf' \o stdin' = Drop(stdin, n)
    <3>1. Drop(bom \o Drop(stdin, 4), n) = Drop(bom, n) \o Drop(stdin, 4)
      BY <2>2, <2>3, DropOfJoin
    <3>2. bom \o Drop(stdin, 4) = stdin
      BY <1>1, <1>2, <2>1, TakeAndDrop
    <3> QED
      BY <2>1, <3>1, <3>2
  <2>5. Ideal(source.file, dest_enc)
          = WriteBom(dest_enc) \o Convert(BomToEnc(bom), dest_enc)[Drop(stdin, n)]
    BY <1>3, <2>1 DEF Ideal
  <2>6. Adding' = stdout \o WriteBom(dest_enc) \o EncodeAll(dest_enc)[<<>>]
                    \o Convert(BomToEnc(bom), dest_enc)[Drop(stdin, n)]
    BY <2>1, <2>4 DEF Adding
  <2>7. EncodeAll(dest_enc)[<<>>] = <<>>
    BY EncodeAllUnfold, EmptySeq
  <2>8. stdout \o WriteBom(dest_enc) \o <<>> = WriteBom(dest_enc)
    <3>1. WriteBom(dest_enc) \in Seq(Byte)
      BY <2>1, BomBounds
    <3> QED
      BY <2>1, <3>1, ConcatEmptySeq
  <2>9. Adding' = Ideal(source.file, dest_enc)
    BY <2>5, <2>6, <2>7, <2>8
  <2>10. Len(stdin') + MAXBOM = Len(source.file)
    BY <1>2, <1>3, <2>1, <2>2
  <2> HIDE DEF bom, n
  <2> QED
    BY <1>0, <1>2, <1>3, <1>4, <2>1, <2>9, <2>10 DEF Origin, AddsUp, Waiting
<1>7. CASE ReadBomShort
  BY <1>0, <1>4, <1>7 DEF ReadBomShort, TakeBom, Origin, AddsUp, Waiting, IInv, Filled
<1>8. CASE ReadSome
  <2>1. PICK k \in 1 .. Min2(NBUF - Len(inbuf), Len(stdin)) :
          inbuf' = inbuf \o SubSeq(stdin, 1, k) /\ stdin' = Drop(stdin, k)
    BY <1>8 DEF ReadSome
  <2>2. k \in 0 .. Len(stdin)
    <3>1. NBUF \in Nat
      BY RecodeAssumption
    <3> QED
      BY <1>2, <2>1, <3>1 DEF Min2
  <2>3. /\ SubSeq(stdin, 1, k) \in Seq(Byte) /\ Drop(stdin, k) \in Seq(Byte)
        /\ Len(Drop(stdin, k)) = Len(stdin) - k
        /\ SubSeq(stdin, 1, k) \o Drop(stdin, k) = stdin
    BY <1>1, <2>2, Pieces, TakeAndDrop
  <2>4. inbuf' \o stdin' = inbuf \o stdin
    <3>1. (inbuf \o SubSeq(stdin, 1, k)) \o Drop(stdin, k)
            = inbuf \o (SubSeq(stdin, 1, k) \o Drop(stdin, k))
      BY <1>1, <2>3, Joined
    <3> QED
      BY <2>1, <2>3, <3>1
  <2>5. /\ pc = "read" /\ pc' = "decode"
        /\ UNCHANGED <<dest_enc, orig_enc, codepoints, outbuf, stdout, intact>>
    BY <1>8 DEF ReadSome
  <2>6. Adding' = Adding
    BY <2>4, <2>5 DEF Adding
  <2>7. Len(stdin') <= Len(stdin) /\ Len(stdin') \in Nat
    BY <1>2, <2>1, <2>2, <2>3
  <2>8. intact /\ orig_enc # UNKNOWN => Len(stdin') + MAXBOM <= Len(source.file)
    <3>1. Len(source.file) \in Nat
      BY <1>0, SourceIsBytes, LenProperties DEF Origin
    <3> QED
      BY <1>0, <1>2, <1>3, <2>7, <3>1 DEF Waiting
  <2> QED
    BY <1>0, <1>4, <2>5, <2>6, <2>8 DEF Origin, AddsUp, Waiting
<1>9. CASE ReadEnd \/ ReadFails
  <2>1. /\ pc = "read" /\ pc' = "exit"
        /\ UNCHANGED <<dest_enc, orig_enc, stdin, inbuf, codepoints, outbuf, stdout, intact>>
    BY <1>9 DEF ReadEnd, ReadFails
  <2> QED
    BY <1>0, <1>4, <2>1 DEF Origin, AddsUp, Waiting, Adding
<1>10. CASE Decode
  <2>1. PICK r : r = ReadCodepoint(orig_enc, inbuf)
    OBVIOUS
  <2>2. /\ pc = "decode" /\ r.n > 0
        /\ codepoints' = Append(codepoints, r.cp)
        /\ inbuf' = Drop(inbuf, r.n)
        /\ UNCHANGED <<pc, dest_enc, orig_enc, stdin, outbuf, stdout, intact>>
    BY <1>10, <2>1 DEF Decode
  <2>3. orig_enc \in Encoding /\ dest_enc \in Encoding
    BY <1>0, <2>2 DEF IInv, Filled
  <2>4. r.n # 0 /\ r.cp \in Int /\ r.n \in 0 .. 4 /\ r.n <= Len(inbuf)
    BY <1>1, <2>1, <2>2, <2>3, ReadBounds
  <2>5. Convert(orig_enc, dest_enc)[inbuf \o stdin]
          = WriteCodepoint(dest_enc, r.cp) \o Convert(orig_enc, dest_enc)[inbuf' \o stdin']
    <3>1. Convert(orig_enc, dest_enc)[inbuf \o stdin]
            = WriteCodepoint(dest_enc, r.cp)
                \o Convert(orig_enc, dest_enc)[Drop(inbuf, r.n) \o stdin]
      <4>1. /\ orig_enc \in Encoding /\ dest_enc \in Encoding
            /\ inbuf \in Seq(Byte) /\ stdin \in Seq(Byte)
            /\ r = ReadCodepoint(orig_enc, inbuf) /\ r.n # 0
        BY <1>1, <2>1, <2>3, <2>4
      <4> QED
        BY <4>1, ConvertJoin
    <3> QED
      BY <2>2, <3>1
  <2>6. EncodeAll(dest_enc)[codepoints']
          = EncodeAll(dest_enc)[codepoints] \o WriteCodepoint(dest_enc, r.cp)
    BY <1>1, <2>2, <2>3, <2>4, EncodeAllAppend
  <2> DEFINE S == stdout \o outbuf
             E == EncodeAll(dest_enc)[codepoints]
             W == WriteCodepoint(dest_enc, r.cp)
             C == Convert(orig_enc, dest_enc)[inbuf' \o stdin']
  <2>7. S \in Seq(Byte) /\ E \in Seq(Byte) /\ W \in Seq(Byte) /\ C \in Seq(Byte)
    <3>1. S \in Seq(Byte)
      BY <1>1, ConcatProperties
    <3>2. E \in Seq(Byte) /\ W \in Seq(Byte)
      BY <1>1, <2>3, <2>4, EncodeAllAppend, WriteBounds
    <3>3. Drop(inbuf, r.n) \in Seq(Byte)
      BY <1>1, <2>4, Pieces
    <3>4. inbuf' \o stdin' \in Seq(Byte)
      BY <1>1, <2>2, <3>3, ConcatProperties
    <3> QED
      BY <2>3, <3>1, <3>2, <3>4, ConvertType
  <2>8. Adding = (S \o E) \o (W \o C) /\ Adding' = (S \o (E \o W)) \o C
    BY <2>2, <2>5, <2>6 DEF Adding
  <2> HIDE DEF S, E, W, C
  <2>9. Adding' = Adding
    <3>1. S \o E \in Seq(Byte)
      BY <2>7, ConcatProperties
    <3>2. (S \o E) \o (W \o C) = ((S \o E) \o W) \o C
      BY <2>7, <3>1, Joined
    <3>3. (S \o E) \o W = S \o (E \o W)
      BY <2>7, Joined
    <3> QED
      BY <2>8, <3>2, <3>3
  <2> QED
    BY <1>0, <1>4, <2>2, <2>9 DEF Origin, AddsUp, Waiting
<1>11. CASE DecodeEnd
  <2>1. /\ pc = "decode" /\ pc' = "encode" /\ ReadCodepoint(orig_enc, inbuf).n = 0
        /\ UNCHANGED <<dest_enc, orig_enc, stdin, inbuf, codepoints, stdout>>
    BY <1>11 DEF DecodeEnd
  <2>2. intact' => intact /\ outbuf' = outbuf
    <3>1. \/ UNCHANGED <<outbuf, intact>>
          \/ intact' = (intact /\ outbuf' = outbuf)
      BY <1>11 DEF DecodeEnd
    <3>2. CASE UNCHANGED <<outbuf, intact>>
      BY <3>2
    <3>3. CASE intact' = (intact /\ outbuf' = outbuf)
      BY <3>3
    <3> QED
      BY <3>1, <3>2, <3>3
  <2> QED
    BY <1>0, <1>4, <2>1, <2>2 DEF Origin, AddsUp, Waiting, Adding
<1>12. CASE Encode
  <2>1. /\ pc = "encode" /\ codepoints # <<>>
        /\ codepoints' = Tail(codepoints)
        /\ outbuf' = outbuf \o WriteCodepoint(dest_enc, Head(codepoints))
        /\ UNCHANGED <<pc, dest_enc, orig_enc, stdin, inbuf, stdout, intact>>
    BY <1>12 DEF Encode
  <2>2. dest_enc \in Encoding /\ Head(codepoints) \in Int /\ Tail(codepoints) \in Seq(Int)
    BY <1>0, <1>1, <2>1, HeadTailProperties DEF IInv, Filled
  <2> DEFINE E == EncodeAll(dest_enc)[Tail(codepoints)]
             W == WriteCodepoint(dest_enc, Head(codepoints))
             C == Convert(orig_enc, dest_enc)[inbuf \o stdin]
  <2>3. EncodeAll(dest_enc)[codepoints] = W \o E
    BY <1>1, <2>1, EncodeAllUnfold
  <2>4. W \in Seq(Byte) /\ E \in Seq(Byte)
    <3>1. 0 \in Int
      OBVIOUS
    <3> QED
      BY <2>2, <3>1, WriteBounds, EncodeAllAppend
  <2>5. /\ Adding = ((stdout \o outbuf) \o (W \o E)) \o C
        /\ Adding' = ((stdout \o (outbuf \o W)) \o E) \o C
    BY <2>1, <2>3 DEF Adding
  <2> HIDE DEF E, W, C
  <2>6. Adding' = Adding
    <3>1. stdout \o outbuf \in Seq(Byte)
      BY <1>1, ConcatProperties
    <3>2. (stdout \o outbuf) \o (W \o E) = ((stdout \o outbuf) \o W) \o E
      BY <2>4, <3>1, Joined
    <3>3. (stdout \o outbuf) \o W = stdout \o (outbuf \o W)
      BY <1>1, <2>4, Joined
    <3> QED
      BY <2>5, <3>2, <3>3
  <2> QED
    BY <1>0, <1>4, <2>1, <2>6 DEF Origin, AddsUp, Waiting
<1>13. CASE WriteAll
  <2>1. /\ pc = "encode" /\ codepoints = <<>> /\ pc' = "read"
        /\ stdout' = stdout \o outbuf /\ outbuf' = <<>>
        /\ UNCHANGED <<dest_enc, orig_enc, stdin, inbuf, codepoints, intact>>
    BY <1>13 DEF WriteAll
  <2>2. stdout' \o outbuf' = stdout \o outbuf
    <3>1. stdout \o outbuf \in Seq(Byte)
      BY <1>1, ConcatProperties
    <3> QED
      BY <2>1, <3>1, ConcatEmptySeq
  <2>3. Adding' = Adding
    BY <2>1, <2>2 DEF Adding
  <2> QED
    BY <1>0, <1>4, <2>1, <2>3 DEF Origin, AddsUp, Waiting
<1>14. CASE WriteShort
  <2>1. /\ pc = "encode" /\ pc' = "read" /\ intact' = FALSE
        /\ UNCHANGED <<dest_enc, orig_enc, stdin, inbuf, codepoints>>
    BY <1>14 DEF WriteShort
  <2> QED
    BY <1>0, <1>4, <2>1 DEF Origin, AddsUp, Waiting
<1>15. CASE UNCHANGED vars
  BY <1>0, <1>4, <1>15 DEF vars, Origin, AddsUp, Waiting, Adding
<1> QED
  BY <1>5, <1>6, <1>7, <1>8, <1>9, <1>10, <1>11, <1>12, <1>13, <1>14, <1>15
     DEF Next, TNext, vars


LEMMA TextInvariant == TSpec => []TextInv
<1>1. TInit /\ [][TNext]_<<vars, source>> => []TextInv
  BY InitTextInv, NextTextInv, PTL
<1> QED
  BY <1>1, PTL DEF TSpec, TNext

(* However read() cuts the input, whatever the input is and however large  *)
(* the buffer, what was written and what is waiting add up at every call   *)
(* to the conversion of the whole input.                                   *)
THEOREM PiecesDoNotShow == TSpec => []ChunksDoNotShow
<1>1. TextInv => ChunksDoNotShow
  BY DEF TextInv, AddsUp, Adding, ChunksDoNotShow
<1> QED
  BY <1>1, TextInvariant, PTL

LEMMA TextInvGivesComplete == TextInv => OutputComplete
<1> SUFFICES ASSUME TextInv, pc = "exit", intact, stdin = <<>>, orig_enc # UNKNOWN,
                    Len(source.file) > MAXBOM
             PROVE  stdout = Ideal(source.file, dest_enc)
  BY DEF OutputComplete
<1>1. /\ IInv /\ Origin /\ Adding = Ideal(source.file, dest_enc)
      /\ stdout \in Seq(Byte) /\ inbuf \in Seq(Byte)
  BY DEF TextInv, AddsUp, IInv, TypeOK
<1>2. codepoints = <<>> /\ outbuf = <<>> /\ ReadCodepoint(orig_enc, inbuf).n = 0
  <2>1. Len(stdin) = 0 /\ Len(source.file) \in Nat
    BY <1>1, SourceIsBytes, LenProperties, EmptySeq DEF Origin
  <2>2. Len(stdin) + MAXBOM # Len(source.file)
    <3>1. MAXBOM = 4
      BY RecodeAssumption
    <3>2. \A m, n \in Nat : n > 4 /\ m = 0 => m + 4 # n
      OBVIOUS
    <3> QED
      BY <2>1, <3>1, <3>2
  <2> QED
    BY <2>2 DEF TextInv, Waiting
<1>3. orig_enc \in Encoding /\ dest_enc \in Encoding
  BY <1>1, AddingTypes
<1>4. EncodeAll(dest_enc)[codepoints] = <<>>
  BY <1>2, EncodeAllUnfold, EmptySeq
<1>5. inbuf \o stdin = inbuf
  BY <1>1, ConcatEmptySeq
<1>6. Convert(orig_enc, dest_enc)[inbuf \o stdin] = <<>>
  BY <1>1, <1>2, <1>3, <1>5, ConvertUnfold
<1>7. Adding = stdout
  BY <1>1, <1>2, <1>4, <1>6, ConcatEmptySeq DEF Adding
<1> QED
  BY <1>1, <1>7

(* When main has seen the end of more than four bytes of input nothing     *)
(* that could be converted was left in a buffer.                           *)
THEOREM AllIsWritten == TSpec => []OutputComplete
BY TextInvGivesComplete, TextInvariant, PTL


----------------------------------------------------------------------------
(* The Rust program.                                                       *)

(* Its operators, which module RecodeRust builds on a copy of Codec.       *)
LEMMA RustFacts ==
  /\ Rust!Byte = Byte /\ Rust!Encoding = Encoding /\ Rust!UNKNOWN = UNKNOWN
  /\ Rust!BOM_SIZES = BOM_SIZES
  /\ \A s, n : Rust!Drop(s, n) = Drop(s, n)
  /\ \A bom : Rust!bom_to_enc(bom) = BomToEnc(bom)
  /\ \A enc : Rust!write_bom(enc) = WriteBom(enc)
  /\ \A enc, cp : Rust!write_codepoint(enc, cp) = WriteCodepoint(enc, cp)
  /\ \A enc, b : Rust!OutOfBounds(enc, b) <=>
       (enc \in UTF16 /\ Len(b) < 2) \/ (enc = "UTF8" /\ b = <<>>)
  /\ \A enc, b : Rust!read_codepoint(enc, b) =
       IF enc \in UTF32 THEN IF Len(b) >= 4 THEN ReadUTF32(enc, b) ELSE Nothing
       ELSE IF enc \in UTF16 THEN ReadUTF16(enc, b) ELSE ReadUTF8(b)
<1>1. Rust!Byte = Byte /\ Rust!Encoding = Encoding /\ Rust!UNKNOWN = UNKNOWN
  BY DEF Rust!Byte, Byte, Rust!Encoding, Encoding, Rust!UNKNOWN, UNKNOWN
<1>2. Rust!UTF16 = UTF16 /\ Rust!UTF32 = UTF32 /\ Rust!Nothing = Nothing
  BY DEF Rust!UTF16, UTF16, Rust!UTF32, UTF32, Rust!Nothing, Nothing
<1>3. Rust!BOM_SIZES = BOM_SIZES
  BY <1>1, <1>2 DEF Rust!BOM_SIZES, BOM_SIZES
<1>4. \A s, n : Rust!Drop(s, n) = Drop(s, n)
  BY DEF Rust!Drop, Drop
<1>5. \A enc : Rust!WriteBom(enc) = WriteBom(enc)
  BY DEF Rust!WriteBom, WriteBom
<1>6. \A bom : Rust!bom_to_enc(bom) = BomToEnc(bom)
  BY <1>5 DEF Rust!bom_to_enc, Rust!BomToEnc, BomToEnc, Rust!Starts, Starts
<1>7. \A enc, b : Rust!ReadUTF32(enc, b) = ReadUTF32(enc, b)
  BY DEF Rust!ReadUTF32, ReadUTF32, Rust!Read, Read, Rust!LittleEndian, LittleEndian,
         Rust!Word, Word
<1>8. \A enc, b : Rust!ReadUTF16(enc, b) = ReadUTF16(enc, b)
  BY <1>2 DEF Rust!ReadUTF16, ReadUTF16, Rust!Read, Read, Rust!LittleEndian, LittleEndian,
              Rust!Unit, Unit
<1>9. \A b : Rust!ReadUTF8(b) = ReadUTF8(b)
  BY <1>2 DEF Rust!ReadUTF8, ReadUTF8, Rust!Read, Read, Rust!BitClear, BitClear,
              Rust!Cont, Cont
<1>10. \A enc, u : Rust!WriteUnit(enc, u) = WriteUnit(enc, u)
  BY DEF Rust!WriteUnit, WriteUnit, Rust!LittleEndian, LittleEndian, Rust!ByteOf, ByteOf
<1>11. \A cp, k : Rust!AtMost(cp, k) = AtMost(cp, k)
  BY DEF Rust!AtMost, AtMost
<1>12. \A enc, cp : Rust!write_codepoint(enc, cp) = WriteCodepoint(enc, cp)
  <2>1. \A enc, cp : Rust!WriteUTF32(enc, cp) = WriteUTF32(enc, cp)
    BY DEF Rust!WriteUTF32, WriteUTF32, Rust!LittleEndian, LittleEndian, Rust!ByteOf, ByteOf
  <2>2. \A enc, cp : Rust!WriteUTF16(enc, cp) = WriteUTF16(enc, cp)
    BY <1>10, <1>11 DEF Rust!WriteUTF16, WriteUTF16
  <2>3. \A cp : Rust!WriteUTF8(cp) = WriteUTF8(cp)
    BY <1>11 DEF Rust!WriteUTF8, WriteUTF8
  <2> QED
    BY <1>2, <2>1, <2>2, <2>3 DEF Rust!write_codepoint, Rust!WriteCodepoint, WriteCodepoint
<1>13. \A enc : Rust!write_bom(enc) = WriteBom(enc)
  BY <1>5 DEF Rust!write_bom
<1>14. \A enc, b : Rust!OutOfBounds(enc, b) <=>
       (enc \in UTF16 /\ Len(b) < 2) \/ (enc = "UTF8" /\ b = <<>>)
  BY <1>2 DEF Rust!OutOfBounds
<1>15. \A enc, b : Rust!read_codepoint(enc, b) =
         IF enc \in UTF32 THEN IF Len(b) >= 4 THEN ReadUTF32(enc, b) ELSE Nothing
         ELSE IF enc \in UTF16 THEN ReadUTF16(enc, b) ELSE ReadUTF8(b)
  BY <1>2, <1>7, <1>8, <1>9 DEF Rust!read_codepoint
<1> QED
  BY <1>1, <1>3, <1>4, <1>6, <1>12, <1>13, <1>14, <1>15

LEMMA TwoBytes ==
  ASSUME NEW x \in Byte, NEW y \in Byte
  PROVE  x * 256 + y \in Nat /\ x * 256 + y < 65536
BY DEF Byte

(* A unit of two bytes. *)
LEMMA UnitIsNat ==
  ASSUME NEW enc, NEW b \in Seq(Byte), NEW i \in 1 .. Len(b) - 1
  PROVE  Unit(enc, b, i) \in Nat /\ Unit(enc, b, i) < 65536
<1>1. b[i] \in Byte /\ b[i + 1] \in Byte
  BY ElementOfSeq, LenProperties
<1>2. PICK x \in Byte, y \in Byte : x = b[i] /\ y = b[i + 1]
  BY <1>1
<1>3. Unit(enc, b, i) = x * 256 + y \/ Unit(enc, b, i) = y * 256 + x
  BY <1>2 DEF Unit
<1>4. \A v, w : v \in Byte /\ w \in Byte => v * 256 + w \in Nat /\ v * 256 + w < 65536
  BY TwoBytes
<1>5. x * 256 + y \in Nat /\ x * 256 + y < 65536
  BY <1>4
<1>6. y * 256 + x \in Nat /\ y * 256 + x < 65536
  BY <1>4
<1> QED
  BY <1>3, <1>5, <1>6

(* What its read_codepoint gives, nothing where it would panic. *)
RustRead(enc, b) ==
  IF Rust!OutOfBounds(enc, b) THEN Nothing ELSE Rust!read_codepoint(enc, b)

(* The two read_codepoint differ on two or three bytes of UTF-16 whose     *)
(* unit is above E000.                                                     *)
LastUnit(enc, b) == enc \in UTF16 /\ Len(b) >= 2 /\ Len(b) < 4 /\ Unit(enc, b, 1) > 57344

LEMMA RustReadIsRead ==
  ASSUME NEW enc \in Encoding, NEW b \in Seq(Byte)
  PROVE  RustRead(enc, b) =
           IF LastUnit(enc, b) THEN Read(2, Unit(enc, b, 1)) ELSE ReadCodepoint(enc, b)
<1>1. Len(b) \in Nat
  BY LenProperties
<1>2. b = <<>> <=> Len(b) = 0
  BY EmptySeq
<1>0. /\ Rust!OutOfBounds(enc, b) <=>
       (enc \in UTF16 /\ Len(b) < 2) \/ (enc = "UTF8" /\ b = <<>>)
      /\ Rust!read_codepoint(enc, b) =
           IF enc \in UTF32 THEN IF Len(b) >= 4 THEN ReadUTF32(enc, b) ELSE Nothing
           ELSE IF enc \in UTF16 THEN ReadUTF16(enc, b) ELSE ReadUTF8(b)
  BY RustFacts, Zenon
<1>3. CASE enc \in UTF32
  <2>1. enc \notin UTF16 /\ enc # "UTF8"
    BY <1>3 DEF UTF16, UTF32
  <2>2. ~Rust!OutOfBounds(enc, b) /\ ~LastUnit(enc, b)
    BY <2>1, <1>0 DEF LastUnit
  <2>3. HasCodepoint(enc, b) <=> Len(b) >= 4
    BY <1>3, <2>1 DEF HasCodepoint
  <2> QED
    BY <1>3, <2>2, <2>3, <1>0 DEF RustRead, ReadCodepoint
<1>4. CASE enc \in UTF16
  <2>0. enc \notin UTF32 /\ enc # "UTF8"
    BY <1>4 DEF UTF16, UTF32
  <2>1. HasCodepoint(enc, b) <=> Len(b) >= 4 \/ (Len(b) >= 2 /\ Unit(enc, b, 1) < 55296)
    BY <1>4, <2>0 DEF HasCodepoint
  <2>2. Rust!OutOfBounds(enc, b) <=> Len(b) < 2
    BY <1>4, <2>0, <1>0
  <2>3. Len(b) >= 2 => RustRead(enc, b) = ReadUTF16(enc, b)
    BY <1>1, <1>4, <2>0, <2>2, <1>0 DEF RustRead
  <2>4. Len(b) >= 2 => Unit(enc, b, 1) \in Int
    <3> SUFFICES ASSUME Len(b) >= 2 PROVE Unit(enc, b, 1) \in Nat
      OBVIOUS
    <3>1. 1 \in 1 .. Len(b) - 1
      BY <1>1
    <3> QED
      BY <3>1, UnitIsNat
  <2>5. ReadCodepoint(enc, b) = IF HasCodepoint(enc, b) THEN ReadUTF16(enc, b) ELSE Nothing
    BY <1>4, <2>0 DEF ReadCodepoint
  <2>6. LastUnit(enc, b) <=> Len(b) >= 2 /\ Len(b) < 4 /\ Unit(enc, b, 1) > 57344
    BY <1>4 DEF LastUnit
  <2>7. CASE Len(b) < 2
    <3>1. RustRead(enc, b) = Nothing /\ ReadCodepoint(enc, b) = Nothing /\ ~LastUnit(enc, b)
      BY <1>1, <2>1, <2>2, <2>5, <2>6, <2>7 DEF RustRead
    <3> QED
      BY <3>1
  <2>8. CASE Len(b) >= 4
    <3>1. Len(b) >= 2 /\ ~(Len(b) < 4)
      BY <1>1, <2>8
    <3>2. HasCodepoint(enc, b) /\ ~LastUnit(enc, b)
      BY <2>1, <2>6, <2>8, <3>1
    <3> QED
      BY <2>3, <2>5, <3>1, <3>2
  <2>9. CASE Len(b) >= 2 /\ Len(b) < 4
    <3>1. CASE Unit(enc, b, 1) < 55296
      BY <2>1, <2>3, <2>4, <2>5, <2>6, <2>9, <3>1
    <3>2. CASE Unit(enc, b, 1) > 57344
      <4>1. Len(b) >= 2 /\ LastUnit(enc, b)
        BY <1>1, <2>6, <2>9, <3>2
      <4>2. ReadUTF16(enc, b) = Read(2, Unit(enc, b, 1))
        BY <3>2 DEF ReadUTF16
      <4> QED
        BY <2>3, <4>1, <4>2
    <3>3. CASE ~(Unit(enc, b, 1) < 55296 \/ Unit(enc, b, 1) > 57344)
      <4>0. ~(Len(b) >= 4) /\ Len(b) >= 2
        BY <1>1, <2>9
      <4>1. ReadUTF16(enc, b) = Nothing
        BY <3>3, <4>0 DEF ReadUTF16
      <4> QED
        BY <2>3, <2>5, <2>6, <3>3, <4>0, <4>1
    <3> QED
      BY <3>1, <3>2, <3>3
  <2> QED
    BY <1>1, <2>7, <2>8, <2>9
<1>5. CASE enc \notin UTF32 /\ enc \notin UTF16
  <2>1. enc = "UTF8"
    BY <1>5 DEF Encoding, UTF16, UTF32
  <2>2. Rust!OutOfBounds(enc, b) <=> ~HasCodepoint(enc, b)
    BY <1>1, <1>2, <1>5, <2>1, <1>0 DEF HasCodepoint
  <2>3. ~LastUnit(enc, b)
    BY <1>5 DEF LastUnit
  <2> QED
    BY <1>5, <2>2, <2>3, <1>0 DEF RustRead, ReadCodepoint
<1> QED
  BY <1>3, <1>4, <1>5

LEMMA RustReadBounds ==
  ASSUME NEW enc \in Encoding, NEW b \in Seq(Byte)
  PROVE  /\ RustRead(enc, b).n \in 0 .. 4
         /\ RustRead(enc, b).n <= Len(b)
         /\ RustRead(enc, b).cp \in Int
<1>1. CASE LastUnit(enc, b)
  <2>1. RustRead(enc, b) = Read(2, Unit(enc, b, 1)) /\ Len(b) >= 2 /\ Len(b) < 4
    BY <1>1, RustReadIsRead DEF LastUnit
  <2>2. Unit(enc, b, 1) \in Int
    <3>1. 1 \in 1 .. Len(b) - 1
      BY <2>1
    <3> QED
      BY <3>1, UnitIsNat
  <2>3. \A c : Read(2, c).n = 2 /\ Read(2, c).cp = c
    BY DEF Read
  <2> QED
    BY <2>1, <2>2, <2>3
<1>2. CASE ~LastUnit(enc, b)
  BY <1>2, RustReadIsRead, ReadBounds
<1> QED
  BY <1>1, <1>2

LEMMA RustPrefixStable ==
  ASSUME NEW enc \in Encoding, NEW s \in Seq(Byte), NEW t \in Seq(Byte),
         RustRead(enc, s).n # 0
  PROVE  RustRead(enc, s \o t) = RustRead(enc, s)
<1>1. PICK u : u = s \o t
  OBVIOUS
<1>2. /\ Len(s) \in Nat /\ Len(u) \in Nat /\ Len(u) >= Len(s)
      /\ u \in Seq(Byte) /\ \A i \in 1 .. Len(s) : u[i] = s[i]
  BY <1>1, ConcatProperties, LenProperties
<1>3. CASE LastUnit(enc, s)
  <2>1. enc \in UTF16 /\ enc \notin UTF32 /\ enc # "UTF8" /\ Len(s) >= 2 /\ Len(s) < 4
    BY <1>3 DEF LastUnit, UTF16, UTF32
  <2>2. Unit(enc, u, 1) = Unit(enc, s, 1)
    BY <1>2, <2>1 DEF Unit
  <2>3. ~(Len(u) < 2)
    BY <1>2, <2>1
  <2>4. RustRead(enc, u) = ReadUTF16(enc, u)
    BY <2>1, <2>3, RustFacts DEF RustRead
  <2>5. ReadUTF16(enc, u) = Read(2, Unit(enc, s, 1))
    BY <1>3, <2>2 DEF ReadUTF16, LastUnit
  <2>6. RustRead(enc, s) = Read(2, Unit(enc, s, 1))
    BY <1>3, RustReadIsRead
  <2> QED
    BY <1>1, <2>4, <2>5, <2>6
<1>4. CASE ~LastUnit(enc, s)
  <2>1. RustRead(enc, s) = ReadCodepoint(enc, s)
    BY <1>4, RustReadIsRead
  <2>2. ReadCodepoint(enc, u) = ReadCodepoint(enc, s)
    BY <1>1, <2>1, PrefixStable
  <2>3. ~LastUnit(enc, u)
    <3> SUFFICES ASSUME LastUnit(enc, u) PROVE FALSE
      OBVIOUS
    <3>1. enc \in UTF16 /\ enc \notin UTF32 /\ enc # "UTF8" /\ Len(u) >= 2 /\ Len(u) < 4
      BY DEF LastUnit, UTF16, UTF32
    <3>2. Unit(enc, u, 1) > 57344 /\ Unit(enc, u, 1) \in Int
      <4>1. 1 \in 1 .. Len(u) - 1
        BY <3>1
      <4> QED
        BY <1>2, <4>1, UnitIsNat DEF LastUnit
    <3>3. ~HasCodepoint(enc, u)
      <4>1. ~(Len(u) >= 4) /\ ~(Unit(enc, u, 1) < 55296)
        BY <3>1, <3>2
      <4> QED
        BY <3>1, <4>1 DEF HasCodepoint
    <3> QED
      BY <2>1, <2>2, <3>3 DEF ReadCodepoint, Nothing
  <2>4. RustRead(enc, u) = ReadCodepoint(enc, u)
    BY <1>2, <2>3, RustReadIsRead
  <2> QED
    BY <1>1, <2>1, <2>2, <2>4
<1> QED
  BY <1>3, <1>4

LEMMA RustConvertUnfold ==
  ASSUME NEW from \in Encoding, NEW to, NEW b \in Seq(Byte)
  PROVE  LET r == RustRead(from, b)
         IN  RustConvert(from, to)[b] =
               IF r.n = 0 THEN <<>>
               ELSE WriteCodepoint(to, r.cp) \o RustConvert(from, to)[Drop(b, r.n)]
<1> DEFINE r(s) == RustRead(from, s)
           o(s) == Rust!OutOfBounds(from, s)
           q(s) == Rust!read_codepoint(from, s)
           S == Seq(Byte)
           size == [s \in S |-> Len(s)]
           stop == {s \in S : r(s).n = 0}
           out == [s \in S |-> WriteCodepoint(to, r(s).cp)]
           rest == [s \in S |-> Drop(s, r(s).n)]
           Def(f) == f = [s \in S |-> IF o(s) THEN <<>>
                                      ELSE IF q(s).n = 0 THEN <<>>
                                      ELSE WriteCodepoint(to, q(s).cp) \o f[Drop(s, q(s).n)]]
<1>1. \A s \in S : s \notin stop => rest[s] \in S /\ size[rest[s]] < size[s]
  <2> SUFFICES ASSUME NEW s \in S, r(s).n # 0
               PROVE  Drop(s, r(s).n) \in S /\ Len(Drop(s, r(s).n)) < Len(s)
    OBVIOUS
  <2>1. r(s).n \in 1 .. 4 /\ r(s).n <= Len(s)
    BY RustReadBounds
  <2> HIDE DEF r
  <2>2. Drop(s, r(s).n) \in Seq(Byte) /\ Len(Drop(s, r(s).n)) = Len(s) - r(s).n
    BY <2>1, Consumed
  <2> QED
    BY <2>1, <2>2, LenProperties
<1>2. \E g : Unfolds(g, S, stop, out, rest)
  <2>1. size \in [S -> Nat]
    BY LenIsSize
  <2> HIDE DEF S, size, stop, out, rest
  <2> QED
    BY <1>1, <2>1, UnfoldingExists
<1>3. \A s : /\ o(s) => r(s).n = 0
             /\ ~o(s) => r(s) = q(s)
  <2>1. Nothing.n = 0
    BY DEF Nothing
  <2> QED
    BY <2>1 DEF RustRead
<1>4. \E g : Def(g)
  <2>1. PICK g : Unfolds(g, S, stop, out, rest)
    BY <1>2
  <2>2. \A s \in S : /\ s \in stop <=> r(s).n = 0
                     /\ out[s] = WriteCodepoint(to, r(s).cp)
                     /\ rest[s] = Drop(s, r(s).n)
    OBVIOUS
  <2> HIDE DEF r, o, q, S, stop, out, rest
  <2>3. g = [s \in S |-> IF s \in stop THEN <<>> ELSE out[s] \o g[rest[s]]]
    BY <2>1 DEF Unfolds
  <2>4. \A s \in S : (IF s \in stop THEN <<>> ELSE out[s] \o g[rest[s]])
                     = IF o(s) THEN <<>>
                       ELSE IF q(s).n = 0 THEN <<>>
                       ELSE WriteCodepoint(to, q(s).cp) \o g[Drop(s, q(s).n)]
    BY <1>3, <2>2
  <2>5. Def(g)
    BY <2>3, <2>4
  <2> QED
    BY <2>5
<1>5. RustConvert(from, to) = CHOOSE f : Def(f)
  <2>1. /\ \A enc, cp : Rust!write_codepoint(enc, cp) = WriteCodepoint(enc, cp)
    BY RustFacts
  <2> QED
    BY <2>1, Zenon DEF RustConvert
<1>6. Def(RustConvert(from, to))
  <2> HIDE DEF Def
  <2> QED
    BY <1>4, <1>5
<1> HIDE DEF r, o, q
<1> QED
  BY <1>3, <1>6 DEF r


LEMMA RustConvertType ==
  ASSUME NEW from \in Encoding, NEW to \in Encoding, NEW b \in Seq(Byte)
  PROVE  RustConvert(from, to)[b] \in Seq(Byte)
<1> DEFINE T == {s \in Seq(Byte) : RustConvert(from, to)[s] \in Seq(Byte)}
<1>1. ASSUME NEW s \in Seq(Byte), \A u \in Seq(Byte) : Len(u) < Len(s) => u \in T
      PROVE  s \in T
  <2>1. PICK r : r = RustRead(from, s)
    OBVIOUS
  <2>2. r.n \in 0 .. 4 /\ r.n <= Len(s) /\ r.cp \in Int
    BY <2>1, RustReadBounds
  <2>3. RustConvert(from, to)[s] =
          IF r.n = 0 THEN <<>>
          ELSE WriteCodepoint(to, r.cp) \o RustConvert(from, to)[Drop(s, r.n)]
    BY <2>1, RustConvertUnfold
  <2>4. CASE r.n = 0
    BY <2>3, <2>4, EmptySeq
  <2>5. CASE r.n # 0
    <3>1. Drop(s, r.n) \in Seq(Byte) /\ Len(Drop(s, r.n)) = Len(s) - r.n
      BY <2>2, <2>5, Consumed
    <3>2. Drop(s, r.n) \in T
      BY <1>1, <2>2, <2>5, <3>1, LenProperties
    <3>3. WriteCodepoint(to, r.cp) \in Seq(Byte)
      BY <2>2, WriteBounds
    <3> QED
      BY <2>3, <2>5, <3>2, <3>3, ConcatProperties
  <2> QED
    BY <2>4, <2>5
<1> HIDE DEF T
<1>2. Seq(Byte) \subseteq T
  BY <1>1, LengthInduction
<1> QED
  BY <1>2 DEF T

LEMMA RustConvertJoin ==
  ASSUME NEW from \in Encoding, NEW to \in Encoding,
         NEW s \in Seq(Byte), NEW t \in Seq(Byte), RustRead(from, s).n # 0
  PROVE  RustConvert(from, to)[s \o t] =
           WriteCodepoint(to, RustRead(from, s).cp)
             \o RustConvert(from, to)[Drop(s, RustRead(from, s).n) \o t]
<1>0. PICK r : r = RustRead(from, s)
  OBVIOUS
<1>1. r = RustRead(from, s \o t) /\ r.n # 0
  BY <1>0, RustPrefixStable
<1>2. s \o t \in Seq(Byte)
  BY ConcatProperties
<1>3. RustConvert(from, to)[s \o t] =
        WriteCodepoint(to, r.cp) \o RustConvert(from, to)[Drop(s \o t, r.n)]
  BY <1>1, <1>2, RustConvertUnfold
<1>4. r.n \in 0 .. Len(s)
  BY <1>0, RustReadBounds, LenProperties
<1>5. Drop(s \o t, r.n) = Drop(s, r.n) \o t
  BY <1>4, DropOfJoin
<1> QED
  BY <1>0, <1>3, <1>5

RustIdeal(file, to) ==
  LET from == BomToEnc(SubSeq(file, 1, MAXBOM))
  IN  WriteBom(to) \o RustConvert(from, to)[Drop(file, BOM_SIZES[from])]

RustTypes ==
  /\ rust_pc \in {"args", "bom", "mark", "read", "recode", "exit", "error",
                  "mark panic", "index panic", "write panic"}
  /\ rust_orig \in Encoding \union {UNKNOWN}
  /\ rust_inbuf \in Seq(Byte) /\ Len(rust_inbuf) <= NBUF
  /\ rust_stdin \in Seq(Byte) /\ rust_stdout \in Seq(Byte)

LEMMA RustTypesAreTypeOK == RustTypes <=> Rust!TypeOK
<1>1. Rust!Byte = Byte /\ Rust!Encoding = Encoding /\ Rust!UNKNOWN = UNKNOWN
  BY RustFacts
<1>2. {"args", "bom", "mark", "read", "recode"} \union Rust!Ended
        = {"args", "bom", "mark", "read", "recode", "exit", "error",
           "mark panic", "index panic", "write panic"}
  BY DEF Rust!Ended
<1> QED
  BY <1>1, <1>2 DEF RustTypes, Rust!TypeOK

(* The program as far as it goes, one call after the other. *)
RustOrigin ==
  /\ rust_pc \in {"args", "bom"} =>
       rust_inbuf = <<>> /\ rust_stdout = <<>> /\ rust_stdin = source.file
  /\ rust_pc \in {"bom", "mark", "read", "recode", "exit", "index panic"} =>
       dest_enc \in Encoding
  /\ rust_pc \in {"mark", "read", "recode", "exit", "index panic"} =>
       /\ Len(source.file) >= MAXBOM
       /\ rust_orig = BomToEnc(SubSeq(source.file, 1, MAXBOM))

RustAddsUp ==
  /\ rust_pc = "mark" =>
       /\ rust_stdout = <<>>
       /\ rust_inbuf \o rust_stdin = Drop(source.file, BOM_SIZES[rust_orig])
  /\ rust_pc \in {"read", "recode", "exit", "index panic"} =>
       rust_stdout \o RustConvert(rust_orig, dest_enc)[rust_inbuf \o rust_stdin]
       = RustIdeal(source.file, dest_enc)

(* Between two rounds of the loop at most one byte waits that could be     *)
(* converted, none of it a code point.                                     *)
RustWaiting ==
  rust_pc \in {"mark", "read", "exit", "index panic"} /\ Len(rust_inbuf) < 2
    => RustRead(rust_orig, rust_inbuf).n = 0

RustInv == RustTypes /\ RustOrigin /\ RustAddsUp /\ RustWaiting

LEMMA InitRustInv == BInit => RustInv
<1> SUFFICES ASSUME BInit PROVE RustInv
  OBVIOUS
<1>1. source.file \in Seq(Byte)
  BY SourceIsBytes DEF BInit, TInit
<1>2. rust_pc = "args" /\ rust_orig = UNKNOWN /\ rust_inbuf = <<>> /\ rust_stdout = <<>>
      /\ rust_stdin = source.file
  BY DEF BInit, Rust!Init, Rust!UNKNOWN, UNKNOWN
<1>3. <<>> \in Seq(Byte) /\ Len(<<>>) = 0 /\ NBUF \in Nat
  BY EmptySeq, RecodeAssumption
<1>4. RustTypes
  BY <1>1, <1>2, <1>3 DEF RustTypes
<1> QED
  BY <1>2, <1>4 DEF RustInv, RustOrigin, RustAddsUp, RustWaiting

LEMMA RustStepInv ==
  ASSUME RustInv, source \in Sources, Rust!Next, UNCHANGED <<source, vars>>
  PROVE  RustInv'
<1>1. RustTypes /\ RustOrigin /\ RustAddsUp /\ RustWaiting
  BY DEF RustInv
<1>2. /\ rust_inbuf \in Seq(Byte) /\ rust_stdin \in Seq(Byte) /\ rust_stdout \in Seq(Byte)
      /\ Len(rust_inbuf) <= NBUF
  BY <1>1 DEF RustTypes
<1>3. Len(rust_inbuf) \in Nat /\ Len(rust_stdin) \in Nat
  BY <1>2, LenProperties
<1>4. MAXBOM = 4 /\ NBUF \in Nat /\ NBUF > 4
  BY RecodeAssumption
<1>5. source' = source /\ dest_enc' = dest_enc
  BY DEF vars
<1>6. /\ Rust!BOM_SIZES = BOM_SIZES /\ Rust!Encoding = Encoding
      /\ \A s, n : Rust!Drop(s, n) = Drop(s, n)
      /\ \A bom : Rust!bom_to_enc(bom) = BomToEnc(bom)
      /\ \A enc : Rust!write_bom(enc) = WriteBom(enc)
      /\ \A enc, cp : Rust!write_codepoint(enc, cp) = WriteCodepoint(enc, cp)
  BY RustFacts
<1>7. CASE Rust!ParseArgs
  <2>1. /\ rust_pc = "args" /\ rust_pc' = IF dest_enc \in Encoding THEN "bom" ELSE "error"
        /\ UNCHANGED <<rust_orig, rust_stdin, rust_inbuf, rust_stdout>>
    BY <1>6, <1>7 DEF Rust!ParseArgs
  <2> QED
    BY <1>1, <1>5, <2>1 DEF RustInv, RustTypes, RustOrigin, RustAddsUp, RustWaiting
<1>8. CASE Rust!ReadBom
  <2> DEFINE bom == SubSeq(rust_stdin, 1, 4)
             n == BOM_SIZES[BomToEnc(bom)]
  <2>1. /\ rust_pc = "bom" /\ rust_pc' = "mark" /\ Len(rust_stdin) >= 4
        /\ rust_orig' = BomToEnc(bom) /\ rust_inbuf' = Drop(bom, n)
        /\ rust_stdin' = Drop(rust_stdin, 4)
        /\ rust_stdin = source.file /\ rust_stdout = <<>> /\ rust_stdout' = rust_stdout
        /\ dest_enc \in Encoding
    BY <1>1, <1>4, <1>6, <1>8 DEF Rust!ReadBom, RustOrigin
  <2>2. bom \in Seq(Byte) /\ Len(bom) = 4 /\ Drop(rust_stdin, 4) \in Seq(Byte)
    <3>1. 4 \in 0 .. Len(rust_stdin)
      BY <1>3, <2>1
    <3> QED
      BY <1>2, <3>1, Pieces
  <2>3. BomToEnc(bom) \in Encoding /\ n \in 0 .. 4
    <3>1. BomToEnc(bom) \in Encoding
      BY DEF BomToEnc, Encoding
    <3> QED
      BY <3>1, BomBounds
  <2>4. rust_inbuf' \o rust_stdin' = Drop(rust_stdin, n)
    <3>0. 4 \in 0 .. Len(rust_stdin)
      BY <1>3, <2>1
    <3>1. Drop(bom \o Drop(rust_stdin, 4), n) = Drop(bom, n) \o Drop(rust_stdin, 4)
      BY <2>2, <2>3, DropOfJoin
    <3>2. bom \o Drop(rust_stdin, 4) = rust_stdin
      BY <1>2, <3>0, TakeAndDrop
    <3> QED
      BY <2>1, <3>1, <3>2
  <2>5. Drop(bom, n) \in Seq(Byte) /\ Len(Drop(bom, n)) = 4 - n
    BY <2>2, <2>3, Pieces
  <2>6. Len(rust_inbuf') < 2 => RustRead(rust_orig', rust_inbuf').n = 0
    <3>1. n = 0 \/ n = 2 \/ n = 4
      BY <2>3 DEF BOM_SIZES
    <3>2. RustRead(BomToEnc(bom), Drop(bom, n)).n \in 0 .. 4
          /\ RustRead(BomToEnc(bom), Drop(bom, n)).n <= Len(Drop(bom, n))
      BY <2>3, <2>5, RustReadBounds
    <3> HIDE DEF bom, n
    <3>3. CASE n = 4
      BY <2>1, <2>5, <3>2, <3>3
    <3>4. CASE n = 0 \/ n = 2
      BY <2>1, <2>5, <3>4
    <3> QED
      BY <3>1, <3>3, <3>4
  <2> HIDE DEF bom, n
  <2>7. RustTypes'
    BY <1>2, <1>4, <2>1, <2>2, <2>3, <2>5 DEF RustTypes
  <2>8. RustOrigin'
    BY <1>4, <1>5, <2>1 DEF RustOrigin, bom
  <2>9. RustAddsUp'
    BY <1>5, <2>1, <2>4 DEF RustAddsUp, n
  <2>10. RustWaiting'
    BY <2>6 DEF RustWaiting
  <2> QED
    BY <2>7, <2>8, <2>9, <2>10 DEF RustInv
<1>9. CASE Rust!ReadBomFails \/ Rust!WriteFails
  <2>1. /\ rust_pc' \in {"mark panic", "write panic"}
        /\ UNCHANGED <<rust_orig, rust_stdin, rust_inbuf, rust_stdout>>
    BY <1>9 DEF Rust!ReadBomFails, Rust!WriteFails
  <2> QED
    BY <1>1, <2>1 DEF RustInv, RustTypes, RustOrigin, RustAddsUp, RustWaiting
<1>10. CASE Rust!WriteMark
  <2>1. /\ rust_pc = "mark" /\ rust_pc' = "read"
        /\ rust_stdout' = rust_stdout \o WriteBom(dest_enc)
        /\ UNCHANGED <<rust_orig, rust_stdin, rust_inbuf>>
    BY <1>6, <1>10 DEF Rust!WriteMark
  <2>2. /\ dest_enc \in Encoding /\ rust_stdout = <<>>
        /\ rust_inbuf \o rust_stdin = Drop(source.file, BOM_SIZES[rust_orig])
        /\ rust_orig = BomToEnc(SubSeq(source.file, 1, MAXBOM))
    BY <1>1, <2>1 DEF RustOrigin, RustAddsUp
  <2>3. WriteBom(dest_enc) \in Seq(Byte)
    BY <2>2, BomBounds
  <2>4. rust_stdout' = WriteBom(dest_enc)
    BY <2>1, <2>2, <2>3, ConcatEmptySeq
  <2>5. RustAddsUp'
    BY <1>5, <2>1, <2>2, <2>4 DEF RustAddsUp, RustIdeal
  <2>6. RustTypes'
    BY <1>1, <2>1, <2>3, <2>4 DEF RustTypes
  <2> QED
    BY <1>1, <1>5, <2>1, <2>5, <2>6 DEF RustInv, RustOrigin, RustWaiting
<1>11. CASE Rust!ReadSome
  <2>1. PICK k \in 1 .. Rust!Min2(NBUF - Len(rust_inbuf), Len(rust_stdin)) :
          /\ rust_inbuf' = rust_inbuf \o SubSeq(rust_stdin, 1, k)
          /\ rust_stdin' = Drop(rust_stdin, k)
    BY <1>6, <1>11 DEF Rust!ReadSome
  <2>2. k \in 0 .. Len(rust_stdin) /\ Len(rust_inbuf) + k <= NBUF
    BY <1>3, <1>4, <2>1 DEF Rust!Min2
  <2>3. /\ SubSeq(rust_stdin, 1, k) \in Seq(Byte) /\ Drop(rust_stdin, k) \in Seq(Byte)
        /\ Len(SubSeq(rust_stdin, 1, k)) = k
        /\ SubSeq(rust_stdin, 1, k) \o Drop(rust_stdin, k) = rust_stdin
    BY <1>2, <2>2, Pieces, TakeAndDrop
  <2>4. rust_inbuf' \o rust_stdin' = rust_inbuf \o rust_stdin
    <3>1. (rust_inbuf \o SubSeq(rust_stdin, 1, k)) \o Drop(rust_stdin, k)
            = rust_inbuf \o (SubSeq(rust_stdin, 1, k) \o Drop(rust_stdin, k))
      BY <1>2, <2>3, Joined
    <3> QED
      BY <2>1, <2>3, <3>1
  <2>5. /\ rust_pc = "read" /\ rust_pc' = "recode"
        /\ UNCHANGED <<rust_orig, rust_stdout>>
    BY <1>11 DEF Rust!ReadSome
  <2>6. /\ rust_inbuf \o SubSeq(rust_stdin, 1, k) \in Seq(Byte)
        /\ Len(rust_inbuf \o SubSeq(rust_stdin, 1, k))
             = Len(rust_inbuf) + Len(SubSeq(rust_stdin, 1, k))
    BY <1>2, <2>3, ConcatProperties
  <2>7. rust_inbuf' \in Seq(Byte) /\ Len(rust_inbuf') <= NBUF /\ rust_stdin' \in Seq(Byte)
    BY <2>1, <2>2, <2>3, <2>6
  <2>8. RustTypes'
    BY <1>1, <2>5, <2>7 DEF RustTypes
  <2>9. RustAddsUp'
    BY <1>1, <1>5, <2>4, <2>5 DEF RustAddsUp
  <2> QED
    BY <1>1, <1>5, <2>5, <2>8, <2>9 DEF RustInv, RustOrigin, RustWaiting
<1>12. CASE Rust!ReadNothing \/ Rust!ReadFails
  <2>1. /\ rust_pc = "read" /\ rust_pc' \in {"exit", "recode"}
        /\ UNCHANGED <<rust_orig, rust_stdin, rust_inbuf, rust_stdout>>
    BY <1>12 DEF Rust!ReadNothing, Rust!ReadFails
  <2> QED
    BY <1>1, <1>5, <2>1 DEF RustInv, RustTypes, RustOrigin, RustAddsUp, RustWaiting
<1>13. CASE Rust!Recode
  <2>1. PICK r : r = RustRead(rust_orig, rust_inbuf)
    OBVIOUS
  <2>2. /\ rust_pc = "recode" /\ rust_pc' = "recode" /\ r.n > 0
        /\ rust_inbuf' = Drop(rust_inbuf, r.n)
        /\ rust_stdout' = rust_stdout \o WriteCodepoint(dest_enc, r.cp)
        /\ UNCHANGED <<rust_orig, rust_stdin>>
    BY <1>6, <1>13, <2>1 DEF Rust!Recode, RustRead
  <2>3. rust_orig \in Encoding /\ dest_enc \in Encoding
    BY <1>1, <2>2, BomBounds DEF RustOrigin
  <2>4. r.n # 0 /\ r.cp \in Int /\ r.n \in 0 .. 4 /\ r.n <= Len(rust_inbuf)
    BY <1>2, <2>1, <2>2, <2>3, RustReadBounds
  <2> DEFINE W == WriteCodepoint(dest_enc, r.cp)
             d == Drop(rust_inbuf, r.n)
             C == RustConvert(rust_orig, dest_enc)[d \o rust_stdin]
  <2>5. d \in Seq(Byte) /\ Len(d) = Len(rust_inbuf) - r.n
    <3>1. r.n \in 1 .. 4
      BY <2>4
    <3> QED
      BY <1>2, <2>3, <2>4, <3>1, Consumed
  <2>6. RustConvert(rust_orig, dest_enc)[rust_inbuf \o rust_stdin] = W \o C
    <3>1. RustRead(rust_orig, rust_inbuf).n # 0
      BY <2>1, <2>4
    <3>2. RustConvert(rust_orig, dest_enc)[rust_inbuf \o rust_stdin]
            = WriteCodepoint(dest_enc, RustRead(rust_orig, rust_inbuf).cp)
                \o RustConvert(rust_orig, dest_enc)
                     [Drop(rust_inbuf, RustRead(rust_orig, rust_inbuf).n) \o rust_stdin]
      BY <1>2, <2>3, <3>1, RustConvertJoin
    <3> QED
      BY <2>1, <3>2
  <2>7. W \in Seq(Byte) /\ C \in Seq(Byte)
    <3>1. d \o rust_stdin \in Seq(Byte)
      BY <1>2, <2>5, ConcatProperties
    <3> HIDE DEF d
    <3> QED
      BY <2>3, <2>4, <3>1, WriteBounds, RustConvertType
  <2>8. rust_stdout \o (W \o C) = RustIdeal(source.file, dest_enc)
    BY <1>1, <2>2, <2>6 DEF RustAddsUp
  <2>9. rust_stdout' \o RustConvert(rust_orig, dest_enc)[rust_inbuf' \o rust_stdin']
          = (rust_stdout \o W) \o C
    BY <2>2
  <2>10. rust_stdout \o W \in Seq(Byte)
    BY <1>2, <2>7, ConcatProperties
  <2>11. (rust_stdout \o W) \o C = rust_stdout \o (W \o C)
    BY <1>2, <2>7, Joined
  <2>12. RustTypes'
    <3>1. rust_inbuf' \in Seq(Byte) /\ Len(rust_inbuf') <= NBUF
      BY <1>2, <1>3, <1>4, <2>2, <2>4, <2>5
    <3> QED
      BY <1>1, <2>2, <2>10, <3>1 DEF RustTypes
  <2> HIDE DEF W, d, C
  <2>13. RustAddsUp'
    BY <1>5, <2>2, <2>8, <2>9, <2>11 DEF RustAddsUp
  <2> QED
    BY <1>1, <1>5, <2>2, <2>12, <2>13 DEF RustInv, RustOrigin, RustWaiting
<1>14. CASE Rust!RecodeEnd \/ Rust!RecodePanics
  <2>1. /\ rust_pc = "recode" /\ rust_pc' \in {"read", "index panic"}
        /\ UNCHANGED <<rust_orig, rust_stdin, rust_inbuf, rust_stdout>>
    BY <1>14 DEF Rust!RecodeEnd, Rust!RecodePanics
  <2>2. RustRead(rust_orig, rust_inbuf).n = 0
    BY <1>14 DEF Rust!RecodeEnd, Rust!RecodePanics, RustRead, Nothing
  <2> QED
    BY <1>1, <1>5, <2>1, <2>2 DEF RustInv, RustTypes, RustOrigin, RustAddsUp, RustWaiting
<1> QED
  BY <1>7, <1>8, <1>9, <1>10, <1>11, <1>12, <1>13, <1>14 DEF Rust!Next

(* The two programs side by side. *)
BInv == TextInv /\ RustInv

BVars == <<vars, source, program, rust_vars>>

LEMMA InitBInv == BInit => BInv
BY InitTextInv, InitRustInv DEF BInit, BInv

(* No call of the C program changes its argument. *)
LEMMA ArgumentStays == Next => dest_enc' = dest_enc
BY DEF Next, ParseArgs, ReadBom, ReadBomShort, TakeBom, ReadSome, ReadEnd, ReadFails,
       Decode, DecodeEnd, Encode, WriteAll, WriteShort

LEMMA NextBInv == BInv /\ [CNext \/ RustNext]_BVars => BInv'
<1> SUFFICES ASSUME BInv, [CNext \/ RustNext]_BVars PROVE BInv'
  OBVIOUS
<1>1. TextInv /\ RustInv /\ source \in Sources
  BY DEF BInv, TextInv, Origin
<1>2. CASE CNext
  <2>1. TNext /\ UNCHANGED <<source, rust_vars>> /\ dest_enc' = dest_enc
    BY <1>2, ArgumentStays DEF CNext, TNext
  <2>2. TextInv'
    BY <1>1, <2>1, NextTextInv
  <2>3. RustInv'
    BY <1>1, <2>1 DEF RustInv, RustTypes, RustOrigin, RustAddsUp, RustWaiting, rust_vars
  <2> QED
    BY <2>2, <2>3 DEF BInv
<1>3. CASE RustNext
  <2>1. Rust!Next /\ UNCHANGED <<source, vars>>
    BY <1>3 DEF RustNext
  <2>2. TextInv'
    BY <1>1, <2>1, NextTextInv
  <2>3. RustInv'
    BY <1>1, <2>1, RustStepInv
  <2> QED
    BY <2>2, <2>3 DEF BInv
<1>4. CASE UNCHANGED BVars
  <2>1. UNCHANGED <<vars, source>> /\ UNCHANGED <<source, rust_vars>> /\ dest_enc' = dest_enc
    BY <1>4 DEF BVars, vars
  <2>2. TextInv'
    BY <1>1, <2>1, NextTextInv
  <2>3. RustInv'
    BY <1>1, <2>1 DEF RustInv, RustTypes, RustOrigin, RustAddsUp, RustWaiting, rust_vars
  <2> QED
    BY <2>2, <2>3 DEF BInv
<1> QED
  BY <1>2, <1>3, <1>4

LEMMA BothInvariant == BSpec => []BInv
<1>1. BInv /\ [CNext \/ RustNext]_<<vars, source, program, rust_vars>> => BInv'
  BY NextBInv DEF BVars
<1> QED
  BY InitBInv, <1>1, PTL DEF BSpec

(* However the reads of main.rs cut the input, its buffer holds what it    *)
(* reads, and what it wrote and what it has still to convert add up to the *)
(* conversion of the whole file by its functions.                          *)
THEOREM RustPiecesDoNotShow == BSpec => []RustChunksDoNotShow
<1>1. BInv => RustChunksDoNotShow
  <2> SUFFICES ASSUME BInv, rust_pc \in {"read", "recode", "index panic"}
               PROVE  rust_stdout \o RustConvert(rust_orig, dest_enc)[rust_inbuf \o rust_stdin]
                      = WriteBom(dest_enc)
                          \o RustConvert(rust_orig, dest_enc)
                               [Drop(source.file, BOM_SIZES[rust_orig])]
    BY RustTypesAreTypeOK DEF BInv, RustInv, RustChunksDoNotShow
  <2>1. rust_orig = BomToEnc(SubSeq(source.file, 1, MAXBOM))
    BY DEF BInv, RustInv, RustOrigin
  <2>2. rust_stdout \o RustConvert(rust_orig, dest_enc)[rust_inbuf \o rust_stdin]
        = RustIdeal(source.file, dest_enc)
    BY DEF BInv, RustInv, RustAddsUp
  <2> QED
    BY <2>1, <2>2 DEF RustIdeal
<1> QED
  BY <1>1, BothInvariant, PTL

(* What the Rust program has not converted. *)
Left == rust_inbuf \o rust_stdin

(* A step that leaves it in its loop, or at an end of it, writes the mark, *)
(* moves bytes it does not convert, or converts the first code point left. *)
LEMMA RustSteps ==
  ASSUME BInv, [CNext \/ RustNext]_BVars, Converting'
  PROVE  /\ source' = source /\ dest_enc' = dest_enc /\ rust_orig' = rust_orig
         /\ \/ /\ rust_pc = "mark"
               /\ Left' = Left /\ rust_stdout' = WriteBom(dest_enc)
            \/ /\ Converting
               /\ Left' = Left /\ rust_stdout' = rust_stdout
            \/ /\ Converting
               /\ RustRead(rust_orig, Left).n # 0
               /\ Left' = Drop(Left, RustRead(rust_orig, Left).n)
               /\ rust_stdout' =
                    rust_stdout \o WriteCodepoint(dest_enc, RustRead(rust_orig, Left).cp)
<1>1. RustTypes /\ RustOrigin /\ RustAddsUp
  BY DEF BInv, RustInv
<1>2. /\ rust_inbuf \in Seq(Byte) /\ rust_stdin \in Seq(Byte) /\ rust_stdout \in Seq(Byte)
      /\ Len(rust_inbuf) \in Nat /\ Len(rust_stdin) \in Nat /\ NBUF \in Nat
  BY <1>1, LenProperties, RecodeAssumption DEF RustTypes
<1>3. /\ \A s, n : Rust!Drop(s, n) = Drop(s, n)
      /\ \A enc : Rust!write_bom(enc) = WriteBom(enc)
      /\ \A enc, cp : Rust!write_codepoint(enc, cp) = WriteCodepoint(enc, cp)
  BY RustFacts
<1>4. CASE CNext \/ UNCHANGED BVars
  <2>1. UNCHANGED <<source, rust_vars>> /\ dest_enc' = dest_enc
    BY <1>4, ArgumentStays DEF CNext, BVars, vars
  <2>2. Converting /\ Left' = Left /\ rust_stdout' = rust_stdout /\ rust_orig' = rust_orig
    BY <2>1 DEF Converting, Left, rust_vars
  <2> QED
    BY <2>1, <2>2
<1>5. CASE RustNext
  <2>0. source' = source /\ dest_enc' = dest_enc
    BY <1>5 DEF RustNext, vars
  <2>1. CASE Rust!ParseArgs \/ Rust!ReadBom \/ Rust!ReadBomFails \/ Rust!WriteFails
    BY <2>1 DEF Converting, Rust!ParseArgs, Rust!ReadBom, Rust!ReadBomFails, Rust!WriteFails
  <2>2. CASE Rust!WriteMark
    <3>1. /\ rust_pc = "mark" /\ rust_stdout' = rust_stdout \o WriteBom(dest_enc)
          /\ UNCHANGED <<rust_orig, rust_stdin, rust_inbuf>>
      BY <1>3, <2>2 DEF Rust!WriteMark
    <3>2. dest_enc \in Encoding /\ rust_stdout = <<>>
      BY <1>1, <3>1 DEF RustOrigin, RustAddsUp
    <3>3. WriteBom(dest_enc) \in Seq(Byte)
      BY <3>2, BomBounds
    <3>4. rust_stdout' = WriteBom(dest_enc)
      BY <3>1, <3>2, <3>3, ConcatEmptySeq
    <3> QED
      BY <2>0, <3>1, <3>4 DEF Left
  <2>3. CASE Rust!ReadSome
    <3>1. PICK k \in 1 .. Rust!Min2(NBUF - Len(rust_inbuf), Len(rust_stdin)) :
            /\ rust_inbuf' = rust_inbuf \o SubSeq(rust_stdin, 1, k)
            /\ rust_stdin' = Drop(rust_stdin, k)
      BY <1>3, <2>3 DEF Rust!ReadSome
    <3>2. k \in 0 .. Len(rust_stdin)
      BY <1>2, <3>1 DEF Rust!Min2
    <3>3. /\ SubSeq(rust_stdin, 1, k) \in Seq(Byte) /\ Drop(rust_stdin, k) \in Seq(Byte)
          /\ SubSeq(rust_stdin, 1, k) \o Drop(rust_stdin, k) = rust_stdin
      BY <1>2, <3>2, Pieces, TakeAndDrop
    <3>4. (rust_inbuf \o SubSeq(rust_stdin, 1, k)) \o Drop(rust_stdin, k)
            = rust_inbuf \o (SubSeq(rust_stdin, 1, k) \o Drop(rust_stdin, k))
      BY <1>2, <3>3, Joined
    <3>5. Left' = Left
      BY <3>1, <3>3, <3>4 DEF Left
    <3>6. rust_pc = "read" /\ UNCHANGED <<rust_orig, rust_stdout>>
      BY <2>3 DEF Rust!ReadSome
    <3> QED
      BY <2>0, <3>5, <3>6 DEF Converting
  <2>4. CASE Rust!ReadNothing \/ Rust!ReadFails \/ Rust!RecodeEnd \/ Rust!RecodePanics
    <3>1. /\ rust_pc \in {"read", "recode"}
          /\ UNCHANGED <<rust_orig, rust_stdin, rust_inbuf, rust_stdout>>
      BY <2>4 DEF Rust!ReadNothing, Rust!ReadFails, Rust!RecodeEnd, Rust!RecodePanics
    <3> QED
      BY <2>0, <3>1 DEF Left, Converting
  <2>5. CASE Rust!Recode
    <3>1. PICK r : r = RustRead(rust_orig, rust_inbuf)
      OBVIOUS
    <3>2. /\ rust_pc = "recode" /\ r.n > 0
          /\ rust_inbuf' = Drop(rust_inbuf, r.n)
          /\ rust_stdout' = rust_stdout \o WriteCodepoint(dest_enc, r.cp)
          /\ UNCHANGED <<rust_orig, rust_stdin>>
      BY <1>3, <2>5, <3>1 DEF Rust!Recode, RustRead
    <3>3. rust_orig \in Encoding
      BY <1>1, <3>2, BomBounds DEF RustOrigin
    <3>4. r.n # 0 /\ r.n \in 0 .. Len(rust_inbuf)
      <4>1. r.n \in 0 .. 4 /\ r.n <= Len(rust_inbuf)
        BY <1>2, <3>1, <3>3, RustReadBounds
      <4> QED
        BY <1>2, <3>2, <4>1
    <3>5. RustRead(rust_orig, Left) = r
      BY <1>2, <3>1, <3>3, <3>4, RustPrefixStable DEF Left
    <3>6. Drop(Left, r.n) = Drop(rust_inbuf, r.n) \o rust_stdin
      BY <1>2, <3>4, DropOfJoin DEF Left
    <3>7. Left' = Drop(Left, r.n)
      <4>1. Left' = rust_inbuf' \o rust_stdin'
        BY DEF Left
      <4> QED
        BY <3>2, <3>6, <4>1
    <3>8. Converting
      BY <3>2 DEF Converting
    <3> HIDE DEF Left
    <3> QED
      BY <2>0, <3>2, <3>4, <3>5, <3>7, <3>8
  <2> QED
    BY <1>5, <2>1, <2>2, <2>3, <2>4, <2>5 DEF RustNext, Rust!Next
<1> QED
  BY <1>4, <1>5

LEMMA LeftIsBytes == BInv => Left \in Seq(Byte)
BY ConcatProperties DEF BInv, RustInv, RustTypes, Left

(* What it knows of the file when it writes its mark and after.            *)
LEMMA RustKnows ==
  ASSUME BInv, rust_pc = "mark" \/ Converting
  PROVE  /\ dest_enc \in Encoding /\ source \in Sources
         /\ source.file \in Seq(Byte) /\ Len(source.file) \in Nat /\ Len(source.file) >= 4
         /\ rust_orig = BomToEnc(SubSeq(source.file, 1, MAXBOM)) /\ rust_orig \in Encoding
         /\ rust_pc = "mark" => Left = Drop(source.file, BOM_SIZES[rust_orig])
<1>1. RustOrigin /\ RustAddsUp /\ source \in Sources
  BY DEF BInv, RustInv, TextInv, Origin
<1>2. /\ dest_enc \in Encoding /\ Len(source.file) >= MAXBOM
      /\ rust_orig = BomToEnc(SubSeq(source.file, 1, MAXBOM))
  BY <1>1 DEF RustOrigin, Converting
<1>3. rust_orig \in Encoding
  BY <1>2 DEF BomToEnc, Encoding
<1>4. source.file \in Seq(Byte) /\ Len(source.file) \in Nat
  BY <1>1, SourceIsBytes, LenProperties
<1>5. rust_pc = "mark" => Left = Drop(source.file, BOM_SIZES[rust_orig])
  BY <1>1 DEF RustAddsUp, Left
<1> QED
  BY <1>1, <1>2, <1>3, <1>4, <1>5, RecodeAssumption

----------------------------------------------------------------------------
(* The two programs convert alike.                                         *)

(* The last whole unit of a file of UTF-16. *)
EndUnit(enc, b) == Unit(enc, b, Len(b) - (Len(b) % 2) - 1)

DropsLast(enc, b) == enc \in UTF16 /\ Len(b) >= 2 /\ EndUnit(enc, b) > 57344

LEMMA EndUnitIsLast ==
  ASSUME NEW enc, NEW b
  PROVE  LastUnitDropped(b, enc) <=> enc \in UTF16 /\ EndUnit(enc, b) > 57344
BY DEF LastUnitDropped, EndUnit

LEMMA UnitOfDrop ==
  ASSUME NEW enc, NEW b \in Seq(Byte), NEW n \in 0 .. Len(b),
         NEW i \in 1 .. Len(b) - n - 1
  PROVE  Unit(enc, Drop(b, n), i) = Unit(enc, b, n + i)
<1>0. Len(b) \in Nat
  BY LenProperties
<1>1. \A k \in 1 .. Len(b) - n : Drop(b, n)[k] = b[n + k]
  BY <1>0 DEF Drop
<1>2. Drop(b, n)[i] = b[n + i] /\ Drop(b, n)[i + 1] = b[n + (i + 1)]
  BY <1>0, <1>1
<1>3. n + (i + 1) = (n + i) + 1
  BY <1>0
<1> QED
  BY <1>2, <1>3 DEF Unit

LEMMA EndUnitOfDrop ==
  ASSUME NEW enc, NEW b \in Seq(Byte), NEW n \in {2, 4}, n + 2 <= Len(b)
  PROVE  EndUnit(enc, Drop(b, n)) = EndUnit(enc, b)
<1>0. Len(b) \in Nat
  BY LenProperties
<1>1. Drop(b, n) \in Seq(Byte) /\ Len(Drop(b, n)) = Len(b) - n
  <2>1. n \in 0 .. Len(b)
    BY <1>0
  <2> QED
    BY <2>1, Pieces
<1>2. PICK L \in Nat : L = Len(b)
  BY <1>0
<1>3. (L - n) % 2 = L % 2 /\ L % 2 \in 0 .. 1
  BY <1>2
<1>4. PICK i \in Int : i = (L - n) - (L % 2) - 1
  <2>1. (L - n) - (L % 2) - 1 \in Int
    BY <1>2
  <2> QED
    BY <2>1
<1>5. i \in 1 .. Len(b) - n - 1
  <2>1. L - n >= 2
    BY <1>2
  <2>2. L - n = 2 => L % 2 = 0
    BY <1>2
  <2> QED
    BY <1>2, <1>3, <1>4, <2>1, <2>2
<1>6. Unit(enc, Drop(b, n), i) = Unit(enc, b, n + i)
  <2>1. n \in 0 .. Len(b)
    BY <1>0
  <2> QED
    BY <1>5, <2>1, UnitOfDrop
<1>7. n + i = L - (L % 2) - 1
  BY <1>2, <1>3, <1>4
<1> QED
  BY <1>1, <1>2, <1>3, <1>4, <1>6, <1>7 DEF EndUnit


LEMMA UnitsOfTwo ==
  ASSUME NEW enc \in UTF16, NEW b
  PROVE  ReadCodepoint(enc, b).n \in {0, 2, 4}
<1>1. ReadUTF16(enc, b) = Nothing
        \/ \E n \in {2, 4} : \E c : ReadUTF16(enc, b) = Read(n, c)
  BY DEF ReadUTF16
<1>2. ReadCodepoint(enc, b) \in {Nothing, ReadUTF16(enc, b)}
  BY DEF ReadCodepoint, UTF16, UTF32
<1>3. Nothing.n = 0 /\ \A n, c : Read(n, c).n = n
  BY DEF Nothing, Read
<1> QED
  BY <1>1, <1>2, <1>3

LEMMA LastUnitIsDropped ==
  ASSUME NEW enc, NEW b \in Seq(Byte), LastUnit(enc, b)
  PROVE  DropsLast(enc, b)
<1>1. enc \in UTF16 /\ Len(b) \in Nat /\ Len(b) >= 2 /\ Len(b) < 4 /\ Unit(enc, b, 1) > 57344
  BY LenProperties DEF LastUnit
<1>2. Len(b) - (Len(b) % 2) - 1 = 1
  BY <1>1
<1> QED
  BY <1>1, <1>2 DEF DropsLast, EndUnit

LEMMA ConvertAlike ==
  ASSUME NEW from \in Encoding, NEW to \in Encoding, NEW b \in Seq(Byte), ~DropsLast(from, b)
  PROVE  RustConvert(from, to)[b] = Convert(from, to)[b]
<1> DEFINE R(s) == RustConvert(from, to)[s]
           C(s) == Convert(from, to)[s]
           T == {s \in Seq(Byte) : ~DropsLast(from, s) => R(s) = C(s)}
<1>1. ASSUME NEW s \in Seq(Byte), \A u \in Seq(Byte) : Len(u) < Len(s) => u \in T
      PROVE  s \in T
  <2> SUFFICES ASSUME ~DropsLast(from, s) PROVE R(s) = C(s)
    OBVIOUS
  <2>1. PICK r : r = ReadCodepoint(from, s)
    OBVIOUS
  <2>2. RustRead(from, s) = r
    BY <2>1, RustReadIsRead, LastUnitIsDropped
  <2>3. r.n \in 0 .. 4 /\ r.n <= Len(s)
    BY <2>1, ReadBounds
  <2>4. /\ R(s) = IF r.n = 0 THEN <<>> ELSE WriteCodepoint(to, r.cp) \o R(Drop(s, r.n))
        /\ C(s) = IF r.n = 0 THEN <<>> ELSE WriteCodepoint(to, r.cp) \o C(Drop(s, r.n))
    BY <2>1, <2>2, RustConvertUnfold, ConvertUnfold
  <2>5. CASE r.n = 0
    BY <2>4, <2>5
  <2>6. CASE r.n # 0
    <3>1. Drop(s, r.n) \in Seq(Byte) /\ Len(Drop(s, r.n)) = Len(s) - r.n
      <4>1. r.n \in 1 .. 4
        BY <2>3, <2>6
      <4> QED
        BY <2>3, <4>1, Consumed
    <3>2. Drop(s, r.n) \in T
      BY <1>1, <2>3, <2>6, <3>1, LenProperties
    <3>3. ~DropsLast(from, Drop(s, r.n))
      <4> SUFFICES ASSUME DropsLast(from, Drop(s, r.n)) PROVE FALSE
        OBVIOUS
      <4>1. from \in UTF16 /\ Len(Drop(s, r.n)) >= 2 /\ EndUnit(from, Drop(s, r.n)) > 57344
        BY DEF DropsLast
      <4>2. r.n \in {2, 4}
        BY <2>1, <2>6, <4>1, UnitsOfTwo
      <4>3. Len(s) \in Nat
        BY LenProperties
      <4>4. r.n + 2 <= Len(s) /\ Len(s) >= 2
        BY <3>1, <4>1, <4>2, <4>3
      <4>5. EndUnit(from, Drop(s, r.n)) = EndUnit(from, s)
        BY <4>2, <4>4, EndUnitOfDrop
      <4> QED
        BY <4>1, <4>4, <4>5 DEF DropsLast
    <3> HIDE DEF R, C
    <3> QED
      BY <2>4, <3>2, <3>3
  <2> QED
    BY <2>5, <2>6
<1> HIDE DEF T
<1>2. Seq(Byte) \subseteq T
  BY <1>1, LengthInduction
<1> QED
  BY <1>2 DEF T

LEMMA RustUnitsOfTwo ==
  ASSUME NEW enc \in UTF16, NEW b \in Seq(Byte)
  PROVE  RustRead(enc, b).n \in {0, 2, 4}
<1>1. enc \in Encoding
  BY DEF UTF16, Encoding
<1>2. \A c : Read(2, c).n = 2
  BY DEF Read
<1>3. ReadCodepoint(enc, b).n \in {0, 2, 4}
  BY UnitsOfTwo
<1> QED
  BY <1>1, <1>2, <1>3, RustReadIsRead

(* The last unit of what is left is the last unit of the file.             *)
SameEnd == Converting => (DropsLast(rust_orig, Left) => LastUnitDropped(source.file, rust_orig))

LEMMA SameEndOfMark ==
  ASSUME BInv, rust_pc = "mark" \/ Converting,
         DropsLast(rust_orig, Drop(source.file, BOM_SIZES[rust_orig]))
  PROVE  LastUnitDropped(source.file, rust_orig)
<1>1. PICK file, enc, n : file = source.file /\ enc = rust_orig /\ n = BOM_SIZES[rust_orig]
  OBVIOUS
<1>2. file \in Seq(Byte) /\ Len(file) \in Nat /\ Len(file) >= 4 /\ enc \in Encoding
  BY <1>1, RustKnows
<1>3. enc \in UTF16 /\ Len(Drop(file, n)) >= 2 /\ EndUnit(enc, Drop(file, n)) > 57344
  BY <1>1 DEF DropsLast
<1>4. n = 2
  BY <1>1, <1>2, <1>3 DEF BOM_SIZES, UTF16
<1>5. Len(Drop(file, n)) = Len(file) - 2
  <2>1. n \in 0 .. Len(file)
    BY <1>2, <1>4
  <2> QED
    BY <1>2, <1>4, <2>1, Pieces
<1>6. n \in {2, 4} /\ n + 2 <= Len(file)
  BY <1>2, <1>3, <1>4, <1>5
<1>7. EndUnit(enc, Drop(file, n)) = EndUnit(enc, file)
  BY <1>2, <1>6, EndUnitOfDrop
<1>8. EndUnit(enc, file) > 57344
  BY <1>3, <1>7
<1> QED
  BY <1>1, <1>3, <1>8, EndUnitIsLast

LEMMA NextSameEnd ==
  ASSUME BInv, SameEnd, [CNext \/ RustNext]_BVars
  PROVE  SameEnd'
<1> SUFFICES ASSUME Converting', DropsLast(rust_orig, Left)'
             PROVE  LastUnitDropped(source.file, rust_orig)'
  BY DEF SameEnd
<1>1. source' = source /\ rust_orig' = rust_orig
  BY RustSteps
<1>2. DropsLast(rust_orig, Left')
  BY <1>1
<1>3. SUFFICES LastUnitDropped(source.file, rust_orig)
  BY <1>1
<1>4. CASE rust_pc = "mark" /\ Left' = Left
  BY <1>2, <1>4, RustKnows, SameEndOfMark
<1>5. CASE Converting /\ Left' = Left
  BY <1>2, <1>5 DEF SameEnd
<1>6. ASSUME NEW n, n = RustRead(rust_orig, Left).n, Converting, n # 0, Left' = Drop(Left, n)
      PROVE  LastUnitDropped(source.file, rust_orig)
  <2>1. PICK b, enc : b = Left /\ enc = rust_orig
    OBVIOUS
  <2>2. enc \in UTF16 /\ Len(Drop(b, n)) >= 2 /\ EndUnit(enc, Drop(b, n)) > 57344
    BY <1>2, <1>6, <2>1 DEF DropsLast
  <2>3. b \in Seq(Byte) /\ Len(b) \in Nat
    BY <2>1, LeftIsBytes, LenProperties
  <2>4. n \in {2, 4}
    BY <1>6, <2>1, <2>2, <2>3, RustUnitsOfTwo
  <2>5. n <= Len(b)
    BY <1>6, <2>1, <2>3, RustKnows, RustReadBounds
  <2>6. Len(Drop(b, n)) = Len(b) - n
    <3>1. n \in 0 .. Len(b)
      BY <2>3, <2>4, <2>5
    <3> QED
      BY <2>3, <3>1, Pieces
  <2>7. n + 2 <= Len(b) /\ Len(b) >= 2
    BY <2>2, <2>3, <2>4, <2>6
  <2>8. EndUnit(enc, Drop(b, n)) = EndUnit(enc, b)
    BY <2>3, <2>4, <2>7, EndUnitOfDrop
  <2>9. DropsLast(rust_orig, Left)
    BY <2>1, <2>2, <2>7, <2>8 DEF DropsLast
  <2> QED
    BY <1>6, <2>9 DEF SameEnd
<1> QED
  BY <1>4, <1>5, <1>6, RustSteps

LEMMA SameEndInvariant == BSpec => [](BInv /\ SameEnd)
<1>1. BInit => SameEnd
  BY DEF BInit, Rust!Init, SameEnd, Converting
<1>2. /\ BInv /\ SameEnd /\ [CNext \/ RustNext]_<<vars, source, program, rust_vars>>
      => BInv' /\ SameEnd'
  BY NextBInv, NextSameEnd DEF BVars
<1> QED
  BY InitBInv, <1>1, <1>2, PTL DEF BSpec

(* Whatever the input and its pieces, what the Rust program wrote and what *)
(* the functions of the C one make of the bytes it still has are what they *)
(* make of the whole file, unless it is UTF-16 and its last whole unit is  *)
(* above E000: SameOutput.                                                 *)
THEOREM ConvertedAlike == BSpec => []SameOutput
<1>1. BInv /\ SameEnd => SameOutput
  <2> SUFFICES ASSUME BInv, SameEnd, Converting, ~LastUnitDropped(source.file, rust_orig)
               PROVE  rust_stdout \o Convert(rust_orig, dest_enc)[Left]
                      = Ideal(source.file, dest_enc)
    BY DEF SameOutput, Left
  <2> DEFINE whole == Drop(source.file, BOM_SIZES[rust_orig])
  <2>1. /\ dest_enc \in Encoding /\ rust_orig \in Encoding
        /\ rust_orig = BomToEnc(SubSeq(source.file, 1, MAXBOM))
        /\ source.file \in Seq(Byte) /\ Len(source.file) \in Nat /\ Len(source.file) >= 4
    BY RustKnows
  <2>2. whole \in Seq(Byte)
    <3>1. BOM_SIZES[rust_orig] \in 0 .. Len(source.file)
      BY <2>1 DEF BOM_SIZES
    <3> QED
      BY <2>1, <3>1, Pieces
  <2>3. ~DropsLast(rust_orig, whole) /\ ~DropsLast(rust_orig, Left)
    BY SameEndOfMark DEF SameEnd
  <2> HIDE DEF whole
  <2>4. RustConvert(rust_orig, dest_enc)[whole] = Convert(rust_orig, dest_enc)[whole]
    BY <2>1, <2>2, <2>3, ConvertAlike
  <2>5. RustConvert(rust_orig, dest_enc)[Left] = Convert(rust_orig, dest_enc)[Left]
    BY <2>1, <2>3, LeftIsBytes, ConvertAlike
  <2>6. rust_stdout \o RustConvert(rust_orig, dest_enc)[Left]
        = WriteBom(dest_enc) \o RustConvert(rust_orig, dest_enc)[whole]
    BY <2>1 DEF BInv, RustInv, RustAddsUp, Converting, Left, RustIdeal, whole
  <2>7. Ideal(source.file, dest_enc)
        = WriteBom(dest_enc) \o Convert(rust_orig, dest_enc)[whole]
    BY <2>1 DEF Ideal, whole
  <2> QED
    BY <2>4, <2>5, <2>6, <2>7
<1> QED
  BY <1>1, SameEndInvariant, PTL


----------------------------------------------------------------------------
(* What the encodings' definition makes of a character, spelled out.       *)

LEMMA Powers ==
  /\ 64^0 = 1 /\ 64^1 = 64 /\ 64^2 = 4096 /\ 64^3 = 262144
  /\ 256^0 = 1 /\ 256^1 = 256 /\ 256^2 = 65536 /\ 256^3 = 16777216
BY UnicodePowers

LEMMA TwoDigits ==
  ASSUME NEW x \in Nat
  PROVE  Digits(x, 256, 2) = <<x \div 256, x % 256>>
<1>1. Digits(x, 256, 2)[1] = x \div 256^(2 - 1)
  BY DEF Digits
<1>2. Digits(x, 256, 2)[2] = (x \div 256^(2 - 2)) % 256
  BY DEF Digits
<1>3. 256^(2 - 1) = 256 /\ 256^(2 - 2) = 1
  BY Powers
<1>4. x \div 1 = x
  OBVIOUS
<1>5. Digits(x, 256, 2)[1] = x \div 256
  BY <1>1, <1>3
<1>6. Digits(x, 256, 2)[2] = x % 256
  BY <1>2, <1>3, <1>4
<1>7. Digits(x, 256, 2) = <<Digits(x, 256, 2)[1], Digits(x, 256, 2)[2]>>
  BY DEF Digits
<1> QED
  BY <1>5, <1>6, <1>7

LEMMA FourDigits ==
  ASSUME NEW x \in Nat
  PROVE  Digits(x, 256, 4) =
           <<x \div 16777216, ByteOf(x, 65536), ByteOf(x, 256), ByteOf(x, 1)>>
<1>1. Digits(x, 256, 4)[1] = x \div 256^(4 - 1)
  BY DEF Digits
<1>2. Digits(x, 256, 4)[2] = ByteOf(x, 256^(4 - 2))
  BY DEF Digits, ByteOf
<1>3. Digits(x, 256, 4)[3] = ByteOf(x, 256^(4 - 3))
  BY DEF Digits, ByteOf
<1>4. Digits(x, 256, 4)[4] = ByteOf(x, 256^(4 - 4))
  BY DEF Digits, ByteOf
<1>5. /\ 256^(4 - 1) = 16777216 /\ 256^(4 - 2) = 65536
      /\ 256^(4 - 3) = 256 /\ 256^(4 - 4) = 1
  BY Powers
<1>6. /\ Digits(x, 256, 4)[1] = x \div 16777216
      /\ Digits(x, 256, 4)[2] = ByteOf(x, 65536)
      /\ Digits(x, 256, 4)[3] = ByteOf(x, 256)
      /\ Digits(x, 256, 4)[4] = ByteOf(x, 1)
  BY <1>1, <1>2, <1>3, <1>4, <1>5
<1>7. Digits(x, 256, 4) = <<Digits(x, 256, 4)[1], Digits(x, 256, 4)[2],
                            Digits(x, 256, 4)[3], Digits(x, 256, 4)[4]>>
  BY DEF Digits
<1> QED
  BY <1>6, <1>7

LEMMA TurnedRound ==
  ASSUME NEW a, NEW b, NEW c, NEW d
  PROVE  /\ [i \in 1 .. 2 |-> <<a, b>>[2 + 1 - i]] = <<b, a>>
         /\ [i \in 1 .. 4 |-> <<a, b, c, d>>[4 + 1 - i]] = <<d, c, b, a>>
OBVIOUS

LEMMA OrderedTwo ==
  ASSUME NEW enc, NEW x \in Nat
  PROVE  Ordered(enc, x, 2) =
           IF enc \in {"UTF16LE", "UTF32LE"} THEN <<x % 256, x \div 256>>
                                             ELSE <<x \div 256, x % 256>>
<1>1. PICK a, b : a = x \div 256 /\ b = x % 256
  OBVIOUS
<1>2. Digits(x, 256, 2) = <<a, b>>
  BY <1>1, TwoDigits
<1>3. [i \in 1 .. 2 |-> <<a, b>>[2 + 1 - i]] = <<b, a>>
  BY TurnedRound
<1>4. Ordered(enc, x, 2) = IF enc \in {"UTF16LE", "UTF32LE"} THEN <<b, a>> ELSE <<a, b>>
  BY <1>2, <1>3 DEF Ordered
<1> QED
  BY <1>1, <1>4

LEMMA OrderedFour ==
  ASSUME NEW enc, NEW x \in Nat
  PROVE  Ordered(enc, x, 4) =
           IF enc \in {"UTF16LE", "UTF32LE"}
           THEN <<ByteOf(x, 1), ByteOf(x, 256), ByteOf(x, 65536), x \div 16777216>>
           ELSE <<x \div 16777216, ByteOf(x, 65536), ByteOf(x, 256), ByteOf(x, 1)>>
<1>1. PICK a, b, c, d : /\ a = x \div 16777216 /\ b = ByteOf(x, 65536)
                        /\ c = ByteOf(x, 256) /\ d = ByteOf(x, 1)
  OBVIOUS
<1>2. Digits(x, 256, 4) = <<a, b, c, d>>
  BY <1>1, FourDigits
<1>3. [i \in 1 .. 4 |-> <<a, b, c, d>>[4 + 1 - i]] = <<d, c, b, a>>
  BY TurnedRound
<1>4. Ordered(enc, x, 4) =
        IF enc \in {"UTF16LE", "UTF32LE"} THEN <<d, c, b, a>> ELSE <<a, b, c, d>>
  BY <1>2, <1>3 DEF Ordered
<1> QED
  BY <1>1, <1>4

(* How many bytes of UTF-8 a character takes. *)
LEMMA LimitsPassed ==
  ASSUME NEW c \in Nat
  PROVE  Cardinality({last \in {127, 2047, 65535} : c > last}) =
           IF c <= 127 THEN 0 ELSE IF c <= 2047 THEN 1 ELSE IF c <= 65535 THEN 2 ELSE 3
<1> DEFINE P == {last \in {127, 2047, 65535} : c > last}
<1>1. CASE c <= 127
  <2>1. P = {}
    BY <1>1
  <2> QED
    BY <1>1, <2>1, FS_EmptySet
<1>2. CASE c > 127 /\ c <= 2047
  <2>1. P = {127}
    BY <1>2
  <2>2. Cardinality(P) = 1
    BY <2>1, FS_Singleton
  <2> QED
    BY <1>2, <2>2
<1>3. CASE c > 2047 /\ c <= 65535
  <2>1. P = {127} \union {2047}
    BY <1>3
  <2>2. IsFiniteSet({127}) /\ Cardinality({127}) = 1 /\ 2047 \notin {127}
    BY FS_Singleton
  <2>3. Cardinality({127} \union {2047}) = 2
    BY <2>2, FS_AddElement
  <2> QED
    BY <1>3, <2>1, <2>3
<1>4. CASE c > 65535
  <2>1. P = ({127} \union {2047}) \union {65535}
    BY <1>4
  <2>2. IsFiniteSet({127}) /\ Cardinality({127}) = 1 /\ 2047 \notin {127}
    BY FS_Singleton
  <2>3. IsFiniteSet({127} \union {2047}) /\ Cardinality({127} \union {2047}) = 2
        /\ 65535 \notin ({127} \union {2047})
    BY <2>2, FS_AddElement
  <2>4. Cardinality(({127} \union {2047}) \union {65535}) = 3
    BY <2>3, FS_AddElement
  <2> QED
    BY <1>4, <2>1, <2>4
<1> QED
  BY <1>1, <1>2, <1>3, <1>4

(* The n digits of a character in base 64, marked as bytes of UTF-8. *)
Marked(c, n) ==
  [i \in 1 .. n |-> IF i > 1 THEN 128 + Digits(c, 64, n)[i]
                    ELSE Digits(c, 64, n)[1] + <<0, 192, 224, 240>>[n]]

LEMMA MarkedOne ==
  ASSUME NEW c \in Nat
  PROVE  Marked(c, 1) = <<c>>
<1>1. Digits(c, 64, 1)[1] = c \div 64^(1 - 1)
  BY DEF Digits
<1>2. 64^(1 - 1) = 1 /\ c \div 1 = c
  BY Powers
<1>3. Digits(c, 64, 1)[1] = c
  BY <1>1, <1>2
<1>4. c + 0 = c
  OBVIOUS
<1> QED
  BY <1>3, <1>4 DEF Marked

LEMMA MarkedTwo ==
  ASSUME NEW c \in Nat
  PROVE  Marked(c, 2) = <<192 + (c \div 64), 128 + (c % 64)>>
<1>1. Digits(c, 64, 2)[1] = c \div 64^(2 - 1)
  BY DEF Digits
<1>2. Digits(c, 64, 2)[2] = (c \div 64^(2 - 2)) % 64
  BY DEF Digits
<1>3. 64^(2 - 1) = 64 /\ 64^(2 - 2) = 1 /\ c \div 1 = c
  BY Powers
<1>4. PICK a \in Int, b \in Int : a = c \div 64 /\ b = c % 64
  OBVIOUS
<1>5. Digits(c, 64, 2)[1] = a /\ Digits(c, 64, 2)[2] = b
  BY <1>1, <1>2, <1>3, <1>4
<1>6. Marked(c, 2) = <<192 + a, 128 + b>>
  BY <1>5 DEF Marked
<1> QED
  BY <1>4, <1>6

LEMMA MarkedThree ==
  ASSUME NEW c \in Nat
  PROVE  Marked(c, 3) = <<224 + (c \div 4096), 128 + ((c \div 64) % 64), 128 + (c % 64)>>
<1>1. Digits(c, 64, 3)[1] = c \div 64^(3 - 1)
  BY DEF Digits
<1>2. Digits(c, 64, 3)[2] = (c \div 64^(3 - 2)) % 64
  BY DEF Digits
<1>3. Digits(c, 64, 3)[3] = (c \div 64^(3 - 3)) % 64
  BY DEF Digits
<1>4. 64^(3 - 1) = 4096 /\ 64^(3 - 2) = 64 /\ 64^(3 - 3) = 1 /\ c \div 1 = c
  BY Powers
<1>5. PICK a \in Int, b \in Int, d \in Int :
        a = c \div 4096 /\ b = (c \div 64) % 64 /\ d = c % 64
  OBVIOUS
<1>6. Digits(c, 64, 3)[1] = a /\ Digits(c, 64, 3)[2] = b /\ Digits(c, 64, 3)[3] = d
  BY <1>1, <1>2, <1>3, <1>4, <1>5
<1>7. Marked(c, 3) = <<224 + a, 128 + b, 128 + d>>
  BY <1>6 DEF Marked
<1> QED
  BY <1>5, <1>7

LEMMA MarkedFour ==
  ASSUME NEW c \in Nat
  PROVE  Marked(c, 4) = <<240 + (c \div 262144), 128 + ((c \div 4096) % 64),
                          128 + ((c \div 64) % 64), 128 + (c % 64)>>
<1>1. Digits(c, 64, 4)[1] = c \div 64^(4 - 1)
  BY DEF Digits
<1>2. Digits(c, 64, 4)[2] = (c \div 64^(4 - 2)) % 64
  BY DEF Digits
<1>3. Digits(c, 64, 4)[3] = (c \div 64^(4 - 3)) % 64
  BY DEF Digits
<1>4. Digits(c, 64, 4)[4] = (c \div 64^(4 - 4)) % 64
  BY DEF Digits
<1>5. 64^(4 - 1) = 262144 /\ 64^(4 - 2) = 4096 /\ 64^(4 - 3) = 64 /\ 64^(4 - 4) = 1
  BY Powers
<1>6. c \div 1 = c
  OBVIOUS
<1>7. PICK a \in Int, b \in Int, d \in Int, e \in Int :
        /\ a = c \div 262144 /\ b = (c \div 4096) % 64
        /\ d = (c \div 64) % 64 /\ e = c % 64
  OBVIOUS
<1>8. /\ Digits(c, 64, 4)[1] = a /\ Digits(c, 64, 4)[2] = b
      /\ Digits(c, 64, 4)[3] = d /\ Digits(c, 64, 4)[4] = e
  BY <1>1, <1>2, <1>3, <1>4, <1>5, <1>6, <1>7
<1>9. Marked(c, 4) = <<240 + a, 128 + b, 128 + d, 128 + e>>
  BY <1>8 DEF Marked
<1> QED
  BY <1>7, <1>9

LEMMA UTF8FormIs ==
  ASSUME NEW c \in Nat
  PROVE  /\ c <= 127 => UTF8Form(c) = <<c>>
         /\ c > 127 /\ c <= 2047 => UTF8Form(c) = <<192 + (c \div 64), 128 + (c % 64)>>
         /\ c > 2047 /\ c <= 65535 =>
              UTF8Form(c) = <<224 + (c \div 4096), 128 + ((c \div 64) % 64), 128 + (c % 64)>>
         /\ c > 65535 =>
              UTF8Form(c) = <<240 + (c \div 262144), 128 + ((c \div 4096) % 64),
                              128 + ((c \div 64) % 64), 128 + (c % 64)>>
<1>1. PICK N : N = 1 + Cardinality({last \in {127, 2047, 65535} : c > last})
  OBVIOUS
<1>2. UTF8Form(c) = Marked(c, N)
  BY <1>1 DEF UTF8Form, Marked
<1>3. /\ c <= 127 => N = 1
      /\ c > 127 /\ c <= 2047 => N = 2
      /\ c > 2047 /\ c <= 65535 => N = 3
      /\ c > 65535 => N = 4
  BY <1>1, LimitsPassed
<1>4. c <= 127 => UTF8Form(c) = <<c>>
  BY <1>2, <1>3, MarkedOne
<1>5. c > 127 /\ c <= 2047 => UTF8Form(c) = <<192 + (c \div 64), 128 + (c % 64)>>
  BY <1>2, <1>3, MarkedTwo
<1>6. c > 2047 /\ c <= 65535 =>
        UTF8Form(c) = <<224 + (c \div 4096), 128 + ((c \div 64) % 64), 128 + (c % 64)>>
  BY <1>2, <1>3, MarkedThree
<1>7. c > 65535 =>
        UTF8Form(c) = <<240 + (c \div 262144), 128 + ((c \div 4096) % 64),
                        128 + ((c \div 64) % 64), 128 + (c % 64)>>
  BY <1>2, <1>3, MarkedFour
<1> QED
  BY <1>4, <1>5, <1>6, <1>7


LEMMA ScalarIs ==
  ASSUME NEW c, Scalar(c)
  PROVE  c \in Nat /\ c <= 1114111 /\ (c <= 55295 \/ c >= 57344)
BY DEF Scalar

(* A number below 2^16 or 2^24 is the bytes it is cut into. *)
LEMMA TwoByteValue ==
  ASSUME NEW u \in Nat, u < 65536
  PROVE  /\ u \div 256 \in Byte /\ u % 256 \in Byte
         /\ ByteOf(u, 1) = u % 256 /\ ByteOf(u, 256) = u \div 256
         /\ (u \div 256) * 256 + (u % 256) = u
<1>1. u \div 256 \in 0 .. 255 /\ u % 256 \in 0 .. 255
  OBVIOUS
<1>2. u \div 1 = u
  OBVIOUS
<1>3. (u \div 256) % 256 = u \div 256
  BY <1>1
<1>4. (u \div 256) * 256 + (u % 256) = u
  OBVIOUS
<1> QED
  BY <1>1, <1>2, <1>3, <1>4 DEF ByteOf, Byte

LEMMA FourByteValue ==
  ASSUME NEW x \in Nat, x < 16777216
  PROVE  /\ ByteOf(x, 1) \in Byte /\ ByteOf(x, 256) \in Byte /\ ByteOf(x, 65536) \in Byte
         /\ x \div 16777216 = 0 /\ ByteOf(x, 16777216) = 0
         /\ ByteOf(x, 65536) * 65536 + ByteOf(x, 256) * 256 + ByteOf(x, 1) = x
<1>1. PICK q \in Nat, r \in 0 .. 255 : q = x \div 256 /\ r = x % 256 /\ x = 256 * q + r
  <2>1. x \div 256 \in Nat /\ x % 256 \in 0 .. 255 /\ x = 256 * (x \div 256) + (x % 256)
    OBVIOUS
  <2> QED
    BY <2>1
<1>2. PICK p \in Nat, s \in 0 .. 255 : p = q \div 256 /\ s = q % 256 /\ q = 256 * p + s
  <2>1. q \div 256 \in Nat /\ q % 256 \in 0 .. 255 /\ q = 256 * (q \div 256) + (q % 256)
    OBVIOUS
  <2> QED
    BY <2>1
<1>3. x \div 65536 = p
  <2>1. x = 65536 * p + (256 * s + r) /\ 256 * s + r >= 0 /\ 256 * s + r < 65536
    BY <1>1, <1>2
  <2> QED
    BY <2>1
<1>4. p < 256
  BY <1>1, <1>2
<1>5. x \div 1 = x /\ p % 256 = p
  BY <1>4
<1>6. ByteOf(x, 1) = r
  BY <1>1, <1>5 DEF ByteOf
<1>7. ByteOf(x, 256) = s
  BY <1>1, <1>2 DEF ByteOf
<1>8. ByteOf(x, 65536) = p
  BY <1>3, <1>5 DEF ByteOf
<1>9. x \div 16777216 = 0
  OBVIOUS
<1>10. ByteOf(x, 16777216) = 0
  BY <1>9 DEF ByteOf
<1>11. p * 65536 + s * 256 + r = x
  BY <1>1, <1>2
<1> QED
  BY <1>4, <1>6, <1>7, <1>8, <1>9, <1>10, <1>11 DEF Byte

(* A unit of UTF-16 is written as it is defined, and read as it was.       *)
LEMMA UnitIs ==
  ASSUME NEW enc \in UTF16, NEW u \in Nat, u < 65536
  PROVE  /\ Ordered(enc, u, 2) = WriteUnit(enc, u)
         /\ Ordered(enc, u, 2) \in Seq(Byte) /\ Len(Ordered(enc, u, 2)) = 2
         /\ enc = "UTF16LE" => Ordered(enc, u, 2)[1] = u % 256 /\ Ordered(enc, u, 2)[2] = u \div 256
         /\ enc # "UTF16LE" => Ordered(enc, u, 2)[1] = u \div 256 /\ Ordered(enc, u, 2)[2] = u % 256
<1>1. PICK a \in Byte, b \in Byte :
        a = u \div 256 /\ b = u % 256 /\ ByteOf(u, 1) = b /\ ByteOf(u, 256) = a
  BY TwoByteValue
<1>2. Ordered(enc, u, 2) = IF enc = "UTF16LE" THEN <<b, a>> ELSE <<a, b>>
  BY <1>1, OrderedTwo DEF UTF16
<1>3. WriteUnit(enc, u) = IF enc = "UTF16LE" THEN <<b, a>> ELSE <<a, b>>
  BY <1>1 DEF WriteUnit, LittleEndian, UTF16
<1>4. <<a, b>> \in Seq(Byte) /\ <<b, a>> \in Seq(Byte) /\ Len(<<a, b>>) = 2 /\ Len(<<b, a>>) = 2
  BY Tuples
<1>5. <<a, b>>[1] = a /\ <<a, b>>[2] = b /\ <<b, a>>[1] = b /\ <<b, a>>[2] = a
  OBVIOUS
<1>6. PICK o : o = Ordered(enc, u, 2)
  OBVIOUS
<1>7. o = WriteUnit(enc, u)
  BY <1>2, <1>3, <1>6
<1>8. o = <<b, a>> \/ o = <<a, b>>
  BY <1>2, <1>6
<1>9. o \in Seq(Byte) /\ Len(o) = 2
  <2> DEFINE Two(s) == s \in Seq(Byte) /\ Len(s) = 2
  <2>1. Two(<<b, a>>) /\ Two(<<a, b>>)
    BY <1>4
  <2> HIDE DEF Two
  <2>2. Two(o)
    BY <1>8, <2>1
  <2> QED
    BY <2>2 DEF Two
<1>11. enc = "UTF16LE" => o[1] = b /\ o[2] = a
  BY <1>2, <1>5, <1>6
<1>12. enc # "UTF16LE" => o[1] = a /\ o[2] = b
  BY <1>2, <1>5, <1>6
<1> QED
  BY <1>1, <1>6, <1>7, <1>9, <1>11, <1>12

LEMMA UnitIsRead ==
  ASSUME NEW enc \in UTF16, NEW u \in Nat, u < 65536, NEW b, NEW i \in Nat,
         b[i] = Ordered(enc, u, 2)[1], b[i + 1] = Ordered(enc, u, 2)[2]
  PROVE  Unit(enc, b, i) = u
<1>1. (u \div 256) * 256 + (u % 256) = u
  BY TwoByteValue
<1>2. CASE enc = "UTF16LE"
  BY <1>1, <1>2, UnitIs DEF Unit, LittleEndian
<1>3. CASE enc # "UTF16LE"
  BY <1>1, <1>3, UnitIs DEF Unit, LittleEndian, UTF16
<1> QED
  BY <1>2, <1>3

(* A character of UTF-32. *)
LEMMA UTF32Is ==
  ASSUME NEW enc \in UTF32, NEW c, Scalar(c)
  PROVE  /\ Form(enc, c) = WriteUTF32(enc, c)
         /\ Form(enc, c) \in Seq(Byte) /\ Len(Form(enc, c)) = 4
<1>1. PICK p \in Byte, s \in Byte, r \in Byte :
        /\ ByteOf(c, 1) = r /\ ByteOf(c, 256) = s /\ ByteOf(c, 65536) = p
        /\ c \div 16777216 = 0 /\ ByteOf(c, 16777216) = 0
  BY ScalarIs, FourByteValue
<1>2. Form(enc, c) = Ordered(enc, c, 4)
  BY DEF Form, UTF32
<1>3. c \in Nat
  BY ScalarIs
<1>4. Ordered(enc, c, 4) = IF enc = "UTF32LE" THEN <<r, s, p, 0>> ELSE <<0, p, s, r>>
  BY <1>1, <1>3, OrderedFour DEF UTF32
<1>5. WriteUTF32(enc, c) = IF enc = "UTF32LE" THEN <<r, s, p, 0>> ELSE <<0, p, s, r>>
  BY <1>1 DEF WriteUTF32, LittleEndian, UTF32
<1>6. 0 \in Byte
  BY DEF Byte
<1>7. /\ <<r, s, p, 0>> \in Seq(Byte) /\ Len(<<r, s, p, 0>>) = 4
      /\ <<0, p, s, r>> \in Seq(Byte) /\ Len(<<0, p, s, r>>) = 4
  BY <1>6, Tuples
<1> QED
  BY <1>2, <1>4, <1>5, <1>7

LEMMA UTF32IsRead ==
  ASSUME NEW enc \in UTF32, NEW c, Scalar(c), NEW b, \A i \in 1 .. 4 : b[i] = Form(enc, c)[i]
  PROVE  ReadUTF32(enc, b) = Read(4, c)
<1>1. PICK p \in Byte, s \in Byte, r \in Byte :
        /\ ByteOf(c, 1) = r /\ ByteOf(c, 256) = s /\ ByteOf(c, 65536) = p
        /\ c \div 16777216 = 0 /\ p * 65536 + s * 256 + r = c
  BY ScalarIs, FourByteValue
<1>2. Form(enc, c) = Ordered(enc, c, 4)
  BY DEF Form, UTF32
<1>3. c \in Nat
  BY ScalarIs
<1>4. Ordered(enc, c, 4) = IF enc = "UTF32LE" THEN <<r, s, p, 0>> ELSE <<0, p, s, r>>
  BY <1>1, <1>3, OrderedFour DEF UTF32
<1>5. b[1] = Form(enc, c)[1] /\ b[2] = Form(enc, c)[2] /\ b[3] = Form(enc, c)[3]
      /\ b[4] = Form(enc, c)[4]
  OBVIOUS
<1>6. Word(0, p, s, r) = c
  BY <1>1 DEF Word, Byte
<1>7. CASE enc = "UTF32LE"
  <2>1. b[1] = r /\ b[2] = s /\ b[3] = p /\ b[4] = 0
    BY <1>2, <1>4, <1>5, <1>7
  <2> QED
    BY <1>6, <1>7, <2>1 DEF ReadUTF32, LittleEndian
<1>8. CASE enc # "UTF32LE"
  <2>1. b[1] = 0 /\ b[2] = p /\ b[3] = s /\ b[4] = r
    BY <1>2, <1>4, <1>5, <1>8
  <2> QED
    BY <1>6, <1>8, <2>1 DEF ReadUTF32, LittleEndian, UTF32
<1> QED
  BY <1>7, <1>8


(* A character of UTF-16: a unit, or a pair of them. *)
LEMMA PairOf ==
  ASSUME NEW c \in Nat, c >= 65536, c <= 1114111
  PROVE  LET hi == 55296 + ((c - 65536) \div 1024)
             lo == 56320 + ((c - 65536) % 1024)
         IN  /\ hi \in Nat /\ hi >= 55296 /\ hi < 56320
             /\ lo \in Nat /\ lo < 65536
             /\ (hi - 55296) * 1024 + (lo - 56320) + 65536 = c
<1>1. PICK a \in Nat : a = c - 65536 /\ a < 1048576
  <2>1. c - 65536 \in Nat /\ c - 65536 < 1048576
    OBVIOUS
  <2> QED
    BY <2>1
<1>2. a \div 1024 \in Nat /\ a \div 1024 < 1024
  BY <1>1
<1>3. a % 1024 \in Nat /\ a % 1024 < 1024
  BY <1>1
<1>4. (a \div 1024) * 1024 + (a % 1024) = a
  BY <1>1
<1> QED
  BY <1>1, <1>2, <1>3, <1>4

LEMMA OneUnitIs ==
  ASSUME NEW enc \in UTF16, NEW c, Scalar(c), c < 65536
  PROVE  /\ Form(enc, c) = Ordered(enc, c, 2) /\ Form(enc, c) = WriteUTF16(enc, c)
         /\ Form(enc, c) \in Seq(Byte) /\ Len(Form(enc, c)) = 2
<1>1. c \in Nat
  BY ScalarIs
<1>2. Form(enc, c) = Ordered(enc, c, 2)
  BY DEF Form, UTF16Form, UTF16
<1>3. WriteUTF16(enc, c) = WriteUnit(enc, c)
  BY <1>1 DEF WriteUTF16, AtMost
<1> QED
  BY <1>1, <1>2, <1>3, UnitIs

LEMMA TwoAndTwo ==
  ASSUME NEW a \in Seq(Byte), Len(a) = 2, NEW b \in Seq(Byte), Len(b) = 2
  PROVE  /\ a \o b \in Seq(Byte) /\ Len(a \o b) = 4
         /\ (a \o b)[1] = a[1] /\ (a \o b)[2] = a[2]
         /\ (a \o b)[3] = b[1] /\ (a \o b)[4] = b[2]
<1>1. PICK f : f = a \o b
  OBVIOUS
<1>2. /\ f \in Seq(Byte) /\ Len(f) = 4
      /\ \A i \in 1 .. 4 : f[i] = IF i <= 2 THEN a[i] ELSE b[i - 2]
  <2>1. /\ a \o b \in Seq(Byte) /\ Len(a \o b) = Len(a) + Len(b)
        /\ \A i \in 1 .. Len(a) + Len(b) :
             (a \o b)[i] = IF i <= Len(a) THEN a[i] ELSE b[i - Len(a)]
    BY ConcatProperties
  <2> QED
    BY <1>1, <2>1
<1>3. f[1] = a[1] /\ f[2] = a[2]
  BY <1>2
<1>4. f[3] = b[1] /\ f[4] = b[2]
  BY <1>2
<1> QED
  BY <1>1, <1>2, <1>3, <1>4

LEMMA TwoUnitsAre ==
  ASSUME NEW enc \in UTF16, NEW c, Scalar(c), c >= 65536
  PROVE  LET high == Ordered(enc, 55296 + ((c - 65536) \div 1024), 2)
             low == Ordered(enc, 56320 + ((c - 65536) % 1024), 2)
         IN  /\ Form(enc, c) = WriteUTF16(enc, c)
             /\ Form(enc, c) \in Seq(Byte) /\ Len(Form(enc, c)) = 4
             /\ Form(enc, c)[1] = high[1] /\ Form(enc, c)[2] = high[2]
             /\ Form(enc, c)[3] = low[1] /\ Form(enc, c)[4] = low[2]
<1> DEFINE hi == 55296 + ((c - 65536) \div 1024)
           lo == 56320 + ((c - 65536) % 1024)
<1>1. c \in Nat /\ c <= 1114111
  BY ScalarIs
<1>2. /\ hi \in Nat /\ hi < 65536 /\ lo \in Nat /\ lo < 65536
  <2>1. hi \in Nat /\ hi < 56320 /\ lo \in Nat /\ lo < 65536
    BY <1>1, PairOf
  <2> HIDE DEF hi, lo
  <2> QED
    BY <2>1
<1>3. Form(enc, c) = Ordered(enc, hi, 2) \o Ordered(enc, lo, 2)
  <2>1. Form(enc, c) = UTF16Form(enc, c)
    BY DEF Form, UTF16
  <2>2. ~(c < 65536)
    BY <1>1
  <2> QED
    BY <2>1, <2>2 DEF UTF16Form
<1>4. WriteUTF16(enc, c) = WriteUnit(enc, hi) \o WriteUnit(enc, lo)
  <2>1. ~AtMost(c, 65535)
    BY <1>1 DEF AtMost
  <2>2. /\ (c - 65536) \div 1024 + 55296 = hi
        /\ ((c - 65536) % 1024) + 56320 = lo
    BY <1>1
  <2> HIDE DEF hi, lo
  <2> QED
    BY <2>1, <2>2 DEF WriteUTF16
<1> HIDE DEF hi, lo
<1> DEFINE high == Ordered(enc, hi, 2)
           low == Ordered(enc, lo, 2)
<1>5. /\ high \in Seq(Byte) /\ Len(high) = 2 /\ low \in Seq(Byte) /\ Len(low) = 2
      /\ high = WriteUnit(enc, hi) /\ low = WriteUnit(enc, lo)
  BY <1>2, UnitIs
<1> HIDE DEF high, low
<1> DEFINE f == high \o low
<1>7. /\ f \in Seq(Byte) /\ Len(f) = 4
      /\ f[1] = high[1] /\ f[2] = high[2] /\ f[3] = low[1] /\ f[4] = low[2]
  BY <1>5, TwoAndTwo
<1>8. Form(enc, c) = f /\ WriteUTF16(enc, c) = f
  BY <1>3, <1>4, <1>5 DEF high, low
<1> HIDE DEF f
<1> QED
  BY <1>7, <1>8 DEF high, low, hi, lo

LEMMA UTF16IsRead ==
  ASSUME NEW enc \in UTF16, NEW c, Scalar(c), c # 57344,
         NEW b, Len(b) \in Nat, Len(b) >= Len(Form(enc, c)),
         \A i \in 1 .. Len(Form(enc, c)) : b[i] = Form(enc, c)[i]
  PROVE  /\ ReadUTF16(enc, b) = Read(Len(Form(enc, c)), c)
         /\ c < 65536 => Unit(enc, b, 1) = c
         /\ c >= 65536 => Len(b) >= 4
<1>1. c \in Nat /\ c <= 1114111 /\ (c <= 55295 \/ c >= 57344)
  BY ScalarIs
<1>2. CASE c < 65536
  <2>1. Form(enc, c) = Ordered(enc, c, 2) /\ Len(Form(enc, c)) = 2
    BY <1>2, OneUnitIs
  <2>2. b[1] = Ordered(enc, c, 2)[1] /\ b[1 + 1] = Ordered(enc, c, 2)[2]
    BY <2>1
  <2>3. Unit(enc, b, 1) = c
    BY <1>1, <1>2, <2>2, UnitIsRead
  <2>4. c < 55296 \/ c > 57344
    BY <1>1
  <2>5. ReadUTF16(enc, b) = Read(2, c)
    BY <2>3, <2>4 DEF ReadUTF16
  <2>6. ReadUTF16(enc, b) = Read(Len(Form(enc, c)), c)
    BY <2>1, <2>5
  <2>7. ~(c >= 65536)
    BY <1>1, <1>2
  <2> QED
    BY <2>3, <2>6, <2>7
<1>3. CASE c >= 65536
  <2> DEFINE hi == 55296 + ((c - 65536) \div 1024)
             lo == 56320 + ((c - 65536) % 1024)
  <2>1. /\ hi \in Nat /\ hi >= 55296 /\ hi < 56320 /\ lo \in Nat /\ lo < 65536
        /\ (hi - 55296) * 1024 + (lo - 56320) + 65536 = c
    BY <1>1, <1>3, PairOf
  <2>2. /\ Len(Form(enc, c)) = 4
        /\ Form(enc, c)[1] = Ordered(enc, hi, 2)[1] /\ Form(enc, c)[2] = Ordered(enc, hi, 2)[2]
        /\ Form(enc, c)[3] = Ordered(enc, lo, 2)[1] /\ Form(enc, c)[4] = Ordered(enc, lo, 2)[2]
    BY <1>3, TwoUnitsAre
  <2> HIDE DEF hi, lo
  <2>3. /\ b[1] = Ordered(enc, hi, 2)[1] /\ b[1 + 1] = Ordered(enc, hi, 2)[2]
        /\ b[3] = Ordered(enc, lo, 2)[1] /\ b[3 + 1] = Ordered(enc, lo, 2)[2]
    BY <2>2
  <2>4. Unit(enc, b, 1) = hi
    <3>1. hi < 65536
      BY <2>1
    <3> QED
      BY <2>1, <2>3, <3>1, UnitIsRead
  <2>5. Unit(enc, b, 3) = lo
    BY <2>1, <2>3, UnitIsRead
  <2>6. ~(hi < 55296 \/ hi > 57344) /\ Len(b) >= 4
    BY <2>1, <2>2
  <2>7. ReadUTF16(enc, b) = Read(4, (hi - 55296) * 1024 + (lo - 56320) + 65536)
    BY <2>4, <2>5, <2>6 DEF ReadUTF16
  <2>8. ReadUTF16(enc, b) = Read(Len(Form(enc, c)), c)
    BY <2>1, <2>2, <2>7
  <2>9. ~(c < 65536)
    BY <1>1, <1>3
  <2> QED
    BY <2>6, <2>8, <2>9
<1> QED
  BY <1>1, <1>2, <1>3


(* A character of UTF-8. *)
Six(x, weight) == (x \div weight) % 64

LEMMA SixDigits ==
  ASSUME NEW c \in Nat
  PROVE  /\ Six(c, 1) \in Nat /\ Six(c, 1) < 64
         /\ Six(c, 64) \in Nat /\ Six(c, 64) < 64
         /\ Six(c, 4096) \in Nat /\ Six(c, 4096) < 64
BY DEF Six

LEMMA Split64 ==
  ASSUME NEW x \in Nat
  PROVE  x \div 64 \in Nat /\ x % 64 \in Nat /\ x % 64 < 64 /\ x = 64 * (x \div 64) + (x % 64)
OBVIOUS

(* What is left of x above its digits. *)
Above(x, weight) == x \div weight

(* All four digits of c in base 64. *)
LEMMA SixBits ==
  ASSUME NEW c \in Nat
  PROVE  /\ Above(c, 64) \in Nat /\ Above(c, 4096) \in Nat /\ Above(c, 262144) \in Nat
         /\ c = 64 * Above(c, 64) + Six(c, 1)
         /\ Above(c, 64) = 64 * Above(c, 4096) + Six(c, 64)
         /\ Above(c, 4096) = 64 * Above(c, 262144) + Six(c, 4096)
<1>1. PICK q \in Nat, r \in Nat : q = c \div 64 /\ r = c % 64 /\ r < 64 /\ c = 64 * q + r
  BY Split64
<1>2. PICK p \in Nat, s \in Nat : p = q \div 64 /\ s = q % 64 /\ s < 64 /\ q = 64 * p + s
  BY Split64
<1>3. PICK o \in Nat, t \in Nat : o = p \div 64 /\ t = p % 64 /\ t < 64 /\ p = 64 * o + t
  BY Split64
<1>4. c \div 4096 = p
  <2>1. c = 4096 * p + (64 * s + r) /\ 64 * s + r >= 0 /\ 64 * s + r < 4096
    BY <1>1, <1>2
  <2> QED
    BY <2>1
<1>5. c \div 262144 = o
  <2>1. c = 262144 * o + (4096 * t + 64 * s + r)
    BY <1>1, <1>2, <1>3
  <2>2. 4096 * t + 64 * s + r >= 0 /\ 4096 * t + 64 * s + r < 262144
    BY <1>1, <1>2, <1>3
  <2> QED
    BY <2>1, <2>2
<1>6. c \div 1 = c
  OBVIOUS
<1>7. Six(c, 1) = r
  BY <1>1, <1>6 DEF Six
<1>8. Six(c, 64) = s
  BY <1>1, <1>2 DEF Six
<1>9. Six(c, 4096) = t
  BY <1>3, <1>4 DEF Six
<1>10. Above(c, 64) = q
  BY <1>1 DEF Above
<1>11. Above(c, 4096) = p
  BY <1>4 DEF Above
<1>12. Above(c, 262144) = o
  BY <1>5 DEF Above
<1>13. c = 64 * q + r /\ q = 64 * p + s /\ p = 64 * o + t
  BY <1>1, <1>2, <1>3
<1> QED
  BY <1>7, <1>8, <1>9, <1>10, <1>11, <1>12, <1>13

LEMMA TwoSix ==
  ASSUME NEW c \in Nat, c <= 2047
  PROVE  \E q \in Nat : Above(c, 64) = q /\ q < 32 /\ q * 64 + Six(c, 1) = c
<1>1. PICK q \in Nat, r \in Nat : q = Above(c, 64) /\ r = Six(c, 1)
  BY SixBits, SixDigits
<1>2. c = 64 * q + r
  BY <1>1, SixBits
<1>3. q < 32 /\ q * 64 + r = c
  BY <1>2
<1> QED
  BY <1>1, <1>3

LEMMA ThreeSix ==
  ASSUME NEW c \in Nat, c <= 65535
  PROVE  \E p \in Nat : /\ Above(c, 4096) = p /\ p < 16
                        /\ p * 4096 + Six(c, 64) * 64 + Six(c, 1) = c
<1>1. PICK q \in Nat, p \in Nat : q = Above(c, 64) /\ p = Above(c, 4096)
  BY SixBits
<1>2. PICK r \in Nat, s \in Nat : r = Six(c, 1) /\ s = Six(c, 64)
  BY SixDigits
<1>3. c = 64 * q + r /\ q = 64 * p + s
  BY <1>1, <1>2, SixBits
<1>4. p < 16 /\ p * 4096 + s * 64 + r = c
  BY <1>3
<1> QED
  BY <1>1, <1>2, <1>4

LEMMA FourSix ==
  ASSUME NEW c \in Nat, c <= 1114111
  PROVE  \E o \in Nat : /\ Above(c, 262144) = o /\ o < 5 /\ (c < 262144 => o = 0)
                        /\ o * 262144 + Six(c, 4096) * 4096 + Six(c, 64) * 64 + Six(c, 1) = c
<1>1. PICK q \in Nat, p \in Nat, o \in Nat :
        q = Above(c, 64) /\ p = Above(c, 4096) /\ o = Above(c, 262144)
  BY SixBits
<1>2. PICK r \in Nat, s \in Nat, t \in Nat :
        r = Six(c, 1) /\ s = Six(c, 64) /\ t = Six(c, 4096)
  BY SixDigits
<1>3. c = 64 * q + r /\ q = 64 * p + s /\ p = 64 * o + t
  BY <1>1, <1>2, SixBits
<1>4. o < 5 /\ (c < 262144 => o = 0) /\ o * 262144 + t * 4096 + s * 64 + r = c
  BY <1>3
<1> QED
  BY <1>1, <1>2, <1>4

LEMMA LeadIsLost ==
  ASSUME NEW c \in Nat, c <= 1114111
  PROVE  240 + ((c \div 16777216) % 8) = 240
<1>1. c \div 16777216 = 0
  OBVIOUS
<1> QED
  BY <1>1

TwoOf(c)   == <<192 + Above(c, 64), 128 + Six(c, 1)>>
ThreeOf(c) == <<224 + Above(c, 4096), 128 + Six(c, 64), 128 + Six(c, 1)>>
FourOf(c)  == <<240 + Above(c, 262144), 128 + Six(c, 4096), 128 + Six(c, 64), 128 + Six(c, 1)>>

(* Its four forms, by the bits it takes. *)
LEMMA UTF8Cases ==
  ASSUME NEW c, Scalar(c)
  PROVE  /\ c <= 127 => Form("UTF8", c) = <<c>>
         /\ c > 127 /\ c <= 2047 => Form("UTF8", c) = TwoOf(c)
         /\ c > 2047 /\ c <= 65535 => Form("UTF8", c) = ThreeOf(c)
         /\ c > 65535 => Form("UTF8", c) = FourOf(c)
<1>1. c \in Nat /\ c <= 1114111
  BY ScalarIs
<1>2. Form("UTF8", c) = UTF8Form(c)
  BY DEF Form
<1>3. Six(c, 1) = c % 64 /\ Six(c, 64) = (c \div 64) % 64 /\ Six(c, 4096) = (c \div 4096) % 64
  <2>1. c \div 1 = c
    BY <1>1
  <2> QED
    BY <2>1 DEF Six
<1>4. c <= 127 => UTF8Form(c) = <<c>>
  BY <1>1, UTF8FormIs
<1>5. c > 127 /\ c <= 2047 => UTF8Form(c) = <<192 + (c \div 64), 128 + (c % 64)>>
  BY <1>1, UTF8FormIs
<1>6. c > 2047 /\ c <= 65535 =>
        UTF8Form(c) = <<224 + (c \div 4096), 128 + ((c \div 64) % 64), 128 + (c % 64)>>
  BY <1>1, UTF8FormIs
<1>7. c > 65535 =>
        UTF8Form(c) = <<240 + (c \div 262144), 128 + ((c \div 4096) % 64),
                        128 + ((c \div 64) % 64), 128 + (c % 64)>>
  BY <1>1, UTF8FormIs
<1>8. c > 127 /\ c <= 2047 => UTF8Form(c) = TwoOf(c)
  BY <1>3, <1>5 DEF Above, TwoOf
<1>9. c > 2047 /\ c <= 65535 => UTF8Form(c) = ThreeOf(c)
  BY <1>3, <1>6 DEF Above, ThreeOf
<1>10. c > 65535 => UTF8Form(c) = FourOf(c)
  BY <1>3, <1>7 DEF Above, FourOf
<1> QED
  BY <1>2, <1>4, <1>8, <1>9, <1>10

LEMMA LeadTwo ==
  ASSUME NEW q \in Nat, q < 32
  PROVE  BitClear(192 + q, 32) /\ (192 + q) % 32 = q /\ ~(192 + q <= 127)
<1>1. (192 + q) \div 32 = 6 /\ 6 % 2 = 0
  OBVIOUS
<1>2. (192 + q) % 32 = q
  OBVIOUS
<1> QED
  BY <1>1, <1>2 DEF BitClear

LEMMA LeadThree ==
  ASSUME NEW q \in Nat, q < 16
  PROVE  /\ ~BitClear(224 + q, 32) /\ BitClear(224 + q, 16)
         /\ (224 + q) % 16 = q /\ ~(224 + q <= 127)
<1>1. (224 + q) \div 32 = 7 /\ 7 % 2 = 1 /\ (224 + q) \div 16 = 14 /\ 14 % 2 = 0
  OBVIOUS
<1>2. (224 + q) % 16 = q
  OBVIOUS
<1> QED
  BY <1>1, <1>2 DEF BitClear

LEMMA LeadFour ==
  ASSUME NEW q \in Nat, q < 5
  PROVE  /\ ~BitClear(240 + q, 32) /\ ~BitClear(240 + q, 16) /\ BitClear(240 + q, 8)
         /\ (240 + q) % 8 = q /\ ~(240 + q <= 127)
<1>1. /\ (240 + q) \div 32 = 7 /\ 7 % 2 = 1 /\ (240 + q) \div 16 = 15 /\ 15 % 2 = 1
      /\ (240 + q) \div 8 = 30 /\ 30 % 2 = 0
  OBVIOUS
<1>2. (240 + q) % 8 = q
  OBVIOUS
<1> QED
  BY <1>1, <1>2 DEF BitClear

LEMMA ContIs ==
  ASSUME NEW b \in Nat, b >= 128, b < 192
  PROVE  Cont(b) = b - 128
BY DEF Cont

(* Bytes that begin no mark. *)
LowBytes(f) ==
  /\ f \in Seq(Byte) /\ Len(f) >= 1 /\ Len(f) <= 4
  /\ \A i \in 1 .. Len(f) : f[i] < 254

LEMMA LowOne ==
  ASSUME NEW a \in Nat, a < 254
  PROVE  LowBytes(<<a>>)
<1>1. a \in Byte
  BY DEF Byte
<1>2. <<a>> \in Seq(Byte) /\ Len(<<a>>) = 1
  BY <1>1, Tuples
<1> QED
  BY <1>2 DEF LowBytes

LEMMA LowTwo ==
  ASSUME NEW a \in Nat, a < 254, NEW b \in Nat, b < 254
  PROVE  LowBytes(<<a, b>>)
<1>1. a \in Byte /\ b \in Byte
  BY DEF Byte
<1>2. <<a, b>> \in Seq(Byte) /\ Len(<<a, b>>) = 2
  BY <1>1, Tuples
<1> QED
  BY <1>2 DEF LowBytes

LEMMA LowThree ==
  ASSUME NEW a \in Nat, a < 254, NEW b \in Nat, b < 254, NEW c \in Nat, c < 254
  PROVE  LowBytes(<<a, b, c>>)
<1>1. a \in Byte /\ b \in Byte /\ c \in Byte
  BY DEF Byte
<1>2. <<a, b, c>> \in Seq(Byte) /\ Len(<<a, b, c>>) = 3
  BY <1>1, Tuples
<1> QED
  BY <1>2 DEF LowBytes

LEMMA LowFour ==
  ASSUME NEW a \in Nat, a < 254, NEW b \in Nat, b < 254, NEW c \in Nat, c < 254, NEW d \in Nat, d < 254
  PROVE  LowBytes(<<a, b, c, d>>)
<1>1. a \in Byte /\ b \in Byte /\ c \in Byte /\ d \in Byte
  BY DEF Byte
<1>2. <<a, b, c, d>> \in Seq(Byte) /\ Len(<<a, b, c, d>>) = 4
  BY <1>1, Tuples
<1> QED
  BY <1>2 DEF LowBytes

LEMMA UTF8Is ==
  ASSUME NEW c, Scalar(c)
  PROVE  /\ LowBytes(Form("UTF8", c))
         /\ c < 262144 => WriteUTF8(c) = Form("UTF8", c)
<1>1. c \in Nat /\ c <= 1114111
  BY ScalarIs
<1>2. PICK r \in Nat, s \in Nat, t \in Nat :
        /\ r = Six(c, 1) /\ s = Six(c, 64) /\ t = Six(c, 4096)
        /\ r < 64 /\ s < 64 /\ t < 64
  BY <1>1, SixDigits
<1>3. (c \div 1) % 64 = r /\ (c \div 64) % 64 = s /\ (c \div 4096) % 64 = t
  BY <1>2 DEF Six
<1>4. CASE c <= 127
  <2>1. Form("UTF8", c) = <<c>>
    BY <1>4, UTF8Cases
  <2>2. WriteUTF8(c) = <<c>>
    BY <1>1, <1>4 DEF WriteUTF8, AtMost
  <2>3. LowBytes(<<c>>)
    <3>1. c < 254
      BY <1>1, <1>4
    <3> QED
      BY <1>1, <3>1, LowOne
  <2> QED
    BY <2>1, <2>2, <2>3
<1>5. CASE c > 127 /\ c <= 2047
  <2>1. PICK q \in Nat : Above(c, 64) = q /\ q < 32
    BY <1>1, <1>5, TwoSix
  <2>2. Form("UTF8", c) = <<192 + q, 128 + r>>
    BY <1>2, <1>5, <2>1, UTF8Cases DEF TwoOf
  <2>3. q % 32 = q
    BY <2>1
  <2>4. WriteUTF8(c) = <<192 + ((c \div 64) % 32), 128 + ((c \div 1) % 64)>>
    BY <1>1, <1>5 DEF WriteUTF8, AtMost
  <2>5. WriteUTF8(c) = <<192 + q, 128 + r>>
    BY <1>3, <2>1, <2>3, <2>4 DEF Above
  <2>6. LowBytes(<<192 + q, 128 + r>>)
    BY <1>2, <2>1, LowTwo
  <2> QED
    BY <2>2, <2>5, <2>6
<1>6. CASE c > 2047 /\ c <= 65535
  <2>1. PICK q \in Nat : Above(c, 4096) = q /\ q < 16
    BY <1>1, <1>6, ThreeSix
  <2>2. Form("UTF8", c) = <<224 + q, 128 + s, 128 + r>>
    BY <1>2, <1>6, <2>1, UTF8Cases DEF ThreeOf
  <2>3. q % 16 = q
    BY <2>1
  <2>4. WriteUTF8(c) =
          <<224 + ((c \div 4096) % 16), 128 + ((c \div 64) % 64), 128 + ((c \div 1) % 64)>>
    BY <1>1, <1>6 DEF WriteUTF8, AtMost
  <2>5. WriteUTF8(c) = <<224 + q, 128 + s, 128 + r>>
    BY <1>3, <2>1, <2>3, <2>4 DEF Above
  <2>6. LowBytes(<<224 + q, 128 + s, 128 + r>>)
    BY <1>2, <2>1, LowThree
  <2> QED
    BY <2>2, <2>5, <2>6
<1>7. CASE c > 65535
  <2>1. PICK q \in Nat : Above(c, 262144) = q /\ q < 5 /\ (c < 262144 => q = 0)
    BY <1>1, FourSix
  <2>2. Form("UTF8", c) = <<240 + q, 128 + t, 128 + s, 128 + r>>
    BY <1>2, <1>7, <2>1, UTF8Cases DEF FourOf
  <2>3. 240 + ((c \div 16777216) % 8) = 240
    BY <1>1, LeadIsLost
  <2>4. WriteUTF8(c) =
          <<240 + ((c \div 16777216) % 8), 128 + ((c \div 4096) % 64),
            128 + ((c \div 64) % 64), 128 + ((c \div 1) % 64)>>
    BY <1>1, <1>7 DEF WriteUTF8, AtMost
  <2>5. c < 262144 => WriteUTF8(c) = <<240 + q, 128 + t, 128 + s, 128 + r>>
    BY <1>3, <2>1, <2>3, <2>4
  <2>6. LowBytes(<<240 + q, 128 + t, 128 + s, 128 + r>>)
    BY <1>2, <2>1, LowFour
  <2> QED
    BY <2>2, <2>5, <2>6
<1> QED
  BY <1>1, <1>4, <1>5, <1>6, <1>7

(* b begins with the bytes of f. *)
Begins(b, f) ==
  Len(b) \in Nat /\ Len(b) >= Len(f) /\ \A i \in 1 .. Len(f) : b[i] = f[i]

LEMMA BeginsOne ==
  ASSUME NEW b, NEW x, Begins(b, <<x>>)
  PROVE  b[1] = x
BY DEF Begins

LEMMA BeginsTwo ==
  ASSUME NEW b, NEW x, NEW y, Begins(b, <<x, y>>)
  PROVE  b[1] = x /\ b[2] = y /\ Len(b) \in Nat /\ Len(b) > 1
BY DEF Begins

LEMMA BeginsThree ==
  ASSUME NEW b, NEW x, NEW y, NEW z, Begins(b, <<x, y, z>>)
  PROVE  b[1] = x /\ b[2] = y /\ b[3] = z /\ Len(b) \in Nat /\ Len(b) > 2
BY DEF Begins

LEMMA BeginsFour ==
  ASSUME NEW b, NEW x, NEW y, NEW z, NEW w, Begins(b, <<x, y, z, w>>)
  PROVE  b[1] = x /\ b[2] = y /\ b[3] = z /\ b[4] = w /\ Len(b) \in Nat /\ Len(b) > 3
BY DEF Begins

LEMMA ReadsOne ==
  ASSUME NEW c \in Nat, c <= 127, NEW b, Begins(b, <<c>>)
  PROVE  ReadUTF8(b) = Read(Len(<<c>>), c)
<1>1. b[1] = c /\ Len(<<c>>) = 1
  BY BeginsOne
<1> QED
  BY <1>1 DEF ReadUTF8

LEMMA ReadsTwo ==
  ASSUME NEW c \in Nat, c <= 2047, NEW b, Begins(b, TwoOf(c))
  PROVE  ReadUTF8(b) = Read(Len(TwoOf(c)), c)
<1>1. PICK q \in Nat : /\ Above(c, 64) = q /\ q < 32
                       /\ q * 64 + Six(c, 1) = c
  BY TwoSix
<1>2. PICK r \in Nat :
        /\ r = Six(c, 1)
        /\ r < 64
  BY SixDigits
<1>3. TwoOf(c) = <<192 + q, 128 + r>>
  BY <1>1, <1>2 DEF TwoOf
<1>4. q * 64 + r = c
  BY <1>1, <1>2
<1>5. q < 32
  BY <1>1
<1>6. b[1] = 192 + q /\ b[2] = 128 + r /\ Len(b) > 1
  BY <1>3, BeginsTwo
<1>7. BitClear(192 + q, 32) /\ (192 + q) % 32 = q /\ ~(192 + q <= 127)
  BY <1>5, LeadTwo
<1>8. Cont(128 + r) = r
  BY <1>2, ContIs
<1>9. ReadUTF8(b) = Read(2, q * 64 + r)
  <2>1. ~(b[1] <= 127) /\ BitClear(b[1], 32) /\ b[1] % 32 = q
    BY <1>6, <1>7
  <2>2. Cont(b[2]) = r
    BY <1>6, <1>8
  <2>3. Len(b) > 1
    BY <1>6
  <2> QED
    BY <2>1, <2>2, <2>3 DEF ReadUTF8
<1>10. Len(TwoOf(c)) = 2
  BY DEF TwoOf
<1> QED
  BY <1>4, <1>9, <1>10

LEMMA ReadsThree ==
  ASSUME NEW c \in Nat, c <= 65535, NEW b, Begins(b, ThreeOf(c))
  PROVE  ReadUTF8(b) = Read(Len(ThreeOf(c)), c)
<1>1. PICK q \in Nat : /\ Above(c, 4096) = q /\ q < 16
                       /\ q * 4096 + Six(c, 64) * 64 + Six(c, 1) = c
  BY ThreeSix
<1>2. PICK r \in Nat, s \in Nat :
        /\ r = Six(c, 1) /\ s = Six(c, 64)
        /\ r < 64 /\ s < 64
  BY SixDigits
<1>3. ThreeOf(c) = <<224 + q, 128 + s, 128 + r>>
  BY <1>1, <1>2 DEF ThreeOf
<1>4. q * 4096 + s * 64 + r = c
  BY <1>1, <1>2
<1>5. q < 16
  BY <1>1
<1>6. b[1] = 224 + q /\ b[2] = 128 + s /\ b[3] = 128 + r /\ Len(b) > 2
  BY <1>3, BeginsThree
<1>7. ~BitClear(224 + q, 32) /\ BitClear(224 + q, 16) /\ (224 + q) % 16 = q /\ ~(224 + q <= 127)
  BY <1>5, LeadThree
<1>8. Cont(128 + s) = s /\ Cont(128 + r) = r
  BY <1>2, ContIs
<1>9. ReadUTF8(b) = Read(3, q * 4096 + s * 64 + r)
  <2>1. ~(b[1] <= 127) /\ ~BitClear(b[1], 32) /\ BitClear(b[1], 16) /\ b[1] % 16 = q
    BY <1>6, <1>7
  <2>2. Cont(b[2]) = s /\ Cont(b[3]) = r
    BY <1>6, <1>8
  <2>3. Len(b) > 2
    BY <1>6
  <2> QED
    BY <2>1, <2>2, <2>3 DEF ReadUTF8
<1>10. Len(ThreeOf(c)) = 3
  BY DEF ThreeOf
<1> QED
  BY <1>4, <1>9, <1>10

LEMMA ReadsFour ==
  ASSUME NEW c \in Nat, c <= 1114111, NEW b, Begins(b, FourOf(c))
  PROVE  ReadUTF8(b) = Read(Len(FourOf(c)), c)
<1>1. PICK q \in Nat : /\ Above(c, 262144) = q /\ q < 5
                       /\ q * 262144 + Six(c, 4096) * 4096 + Six(c, 64) * 64 + Six(c, 1) = c
  BY FourSix
<1>2. PICK r \in Nat, s \in Nat, t \in Nat :
        /\ r = Six(c, 1) /\ s = Six(c, 64) /\ t = Six(c, 4096)
        /\ r < 64 /\ s < 64 /\ t < 64
  BY SixDigits
<1>3. FourOf(c) = <<240 + q, 128 + t, 128 + s, 128 + r>>
  BY <1>1, <1>2 DEF FourOf
<1>4. q * 262144 + t * 4096 + s * 64 + r = c
  BY <1>1, <1>2
<1>5. q < 5
  BY <1>1
<1>6. b[1] = 240 + q /\ b[2] = 128 + t /\ b[3] = 128 + s /\ b[4] = 128 + r /\ Len(b) > 3
  BY <1>3, BeginsFour
<1>7. ~BitClear(240 + q, 32) /\ ~BitClear(240 + q, 16) /\ BitClear(240 + q, 8) /\ (240 + q) % 8 = q /\ ~(240 + q <= 127)
  BY <1>5, LeadFour
<1>8. Cont(128 + t) = t /\ Cont(128 + s) = s /\ Cont(128 + r) = r
  BY <1>2, ContIs
<1>9. ReadUTF8(b) = Read(4, q * 262144 + t * 4096 + s * 64 + r)
  <2>1. ~(b[1] <= 127) /\ ~BitClear(b[1], 32) /\ ~BitClear(b[1], 16) /\ BitClear(b[1], 8) /\ b[1] % 8 = q
    BY <1>6, <1>7
  <2>2. Cont(b[2]) = t /\ Cont(b[3]) = s /\ Cont(b[4]) = r
    BY <1>6, <1>8
  <2>3. Len(b) > 3
    BY <1>6
  <2> QED
    BY <2>1, <2>2, <2>3 DEF ReadUTF8
<1>10. Len(FourOf(c)) = 4
  BY DEF FourOf
<1> QED
  BY <1>4, <1>9, <1>10

LEMMA FormIsRead ==
  ASSUME NEW c, Scalar(c), NEW b, Begins(b, Form("UTF8", c))
  PROVE  ReadUTF8(b) = Read(Len(Form("UTF8", c)), c)
<1>1. c \in Nat /\ c <= 1114111
  BY ScalarIs
<1>2. CASE c <= 127
  <2>1. Form("UTF8", c) = <<c>>
    BY <1>2, UTF8Cases
  <2>2. Begins(b, <<c>>)
    BY <2>1
  <2>3. ReadUTF8(b) = Read(Len(<<c>>), c)
    BY <1>1, <1>2, <2>2, ReadsOne
  <2> QED
    BY <2>1, <2>3
<1>3. CASE c > 127 /\ c <= 2047
  <2>1. Form("UTF8", c) = TwoOf(c)
    BY <1>3, UTF8Cases
  <2> QED
    BY <1>1, <1>3, <2>1, ReadsTwo
<1>4. CASE c > 2047 /\ c <= 65535
  <2>1. Form("UTF8", c) = ThreeOf(c)
    BY <1>4, UTF8Cases
  <2> QED
    BY <1>1, <1>4, <2>1, ReadsThree
<1>5. CASE c > 65535
  <2>1. Form("UTF8", c) = FourOf(c)
    BY <1>5, UTF8Cases
  <2> QED
    BY <1>1, <1>5, <2>1, ReadsFour
<1> QED
  BY <1>1, <1>2, <1>3, <1>4, <1>5

LEMMA UTF8IsRead ==
  ASSUME NEW c, Scalar(c), NEW b, Len(b) \in Nat, Len(b) >= Len(Form("UTF8", c)),
         \A i \in 1 .. Len(Form("UTF8", c)) : b[i] = Form("UTF8", c)[i]
  PROVE  ReadUTF8(b) = Read(Len(Form("UTF8", c)), c)
<1>1. Begins(b, Form("UTF8", c))
  BY DEF Begins
<1> QED
  BY <1>1, FormIsRead


----------------------------------------------------------------------------
(* A text read and written as the definition says.                         *)

LEMMA EncodingIs ==
  ASSUME NEW enc \in Encoding
  PROVE  \/ enc \in UTF32 /\ enc \notin UTF16 /\ enc # "UTF8"
         \/ enc \in UTF16 /\ enc \notin UTF32 /\ enc # "UTF8"
         \/ enc = "UTF8" /\ enc \notin UTF16 /\ enc \notin UTF32
BY DEF Encoding, UTF16, UTF32

LEMMA FormType ==
  ASSUME NEW enc \in Encoding, NEW c, Scalar(c)
  PROVE  /\ Form(enc, c) \in Seq(Byte) /\ Len(Form(enc, c)) \in Nat
         /\ Len(Form(enc, c)) >= 1 /\ Len(Form(enc, c)) <= 4
         /\ enc \in UTF16 => Len(Form(enc, c)) >= 2
<1>1. CASE enc \in UTF32
  BY <1>1, EncodingIs, UTF32Is
<1>2. CASE enc \in UTF16
  <2>1. c \in Nat
    BY ScalarIs
  <2>2. CASE c < 65536
    <3>1. Form(enc, c) \in Seq(Byte) /\ Len(Form(enc, c)) = 2
      BY <1>2, <2>2, OneUnitIs
    <3> QED
      BY <3>1
  <2>3. CASE c >= 65536
    <3>1. Form(enc, c) \in Seq(Byte) /\ Len(Form(enc, c)) = 4
      BY <1>2, <2>3, TwoUnitsAre
    <3> QED
      BY <3>1
  <2> QED
    BY <2>1, <2>2, <2>3
<1>3. CASE enc = "UTF8"
  <2>1. LowBytes(Form("UTF8", c))
    BY UTF8Is
  <2> QED
    BY <1>3, <2>1, EncodingIs, LenProperties DEF LowBytes
<1> QED
  BY <1>1, <1>2, <1>3, EncodingIs

(* write_codepoint writes a character as the encoding says. *)
LEMMA WriteIsForm ==
  ASSUME NEW enc \in Encoding, NEW c, Scalar(c), enc = "UTF8" => c < 262144
  PROVE  WriteCodepoint(enc, c) = Form(enc, c)
<1>1. CASE enc \in UTF32
  BY <1>1, EncodingIs, UTF32Is DEF WriteCodepoint
<1>2. CASE enc \in UTF16
  <2>1. WriteCodepoint(enc, c) = WriteUTF16(enc, c)
    BY <1>2, EncodingIs DEF WriteCodepoint
  <2>2. c \in Nat
    BY ScalarIs
  <2>3. CASE c < 65536
    BY <1>2, <2>1, <2>3, OneUnitIs
  <2>4. CASE c >= 65536
    BY <1>2, <2>1, <2>4, TwoUnitsAre
  <2> QED
    BY <2>2, <2>3, <2>4
<1>3. CASE enc = "UTF8"
  BY <1>3, EncodingIs, UTF8Is DEF WriteCodepoint
<1> QED
  BY <1>1, <1>2, <1>3, EncodingIs

LEMMA RustReadCases ==
  ASSUME NEW enc, NEW b
  PROVE  RustRead(enc, b) =
           IF (enc \in UTF16 /\ Len(b) < 2) \/ (enc = "UTF8" /\ b = <<>>) THEN Nothing
           ELSE IF enc \in UTF32 THEN IF Len(b) >= 4 THEN ReadUTF32(enc, b) ELSE Nothing
           ELSE IF enc \in UTF16 THEN ReadUTF16(enc, b) ELSE ReadUTF8(b)
<1>1. /\ Rust!OutOfBounds(enc, b) <=>
           (enc \in UTF16 /\ Len(b) < 2) \/ (enc = "UTF8" /\ b = <<>>)
      /\ Rust!read_codepoint(enc, b) =
           IF enc \in UTF32 THEN IF Len(b) >= 4 THEN ReadUTF32(enc, b) ELSE Nothing
           ELSE IF enc \in UTF16 THEN ReadUTF16(enc, b) ELSE ReadUTF8(b)
  BY RustFacts, Zenon
<1> QED
  BY <1>1 DEF RustRead

(* The Rust read_codepoint reads it back, whatever comes after it.         *)
LEMMA RustReadsForm ==
  ASSUME NEW enc \in Encoding, NEW c, Scalar(c), enc \in UTF16 => c # 57344,
         NEW t \in Seq(Byte)
  PROVE  RustRead(enc, Form(enc, c) \o t) = Read(Len(Form(enc, c)), c)
<1> DEFINE f == Form(enc, c)
           b == f \o t
<1>1. /\ f \in Seq(Byte) /\ Len(f) \in Nat /\ Len(f) >= 1 /\ (enc \in UTF16 => Len(f) >= 2)
  BY FormType
<1>2. Len(t) \in Nat
  BY LenProperties
<1> HIDE DEF f
<1>3. /\ b \in Seq(Byte) /\ Len(b) \in Nat /\ Len(b) >= Len(f)
      /\ \A i \in 1 .. Len(f) : b[i] = f[i]
  <2>1. /\ f \o t \in Seq(Byte) /\ Len(f \o t) = Len(f) + Len(t)
        /\ \A i \in 1 .. Len(f) + Len(t) :
             (f \o t)[i] = IF i <= Len(f) THEN f[i] ELSE t[i - Len(f)]
    BY <1>1, ConcatProperties
  <2> QED
    BY <1>1, <1>2, <2>1
<1> HIDE DEF b
<1>4. RustRead(enc, b) =
        IF (enc \in UTF16 /\ Len(b) < 2) \/ (enc = "UTF8" /\ b = <<>>) THEN Nothing
        ELSE IF enc \in UTF32 THEN IF Len(b) >= 4 THEN ReadUTF32(enc, b) ELSE Nothing
        ELSE IF enc \in UTF16 THEN ReadUTF16(enc, b) ELSE ReadUTF8(b)
  BY RustReadCases
<1>5. CASE enc \in UTF32
  <2>1. Len(f) = 4
    BY <1>5, UTF32Is DEF f
  <2>2. ReadUTF32(enc, b) = Read(4, c)
    <3>1. \A i \in 1 .. 4 : b[i] = Form(enc, c)[i]
      BY <1>3, <2>1 DEF f
    <3> QED
      BY <1>5, <3>1, UTF32IsRead
  <2>3. enc \notin UTF16 /\ enc # "UTF8" /\ Len(b) >= 4
    BY <1>3, <1>5, <2>1, EncodingIs
  <2> QED
    BY <1>4, <1>5, <2>1, <2>2, <2>3 DEF b, f
<1>6. CASE enc \in UTF16
  <2>1. ReadUTF16(enc, b) = Read(Len(f), c)
    BY <1>3, <1>6, UTF16IsRead DEF f
  <2>2. enc \notin UTF32 /\ enc # "UTF8"
    BY <1>6, EncodingIs
  <2>3. ~(Len(b) < 2)
    BY <1>1, <1>3, <1>6
  <2> QED
    BY <1>4, <1>6, <2>1, <2>2, <2>3 DEF b, f
<1>7. CASE enc = "UTF8"
  <2>1. ReadUTF8(b) = Read(Len(f), c)
    BY <1>3, <1>7, UTF8IsRead DEF f
  <2>2. enc \notin UTF32 /\ enc \notin UTF16
    BY <1>7, EncodingIs
  <2>3. b # <<>>
    BY <1>1, <1>3, EmptySeq
  <2> QED
    BY <1>4, <1>7, <2>1, <2>2, <2>3 DEF b, f
<1> QED
  BY <1>5, <1>6, <1>7, EncodingIs

(* So does the C one, but for a unit above E000 that is the last.          *)
LEMMA CReadsForm ==
  ASSUME NEW enc \in Encoding, NEW c, Scalar(c), enc \in UTF16 => c # 57344,
         NEW t \in Seq(Byte), enc \in UTF16 => c < 57345 \/ c > 65535 \/ Len(t) >= 2
  PROVE  ReadCodepoint(enc, Form(enc, c) \o t) = Read(Len(Form(enc, c)), c)
<1> DEFINE f == Form(enc, c)
           b == f \o t
<1>1. /\ f \in Seq(Byte) /\ Len(f) \in Nat /\ Len(f) >= 1 /\ (enc \in UTF16 => Len(f) >= 2)
  BY FormType
<1>2. Len(t) \in Nat /\ c \in Nat
  BY LenProperties, ScalarIs
<1> HIDE DEF f
<1>3. /\ b \in Seq(Byte) /\ Len(b) = Len(f) + Len(t)
      /\ \A i \in 1 .. Len(f) : b[i] = f[i]
  <2>1. /\ f \o t \in Seq(Byte) /\ Len(f \o t) = Len(f) + Len(t)
        /\ \A i \in 1 .. Len(f) + Len(t) :
             (f \o t)[i] = IF i <= Len(f) THEN f[i] ELSE t[i - Len(f)]
    BY <1>1, ConcatProperties
  <2> QED
    BY <1>1, <1>2, <2>1
<1> HIDE DEF b
<1>4. ~LastUnit(enc, b)
  <2> SUFFICES ASSUME LastUnit(enc, b) PROVE FALSE
    OBVIOUS
  <2>1. enc \in UTF16 /\ Len(b) < 4 /\ Unit(enc, b, 1) > 57344
    BY DEF LastUnit
  <2>2. /\ c < 65536 => Unit(enc, b, 1) = c
        /\ c >= 65536 => Len(b) >= 4
    <3>1. Len(b) \in Nat /\ Len(b) >= Len(Form(enc, c))
          /\ \A i \in 1 .. Len(Form(enc, c)) : b[i] = Form(enc, c)[i]
      BY <1>1, <1>2, <1>3 DEF f
    <3> QED
      BY <2>1, <3>1, UTF16IsRead
  <2>3. ~(Len(t) >= 2)
    BY <1>1, <1>2, <1>3, <2>1
  <2>4. c < 65536
    BY <1>1, <1>2, <1>3, <2>1, <2>2
  <2> QED
    BY <1>2, <2>1, <2>2, <2>3, <2>4
<1>5. RustRead(enc, b) = ReadCodepoint(enc, b)
  BY <1>3, <1>4, RustReadIsRead
<1>6. RustRead(enc, b) = Read(Len(f), c)
  BY RustReadsForm DEF b, f
<1> QED
  BY <1>5, <1>6 DEF b, f

LEMMA DropJoined ==
  ASSUME NEW s \in Seq(Byte), NEW t \in Seq(Byte)
  PROVE  Drop(s \o t, Len(s)) = t
<1>1. Len(s) \in 0 .. Len(s)
  BY LenProperties
<1>2. Drop(s \o t, Len(s)) = Drop(s, Len(s)) \o t
  BY <1>1, DropOfJoin
<1>3. Drop(s, Len(s)) \in Seq(Byte) /\ Len(Drop(s, Len(s))) = Len(s) - Len(s)
  BY <1>1, Pieces
<1>4. Drop(s, Len(s)) = <<>>
  BY <1>1, <1>3, EmptySeq
<1> QED
  BY <1>2, <1>4, ConcatEmptySeq


(* The texts that can be read in an encoding and written in another.       *)
Readable(from, text) ==
  /\ text \in Seq(Int)
  /\ \A i \in 1 .. Len(text) : Scalar(text[i]) /\ (from \in UTF16 => text[i] # 57344)

Writable(to, text) == to = "UTF8" => \A i \in 1 .. Len(text) : text[i] < 262144

LastIsSeen(from, text) ==
  from \in UTF16 /\ text # <<>> => text[Len(text)] < 57345 \/ text[Len(text)] > 65535

LEMMA HeadAndTail ==
  ASSUME NEW text \in Seq(Int), text # <<>>
  PROVE  /\ Len(text) \in Nat /\ Len(text) >= 1
         /\ Head(text) = text[1] /\ Head(text) \in Int /\ Tail(text) \in Seq(Int)
         /\ Len(Tail(text)) = Len(text) - 1 /\ Len(Tail(text)) < Len(text)
         /\ \A i \in 1 .. Len(text) - 1 :
              Tail(text)[i] = text[i + 1] /\ i + 1 \in 1 .. Len(text)
BY LenProperties, EmptySeq, HeadTailProperties

LEMMA HeadRead ==
  ASSUME NEW from, NEW text, Readable(from, text), text # <<>>
  PROVE  Scalar(Head(text)) /\ Readable(from, Tail(text))
<1>1. text \in Seq(Int)
  BY DEF Readable
<1>2. 1 \in 1 .. Len(text)
  BY <1>1, HeadAndTail
<1>3. Scalar(Head(text))
  BY <1>1, <1>2, HeadAndTail DEF Readable
<1>4. Readable(from, Tail(text))
  BY <1>1, HeadAndTail DEF Readable
<1> QED
  BY <1>3, <1>4

LEMMA HeadNoMark ==
  ASSUME NEW from \in UTF16, NEW text, Readable(from, text), text # <<>>
  PROVE  Head(text) # 57344
<1>1. text \in Seq(Int)
  BY DEF Readable
<1>2. 1 \in 1 .. Len(text)
  BY <1>1, HeadAndTail
<1> QED
  BY <1>1, <1>2, HeadAndTail DEF Readable

LEMMA HeadWritten ==
  ASSUME NEW to, NEW text \in Seq(Int), Writable(to, text), text # <<>>
  PROVE  Writable(to, Tail(text)) /\ (to = "UTF8" => Head(text) < 262144)
<1>1. 1 \in 1 .. Len(text)
  BY HeadAndTail
<1> QED
  BY <1>1, HeadAndTail DEF Writable

LEMMA LastOfTail ==
  ASSUME NEW text \in Seq(Int), text # <<>>, Tail(text) # <<>>
  PROVE  Tail(text)[Len(Tail(text))] = text[Len(text)]
<1>1. Len(Tail(text)) # 0 /\ Len(Tail(text)) \in Nat
  BY HeadAndTail, EmptySeq, LenProperties
<1>2. Len(text) - 1 \in 1 .. Len(text) - 1 /\ (Len(text) - 1) + 1 = Len(text)
  BY <1>1, HeadAndTail
<1>3. Tail(text)[Len(text) - 1] = text[(Len(text) - 1) + 1]
  BY <1>2, HeadAndTail
<1>4. Len(Tail(text)) = Len(text) - 1
  BY HeadAndTail
<1> QED
  BY <1>2, <1>3, <1>4

LEMMA OnlyOne ==
  ASSUME NEW text \in Seq(Int), text # <<>>, Tail(text) = <<>>
  PROVE  text[Len(text)] = Head(text)
<1>1. Len(Tail(text)) = 0
  BY EmptySeq
<1>2. Len(Tail(text)) = Len(text) - 1 /\ Len(text) \in Nat
  BY HeadAndTail
<1>3. Len(text) = 1
  BY <1>1, <1>2
<1>4. Head(text) = text[1]
  BY HeadAndTail
<1> QED
  BY <1>3, <1>4

LEMMA TailSeen ==
  ASSUME NEW from, NEW text \in Seq(Int), text # <<>>, LastIsSeen(from, text)
  PROVE  LastIsSeen(from, Tail(text))
<1> SUFFICES ASSUME from \in UTF16, Tail(text) # <<>>
             PROVE  Tail(text)[Len(Tail(text))] < 57345 \/ Tail(text)[Len(Tail(text))] > 65535
  BY DEF LastIsSeen
<1>1. text[Len(text)] < 57345 \/ text[Len(text)] > 65535
  BY DEF LastIsSeen
<1>2. Tail(text)[Len(Tail(text))] = text[Len(text)]
  BY LastOfTail
<1> QED
  BY <1>1, <1>2

LEMMA HeadSeen ==
  ASSUME NEW from \in UTF16, NEW text \in Seq(Int), text # <<>>, LastIsSeen(from, text),
         Tail(text) = <<>>
  PROVE  Head(text) < 57345 \/ Head(text) > 65535
<1>1. text[Len(text)] < 57345 \/ text[Len(text)] > 65535
  BY DEF LastIsSeen
<1>2. text[Len(text)] = Head(text)
  BY OnlyOne
<1> QED
  BY <1>1, <1>2

LEMMA NothingIsRead ==
  ASSUME NEW enc \in Encoding
  PROVE  ReadCodepoint(enc, <<>>).n = 0 /\ RustRead(enc, <<>>).n = 0
<1>1. PICK b \in Seq(Byte) : b = <<>>
  BY EmptySeq
<1>2. Len(b) = 0
  BY <1>1, EmptySeq
<1>3. ReadCodepoint(enc, b).n \in 0 .. 4 /\ ReadCodepoint(enc, b).n <= Len(b)
  BY ReadBounds
<1>4. RustRead(enc, b).n \in 0 .. 4 /\ RustRead(enc, b).n <= Len(b)
  BY RustReadBounds
<1>5. ReadCodepoint(enc, b).n = 0 /\ RustRead(enc, b).n = 0
  BY <1>2, <1>3, <1>4
<1> QED
  BY <1>1, <1>5

LEMMA EncodedType ==
  ASSUME NEW enc \in Encoding, NEW text, Readable("UTF8", text)
  PROVE  /\ Encoded(enc)[text] \in Seq(Byte)
         /\ text # <<>> /\ enc \in UTF16 => Len(Encoded(enc)[text]) >= 2
<1> DEFINE E(s) == Encoded(enc)[s]
           T == {s \in Seq(Int) : Readable("UTF8", s) =>
                   /\ E(s) \in Seq(Byte)
                   /\ s # <<>> /\ enc \in UTF16 => Len(E(s)) >= 2}
<1>1. ASSUME NEW s \in Seq(Int), \A u \in Seq(Int) : Len(u) < Len(s) => u \in T
      PROVE  s \in T
  <2> SUFFICES ASSUME Readable("UTF8", s)
               PROVE  E(s) \in Seq(Byte) /\ (s # <<>> /\ enc \in UTF16 => Len(E(s)) >= 2)
    OBVIOUS
  <2>1. E(s) = IF s = <<>> THEN <<>> ELSE Form(enc, Head(s)) \o E(Tail(s))
    BY EncodedUnfold
  <2> HIDE DEF E
  <2>2. CASE s = <<>>
    BY <2>1, <2>2, EmptySeq
  <2>3. CASE s # <<>>
    <3>1. Scalar(Head(s)) /\ Readable("UTF8", Tail(s))
      BY <2>3, HeadRead
    <3>2. Len(Tail(s)) < Len(s) /\ Tail(s) \in Seq(Int)
      BY <2>3, HeadAndTail
    <3>3. E(Tail(s)) \in Seq(Byte)
      BY <1>1, <3>1, <3>2
    <3>4. /\ Form(enc, Head(s)) \in Seq(Byte) /\ Len(Form(enc, Head(s))) \in Nat
          /\ enc \in UTF16 => Len(Form(enc, Head(s))) >= 2
      BY <3>1, FormType
    <3>5. /\ Form(enc, Head(s)) \o E(Tail(s)) \in Seq(Byte)
          /\ Len(Form(enc, Head(s)) \o E(Tail(s))) = Len(Form(enc, Head(s))) + Len(E(Tail(s)))
          /\ Len(E(Tail(s))) \in Nat
      BY <3>3, <3>4, ConcatProperties, LenProperties
    <3> QED
      BY <2>1, <2>3, <3>4, <3>5
  <2> QED
    BY <2>2, <2>3
<1> HIDE DEF T
<1>2. Seq(Int) \subseteq T
  BY <1>1, LengthInduction
<1>3. text \in Seq(Int)
  BY DEF Readable
<1> QED
  BY <1>2, <1>3 DEF T

LEMMA EncodedIsLong ==
  ASSUME NEW enc \in UTF16, NEW text, Readable("UTF8", text), text # <<>>
  PROVE  Encoded(enc)[text] \in Seq(Byte) /\ Len(Encoded(enc)[text]) >= 2
<1>1. enc \in Encoding
  BY DEF UTF16, Encoding
<1> QED
  BY <1>1, EncodedType

LEMMA ReadableIsText ==
  ASSUME NEW from, NEW text, Readable(from, text)
  PROVE  Readable("UTF8", text)
BY DEF Readable, UTF16

(* The Rust program converts a text to the encoding asked for.             *)
LEMMA RustConvertsText ==
  ASSUME NEW from \in Encoding, NEW to \in Encoding, NEW text,
         Readable(from, text), Writable(to, text)
  PROVE  RustConvert(from, to)[Encoded(from)[text]] = Encoded(to)[text]
<1> DEFINE E(s) == Encoded(from)[s]
           C(b) == RustConvert(from, to)[b]
           T == {s \in Seq(Int) : Readable(from, s) /\ Writable(to, s) =>
                   C(E(s)) = Encoded(to)[s]}
<1>1. ASSUME NEW s \in Seq(Int), \A u \in Seq(Int) : Len(u) < Len(s) => u \in T
      PROVE  s \in T
  <2> SUFFICES ASSUME Readable(from, s), Writable(to, s) PROVE C(E(s)) = Encoded(to)[s]
    OBVIOUS
  <2>1. /\ E(s) = IF s = <<>> THEN <<>> ELSE Form(from, Head(s)) \o E(Tail(s))
        /\ Encoded(to)[s] = IF s = <<>> THEN <<>> ELSE Form(to, Head(s)) \o Encoded(to)[Tail(s)]
    BY EncodedUnfold
  <2>2. \A b \in Seq(Byte) :
          C(b) = IF RustRead(from, b).n = 0 THEN <<>>
                 ELSE WriteCodepoint(to, RustRead(from, b).cp) \o C(Drop(b, RustRead(from, b).n))
    BY RustConvertUnfold
  <2>3. CASE s = <<>>
    <3>1. E(s) = <<>> /\ <<>> \in Seq(Byte) /\ Len(<<>>) = 0
      BY <2>1, <2>3, EmptySeq
    <3>2. RustRead(from, <<>>).n = 0
      BY NothingIsRead
    <3> HIDE DEF E, C
    <3> QED
      BY <2>1, <2>2, <2>3, <3>1, <3>2
  <2>4. CASE s # <<>>
    <3>0. Tail(s) \in Seq(Int) /\ Len(Tail(s)) < Len(s)
      BY <2>4, HeadAndTail
    <3>01. Tail(s) \in T
      BY <1>1, <3>0
    <3>02. Readable(from, Tail(s)) /\ Writable(to, Tail(s)) =>
             C(E(Tail(s))) = Encoded(to)[Tail(s)]
      BY <3>01
    <3> HIDE DEF T, E, C
    <3> DEFINE c == Head(s)
               f == Form(from, c)
               e == E(Tail(s))
    <3>1. /\ Scalar(c) /\ (from \in UTF16 => c # 57344) /\ (to = "UTF8" => c < 262144)
          /\ Readable(from, Tail(s)) /\ Writable(to, Tail(s))
      BY <2>4, HeadRead, HeadNoMark, HeadWritten, TailSeen, HeadSeen
    <3>2. C(e) = Encoded(to)[Tail(s)]
      BY <3>02, <3>1
    <3>3. e \in Seq(Byte)
      BY <3>1, EncodedType, ReadableIsText DEF E
    <3>4. f \in Seq(Byte) /\ Len(f) \in Nat /\ Len(f) >= 1
      BY <3>1, FormType
    <3>5. RustRead(from, f \o e) = Read(Len(f), c)
      BY <3>1, <3>3, RustReadsForm
    <3>6. WriteCodepoint(to, c) = Form(to, c)
      BY <3>1, WriteIsForm
    <3>7. E(s) = f \o e /\ Encoded(to)[s] = Form(to, c) \o Encoded(to)[Tail(s)]
      BY <2>1, <2>4
    <3> HIDE DEF c, f, e
    <3>8. f \o e \in Seq(Byte) /\ Drop(f \o e, Len(f)) = e
      BY <3>3, <3>4, ConcatProperties, DropJoined
    <3>9. Read(Len(f), c).n = Len(f) /\ Read(Len(f), c).cp = c
      BY DEF Read
    <3>10. RustRead(from, f \o e).n = Len(f) /\ RustRead(from, f \o e).cp = c
      BY <3>5, <3>9
    <3>11. Len(f) # 0
      BY <3>4
    <3>12. C(f \o e) = WriteCodepoint(to, c) \o C(e)
      BY <2>2, <3>8, <3>10, <3>11
    <3> QED
      BY <3>2, <3>6, <3>7, <3>12
  <2> QED
    BY <2>3, <2>4
<1> HIDE DEF T
<1>2. Seq(Int) \subseteq T
  BY <1>1, LengthInduction
<1>3. text \in Seq(Int)
  BY DEF Readable
<1> QED
  BY <1>2, <1>3 DEF T

(* So does the C one, when it sees the last character. *)
LEMMA ConvertsText ==
  ASSUME NEW from \in Encoding, NEW to \in Encoding, NEW text,
         Readable(from, text), Writable(to, text), LastIsSeen(from, text)
  PROVE  Convert(from, to)[Encoded(from)[text]] = Encoded(to)[text]
<1> DEFINE E(s) == Encoded(from)[s]
           C(b) == Convert(from, to)[b]
           T == {s \in Seq(Int) : Readable(from, s) /\ Writable(to, s) /\ LastIsSeen(from, s) =>
                   C(E(s)) = Encoded(to)[s]}
<1>1. ASSUME NEW s \in Seq(Int), \A u \in Seq(Int) : Len(u) < Len(s) => u \in T
      PROVE  s \in T
  <2> SUFFICES ASSUME Readable(from, s), Writable(to, s), LastIsSeen(from, s)
               PROVE  C(E(s)) = Encoded(to)[s]
    OBVIOUS
  <2>1. /\ E(s) = IF s = <<>> THEN <<>> ELSE Form(from, Head(s)) \o E(Tail(s))
        /\ Encoded(to)[s] = IF s = <<>> THEN <<>> ELSE Form(to, Head(s)) \o Encoded(to)[Tail(s)]
    BY EncodedUnfold
  <2>2. \A b \in Seq(Byte) :
          C(b) = IF ReadCodepoint(from, b).n = 0 THEN <<>>
                 ELSE WriteCodepoint(to, ReadCodepoint(from, b).cp)
                        \o C(Drop(b, ReadCodepoint(from, b).n))
    BY ConvertUnfold
  <2>3. CASE s = <<>>
    <3>1. E(s) = <<>> /\ <<>> \in Seq(Byte) /\ Len(<<>>) = 0
      BY <2>1, <2>3, EmptySeq
    <3>2. ReadCodepoint(from, <<>>).n = 0
      BY NothingIsRead
    <3> HIDE DEF E, C
    <3> QED
      BY <2>1, <2>2, <2>3, <3>1, <3>2
  <2>4. CASE s # <<>>
    <3>0. Tail(s) \in Seq(Int) /\ Len(Tail(s)) < Len(s)
      BY <2>4, HeadAndTail
    <3>01. Tail(s) \in T
      BY <1>1, <3>0
    <3>02. Readable(from, Tail(s)) /\ Writable(to, Tail(s)) /\ LastIsSeen(from, Tail(s)) =>
             C(E(Tail(s))) = Encoded(to)[Tail(s)]
      BY <3>01
    <3> HIDE DEF T, E, C
    <3> DEFINE c == Head(s)
               f == Form(from, c)
               e == E(Tail(s))
    <3>1. /\ Scalar(c) /\ (from \in UTF16 => c # 57344) /\ (to = "UTF8" => c < 262144)
          /\ Readable(from, Tail(s)) /\ Writable(to, Tail(s)) /\ LastIsSeen(from, Tail(s))
          /\ from \in UTF16 /\ Tail(s) = <<>> => c < 57345 \/ c > 65535
      BY <2>4, HeadRead, HeadNoMark, HeadWritten, TailSeen, HeadSeen
    <3>2. C(e) = Encoded(to)[Tail(s)]
      BY <3>02, <3>1
    <3>3. e \in Seq(Byte) /\ (Tail(s) # <<>> /\ from \in UTF16 => Len(e) >= 2)
      <4>1. Readable("UTF8", Tail(s))
        BY <3>1, ReadableIsText
      <4>2. e \in Seq(Byte)
        BY <4>1, EncodedType DEF E
      <4>3. ASSUME Tail(s) # <<>>, from \in UTF16 PROVE Len(e) >= 2
        BY <4>1, <4>3, EncodedIsLong DEF E
      <4> QED
        BY <4>2, <4>3
    <3>4. f \in Seq(Byte) /\ Len(f) \in Nat /\ Len(f) >= 1
      BY <3>1, FormType
    <3>5. ReadCodepoint(from, f \o e) = Read(Len(f), c)
      <4>1. from \in UTF16 => c < 57345 \/ c > 65535 \/ Len(e) >= 2
        BY <3>1, <3>3
      <4> HIDE DEF e, c
      <4> QED
        BY <3>1, <3>3, <4>1, CReadsForm
    <3>6. WriteCodepoint(to, c) = Form(to, c)
      BY <3>1, WriteIsForm
    <3>7. E(s) = f \o e /\ Encoded(to)[s] = Form(to, c) \o Encoded(to)[Tail(s)]
      BY <2>1, <2>4
    <3> HIDE DEF c, f, e
    <3>8. f \o e \in Seq(Byte) /\ Drop(f \o e, Len(f)) = e
      BY <3>3, <3>4, ConcatProperties, DropJoined
    <3>9. Read(Len(f), c).n = Len(f) /\ Read(Len(f), c).cp = c
      BY DEF Read
    <3>10. ReadCodepoint(from, f \o e).n = Len(f) /\ ReadCodepoint(from, f \o e).cp = c
      BY <3>5, <3>9
    <3>11. Len(f) # 0
      BY <3>4
    <3>12. C(f \o e) = WriteCodepoint(to, c) \o C(e)
      BY <2>2, <3>8, <3>10, <3>11
    <3> QED
      BY <3>2, <3>6, <3>7, <3>12
  <2> QED
    BY <2>3, <2>4
<1> HIDE DEF T
<1>2. Seq(Int) \subseteq T
  BY <1>1, LengthInduction
<1>3. text \in Seq(Int)
  BY DEF Readable
<1> QED
  BY <1>2, <1>3 DEF T



----------------------------------------------------------------------------
(* A text as a file, its mark and what the programs make of it.            *)

LEMMA MarkIs ==
  ASSUME NEW enc \in Encoding, enc # "UTF8"
  PROVE  Form(enc, 65279) = WriteBom(enc)
<1>1. 65279 \in Nat /\ 65279 < 65536 /\ 65279 % 256 = 255 /\ 65279 \div 256 = 254
  OBVIOUS
<1>2. ByteOf(65279, 1) = 255 /\ ByteOf(65279, 256) = 254
  BY <1>1, TwoByteValue
<1>3. ByteOf(65279, 65536) = 0 /\ 65279 \div 16777216 = 0
  BY DEF ByteOf
<1>4. CASE enc \in UTF32
  <2>1. Form(enc, 65279) = Ordered(enc, 65279, 4)
    BY <1>4 DEF Form, UTF32
  <2>2. Ordered(enc, 65279, 4) = IF enc \in {"UTF16LE", "UTF32LE"}
                                 THEN <<255, 254, 0, 0>> ELSE <<0, 0, 254, 255>>
    BY <1>1, <1>2, <1>3, OrderedFour
  <2> QED
    BY <1>4, <2>1, <2>2 DEF UTF32, WriteBom
<1>5. CASE enc \in UTF16
  <2>1. Form(enc, 65279) = Ordered(enc, 65279, 2)
    BY <1>1, <1>5 DEF Form, UTF16Form, UTF16
  <2>2. Ordered(enc, 65279, 2) = IF enc \in {"UTF16LE", "UTF32LE"}
                                 THEN <<255, 254>> ELSE <<254, 255>>
    BY <1>1, OrderedTwo
  <2> QED
    BY <1>5, <2>1, <2>2 DEF UTF16, WriteBom
<1> QED
  BY <1>4, <1>5, EncodingIs

LEMMA TextIsMarked ==
  ASSUME NEW enc \in Encoding, NEW text
  PROVE  TextFile(enc, text) = WriteBom(enc) \o Encoded(enc)[text]
<1>1. CASE enc = "UTF8"
  BY <1>1 DEF TextFile, WriteBom
<1>2. CASE enc # "UTF8"
  BY <1>2, MarkIs DEF TextFile
<1> QED
  BY <1>1, <1>2

(* No text of UTF-8 holds a byte a mark begins with. *)
LEMMA UTF8IsLow ==
  ASSUME NEW text, Readable("UTF8", text)
  PROVE  \A i \in 1 .. Len(Encoded("UTF8")[text]) : Encoded("UTF8")[text][i] < 254
<1> DEFINE E(s) == Encoded("UTF8")[s]
           Low(b) == b \in Seq(Byte) /\ \A i \in 1 .. Len(b) : b[i] < 254
           T == {s \in Seq(Int) : Readable("UTF8", s) => Low(E(s))}
<1>1. ASSUME NEW s \in Seq(Int), \A u \in Seq(Int) : Len(u) < Len(s) => u \in T
      PROVE  s \in T
  <2> SUFFICES ASSUME Readable("UTF8", s) PROVE Low(E(s))
    OBVIOUS
  <2>1. E(s) = IF s = <<>> THEN <<>> ELSE Form("UTF8", Head(s)) \o E(Tail(s))
    BY EncodedUnfold
  <2>2. CASE s = <<>>
    <3>1. E(s) = <<>>
      BY <2>1, <2>2
    <3>2. Low(<<>>)
      BY EmptySeq
    <3> HIDE DEF E, Low
    <3> QED
      BY <3>1, <3>2
  <2>3. CASE s # <<>>
    <3>1. Scalar(Head(s)) /\ Readable("UTF8", Tail(s))
      BY <2>3, HeadRead
    <3>2. Tail(s) \in Seq(Int) /\ Len(Tail(s)) < Len(s)
      BY <2>3, HeadAndTail
    <3>3. Tail(s) \in T
      BY <1>1, <3>2
    <3>4. Low(E(Tail(s)))
      BY <3>1, <3>3
    <3>5. LowBytes(Form("UTF8", Head(s)))
      BY <3>1, UTF8Is
    <3>6. PICK f, e : f = Form("UTF8", Head(s)) /\ e = E(Tail(s))
      OBVIOUS
    <3>7. E(s) = f \o e
      BY <2>1, <2>3, <3>6
    <3>8. f \in Seq(Byte) /\ e \in Seq(Byte) /\ Len(f) \in Nat /\ Len(e) \in Nat
      BY <3>4, <3>5, <3>6, LenProperties DEF LowBytes
    <3>9. \A i \in 1 .. Len(f) : f[i] < 254
      BY <3>5, <3>6 DEF LowBytes
    <3>10. \A i \in 1 .. Len(e) : e[i] < 254
      BY <3>4, <3>6
    <3> HIDE DEF E
    <3>11. /\ f \o e \in Seq(Byte) /\ Len(f \o e) = Len(f) + Len(e)
           /\ \A i \in 1 .. Len(f) + Len(e) :
                (f \o e)[i] = IF i <= Len(f) THEN f[i] ELSE e[i - Len(f)]
      BY <3>8, ConcatProperties
    <3>12. Low(f \o e)
      <4> SUFFICES ASSUME NEW i \in 1 .. Len(f) + Len(e) PROVE (f \o e)[i] < 254
        BY <3>11
      <4>1. CASE i <= Len(f)
        BY <3>8, <3>9, <3>11, <4>1
      <4>2. CASE i > Len(f)
        <5>1. i - Len(f) \in 1 .. Len(e)
          BY <3>8, <4>2
        <5>2. (f \o e)[i] = e[i - Len(f)]
          BY <3>8, <3>11, <4>2
        <5> QED
          BY <3>10, <5>1, <5>2
      <4> QED
        BY <3>8, <4>1, <4>2
    <3> HIDE DEF Low
    <3> QED
      BY <3>7, <3>12
  <2> QED
    BY <2>2, <2>3
<1> HIDE DEF T
<1>2. Seq(Int) \subseteq T
  BY <1>1, LengthInduction
<1>3. text \in Seq(Int)
  BY DEF Readable
<1> QED
  BY <1>2, <1>3 DEF T

(* What the first four bytes of a file say. *)
LEMMA BomOfFile ==
  ASSUME NEW file \in Seq(Byte), Len(file) >= 4
  PROVE  BomToEnc(SubSeq(file, 1, MAXBOM)) =
           IF file[1] = 254 /\ file[2] = 255 THEN "UTF16BE"
           ELSE IF file[1] = 0 /\ file[2] = 0 /\ file[3] = 254 /\ file[4] = 255 THEN "UTF32BE"
           ELSE IF file[1] = 255 /\ file[2] = 254 /\ file[3] = 0 /\ file[4] = 0 THEN "UTF32LE"
           ELSE IF file[1] = 255 /\ file[2] = 254 THEN "UTF16LE"
           ELSE "UTF8"
<1>1. MAXBOM = 4 /\ Len(file) \in Nat /\ 4 \in 0 .. Len(file)
  BY RecodeAssumption, LenProperties
<1>2. PICK b \in Seq(Byte) : b = SubSeq(file, 1, 4)
  BY <1>1, Pieces
<1>3. Len(b) = 4
  BY <1>1, <1>2, Pieces
<1>4. \A i \in 1 .. 4 : b[i] = file[i]
  BY <1>1, <1>2, SubSeqProperties
<1>5. b[1] = file[1] /\ b[2] = file[2] /\ b[3] = file[3] /\ b[4] = file[4]
  BY <1>4
<1>6. ASSUME NEW x, NEW y
      PROVE  Starts(<<x, y>>, b) <=> b[1] = x /\ b[2] = y
  <2>1. DOMAIN <<x, y>> = 1 .. 2 /\ Len(<<x, y>>) = 2
    OBVIOUS
  <2>2. Starts(<<x, y>>, b) <=> \A i \in 1 .. 2 : b[i] = <<x, y>>[i]
    BY <1>3, <2>1 DEF Starts
  <2> QED
    BY <2>2
<1>7. ASSUME NEW x, NEW y, NEW z, NEW w
      PROVE  Starts(<<x, y, z, w>>, b) <=> b[1] = x /\ b[2] = y /\ b[3] = z /\ b[4] = w
  <2>1. DOMAIN <<x, y, z, w>> = 1 .. 4 /\ Len(<<x, y, z, w>>) = 4
    OBVIOUS
  <2>2. Starts(<<x, y, z, w>>, b) <=> \A i \in 1 .. 4 : b[i] = <<x, y, z, w>>[i]
    BY <1>3, <2>1 DEF Starts
  <2> QED
    BY <2>2
<1>8. /\ WriteBom("UTF16BE") = <<254, 255>> /\ WriteBom("UTF16LE") = <<255, 254>>
      /\ WriteBom("UTF32BE") = <<0, 0, 254, 255>> /\ WriteBom("UTF32LE") = <<255, 254, 0, 0>>
  BY DEF WriteBom
<1>9. /\ Starts(WriteBom("UTF16BE"), b) <=> b[1] = 254 /\ b[2] = 255
      /\ Starts(WriteBom("UTF16LE"), b) <=> b[1] = 255 /\ b[2] = 254
  BY <1>6, <1>8
<1>10. /\ Starts(WriteBom("UTF32BE"), b) <=> b[1] = 0 /\ b[2] = 0 /\ b[3] = 254 /\ b[4] = 255
       /\ Starts(WriteBom("UTF32LE"), b) <=> b[1] = 255 /\ b[2] = 254 /\ b[3] = 0 /\ b[4] = 0
  BY <1>7, <1>8
<1> QED
  BY <1>1, <1>2, <1>5, <1>9, <1>10 DEF BomToEnc


(* A nonzero first character in UTF-16 does not begin with two zeros.      *)
LEMMA NotZeros ==
  ASSUME NEW enc \in UTF16, NEW c, Scalar(c), c # 57344, c # 0,
         NEW b, Len(b) \in Nat, Len(b) >= Len(Form(enc, c)),
         \A i \in 1 .. Len(Form(enc, c)) : b[i] = Form(enc, c)[i]
  PROVE  b[1] # 0 \/ b[2] # 0
<1> SUFFICES ASSUME b[1] = 0, b[2] = 0 PROVE FALSE
  OBVIOUS
<1>1. Unit(enc, b, 1) = 0
  BY DEF Unit
<1>2. ReadUTF16(enc, b) = Read(2, 0)
  BY <1>1 DEF ReadUTF16
<1>3. ReadUTF16(enc, b) = Read(Len(Form(enc, c)), c)
  BY UTF16IsRead
<1> QED
  BY <1>2, <1>3 DEF Read

(* A text is taken for what it is, and all but its mark is converted.      *)
LEMMA FileIsDetected ==
  ASSUME NEW enc \in Encoding, NEW text, Readable(enc, text),
         enc = "UTF16LE" => text[1] # 0,
         NEW file, file = TextFile(enc, text), Len(file) >= 4
  PROVE  /\ BomToEnc(SubSeq(file, 1, MAXBOM)) = enc
         /\ Drop(file, BOM_SIZES[enc]) = Encoded(enc)[text]
<1>1. PICK m, e : m = WriteBom(enc) /\ e = Encoded(enc)[text]
  OBVIOUS
<1>2. m \in Seq(Byte) /\ Len(m) \in Nat
  BY <1>1, BomBounds, LenProperties
<1>3. e \in Seq(Byte) /\ Len(e) \in Nat
  BY <1>1, ReadableIsText, EncodedType, LenProperties
<1>4. file = m \o e
  BY <1>1, TextIsMarked
<1>5. /\ file \in Seq(Byte) /\ Len(file) = Len(m) + Len(e)
      /\ \A i \in 1 .. Len(m) + Len(e) :
           file[i] = IF i <= Len(m) THEN m[i] ELSE e[i - Len(m)]
  BY <1>2, <1>3, <1>4, ConcatProperties
<1>6. Len(m) = BOM_SIZES[enc]
  <2>1. Len(<<0, 0, 254, 255>>) = 4 /\ Len(<<255, 254, 0, 0>>) = 4
        /\ Len(<<254, 255>>) = 2 /\ Len(<<255, 254>>) = 2 /\ Len(<<>>) = 0
    BY EmptySeq
  <2> QED
    BY <1>1, <2>1 DEF WriteBom, BOM_SIZES, Encoding, UTF16
<1>7. Drop(file, BOM_SIZES[enc]) = e
  BY <1>2, <1>3, <1>4, <1>6, DropJoined
<1>8. BomToEnc(SubSeq(file, 1, MAXBOM)) =
           IF file[1] = 254 /\ file[2] = 255 THEN "UTF16BE"
           ELSE IF file[1] = 0 /\ file[2] = 0 /\ file[3] = 254 /\ file[4] = 255 THEN "UTF32BE"
           ELSE IF file[1] = 255 /\ file[2] = 254 /\ file[3] = 0 /\ file[4] = 0 THEN "UTF32LE"
           ELSE IF file[1] = 255 /\ file[2] = 254 THEN "UTF16LE"
           ELSE "UTF8"
  BY <1>5, BomOfFile
<1>9. CASE enc = "UTF32BE"
  <2>1. m = <<0, 0, 254, 255>> /\ Len(m) = 4
    BY <1>1, <1>6, <1>9 DEF WriteBom, BOM_SIZES, Encoding, UTF16
  <2>2. file[1] = m[1] /\ file[2] = m[2] /\ file[3] = m[3] /\ file[4] = m[4]
    BY <1>3, <1>5, <2>1
  <2> QED
    BY <1>1, <1>7, <1>8, <1>9, <2>1, <2>2
<1>10. CASE enc = "UTF32LE"
  <2>1. m = <<255, 254, 0, 0>> /\ Len(m) = 4
    BY <1>1, <1>6, <1>10 DEF WriteBom, BOM_SIZES, Encoding, UTF16
  <2>2. file[1] = m[1] /\ file[2] = m[2] /\ file[3] = m[3] /\ file[4] = m[4]
    BY <1>3, <1>5, <2>1
  <2> QED
    BY <1>1, <1>7, <1>8, <1>10, <2>1, <2>2
<1>11. CASE enc = "UTF16BE"
  <2>1. m = <<254, 255>> /\ Len(m) = 2
    BY <1>1, <1>6, <1>11 DEF WriteBom, BOM_SIZES, Encoding, UTF16
  <2>2. file[1] = m[1] /\ file[2] = m[2]
    BY <1>3, <1>5, <2>1
  <2> QED
    BY <1>1, <1>7, <1>8, <1>11, <2>1, <2>2
<1>12. CASE enc = "UTF16LE"
  <2>1. m = <<255, 254>> /\ Len(m) = 2
    BY <1>1, <1>6, <1>12 DEF WriteBom, BOM_SIZES, Encoding, UTF16
  <2>2. file[1] = m[1] /\ file[2] = m[2]
    BY <1>3, <1>5, <2>1
  <2>3. Len(e) >= 2
    BY <1>3, <1>5, <2>1
  <2>4. 3 \in 1 .. Len(m) + Len(e) /\ 4 \in 1 .. Len(m) + Len(e)
    BY <1>3, <2>1, <2>3
  <2>5. file[3] = e[3 - 2] /\ file[4] = e[4 - 2]
    BY <1>5, <2>1, <2>4
  <2>6. text # <<>>
    <3> SUFFICES ASSUME text = <<>> PROVE FALSE
      OBVIOUS
    <3>1. <<>> \in Seq(Int)
      BY EmptySeq
    <3>2. e = <<>>
      BY <1>1, <3>1, EncodedUnfold
    <3> QED
      BY <2>3, <3>2, EmptySeq
  <2>7. text \in Seq(Int)
    BY DEF Readable
  <2>8. PICK f, t : f = Form(enc, Head(text)) /\ t = Encoded(enc)[Tail(text)]
    OBVIOUS
  <2>9. Scalar(Head(text)) /\ Readable(enc, Tail(text))
    BY <2>6, HeadRead
  <2>10. enc \in UTF16
    BY <1>12 DEF UTF16
  <2>11. Head(text) # 57344 /\ Head(text) # 0
    BY <1>12, <2>6, <2>7, <2>10, HeadNoMark, HeadAndTail
  <2>12. f \in Seq(Byte) /\ Len(f) \in Nat /\ Len(f) >= 2
    BY <2>8, <2>9, <2>10, FormType
  <2>13. t \in Seq(Byte) /\ Len(t) \in Nat
    BY <2>8, <2>9, ReadableIsText, EncodedType, LenProperties
  <2>14. e = f \o t
    BY <1>1, <2>6, <2>7, <2>8, EncodedUnfold
  <2>15. /\ Len(e) = Len(f) + Len(t)
         /\ \A i \in 1 .. Len(f) + Len(t) : e[i] = IF i <= Len(f) THEN f[i] ELSE t[i - Len(f)]
    BY <2>12, <2>13, <2>14, ConcatProperties
  <2>16. \A i \in 1 .. Len(f) : e[i] = f[i]
    BY <2>12, <2>13, <2>15
  <2>17. Len(e) >= Len(f)
    BY <2>12, <2>13, <2>15
  <2>18. e[1] # 0 \/ e[2] # 0
    BY <1>3, <2>8, <2>9, <2>10, <2>11, <2>16, <2>17, NotZeros
  <2>19. ~(file[3] = 0 /\ file[4] = 0)
    BY <2>5, <2>18
  <2> QED
    BY <1>1, <1>7, <1>8, <1>12, <2>1, <2>2, <2>19
<1>13. CASE enc = "UTF8"
  <2>1. Len(m) = 0
    BY <1>6, <1>13 DEF BOM_SIZES, Encoding
  <2>2. \A i \in 1 .. Len(e) : e[i] < 254
    BY <1>1, <1>13, UTF8IsLow
  <2>3. 1 \in 1 .. Len(e) /\ 3 \in 1 .. Len(e)
    BY <1>3, <1>5, <2>1
  <2>4. file[1] = e[1 - 0] /\ file[3] = e[3 - 0]
    BY <1>3, <1>5, <2>1, <2>3
  <2>5. file[1] # 254 /\ file[1] # 255 /\ file[3] # 254
    BY <2>2, <2>3, <2>4
  <2> QED
    BY <1>1, <1>7, <1>8, <1>13, <2>5
<1> QED
  BY <1>9, <1>10, <1>11, <1>12, <1>13 DEF Encoding

LEMMA SourceIsText ==
  ASSUME NEW s \in Sources, s.enc \in Encoding
  PROVE  /\ s.text \in Seq(Int) /\ s.file = TextFile(s.enc, s.text)
         /\ \A i \in 1 .. Len(s.text) : Scalar(s.text[i])
         /\ DOMAIN s.text = 1 .. Len(s.text) /\ Len(s.text) \in Nat
<1>1. Text(s.text) /\ s.file = TextFile(s.enc, s.text)
  BY SourcesAssumption
<1>2. s.text \in Seq(Int)
  BY <1>1 DEF Text
<1>3. DOMAIN s.text = 1 .. Len(s.text) /\ Len(s.text) \in Nat
  BY <1>2, LenProperties
<1> QED
  BY <1>1, <1>2, <1>3 DEF Text

(* What the C program is to write of a text.                              *)
LEMMA IdealOfText ==
  ASSUME NEW s \in Sources, NEW to \in Encoding, Faithful(s, to), Len(s.file) > 4
  PROVE  Ideal(s.file, to) = TextFile(to, s.text)
<1>1. /\ s.enc \in Encoding
      /\ to = "UTF8" => \A i \in DOMAIN s.text : s.text[i] < 262144
      /\ s.enc \in UTF16 => \A i \in DOMAIN s.text : s.text[i] # 57344
      /\ s.enc \in UTF16 => s.text[Len(s.text)] < 57345 \/ s.text[Len(s.text)] > 65535
      /\ s.enc = "UTF16LE" => s.text[1] # 0
  BY DEF Faithful
<1>2. Readable(s.enc, s.text) /\ Writable(to, s.text)
  BY <1>1, SourceIsText DEF Readable, Writable
<1>22. LastIsSeen(s.enc, s.text)
  BY <1>1 DEF LastIsSeen
<1>3. PICK from, text, file : from \in Encoding /\ from = s.enc /\ text = s.text /\ file = s.file
  BY <1>1
<1>4. file = TextFile(from, text)
  BY <1>3, SourceIsText
<1>41. file \in Seq(Byte)
  BY <1>3, SourceIsBytes
<1>42. Len(file) >= 4
  BY <1>3, <1>41, LenProperties
<1>5. BomToEnc(SubSeq(file, 1, MAXBOM)) = from /\ Drop(file, BOM_SIZES[from]) = Encoded(from)[text]
  BY <1>1, <1>2, <1>3, <1>4, <1>42, FileIsDetected
<1>6. Convert(from, to)[Encoded(from)[text]] = Encoded(to)[text]
  BY <1>2, <1>22, <1>3, ConvertsText
<1>7. Ideal(file, to) = WriteBom(to) \o Encoded(to)[text]
  BY <1>5, <1>6 DEF Ideal
<1> QED
  BY <1>3, <1>7, TextIsMarked

(* A text comes out of recode57 as the encoding asked for says it is       *)
(* written: OutputFaithful, for every text, file and size of buffer.       *)
THEOREM TextIsConverted == TSpec => []OutputFaithful
<1>1. TextInv => OutputComplete
  BY TextInvGivesComplete
<1>2. TextInv /\ OutputComplete => OutputFaithful
  <2> SUFFICES ASSUME TextInv, OutputComplete, pc = "exit", intact, stdin = <<>>,
                      Len(source.file) > MAXBOM, orig_enc # UNKNOWN, Faithful(source, dest_enc)
               PROVE  stdout = TextFile(dest_enc, source.text)
    BY DEF OutputFaithful
  <2>1. source \in Sources /\ dest_enc \in Encoding
    BY DEF TextInv, Origin
  <2>2. stdout = Ideal(source.file, dest_enc)
    BY DEF OutputComplete
  <2>3. Len(source.file) > 4
    BY RecodeAssumption
  <2> QED
    BY <2>1, <2>2, <2>3, IdealOfText
<1> QED
  BY <1>1, <1>2, TextInvariant, PTL

LEMMA EncodedAppend ==
  ASSUME NEW enc \in Encoding, NEW t, NEW c, Readable("UTF8", t), Scalar(c)
  PROVE  Encoded(enc)[Append(t, c)] = Encoded(enc)[t] \o Form(enc, c)
<1> DEFINE E(s) == Encoded(enc)[s]
           F(x) == Form(enc, x)
           T == {s \in Seq(Int) : Readable("UTF8", s) => E(Append(s, c)) = E(s) \o F(c)}
<1>1. \A s \in Seq(Int) : E(s) = IF s = <<>> THEN <<>> ELSE F(Head(s)) \o E(Tail(s))
  BY EncodedUnfold
<1>2. \A x : Scalar(x) => F(x) \in Seq(Byte)
  BY FormType
<1>3. \A s : Readable("UTF8", s) => E(s) \in Seq(Byte)
  BY EncodedType
<1>4. c \in Int
  BY ScalarIs
<1> HIDE DEF E, F
<1>5. ASSUME NEW s \in Seq(Int), \A u \in Seq(Int) : Len(u) < Len(s) => u \in T
      PROVE  s \in T
  <2> SUFFICES ASSUME Readable("UTF8", s) PROVE E(Append(s, c)) = E(s) \o F(c)
    OBVIOUS
  <2>1. /\ Append(s, c) \in Seq(Int) /\ Append(s, c) # <<>>
        /\ s # <<>> => Head(Append(s, c)) = Head(s) /\ Tail(Append(s, c)) = Append(Tail(s), c)
        /\ s = <<>> => Head(Append(s, c)) = c /\ Tail(Append(s, c)) = <<>>
    BY <1>4
  <2>2. CASE s = <<>>
    <3>1. E(s) = <<>> /\ E(<<>>) = <<>>
      BY <2>2, <1>1
    <3>2. E(Append(s, c)) = F(c) \o <<>>
      BY <1>1, <2>1, <2>2, <3>1
    <3>3. F(c) \o <<>> = F(c) /\ <<>> \o F(c) = F(c)
      BY <1>2, ConcatEmptySeq
    <3> QED
      BY <3>1, <3>2, <3>3
  <2>3. CASE s # <<>>
    <3>1. Scalar(Head(s)) /\ Readable("UTF8", Tail(s))
      BY <2>3, HeadRead
    <3>2. Tail(s) \in Seq(Int) /\ Len(Tail(s)) < Len(s)
      BY <2>3, HeadAndTail
    <3>3. E(Append(Tail(s), c)) = E(Tail(s)) \o F(c)
      BY <1>5, <3>1, <3>2
    <3>4. E(s) = F(Head(s)) \o E(Tail(s))
      BY <1>1, <2>3
    <3>5. E(Append(s, c)) = F(Head(s)) \o (E(Tail(s)) \o F(c))
      BY <1>1, <2>1, <2>3, <3>3
    <3>6. F(Head(s)) \o (E(Tail(s)) \o F(c)) = (F(Head(s)) \o E(Tail(s))) \o F(c)
      <4>1. F(Head(s)) \in Seq(Byte) /\ E(Tail(s)) \in Seq(Byte) /\ F(c) \in Seq(Byte)
        BY <1>2, <1>3, <3>1
      <4> QED
        BY <4>1, Joined
    <3> QED
      BY <3>4, <3>5, <3>6
  <2> QED
    BY <2>2, <2>3
<1> HIDE DEF T
<1>6. Seq(Int) \subseteq T
  BY <1>5, LengthInduction
<1>7. t \in Seq(Int)
  BY DEF Readable
<1> QED
  BY <1>6, <1>7 DEF T, E, F

(* A beginning of a text, and the rest. *)
Begin(text, n) == SubSeq(text, 1, n)
Rest(text, n)  == SubSeq(text, n + 1, Len(text))

LEMMA BeginAndRest ==
  ASSUME NEW text, NEW n \in 0 .. Len(text), Readable("UTF8", text)
  PROVE  /\ Readable("UTF8", Begin(text, n))
         /\ Readable("UTF8", Rest(text, n)) /\ Rest(text, n) \in Seq(Int)
         /\ n = Len(text) => Rest(text, n) = <<>>
         /\ n < Len(text) =>
              /\ Rest(text, n) # <<>>
              /\ Head(Rest(text, n)) = text[n + 1] /\ n + 1 \in 1 .. Len(text)
              /\ Tail(Rest(text, n)) = Rest(text, n + 1)
              /\ Begin(text, n + 1) = Append(Begin(text, n), text[n + 1])
<1>1. text \in Seq(Int) /\ Len(text) \in Nat /\ \A i \in 1 .. Len(text) : text[i] \in Int
  BY LenProperties, ElementOfSeq DEF Readable
<1>2. /\ Begin(text, n) \in Seq(Int) /\ Len(Begin(text, n)) = n
      /\ \A i \in 1 .. n : Begin(text, n)[i] = text[i] /\ i \in 1 .. Len(text)
  BY <1>1, SubSeqProperties DEF Begin
<1>3. /\ Rest(text, n) \in Seq(Int) /\ Len(Rest(text, n)) = Len(text) - n
      /\ \A i \in 1 .. Len(text) - n : Rest(text, n)[i] = text[n + i]
  BY <1>1, SubSeqProperties DEF Rest
<1>4. Readable("UTF8", Begin(text, n)) /\ Readable("UTF8", Rest(text, n))
  <2>1. \A i \in 1 .. Len(text) : Scalar(text[i])
    BY DEF Readable
  <2>2. Readable("UTF8", Begin(text, n))
    BY <1>2, <2>1 DEF Readable, UTF16
  <2>3. \A i \in 1 .. Len(text) - n : n + i \in 1 .. Len(text)
    BY <1>1
  <2>4. \A i \in 1 .. Len(Rest(text, n)) : Scalar(Rest(text, n)[i])
    BY <1>3, <2>1, <2>3
  <2> QED
    BY <1>3, <2>2, <2>4 DEF Readable, UTF16
<1>5. n = Len(text) => Rest(text, n) = <<>>
  BY <1>1, <1>3, EmptySeq
<1>6. ASSUME n < Len(text)
      PROVE  /\ Rest(text, n) # <<>>
             /\ Head(Rest(text, n)) = text[n + 1] /\ n + 1 \in 1 .. Len(text)
             /\ Tail(Rest(text, n)) = Rest(text, n + 1)
             /\ Begin(text, n + 1) = Append(Begin(text, n), text[n + 1])
  <2>1. n + 1 \in 0 .. Len(text) /\ n + 1 \in 1 .. Len(text) /\ 1 \in 1 .. Len(text) - n
    BY <1>1, <1>6
  <2>2. Rest(text, n) # <<>> /\ Head(Rest(text, n)) = text[n + 1]
    <3>1. Len(Rest(text, n)) # 0
      BY <1>1, <1>3, <2>1
    <3>2. Rest(text, n) # <<>>
      BY <3>1, EmptySeq
    <3>3. Head(Rest(text, n)) = Rest(text, n)[1]
      BY <1>3, <3>2, HeadAndTail
    <3> QED
      BY <1>3, <2>1, <3>2, <3>3
  <2>3. /\ Rest(text, n + 1) \in Seq(Int) /\ Len(Rest(text, n + 1)) = Len(text) - (n + 1)
        /\ \A i \in 1 .. Len(text) - (n + 1) : Rest(text, n + 1)[i] = text[(n + 1) + i]
    BY <1>1, <2>1, SubSeqProperties DEF Rest
  <2>4. Tail(Rest(text, n)) = Rest(text, n + 1)
    <3>1. /\ Tail(Rest(text, n)) \in Seq(Int)
          /\ Len(Tail(Rest(text, n))) = Len(Rest(text, n)) - 1
          /\ \A i \in 1 .. Len(Rest(text, n)) - 1 :
               Tail(Rest(text, n))[i] = Rest(text, n)[i + 1]
      BY <1>3, <2>2, HeadAndTail
    <3>2. Len(Tail(Rest(text, n))) = Len(text) - (n + 1)
      BY <1>1, <1>3, <3>1
    <3>3. \A i \in 1 .. Len(text) - (n + 1) : Tail(Rest(text, n))[i] = Rest(text, n + 1)[i]
      <4> TAKE i \in 1 .. Len(text) - (n + 1)
      <4>1. i \in 1 .. Len(Rest(text, n)) - 1 /\ i + 1 \in 1 .. Len(text) - n
            /\ n + (i + 1) = (n + 1) + i
        BY <1>1, <1>3
      <4> QED
        BY <1>3, <2>3, <3>1, <4>1
    <3> QED
      BY <2>3, <3>1, <3>2, <3>3, SeqEqual
  <2>5. Begin(text, n + 1) = Append(Begin(text, n), text[n + 1])
    <3>1. /\ Begin(text, n + 1) \in Seq(Int) /\ Len(Begin(text, n + 1)) = n + 1
          /\ \A i \in 1 .. n + 1 : Begin(text, n + 1)[i] = text[i]
      BY <1>1, <2>1, SubSeqProperties DEF Begin
    <3>2. text[n + 1] \in Int
      BY <1>1, <2>1
    <3>3. PICK a : a = Append(Begin(text, n), text[n + 1])
      OBVIOUS
    <3>4. /\ a \in Seq(Int) /\ Len(a) = Len(Begin(text, n)) + 1
          /\ a[Len(Begin(text, n)) + 1] = text[n + 1]
          /\ \A i \in 1 .. Len(Begin(text, n)) : a[i] = Begin(text, n)[i]
      BY <1>2, <3>2, <3>3, AppendProperties
    <3>5. Len(a) = n + 1 /\ \A i \in 1 .. n + 1 : a[i] = text[i]
      BY <1>1, <1>2, <3>4
    <3> QED
      BY <3>1, <3>3, <3>4, <3>5, SeqEqual
  <2> QED
    BY <2>1, <2>2, <2>4, <2>5
<1> QED
  BY <1>3, <1>4, <1>5, <1>6

(* What the Rust program wrote is a beginning of the text, and what it     *)
(* still has is the rest.                                                  *)
Split(n) ==
  /\ rust_stdout = TextFile(dest_enc, Begin(source.text, n))
  /\ Left = Encoded(source.enc)[Rest(source.text, n)]
  /\ source.file = TextFile(source.enc, Begin(source.text, n)) \o Left

RustSplit ==
  Converting /\ RustFaithful(source, dest_enc) =>
    /\ rust_orig = source.enc
    /\ \E n \in 0 .. Len(source.text) : Split(n)

(* The texts of RustFaithful are those it reads and writes.                *)
LEMMA FaithfulText ==
  ASSUME NEW s \in Sources, NEW to, RustFaithful(s, to)
  PROVE  /\ s.enc \in Encoding /\ s.text \in Seq(Int) /\ Len(s.text) \in Nat
         /\ Readable(s.enc, s.text) /\ Readable("UTF8", s.text) /\ Writable(to, s.text)
         /\ s.file = TextFile(s.enc, s.text)
         /\ s.enc = "UTF16LE" => s.text[1] # 0
<1>1. /\ s.enc \in Encoding
      /\ to = "UTF8" => \A i \in DOMAIN s.text : s.text[i] < 262144
      /\ s.enc \in UTF16 => \A i \in DOMAIN s.text : s.text[i] # 57344
      /\ s.enc = "UTF16LE" => s.text[1] # 0
  BY DEF RustFaithful
<1>2. Readable(s.enc, s.text) /\ Writable(to, s.text)
  BY <1>1, SourceIsText DEF Readable, Writable
<1> QED
  BY <1>1, <1>2, SourceIsText, ReadableIsText

LEMMA SplitAtMark ==
  ASSUME BInv, rust_pc = "mark", RustFaithful(source, dest_enc),
         rust_stdout' = WriteBom(dest_enc), Left' = Left,
         source' = source, dest_enc' = dest_enc
  PROVE  rust_orig = source.enc /\ 0 \in 0 .. Len(source.text) /\ Split(0)'
<1>1. PICK file, from, text, to :
        file = source.file /\ from = source.enc /\ text = source.text /\ to = dest_enc
  OBVIOUS
<1>2. /\ to \in Encoding /\ source \in Sources /\ Len(file) >= 4
      /\ rust_orig = BomToEnc(SubSeq(file, 1, MAXBOM))
      /\ Left = Drop(file, BOM_SIZES[rust_orig])
  BY <1>1, RustKnows
<1>3. /\ from \in Encoding /\ text \in Seq(Int) /\ Len(text) \in Nat
      /\ Readable(from, text) /\ Readable("UTF8", text) /\ file = TextFile(from, text)
      /\ from = "UTF16LE" => text[1] # 0
  BY <1>1, <1>2, FaithfulText
<1>4. BomToEnc(SubSeq(file, 1, MAXBOM)) = from /\ Drop(file, BOM_SIZES[from]) = Encoded(from)[text]
  BY <1>2, <1>3, FileIsDetected
<1>5. 0 \in 0 .. Len(text)
  BY <1>3
<1>6. Begin(text, 0) = <<>> /\ Rest(text, 0) = text
  <2>1. Begin(text, 0) = <<>>
    BY SubSeqEmpty DEF Begin
  <2> QED
    BY <1>3, <2>1, SubSeqFull DEF Rest
<1>7. \A enc \in Encoding : TextFile(enc, <<>>) = WriteBom(enc)
  <2> TAKE enc \in Encoding
  <2>1. <<>> \in Seq(Int) /\ Encoded(enc)[<<>>] = <<>>
    BY EncodedUnfold, EmptySeq
  <2>2. WriteBom(enc) \in Seq(Byte)
    BY BomBounds
  <2> QED
    BY <2>1, <2>2, TextIsMarked, ConcatEmptySeq
<1>8. file = WriteBom(from) \o Encoded(from)[text]
  BY <1>3, TextIsMarked
<1>9. /\ WriteBom(to) = TextFile(to, Begin(text, 0))
      /\ Left = Encoded(from)[Rest(text, 0)]
      /\ file = TextFile(from, Begin(text, 0)) \o Left
  BY <1>2, <1>3, <1>4, <1>6, <1>7, <1>8
<1> HIDE DEF Left
<1> QED
  BY <1>1, <1>2, <1>4, <1>5, <1>9 DEF Split

LEMMA SplitAtRecode ==
  ASSUME BInv, Converting, RustFaithful(source, dest_enc), rust_orig = source.enc,
         NEW n \in 0 .. Len(source.text), Split(n),
         NEW r, r = RustRead(rust_orig, Left), r.n # 0, Left' = Drop(Left, r.n),
         rust_stdout' = rust_stdout \o WriteCodepoint(dest_enc, r.cp),
         source' = source, dest_enc' = dest_enc
  PROVE  n + 1 \in 0 .. Len(source.text) /\ Split(n + 1)'
<1>1. PICK file, from, text, to, left, out :
        /\ file = source.file /\ from = source.enc /\ text = source.text /\ to = dest_enc
        /\ left = Left /\ out = rust_stdout
  OBVIOUS
<1>2. to \in Encoding /\ source \in Sources /\ left \in Seq(Byte)
  BY <1>1, RustKnows, LeftIsBytes
<1>3. /\ from \in Encoding /\ text \in Seq(Int) /\ Len(text) \in Nat
      /\ Readable(from, text) /\ Readable("UTF8", text) /\ Writable(to, text)
  BY <1>1, <1>2, FaithfulText
<1>4. /\ out = TextFile(to, Begin(text, n))
      /\ left = Encoded(from)[Rest(text, n)]
      /\ file = TextFile(from, Begin(text, n)) \o left
      /\ r = RustRead(from, left) /\ n \in 0 .. Len(text)
  BY <1>1 DEF Split
<1>5. n < Len(text)
  <2> SUFFICES ASSUME ~(n < Len(text)) PROVE FALSE
    OBVIOUS
  <2>1. n = Len(text)
    BY <1>3, <1>4
  <2>2. Rest(text, n) = <<>>
    BY <1>3, <1>4, <2>1, BeginAndRest
  <2>3. left = <<>>
    <3>1. <<>> \in Seq(Int) /\ Encoded(from)[<<>>] = <<>>
      BY EncodedUnfold, EmptySeq
    <3> QED
      BY <1>4, <2>2, <3>1
  <2>4. r.n = 0
    BY <1>3, <1>4, <2>3, NothingIsRead
  <2> QED
    BY <2>4
<1>6. PICK c : c = text[n + 1]
  OBVIOUS
<1>7. /\ Rest(text, n) \in Seq(Int) /\ Rest(text, n) # <<>>
      /\ Head(Rest(text, n)) = c /\ n + 1 \in 1 .. Len(text)
      /\ Tail(Rest(text, n)) = Rest(text, n + 1)
      /\ Begin(text, n + 1) = Append(Begin(text, n), c)
      /\ Readable("UTF8", Begin(text, n))
  BY <1>3, <1>4, <1>5, <1>6, BeginAndRest
<1>8. Scalar(c) /\ (from \in UTF16 => c # 57344) /\ (to = "UTF8" => c < 262144)
  BY <1>3, <1>6, <1>7 DEF Readable, Writable
<1>9. PICK f, e : f = Form(from, c) /\ e = Encoded(from)[Rest(text, n + 1)]
  OBVIOUS
<1>10. left = f \o e
  <2>1. Encoded(from)[Rest(text, n)]
          = Form(from, Head(Rest(text, n))) \o Encoded(from)[Tail(Rest(text, n))]
    BY <1>7, EncodedUnfold
  <2> QED
    BY <1>4, <1>7, <1>9, <2>1
<1>11. f \in Seq(Byte) /\ Len(f) \in Nat
  BY <1>3, <1>8, <1>9, FormType
<1>12. e \in Seq(Byte)
  <2>1. n + 1 \in 0 .. Len(text)
    BY <1>7
  <2>2. Readable("UTF8", Rest(text, n + 1))
    BY <1>3, <2>1, BeginAndRest
  <2> QED
    BY <1>3, <1>9, <2>2, EncodedType
<1>13. r = Read(Len(f), c)
  BY <1>3, <1>4, <1>8, <1>9, <1>10, <1>12, RustReadsForm
<1>14. r.n = Len(f) /\ r.cp = c
  BY <1>13 DEF Read
<1>15. Drop(left, r.n) = e
  BY <1>10, <1>11, <1>12, <1>14, DropJoined
<1>16. WriteCodepoint(to, c) = Form(to, c)
  BY <1>2, <1>8, WriteIsForm
<1>17. ASSUME NEW enc \in Encoding
       PROVE  /\ TextFile(enc, Begin(text, n)) \in Seq(Byte)
              /\ TextFile(enc, Begin(text, n + 1)) = TextFile(enc, Begin(text, n)) \o Form(enc, c)
  <2>0. PICK b, E, F : b = Begin(text, n) /\ E = Encoded(enc)[b] /\ F = Form(enc, c)
    OBVIOUS
  <2>1. Readable("UTF8", b)
    BY <1>7, <2>0
  <2>2. E \in Seq(Byte) /\ F \in Seq(Byte) /\ WriteBom(enc) \in Seq(Byte)
    <3>1. Encoded(enc)[b] \in Seq(Byte)
      BY <2>1, EncodedType
    <3>2. Form(enc, c) \in Seq(Byte)
      BY <1>8, FormType
    <3>3. WriteBom(enc) \in Seq(Byte)
      BY BomBounds
    <3> QED
      BY <2>0, <3>1, <3>2, <3>3
  <2>3. Encoded(enc)[Append(b, c)] = E \o F
    <3>1. Encoded(enc)[Append(b, c)] = Encoded(enc)[b] \o Form(enc, c)
      BY <1>8, <2>1, EncodedAppend
    <3> QED
      BY <2>0, <3>1
  <2>4. Append(b, c) = Begin(text, n + 1)
    BY <1>7, <2>0
  <2>5. /\ TextFile(enc, b) = WriteBom(enc) \o E
        /\ TextFile(enc, Begin(text, n + 1)) = WriteBom(enc) \o (E \o F)
    BY <2>0, <2>3, <2>4, TextIsMarked
  <2>6. (WriteBom(enc) \o E) \o F = WriteBom(enc) \o (E \o F)
    BY <2>2, Joined
  <2>7. WriteBom(enc) \o E \in Seq(Byte)
    BY <2>2, ConcatProperties
  <2> QED
    BY <2>0, <2>5, <2>6, <2>7
<1>18. out \o WriteCodepoint(to, c) = TextFile(to, Begin(text, n + 1))
  BY <1>2, <1>4, <1>16, <1>17
<1>19. file = TextFile(from, Begin(text, n + 1)) \o e
  <2>1. PICK t : t = TextFile(from, Begin(text, n))
    OBVIOUS
  <2>2. t \in Seq(Byte) /\ TextFile(from, Begin(text, n + 1)) = t \o f
    BY <1>3, <1>9, <1>17, <2>1
  <2>3. (t \o f) \o e = t \o (f \o e)
    BY <1>11, <1>12, <2>2, Joined
  <2> QED
    BY <1>4, <1>10, <2>1, <2>2, <2>3
<1>20. n + 1 \in 0 .. Len(text)
  BY <1>7
<1> HIDE DEF Left
<1>21. Left' = e /\ rust_stdout' = out \o WriteCodepoint(to, c)
  BY <1>1, <1>14, <1>15
<1> QED
  BY <1>1, <1>9, <1>18, <1>19, <1>20, <1>21 DEF Split

LEMMA NextRustSplit ==
  ASSUME BInv, RustSplit, [CNext \/ RustNext]_BVars
  PROVE  RustSplit'
<1> SUFFICES ASSUME Converting', RustFaithful(source, dest_enc)'
             PROVE  (rust_orig = source.enc /\ \E n \in 0 .. Len(source.text) : Split(n))'
  BY DEF RustSplit
<1>1. source' = source /\ dest_enc' = dest_enc /\ rust_orig' = rust_orig
  BY RustSteps
<1>2. RustFaithful(source, dest_enc)
  BY <1>1
<1>3. CASE rust_pc = "mark" /\ Left' = Left /\ rust_stdout' = WriteBom(dest_enc)
  <2>1. rust_orig = source.enc /\ 0 \in 0 .. Len(source.text) /\ Split(0)'
    BY <1>1, <1>2, <1>3, SplitAtMark
  <2> QED
    BY <1>1, <2>1
<1>4. CASE Converting /\ Left' = Left /\ rust_stdout' = rust_stdout
  <2>1. rust_orig = source.enc
    BY <1>2, <1>4 DEF RustSplit
  <2>2. PICK n \in 0 .. Len(source.text) : Split(n)
    BY <1>2, <1>4 DEF RustSplit
  <2>3. Split(n)'
    BY <1>1, <1>4, <2>2 DEF Split
  <2> QED
    BY <1>1, <2>1, <2>2, <2>3
<1>5. ASSUME NEW r, r = RustRead(rust_orig, Left), Converting, r.n # 0, Left' = Drop(Left, r.n),
             rust_stdout' = rust_stdout \o WriteCodepoint(dest_enc, r.cp)
      PROVE  (rust_orig = source.enc /\ \E n \in 0 .. Len(source.text) : Split(n))'
  <2>1. rust_orig = source.enc
    BY <1>2, <1>5 DEF RustSplit
  <2>2. PICK n \in 0 .. Len(source.text) : Split(n)
    BY <1>2, <1>5 DEF RustSplit
  <2>3. n + 1 \in 0 .. Len(source.text) /\ Split(n + 1)'
    BY <1>1, <1>2, <1>5, <2>1, <2>2, SplitAtRecode
  <2> QED
    BY <1>1, <2>1, <2>3
<1> QED
  BY <1>3, <1>4, <1>5, RustSteps

LEMMA RustSplitInvariant == BSpec => [](BInv /\ RustSplit)
<1>1. BInit => RustSplit
  BY DEF BInit, Rust!Init, RustSplit, Converting
<1>2. /\ BInv /\ RustSplit /\ [CNext \/ RustNext]_<<vars, source, program, rust_vars>>
      => BInv' /\ RustSplit'
  BY NextBInv, NextRustSplit DEF BVars
<1> QED
  BY InitBInv, <1>1, <1>2, PTL DEF BSpec

(* Of a text of any length, cut anywhere, the Rust program has written a   *)
(* beginning as the encoding asked for says, and still has the rest, also  *)
(* when it panics in the middle of the file: RustOutputFaithful.           *)
THEOREM RustTextIsConverted == BSpec => []RustOutputFaithful
<1>1. RustSplit => RustOutputFaithful
  BY DEF RustSplit, Split, RustOutputFaithful, Begin, Left
<1> QED
  BY <1>1, RustSplitInvariant, PTL


=============================================================================
