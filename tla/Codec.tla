------------------------------- MODULE Codec -------------------------------
(***************************************************************************)
(* The conversions of src/recode/recode57_c/recode57_alu.c: byte order     *)
(* marks, and one code point from and to the bytes of an encoding. A byte  *)
(* is a number below 256, buf[0] of the code is buf[1] here, and nbytes is *)
(* Len(buf). A codepoint_t is the number its 32 bits are in two's          *)
(* complement: what the code takes for 80000000 and above is negative.     *)
(***************************************************************************)
EXTENDS Integers, Sequences

Byte     == 0 .. 255
Encoding == {"UTF8", "UTF16BE", "UTF16LE", "UTF32BE", "UTF32LE"}
UTF16    == {"UTF16BE", "UTF16LE"}
UTF32    == {"UTF32BE", "UTF32LE"}

LittleEndian(enc) == enc \in {"UTF16LE", "UTF32LE"}

Starts(prefix, buf) ==
  /\ Len(prefix) <= Len(buf)
  /\ \A i \in DOMAIN prefix : buf[i] = prefix[i]

(* The mark of an encoding: what write_bom writes. *)
WriteBom(enc) ==
  IF enc = "UTF32BE" THEN <<0, 0, 254, 255>>
  ELSE IF enc = "UTF32LE" THEN <<255, 254, 0, 0>>
  ELSE IF enc = "UTF16BE" THEN <<254, 255>>
  ELSE IF enc = "UTF16LE" THEN <<255, 254>>
  ELSE <<>>

(* The encoding the four bytes of bom announce. The order matters: the     *)
(* mark of UTF-16LE begins the one of UTF-32LE.                            *)
BomToEnc(bom) ==
  IF Starts(WriteBom("UTF16BE"), bom) THEN "UTF16BE"
  ELSE IF Starts(WriteBom("UTF32BE"), bom) THEN "UTF32BE"
  ELSE IF Starts(WriteBom("UTF32LE"), bom) THEN "UTF32LE"
  ELSE IF Starts(WriteBom("UTF16LE"), bom) THEN "UTF16LE"
  ELSE "UTF8"

BOM_SIZES == [enc \in Encoding |->
                IF enc = "UTF8" THEN 0 ELSE IF enc \in UTF16 THEN 2 ELSE 4]

----------------------------------------------------------------------------
(* Decoding. *)

(* The 16-bit unit at buf[i], buf[i+1]. *)
Unit(enc, buf, i) ==
  IF LittleEndian(enc) THEN buf[i+1] * 256 + buf[i] ELSE buf[i] * 256 + buf[i+1]

(* Bits 5 to 0 of a byte that continues a UTF-8 sequence. *)
Cont(b) == b % 64

BitClear(b, weight) == (b \div weight) % 2 = 0

(* Does buf hold enough to try? With two or three bytes of UTF-16 only a   *)
(* unit below the surrogates is enough; every byte of UTF-8 is.            *)
HasCodepoint(enc, buf) ==
  \/ enc \in UTF32 /\ Len(buf) >= 4
  \/ enc \in UTF16 /\ \/ Len(buf) >= 4
                      \/ Len(buf) >= 2 /\ Unit(enc, buf, 1) < 55296
  \/ enc = "UTF8" /\ Len(buf) >= 1

(* What read_codepoint returns and stores: the bytes used, 0 when there    *)
(* are not enough, and the code point, 0 when there is none.               *)
Nothing    == [n |-> 0, cp |-> 0]
Read(n, c) == [n |-> n, cp |-> c]

Word(b1, b2, b3, b4) ==
  (IF b1 < 128 THEN b1 ELSE b1 - 256) * 16777216 + b2 * 65536 + b3 * 256 + b4

ReadUTF32(enc, buf) ==
  Read(4, IF LittleEndian(enc) THEN Word(buf[4], buf[3], buf[2], buf[1])
                               ELSE Word(buf[1], buf[2], buf[3], buf[4]))

(* A unit outside D800..E000 is a code point; another starts a pair, and   *)
(* the second unit is taken for the low half whatever it is.               *)
ReadUTF16(enc, buf) ==
  LET hs == Unit(enc, buf, 1)
  IN  IF hs < 55296 \/ hs > 57344 THEN Read(2, hs)
      ELSE IF Len(buf) >= 4
      THEN Read(4, (hs - 55296) * 1024 + (Unit(enc, buf, 3) - 56320) + 65536)
      ELSE Nothing

(* The first clear bit below the top of the first byte gives the length;   *)
(* the branches are tried in order, each with the bytes it needs.          *)
ReadUTF8(buf) ==
  IF buf[1] <= 127 THEN Read(1, buf[1])
  ELSE IF Len(buf) > 1 /\ BitClear(buf[1], 32)
  THEN Read(2, (buf[1] % 32) * 64 + Cont(buf[2]))
  ELSE IF Len(buf) > 2 /\ BitClear(buf[1], 16)
  THEN Read(3, (buf[1] % 16) * 4096 + Cont(buf[2]) * 64 + Cont(buf[3]))
  ELSE IF Len(buf) > 3 /\ BitClear(buf[1], 8)
  THEN Read(4, (buf[1] % 8) * 262144 + Cont(buf[2]) * 4096
                 + Cont(buf[3]) * 64 + Cont(buf[4]))
  ELSE Nothing

ReadCodepoint(enc, buf) ==
  IF ~HasCodepoint(enc, buf) THEN Nothing
  ELSE IF enc \in UTF32 THEN ReadUTF32(enc, buf)
  ELSE IF enc \in UTF16 THEN ReadUTF16(enc, buf)
  ELSE ReadUTF8(buf)

----------------------------------------------------------------------------
(* Encoding. Every store truncates to a byte. *)

(* codepoint <= k, the comparison of the code being unsigned. *)
AtMost(cp, k) == 0 <= cp /\ cp <= k

(* The byte of x whose lowest bit is the one of the given weight. *)
ByteOf(x, weight) == (x \div weight) % 256

WriteUnit(enc, u) ==
  IF LittleEndian(enc) THEN <<ByteOf(u, 1), ByteOf(u, 256)>>
                       ELSE <<ByteOf(u, 256), ByteOf(u, 1)>>

WriteUTF32(enc, cp) ==
  IF LittleEndian(enc)
  THEN <<ByteOf(cp, 1), ByteOf(cp, 256), ByteOf(cp, 65536), ByteOf(cp, 16777216)>>
  ELSE <<ByteOf(cp, 16777216), ByteOf(cp, 65536), ByteOf(cp, 256), ByteOf(cp, 1)>>

WriteUTF16(enc, cp) ==
  IF AtMost(cp, 65535) THEN WriteUnit(enc, cp)
  ELSE LET a == cp - 65536
       IN  WriteUnit(enc, a \div 1024 + 55296) \o WriteUnit(enc, (a % 1024) + 56320)

(* The first byte of four takes its bits from bit 24 up, not from bit 18:  *)
(* they are 0 in every code point. Above 10FFFF nothing is written.        *)
WriteUTF8(cp) ==
  LET tail(weight) == 128 + ((cp \div weight) % 64)
  IN  IF AtMost(cp, 127) THEN <<cp>>
      ELSE IF AtMost(cp, 2047)
      THEN <<192 + ((cp \div 64) % 32), tail(1)>>
      ELSE IF AtMost(cp, 65535)
      THEN <<224 + ((cp \div 4096) % 16), tail(64), tail(1)>>
      ELSE IF AtMost(cp, 1114111)
      THEN <<240 + ((cp \div 16777216) % 8), tail(4096), tail(64), tail(1)>>
      ELSE <<>>

(* Fault: the pair is computed without taking 10000 away. *)
WriteCodepointUnbiased(enc, cp) ==
  IF enc \in UTF32 THEN WriteUTF32(enc, cp)
  ELSE IF enc \in UTF16 /\ ~AtMost(cp, 65535)
  THEN WriteUnit(enc, cp \div 1024 + 55296) \o WriteUnit(enc, (cp % 1024) + 56320)
  ELSE IF enc \in UTF16 THEN WriteUnit(enc, cp)
  ELSE WriteUTF8(cp)

WriteCodepoint(enc, cp) ==
  IF enc \in UTF32 THEN WriteUTF32(enc, cp)
  ELSE IF enc \in UTF16 THEN WriteUTF16(enc, cp)
  ELSE WriteUTF8(cp)

=============================================================================
