----------------------------- MODULE RecodeRust -----------------------------
(***************************************************************************)
(* recode57 in Rust, src/recode/recode57_rust/src: main.rs, and            *)
(* recode57_alu.rs where it differs from the C of module Codec. There is   *)
(* one buffer: a code point is written as soon as it is decoded. The build *)
(* is the release one, whose u32 wraps as the C does.                      *)
(***************************************************************************)
EXTENDS Codec

CONSTANTS
  NBUF,     \* bytes of inbuf (32)
  MAXBOM    \* bytes read as a mark (4)

VARIABLES
  pc,          \* the call main is at, or how the process ended
  dest_enc,    \* the encoding asked for
  orig_enc,    \* the encoding detected
  stdin,       \* bytes read() has not returned yet
  inbuf,       \* bytes not decoded: inbuf[used .. inbytes] of the code
  stdout       \* bytes given to standard output

vars == <<pc, dest_enc, orig_enc, stdin, inbuf, stdout>>

UNKNOWN == "UNKNOWN"

Ended == {"exit", "error", "mark panic", "index panic", "write panic"}

Min2(a, b) == IF a < b THEN a ELSE b

Drop(s, n) == SubSeq(s, n + 1, Len(s))

Init ==
  /\ pc = "args" /\ orig_enc = UNKNOWN
  /\ inbuf = <<>> /\ stdout = <<>>

(* read_codepoint of an empty slice, or of one byte of UTF-16, indexes     *)
(* past its end: there is no has_codepoint before it.                      *)
OutOfBounds(enc, buf) ==
  \/ enc \in UTF16 /\ Len(buf) < 2
  \/ enc = "UTF8" /\ buf = <<>>

(* Otherwise the branches are those of the C; None is Nothing.             *)
read_codepoint(enc, buf) ==
  IF enc \in UTF32 THEN IF Len(buf) >= 4 THEN ReadUTF32(enc, buf) ELSE Nothing
  ELSE IF enc \in UTF16 THEN ReadUTF16(enc, buf)
  ELSE ReadUTF8(buf)

(* Fault: the pair is computed without taking 10000 away. *)
write_codepointUnbiased(enc, cp) == WriteCodepointUnbiased(enc, cp)

(* Branch by branch what the C does, its shift by 24 included. *)
write_codepoint(enc, cp) == WriteCodepoint(enc, cp)

bom_to_enc(bom) == BomToEnc(bom)

write_bom(enc) == WriteBom(enc)

(* The ? after parse_args ends main with an error. *)
ParseArgs ==
  /\ pc = "args"
  /\ pc' = IF dest_enc \in Encoding THEN "bom" ELSE "error"
  /\ UNCHANGED <<dest_enc, orig_enc, stdin, inbuf, stdout>>

(* read_exact goes on reading until it has the four bytes. *)
ReadBom ==
  /\ pc = "bom"
  /\ Len(stdin) >= MAXBOM
  /\ LET bom == SubSeq(stdin, 1, MAXBOM) IN
       /\ orig_enc' = bom_to_enc(bom)
       /\ inbuf' = Drop(bom, BOM_SIZES[orig_enc'])
  /\ stdin' = Drop(stdin, MAXBOM)
  /\ pc' = "mark"
  /\ UNCHANGED <<dest_enc, stdout>>

(* It fails, at the end of the input or for another reason: unwrap panics. *)
ReadBomFails ==
  /\ pc = "bom"
  /\ pc' = "mark panic"
  /\ UNCHANGED <<dest_enc, orig_enc, stdin, inbuf, stdout>>

(* Fault: the mark written is the one that was read.                       *)
WriteMarkRead ==
  /\ pc = "mark"
  /\ stdout' = stdout \o write_bom(orig_enc)
  /\ pc' = "read"
  /\ UNCHANGED <<dest_enc, orig_enc, stdin, inbuf>>

WriteMark ==
  /\ pc = "mark"
  /\ stdout' = stdout \o write_bom(dest_enc)
  /\ pc' = "read"
  /\ UNCHANGED <<dest_enc, orig_enc, stdin, inbuf>>

(* read() fills part of inbuf[offset..]. *)
ReadSome ==
  /\ pc = "read"
  /\ \E k \in 1 .. Min2(NBUF - Len(inbuf), Len(stdin)) :
       /\ inbuf' = inbuf \o SubSeq(stdin, 1, k)
       /\ stdin' = Drop(stdin, k)
  /\ pc' = "recode"
  /\ UNCHANGED <<dest_enc, orig_enc, stdout>>

(* Fault: the loop is left only by an error of read().                     *)
ReadNothingStays ==
  /\ pc = "read"
  /\ stdin = <<>> \/ Len(inbuf) = NBUF
  /\ pc' = "recode"
  /\ UNCHANGED <<dest_enc, orig_enc, stdin, inbuf, stdout>>

(* It returns 0, at the end of the input or for an empty slice. Only with  *)
(* nothing left over is the loop left.                                     *)
ReadNothing ==
  /\ pc = "read"
  /\ stdin = <<>> \/ Len(inbuf) = NBUF
  /\ pc' = IF inbuf = <<>> THEN "exit" ELSE "recode"
  /\ UNCHANGED <<dest_enc, orig_enc, stdin, inbuf, stdout>>

(* It returns an error: the while let ends, and main returns Ok. *)
ReadFails ==
  /\ pc = "read"
  /\ pc' = "exit"
  /\ UNCHANGED <<dest_enc, orig_enc, stdin, inbuf, stdout>>

(* A round of recode_encode: one code point read and written. *)
Recode ==
  /\ pc = "recode" /\ ~OutOfBounds(orig_enc, inbuf)
  /\ LET r == read_codepoint(orig_enc, inbuf) IN
       /\ r.n > 0
       /\ inbuf' = Drop(inbuf, r.n)
       /\ stdout' = stdout \o write_codepoint(dest_enc, r.cp)
  /\ UNCHANGED <<pc, dest_enc, orig_enc, stdin>>

(* Fault: the bytes left over are not moved to the start of inbuf.         *)
RecodeEndDrops ==
  /\ pc = "recode" /\ ~OutOfBounds(orig_enc, inbuf)
  /\ read_codepoint(orig_enc, inbuf).n = 0
  /\ inbuf' = <<>> /\ pc' = "read"
  /\ UNCHANGED <<dest_enc, orig_enc, stdin, stdout>>

(* None: what is left over is moved to the start of inbuf. *)
RecodeEnd ==
  /\ pc = "recode" /\ ~OutOfBounds(orig_enc, inbuf)
  /\ read_codepoint(orig_enc, inbuf).n = 0
  /\ pc' = "read"
  /\ UNCHANGED <<dest_enc, orig_enc, stdin, inbuf, stdout>>

RecodePanics ==
  /\ pc = "recode" /\ OutOfBounds(orig_enc, inbuf)
  /\ pc' = "index panic"
  /\ UNCHANGED <<dest_enc, orig_enc, stdin, inbuf, stdout>>

(* write_all does not return before all is written, and unwrap panics if   *)
(* it cannot be; how much of it came out is not modelled.                  *)
WriteFails ==
  /\ \/ pc = "mark"
     \/ /\ pc = "recode" /\ ~OutOfBounds(orig_enc, inbuf)
        /\ read_codepoint(orig_enc, inbuf).n > 0
  /\ pc' = "write panic"
  /\ UNCHANGED <<dest_enc, orig_enc, stdin, inbuf, stdout>>

Next ==
  \/ ParseArgs \/ ReadBom \/ ReadBomFails \/ WriteMark
  \/ ReadSome \/ ReadNothing \/ ReadFails
  \/ Recode \/ RecodeEnd \/ RecodePanics
  \/ WriteFails

(* One thread, whose reads and writes return. *)
Spec == Init /\ [][Next]_vars /\ WF_vars(Next)
-----------------------------------------------------------------------------
(* Types, and the bound of the one buffer.                                 *)
TypeOK ==
  /\ pc \in {"args", "bom", "mark", "read", "recode"} \union Ended
  /\ orig_enc \in Encoding \union {UNKNOWN}
  /\ inbuf \in Seq(Byte) /\ Len(inbuf) <= NBUF
  /\ stdin \in Seq(Byte) /\ stdout \in Seq(Byte)

(* The loop can do nothing but go round: what is in inbuf is no code point *)
(* and read() has nothing to add to it.                                    *)
Stuck ==
  /\ pc \in {"read", "recode"} /\ inbuf # <<>>
  /\ ~OutOfBounds(orig_enc, inbuf)
  /\ read_codepoint(orig_enc, inbuf).n = 0
  /\ stdin = <<>> \/ Len(inbuf) = NBUF

(* The program ends, unless an incomplete code point is left at the end of *)
(* the input or bytes that begin none fill inbuf: then it loops for ever   *)
(* (main.rs, lines 50 to 67), the only way it does not end.                *)
EndsUnlessStuck == <>(pc \in Ended) \/ <>[]Stuck
=============================================================================
