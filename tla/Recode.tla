------------------------------- MODULE Recode -------------------------------
(***************************************************************************)
(* recode57, src/recode/recode57_c/recode57.c: main reads standard input   *)
(* by pieces of whatever size read() returns, decodes what is complete,    *)
(* encodes it, writes it, and moves the bytes left over to the start of    *)
(* the buffer. One action per call that can see the outside, one per round *)
(* of the loops of decode_input and encode_output.                         *)
(***************************************************************************)
EXTENDS Codec

CONSTANTS
  NBUF,     \* bytes of the input buffer and elements of codepoints (32)
  MAXBOM,   \* bytes read as a mark, the longest there is (4)
  Files,    \* what standard input may hold
  Garbage   \* what the bytes of bom may hold before they are read

ASSUME RecodeAssumption ==
  /\ MAXBOM = 4
  /\ NBUF \in Nat /\ NBUF > MAXBOM
  /\ Files \subseteq Seq(Byte)
  /\ Garbage \subseteq Byte

VARIABLES
  pc,          \* the call main is at
  dest_enc,    \* the encoding asked for
  orig_enc,    \* the encoding detected
  stdin,       \* bytes read() has not returned yet
  inbuf,       \* bytes waiting to be decoded: buf .. buf + nbytes of the code
  codepoints,  \* code points decoded and not encoded yet
  outbuf,      \* bytes to be written
  stdout,      \* bytes written
  intact       \* no byte has been made up, overwritten or refused yet

vars == <<pc, dest_enc, orig_enc, stdin, inbuf, codepoints, outbuf, stdout, intact>>

UNKNOWN == "UNKNOWN"

Min2(a, b) == IF a < b THEN a ELSE b

Drop(s, n) == SubSeq(s, n + 1, Len(s))

Init ==
  /\ pc = "args"
  /\ dest_enc \in Encoding \union {UNKNOWN}
  /\ orig_enc = UNKNOWN
  /\ stdin \in Files
  /\ inbuf = <<>> /\ codepoints = <<>> /\ outbuf = <<>> /\ stdout = <<>>
  /\ intact = TRUE

(* An unknown encoding ends main before it reads anything. *)
ParseArgs ==
  /\ pc = "args"
  /\ pc' = IF dest_enc \in Encoding THEN "bom" ELSE "exit"
  /\ UNCHANGED <<dest_enc, orig_enc, stdin, inbuf, codepoints, outbuf, stdout, intact>>

(* Main goes on with bom: what is not part of the mark begins inbuf, and   *)
(* the mark of the output begins outbuf.                                   *)
TakeBom(bom) ==
  /\ orig_enc' = BomToEnc(bom)
  /\ inbuf' = Drop(bom, BOM_SIZES[orig_enc'])
  /\ outbuf' = WriteBom(dest_enc)
  /\ pc' = "read"
  /\ UNCHANGED <<dest_enc, codepoints, stdout>>

ReadBom ==
  /\ pc = "bom"
  /\ Len(stdin) >= MAXBOM
  /\ TakeBom(SubSeq(stdin, 1, MAXBOM))
  /\ stdin' = Drop(stdin, MAXBOM)
  /\ UNCHANGED intact

(* read() returns less than asked, or fails, and main does not test it:    *)
(* the rest of bom is uninitialised.                                       *)
ReadBomShort ==
  /\ pc = "bom"
  /\ \E k \in 0 .. Min2(MAXBOM - 1, Len(stdin)) :
       \E junk \in [1 .. MAXBOM - k -> Garbage] :
         /\ TakeBom(SubSeq(stdin, 1, k) \o junk)
         /\ stdin' = Drop(stdin, k)
  /\ intact' = FALSE

(* Fault: the room already taken is not subtracted. *)
ReadOverrun ==
  /\ pc = "read"
  /\ \E k \in 1 .. Min2(NBUF, Len(stdin)) :
       /\ inbuf' = inbuf \o SubSeq(stdin, 1, k)
       /\ stdin' = Drop(stdin, k)
  /\ pc' = "decode"
  /\ UNCHANGED <<dest_enc, orig_enc, codepoints, outbuf, stdout, intact>>

(* Fault: less than was asked for is taken for the end of the input. *)
ReadSomeEndsEarly ==
  /\ pc = "read"
  /\ \E k \in 1 .. Min2(NBUF - Len(inbuf), Len(stdin)) :
       /\ inbuf' = inbuf \o SubSeq(stdin, 1, k)
       /\ stdin' = Drop(stdin, k)
  /\ pc' = IF Len(inbuf') < NBUF THEN "exit" ELSE "decode"
  /\ UNCHANGED <<dest_enc, orig_enc, codepoints, outbuf, stdout, intact>>

(* read() returns between one byte and all that fits. *)
ReadSome ==
  /\ pc = "read"
  /\ \E k \in 1 .. Min2(NBUF - Len(inbuf), Len(stdin)) :
       /\ inbuf' = inbuf \o SubSeq(stdin, 1, k)
       /\ stdin' = Drop(stdin, k)
  /\ pc' = "decode"
  /\ UNCHANGED <<dest_enc, orig_enc, codepoints, outbuf, stdout, intact>>

(* Fault: the loop goes on while there is something in the buffer. *)
ReadEndStays ==
  /\ pc = "read"
  /\ stdin = <<>> \/ Len(inbuf) = NBUF
  /\ pc' = IF inbuf = <<>> THEN "exit" ELSE "decode"
  /\ UNCHANGED <<dest_enc, orig_enc, stdin, inbuf, codepoints, outbuf, stdout, intact>>

(* read() returns 0: at the end of the input, or asked for 0 bytes. *)
ReadEnd ==
  /\ pc = "read"
  /\ stdin = <<>> \/ Len(inbuf) = NBUF
  /\ pc' = "exit"
  /\ UNCHANGED <<dest_enc, orig_enc, stdin, inbuf, codepoints, outbuf, stdout, intact>>

(* read() returns -1: the loop ends as it does at the end of the input. *)
ReadFails ==
  /\ pc = "read"
  /\ pc' = "exit"
  /\ UNCHANGED <<dest_enc, orig_enc, stdin, inbuf, codepoints, outbuf, stdout, intact>>

(* One round of decode_input: a code point goes to destbuf[n]. *)
Decode ==
  /\ pc = "decode"
  /\ LET r == ReadCodepoint(orig_enc, inbuf)
     IN  /\ r.n > 0
         /\ codepoints' = Append(codepoints, r.cp)
         /\ inbuf' = Drop(inbuf, r.n)
  /\ UNCHANGED <<pc, dest_enc, orig_enc, stdin, outbuf, stdout, intact>>

(* Fault: what was not decoded is not moved to the start of the buffer. *)
DecodeEndDrops ==
  /\ pc = "decode"
  /\ ReadCodepoint(orig_enc, inbuf).n = 0
  /\ inbuf' = <<>>
  /\ pc' = "encode"
  /\ UNCHANGED <<dest_enc, orig_enc, stdin, codepoints, outbuf, stdout, intact>>

(* The last round: read_codepoint returns 0, but stores a 0 in destbuf[n]  *)
(* all the same. With NBUF code points that is past the end of the array,  *)
(* on whatever the build put there: the mark in outbuf, or something that  *)
(* is not used any more.                                                   *)
DecodeEnd ==
  /\ pc = "decode"
  /\ ReadCodepoint(orig_enc, inbuf).n = 0
  /\ \/ UNCHANGED <<outbuf, intact>>
     \/ /\ Len(codepoints) = NBUF
        /\ outbuf' = [i \in DOMAIN outbuf |-> IF i <= 4 THEN 0 ELSE outbuf[i]]
        /\ intact' = (intact /\ outbuf' = outbuf)
  /\ pc' = "encode"
  /\ UNCHANGED <<dest_enc, orig_enc, stdin, inbuf, codepoints, stdout>>

(* One round of encode_output. *)
Encode ==
  /\ pc = "encode"
  /\ codepoints # <<>>
  /\ outbuf' = outbuf \o WriteCodepoint(dest_enc, Head(codepoints))
  /\ codepoints' = Tail(codepoints)
  /\ UNCHANGED <<pc, dest_enc, orig_enc, stdin, inbuf, stdout, intact>>

WriteAll ==
  /\ pc = "encode"
  /\ codepoints = <<>>
  /\ stdout' = stdout \o outbuf
  /\ outbuf' = <<>>
  /\ pc' = "read"
  /\ UNCHANGED <<dest_enc, orig_enc, stdin, inbuf, codepoints, intact>>

(* write() accepts part of it or fails, which main does not test. Bound:   *)
(* only the first fault of a run, since nothing is said of what comes out  *)
(* after one.                                                              *)
WriteShort ==
  /\ pc = "encode"
  /\ codepoints = <<>>
  /\ intact
  /\ \E k \in 0 .. Len(outbuf) - 1 : stdout' = stdout \o SubSeq(outbuf, 1, k)
  /\ outbuf' = <<>>
  /\ pc' = "read"
  /\ intact' = FALSE
  /\ UNCHANGED <<dest_enc, orig_enc, stdin, inbuf, codepoints>>

Next ==
  \/ ParseArgs
  \/ ReadBom \/ ReadBomShort
  \/ ReadSome \/ ReadEnd \/ ReadFails
  \/ Decode \/ DecodeEnd
  \/ Encode
  \/ WriteAll \/ WriteShort

(* main is one thread: it goes on as long as read() and write() return,    *)
(* which a file and the program that takes its output let them do.         *)
Spec == Init /\ [][Next]_vars /\ WF_vars(Next)

----------------------------------------------------------------------------
(* The types, and the bounds of the three buffers main keeps on its stack: *)
(* what read() and encode_output put in them fits however the input is cut *)
(* up.                                                                     *)
TypeOK ==
  /\ pc \in {"args", "bom", "read", "decode", "encode", "exit"}
  /\ dest_enc \in Encoding \union {UNKNOWN}
  /\ orig_enc \in Encoding \union {UNKNOWN}
  /\ intact \in BOOLEAN
  /\ stdin \in Seq(Byte)
  /\ stdout \in Seq(Byte)
  /\ inbuf \in Seq(Byte)      /\ Len(inbuf) <= NBUF
  /\ codepoints \in Seq(Int)  /\ Len(codepoints) <= NBUF
  /\ outbuf \in Seq(Byte)     /\ Len(outbuf) <= NBUF * 4 + MAXBOM

(* The comment on decode_input says destbuf is large enough with nbytes    *)
(* elements, and main gives it NBUF: every store of read_codepoint, the    *)
(* one it makes when it returns 0 included, should fall inside.            *)
DestbufSuffices == pc = "decode" => Len(codepoints) < NBUF

(* However read() cuts the input and whatever the file holds, recode57     *)
(* comes to an end: the loop ends on a return of 0 although bytes are left *)
(* over that no further read can complete.                                 *)
Terminates == <>(pc = "exit")

=============================================================================
