----------------------------- MODULE RecodeText -----------------------------
(***************************************************************************)
(* recode57 with what its input stands for: a text in one of the encodings *)
(* or bytes that are no text. What comes out is compared with the whole    *)
(* input converted at once, and with the encodings' definition.            *)
(***************************************************************************)
EXTENDS Recode, Unicode

CONSTANT Sources   \* [enc, text, file]: a text, an encoding and the file they
                   \* make; or bytes that are no text, with "RAW" for an encoding

ASSUME SourcesAssumption ==
  \A s \in Sources :
    /\ s.file \in Files
    /\ s.enc \in Encoding => Text(s.text) /\ s.file = TextFile(s.enc, s.text)

VARIABLE source    \* the one this input was made from

TInit ==
  /\ source \in Sources
  /\ stdin = source.file
  /\ Init

TSpec == TInit /\ [][Next /\ UNCHANGED source]_<<vars, source>> /\ WF_vars(Next)

----------------------------------------------------------------------------
(* The bytes of an encoding converted in one piece, as far as they go. *)
Convert(from, to) ==
  LET f[bytes \in Seq(Byte)] ==
        LET r == ReadCodepoint(from, bytes)
        IN  IF r.n = 0 THEN <<>>
            ELSE WriteCodepoint(to, r.cp) \o f[Drop(bytes, r.n)]
  IN  f

EncodeAll(to) ==
  LET f[points \in Seq(Int)] ==
        IF points = <<>> THEN <<>>
        ELSE WriteCodepoint(to, Head(points)) \o f[Tail(points)]
  IN  f

(* A whole file converted in one piece. *)
Ideal(file, to) ==
  LET from == BomToEnc(SubSeq(file, 1, MAXBOM))
  IN  WriteBom(to) \o Convert(from, to)[Drop(file, BOM_SIZES[from])]

(* The texts recode57 converts as the encodings are defined. Not those:    *)
(* UTF-8 loses bits 18 to 20 on output; on input, UTF-16 takes E000 for a  *)
(* surrogate and does not see a last code point above it, and its little   *)
(* endian mark before a 0 is that of UTF-32.                               *)
Faithful(s, to) ==
  /\ s.enc \in Encoding
  /\ to = "UTF8" => \A i \in DOMAIN s.text : s.text[i] < 262144
  /\ s.enc \in UTF16 => /\ \A i \in DOMAIN s.text : s.text[i] # 57344
                        /\ LET last == s.text[Len(s.text)] IN last < 57345 \/ last > 65535
  /\ s.enc = "UTF16LE" => s.text[1] # 0

(* However read() cuts the input up, at every point of the run what was    *)
(* written, what waits in each buffer and what is still to be read add up  *)
(* to the conversion of the whole file: no byte is lost, doubled or        *)
(* reordered where one piece ends and the next begins, in the middle of a  *)
(* code point included.                                                    *)
ChunksDoNotShow ==
  intact /\ orig_enc # UNKNOWN =>
    stdout \o outbuf \o EncodeAll(dest_enc)[codepoints]
      \o Convert(orig_enc, dest_enc)[inbuf \o stdin]
    = Ideal(source.file, dest_enc)

(* When main returns having seen the end of more than four bytes of input, *)
(* all that can be converted was written: nothing is left in a buffer.     *)
OutputComplete ==
  pc = "exit" /\ intact /\ stdin = <<>> /\ orig_enc # UNKNOWN /\ Len(source.file) > MAXBOM
    => stdout = Ideal(source.file, dest_enc)

(* recode57 reads what the encodings' definition says a text is, and       *)
(* writes it as they say, for every pair of encodings.                     *)
OutputFaithful ==
  pc = "exit" /\ intact /\ stdin = <<>> /\ Len(source.file) > MAXBOM
    /\ orig_enc # UNKNOWN /\ Faithful(source, dest_enc)
    => stdout = TextFile(dest_enc, source.text)

=============================================================================
