----------------------------- MODULE RecodeBoth -----------------------------
(***************************************************************************)
(* The two programs of the recode exercise called with the same argument   *)
(* on the same file. A behaviour is the run of one of them; the other one  *)
(* is left where it starts.                                                *)
(***************************************************************************)
EXTENDS RecodeText

VARIABLES
  program,                                          \* which one runs
  rust_pc, rust_orig, rust_stdin, rust_inbuf, rust_stdout

rust_vars == <<rust_pc, rust_orig, rust_stdin, rust_inbuf, rust_stdout>>

Rust == INSTANCE RecodeRust WITH
  pc <- rust_pc, orig_enc <- rust_orig, stdin <- rust_stdin,
  inbuf <- rust_inbuf, stdout <- rust_stdout

BInit ==
  /\ program \in {"C", "Rust"}
  /\ TInit
  /\ rust_stdin = source.file /\ Rust!Init

CNext == program = "C" /\ Next /\ UNCHANGED <<source, program, rust_vars>>

RustNext == program = "Rust" /\ Rust!Next /\ UNCHANGED <<source, program, vars>>

BSpec ==
  /\ BInit /\ [][CNext \/ RustNext]_<<vars, source, program, rust_vars>>
  /\ WF_vars(CNext) /\ WF_rust_vars(RustNext)
-----------------------------------------------------------------------------
(* The bytes of an encoding converted in one piece by the Rust functions.  *)
RustConvert(from, to) ==
  LET f[bytes \in Seq(Byte)] ==
        IF Rust!OutOfBounds(from, bytes) THEN <<>>
        ELSE LET r == Rust!read_codepoint(from, bytes)
             IN  IF r.n = 0 THEN <<>>
                 ELSE Rust!write_codepoint(to, r.cp) \o f[Drop(bytes, r.n)]
  IN  f

(* However the Rust program's reads cut the input, and until it panics or  *)
(* ends, its buffer holds what it reads, and what it wrote and what it has *)
(* still to convert add up to the conversion of the whole file.            *)
RustChunksDoNotShow ==
  /\ Rust!TypeOK
  /\ rust_pc \in {"read", "recode", "index panic"} =>
    rust_stdout \o RustConvert(rust_orig, dest_enc)[rust_inbuf \o rust_stdin]
    = WriteBom(dest_enc)
        \o RustConvert(rust_orig, dest_enc)[Drop(source.file, BOM_SIZES[rust_orig])]

(* The Rust program has written its mark, and no write failed: it is in    *)
(* its loop, or was left there by the end of the input, a read that failed *)
(* or a panic.                                                             *)
Converting == rust_pc \in {"read", "recode", "exit", "index panic"}

(* The texts the Rust program converts as the encodings are defined: as    *)
(* those of the C one, but a last character of UTF-16 above E000 is read.  *)
RustFaithful(s, to) ==
  /\ s.enc \in Encoding
  /\ to = "UTF8" => \A i \in DOMAIN s.text : s.text[i] < 262144
  /\ s.enc \in UTF16 => \A i \in DOMAIN s.text : s.text[i] # 57344
  /\ s.enc = "UTF16LE" => s.text[1] # 0

(* Of a text, the Rust program has always written a beginning, in the      *)
(* encoding asked for by the definition of both, and what it has not       *)
(* written is what is left in its buffer and its input: no character is    *)
(* lost, doubled or changed before the point it has come to. When it       *)
(* panics in the middle of a file (RustConvertsAll) the characters lost    *)
(* are those it had not read yet, and no other.                            *)
RustOutputFaithful ==
  Converting /\ RustFaithful(source, dest_enc) =>
    \E n \in 0 .. Len(source.text) :
      LET written == SubSeq(source.text, 1, n)
      IN  /\ rust_stdout = TextFile(dest_enc, written)
          /\ source.file = TextFile(source.enc, written) \o (rust_inbuf \o rust_stdin)

(* The C program drops the last whole unit of UTF-16 when it is above      *)
(* E000, whether an odd byte comes after it or not.                        *)
LastUnitDropped(file, enc) ==
  /\ enc \in UTF16
  /\ Unit(enc, file, Len(file) - (Len(file) % 2) - 1) > 57344

(* On any bytes, text or not, the two programs convert alike: what the     *)
(* Rust one has written, followed by what the C functions make of the      *)
(* bytes it still has, is what the C functions make of the whole file. So  *)
(* what the Rust one wrote begins what the C one is to write (for a file   *)
(* of more than four bytes), and lacks the conversion of the bytes it did  *)
(* not come to when it panics or a read fails.                             *)
SameOutput ==
  Converting /\ ~LastUnitDropped(source.file, rust_orig) =>
    rust_stdout \o Convert(rust_orig, dest_enc)[rust_inbuf \o rust_stdin]
    = Ideal(source.file, dest_enc)

(* src/README.md, lines 53 and 61: recode57, "tanto en C como en Rust",    *)
(* reads standard input and converts it to the encoding given. The Rust    *)
(* program panics wherever a piece of UTF-8 or UTF-16 ends with a code     *)
(* point, and the rest of the file never comes out.                        *)
RustConvertsAll ==
  rust_pc = "index panic" /\ RustFaithful(source, dest_enc) =>
    rust_stdout = TextFile(dest_enc, source.text)

(* The Rust program ends, unless it is stuck with bytes it cannot decode.  *)
RustEndsUnlessStuck == program = "Rust" => Rust!EndsUnlessStuck

(* recode57 in C always ends.                                              *)
CTerminates == program = "C" => Terminates
=============================================================================
