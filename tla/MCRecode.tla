------------------------------ MODULE MCRecode ------------------------------
(***************************************************************************)
(* RecodeText for TLC: texts of one to three code points on both sides of  *)
(* every limit of the encodings, one longer than the buffer, and bytes     *)
(* that are no text; a buffer of eight bytes.                              *)
(***************************************************************************)
EXTENDS RecodeText

(* One to four bytes of UTF-8, and the limits between them. *)
Plain  == {65, 8364, 128512}
Limits == {0, 127, 128, 2047, 2048, 55295, 57344, 57345, 65535,
           65536, 262143, 262144, 1114111}

Texts == {<<a, b>> : a \in Plain, b \in Limits} \union {<<b, a>> : a \in Plain, b \in Limits}
           \union {<<a, b, c>> : a, b, c \in Plain}
           \union {[i \in 1 .. 9 |-> 65]}

(* Bytes of no encoding: a lead byte no length answers to, a sequence cut  *)
(* short, half a pair, a byte after a last unit above E000, code points    *)
(* above the last one, and short files.                                    *)
Raw == {<<65, 66, 67, 248, 66, 67, 68, 69, 70, 71, 72>>,
        <<65, 66, 67, 68, 226, 130>>,
        <<254, 255, 0, 65, 216, 61>>,
        <<255, 254, 61, 216, 65, 0, 65, 0>>,
        <<254, 255, 0, 65, 224, 1, 0>>,
        <<0, 0, 254, 255, 0, 17, 0, 0, 0, 0, 0, 65>>,
        <<65, 66, 67, 68>>, <<65, 66>>, <<>>}

MCSources ==
  {[enc |-> e, text |-> t, file |-> TextFile(e, t)] : e \in Encoding, t \in Texts}
    \union [enc : {"RAW"}, text : {<<>>}, file : Raw]

MCFiles == {s.file : s \in MCSources}

(* What the stack holds where bom is. *)
MCGarbage == {0}

=============================================================================
