------------------------------- MODULE Base64 -------------------------------
(***************************************************************************)
(* DwmBase64.cc: Base64 and Base64Url on strings and on streams.  A text   *)
(* is a sequence of digits 0..63, of Pad ('=') and of Bad, any character   *)
(* that is neither: the two alphabets differ in the characters only.       *)
(***************************************************************************)
EXTENDS Integers, Sequences, FiniteSets, SequencesExt

CONSTANTS Strings, Texts        \* what is encoded, what is decoded

VARIABLES text, direction, byString, byStream

base64Vars == <<text, direction, byString, byStream>>

Pad == 64
Bad == 65

\* Byte i of s from 0; what lies behind s counts as 0.
ByteAt(s, i) == IF i < Len(s) THEN s[i + 1] ELSE 0
Group(s, i) == ByteAt(s, i) * 65536 + ByteAt(s, i + 1) * 256 + ByteAt(s, i + 2)

\* v >> 18, 12, 6 and 0, and v >> 16, 8 and 0.
Sixes == <<262144, 4096, 64, 1>>
Eights == <<65536, 256, 1>>
\* Mutant: the digits are shifted from the other end.
DigitsShifted(v, n) == [j \in 1..n |-> (v \div Sixes[5 - j]) % 64]
Digits(v, n) == [j \in 1..n |-> (v \div Sixes[j]) % 64]
Bytes(v, n) == [j \in 1..n |-> (v \div Eights[j]) % 256]
Pads(n) == [j \in 1..n |-> Pad]

\* The whole groups of three, and the one or two bytes that are left.
EncodeString(s) ==
    LET whole == Len(s) \div 3
        left == Len(s) % 3
        n == (left * 8 + 5) \div 6
    IN  FlattenSeq([g \in 1..whole |-> Digits(Group(s, 3 * (g - 1)), 4)])
        \o (IF left = 0 THEN <<>> ELSE Digits(Group(s, 3 * whole), n) \o Pads(4 - n))

\* Three bytes at a time until the stream ends; a short group is filled up.
EncodeStream(s) ==
    LET chunk(g) ==
            LET i == IF Len(s) - 3 * g < 3 THEN Len(s) - 3 * g ELSE 3
                j == (i * 8 + 5) \div 6
            IN  Digits(Group(s, 3 * g), j) \o (IF i \in 1..2 THEN Pads(4 - j) ELSE <<>>)
    IN  FlattenSeq([g \in 1..(Len(s) \div 3 + 1) |-> chunk(g - 1)])

\* The digits of four characters before the first that is none.
Leading(q) ==
    LET others == {j \in DOMAIN q : q[j] \in {Pad, Bad}}
    IN  IF others = {} THEN Len(q) ELSE (CHOOSE j \in others : \A k \in others : j <= k) - 1
ValueOf(q, n) ==
    LET digit(j) == IF j <= n THEN q[j] ELSE 0
    IN  digit(1) * 262144 + digit(2) * 4096 + digit(3) * 64 + digit(4)

\* Each four characters; a byte for each of the last three that is no pad,
\* the digits behind the first pad being taken as zero.
DecodeString(t) ==
    LET quad(g) == SubSeq(t, 4 * g - 3, 4 * g)
        err == \E g \in 1..(Len(t) \div 4) :
                   LET n == Leading(quad(g)) IN n < 4 /\ quad(g)[n + 1] = Bad
        out(q) ==
            LET b == Bytes(ValueOf(q, Leading(q)), 3)
            IN  FlattenSeq([j \in 1..3 |-> IF q[j + 1] = Pad THEN <<>> ELSE <<b[j]>>])
    IN  IF Len(t) % 4 # 0 \/ err THEN <<>>
        ELSE FlattenSeq([g \in 1..(Len(t) \div 4) |-> out(quad(g))])

\* Up to four characters; a pad ends them, and the next four begin behind it.
\* So do four that are cut short by the end, or by a bad character, but they
\* are an error.  from[i] is what becomes of the characters behind the first i.
DecodeStream(t) ==
    LET quad(i) == SubSeq(t, i + 1, IF Len(t) < i + 4 THEN Len(t) ELSE i + 4)
        from[i \in 0..Len(t)] ==
            LET q == quad(i)
                n == Leading(q)
                b == Bytes(ValueOf(q, n), (n * 6 + 2) \div 8)
                then(k) == [ok |-> from[k].ok, out |-> b \o from[k].out]
            IN  IF i = Len(t) THEN [ok |-> TRUE, out |-> <<>>]
                ELSE IF n = 4 THEN then(i + 4)
                ELSE IF n = Len(q) \/ q[n + 1] = Bad THEN [ok |-> FALSE, out |-> <<>>]
                ELSE then(i + n + 1)
    IN  from[0]

Init ==
    /\ \/ direction = "encode" /\ text \in Strings
       \/ direction = "decode" /\ text \in Texts
    /\ byString = <<>> /\ byStream = <<>>

Convert ==
    /\ direction \in {"encode", "decode"}
    /\ byString' = IF direction = "encode" THEN EncodeString(text) ELSE DecodeString(text)
    /\ byStream' = IF direction = "encode" THEN EncodeStream(text) ELSE DecodeStream(text)
    /\ direction' = IF direction = "encode" THEN "encoded" ELSE "decoded"
    /\ UNCHANGED text

Next == Convert

-----------------------------------------------------------------------------
(* The reference: bytes and digits as one sequence of bits.                *)

Powers == <<1, 2, 4, 8, 16, 32, 64, 128>>
\* Bit i, from 0, of digits and of bytes, each of which has its highest bit first.
DigitBit(ds, i) == (ds[i \div 6 + 1] \div Powers[6 - (i % 6)]) % 2
ByteBit(bs, i) == (bs[i \div 8 + 1] \div Powers[8 - (i % 8)]) % 2

WellFormed(t) ==
    /\ Len(t) % 4 = 0
    /\ \A i \in DOMAIN t : /\ t[i] # Bad
                           /\ t[i] = Pad => i >= Len(t) - 1 /\ \A j \in i..Len(t) : t[j] = Pad

\* The bytes s have the bits of the digits of t, as many of them as make bytes.
StandsFor(t, s) ==
    LET digits == Cardinality({i \in DOMAIN t : t[i] # Pad})
    IN  /\ s \in Seq(0..255) /\ Len(s) = (6 * digits) \div 8
        /\ \A i \in 0..(8 * Len(s) - 1) : ByteBit(s, i) = DigitBit(t, i)

\* Strings and streams are encoded into the same text, which is well-formed
\* and stands for them; both decode it into what was encoded, and any other
\* well-formed text into what it stands for; a bad character is never passed
\* over.
Base64Exact ==
    /\ direction = "encoded" =>
          /\ byString = byStream
          /\ WellFormed(byString) /\ StandsFor(byString, text)
          /\ DecodeString(byString) = text /\ DecodeStream(byString) = [ok |-> TRUE, out |-> text]
    /\ direction = "decoded" =>
          /\ WellFormed(text) =>
                StandsFor(text, byString) /\ byStream = [ok |-> TRUE, out |-> byString]
          /\ (\E i \in DOMAIN text : text[i] = Bad) /\ ~(\E i \in DOMAIN text : text[i] = Pad) =>
                byString = <<>> /\ ~byStream.ok
=============================================================================
