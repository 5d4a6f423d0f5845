-------------------------------- MODULE Base64 --------------------------------
(***************************************************************************)
(* base64.cpp, which decodes the images of /upload/send.  A byte is a      *)
(* number below 256.  A character is its position 0..63 in the alphabet    *)
(* (pos_of_char takes "+" and "-" for 62, "/" and "_" for 63), or Pad for  *)
(* "=" and ".", Newline, or Other.                                         *)
(***************************************************************************)
EXTENDS Integers, Sequences, SequencesExt, FiniteSets

CONSTANT Error     \* an exception

ASSUME ErrorAssumption == Error \notin Seq(Int)

Pad     == -1
Newline == -2
Other   == -3

\* A sequence is cut into pieces of n, the last of which may be shorter.
Pieces(s, n)   == (Len(s) + n - 1) \div n
Piece(s, n, i) == SubSeq(s, n * (i - 1) + 1, IF n * i < Len(s) THEN n * i ELSE Len(s))

\* The piece that has the k-th element, and the element's place in it.
PieceOf(k, n) == (k - 1) \div n + 1
Within(k, n)  == ((k - 1) % n) + 1

\* ---- Encoding: three bytes become four characters. ----

EncodeChunk(b) ==
  LET byte(i) == IF i <= Len(b) THEN b[i] ELSE 0
  IN <<byte(1) \div 4, (byte(1) % 4) * 16 + byte(2) \div 16,
       IF Len(b) = 1 THEN Pad ELSE (byte(2) % 16) * 4 + byte(3) \div 64,
       IF Len(b) < 3 THEN Pad ELSE byte(3) % 64>>

Encode(bytes) == [k \in 1..(4 * Pieces(bytes, 3)) |->
                    EncodeChunk(Piece(bytes, 3, PieceOf(k, 4)))[Within(k, 4)]]

\* encode_pem and encode_mime: insert_linebreaks puts a newline between lines.
EncodeInLines(bytes, distance) ==
  LET line(i) == Piece(Encode(bytes), distance, i)
  IN FlattenSeq([i \in 1..Pieces(Encode(bytes), distance) |->
                   IF i = 1 THEN line(i) ELSE <<Newline>> \o line(i)])

\* ---- Decoding. ----

\* What a character is shifted by; the rest of its byte is that of the next one.
Weight == <<4, 16, 64>>

DecodedByte(c, i) == (c[i] * Weight[i] + c[i + 1] \div (64 \div Weight[i])) % 256

\* Variant: the last two characters of a chunk are read only if it is whole,
\* as if the input were always padded.
DecodeChunkPadded(c) ==
  LET has(i) == Len(c) = 4 /\ c[i] # Pad
      made   == IF ~has(3) THEN 1 ELSE IF ~has(4) THEN 2 ELSE 3
  IN IF \E i \in 1..(made + 1) : i > Len(c) \/ c[i] \notin 0..63 THEN Error
     ELSE [i \in 1..made |-> DecodedByte(c, i)]

\* One to three bytes.  A missing second character is an out_of_range of at(),
\* a character that is none an exception of pos_of_char; what stands after a
\* padding is not looked at.  push_back keeps the low eight bits.
DecodeChunk(c) ==
  LET has(i) == i <= Len(c) /\ c[i] # Pad
      made   == IF ~has(3) THEN 1 ELSE IF ~has(4) THEN 2 ELSE 3
  IN IF \E i \in 1..(made + 1) : i > Len(c) \/ c[i] \notin 0..63 THEN Error
     ELSE [i \in 1..made |-> DecodedByte(c, i)]

\* The bytes of all chunks one after the other: of three places for each chunk
\* those that have a byte.
Decode(chars) ==
  LET chunk(i) == DecodeChunk(Piece(chars, 4, i))
      all      == 1..Pieces(chars, 4)
      made     == {k \in 1..(3 * Pieces(chars, 4)) : Within(k, 3) \in DOMAIN chunk(PieceOf(k, 3))}
      place(j) == CHOOSE k \in made : Cardinality({l \in made : l <= k}) = j
  IN IF \E i \in all : chunk(i) = Error THEN Error
     ELSE [j \in 1..Cardinality(made) |-> chunk(PieceOf(place(j), 3))[Within(place(j), 3)]]

DecodeWithoutLinebreaks(chars) == Decode(SelectSeq(chars, LAMBDA c : c # Newline))

-----------------------------------------------------------------------------
\* Base64 without the padding, which RFC 2045 allows.
Unpadded(bytes) == SubSeq(Encode(bytes), 1, (4 * Len(bytes) + 2) \div 3)

\* Text that is no base64: it ends after the first character of a chunk, or has a
\* character that is none before any padding.
Malformed(chars) ==
  \/ Len(chars) % 4 = 1
  \/ \E i \in DOMAIN chars : /\ chars[i] \notin 0..63
                             /\ \A j \in 1..i : chars[j] # Pad
=============================================================================
