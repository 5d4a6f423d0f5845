---------------------------- MODULE ChatApp_proofs -----------------------------
(***************************************************************************)
(* Proofs about ChatApp: what its IO threads may rely on while they share  *)
(* the CORS middleware, the table of accounts and the directory of chats.  *)
(***************************************************************************)
EXTENDS ChatApp, TLAPS, FiniteSetTheorems, WellFoundedInduction

-----------------------------------------------------------------------------
(* base64: what base64_encode makes of some bytes, padded or not, is those *)
(* bytes to base64_decode, and text that is no base64 is an exception.     *)

Bytes == 0..255

LEMMA SubSeqIs ==
  ASSUME NEW S, NEW s \in Seq(S), NEW a \in Nat, NEW e \in Nat, a <= e, e <= Len(s)
  PROVE  /\ SubSeq(s, a + 1, e) \in Seq(S) /\ Len(SubSeq(s, a + 1, e)) = e - a
         /\ \A j \in 1..(e - a) : SubSeq(s, a + 1, e)[j] = s[a + j]
OBVIOUS

\* The pieces of three, and of four.
LEMMA PieceOfThree ==
  ASSUME NEW S, NEW s \in Seq(S), NEW i \in 1..Pieces(s, 3)
  PROVE  \E m \in 1..3 :
           /\ m = IF 3 * i < Len(s) THEN 3 ELSE Len(s) - 3 * (i - 1)
           /\ Piece(s, 3, i) \in Seq(S) /\ Len(Piece(s, 3, i)) = m
           /\ DOMAIN Piece(s, 3, i) = 1..m
           /\ \A j \in 1..m : 3 * (i - 1) + j \in 1..Len(s) /\ Piece(s, 3, i)[j] = s[3 * (i - 1) + j]
<1>1. PICK n \in Nat, a \in Nat : n = Len(s) /\ a = 3 * (i - 1) /\ a < n /\ 3 * i = a + 3
  BY DEF Pieces
<1>2. PICK e \in Nat : /\ e = IF a + 3 < n THEN a + 3 ELSE n
                      /\ a <= e /\ e <= n /\ e - a \in 1..3
  BY <1>1
<1>3. Piece(s, 3, i) = SubSeq(s, a + 1, e)
  BY <1>1, <1>2, Zenon DEF Piece
<1>4. /\ Piece(s, 3, i) \in Seq(S) /\ Len(Piece(s, 3, i)) = e - a
      /\ \A j \in 1..(e - a) : Piece(s, 3, i)[j] = s[a + j]
  <2>1. e <= Len(s)
    BY <1>1, <1>2
  <2>2. /\ SubSeq(s, a + 1, e) \in Seq(S) /\ Len(SubSeq(s, a + 1, e)) = e - a
        /\ \A j \in 1..(e - a) : SubSeq(s, a + 1, e)[j] = s[a + j]
    BY <1>2, <2>1, SubSeqIs
  <2> QED
    BY <1>3, <2>2, Zenon
<1>5. PICK m \in 1..3 : m = e - a
  BY <1>2
<1>6. /\ Piece(s, 3, i) \in Seq(S) /\ Len(Piece(s, 3, i)) = m
      /\ \A j \in 1..m : Piece(s, 3, i)[j] = s[a + j]
  BY <1>4, <1>5
<1>7. DOMAIN Piece(s, 3, i) = 1..m
  BY <1>6
<1>8. m = IF 3 * i < Len(s) THEN 3 ELSE Len(s) - 3 * (i - 1)
  <2>1. m = IF a + 3 < n THEN 3 ELSE n - a
    <3>1. CASE a + 3 < n
      BY <1>1, <1>2, <1>5, <3>1
    <3>2. CASE ~(a + 3 < n)
      BY <1>1, <1>2, <1>5, <3>2
    <3> QED
      BY <3>1, <3>2
  <2> QED
    BY <1>1, <2>1
<1>9. \A j \in 1..m : 3 * (i - 1) + j = a + j /\ a + j \in 1..Len(s)
  BY <1>1, <1>2, <1>5
<1> QED
  BY <1>6, <1>7, <1>8, <1>9

LEMMA PieceOfFour ==
  ASSUME NEW S, NEW s \in Seq(S), NEW i \in 1..Pieces(s, 4)
  PROVE  \E m \in 1..4 :
           /\ m = IF 4 * i < Len(s) THEN 4 ELSE Len(s) - 4 * (i - 1)
           /\ Piece(s, 4, i) \in Seq(S) /\ Len(Piece(s, 4, i)) = m
           /\ DOMAIN Piece(s, 4, i) = 1..m
           /\ \A j \in 1..m : 4 * (i - 1) + j \in 1..Len(s) /\ Piece(s, 4, i)[j] = s[4 * (i - 1) + j]
<1>1. PICK n \in Nat, a \in Nat : n = Len(s) /\ a = 4 * (i - 1) /\ a < n /\ 4 * i = a + 4
  BY DEF Pieces
<1>2. PICK e \in Nat : /\ e = IF a + 4 < n THEN a + 4 ELSE n
                      /\ a <= e /\ e <= n /\ e - a \in 1..4
  BY <1>1
<1>3. Piece(s, 4, i) = SubSeq(s, a + 1, e)
  BY <1>1, <1>2, Zenon DEF Piece
<1>4. /\ Piece(s, 4, i) \in Seq(S) /\ Len(Piece(s, 4, i)) = e - a
      /\ \A j \in 1..(e - a) : Piece(s, 4, i)[j] = s[a + j]
  <2>1. e <= Len(s)
    BY <1>1, <1>2
  <2>2. /\ SubSeq(s, a + 1, e) \in Seq(S) /\ Len(SubSeq(s, a + 1, e)) = e - a
        /\ \A j \in 1..(e - a) : SubSeq(s, a + 1, e)[j] = s[a + j]
    BY <1>2, <2>1, SubSeqIs
  <2> QED
    BY <1>3, <2>2, Zenon
<1>5. PICK m \in 1..4 : m = e - a
  BY <1>2
<1>6. /\ Piece(s, 4, i) \in Seq(S) /\ Len(Piece(s, 4, i)) = m
      /\ \A j \in 1..m : Piece(s, 4, i)[j] = s[a + j]
  BY <1>4, <1>5
<1>7. DOMAIN Piece(s, 4, i) = 1..m
  BY <1>6
<1>8. m = IF 4 * i < Len(s) THEN 4 ELSE Len(s) - 4 * (i - 1)
  <2>1. m = IF a + 4 < n THEN 4 ELSE n - a
    <3>1. CASE a + 4 < n
      BY <1>1, <1>2, <1>5, <3>1
    <3>2. CASE ~(a + 4 < n)
      BY <1>1, <1>2, <1>5, <3>2
    <3> QED
      BY <3>1, <3>2
  <2> QED
    BY <1>1, <2>1
<1>9. \A j \in 1..m : 4 * (i - 1) + j = a + j /\ a + j \in 1..Len(s)
  BY <1>1, <1>2, <1>5
<1> QED
  BY <1>6, <1>7, <1>8, <1>9

LEMMA CardinalityTo ==
  ASSUME NEW n \in Nat
  PROVE  Cardinality(1..n) = n
<1>1. Cardinality(1..n) = IF 1 > n THEN 0 ELSE n - 1 + 1
  BY FS_Interval
<1> QED
  BY <1>1

LEMMA SeqWider ==
  ASSUME NEW A, NEW B, A \subseteq B, NEW s \in Seq(A)
  PROVE  s \in Seq(B)
OBVIOUS

LEMMA BytesAreNumbers == \A s : s \in Seq(Bytes) => s \in Seq(Int)
<1>1. Bytes \subseteq Int
  BY DEF Bytes
<1> QED
  BY <1>1, SeqWider, Zenon

\* A text whose chunks decode to the pieces of some bytes decodes to the bytes.
LEMMA DecodedPieces ==
  ASSUME NEW chars, NEW bytes \in Seq(Bytes), Pieces(chars, 4) = Pieces(bytes, 3),
         \A i \in 1..Pieces(bytes, 3) : DecodeChunk(Piece(chars, 4, i)) = Piece(bytes, 3, i)
  PROVE  Decode(chars) = bytes
<1> DEFINE n        == Len(bytes)
           chunk(i) == DecodeChunk(Piece(chars, 4, i))
           all      == 1..Pieces(chars, 4)
           made     == {k \in 1..(3 * Pieces(chars, 4)) : Within(k, 3) \in DOMAIN chunk(PieceOf(k, 3))}
           place(j) == CHOOSE k \in made : Cardinality({l \in made : l <= k}) = j
<1>1. Decode(chars) =
        IF \E i \in all : chunk(i) = Error THEN Error
        ELSE [j \in 1..Cardinality(made) |-> chunk(PieceOf(place(j), 3))[Within(place(j), 3)]]
  BY Zenon DEF Decode
<1>2. n \in Nat /\ bytes = [j \in 1..n |-> bytes[j]] /\ Pieces(bytes, 3) = (n + 2) \div 3
  BY DEF Pieces
<1>3. ASSUME NEW i \in all PROVE chunk(i) = Piece(bytes, 3, i) /\ chunk(i) # Error
  <2>1. Piece(bytes, 3, i) \in Seq(Bytes)
    BY PieceOfThree
  <2>2. Piece(bytes, 3, i) \in Seq(Int)
    BY <2>1, BytesAreNumbers
  <2> QED
    BY <2>2, ErrorAssumption
<1>4. ASSUME NEW k \in 1..(3 * Pieces(bytes, 3))
      PROVE  /\ PieceOf(k, 3) \in all
             /\ Within(k, 3) \in DOMAIN Piece(bytes, 3, PieceOf(k, 3)) <=> k <= n
             /\ k <= n => Piece(bytes, 3, PieceOf(k, 3))[Within(k, 3)] = bytes[k]
  <2>1. PICK i \in 1..Pieces(bytes, 3) : i = PieceOf(k, 3)
    BY <1>2 DEF PieceOf
  <2>2. PICK w \in 1..3 : w = Within(k, 3) /\ k = 3 * (i - 1) + w
    <3>1. k \in Nat /\ k >= 1
      BY <1>2
    <3>2. ((k - 1) % 3) + 1 \in 1..3 /\ k = 3 * ((k - 1) \div 3) + (((k - 1) % 3) + 1)
      BY <3>1
    <3> QED
      BY <2>1, <3>2 DEF PieceOf, Within
  <2>3. PICK m \in 1..3 : /\ m = IF 3 * i < n THEN 3 ELSE n - 3 * (i - 1)
                          /\ DOMAIN Piece(bytes, 3, i) = 1..m
                          /\ \A j \in 1..m : Piece(bytes, 3, i)[j] = bytes[3 * (i - 1) + j]
    <3>1. PICK m \in 1..3 :
            /\ m = IF 3 * i < Len(bytes) THEN 3 ELSE Len(bytes) - 3 * (i - 1)
            /\ Piece(bytes, 3, i) \in Seq(Bytes) /\ Len(Piece(bytes, 3, i)) = m
            /\ DOMAIN Piece(bytes, 3, i) = 1..m
            /\ \A j \in 1..m : /\ 3 * (i - 1) + j \in 1..Len(bytes)
                              /\ Piece(bytes, 3, i)[j] = bytes[3 * (i - 1) + j]
      BY PieceOfThree, Zenon
    <3> QED
      BY <3>1
  <2>4. w \in 1..m <=> k <= n
    <3>1. PICK a \in Int : a = 3 * (i - 1) /\ 3 * i = a + 3
      OBVIOUS
    <3>2. m = (IF a + 3 < n THEN 3 ELSE n - a) /\ k = a + w
      BY <2>2, <2>3, <3>1
    <3>3. CASE a + 3 < n
      BY <1>2, <3>2, <3>3
    <3>4. CASE ~(a + 3 < n)
      BY <1>2, <3>2, <3>4
    <3> QED
      BY <3>3, <3>4
  <2> QED
    BY <2>1, <2>2, <2>3, <2>4
<1>5. made = 1..n
  <2>1. \A k \in 1..n : k \in 1..(3 * Pieces(bytes, 3))
    BY <1>2
  <2>2. \A k \in 1..(3 * Pieces(bytes, 3)) : k \in made <=> k <= n
    BY <1>3, <1>4
  <2>3. made \subseteq 1..(3 * Pieces(bytes, 3))
    OBVIOUS
  <2> HIDE DEF made
  <2> SUFFICES ASSUME NEW k PROVE k \in made <=> k \in 1..n
    OBVIOUS
  <2>4. PICK p \in Nat : p = 3 * Pieces(bytes, 3)
    BY <1>2
  <2> QED
    BY <1>2, <2>1, <2>2, <2>3, <2>4
<1> HIDE DEF made, chunk
<1>6. Cardinality(made) = n
  <2>1. Cardinality(1..n) = n
    BY <1>2, CardinalityTo
  <2> QED
    BY <1>5, <2>1
<1>7. ASSUME NEW j \in 1..n PROVE place(j) = j
  <2>1. \A k \in 1..n : Cardinality({l \in made : l <= k}) = k
    <3> TAKE k \in 1..n
    <3>1. {l \in made : l <= k} = 1..k
      BY <1>2, <1>5
    <3>2. Cardinality(1..k) = k
      BY CardinalityTo
    <3> QED
      BY <3>1, <3>2
  <2> QED
    BY <1>5, <2>1
<1> HIDE DEF place
<1>8. ASSUME NEW j \in 1..n PROVE chunk(PieceOf(place(j), 3))[Within(place(j), 3)] = bytes[j]
  <2>1. j \in 1..(3 * Pieces(bytes, 3)) /\ j <= n
    BY <1>2
  <2> QED
    BY <1>3, <1>4, <1>7, <2>1
<1> QED
  BY <1>1, <1>2, <1>3, <1>6, <1>8

LEMMA BytesOf ==
  ASSUME NEW b \in Seq(Bytes), NEW n \in Nat, Len(b) = n
  PROVE  b = [i \in 1..n |-> b[i]] /\ \A i \in 1..n : b[i] \in 0..255
<1>1. \A i \in 1..Len(b) : b[i] \in Bytes
  OBVIOUS
<1>2. b = [i \in 1..Len(b) |-> b[i]]
  OBVIOUS
<1> QED
  BY <1>1, <1>2 DEF Bytes

\* What a chunk of characters that decodes is made of.
LEMMA DecodeChunkIs ==
  ASSUME NEW c \in Seq(Int), NEW n \in 1..3, n + 1 <= Len(c),
         n = 3 \/ Len(c) = n + 1 \/ c[n + 2] = Pad,
         \A i \in 1..(n + 1) : c[i] \in 0..63
  PROVE  DecodeChunk(c) = [i \in 1..n |-> DecodedByte(c, i)]
<1> DEFINE has(i) == i <= Len(c) /\ c[i] # Pad
           made   == IF ~has(3) THEN 1 ELSE IF ~has(4) THEN 2 ELSE 3
<1>1. DecodeChunk(c) = IF \E i \in 1..(made + 1) : i > Len(c) \/ c[i] \notin 0..63 THEN Error
                       ELSE [i \in 1..made |-> DecodedByte(c, i)]
  BY Zenon DEF DecodeChunk
<1>2. made = n
  <2>1. Pad \notin 0..63
    BY DEF Pad
  <2>2. CASE n = 1
    <3>1. Len(c) = 2 \/ c[3] = Pad
      BY <2>2
    <3>2. ~has(3)
      BY <3>1
    <3> QED
      BY <2>2, <3>2
  <2>3. CASE n = 2
    <3>1. Len(c) = 3 \/ c[4] = Pad
      BY <2>3
    <3>2. 3 <= Len(c) /\ c[3] \in 0..63
      BY <2>3
    <3>3. c[3] # Pad
      BY <2>1, <3>2
    <3>4. has(3) /\ ~has(4)
      BY <3>1, <3>2, <3>3
    <3> QED
      BY <2>3, <3>4
  <2>4. CASE n = 3
    <3>1. 4 <= Len(c) /\ c[3] \in 0..63 /\ c[4] \in 0..63
      BY <2>4
    <3>2. c[3] # Pad /\ c[4] # Pad
      BY <2>1, <3>1
    <3>3. has(3) /\ has(4)
      BY <3>1, <3>2
    <3> QED
      BY <2>4, <3>3
  <2> QED
    BY <2>2, <2>3, <2>4
<1> HIDE DEF made
<1> QED
  BY <1>1, <1>2

LEMMA DecodedByteIs ==
  ASSUME NEW c \in Seq(Int)
  PROVE  /\ DecodedByte(c, 1) = (c[1] * 4 + c[2] \div 16) % 256
         /\ DecodedByte(c, 2) = (c[2] * 16 + c[3] \div 4) % 256
         /\ DecodedByte(c, 3) = (c[3] * 64 + c[4] \div 1) % 256
<1>1. Weight[1] = 4 /\ Weight[2] = 16 /\ Weight[3] = 64
  BY DEF Weight
<1>2. 64 \div 4 = 16 /\ 64 \div 16 = 4 /\ 64 \div 64 = 1
  OBVIOUS
<1> QED
  BY <1>1, <1>2 DEF DecodedByte

\* A byte is put together from the characters it was spread over.
JoinsFirst(y, z, w) ==
  (y * 4 + (16 * z + w) \div 16) % 256 = 4 * y + z
JoinsSecond(p, y, z, w) ==
  ((16 * p + y) * 16 + (4 * z + w) \div 4) % 256 = 16 * y + z
JoinsThird(p, y, z) ==
  ((4 * p + y) * 64 + z \div 1) % 256 = 64 * y + z

LEMMA FirstByte == \A y \in 0..63, z \in 0..3, w \in 0..15 : JoinsFirst(y, z, w)
BY DEF JoinsFirst

LEMMA SecondByte == \A p \in 0..3, y \in 0..15, z \in 0..15, w \in 0..3 : JoinsSecond(p, y, z, w)
BY DEF JoinsSecond

LEMMA ThirdByte == \A p \in 0..15, y \in 0..3, z \in 0..63 : JoinsThird(p, y, z)
BY DEF JoinsThird

\* The two parts of a byte: six and two bits, four and four, two and six.
LEMMA PartsOfByte ==
  ASSUME NEW x \in 0..255
  PROVE  /\ \E y \in 0..63, z \in 0..3 : y = x \div 4 /\ z = x % 4 /\ x = 4 * y + z
         /\ \E y \in 0..15, z \in 0..15 : y = x \div 16 /\ z = x % 16 /\ x = 16 * y + z
         /\ \E y \in 0..3, z \in 0..63 : y = x \div 64 /\ z = x % 64 /\ x = 64 * y + z
<1>1. \E y \in 0..63, z \in 0..3 : y = x \div 4 /\ z = x % 4 /\ x = 4 * y + z
  OBVIOUS
<1>2. \E y \in 0..15, z \in 0..15 : y = x \div 16 /\ z = x % 16 /\ x = 16 * y + z
  OBVIOUS
<1>3. \E y \in 0..3, z \in 0..63 : y = x \div 64 /\ z = x % 64 /\ x = 64 * y + z
  OBVIOUS
<1> QED
  BY <1>1, <1>2, <1>3

\* Three bytes and the characters they are spread over.
FirstSpread(c, x1, x2)      == c[1] = x1 \div 4 /\ c[2] = (x1 % 4) * 16 + x2 \div 16
SecondSpread(c, x1, x2, x3) == /\ c[2] = (x1 % 4) * 16 + x2 \div 16
                               /\ c[3] = (x2 % 16) * 4 + x3 \div 64
ThirdSpread(c, x2, x3)      == c[3] = (x2 % 16) * 4 + x3 \div 64 /\ c[4] = x3 % 64

LEMMA FirstDecoded ==
  ASSUME NEW c \in Seq(Int), NEW x1 \in 0..255, NEW x2 \in 0..255, FirstSpread(c, x1, x2)
  PROVE  DecodedByte(c, 1) = x1 /\ c[1] \in 0..63 /\ c[2] \in 0..63
<1>1. PICK y1 \in 0..63, z1 \in 0..3 : y1 = x1 \div 4 /\ z1 = x1 % 4 /\ x1 = 4 * y1 + z1
  BY PartsOfByte, Zenon
<1>2. PICK y2 \in 0..15, z2 \in 0..15 : y2 = x2 \div 16 /\ z2 = x2 % 16 /\ x2 = 16 * y2 + z2
  BY PartsOfByte, Zenon
<1>3. JoinsFirst(y1, z1, y2)
  BY FirstByte, Zenon
<1>4. c[1] = y1 /\ c[2] = z1 * 16 + y2
  BY <1>1, <1>2, Zenon DEF FirstSpread
<1>5. z1 * 16 + y2 = 16 * z1 + y2
  OBVIOUS
<1>6. DecodedByte(c, 1) = (c[1] * 4 + c[2] \div 16) % 256
  BY DecodedByteIs, Zenon
<1>7. DecodedByte(c, 1) = (y1 * 4 + (16 * z1 + y2) \div 16) % 256
  BY <1>4, <1>5, <1>6, Zenon
<1>8. (y1 * 4 + (16 * z1 + y2) \div 16) % 256 = 4 * y1 + z1
  BY <1>3, Zenon DEF JoinsFirst
<1>9. DecodedByte(c, 1) = x1
  BY <1>1, <1>7, <1>8, Zenon
<1> QED
  BY <1>4, <1>9

LEMMA SecondDecoded ==
  ASSUME NEW c \in Seq(Int), NEW x1 \in 0..255, NEW x2 \in 0..255, NEW x3 \in 0..255,
         SecondSpread(c, x1, x2, x3)
  PROVE  DecodedByte(c, 2) = x2 /\ c[3] \in 0..63
<1>1. PICK y1 \in 0..63, z1 \in 0..3 : y1 = x1 \div 4 /\ z1 = x1 % 4 /\ x1 = 4 * y1 + z1
  BY PartsOfByte, Zenon
<1>2. PICK y2 \in 0..15, z2 \in 0..15 : y2 = x2 \div 16 /\ z2 = x2 % 16 /\ x2 = 16 * y2 + z2
  BY PartsOfByte, Zenon
<1>3. PICK y3 \in 0..3, z3 \in 0..63 : y3 = x3 \div 64 /\ z3 = x3 % 64 /\ x3 = 64 * y3 + z3
  BY PartsOfByte, Zenon
<1>4. JoinsSecond(z1, y2, z2, y3)
  BY SecondByte, Zenon
<1>5. c[2] = z1 * 16 + y2 /\ c[3] = z2 * 4 + y3
  BY <1>1, <1>2, <1>3, Zenon DEF SecondSpread
<1>6. z1 * 16 + y2 = 16 * z1 + y2 /\ z2 * 4 + y3 = 4 * z2 + y3
  OBVIOUS
<1>7. DecodedByte(c, 2) = (c[2] * 16 + c[3] \div 4) % 256
  BY DecodedByteIs, Zenon
<1>8. DecodedByte(c, 2) = ((16 * z1 + y2) * 16 + (4 * z2 + y3) \div 4) % 256
  BY <1>5, <1>6, <1>7, Zenon
<1>9. ((16 * z1 + y2) * 16 + (4 * z2 + y3) \div 4) % 256 = 16 * y2 + z2
  BY <1>4, Zenon DEF JoinsSecond
<1>10. DecodedByte(c, 2) = x2
  BY <1>2, <1>8, <1>9, Zenon
<1> QED
  BY <1>5, <1>10

LEMMA ThirdDecoded ==
  ASSUME NEW c \in Seq(Int), NEW x2 \in 0..255, NEW x3 \in 0..255, ThirdSpread(c, x2, x3)
  PROVE  DecodedByte(c, 3) = x3 /\ c[4] \in 0..63
<1>1. PICK y2 \in 0..15, z2 \in 0..15 : y2 = x2 \div 16 /\ z2 = x2 % 16 /\ x2 = 16 * y2 + z2
  BY PartsOfByte, Zenon
<1>2. PICK y3 \in 0..3, z3 \in 0..63 : y3 = x3 \div 64 /\ z3 = x3 % 64 /\ x3 = 64 * y3 + z3
  BY PartsOfByte, Zenon
<1>3. JoinsThird(z2, y3, z3)
  BY ThirdByte, Zenon
<1>4. c[3] = z2 * 4 + y3 /\ c[4] = z3
  BY <1>1, <1>2, Zenon DEF ThirdSpread
<1>5. z2 * 4 + y3 = 4 * z2 + y3
  OBVIOUS
<1>6. DecodedByte(c, 3) = (c[3] * 64 + c[4] \div 1) % 256
  BY DecodedByteIs, Zenon
<1>7. DecodedByte(c, 3) = ((4 * z2 + y3) * 64 + z3 \div 1) % 256
  BY <1>4, <1>5, <1>6, Zenon
<1>8. ((4 * z2 + y3) * 64 + z3 \div 1) % 256 = 64 * y3 + z3
  BY <1>3, Zenon DEF JoinsThird
<1>9. DecodedByte(c, 3) = x3
  BY <1>2, <1>7, <1>8, Zenon
<1> QED
  BY <1>4, <1>9, Zenon

\* A byte of a chunk, or the zero after the last one.
ByteAt(b, i) == IF i <= Len(b) THEN b[i] ELSE 0

\* The characters that are there, of a padded or of a short chunk.
LEMMA ChunkPlaces ==
  \A n \in 1..3 : \A l \in {4, n + 1} :
    /\ n + 1 <= l /\ 1 \in 1..l /\ 2 \in 1..l
    /\ n > 1 => 3 \in 1..l /\ n # 1
    /\ n > 2 => 4 \in 1..l /\ ~(n < 3)
    /\ l = 4 => 3 \in 1..l /\ 4 \in 1..l
    /\ n = 2 => n < 3
    /\ n = 1 \/ n = 2 \/ n = 3
OBVIOUS

LEMMA ByteAtIs ==
  ASSUME NEW b \in Seq(Bytes), NEW n \in 1..3, Len(b) = n
  PROVE  /\ b = [i \in 1..n |-> b[i]] /\ \A i \in 1..n : ByteAt(b, i) = b[i]
         /\ \A i \in 1..3 : ByteAt(b, i) \in 0..255
<1>1. n \in Nat
  OBVIOUS
<1>2. b = [i \in 1..n |-> b[i]] /\ \A i \in 1..n : b[i] \in 0..255
  BY <1>1, BytesOf
<1>3. \A i \in 1..n : ByteAt(b, i) = b[i]
  BY DEF ByteAt
<1>4. ASSUME NEW i \in 1..3 PROVE ByteAt(b, i) \in 0..255
  <2>1. CASE i <= n
    <3>1. i \in 1..n
      BY <2>1
    <3> QED
      <4>1. ByteAt(b, i) = b[i]
        BY <1>3, <3>1, Zenon
      <4>2. b[i] \in 0..255
        BY <1>2, <3>1, Zenon
      <4> QED
        BY <4>1, <4>2, Zenon
  <2>2. CASE ~(i <= n)
    <3>1. 0 \in 0..255
      OBVIOUS
    <3> QED
      BY <2>2, <3>1, Zenon DEF ByteAt
  <2> QED
    BY <2>1, <2>2
<1> QED
  BY <1>2, <1>3, <1>4

LEMMA EncodeChunkIs ==
  ASSUME NEW b, NEW c, NEW n \in 1..3, Len(b) = n, Len(c) \in {4, n + 1},
         \A i \in 1..Len(c) : c[i] = EncodeChunk(b)[i]
  PROVE  /\ FirstSpread(c, ByteAt(b, 1), ByteAt(b, 2))
         /\ n > 1 => SecondSpread(c, ByteAt(b, 1), ByteAt(b, 2), ByteAt(b, 3))
         /\ n > 2 => ThirdSpread(c, ByteAt(b, 2), ByteAt(b, 3))
         /\ Len(c) = 4 => (n = 1 => c[3] = Pad) /\ (n = 2 => c[4] = Pad)
<1> DEFINE e == EncodeChunk(b)
<1>1. e = <<ByteAt(b, 1) \div 4, (ByteAt(b, 1) % 4) * 16 + ByteAt(b, 2) \div 16,
            IF Len(b) = 1 THEN Pad ELSE (ByteAt(b, 2) % 16) * 4 + ByteAt(b, 3) \div 64,
            IF Len(b) < 3 THEN Pad ELSE ByteAt(b, 3) % 64>>
  BY Zenon DEF EncodeChunk, ByteAt
<1> HIDE DEF e
<1>2. /\ e[1] = ByteAt(b, 1) \div 4 /\ e[2] = (ByteAt(b, 1) % 4) * 16 + ByteAt(b, 2) \div 16
      /\ e[3] = (IF Len(b) = 1 THEN Pad ELSE (ByteAt(b, 2) % 16) * 4 + ByteAt(b, 3) \div 64)
      /\ e[4] = (IF Len(b) < 3 THEN Pad ELSE ByteAt(b, 3) % 64)
  BY <1>1
<1>3. /\ 1 \in 1..Len(c) /\ 2 \in 1..Len(c)
      /\ n > 1 => 3 \in 1..Len(c) /\ n # 1
      /\ n > 2 => 4 \in 1..Len(c) /\ ~(n < 3)
      /\ Len(c) = 4 => 3 \in 1..Len(c) /\ 4 \in 1..Len(c)
      /\ n = 2 => n < 3
  BY ChunkPlaces, Zenon
<1>4. /\ c[1] = e[1] /\ c[2] = e[2]
      /\ n > 1 => c[3] = e[3]
      /\ n > 2 => c[4] = e[4]
      /\ Len(c) = 4 => c[3] = e[3] /\ c[4] = e[4]
  BY <1>3, Zenon DEF e
<1>5. FirstSpread(c, ByteAt(b, 1), ByteAt(b, 2))
  BY <1>2, <1>4, Zenon DEF FirstSpread
<1>6. n > 1 => c[3] = (ByteAt(b, 2) % 16) * 4 + ByteAt(b, 3) \div 64
  BY <1>2, <1>3, <1>4, Zenon
<1>7. n > 1 => SecondSpread(c, ByteAt(b, 1), ByteAt(b, 2), ByteAt(b, 3))
  BY <1>5, <1>6, Zenon DEF FirstSpread, SecondSpread
<1>8. n > 2 => ThirdSpread(c, ByteAt(b, 2), ByteAt(b, 3))
  <2>1. n > 2 => n > 1
    OBVIOUS
  <2> QED
    BY <1>2, <1>3, <1>4, <1>6, <2>1, Zenon DEF ThirdSpread
<1>9. Len(c) = 4 => (n = 1 => c[3] = Pad) /\ (n = 2 => c[4] = Pad)
  BY <1>2, <1>3, <1>4, Zenon
<1> QED
  BY <1>5, <1>7, <1>8, <1>9, Zenon

\* Characters that one to three bytes were spread over decode to those bytes.
LEMMA SpreadDecodes ==
  ASSUME NEW b \in Seq(Bytes), NEW n \in 1..3, Len(b) = n, NEW c \in Seq(Int), Len(c) \in {4, n + 1},
         FirstSpread(c, ByteAt(b, 1), ByteAt(b, 2)),
         n > 1 => SecondSpread(c, ByteAt(b, 1), ByteAt(b, 2), ByteAt(b, 3)),
         n > 2 => ThirdSpread(c, ByteAt(b, 2), ByteAt(b, 3)),
         Len(c) = 4 => (n = 1 => c[3] = Pad) /\ (n = 2 => c[4] = Pad)
  PROVE  DecodeChunk(c) = b
<1>1. /\ b = [i \in 1..n |-> b[i]] /\ \A i \in 1..n : ByteAt(b, i) = b[i]
      /\ \A i \in 1..3 : ByteAt(b, i) \in 0..255
  BY ByteAtIs, Zenon
<1>2. PICK x1 \in 0..255, x2 \in 0..255, x3 \in 0..255 :
        x1 = ByteAt(b, 1) /\ x2 = ByteAt(b, 2) /\ x3 = ByteAt(b, 3)
  <2>1. 1 \in 1..3 /\ 2 \in 1..3 /\ 3 \in 1..3
    OBVIOUS
  <2> QED
    BY <1>1, <2>1, Zenon
<1>3. DecodedByte(c, 1) = x1 /\ c[1] \in 0..63 /\ c[2] \in 0..63
  BY <1>2, FirstDecoded, Zenon
<1>4. n > 1 => DecodedByte(c, 2) = x2 /\ c[3] \in 0..63
  BY <1>2, SecondDecoded, Zenon
<1>5. n > 2 => DecodedByte(c, 3) = x3 /\ c[4] \in 0..63
  BY <1>2, ThirdDecoded, Zenon
<1>6. \A i \in 1..n : i = 1 \/ (i = 2 /\ n > 1) \/ (i = 3 /\ n > 2)
  OBVIOUS
<1>7. \A i \in 1..n : DecodedByte(c, i) = b[i]
  <2> TAKE i \in 1..n
  <2>0. ByteAt(b, i) = b[i]
    BY <1>1, Zenon
  <2>1. CASE i = 1
    BY <1>2, <1>3, <2>0, <2>1, Zenon
  <2>2. CASE i = 2 /\ n > 1
    BY <1>2, <1>4, <2>0, <2>2, Zenon
  <2>3. CASE i = 3 /\ n > 2
    BY <1>2, <1>5, <2>0, <2>3, Zenon
  <2> QED
    BY <1>6, <2>1, <2>2, <2>3, Zenon
<1>8. \A i \in 1..(n + 1) : i = 1 \/ i = 2 \/ (i = 3 /\ n > 1) \/ (i = 4 /\ n > 2)
  OBVIOUS
<1>9. \A i \in 1..(n + 1) : c[i] \in 0..63
  BY <1>3, <1>4, <1>5, <1>8, Zenon
<1>10. n + 1 <= Len(c) /\ (n = 1 \/ n = 2 \/ n = 3)
  BY ChunkPlaces, Zenon
<1>11. n = 3 \/ Len(c) = n + 1 \/ c[n + 2] = Pad
  <2>1. (n = 1 => n + 2 = 3) /\ (n = 2 => n + 2 = 4)
    OBVIOUS
  <2> QED
    BY <1>10, <2>1, Zenon
<1>12. DecodeChunk(c) = [i \in 1..n |-> DecodedByte(c, i)]
  BY <1>9, <1>10, <1>11, DecodeChunkIs, Zenon
<1> QED
  BY <1>1, <1>7, <1>12, Zenon

\* The characters of one to three bytes, padded or not, are those bytes again.
LEMMA ChunkRoundTrip ==
  ASSUME NEW b \in Seq(Bytes), Len(b) \in 1..3, NEW c \in Seq(Int), Len(c) \in {4, Len(b) + 1},
         \A i \in 1..Len(c) : c[i] = EncodeChunk(b)[i]
  PROVE  DecodeChunk(c) = b
<1>1. PICK n \in 1..3 : n = Len(b)
  BY Zenon
<1>2. Len(c) \in {4, n + 1}
  BY <1>1, Zenon
<1>3. /\ FirstSpread(c, ByteAt(b, 1), ByteAt(b, 2))
      /\ n > 1 => SecondSpread(c, ByteAt(b, 1), ByteAt(b, 2), ByteAt(b, 3))
      /\ n > 2 => ThirdSpread(c, ByteAt(b, 2), ByteAt(b, 3))
      /\ Len(c) = 4 => (n = 1 => c[3] = Pad) /\ (n = 2 => c[4] = Pad)
  BY <1>1, <1>2, EncodeChunkIs, Zenon
<1> QED
  BY <1>1, <1>2, <1>3, SpreadDecodes, Zenon

LEMMA EncodeChunkNumbers ==
  ASSUME NEW b \in Seq(Bytes)
  PROVE  \A w \in 1..4 : EncodeChunk(b)[w] \in Int
<1> DEFINE byte(i) == IF i <= Len(b) THEN b[i] ELSE 0
           e == EncodeChunk(b)
<1>1. e = <<byte(1) \div 4, (byte(1) % 4) * 16 + byte(2) \div 16,
            IF Len(b) = 1 THEN Pad ELSE (byte(2) % 16) * 4 + byte(3) \div 64,
            IF Len(b) < 3 THEN Pad ELSE byte(3) % 64>>
  BY Zenon DEF EncodeChunk
<1>2. byte(1) \in Int /\ byte(2) \in Int /\ byte(3) \in Int
  <2>1. b \in Seq(Int)
    BY BytesAreNumbers
  <2>2. Len(b) \in Nat /\ \A i \in 1..Len(b) : b[i] \in Int
    BY <2>1
  <2> QED
    BY <2>2
<1> HIDE DEF byte, e
<1>3. e[1] \in Int /\ e[2] \in Int /\ e[3] \in Int /\ e[4] \in Int
  <2>1. PICK x \in Int, y \in Int, z \in Int : x = byte(1) /\ y = byte(2) /\ z = byte(3)
    BY <1>2
  <2>2. /\ x \div 4 \in Int /\ (x % 4) * 16 + y \div 16 \in Int
        /\ (y % 16) * 4 + z \div 64 \in Int /\ z % 64 \in Int /\ Pad \in Int
    BY DEF Pad
  <2>3. e = <<x \div 4, (x % 4) * 16 + y \div 16,
              IF Len(b) = 1 THEN Pad ELSE (y % 16) * 4 + z \div 64,
              IF Len(b) < 3 THEN Pad ELSE z % 64>>
    BY <1>1, <2>1, Zenon
  <2>4. /\ e[1] = x \div 4 /\ e[2] = (x % 4) * 16 + y \div 16
        /\ e[3] = (IF Len(b) = 1 THEN Pad ELSE (y % 16) * 4 + z \div 64)
        /\ e[4] = (IF Len(b) < 3 THEN Pad ELSE z % 64)
    BY <2>3
  <2> QED
    BY <2>2, <2>4, Zenon
<1> QED
  BY <1>3 DEF e

\* The characters of the i-th three bytes are four characters of the text.
LEMMA EncodeIs ==
  ASSUME NEW bytes \in Seq(Bytes)
  PROVE  /\ Encode(bytes) \in Seq(Int) /\ Len(Encode(bytes)) = 4 * Pieces(bytes, 3)
         /\ \A i \in 1..Pieces(bytes, 3), w \in 1..4 :
              Encode(bytes)[4 * (i - 1) + w] = EncodeChunk(Piece(bytes, 3, i))[w]
<1>1. PICK p \in Nat : p = Pieces(bytes, 3)
  BY DEF Pieces
<1>2. \A i \in 1..p : Piece(bytes, 3, i) \in Seq(Bytes)
  BY <1>1, PieceOfThree, Zenon
<1>3. \A i \in 1..p, w \in 1..4 : EncodeChunk(Piece(bytes, 3, i))[w] \in Int
  BY <1>2, EncodeChunkNumbers, Zenon
<1> DEFINE text(k) == EncodeChunk(Piece(bytes, 3, PieceOf(k, 4)))[Within(k, 4)]
<1>4. Encode(bytes) = [k \in 1..(4 * p) |-> text(k)]
  BY <1>1, Zenon DEF Encode
<1>5. \A k \in 1..(4 * p) : PieceOf(k, 4) \in 1..p /\ Within(k, 4) \in 1..4
  BY DEF PieceOf, Within
<1>6. \A k \in 1..(4 * p) : text(k) \in Int
  BY <1>3, <1>5, Zenon
<1>7. \A i \in 1..p, w \in 1..4 :
        /\ 4 * (i - 1) + w \in 1..(4 * p)
        /\ PieceOf(4 * (i - 1) + w, 4) = i /\ Within(4 * (i - 1) + w, 4) = w
  BY DEF PieceOf, Within
<1> HIDE DEF text
<1>8. Encode(bytes) \in Seq(Int) /\ Len(Encode(bytes)) = 4 * p
  <2>1. 4 * p \in Nat
    OBVIOUS
  <2> QED
    BY <1>4, <1>6, <2>1
<1>9. \A i \in 1..p, w \in 1..4 : Encode(bytes)[4 * (i - 1) + w] = EncodeChunk(Piece(bytes, 3, i))[w]
  <2> TAKE i \in 1..p, w \in 1..4
  <2>1. Encode(bytes)[4 * (i - 1) + w] = text(4 * (i - 1) + w)
    BY <1>4, <1>7, Zenon
  <2> QED
    BY <1>7, <2>1, Zenon DEF text
<1> QED
  BY <1>1, <1>8, <1>9

LEMMA LastPieceOfThree == \A n \in Nat : \E r \in 1..3 : n = 3 * ((n + 2) \div 3) - 3 + r
<1> TAKE n \in Nat
<1>1. PICK x \in Int : x = 3 * ((n + 2) \div 3) /\ x <= n + 2 /\ n + 2 < x + 3
  OBVIOUS
<1>2. n - x + 3 \in 1..3 /\ n = x - 3 + (n - x + 3)
  BY <1>1
<1> QED
  BY <1>1, <1>2

LEMMA TextOfPieces ==
  \A p \in Nat, r \in 1..3 : (4 * (3 * p - 3 + r) + 2) \div 3 = 4 * p - 3 + r
<1> TAKE p \in Nat, r \in 1..3
<1>1. CASE r = 1
  <2>1. 4 * (3 * p - 3 + r) + 2 = 3 * (4 * p - 2)
    BY <1>1
  <2> QED
    BY <1>1, <2>1
<1>2. CASE r = 2
  <2>1. 4 * (3 * p - 3 + r) + 2 = 3 * (4 * p - 1) + 1
    BY <1>2
  <2> QED
    BY <1>2, <2>1
<1>3. CASE r = 3
  <2>1. 4 * (3 * p - 3 + r) + 2 = 3 * (4 * p) + 2
    BY <1>3
  <2> QED
    BY <1>3, <2>1
<1> QED
  BY <1>1, <1>2, <1>3

\* What has the characters of the text, all of them or all but the padding, decodes
\* to the bytes.
LEMMA DecodesText ==
  ASSUME NEW bytes \in Seq(Bytes), NEW chars \in Seq(Int),
         Len(chars) \in {4 * Pieces(bytes, 3), (4 * Len(bytes) + 2) \div 3},
         \A k \in 1..Len(chars) : chars[k] = Encode(bytes)[k]
  PROVE  Decode(chars) = bytes
<1>1. PICK p \in Nat, n \in Nat : p = Pieces(bytes, 3) /\ n = Len(bytes) /\ p = (n + 2) \div 3
  BY DEF Pieces
<1>2. PICK l \in Nat : l = Len(chars) /\ l \in {4 * p, (4 * n + 2) \div 3}
  BY <1>1
<1>3. PICK r \in 1..3 : n = 3 * p - 3 + r
  BY <1>1, LastPieceOfThree, Zenon
<1>4. l = 4 * p \/ l = 4 * p - 3 + r
  <2>1. (4 * (3 * p - 3 + r) + 2) \div 3 = 4 * p - 3 + r
    BY TextOfPieces
  <2>2. l = 4 * p \/ l = (4 * (3 * p - 3 + r) + 2) \div 3
    BY <1>2, <1>3
  <2> QED
    BY <2>1, <2>2, Zenon
<1>5. Pieces(chars, 4) = p
  <2>1. (l + 3) \div 4 = p
    BY <1>3, <1>4
  <2> QED
    BY <1>2, <2>1 DEF Pieces
<1>6. ASSUME NEW i \in 1..p PROVE DecodeChunk(Piece(chars, 4, i)) = Piece(bytes, 3, i)
  <2> DEFINE b == Piece(bytes, 3, i)
             c == Piece(chars, 4, i)
  <2>1. PICK m \in 1..3 : /\ m = IF 3 * i < n THEN 3 ELSE n - 3 * (i - 1)
                          /\ b \in Seq(Bytes) /\ Len(b) = m
    <3>1. PICK m \in 1..3 :
            /\ m = IF 3 * i < Len(bytes) THEN 3 ELSE Len(bytes) - 3 * (i - 1)
            /\ Piece(bytes, 3, i) \in Seq(Bytes) /\ Len(Piece(bytes, 3, i)) = m
            /\ DOMAIN Piece(bytes, 3, i) = 1..m
            /\ \A j \in 1..m : /\ 3 * (i - 1) + j \in 1..Len(bytes)
                              /\ Piece(bytes, 3, i)[j] = bytes[3 * (i - 1) + j]
      <4>1. i \in 1..Pieces(bytes, 3)
        BY <1>1
      <4> QED
        BY <4>1, PieceOfThree, ZenonT(60)
    <3> QED
      BY <1>1, <3>1
  <2>2. PICK q \in 1..4 : /\ q = IF 4 * i < l THEN 4 ELSE l - 4 * (i - 1)
                          /\ c \in Seq(Int) /\ Len(c) = q
                          /\ \A j \in 1..q : /\ 4 * (i - 1) + j \in 1..l
                                            /\ c[j] = chars[4 * (i - 1) + j]
    <3>1. PICK q \in 1..4 :
            /\ q = IF 4 * i < Len(chars) THEN 4 ELSE Len(chars) - 4 * (i - 1)
            /\ Piece(chars, 4, i) \in Seq(Int) /\ Len(Piece(chars, 4, i)) = q
            /\ DOMAIN Piece(chars, 4, i) = 1..q
            /\ \A j \in 1..q : /\ 4 * (i - 1) + j \in 1..Len(chars)
                              /\ Piece(chars, 4, i)[j] = chars[4 * (i - 1) + j]
      BY <1>5, PieceOfFour, Zenon
    <3> QED
      BY <1>2, <3>1
  <2> HIDE DEF b, c
  <2>3. q \in {4, m + 1}
    <3>1. CASE i = p
      <4>1. m = r
        <5>1. 3 * (i - 1) = 3 * p - 3 /\ ~(3 * i < n)
          BY <1>3, <3>1
        <5>2. m = n - 3 * (i - 1)
          BY <2>1, <5>1, Zenon
        <5> QED
          BY <1>3, <5>1, <5>2
      <4>2. 4 * (i - 1) = 4 * p - 4 /\ ~(4 * i < l)
        BY <1>4, <3>1
      <4>3. q = l - (4 * p - 4)
        BY <2>2, <4>2
      <4> QED
        BY <1>4, <4>1, <4>3
    <3>2. CASE i < p
      <4>1. 4 * i < l
        BY <1>4, <3>2
      <4> QED
        BY <2>2, <4>1
    <3> QED
      BY <3>1, <3>2
  <2>4. \A j \in 1..q : c[j] = EncodeChunk(b)[j]
    <3> TAKE j \in 1..q
    <3>1. c[j] = Encode(bytes)[4 * (i - 1) + j]
      BY <1>2, <2>2
    <3>2. \A w \in 1..4 : Encode(bytes)[4 * (i - 1) + w] = EncodeChunk(Piece(bytes, 3, i))[w]
      BY <1>1, EncodeIs, Zenon
    <3>3. j \in 1..4
      BY <2>2
    <3> QED
      BY <3>1, <3>2, <3>3, Zenon DEF b
  <2>5. Len(b) \in 1..3 /\ Len(c) \in {4, Len(b) + 1} /\ \A j \in 1..Len(c) : c[j] = EncodeChunk(b)[j]
    BY <2>1, <2>2, <2>3, <2>4
  <2>6. DecodeChunk(c) = b
    BY <2>1, <2>2, <2>5, ChunkRoundTrip, Zenon
  <2> QED
    BY <2>6, Zenon DEF b, c
<1> QED
  BY <1>1, <1>5, <1>6, DecodedPieces, Zenon

\* base64_decode after base64_encode, with the padding and without.
LEMMA EncodeDecodes ==
  ASSUME NEW bytes \in Seq(Bytes)
  PROVE  Decode(Encode(bytes)) = bytes /\ Decode(Unpadded(bytes)) = bytes
<1>1. PICK t : t = Encode(bytes) /\ t \in Seq(Int) /\ Len(t) = 4 * Pieces(bytes, 3)
  BY EncodeIs
<1>2. Decode(Encode(bytes)) = bytes
  <2>1. Len(Encode(bytes)) \in {4 * Pieces(bytes, 3), (4 * Len(bytes) + 2) \div 3}
    BY EncodeIs
  <2> QED
    BY <2>1, EncodeIs, DecodesText, Zenon
<1>3. PICK l \in Nat : l = (4 * Len(bytes) + 2) \div 3 /\ l <= 4 * Pieces(bytes, 3)
  BY DEF Pieces
<1>4. PICK u : u = Unpadded(bytes) /\ u = SubSeq(t, 1, l)
  BY <1>1, <1>3 DEF Unpadded
<1>5. u \in Seq(Int) /\ Len(u) = l /\ \A k \in 1..l : u[k] = t[k]
  BY <1>1, <1>3, <1>4
<1>6. Decode(u) = bytes
  <2>1. Len(u) \in {4 * Pieces(bytes, 3), (4 * Len(bytes) + 2) \div 3}
    BY <1>3, <1>5
  <2>2. \A k \in 1..Len(u) : u[k] = Encode(bytes)[k]
    BY <1>1, <1>5
  <2> QED
    BY <1>5, <2>1, <2>2, DecodesText, Zenon
<1> QED
  BY <1>2, <1>4, <1>6

\* A character that is none before any padding, and a chunk of one character, are
\* exceptions.
LEMMA ChunkFails ==
  ASSUME NEW c \in Seq(Int), Len(c) \in 1..4,
         \/ Len(c) = 1
         \/ \E w \in 1..Len(c) : c[w] \notin 0..63 /\ \A j \in 1..w : c[j] # Pad
  PROVE  DecodeChunk(c) = Error
<1> DEFINE has(i) == i <= Len(c) /\ c[i] # Pad
           made   == IF ~has(3) THEN 1 ELSE IF ~has(4) THEN 2 ELSE 3
<1>1. DecodeChunk(c) = IF \E i \in 1..(made + 1) : i > Len(c) \/ c[i] \notin 0..63 THEN Error
                       ELSE [i \in 1..made |-> DecodedByte(c, i)]
  BY Zenon DEF DecodeChunk
<1>2. CASE Len(c) = 1
  <2>1. ~has(3)
    BY <1>2
  <2>2. made = 1
    BY <2>1
  <2> HIDE DEF made
  <2>3. 2 \in 1..(made + 1) /\ 2 > Len(c)
    BY <1>2, <2>2
  <2> QED
    BY <1>1, <2>3, Zenon
<1>3. ASSUME NEW w \in 1..Len(c), c[w] \notin 0..63, \A j \in 1..w : c[j] # Pad
      PROVE  DecodeChunk(c) = Error
  <2>1. w = 1 \/ w = 2 \/ w = 3 \/ w = 4
    <3>1. \A l \in 1..4 : \A v \in 1..l : v = 1 \/ v = 2 \/ v = 3 \/ v = 4
      OBVIOUS
    <3> QED
      BY <1>3, <3>1, Zenon
  <2>2. made \in 1..3
    OBVIOUS
  <2>3. w = 3 => has(3)
    BY <1>3
  <2>4. w = 4 => has(3) /\ has(4)
    <3> SUFFICES ASSUME w = 4 PROVE 4 <= Len(c) /\ c[3] # Pad /\ c[4] # Pad
      BY DEF has
    <3>1. 3 \in 1..w /\ 4 \in 1..w
      OBVIOUS
    <3> QED
      BY <1>3, <3>1
  <2>5. (w = 3 => made \in 2..3) /\ (w = 4 => made = 3)
    BY <2>3, <2>4
  <2> HIDE DEF made
  <2>6. w \in 1..(made + 1)
    BY <2>1, <2>2, <2>5
  <2> QED
    BY <1>1, <1>3, <2>6, Zenon
<1> QED
  BY <1>2, <1>3

LEMMA LastPieceOfFour == \A n, p \in Nat : n % 4 = 1 /\ p = (n + 3) \div 4 => n = 4 * p - 3
OBVIOUS

\* Text that is no base64 is an exception of base64_decode.
LEMMA MalformedFails ==
  ASSUME NEW chars \in Seq(Int), Malformed(chars)
  PROVE  Decode(chars) = Error
<1>1. ASSUME NEW i \in 1..Pieces(chars, 4), DecodeChunk(Piece(chars, 4, i)) = Error
      PROVE  Decode(chars) = Error
  BY <1>1, Zenon DEF Decode
<1>2. PICK n \in Nat, p \in Nat : n = Len(chars) /\ p = Pieces(chars, 4) /\ p = (n + 3) \div 4
  BY DEF Pieces
<1>3. ASSUME NEW i \in 1..p
      PROVE  \E m \in 1..4 :
               /\ m = IF 4 * i < n THEN 4 ELSE n - 4 * (i - 1)
               /\ Piece(chars, 4, i) \in Seq(Int) /\ Len(Piece(chars, 4, i)) = m
               /\ \A j \in 1..m : Piece(chars, 4, i)[j] = chars[4 * (i - 1) + j]
  <2>1. \E m \in 1..4 :
           /\ m = IF 4 * i < Len(chars) THEN 4 ELSE Len(chars) - 4 * (i - 1)
           /\ Piece(chars, 4, i) \in Seq(Int) /\ Len(Piece(chars, 4, i)) = m
           /\ DOMAIN Piece(chars, 4, i) = 1..m
           /\ \A j \in 1..m : /\ 4 * (i - 1) + j \in 1..Len(chars)
                             /\ Piece(chars, 4, i)[j] = chars[4 * (i - 1) + j]
    <3>1. i \in 1..Pieces(chars, 4)
      BY <1>2, Zenon
    <3> QED
      BY <3>1, PieceOfFour, Zenon
  <2> QED
    BY <1>2, <2>1, Zenon
<1>4. CASE n % 4 = 1
  <2>1. p \in 1..p /\ ~(4 * p < n) /\ n - 4 * (p - 1) = 1
    BY <1>2, <1>4, LastPieceOfFour
  <2>2. PICK m \in 1..4 : /\ m = IF 4 * p < n THEN 4 ELSE n - 4 * (p - 1)
                          /\ Piece(chars, 4, p) \in Seq(Int) /\ Len(Piece(chars, 4, p)) = m
    BY <1>3, <2>1, Zenon
  <2>3. m = 1
    BY <2>1, <2>2
  <2>4. DecodeChunk(Piece(chars, 4, p)) = Error
    BY <2>2, <2>3, ChunkFails
  <2> QED
    BY <1>1, <1>2, <2>1, <2>4, Zenon
<1>5. ASSUME NEW k \in 1..n, chars[k] \notin 0..63, \A j \in 1..k : chars[j] # Pad
      PROVE  Decode(chars) = Error
  <2>1. PICK i \in 1..p, w \in 1..4 : k = 4 * (i - 1) + w
    <3>1. (k - 1) \div 4 + 1 \in 1..p /\ ((k - 1) % 4) + 1 \in 1..4
      BY <1>2
    <3>2. k = 4 * ((k - 1) \div 4 + 1 - 1) + (((k - 1) % 4) + 1)
      BY <1>2
    <3> QED
      BY <3>1, <3>2
  <2>2. PICK m \in 1..4 : /\ m = IF 4 * i < n THEN 4 ELSE n - 4 * (i - 1)
                          /\ Piece(chars, 4, i) \in Seq(Int) /\ Len(Piece(chars, 4, i)) = m
                          /\ \A j \in 1..m : Piece(chars, 4, i)[j] = chars[4 * (i - 1) + j]
    BY <1>3, Zenon
  <2>3. w \in 1..m
    <3>1. PICK a \in Int : a = 4 * (i - 1) /\ 4 * i = a + 4
      OBVIOUS
    <3>2. k = a + w /\ k <= n /\ m = IF a + 4 < n THEN 4 ELSE n - a
      BY <2>1, <2>2, <3>1
    <3> QED
      BY <1>2, <3>1, <3>2
  <2>4. Piece(chars, 4, i)[w] \notin 0..63
    BY <1>5, <2>1, <2>2, <2>3
  <2>5. \A j \in 1..w : Piece(chars, 4, i)[j] # Pad
    <3> TAKE j \in 1..w
    <3>1. 4 * (i - 1) + j \in 1..k /\ j \in 1..m
      BY <2>1, <2>3
    <3> QED
      BY <1>5, <2>2, <3>1
  <2>6. DecodeChunk(Piece(chars, 4, i)) = Error
    BY <2>2, <2>3, <2>4, <2>5, ChunkFails
  <2> QED
    BY <1>1, <1>2, <2>6
<1> QED
  <2>1. Len(chars) % 4 = 1 \/ \E i \in DOMAIN chars : /\ chars[i] \notin 0..63
                                                     /\ \A j \in 1..i : chars[j] # Pad
    BY Zenon DEF Malformed
  <2>2. DOMAIN chars = 1..n
    BY <1>2
  <2> QED
    BY <1>2, <1>4, <1>5, <2>1, <2>2

-----------------------------------------------------------------------------
(* The router: a table that was filled by registering routes one after the *)
(* other answers what the list of the routes means.                        *)

\* A set of numbers has a least one.
LEMMA Least ==
  ASSUME NEW T, T \subseteq Nat, T # {}
  PROVE  \E x \in T : \A y \in T : x <= y
<1> DEFINE R == {pair \in Nat \X Nat : pair[1] < pair[2]}
<1>1. IsWellFoundedOn(R, Nat)
  BY NatLessThanWellFounded DEF OpToRel
<1>2. PICK x \in T : \A y \in T : <<y, x>> \notin R
  <2> HIDE DEF R
  <2> QED
    BY <1>1, WFMin
<1>3. \A y \in T : <<y, x>> \in Nat \X Nat /\ <<y, x>>[1] = y /\ <<y, x>>[2] = x
  OBVIOUS
<1>4. \A y \in T : ~(y < x)
  BY <1>2, <1>3
<1> QED
  BY <1>4

\* What a map of the router holds once n routes are registered.  An exact map has
\* the last target of a key ...
ExactKey(route)  == <<route.method, route.path>>
BucketKey(route) == <<route.method, RouteStaticPrefix(route.path)>>
Obj(route)       == [regex |-> route.path, target |-> route.target]

ExactOK(map, kind, routes, n) ==
  /\ \A key \in DOMAIN map :
       \E i \in 1..n : routes[i].kind = kind /\ ExactKey(routes[i]) = key
  /\ \A i \in 1..n : routes[i].kind = kind =>
       /\ ExactKey(routes[i]) \in DOMAIN map
       /\ \/ map[ExactKey(routes[i])] = routes[i].target
          \/ \E j \in (i + 1)..n : routes[j].kind = kind /\ ExactKey(routes[j]) = ExactKey(routes[i])

\* ... and a bucket the routes of its key, in the order of their registration.
Holds(bucket, key, kind, routes, j, i) ==
  routes[i].kind = kind /\ BucketKey(routes[i]) = key /\ bucket[j] = Obj(routes[i])

BucketOK(bucket, key, kind, routes, n) ==
  /\ bucket \in Seq(Range(bucket))
  /\ \A j \in DOMAIN bucket : \E i \in 1..n : Holds(bucket, key, kind, routes, j, i)
  /\ \A i \in 1..n : routes[i].kind = kind /\ BucketKey(routes[i]) = key =>
       \E j \in DOMAIN bucket :
         /\ bucket[j] = Obj(routes[i])
         /\ \A b \in 1..(j - 1) : \E a \in 1..(i - 1) : Holds(bucket, key, kind, routes, b, a)

BucketsOK(map, kind, routes, n) == \A key : BucketOK(Bucket(map, key), key, kind, routes, n)

TableOK(maps, routes, n) ==
  /\ DOMAIN maps = Range(Kinds)
  /\ \A kind \in {"handlers", "callbacks"} : ExactOK(maps[kind], kind, routes, n)
  /\ \A kind \in {"regexHandlers", "regexCallbacks"} : BucketsOK(maps[kind], kind, routes, n)

LEMMA KindsAre == Range(Kinds) = {"handlers", "callbacks", "regexHandlers", "regexCallbacks"}
<1>1. DOMAIN Kinds = 1..4 /\ Kinds[1] = "handlers" /\ Kinds[2] = "callbacks"
      /\ Kinds[3] = "regexHandlers" /\ Kinds[4] = "regexCallbacks"
  BY DEF Kinds
<1>2. 1..4 = {1, 2, 3, 4}
  OBVIOUS
<1> QED
  BY <1>1, <1>2 DEF Range

LEMMA EmptyTableOK ==
  ASSUME NEW routes
  PROVE  TableOK(EmptyTable, routes, 0)
<1>1. DOMAIN EmptyTable = Range(Kinds)
  BY KindsAre DEF EmptyTable
<1>2. \A kind \in Range(Kinds) : EmptyTable[kind] = << >>
  BY KindsAre DEF EmptyTable
<1>3. \A kind : ExactOK(<< >>, kind, routes, 0)
  BY DEF ExactOK
<1>4. ASSUME NEW kind, NEW key PROVE BucketOK(Bucket(<< >>, key), key, kind, routes, 0)
  <2>1. Bucket(<< >>, key) = << >>
    BY DEF Bucket
  <2>2. << >> \in Seq(Range(<< >>))
    OBVIOUS
  <2>3. DOMAIN << >> = {} /\ 1..0 = {}
    OBVIOUS
  <2> QED
    BY <2>1, <2>2, <2>3 DEF BucketOK
<1> QED
  BY <1>1, <1>2, <1>3, <1>4, KindsAre DEF TableOK, BucketsOK

LEMMA OverwriteKeeps ==
  ASSUME NEW map, NEW kind, NEW routes, NEW n \in Nat, ExactOK(map, kind, routes, n),
         routes[n + 1].kind = kind
  PROVE  ExactOK(Overwrite(map, routes[n + 1]), kind, routes, n + 1)
<1> DEFINE new == ExactKey(routes[n + 1])
           after == Overwrite(map, routes[n + 1])
<1>1. /\ DOMAIN after = DOMAIN map \union {new} /\ after[new] = routes[n + 1].target
      /\ \A key \in DOMAIN map : key # new => after[key] = map[key]
  BY DEF Overwrite, ExactKey
<1> HIDE DEF after, new
<1>2. ASSUME NEW key \in DOMAIN after
      PROVE  \E i \in 1..(n + 1) : routes[i].kind = kind /\ ExactKey(routes[i]) = key
  BY <1>1 DEF ExactOK, new
<1>3. ASSUME NEW i \in 1..(n + 1), routes[i].kind = kind
      PROVE  /\ ExactKey(routes[i]) \in DOMAIN after
             /\ \/ after[ExactKey(routes[i])] = routes[i].target
                \/ \E j \in (i + 1)..(n + 1) :
                     routes[j].kind = kind /\ ExactKey(routes[j]) = ExactKey(routes[i])
  <2>1. CASE i = n + 1
    BY <1>1, <2>1 DEF new
  <2>2. CASE i \in 1..n /\ ExactKey(routes[i]) = new
    <3>1. n + 1 \in (i + 1)..(n + 1)
      BY <2>2
    <3> QED
      BY <1>1, <2>2, <3>1 DEF new
  <2>3. CASE i \in 1..n /\ ExactKey(routes[i]) # new
    <3>1. /\ ExactKey(routes[i]) \in DOMAIN map
          /\ \/ map[ExactKey(routes[i])] = routes[i].target
             \/ \E j \in (i + 1)..n : routes[j].kind = kind /\ ExactKey(routes[j]) = ExactKey(routes[i])
      BY <1>3, <2>3 DEF ExactOK
    <3>2. (i + 1)..n \subseteq (i + 1)..(n + 1)
      OBVIOUS
    <3> QED
      BY <1>1, <2>3, <3>1, <3>2
  <2> QED
    BY <2>1, <2>2, <2>3
<1> QED
  BY <1>2, <1>3 DEF ExactOK, after

LEMMA ExactSkips ==
  ASSUME NEW map, NEW kind, NEW routes, NEW n \in Nat, ExactOK(map, kind, routes, n),
         routes[n + 1].kind # kind
  PROVE  ExactOK(map, kind, routes, n + 1)
<1>1. \A i \in 1..(n + 1) : routes[i].kind = kind => i \in 1..n
  OBVIOUS
<1>2. 1..n \subseteq 1..(n + 1) /\ \A i \in 1..n : (i + 1)..n \subseteq (i + 1)..(n + 1)
  OBVIOUS
<1> QED
  BY <1>1, <1>2 DEF ExactOK

LEMMA BucketSkips ==
  ASSUME NEW bucket, NEW key, NEW kind, NEW routes, NEW n \in Nat,
         BucketOK(bucket, key, kind, routes, n),
         ~(routes[n + 1].kind = kind /\ BucketKey(routes[n + 1]) = key)
  PROVE  BucketOK(bucket, key, kind, routes, n + 1)
<1>1. \A i \in 1..(n + 1) : routes[i].kind = kind /\ BucketKey(routes[i]) = key => i \in 1..n
  OBVIOUS
<1>2. 1..n \subseteq 1..(n + 1)
  OBVIOUS
<1> QED
  BY <1>1, <1>2 DEF BucketOK

LEMMA BucketAppend ==
  ASSUME NEW bucket, NEW key, NEW kind, NEW routes, NEW n \in Nat,
         BucketOK(bucket, key, kind, routes, n),
         routes[n + 1].kind = kind, BucketKey(routes[n + 1]) = key
  PROVE  BucketOK(Append(bucket, Obj(routes[n + 1])), key, kind, routes, n + 1)
<1> DEFINE new == Obj(routes[n + 1])
           after == Append(bucket, new)
<1>0. bucket \in Seq(Range(bucket))
  BY DEF BucketOK
<1>1. PICK len \in Nat : len = Len(bucket) /\ DOMAIN bucket = 1..len
  BY <1>0
<1>2. /\ DOMAIN after = 1..(len + 1) /\ after[len + 1] = new
      /\ \A j \in 1..len : after[j] = bucket[j]
  <2> HIDE DEF new
  <2> QED
    BY <1>0, <1>1
<1> HIDE DEF after, new
<1>3. after \in Seq(Range(after))
  <2>1. Range(bucket) \subseteq Range(after) /\ new \in Range(after)
    BY <1>1, <1>2 DEF Range
  <2>2. bucket \in Seq(Range(after))
    BY <1>0, <2>1
  <2> QED
    BY <2>1, <2>2 DEF after
<1>4. ASSUME NEW j \in DOMAIN after
      PROVE  \E i \in 1..(n + 1) : Holds(after, key, kind, routes, j, i)
  <2>1. CASE j = len + 1
    BY <1>2, <2>1 DEF Holds, new
  <2>2. CASE j \in 1..len
    <3>1. PICK i \in 1..n : Holds(bucket, key, kind, routes, j, i)
      BY <1>1, <2>2 DEF BucketOK
    <3>2. Holds(after, key, kind, routes, j, i)
      BY <1>2, <2>2, <3>1 DEF Holds
    <3> QED
      BY <3>2
  <2> QED
    BY <1>2, <2>1, <2>2
<1>5. ASSUME NEW i \in 1..(n + 1), routes[i].kind = kind, BucketKey(routes[i]) = key
      PROVE  \E j \in DOMAIN after :
               /\ after[j] = Obj(routes[i])
               /\ \A b \in 1..(j - 1) : \E a \in 1..(i - 1) : Holds(after, key, kind, routes, b, a)
  <2>1. CASE i = n + 1
    <3>1. ASSUME NEW b \in 1..len PROVE \E a \in 1..n : Holds(after, key, kind, routes, b, a)
      <4>1. PICK a \in 1..n : Holds(bucket, key, kind, routes, b, a)
        BY <1>1 DEF BucketOK
      <4> QED
        BY <1>2, <4>1 DEF Holds
    <3>2. (len + 1) - 1 = len /\ i - 1 = n /\ len + 1 \in DOMAIN after
      BY <1>2, <2>1
    <3>3. after[len + 1] = Obj(routes[i])
      BY <1>2, <2>1 DEF new
    <3> QED
      BY <3>1, <3>2, <3>3
  <2>2. CASE i \in 1..n
    <3>1. PICK j \in 1..len :
            /\ bucket[j] = Obj(routes[i])
            /\ \A b \in 1..(j - 1) : \E a \in 1..(i - 1) : Holds(bucket, key, kind, routes, b, a)
      BY <1>1, <1>5, <2>2 DEF BucketOK
    <3>2. ASSUME NEW b \in 1..(j - 1)
          PROVE  \E a \in 1..(i - 1) : Holds(after, key, kind, routes, b, a)
      <4>1. b \in 1..len
        OBVIOUS
      <4> QED
        BY <1>2, <3>1, <4>1 DEF Holds
    <3>3. j \in DOMAIN after /\ after[j] = Obj(routes[i])
      BY <1>2, <3>1
    <3> QED
      BY <3>2, <3>3
  <2> QED
    BY <2>1, <2>2
<1> QED
  BY <1>3, <1>4, <1>5 DEF BucketOK, after, new

LEMMA AddKeeps ==
  ASSUME NEW map, NEW kind, NEW routes, NEW n \in Nat, BucketsOK(map, kind, routes, n),
         routes[n + 1].kind = kind
  PROVE  BucketsOK(AddToBucket(map, routes[n + 1]), kind, routes, n + 1)
<1> DEFINE new == BucketKey(routes[n + 1])
           after == AddToBucket(map, routes[n + 1])
<1>1. /\ Bucket(after, new) = Append(Bucket(map, new), Obj(routes[n + 1]))
      /\ \A key : key # new => Bucket(after, key) = Bucket(map, key)
  <2>1. /\ DOMAIN after = DOMAIN map \union {new}
        /\ after[new] = Append(Bucket(map, new), Obj(routes[n + 1]))
        /\ \A key \in DOMAIN map : key # new => after[key] = map[key]
    BY DEF AddToBucket, BucketKey, Obj
  <2> HIDE DEF after, new
  <2> QED
    BY <2>1 DEF Bucket
<1> HIDE DEF after
<1> SUFFICES ASSUME NEW key
             PROVE  BucketOK(Bucket(after, key), key, kind, routes, n + 1)
  BY DEF BucketsOK, after
<1>2. BucketOK(Bucket(map, key), key, kind, routes, n)
  BY DEF BucketsOK
<1>3. CASE key = new
  BY <1>1, <1>2, <1>3, BucketAppend
<1>4. CASE key # new
  BY <1>1, <1>2, <1>4, BucketSkips
<1> QED
  BY <1>3, <1>4

LEMMA RegisterKeeps ==
  ASSUME NEW maps, NEW routes, NEW n \in Nat, TableOK(maps, routes, n),
         routes[n + 1].kind \in Range(Kinds)
  PROVE  TableOK(Register(maps, routes[n + 1]), routes, n + 1)
<1> DEFINE route == routes[n + 1]
           after == Register(maps, route)
<1>1. /\ DOMAIN after = DOMAIN maps
      /\ after[route.kind] = IF route.kind \in {"handlers", "callbacks"}
                             THEN Overwrite(maps[route.kind], route)
                             ELSE AddToBucket(maps[route.kind], route)
      /\ \A kind \in DOMAIN maps : kind # route.kind => after[kind] = maps[kind]
  BY DEF TableOK, Register
<1> HIDE DEF after
<1>2. ASSUME NEW kind \in {"handlers", "callbacks"} PROVE ExactOK(after[kind], kind, routes, n + 1)
  <2>1. ExactOK(maps[kind], kind, routes, n) /\ kind \in DOMAIN maps
    BY KindsAre DEF TableOK
  <2>2. CASE route.kind = kind
    BY <1>1, <2>1, <2>2, OverwriteKeeps
  <2>3. CASE route.kind # kind
    BY <1>1, <2>1, <2>3, ExactSkips
  <2> QED
    BY <2>2, <2>3
<1>3. ASSUME NEW kind \in {"regexHandlers", "regexCallbacks"}
      PROVE  BucketsOK(after[kind], kind, routes, n + 1)
  <2>1. BucketsOK(maps[kind], kind, routes, n) /\ kind \in DOMAIN maps
    BY KindsAre DEF TableOK
  <2>2. CASE route.kind = kind
    BY <1>1, <2>1, <2>2, AddKeeps
  <2>3. CASE route.kind # kind
    BY <1>1, <2>1, <2>3, BucketSkips DEF BucketsOK
  <2> QED
    BY <2>2, <2>3
<1> QED
  BY <1>1, <1>2, <1>3 DEF TableOK, after

LEMMA MinIs ==
  ASSUME NEW T, T \subseteq Nat, T # {}
  PROVE  Min(T) \in T /\ \A y \in T : Min(T) <= y
<1>1. \E x \in T : \A y \in T : x <= y
  BY Least
<1> QED
  BY <1>1 DEF Min

\* The keys a path is looked up with, and the place among them of the static prefix
\* of a pattern with so many literals before its first parameter.
Own(path)  == IF Len(path) > 1 /\ path[Len(path)] = "" THEN 0 ELSE 1
Keys(path) == Len(path) + Own(path)
Place(path, literals) == IF literals = -1 THEN Keys(path) ELSE Keys(path) - literals
Dir(path, m) == Append(SubSeq(path, 1, m), "")

LEMMA KeysAre ==
  ASSUME NEW S, NEW path \in Seq(S)
  PROVE  /\ Len(path) \in Nat /\ DOMAIN path = 1..Len(path)
         /\ Own(path) \in Nat /\ Keys(path) \in Nat
         /\ Own(path) = 0 \/ Own(path) = 1
         /\ Keys(path) = Len(path) + Own(path) /\ Keys(path) >= 1
         /\ DOMAIN PathPrefixesForLookup(path) = 1..Keys(path)
         /\ \A k \in 1..Keys(path) :
              PathPrefixesForLookup(path)[k] = IF k = Keys(path) THEN <<>>
                                               ELSE IF k = Own(path) THEN path
                                               ELSE Dir(path, Keys(path) - k)
<1>1. Len(path) \in Nat /\ DOMAIN path = 1..Len(path)
  OBVIOUS
<1>2. /\ Own(path) = 0 \/ Own(path) = 1
      /\ Own(path) = 0 => Len(path) > 1
  <2>1. CASE Len(path) > 1 /\ path[Len(path)] = ""
    BY <1>1, <2>1 DEF Own
  <2>2. CASE ~(Len(path) > 1 /\ path[Len(path)] = "")
    <3>1. Own(path) = 1
      BY <2>2, Zenon DEF Own
    <3> QED
      BY <3>1
  <2> QED
    BY <2>1, <2>2
<1>3. /\ Own(path) \in Nat /\ Keys(path) \in Nat
      /\ Keys(path) = Len(path) + Own(path) /\ Keys(path) >= 1
  BY <1>1, <1>2 DEF Keys
<1>4. PathPrefixesForLookup(path) =
        [k \in 1..Keys(path) |->
           IF k = Keys(path) THEN <<>>
           ELSE IF k = Own(path) THEN path ELSE Dir(path, Keys(path) - k)]
  BY DEF PathPrefixesForLookup, Own, Keys, Dir
<1> QED
  BY <1>1, <1>2, <1>3, <1>4

LEMMA AppendAt ==
  ASSUME NEW S, NEW s \in Seq(S), NEW e, NEW m, m = Len(s)
  PROVE  /\ DOMAIN Append(s, e) = 1..(m + 1) /\ Append(s, e)[m + 1] = e
         /\ \A i \in 1..m : Append(s, e)[i] = s[i]
OBVIOUS

\* The first segments of a path.
LEMMA DirIs ==
  ASSUME NEW S, NEW path \in Seq(S), NEW m \in Nat, m <= Len(path)
  PROVE  /\ DOMAIN Dir(path, m) = 1..(m + 1)
         /\ Dir(path, m)[m + 1] = ""
         /\ \A i \in 1..m : Dir(path, m)[i] = path[i]
<1> DEFINE s == SubSeq(path, 1, m)
<1>1. s \in Seq(S) /\ Len(s) = m /\ \A i \in 1..m : s[i] = path[i]
  OBVIOUS
<1> HIDE DEF s
<1>2. \A e : /\ DOMAIN Append(s, e) = 1..(m + 1) /\ Append(s, e)[m + 1] = e
             /\ \A i \in 1..m : Append(s, e)[i] = s[i]
  BY <1>1, AppendAt
<1>3. /\ DOMAIN Append(s, "") = 1..(m + 1) /\ Append(s, "")[m + 1] = ""
      /\ \A i \in 1..m : Append(s, "")[i] = s[i]
  BY <1>2, Zenon
<1> QED
  BY <1>1, <1>3 DEF s, Dir

LEMMA SameDir ==
  ASSUME NEW S, NEW s \in Seq(S), NEW T, NEW t \in Seq(T), NEW m \in Nat, m <= Len(s), m <= Len(t),
         \A i \in 1..m : s[i] = t[i]
  PROVE  Dir(s, m) = Dir(t, m)
<1>1. SubSeq(s, 1, m) = [i \in 1..m |-> s[i]] /\ SubSeq(t, 1, m) = [i \in 1..m |-> t[i]]
  OBVIOUS
<1>2. [i \in 1..m |-> s[i]] = [i \in 1..m |-> t[i]]
  OBVIOUS
<1> QED
  BY <1>1, <1>2 DEF Dir

LEMMA MatchIs ==
  ASSUME NEW S, NEW path \in Seq(S), NEW T, NEW pattern \in Seq(T), Matches(pattern, path)
  PROVE  /\ Len(pattern) = Len(path) /\ DOMAIN pattern = 1..Len(path)
         /\ \A i \in 1..Len(path) : /\ pattern[i] = Param => path[i] # ""
                                    /\ pattern[i] # Param => pattern[i] = path[i]
<1>1. Len(pattern) = Len(path) /\ DOMAIN path = 1..Len(path) /\ DOMAIN pattern = 1..Len(pattern)
  <2>1. Len(pattern) = Len(path)
    BY Zenon DEF Matches
  <2> QED
    BY <2>1
<1>2. \A i \in DOMAIN path : /\ pattern[i] = Param => path[i] # ""
                             /\ pattern[i] # Param => pattern[i] = path[i]
  BY Zenon DEF Matches
<1> QED
  BY <1>1, <1>2, Zenon

LEMMA FirstParameter ==
  ASSUME NEW T, NEW pattern \in Seq(T), ParameterPlaces(pattern) # {}
  PROVE  \E m \in Nat : /\ 1 <= m /\ m <= Len(pattern) /\ pattern[m] = Param
                        /\ \A i \in 1..(m - 1) : pattern[i] # Param
                        /\ RouteStaticPrefix(pattern) = Dir(pattern, m - 1)
                        /\ Specificity(pattern) = m - 1
<1> DEFINE m == Min(ParameterPlaces(pattern))
<1>1. ParameterPlaces(pattern) \subseteq 1..Len(pattern) /\ Len(pattern) \in Nat
  BY DEF ParameterPlaces
<1>2. m \in ParameterPlaces(pattern) /\ \A i \in ParameterPlaces(pattern) : m <= i
  <2>1. ParameterPlaces(pattern) \subseteq Nat
    BY <1>1
  <2> QED
    BY <2>1, MinIs
<1>3. RouteStaticPrefix(pattern) = Dir(pattern, m - 1) /\ Specificity(pattern) = m - 1
  BY DEF RouteStaticPrefix, Specificity, Dir
<1> HIDE DEF m
<1>4. m \in Nat /\ 1 <= m /\ m <= Len(pattern) /\ pattern[m] = Param
  BY <1>1, <1>2 DEF ParameterPlaces
<1>5. ASSUME NEW i \in 1..(m - 1) PROVE pattern[i] # Param
  <2>1. i \in 1..Len(pattern) /\ ~(m <= i)
    BY <1>1, <1>4
  <2> QED
    BY <1>2, <2>1 DEF ParameterPlaces
<1> QED
  BY <1>3, <1>4, <1>5

LEMMA DifferentDomains ==
  ASSUME NEW s, NEW t, NEW m \in Nat, NEW n \in Nat, DOMAIN s = 1..m, DOMAIN t = 1..n, m # n
  PROVE  s # t
<1>1. 1..m # 1..n
  OBVIOUS
<1> QED
  BY <1>1

\* The static prefix of a pattern that matches is one of the keys, unless the
\* pattern begins with a parameter.
IsKey(path, pattern, k) ==
  PathPrefixesForLookup(path)[k] = RouteStaticPrefix(pattern) <=>
    Specificity(pattern) # 0 /\ k = Place(path, Specificity(pattern))

LEMMA KeyOfParameterless ==
  ASSUME NEW S, NEW path \in Seq(S), NEW pattern, ParameterPlaces(pattern) = {},
         NEW k \in 1..Keys(path)
  PROVE  IsKey(path, pattern, k)
<1> DEFINE key == PathPrefixesForLookup(path)[k]
<1>1. RouteStaticPrefix(pattern) = <<>> /\ Specificity(pattern) = -1
  BY DEF RouteStaticPrefix, Specificity
<1>2. Place(path, -1) = Keys(path)
  BY DEF Place
<1>3. /\ Keys(path) = Len(path) + Own(path) /\ Own(path) \in Nat /\ Len(path) \in Nat
      /\ Own(path) = 0 \/ Own(path) = 1
      /\ DOMAIN path = 1..Len(path)
  BY KeysAre
<1>4. key = IF k = Keys(path) THEN <<>>
            ELSE IF k = Own(path) THEN path ELSE Dir(path, Keys(path) - k)
  BY KeysAre
<1> HIDE DEF key
<1>5. DOMAIN <<>> = 1..0
  OBVIOUS
<1>6. CASE k = Keys(path)
  BY <1>1, <1>2, <1>4, <1>6 DEF key, IsKey
<1>7. CASE k # Keys(path)
  <2>1. key # <<>>
    <3>1. CASE k = Own(path)
      <4>1. key = path
        BY <1>4, <1>7, <3>1
      <4>2. Len(path) # 0
        BY <1>3, <1>7, <3>1
      <4> QED
        BY <1>3, <1>5, <4>1, <4>2, DifferentDomains
    <3>2. CASE k # Own(path)
      <4>1. key = Dir(path, Keys(path) - k)
        BY <1>4, <1>7, <3>2
      <4>2. Keys(path) - k \in Nat /\ Keys(path) - k <= Len(path) /\ Keys(path) - k + 1 # 0
        BY <1>3, <1>7, <3>2
      <4>3. DOMAIN key = 1..(Keys(path) - k + 1)
        BY <4>1, <4>2, DirIs
      <4>4. Keys(path) - k + 1 \in Nat
        BY <4>2
      <4> QED
        BY <1>5, <4>2, <4>3, <4>4, DifferentDomains
    <3> QED
      BY <3>1, <3>2
  <2> QED
    BY <1>1, <1>2, <1>7, <2>1 DEF key, IsKey
<1> QED
  BY <1>6, <1>7

LEMMA KeyOfPattern ==
  ASSUME NEW S, NEW path \in Seq(S), NEW T, NEW pattern \in Seq(T), Matches(pattern, path),
         NEW k \in 1..Keys(path)
  PROVE  IsKey(path, pattern, k)
<1>1. CASE ParameterPlaces(pattern) = {}
  BY <1>1, KeyOfParameterless
<1>2. CASE ParameterPlaces(pattern) # {}
  <2> DEFINE key == PathPrefixesForLookup(path)[k]
             prefix == RouteStaticPrefix(pattern)
  <2>1. PICK m \in Nat : /\ 1 <= m /\ m <= Len(pattern) /\ pattern[m] = Param
                         /\ \A i \in 1..(m - 1) : pattern[i] # Param
                         /\ RouteStaticPrefix(pattern) = Dir(pattern, m - 1)
                         /\ Specificity(pattern) = m - 1
    BY <1>2, FirstParameter
  <2>0. Len(pattern) = Len(path)
    BY MatchIs
  <2>3. /\ Keys(path) = Len(path) + Own(path) /\ Own(path) \in Nat /\ Len(path) \in Nat
        /\ Own(path) = 0 \/ Own(path) = 1
        /\ DOMAIN path = 1..Len(path)
        /\ 1 <= m /\ m <= Len(path)
    BY <2>0, <2>1, KeysAre
  <2>2. path[m] # "" /\ \A i \in 1..(m - 1) : pattern[i] = path[i]
    <3>1. m \in 1..Len(path) /\ 1..(m - 1) \subseteq 1..Len(path)
      BY <2>3
    <3>2. /\ pattern[m] = Param => path[m] # ""
          /\ \A i \in 1..(m - 1) : pattern[i] # Param => pattern[i] = path[i]
      BY <3>1, MatchIs, Zenon
    <3> QED
      BY <2>1, <3>2, Zenon
  <2>4. key = IF k = Keys(path) THEN <<>>
              ELSE IF k = Own(path) THEN path ELSE Dir(path, Keys(path) - k)
    BY KeysAre
  <2>5. m - 1 \in Nat /\ (m - 1) + 1 = m /\ m - 1 <= Len(pattern)
    BY <2>0, <2>3
  <2>6. /\ DOMAIN prefix = 1..m
        /\ prefix[m] = ""
    <3>1. prefix = Dir(pattern, m - 1)
      BY <2>1
    <3>2. DOMAIN prefix = 1..((m - 1) + 1) /\ prefix[(m - 1) + 1] = ""
      BY <2>5, <3>1, DirIs
    <3> QED
      BY <2>5, <3>2
  <2>7. Place(path, m - 1) = Keys(path) - (m - 1)
    BY <2>1 DEF Place
  <2> HIDE DEF key, prefix
  <2>8. key = prefix <=> m - 1 # 0 /\ k = Keys(path) - (m - 1)
    <3>1. CASE k = Keys(path)
      <4>1. key = <<>> /\ DOMAIN <<>> = 1..0
        BY <2>4, <3>1
      <4>2. key # prefix
        <5>1. m # 0
          BY <2>3
        <5>2. DOMAIN prefix = 1..m
          BY <2>6, Zenon
        <5> QED
          BY <4>1, <5>1, <5>2, DifferentDomains
      <4>3. ~(m - 1 # 0 /\ k = Keys(path) - (m - 1))
        BY <2>1, <2>3, <3>1
      <4> QED
        BY <4>2, <4>3
    <3>2. CASE k # Keys(path) /\ k = Own(path)
      <4>1. key = path /\ Own(path) = 1
        BY <2>3, <2>4, <3>2
      <4>2. k # Keys(path) - (m - 1)
        BY <2>3, <3>2, <4>1
      <4>3. ASSUME path = prefix PROVE FALSE
        <5>1. Len(path) = m
          BY <2>1, <2>3, <2>6, <4>3, DifferentDomains
        <5>2. path[m] = ""
          BY <2>6, <4>3
        <5> QED
          BY <2>2, <5>2
      <4> QED
        BY <4>1, <4>2, <4>3
    <3>3. CASE k # Keys(path) /\ k # Own(path)
      <4>1. PICK j \in Nat : j = Keys(path) - k /\ j <= Len(path) /\ 1 <= j
        BY <2>3, <3>3
      <4>2. key = Dir(path, j)
        BY <2>4, <3>3, <4>1
      <4>3. k = Keys(path) - (m - 1) <=> j = m - 1
        BY <2>1, <2>3, <4>1
      <4>4. CASE j = m - 1
        <5>1. Dir(path, j) = Dir(pattern, j)
          <6>1. j <= Len(pattern) /\ \A i \in 1..j : path[i] = pattern[i]
            BY <2>0, <2>2, <4>1, <4>4, Zenon
          <6> QED
            BY <4>1, <6>1, SameDir
        <5>2. key = prefix
          BY <2>1, <4>2, <4>4, <5>1 DEF prefix
        <5>3. m - 1 # 0
          BY <4>1, <4>4
        <5> QED
          BY <4>3, <4>4, <5>2, <5>3
      <4>5. CASE j # m - 1
        <5>1. DOMAIN key = 1..(j + 1) /\ j + 1 \in Nat /\ j + 1 # m
          <6>1. DOMAIN key = 1..(j + 1)
            BY <4>1, <4>2, DirIs
          <6> QED
            BY <4>5, <6>1
        <5>2. key # prefix
          BY <2>6, <5>1, DifferentDomains
        <5> QED
          BY <4>3, <4>5, <5>2
      <4> QED
        BY <4>4, <4>5
    <3> QED
      BY <3>1, <3>2, <3>3
  <2> QED
    BY <2>1, <2>7, <2>8 DEF key, prefix, IsKey
<1> QED
  BY <1>1, <1>2

LEMMA PlaceIn ==
  ASSUME NEW S, NEW path \in Seq(S), NEW T, NEW pattern \in Seq(T), Matches(pattern, path),
         Specificity(pattern) # 0
  PROVE  /\ Place(path, Specificity(pattern)) \in 1..Keys(path)
         /\ Specificity(pattern) \in Int
         /\ Specificity(pattern) = -1 \/ Specificity(pattern) >= 1
<1>1. /\ Keys(path) \in Nat /\ Keys(path) = Len(path) + Own(path) /\ Keys(path) >= 1
      /\ Own(path) \in Nat /\ Len(path) \in Nat
  BY KeysAre
<1>2. CASE ParameterPlaces(pattern) = {}
  <2>1. Specificity(pattern) = -1
    BY <1>2 DEF Specificity
  <2> QED
    BY <1>1, <2>1 DEF Place
<1>3. CASE ParameterPlaces(pattern) # {}
  <2>1. PICK m \in Nat : 1 <= m /\ m <= Len(pattern) /\ Specificity(pattern) = m - 1
    BY <1>3, FirstParameter
  <2>2. Len(pattern) = Len(path)
    BY MatchIs
  <2>3. Place(path, m - 1) = Keys(path) - (m - 1)
    BY <2>1 DEF Place
  <2> QED
    BY <1>1, <2>1, <2>2, <2>3
<1> QED
  BY <1>2, <1>3

LEMMA PlaceOrder ==
  ASSUME NEW S, NEW path \in Seq(S), NEW s \in Int, NEW t \in Int, s = -1 \/ s >= 1, t = -1 \/ t >= 1
  PROVE  Place(path, s) <= Place(path, t) <=> t <= s
<1>1. Keys(path) \in Nat
  BY KeysAre
<1> QED
  BY <1>1 DEF Place

\* The routes with parameters that a request may get, by the places of their keys.
PlaceOf(routes, path, i) == Place(path, Specificity(routes[i].path))

ArePatterns(routes) ==
  \A i \in 1..Len(routes) : routes[i].path \in Seq(Range(routes[i].path))

Dynamic(kind) == kind \notin {"handlers", "callbacks"}

LEMMA CandidatesAre ==
  ASSUME NEW S, NEW routes \in Seq(S), NEW kind, Dynamic(kind), NEW method, NEW path
  PROVE  /\ Candidates(routes, kind, method, path) \subseteq 1..Len(routes)
         /\ \A i \in 1..Len(routes) : i \in Candidates(routes, kind, method, path) <=>
              /\ routes[i].kind = kind /\ routes[i].method = method
              /\ Matches(routes[i].path, path) /\ Specificity(routes[i].path) # 0
<1>1. DOMAIN routes = 1..Len(routes)
  OBVIOUS
<1>2. \A i : i \in Candidates(routes, kind, method, path) <=>
              /\ i \in DOMAIN routes /\ routes[i].kind = kind /\ routes[i].method = method
              /\ Matches(routes[i].path, path) /\ Specificity(routes[i].path) # 0
  BY Zenon DEF Candidates, Dynamic
<1> QED
  BY <1>1, <1>2, Zenon

LEMMA ChosenIs ==
  ASSUME NEW S, NEW routes \in Seq(S), ArePatterns(routes), NEW kind, Dynamic(kind), NEW method,
         NEW P, NEW path \in Seq(P),
         NEW c \in Candidates(routes, kind, method, path),
         \A i \in Candidates(routes, kind, method, path) :
           /\ PlaceOf(routes, path, c) <= PlaceOf(routes, path, i)
           /\ PlaceOf(routes, path, c) = PlaceOf(routes, path, i) => c <= i
  PROVE  Chosen(routes, kind, Candidates(routes, kind, method, path)) = c
<1> DEFINE C == Candidates(routes, kind, method, path)
           Sp(i) == Specificity(routes[i].path)
           Best(i) == \A j \in C : Sp(j) < Sp(i) \/ (Sp(j) = Sp(i) /\ i <= j)
<1>1. C \subseteq 1..Len(routes) /\ Len(routes) \in Nat
  BY CandidatesAre
<1>2. ASSUME NEW i \in C
      PROVE  Sp(i) \in Int /\ (Sp(i) = -1 \/ Sp(i) >= 1)
  <2>1. /\ routes[i].path \in Seq(Range(routes[i].path)) /\ Matches(routes[i].path, path)
        /\ Specificity(routes[i].path) # 0
    BY <1>1, CandidatesAre DEF ArePatterns
  <2> QED
    BY <2>1, PlaceIn
<1>3. \A i, j \in C : PlaceOf(routes, path, i) <= PlaceOf(routes, path, j) <=> Sp(j) <= Sp(i)
  BY <1>2, PlaceOrder DEF PlaceOf
<1>4. \A i, j \in C : PlaceOf(routes, path, i) = PlaceOf(routes, path, j) <=> Sp(j) = Sp(i)
  <2> TAKE i \in C, j \in C
  <2>1. PlaceOf(routes, path, i) <= PlaceOf(routes, path, j) <=> Sp(j) <= Sp(i)
    BY <1>3
  <2>2. PlaceOf(routes, path, j) <= PlaceOf(routes, path, i) <=> Sp(i) <= Sp(j)
    BY <1>3
  <2>3. PlaceOf(routes, path, i) \in Nat /\ PlaceOf(routes, path, j) \in Nat
    <3>1. \A a \in C : PlaceOf(routes, path, a) \in Nat
      <4> TAKE a \in C
      <4>1. /\ routes[a].path \in Seq(Range(routes[a].path)) /\ Matches(routes[a].path, path)
            /\ Specificity(routes[a].path) # 0
        BY <1>1, CandidatesAre DEF ArePatterns
      <4>2. Place(path, Specificity(routes[a].path)) \in 1..Keys(path)
        BY <4>1, PlaceIn
      <4> QED
        BY <4>2 DEF PlaceOf
    <3> QED
      BY <3>1
  <2>4. Sp(i) \in Int /\ Sp(j) \in Int
    BY <1>2
  <2> HIDE DEF C, Sp
  <2> QED
    BY <2>1, <2>2, <2>3, <2>4
<1>5. Chosen(routes, kind, C) = CHOOSE i \in C : Best(i)
  BY Zenon DEF Chosen, Dynamic
<1> HIDE DEF C, Sp
<1>6. c \in C /\ \A i \in C : Sp(i) <= Sp(c) /\ (Sp(i) = Sp(c) => c <= i)
  BY <1>3, <1>4 DEF C
<1>7. Best(c)
  <2> TAKE j \in C
  <2>1. Sp(j) \in Int /\ Sp(c) \in Int
    BY <1>2, <1>6
  <2> QED
    BY <1>6, <2>1
<1>8. ASSUME NEW i \in C, Best(i) PROVE i = c
  <2>1. Sp(i) \in Int /\ Sp(c) \in Int /\ i \in Nat /\ c \in Nat
    BY <1>1, <1>2, <1>6
  <2>2. Sp(c) < Sp(i) \/ (Sp(c) = Sp(i) /\ i <= c)
    BY <1>6, <1>8
  <2>3. Sp(i) <= Sp(c) /\ (Sp(i) = Sp(c) => c <= i)
    BY <1>6
  <2> QED
    BY <2>1, <2>2, <2>3
<1> HIDE DEF Best
<1> QED
  BY <1>5, <1>6, <1>7, <1>8 DEF C

\* What a bucket with a key of the path holds are candidates, and each of them is
\* in the bucket of its key.
LEMMA HeldIsCandidate ==
  ASSUME NEW S, NEW routes \in Seq(S), ArePatterns(routes), NEW kind, Dynamic(kind), NEW method,
         NEW P, NEW path \in Seq(P), NEW k \in 1..Keys(path), NEW bucket, NEW j,
         NEW i \in 1..Len(routes),
         Holds(bucket, <<method, PathPrefixesForLookup(path)[k]>>, kind, routes, j, i),
         Matches(bucket[j].regex, path)
  PROVE  i \in Candidates(routes, kind, method, path) /\ PlaceOf(routes, path, i) = k
<1>1. /\ routes[i].kind = kind /\ routes[i].method = method
      /\ RouteStaticPrefix(routes[i].path) = PathPrefixesForLookup(path)[k]
      /\ bucket[j] = Obj(routes[i])
  BY DEF Holds, BucketKey
<1>2. Matches(routes[i].path, path)
  BY <1>1 DEF Obj
<1>3. IsKey(path, routes[i].path, k)
  BY <1>2, KeyOfPattern DEF ArePatterns
<1>4. Specificity(routes[i].path) # 0 /\ k = Place(path, Specificity(routes[i].path))
  BY <1>1, <1>3, Zenon DEF IsKey
<1> QED
  BY <1>1, <1>2, <1>4, CandidatesAre DEF PlaceOf

LEMMA CandidateKey ==
  ASSUME NEW S, NEW routes \in Seq(S), ArePatterns(routes), NEW kind, Dynamic(kind), NEW method,
         NEW P, NEW path \in Seq(P), NEW i \in Candidates(routes, kind, method, path)
  PROVE  /\ PlaceOf(routes, path, i) \in 1..Keys(path)
         /\ routes[i].kind = kind
         /\ BucketKey(routes[i]) = <<method, PathPrefixesForLookup(path)[PlaceOf(routes, path, i)]>>
         /\ Matches(Obj(routes[i]).regex, path)
<1>1. /\ i \in 1..Len(routes) /\ routes[i].kind = kind /\ routes[i].method = method
      /\ Matches(routes[i].path, path) /\ Specificity(routes[i].path) # 0
  BY CandidatesAre
<1>2. routes[i].path \in Seq(Range(routes[i].path))
  BY <1>1 DEF ArePatterns
<1>3. PlaceOf(routes, path, i) \in 1..Keys(path)
  BY <1>1, <1>2, PlaceIn DEF PlaceOf
<1>4. IsKey(path, routes[i].path, PlaceOf(routes, path, i))
  BY <1>1, <1>2, <1>3, KeyOfPattern
<1>5. PathPrefixesForLookup(path)[PlaceOf(routes, path, i)] = RouteStaticPrefix(routes[i].path)
  BY <1>1, <1>4, Zenon DEF IsKey, PlaceOf
<1> QED
  BY <1>1, <1>3, <1>5 DEF BucketKey, Obj

Answer(route, path) == [target |-> route.target, params |-> PathParameters(route.path, path)]

LEMMA SearchIs ==
  ASSUME NEW S, NEW routes \in Seq(S), ArePatterns(routes), NEW kind, Dynamic(kind), NEW method,
         NEW P, NEW path \in Seq(P), NEW map, BucketsOK(map, kind, routes, Len(routes))
  PROVE  LET C == Candidates(routes, kind, method, path)
         IN Search(map, method, path) = IF C = {} THEN NotFound
                                        ELSE Answer(routes[Chosen(routes, kind, C)], path)
<1>0. ASSUME NEW k \in 1..Keys(path), NEW bucket, NEW j, NEW i \in 1..Len(routes),
             Holds(bucket, <<method, PathPrefixesForLookup(path)[k]>>, kind, routes, j, i),
             Matches(bucket[j].regex, path)
      PROVE  i \in Candidates(routes, kind, method, path) /\ PlaceOf(routes, path, i) = k
  BY <1>0, HeldIsCandidate
<1> DEFINE C        == Candidates(routes, kind, method, path)
           keys     == PathPrefixesForLookup(path)
           bucket(k) == Bucket(map, <<method, keys[k]>>)
           hit(k)   == {i \in DOMAIN bucket(k) : Matches(bucket(k)[i].regex, path)}
           tried    == {k \in DOMAIN keys : hit(k) # {}}
           obj      == bucket(Min(tried))[Min(hit(Min(tried)))]
<1>1. Search(map, method, path) =
        IF tried = {} THEN NotFound
        ELSE [target |-> obj.target, params |-> PathParameters(obj.regex, path)]
  BY Zenon DEF Search
<1>2. DOMAIN keys = 1..Keys(path) /\ Keys(path) \in Nat
  BY KeysAre
<1>3. ASSUME NEW k \in 1..Keys(path)
      PROVE  BucketOK(bucket(k), <<method, keys[k]>>, kind, routes, Len(routes))
  BY DEF BucketsOK
<1>4. ASSUME NEW k \in tried, NEW j \in hit(k)
      PROVE  /\ \E i \in 1..Len(routes) : Holds(bucket(k), <<method, keys[k]>>, kind, routes, j, i)
             /\ \A i \in 1..Len(routes) : Holds(bucket(k), <<method, keys[k]>>, kind, routes, j, i) =>
                  i \in C /\ PlaceOf(routes, path, i) = k
  <2>1. k \in 1..Keys(path) /\ j \in DOMAIN bucket(k) /\ Matches(bucket(k)[j].regex, path)
    BY <1>2
  <2>2. BucketOK(bucket(k), <<method, keys[k]>>, kind, routes, Len(routes))
    BY <1>3, <2>1
  <2> HIDE DEF C, bucket, hit, tried, obj, keys
  <2>3. \E i \in 1..Len(routes) : Holds(bucket(k), <<method, keys[k]>>, kind, routes, j, i)
    BY <2>1, <2>2, Zenon DEF BucketOK
  <2>4. ASSUME NEW i \in 1..Len(routes),
               Holds(bucket(k), <<method, keys[k]>>, kind, routes, j, i)
        PROVE  i \in C /\ PlaceOf(routes, path, i) = k
    <3>1. /\ k \in 1..Keys(path)
          /\ Holds(bucket(k), <<method, PathPrefixesForLookup(path)[k]>>, kind, routes, j, i)
      BY <2>1, <2>4 DEF keys
    <3>2. i \in Candidates(routes, kind, method, path) /\ PlaceOf(routes, path, i) = k
      BY <2>1, <3>1, <1>0
    <3> QED
      BY <3>2 DEF C
  <2> QED
    BY <2>3, <2>4
<1>5. ASSUME NEW i \in C
      PROVE  PlaceOf(routes, path, i) \in tried
  <2>1. PICK k \in 1..Keys(path) : /\ k = PlaceOf(routes, path, i)
                                   /\ routes[i].kind = kind
                                   /\ BucketKey(routes[i]) = <<method, keys[k]>>
                                   /\ Matches(Obj(routes[i]).regex, path)
    BY CandidateKey
  <2>2. i \in 1..Len(routes)
    BY CandidatesAre
  <2>3. BucketOK(bucket(k), <<method, keys[k]>>, kind, routes, Len(routes))
    BY <1>3
  <2>4. PICK j \in DOMAIN bucket(k) : bucket(k)[j] = Obj(routes[i])
    <3> HIDE DEF bucket
    <3> QED
      BY <2>1, <2>2, <2>3, Zenon DEF BucketOK
  <2>5. j \in hit(k)
    BY <2>1, <2>4
  <2> QED
    BY <1>2, <2>1, <2>5
<1>6. CASE C = {}
  <2>1. tried = {}
    BY <1>4, <1>6
  <2> HIDE DEF tried, obj
  <2> QED
    BY <1>1, <1>6, <2>1
<1>7. CASE C # {}
  <2>1. PICK k \in tried : k = Min(tried) /\ \A l \in tried : k <= l
    <3>1. tried \subseteq Nat
      BY <1>2
    <3>2. tried # {}
      BY <1>5, <1>7
    <3> HIDE DEF tried
    <3> QED
      BY <3>1, <3>2, MinIs
  <2>2. k \in 1..Keys(path)
    BY <1>2
  <2>3. BucketOK(bucket(k), <<method, keys[k]>>, kind, routes, Len(routes))
    BY <1>3, <2>2
  <2>4. DOMAIN bucket(k) \subseteq Nat
    <3>1. bucket(k) \in Seq(Range(bucket(k)))
      BY <2>3 DEF BucketOK
    <3> HIDE DEF bucket
    <3> QED
      BY <3>1
  <2>5. PICK j \in hit(k) : j = Min(hit(k)) /\ \A l \in hit(k) : j <= l
    <3>1. hit(k) \subseteq Nat /\ hit(k) # {}
      BY <2>1, <2>4
    <3> HIDE DEF hit
    <3> QED
      BY <3>1, MinIs
  <2>6. obj = bucket(k)[j]
    BY <2>1, <2>5
  <2> DEFINE Here == {i \in C : PlaceOf(routes, path, i) = k}
  <2>7. PICK c \in Here : \A i \in Here : c <= i
    <3>1. Here \subseteq Nat
      BY CandidatesAre
    <3>2. Here # {}
      BY <1>4, <2>5
    <3> HIDE DEF Here
    <3> QED
      BY <3>1, <3>2, Least
  <2>8. /\ c \in C /\ PlaceOf(routes, path, c) = k /\ c \in 1..Len(routes)
        /\ routes[c].kind = kind /\ BucketKey(routes[c]) = <<method, keys[k]>>
        /\ Matches(Obj(routes[c]).regex, path)
    <3>1. c \in C /\ PlaceOf(routes, path, c) = k
      OBVIOUS
    <3> HIDE DEF keys
    <3> QED
      BY <3>1, CandidateKey, CandidatesAre DEF keys
  <2>9. Chosen(routes, kind, C) = c
    <3>1. \A i \in C : /\ PlaceOf(routes, path, c) <= PlaceOf(routes, path, i)
                       /\ PlaceOf(routes, path, c) = PlaceOf(routes, path, i) => c <= i
      <4> TAKE i \in C
      <4>1. k <= PlaceOf(routes, path, i)
        BY <1>5, <2>1
      <4>2. PlaceOf(routes, path, i) = k => c <= i
        BY <2>7
      <4> QED
        BY <2>8, <4>1, <4>2
    <3> HIDE DEF C
    <3> QED
      BY <2>8, <3>1, ChosenIs DEF C
  <2>10. bucket(k)[j] = Obj(routes[c])
    <3>1. PICK place \in DOMAIN bucket(k) :
            /\ bucket(k)[place] = Obj(routes[c])
            /\ \A b \in 1..(place - 1) : \E a \in 1..(c - 1) :
                 Holds(bucket(k), <<method, keys[k]>>, kind, routes, b, a)
      <4> HIDE DEF bucket, keys
      <4> QED
        BY <2>3, <2>8, Zenon DEF BucketOK
    <3>2. place \in hit(k)
      BY <2>8, <3>1
    <3>3. j <= place /\ j \in Nat /\ place \in Nat /\ j >= 1
      <4>1. j <= place
        BY <2>5, <3>2
      <4>2. bucket(k) \in Seq(Range(bucket(k))) /\ j \in DOMAIN bucket(k)
        BY <2>3 DEF BucketOK
      <4> HIDE DEF bucket, hit
      <4> QED
        BY <4>1, <4>2
    <3>4. ASSUME j # place PROVE FALSE
      <4>1. j \in 1..(place - 1)
        BY <3>3, <3>4
      <4>2. PICK a \in 1..(c - 1) : Holds(bucket(k), <<method, keys[k]>>, kind, routes, j, a)
        BY <3>1, <4>1
      <4>3. a \in 1..Len(routes) /\ ~(c <= a)
        BY <2>8
      <4>4. a \in Here
        BY <1>4, <4>2, <4>3
      <4> QED
        BY <2>7, <4>3, <4>4
    <3> QED
      BY <3>1, <3>4
  <2>11. tried # {} /\ obj = Obj(routes[c])
    BY <2>6, <2>10
  <2>12. obj.target = routes[c].target /\ obj.regex = routes[c].path
    <3>1. /\ Obj(routes[c]).target = routes[c].target
          /\ Obj(routes[c]).regex = routes[c].path
      BY DEF Obj
    <3> HIDE DEF obj
    <3> QED
      BY <2>11, <3>1, Zenon
  <2> HIDE DEF tried, obj, C
  <2>13. Search(map, method, path) = Answer(routes[c], path)
    BY <1>1, <2>11, <2>12, Zenon DEF Answer
  <2> QED
    BY <1>7, <2>9, <2>13 DEF C
<1> QED
  BY <1>6, <1>7

LEMMA ExactLookup ==
  ASSUME NEW S, NEW routes \in Seq(S), NEW kind, ~Dynamic(kind), NEW map,
         ExactOK(map, kind, routes, Len(routes)), NEW method, NEW path
  PROVE  LET C == Candidates(routes, kind, method, path)
         IN /\ <<method, path>> \in DOMAIN map <=> C # {}
            /\ C # {} => map[<<method, path>>] = routes[Chosen(routes, kind, C)].target
<1> DEFINE C   == Candidates(routes, kind, method, path)
           key == <<method, path>>
<1>1. DOMAIN routes = 1..Len(routes) /\ Len(routes) \in Nat
  OBVIOUS
<1>2. \A i : i \in C <=> i \in 1..Len(routes) /\ routes[i].kind = kind /\ ExactKey(routes[i]) = key
  <2>1. \A i : i \in C <=> /\ i \in DOMAIN routes /\ routes[i].kind = kind
                           /\ routes[i].method = method /\ routes[i].path = path
    BY Zenon DEF Candidates, Dynamic
  <2>2. \A i : ExactKey(routes[i]) = key <=> routes[i].method = method /\ routes[i].path = path
    BY DEF ExactKey
  <2> HIDE DEF C, key
  <2> QED
    BY <1>1, <2>1, <2>2
<1>3. Chosen(routes, kind, C) = CHOOSE i \in C : \A j \in C : j <= i
  BY Zenon DEF Chosen, Dynamic
<1> HIDE DEF C, key
<1>4. key \in DOMAIN map <=> C # {}
  BY <1>2 DEF ExactOK
<1>5. ASSUME C # {} PROVE map[key] = routes[Chosen(routes, kind, C)].target
  <2> DEFINE Later == {Len(routes) - i : i \in C}
  <2>1. PICK d \in Later : \A e \in Later : d <= e
    <3>1. Later \subseteq Nat /\ Later # {}
      BY <1>1, <1>2, <1>5
    <3> HIDE DEF Later
    <3> QED
      BY <3>1, Least
  <2>2. PICK c \in C : d = Len(routes) - c
    OBVIOUS
  <2>3. c \in Nat /\ \A i \in C : i \in Nat
    BY <1>2
  <2>4. ASSUME NEW i \in C PROVE i <= c
    <3>1. Len(routes) - i \in Later
      OBVIOUS
    <3>2. Len(routes) - c <= Len(routes) - i
      BY <2>1, <2>2, <3>1
    <3> QED
      BY <1>1, <2>3, <3>2
  <2>5. ASSUME NEW i \in C, \A j \in C : j <= i PROVE i = c
    <3>1. i <= c /\ c <= i
      BY <2>4, <2>5
    <3> QED
      BY <2>3, <3>1
  <2>6. Chosen(routes, kind, C) = c
    <3> HIDE DEF Later
    <3> QED
      BY <1>3, <2>2, <2>4, <2>5
  <2>7. map[key] = routes[c].target
    <3>1. c \in 1..Len(routes) /\ routes[c].kind = kind /\ ExactKey(routes[c]) = key
      BY <1>2
    <3>2. ~\E j \in (c + 1)..Len(routes) :
             routes[j].kind = kind /\ ExactKey(routes[j]) = ExactKey(routes[c])
      <4> SUFFICES ASSUME NEW j \in (c + 1)..Len(routes), routes[j].kind = kind,
                          ExactKey(routes[j]) = ExactKey(routes[c])
                   PROVE  FALSE
        OBVIOUS
      <4>1. j \in 1..Len(routes) /\ ~(j <= c)
        BY <1>1, <3>1
      <4> QED
        BY <1>2, <2>4, <3>1, <4>1
    <3> QED
      BY <3>1, <3>2 DEF ExactOK
  <2> QED
    BY <2>6, <2>7
<1> QED
  BY <1>4, <1>5 DEF C, key

LEMMA AnswerFound ==
  ASSUME NEW route, NEW path
  PROVE  Answer(route, path) # NotFound
<1>1. DOMAIN Answer(route, path) = {"target", "params"}
  BY DEF Answer
<1>2. DOMAIN NotFound = {}
  BY DEF NotFound
<1> QED
  BY <1>1, <1>2

LEMMA RouteIsMeant ==
  ASSUME NEW S, NEW routes \in Seq(S), ArePatterns(routes), NEW maps,
         TableOK(maps, routes, Len(routes)), NEW method, NEW P, NEW path \in Seq(P)
  PROVE  Route(maps, method, path) = Meant(routes, method, path)
<1> DEFINE Of(k) == Candidates(routes, Kinds[k], method, path)
           route(k) == routes[Chosen(routes, Kinds[k], Of(k))]
           key   == <<method, path>>
           found == {k \in DOMAIN Kinds : Of(k) # {}}
           third == Search(maps.regexHandlers, method, path)
           last  == Search(maps.regexCallbacks, method, path)
<1>1. DOMAIN Kinds = 1..4 /\ Kinds[1] = "handlers" /\ Kinds[2] = "callbacks"
      /\ Kinds[3] = "regexHandlers" /\ Kinds[4] = "regexCallbacks"
  BY DEF Kinds
<1>2. /\ key \in DOMAIN maps.handlers <=> Of(1) # {}
      /\ Of(1) # {} => maps.handlers[key] = route(1).target
  <2>1. ~Dynamic("handlers") /\ ExactOK(maps.handlers, "handlers", routes, Len(routes))
    BY DEF TableOK, Dynamic
  <2> QED
    BY <1>1, <2>1, ExactLookup
<1>3. /\ key \in DOMAIN maps.callbacks <=> Of(2) # {}
      /\ Of(2) # {} => maps.callbacks[key] = route(2).target
  <2>1. ~Dynamic("callbacks") /\ ExactOK(maps.callbacks, "callbacks", routes, Len(routes))
    BY DEF TableOK, Dynamic
  <2> QED
    BY <1>1, <2>1, ExactLookup
<1>4. third = IF Of(3) = {} THEN NotFound ELSE Answer(route(3), path)
  <2>1. /\ Dynamic("regexHandlers")
        /\ BucketsOK(maps.regexHandlers, "regexHandlers", routes, Len(routes))
    BY DEF TableOK, Dynamic
  <2> QED
    BY <1>1, <2>1, SearchIs
<1>5. last = IF Of(4) = {} THEN NotFound ELSE Answer(route(4), path)
  <2>1. /\ Dynamic("regexCallbacks")
        /\ BucketsOK(maps.regexCallbacks, "regexCallbacks", routes, Len(routes))
    BY DEF TableOK, Dynamic
  <2> QED
    BY <1>1, <2>1, SearchIs
<1>6. Meant(routes, method, path) =
        IF found = {} THEN NotFound
        ELSE [target |-> route(Min(found)).target,
              params |-> IF Min(found) \in {1, 2} THEN <<>>
                         ELSE PathParameters(route(Min(found)).path, path)]
  BY Zenon DEF Meant
<1>7. Route(maps, method, path) =
        IF key \in DOMAIN maps.handlers THEN [target |-> maps.handlers[key], params |-> <<>>]
        ELSE IF key \in DOMAIN maps.callbacks THEN [target |-> maps.callbacks[key], params |-> <<>>]
        ELSE IF third # NotFound THEN third
        ELSE last
  BY Zenon DEF Route
<1>8. found = {k \in 1..4 : Of(k) # {}}
  BY <1>1
<1> HIDE DEF key, third, last, Of, route
<1>9. ASSUME NEW k \in 1..4, Of(k) # {}, \A l \in 1..(k - 1) : Of(l) = {}
      PROVE  Min(found) = k /\ found # {}
  <2>1. found \subseteq Nat /\ k \in found /\ \A l \in found : k <= l
    BY <1>8, <1>9
  <2> HIDE DEF found
  <2>2. found # {} /\ k \in Nat
    BY <2>1
  <2>3. PICK m \in found : m = Min(found) /\ \A l \in found : m <= l
    BY <2>1, <2>2, MinIs
  <2>4. m \in Nat /\ k <= m /\ m <= k
    BY <2>1, <2>3
  <2>5. m = k
    BY <2>2, <2>4
  <2> QED
    BY <2>2, <2>3, <2>5
<1> HIDE DEF found
<1>10. ASSUME NEW k \in 1..4, Of(k) # {}, \A l \in 1..(k - 1) : Of(l) = {}
       PROVE  Meant(routes, method, path) =
                [target |-> route(k).target,
                 params |-> IF k \in {1, 2} THEN <<>> ELSE PathParameters(route(k).path, path)]
  <2>1. Min(found) = k /\ found # {}
    BY <1>9, <1>10
  <2> QED
    BY <1>6, <2>1, Zenon
<1>11. CASE Of(1) # {}
  <2>1. Meant(routes, method, path) = [target |-> route(1).target, params |-> <<>>]
    BY <1>10, <1>11
  <2> QED
    BY <1>2, <1>7, <1>11, <2>1, Zenon
<1>12. CASE Of(1) = {} /\ Of(2) # {}
  <2>1. \A l \in 1..(2 - 1) : Of(l) = {}
    BY <1>12
  <2>2. Meant(routes, method, path) = [target |-> route(2).target, params |-> <<>>]
    BY <1>10, <1>12, <2>1
  <2> QED
    BY <1>2, <1>3, <1>7, <1>12, <2>2, Zenon
<1>13. CASE Of(1) = {} /\ Of(2) = {} /\ Of(3) # {}
  <2>1. \A l \in 1..(3 - 1) : Of(l) = {}
    BY <1>13
  <2>2. Meant(routes, method, path) = Answer(route(3), path)
    BY <1>10, <1>13, <2>1 DEF Answer
  <2> QED
    BY <1>2, <1>3, <1>4, <1>7, <1>13, <2>2, AnswerFound, Zenon
<1>14. CASE Of(1) = {} /\ Of(2) = {} /\ Of(3) = {} /\ Of(4) # {}
  <2>1. \A l \in 1..(4 - 1) : Of(l) = {}
    BY <1>14
  <2>2. Meant(routes, method, path) = Answer(route(4), path)
    BY <1>10, <1>14, <2>1 DEF Answer
  <2> QED
    BY <1>2, <1>3, <1>4, <1>5, <1>7, <1>14, <2>2, Zenon
<1>15. CASE Of(1) = {} /\ Of(2) = {} /\ Of(3) = {} /\ Of(4) = {}
  <2>1. found = {}
    BY <1>15, <1>8
  <2> QED
    BY <1>2, <1>3, <1>4, <1>5, <1>6, <1>7, <1>15, <2>1, Zenon
<1> QED
  BY <1>11, <1>12, <1>13, <1>14, <1>15

-----------------------------------------------------------------------------
(* The invariant, in one part per component.                               *)

InnerPcs == HandlerPcs \union {"insertUser", "selectId", "upgrade", "pushId", "chat", "copyIds",
                               "decode", "createTask", "poll"}
Pcs      == {"idle", "before", "route", "after", "done"} \union InnerPcs
Codes    == {0, 200, 204, 400, 401, 403, 404, 409, 500}

\* A thread has a request of this program, and a code once it has an answer.
ThreadOK(t) ==
  /\ {"pc", "code", "allow", "overlapped"} \subseteq DOMAIN th[t]
  /\ th[t].pc \in Pcs
  /\ th[t].code \in Codes
  /\ th[t].code # 0 <=> th[t].pc \in {"after", "done"}
  /\ th[t].overlapped \in BOOLEAN
  /\ th[t].pc # "idle" => Listening /\ "req" \in DOMAIN th[t] /\ th[t].req \in Program.requests
  /\ "loops" \in DOMAIN th[t] => th[t].loops \in 0..MaxLoops
  /\ th[t].pc = "poll" => "loops" \in DOMAIN th[t]

ThreadsOK == /\ server \in DOMAIN Servers /\ registered \in 0..Len(Program.routes)
             /\ TableOK(table, Program.routes, registered)
             /\ received \in 0..Program.max
             /\ DOMAIN th = Threads
             /\ \A t \in Threads : ThreadOK(t)

\* While no other request has come in between, requestOrigin_ is that of the
\* request a thread is working on.
OriginOf(t) ==
  ~th[t].overlapped =>
    /\ th[t].pc \notin {"idle", "before", "done"} => requestOrigin = th[t].req.origin
    /\ At(t, "done") /\ th[t].code # 500 => th[t].allow = ResolveAllowOrigin(th[t].req.origin)

Origins == \A t \in Threads : OriginOf(t)

\* What a thread has found is what the routes mean for its request.
RouteOf(t) ==
  "route" \in DOMAIN th[t] =>
    /\ "req" \in DOMAIN th[t]
    /\ th[t].route = Meant(Program.routes, th[t].req.method, th[t].req.path)

Routes == \A t \in Threads : RouteOf(t)

\* The image a thread has decoded is that of its request, and an upload is one.
ImageOf(t) ==
  /\ "image" \in DOMAIN th[t] => "req" \in DOMAIN th[t] /\ th[t].image = th[t].req.bytes
  /\ th[t].pc \in {"upload", "decode"} => IsUpload(th[t].req)

Images == \A t \in Threads : ImageOf(t)

Others == /\ restarts \in 0..MaxRestarts /\ dbErrors \in 0..MaxDbErrors
          /\ recognizers \subseteq ChatUsers /\ generated \in 0..Len(GeneratedIds)

-----------------------------------------------------------------------------
IsSeq(s) == s \in Seq(Range(s))

\* An account is as its owner left it.
AccountOK(account) ==
  /\ DOMAIN account = {"name", "owner", "stored"}
  /\ account.owner \in Passwords
  /\ \/ account.stored = Plaintext(account.owner)
     \/ account.stored = Legacy(account.stored.salt, account.owner)
     \/ account.stored = HashPassword(account.owner)

Owned(t, i) == /\ i \in DOMAIN users
               /\ users[i].name = th[t].req.name /\ users[i].owner = th[t].req.password

AccountPcs == {"login", "register", "insertUser", "selectId", "upgrade"}

\* What a thread knows of the account it works on.
Knows(t) ==
  /\ th[t].pc \in AccountPcs => th[t].req.password \in Passwords
  /\ At(t, "upgrade") => "id" \in DOMAIN th[t] /\ Owned(t, th[t].id)
  /\ At(t, "selectId") => \E i \in DOMAIN users : Owned(t, i)
  /\ "id" \in DOMAIN th[t] => th[t].pc # "idle" /\ (UniqueNames => Owned(t, th[t].id))

AccountsOK ==
  /\ IsSeq(users) /\ \A i \in DOMAIN users : AccountOK(users[i])
  /\ UniqueNames => \A i, j \in DOMAIN users : users[i].name = users[j].name => i = j
  /\ \A t \in Threads : Knows(t)

-----------------------------------------------------------------------------
\* A thread that has found its chat has its helper, until the process ends.
Helped(t) == /\ UserOf(t) \in ChatUsers
             /\ {"sid", "helper"} \subseteq DOMAIN th[t]
             /\ th[t].sid \in DOMAIN chats[UserOf(t)]
             /\ chats[UserOf(t)][th[t].sid] = th[t].helper

Helpers == /\ DOMAIN chats = ChatUsers
           /\ \A t \in Threads : th[t].pc \in {"chat", "pushId"} => Helped(t)

\* A listing that found no node while a chat was created may hide chats.
Hidden(u) == Len(nodes[u]) > 1 /\ \E i \in DOMAIN nodes[u] : nodes[u][i].by = "sessions"

NodeOK(node) == DOMAIN node = {"ids", "by"} /\ IsSeq(node.ids)

\* One thread at most is between the two steps under each of the mutexes.
Mutexes == \A p \in {"pushId", "copyIds"} : \A s, t \in Threads : At(s, p) /\ At(t, p) => s = t

\* What the thread that creates a chat has found.
Found(t) == LET u == UserOf(t) IN
  /\ "node" \in DOMAIN th[t] /\ th[t].node \in 0..Len(nodes[u])
  /\ th[t].node = 0 /\ nodes[u] # <<>> => \E i \in DOMAIN nodes[u] : nodes[u][i].by = "sessions"
  /\ th[t].node # 0 => th[t].node = Len(nodes[u]) \/ Hidden(u)
  /\ \A i \in DOMAIN nodes[u] : th[t].sid \notin Range(nodes[u][i].ids)

Listing(t) == /\ UserOf(t) \in ChatUsers
              /\ "node" \in DOMAIN th[t] /\ th[t].node \in 0..Len(nodes[UserOf(t)])

\* A user's nodes list chats that are in memory, each node a chat once.
ListOK(u) == /\ IsSeq(nodes[u])
             /\ \A i \in DOMAIN nodes[u] :
                  /\ NodeOK(nodes[u][i])
                  /\ Range(nodes[u][i].ids) \subseteq DOMAIN chats[u]
                  /\ IsInjective(nodes[u][i].ids)

Listed(c) == c[1] \in ChatUsers /\ (Contains(Newest(c[1]), c[2]) \/ Hidden(c[1]))

Lists ==
  /\ DOMAIN nodes = ChatUsers /\ \A u \in ChatUsers : ListOK(u)
  /\ Mutexes
  /\ \A t \in Threads : (At(t, "pushId") => Found(t)) /\ (At(t, "copyIds") => Listing(t))
  /\ \A c \in created : Listed(c)

RowOK(row) == row = <<row[1], row[2]>> /\ row[1] \in ChatUsers

\* Memory has the chat of every row, if it could read them.
Stored == /\ IsSeq(rows) /\ \A i \in DOMAIN rows : RowOK(rows[i])
          /\ loaded => \A i \in DOMAIN rows : rows[i][2] \in DOMAIN chats[rows[i][1]]

-----------------------------------------------------------------------------
(* The step of a thread that is in a handler: the others see nothing of    *)
(* it, it keeps its request, and it answers, or throws, or goes on.        *)

\* What a step of another thread may do to t.
Undisturbed(t) == /\ DOMAIN th'[t] = DOMAIN th[t]
                  /\ \A f \in DOMAIN th[t] \ {"overlapped"} : th'[t][f] = th[t][f]

Alone(t) == DOMAIN th' = Threads /\ \A u \in Threads \ {t} : th'[u] = th[u]

\* A step that has nothing to do with those fields.
Leaves(t, fields) == \A f \in fields : f \in DOMAIN th'[t] =>
                                         f \in DOMAIN th[t] /\ th'[t][f] = th[t][f]

Handles(t) ==
  /\ th[t].pc \in InnerPcs
  /\ Alone(t)
  /\ DOMAIN th[t] \subseteq DOMAIN th'[t] /\ Leaves(t, {"route"})
  /\ \A f \in {"req", "allow", "overlapped"} : th'[t][f] = th[t][f]
  /\ \/ th'[t].pc = "after" /\ th'[t].code \in Codes \ {0}
     \/ th'[t].pc = "done" /\ th'[t].code = 500
     \/ th'[t].pc \in InnerPcs /\ th'[t].code = th[t].code
  /\ UNCHANGED dispatchVars

LEMMA WithIs ==
  ASSUME NEW map, NEW changes
  PROVE  /\ DOMAIN With(map, changes) = DOMAIN map \union DOMAIN changes
         /\ \A k \in DOMAIN changes : With(map, changes)[k] = changes[k]
         /\ \A k \in DOMAIN map : k \notin DOMAIN changes => With(map, changes)[k] = map[k]
BY DEF With

LEMMA UpdateIs ==
  ASSUME ThreadsOK, NEW t \in Threads, NEW changes, Update(t, changes)
  PROVE  /\ Alone(t)
         /\ DOMAIN th'[t] = DOMAIN th[t] \union DOMAIN changes
         /\ \A f \in DOMAIN changes : th'[t][f] = changes[f]
         /\ \A f \in DOMAIN th[t] : f \notin DOMAIN changes => th'[t][f] = th[t][f]
<1>1. th'[t] = With(th[t], changes) /\ Alone(t)
  BY DEF Update, ThreadsOK, Alone
<1>2. /\ DOMAIN With(th[t], changes) = DOMAIN th[t] \union DOMAIN changes
      /\ \A f \in DOMAIN changes : With(th[t], changes)[f] = changes[f]
      /\ \A f \in DOMAIN th[t] : f \notin DOMAIN changes => With(th[t], changes)[f] = th[t][f]
  BY WithIs
<1> QED
  BY <1>1, <1>2

LEMMA RespondIs ==
  ASSUME ThreadsOK, NEW t \in Threads, NEW code \in Codes \ {0}, Respond(t, code),
         th[t].pc \in InnerPcs, UNCHANGED dispatchVars
  PROVE  /\ Handles(t) /\ th'[t].pc = "after" /\ Leaves(t, DOMAIN th'[t] \ {"pc", "code"})
<1>1. ThreadOK(t) /\ th[t].pc # "idle"
  BY DEF ThreadsOK, InnerPcs, HandlerPcs
<1>2. /\ Alone(t)
      /\ DOMAIN th'[t] = DOMAIN th[t] \union {"pc", "code"}
      /\ th'[t].pc = "after" /\ th'[t].code = code
      /\ \A f \in DOMAIN th[t] : f \notin {"pc", "code"} => th'[t][f] = th[t][f]
  BY UpdateIs DEF Respond
<1>3. \A f \in {"req", "allow", "overlapped"} : th'[t][f] = th[t][f]
  BY <1>1, <1>2 DEF ThreadOK
<1> QED
  BY <1>2, <1>3 DEF Handles, Leaves

LEMMA ThrowIs ==
  ASSUME ThreadsOK, NEW t \in Threads, Throw(t), th[t].pc \in InnerPcs, UNCHANGED dispatchVars
  PROVE  /\ Handles(t) /\ th'[t].pc = "done" /\ Leaves(t, DOMAIN th'[t] \ {"pc", "code"})
<1>1. ThreadOK(t) /\ th[t].pc # "idle"
  BY DEF ThreadsOK, InnerPcs, HandlerPcs
<1>2. /\ Alone(t)
      /\ DOMAIN th'[t] = DOMAIN th[t] \union {"pc", "code"}
      /\ th'[t].pc = "done" /\ th'[t].code = 500
      /\ \A f \in DOMAIN th[t] : f \notin {"pc", "code"} => th'[t][f] = th[t][f]
  BY UpdateIs DEF Throw
<1>3. \A f \in {"req", "allow", "overlapped"} : th'[t][f] = th[t][f]
  BY <1>1, <1>2 DEF ThreadOK
<1> QED
  BY <1>2, <1>3 DEF Handles, Leaves

LEMMA GotoIs ==
  ASSUME ThreadsOK, NEW t \in Threads, NEW p \in InnerPcs, Goto(t, p),
         th[t].pc \in InnerPcs, UNCHANGED dispatchVars
  PROVE  /\ Handles(t) /\ th'[t].pc = p /\ Leaves(t, DOMAIN th'[t] \ {"pc"})
<1>1. ThreadOK(t) /\ th[t].pc # "idle"
  BY DEF ThreadsOK, InnerPcs, HandlerPcs
<1>2. /\ Alone(t)
      /\ DOMAIN th'[t] = DOMAIN th[t] \union {"pc"}
      /\ th'[t].pc = p
      /\ \A f \in DOMAIN th[t] : f \notin {"pc"} => th'[t][f] = th[t][f]
  BY UpdateIs DEF Goto
<1>3. \A f \in {"req", "allow", "overlapped", "code"} : th'[t][f] = th[t][f]
  BY <1>1, <1>2 DEF ThreadOK
<1> QED
  BY <1>2, <1>3 DEF Handles, Leaves

LEMMA UpdateHandles ==
  ASSUME ThreadsOK, NEW t \in Threads, NEW changes, Update(t, changes),
         th[t].pc \in InnerPcs, UNCHANGED dispatchVars,
         {"req", "allow", "overlapped", "route"} \intersect DOMAIN changes = {},
         "pc" \in DOMAIN changes => changes.pc \in InnerPcs \/ changes.pc = "after",
         "code" \in DOMAIN changes => changes.code \in Codes \ {0},
         "code" \in DOMAIN changes <=> "pc" \in DOMAIN changes /\ changes.pc = "after"
  PROVE  Handles(t)
<1>1. ThreadOK(t) /\ th[t].pc # "idle"
  BY DEF ThreadsOK, InnerPcs, HandlerPcs
<1>2. /\ Alone(t)
      /\ DOMAIN th'[t] = DOMAIN th[t] \union DOMAIN changes
      /\ \A f \in DOMAIN changes : th'[t][f] = changes[f]
      /\ \A f \in DOMAIN th[t] : f \notin DOMAIN changes => th'[t][f] = th[t][f]
  BY UpdateIs
<1>3. \A f \in {"req", "allow", "overlapped"} : th'[t][f] = th[t][f]
  BY <1>1, <1>2 DEF ThreadOK
<1>4. \/ th'[t].pc = "after" /\ th'[t].code \in Codes \ {0}
      \/ th'[t].pc \in InnerPcs /\ th'[t].code = th[t].code
  <2>1. CASE "pc" \in DOMAIN changes
    BY <1>1, <1>2, <2>1 DEF ThreadOK
  <2>2. CASE "pc" \notin DOMAIN changes
    BY <1>1, <1>2, <2>2 DEF ThreadOK
  <2> QED
    BY <2>1, <2>2
<1>5. Leaves(t, {"route"})
  BY <1>2 DEF Leaves
<1> QED
  BY <1>2, <1>3, <1>4, <1>5 DEF Handles

-----------------------------------------------------------------------------
(* The handlers.  Each component keeps to its own places and fields.       *)

DirectoryPcs == ChatPcs \union {"pushId", "chat", "copyIds"}
MediaPcs     == {"upload", "speech", "decode", "createTask", "poll"}

StaysIn(t, pcs) == th[t].pc \in pcs /\ th'[t].pc \in pcs \union {"after", "done"}

LEMMA AccountHandles ==
  ASSUME ThreadsOK, NEW t \in Threads, AccountStep(t)
  PROVE  /\ Handles(t) /\ StaysIn(t, AccountPcs)
         /\ Leaves(t, {"loops", "sid", "helper", "node", "image"})
<1> UNCHANGED dispatchVars
  BY DEF AccountStep
<1> DEFINE Goal == /\ Handles(t) /\ StaysIn(t, AccountPcs)
                   /\ Leaves(t, {"loops", "sid", "helper", "node", "image"})
<1>1. CASE StatementThrows(t)
  <2>1. CASE th[t].pc \in {"register", "insertUser", "selectId"} /\ Throw(t)
    BY <2>1, ThrowIs DEF InnerPcs, HandlerPcs, StaysIn, AccountPcs, Leaves
  <2>2. CASE th[t].pc \in {"login", "upgrade"} /\ Respond(t, 400)
    <3>1. 400 \in Codes \ {0}
      BY DEF Codes
    <3> QED
      BY <2>2, <3>1, RespondIs DEF InnerPcs, HandlerPcs, StaysIn, AccountPcs, Leaves
  <2> QED
    BY <1>1, <2>1, <2>2 DEF StatementThrows
<1>2. CASE CheckUser(t)
  <2>1. th[t].pc = "register" /\ 409 \in Codes \ {0}
    BY <1>2 DEF CheckUser, At, Codes
  <2>2. CASE Respond(t, 409)
    BY <2>1, <2>2, RespondIs DEF InnerPcs, HandlerPcs, StaysIn, AccountPcs, Leaves
  <2>3. CASE Goto(t, "insertUser")
    BY <2>1, <2>3, GotoIs DEF InnerPcs, HandlerPcs, StaysIn, AccountPcs, Leaves
  <2> QED
    BY <1>2, <2>2, <2>3 DEF CheckUser
<1>3. CASE InsertUser(t)
  <2>1. th[t].pc = "insertUser"
    BY <1>3 DEF InsertUser, At
  <2>2. CASE Throw(t)
    BY <2>1, <2>2, ThrowIs DEF InnerPcs, HandlerPcs, StaysIn, AccountPcs, Leaves
  <2>3. CASE Goto(t, "selectId")
    BY <2>1, <2>3, GotoIs DEF InnerPcs, HandlerPcs, StaysIn, AccountPcs, Leaves
  <2> QED
    BY <1>3, <2>2, <2>3 DEF InsertUser
<1>4. ASSUME th[t].pc \in AccountPcs,
             NEW p \in AccountPcs \union {"after"}, NEW i,
             \/ p = "after" /\ Update(t, [pc |-> p, code |-> 200, id |-> i])
             \/ p # "after" /\ Update(t, [pc |-> p, id |-> i])
      PROVE  Goal
  <2>1. th[t].pc \in InnerPcs /\ 200 \in Codes \ {0} /\ p \in InnerPcs \union {"after"}
    BY <1>4 DEF AccountPcs, InnerPcs, HandlerPcs, Codes
  <2>2. CASE p = "after" /\ Update(t, [pc |-> p, code |-> 200, id |-> i])
    <3>1. Handles(t)
      BY <2>1, <2>2, UpdateHandles
    <3>2. th'[t].pc = p /\ Leaves(t, {"loops", "sid", "helper", "node", "image"})
      BY <2>2, UpdateIs DEF Leaves
    <3> QED
      BY <1>4, <3>1, <3>2 DEF StaysIn
  <2>3. CASE p # "after" /\ Update(t, [pc |-> p, id |-> i])
    <3>1. Handles(t)
      BY <2>1, <2>3, UpdateHandles
    <3>2. th'[t].pc = p /\ Leaves(t, {"loops", "sid", "helper", "node", "image"})
      BY <2>3, UpdateIs DEF Leaves
    <3> QED
      BY <1>4, <3>1, <3>2 DEF StaysIn
  <2> QED
    BY <1>4, <2>2, <2>3
<1>5. CASE SelectId(t)
  <2>1. PICK i : Update(t, [pc |-> "after", code |-> 200, id |-> i])
    BY <1>5 DEF SelectId
  <2>2. th[t].pc \in AccountPcs
    BY <1>5 DEF SelectId, At, AccountPcs
  <2> QED
    BY <1>4, <2>1, <2>2
<1>6. CASE VerifyUser(t)
  <2>1. th[t].pc = "login" /\ 401 \in Codes \ {0} /\ "upgrade" \in AccountPcs
    BY <1>6 DEF VerifyUser, At, Codes, AccountPcs
  <2>2. CASE Respond(t, 401)
    BY <2>1, <2>2, RespondIs DEF InnerPcs, HandlerPcs, StaysIn, AccountPcs, Leaves
  <2>3. CASE \E i : Update(t, [pc |-> "after", code |-> 200, id |-> i])
    BY <1>4, <2>1, <2>3 DEF AccountPcs
  <2>4. CASE \E i : Update(t, [pc |-> "upgrade", id |-> i])
    BY <1>4, <2>1, <2>4 DEF AccountPcs
  <2> QED
    BY <1>6, <2>2, <2>3, <2>4 DEF VerifyUser
<1>7. CASE Upgrade(t)
  <2>1. th[t].pc = "upgrade" /\ 200 \in Codes \ {0} /\ Respond(t, 200)
    BY <1>7 DEF Upgrade, At, Codes
  <2> QED
    BY <2>1, RespondIs DEF InnerPcs, HandlerPcs, StaysIn, AccountPcs, Leaves
<1> QED
  BY <1>1, <1>2, <1>3, <1>5, <1>6, <1>7 DEF AccountStep

LEMMA DirectoryHandles ==
  ASSUME ThreadsOK, NEW t \in Threads, DirectoryStep(t)
  PROVE  Handles(t) /\ StaysIn(t, DirectoryPcs) /\ Leaves(t, {"loops", "id", "image"})
<1> UNCHANGED dispatchVars
  BY DEF DirectoryStep
<1> DEFINE Goal == Handles(t) /\ StaysIn(t, DirectoryPcs) /\ Leaves(t, {"loops", "id", "image"})
<1>0. 200 \in Codes \ {0} /\ 400 \in Codes \ {0} /\ 401 \in Codes \ {0}
  BY DEF Codes
<1>1. ASSUME NEW code \in Codes \ {0}, Respond(t, code), th[t].pc \in DirectoryPcs
      PROVE  Goal
  <2>1. th[t].pc \in InnerPcs
    BY <1>1 DEF DirectoryPcs, ChatPcs, InnerPcs, HandlerPcs
  <2> QED
    BY <1>1, <2>1, RespondIs DEF StaysIn, Leaves
<1>2. CASE ChatUnauthorized(t)
  BY <1>0, <1>1, <1>2 DEF ChatUnauthorized, DirectoryPcs
<1>3. CASE Send(t)
  <2>1. PICK sid, helper : Update(t, [pc |-> "chat", sid |-> sid, helper |-> helper])
    BY <1>3 DEF Send
  <2>2. th[t].pc = "send" /\ {"send", "chat"} \subseteq InnerPcs \intersect DirectoryPcs
    BY <1>3 DEF Send, Authorized, At, InnerPcs, HandlerPcs, DirectoryPcs, ChatPcs
  <2>3. Handles(t)
    BY <2>1, <2>2, UpdateHandles
  <2>4. th'[t].pc = "chat" /\ Leaves(t, {"loops", "id", "image"})
    BY <2>1, UpdateIs DEF Leaves
  <2> QED
    BY <2>2, <2>3, <2>4 DEF StaysIn
<1>4. CASE Create(t)
  <2>0. PICK p \in {"chat", "pushId"} : \E sid, helper, node :
          Update(t, [pc |-> p, sid |-> sid, helper |-> helper, node |-> node])
    BY <1>4 DEF Create
  <2>1. PICK sid, helper, node :
          Update(t, [pc |-> p, sid |-> sid, helper |-> helper, node |-> node])
    BY <2>0
  <2>2. th[t].pc = "create" /\ {"create", p} \subseteq InnerPcs \intersect DirectoryPcs
    BY <1>4 DEF Create, Authorized, At, InnerPcs, HandlerPcs, DirectoryPcs, ChatPcs
  <2>3. Handles(t)
    BY <2>1, <2>2, UpdateHandles
  <2>4. th'[t].pc = p /\ Leaves(t, {"loops", "id", "image"})
    BY <2>1, UpdateIs DEF Leaves
  <2> QED
    BY <2>2, <2>3, <2>4 DEF StaysIn
<1>5. CASE PushId(t)
  <2>1. th[t].pc = "pushId" /\ Goto(t, "chat")
        /\ {"pushId", "chat"} \subseteq InnerPcs \intersect DirectoryPcs
    BY <1>5 DEF PushId, At, InnerPcs, DirectoryPcs
  <2> QED
    BY <2>1, GotoIs DEF StaysIn, Leaves
<1>6. CASE Chat(t)
  <2>1. th[t].pc \in DirectoryPcs
    BY <1>6 DEF Chat, At, DirectoryPcs
  <2> QED
    BY <1>0, <1>1, <1>6, <2>1 DEF Chat
<1>7. CASE History(t)
  <2>1. th[t].pc \in DirectoryPcs
    BY <1>7 DEF History, Authorized, At, DirectoryPcs, ChatPcs
  <2> QED
    BY <1>0, <1>1, <1>7, <2>1 DEF History
<1>8. CASE FindIds(t)
  <2>1. PICK node : Update(t, [pc |-> "copyIds", node |-> node])
    BY <1>8 DEF FindIds
  <2>2. th[t].pc = "sessions" /\ {"sessions", "copyIds"} \subseteq InnerPcs \intersect DirectoryPcs
    BY <1>8 DEF FindIds, Authorized, At, InnerPcs, HandlerPcs, DirectoryPcs, ChatPcs
  <2>3. Handles(t)
    BY <2>1, <2>2, UpdateHandles
  <2>4. th'[t].pc = "copyIds" /\ Leaves(t, {"loops", "id", "image"})
    BY <2>1, UpdateIs DEF Leaves
  <2> QED
    BY <2>2, <2>3, <2>4 DEF StaysIn
<1>9. CASE CopyIds(t)
  <2>1. PICK list : Update(t, [pc |-> "after", code |-> 200, list |-> list])
    BY <1>9 DEF CopyIds
  <2>2. th[t].pc = "copyIds" /\ "copyIds" \in InnerPcs \intersect DirectoryPcs
    BY <1>9 DEF CopyIds, At, InnerPcs, DirectoryPcs
  <2>3. Handles(t)
    BY <1>0, <2>1, <2>2, UpdateHandles
  <2>4. th'[t].pc = "after" /\ Leaves(t, {"loops", "id", "image"})
    BY <2>1, UpdateIs DEF Leaves
  <2> QED
    BY <2>2, <2>3, <2>4 DEF StaysIn
<1> QED
  BY <1>2, <1>3, <1>4, <1>5, <1>6, <1>7, <1>8, <1>9 DEF DirectoryStep

\* The loop counter of a thread, within its bounds.
Counts(t) == /\ "loops" \in DOMAIN th[t] => th[t].loops \in 0..MaxLoops
             /\ th[t].pc = "poll" => "loops" \in DOMAIN th[t]

LEMMA MediaHandles ==
  ASSUME ThreadsOK, NEW t \in Threads, MediaStep(t)
  PROVE  /\ Handles(t) /\ StaysIn(t, MediaPcs)
         /\ Leaves(t, {"id", "sid", "helper", "node"}) /\ Counts(t)'
<1> UNCHANGED dispatchVars
  BY DEF MediaStep
<1> DEFINE Goal == /\ Handles(t) /\ StaysIn(t, MediaPcs)
                   /\ Leaves(t, {"id", "sid", "helper", "node"}) /\ Counts(t)'
<1>0. /\ 200 \in Codes \ {0} /\ 400 \in Codes \ {0} /\ 401 \in Codes \ {0}
      /\ ThreadOK(t) /\ MediaPcs \subseteq InnerPcs /\ MaxLoops \in Nat
  <2>1. MaxLoops \in Nat
    BY ProgramsAssumption
  <2> QED
    BY <2>1 DEF Codes, ThreadsOK, MediaPcs, InnerPcs, HandlerPcs
<1>1. ASSUME NEW code \in Codes \ {0}, Respond(t, code), th[t].pc \in MediaPcs
      PROVE  Goal
  <2>1. th[t].pc \in InnerPcs
    BY <1>0, <1>1
  <2> QED
    BY <1>0, <1>1, <2>1, RespondIs DEF StaysIn, Leaves, Counts, ThreadOK
<1>2. CASE MediaUnauthorized(t)
  BY <1>0, <1>1, <1>2 DEF MediaUnauthorized, MediaPcs
<1>3. CASE OpenRecognizer(t)
  <2>1. th[t].pc = "upload" /\ {"upload", "decode"} \subseteq MediaPcs
    BY <1>3 DEF OpenRecognizer, At, MediaPcs
  <2>2. CASE Respond(t, 400)
    BY <1>0, <1>1, <2>1, <2>2
  <2>3. CASE Update(t, [pc |-> "decode"])
    <3>1. Handles(t)
      BY <1>0, <2>1, <2>3, UpdateHandles
    <3>2. th'[t].pc = "decode" /\ Leaves(t, {"id", "sid", "helper", "node", "loops"})
      BY <2>3, UpdateIs DEF Leaves
    <3> QED
      BY <1>0, <2>1, <3>1, <3>2 DEF StaysIn, Leaves, Counts, ThreadOK
  <2> QED
    BY <1>3, <2>2, <2>3 DEF OpenRecognizer
<1>4. CASE DecodeImage(t)
  <2>1. th[t].pc = "decode" /\ "decode" \in MediaPcs
    BY <1>4 DEF DecodeImage, At, MediaPcs
  <2>2. CASE Respond(t, 400)
    BY <1>0, <1>1, <2>1, <2>2
  <2>3. CASE \E code \in {200, 400} :
               Update(t, [pc |-> "after", code |-> code, image |-> Decode(th[t].req.image)])
    <3>1. PICK code \in {200, 400} :
            Update(t, [pc |-> "after", code |-> code, image |-> Decode(th[t].req.image)])
      BY <2>3
    <3>2. Handles(t)
      BY <1>0, <2>1, <3>1, UpdateHandles
    <3>3. th'[t].pc = "after" /\ Leaves(t, {"id", "sid", "helper", "node", "loops"})
      BY <3>1, UpdateIs DEF Leaves
    <3> QED
      BY <1>0, <2>1, <3>2, <3>3 DEF StaysIn, Leaves, Counts, ThreadOK
  <2> QED
    BY <1>4, <2>2, <2>3 DEF DecodeImage
<1>5. CASE GetAccessToken(t)
  <2>1. th[t].pc = "speech" /\ {"speech", "createTask"} \subseteq MediaPcs
    BY <1>5 DEF GetAccessToken, At, MediaPcs
  <2>2. CASE Respond(t, 400)
    BY <1>0, <1>1, <2>1, <2>2
  <2>3. CASE Goto(t, "createTask")
    <3>1. /\ Handles(t) /\ th'[t].pc = "createTask"
          /\ Leaves(t, DOMAIN th'[t] \ {"pc"})
      BY <1>0, <2>1, <2>3, GotoIs
    <3> QED
      BY <1>0, <2>1, <3>1 DEF StaysIn, Leaves, Counts, ThreadOK
  <2> QED
    BY <1>5, <2>2, <2>3 DEF GetAccessToken
<1>6. ASSUME NEW url, Update(t, [pc |-> "after", code |-> 200, url |-> url]),
             th[t].pc \in MediaPcs
      PROVE  Goal
  <2>1. Handles(t)
    BY <1>0, <1>6, UpdateHandles
  <2>2. th'[t].pc = "after" /\ Leaves(t, {"id", "sid", "helper", "node", "loops"})
    BY <1>6, UpdateIs DEF Leaves
  <2> QED
    BY <1>0, <1>6, <2>1, <2>2 DEF StaysIn, Leaves, Counts, ThreadOK
<1>7. CASE CreateTask(t)
  <2>1. th[t].pc = "createTask" /\ {"createTask", "poll"} \subseteq MediaPcs
    BY <1>7 DEF CreateTask, At, MediaPcs
  <2>2. CASE Update(t, [pc |-> "after", code |-> 200, url |-> ""])
    BY <1>6, <2>1, <2>2
  <2>3. CASE Update(t, [pc |-> "poll", loops |-> 0])
    <3>1. Handles(t)
      BY <1>0, <2>1, <2>3, UpdateHandles
    <3>2. th'[t].pc = "poll" /\ Leaves(t, {"id", "sid", "helper", "node"})
          /\ "loops" \in DOMAIN th'[t] /\ th'[t].loops = 0
      BY <2>3, UpdateIs DEF Leaves
    <3> QED
      BY <1>0, <2>1, <3>1, <3>2 DEF StaysIn, Counts
  <2> QED
    BY <1>7, <2>2, <2>3 DEF CreateTask
<1>8. CASE Query(t)
  <2>1. /\ th[t].pc = "poll" /\ "poll" \in MediaPcs
        /\ th[t].loops \in 0..MaxLoops /\ th[t].loops < MaxLoops
    BY <1>0, <1>8 DEF Query, At, MediaPcs, ThreadOK
  <2>2. CASE \E url : Update(t, [pc |-> "after", code |-> 200, url |-> url])
    BY <1>6, <2>1, <2>2
  <2>3. CASE Update(t, [loops |-> th[t].loops + 1])
    <3>1. Handles(t)
      BY <1>0, <2>1, <2>3, UpdateHandles
    <3>2. /\ "loops" \in DOMAIN th'[t] /\ th'[t].loops = th[t].loops + 1
          /\ th'[t].pc = "poll" /\ Leaves(t, {"id", "sid", "helper", "node"})
      BY <1>0, <2>1, <2>3, UpdateIs DEF Leaves, ThreadOK
    <3>3. th[t].loops + 1 \in 0..MaxLoops
      BY <1>0, <2>1
    <3> QED
      BY <1>0, <2>1, <3>1, <3>2, <3>3 DEF StaysIn, Counts
  <2> QED
    BY <1>8, <2>2, <2>3 DEF Query
<1>9. CASE GiveUp(t)
  <2>1. th[t].pc \in MediaPcs
    BY <1>9 DEF GiveUp, At, MediaPcs
  <2> QED
    BY <1>6, <1>9, <2>1 DEF GiveUp
<1> QED
  BY <1>2, <1>3, <1>4, <1>5, <1>7, <1>8, <1>9 DEF MediaStep

-----------------------------------------------------------------------------
(* The dispatcher.                                                         *)

Inside == {"sid", "helper", "node", "id", "image"}    \* the fields of the handlers

\* Between two handlers a thread has nothing of theirs, or only what is left of
\* the last one.
Dispatches(t) ==
  /\ DOMAIN th' = Threads /\ \A u \in Threads \ {t} : Undisturbed(u)
  /\ th[t].pc \notin AccountPcs \union DirectoryPcs \union MediaPcs
  /\ th'[t].pc \in {"before", "route", "after", "done"} \union HandlerPcs
  /\ th'[t].pc \in {"login", "register"} => th'[t].req.password \in Passwords
  /\ th'[t].pc = "upload" => IsUpload(th'[t].req)
  /\ \/ Inside \intersect DOMAIN th'[t] = {}
     \/ Leaves(t, Inside) /\ th'[t].req = th[t].req
  /\ UNCHANGED program

LEMMA OtherPcs ==
  /\ {"idle", "before", "route", "after", "done", "page"}
       \intersect (AccountPcs \union DirectoryPcs \union MediaPcs) = {}
  /\ {"idle", "before", "route", "after", "done"} \intersect (InnerPcs \union HandlerPcs) = {}
BY DEF AccountPcs, DirectoryPcs, ChatPcs, MediaPcs, InnerPcs, HandlerPcs

LEMMA StartIs ==
  ASSUME NEW r
  PROVE  /\ DOMAIN With(Idle, [pc |-> "before", req |-> r])
              = {"pc", "code", "allow", "overlapped", "req"}
         /\ With(Idle, [pc |-> "before", req |-> r])["pc"] = "before"
         /\ With(Idle, [pc |-> "before", req |-> r])["req"] = r
         /\ With(Idle, [pc |-> "before", req |-> r])["code"] = 0
         /\ With(Idle, [pc |-> "before", req |-> r])["overlapped"] = FALSE
<1>1. DOMAIN With(Idle, [pc |-> "before", req |-> r])
        = {"pc", "code", "allow", "overlapped", "req"}
  BY DEF With, Idle
<1>2. With(Idle, [pc |-> "before", req |-> r])["pc"] = "before"
  BY DEF With, Idle
<1>3. With(Idle, [pc |-> "before", req |-> r])["req"] = r
  BY DEF With, Idle
<1>4. With(Idle, [pc |-> "before", req |-> r])["code"] = 0
  BY DEF With, Idle
<1>5. With(Idle, [pc |-> "before", req |-> r])["overlapped"] = FALSE
  BY DEF With, Idle
<1> QED
  BY <1>1, <1>2, <1>3, <1>4, <1>5

LEMMA ReceiveIs ==
  ASSUME ThreadsOK, NEW t \in Threads, Receive(t)
  PROVE  /\ Alone(t) /\ Dispatches(t)
         /\ DOMAIN th'[t] = {"pc", "code", "allow", "overlapped", "req"}
         /\ th'[t].pc = "before" /\ th'[t].req \in Program.requests
         /\ th'[t].code = 0 /\ th'[t].overlapped = FALSE
         /\ received' = received + 1 /\ received < Program.max
         /\ UNCHANGED <<program, requestOrigin>>
<1>1. PICK r \in Program.requests :
        th' = [th EXCEPT ![t] = With(Idle, [pc |-> "before", req |-> r])]
  BY DEF Receive
<1>2. /\ DOMAIN With(Idle, [pc |-> "before", req |-> r])
           = {"pc", "code", "allow", "overlapped", "req"}
      /\ With(Idle, [pc |-> "before", req |-> r])["pc"] = "before"
      /\ With(Idle, [pc |-> "before", req |-> r])["req"] = r
      /\ With(Idle, [pc |-> "before", req |-> r])["code"] = 0
      /\ With(Idle, [pc |-> "before", req |-> r])["overlapped"] = FALSE
  BY StartIs
<1>3. Alone(t) /\ th'[t] = With(Idle, [pc |-> "before", req |-> r])
  BY <1>1 DEF Alone, ThreadsOK
<1>4. /\ DOMAIN th'[t] = {"pc", "code", "allow", "overlapped", "req"}
      /\ th'[t].pc = "before" /\ th'[t].req \in Program.requests
      /\ th'[t].code = 0 /\ th'[t].overlapped = FALSE
  BY <1>2, <1>3
<1>5. \A u \in Threads \ {t} : Undisturbed(u)
  BY <1>3 DEF Alone, Undisturbed
<1>6. th[t].pc \notin AccountPcs \union DirectoryPcs \union MediaPcs
  BY OtherPcs DEF Receive, Finished
<1>7. Dispatches(t)
  BY <1>3, <1>4, <1>5, <1>6 DEF Dispatches, Alone, Inside, Receive
<1> QED
  BY <1>3, <1>4, <1>7 DEF Receive

\* Before gives an answer or lets the request through.
LEMMA BeforeIs ==
  ASSUME ThreadsOK, NEW t \in Threads, Before(t)
  PROVE  /\ Dispatches(t)
         /\ \A u \in Threads \ {t} : /\ DOMAIN th'[u] = DOMAIN th[u]
                                     /\ th'[u].overlapped = (th[u].overlapped \/ ~Finished(u))
         /\ DOMAIN th'[t] = DOMAIN th[t] /\ Leaves(t, DOMAIN th[t] \ {"pc", "code", "allow"})
         /\ \/ th'[t].pc = "route" /\ th'[t].code = th[t].code
            \/ /\ th'[t].pc = "done" /\ th'[t].code \in {403, 204}
               /\ th'[t].allow = ResolveAllowOrigin(th[t].req.origin)
         /\ requestOrigin' = th[t].req.origin
         /\ UNCHANGED <<program, received>>
<1>0. th[t].pc = "before" /\ \A u \in Threads : ThreadOK(u)
  BY DEF Before, At, ThreadsOK
<1>1. ASSUME NEW u \in Threads \ {t}
      PROVE  /\ DOMAIN th'[u] = DOMAIN th[u] /\ Undisturbed(u)
             /\ th'[u].overlapped = (th[u].overlapped \/ ~Finished(u))
  <2>1. th'[u] = [th[u] EXCEPT !.overlapped = @ \/ ~Finished(u)]
    BY <1>1 DEF Before
  <2> QED
    BY <1>0, <2>1 DEF ThreadOK, Undisturbed
<1>2. DOMAIN th' = Threads
  BY DEF Before
<1>3. /\ DOMAIN th'[t] = DOMAIN th[t] /\ Leaves(t, DOMAIN th[t] \ {"pc", "code", "allow"})
      /\ \/ th'[t].pc = "route" /\ th'[t].code = th[t].code
         \/ /\ th'[t].pc = "done" /\ th'[t].code \in {403, 204}
            /\ th'[t].allow = ResolveAllowOrigin(th[t].req.origin)
  <2>1. CASE th[t].req.method # "OPTIONS"
    <3>1. th'[t] = [th[t] EXCEPT !.pc = "route"]
      BY <2>1 DEF Before
    <3> QED
      BY <1>0, <3>1 DEF ThreadOK, Leaves
  <2>2. CASE th[t].req.method = "OPTIONS"
    <3> DEFINE preflight == ResolveAllowOrigin(th[t].req.origin)
    <3>1. th'[t] = [th[t] EXCEPT !.pc = "done", !.allow = preflight,
                                 !.code = IF preflight = "" THEN 403 ELSE 204]
      BY <2>2 DEF Before
    <3> HIDE DEF preflight
    <3>2. /\ th'[t].pc = "done" /\ th'[t].allow = preflight /\ th'[t].code \in {403, 204}
          /\ DOMAIN th'[t] = DOMAIN th[t]
      BY <1>0, <3>1 DEF ThreadOK
    <3>3. \A f \in DOMAIN th[t] \ {"pc", "code", "allow"} : th'[t][f] = th[t][f]
      BY <3>1
    <3> QED
      BY <3>2, <3>3 DEF preflight, Leaves
  <2> QED
    BY <2>1, <2>2
<1>4. "req" \in DOMAIN th[t] /\ th'[t].req = th[t].req
  BY <1>0, <1>3 DEF ThreadOK, Leaves
<1>5. th[t].pc \notin AccountPcs \union DirectoryPcs \union MediaPcs
  BY <1>0, OtherPcs
<1>6. Leaves(t, Inside)
  BY <1>3 DEF Leaves, Inside
<1>7. Dispatches(t)
  BY <1>1, <1>2, <1>3, <1>4, <1>5, <1>6, OtherPcs DEF Dispatches, Before
<1> QED
  BY <1>1, <1>3, <1>7 DEF Before

\* What the assumption says of a request and its route.
LEMMA Routed ==
  ASSUME ThreadsOK, NEW t \in Threads, At(t, "route")
  PROVE  LET found == Route(table, th[t].req.method, th[t].req.path)
         IN /\ found = Meant(Program.routes, th[t].req.method, th[t].req.path)
            /\ found # NotFound => found.target[1] \in HandlerPcs
            /\ found # NotFound /\ found.target[1] \in {"login", "register"} =>
                 th[t].req.password \in Passwords
            /\ found # NotFound /\ found.target[1] = "upload" => IsUpload(th[t].req)
<1> DEFINE routes == Servers[server].routes
           r      == th[t].req
<1>1. /\ server \in DOMAIN Servers /\ TableOK(table, routes, Len(routes))
      /\ r \in Servers[server].requests
  BY DEF ThreadsOK, ThreadOK, At, Program, Listening
<1>2. /\ routes \in Seq(Range(routes))
      /\ \A i \in DOMAIN routes : routes[i].path \in Seq(Range(routes[i].path))
  BY <1>1, ProgramsAssumption
<1>3. r.path \in Seq(Range(r.path))
  BY <1>1, ProgramsAssumption
<1>4. LET found == Meant(routes, r.method, r.path)
      IN /\ found # NotFound => found.target[1] \in HandlerPcs
         /\ found # NotFound /\ found.target[1] \in {"login", "register"} =>
              r.password \in Passwords
         /\ found # NotFound /\ found.target[1] = "upload" => IsUpload(r)
  BY <1>1, ProgramsAssumption
<1> HIDE DEF routes, r
<1>5. ArePatterns(routes)
  <2>1. DOMAIN routes = 1..Len(routes)
    BY <1>2
  <2> QED
    BY <1>2, <2>1 DEF ArePatterns
<1>6. Route(table, r.method, r.path) = Meant(routes, r.method, r.path)
  BY <1>1, <1>2, <1>3, <1>5, RouteIsMeant
<1>7. routes = Program.routes
  BY DEF routes, Program
<1> QED
  BY <1>4, <1>6, <1>7, Zenon DEF r

LEMMA FindRouteIs ==
  ASSUME ThreadsOK, NEW t \in Threads, FindRoute(t)
  PROVE  /\ Alone(t) /\ Dispatches(t) /\ Leaves(t, DOMAIN th[t] \ {"pc", "code", "route"})
         /\ DOMAIN th[t] \subseteq DOMAIN th'[t]
         /\ "loops" \in DOMAIN th'[t] => "loops" \in DOMAIN th[t]
         /\ th'[t].route = Meant(Program.routes, th[t].req.method, th[t].req.path)
         /\ \/ th'[t].pc = "after" /\ th'[t].code = 404
            \/ th'[t].pc \in HandlerPcs /\ th'[t].code = th[t].code
         /\ UNCHANGED dispatchVars
<1> DEFINE found == Route(table, th[t].req.method, th[t].req.path)
<1>0. th[t].pc = "route" /\ ThreadOK(t)
  BY DEF FindRoute, At, ThreadsOK
<1>1. /\ found # NotFound => found.target[1] \in HandlerPcs
      /\ found # NotFound /\ found.target[1] \in {"login", "register"} =>
           th[t].req.password \in Passwords
      /\ found # NotFound /\ found.target[1] = "upload" => IsUpload(th[t].req)
      /\ found = Meant(Program.routes, th[t].req.method, th[t].req.path)
  BY Routed DEF FindRoute
<1>2. /\ UNCHANGED dispatchVars
      /\ \/ Update(t, [pc |-> "after", code |-> 404, route |-> found])
         \/ found # NotFound /\ Update(t, [pc |-> found.target[1], route |-> found])
  BY DEF FindRoute
<1> HIDE DEF found
<1>3. /\ Alone(t) /\ Leaves(t, (DOMAIN th[t] \union Inside) \ {"pc", "code", "route"})
      /\ DOMAIN th[t] \subseteq DOMAIN th'[t]
      /\ "loops" \in DOMAIN th'[t] => "loops" \in DOMAIN th[t]
      /\ th'[t].route = found
      /\ \/ th'[t].pc = "after" /\ th'[t].code = 404
         \/ /\ found # NotFound
            /\ th'[t].pc = found.target[1] /\ th'[t].code = th[t].code
  <2>1. CASE Update(t, [pc |-> "after", code |-> 404, route |-> found])
    BY <1>0, <2>1, UpdateIs DEF Leaves, Inside, ThreadOK
  <2>2. CASE found # NotFound /\ Update(t, [pc |-> found.target[1], route |-> found])
    BY <1>0, <2>2, UpdateIs DEF Leaves, Inside, ThreadOK
  <2> QED
    BY <1>2, <2>1, <2>2
<1>4. th'[t].req = th[t].req
  BY <1>0, <1>3 DEF ThreadOK, Leaves
<1>5. \A u \in Threads \ {t} : Undisturbed(u)
  BY <1>3 DEF Alone, Undisturbed
<1>6. /\ th'[t].pc \in {"login", "register"} => th'[t].req.password \in Passwords
      /\ th'[t].pc = "upload" => IsUpload(th'[t].req)
  BY <1>1, <1>3, <1>4
<1>7. Leaves(t, Inside) /\ Leaves(t, DOMAIN th[t] \ {"pc", "code", "route"})
  BY <1>3 DEF Leaves, Inside
<1>8. th[t].pc \notin AccountPcs \union DirectoryPcs \union MediaPcs
  BY <1>0, OtherPcs
<1>9. th'[t].pc \in {"after"} \union HandlerPcs
  BY <1>1, <1>3
<1>10. Dispatches(t)
  BY <1>2, <1>3, <1>4, <1>5, <1>6, <1>7, <1>8, <1>9 DEF Dispatches, Alone, dispatchVars
<1> QED
  BY <1>1, <1>2, <1>3, <1>7, <1>10

LEMMA PageIs ==
  ASSUME ThreadsOK, NEW t \in Threads, Page(t)
  PROVE  Handles(t) /\ Dispatches(t) /\ Leaves(t, {"loops"}) /\ th'[t].pc = "after"
<1>1. th[t].pc = "page" /\ 200 \in Codes \ {0} /\ "page" \in InnerPcs
  BY DEF Page, At, Codes, InnerPcs, HandlerPcs
<1>2. Handles(t) /\ th'[t].pc = "after" /\ Leaves(t, DOMAIN th'[t] \ {"pc", "code"})
  BY <1>1, RespondIs DEF Page
<1>3. \A u \in Threads \ {t} : Undisturbed(u)
  BY <1>2 DEF Handles, Alone, Undisturbed
<1>4. Leaves(t, Inside) /\ Leaves(t, {"loops"}) /\ th'[t].req = th[t].req
  BY <1>2 DEF Leaves, Inside, Handles
<1>5. th[t].pc \notin AccountPcs \union DirectoryPcs \union MediaPcs
  BY <1>1, OtherPcs
<1> QED
  BY <1>2, <1>3, <1>4, <1>5 DEF Dispatches, Handles, Alone, dispatchVars

LEMMA AfterIs ==
  ASSUME ThreadsOK, NEW t \in Threads, After(t)
  PROVE  /\ Alone(t) /\ Dispatches(t) /\ Leaves(t, DOMAIN th[t] \ {"pc", "allow"})
         /\ DOMAIN th'[t] = DOMAIN th[t]
         /\ th'[t].pc = "done" /\ th'[t].allow = ResolveAllowOrigin(requestOrigin)
         /\ UNCHANGED dispatchVars
<1>0. th[t].pc = "after" /\ ThreadOK(t)
  BY DEF After, At, ThreadsOK
<1> DEFINE o == ResolveAllowOrigin(requestOrigin)
<1>1. Update(t, [pc |-> "done", allow |-> o]) /\ UNCHANGED dispatchVars
  BY DEF After
<1> HIDE DEF o
<1>2. /\ Alone(t) /\ Leaves(t, DOMAIN th[t] \ {"pc", "allow"}) /\ Leaves(t, Inside)
      /\ DOMAIN th'[t] = DOMAIN th[t]
      /\ th'[t].pc = "done" /\ th'[t].allow = o
  <2>1. /\ Alone(t) /\ DOMAIN th'[t] = DOMAIN th[t] \union {"pc", "allow"}
        /\ th'[t].pc = "done" /\ th'[t].allow = o
        /\ \A f \in DOMAIN th[t] : f \notin {"pc", "allow"} => th'[t][f] = th[t][f]
    BY <1>1, UpdateIs
  <2>2. DOMAIN th'[t] = DOMAIN th[t]
    BY <1>0, <2>1 DEF ThreadOK
  <2>3. Leaves(t, DOMAIN th[t] \ {"pc", "allow"}) /\ Leaves(t, Inside)
    BY <2>1, <2>2 DEF Leaves, Inside
  <2> QED
    BY <2>1, <2>2, <2>3
<1>3. \A u \in Threads \ {t} : Undisturbed(u)
  BY <1>2 DEF Alone, Undisturbed
<1>4. th'[t].req = th[t].req
  BY <1>0, <1>2 DEF ThreadOK, Leaves
<1>5. th[t].pc \notin AccountPcs \union DirectoryPcs \union MediaPcs
  BY <1>0, OtherPcs
<1>6. Dispatches(t)
  BY <1>1, <1>2, <1>3, <1>4, <1>5 DEF Dispatches, Alone, dispatchVars
<1> QED
  BY <1>1, <1>2, <1>6 DEF o

-----------------------------------------------------------------------------
(* ThreadsOK.                                                              *)

LEMMA ProgramIs ==
  ASSUME server \in DOMAIN Servers
  PROVE  /\ Program.max \in Nat /\ Len(Program.routes) \in Nat
         /\ \A i \in 1..Len(Program.routes) : Program.routes[i].kind \in Range(Kinds)
<1> DEFINE routes == Servers[server].routes
<1>1. /\ Servers[server].max \in Nat /\ routes \in Seq(Range(routes))
      /\ \A i \in DOMAIN routes : routes[i].kind \in Range(Kinds)
  BY ProgramsAssumption
<1> HIDE DEF routes
<1>2. Len(routes) \in Nat /\ DOMAIN routes = 1..Len(routes)
  BY <1>1
<1> QED
  BY <1>1, <1>2 DEF Program, routes

LEMMA ThreadsInit == Init => ThreadsOK
<1> SUFFICES ASSUME Init PROVE ThreadsOK
  OBVIOUS
<1>1. /\ server \in DOMAIN Servers /\ table = EmptyTable /\ registered = 0 /\ received = 0
      /\ th = [t \in Threads |-> Idle]
  BY DEF Init, DispatchInit
<1>2. Program.max \in Nat /\ Len(Program.routes) \in Nat
  BY <1>1, ProgramIs
<1>4. TableOK(table, Program.routes, registered)
  BY <1>1, EmptyTableOK
<1>3. \A t \in Threads : ThreadOK(t)
  BY <1>1 DEF ThreadOK, Idle, Pcs, Codes
<1> QED
  BY <1>1, <1>2, <1>3, <1>4 DEF ThreadsOK

\* A step that leaves the program and the counter alone is right if the thread
\* that makes it is, and the others are undisturbed.
LEMMA ThreadsKept ==
  ASSUME ThreadsOK, NEW t \in Threads, UNCHANGED <<program, received>>,
         DOMAIN th' = Threads, ThreadOK(t)',
         \A u \in Threads \ {t} : Undisturbed(u) /\ th'[u].overlapped \in BOOLEAN
  PROVE  ThreadsOK'
<1>1. UNCHANGED <<server, table, registered, Program, Listening>>
  BY DEF program, Program, Listening
<1>2. ASSUME NEW u \in Threads \ {t} PROVE ThreadOK(u)'
  BY <1>1, <1>2 DEF Undisturbed, ThreadOK, ThreadsOK
<1> QED
  BY <1>1, <1>2 DEF ThreadsOK

LEMMA AloneKept ==
  ASSUME ThreadsOK, NEW t \in Threads, Alone(t)
  PROVE  /\ DOMAIN th' = Threads
         /\ \A u \in Threads \ {t} : Undisturbed(u) /\ th'[u].overlapped \in BOOLEAN
BY DEF Alone, Undisturbed, ThreadsOK, ThreadOK

LEMMA CountsKept ==
  ASSUME ThreadsOK, NEW t \in Threads, Leaves(t, {"loops"}), th'[t].pc # "poll"
  PROVE  Counts(t)'
BY DEF ThreadsOK, ThreadOK, Leaves, Counts

LEMMA HandlesThreads ==
  ASSUME ThreadsOK, NEW t \in Threads, Handles(t), Counts(t)'
  PROVE  ThreadsOK'
<1>1. ThreadOK(t) /\ th[t].pc # "idle" /\ th[t].pc \notin {"after", "done"} /\ th[t].code = 0
  BY OtherPcs DEF ThreadsOK, ThreadOK, Handles
<1>2. /\ {"pc", "code", "allow", "overlapped", "req"} \subseteq DOMAIN th'[t]
      /\ th'[t].overlapped \in BOOLEAN
      /\ th'[t].req \in Program.requests
  BY <1>1 DEF ThreadOK, Handles
<1>3. /\ th'[t].pc \in Pcs /\ th'[t].code \in Codes
      /\ th'[t].code # 0 <=> th'[t].pc \in {"after", "done"}
  BY <1>1, OtherPcs DEF Handles, Pcs, Codes
<1>4. UNCHANGED <<program, received, Program, Listening>> /\ Listening
  BY <1>1 DEF Handles, dispatchVars, program, Program, Listening, ThreadOK
<1>5. ThreadOK(t)'
  BY <1>2, <1>3, <1>4 DEF ThreadOK, Counts
<1> QED
  BY <1>4, <1>5, AloneKept, ThreadsKept DEF Handles

LEMMA ReceiveThreads ==
  ASSUME ThreadsOK, NEW t \in Threads, Receive(t)
  PROVE  ThreadsOK'
<1>1. UNCHANGED <<server, table, registered, Program, Listening>> /\ Listening
  BY ReceiveIs DEF program, Program, Listening, Receive
<1>2. ThreadOK(t)'
  <2>1. /\ DOMAIN th'[t] = {"pc", "code", "allow", "overlapped", "req"}
        /\ th'[t].pc = "before" /\ th'[t].code = 0 /\ th'[t].overlapped = FALSE
        /\ th'[t].req \in Program.requests
    BY ReceiveIs
  <2>2. "before" \in Pcs /\ 0 \in Codes
    BY DEF Pcs, Codes
  <2> QED
    BY <1>1, <2>1, <2>2 DEF ThreadOK
<1>3. received' \in 0..Program.max
  <2>1. Program.max \in Nat
    BY ProgramsAssumption DEF ThreadsOK, Program
  <2>2. received' = received + 1 /\ received < Program.max /\ received \in 0..Program.max
    BY ReceiveIs DEF ThreadsOK
  <2> QED
    BY <2>1, <2>2
<1>4. \A u \in Threads \ {t} : ThreadOK(u)'
  <2> TAKE u \in Threads \ {t}
  <2>1. th'[u] = th[u] /\ ThreadOK(u)
    BY ReceiveIs DEF Alone, ThreadsOK
  <2> QED
    BY <1>1, <2>1 DEF ThreadOK
<1>5. DOMAIN th' = Threads
  BY ReceiveIs DEF Alone
<1> QED
  BY <1>1, <1>2, <1>3, <1>4, <1>5 DEF ThreadsOK

LEMMA BeforeThreads ==
  ASSUME ThreadsOK, NEW t \in Threads, Before(t)
  PROVE  ThreadsOK'
<1>0. th[t].pc = "before" /\ ThreadOK(t) /\ UNCHANGED <<Program, Listening>>
  BY BeforeIs DEF Before, At, ThreadsOK, program, Program, Listening
<1>1. /\ {"pc", "code", "allow", "overlapped", "req"} \subseteq DOMAIN th'[t]
      /\ th'[t].overlapped = th[t].overlapped /\ th'[t].req = th[t].req
      /\ "loops" \in DOMAIN th'[t] => "loops" \in DOMAIN th[t] /\ th'[t].loops = th[t].loops
  BY <1>0, BeforeIs DEF ThreadOK, Leaves
<1>2. /\ th'[t].pc \in {"route", "done"} /\ th'[t].code \in Codes
      /\ th'[t].code # 0 <=> th'[t].pc \in {"after", "done"}
  <2>1. th[t].code = 0
    BY <1>0 DEF ThreadOK
  <2>2. CASE th'[t].pc = "route" /\ th'[t].code = th[t].code
    BY <2>1, <2>2 DEF Codes
  <2>3. CASE th'[t].pc = "done" /\ th'[t].code \in {403, 204}
    BY <2>3 DEF Codes
  <2>4. \/ th'[t].pc = "route" /\ th'[t].code = th[t].code
        \/ th'[t].pc = "done" /\ th'[t].code \in {403, 204}
    BY BeforeIs
  <2> QED
    BY <2>2, <2>3, <2>4
<1>3. ThreadOK(t)'
  BY <1>0, <1>1, <1>2 DEF ThreadOK, Pcs
<1>4. \A u \in Threads \ {t} : Undisturbed(u) /\ th'[u].overlapped \in BOOLEAN
  <2> TAKE u \in Threads \ {t}
  <2>1. Undisturbed(u)
    BY BeforeIs DEF Dispatches
  <2>2. th'[u].overlapped = (th[u].overlapped \/ ~Finished(u))
    BY BeforeIs, ZenonT(30)
  <2> QED
    BY <2>1, <2>2
<1> QED
  BY <1>3, <1>4, BeforeIs, ThreadsKept DEF Dispatches

LEMMA FindRouteThreads ==
  ASSUME ThreadsOK, NEW t \in Threads, FindRoute(t)
  PROVE  ThreadsOK'
<1>0. th[t].pc = "route" /\ ThreadOK(t) /\ UNCHANGED <<program, received, Program, Listening>>
  BY FindRouteIs DEF FindRoute, At, ThreadsOK, dispatchVars, program, Program, Listening
<1>1. /\ {"pc", "code", "allow", "overlapped", "req"} \subseteq DOMAIN th'[t]
      /\ th'[t].overlapped = th[t].overlapped /\ th'[t].req = th[t].req
      /\ "loops" \in DOMAIN th'[t] => "loops" \in DOMAIN th[t] /\ th'[t].loops = th[t].loops
  BY <1>0, FindRouteIs DEF ThreadOK, Leaves
<1>2. /\ th'[t].pc \in {"after"} \union HandlerPcs /\ th'[t].code \in Codes
      /\ th'[t].code # 0 <=> th'[t].pc \in {"after", "done"}
  <2>1. th[t].code = 0
    BY <1>0 DEF ThreadOK
  <2>2. CASE th'[t].pc = "after" /\ th'[t].code = 404
    BY <2>2 DEF Codes
  <2>3. CASE th'[t].pc \in HandlerPcs /\ th'[t].code = th[t].code
    BY <2>1, <2>3, OtherPcs DEF Codes
  <2>4. \/ th'[t].pc = "after" /\ th'[t].code = 404
        \/ th'[t].pc \in HandlerPcs /\ th'[t].code = th[t].code
    BY FindRouteIs, ZenonT(30)
  <2> QED
    BY <2>2, <2>3, <2>4
<1>3. th'[t].pc \in Pcs \ {"poll"}
  BY <1>2 DEF Pcs, InnerPcs, HandlerPcs
<1>4. ThreadOK(t)'
  BY <1>0, <1>1, <1>2, <1>3 DEF ThreadOK
<1> QED
  BY <1>0, <1>4, FindRouteIs, AloneKept, ThreadsKept

LEMMA AfterThreads ==
  ASSUME ThreadsOK, NEW t \in Threads, After(t)
  PROVE  ThreadsOK'
<1>0. th[t].pc = "after" /\ ThreadOK(t) /\ UNCHANGED <<program, received, Program, Listening>>
  BY AfterIs DEF After, At, ThreadsOK, dispatchVars, program, Program, Listening
<1>1. /\ {"pc", "code", "allow", "overlapped", "req"} \subseteq DOMAIN th'[t]
      /\ th'[t].overlapped = th[t].overlapped /\ th'[t].req = th[t].req
      /\ th'[t].code = th[t].code /\ th'[t].pc = "done"
      /\ "loops" \in DOMAIN th'[t] => "loops" \in DOMAIN th[t] /\ th'[t].loops = th[t].loops
  BY <1>0, AfterIs DEF ThreadOK, Leaves
<1>2. ThreadOK(t)'
  BY <1>0, <1>1 DEF ThreadOK, Pcs
<1> QED
  BY <1>0, <1>2, AfterIs, AloneKept, ThreadsKept

\* The steps in a handler, of whichever component.
LEMMA HandlerThreads ==
  ASSUME ThreadsOK, NEW t \in Threads,
         Page(t) \/ AccountStep(t) \/ DirectoryStep(t) \/ MediaStep(t)
  PROVE  Handles(t) /\ ThreadsOK'
<1>1. CASE Page(t)
  BY <1>1, PageIs, CountsKept, HandlesThreads
<1>2. CASE AccountStep(t)
  <2>1. Handles(t) /\ Leaves(t, {"loops"}) /\ th'[t].pc # "poll"
    BY <1>2, AccountHandles DEF StaysIn, AccountPcs, Leaves
  <2> QED
    BY <2>1, CountsKept, HandlesThreads
<1>3. CASE DirectoryStep(t)
  <2>1. Handles(t) /\ Leaves(t, {"loops"}) /\ th'[t].pc # "poll"
    BY <1>3, DirectoryHandles DEF StaysIn, DirectoryPcs, ChatPcs, Leaves
  <2> QED
    BY <2>1, CountsKept, HandlesThreads
<1>4. CASE MediaStep(t)
  BY <1>4, MediaHandles, HandlesThreads
<1> QED
  BY <1>1, <1>2, <1>3, <1>4

LEMMA RestartThreads ==
  ASSUME ThreadsOK, Restart
  PROVE  ThreadsOK'
<1>1. /\ th' = [t \in Threads |-> Idle] /\ UNCHANGED <<server, received, Program>>
      /\ table' = EmptyTable /\ registered' = 0
  BY DEF Restart, Reset, Program
<1>2. \A t \in Threads : ThreadOK(t)'
  BY <1>1 DEF ThreadOK, Idle, Pcs, Codes
<1>3. registered' \in 0..Len(Program.routes)
  BY <1>1, ProgramIs DEF ThreadsOK
<1>4. TableOK(table', Program.routes, registered')
  BY <1>1, EmptyTableOK
<1> QED
  BY <1>1, <1>2, <1>3, <1>4 DEF ThreadsOK

\* While routes are registered no thread has a request yet.
LEMMA RegisterThreads ==
  ASSUME ThreadsOK, RegisterRoute
  PROVE  ThreadsOK'
<1>1. /\ UNCHANGED <<server, received, th, Program>>
      /\ registered < Len(Program.routes) /\ registered' = registered + 1
      /\ table' = Register(table, Program.routes[registered'])
  BY DEF RegisterRoute, Program
<1>2. registered \in Nat /\ Len(Program.routes) \in Nat /\ registered' \in 1..Len(Program.routes)
  BY <1>1, ProgramIs DEF ThreadsOK
<1>3. TableOK(table', Program.routes, registered')
  <2>1. Program.routes[registered + 1].kind \in Range(Kinds)
    BY <1>1, <1>2, ProgramIs DEF ThreadsOK
  <2>2. TableOK(table, Program.routes, registered)
    BY DEF ThreadsOK
  <2> QED
    BY <1>1, <1>2, <2>1, <2>2, RegisterKeeps
<1>4. ASSUME NEW t \in Threads PROVE ThreadOK(t)'
  <2>1. ThreadOK(t) /\ ~Listening
    BY <1>1, <1>2 DEF ThreadsOK, Listening
  <2>2. th'[t].pc = "idle" /\ UNCHANGED th
    BY <1>1, <2>1 DEF ThreadOK
  <2> QED
    BY <2>1, <2>2 DEF ThreadOK
<1> QED
  BY <1>1, <1>2, <1>3, <1>4 DEF ThreadsOK

LEMMA ThreadsStep == ThreadsOK /\ [Next]_vars => ThreadsOK'
<1> SUFFICES ASSUME ThreadsOK, [Next]_vars PROVE ThreadsOK'
  OBVIOUS
<1>1. CASE Restart
  BY <1>1, RestartThreads
<1>2. ASSUME NEW t \in Threads, Step(t) PROVE ThreadsOK'
  <2>1. CASE Dispatcher(t)
    BY <2>1, ReceiveThreads, BeforeThreads, FindRouteThreads, HandlerThreads, AfterThreads
    DEF Dispatcher
  <2> QED
    BY <1>2, <2>1, HandlerThreads DEF Step
<1>3. CASE UNCHANGED vars
  BY <1>3 DEF vars, dispatchVars, program, Program, Listening, ThreadsOK, ThreadOK
<1> QED
  BY <1>1, <1>2, <1>3, RegisterThreads DEF Next

\* The user of a request in a handler that asks for one.
LEMMA UserIsOne ==
  ASSUME ThreadsOK, NEW t \in Threads, th[t].pc # "idle", UserOf(t) # ""
  PROVE  UserOf(t) \in ChatUsers
<1>1. server \in DOMAIN Servers /\ th[t].req \in Servers[server].requests
  BY DEF ThreadsOK, ThreadOK, Program
<1>2. th[t].req.user \in ChatUsers \union {""}
  BY <1>1, ProgramsAssumption
<1> QED
  BY <1>2 DEF UserOf

LEMMA Bounds == MaxRestarts \in Nat /\ MaxDbErrors \in Nat /\ Len(GeneratedIds) \in Nat
<1>1. MaxRestarts \in Nat
  BY ProgramsAssumption
<1>2. MaxDbErrors \in Nat
  BY AccountsAssumption
<1>3. GeneratedIds \in Seq(STRING)
  BY ProgramsAssumption
<1>4. Len(GeneratedIds) \in Nat
  BY <1>3
<1> QED
  BY <1>1, <1>2, <1>4

LEMMA OthersInit == Init => Others
<1> SUFFICES ASSUME Init PROVE Others
  OBVIOUS
<1>1. /\ restarts = 0 /\ dbErrors = 0 /\ recognizers = {} /\ generated = 0
  BY DEF Init, AccountsInit, DirectoryInit, MediaInit
<1>2. MaxRestarts \in Nat /\ MaxDbErrors \in Nat /\ Len(GeneratedIds) \in Nat
  BY Bounds
<1> QED
  BY <1>1, <1>2 DEF Others

LEMMA OthersStep == ThreadsOK /\ Others /\ [Next]_vars => Others'
<1> SUFFICES ASSUME ThreadsOK, Others, [Next]_vars PROVE Others'
  OBVIOUS
<1>0. MaxRestarts \in Nat /\ MaxDbErrors \in Nat /\ Len(GeneratedIds) \in Nat
  BY Bounds
<1>1. CASE Restart
  BY <1>0, <1>1 DEF Restart, RestoreDirectory, MediaReset, accountVars, Others
<1>2. ASSUME NEW t \in Threads, Step(t) PROVE Others'
  <2>1. CASE Dispatcher(t) /\ UNCHANGED <<accountVars, chatVars, recognizers, restarts>>
    BY <2>1 DEF accountVars, chatVars, Others
  <2>2. CASE AccountStep(t) /\ UNCHANGED <<chatVars, recognizers, restarts>>
    <3>1. dbErrors' \in 0..MaxDbErrors
      BY <1>0, <2>2 DEF AccountStep, StatementThrows, CheckUser, InsertUser, SelectId,
                        VerifyUser, Upgrade, accountVars, Others
    <3> QED
      BY <2>2, <3>1 DEF chatVars, Others
  <2>3. CASE DirectoryStep(t) /\ UNCHANGED <<accountVars, recognizers, restarts>>
    <3>1. generated' \in 0..Len(GeneratedIds)
      <4>1. CASE UNCHANGED generated
        BY <4>1 DEF Others
      <4>2. CASE Create(t)
        BY <1>0, <4>2 DEF Create, Others
      <4> QED
        BY <2>3, <4>1, <4>2 DEF DirectoryStep, ChatUnauthorized, Send, PushId, Chat, History,
                                FindIds, CopyIds, chatVars
    <3> QED
      BY <2>3, <3>1 DEF accountVars, Others
  <2>4. CASE MediaStep(t) /\ UNCHANGED <<accountVars, chatVars, restarts>>
    <3>1. CASE UNCHANGED recognizers
      BY <2>4, <3>1 DEF accountVars, chatVars, Others
    <3>2. CASE OpenRecognizer(t) /\ recognizers' = recognizers \union {th[t].req.user}
      <4>1. th[t].req.user \in ChatUsers
        BY <3>2, UserIsOne DEF OpenRecognizer, At, UserOf
      <4> QED
        BY <2>4, <3>2, <4>1 DEF accountVars, chatVars, Others
    <3> QED
      BY <2>4, <3>1, <3>2 DEF MediaStep, MediaUnauthorized, OpenRecognizer, DecodeImage,
                              GetAccessToken, CreateTask, Query, GiveUp
  <2> QED
    BY <1>2, <2>1, <2>2, <2>3, <2>4 DEF Step
<1>3. CASE UNCHANGED <<accountVars, chatVars, recognizers, restarts>>
  BY <1>3 DEF accountVars, chatVars, Others
<1> QED
  BY <1>1, <1>2, <1>3 DEF Next, vars

-----------------------------------------------------------------------------
(* What the router found.                                                  *)

LEMMA RoutesInit == Init => Routes
<1> SUFFICES ASSUME Init, NEW t \in Threads PROVE RouteOf(t)
  BY DEF Routes
<1>1. th[t] = Idle
  BY DEF Init, DispatchInit
<1> QED
  BY <1>1 DEF RouteOf, Idle

\* A step that keeps what a thread has found and its request.
LEMMA RouteKept ==
  ASSUME Routes, NEW t \in Threads, UNCHANGED server, Leaves(t, {"route"}),
         "req" \in DOMAIN th[t] => "req" \in DOMAIN th'[t] /\ th'[t].req = th[t].req
  PROVE  RouteOf(t)'
<1>1. UNCHANGED Program
  BY DEF Program
<1> QED
  BY <1>1 DEF Routes, RouteOf, Leaves

LEMMA RoutesKept ==
  ASSUME Routes, NEW t \in Threads, UNCHANGED server, RouteOf(t)',
         \A u \in Threads \ {t} : Undisturbed(u)
  PROVE  Routes'
<1>1. ASSUME NEW u \in Threads \ {t} PROVE RouteOf(u)'
  BY RouteKept DEF Undisturbed, Leaves
<1> QED
  BY <1>1 DEF Routes

LEMMA RoutesStep == ThreadsOK /\ Routes /\ [Next]_vars => Routes'
<1> SUFFICES ASSUME ThreadsOK, Routes, [Next]_vars PROVE Routes'
  OBVIOUS
<1>1. CASE Restart
  <2>1. th' = [t \in Threads |-> Idle]
    BY <1>1 DEF Restart, Reset
  <2> QED
    BY <2>1 DEF Routes, RouteOf, Idle
<1>2. ASSUME NEW t \in Threads, Handles(t) PROVE Routes'
  <2>1. /\ UNCHANGED server /\ Leaves(t, {"route"})
        /\ "req" \in DOMAIN th[t] => "req" \in DOMAIN th'[t] /\ th'[t].req = th[t].req
        /\ \A u \in Threads \ {t} : Undisturbed(u)
    BY <1>2 DEF Handles, Alone, Undisturbed, dispatchVars, program
  <2> QED
    BY <2>1, RouteKept, RoutesKept
<1>3. ASSUME NEW t \in Threads, Receive(t) \/ Before(t) \/ FindRoute(t) \/ After(t) PROVE Routes'
  <2>1. UNCHANGED server /\ \A u \in Threads \ {t} : Undisturbed(u)
    BY <1>3, ReceiveIs, BeforeIs, FindRouteIs, AfterIs DEF Dispatches, program
  <2>2. ThreadOK(t)
    BY DEF ThreadsOK
  <2>3. CASE Receive(t)
    <3>1. "route" \notin DOMAIN th'[t]
      <4>1. DOMAIN th'[t] = {"pc", "code", "allow", "overlapped", "req"}
        BY <2>3, ReceiveIs
      <4> QED
        BY <4>1
    <3> QED
      BY <2>1, <3>1, RoutesKept DEF RouteOf
  <2>4. CASE Before(t)
    <3>1. th[t].pc = "before" /\ "req" \in DOMAIN th[t]
      BY <2>2, <2>4 DEF Before, At, ThreadOK
    <3>2. Leaves(t, {"route"}) /\ "req" \in DOMAIN th'[t] /\ th'[t].req = th[t].req
      BY <2>4, <3>1, BeforeIs DEF Leaves
    <3> QED
      BY <2>1, <3>2, RouteKept, RoutesKept
  <2>5. CASE FindRoute(t)
    <3>1. th[t].pc = "route" /\ "req" \in DOMAIN th[t]
      BY <2>2, <2>5 DEF FindRoute, At, ThreadOK
    <3>2. "req" \in DOMAIN th'[t] /\ th'[t].req = th[t].req
      BY <2>5, <3>1, FindRouteIs DEF Leaves
    <3>3. th'[t].route = Meant(Program.routes, th[t].req.method, th[t].req.path)
      BY <2>5, FindRouteIs
    <3>4. UNCHANGED Program
      BY <2>1 DEF Program
    <3> QED
      BY <2>1, <3>2, <3>3, <3>4, RoutesKept DEF RouteOf
  <2>6. CASE After(t)
    <3>1. th[t].pc = "after" /\ "req" \in DOMAIN th[t]
      BY <2>2, <2>6 DEF After, At, ThreadOK
    <3>2. Leaves(t, {"route"}) /\ "req" \in DOMAIN th'[t] /\ th'[t].req = th[t].req
      BY <2>6, <3>1, AfterIs DEF Leaves
    <3> QED
      BY <2>1, <3>2, RouteKept, RoutesKept
  <2> QED
    BY <1>3, <2>3, <2>4, <2>5, <2>6
<1>4. CASE UNCHANGED <<server, th>>
  <2>1. UNCHANGED Program
    BY <1>4 DEF Program
  <2> QED
    BY <1>4, <2>1 DEF Routes, RouteOf
<1>5. ASSUME NEW t \in Threads, Step(t) PROVE Routes'
  <2>1. CASE Dispatcher(t)
    BY <1>2, <1>3, <2>1, HandlerThreads DEF Dispatcher
  <2> QED
    BY <1>2, <1>5, <2>1, HandlerThreads DEF Step
<1> QED
  BY <1>1, <1>4, <1>5 DEF Next, vars, dispatchVars, program, RegisterRoute

-----------------------------------------------------------------------------
(* requestOrigin_.                                                         *)

LEMMA OriginsInit == Init => Origins
<1> SUFFICES ASSUME Init, NEW t \in Threads PROVE OriginOf(t)
  BY DEF Origins
<1>1. th[t].pc = "idle"
  BY DEF Init, DispatchInit, Idle
<1> QED
  BY <1>1 DEF OriginOf, At

\* A step that leaves requestOrigin_ alone concerns the thread that makes it.
LEMMA OriginsKept ==
  ASSUME ThreadsOK, Origins, NEW t \in Threads, Alone(t), UNCHANGED requestOrigin, OriginOf(t)'
  PROVE  Origins'
<1>1. ASSUME NEW u \in Threads \ {t} PROVE OriginOf(u)'
  BY <1>1 DEF Alone, Origins, OriginOf, At
<1> QED
  BY <1>1 DEF Origins

LEMMA OriginsStep == ThreadsOK /\ Origins /\ [Next]_vars => Origins'
<1> SUFFICES ASSUME ThreadsOK, Origins, [Next]_vars PROVE Origins'
  OBVIOUS
<1>1. CASE Restart
  <2>1. th' = [t \in Threads |-> Idle]
    BY <1>1 DEF Restart, Reset
  <2> QED
    BY <2>1 DEF Origins, OriginOf, Idle, At
<1>2. ASSUME NEW t \in Threads, Handles(t) PROVE Origins'
  <2>1. th[t].pc \notin {"idle", "before", "done"} /\ "done" \notin InnerPcs
    BY <1>2, OtherPcs DEF Handles
  <2>2. th'[t].req = th[t].req /\ th'[t].overlapped = th[t].overlapped
    BY <1>2 DEF Handles
  <2>3. th'[t].pc # "done" \/ th'[t].code = 500
    BY <1>2, <2>1 DEF Handles
  <2>4. UNCHANGED requestOrigin /\ Alone(t)
    BY <1>2 DEF Handles, dispatchVars
  <2>5. OriginOf(t)'
    BY <2>1, <2>2, <2>3, <2>4 DEF Origins, OriginOf, At
  <2> QED
    BY <2>4, <2>5, OriginsKept
<1>3. ASSUME NEW t \in Threads, Receive(t) PROVE Origins'
  <2>1. th'[t].pc = "before" /\ UNCHANGED requestOrigin /\ Alone(t)
    BY <1>3, ReceiveIs
  <2>2. OriginOf(t)'
    BY <2>1 DEF OriginOf, At
  <2> QED
    BY <2>1, <2>2, OriginsKept
<1>4. ASSUME NEW t \in Threads, Before(t) PROVE Origins'
  <2>0. requestOrigin' = th[t].req.origin /\ ThreadOK(t) /\ th[t].pc = "before"
    BY <1>4, BeforeIs DEF ThreadsOK, Before, At
  <2>1. th'[t].req = th[t].req
    BY <1>4, <2>0, BeforeIs DEF ThreadOK, Leaves
  <2>2. OriginOf(t)'
    <3>1. CASE th'[t].pc = "route"
      BY <2>0, <2>1, <3>1 DEF OriginOf, At
    <3>2. CASE th'[t].pc = "done" /\ th'[t].allow = ResolveAllowOrigin(th[t].req.origin)
      BY <2>0, <2>1, <3>2 DEF OriginOf, At
    <3> QED
      BY <1>4, <3>1, <3>2, BeforeIs
  <2>3. ASSUME NEW u \in Threads \ {t} PROVE OriginOf(u)'
    <3>1. Undisturbed(u) /\ ThreadOK(u) /\ OriginOf(u)
      BY <1>4, BeforeIs DEF Dispatches, ThreadsOK, Origins
    <3>2. th'[u].overlapped = (th[u].overlapped \/ ~Finished(u))
      BY <1>4, BeforeIs, ZenonT(60)
    <3>3. CASE ~Finished(u)
      BY <3>2, <3>3 DEF OriginOf
    <3>4. CASE th[u].pc = "idle"
      <4>1. th'[u].pc = "idle"
        BY <3>1, <3>4 DEF Undisturbed, ThreadOK
      <4> QED
        BY <4>1 DEF OriginOf, At
    <3>5. CASE th[u].pc = "done"
      <4>1. /\ th'[u].pc = "done" /\ th'[u].code = th[u].code /\ th'[u].allow = th[u].allow
            /\ th'[u].req = th[u].req
        BY <3>1, <3>5 DEF Undisturbed, ThreadOK
      <4>2. ~th'[u].overlapped => ~th[u].overlapped
        BY <3>2
      <4> QED
        BY <3>1, <3>5, <4>1, <4>2 DEF OriginOf, At
    <3> QED
      BY <3>3, <3>4, <3>5 DEF Finished
  <2> QED
    BY <2>2, <2>3 DEF Origins
<1>5. ASSUME NEW t \in Threads, FindRoute(t) PROVE Origins'
  <2>0. /\ th[t].pc = "route" /\ UNCHANGED requestOrigin /\ Alone(t) /\ ThreadOK(t)
        /\ Leaves(t, DOMAIN th[t] \ {"pc", "code", "route"}) /\ DOMAIN th[t] \subseteq DOMAIN th'[t]
    BY <1>5, FindRouteIs DEF FindRoute, At, dispatchVars, ThreadsOK
  <2>1. th'[t].req = th[t].req /\ th'[t].overlapped = th[t].overlapped
    BY <2>0 DEF ThreadOK, Leaves
  <2>2. th'[t].pc # "done"
    BY <1>5, FindRouteIs, OtherPcs
  <2>3. OriginOf(t)'
    BY <2>0, <2>1, <2>2 DEF Origins, OriginOf, At
  <2> QED
    BY <2>0, <2>3, OriginsKept
<1>6. ASSUME NEW t \in Threads, After(t) PROVE Origins'
  <2>0. /\ th[t].pc = "after" /\ UNCHANGED requestOrigin /\ Alone(t) /\ ThreadOK(t)
        /\ Leaves(t, DOMAIN th[t] \ {"pc", "allow"}) /\ DOMAIN th[t] = DOMAIN th'[t]
        /\ th'[t].pc = "done" /\ th'[t].allow = ResolveAllowOrigin(requestOrigin)
    BY <1>6, AfterIs DEF After, At, dispatchVars, ThreadsOK
  <2>1. th'[t].req = th[t].req /\ th'[t].overlapped = th[t].overlapped
    BY <2>0 DEF ThreadOK, Leaves
  <2>2. ~th[t].overlapped => requestOrigin = th[t].req.origin
    BY <2>0 DEF Origins, OriginOf
  <2>3. OriginOf(t)'
    BY <2>0, <2>1, <2>2 DEF OriginOf, At
  <2> QED
    BY <2>0, <2>3, OriginsKept
<1>7. CASE UNCHANGED <<requestOrigin, th>>
  BY <1>7 DEF Origins, OriginOf, At
<1>8. ASSUME NEW t \in Threads, Step(t) PROVE Origins'
  <2>1. CASE Dispatcher(t)
    BY <1>2, <1>3, <1>4, <1>5, <1>6, <2>1, HandlerThreads DEF Dispatcher
  <2> QED
    BY <1>2, <1>8, <2>1, HandlerThreads DEF Step
<1> QED
  BY <1>1, <1>7, <1>8 DEF Next, vars, dispatchVars, RegisterRoute

-----------------------------------------------------------------------------
(* Sequences.                                                              *)

LEMMA IsSeqIs ==
  ASSUME NEW s
  PROVE  /\ \A S : s \in Seq(S) => IsSeq(s)
         /\ IsSeq(s) => Len(s) \in Nat /\ DOMAIN s = 1..Len(s)
<1>1. ASSUME NEW S, s \in Seq(S) PROVE s \in Seq(Range(s))
  BY <1>1 DEF Range
<1>2. IsSeq(s) => Len(s) \in Nat /\ DOMAIN s = 1..Len(s)
  BY DEF IsSeq
<1> QED
  BY <1>1, <1>2 DEF IsSeq

LEMMA AppendIs ==
  ASSUME NEW s, IsSeq(s), NEW e
  PROVE  /\ IsSeq(Append(s, e)) /\ Len(Append(s, e)) = Len(s) + 1
         /\ DOMAIN Append(s, e) = 1..(Len(s) + 1)
         /\ \A i \in 1..Len(s) : Append(s, e)[i] = s[i]
         /\ Append(s, e)[Len(s) + 1] = e
<1> DEFINE S == Range(s) \union {e}
<1>1. s \in Seq(S)
  BY DEF IsSeq, Range
<1>2. e \in S
  OBVIOUS
<1> HIDE DEF S
<1>3. Append(s, e) \in Seq(S)
  BY <1>1, <1>2
<1>4. IsSeq(Append(s, e))
  BY <1>3, IsSeqIs
<1>5. Len(s) \in Nat /\ DOMAIN s = 1..Len(s)
  BY IsSeqIs
<1>6. /\ Len(Append(s, e)) = Len(s) + 1 /\ Append(s, e)[Len(s) + 1] = e
      /\ \A i \in 1..Len(s) : Append(s, e)[i] = s[i]
  BY <1>1, <1>2
<1>7. DOMAIN Append(s, e) = 1..(Len(s) + 1)
  BY <1>4, <1>6, IsSeqIs
<1> QED
  BY <1>4, <1>6, <1>7

LEMMA ExceptIs ==
  ASSUME NEW s, IsSeq(s), NEW i \in DOMAIN s, NEW e
  PROVE  /\ IsSeq([s EXCEPT ![i] = e]) /\ Len([s EXCEPT ![i] = e]) = Len(s)
         /\ DOMAIN [s EXCEPT ![i] = e] = DOMAIN s
         /\ \A j \in DOMAIN s : [s EXCEPT ![i] = e][j] = IF j = i THEN e ELSE s[j]
<1> DEFINE S == Range(s) \union {e}
<1>1. s \in Seq(S) /\ DOMAIN s = 1..Len(s) /\ Len(s) \in Nat
  BY DEF IsSeq, Range
<1>2. e \in S
  OBVIOUS
<1> HIDE DEF S
<1>3. [s EXCEPT ![i] = e] \in Seq(S) /\ Len([s EXCEPT ![i] = e]) = Len(s)
  BY <1>1, <1>2
<1> QED
  BY <1>1, <1>2, <1>3, IsSeqIs

-----------------------------------------------------------------------------
(* PasswordHash.cpp.                                                       *)

\* Hexadecimal digits say what the bytes were.
LEMMA HexRoundTrip ==
  ASSUME NEW bytes \in Seq(Passwords)
  PROVE  /\ HexToBytes(ToHex(bytes)) = bytes /\ ~BadHex(ToHex(bytes))
<1> DEFINE hex == ToHex(bytes)
           n   == Len(bytes)
<1>1. n \in Nat /\ DOMAIN bytes = 1..n /\ \A i \in 1..n : bytes[i] \in Passwords
  OBVIOUS
<1>2. Len(hex) = 2 * n /\ DOMAIN hex = 1..(2 * n)
  BY <1>1 DEF ToHex
<1>3. ASSUME NEW i \in 1..n
      PROVE  /\ 2 * i - 1 \in 1..(2 * n) /\ 2 * i \in 1..(2 * n)
             /\ hex[2 * i - 1] = bytes[i] \div 16 /\ hex[2 * i] = bytes[i] % 16
             /\ hex[2 * i - 1] \in 0..15 /\ hex[2 * i] \in 0..15
             /\ hex[2 * i - 1] * 16 + hex[2 * i] = bytes[i]
  <2>1. 2 * i - 1 \in 1..(2 * n) /\ 2 * i \in 1..(2 * n)
    BY <1>1
  <2>2. (2 * i - 1) % 2 = 1 /\ (2 * i) % 2 = 0
        /\ (2 * i - 1 + 1) \div 2 = i /\ (2 * i + 1) \div 2 = i
    BY <1>1
  <2>3. hex[2 * i - 1] = bytes[i] \div 16
    BY <1>1, <2>1, <2>2 DEF ToHex
  <2>4. hex[2 * i] = bytes[i] % 16
    BY <1>1, <2>1, <2>2 DEF ToHex
  <2>5. bytes[i] \in 0..255
    BY <1>1 DEF Passwords
  <2>6. \A x \in 0..255 : /\ x \div 16 \in 0..15 /\ x % 16 \in 0..15
                         /\ (x \div 16) * 16 + (x % 16) = x
    OBVIOUS
  <2>7. /\ bytes[i] \div 16 \in 0..15 /\ bytes[i] % 16 \in 0..15
        /\ (bytes[i] \div 16) * 16 + (bytes[i] % 16) = bytes[i]
    BY <2>5, <2>6
  <2> HIDE DEF hex
  <2>8. hex[2 * i - 1] * 16 + hex[2 * i] = bytes[i]
    BY <2>3, <2>4, <2>7
  <2> QED
    BY <2>1, <2>3, <2>4, <2>7, <2>8
<1>4. HexToBytes(hex) = bytes
  <2>1. (2 * n) \div 2 = n
    <3>1. \A k \in Nat : (2 * k) \div 2 = k
      OBVIOUS
    <3> QED
      BY <1>1, <3>1
  <2>2. HexToBytes(hex) = [i \in 1..n |-> hex[2 * i - 1] * 16 + hex[2 * i]]
    BY <1>2, <2>1 DEF HexToBytes
  <2> HIDE DEF hex
  <2>3. HexToBytes(hex) = [i \in 1..n |-> bytes[i]]
    BY <1>3, <2>2
  <2>4. bytes = [i \in 1..n |-> bytes[i]]
    BY <1>1
  <2> QED
    BY <2>3, <2>4
<1>5. ASSUME NEW j \in 1..(2 * n) PROVE hex[j] \in 0..15
  <2> HIDE DEF hex
  <2>1. PICK i \in 1..n : j = 2 * i - 1 \/ j = 2 * i
    <3>1. (j + 1) \div 2 \in 1..n
          /\ (j = 2 * ((j + 1) \div 2) - 1 \/ j = 2 * ((j + 1) \div 2))
      BY <1>1
    <3> QED
      BY <3>1
  <2> QED
    BY <1>3, <2>1
<1>6. ~BadHex(hex)
  <2>1. (2 * n) % 2 = 0
    BY <1>1
  <2> HIDE DEF hex
  <2> QED
    BY <1>2, <1>5, <2>1 DEF BadHex
<1> QED
  BY <1>4, <1>6

\* What is stored tells the password of the owner from the others.
LEMMA PlaintextOpensNothing ==
  ASSUME NEW p, NEW owner PROVE ~VerifyPassword(p, Plaintext(owner))
<1>1. Plaintext(owner).form = "plain"
  BY DEF Plaintext
<1> QED
  BY <1>1 DEF VerifyPassword, VerifyPbkdf2, VerifyLegacySha256

LEMMA LegacyTells ==
  ASSUME NEW p \in Passwords, NEW owner \in Passwords, NEW salt
  PROVE  /\ VerifyPassword(p, Legacy(salt, owner)) <=> p = owner
         /\ ~VerifyPbkdf2(p, Legacy(salt, owner))
<1>1. /\ Legacy(salt, owner).form = "sha256"
      /\ Legacy(salt, owner).hash = ToHex(Sha256(Legacy(salt, owner).salt, owner))
  BY DEF Legacy, Sha256
<1>2. \A q \in Passwords : Sha256(salt, q) \in Seq(Passwords)
  BY DEF Sha256, Passwords
<1>3. \A q \in Passwords : HexToBytes(ToHex(Sha256(salt, q))) = Sha256(salt, q)
  BY <1>2, HexRoundTrip
<1>4. \A q \in Passwords : Sha256(salt, q)[1] = q
  BY DEF Sha256
<1>5. ToHex(Sha256(salt, owner)) = ToHex(Sha256(salt, p)) <=> p = owner
  BY <1>3, <1>4
<1>6. Legacy(salt, owner).salt = salt
  BY DEF Legacy
<1> QED
  BY <1>1, <1>5, <1>6 DEF VerifyPassword, VerifyPbkdf2, VerifyLegacySha256

LEMMA HashTells ==
  ASSUME NEW p \in Passwords, NEW owner \in Passwords
  PROVE  /\ VerifyPassword(p, HashPassword(owner)) <=> p = owner
         /\ ~VerifyLegacySha256(p, HashPassword(owner))
<1> DEFINE stored == HashPassword(owner)
           salt   == <<7>>
<1>1. /\ stored.form = "pbkdf2_sha256" /\ stored.iterations = Iterations
      /\ stored.salt = ToHex(salt) /\ stored.dk = ToHex(Pbkdf2(owner, salt, Iterations))
  BY DEF HashPassword
<1>2. /\ Iterations \in Nat /\ MinIterations \in 0..Iterations
  BY AccountsAssumption
<1>3. salt \in Seq(Passwords) /\ Len(salt) = 1 /\ salt[1] = 7
  BY DEF Passwords
<1>4. /\ Pbkdf2(owner, salt, Iterations) \in Seq(Passwords)
      /\ Len(Pbkdf2(owner, salt, Iterations)) = 2
  <2>1. owner \in 0..255 /\ (owner + salt[1] + Iterations) % 256 \in 0..255
    BY <1>2, <1>3 DEF Passwords
  <2> HIDE DEF salt
  <2> QED
    BY <2>1 DEF Pbkdf2, Passwords
<1>5. \A q \in Passwords : Pbkdf2(q, salt, Iterations)[1] = q
  BY DEF Pbkdf2
<1> HIDE DEF salt, stored
<1>6. /\ ~BadHex(stored.salt) /\ HexToBytes(stored.salt) = salt
      /\ ~BadHex(stored.dk) /\ HexToBytes(stored.dk) = Pbkdf2(owner, salt, Iterations)
  BY <1>1, <1>3, <1>4, HexRoundTrip
<1>7. VerifyPbkdf2(p, stored) <=> Pbkdf2(owner, salt, Iterations) = Pbkdf2(p, salt, Iterations)
  <2>1. stored.form = "pbkdf2_sha256" /\ stored.iterations >= MinIterations
    BY <1>1, <1>2
  <2>2. Len(HexToBytes(stored.dk)) = kDerivedKeyBytes /\ Len(HexToBytes(stored.salt)) > 0
    <3>1. Len(HexToBytes(stored.dk)) = 2
      BY <1>4, <1>6
    <3>2. Len(HexToBytes(stored.salt)) = 1
      BY <1>3, <1>6
    <3> QED
      BY <3>1, <3>2 DEF kDerivedKeyBytes
  <2>3. VerifyPbkdf2(p, stored) <=>
          HexToBytes(stored.dk) = Pbkdf2(p, HexToBytes(stored.salt), stored.iterations)
    BY <1>6, <2>1, <2>2 DEF VerifyPbkdf2
  <2> QED
    BY <1>1, <1>6, <2>3
<1>8. ~VerifyLegacySha256(p, stored)
  BY <1>1 DEF VerifyLegacySha256
<1>9. Pbkdf2(owner, salt, Iterations) = Pbkdf2(p, salt, Iterations) <=> p = owner
  BY <1>5
<1> QED
  BY <1>7, <1>8, <1>9 DEF VerifyPassword, stored

\* The three together.
LEMMA AccountTells ==
  ASSUME NEW account, AccountOK(account), NEW p \in Passwords
  PROVE  /\ VerifyPassword(p, account.stored) <=> p = account.owner /\ account.stored.form # "plain"
         /\ VerifyPassword(p, account.stored) => p = account.owner
<1>1. CASE account.stored = Plaintext(account.owner)
  BY <1>1, PlaintextOpensNothing DEF Plaintext
<1>2. CASE account.stored = Legacy(account.stored.salt, account.owner)
  <2> DEFINE salt == account.stored.salt
  <2>1. account.stored = Legacy(salt, account.owner)
    BY <1>2
  <2> HIDE DEF salt
  <2>2. account.stored.form = "sha256"
    BY <2>1 DEF Legacy
  <2>3. VerifyPassword(p, Legacy(salt, account.owner)) <=> p = account.owner
    BY LegacyTells DEF AccountOK
  <2> QED
    BY <2>1, <2>2, <2>3
<1>3. CASE account.stored = HashPassword(account.owner)
  <2>1. account.stored.form = "pbkdf2_sha256"
    BY <1>3 DEF HashPassword
  <2> QED
    BY <1>3, <2>1, HashTells DEF AccountOK
<1> QED
  BY <1>1, <1>2, <1>3 DEF AccountOK

-----------------------------------------------------------------------------
(* AccountsOK.                                                             *)

\* A row keeps its name and its owner.
Grows == /\ DOMAIN users \subseteq DOMAIN users'
         /\ \A i \in DOMAIN users : users'[i].name = users[i].name /\ users'[i].owner = users[i].owner

LEMMA KnowsUndisturbed ==
  ASSUME ThreadsOK, NEW u \in Threads, Knows(u), Undisturbed(u), Grows
  PROVE  Knows(u)'
<1>1. th'[u].pc = th[u].pc
  BY DEF ThreadsOK, ThreadOK, Undisturbed
<1>2. CASE th[u].pc = "idle"
  BY <1>1, <1>2 DEF Knows, Undisturbed, At, AccountPcs
<1>3. CASE th[u].pc # "idle"
  <2>1. th'[u].req = th[u].req
    BY <1>3 DEF ThreadsOK, ThreadOK, Undisturbed
  <2>2. "id" \in DOMAIN th'[u] => "id" \in DOMAIN th[u] /\ th'[u].id = th[u].id
    BY DEF Undisturbed
  <2>3. "id" \in DOMAIN th[u] => "id" \in DOMAIN th'[u] /\ th'[u].id = th[u].id
    BY DEF Undisturbed
  <2>4. \A i : Owned(u, i) => Owned(u, i)'
    BY <2>1 DEF Owned, Grows
  <2>5. (th[u].pc \in AccountPcs => th[u].req.password \in Passwords)'
    BY <1>1, <2>1 DEF Knows
  <2>6. (At(u, "upgrade") => "id" \in DOMAIN th[u] /\ Owned(u, th[u].id))'
    BY <1>1, <2>3, <2>4 DEF Knows, At
  <2>7. (At(u, "selectId") => \E i \in DOMAIN users : Owned(u, i))'
    BY <1>1, <2>4 DEF Knows, At, Grows
  <2>8. ("id" \in DOMAIN th[u] => th[u].pc # "idle" /\ (UniqueNames => Owned(u, th[u].id)))'
    BY <1>1, <2>2, <2>4 DEF Knows
  <2> QED
    BY <2>5, <2>6, <2>7, <2>8 DEF Knows
<1> QED
  BY <1>2, <1>3

LEMMA AccountsInitOK == Init => AccountsOK
<1> SUFFICES ASSUME Init PROVE AccountsOK
  OBVIOUS
<1>1. users = Accounts0 /\ th = [t \in Threads |-> Idle]
  BY DEF Init, AccountsInit, DispatchInit
<1>2. IsSeq(users)
  BY <1>1, AccountsAssumption DEF IsSeq
<1>3. ASSUME NEW i \in DOMAIN users PROVE AccountOK(users[i])
  BY <1>1, <1>3, AccountsAssumption DEF AccountOK
<1>4. UniqueNames => \A i, j \in DOMAIN users : users[i].name = users[j].name => i = j
  BY <1>1, AccountsAssumption
<1>5. \A t \in Threads : Knows(t)
  BY <1>1 DEF Knows, Idle, At, AccountPcs
<1> QED
  BY <1>2, <1>3, <1>4, <1>5 DEF AccountsOK

LEMMA GrowsRefl == UNCHANGED users => Grows
BY DEF Grows

\* The table is left alone, and the thread knows what it knew.
LEMMA AccountsKept ==
  ASSUME ThreadsOK, AccountsOK, UNCHANGED users, NEW t \in Threads,
         \A u \in Threads \ {t} : Undisturbed(u), Knows(t)'
  PROVE  AccountsOK'
<1>1. \A u \in Threads \ {t} : Knows(u)'
  BY KnowsUndisturbed, GrowsRefl DEF AccountsOK
<1>2. \A u \in Threads : Knows(u)'
  BY <1>1
<1> QED
  BY <1>2 DEF AccountsOK, AccountOK

\* A step of another component.
LEMMA AccountsElsewhere ==
  ASSUME ThreadsOK, AccountsOK, UNCHANGED users, NEW t \in Threads,
         th'[t].pc \notin {"idle", "insertUser", "selectId", "upgrade"},
         th'[t].pc \in {"login", "register"} => th'[t].req.password \in Passwords,
         \A u \in Threads \ {t} : Undisturbed(u),
         \/ "id" \notin DOMAIN th'[t]
         \/ Leaves(t, {"id"}) /\ th'[t].req = th[t].req
  PROVE  AccountsOK'
<1>1. ("id" \in DOMAIN th[t] => th[t].pc # "idle" /\ (UniqueNames => Owned(t, th[t].id)))'
  <2>1. CASE "id" \notin DOMAIN th'[t]
    BY <2>1
  <2>2. CASE Leaves(t, {"id"}) /\ th'[t].req = th[t].req
    BY <2>2 DEF Leaves, AccountsOK, Knows, Owned
  <2> QED
    BY <2>1, <2>2
<1>2. Knows(t)'
  BY <1>1 DEF Knows, At, AccountPcs
<1> QED
  BY <1>2, AccountsKept

LEMMA AccountsDispatch ==
  ASSUME ThreadsOK, AccountsOK, UNCHANGED users, NEW t \in Threads, Dispatches(t)
  PROVE  AccountsOK'
<1>1. th'[t].pc \notin {"idle", "insertUser", "selectId", "upgrade"}
  BY DEF Dispatches, HandlerPcs
<1>2. \/ "id" \notin DOMAIN th'[t]
      \/ Leaves(t, {"id"}) /\ th'[t].req = th[t].req
  BY DEF Dispatches, Inside, Leaves
<1> QED
  BY <1>1, <1>2, AccountsElsewhere DEF Dispatches

LEMMA AccountsOtherHandler ==
  ASSUME ThreadsOK, AccountsOK, UNCHANGED users, NEW t \in Threads, Handles(t),
         StaysIn(t, DirectoryPcs) \/ StaysIn(t, MediaPcs), Leaves(t, {"id"})
  PROVE  AccountsOK'
<1>1. th'[t].pc \notin AccountPcs \union {"idle"}
  BY DEF StaysIn, DirectoryPcs, ChatPcs, MediaPcs, AccountPcs
<1>2. th'[t].req = th[t].req /\ \A u \in Threads \ {t} : Undisturbed(u)
  BY DEF Handles, Alone, Undisturbed
<1> QED
  BY <1>1, <1>2, AccountsElsewhere DEF AccountPcs

LEMMA AccountsRestart ==
  ASSUME ThreadsOK, AccountsOK, Restart
  PROVE  AccountsOK'
<1>1. UNCHANGED users /\ th' = [t \in Threads |-> Idle]
  BY DEF Restart, Reset, accountVars
<1>2. \A t \in Threads : Knows(t)'
  BY <1>1 DEF Knows, Idle, At, AccountPcs
<1> QED
  BY <1>1, <1>2 DEF AccountsOK, AccountOK

\* A step of /register or /login that leaves the table alone.
LEMMA AccountsHandler ==
  ASSUME ThreadsOK, AccountsOK, UNCHANGED users, NEW t \in Threads, Handles(t),
         StaysIn(t, AccountPcs), Leaves(t, {"id"}),
         At(t, "upgrade")' => Owned(t, th[t].id)' /\ "id" \in DOMAIN th'[t],
         At(t, "selectId")' => \E i \in DOMAIN users : Owned(t, i)
  PROVE  AccountsOK'
<1>1. th'[t].req = th[t].req /\ \A u \in Threads \ {t} : Undisturbed(u)
  BY DEF Handles, Alone, Undisturbed
<1>2. \A i : Owned(t, i) => Owned(t, i)'
  BY <1>1 DEF Owned
<1>3. th'[t].pc # "idle" /\ (th[t].req.password \in Passwords)'
  BY <1>1 DEF StaysIn, AccountPcs, AccountsOK, Knows
<1>4. ("id" \in DOMAIN th[t] => th[t].pc # "idle" /\ (UniqueNames => Owned(t, th[t].id)))'
  BY <1>2, <1>3 DEF Leaves, AccountsOK, Knows
<1>5. (At(t, "selectId") => \E i \in DOMAIN users : Owned(t, i))'
  BY <1>2
<1>6. Knows(t)'
  BY <1>3, <1>4, <1>5 DEF Knows
<1> QED
  BY <1>1, <1>6, AccountsKept

\* A step that answers for account i, or goes on to upgrade it.
LEMMA AccountsAnswer ==
  ASSUME ThreadsOK, AccountsOK, UNCHANGED users, NEW t \in Threads, Handles(t),
         StaysIn(t, AccountPcs), th'[t].pc \notin {"selectId"},
         NEW i, "id" \in DOMAIN th'[t], th'[t].id = i,
         UniqueNames \/ th'[t].pc = "upgrade" => Owned(t, i)
  PROVE  AccountsOK'
<1>1. th'[t].req = th[t].req /\ \A u \in Threads \ {t} : Undisturbed(u)
  BY DEF Handles, Alone, Undisturbed
<1>2. Owned(t, i) => Owned(t, th[t].id)'
  BY <1>1 DEF Owned
<1>3. th'[t].pc # "idle" /\ (th[t].req.password \in Passwords)'
  BY <1>1 DEF StaysIn, AccountPcs, AccountsOK, Knows
<1>4. Knows(t)'
  BY <1>2, <1>3 DEF Knows, At
<1> QED
  BY <1>1, <1>4, AccountsKept

LEMMA InsertUserOK ==
  ASSUME ThreadsOK, AccountsOK, NEW t \in Threads, InsertUser(t), Handles(t),
         StaysIn(t, AccountPcs)
  PROVE  AccountsOK'
<1>0. th[t].pc = "insertUser" /\ th[t].pc \in InnerPcs
  BY DEF InsertUser, At, Handles
<1>1. CASE Throw(t) /\ UNCHANGED users
  <2>1. th'[t].pc = "done" /\ Leaves(t, {"id"})
    BY <1>0, <1>1, ThrowIs DEF Handles, Leaves
  <2> QED
    BY <1>1, <2>1, AccountsHandler DEF At
<1>2. CASE /\ ~(UniqueNames /\ Rows(th[t].req.name) # {})
           /\ users' = Append(users, [name |-> th[t].req.name, owner |-> th[t].req.password,
                                      stored |-> HashPassword(th[t].req.password)])
           /\ Goto(t, "selectId")
  <2> DEFINE account == [name |-> th[t].req.name, owner |-> th[t].req.password,
                         stored |-> HashPassword(th[t].req.password)]
  <2>0. PICK n : n = Len(users)
    OBVIOUS
  <2>1. /\ DOMAIN account = {"name", "owner", "stored"}
        /\ account.name = th[t].req.name /\ account.owner = th[t].req.password
        /\ account.stored = HashPassword(account.owner)
    OBVIOUS
  <2>2. users' = Append(users, account)
    BY <1>2
  <2> HIDE DEF account
  <2>3. th[t].req.password \in Passwords
    BY <1>0 DEF AccountsOK, Knows, AccountPcs
  <2>4. AccountOK(account)
    BY <2>1, <2>3 DEF AccountOK
  <2>5. /\ IsSeq(users') /\ n \in Nat /\ DOMAIN users = 1..n /\ DOMAIN users' = 1..(n + 1)
        /\ \A i \in 1..n : users'[i] = users[i]
        /\ users'[n + 1] = account
    BY <2>0, <2>2, AppendIs, IsSeqIs DEF AccountsOK
  <2>6. Grows
    BY <2>5 DEF Grows
  <2>7. \A i \in DOMAIN users' : i \in DOMAIN users \/ i = n + 1
    BY <2>5
  <2>8. \A i \in DOMAIN users' : AccountOK(users'[i])
    BY <2>4, <2>5, <2>7 DEF AccountsOK
  <2>9. UniqueNames => \A i, j \in DOMAIN users' : users'[i].name = users'[j].name => i = j
    <3> SUFFICES ASSUME UniqueNames, NEW i \in DOMAIN users', NEW j \in DOMAIN users',
                        users'[i].name = users'[j].name
                 PROVE  i = j
      OBVIOUS
    <3>1. \A k \in DOMAIN users : users[k].name # account.name
      BY <1>2, <2>1 DEF Rows
    <3> QED
      BY <2>5, <2>7, <3>1 DEF AccountsOK
  <2>10. th'[t].pc = "selectId" /\ Leaves(t, {"id"}) /\ th'[t].req = th[t].req
    <3>1. "selectId" \in InnerPcs
      BY DEF InnerPcs
    <3> QED
      BY <1>0, <1>2, <3>1, GotoIs DEF Handles, Leaves
  <2>11. Owned(t, n + 1)'
    <3>1. n + 1 \in DOMAIN users'
      BY <2>5
    <3> QED
      BY <2>1, <2>5, <2>10, <3>1 DEF Owned
  <2>12. ("id" \in DOMAIN th[t] => th[t].pc # "idle" /\ (UniqueNames => Owned(t, th[t].id)))'
    BY <2>6, <2>10 DEF Leaves, AccountsOK, Knows, Owned, Grows
  <2>13. Knows(t)'
    <3>1. n + 1 \in DOMAIN users'
      BY <2>5
    <3> QED
      BY <2>3, <2>10, <2>11, <2>12, <3>1 DEF Knows, At
  <2>14. \A u \in Threads \ {t} : Knows(u)'
    <3>1. \A u \in Threads \ {t} : Undisturbed(u)
      BY DEF Handles, Alone, Undisturbed
    <3> QED
      BY <2>6, <3>1, KnowsUndisturbed DEF AccountsOK
  <2>15. \A u \in Threads : Knows(u)'
    BY <2>13, <2>14
  <2> QED
    BY <2>5, <2>8, <2>9, <2>15 DEF AccountsOK
<1> QED
  BY <1>1, <1>2 DEF InsertUser

LEMMA UpgradeOK ==
  ASSUME ThreadsOK, AccountsOK, NEW t \in Threads, Upgrade(t), Handles(t),
         StaysIn(t, AccountPcs)
  PROVE  AccountsOK'
<1> DEFINE i == th[t].id
           new == [users[i] EXCEPT !.stored = HashPassword(th[t].req.password)]
<1>0. th[t].pc = "upgrade" /\ th[t].pc \in InnerPcs /\ Owned(t, i)
  BY DEF Upgrade, At, Handles, AccountsOK, Knows
<1>1. i \in DOMAIN users /\ AccountOK(users[i]) /\ users[i].owner = th[t].req.password
  BY <1>0 DEF Owned, AccountsOK
<1>2. users' = [users EXCEPT ![i] = new]
  BY DEF Upgrade
<1>3. /\ new.name = users[i].name /\ new.owner = users[i].owner
      /\ DOMAIN new = {"name", "owner", "stored"} /\ new.stored = HashPassword(new.owner)
  BY <1>1 DEF AccountOK
<1> HIDE DEF new, i
<1>4. AccountOK(new)
  BY <1>1, <1>3 DEF AccountOK
<1>5. /\ IsSeq(users') /\ DOMAIN users' = DOMAIN users
      /\ \A j \in DOMAIN users : users'[j] = IF j = i THEN new ELSE users[j]
  BY <1>1, <1>2, ExceptIs DEF AccountsOK
<1>6. Grows
  BY <1>3, <1>5 DEF Grows
<1>7. \A j \in DOMAIN users' : AccountOK(users'[j])
  BY <1>4, <1>5 DEF AccountsOK
<1>8. UniqueNames => \A j, k \in DOMAIN users' : users'[j].name = users'[k].name => j = k
  BY <1>5, <1>6 DEF AccountsOK, Grows
<1>9. th'[t].pc = "after" /\ Leaves(t, {"id"}) /\ th'[t].req = th[t].req
  <2>1. 200 \in Codes \ {0} /\ Respond(t, 200)
    BY DEF Codes, Upgrade
  <2> QED
    BY <1>0, <2>1, RespondIs DEF Handles, Leaves
<1>10. ("id" \in DOMAIN th[t] => th[t].pc # "idle" /\ (UniqueNames => Owned(t, th[t].id)))'
  BY <1>6, <1>9 DEF Leaves, AccountsOK, Knows, Owned, Grows
<1>11. Knows(t)'
  BY <1>9, <1>10 DEF Knows, At, AccountPcs
<1>12. \A u \in Threads \ {t} : Knows(u)'
  <2>1. \A u \in Threads \ {t} : Undisturbed(u)
    BY DEF Handles, Alone, Undisturbed
  <2> QED
    BY <1>6, <2>1, KnowsUndisturbed DEF AccountsOK
<1>13. \A u \in Threads : Knows(u)'
  BY <1>11, <1>12
<1> QED
  BY <1>5, <1>7, <1>8, <1>13 DEF AccountsOK

LEMMA VerifyUserOK ==
  ASSUME ThreadsOK, AccountsOK, NEW t \in Threads, VerifyUser(t), Handles(t),
         StaysIn(t, AccountPcs)
  PROVE  AccountsOK'
<1> DEFINE plain == th[t].req.password
<1>0. /\ th[t].pc = "login" /\ th[t].pc \in InnerPcs /\ plain \in Passwords
      /\ UNCHANGED users
  BY DEF VerifyUser, At, Handles, AccountsOK, Knows, AccountPcs, accountVars
<1>1. CASE Respond(t, 401)
  <2>1. 401 \in Codes \ {0}
    BY DEF Codes
  <2>2. th'[t].pc = "after" /\ Leaves(t, {"id"})
    BY <1>0, <1>1, <2>1, RespondIs DEF Handles, Leaves
  <2> QED
    BY <1>0, <2>2, AccountsHandler DEF At
<1>2. ASSUME NEW i \in Rows(th[t].req.name), VerifyPassword(plain, users[i].stored)
      PROVE  Owned(t, i)
  <2>1. i \in DOMAIN users /\ users[i].name = th[t].req.name /\ AccountOK(users[i])
    BY <1>2 DEF Rows, AccountsOK
  <2>2. plain = users[i].owner
    BY <1>0, <1>2, <2>1, AccountTells
  <2> QED
    BY <2>1, <2>2 DEF Owned
<1>3. CASE \E i \in Rows(th[t].req.name) : /\ VerifyPbkdf2(plain, users[i].stored)
                                          /\ Update(t, [pc |-> "after", code |-> 200, id |-> i])
  <2>1. PICK i \in Rows(th[t].req.name) : /\ VerifyPbkdf2(plain, users[i].stored)
                                         /\ Update(t, [pc |-> "after", code |-> 200, id |-> i])
    BY <1>3
  <2>2. Owned(t, i)
    BY <1>2, <2>1 DEF VerifyPassword
  <2>3. "id" \in DOMAIN th'[t] /\ th'[t].id = i /\ th'[t].pc = "after"
    BY <2>1, UpdateIs
  <2> QED
    BY <1>0, <2>2, <2>3, AccountsAnswer
<1>4. CASE \E i \in Rows(th[t].req.name) : /\ VerifyLegacySha256(plain, users[i].stored)
                                          /\ Update(t, [pc |-> "upgrade", id |-> i])
  <2>1. PICK i \in Rows(th[t].req.name) : /\ VerifyLegacySha256(plain, users[i].stored)
                                         /\ Update(t, [pc |-> "upgrade", id |-> i])
    BY <1>4
  <2>2. Owned(t, i)
    BY <1>2, <2>1 DEF VerifyPassword
  <2>3. "id" \in DOMAIN th'[t] /\ th'[t].id = i /\ th'[t].pc = "upgrade"
    BY <2>1, UpdateIs
  <2> QED
    BY <1>0, <2>2, <2>3, AccountsAnswer
<1> QED
  BY <1>1, <1>3, <1>4 DEF VerifyUser

LEMMA AccountStepOK ==
  ASSUME ThreadsOK, AccountsOK, NEW t \in Threads, AccountStep(t)
  PROVE  AccountsOK'
<1>0. Handles(t) /\ StaysIn(t, AccountPcs) /\ th[t].pc \in InnerPcs
  BY AccountHandles DEF Handles
<1>1. CASE StatementThrows(t)
  <2>1. UNCHANGED users
    BY <1>1 DEF StatementThrows
  <2>2. CASE Throw(t)
    <3>1. th'[t].pc = "done" /\ Leaves(t, {"id"})
      BY <1>0, <2>2, ThrowIs DEF Handles, Leaves
    <3> QED
      BY <1>0, <2>1, <3>1, AccountsHandler DEF At
  <2>3. CASE Respond(t, 400)
    <3>1. 400 \in Codes \ {0}
      BY DEF Codes
    <3>2. th'[t].pc = "after" /\ Leaves(t, {"id"})
      BY <1>0, <2>3, <3>1, RespondIs DEF Handles, Leaves
    <3> QED
      BY <1>0, <2>1, <3>2, AccountsHandler DEF At
  <2> QED
    BY <1>1, <2>2, <2>3 DEF StatementThrows
<1>2. CASE CheckUser(t)
  <2>1. UNCHANGED users
    BY <1>2 DEF CheckUser, accountVars
  <2>2. CASE Respond(t, 409)
    <3>1. 409 \in Codes \ {0}
      BY DEF Codes
    <3>2. th'[t].pc = "after" /\ Leaves(t, {"id"})
      BY <1>0, <2>2, <3>1, RespondIs DEF Handles, Leaves
    <3> QED
      BY <1>0, <2>1, <3>2, AccountsHandler DEF At
  <2>3. CASE Goto(t, "insertUser")
    <3>1. "insertUser" \in InnerPcs
      BY DEF InnerPcs
    <3>2. th'[t].pc = "insertUser" /\ Leaves(t, {"id"})
      BY <1>0, <2>3, <3>1, GotoIs DEF Handles, Leaves
    <3> QED
      BY <1>0, <2>1, <3>2, AccountsHandler DEF At
  <2> QED
    BY <1>2, <2>2, <2>3 DEF CheckUser
<1>3. CASE SelectId(t)
  <2>1. PICK i \in Rows(th[t].req.name) : Update(t, [pc |-> "after", code |-> 200, id |-> i])
    BY <1>3 DEF SelectId
  <2>2. "id" \in DOMAIN th'[t] /\ th'[t].id = i /\ th'[t].pc = "after"
    BY <2>1, UpdateIs
  <2>3. PICK j \in DOMAIN users : Owned(t, j)
    BY <1>3 DEF SelectId, AccountsOK, Knows
  <2>4. UniqueNames => i = j
    BY <2>1, <2>3 DEF Rows, Owned, AccountsOK
  <2>5. UniqueNames \/ th'[t].pc = "upgrade" => Owned(t, i)
    BY <2>2, <2>3, <2>4
  <2>6. UNCHANGED users
    BY <1>3 DEF SelectId, accountVars
  <2> QED
    BY <1>0, <2>2, <2>5, <2>6, AccountsAnswer
<1> QED
  BY <1>0, <1>1, <1>2, <1>3, InsertUserOK, VerifyUserOK, UpgradeOK DEF AccountStep

\* The steps of the dispatcher, whatever they do to requestOrigin_.
LEMMA DispatcherIs ==
  ASSUME ThreadsOK, NEW t \in Threads, Dispatcher(t)
  PROVE  Dispatches(t)
BY ReceiveIs, BeforeIs, FindRouteIs, PageIs, AfterIs DEF Dispatcher

LEMMA AccountsStep == ThreadsOK /\ AccountsOK /\ [Next]_vars => AccountsOK'
<1> SUFFICES ASSUME ThreadsOK, AccountsOK, [Next]_vars PROVE AccountsOK'
  OBVIOUS
<1>1. CASE Restart
  BY <1>1, AccountsRestart
<1>2. ASSUME NEW t \in Threads, Step(t) PROVE AccountsOK'
  <2>1. CASE Dispatcher(t) /\ UNCHANGED <<accountVars, chatVars, recognizers, restarts>>
    BY <2>1, DispatcherIs, AccountsDispatch DEF accountVars
  <2>2. CASE AccountStep(t)
    BY <2>2, AccountStepOK
  <2>3. CASE DirectoryStep(t) /\ UNCHANGED <<accountVars, recognizers, restarts>>
    <3>1. Handles(t) /\ StaysIn(t, DirectoryPcs) /\ Leaves(t, {"id"})
      BY <2>3, DirectoryHandles DEF Leaves
    <3> QED
      BY <2>3, <3>1, AccountsOtherHandler DEF accountVars
  <2>4. CASE MediaStep(t) /\ UNCHANGED <<accountVars, chatVars, restarts>>
    <3>1. Handles(t) /\ StaysIn(t, MediaPcs) /\ Leaves(t, {"id"})
      BY <2>4, MediaHandles DEF Leaves
    <3> QED
      BY <2>4, <3>1, AccountsOtherHandler DEF accountVars
  <2> QED
    BY <1>2, <2>1, <2>2, <2>3, <2>4 DEF Step
<1>3. CASE UNCHANGED <<th, accountVars>>
  BY <1>3 DEF accountVars, AccountsOK, AccountOK, Knows, Owned, At
<1> QED
  BY <1>1, <1>2, <1>3 DEF Next, vars, RegisterRoute

-----------------------------------------------------------------------------
(* chatInformation.                                                        *)

\* Chats come and keep their helper.
ChatsGrow ==
  /\ DOMAIN chats' = ChatUsers
  /\ \A u \in ChatUsers : /\ DOMAIN chats[u] \subseteq DOMAIN chats'[u]
                          /\ \A sid \in DOMAIN chats[u] : chats'[u][sid] = chats[u][sid]

LEMMA ChatsSame == DOMAIN chats = ChatUsers /\ UNCHANGED chats => ChatsGrow
BY DEF ChatsGrow

LEMMA EmplaceIs ==
  ASSUME DOMAIN chats = ChatUsers, NEW u \in ChatUsers, NEW sid, EmplaceHelper(u, sid)
  PROVE  ChatsGrow /\ DOMAIN chats'[u] = DOMAIN chats[u] \union {sid}
<1>1. CASE sid \in DOMAIN chats[u]
  BY <1>1 DEF EmplaceHelper, ChatsGrow
<1>2. CASE sid \notin DOMAIN chats[u]
  <2> DEFINE new == With(chats[u], [id \in {sid} |-> helpers + 1])
  <2>1. chats' = [chats EXCEPT ![u] = new]
    BY <1>2 DEF EmplaceHelper
  <2>2. /\ DOMAIN new = DOMAIN chats[u] \union {sid}
        /\ \A id \in DOMAIN chats[u] : new[id] = chats[u][id]
    BY <1>2 DEF With
  <2> HIDE DEF new
  <2>3. /\ DOMAIN chats' = ChatUsers /\ chats'[u] = new
        /\ \A v \in ChatUsers : v # u => chats'[v] = chats[v]
    BY <2>1
  <2> QED
    BY <2>2, <2>3 DEF ChatsGrow
<1> QED
  BY <1>1, <1>2

LEMMA HelpersInit == Init => Helpers
<1> SUFFICES ASSUME Init PROVE Helpers
  OBVIOUS
<1>1. DOMAIN chats = ChatUsers /\ \A t \in Threads : th[t].pc = "idle"
  BY DEF Init, DirectoryInit, DispatchInit, Idle
<1> QED
  BY <1>1 DEF Helpers

LEMMA HelpersKept ==
  ASSUME ThreadsOK, Helpers, ChatsGrow, NEW t \in Threads,
         \A u \in Threads \ {t} : Undisturbed(u),
         th'[t].pc \in {"chat", "pushId"} => Helped(t)'
  PROVE  Helpers'
<1>1. ASSUME NEW u \in Threads \ {t}, th'[u].pc \in {"chat", "pushId"} PROVE Helped(u)'
  <2>1. th'[u].pc = th[u].pc /\ ThreadOK(u) /\ Undisturbed(u)
    BY DEF ThreadsOK, ThreadOK, Undisturbed
  <2>2. Helped(u)
    BY <1>1, <2>1 DEF Helpers
  <2>3. /\ th'[u].req = th[u].req /\ th'[u].sid = th[u].sid /\ th'[u].helper = th[u].helper
        /\ {"sid", "helper"} \subseteq DOMAIN th'[u]
    BY <1>1, <2>1, <2>2 DEF ThreadOK, Undisturbed, Helped
  <2> QED
    BY <2>2, <2>3 DEF Helped, ChatsGrow, UserOf
<1> QED
  BY <1>1 DEF Helpers, ChatsGrow

\* The steps that find a chat or make one.
LEMMA SendIs ==
  ASSUME ThreadsOK, Helpers, NEW t \in Threads, Send(t) \/ Create(t)
  PROVE  /\ ChatsGrow /\ Helped(t)' /\ th'[t].pc \in {"chat", "pushId"}
         /\ UserOf(t) \in ChatUsers /\ UserOf(t)' = UserOf(t)
         /\ DOMAIN chats'[UserOf(t)] = DOMAIN chats[UserOf(t)] \union {th'[t].sid}
<1>0. UserOf(t) # "" /\ th[t].pc \in {"send", "create"}
  BY DEF Send, Create, Authorized, At
<1>1. UserOf(t) \in ChatUsers /\ "req" \in DOMAIN th[t]
  BY <1>0, UserIsOne DEF ThreadsOK, ThreadOK
<1>2. PICK sid : /\ EmplaceHelper(UserOf(t), sid)
                 /\ \/ Update(t, [pc |-> "chat", sid |-> sid, helper |-> chats'[UserOf(t)][sid]])
                    \/ \E p \in {"chat", "pushId"}, node \in {Len(nodes[UserOf(t)])} :
                         Update(t, [pc |-> p, sid |-> sid, helper |-> chats'[UserOf(t)][sid],
                                    node |-> node])
  <2>1. CASE Send(t)
    BY <2>1 DEF Send
  <2>2. CASE Create(t)
    <3> DEFINE sid == GeneratedIds[generated + 1]
    <3>1. /\ EmplaceHelper(UserOf(t), sid)
          /\ \E p \in {"chat", "pushId"}, node \in {Len(nodes[UserOf(t)])} :
               Update(t, [pc |-> p, sid |-> sid, helper |-> chats'[UserOf(t)][sid],
                          node |-> node])
      BY <2>2 DEF Create
    <3> QED
      BY <3>1
  <2> QED
    BY <2>1, <2>2
<1>3. ChatsGrow /\ DOMAIN chats'[UserOf(t)] = DOMAIN chats[UserOf(t)] \union {sid}
  BY <1>1, <1>2, EmplaceIs DEF Helpers
<1>4. /\ {"sid", "helper"} \subseteq DOMAIN th'[t] /\ th'[t].sid = sid
      /\ th'[t].helper = chats'[UserOf(t)][sid]
      /\ th'[t].pc \in {"chat", "pushId"} /\ th'[t].req = th[t].req
  <2>1. CASE Update(t, [pc |-> "chat", sid |-> sid, helper |-> chats'[UserOf(t)][sid]])
    BY <1>1, <2>1, UpdateIs
  <2>2. ASSUME NEW p \in {"chat", "pushId"}, NEW node \in {Len(nodes[UserOf(t)])},
               Update(t, [pc |-> p, sid |-> sid, helper |-> chats'[UserOf(t)][sid],
                          node |-> node])
        PROVE  /\ {"sid", "helper"} \subseteq DOMAIN th'[t] /\ th'[t].sid = sid
               /\ th'[t].helper = chats'[UserOf(t)][sid]
               /\ th'[t].pc \in {"chat", "pushId"} /\ th'[t].req = th[t].req
    BY <1>1, <2>2, UpdateIs
  <2> QED
    BY <1>2, <2>1, <2>2
<1>5. UserOf(t)' = UserOf(t)
  BY <1>4 DEF UserOf
<1> QED
  BY <1>1, <1>3, <1>4, <1>5 DEF Helped

LEMMA PushIdIs ==
  ASSUME ThreadsOK, Helpers, NEW t \in Threads, PushId(t)
  PROVE  /\ th[t].pc = "pushId" /\ th'[t].pc = "chat" /\ Helped(t)
         /\ UserOf(t)' = UserOf(t) /\ Helped(t)' /\ UNCHANGED chats
<1>1. th[t].pc = "pushId" /\ Helped(t) /\ UNCHANGED chats /\ ThreadOK(t)
  BY DEF PushId, At, Helpers, ThreadsOK
<1>2. /\ th'[t].pc = "chat" /\ DOMAIN th'[t] = DOMAIN th[t] \union {"pc"}
      /\ \A f \in DOMAIN th[t] : f # "pc" => th'[t][f] = th[t][f]
  <2>1. Update(t, [pc |-> "chat"])
    BY DEF PushId, Goto
  <2> QED
    BY <2>1, UpdateIs
<1>3. /\ th'[t].req = th[t].req /\ th'[t].sid = th[t].sid /\ th'[t].helper = th[t].helper
      /\ {"sid", "helper"} \subseteq DOMAIN th'[t]
  BY <1>1, <1>2 DEF ThreadOK, Helped
<1>4. UserOf(t)' = UserOf(t)
  BY <1>3 DEF UserOf
<1> QED
  BY <1>1, <1>2, <1>3, <1>4 DEF Helped

\* What the steps outside of the directory are to it.
LEMMA Elsewhere ==
  ASSUME ThreadsOK, NEW t \in Threads, Dispatcher(t) \/ AccountStep(t) \/ MediaStep(t)
  PROVE  /\ \A u \in Threads \ {t} : Undisturbed(u)
         /\ th'[t].pc \notin {"chat", "pushId", "copyIds"}
<1>1. CASE Dispatcher(t)
  BY <1>1, DispatcherIs DEF Dispatches, HandlerPcs
<1>2. CASE AccountStep(t)
  BY <1>2, AccountHandles DEF Handles, Alone, Undisturbed, StaysIn, AccountPcs
<1>3. CASE MediaStep(t)
  BY <1>3, MediaHandles DEF Handles, Alone, Undisturbed, StaysIn, MediaPcs
<1> QED
  BY <1>1, <1>2, <1>3

\* The directory's steps that end in an answer.
LEMMA AnswerIs ==
  ASSUME ThreadsOK, NEW t \in Threads,
         ChatUnauthorized(t) \/ Chat(t) \/ History(t) \/ CopyIds(t), UNCHANGED dispatchVars
  PROVE  th'[t].pc = "after"
<1>1. \A code : Respond(t, code) => th'[t].pc = "after"
  <2> TAKE code
  <2> HAVE Respond(t, code)
  <2>1. Update(t, [pc |-> "after", code |-> code])
    BY DEF Respond
  <2> QED
    BY <2>1, UpdateIs
<1>2. CASE CopyIds(t)
  <2>1. PICK list : Update(t, [pc |-> "after", code |-> 200, list |-> list])
    BY <1>2 DEF CopyIds
  <2> QED
    BY <2>1, UpdateIs
<1>3. CASE ChatUnauthorized(t)
  BY <1>1, <1>3 DEF ChatUnauthorized
<1>4. CASE Chat(t)
  BY <1>1, <1>4 DEF Chat
<1>5. CASE History(t)
  BY <1>1, <1>5 DEF History
<1> QED
  BY <1>2, <1>3, <1>4, <1>5

LEMMA HistoryIs ==
  ASSUME ThreadsOK, Helpers, NEW t \in Threads, History(t)
  PROVE  ChatsGrow
<1>1. UserOf(t) \in ChatUsers
  BY UserIsOne DEF History, Authorized, At
<1> QED
  BY <1>1, EmplaceIs DEF History, Helpers

LEMMA FindIdsIs ==
  ASSUME ThreadsOK, NEW t \in Threads, FindIds(t)
  PROVE  /\ th'[t].pc = "copyIds" /\ UNCHANGED chatVars
         /\ UserOf(t) \in ChatUsers /\ UserOf(t)' = UserOf(t)
         /\ "node" \in DOMAIN th'[t] /\ th'[t].node = Len(nodes[UserOf(t)])
<1>0. th[t].pc = "sessions" /\ UserOf(t) # ""
  BY DEF FindIds, Authorized, At
<1>1. UserOf(t) \in ChatUsers /\ "req" \in DOMAIN th[t]
  BY <1>0, UserIsOne DEF ThreadsOK, ThreadOK
<1>2. Update(t, [pc |-> "copyIds", node |-> Len(nodes[UserOf(t)])]) /\ UNCHANGED chatVars
  BY DEF FindIds
<1>3. /\ th'[t].pc = "copyIds" /\ "node" \in DOMAIN th'[t]
      /\ th'[t].node = Len(nodes[UserOf(t)]) /\ th'[t].req = th[t].req
  BY <1>1, <1>2, UpdateIs
<1> QED
  BY <1>1, <1>2, <1>3 DEF UserOf

LEMMA DirectoryGrows ==
  ASSUME ThreadsOK, Helpers, NEW t \in Threads, DirectoryStep(t)
  PROVE  /\ ChatsGrow /\ \A u \in Threads \ {t} : Undisturbed(u)
         /\ th'[t].pc \in {"chat", "pushId"} => Helped(t)'
<1>1. \A u \in Threads \ {t} : Undisturbed(u)
  BY DirectoryHandles DEF Handles, Alone, Undisturbed
<1>2. UNCHANGED dispatchVars
  BY DEF DirectoryStep
<1>3. CASE Send(t) \/ Create(t)
  BY <1>1, <1>3, SendIs
<1>4. CASE PushId(t)
  BY <1>1, <1>4, PushIdIs, ChatsSame DEF Helpers
<1>5. CASE ChatUnauthorized(t) \/ Chat(t) \/ CopyIds(t)
  <2>1. UNCHANGED chats
    BY <1>5 DEF ChatUnauthorized, Chat, CopyIds, chatVars
  <2> QED
    BY <1>1, <1>2, <1>5, <2>1, AnswerIs, ChatsSame DEF Helpers
<1>6. CASE History(t)
  BY <1>1, <1>2, <1>6, AnswerIs, HistoryIs
<1>7. CASE FindIds(t)
  BY <1>1, <1>7, FindIdsIs, ChatsSame DEF chatVars, Helpers
<1> QED
  BY <1>3, <1>4, <1>5, <1>6, <1>7 DEF DirectoryStep

LEMMA HelpersStep == ThreadsOK /\ Helpers /\ [Next]_vars => Helpers'
<1> SUFFICES ASSUME ThreadsOK, Helpers, [Next]_vars PROVE Helpers'
  OBVIOUS
<1>1. CASE Restart
  <2>1. DOMAIN chats' = ChatUsers /\ \A t \in Threads : th'[t].pc = "idle"
    BY <1>1 DEF Restart, Reset, RestoreDirectory, Idle
  <2> QED
    BY <2>1 DEF Helpers
<1>2. ASSUME NEW t \in Threads, Step(t) PROVE Helpers'
  <2>1. CASE /\ Dispatcher(t) \/ AccountStep(t) \/ MediaStep(t)
             /\ UNCHANGED chatVars
    BY <2>1, Elsewhere, ChatsSame, HelpersKept DEF chatVars, Helpers
  <2>2. CASE DirectoryStep(t)
    BY <2>2, DirectoryGrows, HelpersKept
  <2> QED
    BY <1>2, <2>1, <2>2 DEF Step
<1>3. CASE UNCHANGED <<th, chatVars>>
  BY <1>3 DEF chatVars, Helpers, Helped, UserOf
<1> QED
  BY <1>1, <1>2, <1>3 DEF Next, vars, RegisterRoute

-----------------------------------------------------------------------------
(* InOrder: a set of numbers can be put in order.                          *)

Increasing(order) == \A i, j \in DOMAIN order : i < j => order[i] < order[j]
Ordered(T)        == \E order \in [1..Cardinality(T) -> T] : Increasing(order)

LEMMA OrderOneMore ==
  ASSUME NEW k \in Nat, NEW T, T \subseteq 1..(k + 1), k + 1 \in T, Ordered(T \ {k + 1})
  PROVE  Ordered(T)
<1> DEFINE rest == T \ {k + 1}
<1>1. IsFiniteSet(T)
  <2>1. IsFiniteSet(1..(k + 1))
    BY FS_Interval
  <2> QED
    BY <2>1, FS_Subset
<1>2. /\ IsFiniteSet(rest) /\ Cardinality(rest) = Cardinality(T) - 1
      /\ Cardinality(T) \in Nat /\ Cardinality(rest) \in Nat
  <2>1. IsFiniteSet(rest) /\ Cardinality(rest) = Cardinality(T) - 1
    BY <1>1, FS_RemoveElement
  <2> QED
    BY <1>1, <2>1, FS_CardinalityType
<1>3. PICK n \in Nat : n = Cardinality(rest) /\ n + 1 = Cardinality(T)
  BY <1>2
<1>4. PICK order \in [1..n -> rest] : Increasing(order)
  BY <1>3 DEF Ordered
<1> DEFINE more == [i \in 1..(n + 1) |-> IF i = n + 1 THEN k + 1 ELSE order[i]]
<1>5. \A i \in 1..(n + 1) : i # n + 1 => i \in 1..n
  OBVIOUS
<1>6. more \in [1..(n + 1) -> T]
  BY <1>4, <1>5
<1>7. Increasing(more)
  <2> SUFFICES ASSUME NEW i \in 1..(n + 1), NEW j \in 1..(n + 1), i < j
               PROVE  more[i] < more[j]
    BY DEF Increasing
  <2>1. i \in 1..n /\ more[i] = order[i] /\ order[i] \in rest
    BY <1>4
  <2>2. CASE j = n + 1
    <3>1. order[i] \in 1..(k + 1) /\ order[i] # k + 1
      BY <2>1
    <3>2. more[j] = k + 1
      BY <2>2
    <3> QED
      BY <2>1, <3>1, <3>2
  <2>3. CASE j # n + 1
    <3>1. j \in 1..n /\ more[j] = order[j]
      BY <2>3
    <3>2. order[i] < order[j]
      BY <1>4, <2>1, <3>1 DEF Increasing
    <3> QED
      BY <2>1, <3>1, <3>2
  <2> QED
    BY <2>2, <2>3
<1> HIDE DEF more
<1> QED
  BY <1>3, <1>6, <1>7 DEF Ordered

\* By induction on the largest number that may be in the set.
LEMMA CanBeOrdered ==
  ASSUME NEW n \in Nat, NEW T, T \subseteq 1..n
  PROVE  Ordered(T)
<1> DEFINE Bad == {k \in Nat : \E S \in SUBSET (1..k) : ~Ordered(S)}
<1>1. SUFFICES ASSUME Bad # {} PROVE FALSE
  OBVIOUS
<1>2. PICK k \in Bad : \A j \in Bad : k <= j
  <2>1. Bad \subseteq Nat
    OBVIOUS
  <2> HIDE DEF Bad
  <2> QED
    BY <1>1, <2>1, Least
<1>3. PICK S \in SUBSET (1..k) : ~Ordered(S)
  OBVIOUS
<1>4. k \in Nat
  OBVIOUS
<1>5. k # 0
  <2>1. SUFFICES ASSUME k = 0 PROVE FALSE
    OBVIOUS
  <2>2. S = {}
    BY <2>1
  <2>4. Cardinality(S) = 0
    BY <2>2, FS_EmptySet
  <2>3. <<>> \in [1..0 -> S] /\ Increasing(<<>>)
    BY <2>2 DEF Increasing
  <2> QED
    BY <1>3, <2>3, <2>4 DEF Ordered
<1>6. k - 1 \in Nat /\ k - 1 \notin Bad /\ (k - 1) + 1 = k
  <2>1. k - 1 \in Nat /\ ~(k <= k - 1) /\ (k - 1) + 1 = k
    BY <1>4, <1>5
  <2> HIDE DEF Bad
  <2> QED
    BY <1>2, <2>1
<1>7. \A U \in SUBSET (1..(k - 1)) : Ordered(U)
  BY <1>6
<1>8. CASE k \in S
  <2>1. S \ {k} \in SUBSET (1..(k - 1))
    BY <1>4
  <2>2. Ordered(S \ {k})
    BY <1>7, <2>1
  <2>3. S \subseteq 1..((k - 1) + 1) /\ (k - 1) + 1 \in S /\ Ordered(S \ {(k - 1) + 1})
    BY <1>6, <1>8, <2>2
  <2> QED
    BY <1>3, <1>6, <2>3, OrderOneMore
<1>9. CASE k \notin S
  <2>1. S \in SUBSET (1..(k - 1))
    BY <1>4, <1>9
  <2> QED
    BY <1>3, <1>7, <2>1
<1> QED
  BY <1>8, <1>9

\* InOrder has every number, in order and once.
LEMMA InOrderIs ==
  ASSUME NEW n \in Nat, NEW T, T \subseteq 1..n
  PROVE  /\ DOMAIN InOrder(T) = 1..Cardinality(T) /\ Cardinality(T) \in Nat
         /\ \A i \in DOMAIN InOrder(T) : InOrder(T)[i] \in T
         /\ Increasing(InOrder(T))
         /\ \A x \in T : \E i \in DOMAIN InOrder(T) : InOrder(T)[i] = x
<1> DEFINE m == Cardinality(T)
           order == InOrder(T)
<1>1. IsFiniteSet(T) /\ m \in Nat
  <2>1. IsFiniteSet(1..n)
    BY FS_Interval
  <2> QED
    BY <2>1, FS_Subset, FS_CardinalityType
<1>2. order \in [1..m -> T] /\ Increasing(order)
  BY CanBeOrdered DEF InOrder, Ordered, Increasing
<1> HIDE DEF order
<1>3. order \in Injection(1..m, T)
  <2> SUFFICES ASSUME NEW i \in 1..m, NEW j \in 1..m, order[i] = order[j] PROVE i = j
    BY <1>2 DEF Injection, IsInjective
  <2>1. order[i] \in Nat /\ order[j] \in Nat
    <3>1. order[i] \in T /\ order[j] \in T
      BY <1>2
    <3>2. 1..n \subseteq Nat
      OBVIOUS
    <3> QED
      BY <3>1, <3>2
  <2>2. ~(i < j) /\ ~(j < i)
    BY <1>2, <2>1 DEF Increasing
  <2>3. i \in Int /\ j \in Int
    OBVIOUS
  <2> QED
    BY <2>2, <2>3
<1>4. Cardinality(1..m) = m
  BY <1>1, FS_Interval
<1>5. order \in Surjection(1..m, T)
  BY <1>1, <1>3, <1>4, FS_Injection
<1>6. \A x \in T : \E i \in 1..m : order[i] = x
  BY <1>5 DEF Surjection
<1> QED
  BY <1>1, <1>2, <1>6 DEF order

-----------------------------------------------------------------------------
(* What is read from the table.                                            *)

\* StoredIds has the id of every row of the user, once.
LEMMA StoredIdsAre ==
  ASSUME Stored, NEW u
  PROVE  /\ IsSeq(StoredIds(u)) /\ IsInjective(StoredIds(u))
         /\ \A i \in DOMAIN rows : rows[i][1] = u => rows[i][2] \in Range(StoredIds(u))
         /\ \A k \in DOMAIN StoredIds(u) :
              \E i \in DOMAIN rows : rows[i][1] = u /\ rows[i][2] = StoredIds(u)[k]
<1> DEFINE first == {i \in DOMAIN rows : rows[i][1] = u /\ \A j \in 1..(i - 1) : rows[j] # rows[i]}
           order == InOrder(first)
           ids   == StoredIds(u)
<1>1. PICK n \in Nat : DOMAIN rows = 1..n
  BY IsSeqIs DEF Stored
<1>2. first \subseteq 1..n
  BY <1>1
<1>3. \A i \in first : rows[i][1] = u /\ i \in DOMAIN rows /\ \A j \in 1..(i - 1) : rows[j] # rows[i]
  OBVIOUS
<1>4. \A i \in DOMAIN rows : rows[i][1] = u /\ (\A j \in 1..(i - 1) : rows[j] # rows[i]) => i \in first
  OBVIOUS
<1>5. ids = [k \in DOMAIN order |-> rows[order[k]][2]]
  BY DEF StoredIds
<1> HIDE DEF first
<1>6. PICK m \in Nat :
         /\ DOMAIN order = 1..m
         /\ \A i \in DOMAIN order : order[i] \in first
         /\ Increasing(order)
         /\ \A x \in first : \E i \in DOMAIN order : order[i] = x
  BY <1>1, <1>2, InOrderIs
<1> HIDE DEF order, ids
<1>7. IsSeq(ids)
  <2>1. ids \in [1..m -> Range(ids)]
    BY <1>5, <1>6 DEF Range
  <2>2. ids \in Seq(Range(ids))
    BY <2>1
  <2> QED
    BY <2>2 DEF IsSeq
<1>8. ASSUME NEW k \in DOMAIN ids
      PROVE  /\ order[k] \in first /\ rows[order[k]] = <<u, ids[k]>>
  <2>1. order[k] \in first /\ ids[k] = rows[order[k]][2]
    BY <1>5, <1>6, <1>8
  <2>2. rows[order[k]][1] = u /\ RowOK(rows[order[k]])
    BY <1>3, <2>1 DEF Stored
  <2> QED
    BY <2>1, <2>2 DEF RowOK
<1>9. IsInjective(ids)
  <2> SUFFICES ASSUME NEW k \in DOMAIN ids, NEW l \in DOMAIN ids, ids[k] = ids[l] PROVE k = l
    BY DEF IsInjective
  <2>1. k \in 1..m /\ l \in 1..m
    BY <1>5, <1>6
  <2>2. order[k] \in 1..n /\ order[l] \in 1..n /\ rows[order[k]] = rows[order[l]]
    BY <1>2, <1>8
  <2>3. order[k] \in first /\ order[l] \in first
    BY <1>8
  <2>4. ~(order[k] < order[l]) /\ ~(order[l] < order[k])
    <3>1. \A i, j \in 1..n : i < j => i \in 1..(j - 1)
      OBVIOUS
    <3>2. ~(order[k] \in 1..(order[l] - 1)) /\ ~(order[l] \in 1..(order[k] - 1))
      BY <1>3, <2>2, <2>3
    <3> QED
      BY <2>2, <3>1, <3>2
  <2>5. (k < l => order[k] < order[l]) /\ (l < k => order[l] < order[k])
    BY <1>6, <2>1 DEF Increasing
  <2>6. k \in Int /\ l \in Int
    BY <2>1
  <2> QED
    BY <2>4, <2>5, <2>6
<1>10. ASSUME NEW i \in DOMAIN rows, rows[i][1] = u PROVE rows[i][2] \in Range(ids)
  <2> DEFINE same == {j \in DOMAIN rows : rows[j] = rows[i]}
  <2>1. same \subseteq Nat /\ same # {}
    BY <1>1
  <2>2. \A j \in same : j \in 1..n /\ rows[j] = rows[i]
    BY <1>1
  <2>3. \A j \in DOMAIN rows : rows[j] = rows[i] => j \in same
    OBVIOUS
  <2> HIDE DEF same
  <2>4. PICK x \in same : \A y \in same : x <= y
    BY <2>1, Least
  <2>5. \A j \in 1..(x - 1) : rows[j] # rows[x]
    <3> SUFFICES ASSUME NEW j \in 1..(x - 1), rows[j] = rows[x] PROVE FALSE
      OBVIOUS
    <3>1. j \in 1..n /\ ~(x <= j)
      BY <2>2
    <3>2. j \in same
      BY <1>1, <2>2, <2>3, <3>1
    <3> QED
      BY <2>4, <3>1, <3>2
  <2>6. x \in first
    BY <1>1, <1>4, <1>10, <2>2, <2>5
  <2>7. PICK k \in DOMAIN order : order[k] = x
    BY <1>6, <2>6
  <2>8. k \in DOMAIN ids /\ ids[k] = rows[i][2]
    BY <1>5, <2>2, <2>7
  <2> QED
    BY <2>8 DEF Range
<1>11. ASSUME NEW k \in DOMAIN ids
       PROVE  \E i \in DOMAIN rows : rows[i][1] = u /\ rows[i][2] = ids[k]
  <2>1. order[k] \in DOMAIN rows /\ rows[order[k]][1] = u /\ rows[order[k]][2] = ids[k]
    BY <1>3, <1>8
  <2> QED
    BY <2>1
<1> QED
  BY <1>7, <1>9, <1>10, <1>11 DEF ids

-----------------------------------------------------------------------------
(* sessionsIdsMap.                                                         *)

LEMMA ListsInit == Init => Lists
<1> SUFFICES ASSUME Init PROVE Lists
  OBVIOUS
<1>1. /\ nodes = [u \in ChatUsers |-> <<>>] /\ created = {}
      /\ \A t \in Threads : th[t].pc = "idle"
  BY DEF Init, DirectoryInit, DispatchInit, Idle
<1>2. \A u \in ChatUsers : nodes[u] = <<>> /\ IsSeq(nodes[u])
  <2>1. <<>> \in Seq({})
    OBVIOUS
  <2> QED
    BY <1>1, <2>1, IsSeqIs
<1> QED
  BY <1>1, <1>2 DEF Lists, ListOK, Mutexes, At

LEMMA ListKept ==
  ASSUME NEW u \in ChatUsers, ListOK(u), ChatsGrow, nodes'[u] = nodes[u]
  PROVE  ListOK(u)'
BY DEF ListOK, NodeOK, ChatsGrow

\* A node of its own is inserted.
LEMMA NodeAdded ==
  ASSUME NEW u \in ChatUsers, ListOK(u), ChatsGrow, NEW ids, NEW by, IsSeq(ids),
         Range(ids) \subseteq DOMAIN chats'[u], IsInjective(ids),
         nodes'[u] = Append(nodes[u], [ids |-> ids, by |-> by])
  PROVE  /\ ListOK(u)' /\ Len(nodes[u]) \in Nat /\ Len(nodes'[u]) = Len(nodes[u]) + 1
         /\ DOMAIN nodes[u] = 1..Len(nodes[u]) /\ DOMAIN nodes'[u] = 1..(Len(nodes[u]) + 1)
         /\ \A i \in DOMAIN nodes[u] : nodes'[u][i] = nodes[u][i]
         /\ nodes'[u][Len(nodes[u]) + 1] = [ids |-> ids, by |-> by]
<1> DEFINE node == [ids |-> ids, by |-> by]
<1>0. NodeOK(node) /\ node.ids = ids
  BY DEF NodeOK
<1> HIDE DEF node
<1>1. PICK n \in Nat : n = Len(nodes[u]) /\ DOMAIN nodes[u] = 1..n
  BY IsSeqIs DEF ListOK
<1>2. /\ IsSeq(nodes'[u]) /\ Len(nodes'[u]) = n + 1 /\ DOMAIN nodes'[u] = 1..(n + 1)
      /\ \A i \in 1..n : nodes'[u][i] = nodes[u][i]
      /\ nodes'[u][n + 1] = node
  BY <1>1, AppendIs DEF ListOK, node
<1>3. ASSUME NEW i \in 1..(n + 1)
      PROVE  /\ NodeOK(nodes'[u][i])
             /\ Range(nodes'[u][i].ids) \subseteq DOMAIN chats'[u]
             /\ IsInjective(nodes'[u][i].ids)
  <2>1. CASE i = n + 1
    BY <1>0, <1>2, <2>1
  <2>2. CASE i # n + 1
    <3>1. i \in 1..n
      BY <2>2
    <3>2. nodes'[u][i] = nodes[u][i] /\ i \in DOMAIN nodes[u]
      BY <1>1, <1>2, <3>1
    <3> QED
      BY <3>2 DEF ListOK, ChatsGrow
  <2> QED
    BY <2>1, <2>2
<1>4. ListOK(u)'
  BY <1>2, <1>3 DEF ListOK, NodeOK
<1> QED
  BY <1>1, <1>2, <1>4 DEF node

\* An id is pushed to a node that has it not.
LEMMA IdAdded ==
  ASSUME NEW u \in ChatUsers, ListOK(u), ChatsGrow, NEW n \in DOMAIN nodes[u],
         NEW sid \in DOMAIN chats'[u], sid \notin Range(nodes[u][n].ids),
         nodes'[u] = [nodes[u] EXCEPT ![n].ids = Append(@, sid)]
  PROVE  /\ ListOK(u)' /\ Len(nodes'[u]) = Len(nodes[u]) /\ DOMAIN nodes'[u] = DOMAIN nodes[u]
         /\ \A i \in DOMAIN nodes[u] : /\ nodes'[u][i].by = nodes[u][i].by
                                       /\ i # n => nodes'[u][i] = nodes[u][i]
         /\ nodes'[u][n].ids = Append(nodes[u][n].ids, sid)
<1> DEFINE ids  == nodes[u][n].ids
           more == Append(ids, sid)
           node == [nodes[u][n] EXCEPT !.ids = more]
<1>1. IsSeq(ids) /\ IsInjective(ids) /\ Range(ids) \subseteq DOMAIN chats[u] /\ NodeOK(nodes[u][n])
  BY DEF ListOK, NodeOK
<1>2. DOMAIN node = {"ids", "by"} /\ node.ids = more /\ node.by = nodes[u][n].by
  BY <1>1 DEF NodeOK
<1>3. nodes'[u] = [nodes[u] EXCEPT ![n] = node]
  OBVIOUS
<1> HIDE DEF node
<1>4. /\ IsSeq(nodes'[u]) /\ Len(nodes'[u]) = Len(nodes[u]) /\ DOMAIN nodes'[u] = DOMAIN nodes[u]
      /\ \A i \in DOMAIN nodes[u] : nodes'[u][i] = IF i = n THEN node ELSE nodes[u][i]
  <2>1. IsSeq(nodes[u])
    BY DEF ListOK
  <2>2. /\ IsSeq([nodes[u] EXCEPT ![n] = node])
        /\ Len([nodes[u] EXCEPT ![n] = node]) = Len(nodes[u])
        /\ DOMAIN [nodes[u] EXCEPT ![n] = node] = DOMAIN nodes[u]
        /\ \A i \in DOMAIN nodes[u] :
             [nodes[u] EXCEPT ![n] = node][i] = IF i = n THEN node ELSE nodes[u][i]
    BY <2>1, ExceptIs
  <2> QED
    BY <1>3, <2>2
<1>5. PICK m \in Nat : m = Len(ids) /\ DOMAIN ids = 1..m
  BY <1>1, IsSeqIs
<1>6. /\ IsSeq(more) /\ DOMAIN more = 1..(m + 1)
      /\ \A i \in 1..m : more[i] = ids[i]
      /\ more[m + 1] = sid
  BY <1>1, <1>5, AppendIs
<1>7. \A i \in 1..m : ids[i] \in Range(ids) /\ ids[i] # sid
  BY <1>5 DEF Range
<1> HIDE DEF ids, more
<1>8. \A i \in 1..(m + 1) : i = m + 1 \/ i \in 1..m
  OBVIOUS
<1>9. Range(more) \subseteq DOMAIN chats'[u]
  BY <1>1, <1>6, <1>7, <1>8 DEF Range, ChatsGrow
<1>10. IsInjective(more)
  <2> SUFFICES ASSUME NEW i \in 1..(m + 1), NEW j \in 1..(m + 1), more[i] = more[j] PROVE i = j
    BY <1>6 DEF IsInjective
  <2>1. CASE i \in 1..m /\ j \in 1..m
    BY <1>1, <1>5, <1>6, <2>1 DEF IsInjective
  <2> QED
    BY <1>6, <1>7, <1>8, <2>1
<1>11. ListOK(u)'
  <2>1. ASSUME NEW i \in DOMAIN nodes[u]
        PROVE  /\ NodeOK(nodes'[u][i])
               /\ Range(nodes'[u][i].ids) \subseteq DOMAIN chats'[u]
               /\ IsInjective(nodes'[u][i].ids)
    <3>1. CASE i = n
      BY <1>2, <1>4, <1>6, <1>9, <1>10, <3>1 DEF NodeOK
    <3>2. CASE i # n
      <4>1. nodes'[u][i] = nodes[u][i]
        BY <1>4, <3>2
      <4> QED
        BY <4>1 DEF ListOK, ChatsGrow
    <3> QED
      BY <3>1, <3>2
  <2> QED
    BY <1>4, <2>1 DEF ListOK, NodeOK
<1> QED
  BY <1>2, <1>4, <1>11 DEF more, ids

\* What a thread under a mutex knows when another one has made a step.
LEMMA Remembers ==
  ASSUME ThreadsOK, Helpers, Lists, NEW t \in Threads, Undisturbed(t)
  PROVE  /\ th'[t].pc = th[t].pc
         /\ th[t].pc \in {"pushId", "copyIds"} =>
              /\ UserOf(t)' = UserOf(t) /\ UserOf(t) \in ChatUsers
              /\ "node" \in DOMAIN th'[t] /\ th'[t].node = th[t].node
         /\ th[t].pc = "pushId" => th'[t].sid = th[t].sid
<1>1. ThreadOK(t)
  BY DEF ThreadsOK
<1>2. th'[t].pc = th[t].pc
  BY <1>1 DEF ThreadOK, Undisturbed
<1>3. ASSUME th[t].pc \in {"pushId", "copyIds"}
      PROVE  /\ th'[t].req = th[t].req /\ UserOf(t) \in ChatUsers
             /\ "node" \in DOMAIN th'[t] /\ th'[t].node = th[t].node
  <2>1. UserOf(t) \in ChatUsers /\ "node" \in DOMAIN th[t]
    BY <1>3 DEF Lists, Helpers, Helped, Found, Listing, At
  <2> QED
    BY <1>1, <1>3, <2>1 DEF ThreadOK, Undisturbed
<1>4. th[t].pc = "pushId" => th'[t].sid = th[t].sid
  BY DEF Helpers, Helped, Undisturbed
<1> QED
  BY <1>2, <1>3, <1>4 DEF UserOf

LEMMA MutexesKept ==
  ASSUME ThreadsOK, Helpers, Lists, NEW t \in Threads, \A u \in Threads \ {t} : Undisturbed(u),
         th'[t].pc = "pushId" => ChatInformationFree, th'[t].pc = "copyIds" => SessionsIdFree
  PROVE  Mutexes'
<1>1. \A u \in Threads \ {t} : th'[u].pc = th[u].pc
  BY Remembers
<1> QED
  BY <1>1 DEF Lists, Mutexes, At, ChatInformationFree, SessionsIdFree

\* A step that leaves sessionsIdsMap alone.
LEMMA ListsKept ==
  ASSUME ThreadsOK, Helpers, Lists, ChatsGrow, UNCHANGED <<nodes, created>>,
         NEW t \in Threads, \A u \in Threads \ {t} : Undisturbed(u),
         th'[t].pc = "pushId" => ChatInformationFree /\ Found(t)',
         th'[t].pc = "copyIds" => SessionsIdFree /\ Listing(t)'
  PROVE  Lists'
<1>1. Mutexes'
  BY MutexesKept
<1>2. DOMAIN nodes' = ChatUsers /\ \A u \in ChatUsers : ListOK(u)'
  BY ListKept DEF Lists
<1>3. ASSUME NEW u \in Threads \ {t}
      PROVE  (At(u, "pushId") => Found(u))' /\ (At(u, "copyIds") => Listing(u))'
  <2>0. Undisturbed(u) /\ (At(u, "pushId") => Found(u)) /\ (At(u, "copyIds") => Listing(u))
    BY DEF Lists
  <2>1. CASE th[u].pc = "pushId"
    <3>1. /\ th'[u].pc = "pushId" /\ UserOf(u)' = UserOf(u) /\ "node" \in DOMAIN th'[u]
          /\ th'[u].node = th[u].node /\ th'[u].sid = th[u].sid
      BY <2>0, <2>1, Remembers
    <3>2. Found(u)
      BY <2>0, <2>1 DEF At
    <3>3. Found(u)'
      BY <3>1, <3>2 DEF Found, Hidden
    <3> QED
      BY <3>1, <3>3 DEF At
  <2>2. CASE th[u].pc = "copyIds"
    <3>1. /\ th'[u].pc = "copyIds" /\ UserOf(u)' = UserOf(u) /\ "node" \in DOMAIN th'[u]
          /\ th'[u].node = th[u].node
      BY <2>0, <2>2, Remembers
    <3>2. Listing(u)
      BY <2>0, <2>2 DEF At
    <3> QED
      BY <3>1, <3>2 DEF At, Listing
  <2>3. CASE th[u].pc \notin {"pushId", "copyIds"}
    BY <2>0, <2>3, Remembers DEF At
  <2> QED
    BY <2>1, <2>2, <2>3
<1>4. \A c \in created' : Listed(c)'
  BY DEF Lists, Listed, Newest, Hidden
<1> QED
  BY <1>1, <1>2, <1>3, <1>4 DEF Lists, At

\* The search that /chat/send-new-session makes.
LEMMA CreateFound ==
  ASSUME ThreadsOK, Helpers, Lists, NEW t \in Threads, Create(t), th'[t].pc = "pushId"
  PROVE  ChatInformationFree /\ Found(t)' /\ UNCHANGED <<nodes, created>>
<1>1. /\ UserOf(t) \in ChatUsers /\ UserOf(t)' = UserOf(t)
      /\ ChatInformationFree /\ UNCHANGED <<nodes, created>>
  BY SendIs DEF Create
<1> DEFINE u   == UserOf(t)
           sid == GeneratedIds[generated + 1]
<1>2. Update(t, [pc |-> IF sid \in DOMAIN chats[u] THEN "chat" ELSE "pushId",
                 sid |-> sid, helper |-> chats'[u][sid], node |-> Len(nodes[u])])
  BY DEF Create
<1> HIDE DEF sid
<1>3. /\ th'[t].pc = IF sid \in DOMAIN chats[u] THEN "chat" ELSE "pushId"
      /\ "node" \in DOMAIN th'[t] /\ th'[t].node = Len(nodes[u]) /\ th'[t].sid = sid
  <2> HIDE DEF u
  <2> QED
    BY <1>2, UpdateIs
<1>4. sid \notin DOMAIN chats[u]
  BY <1>3
<1>5. ListOK(u)
  BY <1>1 DEF Lists
<1>6. \A i \in DOMAIN nodes[u] : sid \notin Range(nodes[u][i].ids)
  BY <1>4, <1>5 DEF ListOK
<1>7. Len(nodes[u]) \in Nat /\ DOMAIN nodes[u] = 1..Len(nodes[u]) /\ IsSeq(nodes[u])
  BY <1>5, IsSeqIs DEF ListOK
<1>8. Len(nodes[u]) = 0 => nodes[u] = <<>>
  BY <1>7 DEF IsSeq
<1>9. Found(t)'
  BY <1>1, <1>3, <1>6, <1>7, <1>8 DEF Found
<1> QED
  BY <1>1, <1>9

\* The list that a search finds, and whether it may be the wrong one.
LEMMA NewestIs ==
  ASSUME NEW u \in ChatUsers, ListOK(u)
  PROVE  /\ Len(nodes[u]) \in Nat /\ DOMAIN nodes[u] = 1..Len(nodes[u])
         /\ Len(nodes[u]) = 0 <=> nodes[u] = <<>>
         /\ nodes[u] # <<>> => Newest(u) = nodes[u][Len(nodes[u])].ids
         /\ nodes[u] = <<>> => ~Hidden(u) /\ \A e : ~Contains(Newest(u), e)
         /\ IsSeq(Newest(u))
         /\ Range(Newest(u)) \subseteq DOMAIN chats[u] /\ IsInjective(Newest(u))
<1>1. /\ IsSeq(nodes[u]) /\ Len(nodes[u]) \in Nat /\ DOMAIN nodes[u] = 1..Len(nodes[u])
      /\ Len(nodes[u]) = 0 <=> nodes[u] = <<>>
  <2>1. IsSeq(nodes[u])
    BY DEF ListOK
  <2> QED
    BY <2>1, IsSeqIs DEF IsSeq
<1>2. CASE nodes[u] = <<>>
  <2>1. Newest(u) = <<>>
    BY <1>2 DEF Newest
  <2>2. IsSeq(<<>>)
    <3>1. <<>> \in Seq({})
      OBVIOUS
    <3> QED
      BY <3>1, IsSeqIs
  <2>3. Range(<<>>) = {} /\ IsInjective(<<>>) /\ Len(<<>>) = 0
    BY DEF Range, IsInjective
  <2>4. \A e : ~Contains(<<>>, e)
    BY DEF Contains
  <2> QED
    BY <1>1, <1>2, <2>1, <2>2, <2>3, <2>4 DEF Hidden
<1>3. CASE nodes[u] # <<>>
  <2>1. Len(nodes[u]) \in DOMAIN nodes[u]
    BY <1>1, <1>3
  <2>2. Newest(u) = nodes[u][Len(nodes[u])].ids
    BY <1>3 DEF Newest
  <2> QED
    BY <1>1, <1>3, <2>1, <2>2 DEF ListOK, NodeOK
<1> QED
  BY <1>2, <1>3

\* After an insertion or a push_back.
ListsMore(u) == /\ Len(nodes[u]) <= Len(nodes'[u]) /\ Len(nodes'[u]) \in Nat
                /\ Hidden(u) => Hidden(u)'
                /\ \A e : Contains(Newest(u), e) => Contains(Newest(u), e)' \/ Hidden(u)'

\* An insertion beside other nodes hides them, unless it is a creation's.
LEMMA NodeAddedMore ==
  ASSUME NEW u \in ChatUsers, ListOK(u), ChatsGrow, NEW ids, NEW by, IsSeq(ids),
         Range(ids) \subseteq DOMAIN chats'[u], IsInjective(ids),
         nodes'[u] = Append(nodes[u], [ids |-> ids, by |-> by]),
         by = "sessions" \/ nodes[u] = <<>> \/ \E i \in DOMAIN nodes[u] : nodes[u][i].by = "sessions"
  PROVE  /\ ListOK(u)' /\ ListsMore(u)
         /\ nodes[u] # <<>> => Hidden(u)'
         /\ nodes'[u] # <<>> /\ Newest(u)' = ids
         /\ by = "sessions" => \E i \in DOMAIN nodes'[u] : nodes'[u][i].by = "sessions"
<1> DEFINE node == [ids |-> ids, by |-> by]
<1>1. /\ ListOK(u)' /\ Len(nodes[u]) \in Nat /\ Len(nodes'[u]) = Len(nodes[u]) + 1
      /\ DOMAIN nodes[u] = 1..Len(nodes[u]) /\ DOMAIN nodes'[u] = 1..(Len(nodes[u]) + 1)
      /\ \A i \in DOMAIN nodes[u] : nodes'[u][i] = nodes[u][i]
      /\ nodes'[u][Len(nodes[u]) + 1] = node
  BY NodeAdded
<1>2. node.by = by /\ node.ids = ids
  OBVIOUS
<1> HIDE DEF node
<1>3. PICK n \in Nat : n = Len(nodes[u])
  BY <1>1
<1>4. n + 1 \in DOMAIN nodes'[u] /\ \A i \in DOMAIN nodes[u] : i \in DOMAIN nodes'[u]
  BY <1>1, <1>3
<1>5. by = "sessions" => \E i \in DOMAIN nodes'[u] : nodes'[u][i].by = "sessions"
  BY <1>1, <1>2, <1>3, <1>4
<1>6. (\E i \in DOMAIN nodes[u] : nodes[u][i].by = "sessions")
        => \E i \in DOMAIN nodes'[u] : nodes'[u][i].by = "sessions"
  BY <1>1, <1>4
<1>7. nodes[u] # <<>> => n # 0
  BY <1>3, NewestIs
<1>8. nodes[u] # <<>> => Hidden(u)'
  <2>1. n # 0 => Len(nodes'[u]) > 1
    BY <1>1, <1>3
  <2> QED
    BY <1>5, <1>6, <1>7, <2>1 DEF Hidden
<1>9. Newest(u)' = ids /\ nodes'[u] # <<>>
  <2>1. Len(nodes'[u]) = n + 1 /\ nodes'[u] # <<>>
    <3>1. Len(nodes'[u]) = n + 1 /\ n + 1 # 0
      BY <1>1, <1>3
    <3> QED
      BY <3>1
  <2> QED
    BY <1>1, <1>2, <1>3, <2>1 DEF Newest
<1>10. ListsMore(u)
  <2>1. nodes[u] = <<>> => ~Hidden(u) /\ \A e : ~Contains(Newest(u), e)
    BY NewestIs
  <2>2. Len(nodes[u]) <= Len(nodes'[u]) /\ Len(nodes'[u]) \in Nat
    BY <1>1
  <2> QED
    BY <1>8, <2>1, <2>2 DEF ListsMore
<1> QED
  BY <1>1, <1>5, <1>8, <1>9, <1>10

\* A push_back loses nothing.
LEMMA IdAddedMore ==
  ASSUME NEW u \in ChatUsers, ListOK(u), ChatsGrow, NEW n \in DOMAIN nodes[u],
         NEW sid \in DOMAIN chats'[u], sid \notin Range(nodes[u][n].ids),
         nodes'[u] = [nodes[u] EXCEPT ![n].ids = Append(@, sid)]
  PROVE  /\ ListOK(u)' /\ ListsMore(u)
         /\ n = Len(nodes[u]) => Contains(Newest(u), sid)'
<1>1. /\ ListOK(u)' /\ Len(nodes'[u]) = Len(nodes[u]) /\ DOMAIN nodes'[u] = DOMAIN nodes[u]
      /\ \A i \in DOMAIN nodes[u] : /\ nodes'[u][i].by = nodes[u][i].by
                                    /\ i # n => nodes'[u][i] = nodes[u][i]
      /\ nodes'[u][n].ids = Append(nodes[u][n].ids, sid)
  BY IdAdded
<1>2. PICK m \in Nat : m = Len(nodes[u]) /\ DOMAIN nodes[u] = 1..m /\ nodes[u] # <<>>
  BY NewestIs
<1>3. m \in DOMAIN nodes[u] /\ Newest(u) = nodes[u][m].ids /\ nodes'[u] # <<>>
  <2>1. m # 0
    BY <1>2, NewestIs
  <2>2. nodes'[u] # <<>>
    BY <1>1, <1>2, <2>1
  <2> QED
    BY <1>2, <2>1, <2>2, NewestIs
<1>4. Newest(u)' = nodes'[u][m].ids
  BY <1>1, <1>2, <1>3 DEF Newest
<1>5. Hidden(u) => Hidden(u)'
  BY <1>1 DEF Hidden
<1>6. IsSeq(nodes[u][m].ids)
  BY <1>3 DEF ListOK, NodeOK
<1>7. PICK k \in Nat : k = Len(nodes[u][m].ids)
  BY <1>6, IsSeqIs
<1>8. /\ Len(Append(nodes[u][m].ids, sid)) = k + 1
      /\ \A i \in 1..k : Append(nodes[u][m].ids, sid)[i] = nodes[u][m].ids[i]
      /\ Append(nodes[u][m].ids, sid)[k + 1] = sid
  <2> DEFINE s == nodes[u][m].ids
  <2>1. IsSeq(s) /\ k = Len(s)
    BY <1>6, <1>7
  <2> HIDE DEF s
  <2>2. /\ Len(Append(s, sid)) = k + 1
        /\ \A i \in 1..k : Append(s, sid)[i] = s[i]
        /\ Append(s, sid)[k + 1] = sid
    BY <2>1, AppendIs
  <2> QED
    BY <2>2 DEF s
<1>9. CASE m = n
  <2>1. Newest(u)' = Append(nodes[u][m].ids, sid)
    BY <1>1, <1>4, <1>9
  <2>2. \A i \in 1..k : i \in 1..(k + 1)
    OBVIOUS
  <2>3. ASSUME NEW e, Contains(Newest(u), e) PROVE Contains(Newest(u), e)'
    <3>1. PICK i \in 1..k : nodes[u][m].ids[i] = e
      BY <1>3, <1>7, <2>3 DEF Contains
    <3> QED
      BY <1>8, <2>1, <2>2, <3>1 DEF Contains
  <2>4. Contains(Newest(u), sid)'
    <3>1. k + 1 \in 1..(k + 1)
      OBVIOUS
    <3> QED
      BY <1>8, <2>1, <3>1 DEF Contains
  <2> QED
    BY <1>1, <1>2, <1>5, <2>3, <2>4 DEF ListsMore
<1>10. CASE m # n
  <2>1. Newest(u)' = Newest(u)
    BY <1>1, <1>3, <1>4, <1>10
  <2> QED
    BY <1>1, <1>2, <1>5, <1>10, <2>1 DEF ListsMore, Contains
<1> QED
  BY <1>9, <1>10

\* What the other threads know after an insertion or a push_back for u.
LEMMA ListedElsewhere ==
  ASSUME ThreadsOK, Helpers, Lists, NEW t \in Threads, \A s \in Threads \ {t} : Undisturbed(s),
         NEW u \in ChatUsers, ListsMore(u), \A v \in ChatUsers : v # u => nodes'[v] = nodes[v]
  PROVE  /\ \A s \in Threads \ {t} : (At(s, "copyIds") => Listing(s))'
         /\ \A c \in created : Listed(c)'
<1>1. \A v \in ChatUsers : Len(nodes[v]) \in Nat
  BY NewestIs DEF Lists
<1>2. \A v \in ChatUsers : /\ Len(nodes'[v]) \in Nat /\ Len(nodes[v]) <= Len(nodes'[v])
                           /\ Hidden(v) => Hidden(v)'
                           /\ \A e : Contains(Newest(v), e) => Contains(Newest(v), e)' \/ Hidden(v)'
  <2> TAKE v \in ChatUsers
  <2>1. CASE v = u
    BY <2>1 DEF ListsMore
  <2>2. CASE v # u
    <3>1. nodes'[v] = nodes[v]
      BY <2>2
    <3> QED
      BY <1>1, <3>1 DEF Hidden, Newest, Contains
  <2> QED
    BY <2>1, <2>2
<1>3. ASSUME NEW s \in Threads \ {t}, th'[s].pc = "copyIds" PROVE Listing(s)'
  <2>1. /\ th[s].pc = "copyIds" /\ UserOf(s)' = UserOf(s) /\ UserOf(s) \in ChatUsers
        /\ "node" \in DOMAIN th'[s] /\ th'[s].node = th[s].node
    BY <1>3, Remembers
  <2>2. th[s].node \in 0..Len(nodes[UserOf(s)])
    BY <2>1 DEF Lists, Listing, At
  <2>3. PICK m, n \in Nat : /\ m = Len(nodes[UserOf(s)]) /\ n = Len(nodes'[UserOf(s)])
                            /\ m <= n
    BY <1>1, <1>2, <2>1
  <2>4. th[s].node \in 0..n
    BY <2>2, <2>3
  <2> QED
    BY <2>1, <2>3, <2>4 DEF Listing
<1>4. ASSUME NEW c \in created PROVE Listed(c)'
  BY <1>2 DEF Lists, Listed
<1> QED
  BY <1>3, <1>4 DEF At

LEMMA PushIdLists ==
  ASSUME ThreadsOK, Helpers, Lists, NEW t \in Threads, PushId(t),
         \A s \in Threads \ {t} : Undisturbed(s)
  PROVE  Lists'
<1>1. /\ th[t].pc = "pushId" /\ th'[t].pc = "chat" /\ Helped(t) /\ UNCHANGED chats /\ ChatsGrow
      /\ Found(t)
  BY PushIdIs, ChatsSame DEF Lists, Helpers, At
<1>2. PICK u \in ChatUsers : u = UserOf(t)
  BY <1>1 DEF Helped
<1>3. PICK sid \in DOMAIN chats[u] : sid = th[t].sid
  BY <1>1, <1>2 DEF Helped
<1>4. PICK n \in 0..Len(nodes[u]) : n = th[t].node
  BY <1>1, <1>2 DEF Found
<1>5. ListOK(u) /\ DOMAIN nodes = ChatUsers
  BY DEF Lists
<1>6. /\ nodes' = [nodes EXCEPT ![u] =
                     IF n = 0 THEN Append(@, [ids |-> <<sid>>, by |-> "create"])
                     ELSE [nodes[u] EXCEPT ![n].ids = Append(@, sid)]]
      /\ created' = created \union {<<u, sid>>}
  BY <1>2, <1>3, <1>4 DEF PushId
<1>7. \A v \in ChatUsers : v # u => nodes'[v] = nodes[v]
  BY <1>6
<1>8. ListOK(u)' /\ ListsMore(u) /\ (Contains(Newest(u), sid)' \/ Hidden(u)')
  <2>1. CASE n = 0
    <3>1. nodes'[u] = Append(nodes[u], [ids |-> <<sid>>, by |-> "create"])
      BY <1>5, <1>6, <2>1
    <3>2. IsSeq(<<sid>>) /\ Range(<<sid>>) \subseteq DOMAIN chats'[u] /\ IsInjective(<<sid>>)
      <4>1. <<sid>> \in Seq({sid})
        OBVIOUS
      <4>2. IsSeq(<<sid>>)
        BY <4>1, IsSeqIs
      <4>3. \A i \in DOMAIN <<sid>> : i = 1 /\ <<sid>>[i] = sid
        OBVIOUS
      <4>4. Range(<<sid>>) \subseteq {sid} /\ IsInjective(<<sid>>)
        BY <4>3 DEF Range, IsInjective
      <4> QED
        BY <1>1, <4>2, <4>4
    <3>3. nodes[u] = <<>> \/ \E i \in DOMAIN nodes[u] : nodes[u][i].by = "sessions"
      BY <1>1, <1>2, <1>4, <2>1 DEF Found
    <3>4. /\ ListOK(u)' /\ ListsMore(u) /\ Newest(u)' = <<sid>>
      BY <1>1, <1>5, <3>1, <3>2, <3>3, NodeAddedMore
    <3>5. Contains(Newest(u), sid)'
      BY <3>4 DEF Contains
    <3> QED
      BY <3>4, <3>5
  <2>2. CASE n # 0
    <3>1. nodes'[u] = [nodes[u] EXCEPT ![n].ids = Append(@, sid)]
      <4> DEFINE node == [nodes[u] EXCEPT ![n].ids = Append(@, sid)]
      <4> DEFINE first == Append(nodes[u], [ids |-> <<sid>>, by |-> "create"])
      <4>1. nodes' = [nodes EXCEPT ![u] = IF n = 0 THEN first ELSE node]
        BY <1>6
      <4> HIDE DEF node, first
      <4>2. nodes'[u] = node
        BY <1>5, <2>2, <4>1
      <4> QED
        BY <4>2 DEF node
    <3>2. n \in DOMAIN nodes[u]
      BY <1>5, <2>2, NewestIs
    <3>3. sid \notin Range(nodes[u][n].ids)
      BY <1>1, <1>2, <1>3, <3>2 DEF Found
    <3>4. n = Len(nodes[u]) \/ Hidden(u)
      BY <1>1, <1>2, <1>4, <2>2 DEF Found
    <3>5. /\ ListOK(u)' /\ ListsMore(u)
          /\ n = Len(nodes[u]) => Contains(Newest(u), sid)'
      BY <1>1, <1>5, <3>1, <3>2, <3>3, IdAddedMore
    <3> QED
      BY <3>4, <3>5 DEF ListsMore
  <2> QED
    BY <2>1, <2>2
<1>9. /\ \A s \in Threads \ {t} : (At(s, "copyIds") => Listing(s))'
      /\ \A c \in created : Listed(c)'
  BY <1>7, <1>8, ListedElsewhere
<1>10. \A s \in Threads \ {t} : th'[s].pc # "pushId"
  BY <1>1, Remembers DEF Lists, Mutexes, At
<1>11. \A s \in Threads : (At(s, "pushId") => Found(s))' /\ (At(s, "copyIds") => Listing(s))'
  BY <1>1, <1>9, <1>10 DEF At
<1>12. \A c \in created' : Listed(c)'
  <2>1. Listed(<<u, sid>>)'
    BY <1>8 DEF Listed
  <2> QED
    BY <1>6, <1>9, <2>1
<1>13. DOMAIN nodes' = ChatUsers /\ \A v \in ChatUsers : ListOK(v)'
  <2>1. DOMAIN nodes' = ChatUsers
    BY <1>5, <1>6
  <2>2. \A v \in ChatUsers : v # u => ListOK(v)'
    BY <1>1, <1>7, ListKept DEF Lists
  <2> QED
    BY <1>8, <2>1, <2>2
<1>14. Mutexes'
  BY <1>1, MutexesKept
<1> QED
  BY <1>11, <1>12, <1>13, <1>14 DEF Lists

LEMMA CopyIdsLists ==
  ASSUME ThreadsOK, Helpers, Lists, NEW t \in Threads, CopyIds(t), th'[t].pc = "after",
         \A s \in Threads \ {t} : Undisturbed(s)
  PROVE  Lists'
<1>1. th[t].pc = "copyIds" /\ Listing(t) /\ UNCHANGED <<chats, created>> /\ ChatsGrow
  BY ChatsSame DEF CopyIds, Lists, Helpers, At
<1>2. CASE UNCHANGED nodes
  BY <1>1, <1>2, ListsKept
<1>3. CASE ~UNCHANGED nodes
  <2>1. PICK u \in ChatUsers : u = UserOf(t)
    BY <1>1 DEF Listing
  <2>2. nodes' = [nodes EXCEPT ![u] = Append(@, [ids |-> <<>>, by |-> "sessions"])]
    BY <1>3, <2>1 DEF CopyIds
  <2>3. DOMAIN nodes = ChatUsers /\ ListOK(u)
    BY DEF Lists
  <2>4. /\ nodes'[u] = Append(nodes[u], [ids |-> <<>>, by |-> "sessions"])
        /\ \A v \in ChatUsers : v # u => nodes'[v] = nodes[v]
        /\ DOMAIN nodes' = ChatUsers
    BY <2>2, <2>3
  <2>5. IsSeq(<<>>) /\ Range(<<>>) \subseteq DOMAIN chats'[u] /\ IsInjective(<<>>)
    <3>1. <<>> \in Seq({})
      OBVIOUS
    <3>2. DOMAIN <<>> = {}
      OBVIOUS
    <3> QED
      BY <3>1, <3>2, IsSeqIs DEF Range, IsInjective
  <2>6. /\ ListOK(u)' /\ ListsMore(u)
        /\ nodes[u] # <<>> => Hidden(u)'
        /\ nodes'[u] # <<>>
        /\ \E i \in DOMAIN nodes'[u] : nodes'[u][i].by = "sessions"
    BY <1>1, <2>3, <2>4, <2>5, NodeAddedMore
  <2>7. /\ \A s \in Threads \ {t} : (At(s, "copyIds") => Listing(s))'
        /\ \A c \in created : Listed(c)'
    BY <2>4, <2>6, ListedElsewhere
  <2>8. ASSUME NEW s \in Threads \ {t}, th'[s].pc = "pushId" PROVE Found(s)'
    <3>1. /\ th[s].pc = "pushId" /\ UserOf(s)' = UserOf(s) /\ UserOf(s) \in ChatUsers
          /\ "node" \in DOMAIN th'[s] /\ th'[s].node = th[s].node /\ th'[s].sid = th[s].sid
      BY <2>8, Remembers
    <3>2. Found(s)
      BY <3>1 DEF Lists, At
    <3>3. CASE UserOf(s) # u
      <4>1. nodes'[UserOf(s)] = nodes[UserOf(s)]
        BY <2>4, <3>1, <3>3
      <4> QED
        BY <3>1, <3>2, <4>1 DEF Found, Hidden
    <3>4. CASE UserOf(s) = u
      <4>1. /\ Len(nodes[u]) \in Nat /\ Len(nodes'[u]) = Len(nodes[u]) + 1
            /\ DOMAIN nodes[u] = 1..Len(nodes[u]) /\ DOMAIN nodes'[u] = 1..(Len(nodes[u]) + 1)
            /\ \A i \in DOMAIN nodes[u] : nodes'[u][i] = nodes[u][i]
            /\ nodes'[u][Len(nodes[u]) + 1] = [ids |-> <<>>, by |-> "sessions"]
        BY <1>1, <2>3, <2>4, <2>5, NodeAdded
      <4>2. th[s].node \in 0..Len(nodes[u]) /\ th[s].node # 0 => nodes[u] # <<>>
        BY <2>3, <3>2, <3>4, <4>1, NewestIs DEF Found
      <4>3. ASSUME NEW i \in DOMAIN nodes'[u] PROVE th[s].sid \notin Range(nodes'[u][i].ids)
        <5>1. CASE i \in DOMAIN nodes[u]
          BY <3>2, <3>4, <4>1, <5>1 DEF Found
        <5>2. CASE i \notin DOMAIN nodes[u]
          <6>1. i = Len(nodes[u]) + 1
            BY <4>1, <5>2
          <6>2. nodes'[u][i].ids = <<>>
            BY <4>1, <6>1
          <6> QED
            BY <6>2 DEF Range
        <5> QED
          BY <5>1, <5>2
      <4>4. th[s].node \in 0..Len(nodes[u])
        BY <3>2, <3>4 DEF Found
      <4>5. th[s].node \in 0..Len(nodes'[u])
        BY <4>1, <4>4
      <4>6. th[s].node # 0 => Hidden(u)'
        BY <2>3, <2>6, <4>1, <4>4, NewestIs
      <4> QED
        BY <2>6, <3>1, <3>4, <4>3, <4>5, <4>6 DEF Found
    <3> QED
      BY <3>3, <3>4
  <2>9. \A s \in Threads : (At(s, "pushId") => Found(s))' /\ (At(s, "copyIds") => Listing(s))'
    BY <2>7, <2>8 DEF At
  <2>10. \A v \in ChatUsers : ListOK(v)'
    <3>1. \A v \in ChatUsers : v # u => ListOK(v)'
      BY <1>1, <2>4, ListKept DEF Lists
    <3> QED
      BY <2>6, <3>1
  <2>11. Mutexes'
    BY MutexesKept
  <2> QED
    BY <1>1, <2>4, <2>7, <2>9, <2>10, <2>11 DEF Lists
<1> QED
  BY <1>2, <1>3

LEMMA DirectoryLists ==
  ASSUME ThreadsOK, Helpers, Lists, NEW t \in Threads, DirectoryStep(t)
  PROVE  Lists'
<1>1. ChatsGrow /\ \A u \in Threads \ {t} : Undisturbed(u)
  BY DirectoryGrows
<1>2. UNCHANGED dispatchVars
  BY DEF DirectoryStep
<1>3. CASE Send(t)
  <2>1. Update(t, [pc |-> "chat", sid |-> th[t].req.sid,
                   helper |-> chats'[UserOf(t)][th[t].req.sid]])
    BY <1>3 DEF Send
  <2>2. th'[t].pc = "chat"
    BY <2>1, UpdateIs
  <2> QED
    BY <1>1, <1>3, <2>2, ListsKept DEF Send
<1>4. CASE Create(t)
  <2>1. th'[t].pc \in {"chat", "pushId"} /\ UNCHANGED <<nodes, created>>
    BY <1>4, SendIs DEF Create
  <2> QED
    BY <1>1, <1>4, <2>1, CreateFound, ListsKept
<1>5. CASE PushId(t)
  BY <1>1, <1>5, PushIdLists
<1>6. CASE ChatUnauthorized(t) \/ Chat(t) \/ History(t)
  <2>1. th'[t].pc = "after"
    BY <1>2, <1>6, AnswerIs
  <2>2. UNCHANGED <<nodes, created>>
    BY <1>6 DEF ChatUnauthorized, Chat, History, chatVars
  <2> QED
    BY <1>1, <2>1, <2>2, ListsKept
<1>7. CASE FindIds(t)
  <2>1. SessionsIdFree
    BY <1>7 DEF FindIds
  <2>2. th'[t].pc = "copyIds" /\ UNCHANGED <<nodes, created>>
    BY <1>7, FindIdsIs DEF chatVars
  <2>3. Len(nodes[UserOf(t)]) \in Nat
    BY <1>7, FindIdsIs, NewestIs DEF Lists
  <2>4. Listing(t)'
    BY <1>7, <2>2, <2>3, FindIdsIs DEF Listing
  <2> QED
    BY <1>1, <2>1, <2>2, <2>4, ListsKept
<1>8. CASE CopyIds(t)
  BY <1>1, <1>2, <1>8, AnswerIs, CopyIdsLists
<1> QED
  BY <1>3, <1>4, <1>5, <1>6, <1>7, <1>8 DEF DirectoryStep

\* What readDataFromMySQL leaves.
LEMMA RestoredIs ==
  ASSUME Stored, RestoreDirectory, NEW u \in ChatUsers
  PROVE  /\ \/ nodes'[u] = <<>>
            \/ loaded' /\ nodes'[u] = <<[ids |-> StoredIds(u), by |-> "start"]>>
         /\ DOMAIN chats'[u] = {id \in Range(StoredIds(u)) : loaded'}
         /\ DOMAIN chats' = ChatUsers /\ DOMAIN nodes' = ChatUsers /\ created' = {}
<1>1. /\ chats'[u] = [sid \in {id \in Range(StoredIds(u)) : loaded'} |-> 0]
      /\ nodes'[u] = IF StoredIds(u) = <<>> \/ ~loaded' THEN <<>>
                     ELSE <<[ids |-> StoredIds(u), by |-> "start"]>>
      /\ DOMAIN chats' = ChatUsers /\ DOMAIN nodes' = ChatUsers /\ created' = {}
  BY DEF RestoreDirectory
<1>2. DOMAIN chats'[u] = {id \in Range(StoredIds(u)) : loaded'}
  <2> DEFINE ids == {id \in Range(StoredIds(u)) : loaded'}
  <2>1. chats'[u] = [sid \in ids |-> 0]
    BY <1>1
  <2> HIDE DEF ids
  <2>2. DOMAIN chats'[u] = ids
    BY <2>1
  <2> QED
    BY <2>2 DEF ids
<1>3. \/ nodes'[u] = <<>>
      \/ loaded' /\ nodes'[u] = <<[ids |-> StoredIds(u), by |-> "start"]>>
  <2>1. CASE StoredIds(u) = <<>> \/ ~loaded'
    BY <1>1, <2>1
  <2>2. CASE ~(StoredIds(u) = <<>> \/ ~loaded')
    BY <1>1, <2>2
  <2> QED
    BY <2>1, <2>2
<1> QED
  BY <1>1, <1>2, <1>3

LEMMA RestartLists ==
  ASSUME Stored, Restart
  PROVE  Lists'
<1>1. \A t \in Threads : th'[t].pc = "idle"
  BY DEF Restart, Reset, Idle
<1>2. ASSUME NEW u \in ChatUsers PROVE ListOK(u)'
  <2>1. CASE nodes'[u] = <<>>
    <3>1. <<>> \in Seq({})
      OBVIOUS
    <3>2. IsSeq(<<>>)
      BY <3>1, IsSeqIs
    <3>3. DOMAIN <<>> = {}
      OBVIOUS
    <3> QED
      BY <2>1, <3>2, <3>3 DEF ListOK
  <2>2. CASE nodes'[u] # <<>>
    <3> DEFINE node == [ids |-> StoredIds(u), by |-> "start"]
    <3>1. /\ nodes'[u] = <<node>>
          /\ DOMAIN chats'[u] = {id \in Range(StoredIds(u)) : loaded'} /\ loaded'
      BY <2>2, RestoredIs DEF Restart
    <3>2. DOMAIN node = {"ids", "by"} /\ node.ids = StoredIds(u)
      OBVIOUS
    <3>3. IsSeq(StoredIds(u)) /\ IsInjective(StoredIds(u))
      BY StoredIdsAre
    <3> HIDE DEF node
    <3>4. IsSeq(<<node>>) /\ \A i \in DOMAIN <<node>> : <<node>>[i] = node
      <4>1. <<node>> \in Seq({node})
        OBVIOUS
      <4>2. \A i \in DOMAIN <<node>> : <<node>>[i] = node
        OBVIOUS
      <4> QED
        BY <4>1, <4>2, IsSeqIs
    <3>5. Range(node.ids) \subseteq DOMAIN chats'[u]
      BY <3>1, <3>2
    <3>6. /\ IsSeq(nodes'[u])
          /\ \A i \in DOMAIN nodes'[u] : nodes'[u][i] = node
      BY <3>1, <3>4
    <3> QED
      BY <3>2, <3>3, <3>5, <3>6 DEF ListOK, NodeOK
  <2> QED
    BY <2>1, <2>2
<1>3. DOMAIN nodes' = ChatUsers /\ created' = {}
  BY DEF Restart, RestoreDirectory
<1> QED
  BY <1>1, <1>2, <1>3 DEF Lists, Mutexes, At

LEMMA ListsStep == ThreadsOK /\ Helpers /\ Lists /\ Stored /\ [Next]_vars => Lists'
<1> SUFFICES ASSUME ThreadsOK, Helpers, Lists, Stored, [Next]_vars PROVE Lists'
  OBVIOUS
<1>1. CASE Restart
  BY <1>1, RestartLists
<1>2. ASSUME NEW t \in Threads, Step(t) PROVE Lists'
  <2>1. CASE /\ Dispatcher(t) \/ AccountStep(t) \/ MediaStep(t)
             /\ UNCHANGED chatVars
    <3>1. ChatsGrow /\ UNCHANGED <<nodes, created>>
      BY <2>1, ChatsSame DEF chatVars, Helpers
    <3> QED
      BY <2>1, <3>1, Elsewhere, ListsKept
  <2>2. CASE DirectoryStep(t)
    BY <2>2, DirectoryLists
  <2> QED
    BY <1>2, <2>1, <2>2 DEF Step
<1>3. CASE UNCHANGED <<th, chatVars>>
  <2>1. UNCHANGED <<th, nodes, chats, created>>
    BY <1>3 DEF chatVars
  <2> QED
    BY <2>1 DEF Lists, ListOK, NodeOK, Mutexes, Found, Listing, Listed, Newest, Hidden, UserOf, At
<1> QED
  BY <1>1, <1>2, <1>3 DEF Next, vars, RegisterRoute

-----------------------------------------------------------------------------
(* chat_message.                                                           *)

LEMMA StoredInit == Init => Stored
<1> SUFFICES ASSUME Init PROVE Stored
  OBVIOUS
<1>1. rows = <<>>
  BY DEF Init, DirectoryInit
<1>2. <<>> \in Seq({}) /\ DOMAIN <<>> = {}
  OBVIOUS
<1> QED
  BY <1>1, <1>2, IsSeqIs DEF Stored

LEMMA RowsKept ==
  ASSUME Stored, ChatsGrow, UNCHANGED <<rows, loaded>>
  PROVE  Stored'
BY DEF Stored, RowOK, ChatsGrow

LEMMA RowsAdded ==
  ASSUME Stored, UNCHANGED <<chats, loaded>>, NEW row, NEW more \in Seq({row}), RowOK(row),
         row[2] \in DOMAIN chats[row[1]], rows' = rows \o more
  PROVE  Stored'
<1> DEFINE S == Range(rows) \union {row}
<1>1. rows \in Seq(S) /\ more \in Seq(S)
  BY DEF Stored, IsSeq, Range
<1>2. rows' \in Seq(S)
  <2> HIDE DEF S
  <2> QED
    BY <1>1
<1>3. IsSeq(rows')
  <2> HIDE DEF S
  <2> QED
    BY <1>2, IsSeqIs
<1>4. \A i \in DOMAIN rows' : rows'[i] = row \/ \E j \in DOMAIN rows : rows'[i] = rows[j]
  <2>1. \A i \in DOMAIN rows' : rows'[i] \in S
    <3> HIDE DEF S
    <3> QED
      BY <1>2
  <2> QED
    BY <2>1 DEF Range
<1>5. IsSeq(rows)'
  BY <1>3 DEF IsSeq
<1> QED
  BY <1>4, <1>5 DEF Stored, RowOK

LEMMA ChatStored ==
  ASSUME Helpers, Stored, NEW t \in Threads, Chat(t)
  PROVE  Stored'
<1>1. Helped(t) /\ UNCHANGED <<chats, loaded>>
  BY DEF Chat, Helpers, At
<1> DEFINE row == <<UserOf(t), th[t].sid>>
<1>2. RowOK(row) /\ row[2] \in DOMAIN chats[row[1]]
  BY <1>1 DEF RowOK, Helped
<1>3. rows' = rows \o <<row, row>> \/ rows' = Append(rows, row) \/ UNCHANGED rows
  BY DEF Chat
<1> HIDE DEF row
<1>4. CASE rows' = rows \o <<row, row>>
  <2>1. <<row, row>> \in Seq({row})
    OBVIOUS
  <2> QED
    BY <1>1, <1>2, <1>4, <2>1, RowsAdded
<1>5. CASE rows' = Append(rows, row)
  <2>1. rows \in Seq(Range(rows))
    BY DEF Stored, IsSeq
  <2>2. Append(rows, row) = rows \o <<row>> /\ <<row>> \in Seq({row})
    BY <2>1
  <2> QED
    BY <1>1, <1>2, <1>5, <2>2, RowsAdded
<1>6. CASE UNCHANGED rows
  BY <1>1, <1>6, ChatsSame, RowsKept DEF Helpers
<1> QED
  BY <1>3, <1>4, <1>5, <1>6

LEMMA RestartStored ==
  ASSUME Stored, Restart
  PROVE  Stored'
<1>1. UNCHANGED rows /\ RestoreDirectory
  BY DEF Restart, RestoreDirectory
<1>2. ASSUME loaded', NEW i \in DOMAIN rows PROVE rows[i][2] \in DOMAIN chats'[rows[i][1]]
  <2>1. rows[i][1] \in ChatUsers
    BY DEF Stored, RowOK
  <2>2. rows[i][2] \in Range(StoredIds(rows[i][1]))
    BY StoredIdsAre
  <2>3. DOMAIN chats'[rows[i][1]] = {id \in Range(StoredIds(rows[i][1])) : loaded'}
    BY <1>1, <2>1, RestoredIs
  <2> QED
    BY <1>2, <2>2, <2>3
<1> QED
  BY <1>1, <1>2 DEF Stored, RowOK

LEMMA StoredStep == ThreadsOK /\ Helpers /\ Stored /\ [Next]_vars => Stored'
<1> SUFFICES ASSUME ThreadsOK, Helpers, Stored, [Next]_vars PROVE Stored'
  OBVIOUS
<1>1. CASE Restart
  BY <1>1, RestartStored
<1>2. ASSUME NEW t \in Threads, Step(t) PROVE Stored'
  <2>1. CASE UNCHANGED chatVars
    BY <2>1, ChatsSame, RowsKept DEF chatVars, Helpers
  <2>2. CASE DirectoryStep(t)
    <3>1. CASE Chat(t)
      BY <3>1, ChatStored
    <3>2. CASE ~Chat(t)
      <4>1. UNCHANGED <<rows, loaded>>
        BY <2>2, <3>2 DEF DirectoryStep, ChatUnauthorized, Send, Create, PushId, History, FindIds,
                          CopyIds, chatVars
      <4> QED
        BY <2>2, <4>1, DirectoryGrows, RowsKept
    <3> QED
      BY <3>1, <3>2
  <2> QED
    BY <1>2, <2>1, <2>2 DEF Step
<1>3. CASE UNCHANGED chatVars
  BY <1>3, ChatsSame, RowsKept DEF chatVars, Helpers
<1> QED
  BY <1>1, <1>2, <1>3 DEF Next, vars

-----------------------------------------------------------------------------
(* Images.                                                                 *)

\* What the recognizer gets of an upload.
LEMMA DecodedUpload ==
  ASSUME NEW r, IsUpload(r), r.image # <<>>, Decode(r.image) # Error
  PROVE  Decode(r.image) = r.bytes
<1>1. CASE r.bytes \in Seq(0..255) /\ r.image \in {Encode(r.bytes), Unpadded(r.bytes)}
  <2>1. r.bytes \in Seq(Bytes)
    BY <1>1 DEF Bytes
  <2>2. Decode(Encode(r.bytes)) = r.bytes /\ Decode(Unpadded(r.bytes)) = r.bytes
    BY <2>1, EncodeDecodes
  <2>3. r.image = Encode(r.bytes) \/ r.image = Unpadded(r.bytes)
    BY <1>1, Zenon
  <2> QED
    BY <2>2, <2>3, Zenon
<1>2. CASE r.image \in Seq(Int) /\ (r.image = <<>> \/ Malformed(r.image))
  BY <1>2, MalformedFails, Zenon
<1> QED
  BY <1>1, <1>2 DEF IsUpload

\* Only DecodeImage gives a thread an image.
LEMMA MediaImages ==
  ASSUME ThreadsOK, NEW t \in Threads, MediaStep(t)
  PROVE  /\ \/ Leaves(t, {"image"})
            \/ /\ th[t].pc = "decode" /\ th'[t].image = Decode(th[t].req.image)
               /\ th[t].req.image # <<>> /\ Decode(th[t].req.image) # Error
         /\ th'[t].pc # "upload"
         /\ th'[t].pc = "decode" => th[t].pc = "upload"
<1> UNCHANGED dispatchVars
  BY DEF MediaStep
<1> DEFINE Goal == /\ Leaves(t, {"image"}) /\ th'[t].pc # "upload"
                   /\ th'[t].pc = "decode" => th[t].pc = "upload"
<1>0. ThreadOK(t)
  BY DEF ThreadsOK
<1>1. ASSUME NEW code, Respond(t, code) PROVE Goal
  BY <1>1, UpdateIs DEF Respond, Leaves
<1>2. ASSUME NEW url, Update(t, [pc |-> "after", code |-> 200, url |-> url]) PROVE Goal
  BY <1>2, UpdateIs DEF Leaves
<1>3. CASE MediaUnauthorized(t)
  BY <1>1, <1>3 DEF MediaUnauthorized
<1>4. CASE OpenRecognizer(t)
  <2>1. CASE Respond(t, 400)
    BY <1>1, <2>1
  <2>2. CASE Update(t, [pc |-> "decode"])
    <3>1. th[t].pc = "upload"
      BY <1>4 DEF OpenRecognizer, At
    <3>2. th'[t].pc = "decode" /\ Leaves(t, {"image"})
      BY <2>2, UpdateIs DEF Leaves
    <3> QED
      BY <3>1, <3>2
  <2> QED
    BY <1>4, <2>1, <2>2 DEF OpenRecognizer
<1>5. CASE DecodeImage(t)
  <2>1. CASE Respond(t, 400)
    BY <1>1, <2>1
  <2>2. CASE /\ th[t].req.image # <<>> /\ Decode(th[t].req.image) # Error
             /\ \E code \in {200, 400} :
                  Update(t, [pc |-> "after", code |-> code, image |-> Decode(th[t].req.image)])
    <3>1. PICK code \in {200, 400} :
            Update(t, [pc |-> "after", code |-> code, image |-> Decode(th[t].req.image)])
      BY <2>2
    <3>2. th'[t].pc = "after" /\ th'[t].image = Decode(th[t].req.image)
      BY <3>1, UpdateIs
    <3> QED
      BY <1>5, <2>2, <3>2 DEF DecodeImage, At
  <2> QED
    BY <1>5, <2>1, <2>2 DEF DecodeImage
<1>6. CASE GetAccessToken(t)
  <2>1. CASE Goto(t, "createTask")
    BY <2>1, UpdateIs DEF Goto, Leaves
  <2> QED
    BY <1>1, <1>6, <2>1 DEF GetAccessToken
<1>7. CASE CreateTask(t)
  <2>1. CASE Update(t, [pc |-> "poll", loops |-> 0])
    BY <2>1, UpdateIs DEF Leaves
  <2> QED
    BY <1>2, <1>7, <2>1 DEF CreateTask
<1>8. CASE Query(t)
  <2>1. CASE Update(t, [loops |-> th[t].loops + 1])
    <3>1. th[t].pc = "poll" /\ "pc" \in DOMAIN th[t]
      BY <1>0, <1>8 DEF Query, At, ThreadOK
    <3>2. th'[t].pc = "poll" /\ Leaves(t, {"image"})
      BY <2>1, <3>1, UpdateIs DEF Leaves
    <3> QED
      BY <3>2
  <2> QED
    BY <1>2, <1>8, <2>1 DEF Query
<1>9. CASE GiveUp(t)
  BY <1>2, <1>9 DEF GiveUp
<1> QED
  BY <1>3, <1>4, <1>5, <1>6, <1>7, <1>8, <1>9 DEF MediaStep

LEMMA ImagesInit == Init => Images
<1> SUFFICES ASSUME Init, NEW t \in Threads PROVE ImageOf(t)
  BY DEF Images
<1>1. th[t] = Idle
  BY DEF Init, DispatchInit
<1>2. "image" \notin DOMAIN Idle /\ Idle.pc = "idle"
  BY DEF Idle
<1> QED
  BY <1>1, <1>2 DEF ImageOf

LEMMA ImagesKept ==
  ASSUME Images, NEW t \in Threads, ImageOf(t)', \A u \in Threads \ {t} : Undisturbed(u), ThreadsOK
  PROVE  Images'
<1>1. ASSUME NEW u \in Threads \ {t} PROVE ImageOf(u)'
  <2>1. ThreadOK(u) /\ ImageOf(u) /\ Undisturbed(u)
    BY DEF ThreadsOK, Images
  <2>2. th'[u].pc = th[u].pc
    BY <2>1 DEF ThreadOK, Undisturbed
  <2>3. CASE "req" \in DOMAIN th[u]
    <3>1. th'[u].req = th[u].req
      BY <2>1, <2>3 DEF Undisturbed
    <3> QED
      BY <2>1, <2>2, <2>3, <3>1 DEF ImageOf, Undisturbed
  <2>4. CASE "req" \notin DOMAIN th[u]
    <3>1. th[u].pc = "idle"
      BY <2>1, <2>4 DEF ThreadOK
    <3> QED
      BY <2>1, <2>2, <2>4, <3>1 DEF ImageOf, Undisturbed
  <2> QED
    BY <2>3, <2>4
<1> QED
  BY <1>1 DEF Images

\* A handler, by what it does to the image.
LEMMA ImagesHandler ==
  ASSUME ThreadsOK, Images, NEW t \in Threads, Handles(t),
         \/ Leaves(t, {"image"})
         \/ th[t].pc = "decode" /\ th'[t].image = th[t].req.bytes,
         th'[t].pc # "upload", th'[t].pc = "decode" => th[t].pc = "upload"
  PROVE  Images'
<1>1. "req" \in DOMAIN th[t] /\ "req" \in DOMAIN th'[t] /\ th'[t].req = th[t].req
  <2>1. ThreadOK(t) /\ th[t].pc # "idle"
    BY OtherPcs DEF ThreadsOK, Handles
  <2> QED
    BY <2>1 DEF ThreadOK, Handles
<1>2. ImageOf(t)
  BY DEF Images
<1>3. "image" \in DOMAIN th'[t] => th'[t].image = th'[t].req.bytes
  BY <1>1, <1>2 DEF ImageOf, Leaves
<1>4. th'[t].pc \in {"upload", "decode"} => IsUpload(th'[t].req)
  BY <1>1, <1>2 DEF ImageOf
<1>5. ImageOf(t)'
  BY <1>1, <1>3, <1>4 DEF ImageOf
<1>6. \A u \in Threads \ {t} : Undisturbed(u)
  BY DEF Handles, Alone, Undisturbed
<1> QED
  BY <1>5, <1>6, ImagesKept

LEMMA ImagesDispatch ==
  ASSUME ThreadsOK, ThreadsOK', Images, NEW t \in Threads, Dispatches(t)
  PROVE  Images'
<1>1. ThreadOK(t)' /\ th'[t].pc \notin {"idle", "decode"}
  BY DEF Dispatches, ThreadsOK, HandlerPcs
<1>2. "req" \in DOMAIN th'[t]
  BY <1>1 DEF ThreadOK
<1>3. "image" \in DOMAIN th'[t] => th'[t].image = th'[t].req.bytes
  <2>1. CASE Inside \intersect DOMAIN th'[t] = {}
    BY <2>1 DEF Inside
  <2>2. CASE Leaves(t, Inside) /\ th'[t].req = th[t].req
    BY <2>2 DEF Inside, Leaves, Images, ImageOf
  <2> QED
    BY <2>1, <2>2 DEF Dispatches
<1>4. th'[t].pc = "upload" => IsUpload(th'[t].req)
  BY DEF Dispatches
<1>5. ImageOf(t)'
  BY <1>1, <1>2, <1>3, <1>4 DEF ImageOf
<1>6. \A u \in Threads \ {t} : Undisturbed(u)
  BY DEF Dispatches
<1> QED
  BY <1>5, <1>6, ImagesKept

LEMMA ImagesStep == ThreadsOK /\ Images /\ [Next]_vars => Images'
<1> SUFFICES ASSUME ThreadsOK, Images, [Next]_vars PROVE Images'
  OBVIOUS
<1>0. ThreadsOK'
  BY ThreadsStep
<1>1. CASE Restart
  <2>1. th' = [t \in Threads |-> Idle]
    BY <1>1 DEF Restart, Reset
  <2> QED
    BY <2>1 DEF Images, ImageOf, Idle
<1>2. CASE UNCHANGED th
  BY <1>2 DEF Images, ImageOf
<1>3. ASSUME NEW t \in Threads, Step(t) PROVE Images'
  <2>1. CASE Dispatcher(t)
    <3>1. Dispatches(t)
      BY <2>1, DispatcherIs
    <3> QED
      BY <1>0, <3>1, ImagesDispatch
  <2>2. CASE AccountStep(t)
    <3>1. Handles(t) /\ StaysIn(t, AccountPcs) /\ Leaves(t, {"image"})
      BY <2>2, AccountHandles DEF Leaves
    <3>2. th'[t].pc # "upload" /\ th'[t].pc # "decode"
      BY <3>1 DEF StaysIn, AccountPcs
    <3> QED
      BY <3>1, <3>2, ImagesHandler
  <2>3. CASE DirectoryStep(t)
    <3>1. Handles(t) /\ StaysIn(t, DirectoryPcs) /\ Leaves(t, {"image"})
      BY <2>3, DirectoryHandles DEF Leaves
    <3>2. th'[t].pc # "upload" /\ th'[t].pc # "decode"
      BY <3>1 DEF StaysIn, DirectoryPcs, ChatPcs
    <3> QED
      BY <3>1, <3>2, ImagesHandler
  <2>4. CASE MediaStep(t)
    <3>1. Handles(t)
      BY <2>4, MediaHandles
    <3>2. /\ \/ Leaves(t, {"image"})
             \/ /\ th[t].pc = "decode" /\ th'[t].image = Decode(th[t].req.image)
                /\ th[t].req.image # <<>> /\ Decode(th[t].req.image) # Error
          /\ th'[t].pc # "upload"
          /\ th'[t].pc = "decode" => th[t].pc = "upload"
      BY <2>4, MediaImages
    <3>3. th[t].pc = "decode" => IsUpload(th[t].req)
      BY DEF Images, ImageOf
    <3>4. Leaves(t, {"image"}) \/ (th[t].pc = "decode" /\ th'[t].image = th[t].req.bytes)
      BY <3>2, <3>3, DecodedUpload
    <3> QED
      BY <3>1, <3>2, <3>4, ImagesHandler
  <2> QED
    BY <1>3, <2>1, <2>2, <2>3, <2>4 DEF Step
<1> QED
  BY <1>1, <1>2, <1>3 DEF Next, vars, RegisterRoute

-----------------------------------------------------------------------------
(* The theorems.                                                           *)

(***************************************************************************)
(* The values of the variables: a thread has a code once it has an answer, *)
(* whatever its handler threw, and a speech request asks MaxLoops times at *)
(* most (HttpServer::handleRequest, ChatSpeechHandler).                    *)
(***************************************************************************)
THEOREM AppTypeCorrect == Spec => []AppTypeOK
<1>1. ThreadsOK /\ Others => AppTypeOK
  BY DEF ThreadsOK, ThreadOK, Others, AppTypeOK, Codes
<1> QED
  BY ThreadsInit, ThreadsStep, OthersInit, OthersStep, <1>1, PTL DEF Spec

(***************************************************************************)
(* A request gets the handler, and the parameters, that the routes mean    *)
(* for it in the order of their registration, whatever routes there are:   *)
(* the hash maps, and the buckets by method and static prefix with their   *)
(* lookup by ever shorter prefixes, lose none and prefer no wrong one      *)
(* (Router::route, pathPrefixesForLookup, searchRegexBuckets).             *)
(***************************************************************************)
THEOREM RoutesAreAsRegistered == Spec => []RouteAsRegistered
<1>1. Routes => RouteAsRegistered
  BY DEF Routes, RouteOf, RouteAsRegistered
<1> QED
  BY ThreadsInit, ThreadsStep, RoutesInit, RoutesStep, <1>1, PTL DEF Spec

(***************************************************************************)
(* CorsMiddleware keeps the origin of a request in a member that all       *)
(* threads share: a response has the header of its own request even so,    *)
(* if no other request came in between.                                    *)
(***************************************************************************)
THEOREM OriginIsOwn == Spec => []OwnOrigin
<1>1. ThreadsOK /\ Origins => OwnOrigin
  <2> SUFFICES ASSUME Origins, NEW t \in Threads, At(t, "done"), th[t].code # 500,
                      ~th[t].overlapped
               PROVE  LET o == th[t].req.origin IN
                      /\ th[t].allow \in {"", "*", o}
                      /\ th[t].allow # "" <=>
                           o # "" /\ (AllowedOrigins = {} \/ {"*", o} \intersect AllowedOrigins # {})
    BY Zenon DEF OwnOrigin
  <2> DEFINE o == th[t].req.origin
  <2>1. th[t].allow = ResolveAllowOrigin(o)
    BY DEF Origins, OriginOf
  <2>2. IsOriginAllowed(o) <=>
          AllowedOrigins = {} \/ {"*", o} \intersect AllowedOrigins # {}
    BY DEF IsOriginAllowed
  <2>3. CASE o = "" \/ ~IsOriginAllowed(o)
    <3>1. th[t].allow = ""
      BY <2>1, <2>3 DEF ResolveAllowOrigin
    <3> QED
      BY <2>2, <2>3, <3>1
  <2>4. CASE o # "" /\ IsOriginAllowed(o)
    <3>1. th[t].allow = "*" \/ th[t].allow = o
      BY <2>1, <2>4 DEF ResolveAllowOrigin
    <3> QED
      BY <2>2, <2>4, <3>1
  <2> QED
    BY <2>3, <2>4
<1> QED
  BY ThreadsInit, ThreadsStep, OriginsInit, OriginsStep, <1>1, PTL DEF Spec

(***************************************************************************)
(* The password of an account opens it, in the form an older version left  *)
(* it in or in today's, and no other user's does: hashes survive their way *)
(* through hexadecimal (HashPassword, VerifyPassword).                     *)
(***************************************************************************)
THEOREM OwnersCanLogin == Spec => []OwnerCanLogin
<1>1. AccountsOK => OwnerCanLogin
  <2> SUFFICES ASSUME AccountsOK, NEW i \in DOMAIN users, NEW j \in DOMAIN users
               PROVE  VerifyPassword(users[j].owner, users[i].stored) <=>
                        users[j].owner = users[i].owner /\ users[i].stored.form # "plain"
    BY DEF OwnerCanLogin
  <2>1. AccountOK(users[i]) /\ users[j].owner \in Passwords
    BY DEF AccountsOK, AccountOK
  <2> QED
    BY <2>1, AccountTells
<1> QED
  BY ThreadsInit, ThreadsStep, AccountsInitOK, AccountsStep, <1>1, PTL DEF Spec

(***************************************************************************)
(* If the table has a unique key on the name, a name has one account, and  *)
(* who registered or logged in was answered with their own, although       *)
(* isUserExist, the INSERT and the SELECT of the id are three statements.  *)
(***************************************************************************)
THEOREM AccountIsOwn == ASSUME UniqueNames PROVE Spec => []AnsweredAccountIsOwn
<1>1. AccountsOK => AnsweredAccountIsOwn
  BY DEF AccountsOK, Knows, Owned, AnsweredAccountIsOwn
<1> QED
  BY ThreadsInit, ThreadsStep, AccountsInitOK, AccountsStep, <1>1, PTL DEF Spec

(***************************************************************************)
(* chat() runs on the helper that chatInformation holds for the session,   *)
(* though emplace and chat() are in separate critical sections.            *)
(***************************************************************************)
THEOREM HelperIsOne == Spec => []OneHelper
<1>1. Helpers => OneHelper
  BY DEF Helpers, Helped, OneHelper, At
<1> QED
  BY ThreadsInit, ThreadsStep, HelpersInit, HelpersStep, <1>1, PTL DEF Spec

(***************************************************************************)
(* A created chat is listed, or hidden by the node of a listing that ran   *)
(* under the other mutex: nothing else loses it.                           *)
(***************************************************************************)
THEOREM CreatedStaysListed == Spec => []CreatedIsListed
<1>1. Lists => CreatedIsListed
  BY DEF Lists, Listed, Hidden, CreatedIsListed
<1> QED
  BY ThreadsInit, ThreadsStep, HelpersInit, HelpersStep, ListsInit, ListsStep,
     StoredInit, StoredStep, <1>1, PTL DEF Spec

(***************************************************************************)
(* What chat_message, chatInformation and sessionsIdsMap say of the chats  *)
(* there are agrees, through interleaved creations, failed calls, and      *)
(* restarts that rebuild the two maps from the table.                      *)
(***************************************************************************)
THEOREM DirectoryAgrees == Spec => []DirectoryConsistent
<1>1. Lists /\ Stored => DirectoryConsistent
  <2> SUFFICES ASSUME Lists, Stored, NEW u \in ChatUsers
               PROVE  /\ loaded => Range(StoredIds(u)) \subseteq DOMAIN chats[u]
                      /\ Range(Newest(u)) \subseteq DOMAIN chats[u]
                      /\ IsInjective(Newest(u))
    BY DEF DirectoryConsistent
  <2>1. ASSUME loaded, NEW k \in DOMAIN StoredIds(u) PROVE StoredIds(u)[k] \in DOMAIN chats[u]
    <3>1. PICK i \in DOMAIN rows : rows[i][1] = u /\ rows[i][2] = StoredIds(u)[k]
      BY StoredIdsAre
    <3> QED
      BY <2>1, <3>1 DEF Stored
  <2>2. loaded => Range(StoredIds(u)) \subseteq DOMAIN chats[u]
    BY <2>1 DEF Range
  <2>3. Range(Newest(u)) \subseteq DOMAIN chats[u] /\ IsInjective(Newest(u))
    BY NewestIs DEF Lists
  <2> QED
    BY <2>2, <2>3
<1> QED
  BY ThreadsInit, ThreadsStep, HelpersInit, HelpersStep, ListsInit, ListsStep,
     StoredInit, StoredStep, <1>1, PTL DEF Spec

(***************************************************************************)
(* The recognizer gets the image the client encoded, of whatever length,   *)
(* whether its base64 is padded or not, and no image of an upload that is  *)
(* no base64 (base64_encode, base64_decode, AIUploadSendHandler).          *)
(***************************************************************************)
THEOREM ImagesAreAsSent == Spec => []ImageAsSent
<1>1. Images => ImageAsSent
  BY DEF Images, ImageOf, ImageAsSent
<1> QED
  BY ThreadsInit, ThreadsStep, ImagesInit, ImagesStep, <1>1, PTL DEF Spec
===============================================================================
