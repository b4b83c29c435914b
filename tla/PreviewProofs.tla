--------------------------- MODULE PreviewProofs ---------------------------
(***************************************************************************)
(* Proofs about ThumbnailPlugins: getEPSIPreview takes the digits of a     *)
(* preview in pairs, and each pixel from the digits that belong to it.     *)
(***************************************************************************)
EXTENDS ThumbnailPluginsProofs, FiniteSetTheorems

-----------------------------------------------------------------------------
(* The digits of a text. *)

Start(s) == Epsi!Past(s, Epsi!Past(s, 0, {Epsi!Newline}), {Epsi!Percent})
Count(s, n) == Cardinality({i \in Start(s)+1..n : s[i] \in Epsi!Hex})
NotSplit(s) ==
  \A i \in Start(s)+1..Len(s) :
    s[i] \in Epsi!Hex /\ Count(s, i) % 2 = 1 => i < Len(s) /\ s[i + 1] \in Epsi!Hex

LEMMA StartWithin ==
  ASSUME NEW s \in Seq(-4..15)
  PROVE  Start(s) \in 0..Len(s) /\ Len(s) \in Nat
<1> DEFINE line == Epsi!Past(s, 0, {Epsi!Newline})
<1>1. line \in 0..Len(s) /\ Len(s) \in Nat
  BY PastStops
<1> HIDE DEF line
<1>2. Epsi!Past(s, line, {Epsi!Percent}) \in line..Len(s)
  BY <1>1, PastStops
<1> QED
  BY <1>1, <1>2 DEF Start, line

LEMMA CountType ==
  ASSUME NEW s \in Seq(-4..15), NEW n \in Nat
  PROVE  /\ IsFiniteSet({i \in Start(s)+1..n : s[i] \in Epsi!Hex})
         /\ Count(s, n) \in Nat
<1>1. IsFiniteSet(Start(s)+1..n)
  BY StartWithin, FS_Interval
<1> DEFINE D == {i \in Start(s)+1..n : s[i] \in Epsi!Hex}
<1>2. IsFiniteSet(D)
  BY <1>1, FS_Subset
<1> QED
  BY <1>2, FS_CardinalityType DEF Count

LEMMA NoneCounted ==
  ASSUME NEW s \in Seq(-4..15)
  PROVE  Count(s, Start(s)) = 0
<1>1. {i \in Start(s)+1..Start(s) : s[i] \in Epsi!Hex} = {}
  BY StartWithin
<1> QED
  BY <1>1, FS_EmptySet DEF Count

\* One more digit is counted.
LEMMA DigitCounted ==
  ASSUME NEW s \in Seq(-4..15), NEW n \in Nat, Start(s) <= n, s[n + 1] \in Epsi!Hex
  PROVE  Count(s, n + 1) = Count(s, n) + 1
<1> DEFINE D(k) == {i \in Start(s)+1..k : s[i] \in Epsi!Hex}
<1>1. D(n + 1) = D(n) \cup {n + 1} /\ n + 1 \notin D(n)
  BY StartWithin
<1>2. IsFiniteSet(D(n))
  BY CountType
<1> HIDE DEF D
<1>3. Cardinality(D(n + 1)) = Cardinality(D(n)) + 1
  BY <1>1, <1>2, FS_AddElement
<1> QED
  BY <1>3 DEF Count, D

\* Other characters are not.
LEMMA OthersNotCounted ==
  ASSUME NEW s \in Seq(-4..15), NEW n \in Nat, NEW m \in Nat, Start(s) <= n, n <= m,
         \A k \in n..m-1 : s[k + 1] \notin Epsi!Hex
  PROVE  Count(s, m) = Count(s, n)
<1>1. ASSUME NEW i \in n+1..m
      PROVE  s[i] \notin Epsi!Hex
  <2>1. i - 1 \in n..m-1 /\ (i - 1) + 1 = i
    OBVIOUS
  <2> QED
    BY <2>1
<1>2. Start(s) \in Nat
  BY StartWithin
<1>3. {i \in Start(s)+1..m : s[i] \in Epsi!Hex} = {i \in Start(s)+1..n : s[i] \in Epsi!Hex}
  BY <1>1, <1>2
<1> QED
  BY <1>3 DEF Count

-----------------------------------------------------------------------------
(* The bits of a byte are those of its two digits, the first bit highest. *)

LEMMA Powers ==
  /\ 2^0 = 1 /\ 2^1 = 2 /\ 2^2 = 4 /\ 2^3 = 8
  /\ 2^4 = 16 /\ 2^5 = 32 /\ 2^6 = 64 /\ 2^7 = 128
OBVIOUS

LEMMA BitsOfDigits ==
  ASSUME NEW h \in 0..15, NEW l \in 0..15, NEW m \in 0..7
  PROVE  ((16 * h + l) \div 2^(7 - m)) % 2 =
           IF m < 4 THEN (h \div 2^(3 - m)) % 2 ELSE (l \div 2^(7 - m)) % 2
<1>1. CASE m = 0
  <2>1. 2^(7 - m) = 128 /\ 2^(3 - m) = 8
    BY <1>1, Powers
  <2>2. ((16 * h + l) \div 128) % 2 = (h \div 8) % 2
    OBVIOUS
  <2> QED
    BY <1>1, <2>1, <2>2
<1>2. CASE m = 1
  <2>1. 2^(7 - m) = 64 /\ 2^(3 - m) = 4
    BY <1>2, Powers
  <2>2. ((16 * h + l) \div 64) % 2 = (h \div 4) % 2
    OBVIOUS
  <2> QED
    BY <1>2, <2>1, <2>2
<1>3. CASE m = 2
  <2>1. 2^(7 - m) = 32 /\ 2^(3 - m) = 2
    BY <1>3, Powers
  <2>2. ((16 * h + l) \div 32) % 2 = (h \div 2) % 2
    OBVIOUS
  <2> QED
    BY <1>3, <2>1, <2>2
<1>4. CASE m = 3
  <2>1. 2^(7 - m) = 16 /\ 2^(3 - m) = 1
    BY <1>4, Powers
  <2>2. ((16 * h + l) \div 16) % 2 = (h \div 1) % 2
    OBVIOUS
  <2> QED
    BY <1>4, <2>1, <2>2
<1>5. CASE m = 4
  <2>1. 2^(7 - m) = 8
    BY <1>5, Powers
  <2>2. ((16 * h + l) \div 8) % 2 = (l \div 8) % 2
    OBVIOUS
  <2> QED
    BY <1>5, <2>1, <2>2
<1>6. CASE m = 5
  <2>1. 2^(7 - m) = 4
    BY <1>6, Powers
  <2>2. ((16 * h + l) \div 4) % 2 = (l \div 4) % 2
    OBVIOUS
  <2> QED
    BY <1>6, <2>1, <2>2
<1>7. CASE m = 6
  <2>1. 2^(7 - m) = 2
    BY <1>7, Powers
  <2>2. ((16 * h + l) \div 2) % 2 = (l \div 2) % 2
    OBVIOUS
  <2> QED
    BY <1>7, <2>1, <2>2
<1>8. CASE m = 7
  <2>1. 2^(7 - m) = 1
    BY <1>8, Powers
  <2>2. ((16 * h + l) \div 1) % 2 = (l \div 1) % 2
    OBVIOUS
  <2> QED
    BY <1>8, <2>1, <2>2
<1> QED
  BY <1>1, <1>2, <1>3, <1>4, <1>5, <1>6, <1>7, <1>8

-----------------------------------------------------------------------------
(* The bytes read so far are the pairs of digits that were passed.          *)

\* Byte k is made of the digits with the numbers 2k - 1 and 2k.
PairAt(s, i, k) ==
  /\ i \in Start(s)+1..Len(s)-1 /\ s[i] \in Epsi!Hex /\ s[i + 1] \in Epsi!Hex
  /\ Count(s, i) = 2 * k - 1 /\ Count(s, i + 1) = 2 * k
PairsRead ==
  /\ offset \in Start(text)..Len(text) /\ Count(text, offset) = 2 * Len(bindata)
  /\ \A k \in 1..Len(bindata) :
       \E i \in Nat : PairAt(text, i, k) /\ bindata[k] = 16 * text[i] + text[i + 1]

SampleRight(q, d) ==
  LET n == q[1] * preview.depth + d
  IN  \E i \in Start(text)+1..Len(text) :
        /\ text[i] \in Epsi!Hex
        /\ Count(text, i) = 2 * Epsi!BytesPerLine * q[2] + n \div 4 + 1
        /\ pixels[q][d] = (text[i] \div 2^(3 - (n % 4))) % 2
SamplesRight ==
  preview.height * Epsi!BytesPerLine * 8 < Word =>
    \A q \in Epsi!Pixels, d \in 0..preview.depth-1 : SampleRight(q, d)

PreviewSoFar ==
  /\ EpsiSoFar
  /\ stage # "done" => decoded # "pass"
  /\ stage = "read" => bindata = <<>>
  /\ stage = "data" /\ NotSplit(text) => PairsRead
  /\ stage = "broken" /\ NotSplit(text) => Count(text, Len(text)) < 2 * Epsi!DataBytes
  /\ decoded = "pass" /\ NotSplit(text) => SamplesRight

\* From an even digit on, the next one begins a pair.
LEMMA NextPair ==
  ASSUME PreviewSoFar, stage = "data", NotSplit(text), NEW digit,
         offset < Len(text), digit = Epsi!Past(text, offset, Epsi!Hex)
  PROVE  /\ digit \in offset..Len(text) /\ Count(text, digit) = 2 * Len(bindata)
         /\ digit < Len(text) =>
              /\ PairAt(text, digit + 1, Len(bindata) + 1)
              /\ Epsi!HasByte(digit) /\ Epsi!ByteAt(digit) = 16 * text[digit + 1] + text[digit + 2]
<1>1. /\ text \in Seq(-4..15) /\ Len(text) \in Nat /\ Start(text) \in Nat
      /\ Len(bindata) \in Nat /\ PairsRead
      /\ offset \in Nat /\ offset <= Len(text) /\ Start(text) <= offset
  BY StartWithin DEF PreviewSoFar, EpsiSoFar, Epsi!TypeOK, PairsRead
<1>2. /\ digit \in offset..Len(text) /\ digit \in Nat
      /\ digit < Len(text) => text[digit + 1] \in Epsi!Hex
      /\ \A k \in offset..digit-1 : text[k + 1] \notin Epsi!Hex
  BY <1>1, PastStops
<1>3. Count(text, digit) = 2 * Len(bindata)
  <2>1. /\ text \in Seq(-4..15) /\ offset \in Nat /\ digit \in Nat
        /\ Start(text) <= offset /\ offset <= digit
        /\ \A k \in offset..digit-1 : text[k + 1] \notin Epsi!Hex
    BY <1>1, <1>2
  <2>2. Count(text, digit) = Count(text, offset)
    BY ONLY <2>1, OthersNotCounted
  <2> QED
    BY <1>1, <2>2 DEF PairsRead
<1>4. ASSUME digit < Len(text)
      PROVE  /\ PairAt(text, digit + 1, Len(bindata) + 1)
             /\ Epsi!HasByte(digit) /\ Epsi!ByteAt(digit) = 16 * text[digit + 1] + text[digit + 2]
  <2>1. text[digit + 1] \in Epsi!Hex
    BY <1>2, <1>4
  <2>2. Count(text, digit + 1) = 2 * Len(bindata) + 1
    BY <1>1, <1>2, <1>3, <2>1, DigitCounted
  <2>3. digit + 1 \in Start(text)+1..Len(text) /\ (2 * Len(bindata) + 1) % 2 = 1
    BY <1>1, <1>2, <1>4
  <2>4. digit + 1 < Len(text) /\ text[(digit + 1) + 1] \in Epsi!Hex
    BY <2>1, <2>2, <2>3 DEF NotSplit
  <2>5. (digit + 1) + 1 = digit + 2
    BY <1>2
  <2>6. Count(text, (digit + 1) + 1) = Count(text, digit + 1) + 1
    BY <1>1, <1>2, <2>4, DigitCounted
  <2>7. PairAt(text, digit + 1, Len(bindata) + 1)
    BY <1>1, <1>2, <2>1, <2>2, <2>3, <2>4, <2>6 DEF PairAt
  <2> QED
    BY <1>4, <2>4, <2>5, <2>7 DEF Epsi!HasByte, Epsi!ByteAt
<1> QED
  BY <1>2, <1>3, <1>4

LEMMA ByteRead ==
  ASSUME PreviewSoFar, Epsi!ReadByte, NotSplit(text)
  PROVE  PairsRead'
<1> DEFINE digit == Epsi!Past(text, offset, Epsi!Hex)
<1>1. /\ stage = "data" /\ offset < Len(text) /\ Epsi!HasByte(digit)
      /\ bindata' = Append(bindata, Epsi!ByteAt(digit)) /\ offset' = digit + 2 /\ text' = text
  BY DEF Epsi!ReadByte
<1>2. /\ bindata \in Seq(0..255) /\ Len(bindata) \in Nat /\ PairsRead
      /\ Start(text) \in Nat /\ Len(text) \in Nat
  BY <1>1, StartWithin DEF PreviewSoFar, EpsiSoFar, Epsi!TypeOK
<1> HIDE DEF digit
<1>3. /\ digit \in offset..Len(text)
      /\ digit < Len(text) =>
           /\ PairAt(text, digit + 1, Len(bindata) + 1)
           /\ Epsi!ByteAt(digit) = 16 * text[digit + 1] + text[digit + 2]
  BY <1>1, NextPair DEF digit
<1>4. digit < Len(text)
  BY <1>1 DEF Epsi!HasByte
<1>5. offset \in Nat
  BY <1>1 DEF PreviewSoFar, EpsiSoFar, Epsi!TypeOK
<1>6. /\ digit \in Nat /\ (digit + 1) + 1 = digit + 2 /\ digit + 2 \in Start(text)..Len(text)
      /\ Count(text, digit + 2) = 2 * (Len(bindata) + 1)
  BY <1>2, <1>3, <1>4, <1>5 DEF PairAt
<1>7. /\ Len(bindata') = Len(bindata) + 1
      /\ \A k \in 1..Len(bindata) : bindata'[k] = bindata[k]
      /\ bindata'[Len(bindata) + 1] = Epsi!ByteAt(digit)
  BY <1>1, <1>2
<1>8. ASSUME NEW k \in 1..Len(bindata) + 1
      PROVE  \E i \in Nat : PairAt(text, i, k) /\ bindata'[k] = 16 * text[i] + text[i + 1]
  <2>1. CASE k = Len(bindata) + 1
    BY <1>3, <1>4, <1>6, <1>7, <2>1
  <2>2. CASE k \in 1..Len(bindata)
    BY <1>2, <1>7, <2>2 DEF PairsRead
  <2> QED
    BY <1>2, <2>1, <2>2
<1> QED
  BY <1>1, <1>6, <1>7, <1>8 DEF PairsRead

LEMMA TooFewDigits ==
  ASSUME PreviewSoFar, Epsi!DataBroken, NotSplit(text)
  PROVE  Count(text, Len(text)) < 2 * Epsi!DataBytes
<1>1. /\ stage = "data" /\ Len(bindata) < Epsi!DataBytes
      /\ offset < Len(text) => ~Epsi!HasByte(Epsi!Past(text, offset, Epsi!Hex))
  BY DEF Epsi!DataBroken
<1>2. /\ Len(bindata) \in Nat /\ PairsRead /\ Len(text) \in Nat /\ Start(text) \in Nat
      /\ preview \in PreviewComments
  BY <1>1, StartWithin DEF PreviewSoFar, EpsiSoFar, Epsi!TypeOK
<1>3. Count(text, Len(text)) = 2 * Len(bindata)
  <2>1. CASE offset < Len(text)
    <3> DEFINE digit == Epsi!Past(text, offset, Epsi!Hex)
    <3>1. ~Epsi!HasByte(digit)
      BY <1>1, <2>1
    <3> HIDE DEF digit
    <3>2. /\ digit \in offset..Len(text) /\ Count(text, digit) = 2 * Len(bindata)
          /\ digit < Len(text) => Epsi!HasByte(digit)
      BY <1>1, <2>1, NextPair DEF digit
    <3>3. digit = Len(text)
      BY <1>2, <3>1, <3>2 DEF PairsRead
    <3> QED
      BY <3>2, <3>3
  <2>2. CASE ~(offset < Len(text))
    BY <1>2, <2>2 DEF PairsRead
  <2> QED
    BY <2>1, <2>2
<1>4. Epsi!DataBytes \in Nat
  <2>1. preview.height \in Nat /\ Epsi!BytesPerLine \in Nat
    BY <1>2, PreviewNumbers, LineNumbers
  <2> DEFINE all == preview.height * Epsi!BytesPerLine
  <2>2. all \in Nat
    BY <2>1
  <2> HIDE DEF all
  <2>3. all % Word \in Nat
    BY <2>2, WordHalf
  <2> QED
    BY <2>3 DEF Epsi!DataBytes, all
<1> QED
  BY <1>1, <1>2, <1>3, <1>4

\* The byte, the bit and the digit of bit n of a row that begins with byte r.
LEMMA DigitOfBit ==
  ASSUME NEW r \in Nat, NEW n \in Nat
  PROVE  /\ (r * 8 + n) \div 8 = r + n \div 8 /\ (r * 8 + n) % 8 = n % 8 /\ n % 8 \in 0..7
         /\ n \div 8 \in Nat
         /\ n % 8 < 4 => n \div 4 = 2 * (n \div 8) /\ n % 4 = n % 8
         /\ n % 8 >= 4 => n \div 4 = 2 * (n \div 8) + 1 /\ n % 4 = (n % 8) - 4
OBVIOUS

LEMMA SampleDrawn ==
  ASSUME PreviewSoFar, NotSplit(text), stage = "data", Epsi!Inside,
         preview.height * Epsi!BytesPerLine * 8 < Word,
         NEW q \in Epsi!Pixels, NEW d \in 0..preview.depth-1
  PROVE  LET n == q[1] * preview.depth + d
         IN  \E i \in Start(text)+1..Len(text) :
               /\ text[i] \in Epsi!Hex
               /\ Count(text, i) = 2 * Epsi!BytesPerLine * q[2] + n \div 4 + 1
               /\ Epsi!BitOf(Epsi!BitNumber(q, d)) = (text[i] \div 2^(3 - (n % 4))) % 2
<1> DEFINE w == preview.width
           h == preview.height
           z == preview.depth
           b == Epsi!BytesPerLine
           n == q[1] * z + d
           rb == q[2] * b
           N == rb * 8 + n
<1>1. /\ preview \in PreviewComments /\ z \in {1, 2, 4, 8} /\ z \in Nat
      /\ w \in Nat /\ h \in Nat /\ b \in Nat /\ Word \in Nat /\ Word = 2 * Half
  BY PreviewNumbers, LineNumbers, WordHalf DEF PreviewSoFar, EpsiSoFar, Epsi!TypeOK
<1>2. q[1] \in 0..w-1 /\ q[2] \in 0..h-1
  BY DEF Epsi!Pixels
<1>3. w * z < Word
  <2>1. w * 8 + 31 < Half
    BY DEF Epsi!Inside, Epsi!HasImage, Half
  <2>2. z <= 8
    BY <1>1
  <2> HIDE DEF w, z
  <2> QED
    BY <1>1, <2>1, <2>2, FewBits
<1>4. w * z <= 8 * b
  BY <1>1, <1>3, LineNumbers
<1>5. q[2] * b * 8 + q[1] * z + d \in Nat /\ q[2] * b * 8 + q[1] * z + d < h * b * 8
  <2> HIDE DEF w, h, z, b
  <2> QED
    BY <1>1, <1>2, <1>4, BitWithin DEF z
<1>6. Epsi!BitNumber(q, d) = N /\ n \in Nat /\ rb \in Nat
  <2>1. Epsi!BitNumber(q, d) = (q[2] * b * 8 + q[1] * z + d) % Word
    BY DEF Epsi!BitNumber
  <2>2. h * b * 8 < Word
    OBVIOUS
  <2> HIDE DEF w, h, b
  <2>3. (q[2] * b * 8 + q[1] * z + d) % Word = q[2] * b * 8 + q[1] * z + d
    <3> DEFINE a == q[2] * b * 8 + q[1] * z + d
               c == h * b * 8
    <3>1. c \in Nat
      BY <1>1
    <3> HIDE DEF a, c
    <3>2. a < Word
      BY <1>1, <1>5, <2>2, <3>1 DEF a, c
    <3> QED
      BY <1>1, <1>5, <3>2, ModSame DEF a
  <2>4. q[1] * z \in Nat /\ q[2] * b \in Nat /\ d \in Nat
    BY <1>1, <1>2
  <2> QED
    BY <2>1, <2>3, <2>4
<1> HIDE DEF n, rb
<1>7. /\ N \div 8 = rb + n \div 8 /\ N % 8 = n % 8 /\ n % 8 \in 0..7 /\ n \div 8 \in Nat
      /\ n % 8 < 4 => n \div 4 = 2 * (n \div 8) /\ n % 4 = n % 8
      /\ n % 8 >= 4 => n \div 4 = 2 * (n \div 8) + 1 /\ n % 4 = (n % 8) - 4
  BY <1>6, DigitOfBit
<1>8. N \div 8 < Len(bindata)
  BY <1>6 DEF Epsi!Inside
<1> DEFINE k == rb + n \div 8 + 1
<1>9. k \in 1..Len(bindata)
  <2>1. Len(bindata) \in Nat
    BY DEF PreviewSoFar, EpsiSoFar, Epsi!TypeOK
  <2> QED
    BY <1>6, <1>7, <1>8, <2>1
<1>10. PICK i \in Nat : PairAt(text, i, k) /\ bindata[k] = 16 * text[i] + text[i + 1]
  BY <1>9 DEF PreviewSoFar, PairsRead
<1>11. Epsi!BitOf(N) = (bindata[k] \div 2^(7 - (n % 8))) % 2
  BY <1>7 DEF Epsi!BitOf
<1>12. text[i] \in 0..15 /\ text[i + 1] \in 0..15
  BY <1>10 DEF PairAt, Epsi!Hex
<1> DEFINE m == n % 8
<1>13. Epsi!BitOf(N) = IF m < 4 THEN (text[i] \div 2^(3 - m)) % 2
                       ELSE (text[i + 1] \div 2^(7 - m)) % 2
  <2> DEFINE high == text[i]
             low == text[i + 1]
  <2>1. Epsi!BitOf(N) = ((16 * high + low) \div 2^(7 - m)) % 2
    BY <1>10, <1>11
  <2>2. high \in 0..15 /\ low \in 0..15 /\ m \in 0..7
    BY <1>7, <1>12
  <2> HIDE DEF high, low, m
  <2>3. Epsi!BitOf(N) = IF m < 4 THEN (high \div 2^(3 - m)) % 2 ELSE (low \div 2^(7 - m)) % 2
    BY <2>1, <2>2, BitsOfDigits
  <2> QED
    BY <2>3 DEF high, low
<1>14. /\ Start(text) \in Nat /\ Len(text) \in Nat
       /\ 2 * b * q[2] = 2 * rb
  <2>1. text \in Seq(-4..15)
    BY DEF PreviewSoFar, EpsiSoFar, Epsi!TypeOK
  <2>2. 2 * b * q[2] = 2 * rb
    <3> HIDE DEF b
    <3> QED
      BY <1>1, <1>2 DEF rb
  <2> QED
    BY <2>1, <2>2, StartWithin
<1>15. CASE m < 4
  <2>1. Count(text, i) = 2 * rb + n \div 4 + 1
    BY <1>6, <1>7, <1>10, <1>15 DEF PairAt
  <2>2. Epsi!BitOf(N) = (text[i] \div 2^(3 - (n % 4))) % 2
    BY <1>7, <1>13, <1>15
  <2>3. i \in Start(text)+1..Len(text) /\ text[i] \in Epsi!Hex
    BY <1>10, <1>14 DEF PairAt
  <2> QED
    BY <1>6, <1>14, <2>1, <2>2, <2>3 DEF n
<1>16. CASE m >= 4
  <2>1. Count(text, i + 1) = 2 * rb + n \div 4 + 1
    BY <1>6, <1>7, <1>10, <1>16 DEF PairAt
  <2>2. 3 - (n % 4) = 7 - m
    BY <1>7, <1>16
  <2>3. Epsi!BitOf(N) = (text[i + 1] \div 2^(3 - (n % 4))) % 2
    BY <1>7, <1>13, <1>16, <2>2
  <2>4. i + 1 \in Start(text)+1..Len(text) /\ text[i + 1] \in Epsi!Hex
    BY <1>10, <1>14 DEF PairAt
  <2> QED
    BY <1>6, <1>14, <2>1, <2>3, <2>4 DEF n
<1> QED
  BY <1>7, <1>15, <1>16

-----------------------------------------------------------------------------
(* Each step of getEPSIPreview keeps what is known of the preview.          *)

\* What is told of the text stays as long as the text does.
LEMMA TextStays ==
  ASSUME text' = text, preview' = preview
  PROVE  /\ Start(text') = Start(text) /\ (NotSplit(text') <=> NotSplit(text))
         /\ Epsi!BytesPerLine' = Epsi!BytesPerLine /\ Epsi!Pixels' = Epsi!Pixels
         /\ Epsi!DataBytes' = Epsi!DataBytes
BY DEF Epsi!BytesPerLine, Epsi!Pixels, Epsi!DataBytes

LEMMA PreviewDrawn ==
  ASSUME PreviewSoFar, Epsi!Draw, decoded' = "pass", NotSplit(text)
  PROVE  SamplesRight'
<1>1. /\ stage = "data" /\ Epsi!Inside /\ text' = text /\ preview' = preview
      /\ pixels' = [q \in Epsi!Pixels |->
                      [d \in 0..preview.depth-1 |-> Epsi!BitOf(Epsi!BitNumber(q, d))]]
  BY DEF Epsi!Draw
<1>2. Epsi!BytesPerLine' = Epsi!BytesPerLine /\ Epsi!Pixels' = Epsi!Pixels
  BY <1>1, TextStays
<1>3. SUFFICES ASSUME preview.height * Epsi!BytesPerLine * 8 < Word,
                      NEW q \in Epsi!Pixels, NEW d \in 0..preview.depth-1
               PROVE  SampleRight(q, d)'
  BY <1>1, <1>2 DEF SamplesRight
<1>4. pixels'[q][d] = Epsi!BitOf(Epsi!BitNumber(q, d))
  BY <1>1
<1> DEFINE n == q[1] * preview.depth + d
<1>5. PICK i \in Start(text)+1..Len(text) :
        /\ text[i] \in Epsi!Hex
        /\ Count(text, i) = 2 * Epsi!BytesPerLine * q[2] + n \div 4 + 1
        /\ Epsi!BitOf(Epsi!BitNumber(q, d)) = (text[i] \div 2^(3 - (n % 4))) % 2
  BY <1>1, <1>3, SampleDrawn
<1> QED
  BY <1>1, <1>2, <1>4, <1>5 DEF SampleRight

LEMMA PreviewStep ==
  PreviewSoFar /\ Epsi!Next => PreviewSoFar'
<1> SUFFICES ASSUME PreviewSoFar, Epsi!Next
             PROVE  PreviewSoFar'
  OBVIOUS
<1>1. EpsiSoFar' /\ text \in Seq(-4..15) /\ (stage # "done" => decoded # "pass")
  BY EpsiReads DEF PreviewSoFar, EpsiSoFar, Epsi!TypeOK
<1>2. CASE Epsi!ReadFails
  BY <1>1, <1>2 DEF Epsi!ReadFails, PreviewSoFar
<1>3. CASE Epsi!ReadComment
  <2>1. /\ stage = "read" /\ stage' = "data" /\ text' = text /\ bindata' = <<>>
        /\ offset' = Start(text) /\ decoded' = decoded
    BY <1>3 DEF Epsi!ReadComment, Epsi!DataStart, Start, PreviewSoFar
  <2>2. Start(text) \in 0..Len(text) /\ Len(text) \in Nat /\ Count(text, Start(text)) = 0
    BY <1>1, StartWithin, NoneCounted
  <2>3. PairsRead'
    BY <2>1, <2>2 DEF PairsRead
  <2> QED
    BY <1>1, <2>1, <2>3 DEF PreviewSoFar
<1>4. CASE Epsi!ReadByte
  <2>1. stage = "data" /\ stage' = "data" /\ text' = text /\ decoded' = decoded
    BY <1>4 DEF Epsi!ReadByte
  <2>2. NotSplit(text) => PairsRead'
    BY <1>4, ByteRead
  <2> QED
    BY <1>1, <2>1, <2>2 DEF PreviewSoFar
<1>5. CASE Epsi!DataBroken
  <2>1. /\ stage = "data" /\ stage' = "broken" /\ text' = text /\ preview' = preview
        /\ decoded' = "fail"
    BY <1>5 DEF Epsi!DataBroken
  <2>2. NotSplit(text) => Count(text, Len(text)) < 2 * Epsi!DataBytes
    BY <1>5, TooFewDigits
  <2>3. Epsi!DataBytes' = Epsi!DataBytes
    BY <2>1, TextStays
  <2> QED
    BY <1>1, <2>1, <2>2, <2>3 DEF PreviewSoFar
<1>6. CASE Epsi!Draw
  <2>1. stage' = "done" /\ text' = text
    BY <1>6 DEF Epsi!Draw
  <2>2. decoded' = "pass" /\ NotSplit(text) => SamplesRight'
    BY <1>6, PreviewDrawn
  <2> QED
    BY <1>1, <2>1, <2>2 DEF PreviewSoFar
<1>7. CASE Epsi!DrawOutside
  <2>1. stage = "data" /\ stage' = "outside" /\ decoded' = decoded
    BY <1>7 DEF Epsi!DrawOutside
  <2> QED
    BY <1>1, <2>1 DEF PreviewSoFar
<1> QED
  BY <1>2, <1>3, <1>4, <1>5, <1>6, <1>7 DEF Epsi!Next

LEMMA PreviewStays ==
  PreviewSoFar /\ UNCHANGED epsiVars => PreviewSoFar'
<1> SUFFICES ASSUME PreviewSoFar, UNCHANGED epsiVars
             PROVE  PreviewSoFar'
  OBVIOUS
<1>1. UNCHANGED <<preview, text, offset, bindata, pixels, stage, decoded>>
  BY DEF epsiVars
<1>2. EpsiSoFar'
  BY <1>1 DEF PreviewSoFar, EpsiSoFar, Epsi!TypeOK, Epsi!PreviewInside, Epsi!BytesPerLine
<1>3. Epsi!BytesPerLine' = Epsi!BytesPerLine /\ Epsi!Pixels' = Epsi!Pixels
      /\ Epsi!DataBytes' = Epsi!DataBytes
  BY <1>1, TextStays
<1>4. PairsRead' <=> PairsRead
  BY <1>1 DEF PairsRead
<1>5. SamplesRight => SamplesRight'
  BY <1>1, <1>3 DEF SamplesRight, SampleRight
<1> QED
  BY <1>1, <1>2, <1>3, <1>4, <1>5 DEF PreviewSoFar

PreviewInv == plugin = "epsi" => PreviewSoFar

LEMMA PreviewInit == Init => PreviewInv
<1> SUFFICES ASSUME Init, plugin = "epsi"
             PROVE  PreviewSoFar
  BY DEF PreviewInv
<1>1. EpsiSoFar
  BY CallInit DEF CallInv
<1>2. stage = "read" /\ bindata = <<>> /\ decoded = "none"
  BY DEF Init, Epsi!Init
<1> QED
  BY <1>1, <1>2 DEF PreviewSoFar

LEMMA PreviewKept == PreviewInv /\ [Next]_vars => PreviewInv'
<1> SUFFICES ASSUME PreviewInv, [Next]_vars, plugin' = "epsi"
             PROVE  PreviewSoFar'
  BY DEF PreviewInv
<1>1. plugin = "epsi"
  BY DEF Next, BlenderStep, RawStep, EpsiStep, DscStep, Options, vars
<1>2. CASE EpsiStep
  BY <1>1, <1>2, PreviewStep DEF EpsiStep, PreviewInv
<1>3. CASE UNCHANGED vars
  <2>1. UNCHANGED epsiVars
    BY <1>3 DEF vars
  <2> QED
    BY <1>1, <2>1, PreviewStays DEF PreviewInv
<1> QED
  BY <1>1, <1>2, <1>3 DEF Next, BlenderStep, RawStep, DscStep, Options

LEMMA PreviewInvariant == Spec => []PreviewInv
BY PreviewInit, PreviewKept, PTL DEF Spec

\* The names of the model.
LEMMA Digits ==
  /\ Epsi!DataStart = Start(text)
  /\ \A n : Epsi!DigitsUpTo(n) = Count(text, n)
  /\ Epsi!Paired <=> NotSplit(text)
<1>1. Epsi!DataStart = Start(text)
  BY DEF Epsi!DataStart, Start
<1>2. \A n : Epsi!DigitsUpTo(n) = Count(text, n)
  BY <1>1 DEF Epsi!DigitsUpTo, Count, Cardinality, Epsi!Cardinality
<1> QED
  BY <1>1, <1>2 DEF Epsi!Paired, NotSplit

-----------------------------------------------------------------------------
\* For a preview of any size that an int can count, of each depth, and any text whose
\* digits come in pairs: each pixel that getEPSIPreview returns is made of the digits that
\* the file has for it, wherever lines and other characters part them.
THEOREM PreviewSamples == Spec => []SamplesShown
<1>1. PreviewInv => SamplesShown
  <2> SUFFICES ASSUME PreviewInv, plugin = "epsi"
               PROVE  Epsi!SamplesShown
    BY DEF SamplesShown
  <2>1. decoded = "pass" /\ Epsi!Paired => SamplesRight
    BY Digits DEF PreviewInv, PreviewSoFar
  <2> SUFFICES ASSUME SamplesRight, preview.height * Epsi!BytesPerLine * 8 < Word,
                      NEW q \in Epsi!Pixels, NEW d \in 0..preview.depth-1
               PROVE  LET n == q[1] * preview.depth + d
                      IN  \E i \in Epsi!DataStart+1..Len(text) :
                            /\ text[i] \in Epsi!Hex
                            /\ Epsi!DigitsUpTo(i) = 2 * Epsi!BytesPerLine * q[2] + n \div 4 + 1
                            /\ pixels[q][d] = (text[i] \div 2^(3 - (n % 4))) % 2
    BY <2>1 DEF Epsi!SamplesShown
  <2>2. SampleRight(q, d)
    BY DEF SamplesRight
  <2> QED
    BY <2>2, Digits DEF SampleRight
<1> QED
  BY <1>1, PreviewInvariant, PTL

\* And when it refuses a text whose digits come in pairs, they are too few.
THEOREM PreviewsTaken == Spec => []PreviewTaken
<1>1. PreviewInv => PreviewTaken
  BY Digits DEF PreviewInv, PreviewSoFar, PreviewTaken, Epsi!PreviewTaken
<1> QED
  BY <1>1, PreviewInvariant, PTL
=============================================================================
