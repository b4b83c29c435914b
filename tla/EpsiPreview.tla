----------------------------- MODULE EpsiPreview -----------------------------
(***************************************************************************)
(* GSCreator::getEPSIPreview (ps/gscreator.cpp): the preview of an EPSI    *)
(* file is a comment that gives width, height and depth, and lines of      *)
(* hexadecimal digits behind a %, which are read into bytes and drawn bit  *)
(* by bit.                                                                 *)
(*                                                                         *)
(* A character is the value of a hexadecimal digit, or one of Percent,     *)
(* Newline (\n or \r), Space (other white space) and Other.  Memory        *)
(* suffices for any image that Qt agrees to make, and no character is NUL. *)
(***************************************************************************)
EXTENDS Integers, Sequences, FiniteSets

CONSTANTS
  Word,             \* 2^w of an int
  PreviewComments,  \* the first three numbers of a preview, as [width, height, depth]
  PreviewTexts      \* what may follow them

Percent == -1
Space == -2
Other == -3
Newline == -4
Hex == 0..15

VARIABLES
  preview,   \* width, height, depth
  text,      \* previewstr, from the third number on
  offset,    \* how much of it was passed
  bindata,   \* the bytes read
  pixels,    \* the image: the bits of each pixel, the lowest first; <<>> before
  stage,     \* where in getEPSIPreview: "read", "data", "broken" (the data is not as it
             \* should be), "outside" (memory was touched that is none of it), "done"
  decoded    \* "fail", "pass", or "none" before the end

vars == <<preview, text, offset, bindata, pixels, stage, decoded>>

TypeOK ==
  /\ preview \in PreviewComments /\ text \in Seq(-4..15) /\ offset \in Nat
  /\ bindata \in Seq(0..255)
  /\ stage \in {"read", "data", "broken", "outside", "done"}
  /\ decoded \in {"none", "pass", "fail"}

Init ==
  /\ preview \in PreviewComments /\ text \in PreviewTexts /\ offset = 0
  /\ bindata = <<>> /\ pixels = <<>> /\ stage = "read" /\ decoded = "none"

\* The first place in s, not before i, where a character of C is next; or the end.
Past(s, i, C) ==
  CHOOSE j \in i..Len(s) : /\ j = Len(s) \/ s[j + 1] \in C
                           /\ \A k \in i..j-1 : s[k + 1] \notin C

\* Behind the rest of the comment and up to a %.
DataStart == Past(text, Past(text, 0, {Newline}), {Percent})

\* The file is gone or too short, or the depth is not supported.
ReadFails ==
  /\ stage = "read" /\ stage' = "done" /\ decoded' = "fail"
  /\ UNCHANGED <<preview, text, offset, bindata, pixels>>

ReadComment ==
  /\ stage = "read" /\ preview.depth \in {1, 2, 4, 8}
  /\ offset' = DataStart /\ stage' = "data"
  /\ UNCHANGED <<preview, text, bindata, pixels, decoded>>

\* mutant: the last byte of a line is not counted when it is not full
BytesPerLine_Floor == ((preview.width * preview.depth) % Word) \div 8
BytesPerLine ==
  LET bits == (preview.width * preview.depth) % Word
  IN  bits \div 8 + IF bits % 8 # 0 THEN 1 ELSE 0
DataBytes == (preview.height * BytesPerLine) % Word

\* mutant: a byte that ends the preview is not taken
HasByte_More(at) == at + 2 < Len(text) /\ text[at + 2] \in Hex \cup {Space, Newline}
\* Two characters are a number, or one that white space or nothing follows.
HasByte(at) ==
  at < Len(text) /\ (at + 1 < Len(text) => text[at + 2] \in Hex \cup {Space, Newline})
ByteAt(at) ==
  IF at + 1 < Len(text) /\ text[at + 2] \in Hex THEN 16 * text[at + 1] + text[at + 2]
  ELSE text[at + 1]

ReadByte ==
  /\ stage = "data" /\ Len(bindata) < DataBytes /\ offset < Len(text)
  /\ LET at == Past(text, offset, Hex)
     IN  HasByte(at) /\ bindata' = Append(bindata, ByteAt(at)) /\ offset' = at + 2
  /\ UNCHANGED <<preview, text, pixels, stage, decoded>>

DataBroken ==
  /\ stage = "data" /\ Len(bindata) < DataBytes
  /\ offset < Len(text) => ~HasByte(Past(text, offset, Hex))
  /\ stage' = "broken" /\ decoded' = "fail"
  /\ UNCHANGED <<preview, text, offset, bindata, pixels>>

-----------------------------------------------------------------------------
\* Qt makes an image of 8 bits per pixel when a line of it can be counted by an int.
HasImage == preview.width > 0 /\ preview.height > 0 /\ preview.width * 8 + 31 < Word \div 2

Pixels == (0..preview.width-1) \X (0..preview.height-1)
\* The number of bit d of pixel q = <<column, row>> in bindata.
BitNumber(q, d) ==
  (q[2] * BytesPerLine * 8 + q[1] * preview.depth + d) % Word

BitOf_Low(n) == (bindata[n \div 8 + 1] \div 2^(n % 8)) % 2  \* mutant: lowest bit first
BitOf(n) == (bindata[n \div 8 + 1] \div 2^(7 - (n % 8))) % 2

Inside ==
  \A q \in Pixels :
    HasImage /\ \A d \in 0..preview.depth-1 : BitNumber(q, d) \div 8 < Len(bindata)

\* An image without pixels is none; and scaling it may give none.
Draw ==
  /\ stage = "data" /\ Len(bindata) = DataBytes /\ Inside
  /\ pixels' = [q \in Pixels |-> [d \in 0..preview.depth-1 |-> BitOf(BitNumber(q, d))]]
  /\ stage' = "done" /\ decoded' \in IF HasImage THEN {"pass", "fail"} ELSE {"fail"}
  /\ UNCHANGED <<preview, text, offset, bindata>>

DrawOutside ==
  /\ stage = "data" /\ Len(bindata) = DataBytes /\ ~Inside
  /\ stage' = "outside"
  /\ UNCHANGED <<preview, text, offset, bindata, pixels, decoded>>

Next == ReadFails \/ ReadComment \/ ReadByte \/ DataBroken \/ Draw \/ DrawOutside
Spec == Init /\ [][Next]_vars

-----------------------------------------------------------------------------
\* Drawing never leaves the image and the bytes that were read, as long as an int can
\* count what the comment announces: the bits of a line, for Qt, and all the bits.
PreviewInside ==
  stage = "outside" =>
    \/ preview.width * 8 + 31 >= Word \div 2
    \/ preview.height * BytesPerLine * 8 >= Word

\* How many of the first n characters are digits of the preview, and whether no pair of
\* digits is split.
DigitsUpTo(n) == Cardinality({i \in DataStart+1..n : text[i] \in Hex})
Paired ==
  \A i \in DataStart+1..Len(text) :
    text[i] \in Hex /\ DigitsUpTo(i) % 2 = 1 => i < Len(text) /\ text[i + 1] \in Hex

\* Each pixel is made of the bits that the file has for it: a row begins with a new
\* byte, wherever lines, spaces and other characters part the digits.  (The first bit
\* of a sample becomes the lowest: black and white are right, the grays of a depth of
\* more than 1 are those of the reversed bits.)  This is so as long as an int can count
\* the bits: with more of them the last rows show the first ones.
SamplesShown ==
  decoded = "pass" /\ Paired /\ preview.height * BytesPerLine * 8 < Word =>
    \A q \in Pixels, d \in 0..preview.depth-1 :
      LET n == q[1] * preview.depth + d
      IN  \E i \in DataStart+1..Len(text) :
            /\ text[i] \in Hex /\ DigitsUpTo(i) = 2 * BytesPerLine * q[2] + n \div 4 + 1
            /\ pixels[q][d] = (text[i] \div 2^(3 - (n % 4))) % 2

\* A preview is refused for its data only when there is too little of it.
PreviewTaken ==
  stage = "broken" /\ Paired => DigitsUpTo(Len(text)) < 2 * DataBytes
=============================================================================
