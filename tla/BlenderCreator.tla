--------------------------- MODULE BlenderCreator ---------------------------
(***************************************************************************)
(* BlenderCreator::create (blend/blendercreator.cpp): a stream of blocks,  *)
(* each with a header that gives its name and size, is read up to the      *)
(* thumbnail block; the image is taken from that.                          *)
(*                                                                         *)
(* The stream is a position and a length; what is read at a position is    *)
(* chosen when it is read, as no byte is read twice.  Sizes are signed     *)
(* integers of the machine and come from the file.                         *)
(***************************************************************************)
EXTENDS Integers

CONSTANTS
  Word,          \* 2^w of an int
  Lengths,       \* lengths of the (decompressed) file
  FileHead,          \* length of the file header, 12
  BlockHeads,    \* lengths of the header of a block: 20, or 24 for 64 bits
  FileSizes,     \* block sizes that a file may give
  FileDimensions \* widths and heights that a file may give

VARIABLES
  length,  \* of the file
  at,      \* position in the stream
  header,  \* fileBlockHeaderSize
  id,      \* name of the block: "REND", "TEST" or another
  size,    \* fileBlockSize
  x, y,    \* dimensions of the image
  image,   \* imgSize, the size of imgBuffer
  got,     \* readData: how many bytes of imgBuffer came from the file
  step,    \* where in create: "head", "blocks", "test", "size", "read", "show", "done"
  result   \* "fail", "pass", or "none" before the end

vars == <<length, at, header, id, size, x, y, image, got, step, result>>

Ints == -(Word \div 2)..(Word \div 2) - 1
Least(a, b) == IF a <= b THEN a ELSE b
Left == length - at   \* what the stream has left

TypeOK ==
  /\ length \in Lengths /\ at \in 0..length /\ header \in BlockHeads
  /\ id \in {"REND", "TEST", "other"}
  /\ size \in Ints /\ x \in Ints /\ y \in Ints
  /\ image \in 0..(Word \div 2) - 1 /\ got \in 0..image
  /\ step \in {"head", "blocks", "test", "size", "read", "show", "done"}
  /\ result \in {"none", "pass", "fail"}

Init ==
  /\ length \in Lengths /\ at = 0 /\ header \in BlockHeads
  /\ id = "other" /\ size = 0 /\ x = 0 /\ y = 0 /\ image = 0 /\ got = 0
  /\ step = "head" /\ result = "none"

Fail == step' = "done" /\ result' = "fail"
Goto(s) == step' = s /\ result' = result

\* The file cannot be opened or decompressed.
OpenFails ==
  /\ step = "head" /\ Fail
  /\ UNCHANGED <<length, at, header, id, size, x, y, image, got>>

\* A head that is short keeps zeros, and is not that of a Blender file.
ReadHead ==
  /\ step = "head"
  /\ at' = Least(FileHead, length)
  /\ Fail \/ (length >= FileHead /\ Goto("blocks"))
  /\ UNCHANGED <<length, header, id, size, x, y, image, got>>

HeaderMissing ==
  /\ step = "blocks" /\ Left < header
  /\ at' = length /\ Fail
  /\ UNCHANGED <<length, header, id, size, x, y, image, got>>

\* mutant: the position is set without a look at the size
Skipped_Seek(p, n) == IF p + n < 0 THEN 0 ELSE Least(p + n, length)

\* mutant: the end of the file is passed
Skipped_Past(p, n) == IF n < 0 THEN p ELSE p + n

\* QDataStream::skipRawData: nothing happens for a negative number, and the
\* end is never passed.
Skipped(p, n) == IF n < 0 THEN p ELSE Least(p + n, length)

ReadHeader(name, n) == Left >= header /\ id' = name /\ size' = n

SkipBlock ==
  /\ step = "blocks"
  /\ \E n \in FileSizes : ReadHeader("REND", n) /\ at' = Skipped(at + header, n)
  /\ UNCHANGED <<length, header, x, y, image, got, step, result>>

LastBlock ==
  /\ step = "blocks"
  /\ \E name \in {"TEST", "other"}, n \in FileSizes : ReadHeader(name, n)
  /\ at' = at + header
  /\ Goto("test")
  /\ UNCHANGED <<length, header, x, y, image, got>>

NotTest ==
  /\ step = "test" /\ id # "TEST" /\ Fail
  /\ UNCHANGED <<length, at, header, id, size, x, y, image, got>>

\* The result of this read is not looked at.  A dimension of which no byte was
\* there is 0.
ReadDimensions ==
  /\ step = "test" /\ id = "TEST"
  /\ at' = Least(at + 8, length)
  /\ x' \in FileDimensions \cup {0} /\ (Left = 0 => x' = 0)
  /\ y' \in FileDimensions \cup {0} /\ (Left <= 4 => y' = 0)
  /\ Goto("size")
  /\ UNCHANGED <<length, header, id, size, image, got>>

\* fileBlockSize - 8; below the range of an int the build may wrap it around or
\* find that it is not positive.
ImgSizes ==
  IF size - 8 \in Ints THEN {size - 8} ELSE {size - 8 + Word, -1}

SizeFits_Floor(n) == n > 0 /\ x > 0 /\ y > 0 /\ (n \div 4) \div y <= x  \* mutant
SizeFits(n) == n > 0 /\ x > 0 /\ y > 0 /\ (n \div 4) \div y = x

\* imgBuffer is allocated only when the size is that of the image.
CheckSize ==
  /\ step = "size"
  /\ \E n \in ImgSizes :
       IF SizeFits(n) THEN image' = n /\ Goto("read") ELSE image' = image /\ Fail
  /\ UNCHANGED <<length, at, header, id, size, x, y, got>>

\* mutant: the last bytes of the file are never taken
ReadImage_Short ==
  /\ step = "read"
  /\ got' = Least(image, IF Left > 0 THEN Left - 1 ELSE 0) /\ at' = at + got'
  /\ IF got' = image THEN Goto("show") ELSE Fail
  /\ UNCHANGED <<length, header, id, size, x, y, image>>

ReadImage ==
  /\ step = "read"
  /\ got' = Least(image, Left) /\ at' = at + got'
  /\ IF got' = image THEN Goto("show") ELSE Fail
  /\ UNCHANGED <<length, header, id, size, x, y, image>>

\* The image looks at imgBuffer where it is; scaling it may give none.
Show ==
  /\ step = "show" /\ step' = "done" /\ result' \in {"pass", "fail"}
  /\ UNCHANGED <<length, at, header, id, size, x, y, image, got>>

Next ==
  \/ OpenFails \/ ReadHead \/ HeaderMissing \/ SkipBlock \/ LastBlock \/ NotTest
  \/ ReadDimensions \/ CheckSize \/ ReadImage \/ Show

Spec == Init /\ [][Next]_vars
LiveSpec == Spec /\ WF_vars(Next)

-----------------------------------------------------------------------------
\* Every pixel that the image shows lies in the buffer and came from the file, and its
\* size was computed without overflow, whatever sizes and dimensions the file gives.
ImageInside ==
  step = "show" => x > 0 /\ y > 0 /\ 4 * x * y <= image /\ image = got /\ 4 * x * y \in Ints

\* A thumbnail block whose size is the one that its dimensions ask for is not refused,
\* unless the file ends in it.
ThumbnailTaken ==
  step = "done" /\ id = "TEST" /\ x > 0 /\ y > 0 /\ size = 8 + 4 * x * y =>
    image = size - 8 /\ (got = image \/ at = length)

\* Each round reads on in the file, so that create returns for every file.
BlenderReturns == <>(step = "done")
=============================================================================
