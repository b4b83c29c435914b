------------------------- MODULE MCThumbnailPlugins -------------------------
(***************************************************************************)
(* Instance of ThumbnailPlugins for TLC, with integers of 11 bits.         *)
(***************************************************************************)
EXTENDS ThumbnailPlugins

CONSTANTS A4, Letter
MCNames == {A4, Letter}
MCKnownNames == {A4}

MCLengths == {0, 5, 12, 31, 32, 36, 40, 55, 56, 60, 61, 72, 80, 110}
\* Sizes of images of 1, 2, 3 and 4 pixels, and sizes that are none of an image.
MCFileSizes == {-1024, -1020, -1, 0, 7, 8, 9, 12, 16, 19, 20, 24, 1023}
MCDimensions == {-1024, -1, 0, 1, 2, 3, 4, 1023}

\* A small box, one off the origin, an empty one, one that is larger than 72 times a
\* thumbnail, an inverted one, and one with an overflow.
MCBoxes == {
  [llx |-> 0, lly |-> 0, urx |-> 20, ury |-> 30],
  [llx |-> -10, lly |-> 5, urx |-> 121, ury |-> 78],
  [llx |-> 7, lly |-> 7, urx |-> 7, ury |-> 9],
  [llx |-> 0, lly |-> 0, urx |-> 300, ury |-> 100],
  [llx |-> 30, lly |-> 20, urx |-> 0, ury |-> 25],
  [llx |-> -800, lly |-> 0, urx |-> 900, ury |-> 500] }

\* Lines that end within a byte and with one, samples of each depth, no pixels, an
\* unsupported depth; and widths and heights that an int cannot count.
MCPreviewComments ==
  [width : {3}, height : {2}, depth : {1, 2}] \cup [width : {1, 2}, height : {1}, depth : {4, 8}]
  \cup { [width |-> 9, height |-> 1, depth |-> 1], [width |-> 0, height |-> 1, depth |-> 1],
         [width |-> 1, height |-> 1, depth |-> 12], [width |-> 256, height |-> 1, depth |-> 8],
         [width |-> 20, height |-> 683, depth |-> 1], [width |-> 1, height |-> 257, depth |-> 1] }
\* Behind the first % digits, ends of lines and other characters; a % and a space on the
\* rest of the comment; or there is no %.
MCPreviewTexts ==
  LET Characters(C, k) == UNION {[1..n -> C] : n \in 0..k}
  IN  { <<-4, -1>> \o t : t \in Characters({1, 14, -4, -3}, 5) }
      \cup { <<3, -2, -1, 1, -4, -3, -1>> \o t : t \in Characters({1, 14, -4, -2}, 2) }
      \cup { <<>>, <<3>>, <<-1, 14, -2, 1>>, <<-1, 14, -4, 1>>,
            <<-4, -1>> \o [i \in 1..514 |-> IF i <= 512 THEN 14 ELSE 1] }

MCRequests == { [width |-> w, height |-> h] : w \in {1, 2, 3}, h \in {1, 2, 3} }
=============================================================================
