----------------------------- MODULE RawCreator -----------------------------
(***************************************************************************)
(* RAWCreator::create (raw/rawcreator.cpp) turns the embedded preview the  *)
(* way its EXIF orientation asks for, with the two operations of QImage.   *)
(*                                                                         *)
(* A picture is a function from its pixels <<column, row>> to what is seen *)
(* there; the preview of w columns and h rows shows at each pixel where    *)
(* that was, so that any two ways to turn it differ.                       *)
(***************************************************************************)
EXTENDS Integers

CONSTANTS Widths, Heights

\* KExiv2::ImageOrientation, in the order of its values 0 to 8.
Orientations == {"UNSPECIFIED", "NORMAL", "HFLIP", "ROT_180", "VFLIP", "ROT_90_HFLIP",
                 "ROT_90", "ROT_90_VFLIP", "ROT_270"}
NoOrientation == "none"

VARIABLES
  columns, rows,  \* of the preview
  orientation,    \* of EXIF, or NoOrientation if that cannot be read
  created,        \* create has returned
  shown           \* its picture; <<>> if there is none

vars == <<columns, rows, orientation, created, shown>>

Preview == [p \in (0..columns-1) \X (0..rows-1) |-> p]

\* The size of a picture, from the pixels it has.
Columns(p) == CHOOSE n \in Widths \cup Heights : <<n - 1, 0>> \in DOMAIN p /\ <<n, 0>> \notin DOMAIN p
Rows(p) == CHOOSE n \in Widths \cup Heights : <<0, n - 1>> \in DOMAIN p /\ <<0, n>> \notin DOMAIN p

\* QImage::mirrored(horizontal, vertical)
Mirrored(p, horizontal, vertical) ==
  [q \in DOMAIN p |-> p[<<IF horizontal THEN Columns(p) - 1 - q[1] ELSE q[1],
                          IF vertical THEN Rows(p) - 1 - q[2] ELSE q[2]>>]]

\* QImage::transformed(QTransform().rotate(90)): clockwise
Rotated90(p) ==
  [q \in (0..Rows(p)-1) \X (0..Columns(p)-1) |-> p[<<q[2], Rows(p) - 1 - q[1]>>]]
Rotated180(p) == Rotated90(Rotated90(p))
Rotated270(p) == Rotated90(Rotated180(p))

\* mutant: the rotation of two cases is swapped
Oriented_Swap(p, o) ==
  CASE o \in {NoOrientation, "UNSPECIFIED", "NORMAL"} -> p
    [] o = "HFLIP" -> Mirrored(p, TRUE, FALSE)
    [] o = "ROT_180" -> Rotated180(p)
    [] o = "VFLIP" -> Mirrored(p, FALSE, TRUE)
    [] o = "ROT_90_HFLIP" -> Rotated90(Mirrored(p, TRUE, FALSE))
    [] o = "ROT_90" -> Rotated270(p)
    [] o = "ROT_90_VFLIP" -> Rotated90(Mirrored(p, FALSE, TRUE))
    [] o = "ROT_270" -> Rotated90(p)

Oriented(p, o) ==
  CASE o \in {NoOrientation, "UNSPECIFIED", "NORMAL"} -> p
    [] o = "HFLIP" -> Mirrored(p, TRUE, FALSE)
    [] o = "ROT_180" -> Rotated180(p)
    [] o = "VFLIP" -> Mirrored(p, FALSE, TRUE)
    [] o = "ROT_90_HFLIP" -> Rotated90(Mirrored(p, TRUE, FALSE))
    [] o = "ROT_90" -> Rotated90(p)
    [] o = "ROT_90_VFLIP" -> Rotated90(Mirrored(p, FALSE, TRUE))
    [] o = "ROT_270" -> Rotated270(p)

Init ==
  /\ columns \in Widths /\ rows \in Heights /\ orientation \in Orientations \cup {NoOrientation}
  /\ created = FALSE /\ shown = <<>>

\* The preview cannot be loaded.
Fails == ~created /\ created' = TRUE /\ UNCHANGED <<columns, rows, orientation, shown>>

Shows ==
  /\ ~created /\ created' = TRUE /\ shown' = Oriented(Preview, orientation)
  /\ UNCHANGED <<columns, rows, orientation>>

Next == Fails \/ Shows
Spec == Init /\ [][Next]_vars

-----------------------------------------------------------------------------
(* The EXIF standard says, for each orientation, at which side of the scene *)
(* the first row and the first column of the preview lie.                  *)
FirstRow(o) ==
  CASE o \in {NoOrientation, "UNSPECIFIED", "NORMAL", "HFLIP"} -> "top"
    [] o \in {"ROT_180", "VFLIP"} -> "bottom"
    [] o \in {"ROT_90_HFLIP", "ROT_270"} -> "left"
    [] o \in {"ROT_90", "ROT_90_VFLIP"} -> "right"
FirstColumn(o) ==
  CASE o \in {NoOrientation, "UNSPECIFIED", "NORMAL", "VFLIP"} -> "left"
    [] o \in {"HFLIP", "ROT_180"} -> "right"
    [] o \in {"ROT_90_HFLIP", "ROT_90"} -> "top"
    [] o \in {"ROT_90_VFLIP", "ROT_270"} -> "bottom"

\* Where line n of count lines lies, counted from that side, as <<column or row, number>>.
Side(s, n, count) ==
  CASE s = "top" -> <<2, n>>
    [] s = "bottom" -> <<2, count - 1 - n>>
    [] s = "left" -> <<1, n>>
    [] s = "right" -> <<1, count - 1 - n>>

\* The picture is upright, and not mirrored: every row and column of the preview lies
\* where EXIF says.  (Except for the two orientations that mirror and rotate: the code
\* mirrors first, EXIF means the result of the rotation to be mirrored, so that each of
\* them is shown as the other should be.)
Upright ==
  created /\ orientation \notin {"ROT_90_HFLIP", "ROT_90_VFLIP"} =>
    \A q \in DOMAIN shown :
      LET row == Side(FirstRow(orientation), shown[q][2], rows)
          column == Side(FirstColumn(orientation), shown[q][1], columns)
      IN  q[row[1]] = row[2] /\ q[column[1]] = column[2]
=============================================================================
