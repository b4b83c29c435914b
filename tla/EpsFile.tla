------------------------------- MODULE EpsFile -------------------------------
(***************************************************************************)
(* The numbers that GSCreator::create computes for an EPS file from its    *)
(* bounding box and the size that is asked for: resolution and size of     *)
(* what gs renders, and the scale of an EPSI preview.  The arithmetic is   *)
(* that of an int: it wraps around, and divisions round towards 0.         *)
(***************************************************************************)
EXTENDS Integers

CONSTANT Word   \* 2^w of an int

Ints == -(Word \div 2)..(Word \div 2) - 1
Wrap(n) == ((n + Word \div 2) % Word) - Word \div 2
Quotient(n, d) ==
  IF n >= 0 THEN IF d > 0 THEN n \div d ELSE -(n \div (-d))
  ELSE IF d > 0 THEN -((-n) \div d) ELSE (-n) \div (-d)
Least(a, b) == IF a <= b THEN a ELSE b

\* A box is a record [llx, lly, urx, ury].
Width(b) == Wrap(b.urx - b.llx)
Height(b) == Wrap(b.ury - b.lly)

\* Besides, the name must end in .eps or .epsi.
IsEncapsulated(b, page_count) == Width(b) > 0 /\ Height(b) > 0 /\ page_count <= 1

\* mutant: the other dimension decides
Resolution_Most(b, width, height) ==
  LET hres == Quotient(Wrap(width * 72), Width(b))
      vres == Quotient(Wrap(height * 72), Height(b))
  IN  Wrap((IF hres > vres THEN hres ELSE vres) * 4)

\* Four times what is required, in dots per inch.
Resolution(b, width, height) ==
  LET hres == Quotient(Wrap(width * 72), Width(b))
      vres == Quotient(Wrap(height * 72), Height(b))
  IN  Wrap((IF hres > vres THEN vres ELSE hres) * 4)

GsWidth(b, resolution) == Quotient(Wrap(Width(b) * resolution), 72)
GsHeight(b, resolution) == Quotient(Wrap(Height(b) * resolution), 72)

PreviewScale_Most(b, width, height) ==   \* mutant
  LET xscale == Quotient(Width(b), width)
      yscale == Quotient(Height(b), height)
  IN  IF xscale < yscale THEN yscale ELSE xscale
PreviewScale(b, width, height) ==
  LET xscale == Quotient(Width(b), width)
      yscale == Quotient(Height(b), height)
  IN  IF xscale < yscale THEN xscale ELSE yscale
=============================================================================
