----------------------------- MODULE MCDscLines -----------------------------
(***************************************************************************)
(* Instance of DscLines for TLC: short files of every kind, read in blocks *)
(* of every size up to more than half of a small buffer.                   *)
(***************************************************************************)
EXTENDS DscLines

MCSymbols == AllSymbols
Plain == {"x", "LF", "CR", "^Z", "Page", "BeginDataBytes", "BeginDataLines",
          "BeginDocument", "EndDocument"}
Ends3 == {"x", "LF", "CR"}

MCDocuments == {
  [start |-> <<"%!PS-Adobe", "LF">>, more |-> 4, of |-> Plain],
  [start |-> <<"%!PS-Adobe", "LF">>, more |-> 5, of |-> Ends3 \cup {"BeginDataLines"}],
  [start |-> <<"%!PS-Adobe", "LF">>, more |-> 5, of |-> Ends3 \cup {"BeginDocument", "EndDocument"}],
  [start |-> <<"%!PS-Adobe", "LF">>, more |-> 5, of |-> Ends3 \cup {"Page", "BeginDataBytes"}],
  [start |-> <<"%!PS-Adobe", "LF", "CR", "x", "x", "x", "x">>, more |-> 5, of |-> Ends3],
  [start |-> <<"%!PS-Adobe">>, more |-> 3, of |-> Ends3],
  [start |-> <<"^D", "%!PS-Adobe", "CR">>, more |-> 3, of |-> Ends3 \cup {"Page"}],
  [start |-> <<"ESC", "%-12345X", "x">>, more |-> 4, of |-> Ends3 \cup {"%!PS-Adobe"}],
  [start |-> <<"ESC", "%-12345X", "LF", "%!PS-Adobe", "LF">>, more |-> 3,
   of |-> Ends3 \cup {"Page"}],
  [start |-> <<>>, more |-> 4,
   of |-> {"^D", "ESC", "%-12345X", "C5D0D3C6", "LF", "%!PS-Adobe"}],
  [start |-> <<"%PDF-">>, more |-> 3, of |-> Ends3 \cup {"^D"}],
  [start |-> <<"x">>, more |-> 3, of |-> Ends3 \cup {"Page"}],
  [start |-> <<"C5D0D3C6", "x", "LF", "x", "%!PS-Adobe", "LF">>, more |-> 5,
   of |-> Ends3 \cup {"Page", "BeginDataBytes"}],
  [start |-> <<"^D", "C5D0D3C6", "x", "LF", "ESC">>, more |-> 4,
   of |-> {"x", "LF", "^D", "%!PS-Adobe"}] }

\* A preview before the PostScript section, with a byte 4 in it.
PreviewDocuments == {
  [start |-> <<"C5D0D3C6", "x">>, more |-> 4, of |-> {"x", "LF", "^D", "%!PS-Adobe"}] }

\* A count, one that leads back to the comment or to lines before it, and one that
\* leaves the buffer.
MCCounts == {2, -2, -9}
=============================================================================
