------------------------------ MODULE DscReader ------------------------------
(***************************************************************************)
(* What dsc_scan_data promises of a document: it is read line by line, as  *)
(* if the whole file lay in memory.  There is no buffer here and there are *)
(* no blocks: the file grows, `at` says how much of it is dealt with, and  *)
(* each step deals with what follows.  Lines begin where the last line or  *)
(* the embedded data ended; data and documents that are embedded are left  *)
(* out to the byte, and only what may be scanned is scanned.               *)
(*                                                                         *)
(* The reader has a choice in three cases only: a \n after a \r belongs to *)
(* the line or is dropped before the next one; a line of at least half a   *)
(* buffer may come in pieces; and a ^Z may end a line.                     *)
(***************************************************************************)
EXTENDS Integers, Sequences

CONSTANTS
  Symbols,   \* what a file is made of
  Counts,    \* numbers that %%BeginData may give
  Half       \* length from which a line may come in pieces

VARIABLES
  file,           \* what was read of the file
  at,             \* everything before this offset is dealt with
  started,        \* the first line of PostScript, or %PDF-, was found
  over,           \* the PostScript section of a DOS EPS file is over
  lines,          \* the lines delivered: where they begin and end, and
                  \* whether the section scanners got them
  cr,             \* the last line ended in \r
  skip_bytes,     \* embedded bytes still to skip
  skip_lines,     \* embedded lines still to skip
  skip_document   \* depth of embedded documents

vars == <<file, at, started, over, lines, cr, skip_bytes, skip_lines, skip_document>>

Eol == {"CR", "LF"}

Init ==
  /\ file = <<>> /\ at = 0 /\ ~started /\ ~over /\ lines = <<>> /\ ~cr
  /\ skip_bytes = 0 /\ skip_lines = 0 /\ skip_document = 0

\* More of the file arrives.
Grow ==
  /\ file' \in Seq(Symbols)
  /\ Len(file) < Len(file') /\ SubSeq(file', 1, Len(file)) = file
  /\ UNCHANGED <<at, started, over, lines, cr, skip_bytes, skip_lines, skip_document>>

\* Wherever something is passed, the PostScript section may end.
Ending == over' \in {over, TRUE}

\* What precedes PostScript: control characters, PJL, a DOS EPS header.
Begin ==
  /\ ~started /\ Ending
  /\ at' \in at..Len(file) /\ skip_bytes' \in Int /\ started' \in BOOLEAN
  /\ UNCHANGED <<file, lines, cr, skip_lines, skip_document>>

DropLf ==
  /\ cr /\ at < Len(file)
  /\ at' = IF file[at + 1] = "LF" THEN at + 1 ELSE at
  /\ cr' = FALSE /\ Ending
  /\ UNCHANGED <<file, started, lines, skip_bytes, skip_lines, skip_document>>

Skip ==
  /\ \E n \in 1..skip_bytes :
       at + n <= Len(file) /\ at' = at + n /\ skip_bytes' = skip_bytes - n
  /\ Ending
  /\ UNCHANGED <<file, started, lines, cr, skip_lines, skip_document>>

\* A negative count moves the position, by no one's intention; nothing is promised of
\* where reading goes on.
Derail ==
  /\ skip_bytes < 0
  /\ at' \in Nat /\ skip_bytes' = 0 /\ over' \in BOOLEAN
  /\ UNCHANGED <<file, started, lines, cr, skip_lines, skip_document>>

\* file[from + 1], ..., file[to] is a line, or a piece of a long one.
Line(from, to) ==
  /\ 0 <= from /\ from < to /\ to <= Len(file)
  /\ \/ file[to] \in Eol /\ \A i \in from+1..to-1 : file[i] \notin Eol
     \/ from + 1 < to /\ file[to - 1] = "CR" /\ file[to] = "LF"
        /\ \A i \in from+1..to-2 : file[i] \notin Eol
     \/ /\ \A i \in from+1..to : file[i] \notin Eol
        /\ to - from >= Half \/ \E i \in from+1..to : file[i] = "^Z"
Complete(from, to) == file[to] \in Eol \/ \E i \in from+1..to : file[i] = "^Z"

\* Comments that belong to the embedding are not scanned.
Embedding == {"BeginDataBytes", "BeginDataLines", "BeginDocument", "EndDocument"}

Deliver(from, to) ==
  LET first == file[from + 1]
  IN  /\ skip_lines = 0
      /\ skip_document' = CASE first = "BeginDocument" -> skip_document + 1
                            [] first = "EndDocument" /\ skip_document # 0 -> skip_document - 1
                            [] OTHER -> skip_document
      /\ \E n \in Counts :
           /\ skip_bytes' = IF first = "BeginDataBytes" THEN n ELSE 0
           /\ skip_lines' = IF first # "BeginDataLines" \/ n \in {0, -1} THEN 0
                            ELSE IF Complete(from, to) THEN n ELSE n + 1
      /\ lines' = Append(lines, [from |-> from, to |-> to, scanned |->
           started /\ ~over' /\ skip_document' = 0 /\ first \notin Embedding])

SkipLine(from, to) ==
  /\ skip_lines # 0
  /\ skip_lines' = IF Complete(from, to) THEN skip_lines - 1 ELSE skip_lines
  /\ UNCHANGED <<lines, skip_bytes, skip_document>>

Read ==
  LET from == IF cr /\ at < Len(file) /\ file[at + 1] = "LF" THEN at + 1 ELSE at
  IN  /\ skip_bytes = 0 /\ Ending
      /\ \E to \in from+1..Len(file) :
           /\ Line(from, to)
           /\ at' = to /\ cr' = (file[to] = "CR")
           /\ Deliver(from, to) \/ SkipLine(from, to)
      /\ started' = TRUE
      /\ UNCHANGED file

Next == Grow \/ Begin \/ DropLf \/ Skip \/ Derail \/ Read
Spec == Init /\ [][Next]_vars
=============================================================================
