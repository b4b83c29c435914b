------------------------------- MODULE DscLines -------------------------------
(***************************************************************************)
(* How a file becomes lines: GSCreator reads it in blocks,                 *)
(* KDSCScanHandlerByLine (ps/dscparse_adapter.cpp) cuts a block after each *)
(* newline and hands the pieces to dsc_scan_data (ps/dscparse.cpp), which  *)
(* keeps a buffer, finds out what kind of file it is (dsc_scan_type), and  *)
(* takes one line after the other from the buffer (dsc_read_line),         *)
(* skipping embedded data.  What the section scanners do with a line is    *)
(* DscSections.                                                            *)
(*                                                                         *)
(* A symbol is a byte, or a keyword where nothing depends on its length.   *)
(* "x" is any other byte.  There is no error function, so %%BeginData      *)
(* without a count is an "x" line.                                         *)
(***************************************************************************)
EXTENDS Integers, Sequences

CONSTANTS
  N,            \* CDSC_DATA_LENGTH, the size of the buffer
  Sizes,        \* sizes of a block that the client may read with
  Symbols,      \* symbols that occur
  Documents,    \* how files begin, and how many symbols of which kinds follow:
                \* bounds the model
  Counts,       \* counts given by %%BeginData and %%BeginBinary
  MaxLines,     \* bound: lines, when a negative count has some read again
  HeaderLength, \* length of a DOS EPS header
  PsBegin,      \* ps_begin of a DOS EPS header
  PsEnd,        \* ps_begin + ps_length
  Word          \* 2^w of data_index

Eol == {"CR", "LF"}
\* Symbols that begin with a %.
Percent == {"%!PS-Adobe", "%PDF-", "Page", "BeginDataBytes", "BeginDataLines",
            "BeginDocument", "EndDocument"}
AllSymbols == Eol \cup Percent \cup {"x", "^Z", "^D", "ESC", "%-12345X", "C5D0D3C6"}
Half == N \div 2
UelLength == 2   \* \033%-12345X, which introduces PJL, is two symbols

ASSUME BufferAssumption == N \in Nat /\ N >= 2 /\ Word \in Nat /\ Word > N
ASSUME SizesAssumption == Sizes \subseteq Nat \ {0}
ASSUME SymbolsAssumption ==
  /\ Symbols \subseteq AllSymbols
  /\ \A d \in Documents : /\ d.start \in Seq(Symbols) /\ d.more \in Nat
                         /\ d.of \subseteq Symbols
ASSUME CountsAssumption == Counts \subseteq Int /\ MaxLines \in Nat
\* A header that says that PostScript begins within the header itself, or where no int
\* reaches, is left out: the code does not look for either.
ASSUME HeaderAssumption ==
  /\ HeaderLength \in 2..Half
  /\ PsBegin \in Nat /\ PsBegin >= HeaderLength /\ PsEnd \in Nat

VARIABLES
  file,     \* history: what the client has read of the file
  seen,     \* history: what was put into the buffer
  lines,    \* history: the lines that dsc_read_line returned
  size,     \* the client's block size
  block,    \* the part of the block that is not yet handed to the parser
  stop,     \* endComments: the client reads no further
  input,    \* data, length: the part of a call's data not yet in the buffer
  data,     \* data[0 .. data_length - 1]
  index,    \* data_index
  offset,   \* data_offset
  eol, last_cr, skip_bytes, skip_lines, skip_document,
  id,       \* what dsc_scan_data reports
  typed,    \* scan_section is no longer scan_none
  ctrld, pjl, skip_pjl, doseps,
  pc        \* "handler", or where in dsc_scan_data: "append", "type", "first"
            \* (the line dsc_scan_type reads), "lines"

clientVars == <<file, size, block, stop>>
bufferVars == <<data, offset, seen>>
lineVars == <<eol, last_cr>>
skipVars == <<skip_bytes, skip_lines, skip_document>>
typeVars == <<typed, ctrld, pjl, skip_pjl, doseps>>
vars == <<clientVars, input, bufferVars, index, lineVars, skipVars, lines, id, typeVars, pc>>

Least(a, b) == IF a <= b THEN a ELSE b

TypeOK ==
  /\ file \in Seq(Symbols) /\ seen \in Seq(Symbols)
  /\ lines \in Seq([from : Nat, to : Nat, scanned : BOOLEAN])
  /\ size \in Sizes /\ block \in Seq(Symbols) /\ stop \in BOOLEAN
  /\ input \in Seq(Symbols) /\ data \in Seq(Symbols) /\ Len(data) <= N
  /\ index \in 0..Word-1 /\ offset \in Nat
  /\ eol \in BOOLEAN /\ last_cr \in BOOLEAN
  /\ skip_bytes \in Int /\ skip_lines \in Int /\ skip_document \in Nat
  /\ id \in {"OK", "PSADOBE", "PAGE", "NOTDSC"}
  /\ typed \in BOOLEAN /\ ctrld \in BOOLEAN /\ pjl \in BOOLEAN
  /\ skip_pjl \in BOOLEAN /\ doseps \in BOOLEAN
  /\ pc \in {"handler", "append", "type", "first", "lines"}

Init ==
  /\ file = <<>> /\ seen = <<>> /\ lines = <<>>
  /\ size \in Sizes /\ block = <<>> /\ stop = FALSE
  /\ input = <<>> /\ data = <<>> /\ index = 0 /\ offset = 0
  /\ eol = FALSE /\ last_cr = FALSE
  /\ skip_bytes = 0 /\ skip_lines = 0 /\ skip_document = 0
  /\ id = "OK" /\ typed = FALSE
  /\ ctrld = FALSE /\ pjl = FALSE /\ skip_pjl = FALSE /\ doseps = FALSE
  /\ pc = "handler"

-----------------------------------------------------------------------------
(* The client and KDSCScanHandlerByLine. *)

\* f may go on as document d does.
Begins(f, d) ==
  /\ Len(f) <= Len(d.start) + d.more
  /\ \A i \in 1..Len(f) : IF i <= Len(d.start) THEN f[i] = d.start[i] ELSE f[i] \in d.of

\* fread: a full block, or what is left of the file; nothing after that.
ReadBlock(d, n) ==
  /\ pc = "handler" /\ block = <<>> /\ ~stop
  /\ Len(file) % size = 0 /\ Begins(file, d) /\ Len(file) + n <= Len(d.start) + d.more
  /\ LET known == SubSeq(d.start, Len(file) + 1, Least(Len(file) + n, Len(d.start)))
     IN  \E m \in [1..n - Len(known) -> d.of] :
           block' = known \o m /\ file' = file \o known \o m
  /\ UNCHANGED <<size, stop, input, bufferVars, index, lineVars, skipVars, lines, id, typeVars, pc>>

\* mutant: a piece ends after the last newline
IsPiece_Last(n) ==
  /\ n \in 1..Len(block)
  /\ \A i \in n+1..Len(block) : block[i] # "LF"
  /\ block[n] = "LF" \/ n = Len(block)

\* A piece ends after the first newline, or with the block.
IsPiece(n) ==
  /\ n \in 1..Len(block)
  /\ \A i \in 1..n-1 : block[i] # "LF"
  /\ block[n] = "LF" \/ n = Len(block)

\* dsc_scan_data is called, and ignores the data of a file that is not DSC.
Call ==
  /\ pc = "handler"
  /\ \E n \in 1..Len(block) :
       /\ IsPiece(n)
       /\ block' = SubSeq(block, n + 1, Len(block))
       /\ IF id = "NOTDSC"
            THEN UNCHANGED <<input, id, pc>>
            ELSE input' = SubSeq(block, 1, n) /\ id' = "OK" /\ pc' = "append"
  /\ UNCHANGED <<file, size, stop, bufferVars, index, lineVars, skipVars, lines, typeVars>>

\* dsc_scan_data returns i, without the data it has not taken.  The handler
\* reports the last comment, unless the piece is the rest of a block.
Return(i) ==
  /\ pc' = "handler" /\ id' = i /\ input' = <<>>
  /\ stop' = (stop \/ (i = "PAGE" /\ file[Len(file) - Len(block)] = "LF"))
  /\ UNCHANGED <<file, size, block>>

\* It returns CDSC_OK or CDSC_NOTDSC whatever its id is: that is no comment that
\* GSCreator waits for.
Leave == pc' = "handler" /\ input' = <<>> /\ UNCHANGED <<clientVars, id>>

Goto(p) == pc' = p /\ UNCHANGED <<clientVars, input, id>>

-----------------------------------------------------------------------------
(* The buffer of dsc_scan_data. *)

\* Room is made when more than half of the buffer is filled.
Kept == IF Len(data) > Half THEN SubSeq(data, index + 1, Len(data)) ELSE data

Appended_All == input   \* mutant: the free space is not looked at
Appended == SubSeq(input, 1, Least(Len(input), N - Len(Kept)))

\* mutant: the offset does not follow the data that is moved
Append_Offset ==
  /\ pc = "append" /\ index <= Len(data)
  /\ data' = Kept \o Appended /\ seen' = seen \o Appended
  /\ input' = SubSeq(input, Len(Appended) + 1, Len(input))
  /\ index' = IF Len(data) > Half THEN 0 ELSE index
  /\ UNCHANGED <<offset, clientVars, id, lineVars, skipVars, lines, typeVars>>
  /\ pc' = IF typed THEN "lines" ELSE "type"

AppendData ==
  /\ pc = "append" /\ index <= Len(data)
  /\ data' = Kept \o Appended /\ seen' = seen \o Appended
  /\ input' = SubSeq(input, Len(Appended) + 1, Len(input))
  /\ index' = IF Len(data) > Half THEN 0 ELSE index
  /\ offset' = IF Len(data) > Half THEN offset + index ELSE offset
  /\ UNCHANGED <<clientVars, id, lineVars, skipVars, lines, typeVars>>
  /\ pc' = IF typed THEN "lines" ELSE "type"

\* The index has left the buffer: CDSC_NOTDSC is returned, but the id is not changed.
IndexInvalid ==
  /\ pc = "append" /\ index > Len(data)
  /\ Leave
  /\ UNCHANGED <<bufferVars, index, lineVars, skipVars, lines, typeVars>>

Unread == SubSeq(data, index + 1, Len(data))

-----------------------------------------------------------------------------
(* dsc_scan_type: what kind of file is it? *)

\* The data does not say yet.
NeedMore(i) ==
  /\ index' = i /\ Return("OK")
  /\ UNCHANGED <<bufferVars, lineVars, skipVars, lines>>

\* PJL is skipped up to a line that begins with a %.  The first end-of-line
\* and those that follow at once end at r.
EolRun(s, r) ==
  /\ r \in 1..Len(s) /\ s[r] \in Eol /\ (r < Len(s) => s[r + 1] \notin Eol)
  /\ \A i, j \in 1..r : i < j /\ s[i] \in Eol => s[j] \in Eol

SkipPjlMore ==
  /\ pc = "type" /\ skip_pjl
  /\ LET u == Unread
     IN  \/ Len(u) < 2 /\ NeedMore(index)
         \/ Len(u) >= 2 /\ (\A i \in 1..Len(u) : u[i] \notin Eol) /\ NeedMore(Len(data))
         \/ Len(u) >= 2 /\ EolRun(u, Len(u)) /\ NeedMore(Len(data) - 1)
         \/ \E r \in 1..Len(u)-1 :
              EolRun(u, r) /\ u[r + 1] \notin Percent /\ NeedMore(index + r)
  /\ UNCHANGED typeVars

SkipPjlEnd ==
  /\ pc = "type" /\ skip_pjl
  /\ \E r \in 1..Len(Unread)-1 :
       EolRun(Unread, r) /\ Unread[r + 1] \in Percent /\ index' = index + r
  /\ skip_pjl' = FALSE
  /\ UNCHANGED <<clientVars, input, bufferVars, lineVars, skipVars, lines, id, typed, ctrld,
                 pjl, doseps, pc>>

\* A ^D before everything else is taken off.
Ctrl == IF Unread # <<>> /\ Unread[1] = "^D" THEN 1 ELSE 0
Start == SubSeq(Unread, 1 + Ctrl, Len(Unread))
TypeNeeds ==
  IF Start = <<>> THEN 1
  ELSE CASE Start[1] = "ESC" -> UelLength
         [] Start[1] = "C5D0D3C6" -> HeaderLength
         [] OTHER -> 2
IsUel == Start[1] = "ESC" /\ Start[2] = "%-12345X"

ScanType ==
  /\ pc = "type" /\ ~skip_pjl
  /\ ctrld' = (ctrld \/ Ctrl = 1)

TypeMore ==
  /\ ScanType /\ Len(Start) < TypeNeeds
  /\ NeedMore(index + Ctrl)
  /\ UNCHANGED <<typed, pjl, skip_pjl, doseps>>

TypePjl ==
  /\ ScanType /\ Len(Start) >= TypeNeeds /\ IsUel
  /\ pjl' = TRUE /\ skip_pjl' = TRUE /\ index' = index + Ctrl + UelLength
  /\ UNCHANGED <<clientVars, input, bufferVars, lineVars, skipVars, lines, id, typed, doseps, pc>>

TypeDosEps ==
  /\ ScanType /\ Len(Start) >= TypeNeeds /\ Start[1] = "C5D0D3C6"
  /\ doseps' = TRUE /\ index' = index + Ctrl + HeaderLength
  /\ skip_bytes' = PsBegin - HeaderLength
  /\ Goto("first")
  /\ UNCHANGED <<bufferVars, lineVars, skip_lines, skip_document, lines, typed, pjl, skip_pjl>>

TypePdf ==
  /\ ScanType /\ Len(Start) >= TypeNeeds /\ Start[1] = "%PDF-"
  /\ typed' = TRUE /\ index' = index + Ctrl
  /\ Goto("lines")
  /\ UNCHANGED <<bufferVars, lineVars, skipVars, lines, pjl, skip_pjl, doseps>>

\* mutant: the ^D is left where it is
TypeByLine_Keep ==
  /\ ScanType /\ Len(Start) >= TypeNeeds
  /\ ~IsUel /\ Start[1] \notin {"C5D0D3C6", "%PDF-"}
  /\ index' = index
  /\ Goto("first")
  /\ UNCHANGED <<bufferVars, lineVars, skipVars, lines, typed, pjl, skip_pjl, doseps>>

TypeByLine ==
  /\ ScanType /\ Len(Start) >= TypeNeeds
  /\ ~IsUel /\ Start[1] \notin {"C5D0D3C6", "%PDF-"}
  /\ index' = index + Ctrl
  /\ Goto("first")
  /\ UNCHANGED <<bufferVars, lineVars, skipVars, lines, typed, pjl, skip_pjl, doseps>>

-----------------------------------------------------------------------------
(* dsc_read_line *)
Reading == pc \in {"first", "lines"}

\* It returns 0: dsc_scan_type asks for more, dsc_scan_data takes more of its
\* input, or returns.
NoLine ==
  IF pc = "first" THEN Return("OK")
  ELSE IF input = <<>> THEN Return(id) ELSE Goto("append")

\* mutant: 0 is returned although all is skipped
SkipBytes_Stop ==
  /\ Reading /\ skip_bytes # 0
  /\ LET n == Least(skip_bytes, Len(data) - index)
     IN  /\ skip_bytes' = skip_bytes - n
         /\ index' = (index + n) % Word
  /\ NoLine
  /\ UNCHANGED <<bufferVars, lineVars, skip_lines, skip_document, lines, typeVars>>

SkipBytes ==
  /\ Reading /\ skip_bytes # 0
  /\ LET n == Least(skip_bytes, Len(data) - index)
     IN  /\ skip_bytes' = skip_bytes - n
         /\ index' = (index + n) % Word
  /\ IF skip_bytes' # 0 THEN NoLine ELSE Goto(pc)
  /\ UNCHANGED <<bufferVars, lineVars, skip_lines, skip_document, lines, typeVars>>

\* The \n after a \r is taken off the text of the line.
Lf == IF last_cr /\ Unread # <<>> /\ Unread[1] = "LF" THEN 1 ELSE 0
Text == SubSeq(Unread, 1 + Lf, Len(Unread))

Ends(s, n) ==   \* the first n symbols are a line with its end-of-line
  /\ n \in 1..Len(s)
  /\ \/ s[n] = "LF" /\ \A i \in 1..n-1 : s[i] \notin Eol
     \/ s[n] = "CR" /\ (n < Len(s) => s[n + 1] # "LF") /\ \A i \in 1..n-1 : s[i] \notin Eol
     \/ n > 1 /\ s[n - 1] = "CR" /\ s[n] = "LF" /\ \A i \in 1..n-2 : s[i] \notin Eol
NoEol(s) == \A i \in 1..Len(s) : s[i] \notin Eol
CtrlZ(s, n) == \E i \in 1..n : s[i] = "^Z"

\* mutant: an incomplete line is kept until there is more, in any case
LineLength_Wait(s, n) == Ends(s, n) \/ (NoEol(s) /\ n = Len(s) /\ n > 0 /\ CtrlZ(s, n))
\* A line without its end is taken when it fills half of the buffer or has a ^Z.
LineLength(s, n) ==
  Ends(s, n) \/ (NoEol(s) /\ n = Len(s) /\ n > 0 /\ (CtrlZ(s, n) \/ n >= Half))

\* The line before was complete: one less to skip.
SkipsLeft == IF eol /\ skip_lines # 0 THEN skip_lines - 1 ELSE skip_lines

Exhausted ==
  /\ Reading /\ skip_bytes = 0 /\ Unread = <<>>
  /\ NoLine
  /\ UNCHANGED <<bufferVars, index, lineVars, skipVars, lines, typeVars>>

Incomplete ==
  /\ Reading /\ skip_bytes = 0 /\ Unread # <<>>
  /\ \A n \in 1..Len(Text) : ~LineLength(Text, n)
  /\ index' = index + Lf /\ last_cr' = FALSE /\ eol' = FALSE
  /\ skip_lines' = SkipsLeft
  /\ NoLine
  /\ UNCHANGED <<bufferVars, skip_bytes, skip_document, lines, typeVars>>

\* A line of n symbols is taken from the buffer.
Take(n) ==
  /\ Reading /\ skip_bytes = 0 /\ LineLength(Text, n)
  /\ index' = index + Lf + n
  /\ last_cr' = (Text[n] = "CR")
  /\ eol' = (Text[n] \in Eol \/ CtrlZ(Text, n))
  /\ UNCHANGED bufferVars

SkipLine ==
  /\ \E n \in 1..Len(Text) : Take(n)
  /\ SkipsLeft # 0 /\ skip_lines' = SkipsLeft
  /\ Goto(pc)
  /\ UNCHANGED <<skip_bytes, skip_document, lines, typeVars>>

\* mutant: one line too few is skipped
Embedding_Less(first) ==
  /\ skip_document' = CASE first = "BeginDocument" -> skip_document + 1
                        [] first = "EndDocument" /\ skip_document # 0 -> skip_document - 1
                        [] OTHER -> skip_document
  /\ \E c \in Counts :
       /\ skip_bytes' = IF first = "BeginDataBytes" THEN c ELSE 0
       /\ skip_lines' = IF first = "BeginDataLines" THEN c ELSE 0

\* What the line says of embedded documents and data.
Embedding(first) ==
  /\ skip_document' = CASE first = "BeginDocument" -> skip_document + 1
                        [] first = "EndDocument" /\ skip_document # 0 -> skip_document - 1
                        [] OTHER -> skip_document
  /\ \E c \in Counts :
       /\ skip_bytes' = IF first = "BeginDataBytes" THEN c ELSE 0
       /\ skip_lines' = IF first = "BeginDataLines" /\ c # 0 THEN c + 1 ELSE 0

AddLine(n, scanned) ==
  lines' = Append(lines, [from |-> offset + index + Lf, to |-> offset + index + Lf + n,
                          scanned |-> scanned])

\* dsc_scan_type: the first line decides.
FirstLine ==
  /\ pc = "first" /\ SkipsLeft = 0 /\ typed' = TRUE
  /\ \E n \in 1..Len(Text) : Take(n) /\ AddLine(n, FALSE)
  /\ Embedding(Text[1])
  /\ IF Text[1] = "%!PS-Adobe"
       THEN pc' = "lines" /\ id' = "PSADOBE" /\ UNCHANGED <<clientVars, input>>
       ELSE Return("NOTDSC")
  /\ UNCHANGED <<ctrld, pjl, skip_pjl, doseps>>

\* The line ends behind the PostScript section of a DOS EPS file.
Behind(n) == doseps /\ offset + index + Lf + n > PsEnd

\* Lines that dsc_scan_data does not give to the section scanners.
NotScanned(first) ==
  first \in {"BeginDataBytes", "BeginDataLines", "BeginDocument", "EndDocument"}

\* A negative count has led back into a line that was read.
Back == \E i \in 1..Len(lines) : offset + index < lines[i].to

NextLine ==
  /\ pc = "lines" /\ SkipsLeft = 0
  /\ Back => Len(lines) < MaxLines
  /\ \E n \in 1..Len(Text) :
       /\ Take(n) /\ Embedding(Text[1])
       /\ IF Behind(n)
            THEN AddLine(n, FALSE) /\ Leave
            ELSE IF skip_document' # 0 \/ NotScanned(Text[1])
            THEN AddLine(n, FALSE) /\ Goto(pc)
            ELSE AddLine(n, TRUE) /\ pc' = pc /\ UNCHANGED <<clientVars, input>>
                 /\ id' = IF Text[1] = "Page" THEN "PAGE" ELSE "OK"
  /\ UNCHANGED typeVars

-----------------------------------------------------------------------------
Typing == SkipPjlMore \/ SkipPjlEnd \/ TypeMore \/ TypePjl \/ TypeDosEps \/ TypePdf
             \/ TypeByLine
ReadLine == SkipBytes \/ Exhausted \/ Incomplete \/ SkipLine \/ FirstLine \/ NextLine
ScanData == AppendData \/ IndexInvalid \/ Typing \/ ReadLine

Next == (\E d \in Documents, n \in 1..size : ReadBlock(d, n)) \/ Call \/ ScanData

Spec == Init /\ [][Next]_vars

\* The program is sequential: once called, dsc_scan_data runs.
LiveSpec == Spec /\ WF_vars(ScanData)

-----------------------------------------------------------------------------
(* Properties. *)

\* What follows is behind the PostScript section of a DOS EPS file, and is ignored.
Over == doseps /\ offset + index > PsEnd

\* The lines of PJL end with \n alone.
PjlByLf == pjl => \A i \in 1..Len(seen) : seen[i] # "CR"

\* Bytes that a call has not taken are dropped only when the file is rejected (also
\* for a negative count that leaves the buffer), when a line behind the PostScript
\* section was found, in PJL with a \r in it, and when PJL or a preview before that
\* section is read in larger blocks than GSCreator's.
Whole ==
  /\ id # "NOTDSC" /\ index <= Len(data)
  /\ pjl => size <= Half /\ PjlByLf
  /\ doseps => size <= Half /\ \A i \in 1..Len(lines) : lines[i].to <= PsEnd

\* The buffer is a window on the file: moving its contents and taking up more
\* keeps every byte at its offset, and none is lost or repeated between the
\* client's block, the rest of a call and the buffer.
BufferIsFile ==
  /\ Len(seen) = offset + Len(data)
  /\ \A i \in 1..Len(data) : data[i] = seen[offset + i]
  /\ Whole => file = seen \o input \o block

\* When the handler is done with a block, no complete line, and nothing that is
\* to be skipped, waits in the buffer: what GSCreator asks for then is up to date.
NothingHeldBack ==
  pc = "handler" /\ typed /\ id # "NOTDSC" /\ ~Over =>
    /\ NoEol(Text) /\ ~CtrlZ(Text, Len(Text)) /\ Len(Text) < Half
    /\ skip_bytes # 0 => Unread = <<>>

\* What f begins with, as far as it was read: a ^D, and behind it one of the headers.
CtrlD(f) == IF f # <<>> /\ f[1] = "^D" THEN 1 ELSE 0
DosEpsAt(f, a) == Len(f) > a /\ f[a + 1] = "C5D0D3C6"
UelAt(f, a) == Len(f) > a + 1 /\ f[a + 1] = "ESC" /\ f[a + 2] = "%-12345X"

\* PostScript begins in f at a: where the header of DOS EPS says, at the first line of
\* PJL that begins with a %, or at once.
PercentLine(f, i) == f[i] \in Eol /\ f[i + 1] \in Percent
BeginsAt(f, a) ==
  \/ DosEpsAt(f, CtrlD(f)) /\ a = CtrlD(f) + PsBegin
  \/ /\ UelAt(f, CtrlD(f)) /\ a \in 1..Len(f)-1 /\ PercentLine(f, a)
     /\ \A i \in 1..a-1 : ~PercentLine(f, i)
  \/ ~DosEpsAt(f, CtrlD(f)) /\ ~UelAt(f, CtrlD(f)) /\ a = CtrlD(f)

\* There is no second header where dsc_scan_type may look for one again: behind a ^D,
\* and in the preview of a DOS EPS file (PreviewIgnored).
OneHeader(f) ==
  /\ CtrlD(f) = 1 /\ Len(f) > 1 => f[2] # "^D"
  /\ DosEpsAt(f, CtrlD(f)) =>
       \A a \in CtrlD(f) + HeaderLength..CtrlD(f) + PsBegin :
         ~DosEpsAt(f, a) /\ ~UelAt(f, a) /\ (Len(f) > a => f[a + 1] # "^D")

\* However the first bytes of a file are divided among the calls, dsc_scan_type
\* looks at the line PostScript begins with, and says PJL and ^D of no other file.
StartFound ==
  OneHeader(seen) =>
    /\ ctrld => CtrlD(seen) = 1
    /\ pjl => UelAt(seen, CtrlD(seen))
    /\ lines # <<>> => /\ BeginsAt(seen, lines[1].from)
                       /\ CtrlD(seen) = 1 => ctrld
                       /\ UelAt(seen, CtrlD(seen)) => pjl

\* No count of %%BeginData moves reading back over lines that were read.
LinesApart == \A i \in 1..Len(lines)-1 : lines[i].to <= lines[i + 1].from

\* A comment that GSCreator waits for ends the reading when its line ends with \n;
\* nothing else does (a line that ends with \r goes unnoticed if others follow it in
\* the same piece).  This is so where the pieces of the handler are lines: not for what
\* is read again, nor behind PJL with a \r in it, of which each call takes off a line
\* only, so that the first line of PostScript finds many that wait.
CommentsReported ==
  pc = "handler" =>
    LET pages == {l \in 1..Len(lines) : lines[l].scanned /\ seen[lines[l].from + 1] = "Page"}
    IN  /\ LinesApart /\ PjlByLf /\ (\E l \in pages : seen[lines[l].to] = "LF") => stop
        /\ stop => pages # {}

\* Every call of dsc_scan_data returns, unless a negative count leads it back to lines
\* it has read (to the same comment again and again, it may be): the buffer never is
\* full of a line that waits for its end, and what is skipped comes to an end.
ScanReturns == pc # "handler" ~> (pc = "handler" \/ Back)

\* A DOS EPS header says where PostScript begins: what lies in between is not looked
\* at.  (It is: dsc_scan_type starts again with each call until the first line of
\* PostScript is there, and takes a ^D or PJL for the beginning of the file.)
PreviewIgnored ==
  file # <<>> /\ file[1] = "C5D0D3C6" =>
    ~ctrld /\ ~pjl /\ (lines # <<>> => lines[1].from = PsBegin)

\* Blocks, calls and the buffer are invisible: the lines are those of a reader of
\* the whole file.
Reader == INSTANCE DscReader WITH
  file <- seen, at <- offset + index, started <- typed, over <- Over, cr <- last_cr,
  skip_lines <- IF eol /\ skip_lines # 0 THEN skip_lines - 1 ELSE skip_lines
ImplementsReader == Reader!Spec
=============================================================================
