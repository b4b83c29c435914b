----------------------------- MODULE DscSections -----------------------------
(***************************************************************************)
(* The section scanner of ps/dscparse.cpp: a PostScript document is read   *)
(* line by line, and each line is handed to the scanner of the section the *)
(* document is in.  A scanner either consumes the line or moves on to the  *)
(* next section and propagates the line to that section's scanner.  What   *)
(* is recorded is where each section and each page begins and ends in the  *)
(* file, and whether there is an embedded preview.                         *)
(*                                                                         *)
(* A line is its kind and its two offsets.  One step of a scanner on one   *)
(* line is one action.  The file's length is not known to the parser       *)
(* (nobody calls dsc_set_length), so the checks for an early %%Trailer or  *)
(* %%EOF do not apply.                                                     *)
(***************************************************************************)
EXTENDS Integers, Sequences

CONSTANTS
  Kinds,      \* kinds of lines that occur
  Lengths,    \* lengths of lines
  Blocks,     \* Begin/End blocks counted: a subset of BlockTypes
  Responses,  \* answers of the error function; {"CANCEL"} without one
  MaxPos      \* bound: file size

BlockTypes == {"Font", "Feature", "Resource", "ProcSet"}
BeginOf == [Font |-> "BeginFont", Feature |-> "BeginFeature",
            Resource |-> "BeginResource", ProcSet |-> "BeginProcSet"]
EndOf == [Font |-> "EndFont", Feature |-> "EndFeature",
          Resource |-> "EndResource", ProcSet |-> "EndProcSet"]
BeginKinds == {BeginOf[b] : b \in BlockTypes}

\* The comments dsc_is_section answers TRUE for.
SectionKinds == {"BeginPreview", "BeginDefaults", "BeginProlog", "BeginSetup",
                 "Page", "Trailer", "EOF"}
EndKinds == {"EndComments", "EndPreview", "EndDefaults", "EndProlog", "EndSetup"}
\* "blank": an empty line, "code": no comment, "percent": a lone %, "remark": a
\* comment with one %, "dsc": any other %% comment, attributes among them.
AllKinds == SectionKinds \cup EndKinds \cup BeginKinds \cup {EndOf[b] : b \in BlockTypes}
            \cup {"blank", "code", "percent", "remark", "dsc"}

ASSUME KindsAssumption == Kinds \subseteq AllKinds
ASSUME BlocksAssumption == Blocks \subseteq BlockTypes
ASSUME LengthsAssumption == Lengths \subseteq Nat \ {0} /\ MaxPos \in Nat
ASSUME ResponsesAssumption == Responses \subseteq {"OK", "CANCEL", "IGNORE_ALL"}

VARIABLES
  pos,         \* offset of the next line
  line,        \* the line being scanned, or NoLine
  section,     \* scan_section
  id,          \* what the last scan of a line reports
  begins,      \* beginpreview, begindefaults, ... (0: not seen)
  ends,        \* endcomments, endpreview, ...
  page,        \* the page table
  open,        \* begin_font_count, begin_feature_count, ...
  preview,     \* "NOPREVIEW", "EPSI" or "DOSEPS" (TIFF or WMF)
  endComments, \* GSCreator::endComments: the reader was told to stop
  fixed,       \* dsc_fixup was called
  ignored      \* history: the error function answered IGNORE_ALL

lineVars == <<pos, line, id, endComments>>
markVars == <<begins, ends, page>>
vars == <<lineVars, section, markVars, open, preview, fixed, ignored>>

Sections == {"comments", "preview", "defaults", "prolog", "setup", "trailer"}
\* The sections before the pages, in the order of the file.
Before == <<"comments", "preview", "defaults", "prolog", "setup">>
NoLine == [kind |-> "none", start |-> 0, end |-> 0]

ScanSections == {"comments", "pre_preview", "preview", "pre_defaults", "defaults",
                 "pre_prolog", "prolog", "pre_setup", "setup", "pre_pages", "pages",
                 "pre_trailer", "trailer"}
Ids == {"OK", "EndPreview", "BeginProlog", "Page", "NOTDSC"}

TypeOK ==
  /\ pos \in Nat
  /\ line \in [kind : Kinds \cup {"none"}, start : 0..pos, end : 0..pos]
  /\ section \in ScanSections /\ id \in Ids
  /\ begins \in [Sections -> 0..pos] /\ ends \in [Sections -> 0..pos]
  /\ page \in Seq([begin : 0..pos, end : 0..pos])
  /\ open \in [Blocks -> Int]
  /\ preview \in {"NOPREVIEW", "EPSI", "DOSEPS"}
  /\ endComments \in BOOLEAN /\ fixed \in BOOLEAN /\ ignored \in BOOLEAN

NoneOpen == [b \in Blocks |-> 0]

\* dsc_scan_type has read the %!PS-Adobe line.
Init ==
  /\ pos \in Lengths /\ line = NoLine
  /\ section = "comments" /\ id = "OK"
  /\ begins = [s \in Sections |-> 0] /\ ends = [s \in Sections |-> 0]
  /\ page = <<>> /\ open = NoneOpen
  /\ preview \in {"NOPREVIEW", "DOSEPS"}
  /\ endComments = FALSE /\ fixed = FALSE /\ ignored = FALSE

-----------------------------------------------------------------------------
(* Lines in. *)
Idle == line = NoLine /\ id # "NOTDSC" /\ ~fixed

\* mutant: the end of a line is taken one byte too far
ReadLine_Long(k, n) ==
  /\ Idle /\ pos + n <= MaxPos
  /\ line' = [kind |-> k, start |-> pos, end |-> pos + n + 1]
  /\ pos' = pos + n
  /\ UNCHANGED <<id, endComments, section, markVars, open, preview, fixed, ignored>>

\* dsc_read_line has a line for the scanners.
ReadLine(k, n) ==
  /\ Idle /\ pos + n <= MaxPos
  /\ line' = [kind |-> k, start |-> pos, end |-> pos + n]
  /\ pos' = pos + n
  /\ UNCHANGED <<id, endComments, section, markVars, open, preview, fixed, ignored>>

\* A line of an embedded document or of %%BeginData/%%BeginBinary data.
SkipLine(n) ==
  /\ Idle /\ pos + n <= MaxPos
  /\ pos' = pos + n /\ id' = "OK"
  /\ UNCHANGED <<line, endComments, section, markVars, open, preview, fixed, ignored>>

START == line.start
END == line.end
Is(k) == line.kind = k
NotDscLine == line.kind \in {"blank", "code", "percent", "remark"}

-----------------------------------------------------------------------------
(* What a scanner does with the line. *)

\* GSCreator::comment: enough was read.
EndsComments_Any(i) == TRUE   \* mutant: any comment ends the reading
EndsComments(i) == i \in {"EndPreview", "BeginProlog", "Page"}

\* The line is done with; KDSC reports it to GSCreator unless the line is
\* the unterminated rest of a read block.
Consume(i) ==
  /\ line' = NoLine /\ id' = i
  /\ endComments' \in {endComments, endComments \/ EndsComments(i)}
  /\ UNCHANGED pos

\* CDSC_PROPAGATE: the next scanner looks at the same line.
Propagate == UNCHANGED lineVars

\* CDSC_NOTDSC: an error function asked to ignore all DSC; scanning is over.
NotDsc == /\ line' = NoLine /\ id' = "NOTDSC" /\ UNCHANGED <<pos, endComments>>

Opens(s) == /\ begins' = [begins EXCEPT ![s] = START]
            /\ ends' = [ends EXCEPT ![s] = END]
            /\ section' = s /\ UNCHANGED page

SetEnd(s, where) == ends' = [ends EXCEPT ![s] = where] /\ UNCHANGED <<begins, page>>

\* Answers of dsc_error, called when cond holds.
Answers(cond) == IF cond THEN Responses ELSE {"CANCEL"}
Unmatched == \E b \in Blocks : open[b] # 0

\* mutant: the counters are not reset
CheckMatch_Keep(then) ==
  /\ UNCHANGED open
  /\ \E r \in Answers(Unmatched) :
       /\ ignored' = (ignored \/ r = "IGNORE_ALL")
       /\ IF r = "IGNORE_ALL" THEN NotDsc ELSE then

\* dsc_check_match: forget the open blocks, and let `then' follow unless the
\* error function gives up on the document.
CheckMatch(then) ==
  /\ open' = NoneOpen
  /\ \E r \in Answers(Unmatched) :
       /\ ignored' = (ignored \/ r = "IGNORE_ALL")
       /\ IF r = "IGNORE_ALL" THEN NotDsc ELSE then

\* Begin and End comments of blocks: only counted.
Count(counted) ==
  open' = [b \in Blocks |->
             IF b \notin counted THEN open[b]
             ELSE IF Is(BeginOf[b]) THEN open[b] + 1
             ELSE IF Is(EndOf[b]) THEN open[b] - 1
             ELSE open[b]]

-----------------------------------------------------------------------------
(* dsc_scan_comments *)
LeavesComments == line.kind \in SectionKinds \cup BeginKinds \cup {"percent", "code", "blank"}

Comments ==
  /\ section = "comments" /\ line # NoLine
  /\ \/ /\ Is("EndComments")
        /\ SetEnd("comments", END) /\ section' = "pre_preview" /\ Consume("OK")
     \/ /\ LeavesComments
        /\ SetEnd("comments", START) /\ section' = "pre_preview" /\ Propagate
     \/ /\ ~LeavesComments /\ ~Is("EndComments")
        /\ SetEnd("comments", END) /\ UNCHANGED section /\ Consume("OK")
  /\ UNCHANGED <<open, preview, fixed, ignored>>

(* dsc_scan_preview *)
PrePreview ==
  /\ section = "pre_preview" /\ line # NoLine
  /\ \/ /\ Is("blank")
        /\ Consume("OK") /\ UNCHANGED <<section, markVars, preview>>
     \/ /\ Is("BeginPreview")
        /\ Opens("preview") /\ Consume("OK")
        /\ preview' = IF preview = "NOPREVIEW" THEN "EPSI" ELSE preview
     \/ /\ ~Is("blank") /\ ~Is("BeginPreview")
        /\ section' = "pre_defaults" /\ Propagate /\ UNCHANGED <<markVars, preview>>
  /\ UNCHANGED <<open, fixed, ignored>>

Preview ==
  /\ section = "preview" /\ line # NoLine
  /\ \/ /\ line.kind \in SectionKinds \ {"BeginPreview"}
        /\ SetEnd("preview", START) /\ section' = "pre_defaults" /\ Propagate
     \/ /\ Is("EndPreview")
        /\ SetEnd("preview", END) /\ section' = "pre_defaults" /\ Consume("EndPreview")
     \/ /\ line.kind \notin (SectionKinds \ {"BeginPreview"}) \cup {"EndPreview"}
        /\ SetEnd("preview", END) /\ UNCHANGED section /\ Consume("OK")
  /\ UNCHANGED <<open, preview, fixed, ignored>>

(* dsc_scan_defaults *)
PreDefaults ==
  /\ section = "pre_defaults" /\ line # NoLine
  /\ \/ /\ Is("blank")
        /\ Consume("OK") /\ UNCHANGED <<section, markVars>>
     \/ /\ Is("BeginDefaults")
        /\ Opens("defaults") /\ Consume("OK")
     \/ /\ ~Is("blank") /\ ~Is("BeginDefaults")
        /\ section' = "pre_prolog" /\ Propagate /\ UNCHANGED markVars
  /\ UNCHANGED <<open, preview, fixed, ignored>>

LeavesDefaults == line.kind \in SectionKinds \ {"BeginPreview", "BeginDefaults"}

Defaults ==
  /\ section = "defaults" /\ line # NoLine
  /\ \/ /\ LeavesDefaults
        /\ SetEnd("defaults", START) /\ section' = "pre_prolog" /\ Propagate
     \/ /\ Is("EndDefaults")
        /\ SetEnd("defaults", END) /\ section' = "pre_prolog" /\ Consume("OK")
     \/ /\ ~LeavesDefaults /\ ~Is("EndDefaults")
        /\ SetEnd("defaults", END) /\ UNCHANGED section /\ Consume("OK")
  /\ UNCHANGED <<open, preview, fixed, ignored>>

(* dsc_scan_prolog: a prolog needs no %%BeginProlog *)
PreProlog ==
  /\ section = "pre_prolog" /\ line # NoLine
  /\ \/ /\ line.kind \in SectionKinds \ {"BeginProlog"}
        /\ section' = "pre_setup" /\ Propagate /\ UNCHANGED <<markVars, open, ignored>>
     \/ \* the line that begins the prolog is then scanned as part of it
        /\ line.kind \notin SectionKinds \ {"BeginProlog"} /\ ~Is("EndProlog")
        /\ Opens("prolog") /\ Count(Blocks) /\ UNCHANGED ignored
        /\ Consume(IF NotDscLine \/ Is("BeginProlog") THEN "BeginProlog" ELSE "OK")
     \/ /\ Is("EndProlog")
        /\ begins' = [begins EXCEPT !["prolog"] = START]
        /\ ends' = [ends EXCEPT !["prolog"] = END] /\ UNCHANGED page
        /\ section' = "pre_setup" /\ CheckMatch(Consume("OK"))
  /\ UNCHANGED <<preview, fixed>>

LeavesProlog ==
  line.kind \in SectionKinds \ {"BeginPreview", "BeginDefaults", "BeginProlog"}

Prolog ==
  /\ section = "prolog" /\ line # NoLine
  /\ \/ /\ LeavesProlog
        /\ SetEnd("prolog", START) /\ section' = "pre_setup" /\ CheckMatch(Propagate)
     \/ /\ Is("EndProlog")
        /\ SetEnd("prolog", END) /\ section' = "pre_setup" /\ CheckMatch(Consume("OK"))
     \/ /\ ~LeavesProlog /\ ~Is("EndProlog")
        /\ SetEnd("prolog", END) /\ Count(Blocks) /\ Consume("OK")
        /\ UNCHANGED <<section, ignored>>
  /\ UNCHANGED <<preview, fixed>>

(* dsc_scan_setup *)
PreSetup ==
  /\ section = "pre_setup" /\ line # NoLine
  /\ \/ /\ Is("blank")
        /\ Consume("OK") /\ UNCHANGED <<section, markVars>>
     \/ /\ Is("BeginSetup")
        /\ Opens("setup") /\ Consume("OK")
     \/ /\ ~Is("blank") /\ ~Is("BeginSetup")
        /\ section' = "pre_pages" /\ Propagate /\ UNCHANGED markVars
  /\ UNCHANGED <<open, preview, fixed, ignored>>

LeavesSetup == line.kind \in {"Page", "Trailer", "EOF"}

Setup ==
  /\ section = "setup" /\ line # NoLine
  /\ \/ /\ LeavesSetup
        /\ SetEnd("setup", START) /\ section' = "pre_pages" /\ CheckMatch(Propagate)
     \/ /\ Is("EndSetup")
        /\ SetEnd("setup", END) /\ section' = "pre_pages" /\ CheckMatch(Consume("OK"))
     \/ /\ ~LeavesSetup /\ ~Is("EndSetup")
        /\ SetEnd("setup", END) /\ Count(Blocks \cap {"Feature", "Resource"})
        /\ Consume("OK") /\ UNCHANGED <<section, ignored>>
  /\ UNCHANGED <<preview, fixed>>

(* dsc_scan_page *)

\* The section that code before the first page belongs to: the last one seen.
LastEnded_Header == "comments"   \* mutant: always the header
LastEnded ==
  LET seen == {i \in 1..5 : i = 1 \/ ends[Before[i]] # 0}
  IN  Before[CHOOSE i \in seen : \A j \in seen : j <= i]

PrePages ==
  /\ section = "pre_pages" /\ line # NoLine
  /\ \/ /\ Is("Page")
        /\ section' = "pages" /\ Propagate /\ UNCHANGED markVars
     \/ /\ line.kind \in {"Trailer", "EOF"}
        /\ SetEnd(LastEnded, START) /\ section' = "pre_trailer" /\ Propagate
     \/ /\ line.kind \notin {"Page", "Trailer", "EOF"}
        /\ SetEnd(LastEnded, START) /\ UNCHANGED section /\ Consume("OK")
  /\ UNCHANGED <<open, preview, fixed, ignored>>

\* page[page_count-1].end = where
PageEndsAt(where) == [page EXCEPT ![Len(page)].end = where]

\* mutant: a page with a wrong ordinal is dropped whatever the answer
ParsePage_Drop(closed, bad) ==
  \E r \in Answers(bad) :
    /\ page' = IF ~bad THEN Append(closed, [begin |-> START, end |-> START])
               ELSE closed
    /\ ignored' = (ignored \/ r = "IGNORE_ALL")
    /\ Consume("Page")

\* dsc_parse_page: the error function is asked about an ordinal that is not
\* the next one (bad); OK drops the page.  IGNORE_ALL makes dsc_scan_page
\* return CDSC_ERROR, which ends the scan of this line only.
ParsePage(closed, bad) ==
  \E r \in Answers(bad) :
    /\ page' = IF r = "CANCEL" THEN Append(closed, [begin |-> START, end |-> START])
               ELSE closed
    /\ ignored' = (ignored \/ r = "IGNORE_ALL")
    /\ Consume("Page")

FirstPage ==
  /\ Is("Page") /\ page = <<>>
  /\ \E bad \in BOOLEAN : ParsePage(page, bad)
  /\ UNCHANGED open

NextPage ==
  /\ Is("Page") /\ page # <<>>
  /\ open' = NoneOpen
  /\ \E r \in Answers(Unmatched), bad \in BOOLEAN :
       IF r = "IGNORE_ALL"
       THEN NotDsc /\ page' = PageEndsAt(START) /\ ignored' = TRUE
       ELSE ParsePage(PageEndsAt(START), bad)

PageTrailer ==
  /\ Is("Trailer")
  /\ page' = PageEndsAt(START) /\ section' = "pre_trailer" /\ CheckMatch(Propagate)

\* %%EOF does not end the pages: it may be that of an embedded file.
PageEof ==
  /\ Is("EOF")
  /\ page' = PageEndsAt(START) /\ UNCHANGED section /\ CheckMatch(Consume("OK"))

\* Anything else is part of the page.
PageLine ==
  /\ line.kind \notin {"Page", "Trailer", "EOF"}
  /\ page' = PageEndsAt(END) /\ Count(Blocks)
  /\ Consume("OK") /\ UNCHANGED <<section, ignored>>

Pages ==
  /\ section = "pages" /\ line # NoLine
  /\ \/ (FirstPage \/ NextPage) /\ UNCHANGED section
     \/ PageTrailer \/ PageEof \/ PageLine
  /\ UNCHANGED <<begins, ends, preview, fixed>>

(* dsc_scan_trailer *)
PreTrailer ==
  /\ section = "pre_trailer" /\ line # NoLine
  /\ line.kind \in {"Trailer", "EOF"} /\ Opens("trailer") /\ Consume("OK")
  /\ UNCHANGED <<open, preview, fixed, ignored>>

\* A page in the trailer: OK means that the trailer was a false one.
TrailerPage ==
  /\ Is("Page")
  /\ \E r \in Responses :
       /\ ignored' = (ignored \/ r = "IGNORE_ALL")
       /\ CASE r = "OK" ->
                 /\ section' = "pre_pages" /\ Propagate
                 /\ page' = IF page = <<>> THEN page ELSE PageEndsAt(START)
                 /\ UNCHANGED <<begins, ends>>
            [] r = "CANCEL" -> SetEnd("trailer", END) /\ UNCHANGED section /\ Consume("OK")
            [] r = "IGNORE_ALL" -> NotDsc /\ UNCHANGED <<section, markVars>>

\* The last %%Trailer is the right one.
TrailerLine ==
  /\ ~Is("Page")
  /\ begins' = IF Is("Trailer") THEN [begins EXCEPT !["trailer"] = START] ELSE begins
  /\ ends' = [ends EXCEPT !["trailer"] = END]
  /\ Consume("OK") /\ UNCHANGED <<page, section, ignored>>

Trailer ==
  /\ section = "trailer" /\ line # NoLine
  /\ (TrailerPage \/ TrailerLine)
  /\ UNCHANGED <<open, preview, fixed>>

\* An attribute that the error function is asked about (a duplicate, an atend,
\* a value that does not parse) and for which it answers IGNORE_ALL.  The pages
\* pass that on; the other scanners turn it into CDSC_ERROR, which dsc_scan_data
\* overwrites when it asks for the next line.
BadAttribute ==
  /\ Is("dsc") /\ "IGNORE_ALL" \in Responses
  /\ section \in {"comments", "defaults", "pages", "trailer"}
  /\ IF section = "pages" THEN NotDsc ELSE Consume("OK")
  /\ ignored' = TRUE
  /\ UNCHANGED <<section, markVars, open, preview, fixed>>

Scan == \/ BadAttribute
        \/ Comments \/ PrePreview \/ Preview \/ PreDefaults \/ Defaults \/ PreProlog
        \/ Prolog \/ PreSetup \/ Setup \/ PrePages \/ Pages \/ PreTrailer \/ Trailer

-----------------------------------------------------------------------------
(***************************************************************************)
(* dsc_fixup: code between sections is given to the section before it.     *)
(***************************************************************************)

\* The sections in the order of the file, pages by their number.
Parts == 5 + Len(page)   \* the first five parts are Before, the others pages
BeginMark(k) == IF k > 5 THEN page[k - 5].begin ELSE begins[Before[k]]

\* The two repairs that come first: code after the setup, and a last page
\* that ended at a false trailer.
RepairedSetup ==
  IF page # <<>> /\ page[1].begin # ends["setup"] /\ ends["setup"] # begins["setup"]
  THEN page[1].begin ELSE ends["setup"]
RepairedEnd(i) ==
  IF i = Len(page) /\ begins["trailer"] # 0 THEN begins["trailer"] ELSE page[i].end
EndMark(k) == IF k > 5 THEN RepairedEnd(k - 5)
              ELSE IF k = 5 THEN RepairedSetup ELSE ends[Before[k]]

\* dsc_section_join, over all sections: an end is moved to where the next
\* section begins, as long as no section that is not empty lies between.
Full_Always(k) == TRUE   \* mutant: without `if (*pend > begin)'
Full(k) == EndMark(k) > BeginMark(k)
Join(k) ==
  LET NoneFull(m) == \A i \in (k + 1)..m : ~Full(i)
      movers == {j \in (k + 1)..Parts : BeginMark(j) # 0 /\ NoneFull(j - 1)}
  IN  IF k > 1 /\ ~Full(k) THEN EndMark(k)
      ELSE IF begins["trailer"] # 0 /\ NoneFull(Parts) THEN begins["trailer"]
      ELSE IF movers = {} THEN EndMark(k)
      ELSE BeginMark(CHOOSE j \in movers : \A m \in movers : m <= j)

Fixup ==
  /\ Idle
  /\ fixed' = TRUE
  /\ ends' = [s \in Sections |->
                IF s = "trailer" THEN ends[s]
                ELSE Join(CHOOSE k \in 1..5 : Before[k] = s)]
  /\ page' = [i \in 1..Len(page) |-> [page[i] EXCEPT !.end = Join(5 + i)]]
  /\ UNCHANGED <<lineVars, section, begins, open, preview, ignored>>

Next ==
  \/ \E k \in Kinds, n \in Lengths : ReadLine(k, n)
  \/ \E n \in Lengths : SkipLine(n)
  \/ Scan \/ Fixup

Spec == Init /\ [][Next]_vars

(***************************************************************************)
(* Properties                                                              *)
(***************************************************************************)

\* The scanner of the pages has a page to extend whenever it extends one: the
\* uses of page[page_count-1] in dsc_scan_page.
PageExists == section = "pages" => page # <<>> \/ Is("Page")

\* What was found lies in the file in the order of the sections, nothing
\* overlaps, and each page ends where the next begins.
Ordered ==
  /\ \A i \in 1..5 : begins[Before[i]] <= ends[Before[i]]
  /\ \A i, j \in 1..5 : i < j /\ begins[Before[j]] # 0 => ends[Before[i]] <= begins[Before[j]]
  /\ \A i \in 1..Len(page) : page[i].begin <= page[i].end
  /\ \A i \in 1..Len(page) - 1 : page[i].end = page[i + 1].begin
  /\ page # <<>> => \A i \in 1..5 : ends[Before[i]] <= page[1].begin
  /\ begins["trailer"] # 0 =>
       /\ \A i \in 1..5 : ends[Before[i]] <= begins["trailer"]
       /\ page # <<>> => page[Len(page)].end <= begins["trailer"]

\* A Begin without its End is forgotten at the end of its section: it is not
\* held against a later one.
BlocksClosed == section \notin {"prolog", "setup", "pages"} => open = NoneOpen

\* dsc_fixup leaves no gap: every section or page that is not empty ends
\* where the next one in the file begins.
NextBegin(k) ==
  LET later == {BeginMark(j) : j \in (k + 1)..Parts} \cup {begins["trailer"]}
  IN  later \ {0}
EndNow(k) == IF k > 5 THEN page[k - 5].end ELSE ends[Before[k]]
Joined ==
  fixed => \A k \in 1..Parts :
             (NextBegin(k) # {} /\ EndNow(k) > BeginMark(k)) =>
               \A b \in NextBegin(k) : (EndNow(k) <= b)
                 /\ (\A c \in NextBegin(k) : b <= c) => EndNow(k) = b

\* Once GSCreator was told that it has read enough, no line still to come
\* would have changed whether and where there is a preview.
PreviewSettled ==
  [][endComments => UNCHANGED <<preview, begins["preview"]>>]_vars

\* "Ignore all DSC": nothing is recorded after the error function said so.
IgnoreAllObeyed == [][ignored => UNCHANGED <<section, markVars, open>>]_vars
=============================================================================
