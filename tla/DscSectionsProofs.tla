-------------------------- MODULE DscSectionsProofs --------------------------
(***************************************************************************)
(* Theorems about the section scanner, for any set of kinds of lines, any  *)
(* lengths and any file size.                                              *)
(*                                                                         *)
(* The first part proves the types: every offset that is recorded lies in  *)
(* what has been read of the file, after every scanner and after           *)
(* dsc_fixup.  An action leaves the line, the marks and the rest (LineKept,*)
(* MarksKept, RestKept) of the right types, one lemma for each group of    *)
(* scanners.  The second part proves three of the safety properties; the   *)
(* order of the sections stays with TLC.                                   *)
(***************************************************************************)
EXTENDS DscSections, SequenceTheorems, WellFoundedInduction, TLAPS

\* The offsets a mark can be, and the pages made of them.
Marks == 0..pos
Page == [begin : Marks, end : Marks]

\* A set of naturals with a bound that is not empty has a greatest element: the
\* CHOOSE of LastEnded and Join is of something.
LEMMA Greatest ==
  ASSUME NEW n \in Nat, NEW S \in SUBSET (0..n), S # {}
  PROVE  \E m \in S : \A i \in S : i <= m
<1> DEFINE T == {k \in Nat : n - k \in S}
           R == OpToRel(<, Nat)
<1>1. T \subseteq Nat /\ T # {}
  <2>1. PICK i \in S : TRUE
    OBVIOUS
  <2>2. n - i \in T
    BY <2>1
  <2>3. QED BY <2>2
<1>2. IsWellFoundedOn(R, Nat)
  BY NatLessThanWellFounded, Zenon
<1>3. \A x, y \in Nat : x < y => <<x, y>> \in R
  BY DEF OpToRel
<1>4. PICK x \in T : \A y \in T : ~(<<y, x>> \in R)
  <2> HIDE DEF T, R
  <2> QED BY <1>1, <1>2, WFMin
<1>5. n - x \in S /\ x \in Nat
  BY <1>4
<1>6. ASSUME NEW i \in S PROVE i <= n - x
  <2>1. n - i \in T /\ n - i \in Nat /\ i \in Nat
    OBVIOUS
  <2>2. ~(n - i < x)
    <3> HIDE DEF T, R
    <3> QED BY <1>3, <1>4, <1>5, <2>1
  <2>3. QED BY <2>1, <2>2, <1>5
<1>7. QED BY <1>5, <1>6

\* No line that is read is of the kind of NoLine.
LEMMA SpecialKinds ==
  /\ "none" \notin AllKinds /\ SectionKinds \subseteq AllKinds
BY DEF AllKinds, SectionKinds, EndKinds, BeginKinds, BeginOf, EndOf, BlockTypes

\* Before lists every section but the trailer.
LEMMA BeforeIs ==
  /\ Before[1] = "comments" /\ Before[2] = "preview" /\ Before[3] = "defaults"
  /\ Before[4] = "prolog" /\ Before[5] = "setup"
  /\ \A j \in 1..5 : j = 1 \/ j = 2 \/ j = 3 \/ j = 4 \/ j = 5
  /\ \A j \in 1..5 : Before[j] \in Sections \ {"trailer"}
  /\ \A s \in Sections \ {"trailer"} : \E j \in 1..5 : Before[j] = s
<1>1. /\ Before[1] = "comments" /\ Before[2] = "preview" /\ Before[3] = "defaults"
      /\ Before[4] = "prolog" /\ Before[5] = "setup"
  BY DEF Before
<1>2. \A j \in 1..5 : j = 1 \/ j = 2 \/ j = 3 \/ j = 4 \/ j = 5
  OBVIOUS
<1>3. \A j \in 1..5 : Before[j] \in Sections \ {"trailer"}
  BY <1>1, <1>2 DEF Sections
<1>4. \A s \in Sections \ {"trailer"} : \E j \in 1..5 : Before[j] = s
  <2>1. 1 \in 1..5 /\ 2 \in 1..5 /\ 3 \in 1..5 /\ 4 \in 1..5 /\ 5 \in 1..5
    OBVIOUS
  <2>2. QED  BY <1>1, <2>1, Zenon DEF Sections
<1>5. QED  BY <1>1, <1>2, <1>3, <1>4

\* What the type of the page table says of it as a function.
LEMMA PageTable ==
  ASSUME TypeOK
  PROVE  /\ page \in Seq(Page) /\ Len(page) \in Nat
         /\ page \in [1..Len(page) -> Page] /\ DOMAIN page = 1..Len(page)
         /\ pos \in Nat /\ Parts \in Nat
         /\ page = <<>> <=> Len(page) = 0
         /\ page # <<>> => 1 \in 1..Len(page) /\ Len(page) \in 1..Len(page)
<1>1. page \in Seq(Page) /\ pos \in Nat
  BY DEF TypeOK, Marks, Page
<1>2. Len(page) \in Nat /\ page \in [1..Len(page) -> Page] /\ DOMAIN page = 1..Len(page)
  BY <1>1, LenProperties
<1>3. page = <<>> <=> Len(page) = 0
  <2>1. CASE Len(page) = 0
    <3>1. <<>> \in Seq(Page) /\ Len(<<>>) = 0
      BY EmptySeq
    <3>2. QED  BY <1>1, <2>1, <3>1, SeqEqual
  <2>2. CASE Len(page) # 0
    BY <2>2
  <2>3. QED  BY <2>1, <2>2
<1>4. QED  BY <1>1, <1>2, <1>3 DEF Parts

\* Extending the last page keeps the page table one, with or without a page.
LEMMA PageEndsType ==
  ASSUME TypeOK, NEW where \in Marks
  PROVE  /\ PageEndsAt(where) \in Seq(Page)
         /\ Len(PageEndsAt(where)) = Len(page)
         /\ \A i \in 1..Len(page) :
              PageEndsAt(where)[i] = IF i = Len(page) THEN [page[i] EXCEPT !.end = where]
                                     ELSE page[i]
<1>1. page \in Seq(Page)
  BY PageTable
<1>2. Len(page) \in Nat /\ page \in [1..Len(page) -> Page] /\ DOMAIN page = 1..Len(page)
  BY PageTable
<1>3. CASE Len(page) = 0
  <2>1. page = <<>>
    BY <1>3, PageTable
  <2>2. PageEndsAt(where) = page
    BY <1>2, <1>3 DEF PageEndsAt
  <2>3. QED  BY <1>1, <1>3, <2>2
<1>4. CASE Len(page) # 0
  <2>1. Len(page) \in 1..Len(page) /\ [page[Len(page)] EXCEPT !.end = where] \in Page
    BY <1>2, <1>4 DEF Page
  <2>2. PageEndsAt(where) = [page EXCEPT ![Len(page)] = [page[Len(page)] EXCEPT !.end = where]]
    BY DEF PageEndsAt
  <2>3. QED  BY <1>1, <2>1, <2>2, ExceptSeq
<1>5. QED  BY <1>3, <1>4

\* dsc_section_join writes an offset that lies in the file.
LEMMA JoinType ==
  ASSUME TypeOK, NEW k \in 1..Parts
  PROVE  Join(k) \in Marks
<1>1. /\ Len(page) \in Nat /\ page \in [1..Len(page) -> Page]
      /\ Parts \in Nat /\ pos \in Nat
  BY PageTable
<1>2. \A j \in 1..5 : Before[j] \in Sections
  BY BeforeIs
<1>3. \A j \in 1..Parts : j > 5 => j - 5 \in 1..Len(page)
  BY <1>1 DEF Parts
<1>4. ASSUME NEW j \in 1..Parts PROVE BeginMark(j) \in Marks
  <2>1. CASE j > 5
    <3>1. page[j - 5] \in Page
      BY <1>1, <1>3, <2>1
    <3>2. QED  BY <2>1, <3>1 DEF BeginMark, Page
  <2>2. CASE ~(j > 5)
    <3>1. Before[j] \in Sections
      BY <1>2, <2>2
    <3>2. begins[Before[j]] \in Marks
      BY <3>1 DEF TypeOK, Marks
    <3>3. QED  BY <2>2, <3>2 DEF BeginMark
  <2>3. QED  BY <2>1, <2>2
<1>5. RepairedSetup \in Marks
  <2>1. ends["setup"] \in Marks
    BY DEF TypeOK, Marks, Sections
  <2>2. page # <<>> => page[1].begin \in Marks
    <3>1. page # <<>> => page[1] \in Page
      BY <1>1, PageTable
    <3>2. QED  BY <3>1 DEF Page
  <2>3. QED  BY <2>1, <2>2 DEF RepairedSetup
<1>6. EndMark(k) \in Marks
  <2>1. CASE k > 5
    <3>1. page[k - 5] \in Page
      BY <1>1, <1>3, <2>1
    <3>2. RepairedEnd(k - 5) \in Marks
      BY <3>1 DEF RepairedEnd, TypeOK, Marks, Page, Sections
    <3>3. QED  BY <2>1, <3>2 DEF EndMark
  <2>2. CASE k = 5
    BY <2>2, <1>5 DEF EndMark
  <2>3. CASE k < 5
    <3>1. k \in 1..5
      BY <1>1, <2>3
    <3>2. ends[Before[k]] \in Marks
      BY <1>2, <3>1 DEF TypeOK, Marks
    <3>3. QED  BY <1>1, <2>3, <3>2 DEF EndMark
  <2>4. QED  BY <1>1, <2>1, <2>2, <2>3
<1> DEFINE NoneFull(m) == \A i \in (k + 1)..m : ~Full(i)
           movers == {j \in (k + 1)..Parts : BeginMark(j) # 0 /\ NoneFull(j - 1)}
<1>7. ASSUME movers # {}
      PROVE  (CHOOSE j \in movers : \A m \in movers : m <= j) \in 1..Parts
  <2>1. movers \in SUBSET (0..Parts)
    BY <1>1
  <2>2. \E j \in movers : \A m \in movers : m <= j
    <3> HIDE DEF movers
    <3> QED BY <1>1, <1>7, <2>1, Greatest
  <2>3. (CHOOSE j \in movers : \A m \in movers : m <= j) \in movers
    <3> HIDE DEF movers
    <3> QED BY <2>2
  <2>4. movers \subseteq 1..Parts
    BY <1>1
  <2>5. QED
    <3> HIDE DEF movers
    <3> QED BY <2>3, <2>4
<1>8. begins["trailer"] \in Marks
  BY DEF TypeOK, Marks, Sections
<1>9. Join(k) \in {EndMark(k), begins["trailer"]}
       \/ (movers # {} /\ Join(k) = BeginMark(CHOOSE j \in movers : \A m \in movers : m <= j))
  BY DEF Join
<1>10. QED
  <2> HIDE DEF movers
  <2> QED BY <1>4, <1>6, <1>7, <1>8, <1>9

\* Code before the first page is given to a section that is not the trailer.
LEMMA LastEndedIs == LastEnded \in Sections \ {"trailer"}
<1> DEFINE seen == {i \in 1..5 : i = 1 \/ ends[Before[i]] # 0}
<1>1. seen \in SUBSET (0..5) /\ 1 \in seen /\ seen \subseteq 1..5
  OBVIOUS
<1>2. \E i \in seen : \A j \in seen : j <= i
  <2> HIDE DEF seen
  <2> QED BY <1>1, Greatest
<1>3. (CHOOSE i \in seen : \A j \in seen : j <= i) \in seen
  <2> HIDE DEF seen
  <2> QED BY <1>2
<1>4. Before[CHOOSE i \in seen : \A j \in seen : j <= i] \in Sections \ {"trailer"}
  <2> HIDE DEF seen
  <2> QED BY <1>1, <1>3, BeforeIs
<1>5. QED  BY <1>4 DEF LastEnded

\* The parts of TypeOK that the pieces of an action establish.
LineKept == /\ pos' = pos /\ line' \in {line, NoLine}
            /\ id' \in Ids /\ endComments' \in BOOLEAN
MarksKept == /\ begins' \in [Sections -> Marks] /\ ends' \in [Sections -> Marks]
             /\ page' \in Seq(Page)
RestKept == /\ section' \in ScanSections /\ open' \in [Blocks -> Int]
            /\ preview' \in {"NOPREVIEW", "EPSI", "DOSEPS"}
            /\ fixed' \in BOOLEAN /\ ignored' \in BOOLEAN

\* The three parts together are TypeOK of the next state.
LEMMA Retyped == TypeOK /\ LineKept /\ MarksKept /\ RestKept => TypeOK'
<1> SUFFICES ASSUME TypeOK, LineKept, MarksKept, RestKept PROVE TypeOK'
  OBVIOUS
<1>1. pos' = pos /\ pos \in Nat
  BY DEF TypeOK, LineKept
<1>2. NoLine \in [kind : Kinds \cup {"none"}, start : 0..pos, end : 0..pos]
  BY <1>1 DEF NoLine
<1>3. line' \in [kind : Kinds \cup {"none"}, start : 0..pos', end : 0..pos']
  BY <1>1, <1>2 DEF TypeOK, LineKept
<1>4. page' \in Seq([begin : 0..pos', end : 0..pos'])
  BY <1>1 DEF MarksKept, Marks, Page
<1>5. begins' \in [Sections -> 0..pos'] /\ ends' \in [Sections -> 0..pos']
  BY <1>1 DEF MarksKept, Marks
<1>6. QED  BY <1>1, <1>3, <1>4, <1>5 DEF TypeOK, LineKept, RestKept

\* Consuming a line, passing it on and giving up leave the line well typed.
LEMMA LinesKept ==
  ASSUME TypeOK
  PROVE  /\ \A i \in Ids : Consume(i) => LineKept
         /\ Propagate => LineKept
         /\ NotDsc => LineKept
BY DEF TypeOK, LineKept, Consume, Propagate, NotDsc, lineVars, Ids, EndsComments

\* The offsets of the line lie in the file.
LEMMA LineMarks == TypeOK => START \in Marks /\ END \in Marks /\ line.kind \in Kinds \cup {"none"}
BY DEF TypeOK, START, END, Marks

\* Opening a section and moving the end of one leave the marks in the file.
LEMMA MarksSet ==
  ASSUME TypeOK
  PROVE  /\ UNCHANGED markVars => MarksKept
         /\ \A s \in Sections, w \in Marks : SetEnd(s, w) => MarksKept
         /\ \A s \in Sections : Opens(s) => MarksKept /\ section' = s
<1>1. /\ begins \in [Sections -> Marks] /\ ends \in [Sections -> Marks]
      /\ page \in Seq(Page) /\ START \in Marks /\ END \in Marks
  BY PageTable, LineMarks DEF TypeOK, Marks
<1>2. QED  BY <1>1 DEF MarksKept, markVars, SetEnd, Opens

\* The counters stay integers (an End without a Begin makes them negative).
LEMMA Counted ==
  ASSUME TypeOK
  PROVE  /\ NoneOpen \in [Blocks -> Int]
         /\ \A c \in SUBSET Blocks : Count(c) => open' \in [Blocks -> Int]
<1>1. NoneOpen \in [Blocks -> Int]
  BY DEF NoneOpen
<1>2. ASSUME NEW c \in SUBSET Blocks, Count(c) PROVE open' \in [Blocks -> Int]
  <2>1. ASSUME NEW b \in Blocks
        PROVE (IF b \notin c THEN open[b]
             ELSE IF Is(BeginOf[b]) THEN open[b] + 1
             ELSE IF Is(EndOf[b]) THEN open[b] - 1
             ELSE open[b]) \in Int
    <3>1. open[b] \in Int
      BY DEF TypeOK
    <3>2. QED  BY <3>1
  <2>2. QED  BY <1>2, <2>1 DEF Count
<1>3. QED  BY <1>1, <1>2

\* The scanners of the sections before the pages keep the types.
LEMMA SectionTypes ==
  ASSUME TypeOK,
         \/ Comments \/ PrePreview \/ Preview \/ PreDefaults \/ Defaults
         \/ PreProlog \/ Prolog \/ PreSetup \/ Setup \/ PrePages
  PROVE  TypeOK'
<1>1. LineKept /\ MarksKept
  <2> USE DEF Ids, Sections
  <2>1. CASE Comments
    BY <2>1, LinesKept, MarksSet, LineMarks DEF Comments
  <2>2. CASE PrePreview
    BY <2>2, LinesKept, MarksSet, LineMarks DEF PrePreview
  <2>3. CASE Preview
    BY <2>3, LinesKept, MarksSet, LineMarks DEF Preview
  <2>4. CASE PreDefaults
    BY <2>4, LinesKept, MarksSet, LineMarks DEF PreDefaults
  <2>5. CASE Defaults
    BY <2>5, LinesKept, MarksSet, LineMarks DEF Defaults
  <2>6. CASE PreProlog
    <3>1. begins \in [Sections -> Marks] /\ ends \in [Sections -> Marks] /\ page \in Seq(Page)
      BY PageTable DEF TypeOK, Marks
    <3>2. CASE Propagate /\ UNCHANGED markVars
      BY <3>2, LinesKept, MarksSet
    <3>3. CASE Opens("prolog") /\ \E i \in Ids : Consume(i)
      BY <3>3, LinesKept, MarksSet
    <3>4. CASE /\ begins' = [begins EXCEPT !["prolog"] = START]
               /\ ends' = [ends EXCEPT !["prolog"] = END] /\ UNCHANGED page
               /\ (NotDsc \/ Consume("OK"))
      <4>1. MarksKept
        BY <3>1, <3>4, LineMarks DEF MarksKept
      <4>2. LineKept
        BY <3>4, LinesKept
      <4>3. QED  BY <4>1, <4>2
    <3>5. QED  BY <2>6, <3>2, <3>3, <3>4 DEF PreProlog, CheckMatch
  <2>7. CASE Prolog
    BY <2>7, LinesKept, MarksSet, LineMarks DEF Prolog, CheckMatch
  <2>8. CASE PreSetup
    BY <2>8, LinesKept, MarksSet, LineMarks DEF PreSetup
  <2>9. CASE Setup
    BY <2>9, LinesKept, MarksSet, LineMarks DEF Setup, CheckMatch
  <2>10. CASE PrePages
    BY <2>10, LinesKept, MarksSet, LineMarks, LastEndedIs DEF PrePages
  <2>11. QED  BY <2>1, <2>2, <2>3, <2>4, <2>5, <2>6, <2>7, <2>8, <2>9, <2>10
<1>2. RestKept
  <2> USE DEF TypeOK, RestKept, ScanSections, Opens
  <2>1. CASE Comments
    BY <2>1 DEF Comments
  <2>2. CASE PrePreview
    BY <2>2 DEF PrePreview
  <2>3. CASE Preview
    BY <2>3 DEF Preview
  <2>4. CASE PreDefaults
    BY <2>4 DEF PreDefaults
  <2>5. CASE Defaults
    BY <2>5 DEF Defaults
  <2>6. CASE PreProlog
    BY <2>6, Counted DEF PreProlog, CheckMatch
  <2>7. CASE Prolog
    BY <2>7, Counted DEF Prolog, CheckMatch
  <2>8. CASE PreSetup
    BY <2>8 DEF PreSetup
  <2>9. CASE Setup
    BY <2>9, Counted DEF Setup, CheckMatch
  <2>10. CASE PrePages
    BY <2>10 DEF PrePages
  <2>11. QED  BY <2>1, <2>2, <2>3, <2>4, <2>5, <2>6, <2>7, <2>8, <2>9, <2>10
<1>3. QED  BY <1>1, <1>2, Retyped

\* dsc_parse_page extends the page table by a page that lies in the file.
LEMMA PageParsed ==
  ASSUME TypeOK, NEW closed \in Seq(Page), NEW bad \in BOOLEAN, ParsePage(closed, bad)
  PROVE  LineKept /\ page' \in Seq(Page) /\ ignored' \in BOOLEAN
<1>1. LineKept
  BY LinesKept DEF ParsePage, Ids
<1>2. [begin |-> START, end |-> START] \in Page
  BY LineMarks DEF Page
<1>3. Append(closed, [begin |-> START, end |-> START]) \in Seq(Page)
  BY <1>2, AppendProperties
<1>4. page' \in Seq(Page)
  BY <1>3 DEF ParsePage
<1>5. ignored' \in BOOLEAN
  BY DEF ParsePage, TypeOK
<1>6. QED  BY <1>1, <1>4, <1>5

\* The scanner of the pages keeps the types.
LEMMA PagesTypes == TypeOK /\ Pages => TypeOK'
<1> SUFFICES ASSUME TypeOK, Pages PROVE TypeOK'
  OBVIOUS
<1> USE DEF Ids
<1>1. page \in Seq(Page) /\ PageEndsAt(START) \in Seq(Page) /\ PageEndsAt(END) \in Seq(Page)
  BY PageTable, PageEndsType, LineMarks
<1>2. open \in [Blocks -> Int] /\ NoneOpen \in [Blocks -> Int]
  BY Counted DEF TypeOK
<1>3. /\ UNCHANGED <<begins, ends, preview, fixed>>
      /\ section \in ScanSections /\ "pre_trailer" \in ScanSections /\ ignored \in BOOLEAN
  BY DEF Pages, TypeOK, ScanSections
<1>4. /\ LineKept /\ page' \in Seq(Page) /\ section' \in ScanSections
      /\ open' \in [Blocks -> Int] /\ ignored' \in BOOLEAN
  <2>1. CASE FirstPage /\ UNCHANGED section
    <3>1. PICK bad \in BOOLEAN : ParsePage(page, bad)
      BY <2>1 DEF FirstPage
    <3>2. QED  BY <1>1, <1>2, <1>3, <2>1, <3>1, PageParsed DEF FirstPage
  <2>2. CASE NextPage /\ UNCHANGED section
    <3>1. PICK r \in Answers(Unmatched), bad \in BOOLEAN :
            IF r = "IGNORE_ALL"
            THEN NotDsc /\ page' = PageEndsAt(START) /\ ignored' = TRUE
            ELSE ParsePage(PageEndsAt(START), bad)
      BY <2>2 DEF NextPage
    <3>2. LineKept /\ page' \in Seq(Page) /\ ignored' \in BOOLEAN
      BY <1>1, <3>1, PageParsed, LinesKept
    <3>3. QED  BY <1>2, <1>3, <2>2, <3>2 DEF NextPage
  <2>3. CASE PageTrailer
    BY <1>1, <1>2, <1>3, <2>3, LinesKept DEF PageTrailer, CheckMatch
  <2>4. CASE PageEof
    BY <1>1, <1>2, <1>3, <2>4, LinesKept DEF PageEof, CheckMatch
  <2>5. CASE PageLine
    BY <1>1, <1>3, <2>5, LinesKept, Counted DEF PageLine
  <2>6. QED  BY <2>1, <2>2, <2>3, <2>4, <2>5 DEF Pages
<1>5. MarksKept
  BY <1>3, <1>4 DEF MarksKept, TypeOK, Marks
<1>6. RestKept
  BY <1>3, <1>4 DEF RestKept, TypeOK
<1>7. QED  BY <1>4, <1>5, <1>6, Retyped

\* The scanners of the trailer, and a bad attribute, keep the types.
LEMMA TrailerTypes == TypeOK /\ (PreTrailer \/ Trailer \/ BadAttribute) => TypeOK'
<1> SUFFICES ASSUME TypeOK, PreTrailer \/ Trailer \/ BadAttribute PROVE TypeOK'
  OBVIOUS
<1> USE DEF Ids, Sections
<1>1. CASE PreTrailer
  <2>1. LineKept /\ MarksKept
    BY <1>1, LinesKept, MarksSet DEF PreTrailer
  <2>2. RestKept
    BY <1>1 DEF PreTrailer, Opens, RestKept, TypeOK, ScanSections
  <2>3. QED  BY <2>1, <2>2, Retyped
<1>2. CASE Trailer
  <2>1. /\ begins \in [Sections -> Marks] /\ ends \in [Sections -> Marks]
        /\ page \in Seq(Page) /\ PageEndsAt(START) \in Seq(Page)
        /\ START \in Marks /\ END \in Marks
    BY PageTable, PageEndsType, LineMarks DEF TypeOK, Marks
  <2>2. CASE TrailerPage
    <3>1. PICK r \in Responses :
            /\ ignored' = (ignored \/ r = "IGNORE_ALL")
            /\ CASE r = "OK" ->
                      /\ section' = "pre_pages" /\ Propagate
                      /\ page' = IF page = <<>> THEN page ELSE PageEndsAt(START)
                      /\ UNCHANGED <<begins, ends>>
                 [] r = "CANCEL" ->
                      SetEnd("trailer", END) /\ UNCHANGED section /\ Consume("OK")
                 [] r = "IGNORE_ALL" -> NotDsc /\ UNCHANGED <<section, markVars>>
      BY <2>2 DEF TrailerPage
    <3>2. r \in {"OK", "CANCEL", "IGNORE_ALL"}
      BY ResponsesAssumption
    <3>3. LineKept /\ MarksKept /\ section' \in ScanSections /\ ignored' \in BOOLEAN
      BY <2>1, <3>1, <3>2, LinesKept, MarksSet DEF MarksKept, TypeOK, ScanSections
    <3>4. RestKept
      BY <1>2, <3>3 DEF Trailer, RestKept, TypeOK
    <3>5. QED  BY <3>3, <3>4, Retyped
  <2>3. CASE TrailerLine
    <3>1. LineKept /\ MarksKept
      BY <2>1, <2>3, LinesKept DEF TrailerLine, MarksKept
    <3>2. RestKept
      BY <1>2, <2>3 DEF Trailer, TrailerLine, RestKept, TypeOK
    <3>3. QED  BY <3>1, <3>2, Retyped
  <2>4. QED  BY <1>2, <2>2, <2>3 DEF Trailer
<1>3. CASE BadAttribute
  <2>1. LineKept /\ MarksKept
    BY <1>3, LinesKept, MarksSet DEF BadAttribute
  <2>2. RestKept
    BY <1>3 DEF BadAttribute, RestKept, TypeOK
  <2>3. QED  BY <2>1, <2>2, Retyped
<1>4. QED  BY <1>1, <1>2, <1>3

\* A further line moves the end of the file, and every mark stays within it.
LEMMA LineTypes ==
  ASSUME TypeOK, NEW n \in Lengths,
         (\E k \in Kinds : ReadLine(k, n)) \/ SkipLine(n)
  PROVE  TypeOK'
<1>1. n \in Nat /\ pos \in Nat /\ pos' = pos + n /\ pos' \in Nat
  BY LengthsAssumption DEF ReadLine, SkipLine, TypeOK
<1>2. 0..pos \subseteq 0..pos'
  BY <1>1
<1>3. /\ [begin : 0..pos, end : 0..pos] \subseteq [begin : 0..pos', end : 0..pos']
      /\ [Sections -> 0..pos] \subseteq [Sections -> 0..pos']
  BY <1>2
<1>4. page' \in Seq([begin : 0..pos', end : 0..pos'])
  <2>1. page' = page /\ page \in Seq([begin : 0..pos, end : 0..pos])
    BY DEF ReadLine, SkipLine, TypeOK, markVars
  <2>2. page \in Seq([begin : 0..pos', end : 0..pos'])
    BY <2>1, <1>3, SeqMonotonic
  <2>3. QED  BY <2>1, <2>2
<1>5. begins' \in [Sections -> 0..pos'] /\ ends' \in [Sections -> 0..pos']
  BY <1>3 DEF ReadLine, SkipLine, TypeOK, markVars
<1>6. line' \in [kind : Kinds \cup {"none"}, start : 0..pos', end : 0..pos']
  <2>1. CASE \E k \in Kinds : ReadLine(k, n)
    BY <1>1, <2>1 DEF ReadLine
  <2>2. CASE SkipLine(n)
    BY <1>1, <1>2, <2>2 DEF SkipLine, TypeOK
  <2>3. QED  BY <2>1, <2>2
<1>7. /\ section' \in ScanSections /\ id' \in Ids /\ open' \in [Blocks -> Int]
      /\ preview' \in {"NOPREVIEW", "EPSI", "DOSEPS"}
      /\ endComments' \in BOOLEAN /\ fixed' \in BOOLEAN /\ ignored' \in BOOLEAN
  BY DEF ReadLine, SkipLine, TypeOK, Ids
<1>8. QED  BY <1>1, <1>4, <1>5, <1>6, <1>7 DEF TypeOK

\* dsc_fixup keeps the types.
LEMMA FixupTypes == TypeOK /\ Fixup => TypeOK'
<1> SUFFICES ASSUME TypeOK, Fixup PROVE TypeOK'
  OBVIOUS
<1>1. /\ Len(page) \in Nat /\ page \in [1..Len(page) -> Page]
      /\ Parts \in Nat /\ 1..5 \subseteq 1..Parts
      /\ \A i \in 1..Len(page) : 5 + i \in 1..Parts
  BY PageTable DEF Parts
<1>2. ends' \in [Sections -> Marks]
  <2>1. ASSUME NEW s \in Sections, s # "trailer"
        PROVE  Join(CHOOSE k \in 1..5 : Before[k] = s) \in Marks
    <3>1. (CHOOSE k \in 1..5 : Before[k] = s) \in 1..5
      BY <2>1, BeforeIs
    <3>2. QED  BY <1>1, <3>1, JoinType
  <2>2. \A s \in Sections : ends[s] \in Marks
    BY DEF TypeOK, Marks
  <2>3. QED  BY <2>1, <2>2 DEF Fixup
<1>3. page' \in Seq(Page)
  <2>1. \A i \in 1..Len(page) : [page[i] EXCEPT !.end = Join(5 + i)] \in Page
    <3>1. \A i \in 1..Len(page) : page[i] \in Page /\ Join(5 + i) \in Marks
      BY <1>1, JoinType
    <3>2. QED  BY <3>1 DEF Page
  <2>2. [i \in 1..Len(page) |-> [page[i] EXCEPT !.end = Join(5 + i)]]
          \in [1..Len(page) -> Page]
    BY <2>1
  <2>3. QED  BY <1>1, <2>2, SeqDef DEF Fixup
<1>4. LineKept /\ MarksKept /\ RestKept
  BY <1>2, <1>3 DEF Fixup, LineKept, MarksKept, RestKept, TypeOK, lineVars, Marks
<1>5. QED  BY <1>4, Retyped

\* Every step keeps the types.
LEMMA TypeStep == TypeOK /\ [Next]_vars => TypeOK'
<1> SUFFICES ASSUME TypeOK, [Next]_vars PROVE TypeOK'
  OBVIOUS
<1>1. CASE Next
  <2>1. CASE \E k \in Kinds, n \in Lengths : ReadLine(k, n)
    BY <2>1, LineTypes
  <2>2. CASE \E n \in Lengths : SkipLine(n)
    BY <2>2, LineTypes
  <2>3. CASE Scan
    BY <2>3, SectionTypes, PagesTypes, TrailerTypes DEF Scan
  <2>4. CASE Fixup
    BY <2>4, FixupTypes
  <2>5. QED  BY <1>1, <2>1, <2>2, <2>3, <2>4 DEF Next
<1>2. CASE UNCHANGED vars
  BY <1>2 DEF vars, lineVars, markVars, TypeOK
<1>3. QED  BY <1>1, <1>2

\* The types hold when dsc_scan_type has read the first line.
LEMMA InitTypes == Init => TypeOK
<1> SUFFICES ASSUME Init PROVE TypeOK
  OBVIOUS
<1>1. pos \in Nat /\ 0 \in 0..pos
  BY LengthsAssumption DEF Init
<1>2. page \in Seq([begin : 0..pos, end : 0..pos])
  BY EmptySeq DEF Init
<1>3. begins \in [Sections -> 0..pos] /\ ends \in [Sections -> 0..pos]
  BY <1>1 DEF Init
<1>4. line \in [kind : Kinds \cup {"none"}, start : 0..pos, end : 0..pos]
  BY <1>1 DEF Init, NoLine
<1>5. open \in [Blocks -> Int]
  BY DEF Init, NoneOpen
<1>6. /\ section \in ScanSections /\ id \in Ids
      /\ preview \in {"NOPREVIEW", "EPSI", "DOSEPS"}
      /\ endComments \in BOOLEAN /\ fixed \in BOOLEAN /\ ignored \in BOOLEAN
  BY DEF Init, ScanSections, Ids
<1>7. QED  BY <1>1, <1>2, <1>3, <1>4, <1>5, <1>6 DEF TypeOK

\* Whatever the lines, their order and the answers of the error function: every
\* begin and end that dscparse.cpp records is an offset within the file that was
\* read, and the scan stays in one of its sections.
THEOREM TypeCorrect == Spec => []TypeOK
<1>1. QED  BY InitTypes, TypeStep, PTL DEF Spec

\* Every scanner that leaves the prolog, the setup or the pages resets the counters.
LEMMA BlocksStep == TypeOK /\ BlocksClosed /\ [Next]_vars => BlocksClosed'
<1> SUFFICES ASSUME TypeOK, BlocksClosed, [Next]_vars PROVE BlocksClosed'
  OBVIOUS
<1> USE DEF BlocksClosed
<1>1. CASE \E k \in Kinds, n \in Lengths : ReadLine(k, n)
  BY <1>1 DEF ReadLine, NoneOpen
<1>2. CASE \E n \in Lengths : SkipLine(n)
  BY <1>2 DEF SkipLine, NoneOpen
<1>3. CASE BadAttribute
  BY <1>3 DEF BadAttribute, NoneOpen
<1>4. CASE Comments \/ PrePreview \/ Preview \/ PreDefaults \/ Defaults
  BY <1>4 DEF Comments, PrePreview, Preview, PreDefaults, Defaults, Opens, NoneOpen
<1>5. CASE PreProlog
  BY <1>5 DEF PreProlog, Opens, CheckMatch, NoneOpen
<1>6. CASE Prolog
  BY <1>6 DEF Prolog, CheckMatch, NoneOpen
<1>7. CASE PreSetup \/ PrePages
  BY <1>7 DEF PreSetup, PrePages, Opens, NoneOpen
<1>8. CASE Setup
  BY <1>8 DEF Setup, CheckMatch, NoneOpen
<1>9. CASE Pages
  BY <1>9 DEF Pages, FirstPage, NextPage, PageTrailer, PageEof, PageLine, CheckMatch, NoneOpen
<1>10. CASE PreTrailer \/ Trailer
  <2>1. section' \in {section, "trailer", "pre_pages"} /\ UNCHANGED open
    BY <1>10, ResponsesAssumption DEF PreTrailer, Trailer, Opens, TrailerPage, TrailerLine
  <2>2. QED  BY <1>10, <2>1 DEF PreTrailer, Trailer, NoneOpen
<1>11. CASE Fixup
  BY <1>11 DEF Fixup, NoneOpen
<1>12. CASE UNCHANGED vars
  BY <1>12 DEF vars, NoneOpen
<1>13. QED
  BY <1>1, <1>2, <1>3, <1>4, <1>5, <1>6, <1>7, <1>8, <1>9, <1>10, <1>11, <1>12
  DEF Next, Scan

\* dsc_check_match is called on every way out of a section that counts blocks:
\* outside of these sections no Font, Feature, Resource or ProcSet is open.
THEOREM BlocksStayClosed == Spec => []BlocksClosed
<1>1. Init => BlocksClosed
  BY DEF Init, BlocksClosed
<1>2. QED  BY <1>1, BlocksStep, TypeCorrect, PTL DEF Spec

\* GSCreator is told to stop only by scanners of the preview or later, and
\* no scanner goes back to the header.
StopsLate == endComments => section \notin {"comments", "pre_preview"}

\* No step makes the reader stop while the header is scanned.
LEMMA StopStep == StopsLate /\ [Next]_vars => StopsLate'
<1> SUFFICES ASSUME StopsLate, [Next]_vars PROVE StopsLate'
  OBVIOUS
<1> USE DEF StopsLate, Consume, Propagate, NotDsc, lineVars, EndsComments
<1>1. CASE \E k \in Kinds, n \in Lengths : ReadLine(k, n)
  BY <1>1 DEF ReadLine
<1>2. CASE \E n \in Lengths : SkipLine(n)
  BY <1>2 DEF SkipLine
<1>3. CASE BadAttribute
  BY <1>3 DEF BadAttribute
<1>4. CASE Comments
  BY <1>4 DEF Comments
<1>5. CASE PrePreview
  BY <1>5 DEF PrePreview, Opens
<1>6. CASE Preview \/ PreDefaults \/ Defaults
  BY <1>6 DEF Preview, PreDefaults, Defaults, Opens
<1>7. CASE PreProlog \/ Prolog
  BY <1>7 DEF PreProlog, Prolog, Opens, CheckMatch
<1>8. CASE PreSetup \/ Setup \/ PrePages
  BY <1>8 DEF PreSetup, Setup, PrePages, Opens, CheckMatch
<1>9. CASE Pages
  <2>1. section = "pages" /\ section' \in {"pages", "pre_trailer"}
    BY <1>9 DEF Pages, FirstPage, NextPage, PageTrailer, PageEof, PageLine
  <2>2. QED  BY <2>1
<1>10. CASE PreTrailer \/ Trailer
  <2>1. section' \in {"trailer", "pre_pages"}
    BY <1>10, ResponsesAssumption DEF PreTrailer, Trailer, Opens, TrailerPage, TrailerLine
  <2>2. QED  BY <2>1
<1>11. CASE Fixup
  BY <1>11 DEF Fixup
<1>12. CASE UNCHANGED vars
  BY <1>12 DEF vars
<1>13. QED
  BY <1>1, <1>2, <1>3, <1>4, <1>5, <1>6, <1>7, <1>8, <1>9, <1>10, <1>11, <1>12
  DEF Next, Scan

\* Only the scanners of the header and of what follows it touch the preview.
LEMMA PreviewKept ==
  ASSUME TypeOK, StopsLate, endComments, Next
  PROVE  UNCHANGED <<preview, begins["preview"]>>
<1>1. section \notin {"comments", "pre_preview"}
  BY DEF StopsLate
<1>2. /\ begins \in [Sections -> Marks] /\ "preview" \in Sections
      /\ \A s \in {"defaults", "prolog", "setup", "trailer"} :
           Opens(s) => begins'["preview"] = begins["preview"]
  BY DEF TypeOK, Marks, Sections, Opens
<1> USE DEF markVars, SetEnd
<1>3. CASE \E k \in Kinds, n \in Lengths : ReadLine(k, n)
  BY <1>3 DEF ReadLine
<1>4. CASE \E n \in Lengths : SkipLine(n)
  BY <1>4 DEF SkipLine
<1>5. CASE BadAttribute
  BY <1>5 DEF BadAttribute
<1>6. CASE Comments \/ PrePreview
  BY <1>1, <1>6 DEF Comments, PrePreview
<1>7. CASE Preview \/ PreDefaults \/ Defaults
  BY <1>2, <1>7 DEF Preview, PreDefaults, Defaults
<1>8. CASE PreProlog \/ Prolog
  BY <1>2, <1>8 DEF PreProlog, Prolog
<1>9. CASE PreSetup \/ Setup \/ PrePages
  BY <1>2, <1>9 DEF PreSetup, Setup, PrePages
<1>10. CASE Pages
  BY <1>10 DEF Pages
<1>11. CASE PreTrailer
  BY <1>2, <1>11 DEF PreTrailer
<1>12. CASE Trailer
  <2>1. CASE TrailerPage
    BY <1>12, <2>1, ResponsesAssumption DEF Trailer, TrailerPage
  <2>2. CASE TrailerLine
    BY <1>2, <1>12, <2>2 DEF Trailer, TrailerLine
  <2>3. QED  BY <1>12, <2>1, <2>2 DEF Trailer
<1>13. CASE Fixup
  BY <1>13 DEF Fixup
<1>14. QED
  BY <1>3, <1>4, <1>5, <1>6, <1>7, <1>8, <1>9, <1>10, <1>11, <1>12, <1>13 DEF Next, Scan

\* GSCreator::comment may stop the reading at EndPreview, BeginProlog or Page:
\* no line after that changes whether and where dscparse.cpp finds a preview.
THEOREM PreviewIsSettled == Spec => PreviewSettled
<1>1. Init => StopsLate
  BY DEF Init, StopsLate
<1>2. TypeOK /\ StopsLate /\ [Next]_vars
      => [endComments => UNCHANGED <<preview, begins["preview"]>>]_vars
  BY PreviewKept
<1>3. QED  BY <1>1, <1>2, StopStep, TypeCorrect, PTL DEF Spec, PreviewSettled

\* Without an error function every question is answered CANCEL.
NoErrorFunction == Responses = {"CANCEL"}

\* Every step into the pages has a page or the line that makes one.
LEMMA PageExistsStep ==
  ASSUME NoErrorFunction, TypeOK, PageExists, [Next]_vars
  PROVE  PageExists'
<1> USE DEF PageExists, Is, Idle, NoLine
<1>1. Answers(TRUE) = {"CANCEL"} /\ \A c \in BOOLEAN : Answers(c) = {"CANCEL"}
  BY DEF NoErrorFunction, Answers
<1>2. /\ Len(page) \in Nat /\ (page = <<>> <=> Len(page) = 0)
      /\ \A w \in Marks : Len(PageEndsAt(w)) = Len(page) /\ PageEndsAt(w) \in Seq(Page)
  BY PageTable, PageEndsType
<1>3. \A closed \in Seq(Page) :
        Append(closed, [begin |-> START, end |-> START]) # <<>>
  <2>1. [begin |-> START, end |-> START] \in Page
    BY LineMarks DEF Page
  <2>2. QED  BY <2>1, AppendProperties
<1>4. \A w \in Marks : page # <<>> => PageEndsAt(w) # <<>>
  BY <1>2, EmptySeq
<1>5. CASE \E k \in Kinds, n \in Lengths : ReadLine(k, n)
  BY <1>5, SpecialKinds DEF ReadLine, markVars
<1>6. CASE \E n \in Lengths : SkipLine(n)
  BY <1>6 DEF SkipLine, markVars
<1>7. CASE BadAttribute
  BY <1>7 DEF BadAttribute, NoErrorFunction
<1>8. CASE \/ Comments \/ PrePreview \/ Preview \/ PreDefaults \/ Defaults
           \/ PreProlog \/ Prolog \/ PreSetup \/ Setup
  <2>1. section' # "pages"
    BY <1>8 DEF Comments, PrePreview, Preview, PreDefaults, Defaults, PreProlog, Prolog,
                PreSetup, Setup, Opens
  <2>2. QED  BY <2>1
<1>9. CASE PrePages
  BY <1>9 DEF PrePages, Propagate, lineVars
<1>10. CASE Pages
  <2>1. START \in Marks /\ END \in Marks /\ page \in Seq(Page)
    BY LineMarks, PageTable
  <2>2. CASE FirstPage
    BY <1>1, <1>3, <2>1, <2>2 DEF FirstPage, ParsePage
  <2>3. CASE NextPage
    BY <1>1, <1>2, <1>3, <2>1, <2>3 DEF NextPage, ParsePage, Unmatched
  <2>4. CASE PageTrailer
    BY <2>4 DEF PageTrailer
  <2>5. CASE PageEof \/ PageLine
    BY <1>4, <1>10, <2>1, <2>5 DEF PageEof, PageLine, Pages
  <2>6. QED  BY <1>10, <2>2, <2>3, <2>4, <2>5 DEF Pages
<1>11. CASE PreTrailer \/ Trailer
  <2>1. section' # "pages"
    BY <1>11, ResponsesAssumption DEF PreTrailer, Trailer, Opens, TrailerPage, TrailerLine
  <2>2. QED  BY <2>1
<1>12. CASE Fixup
  <2>1. page # <<>> => page' # <<>>
    <3>1. page # <<>> => page'[1] \in {page'[1]} /\ 1 \in DOMAIN page'
      BY <1>12, PageTable DEF Fixup
    <3>2. QED  BY <3>1
  <2>2. QED  BY <1>12, <2>1 DEF Fixup, lineVars
<1>13. CASE UNCHANGED vars
  BY <1>13 DEF vars, markVars, lineVars
<1>14. QED
  BY <1>5, <1>6, <1>7, <1>8, <1>9, <1>10, <1>11, <1>12, <1>13 DEF Next, Scan

\* Without an error function dsc_scan_page never extends page[-1]: the pages are
\* entered by a %%Page line only, which adds a page.
THEOREM PagesExist == NoErrorFunction /\ Spec => []PageExists
<1>1. Init => PageExists
  BY DEF Init, PageExists
<1>2. NoErrorFunction /\ TypeOK /\ PageExists /\ [Next]_vars => PageExists'
  BY PageExistsStep
<1>3. NoErrorFunction => NoErrorFunction'
  BY DEF NoErrorFunction
<1>4. QED  BY <1>1, <1>2, <1>3, TypeCorrect, PTL DEF Spec
====
