---------------------------- MODULE DscOrderProofs ----------------------------
(***************************************************************************)
(* The order of the sections: Ordered and Joined for every document, if    *)
(* there is no error function (as in GSCreator).                           *)
(*                                                                         *)
(* The invariant Scanned holds until dsc_fixup: nothing recorded lies      *)
(* beyond the line that is scanned (Limit), what the scan has not reached  *)
(* has not begun (Reached), a section that has begun is not empty, and     *)
(* what has begun follows all that has ended.  A scanner before the pages  *)
(* leaves the marks alone (Stays), extends a section (Extends) or opens    *)
(* one (Begins).                                                           *)
(*                                                                         *)
(* For dsc_fixup, Scanned says of the sections and pages as one sequence   *)
(* of parts (PartsOK) that only the last of those that have begun can be   *)
(* empty.  Hence the end of a part moves to the next part that has begun   *)
(* and no further (JoinsNext).  The order is stated for all pairs of       *)
(* pages, not only for neighbours, so that no induction over the pages is  *)
(* needed.                                                                 *)
(***************************************************************************)
EXTENDS DscSectionsProofs

\* begin and end of a section before the pages, by its place in the file
HeadBegin(i) == begins[Before[i]]
HeadEnd(i) == ends[Before[i]]
\* What was recorded so far lies before this offset.
Limit == IF line = NoLine THEN pos ELSE START

\* How many of the sections before the pages the scan has reached.
Reached(s) == IF s \in {"comments", "pre_preview"} THEN 1
              ELSE IF s \in {"preview", "pre_defaults"} THEN 2
              ELSE IF s \in {"defaults", "pre_prolog"} THEN 3
              ELSE IF s \in {"prolog", "pre_setup"} THEN 4
              ELSE 5

\* A line is not empty and ends where the next one will begin.
LineOK == /\ pos > 0
          /\ line # NoLine => 0 < START /\ START < END /\ END = pos

\* The section that is scanned has begun.
SectionOpen == section \in {"preview", "defaults", "prolog", "setup"} => begins[section] # 0

\* The sections before the pages.
HeadOK ==
  /\ begins["comments"] = 0
  /\ \A i \in 1..5 : HeadBegin(i) <= HeadEnd(i) /\ HeadEnd(i) <= Limit
  /\ \A i \in 2..5 : /\ HeadEnd(i) # 0 => HeadBegin(i) # 0
                     /\ HeadBegin(i) # 0 => HeadBegin(i) < HeadEnd(i)
  /\ \A i \in 1..5 : i > Reached(section) => HeadEnd(i) = 0
  /\ \A i, j \in 1..5 : i < j /\ HeadBegin(j) # 0 => HeadEnd(i) <= HeadBegin(j)

\* The pages: only the last one can be empty.
PagesOK ==
  /\ page # <<>> => section \in {"pages", "pre_trailer", "trailer"}
  /\ \A i \in 1..Len(page) :
       /\ 0 < page[i].begin /\ page[i].begin < Limit
       /\ page[i].begin <= page[i].end /\ page[i].end <= Limit
       /\ i < Len(page) => page[i].begin < page[i].end
       /\ \A j \in 1..5 : HeadEnd(j) <= page[i].begin
  /\ \A i, j \in 1..Len(page) :
       /\ i < j => page[i].end <= page[j].begin
       /\ j = i + 1 => page[i].end = page[j].begin

\* The trailer.
TrailerOK ==
  begins["trailer"] # 0 =>
    /\ section = "trailer" /\ begins["trailer"] <= Limit
    /\ \A i \in 1..5 : HeadEnd(i) <= begins["trailer"]
    /\ \A i \in 1..Len(page) : /\ page[i].end <= begins["trailer"]
                               /\ page[i].begin < begins["trailer"]

Scanned == LineOK /\ SectionOpen /\ HeadOK /\ PagesOK /\ TrailerOK
\* After dsc_fixup nothing more is scanned.
Fixed == line = NoLine /\ Ordered /\ Joined
OrderInv == TypeOK /\ (IF fixed THEN Fixed ELSE Scanned)

-----------------------------------------------------------------------------
\* The offsets are naturals.
LEMMA Numbers ==
  ASSUME TypeOK
  PROVE  /\ \A i \in 1..5 : HeadBegin(i) \in Nat /\ HeadEnd(i) \in Nat
         /\ begins["trailer"] \in Nat /\ ends["trailer"] \in Nat
         /\ \A s \in Sections : begins[s] \in Nat
         /\ \A i \in 1..Len(page) : page[i].begin \in Nat /\ page[i].end \in Nat
         /\ START \in Nat /\ END \in Nat /\ pos \in Nat /\ Limit \in Nat
         /\ Len(page) \in Nat /\ Reached(section) \in 1..5
<1>1. pos \in Nat /\ Marks \subseteq Nat /\ Len(page) \in Nat
  BY PageTable DEF Marks
<1>2. \A s \in Sections : begins[s] \in Nat /\ ends[s] \in Nat
  BY <1>1 DEF TypeOK, Marks
<1>3. \A i \in 1..5 : HeadBegin(i) \in Nat /\ HeadEnd(i) \in Nat
  BY <1>2, BeforeIs DEF HeadBegin, HeadEnd
<1>4. \A i \in 1..Len(page) : page[i].begin \in Nat /\ page[i].end \in Nat
  BY <1>1, PageTable DEF Page
<1>5. START \in Nat /\ END \in Nat /\ Limit \in Nat
  BY <1>1, LineMarks DEF Limit
<1>6. QED  BY <1>1, <1>2, <1>3, <1>4, <1>5 DEF Sections, Reached

\* What an assignment to one section leaves of the others.
LEMMA SetAt ==
  ASSUME TypeOK, NEW i \in 1..5, NEW w
  PROVE  /\ ends' = [ends EXCEPT ![Before[i]] = w] =>
              \A j \in 1..5 : HeadEnd(j)' = IF j = i THEN w ELSE HeadEnd(j)
         /\ begins' = [begins EXCEPT ![Before[i]] = w] =>
              /\ \A j \in 1..5 : HeadBegin(j)' = IF j = i THEN w ELSE HeadBegin(j)
              /\ begins'["trailer"] = begins["trailer"]
              /\ begins'[Before[i]] = w
<1>1. \A j \in 1..5 : Before[j] = Before[i] => j = i
  BY BeforeIs
<1>2. \A j \in 1..5 : Before[j] \in Sections /\ Before[j] # "trailer"
  BY BeforeIs
<1>3. begins \in [Sections -> Marks] /\ ends \in [Sections -> Marks] /\ "trailer" \in Sections
  BY DEF TypeOK, Marks, Sections
<1>4. QED  BY <1>1, <1>2, <1>3 DEF HeadBegin, HeadEnd

\* The limit after a line was consumed, and while it is passed on.
LEMMA Limits ==
  ASSUME TypeOK, LineOK, line # NoLine
  PROVE  /\ Limit = START /\ 0 < START /\ START < END
         /\ \A i \in Ids : Consume(i) => Limit' = END /\ LineOK'
         /\ Propagate => Limit' = START /\ LineOK'
BY DEF Limit, LineOK, Consume, Propagate, lineVars, START, END

\* Limit and Reached are naturals before and after a step.
LEMMA Ranks ==
  ASSUME TypeOK, TypeOK'
  PROVE  /\ Limit \in Nat /\ Limit' \in Nat
         /\ Reached(section) \in Nat /\ Reached(section') \in Nat
<1>1. Reached(section) \in Nat /\ Reached(section') \in Nat
  BY DEF Reached
<1>2. Limit' \in Nat
  BY DEF TypeOK, Limit, START
<1>3. QED  BY <1>1, <1>2, Numbers

\* A step that leaves the sections alone keeps their order.
LEMMA HeadKept ==
  ASSUME TypeOK, TypeOK', HeadOK, UNCHANGED <<begins, ends>>,
         Limit <= Limit', Reached(section) <= Reached(section')
  PROVE  HeadOK'
<1>1. \A i \in 1..5 : HeadBegin(i)' = HeadBegin(i) /\ HeadEnd(i)' = HeadEnd(i)
  BY DEF HeadBegin, HeadEnd
<1>2. Limit \in Nat /\ Limit' \in Nat /\ Reached(section) \in Nat /\ Reached(section') \in Nat
  BY Ranks
<1>3. \A i \in 1..5 : HeadBegin(i) \in Nat /\ HeadEnd(i) \in Nat
  BY Numbers
<1>4. QED  BY <1>1, <1>2, <1>3 DEF HeadOK

\* So does one that extends the last section that has begun.
LEMMA HeadExtended ==
  ASSUME TypeOK, TypeOK', HeadOK, NEW i \in 1..5, NEW w \in Nat,
         ends' = [ends EXCEPT ![Before[i]] = w], UNCHANGED begins,
         i = 1 \/ HeadBegin(i) # 0, \A j \in 1..5 : j > i => HeadEnd(j) = 0,
         Limit <= w, w <= Limit', i <= Reached(section'), Reached(section) <= Reached(section')
  PROVE  HeadOK'
<1>1. \A j \in 1..5 : HeadBegin(j)' = HeadBegin(j)
  BY DEF HeadBegin
<1>2. \A j \in 1..5 : HeadEnd(j)' = IF j = i THEN w ELSE HeadEnd(j)
  BY SetAt
<1>3. Limit \in Nat /\ Limit' \in Nat /\ Reached(section) \in Nat /\ Reached(section') \in Nat
  BY Ranks
<1>4. \A j \in 1..5 : HeadBegin(j) \in Nat /\ HeadEnd(j) \in Nat
  BY Numbers
<1>5. \A j \in 1..5 : j > i => HeadBegin(j) = 0
  BY <1>4 DEF HeadOK
<1>6. QED  BY <1>1, <1>2, <1>3, <1>4, <1>5 DEF HeadOK

\* So does one that opens the next section at the line.
LEMMA HeadOpened ==
  ASSUME TypeOK, TypeOK', LineOK, HeadOK, line # NoLine, NEW i \in 2..5,
         begins' = [begins EXCEPT ![Before[i]] = START],
         ends' = [ends EXCEPT ![Before[i]] = END],
         Reached(section) < i, i <= Reached(section'), Limit' = END
  PROVE  HeadOK' /\ begins'[Before[i]] # 0
<1>1. i \in 1..5 /\ Limit = START /\ 0 < START /\ START < END
  BY Limits
<1>2. \A j \in 1..5 : HeadEnd(j)' = IF j = i THEN END ELSE HeadEnd(j)
  BY <1>1, SetAt
<1>3. \A j \in 1..5 : HeadBegin(j)' = IF j = i THEN START ELSE HeadBegin(j)
  BY <1>1, SetAt
<1>4. START \in Nat /\ END \in Nat /\ Reached(section) \in Nat /\ Reached(section') \in Nat
  BY Numbers DEF Reached
<1>5. \A j \in 1..5 : HeadBegin(j) \in Nat /\ HeadEnd(j) \in Nat
  BY Numbers
<1>6. \A j \in 1..5 : j >= i => HeadBegin(j) = 0 /\ HeadEnd(j) = 0
  BY <1>4, <1>5 DEF HeadOK
<1>7. begins'["comments"] = 0 /\ begins'[Before[i]] # 0
  <2>1. HeadBegin(1)' = begins'["comments"] /\ HeadBegin(1) = begins["comments"]
    BY BeforeIs DEF HeadBegin
  <2>2. begins'[Before[i]] = START
    BY <1>1, SetAt
  <2>3. QED  BY <1>1, <1>3, <2>1, <2>2, <1>4 DEF HeadOK
<1>8. \A j \in 1..5 : HeadBegin(j)' <= HeadEnd(j)' /\ HeadEnd(j)' <= Limit'
  BY <1>1, <1>2, <1>3, <1>4, <1>5 DEF HeadOK
<1>9. \A j \in 2..5 : /\ HeadEnd(j)' # 0 => HeadBegin(j)' # 0
                      /\ HeadBegin(j)' # 0 => HeadBegin(j)' < HeadEnd(j)'
  BY <1>1, <1>2, <1>3, <1>4, <1>5 DEF HeadOK
<1>10. \A j \in 1..5 : j > Reached(section') => HeadEnd(j)' = 0
  BY <1>2, <1>4, <1>6
<1>11. \A h, j \in 1..5 : h < j /\ HeadBegin(j)' # 0 => HeadEnd(h)' <= HeadBegin(j)'
  BY <1>1, <1>2, <1>3, <1>4, <1>5, <1>6 DEF HeadOK
<1>12. QED
  BY <1>7, <1>8, <1>9, <1>10, <1>11 DEF HeadOK

\* The scanners before the pages.
Early == section \notin {"pages", "pre_trailer", "trailer"}

\* There is no page and no trailer before the pages.
LEMMA EarlyMarks ==
  ASSUME TypeOK, Scanned, Early
  PROVE  page = <<>> /\ begins["trailer"] = 0
BY DEF Scanned, PagesOK, TrailerOK, Early

\* Without a page and a trailer their parts of the invariant are void.
LEMMA EarlyRest ==
  ASSUME TypeOK', page' = <<>>, begins'["trailer"] = 0
  PROVE  PagesOK' /\ TrailerOK'
<1>1. Len(page') = 0
  BY EmptySeq
<1>2. QED  BY <1>1 DEF PagesOK, TrailerOK

\* What a scanner before the pages does: nothing to the marks, extend the
\* section it scans, or open a section.
Stays == UNCHANGED markVars /\ Limit <= Limit' /\ Reached(section) <= Reached(section')
Extends(i) == \E w \in {START, END} :
                /\ SetEnd(Before[i], w) /\ w <= Limit'
                /\ i <= Reached(section') /\ Reached(section) <= Reached(section')
Begins(i) == /\ begins' = [begins EXCEPT ![Before[i]] = START]
             /\ ends' = [ends EXCEPT ![Before[i]] = END]
             /\ UNCHANGED page /\ Limit' = END
             /\ Reached(section) < i /\ i <= Reached(section')
             /\ section' \notin Sections \/ section' = Before[i]

\* Each of the three keeps the invariant.
LEMMA StaysKeeps ==
  ASSUME TypeOK, TypeOK', Scanned, Early, Stays, LineOK',
         section' = section \/ section' \notin Sections
  PROVE  Scanned'
<1>1. HeadOK'
  BY HeadKept DEF Stays, Scanned, markVars
<1>2. PagesOK' /\ TrailerOK'
  BY EarlyMarks, EarlyRest DEF Stays, markVars
<1>3. SectionOpen'
  BY DEF Stays, markVars, Scanned, SectionOpen, Sections
<1>4. QED  BY <1>1, <1>2, <1>3 DEF Scanned

\* An extended section: it is the last that has begun.
LEMMA ExtendsKeeps ==
  ASSUME TypeOK, TypeOK', Scanned, Early, line # NoLine, LineOK', NEW i \in 1..5, Extends(i),
         i = 1 \/ HeadBegin(i) # 0, \A j \in 1..5 : j > i => HeadEnd(j) = 0,
         section' = section \/ section' \notin Sections
  PROVE  Scanned'
<1>1. PICK w \in {START, END} :
        /\ SetEnd(Before[i], w) /\ w <= Limit'
        /\ i <= Reached(section') /\ Reached(section) <= Reached(section')
  BY DEF Extends
<1>2. Limit <= w /\ w \in Nat
  <2>1. Limit = START /\ START < END
    BY Limits DEF Scanned
  <2>2. START \in Nat /\ END \in Nat
    BY Numbers
  <2>3. QED  BY <1>1, <2>1, <2>2
<1>3. HeadOK'
  BY <1>1, <1>2, HeadExtended DEF Scanned, SetEnd
<1>4. PagesOK' /\ TrailerOK'
  BY <1>1, EarlyMarks, EarlyRest DEF SetEnd
<1>5. SectionOpen'
  BY <1>1 DEF SetEnd, Scanned, SectionOpen, Sections
<1>6. QED  BY <1>3, <1>4, <1>5 DEF Scanned

\* A section that begins: none after it has.
LEMMA BeginsKeeps ==
  ASSUME TypeOK, TypeOK', Scanned, Early, line # NoLine, LineOK', NEW i \in 2..5, Begins(i)
  PROVE  Scanned'
<1>1. HeadOK' /\ begins'[Before[i]] # 0
  BY HeadOpened DEF Scanned, Begins
<1>2. begins'["trailer"] = 0
  <2>1. i \in 1..5
    OBVIOUS
  <2>2. QED  BY <2>1, EarlyMarks, SetAt DEF Begins
<1>3. PagesOK' /\ TrailerOK'
  BY <1>2, EarlyMarks, EarlyRest DEF Begins
<1>4. SectionOpen'
  BY <1>1 DEF Begins, SectionOpen, Sections
<1>5. QED  BY <1>1, <1>3, <1>4 DEF Scanned

\* Code before the first page belongs to the last section that has ended.
LEMMA LastEndedGreatest ==
  \E i \in 1..5 : /\ LastEnded = Before[i] /\ (i = 1 \/ HeadEnd(i) # 0)
                 /\ \A j \in 1..5 : j > i => HeadEnd(j) = 0
<1> DEFINE seen == {i \in 1..5 : i = 1 \/ ends[Before[i]] # 0}
           last == CHOOSE i \in seen : \A j \in seen : j <= i
<1>1. seen \in SUBSET (0..5) /\ 1 \in seen /\ seen \subseteq 1..5
  OBVIOUS
<1>2. \E i \in seen : \A j \in seen : j <= i
  <2> HIDE DEF seen
  <2> QED BY <1>1, Greatest
<1>3. last \in seen /\ \A j \in seen : j <= last
  <2> HIDE DEF seen
  <2> QED BY <1>2
<1>4. LastEnded = Before[last]
  BY DEF LastEnded
<1>5. last \in 1..5 /\ (last = 1 \/ HeadEnd(last) # 0)
  <2> HIDE DEF last
  <2> QED BY <1>3 DEF HeadEnd
<1>6. \A j \in 1..5 : j > last => HeadEnd(j) = 0
  <2> HIDE DEF last
  <2> QED BY <1>3 DEF HeadEnd
<1>7. QED
  <2> HIDE DEF last
  <2> QED BY <1>4, <1>5, <1>6

\* The questions are all answered CANCEL: no scan is given up.
LEMMA Cancels ==
  ASSUME NoErrorFunction, NEW ACTION A
  PROVE  /\ CheckMatch(A) => A /\ open' = NoneOpen
         /\ ~BadAttribute
BY DEF NoErrorFunction, CheckMatch, Answers, BadAttribute

\* Every scanner before the pages keeps the invariant.
LEMMA EarlyStep ==
  ASSUME NoErrorFunction, TypeOK, TypeOK', Scanned,
         \/ Comments \/ PrePreview \/ Preview \/ PreDefaults \/ Defaults
         \/ PreProlog \/ Prolog \/ PreSetup \/ Setup \/ PrePages
  PROVE  Scanned'
<1>1. line # NoLine
  BY DEF Comments, PrePreview, Preview, PreDefaults, Defaults, PreProlog, Prolog, PreSetup,
         Setup, PrePages
<1>2. Early
  BY DEF Early, Comments, PrePreview, Preview, PreDefaults, Defaults, PreProlog, Prolog,
         PreSetup, Setup, PrePages
<1>3. /\ Limit = START /\ START < END /\ START \in Nat /\ END \in Nat
      /\ \A i \in Ids : Consume(i) => Limit' = END /\ LineOK'
      /\ Propagate => Limit' = START /\ LineOK'
  BY <1>1, Limits, Numbers DEF Scanned
<1>4. /\ Before[1] = "comments" /\ Before[2] = "preview" /\ Before[3] = "defaults"
      /\ Before[4] = "prolog" /\ Before[5] = "setup"
  BY BeforeIs
<1>5. /\ section = "preview" => HeadBegin(2) # 0
      /\ section = "defaults" => HeadBegin(3) # 0
      /\ section = "prolog" => HeadBegin(4) # 0
      /\ section = "setup" => HeadBegin(5) # 0
  BY <1>4 DEF Scanned, SectionOpen, HeadBegin
<1>6. \A i \in 1..5 : i > Reached(section) => HeadEnd(i) = 0
  BY DEF Scanned, HeadOK
<1> USE DEF Ids, Reached, Sections
<1>7. CASE Comments
  <2>1. Extends(1) /\ LineOK'
    BY <1>3, <1>4, <1>7 DEF Comments, Extends
  <2>2. section' = section \/ section' \notin Sections
    BY <1>7 DEF Comments
  <2>3. QED  BY <1>1, <1>2, <1>6, <1>7, <2>1, <2>2, ExtendsKeeps DEF Comments
<1>8. CASE PrePreview
  <2>1. \/ Stays /\ LineOK' /\ (section' = section \/ section' \notin Sections)
        \/ Begins(2) /\ LineOK'
    BY <1>3, <1>4, <1>8 DEF PrePreview, Stays, Begins, Opens
  <2>2. QED  BY <1>1, <1>2, <2>1, StaysKeeps, BeginsKeeps
<1>9. CASE Preview
  <2>1. Extends(2) /\ LineOK'
    BY <1>3, <1>4, <1>9 DEF Preview, Extends
  <2>2. section' = section \/ section' \notin Sections
    BY <1>9 DEF Preview
  <2>3. QED  BY <1>1, <1>2, <1>5, <1>6, <1>9, <2>1, <2>2, ExtendsKeeps DEF Preview
<1>10. CASE PreDefaults
  <2>1. \/ Stays /\ LineOK' /\ (section' = section \/ section' \notin Sections)
        \/ Begins(3) /\ LineOK'
    BY <1>3, <1>4, <1>10 DEF PreDefaults, Stays, Begins, Opens
  <2>2. QED  BY <1>1, <1>2, <2>1, StaysKeeps, BeginsKeeps
<1>11. CASE Defaults
  <2>1. Extends(3) /\ LineOK'
    BY <1>3, <1>4, <1>11 DEF Defaults, Extends
  <2>2. section' = section \/ section' \notin Sections
    BY <1>11 DEF Defaults
  <2>3. QED  BY <1>1, <1>2, <1>5, <1>6, <1>11, <2>1, <2>2, ExtendsKeeps DEF Defaults
<1>12. CASE PreProlog
  <2>1. \/ Stays /\ LineOK' /\ (section' = section \/ section' \notin Sections)
        \/ Begins(4) /\ LineOK'
    BY <1>3, <1>4, <1>12, Cancels DEF PreProlog, Stays, Begins, Opens
  <2>2. QED  BY <1>1, <1>2, <2>1, StaysKeeps, BeginsKeeps
<1>13. CASE Prolog
  <2>1. Extends(4) /\ LineOK'
    BY <1>3, <1>4, <1>13, Cancels DEF Prolog, Extends
  <2>2. section' = section \/ section' \notin Sections
    BY <1>13 DEF Prolog
  <2>3. QED  BY <1>1, <1>2, <1>5, <1>6, <1>13, <2>1, <2>2, ExtendsKeeps DEF Prolog
<1>14. CASE PreSetup
  <2>1. \/ Stays /\ LineOK' /\ (section' = section \/ section' \notin Sections)
        \/ Begins(5) /\ LineOK'
    BY <1>3, <1>4, <1>14 DEF PreSetup, Stays, Begins, Opens
  <2>2. QED  BY <1>1, <1>2, <2>1, StaysKeeps, BeginsKeeps
<1>15. CASE Setup
  <2>1. Extends(5) /\ LineOK'
    BY <1>3, <1>4, <1>15, Cancels DEF Setup, Extends
  <2>2. section' = section \/ section' \notin Sections
    BY <1>15 DEF Setup
  <2>3. QED  BY <1>1, <1>2, <1>5, <1>6, <1>15, <2>1, <2>2, ExtendsKeeps DEF Setup
<1>16. CASE PrePages
  <2>1. PICK i \in 1..5 : /\ LastEnded = Before[i] /\ (i = 1 \/ HeadEnd(i) # 0)
                         /\ \A j \in 1..5 : j > i => HeadEnd(j) = 0
    BY LastEndedGreatest
  <2>2. i = 1 \/ HeadBegin(i) # 0
    BY <2>1 DEF Scanned, HeadOK
  <2>3. \/ Stays /\ LineOK' /\ (section' = section \/ section' \notin Sections)
        \/ Extends(i) /\ LineOK' /\ (section' = section \/ section' \notin Sections)
    BY <1>3, <1>4, <1>16, <2>1 DEF PrePages, Stays, Extends
  <2>4. QED  BY <1>1, <1>2, <2>1, <2>2, <2>3, StaysKeeps, ExtendsKeeps
<1>17. QED
  BY <1>7, <1>8, <1>9, <1>10, <1>11, <1>12, <1>13, <1>14, <1>15, <1>16

-----------------------------------------------------------------------------
\* The pages.

\* The last page is extended to the start of the line, or to its end.
Extended(table) ==
  \E w \in {START, END} : w <= Limit' /\ table = PageEndsAt(w)

\* The page table after the last page was extended: each page is not empty, ends
\* by the bound, and ends where the next one begins.
LEMMA ExtendedTable ==
  ASSUME TypeOK, Scanned, line # NoLine, NEW table, Extended(table), NEW bound \in Nat,
         START <= bound, \E w \in {START, END} : w <= bound /\ table = PageEndsAt(w)
  PROVE  /\ table \in Seq(Page) /\ Len(table) = Len(page)
         /\ \A i \in 1..Len(page) :
              /\ table[i].begin \in Nat /\ table[i].end \in Nat
              /\ 0 < table[i].begin /\ table[i].begin < START
              /\ table[i].begin < table[i].end /\ table[i].end <= bound
              /\ \A j \in 1..5 : HeadEnd(j) <= table[i].begin
              /\ i < Len(page) => table[i].end = page[i].end
              /\ i = Len(page) => START <= table[i].end
              /\ table[i].begin = page[i].begin
         /\ \A i, j \in 1..Len(page) :
              /\ i < j => table[i].end <= table[j].begin
              /\ j = i + 1 => table[i].end = table[j].begin
<1>1. PICK w \in {START, END} : w <= bound /\ table = PageEndsAt(w)
  OBVIOUS
<1>2. Limit = START /\ START < END /\ START \in Nat /\ END \in Nat /\ Len(page) \in Nat
  BY Limits, Numbers DEF Scanned
<1>3. w \in Marks /\ w \in Nat /\ START <= w
  BY <1>1, <1>2, LineMarks
<1>4. /\ table \in Seq(Page) /\ Len(table) = Len(page)
      /\ \A i \in 1..Len(page) :
            table[i] = IF i = Len(page) THEN [page[i] EXCEPT !.end = w] ELSE page[i]
  BY <1>1, <1>3, PageEndsType
<1>5. \A i \in 1..Len(page) : page[i] \in Page /\ page[i].begin \in Nat /\ page[i].end \in Nat
  BY PageTable, Numbers
<1>6. \A i \in 1..Len(page) :
        /\ table[i].begin = page[i].begin
        /\ table[i].end = IF i = Len(page) THEN w ELSE page[i].end
  BY <1>4, <1>5 DEF Page
<1>7. \A i \in 1..Len(page) :
        /\ 0 < page[i].begin /\ page[i].begin < START
        /\ page[i].begin <= page[i].end /\ page[i].end <= START
        /\ i < Len(page) => page[i].begin < page[i].end
        /\ \A j \in 1..5 : HeadEnd(j) <= page[i].begin
  BY <1>2 DEF Scanned, PagesOK
<1>8. \A i, j \in 1..Len(page) :
        /\ i < j => page[i].end <= page[j].begin
        /\ j = i + 1 => page[i].end = page[j].begin
  BY DEF Scanned, PagesOK
<1>9. \A i \in 1..Len(page) :
        /\ table[i].begin \in Nat /\ table[i].end \in Nat
        /\ 0 < table[i].begin /\ table[i].begin < START
        /\ table[i].begin < table[i].end /\ table[i].end <= bound
        /\ \A j \in 1..5 : HeadEnd(j) <= table[i].begin
        /\ i < Len(page) => table[i].end = page[i].end
        /\ i = Len(page) => START <= table[i].end
        /\ table[i].begin = page[i].begin
  <2> TAKE i \in 1..Len(page)
  <2>1. /\ table[i].begin = page[i].begin /\ page[i].begin \in Nat /\ page[i].end \in Nat
        /\ 0 < page[i].begin /\ page[i].begin < START /\ page[i].end <= START
        /\ \A j \in 1..5 : HeadEnd(j) <= page[i].begin
        /\ i < Len(page) => page[i].begin < page[i].end
    BY <1>5, <1>6, <1>7
  <2>2. CASE i = Len(page)
    <3>1. table[i].end = w
      BY <1>6, <2>2
    <3>2. QED  BY <1>1, <1>2, <1>3, <2>1, <2>2, <3>1
  <2>3. CASE i < Len(page)
    <3>1. table[i].end = page[i].end
      BY <1>2, <1>6, <2>3
    <3>2. QED  BY <1>2, <2>1, <2>3, <3>1
  <2>4. QED  BY <1>2, <2>2, <2>3
<1>10. \A i, j \in 1..Len(page) :
         /\ i < j => table[i].end <= table[j].begin
         /\ j = i + 1 => table[i].end = table[j].begin
  BY <1>2, <1>6, <1>8
<1>11. QED  BY <1>4, <1>9, <1>10

\* %%Page: a page is added where the last one was made to end.
LEMMA PageAdded ==
  ASSUME NoErrorFunction, TypeOK, TypeOK', Scanned, line # NoLine, section = "pages",
         UNCHANGED <<begins, section>>, UNCHANGED ends, Is("Page"),
         NEW bad \in BOOLEAN, ParsePage(PageEndsAt(START), bad)
  PROVE  PagesOK'
<1> DEFINE closed == PageEndsAt(START)
           new == [begin |-> START, end |-> START]
<1>1. /\ Limit' = END /\ START < END /\ 0 < START /\ Limit = START
      /\ START \in Nat /\ END \in Nat /\ Len(page) \in Nat /\ START \in Marks
  BY Limits, Numbers, LineMarks DEF Scanned, ParsePage, Ids
<1>2. page' = Append(closed, new)
  BY DEF NoErrorFunction, ParsePage, Answers
<1>3. Extended(closed)
  BY <1>1 DEF Extended
<1>4. closed \in Seq(Page) /\ Len(closed) = Len(page) /\ new \in Page
  BY <1>1, PageEndsType DEF Page
<1>5. /\ Len(page') = Len(page) + 1
      /\ \A i \in 1..Len(page') : page'[i] = IF i = Len(page') THEN new ELSE closed[i]
  BY <1>2, <1>4, AppendProperties
<1>6. /\ \A i \in 1..Len(page) :
           /\ closed[i].begin \in Nat /\ closed[i].end \in Nat
           /\ 0 < closed[i].begin /\ closed[i].begin < START
           /\ closed[i].begin < closed[i].end /\ closed[i].end <= START
           /\ \A j \in 1..5 : HeadEnd(j) <= closed[i].begin
           /\ i = Len(page) => START <= closed[i].end
      /\ \A i, j \in 1..Len(page) :
           /\ i < j => closed[i].end <= closed[j].begin
           /\ j = i + 1 => closed[i].end = closed[j].begin
  <2> HIDE DEF closed
  <2>1. \E w \in {START, END} : w <= START /\ closed = PageEndsAt(w)
    BY <1>1 DEF closed
  <2>2. START <= START
    BY <1>1
  <2>3. QED  BY <1>1, <1>3, <2>1, <2>2, ExtendedTable
<1> HIDE DEF closed
<1>7. \A j \in 1..5 : HeadEnd(j)' = HeadEnd(j) /\ HeadEnd(j) \in Nat /\ HeadEnd(j) <= START
  BY <1>1, Numbers DEF HeadEnd, Scanned, HeadOK
<1>8. \A i \in 1..Len(page') :
        /\ 0 < page'[i].begin /\ page'[i].begin < Limit'
        /\ page'[i].begin <= page'[i].end /\ page'[i].end <= Limit'
        /\ i < Len(page') => page'[i].begin < page'[i].end
        /\ \A j \in 1..5 : HeadEnd(j)' <= page'[i].begin
  <2> TAKE i \in 1..Len(page')
  <2>1. CASE i = Len(page')
    BY <1>1, <1>5, <1>7, <2>1
  <2>2. CASE i # Len(page')
    <3>1. i \in 1..Len(page) /\ page'[i] = closed[i]
      BY <1>1, <1>5, <2>2
    <3>2. /\ closed[i].begin \in Nat /\ closed[i].end \in Nat
          /\ 0 < closed[i].begin /\ closed[i].begin < START
          /\ closed[i].begin < closed[i].end /\ closed[i].end <= START
      BY <1>6, <3>1
    <3>3. \A j \in 1..5 : HeadEnd(j)' <= page'[i].begin
      BY <1>6, <1>7, <3>1
    <3>4. page'[i].begin < END /\ page'[i].begin <= page'[i].end /\ page'[i].end <= END
      BY <1>1, <3>1, <3>2
    <3>5. QED  BY <1>1, <3>1, <3>2, <3>3, <3>4
  <2>3. QED  BY <2>1, <2>2
<1>9. \A i, j \in 1..Len(page') :
        /\ i < j => page'[i].end <= page'[j].begin
        /\ j = i + 1 => page'[i].end = page'[j].begin
  <2> TAKE i, j \in 1..Len(page')
  <2>1. CASE j = Len(page') /\ i < j
    <3>1. i \in 1..Len(page) /\ page'[i] = closed[i] /\ page'[j] = new
      BY <1>1, <1>5, <2>1
    <3>2. QED  BY <1>1, <1>5, <1>6, <2>1, <3>1
  <2>2. CASE j # Len(page') /\ i < j
    <3>1. /\ i \in 1..Len(page) /\ page'[i] = closed[i]
          /\ j \in 1..Len(page) /\ page'[j] = closed[j]
      BY <1>1, <1>5, <2>2
    <3>2. QED  BY <1>6, <3>1
  <2>3. CASE ~(i < j)
    BY <1>1, <1>5, <2>3
  <2>4. QED  BY <2>1, <2>2, <2>3
<1>10. QED  BY <1>8, <1>9 DEF PagesOK

\* Any other line: the last page now ends at the line, or before it.
LEMMA PageExtended ==
  ASSUME TypeOK, TypeOK', Scanned, line # NoLine, UNCHANGED <<begins, ends>>,
         START <= Limit', Extended(page'), section' \in {"pages", "pre_trailer"}
  PROVE  PagesOK'
<1>1. Limit' \in Nat /\ START \in Nat /\ Len(page) \in Nat
  BY Ranks, Numbers
<1>2. \A j \in 1..5 : HeadEnd(j)' = HeadEnd(j)
  BY DEF HeadEnd
<1>3. /\ Len(page') = Len(page)
      /\ \A i \in 1..Len(page) :
           /\ page'[i].begin \in Nat /\ page'[i].end \in Nat
           /\ 0 < page'[i].begin /\ page'[i].begin < START
           /\ page'[i].begin < page'[i].end /\ page'[i].end <= Limit'
           /\ \A j \in 1..5 : HeadEnd(j) <= page'[i].begin
      /\ \A i, j \in 1..Len(page) :
           /\ i < j => page'[i].end <= page'[j].begin
           /\ j = i + 1 => page'[i].end = page'[j].begin
  <2>1. \E w \in {START, END} : w <= Limit' /\ page' = PageEndsAt(w)
    BY DEF Extended
  <2>2. QED  BY <1>1, <2>1, ExtendedTable
<1>4. \A i \in 1..Len(page') :
        /\ 0 < page'[i].begin /\ page'[i].begin < Limit'
        /\ page'[i].begin <= page'[i].end /\ page'[i].end <= Limit'
        /\ i < Len(page') => page'[i].begin < page'[i].end
        /\ \A j \in 1..5 : HeadEnd(j)' <= page'[i].begin
  <2> TAKE i \in 1..Len(page')
  <2>1. /\ page'[i].begin \in Nat /\ page'[i].end \in Nat
        /\ 0 < page'[i].begin /\ page'[i].begin < START
        /\ page'[i].begin < page'[i].end /\ page'[i].end <= Limit'
    BY <1>3
  <2>2. \A j \in 1..5 : HeadEnd(j)' <= page'[i].begin
    BY <1>2, <1>3
  <2>3. QED  BY <1>1, <2>1, <2>2
<1>5. QED  BY <1>3, <1>4 DEF PagesOK

\* The scanner of the pages keeps the invariant.
LEMMA PagesStep ==
  ASSUME NoErrorFunction, TypeOK, TypeOK', Scanned, Pages
  PROVE  Scanned'
<1>1. /\ line # NoLine /\ section = "pages" /\ UNCHANGED <<begins, ends>>
      /\ begins["trailer"] = 0
  BY DEF Pages, Scanned, TrailerOK
<1>2. /\ Limit = START /\ 0 < START /\ START < END /\ START \in Nat /\ END \in Nat
      /\ \A i \in Ids : Consume(i) => Limit' = END /\ LineOK'
      /\ Propagate => Limit' = START /\ LineOK'
  BY <1>1, Limits, Numbers DEF Scanned
<1> USE DEF Ids
<1>3. /\ LineOK' /\ START <= Limit' /\ PagesOK' /\ section' \in {"pages", "pre_trailer"}
  <2>1. CASE FirstPage /\ UNCHANGED section
    <3>1. PICK bad \in BOOLEAN : ParsePage(page, bad)
      BY <2>1 DEF FirstPage
    <3>2. PageEndsAt(START) = page
      <4>1. START \in Marks /\ page = <<>> /\ Len(page) = 0 /\ page \in Seq(Page)
        BY <2>1, LineMarks, PageTable DEF FirstPage
      <4>2. PageEndsAt(START) \in Seq(Page) /\ Len(PageEndsAt(START)) = 0
        BY <4>1, PageEndsType
      <4>3. QED  BY <4>1, <4>2, SeqEqual
    <3>3. ParsePage(PageEndsAt(START), bad)
      BY <3>1, <3>2
    <3>4. LineOK' /\ Limit' = END
      BY <1>2, <3>1 DEF ParsePage
    <3>5. PagesOK'
      BY <1>1, <2>1, <3>3, PageAdded DEF FirstPage
    <3>6. QED  BY <1>1, <1>2, <2>1, <3>4, <3>5
  <2>2. CASE NextPage /\ UNCHANGED section
    <3>1. PICK bad \in BOOLEAN : ParsePage(PageEndsAt(START), bad)
      BY <2>2 DEF NextPage, Answers, NoErrorFunction
    <3>2. LineOK' /\ Limit' = END
      BY <1>2, <3>1 DEF ParsePage
    <3>3. PagesOK'
      BY <1>1, <2>2, <3>1, PageAdded DEF NextPage
    <3>4. QED  BY <1>1, <1>2, <2>2, <3>2, <3>3
  <2>3. CASE PageTrailer \/ PageEof \/ PageLine
    <3>1. /\ LineOK' /\ START <= Limit' /\ section' \in {"pages", "pre_trailer"}
          /\ Extended(page')
      BY <1>1, <1>2, <2>3, Cancels DEF PageTrailer, PageEof, PageLine, Extended
    <3>2. QED  BY <1>1, <3>1, PageExtended
  <2>4. QED  BY <2>1, <2>2, <2>3 DEF Pages
<1>4. HeadOK'
  BY <1>1, <1>2, <1>3, HeadKept DEF Scanned, Reached
<1>5. SectionOpen' /\ TrailerOK'
  BY <1>1, <1>3 DEF SectionOpen, TrailerOK
<1>6. QED  BY <1>3, <1>4, <1>5 DEF Scanned

-----------------------------------------------------------------------------
\* The trailer, and the lines.

\* A step that leaves the page table alone keeps its part of the invariant.
LEMMA PagesKept ==
  ASSUME TypeOK, TypeOK', PagesOK, UNCHANGED page, Limit <= Limit',
         \A i \in 1..5 : HeadEnd(i)' = HeadEnd(i),
         page # <<>> => section' \in {"pages", "pre_trailer", "trailer"}
  PROVE  PagesOK'
<1>1. Limit \in Nat /\ Limit' \in Nat
  BY Ranks
<1>2. \A i \in 1..Len(page) : page[i].begin \in Nat /\ page[i].end \in Nat
  BY Numbers
<1>3. \A i \in 1..Len(page') :
        /\ 0 < page'[i].begin /\ page'[i].begin < Limit'
        /\ page'[i].begin <= page'[i].end /\ page'[i].end <= Limit'
        /\ i < Len(page') => page'[i].begin < page'[i].end
  BY <1>1, <1>2 DEF PagesOK
<1>4. \A i \in 1..Len(page') : \A j \in 1..5 : HeadEnd(j)' <= page'[i].begin
  BY DEF PagesOK
<1>5. \A i, j \in 1..Len(page') :
        /\ i < j => page'[i].end <= page'[j].begin
        /\ j = i + 1 => page'[i].end = page'[j].begin
  BY DEF PagesOK
<1>6. QED  BY <1>3, <1>4, <1>5 DEF PagesOK

\* The scanners of the trailer keep the invariant: the last %%Trailer counts.
LEMMA TrailerStep ==
  ASSUME NoErrorFunction, TypeOK, TypeOK', Scanned, PreTrailer \/ Trailer
  PROVE  Scanned'
<1>1. line # NoLine /\ section \in {"pre_trailer", "trailer"} /\ section' = "trailer"
  BY DEF PreTrailer, Trailer, Opens, TrailerPage, TrailerLine, NoErrorFunction, SetEnd
<1>2. UNCHANGED page /\ Consume("OK")
  BY DEF PreTrailer, Trailer, Opens, TrailerPage, TrailerLine, NoErrorFunction, SetEnd
<1>3. /\ Limit = START /\ 0 < START /\ START < END /\ START \in Nat /\ END \in Nat
      /\ Limit' = END /\ LineOK' /\ Len(page) \in Nat
  BY <1>1, <1>2, Limits, Numbers DEF Scanned, Ids
<1>4. /\ begins \in [Sections -> Marks] /\ ends \in [Sections -> Marks]
      /\ "trailer" \in Sections
  BY DEF TypeOK, Marks, Sections
<1>5. /\ begins'["trailer"] \in {START, begins["trailer"]}
      /\ begins["trailer"] = 0 => begins'["trailer"] = START \/ section = "trailer"
      /\ \A s \in Sections : s # "trailer" => begins'[s] = begins[s] /\ ends'[s] = ends[s]
  <2>1. CASE PreTrailer
    BY <1>4, <2>1 DEF PreTrailer, Opens
  <2>2. CASE Trailer /\ TrailerPage
    BY <1>4, <2>2 DEF Trailer, TrailerPage, NoErrorFunction, SetEnd
  <2>3. CASE Trailer /\ TrailerLine
    BY <1>4, <2>3 DEF Trailer, TrailerLine
  <2>4. QED  BY <2>1, <2>2, <2>3 DEF Trailer
<1>6. \A i \in 1..5 : /\ HeadBegin(i)' = HeadBegin(i) /\ HeadEnd(i)' = HeadEnd(i)
                      /\ HeadBegin(i) \in Nat /\ HeadEnd(i) \in Nat /\ HeadEnd(i) <= START
  <2>1. \A i \in 1..5 : HeadBegin(i)' = HeadBegin(i) /\ HeadEnd(i)' = HeadEnd(i)
    BY <1>5, BeforeIs DEF HeadBegin, HeadEnd
  <2>2. \A i \in 1..5 : HeadEnd(i) <= START
    BY <1>3 DEF Scanned, HeadOK
  <2>3. QED  BY <2>1, <2>2, Numbers
<1>7. begins'["comments"] = begins["comments"] /\ Reached(section) = 5 /\ Reached(section') = 5
  BY <1>1, <1>5 DEF Sections, Reached
<1>8. HeadOK'
  <2>1. \A i \in 1..5 : HeadBegin(i)' <= HeadEnd(i)' /\ HeadEnd(i)' <= Limit'
    <3> TAKE i \in 1..5
    <3>1. HeadBegin(i) <= HeadEnd(i)
      BY DEF Scanned, HeadOK
    <3>2. /\ HeadBegin(i)' = HeadBegin(i) /\ HeadEnd(i)' = HeadEnd(i)
          /\ HeadBegin(i) \in Nat /\ HeadEnd(i) \in Nat /\ HeadEnd(i) <= START
      BY <1>6
    <3>3. QED  BY <1>3, <3>1, <3>2
  <2>2. \A i \in 2..5 : /\ HeadEnd(i)' # 0 => HeadBegin(i)' # 0
                        /\ HeadBegin(i)' # 0 => HeadBegin(i)' < HeadEnd(i)'
    BY <1>6 DEF Scanned, HeadOK
  <2>3. \A i \in 1..5 : i > Reached(section') => HeadEnd(i)' = 0
    BY <1>7
  <2>4. \A i, j \in 1..5 : i < j /\ HeadBegin(j)' # 0 => HeadEnd(i)' <= HeadBegin(j)'
    BY <1>6 DEF Scanned, HeadOK
  <2>5. QED  BY <1>7, <2>1, <2>2, <2>3, <2>4 DEF Scanned, HeadOK
<1>9. \A i \in 1..Len(page) :
        /\ page[i].begin \in Nat /\ page[i].end \in Nat
        /\ page[i].begin < START /\ page[i].end <= START
  BY <1>3, Numbers DEF Scanned, PagesOK
<1>10. PagesOK'
  BY <1>1, <1>2, <1>3, <1>6, <1>9, PagesKept DEF Scanned
<1>11. TrailerOK'
  <2>1. page' = page /\ \A i \in 1..5 : HeadEnd(i)' = HeadEnd(i)
    BY <1>2, <1>6
  <2>2. CASE begins'["trailer"] = START
    <3>1. \A i \in 1..5 : HeadEnd(i)' <= START
      BY <1>6
    <3>2. \A i \in 1..Len(page) : page[i].end <= START /\ page[i].begin < START
      BY <1>9
    <3>3. START <= Limit'
      BY <1>3
    <3>4. QED  BY <1>1, <2>1, <2>2, <3>1, <3>2, <3>3 DEF TrailerOK
  <2>3. CASE begins'["trailer"] = begins["trailer"] /\ begins["trailer"] # 0
    <3>1. /\ begins["trailer"] <= Limit
          /\ \A i \in 1..5 : HeadEnd(i) <= begins["trailer"]
          /\ \A i \in 1..Len(page) : /\ page[i].end <= begins["trailer"]
                                     /\ page[i].begin < begins["trailer"]
      BY <2>3 DEF TrailerOK, Scanned
    <3>2. begins["trailer"] <= Limit'
      <4>1. begins["trailer"] \in Nat
        BY Numbers
      <4>2. QED  BY <1>3, <3>1, <4>1
    <3>3. QED  BY <1>1, <2>1, <2>3, <3>1, <3>2 DEF TrailerOK
  <2>4. CASE begins'["trailer"] = 0
    BY <2>4 DEF TrailerOK
  <2>5. QED  BY <1>5, <2>2, <2>3, <2>4
<1>12. SectionOpen'
  BY <1>1 DEF SectionOpen
<1>13. QED  BY <1>3, <1>8, <1>10, <1>11, <1>12 DEF Scanned

\* A further line keeps the invariant.
LEMMA LineStep ==
  ASSUME TypeOK, TypeOK', Scanned, NEW n \in Lengths,
         (\E k \in Kinds : ReadLine(k, n)) \/ SkipLine(n)
  PROVE  Scanned'
<1>1. /\ n \in Nat /\ n > 0 /\ pos \in Nat /\ pos' = pos + n /\ line = NoLine
      /\ UNCHANGED <<section, begins, ends, page>>
  BY LengthsAssumption DEF ReadLine, SkipLine, TypeOK, markVars, Idle
<1>2. LineOK' /\ Limit <= Limit'
  <2>1. CASE \E k \in Kinds : ReadLine(k, n)
    <3>1. PICK k \in Kinds : line' = [kind |-> k, start |-> pos, end |-> pos + n]
      BY <2>1 DEF ReadLine
    <3>2. line' # NoLine
      BY <3>1, SpecialKinds, KindsAssumption DEF NoLine
    <3>3. QED  BY <1>1, <3>1, <3>2 DEF LineOK, Limit, START, END, Scanned
  <2>2. CASE SkipLine(n)
    BY <1>1, <2>2 DEF SkipLine, LineOK, Limit, Scanned
  <2>3. QED  BY <2>1, <2>2
<1>3. HeadOK'
  BY <1>1, <1>2, HeadKept, Ranks DEF Scanned
<1>4. \A i \in 1..5 : HeadEnd(i)' = HeadEnd(i)
  BY <1>1 DEF HeadEnd
<1>5. Limit \in Nat /\ Limit' \in Nat
  BY Ranks
<1>6. \A i \in 1..Len(page) : page[i].begin \in Nat /\ page[i].end \in Nat
  BY Numbers
<1>7. PagesOK'
  BY <1>1, <1>2, <1>4, PagesKept DEF Scanned, PagesOK
<1>8. TrailerOK'
  <2>1. begins["trailer"] \in Nat
    BY Numbers
  <2>2. QED  BY <1>1, <1>2, <1>4, <1>5, <2>1 DEF Scanned, TrailerOK
<1>9. SectionOpen'
  BY <1>1 DEF Scanned, SectionOpen
<1>10. QED  BY <1>2, <1>3, <1>7, <1>8, <1>9 DEF Scanned

-----------------------------------------------------------------------------
\* dsc_fixup.

\* All that the invariant says of the parts once their ends are repaired.
PartsOK ==
  /\ \A k \in 1..Parts : /\ BeginMark(k) \in Nat /\ EndMark(k) \in Nat
                        /\ BeginMark(k) <= EndMark(k)
  /\ begins["trailer"] \in Nat
  /\ \A i, j \in 1..Parts : i < j /\ BeginMark(j) # 0 => EndMark(i) <= BeginMark(j)
  /\ begins["trailer"] # 0 => \A k \in 1..Parts : EndMark(k) <= begins["trailer"]
  /\ \A j \in 2..Parts :
       /\ BeginMark(j) # 0 /\ (j < Parts \/ begins["trailer"] # 0) => Full(j)
       /\ Full(j) => BeginMark(j) # 0
       /\ j > 5 => BeginMark(j) # 0

\* The two repairs of dsc_fixup keep the order.
LEMMA ScannedParts == ASSUME TypeOK, Scanned PROVE PartsOK
<1> DEFINE T == begins["trailer"]
           n == Len(page)
<1>1. /\ n \in Nat /\ Parts = 5 + n /\ T \in Nat
      /\ \A i \in 1..5 : HeadBegin(i) \in Nat /\ HeadEnd(i) \in Nat
      /\ \A i \in 1..n : page[i].begin \in Nat /\ page[i].end \in Nat
  BY Numbers DEF Parts
<1>2. /\ \A i \in 1..5 : HeadBegin(i) <= HeadEnd(i)
      /\ \A i \in 2..5 : /\ HeadEnd(i) # 0 => HeadBegin(i) # 0
                         /\ HeadBegin(i) # 0 => HeadBegin(i) < HeadEnd(i)
      /\ \A i, j \in 1..5 : i < j /\ HeadBegin(j) # 0 => HeadEnd(i) <= HeadBegin(j)
  BY DEF Scanned, HeadOK
<1>3. /\ \A i \in 1..n :
           /\ 0 < page[i].begin /\ page[i].begin <= page[i].end
           /\ i < n => page[i].begin < page[i].end
           /\ \A j \in 1..5 : HeadEnd(j) <= page[i].begin
      /\ \A i, j \in 1..n : i < j => page[i].end <= page[j].begin
  BY DEF Scanned, PagesOK
<1>4. T # 0 => /\ \A i \in 1..5 : HeadEnd(i) <= T
               /\ \A i \in 1..n : page[i].end <= T /\ page[i].begin < T
  BY DEF Scanned, TrailerOK
<1> HIDE DEF n, T
<1>5. /\ RepairedSetup \in Nat /\ HeadEnd(5) <= RepairedSetup
      /\ HeadBegin(5) = 0 => RepairedSetup = 0
      /\ \A i \in 1..n : RepairedSetup <= page[i].begin
      /\ T # 0 => RepairedSetup <= T
  <2>1. HeadBegin(5) = begins["setup"] /\ HeadEnd(5) = ends["setup"]
    BY BeforeIs DEF HeadBegin, HeadEnd
  <2>2. /\ HeadBegin(5) \in Nat /\ HeadEnd(5) \in Nat
        /\ HeadBegin(5) = 0 => HeadEnd(5) = 0
        /\ T # 0 => HeadEnd(5) <= T
        /\ \A i \in 1..n : HeadEnd(5) <= page[i].begin
    <3>1. 5 \in 1..5 /\ 5 \in 2..5
      OBVIOUS
    <3>2. QED  BY <1>1, <1>2, <1>3, <1>4, <3>1
  <2>3. CASE RepairedSetup = ends["setup"]
    BY <2>1, <2>2, <2>3
  <2>4. CASE /\ page # <<>> /\ RepairedSetup = page[1].begin
             /\ ends["setup"] # begins["setup"]
    <3>1. 1 \in 1..n
      BY <2>4, PageTable DEF n
    <3>2. /\ page[1].begin \in Nat /\ page[1].end \in Nat /\ page[1].begin <= page[1].end
          /\ HeadEnd(5) <= page[1].begin
          /\ T # 0 => page[1].begin < T
      BY <1>1, <1>3, <1>4, <2>2, <3>1
    <3>3. ASSUME NEW i \in 1..n PROVE page[1].begin <= page[i].begin
      <4>1. CASE i = 1
        BY <3>2, <4>1
      <4>2. CASE 1 < i
        <5>1. page[1].end <= page[i].begin /\ page[i].begin \in Nat
          BY <1>1, <1>3, <3>1, <4>2
        <5>2. QED  BY <3>2, <5>1
      <4>3. QED  BY <1>1, <4>1, <4>2
    <3>4. HeadBegin(5) # 0
      BY <2>1, <2>2, <2>4
    <3>5. T # 0 => page[1].begin <= T
      BY <1>1, <3>2
    <3>6. QED  BY <2>4, <3>2, <3>3, <3>4, <3>5
  <2>5. QED  BY <2>3, <2>4 DEF RepairedSetup
<1>6. \A i \in 1..n :
        /\ RepairedEnd(i) \in Nat /\ page[i].begin <= RepairedEnd(i)
        /\ i < n => RepairedEnd(i) = page[i].end
        /\ i < n \/ T # 0 => page[i].begin < RepairedEnd(i)
        /\ T # 0 => RepairedEnd(i) <= T
  <2> TAKE i \in 1..n
  <2>1. /\ page[i].begin \in Nat /\ page[i].end \in Nat /\ page[i].begin <= page[i].end
        /\ i < n => page[i].begin < page[i].end
        /\ T # 0 => page[i].end <= T /\ page[i].begin < T
    BY <1>1, <1>3, <1>4
  <2>2. CASE i = n /\ T # 0
    <3>1. RepairedEnd(i) = T
      BY <2>2 DEF RepairedEnd, n, T
    <3>2. QED  BY <1>1, <2>1, <2>2, <3>1
  <2>3. CASE ~(i = n /\ T # 0)
    <3>1. RepairedEnd(i) = page[i].end
      BY <2>3 DEF RepairedEnd, n, T
    <3>2. i = n \/ i < n
      BY <1>1
    <3>3. QED  BY <1>1, <2>1, <2>3, <3>1, <3>2
  <2>4. QED  BY <2>2, <2>3
<1>7. /\ \A k \in 1..Parts : k > 5 => /\ k - 5 \in 1..n /\ BeginMark(k) = page[k - 5].begin
                                      /\ EndMark(k) = RepairedEnd(k - 5)
      /\ \A k \in 1..5 : /\ k \in 1..Parts /\ BeginMark(k) = HeadBegin(k)
                         /\ EndMark(k) = IF k = 5 THEN RepairedSetup ELSE HeadEnd(k)
      /\ \A k \in 1..Parts : k > 5 \/ k \in 1..5
  <2>1. ASSUME NEW k \in 1..Parts, k > 5
        PROVE  /\ k - 5 \in 1..n /\ BeginMark(k) = page[k - 5].begin
               /\ EndMark(k) = RepairedEnd(k - 5)
    BY <1>1, <2>1 DEF BeginMark, EndMark
  <2>2. ASSUME NEW k \in 1..5
        PROVE  /\ k \in 1..Parts /\ BeginMark(k) = HeadBegin(k)
               /\ EndMark(k) = IF k = 5 THEN RepairedSetup ELSE HeadEnd(k)
    BY <1>1, <2>2 DEF BeginMark, EndMark, HeadBegin, HeadEnd
  <2>3. \A k \in 1..Parts : k > 5 \/ k \in 1..5
    BY <1>1
  <2>4. QED  BY <2>1, <2>2, <2>3
<1>8. ASSUME NEW k \in 1..Parts
      PROVE  /\ BeginMark(k) \in Nat /\ EndMark(k) \in Nat /\ BeginMark(k) <= EndMark(k)
             /\ T # 0 => EndMark(k) <= T
             /\ k > 1 =>
                  /\ BeginMark(k) # 0 /\ (k < Parts \/ T # 0) => EndMark(k) > BeginMark(k)
                  /\ EndMark(k) > BeginMark(k) => BeginMark(k) # 0
                  /\ k > 5 => BeginMark(k) # 0
  <2>1. CASE k > 5
    <3>1. k < Parts => k - 5 < n
      BY <1>1, <2>1
    <3>2. /\ k - 5 \in 1..n /\ BeginMark(k) = page[k - 5].begin
          /\ EndMark(k) = RepairedEnd(k - 5)
      BY <1>7, <2>1
    <3>3. QED  BY <1>1, <1>3, <1>6, <3>1, <3>2
  <2>2. CASE k \in 1..5
    <3>1. BeginMark(k) = HeadBegin(k) /\ EndMark(k) = IF k = 5 THEN RepairedSetup ELSE HeadEnd(k)
      BY <1>7, <2>2
    <3>2. CASE k = 5
      BY <1>1, <1>2, <1>5, <3>1, <3>2
    <3>3. CASE k # 5
      BY <1>1, <1>2, <1>4, <2>2, <3>1, <3>3
    <3>4. QED  BY <3>2, <3>3
  <2>3. QED  BY <1>7, <2>1, <2>2
<1>9. ASSUME NEW i \in 1..Parts, NEW j \in 1..Parts, i < j, BeginMark(j) # 0
      PROVE  EndMark(i) <= BeginMark(j)
  <2>1. CASE j \in 1..5
    <3>1. i \in 1..5 /\ i # 5
      BY <1>1, <1>9, <2>1
    <3>2. QED  BY <1>2, <1>7, <1>9, <2>1, <3>1
  <2>2. CASE j > 5 /\ i \in 1..5
    <3>1. j - 5 \in 1..n /\ BeginMark(j) = page[j - 5].begin
      BY <1>7, <2>2
    <3>2. EndMark(i) = IF i = 5 THEN RepairedSetup ELSE HeadEnd(i)
      BY <1>7, <2>2
    <3>3. QED  BY <1>3, <1>5, <2>2, <3>1, <3>2
  <2>3. CASE j > 5 /\ i > 5
    <3>1. /\ j - 5 \in 1..n /\ BeginMark(j) = page[j - 5].begin
          /\ i - 5 \in 1..n /\ EndMark(i) = RepairedEnd(i - 5)
          /\ i - 5 < j - 5 /\ i - 5 < n
      BY <1>1, <1>7, <1>9, <2>3
    <3>2. QED  BY <1>3, <1>6, <3>1
  <2>4. QED  BY <1>7, <2>1, <2>2, <2>3
<1>10. QED
  <2>1. Parts \in Nat
    BY <1>1
  <2>2. QED  BY <1>1, <1>8, <1>9, <2>1 DEF PartsOK, Full, T

\* A set of naturals that is not empty has a least element.
LEMMA Least ==
  ASSUME NEW n \in Nat, NEW S \in SUBSET (0..n), S # {}
  PROVE  \E m \in S : \A i \in S : m <= i
<1> DEFINE R == {n - i : i \in S}
<1>1. R \in SUBSET (0..n) /\ R # {}
  <2>1. PICK i \in S : TRUE
    OBVIOUS
  <2>2. n - i \in R
    BY <2>1
  <2>3. QED  BY <2>2
<1>2. PICK m \in R : \A i \in R : i <= m
  <2> HIDE DEF R
  <2> QED BY <1>1, Greatest
<1>3. n - m \in S /\ \A i \in S : n - i <= m
  BY <1>2
<1>4. \A i \in S : n - m <= i
  BY <1>1, <1>3
<1>5. QED  BY <1>3, <1>4

\* The parts after k up to m are all empty; the parts whose begin the end of k
\* is moved to, one after the other.
EmptyUpTo(k, m) == \A i \in (k + 1)..m : ~Full(i)
Movers(k) == {j \in (k + 1)..Parts : BeginMark(j) # 0 /\ EmptyUpTo(k, j - 1)}

\* The ways dsc_section_join ends.
LEMMA JoinCases ==
  ASSUME TypeOK, NEW k \in 1..Parts
  PROVE  \/ k > 1 /\ ~Full(k) /\ Join(k) = EndMark(k)
         \/ begins["trailer"] # 0 /\ EmptyUpTo(k, Parts) /\ Join(k) = begins["trailer"]
         \/ /\ ~(begins["trailer"] # 0 /\ EmptyUpTo(k, Parts))
            /\ Movers(k) = {} /\ Join(k) = EndMark(k)
         \/ \E m \in Movers(k) : /\ Join(k) = BeginMark(m) /\ (k = 1 \/ Full(k))
                                /\ \A j \in Movers(k) : j <= m
<1>1. Parts \in Nat
  BY PageTable
<1>2. Movers(k) # {} => \E m \in Movers(k) : \A j \in Movers(k) : j <= m
  <2>1. Movers(k) \in SUBSET (0..Parts)
    BY <1>1 DEF Movers
  <2>2. QED  BY <1>1, <2>1, Greatest
<1> DEFINE last == CHOOSE j \in Movers(k) : \A m \in Movers(k) : m <= j
<1>3. Join(k) = IF k > 1 /\ ~Full(k) THEN EndMark(k)
                ELSE IF begins["trailer"] # 0 /\ EmptyUpTo(k, Parts) THEN begins["trailer"]
                ELSE IF Movers(k) = {} THEN EndMark(k)
                ELSE BeginMark(last)
  BY DEF Join, Movers, EmptyUpTo
<1>4. Movers(k) # {} => last \in Movers(k) /\ \A m \in Movers(k) : m <= last
  <2> HIDE DEF Movers
  <2> QED BY <1>2
<1> HIDE DEF last
<1>5. k = 1 \/ k > 1
  BY <1>1
<1>6. QED  BY <1>3, <1>4, <1>5

\* What dsc_section_join does to a part: its end goes to where a later part
\* begins, to the first that does if there is one, and passes none.
LEMMA JoinsNext ==
  ASSUME TypeOK, PartsOK, NEW k \in 1..Parts
  PROVE  /\ Join(k) \in Nat /\ BeginMark(k) <= Join(k)
         /\ \A j \in 1..Parts : k < j /\ BeginMark(j) # 0 => Join(k) <= BeginMark(j)
         /\ begins["trailer"] # 0 => Join(k) <= begins["trailer"]
         /\ k > 5 /\ k < Parts => Join(k) = BeginMark(k + 1)
         /\ Join(k) > BeginMark(k) /\ NextBegin(k) # {} => Join(k) \in NextBegin(k)
<1> DEFINE T == begins["trailer"]
<1>1. Parts \in Nat /\ T \in Nat
  BY PageTable DEF PartsOK
<1>2. /\ \A j \in 1..Parts : /\ BeginMark(j) \in Nat /\ EndMark(j) \in Nat
                            /\ BeginMark(j) <= EndMark(j)
      /\ \A i, j \in 1..Parts : i < j /\ BeginMark(j) # 0 => EndMark(i) <= BeginMark(j)
      /\ T # 0 => \A j \in 1..Parts : EndMark(j) <= T
      /\ \A j \in 2..Parts :
           /\ BeginMark(j) # 0 /\ (j < Parts \/ T # 0) => Full(j)
           /\ Full(j) => BeginMark(j) # 0
           /\ j > 5 => BeginMark(j) # 0
  BY DEF PartsOK
<1>3. \A m \in Movers(k) : /\ m \in 2..Parts /\ m \in 1..Parts /\ k < m /\ BeginMark(m) # 0
                           /\ \A i \in 2..Parts : k < i /\ i < m => ~Full(i)
  BY <1>1 DEF Movers, EmptyUpTo
<1>4. EmptyUpTo(k, Parts) => \A i \in 2..Parts : k < i => ~Full(i)
  BY <1>1 DEF EmptyUpTo
<1>5. NextBegin(k) \subseteq {BeginMark(j) : j \in (k + 1)..Parts} \cup {T}
      /\ 0 \notin NextBegin(k)
      /\ (T # 0 => T \in NextBegin(k))
      /\ \A j \in (k + 1)..Parts : BeginMark(j) # 0 => BeginMark(j) \in NextBegin(k)
  BY DEF NextBegin
<1> HIDE DEF T
<1>6. CASE k > 1 /\ ~Full(k) /\ Join(k) = EndMark(k)
  <2>1. Join(k) = BeginMark(k)
    BY <1>2, <1>6 DEF Full
  <2>2. ~(k > 5 /\ k < Parts)
    BY <1>1, <1>2, <1>6
  <2>3. \A j \in 1..Parts : k < j /\ BeginMark(j) # 0 => Join(k) <= BeginMark(j)
    BY <1>2, <1>6
  <2>4. T # 0 => Join(k) <= T
    BY <1>2, <1>6
  <2>5. Join(k) \in Nat /\ BeginMark(k) <= Join(k) /\ ~(Join(k) > BeginMark(k))
    BY <1>2, <2>1
  <2>6. QED  BY <2>2, <2>3, <2>4, <2>5 DEF T
<1>7. CASE T # 0 /\ EmptyUpTo(k, Parts) /\ Join(k) = T
  <2>1. \A j \in 1..Parts : k < j => BeginMark(j) = 0
    BY <1>1, <1>2, <1>4, <1>7
  <2>2. ~(k > 5 /\ k < Parts)
    BY <1>1, <1>2, <2>1
  <2>3. BeginMark(k) <= T
    BY <1>1, <1>2, <1>7
  <2>4. QED  BY <1>1, <1>5, <1>7, <2>1, <2>2, <2>3 DEF T
<1>8. CASE ~(T # 0 /\ EmptyUpTo(k, Parts)) /\ Movers(k) = {} /\ Join(k) = EndMark(k)
  <2> DEFINE S == {j \in (k + 1)..Parts : BeginMark(j) # 0}
  <2>1. S = {}
    <3> SUFFICES ASSUME S # {} PROVE FALSE
      OBVIOUS
    <3>1. S \in SUBSET (0..Parts)
      BY <1>1
    <3>2. PICK m \in S : \A i \in S : m <= i
      <4> HIDE DEF S
      <4> QED BY <1>1, <3>1, Least
    <3>3. m \in (k + 1)..Parts /\ BeginMark(m) # 0
      BY <3>2
    <3>4. ASSUME NEW i \in (k + 1)..(m - 1) PROVE ~Full(i)
      <4>1. i \in (k + 1)..Parts /\ i < m /\ i \in 2..Parts
        BY <1>1, <3>3
      <4>2. i \notin S
        <5> HIDE DEF S
        <5> QED BY <1>1, <3>2, <3>3, <4>1
      <4>3. QED  BY <1>2, <4>1, <4>2
    <3>5. m \in Movers(k)
      BY <3>3, <3>4 DEF Movers, EmptyUpTo
    <3>6. QED  BY <1>8, <3>5
  <2>2. \A j \in 1..Parts : k < j => BeginMark(j) = 0
    <3>1. \A j \in 1..Parts : k < j => j \in (k + 1)..Parts
      BY <1>1
    <3>2. QED  BY <2>1, <3>1
  <2>3. EmptyUpTo(k, Parts)
    <3>1. \A i \in (k + 1)..Parts : i \in 2..Parts /\ i \in 1..Parts /\ k < i
      BY <1>1
    <3>2. QED  BY <1>2, <2>2, <3>1 DEF EmptyUpTo
  <2>4. T = 0 /\ NextBegin(k) = {}
    BY <1>5, <1>8, <2>1, <2>3
  <2>5. ~(k > 5 /\ k < Parts)
    BY <1>1, <1>2, <2>2
  <2>6. QED  BY <1>2, <1>8, <2>2, <2>4, <2>5 DEF T
<1>9. ASSUME NEW m \in Movers(k), Join(k) = BeginMark(m), k = 1 \/ Full(k),
             \A j \in Movers(k) : j <= m
      PROVE  /\ Join(k) \in Nat /\ BeginMark(k) <= Join(k)
             /\ \A j \in 1..Parts : k < j /\ BeginMark(j) # 0 => Join(k) <= BeginMark(j)
             /\ T # 0 => Join(k) <= T
             /\ k > 5 /\ k < Parts => Join(k) = BeginMark(k + 1)
             /\ Join(k) \in NextBegin(k)
  <2>1. /\ m \in 2..Parts /\ m \in 1..Parts /\ k < m /\ BeginMark(m) # 0
        /\ \A i \in 2..Parts : k < i /\ i < m => ~Full(i)
    BY <1>3, <1>9
  <2>2. Join(k) \in Nat /\ BeginMark(k) <= Join(k)
    BY <1>2, <1>9, <2>1
  <2>3. \A j \in 1..Parts : k < j /\ j < m => BeginMark(j) = 0
    BY <1>1, <1>2, <2>1
  <2>4. ASSUME NEW j \in 1..Parts, k < j, BeginMark(j) # 0 PROVE Join(k) <= BeginMark(j)
    <3>1. CASE j = m
      BY <1>2, <1>9, <3>1
    <3>2. CASE m < j
      <4>1. BeginMark(m) <= EndMark(m) /\ EndMark(m) <= BeginMark(j)
        BY <1>2, <2>1, <2>4, <3>2
      <4>2. QED  BY <1>2, <1>9, <2>1, <4>1
    <3>3. QED  BY <1>1, <2>1, <2>3, <2>4, <3>1, <3>2
  <2>5. T # 0 => Join(k) <= T
    BY <1>1, <1>2, <1>9, <2>1
  <2>6. ASSUME k > 5, k < Parts PROVE Join(k) = BeginMark(k + 1)
    <3>1. k + 1 \in 1..Parts /\ k + 1 \in 2..Parts /\ k + 1 > 5 /\ k < k + 1 /\ k + 1 <= m
      BY <1>1, <2>1, <2>6
    <3>2. BeginMark(k + 1) # 0
      BY <1>2, <3>1
    <3>3. ~(k + 1 < m)
      BY <2>3, <3>1, <3>2
    <3>4. m = k + 1
      BY <2>1, <3>1, <3>3
    <3>5. QED  BY <1>9, <3>4
  <2>7. Join(k) \in NextBegin(k)
    <3>1. m \in (k + 1)..Parts
      BY <2>1
    <3>2. QED  BY <1>5, <1>9, <2>1, <3>1
  <2>8. QED  BY <2>2, <2>4, <2>5, <2>6, <2>7
<1>10. QED  BY <1>6, <1>7, <1>8, <1>9, JoinCases DEF T

\* The sections after dsc_fixup: the begins stay, the ends are those of Join.
LEMMA FixupMarks ==
  ASSUME TypeOK, TypeOK', Fixup
  PROVE  /\ Parts' = Parts /\ Len(page') = Len(page) /\ line' = NoLine
         /\ (page' = <<>> <=> page = <<>>)
         /\ begins' = begins
         /\ \A k \in 1..5 : HeadEnd(k)' = Join(k)
         /\ \A i \in 1..Len(page) : /\ page'[i].begin = page[i].begin
                                   /\ page'[i].end = Join(5 + i)
<1>1. /\ Len(page) \in Nat /\ page \in [1..Len(page) -> Page]
      /\ page' = [i \in 1..Len(page) |-> [page[i] EXCEPT !.end = Join(5 + i)]]
  BY PageTable DEF Fixup
<1>2. Len(page') = Len(page) /\ Parts' = Parts
  <2>1. DOMAIN page' = 1..Len(page)
    BY <1>1
  <2>2. page' \in Seq([begin : 0..pos', end : 0..pos'])
    BY DEF TypeOK
  <2>3. DOMAIN page' = 1..Len(page') /\ Len(page') \in Nat
    BY <2>2, LenProperties
  <2>4. Len(page') = Len(page)
    BY <1>1, <2>1, <2>3
  <2>5. QED  BY <2>4 DEF Parts
<1>3. page' = <<>> <=> page = <<>>
  <2>1. page' = <<>> <=> Len(page') = 0
    <3>1. page' \in Seq([begin : 0..pos', end : 0..pos'])
      BY DEF TypeOK
    <3>2. QED  BY <3>1, EmptySeq, SeqEqual
  <2>2. QED  BY <1>2, <2>1, PageTable
<1>4. \A i \in 1..Len(page) : page'[i].begin = page[i].begin /\ page'[i].end = Join(5 + i)
  BY <1>1 DEF Page
<1>5. ASSUME NEW k \in 1..5 PROVE HeadEnd(k)' = Join(k)
  <2>1. Before[k] \in Sections /\ Before[k] # "trailer"
    BY BeforeIs
  <2>2. (CHOOSE j \in 1..5 : Before[j] = Before[k]) = k
    BY BeforeIs
  <2>3. ends'[Before[k]] = Join(CHOOSE j \in 1..5 : Before[j] = Before[k])
    BY <2>1 DEF Fixup
  <2>4. QED  BY <2>2, <2>3 DEF HeadEnd
<1>6. line' = NoLine /\ begins' = begins
  BY DEF Fixup, Idle, lineVars
<1>7. QED  BY <1>2, <1>3, <1>4, <1>5, <1>6

\* dsc_fixup keeps the order and leaves no gap.
LEMMA FixupStep == ASSUME TypeOK, TypeOK', Scanned, Fixup PROVE Fixed'
<1>1. /\ Parts' = Parts /\ Len(page') = Len(page) /\ line' = NoLine
      /\ (page' = <<>> <=> page = <<>>) /\ begins' = begins
      /\ \A k \in 1..5 : HeadEnd(k)' = Join(k)
      /\ \A i \in 1..Len(page) : page'[i].begin = page[i].begin /\ page'[i].end = Join(5 + i)
  BY FixupMarks
<1>2. Len(page) \in Nat /\ Parts = 5 + Len(page) /\ begins["trailer"] \in Nat
  BY Numbers DEF Parts
<1>3. \A k \in 1..Parts :
         /\ Join(k) \in Nat /\ BeginMark(k) <= Join(k)
         /\ \A j \in 1..Parts : k < j /\ BeginMark(j) # 0 => Join(k) <= BeginMark(j)
         /\ begins["trailer"] # 0 => Join(k) <= begins["trailer"]
         /\ k > 5 /\ k < Parts => Join(k) = BeginMark(k + 1)
         /\ Join(k) > BeginMark(k) /\ NextBegin(k) # {} => Join(k) \in NextBegin(k)
  BY ScannedParts, JoinsNext
<1>4. /\ \A k \in 1..5 : /\ k \in 1..Parts /\ BeginMark(k) = HeadBegin(k)
                         /\ HeadBegin(k)' = HeadBegin(k)
      /\ \A i \in 1..Len(page) : /\ 5 + i \in 1..Parts /\ 5 + i > 5
                                /\ BeginMark(5 + i) = page[i].begin /\ page[i].begin # 0
                                /\ page[i].begin \in Nat
  <2>1. \A k \in 1..5 : /\ k \in 1..Parts /\ BeginMark(k) = HeadBegin(k)
                        /\ HeadBegin(k)' = HeadBegin(k)
    BY <1>1, <1>2 DEF BeginMark, HeadBegin
  <2>2. \A i \in 1..Len(page) : page[i].begin \in Nat /\ page[i].begin # 0
    <3>1. \A i \in 1..Len(page) : page[i].begin \in Nat
      BY Numbers
    <3>2. \A i \in 1..Len(page) : 0 < page[i].begin
      BY DEF Scanned, PagesOK
    <3>3. QED  BY <3>1, <3>2
  <2>3. \A i \in 1..Len(page) : /\ 5 + i \in 1..Parts /\ 5 + i > 5
                                /\ BeginMark(5 + i) = page[i].begin
    BY <1>2 DEF BeginMark
  <2>4. QED  BY <2>1, <2>2, <2>3
<1>5. Ordered'
  <2>1. \A i \in 1..5 : HeadBegin(i)' <= HeadEnd(i)'
    BY <1>1, <1>3, <1>4
  <2>2. \A i, j \in 1..5 : i < j /\ HeadBegin(j)' # 0 => HeadEnd(i)' <= HeadBegin(j)'
    BY <1>1, <1>3, <1>4
  <2>3. \A i \in 1..Len(page') : page'[i].begin <= page'[i].end
    BY <1>1, <1>3, <1>4
  <2>4. ASSUME NEW i \in 1..Len(page') - 1 PROVE page'[i].end = page'[i + 1].begin
    <3>1. /\ i \in 1..Len(page) /\ i + 1 \in 1..Len(page) /\ 5 + i \in 1..Parts
          /\ 5 + i > 5 /\ 5 + i < Parts /\ (5 + i) + 1 = 5 + (i + 1)
      BY <1>1, <1>2
    <3>2. Join(5 + i) = BeginMark(5 + (i + 1))
      BY <1>3, <3>1
    <3>3. QED  BY <1>1, <1>4, <3>1, <3>2
  <2>5. ASSUME page' # <<>>, NEW i \in 1..5 PROVE HeadEnd(i)' <= page'[1].begin
    <3>1. 1 \in 1..Len(page)
      BY <1>1, <2>5, PageTable
    <3>2. 5 + 1 \in 1..Parts /\ BeginMark(5 + 1) = page[1].begin /\ page[1].begin # 0
      BY <1>4, <3>1
    <3>3. i \in 1..Parts /\ i < 5 + 1
      BY <1>4
    <3>4. Join(i) <= page[1].begin
      BY <1>3, <3>2, <3>3
    <3>5. QED  BY <1>1, <3>1, <3>4
  <2>6. ASSUME begins'["trailer"] # 0
        PROVE  /\ \A i \in 1..5 : HeadEnd(i)' <= begins'["trailer"]
               /\ page' # <<>> => page'[Len(page')].end <= begins'["trailer"]
    <3>1. \A i \in 1..5 : HeadEnd(i)' <= begins'["trailer"]
      BY <1>1, <1>3, <1>4, <2>6
    <3>2. page' # <<>> => Len(page) \in 1..Len(page)
      BY <1>1, PageTable
    <3>3. QED  BY <1>1, <1>3, <1>4, <2>6, <3>1, <3>2
  <2>7. QED  BY <2>1, <2>2, <2>3, <2>4, <2>5, <2>6 DEF Ordered, HeadBegin, HeadEnd
<1>6. \A k \in 1..Parts : BeginMark(k)' = BeginMark(k) /\ EndNow(k)' = Join(k)
  <2> TAKE k \in 1..Parts
  <2>1. CASE k > 5
    <3>1. k - 5 \in 1..Len(page) /\ 5 + (k - 5) = k
      BY <1>2, <2>1
    <3>2. QED  BY <1>1, <2>1, <3>1 DEF BeginMark, EndNow
  <2>2. CASE k \in 1..5
    BY <1>1, <2>2 DEF BeginMark, EndNow, HeadEnd
  <2>3. QED  BY <1>2, <2>1, <2>2
<1>7. ASSUME NEW k \in 1..Parts PROVE NextBegin(k)' = NextBegin(k)
  <2>1. (k + 1)..Parts \subseteq 1..Parts
    BY <1>2
  <2>2. \A j \in (k + 1)..Parts : BeginMark(j)' = BeginMark(j)
    BY <1>6, <2>1
  <2>3. {BeginMark(j)' : j \in (k + 1)..Parts} = {BeginMark(j) : j \in (k + 1)..Parts}
    BY <2>2
  <2>4. QED  BY <1>1, <2>3 DEF NextBegin
<1>8. Joined'
  <2>1. ASSUME NEW k \in 1..Parts, NextBegin(k) # {}, Join(k) > BeginMark(k),
               NEW b \in NextBegin(k)
        PROVE  Join(k) <= b /\ ((\A c \in NextBegin(k) : b <= c) => Join(k) = b)
    <3>1. b = begins["trailer"] \/ \E j \in (k + 1)..Parts : b = BeginMark(j)
      BY DEF NextBegin
    <3>2. b # 0
      BY DEF NextBegin
    <3>3. Join(k) \in NextBegin(k) /\ Join(k) \in Nat
      BY <1>3, <2>1
    <3>4. Join(k) <= b /\ b \in Nat
      <4>1. CASE b = begins["trailer"]
        BY <1>2, <1>3, <3>2, <4>1
      <4>2. CASE \E j \in (k + 1)..Parts : b = BeginMark(j)
        <5>1. PICK j \in (k + 1)..Parts : b = BeginMark(j)
          BY <4>2
        <5>2. j \in 1..Parts /\ k < j
          BY <1>2
        <5>3. BeginMark(j) \in Nat
          BY <5>2, ScannedParts DEF PartsOK
        <5>4. QED  BY <1>3, <3>2, <5>1, <5>2, <5>3
      <4>3. QED  BY <3>1, <4>1, <4>2
    <3>5. QED  BY <3>3, <3>4
  <2>2. QED  BY <1>1, <1>6, <1>7, <2>1 DEF Joined
<1>9. QED  BY <1>1, <1>5, <1>8 DEF Fixed

-----------------------------------------------------------------------------
\* The invariant, and the two theorems.

\* The invariant holds before the first line.
LEMMA InitScanned == ASSUME Init, TypeOK PROVE OrderInv
<1>1. /\ pos \in Nat /\ pos > 0 /\ line = NoLine /\ section = "comments" /\ ~fixed
      /\ page = <<>> /\ Len(page) = 0
  BY LengthsAssumption, EmptySeq DEF Init
<1>2. \A s \in Sections : begins[s] = 0 /\ ends[s] = 0
  BY DEF Init
<1>3. \A i \in 1..5 : HeadBegin(i) = 0 /\ HeadEnd(i) = 0
  BY <1>2, BeforeIs DEF HeadBegin, HeadEnd
<1>4. begins["comments"] = 0 /\ begins["trailer"] = 0 /\ Limit \in Nat
  BY <1>2, Numbers DEF Sections
<1>5. HeadOK /\ PagesOK /\ TrailerOK
  BY <1>1, <1>3, <1>4 DEF HeadOK, PagesOK, TrailerOK
<1>6. LineOK /\ SectionOpen
  BY <1>1 DEF LineOK, SectionOpen
<1>7. QED  BY <1>1, <1>5, <1>6 DEF OrderInv, Scanned

\* Every step keeps the invariant.
LEMMA OrderStep ==
  ASSUME NoErrorFunction, OrderInv, [Next]_vars
  PROVE  OrderInv'
<1>1. TypeOK /\ TypeOK'
  BY TypeStep DEF OrderInv
<1>2. CASE UNCHANGED vars
  <2>1. /\ fixed' = fixed /\ line' = line /\ pos' = pos /\ section' = section
        /\ begins' = begins /\ ends' = ends /\ page' = page
    BY <1>2 DEF vars, lineVars, markVars
  <2>2. Scanned' = Scanned
    BY <2>1 DEF Scanned, LineOK, SectionOpen, HeadOK, PagesOK, TrailerOK, HeadBegin, HeadEnd,
                Limit, START, END
  <2>3. Fixed' = Fixed
    BY <2>1 DEF Fixed, Ordered, Joined, Parts, NextBegin, EndNow, BeginMark
  <2>4. QED  BY <1>1, <2>1, <2>2, <2>3 DEF OrderInv
<1>3. CASE Next /\ fixed
  <2>1. line = NoLine
    BY <1>3 DEF OrderInv, Fixed
  <2>2. ~Scan
    BY <2>1 DEF Scan, BadAttribute, Comments, PrePreview, Preview, PreDefaults, Defaults,
                PreProlog, Prolog, PreSetup, Setup, PrePages, Pages, PreTrailer, Trailer,
                Is, NoLine
  <2>3. QED  BY <1>3, <2>2 DEF Next, ReadLine, SkipLine, Fixup, Idle
<1>4. CASE Next /\ ~fixed
  <2>1. Scanned
    BY <1>4 DEF OrderInv
  <2>2. CASE Fixup
    BY <1>1, <2>1, <2>2, FixupStep DEF OrderInv, Fixup
  <2>3. CASE (\E k \in Kinds, n \in Lengths : ReadLine(k, n)) \/ \E n \in Lengths : SkipLine(n)
    <3>1. Scanned'
      BY <1>1, <2>1, <2>3, LineStep
    <3>2. ~fixed'
      BY <1>4, <2>3 DEF ReadLine, SkipLine
    <3>3. QED  BY <1>1, <3>1, <3>2 DEF OrderInv
  <2>4. CASE Scan
    <3>1. Scanned'
      <4>1. ~BadAttribute
        BY DEF NoErrorFunction, BadAttribute
      <4>2. QED  BY <1>1, <2>1, <2>4, <4>1, EarlyStep, PagesStep, TrailerStep DEF Scan
    <3>2. ~fixed'
      BY <1>4, <2>4 DEF Scan, BadAttribute, Comments, PrePreview, Preview, PreDefaults,
            Defaults, PreProlog, Prolog, PreSetup, Setup, PrePages, Pages, PreTrailer, Trailer
    <3>3. QED  BY <1>1, <3>1, <3>2 DEF OrderInv
  <2>5. QED  BY <1>4, <2>2, <2>3, <2>4 DEF Next
<1>5. QED  BY <1>2, <1>3, <1>4

\* The invariant implies both properties.
LEMMA OrderHolds == ASSUME OrderInv PROVE Ordered /\ Joined
<1>1. CASE fixed
  BY <1>1 DEF OrderInv, Fixed
<1>2. CASE ~fixed
  <2>1. TypeOK /\ Scanned
    BY <1>2 DEF OrderInv
  <2>2. /\ \A i \in 1..5 : HeadBegin(i) <= HeadEnd(i)
        /\ \A i, j \in 1..5 : i < j /\ HeadBegin(j) # 0 => HeadEnd(i) <= HeadBegin(j)
    BY <2>1 DEF Scanned, HeadOK
  <2>3. /\ \A i \in 1..Len(page) : page[i].begin <= page[i].end
        /\ \A i \in 1..Len(page) - 1 : page[i].end = page[i + 1].begin
        /\ page # <<>> => \A i \in 1..5 : HeadEnd(i) <= page[1].begin
    <3>1. Len(page) \in Nat /\ (page # <<>> => 1 \in 1..Len(page))
      BY <2>1, PageTable
    <3>2. \A i \in 1..Len(page) - 1 : i \in 1..Len(page) /\ i + 1 \in 1..Len(page)
      BY <3>1
    <3>3. QED  BY <2>1, <3>1, <3>2 DEF Scanned, PagesOK
  <2>4. begins["trailer"] # 0 =>
          /\ \A i \in 1..5 : HeadEnd(i) <= begins["trailer"]
          /\ page # <<>> => page[Len(page)].end <= begins["trailer"]
    <3>1. page # <<>> => Len(page) \in 1..Len(page)
      BY <2>1, PageTable
    <3>2. QED  BY <2>1, <3>1 DEF Scanned, TrailerOK
  <2>5. Ordered
    BY <2>2, <2>3, <2>4 DEF Ordered, HeadBegin, HeadEnd
  <2>6. QED  BY <1>2, <2>5 DEF Joined
<1>3. QED  BY <1>1, <1>2

\* The invariant holds in every state.
LEMMA Invariance == NoErrorFunction /\ Spec => []OrderInv
<1>1. Init => OrderInv
  BY InitTypes, InitScanned
<1>2. NoErrorFunction /\ OrderInv /\ [Next]_vars => OrderInv'
  BY OrderStep
<1>3. NoErrorFunction => NoErrorFunction'
  BY DEF NoErrorFunction
<1>4. QED  BY <1>1, <1>2, <1>3, PTL DEF Spec

\* Whatever comments are missing, repeated or out of place: the sections and pages
\* that dscparse.cpp records follow one another in the file and do not overlap,
\* while it scans and after dsc_fixup.
THEOREM SectionsOrdered == NoErrorFunction /\ Spec => []Ordered
<1>1. OrderInv => Ordered
  BY OrderHolds
<1>2. QED  BY <1>1, Invariance, PTL

\* dsc_fixup leaves no gap: every section or page that is not empty ends where
\* the next one begins.
THEOREM SectionsJoined == NoErrorFunction /\ Spec => []Joined
<1>1. OrderInv => Joined
  BY OrderHolds
<1>2. QED  BY <1>1, Invariance, PTL
====
