--------------------------- MODULE DocumentProofs ---------------------------
(***************************************************************************)
(* Proofs about ThumbnailPlugins: what the comments of a document, however *)
(* many and in whatever order, leave behind in DscAttributes.              *)
(***************************************************************************)
EXTENDS ThumbnailPluginsProofs

Parts == {"comments", "defaults", "setup", "pages", "trailer"}
Values == Boxes \cup Numbers \cup Dsc!Orders \cup Dsc!Orientations \cup Names \cup Seq(Names)
            \cup {None}
Kinds == DocumentBoxes \cup {"Page", "Pages", "PageOrder", "Orientation", "DocumentMedia",
                             "DocumentPaperSizes", "PageBoundingBox", "PageOrientation",
                             "PageMedia", "PaperSize"}
Records == [kind : Kinds, value : Values, part : Parts, page : Nat]

-----------------------------------------------------------------------------
(* The first and the last of the comments c that are in a set of records. *)

Chosen(c, R) == {i \in 1..Len(c) : c[i] \in R}
FirstOf(c, R, default) ==
  IF Chosen(c, R) = {} THEN default
  ELSE c[CHOOSE i \in Chosen(c, R) : \A j \in Chosen(c, R) : i <= j].value
LastOf(c, R, default) ==
  IF Chosen(c, R) = {} THEN default
  ELSE c[CHOOSE i \in Chosen(c, R) : \A j \in Chosen(c, R) : j <= i].value

LEMMA ChosenAppended ==
  ASSUME NEW c \in Seq(Records), NEW r \in Records, NEW R
  PROVE  /\ Chosen(c, R) \in SUBSET (1..Len(c)) /\ Len(c) \in Nat
         /\ Chosen(Append(c, r), R) = Chosen(c, R) \cup (IF r \in R THEN {Len(c) + 1} ELSE {})
         /\ \A i \in 1..Len(c) : Append(c, r)[i] = c[i]
         /\ Append(c, r)[Len(c) + 1] = r
BY DEF Chosen

\* One more comment: the first one stays the first; it is the last one, if it counts.
LEMMA FirstAppended ==
  ASSUME NEW c \in Seq(Records), NEW r \in Records, NEW R, NEW d
  PROVE  FirstOf(Append(c, r), R, d) =
           IF r \in R /\ Chosen(c, R) = {} THEN r.value ELSE FirstOf(c, R, d)
<1> DEFINE S == Chosen(c, R)
           T == Chosen(Append(c, r), R)
           e == Append(c, r)
           Lowest(X) == CHOOSE i \in X : \A j \in X : i <= j
<1>1. /\ S \in SUBSET (1..Len(c)) /\ Len(c) \in Nat
      /\ T = S \cup (IF r \in R THEN {Len(c) + 1} ELSE {})
      /\ \A i \in 1..Len(c) : e[i] = c[i]
      /\ e[Len(c) + 1] = r
  BY ChosenAppended
<1>2. /\ FirstOf(c, R, d) = IF S = {} THEN d ELSE c[Lowest(S)].value
      /\ FirstOf(e, R, d) = IF T = {} THEN d ELSE e[Lowest(T)].value
  BY DEF FirstOf
<1> HIDE DEF S, T, e
<1>3. CASE S = {}
  <2>1. CASE r \in R
    <3>1. T = {Len(c) + 1}
      BY <1>1, <1>3, <2>1
    <3>2. Lowest(T) = Len(c) + 1
      BY <1>1, <3>1
    <3> QED
      BY <1>1, <1>2, <1>3, <2>1, <3>1, <3>2 DEF e, S
  <2>2. CASE r \notin R
    BY <1>1, <1>2, <1>3, <2>2 DEF e
  <2> QED
    BY <2>1, <2>2
<1>4. CASE S # {}
  <2>1. S \in SUBSET Nat
    BY <1>1
  <2>2. PICK m \in S : \A j \in S : m <= j
    BY <1>4, <2>1, SmallestOf
  <2>3. \A i \in S : i <= Len(c) /\ i \in Nat
    BY <1>1
  <2>4. Lowest(S) = m
    BY <2>2, <2>3
  <2>5. m \in T /\ \A j \in T : m <= j /\ j \in Nat
    BY <1>1, <2>2, <2>3
  <2>6. Lowest(T) = m
    BY <2>5
  <2>7. e[m] = c[m]
    BY <1>1, <2>2
  <2> QED
    BY <1>2, <1>4, <2>4, <2>5, <2>6, <2>7 DEF e, S
<1> QED
  BY <1>3, <1>4

LEMMA GreatestOf ==
  ASSUME NEW k \in Nat, NEW S \in SUBSET (1..k), S # {}
  PROVE  \E i \in S : \A j \in S : j <= i
<1> DEFINE N == {n \in Nat : \A j \in S : j <= n}
<1>1. k \in N
  OBVIOUS
<1>2. PICK n \in N : \A m \in N : n <= m
  <2> HIDE DEF N
  <2>1. N \in SUBSET Nat
    BY DEF N
  <2> QED
    BY <1>1, <2>1, SmallestOf
<1>3. n \in S
  <2> SUFFICES ASSUME n \notin S
               PROVE  FALSE
    OBVIOUS
  <2>1. n \in Nat /\ \A j \in S : j \in Nat /\ j >= 1 /\ j <= n /\ j # n
    BY <1>2
  <2> HIDE DEF N
  <2>2. n - 1 \in Nat
    <3>1. PICK i \in S : TRUE
      OBVIOUS
    <3> QED
      BY <2>1, <3>1
  <2>4. \A j \in S : j <= n - 1
    BY <2>1
  <2>3. n - 1 \in N
    BY <2>2, <2>4 DEF N
  <2> QED
    BY <1>2, <2>1, <2>3
<1> QED
  BY <1>2, <1>3

LEMMA LastAppended ==
  ASSUME NEW c \in Seq(Records), NEW r \in Records, NEW R, NEW d
  PROVE  LastOf(Append(c, r), R, d) = IF r \in R THEN r.value ELSE LastOf(c, R, d)
<1> DEFINE S == Chosen(c, R)
           T == Chosen(Append(c, r), R)
           e == Append(c, r)
           Highest(X) == CHOOSE i \in X : \A j \in X : j <= i
<1>1. /\ S \in SUBSET (1..Len(c)) /\ Len(c) \in Nat
      /\ T = S \cup (IF r \in R THEN {Len(c) + 1} ELSE {})
      /\ \A i \in 1..Len(c) : e[i] = c[i]
      /\ e[Len(c) + 1] = r
  BY ChosenAppended
<1>2. /\ LastOf(c, R, d) = IF S = {} THEN d ELSE c[Highest(S)].value
      /\ LastOf(e, R, d) = IF T = {} THEN d ELSE e[Highest(T)].value
  BY DEF LastOf
<1>3. CASE r \in R
  <2> HIDE DEF S, T, e
  <2>0. \A j \in S : j <= Len(c) /\ j \in Nat
    BY <1>1
  <2>1. Len(c) + 1 \in T /\ \A j \in T : j <= Len(c) + 1 /\ j \in Nat
    BY <1>1, <1>3, <2>0
  <2>2. Highest(T) = Len(c) + 1
    <3> DEFINE m == Len(c) + 1
    <3>1. m \in T /\ \A j \in T : j <= m
      BY <2>1
    <3>2. \A i \in T : (\A j \in T : j <= i) => i = m
      BY <1>1, <2>1
    <3> HIDE DEF m
    <3>3. Highest(T) = m
      BY <3>1, <3>2
    <3> QED
      BY <3>3 DEF m
  <2> QED
    BY <1>1, <1>2, <1>3, <2>1, <2>2 DEF e
<1>4. CASE r \notin R /\ S # {}
  <2>1. \E i \in S : \A j \in S : j <= i
    <3> HIDE DEF S
    <3> QED
      BY <1>1, <1>4, GreatestOf
  <2> HIDE DEF S, T, e
  <2>2. T = S
    BY <1>1, <1>4
  <2>3. Highest(S) \in S
    BY <2>1
  <2> QED
    BY <1>1, <1>2, <1>4, <2>2, <2>3 DEF e
<1>5. CASE r \notin R /\ S = {}
  <2> HIDE DEF S, T
  <2> QED
    BY <1>1, <1>2, <1>5
<1> QED
  BY <1>3, <1>4, <1>5

\* The first one, if there is any, is one of them.
LEMMA FirstIs ==
  ASSUME NEW c \in Seq(Records), NEW R, Chosen(c, R) # {}, NEW d
  PROVE  \E r \in R : FirstOf(c, R, d) = r.value
<1> DEFINE S == Chosen(c, R)
           Lowest == CHOOSE i \in S : \A j \in S : i <= j
<1>1. S \in SUBSET Nat /\ \A i \in S : c[i] \in R
  BY DEF Chosen
<1>2. FirstOf(c, R, d) = c[Lowest].value
  BY DEF FirstOf
<1> HIDE DEF S
<1>3. \E i \in S : \A j \in S : i <= j
  BY <1>1, SmallestOf DEF S
<1>4. Lowest \in S
  BY <1>3
<1> QED
  BY <1>1, <1>2, <1>4

LEMMA NoneChosen ==
  ASSUME NEW c, NEW R, Chosen(c, R) = {}, NEW d
  PROVE  FirstOf(c, R, d) = d /\ LastOf(c, R, d) = d
BY DEF FirstOf, LastOf

LEMMA EmptyChosen ==
  ASSUME NEW R, NEW d
  PROVE  FirstOf(<<>>, R, d) = d /\ LastOf(<<>>, R, d) = d
<1>1. Chosen(<<>>, R) = {}
  BY DEF Chosen
<1> QED
  BY <1>1, NoneChosen

-----------------------------------------------------------------------------
(* The attributes are those that the comments give. *)

In(kind, parts) == {r \in Records : r.kind = kind /\ r.part \in parts}
GoodIn(kind, parts) == {r \in In(kind, parts) : r.value # None}
NumberIn(parts) == {r \in GoodIn("Pages", parts) : r.value # 0}
OnPage(kind, n) == {r \in In(kind, {"pages"}) : r.page = n}
GoodOnPage(kind, n) == {r \in OnPage(kind, n) : r.value # None}

BoxValues ==
  \A b \in DocumentBoxes :
    box[b] = LastOf(comments, In(b, {"trailer"}), FirstOf(comments, GoodIn(b, {"comments"}), None))
NumberValue ==
  page_pages = LastOf(comments, GoodIn("Pages", {"trailer"}),
                      FirstOf(comments, NumberIn({"comments"}), 0))
OrientationValue ==
  page_orientation = LastOf(comments, GoodIn("Orientation", {"defaults", "trailer"}),
                            FirstOf(comments, GoodIn("Orientation", {"comments"}), None))

BoxesOfPages ==
  \A n \in 1..Len(page) :
    page[n].bbox = FirstOf(comments, GoodOnPage("PageBoundingBox", n), None)
OrientationsOfPages ==
  \A n \in 1..Len(page) :
    page[n].orientation = LastOf(comments, GoodOnPage("PageOrientation", n), None)
MediaOfPages ==
  \A n \in 1..Len(page) :
    page[n].media \in 1..Len(media) =>
      media[page[n].media] = LastOf(comments, OnPage("PageMedia", n), None)

\* The comments are the first part; no comment belongs to a page that has not begun.
PartsSoFar ==
  /\ part = "comments" => page = <<>> /\ \A i \in 1..Len(comments) : comments[i].part = "comments"
  /\ \A i \in 1..Len(comments) : comments[i].page <= Len(page)

AttributesInv ==
  /\ Dsc!TypeOK /\ comments \in Seq(Records) /\ PartsSoFar
  /\ BoxValues /\ NumberValue /\ OrientationValue
  /\ BoxesOfPages /\ OrientationsOfPages /\ MediaOfPages

LEMMA ValuesGiven ==
  ASSUME AttributesInv
  PROVE  Dsc!DocumentValues /\ Dsc!PageValues
<1>1. comments \in Seq(Records) /\ \A i \in 1..Len(comments) : comments[i] \in Records
  BY DEF AttributesInv
<1>2. ASSUME NEW kind, NEW parts
      PROVE  /\ Dsc!Given(kind, parts) = Chosen(comments, In(kind, parts))
             /\ Dsc!Good(Dsc!Given(kind, parts)) = Chosen(comments, GoodIn(kind, parts))
  BY <1>1 DEF Dsc!Given, Dsc!Good, Chosen, In, GoodIn
<1>3. {i \in Dsc!Good(Dsc!Given("Pages", {"comments"})) : comments[i].value # 0}
        = Chosen(comments, NumberIn({"comments"}))
  BY <1>1, <1>2 DEF Chosen, NumberIn
<1>4. ASSUME NEW kind, NEW n
      PROVE  /\ Dsc!GivenInPage(kind, n) = Chosen(comments, OnPage(kind, n))
             /\ Dsc!Good(Dsc!GivenInPage(kind, n)) = Chosen(comments, GoodOnPage(kind, n))
  BY <1>1, <1>2 DEF Dsc!GivenInPage, Dsc!Good, Chosen, OnPage, GoodOnPage
<1>5. ASSUME NEW R, NEW d
      PROVE  /\ Dsc!FirstOr(Chosen(comments, R), d) = FirstOf(comments, R, d)
             /\ Dsc!LastOr(Chosen(comments, R), d) = LastOf(comments, R, d)
  BY DEF Dsc!FirstOr, Dsc!LastOr, FirstOf, LastOf
<1>6. Dsc!DocumentValues
  <2>1. ASSUME NEW b \in DocumentBoxes
        PROVE  box[b] = Dsc!LastOr(Dsc!Given(b, {"trailer"}),
                                   Dsc!FirstOr(Dsc!Good(Dsc!Given(b, {"comments"})), None))
    BY <1>2, <1>5 DEF AttributesInv, BoxValues
  <2> DEFINE inHeader == {i \in Dsc!Good(Dsc!Given("Pages", {"comments"})) : comments[i].value # 0}
             trailer == Dsc!Good(Dsc!Given("Pages", {"trailer"}))
  <2>2. page_pages = Dsc!LastOr(trailer, Dsc!FirstOr(inHeader, 0))
    <3>1. inHeader = Chosen(comments, NumberIn({"comments"}))
      BY <1>3
    <3>2. trailer = Chosen(comments, GoodIn("Pages", {"trailer"}))
      BY <1>2
    <3> HIDE DEF inHeader, trailer
    <3> QED
      BY <1>5, <3>1, <3>2 DEF AttributesInv, NumberValue
  <2>3. page_orientation =
          Dsc!LastOr(Dsc!Good(Dsc!Given("Orientation", {"defaults", "trailer"})),
                     Dsc!FirstOr(Dsc!Good(Dsc!Given("Orientation", {"comments"})), None))
    BY <1>2, <1>5 DEF AttributesInv, OrientationValue
  <2> QED
    BY <2>1, <2>2, <2>3 DEF Dsc!DocumentValues
<1>7. Dsc!PageValues
  BY <1>4, <1>5
  DEF AttributesInv, BoxesOfPages, OrientationsOfPages, MediaOfPages, Dsc!PageValues
<1> QED
  BY <1>6, <1>7

-----------------------------------------------------------------------------
(* A comment of another kind leaves a value as it is. *)

LEMMA Recorded ==
  ASSUME Dsc!TypeOK, NEW k \in Kinds, NEW v \in Values, Dsc!Comment(k, v)
  PROVE  \E r \in Records : /\ comments' = Append(comments, r)
                            /\ r.kind = k /\ r.value = v /\ r.part = part /\ r.page = Len(page)
<1> DEFINE r == [kind |-> k, value |-> v, part |-> part, page |-> Len(page)]
<1>1. part \in Parts /\ Len(page) \in Nat
  BY DEF Dsc!TypeOK, Parts
<1>2. r \in Records
  BY <1>1 DEF Records
<1> QED
  BY <1>2 DEF Dsc!Comment

LEMMA BoxesStay ==
  ASSUME comments \in Seq(Records), BoxValues, UNCHANGED box,
         NEW r \in Records, comments' = Append(comments, r), r.kind \notin DocumentBoxes
  PROVE  BoxValues'
<1> SUFFICES ASSUME NEW b \in DocumentBoxes
             PROVE  box[b] = LastOf(comments', In(b, {"trailer"}),
                                    FirstOf(comments', GoodIn(b, {"comments"}), None))
  BY DEF BoxValues
<1>1. r \notin In(b, {"trailer"}) /\ r \notin GoodIn(b, {"comments"})
  BY DEF In, GoodIn
<1> QED
  BY <1>1, FirstAppended, LastAppended DEF BoxValues

LEMMA NumberStays ==
  ASSUME comments \in Seq(Records), NumberValue, UNCHANGED page_pages,
         NEW r \in Records, comments' = Append(comments, r), r.kind # "Pages"
  PROVE  NumberValue'
<1>1. r \notin GoodIn("Pages", {"trailer"}) /\ r \notin NumberIn({"comments"})
  BY DEF In, GoodIn, NumberIn
<1> QED
  BY <1>1, FirstAppended, LastAppended DEF NumberValue

LEMMA OrientationStays ==
  ASSUME comments \in Seq(Records), OrientationValue, UNCHANGED page_orientation,
         NEW r \in Records, comments' = Append(comments, r), r.kind # "Orientation"
  PROVE  OrientationValue'
<1>1. /\ r \notin GoodIn("Orientation", {"defaults", "trailer"})
      /\ r \notin GoodIn("Orientation", {"comments"})
  BY DEF In, GoodIn
<1> QED
  BY <1>1, FirstAppended, LastAppended DEF OrientationValue

PageKinds == {"PageBoundingBox", "PageOrientation", "PageMedia"}

\* The media that pages have are those they had.
MediaKept ==
  \A n \in 1..Len(page) :
    page[n].media \in 1..Len(media') =>
      page[n].media \in 1..Len(media) /\ media'[page[n].media] = media[page[n].media]

LEMMA PagesKept ==
  ASSUME comments \in Seq(Records), BoxesOfPages, OrientationsOfPages, MediaOfPages,
         UNCHANGED page, MediaKept,
         NEW r \in Records, comments' = Append(comments, r),
         r.kind \notin PageKinds \/ r.part # "pages"
  PROVE  BoxesOfPages' /\ OrientationsOfPages' /\ MediaOfPages'
<1>1. ASSUME NEW n
      PROVE  /\ r \notin GoodOnPage("PageBoundingBox", n)
             /\ r \notin GoodOnPage("PageOrientation", n) /\ r \notin OnPage("PageMedia", n)
  BY DEF In, OnPage, GoodOnPage, PageKinds
<1>2. ASSUME NEW n \in 1..Len(page)
      PROVE  page[n].bbox = FirstOf(comments', GoodOnPage("PageBoundingBox", n), None)
  BY <1>1, FirstAppended DEF BoxesOfPages
<1>3. ASSUME NEW n \in 1..Len(page)
      PROVE  page[n].orientation = LastOf(comments', GoodOnPage("PageOrientation", n), None)
  BY <1>1, LastAppended DEF OrientationsOfPages
<1>4. ASSUME NEW n \in 1..Len(page), page[n].media \in 1..Len(media')
      PROVE  media'[page[n].media] = LastOf(comments', OnPage("PageMedia", n), None)
  <2>1. /\ page[n].media \in 1..Len(media)
        /\ media'[page[n].media] = media[page[n].media]
    BY <1>4 DEF MediaKept
  <2> QED
    BY <1>1, <2>1, LastAppended DEF MediaOfPages
<1> QED
  BY <1>2, <1>3, <1>4 DEF BoxesOfPages, OrientationsOfPages, MediaOfPages

\* A comment that changes neither the part nor the pages nor their media.
LEMMA DocumentComment ==
  ASSUME AttributesInv, Dsc!TypeOK', UNCHANGED <<part, page>>, MediaKept,
         NEW r \in Records, comments' = Append(comments, r), r.part = part, r.page = Len(page),
         r.kind \notin PageKinds \/ part # "pages",
         BoxValues', NumberValue', OrientationValue'
  PROVE  AttributesInv'
<1>1. comments \in Seq(Records) /\ comments' \in Seq(Records)
  BY DEF AttributesInv
<1>2. PartsSoFar'
  <2>1. /\ Len(comments) \in Nat /\ Len(comments') = Len(comments) + 1
        /\ \A i \in 1..Len(comments) : comments'[i] = comments[i]
        /\ comments'[Len(comments) + 1] = r
    BY <1>1
  <2>2. Len(page) \in Nat
    BY DEF AttributesInv, Dsc!TypeOK
  <2> QED
    BY <2>1, <2>2 DEF AttributesInv, PartsSoFar
<1>3. BoxesOfPages' /\ OrientationsOfPages' /\ MediaOfPages'
  BY <1>1, PagesKept DEF AttributesInv
<1> QED
  BY <1>1, <1>2, <1>3 DEF AttributesInv

LEMMA EnterStep ==
  AttributesInv /\ Dsc!TypeOK' /\ Dsc!Enter => AttributesInv'
<1> SUFFICES ASSUME AttributesInv, Dsc!TypeOK', Dsc!Enter
             PROVE  AttributesInv'
  OBVIOUS
<1>1. UNCHANGED <<box, page_pages, page_orientation, media, page, comments>>
  BY DEF Dsc!Enter, Dsc!docVars
<1>2. part' # "comments"
  BY DEF Dsc!Enter
<1> QED
  BY <1>1, <1>2 DEF AttributesInv, PartsSoFar, BoxValues, NumberValue, OrientationValue,
                    BoxesOfPages, OrientationsOfPages, MediaOfPages

LEMMA BoxStep ==
  AttributesInv /\ Dsc!TypeOK' /\ Dsc!DocumentBox => AttributesInv'
<1> SUFFICES ASSUME AttributesInv, Dsc!TypeOK', Dsc!DocumentBox
             PROVE  AttributesInv'
  OBVIOUS
<1>1. PICK b \in DocumentBoxes, v \in Boxes \cup {None} :
        Dsc!Comment(b, v) /\ box' = [box EXCEPT ![b] = Dsc!ParseBox(@, v)]
  BY DEF Dsc!DocumentBox
<1>2. /\ part \in {"comments", "trailer"} /\ UNCHANGED <<part, page, media>>
      /\ UNCHANGED <<page_pages, page_orientation>>
  BY DEF Dsc!DocumentBox, Dsc!InDocument
<1>3. b \in Kinds /\ v \in Values /\ b \notin PageKinds /\ b # "Pages" /\ b # "Orientation"
  <2>1. b \in {"BoundingBox", "HiResBoundingBox", "CropBox"}
    BY CommentsAssumption
  <2>2. v \in Values
    BY DEF Values
  <2> QED
    BY <2>1, <2>2 DEF PageKinds, Kinds
<1>4. PICK r \in Records : /\ comments' = Append(comments, r)
                           /\ r.kind = b /\ r.value = v /\ r.part = part /\ r.page = Len(page)
  BY <1>1, <1>3, Recorded DEF AttributesInv
<1>5. NumberValue' /\ OrientationValue'
  BY <1>2, <1>3, <1>4, NumberStays, OrientationStays DEF AttributesInv
<1>6. BoxValues'
  <2> SUFFICES ASSUME NEW d \in DocumentBoxes
               PROVE  box'[d] = LastOf(comments', In(d, {"trailer"}),
                                       FirstOf(comments', GoodIn(d, {"comments"}), None))
    BY DEF BoxValues
  <2> DEFINE T == In(d, {"trailer"})
             C == GoodIn(d, {"comments"})
  <2>1. box[d] = LastOf(comments, T, FirstOf(comments, C, None))
    BY DEF AttributesInv, BoxValues
  <2>2. /\ r \in T <=> d = b /\ part = "trailer"
        /\ r \in C <=> d = b /\ part = "comments" /\ v # None
    BY <1>4 DEF In, GoodIn
  <2>3. comments \in Seq(Records)
    BY DEF AttributesInv
  <2>4. C \in SUBSET {s \in Records : s.value # None}
    BY DEF GoodIn, In
  <2>5. part = "comments" => Chosen(comments, T) = {}
    BY DEF AttributesInv, PartsSoFar, Chosen, In
  <2> HIDE DEF T, C
  <2>6. /\ LastOf(comments', T, FirstOf(comments', C, None)) =
             IF r \in T THEN v ELSE LastOf(comments, T, FirstOf(comments', C, None))
        /\ FirstOf(comments', C, None) =
             IF r \in C /\ Chosen(comments, C) = {} THEN v ELSE FirstOf(comments, C, None)
    BY <1>4, <2>3, FirstAppended, LastAppended
  <2>7. box'[d] = IF d = b THEN Dsc!ParseBox(box[d], v) ELSE box[d]
    BY <1>1 DEF AttributesInv, Dsc!TypeOK
  <2>8. CASE d # b
    BY <2>1, <2>2, <2>6, <2>7, <2>8 DEF T, C
  <2>9. CASE d = b /\ part = "trailer"
    BY <2>2, <2>6, <2>7, <2>9 DEF T, C, Dsc!ParseBox
  <2>10. CASE d = b /\ part = "comments"
    <3>1. LastOf(comments, T, FirstOf(comments', C, None)) = FirstOf(comments', C, None)
      BY <2>5, <2>10, NoneChosen
    <3>2. box[d] = FirstOf(comments, C, None)
      BY <2>1, <2>5, <2>10, NoneChosen
    <3>3. Chosen(comments, C) = {} => box[d] = None
      BY <3>2, NoneChosen
    <3>4. Chosen(comments, C) # {} => box[d] # None
      <4>1. Chosen(comments, C) # {} => \E s \in C : FirstOf(comments, C, None) = s.value
        BY <2>3, FirstIs
      <4> QED
        BY <2>4, <3>2, <4>1
    <3> QED
      BY <2>2, <2>6, <2>7, <2>10, <3>1, <3>2, <3>3, <3>4 DEF T, C, Dsc!ParseBox
  <2> QED
    BY <1>2, <2>8, <2>9, <2>10
<1>7. MediaKept
  BY <1>2 DEF MediaKept
<1> QED
  BY <1>2, <1>3, <1>4, <1>5, <1>6, <1>7, DocumentComment

\* A comment of the document that gives no box: what it leaves as it is.
LEMMA OtherKind ==
  ASSUME AttributesInv, NEW k \in Kinds \ DocumentBoxes, NEW v \in Values, Dsc!Comment(k, v)
  PROVE  \E r \in Records :
           /\ comments' = Append(comments, r)
           /\ r.kind = k /\ r.value = v /\ r.part = part /\ r.page = Len(page)
           /\ UNCHANGED box => BoxValues'
           /\ UNCHANGED page_pages /\ k # "Pages" => NumberValue'
           /\ UNCHANGED page_orientation /\ k # "Orientation" => OrientationValue'
<1>1. PICK r \in Records : /\ comments' = Append(comments, r)
                           /\ r.kind = k /\ r.value = v /\ r.part = part /\ r.page = Len(page)
  BY Recorded DEF AttributesInv
<1>2. UNCHANGED box => BoxValues'
  BY <1>1, BoxesStay DEF AttributesInv
<1>3. UNCHANGED page_pages /\ k # "Pages" => NumberValue'
  BY <1>1, NumberStays DEF AttributesInv
<1>4. UNCHANGED page_orientation /\ k # "Orientation" => OrientationValue'
  BY <1>1, OrientationStays DEF AttributesInv
<1> QED
  BY <1>1, <1>2, <1>3, <1>4

LEMMA OtherKinds ==
  Kinds \ DocumentBoxes =
    {"Page", "Pages", "PageOrder", "Orientation", "DocumentMedia", "DocumentPaperSizes",
     "PageBoundingBox", "PageOrientation", "PageMedia", "PaperSize"}
BY CommentsAssumption DEF Kinds

LEMMA NumberStep ==
  AttributesInv /\ Dsc!TypeOK' /\ Dsc!Pages => AttributesInv'
<1> SUFFICES ASSUME AttributesInv, Dsc!TypeOK', Dsc!Pages
             PROVE  AttributesInv'
  OBVIOUS
<1>1. PICK n \in Numbers \cup {None}, o \in Dsc!Orders \cup {None} :
        /\ Dsc!Comment("Pages", n)
        /\ IF n = None \/ (page_pages # 0 /\ part = "comments")
             THEN UNCHANGED <<page_pages, page_order>>
             ELSE page_pages' = n /\ page_order' = IF page_order = None THEN o ELSE page_order
  BY DEF Dsc!Pages
<1>2. /\ part \in {"comments", "trailer"} /\ UNCHANGED <<part, page, media>>
      /\ UNCHANGED <<box, page_orientation>>
  BY DEF Dsc!Pages, Dsc!InDocument
<1>3. n \in Values /\ "Pages" \in Kinds \ DocumentBoxes
  BY OtherKinds DEF Values
<1>4. PICK r \in Records : /\ comments' = Append(comments, r)
                           /\ r.kind = "Pages" /\ r.value = n /\ r.part = part
                           /\ r.page = Len(page)
                           /\ BoxValues' /\ OrientationValue'
  BY <1>1, <1>2, <1>3, OtherKind
<1> DEFINE T == GoodIn("Pages", {"trailer"})
           C == NumberIn({"comments"})
<1>5. NumberValue'
  <2>1. page_pages = LastOf(comments, T, FirstOf(comments, C, 0))
    BY DEF AttributesInv, NumberValue
  <2>2. /\ r \in T <=> part = "trailer" /\ n # None
        /\ r \in C <=> part = "comments" /\ n # None /\ n # 0
    BY <1>4 DEF In, GoodIn, NumberIn
  <2>3. comments \in Seq(Records)
    BY DEF AttributesInv
  <2>4. C \in SUBSET {s \in Records : s.value # 0}
    BY DEF NumberIn, GoodIn, In
  <2>5. part = "comments" => Chosen(comments, T) = {}
    BY DEF AttributesInv, PartsSoFar, Chosen, In, GoodIn
  <2>6. page_pages' = IF n = None \/ (page_pages # 0 /\ part = "comments") THEN page_pages ELSE n
    BY <1>1
  <2> SUFFICES page_pages' = LastOf(comments', T, FirstOf(comments', C, 0))
    BY DEF NumberValue
  <2> HIDE DEF T, C
  <2>7. /\ LastOf(comments', T, FirstOf(comments', C, 0)) =
             IF r \in T THEN n ELSE LastOf(comments, T, FirstOf(comments', C, 0))
        /\ FirstOf(comments', C, 0) =
             IF r \in C /\ Chosen(comments, C) = {} THEN n ELSE FirstOf(comments, C, 0)
    BY <1>4, <2>3, FirstAppended, LastAppended
  <2>8. CASE part = "trailer"
    BY <2>1, <2>2, <2>6, <2>7, <2>8
  <2>9. CASE part = "comments"
    <3>1. /\ LastOf(comments, T, FirstOf(comments', C, 0)) = FirstOf(comments', C, 0)
          /\ page_pages = FirstOf(comments, C, 0)
      BY <2>1, <2>5, <2>9, NoneChosen
    <3>2. Chosen(comments, C) = {} => page_pages = 0
      BY <3>1, NoneChosen
    <3>3. Chosen(comments, C) # {} => page_pages # 0
      <4>1. Chosen(comments, C) # {} => \E s \in C : FirstOf(comments, C, 0) = s.value
        BY <2>3, FirstIs
      <4> QED
        BY <2>4, <3>1, <4>1
    <3> QED
      BY <2>2, <2>6, <2>7, <2>9, <3>1, <3>2, <3>3
  <2> QED
    BY <1>2, <2>8, <2>9
<1>6. MediaKept
  BY <1>2 DEF MediaKept
<1>7. r.kind \notin PageKinds
  BY <1>4 DEF PageKinds
<1> QED
  BY <1>2, <1>4, <1>5, <1>6, <1>7, DocumentComment

LEMMA OrientationStep ==
  AttributesInv /\ Dsc!TypeOK' /\ Dsc!Orientation => AttributesInv'
<1> SUFFICES ASSUME AttributesInv, Dsc!TypeOK', Dsc!Orientation
             PROVE  AttributesInv'
  OBVIOUS
<1>1. PICK o \in Dsc!Orientations \cup {None} :
        /\ Dsc!Comment("Orientation", o)
        /\ page_orientation' = Dsc!ParseOrientation(page_orientation, o)
  BY DEF Dsc!Orientation
<1>2. /\ part \in {"comments", "defaults", "trailer"} /\ UNCHANGED <<part, page, media>>
      /\ UNCHANGED <<box, page_pages>>
  BY DEF Dsc!Orientation
<1>3. o \in Values /\ "Orientation" \in Kinds \ DocumentBoxes
  BY OtherKinds DEF Values
<1>4. PICK r \in Records : /\ comments' = Append(comments, r)
                           /\ r.kind = "Orientation" /\ r.value = o /\ r.part = part
                           /\ r.page = Len(page)
                           /\ BoxValues' /\ NumberValue'
  BY <1>1, <1>2, <1>3, OtherKind
<1> DEFINE T == GoodIn("Orientation", {"defaults", "trailer"})
           C == GoodIn("Orientation", {"comments"})
<1>5. OrientationValue'
  <2>1. page_orientation = LastOf(comments, T, FirstOf(comments, C, None))
    BY DEF AttributesInv, OrientationValue
  <2>2. /\ r \in T <=> part \in {"defaults", "trailer"} /\ o # None
        /\ r \in C <=> part = "comments" /\ o # None
    BY <1>4 DEF In, GoodIn
  <2>3. comments \in Seq(Records)
    BY DEF AttributesInv
  <2>4. C \in SUBSET {s \in Records : s.value # None}
    BY DEF GoodIn, In
  <2>5. part = "comments" => Chosen(comments, T) = {}
    BY DEF AttributesInv, PartsSoFar, Chosen, In, GoodIn
  <2>6. page_orientation' = IF o = None \/ (page_orientation # None /\ part = "comments")
                              THEN page_orientation ELSE o
    BY <1>1 DEF Dsc!ParseOrientation
  <2> SUFFICES page_orientation' = LastOf(comments', T, FirstOf(comments', C, None))
    BY DEF OrientationValue
  <2> HIDE DEF T, C
  <2>7. /\ LastOf(comments', T, FirstOf(comments', C, None)) =
             IF r \in T THEN o ELSE LastOf(comments, T, FirstOf(comments', C, None))
        /\ FirstOf(comments', C, None) =
             IF r \in C /\ Chosen(comments, C) = {} THEN o ELSE FirstOf(comments, C, None)
    BY <1>4, <2>3, FirstAppended, LastAppended
  <2>8. CASE part \in {"defaults", "trailer"}
    BY <2>1, <2>2, <2>6, <2>7, <2>8
  <2>9. CASE part = "comments"
    <3>1. /\ LastOf(comments, T, FirstOf(comments', C, None)) = FirstOf(comments', C, None)
          /\ page_orientation = FirstOf(comments, C, None)
      BY <2>1, <2>5, <2>9, NoneChosen
    <3>2. Chosen(comments, C) = {} => page_orientation = None
      BY <3>1, NoneChosen
    <3>3. Chosen(comments, C) # {} => page_orientation # None
      <4>1. Chosen(comments, C) # {} => \E s \in C : FirstOf(comments, C, None) = s.value
        BY <2>3, FirstIs
      <4> QED
        BY <2>4, <3>1, <4>1
    <3> QED
      BY <2>2, <2>6, <2>7, <2>9, <3>1, <3>2, <3>3
  <2> QED
    BY <1>2, <2>8, <2>9
<1>6. MediaKept
  BY <1>2 DEF MediaKept
<1>7. r.kind \notin PageKinds
  BY <1>4 DEF PageKinds
<1> QED
  BY <1>2, <1>4, <1>5, <1>6, <1>7, DocumentComment

LEMMA QuietComment ==
  ASSUME AttributesInv, Dsc!TypeOK', MediaKept,
         UNCHANGED <<part, page, box, page_pages, page_orientation>>,
         NEW k \in Kinds \ DocumentBoxes, NEW v \in Values, Dsc!Comment(k, v),
         k # "Pages", k # "Orientation", k \notin PageKinds \/ part # "pages"
  PROVE  AttributesInv'
<1>1. PICK r \in Records : /\ comments' = Append(comments, r)
                           /\ r.kind = k /\ r.value = v /\ r.part = part /\ r.page = Len(page)
                           /\ BoxValues' /\ NumberValue' /\ OrientationValue'
  BY OtherKind
<1> QED
  BY <1>1, DocumentComment

LEMMA QuietStep ==
  /\ AttributesInv /\ Dsc!TypeOK'
  /\ Dsc!PageOrder \/ Dsc!DefaultBox \/ Dsc!DefaultMedium
  => AttributesInv'
<1> SUFFICES ASSUME AttributesInv, Dsc!TypeOK',
                    Dsc!PageOrder \/ Dsc!DefaultBox \/ Dsc!DefaultMedium
             PROVE  AttributesInv'
  OBVIOUS
<1>1. UNCHANGED <<part, page, media, box, page_pages, page_orientation>>
  BY DEF Dsc!PageOrder, Dsc!InDocument, Dsc!DefaultBox, Dsc!DefaultMedium
<1>2. MediaKept
  BY <1>1 DEF MediaKept
<1>3. CASE Dsc!PageOrder
  <2>1. PICK o \in Dsc!Orders \cup {None} : Dsc!Comment("PageOrder", o)
    BY <1>3 DEF Dsc!PageOrder
  <2>2. o \in Values /\ "PageOrder" \in Kinds \ DocumentBoxes /\ "PageOrder" \notin PageKinds
    BY OtherKinds DEF Values, PageKinds
  <2> QED
    BY <1>1, <1>2, <2>1, <2>2, QuietComment
<1>4. CASE Dsc!DefaultBox
  <2>1. PICK v \in Boxes \cup {None} : Dsc!Comment("PageBoundingBox", v)
    BY <1>4 DEF Dsc!DefaultBox
  <2>2. v \in Values /\ "PageBoundingBox" \in Kinds \ DocumentBoxes /\ part # "pages"
    BY <1>4, OtherKinds DEF Values, Dsc!DefaultBox
  <2> QED
    BY <1>1, <1>2, <2>1, <2>2, QuietComment
<1>5. CASE Dsc!DefaultMedium
  <2>1. PICK n \in Names : \/ part = "defaults" /\ Dsc!Comment("PageMedia", n)
                           \/ Dsc!Comment("PaperSize", n)
    BY <1>5 DEF Dsc!DefaultMedium
  <2>2. /\ n \in Values /\ "PageMedia" \in Kinds \ DocumentBoxes
        /\ "PaperSize" \in Kinds \ DocumentBoxes /\ "PaperSize" \notin PageKinds
    BY OtherKinds DEF Values, PageKinds
  <2> QED
    BY <1>1, <1>2, <2>1, <2>2, QuietComment
<1> QED
  BY <1>3, <1>4, <1>5

LEMMA PageIs ==
  ASSUME AttributesInv
  PROVE  /\ Len(page) \in Nat /\ page \in Seq(PageRecords(Len(media)))
         /\ \A n \in 1..Len(page) : /\ page[n].media \in Dsc!Medium
                                    /\ page[n] \in PageRecords(Len(media))
<1>1. page \in Seq(PageRecords(Len(media)))
  BY DEF AttributesInv, Dsc!TypeOK, Dsc!Medium, Dsc!Orientations, PageRecords
<1>2. \A n \in 1..Len(page) : page[n] \in PageRecords(Len(media))
  BY <1>1
<1> QED
  BY <1>1, <1>2 DEF PageRecords, Dsc!Medium

\* New media come behind those that pages may have; before the pages, names may change.
LEMMA MediaStep ==
  AttributesInv /\ Dsc!TypeOK' /\ (Dsc!DocumentMedia \/ Dsc!PaperSizes) => AttributesInv'
<1> SUFFICES ASSUME AttributesInv, Dsc!TypeOK', Dsc!DocumentMedia \/ Dsc!PaperSizes
             PROVE  AttributesInv'
  OBVIOUS
<1>1. UNCHANGED <<part, page, box, page_pages, page_orientation>>
  BY DEF Dsc!DocumentMedia, Dsc!InDocument, Dsc!PaperSizes
<1>2. CASE Dsc!DocumentMedia
  <2>1. PICK n \in Names : Dsc!Comment("DocumentMedia", n) /\ media' = Append(media, n)
    BY <1>2 DEF Dsc!DocumentMedia
  <2>2. /\ n \in Values /\ "DocumentMedia" \in Kinds \ DocumentBoxes
        /\ "DocumentMedia" \notin PageKinds
    BY OtherKinds DEF Values, PageKinds
  <2>3. /\ media \in Seq(Names) /\ Len(media) \in Nat
        /\ \A i \in 1..Len(page) : page[i].media \in Dsc!Medium
    BY PageIs DEF AttributesInv, Dsc!TypeOK
  <2>4. MediaKept
    <3> SUFFICES ASSUME NEW i \in 1..Len(page), page[i].media \in 1..Len(media')
                 PROVE  /\ page[i].media \in 1..Len(media)
                        /\ media'[page[i].media] = media[page[i].media]
      BY DEF MediaKept
    <3>1. page[i].media \in 1..Len(media)
      <4>1. Len(media') \in Nat
        BY <2>1, <2>3
      <4>2. page[i].media \in Nat
        BY <4>1
      <4>3. page[i].media # None /\ page[i].media \notin KnownNames
        BY <4>2, CommentsAssumption
      <4> QED
        BY <2>3, <4>3 DEF Dsc!Medium
    <3> QED
      BY <2>1, <2>3, <3>1
  <2> QED
    BY <1>1, <2>1, <2>2, <2>4, QuietComment
<1>3. CASE Dsc!PaperSizes
  <2>1. PICK s \in UNION {[1..k -> Names] : k \in 1..2} : Dsc!Comment("DocumentPaperSizes", s)
    BY <1>3 DEF Dsc!PaperSizes
  <2>2. s \in Seq(Names)
    <3>1. PICK k \in 1..2 : s \in [1..k -> Names]
      BY <2>1
    <3>2. k \in Nat
      OBVIOUS
    <3> QED
      BY <3>1, <3>2
  <2>3. /\ s \in Values /\ "DocumentPaperSizes" \in Kinds \ DocumentBoxes
        /\ "DocumentPaperSizes" \notin PageKinds
    BY <2>2, OtherKinds DEF Values, PageKinds
  <2>4. page = <<>>
    BY <1>3 DEF AttributesInv, PartsSoFar, Dsc!PaperSizes
  <2>5. MediaKept
    BY <2>4 DEF MediaKept
  <2> QED
    BY <1>1, <2>1, <2>3, <2>5, QuietComment
<1> QED
  BY <1>2, <1>3

\* A new page has nothing yet, and no comment belongs to it.
LEMMA PageStep ==
  AttributesInv /\ Dsc!TypeOK' /\ Dsc!Page => AttributesInv'
<1> SUFFICES ASSUME AttributesInv, Dsc!TypeOK', Dsc!Page
             PROVE  AttributesInv'
  OBVIOUS
<1>1. /\ Dsc!Comment("Page", None) /\ part' = "pages" /\ page' = Append(page, Dsc!NewPage)
      /\ UNCHANGED <<box, page_pages, page_orientation, media>>
  BY DEF Dsc!Page, Dsc!docVars
<1>2. None \in Values /\ "Page" \in Kinds \ DocumentBoxes /\ "Page" \notin PageKinds
  BY OtherKinds DEF Values, PageKinds
<1>3. PICK r \in Records : /\ comments' = Append(comments, r)
                           /\ r.kind = "Page" /\ r.part = part /\ r.page = Len(page)
                           /\ BoxValues' /\ NumberValue' /\ OrientationValue'
  BY <1>1, <1>2, OtherKind
<1> DEFINE last == Len(page) + 1
<1>4. /\ Len(page) \in Nat /\ Len(page') = last
      /\ \A n \in 1..Len(page) : page'[n] = page[n]
      /\ page'[last] = Dsc!NewPage
  BY <1>1, PageIs
<1>5. /\ comments \in Seq(Records) /\ comments' \in Seq(Records)
      /\ Len(comments) \in Nat /\ Len(comments') = Len(comments) + 1
      /\ \A i \in 1..Len(comments) : comments'[i] = comments[i]
      /\ comments'[Len(comments) + 1] = r
  BY <1>3 DEF AttributesInv
<1>6. \A i \in 1..Len(comments') : comments'[i].page <= Len(page)
  BY <1>3, <1>4, <1>5 DEF AttributesInv, PartsSoFar
<1>7. PartsSoFar'
  <2>1. \A i \in 1..Len(comments') : comments'[i].page \in Nat
    <3>1. \A s \in Records : s.page \in Nat
      BY DEF Records
    <3>2. \A i \in 1..Len(comments') : comments'[i] \in Records
      BY <1>5
    <3> QED
      BY <3>1, <3>2
  <2>2. \A i \in 1..Len(comments') : comments'[i].page <= Len(page')
    BY <1>4, <1>6, <2>1
  <2> QED
    BY <1>1, <2>2 DEF PartsSoFar
<1>8. ASSUME NEW n
      PROVE  /\ r \notin GoodOnPage("PageBoundingBox", n)
             /\ r \notin GoodOnPage("PageOrientation", n) /\ r \notin OnPage("PageMedia", n)
  BY <1>3 DEF In, OnPage, GoodOnPage
<1>9. /\ Chosen(comments', GoodOnPage("PageBoundingBox", last)) = {}
      /\ Chosen(comments', GoodOnPage("PageOrientation", last)) = {}
  <2>1. ASSUME NEW i \in 1..Len(comments')
        PROVE  comments'[i].page # last
    BY <1>4, <1>5, <1>6 DEF Records
  <2> HIDE DEF last
  <2> QED
    BY <2>1 DEF Chosen, OnPage, GoodOnPage
<1>10. BoxesOfPages'
  <2> SUFFICES ASSUME NEW n \in 1..last
               PROVE  page'[n].bbox = FirstOf(comments', GoodOnPage("PageBoundingBox", n), None)
    BY <1>4 DEF BoxesOfPages
  <2>1. CASE n = last
    BY <1>4, <1>9, <2>1, NoneChosen DEF Dsc!NewPage
  <2>2. CASE n \in 1..Len(page)
    <3>1. page'[n].bbox = FirstOf(comments, GoodOnPage("PageBoundingBox", n), None)
      BY <1>4, <2>2 DEF AttributesInv, BoxesOfPages
    <3> QED
      BY <1>3, <1>5, <1>8, <3>1, FirstAppended
  <2> QED
    BY <1>4, <2>1, <2>2
<1>11. OrientationsOfPages'
  <2> SUFFICES ASSUME NEW n \in 1..last
               PROVE  page'[n].orientation =
                        LastOf(comments', GoodOnPage("PageOrientation", n), None)
    BY <1>4 DEF OrientationsOfPages
  <2>1. CASE n = last
    BY <1>4, <1>9, <2>1, NoneChosen DEF Dsc!NewPage
  <2>2. CASE n \in 1..Len(page)
    <3>1. page'[n].orientation = LastOf(comments, GoodOnPage("PageOrientation", n), None)
      BY <1>4, <2>2 DEF AttributesInv, OrientationsOfPages
    <3> QED
      BY <1>3, <1>5, <1>8, <3>1, LastAppended
  <2> QED
    BY <1>4, <2>1, <2>2
<1>12. MediaOfPages'
  <2> SUFFICES ASSUME NEW n \in 1..last, page'[n].media \in 1..Len(media)
               PROVE  media[page'[n].media] = LastOf(comments', OnPage("PageMedia", n), None)
    BY <1>1, <1>4 DEF MediaOfPages
  <2>1. n # last
    <3>1. Len(media) \in Nat
      BY DEF AttributesInv, Dsc!TypeOK
    <3> QED
      BY <1>4, <3>1, CommentsAssumption DEF Dsc!NewPage
  <2>2. n \in 1..Len(page)
    BY <1>4, <2>1
  <2>3. media[page'[n].media] = LastOf(comments, OnPage("PageMedia", n), None)
    BY <1>4, <2>2 DEF AttributesInv, MediaOfPages
  <2> QED
    BY <1>3, <1>5, <1>8, <2>3, LastAppended
<1> QED
  BY <1>3, <1>5, <1>7, <1>10, <1>11, <1>12 DEF AttributesInv

LEMMA FoundIs ==
  ASSUME NEW n, Dsc!Listed(n), media \in Seq(Names)
  PROVE  Dsc!Found(n) \in 1..Len(media) /\ media[Dsc!Found(n)] = n
<1>1. \E i \in 1..Len(media) : media[i] = n /\ \A j \in 1..i-1 : media[j] # n
  <2>1. PICK k \in 1..Len(media) : media[k] = n
    BY DEF Dsc!Listed
  <2> DEFINE S == {i \in Nat : i \in 1..Len(media) /\ media[i] = n}
  <2>2. k \in S /\ S \subseteq Nat /\ Len(media) \in Nat
    BY <2>1
  <2>3. PICK i \in S : \A j \in S : i <= j
    BY <2>2, SmallestOf
  <2> QED
    BY <2>2, <2>3
<1> QED
  BY <1>1 DEF Dsc!Found

\* A comment within the pages: what it says is said of the last one.
LEMMA AttributeStep ==
  AttributesInv /\ Dsc!TypeOK' /\ Dsc!PageAttribute => AttributesInv'
<1> SUFFICES ASSUME AttributesInv, Dsc!TypeOK', Dsc!PageAttribute
             PROVE  AttributesInv'
  OBVIOUS
<1> DEFINE last == Len(page)
<1>1. /\ part = "pages" /\ UNCHANGED <<part, box, page_pages, page_orientation, media>>
      /\ page # <<>>
  BY DEF Dsc!PageAttribute, Dsc!InPage, Dsc!docVars
<1>2. /\ page \in Seq(PageRecords(Len(media))) /\ last \in 1..last /\ last \in Nat
      /\ \A n \in 1..last : page[n] \in PageRecords(Len(media))
      /\ media \in Seq(Names) /\ comments \in Seq(Records)
  BY <1>1, PageIs DEF AttributesInv, Dsc!TypeOK
\* What remains to show for each kind: the values of the pages.
<1>3. ASSUME NEW k \in Kinds \ DocumentBoxes, NEW v \in Values, Dsc!Comment(k, v),
             k # "Pages", k # "Orientation", Len(page') = last,
             NEW r \in Records, comments' = Append(comments, r),
             r.kind = k, r.value = v, r.part = part, r.page = last,
             BoxesOfPages', OrientationsOfPages', MediaOfPages'
      PROVE  AttributesInv'
  <2>1. BoxValues' /\ NumberValue' /\ OrientationValue'
    BY <1>1, <1>3, OtherKind
  <2>2. /\ comments' \in Seq(Records) /\ Len(comments) \in Nat
        /\ Len(comments') = Len(comments) + 1
        /\ \A i \in 1..Len(comments) : comments'[i] = comments[i]
        /\ comments'[Len(comments) + 1] = r
    BY <1>2, <1>3
  <2>3. \A i \in 1..Len(comments') : comments'[i].page <= Len(page')
    BY <1>2, <1>3, <2>2 DEF AttributesInv, PartsSoFar
  <2>4. PartsSoFar'
    BY <1>1, <2>3 DEF PartsSoFar
  <2> QED
    BY <1>3, <2>1, <2>2, <2>4 DEF AttributesInv
\* The attributes that a kind is not about.
<1>4. ASSUME NEW r \in Records, comments' = Append(comments, r), r.kind # "PageBoundingBox",
             Len(page') = last, \A n \in 1..last : page'[n].bbox = page[n].bbox
      PROVE  BoxesOfPages'
  <2>1. \A n : r \notin GoodOnPage("PageBoundingBox", n)
    BY <1>4 DEF GoodOnPage, OnPage, In
  <2>2. ASSUME NEW n \in 1..last
        PROVE  page'[n].bbox = FirstOf(comments', GoodOnPage("PageBoundingBox", n), None)
    BY <1>2, <1>4, <2>1, FirstAppended DEF AttributesInv, BoxesOfPages
  <2> QED
    BY <1>4, <2>2 DEF BoxesOfPages
<1>5. ASSUME NEW r \in Records, comments' = Append(comments, r), r.kind # "PageOrientation",
             Len(page') = last, \A n \in 1..last : page'[n].orientation = page[n].orientation
      PROVE  OrientationsOfPages'
  <2>1. \A n : r \notin GoodOnPage("PageOrientation", n)
    BY <1>5 DEF GoodOnPage, OnPage, In
  <2>2. ASSUME NEW n \in 1..last
        PROVE  page'[n].orientation = LastOf(comments', GoodOnPage("PageOrientation", n), None)
    BY <1>2, <1>5, <2>1, LastAppended DEF AttributesInv, OrientationsOfPages
  <2> QED
    BY <1>5, <2>2 DEF OrientationsOfPages
<1>6. ASSUME NEW r \in Records, comments' = Append(comments, r), r.kind # "PageMedia",
             Len(page') = last,
             \A n \in 1..last : page'[n].media = page[n].media \/ page'[n].media \notin 1..Len(media)
      PROVE  MediaOfPages'
  <2>1. \A n : r \notin OnPage("PageMedia", n)
    BY <1>6 DEF OnPage, In
  <2>2. ASSUME NEW n \in 1..last, page'[n].media \in 1..Len(media)
        PROVE  media[page'[n].media] = LastOf(comments', OnPage("PageMedia", n), None)
    <3>1. page'[n].media = page[n].media
      BY <1>6, <2>2
    <3> QED
      BY <1>2, <1>6, <2>1, <2>2, <3>1, LastAppended DEF AttributesInv, MediaOfPages
  <2> QED
    BY <1>1, <1>6, <2>2 DEF MediaOfPages
<1>7. CASE \E v \in Boxes \cup {None} : Dsc!Comment("PageBoundingBox", v) /\ Dsc!PageBox(v)
  <2>1. PICK v \in Boxes \cup {None} : Dsc!Comment("PageBoundingBox", v) /\ Dsc!PageBox(v)
    BY <1>7
  <2>2. v \in Values /\ "PageBoundingBox" \in Kinds \ DocumentBoxes
    BY OtherKinds DEF Values
  <2>3. PICK r \in Records : /\ comments' = Append(comments, r) /\ r.kind = "PageBoundingBox"
                             /\ r.value = v /\ r.part = part /\ r.page = last
    BY <2>1, <2>2, Recorded DEF AttributesInv
  <2>4. /\ Len(page') = last
        /\ \A n \in 1..last :
             /\ page'[n].orientation = page[n].orientation /\ page'[n].media = page[n].media
             /\ page'[n].bbox = IF n # last THEN page[n].bbox
                                ELSE IF page[n].bbox # None THEN page[n].bbox ELSE v
    BY <1>1, <1>2, <2>1 DEF Dsc!PageBox, Dsc!ParseBox, PageRecords
  <2>5. BoxesOfPages'
    <3> SUFFICES ASSUME NEW n \in 1..last
                 PROVE  page'[n].bbox = FirstOf(comments', GoodOnPage("PageBoundingBox", n), None)
      BY <2>4 DEF BoxesOfPages
    <3> DEFINE C == GoodOnPage("PageBoundingBox", n)
    <3>1. page[n].bbox = FirstOf(comments, C, None)
      BY DEF AttributesInv, BoxesOfPages
    <3>2. r \in C <=> n = last /\ v # None
      BY <1>1, <2>3 DEF GoodOnPage, OnPage, In
    <3>3. C \in SUBSET {s \in Records : s.value # None}
      BY DEF GoodOnPage, OnPage, In
    <3> HIDE DEF C
    <3>4. FirstOf(comments', C, None) =
            IF r \in C /\ Chosen(comments, C) = {} THEN v ELSE FirstOf(comments, C, None)
      BY <1>2, <2>3, FirstAppended
    <3>5. Chosen(comments, C) = {} => page[n].bbox = None
      BY <3>1, NoneChosen
    <3>6. Chosen(comments, C) # {} => page[n].bbox # None
      <4>1. Chosen(comments, C) # {} => \E s \in C : FirstOf(comments, C, None) = s.value
        BY <1>2, FirstIs
      <4> QED
        BY <3>1, <3>3, <4>1
    <3>7. page'[n].bbox = FirstOf(comments', C, None)
      BY <2>4, <3>1, <3>2, <3>4, <3>5, <3>6
    <3> QED
      BY <3>7 DEF C
  <2> QED
    BY <1>3, <1>5, <1>6, <2>1, <2>2, <2>3, <2>4, <2>5
<1>8. CASE \E o \in Dsc!Orientations \cup {None} :
             /\ Dsc!Comment("PageOrientation", o)
             /\ page' = [page EXCEPT ![Len(page)].orientation = Dsc!ParseOrientation(@, o)]
  <2>1. PICK o \in Dsc!Orientations \cup {None} :
             /\ Dsc!Comment("PageOrientation", o)
             /\ page' = [page EXCEPT ![Len(page)].orientation = Dsc!ParseOrientation(@, o)]
    BY <1>8
  <2>2. o \in Values /\ "PageOrientation" \in Kinds \ DocumentBoxes
    BY OtherKinds DEF Values
  <2>3. PICK r \in Records : /\ comments' = Append(comments, r) /\ r.kind = "PageOrientation"
                             /\ r.value = o /\ r.part = part /\ r.page = last
    BY <2>1, <2>2, Recorded DEF AttributesInv
  <2>4. /\ Len(page') = last
        /\ \A n \in 1..last :
             /\ page'[n].bbox = page[n].bbox /\ page'[n].media = page[n].media
             /\ page'[n].orientation = IF n = last /\ o # None THEN o ELSE page[n].orientation
    BY <1>1, <1>2, <2>1 DEF Dsc!ParseOrientation, PageRecords
  <2>5. OrientationsOfPages'
    <3> SUFFICES ASSUME NEW n \in 1..last
                 PROVE  page'[n].orientation =
                          LastOf(comments', GoodOnPage("PageOrientation", n), None)
      BY <2>4 DEF OrientationsOfPages
    <3>1. page[n].orientation = LastOf(comments, GoodOnPage("PageOrientation", n), None)
      BY DEF AttributesInv, OrientationsOfPages
    <3>2. r \in GoodOnPage("PageOrientation", n) <=> n = last /\ o # None
      BY <1>1, <2>3 DEF GoodOnPage, OnPage, In
    <3> QED
      BY <1>2, <2>3, <2>4, <3>1, <3>2, LastAppended
  <2> QED
    BY <1>3, <1>4, <1>6, <2>1, <2>2, <2>3, <2>4, <2>5
<1>9. CASE \E n \in Names :
             /\ Dsc!Listed(n) /\ Dsc!Comment("PageMedia", n)
             /\ page' = [page EXCEPT ![Len(page)].media = Dsc!Found(n)]
  <2>1. PICK m \in Names :
             /\ Dsc!Listed(m) /\ Dsc!Comment("PageMedia", m)
             /\ page' = [page EXCEPT ![Len(page)].media = Dsc!Found(m)]
    BY <1>9
  <2>2. m \in Values /\ "PageMedia" \in Kinds \ DocumentBoxes
    BY OtherKinds DEF Values
  <2>3. PICK r \in Records : /\ comments' = Append(comments, r) /\ r.kind = "PageMedia"
                             /\ r.value = m /\ r.part = part /\ r.page = last
    BY <2>1, <2>2, Recorded DEF AttributesInv
  <2>4. /\ Len(page') = last
        /\ \A n \in 1..last :
             /\ page'[n].bbox = page[n].bbox /\ page'[n].orientation = page[n].orientation
             /\ page'[n].media = IF n = last THEN Dsc!Found(m) ELSE page[n].media
    BY <1>1, <1>2, <2>1 DEF PageRecords
  <2>5. MediaOfPages'
    <3> SUFFICES ASSUME NEW n \in 1..last, page'[n].media \in 1..Len(media)
                 PROVE  media[page'[n].media] = LastOf(comments', OnPage("PageMedia", n), None)
      BY <1>1, <2>4 DEF MediaOfPages
    <3>1. r \in OnPage("PageMedia", n) <=> n = last
      BY <1>1, <2>3 DEF OnPage, In
    <3>2. LastOf(comments', OnPage("PageMedia", n), None) =
            IF n = last THEN m ELSE LastOf(comments, OnPage("PageMedia", n), None)
      BY <1>2, <2>3, <3>1, LastAppended
    <3>3. CASE n = last
      BY <1>2, <2>1, <2>4, <3>2, <3>3, FoundIs
    <3>4. CASE n # last
      BY <2>4, <3>2, <3>4 DEF AttributesInv, MediaOfPages
    <3> QED
      BY <3>3, <3>4
  <2> QED
    BY <1>3, <1>4, <1>5, <2>1, <2>2, <2>3, <2>4, <2>5
<1>10. CASE \E n \in KnownNames :
              /\ ~Dsc!Listed(n) /\ Dsc!Comment("PaperSize", n)
              /\ page' = [page EXCEPT ![Len(page)].media = n]
  <2>1. PICK m \in KnownNames :
              /\ Dsc!Comment("PaperSize", m)
              /\ page' = [page EXCEPT ![Len(page)].media = m]
    BY <1>10
  <2>2. m \in Values /\ "PaperSize" \in Kinds \ DocumentBoxes
    BY OtherKinds, CommentsAssumption DEF Values
  <2>3. PICK r \in Records : /\ comments' = Append(comments, r) /\ r.kind = "PaperSize"
                             /\ r.value = m /\ r.part = part /\ r.page = last
    BY <2>1, <2>2, Recorded DEF AttributesInv
  <2>4. /\ Len(page') = last
        /\ \A n \in 1..last :
             /\ page'[n].bbox = page[n].bbox /\ page'[n].orientation = page[n].orientation
             /\ page'[n].media = IF n = last THEN m ELSE page[n].media
    BY <1>1, <1>2, <2>1 DEF PageRecords
  <2>5. m \notin 1..Len(media)
    BY <1>2, CommentsAssumption
  <2> QED
    BY <1>3, <1>4, <1>5, <1>6, <2>1, <2>2, <2>3, <2>4, <2>5
<1> QED
  BY <1>7, <1>8, <1>9, <1>10 DEF Dsc!PageAttribute

-----------------------------------------------------------------------------
(* All steps. *)

LEMMA AttributesNext ==
  AttributesInv /\ Dsc!Next => AttributesInv'
<1> SUFFICES ASSUME AttributesInv, Dsc!Next
             PROVE  AttributesInv'
  OBVIOUS
<1>1. Dsc!TypeOK'
  BY AttributesStep DEF AttributesInv
<1> QED
  BY <1>1, EnterStep, PageStep, BoxStep, NumberStep, OrientationStep, QuietStep, MediaStep,
     AttributeStep DEF Dsc!Next

\* Nothing is there, and nothing was said.
LEMMA NothingSaid ==
  ASSUME Dsc!TypeOK, comments = <<>>, page = <<>>, box = [b \in DocumentBoxes |-> None],
         page_pages = 0, page_orientation = None
  PROVE  AttributesInv
<1>1. ASSUME NEW R, NEW d
      PROVE  FirstOf(comments, R, d) = d /\ LastOf(comments, R, d) = d
  BY EmptyChosen
<1>2. BoxValues
  BY <1>1 DEF BoxValues
<1>3. NumberValue /\ OrientationValue
  BY <1>1 DEF NumberValue, OrientationValue
<1> QED
  BY <1>2, <1>3 DEF AttributesInv, PartsSoFar, BoxesOfPages, OrientationsOfPages, MediaOfPages

LEMMA DocumentInit == Init => AttributesInv
<1> SUFFICES ASSUME Init
             PROVE  AttributesInv
  OBVIOUS
<1>1. Dsc!TypeOK
  BY CallInit DEF CallInv
<1>2. Dsc!Init
  BY DEF Init
<1> QED
  BY <1>1, <1>2, NothingSaid DEF Dsc!Init

LEMMA DocumentStays ==
  AttributesInv /\ UNCHANGED dscVars => AttributesInv'
BY DEF AttributesInv, Dsc!TypeOK, Dsc!Medium, PartsSoFar, BoxValues, NumberValue, OrientationValue,
       BoxesOfPages, OrientationsOfPages, MediaOfPages, dscVars

LEMMA DocumentStep ==
  AttributesInv /\ CallInv' /\ [Next]_vars => AttributesInv'
<1> SUFFICES ASSUME AttributesInv, CallInv', [Next]_vars
             PROVE  AttributesInv'
  OBVIOUS
<1>1. CASE BlenderStep \/ RawStep \/ EpsiStep \/ UNCHANGED vars
  <2>1. UNCHANGED dscVars
    BY <1>1 DEF BlenderStep, RawStep, EpsiStep, vars
  <2> QED
    BY <2>1, DocumentStays
<1>2. CASE DscStep
  BY <1>2, AttributesNext DEF DscStep
<1>3. CASE Options
  <2>1. /\ Dsc!TypeOK' /\ comments' = <<>> /\ page' = <<>> /\ page_pages' = 0
        /\ box' = [b \in DocumentBoxes |-> None] /\ page_orientation' = None
    BY <1>3 DEF Options, CallInv
  <2>2. ASSUME NEW R, NEW d
        PROVE  FirstOf(comments', R, d) = d /\ LastOf(comments', R, d) = d
    BY <2>1, EmptyChosen
  <2>3. BoxValues'
    BY <2>1, <2>2 DEF BoxValues
  <2>4. NumberValue' /\ OrientationValue'
    BY <2>1, <2>2 DEF NumberValue, OrientationValue
  <2> QED
    BY <2>1, <2>3, <2>4 DEF AttributesInv, PartsSoFar, BoxesOfPages, OrientationsOfPages, MediaOfPages
<1> QED
  BY <1>1, <1>2, <1>3 DEF Next

LEMMA DocumentInvariant == Spec => []AttributesInv
BY DocumentInit, DocumentStep, CallInvariant, PTL DEF Spec

-----------------------------------------------------------------------------
\* Of any number of comments, in any order that the parts of a document allow: the first
\* good one of the header, else the last of the trailer, gives the document's boxes, number
\* of pages and orientation, as the comment in dsc_parse_bounding_box has it.
THEOREM DocumentsValued == Spec => []DocumentValues
<1>1. AttributesInv => DocumentValues
  BY ValuesGiven DEF DocumentValues
<1> QED
  BY <1>1, DocumentInvariant, PTL

\* Each of any number of pages has what its own comments say, and the medium it was
\* given keeps its name, whatever media are listed later.
THEOREM PagesValued == Spec => []PageValues
<1>1. AttributesInv => PageValues
  BY ValuesGiven DEF PageValues
<1> QED
  BY <1>1, DocumentInvariant, PTL
=============================================================================
