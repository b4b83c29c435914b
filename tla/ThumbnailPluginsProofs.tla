---------------------- MODULE ThumbnailPluginsProofs ----------------------
(***************************************************************************)
(* Proofs about ThumbnailPlugins: the computations for an EPS file, and    *)
(* the image that BlenderCreator shows.                                    *)
(***************************************************************************)
EXTENDS ThumbnailPlugins, SequenceTheorems, WellFoundedInduction, TLAPS

Half == Word \div 2

LEMMA WordHalf == Word \in Nat /\ Half \in Nat /\ Word = 2 * Half /\ Half >= 16
BY NumbersAssumption DEF Half

\* The quotient of two numbers and what it leaves.
LEMMA DivBounds ==
  ASSUME NEW a \in Nat, NEW d \in Nat \ {0}
  PROVE  /\ a \div d \in Nat
         /\ d * (a \div d) <= a /\ a < d * (a \div d) + d
OBVIOUS

LEMMA WrapSame ==
  ASSUME NEW n \in Int, -Half <= n, n < Half
  PROVE  Eps!Wrap(n) = n
<1>1. n + Half \in 0..Word-1
  BY WordHalf
<1>2. (n + Half) % Word = n + Half
  BY <1>1, WordHalf
<1> QED
  BY <1>2, WordHalf DEF Eps!Wrap, Half

LEMMA WrapType ==
  ASSUME NEW n \in Int
  PROVE  Eps!Wrap(n) \in Int /\ -Half <= Eps!Wrap(n) /\ Eps!Wrap(n) < Half
<1>1. (n + Half) % Word \in 0..Word-1
  BY WordHalf
<1> QED
  BY <1>1, WordHalf DEF Eps!Wrap, Half

LEMMA MultOrder ==
  ASSUME NEW a \in Nat, NEW b \in Nat, NEW d \in Nat, a <= b
  PROVE  d * a <= d * b
OBVIOUS

-----------------------------------------------------------------------------
(* One dimension of an EPS file: its box has d points, n pixels are wanted. *)

Dots(n, d) == (72 * n) \div d

LEMMA DotsBounds ==
  ASSUME NEW n \in Nat \ {0}, 288 * n < Half, NEW d \in Nat \ {0}
  PROVE  /\ Eps!Quotient(Eps!Wrap(n * 72), d) = Dots(n, d)
         /\ Dots(n, d) \in Nat /\ Dots(n, d) <= 72 * n
         /\ d * Dots(n, d) <= 72 * n /\ 72 * n < d * Dots(n, d) + d
<1>1. Eps!Wrap(n * 72) = 72 * n
  BY WordHalf, WrapSame
<1>2. 72 * n \in Nat
  OBVIOUS
<1>3. Eps!Quotient(72 * n, d) = Dots(n, d)
  BY <1>2 DEF Eps!Quotient, Dots
<1>4. /\ Dots(n, d) \in Nat
      /\ d * Dots(n, d) <= 72 * n /\ 72 * n < d * Dots(n, d) + d
  BY <1>2, DivBounds DEF Dots
<1>5. Dots(n, d) <= d * Dots(n, d)
  <2>1. 1 * Dots(n, d) <= d * Dots(n, d)
    BY <1>4, MultOrder
  <2> QED
    BY <2>1, <1>4
<1> QED
  BY <1>1, <1>3, <1>4, <1>5

\* Rendered at m times 4 dots, where m is no more than this dimension needs.
LEMMA Rendered ==
  ASSUME NEW n \in Nat \ {0}, 288 * n < Half, NEW d \in Nat \ {0},
         NEW m \in Nat, m <= Dots(n, d)
  PROVE  LET r == Eps!Quotient(Eps!Wrap(d * Eps!Wrap(m * 4)), 72)
         IN  /\ r \in 0..4*n
             /\ m = 0 => r = 0
             /\ m = Dots(n, d) /\ d <= 72 * n => r >= 2 * n
<1> DEFINE q == d * m
<1>1. /\ Dots(n, d) \in Nat /\ Dots(n, d) <= 72 * n
      /\ d * Dots(n, d) <= 72 * n /\ 72 * n < d * Dots(n, d) + d
  BY DotsBounds
<1>2. q \in Nat /\ q <= 72 * n
  <2>1. q <= d * Dots(n, d)
    BY <1>1, MultOrder
  <2> QED
    BY <2>1, <1>1
<1>3. Eps!Wrap(m * 4) = m * 4
  BY <1>1, WordHalf, WrapSame
<1>4. d * (m * 4) = 4 * q
  OBVIOUS
<1>5. Eps!Wrap(4 * q) = 4 * q
  <2> HIDE DEF q
  <2> QED
    BY <1>2, WordHalf, WrapSame
<1>6. Eps!Quotient(4 * q, 72) = (4 * q) \div 72
  BY <1>2 DEF Eps!Quotient
<1>7. (4 * q) \div 72 \in 0..4*n /\ (q = 0 => (4 * q) \div 72 = 0)
  <2> HIDE DEF q
  <2> QED
    BY <1>2
<1>8. m = 0 => q = 0
  OBVIOUS
<1>9. ASSUME m = Dots(n, d), d <= 72 * n
      PROVE  (4 * q) \div 72 >= 2 * n
  <2>1. q + d > 72 * n
    BY <1>1, <1>9
  <2>2. m >= 1
    <3>1. CASE m = 0
      BY <3>1, <2>1, <1>8, <1>9
    <3> QED
      BY <3>1
  <2>3. d <= q
    <3>1. d * 1 <= d * m
      BY <2>2, MultOrder
    <3> QED
      BY <3>1
  <2> HIDE DEF q
  <2> QED
    BY <1>2, <2>1, <2>3
<1> HIDE DEF q
<1> QED
  BY <1>3, <1>4, <1>5, <1>6, <1>7, <1>8, <1>9

\* Scaled down by k, where k is no more than this dimension allows.
LEMMA Scaled ==
  ASSUME NEW n \in Nat \ {0}, NEW d \in Nat \ {0},
         NEW k \in Nat \ {0}, k <= d \div n
  PROVE  LET p == Eps!Quotient(d, k)
         IN  p >= n /\ (k = d \div n => p < 2 * n)
<1> DEFINE s == d \div n
           p == d \div k
<1>1. Eps!Quotient(d, k) = p
  BY DEF Eps!Quotient
<1>2. s \in Nat /\ n * s <= d /\ d < n * s + n
  BY DivBounds
<1>3. p \in Nat /\ k * p <= d /\ d < k * p + k
  BY DivBounds
<1>4. p >= n
  <2>1. n * k <= n * s
    BY <1>2, MultOrder
  <2>2. n * k <= d
    BY <2>1, <1>2
  <2>3. ASSUME p + 1 <= n
        PROVE  FALSE
    <3>1. k * (p + 1) <= k * n
      BY <2>3, <1>3, MultOrder
    <3>2. k * (p + 1) = k * p + k /\ k * n = n * k
      BY <1>3
    <3> QED
      BY <3>1, <3>2, <2>2, <1>3
  <2> QED
    BY <2>3, <1>3
<1>5. ASSUME k = s
      PROVE  p < 2 * n
  <2>1. n <= n * s
    <3>1. n * 1 <= n * s
      BY <1>5, MultOrder
    <3> QED
      BY <3>1
  <2>2. d < 2 * (n * k)
    BY <2>1, <1>2, <1>5
  <2>3. ASSUME 2 * n <= p
        PROVE  FALSE
    <3>1. k * (2 * n) <= k * p
      BY <2>3, <1>3, MultOrder
    <3>2. k * (2 * n) = 2 * (n * k)
      OBVIOUS
    <3> QED
      BY <3>1, <3>2, <2>2, <1>3
  <2> QED
    BY <2>3, <1>3
<1> HIDE DEF s, p
<1> QED
  BY <1>1, <1>4, <1>5 DEF s

-----------------------------------------------------------------------------
(* A file with box b, for a thumbnail of size r. *)

LEMMA BoxNumbers ==
  ASSUME NEW b \in Boxes
  PROVE  /\ Eps!Width(b) \in Int /\ -Half <= Eps!Width(b) /\ Eps!Width(b) < Half
         /\ Eps!Height(b) \in Int /\ -Half <= Eps!Height(b) /\ Eps!Height(b) < Half
<1>1. b.urx - b.llx \in Int /\ b.ury - b.lly \in Int
  BY CommentsAssumption
<1> QED
  BY <1>1, WrapType DEF Eps!Width, Eps!Height

LEMMA RequestNumbers ==
  ASSUME NEW r \in Requests
  PROVE  /\ r.width \in Nat \ {0} /\ 288 * r.width < Half
         /\ r.height \in Nat \ {0} /\ 288 * r.height < Half
BY RequestsAssumption DEF Half

RenderedOf(b, r) ==
  [width |-> Eps!GsWidth(b, Eps!Resolution(b, r.width, r.height)),
   height |-> Eps!GsHeight(b, Eps!Resolution(b, r.width, r.height))]

LEMMA RenderedBounds ==
  ASSUME NEW b \in Boxes, NEW r \in Requests, Eps!Width(b) > 0, Eps!Height(b) > 0
  PROVE  /\ RenderedOf(b, r).width \in 0..4*r.width /\ RenderedOf(b, r).height \in 0..4*r.height
         /\ IF Eps!Width(b) <= 72 * r.width /\ Eps!Height(b) <= 72 * r.height
              THEN \/ RenderedOf(b, r).width >= 2 * r.width
                   \/ RenderedOf(b, r).height >= 2 * r.height
              ELSE RenderedOf(b, r).width = 0 /\ RenderedOf(b, r).height = 0
<1> DEFINE d == Eps!Width(b)
           e == Eps!Height(b)
           n == r.width
           o == r.height
           hres == Dots(n, d)
           vres == Dots(o, e)
           m == IF hres > vres THEN vres ELSE hres
<1>1. /\ d \in Nat \ {0} /\ e \in Nat \ {0}
      /\ n \in Nat \ {0} /\ 288 * n < Half /\ o \in Nat \ {0} /\ 288 * o < Half
  BY BoxNumbers, RequestNumbers
<1>2. /\ Eps!Quotient(Eps!Wrap(n * 72), d) = hres /\ Eps!Quotient(Eps!Wrap(o * 72), e) = vres
      /\ hres \in Nat /\ 72 * n < d * hres + d /\ d * hres <= 72 * n
      /\ vres \in Nat /\ 72 * o < e * vres + e /\ e * vres <= 72 * o
  <2> HIDE DEF n, o, d, e
  <2> QED
    BY <1>1, DotsBounds
<1>3. Eps!Resolution(b, r.width, r.height) = Eps!Wrap(m * 4)
  BY <1>2 DEF Eps!Resolution
<1>4. /\ RenderedOf(b, r).width = Eps!Quotient(Eps!Wrap(d * Eps!Wrap(m * 4)), 72)
      /\ RenderedOf(b, r).height = Eps!Quotient(Eps!Wrap(e * Eps!Wrap(m * 4)), 72)
  BY <1>3 DEF RenderedOf, Eps!GsWidth, Eps!GsHeight
<1>5. d > 72 * n => hres = 0
  <2> SUFFICES ASSUME d > 72 * n, hres >= 1
               PROVE  FALSE
    BY <1>2
  <2>1. d * 1 <= d * hres
    BY <1>1, <1>2, MultOrder
  <2> QED
    BY <2>1, <1>1, <1>2
<1>6. e > 72 * o => vres = 0
  <2> SUFFICES ASSUME e > 72 * o, vres >= 1
               PROVE  FALSE
    BY <1>2
  <2>1. e * 1 <= e * vres
    BY <1>1, <1>2, MultOrder
  <2> QED
    BY <2>1, <1>1, <1>2
<1>7. m \in Nat /\ m <= hres /\ m <= vres /\ (m = hres \/ m = vres)
  <2> HIDE DEF hres, vres
  <2> QED
    BY <1>2
<1> HIDE DEF d, e, n, o, m
<1>8. /\ RenderedOf(b, r).width \in 0..4*n
      /\ m = 0 => RenderedOf(b, r).width = 0
      /\ m = hres /\ d <= 72 * n => RenderedOf(b, r).width >= 2 * n
  BY <1>1, <1>4, <1>7, Rendered
<1>9. /\ RenderedOf(b, r).height \in 0..4*o
      /\ m = 0 => RenderedOf(b, r).height = 0
      /\ m = vres /\ e <= 72 * o => RenderedOf(b, r).height >= 2 * o
  BY <1>1, <1>4, <1>7, Rendered
<1>10. m = 0 \/ (d <= 72 * n /\ e <= 72 * o)
  BY <1>1, <1>2, <1>5, <1>6, <1>7
<1>11. d <= 72 * n /\ e <= 72 * o =>
         RenderedOf(b, r).width >= 2 * n \/ RenderedOf(b, r).height >= 2 * o
  BY <1>7, <1>8, <1>9
<1>12. ~(d <= 72 * n /\ e <= 72 * o) =>
         RenderedOf(b, r).width = 0 /\ RenderedOf(b, r).height = 0
  BY <1>8, <1>9, <1>10
<1> QED
  BY <1>8, <1>9, <1>11, <1>12 DEF d, e, n, o

LEMMA PreviewBounds ==
  ASSUME NEW b \in Boxes, NEW r \in Requests, Eps!Width(b) > 0, Eps!Height(b) > 0,
         Eps!PreviewScale(b, r.width, r.height) # 0
  PROVE  LET k == Eps!PreviewScale(b, r.width, r.height)
             width == Eps!Quotient(Eps!Width(b), k)
             height == Eps!Quotient(Eps!Height(b), k)
         IN  /\ width >= r.width /\ height >= r.height
             /\ width < 2 * r.width \/ height < 2 * r.height
<1> DEFINE d == Eps!Width(b)
           e == Eps!Height(b)
           n == r.width
           o == r.height
           k == Eps!PreviewScale(b, n, o)
<1>1. /\ d \in Nat \ {0} /\ e \in Nat \ {0} /\ n \in Nat \ {0} /\ o \in Nat \ {0}
  BY BoxNumbers, RequestNumbers
<1>2. Eps!Quotient(d, n) = d \div n /\ Eps!Quotient(e, o) = e \div o
  BY <1>1 DEF Eps!Quotient
<1>3. d \div n \in Nat /\ e \div o \in Nat
  <2> HIDE DEF n, o, d, e
  <2> QED
    BY <1>1, DivBounds
<1>4. k = IF d \div n < e \div o THEN d \div n ELSE e \div o
  BY <1>2 DEF Eps!PreviewScale
<1>5. k # 0
  OBVIOUS
<1> HIDE DEF n, o, d, e, k
<1>6. /\ k \in Nat \ {0} /\ k <= d \div n /\ k <= e \div o
      /\ k = d \div n \/ k = e \div o
  BY <1>3, <1>4, <1>5
<1>7. Eps!Quotient(d, k) >= n /\ (k = d \div n => Eps!Quotient(d, k) < 2 * n)
  BY <1>1, <1>6, Scaled
<1>8. Eps!Quotient(e, k) >= o /\ (k = e \div o => Eps!Quotient(e, k) < 2 * o)
  BY <1>1, <1>6, Scaled
<1> QED
  BY <1>6, <1>7, <1>8 DEF n, o, d, e, k

-----------------------------------------------------------------------------
(* The attributes of a document. *)

PageRecords(n) ==
  [bbox : Boxes \cup {None}, orientation : {"Portrait", "Landscape"} \cup {None},
   media : {None} \cup (1..n) \cup KnownNames]

LEMMA PagesStay ==
  ASSUME Dsc!TypeOK, NEW n \in Nat, Len(media) <= n
  PROVE  page \in Seq(PageRecords(n)) /\ page_media \in {None} \cup (1..n) \cup KnownNames
<1>1. PageRecords(Len(media)) \subseteq PageRecords(n)
  BY DEF PageRecords, Dsc!TypeOK
<1>2. page \in Seq(PageRecords(Len(media)))
  BY DEF Dsc!TypeOK, Dsc!Medium, Dsc!Orientations, PageRecords
<1>3. page \in Seq(PageRecords(n))
  BY <1>1, <1>2, SeqMonotonic
<1>4. Len(media) \in Nat
  BY DEF Dsc!TypeOK
<1> QED
  BY <1>3, <1>4 DEF Dsc!TypeOK, Dsc!Medium

LEMMA PageStored ==
  ASSUME NEW s \in Seq(PageRecords(Len(media))), NEW i \in 1..Len(s),
         NEW p \in PageRecords(Len(media))
  PROVE  [s EXCEPT ![i] = p] \in Seq(PageRecords(Len(media)))
OBVIOUS

LEMMA SmallestOf ==
  ASSUME NEW S \in SUBSET Nat, S # {}
  PROVE  \E i \in S : \A j \in S : i <= j
<1> DEFINE R == OpToRel(<, Nat)
<1>1. IsWellFoundedOn(R, Nat)
  BY NatLessThanWellFounded, Zenon
<1>2. \A i, j \in Nat : j < i => <<j, i>> \in R
  BY DEF OpToRel
<1>3. PICK i \in S : \A j \in S : ~(<<j, i>> \in R)
  <2> HIDE DEF R
  <2> QED
    BY <1>1, WFMin
<1>4. \A j \in S : ~(j < i)
  <2> HIDE DEF R
  <2> QED
    BY <1>2, <1>3
<1> QED
  BY <1>4

LEMMA AttributesStep ==
  Dsc!TypeOK /\ Dsc!Next => Dsc!TypeOK'
<1> SUFFICES ASSUME Dsc!TypeOK, Dsc!Next
             PROVE  Dsc!TypeOK'
  OBVIOUS
<1> DEFINE Pg == PageRecords(Len(media))
<1>0. /\ Len(media) \in Nat /\ media \in Seq(Names)
      /\ page \in Seq(Pg)
      /\ box \in [DocumentBoxes -> Boxes \cup {None}] /\ page_bbox \in Boxes \cup {None}
  <2>1. page \in Seq(Pg)
    BY DEF Dsc!TypeOK, Dsc!Medium, Dsc!Orientations, PageRecords
  <2> QED
    BY <2>1 DEF Dsc!TypeOK
<1>a. ASSUME page' \in Seq(PageRecords(Len(media))), UNCHANGED Dsc!docVars,
             part' \in {"comments", "defaults", "setup", "pages", "trailer"}
      PROVE  Dsc!TypeOK'
  BY <1>a DEF Dsc!TypeOK, Dsc!docVars, Dsc!Medium, Dsc!Orientations, PageRecords
<1>1. CASE Dsc!Enter
  <2>1. part' \in {"comments", "defaults", "setup", "pages", "trailer"}
    BY <1>1 DEF Dsc!Enter, Dsc!TypeOK
  <2> QED
    BY <1>0, <1>1, <1>a, <2>1 DEF Dsc!Enter
<1>2. CASE Dsc!Page
  <2>1. Dsc!NewPage \in Pg
    BY DEF Dsc!NewPage, PageRecords
  <2>2. page' \in Seq(Pg)
    <3> HIDE DEF Pg
    <3> QED
      BY <1>0, <1>2, <2>1 DEF Dsc!Page
  <2> QED
    BY <1>2, <1>a, <2>2 DEF Dsc!Page
<1>3. CASE Dsc!DocumentBox
  <2>1. PICK b \in DocumentBoxes, v \in Boxes \cup {None} :
          box' = [box EXCEPT ![b] = Dsc!ParseBox(@, v)]
    BY <1>3 DEF Dsc!DocumentBox
  <2>2. box' \in [DocumentBoxes -> Boxes \cup {None}]
    BY <1>0, <2>1 DEF Dsc!ParseBox
  <2> QED
    BY <1>3, <2>2 DEF Dsc!DocumentBox, Dsc!InDocument, Dsc!TypeOK, Dsc!Medium
<1>4. CASE Dsc!Pages
  <2>1. page_pages' \in Int
    BY <1>4, CommentsAssumption DEF Dsc!Pages, Dsc!TypeOK
  <2>2. page_order' \in Dsc!Orders \cup {None}
    BY <1>4 DEF Dsc!Pages, Dsc!TypeOK
  <2> QED
    BY <1>4, <2>1, <2>2 DEF Dsc!Pages, Dsc!InDocument, Dsc!TypeOK, Dsc!Medium
<1>5. CASE Dsc!PageOrder
  <2>1. page_order' \in Dsc!Orders \cup {None}
    BY <1>5 DEF Dsc!PageOrder, Dsc!TypeOK
  <2> QED
    BY <1>5, <2>1 DEF Dsc!PageOrder, Dsc!InDocument, Dsc!TypeOK, Dsc!Medium
<1>6. CASE Dsc!Orientation
  <2>1. page_orientation' \in Dsc!Orientations \cup {None}
    BY <1>6 DEF Dsc!Orientation, Dsc!ParseOrientation, Dsc!TypeOK
  <2> QED
    BY <1>6, <2>1 DEF Dsc!Orientation, Dsc!TypeOK, Dsc!Medium
<1>b. ASSUME media' \in Seq(Names), Len(media) <= Len(media'),
             UNCHANGED <<part, page, box, page_bbox, page_pages, page_order,
                         page_orientation, page_media>>
      PROVE  Dsc!TypeOK'
  <2>1. /\ page \in Seq(PageRecords(Len(media')))
        /\ page_media \in {None} \cup (1..Len(media')) \cup KnownNames
    BY <1>b, PagesStay
  <2> QED
    BY <1>b, <2>1 DEF Dsc!TypeOK, Dsc!Medium, Dsc!Orientations, PageRecords
<1>7. CASE Dsc!DocumentMedia
  <2>1. media' \in Seq(Names) /\ Len(media) <= Len(media')
    BY <1>0, <1>7 DEF Dsc!DocumentMedia
  <2> QED
    BY <1>7, <1>b, <2>1 DEF Dsc!DocumentMedia, Dsc!InDocument
<1>8. CASE Dsc!PaperSizes
  <2>1. PICK s \in UNION {[1..k -> Names] : k \in 1..2} :
          media' = s \o SubSeq(media, Len(s) + 1, Len(media))
    BY <1>8 DEF Dsc!PaperSizes
  <2>2. s \in Seq(Names) /\ Len(s) \in Nat
    BY <2>1
  <2> DEFINE rest == SubSeq(media, Len(s) + 1, Len(media))
  <2>3. rest \in Seq(Names) /\ Len(rest) = IF Len(s) + 1 <= Len(media)
                                              THEN Len(media) - Len(s) ELSE 0
    BY <1>0, <2>2, SubSeqProperties
  <2>4. media' \in Seq(Names) /\ Len(media') = Len(s) + Len(rest)
    <3> HIDE DEF rest
    <3> QED
      BY <2>1, <2>2, <2>3, ConcatProperties DEF rest
  <2>5. Len(media) <= Len(media')
    BY <1>0, <2>2, <2>3, <2>4
  <2> QED
    BY <1>8, <1>b, <2>4, <2>5 DEF Dsc!PaperSizes
<1>9. CASE Dsc!DefaultBox
  <2>1. page_bbox' \in Boxes \cup {None}
    BY <1>0, <1>9 DEF Dsc!DefaultBox, Dsc!ParseBox
  <2> QED
    BY <1>9, <2>1 DEF Dsc!DefaultBox, Dsc!TypeOK, Dsc!Medium
<1>c. ASSUME NEW n, Dsc!Listed(n)
      PROVE  Dsc!Found(n) \in 1..Len(media)
  <2>1. \E i \in 1..Len(media) : media[i] = n /\ \A j \in 1..i-1 : media[j] # n
    <3>1. PICK k \in 1..Len(media) : media[k] = n
      BY <1>c DEF Dsc!Listed
    <3> DEFINE S == {i \in Nat : i \in 1..Len(media) /\ media[i] = n}
    <3>2. k \in S /\ S \subseteq Nat
      BY <1>0, <3>1
    <3>3. PICK i \in S : \A j \in S : i <= j
      BY <3>2, SmallestOf
    <3> QED
      BY <1>0, <3>3
  <2> QED
    BY <2>1 DEF Dsc!Found
<1>10. CASE Dsc!DefaultMedium
  <2>1. page_media' \in {None} \cup (1..Len(media)) \cup KnownNames
    BY <1>10, <1>c DEF Dsc!DefaultMedium
  <2> QED
    BY <1>10, <2>1 DEF Dsc!DefaultMedium, Dsc!TypeOK, Dsc!Medium
<1>11. CASE Dsc!PageAttribute
  <2>1. Len(page) \in 1..Len(page) /\ page[Len(page)] \in Pg
    BY <1>0, <1>11 DEF Dsc!PageAttribute, Dsc!InPage
  <2> DEFINE last == page[Len(page)]
  <2>2. PICK p \in Pg : page' = [page EXCEPT ![Len(page)] = p]
    <3>1. CASE \E v \in Boxes \cup {None} : Dsc!PageBox(v)
      <4>1. PICK v \in Boxes \cup {None} : Dsc!PageBox(v)
        BY <3>1
      <4>2. [last EXCEPT !.bbox = Dsc!ParseBox(@, v)] \in Pg
        BY <2>1 DEF Dsc!ParseBox, PageRecords
      <4> QED
        BY <4>1, <4>2 DEF Dsc!PageBox
    <3>2. CASE \E o \in Dsc!Orientations \cup {None} :
                 page' = [page EXCEPT ![Len(page)].orientation = Dsc!ParseOrientation(@, o)]
      <4>1. PICK o \in Dsc!Orientations \cup {None} :
              page' = [page EXCEPT ![Len(page)].orientation = Dsc!ParseOrientation(@, o)]
        BY <3>2
      <4>2. [last EXCEPT !.orientation = Dsc!ParseOrientation(@, o)] \in Pg
        BY <2>1 DEF Dsc!ParseOrientation, Dsc!Orientations, PageRecords
      <4> QED
        BY <4>1, <4>2
    <3>3. CASE \E m \in (1..Len(media)) \cup KnownNames :
                 page' = [page EXCEPT ![Len(page)].media = m]
      <4>1. PICK m \in (1..Len(media)) \cup KnownNames :
              page' = [page EXCEPT ![Len(page)].media = m]
        BY <3>3
      <4>2. [last EXCEPT !.media = m] \in Pg
        BY <2>1 DEF PageRecords
      <4> QED
        BY <4>1, <4>2
    <3> QED
      BY <1>11, <1>c, <3>1, <3>2, <3>3 DEF Dsc!PageAttribute
  <2>3. page' \in Seq(Pg)
    BY <1>0, <2>1, <2>2, PageStored
  <2> QED
    BY <1>11, <1>a, <2>3 DEF Dsc!PageAttribute, Dsc!InPage, Dsc!TypeOK
<1> QED
  BY <1>1, <1>2, <1>3, <1>4, <1>5, <1>6, <1>7, <1>8, <1>9, <1>10, <1>11 DEF Dsc!Next

-----------------------------------------------------------------------------
(* BlenderCreator: what is known before the image is shown. *)

IntValue(n) == n \in Int /\ -Half <= n /\ n < Half

\* The size that the thumbnail block gives is that of its image.
RightSize == x > 0 /\ y > 0 /\ size = 8 + 4 * x * y

ReadSoFar ==
  /\ Blender!TypeOK
  /\ step \in {"head", "blocks", "test"} => x = 0 /\ y = 0
  /\ step \in {"head", "blocks", "test", "size", "read"} => got = 0
  /\ step \in {"read", "show"} => Blender!SizeFits(image)
  /\ step \in {"read", "show"} /\ RightSize => image = size - 8
  /\ step = "show" => got = image
  /\ ThumbnailTaken

LEMMA BlenderInts == Blender!Ints = {n \in Int : IntValue(n)} /\ Int32 = Blender!Ints
BY WordHalf DEF Blender!Ints, Int32, IntValue, Half

LEMMA BlenderType ==
  ASSUME Blender!TypeOK
  PROVE  /\ length \in Nat /\ at \in Nat /\ at <= length /\ header \in Nat \ {0}
         /\ IntValue(size) /\ IntValue(x) /\ IntValue(y)
         /\ image \in Nat /\ image < Half /\ got \in Nat /\ got <= image
  BY NumbersAssumption, BlenderInts, WordHalf DEF Blender!TypeOK, Half

\* The bytes of the pixels are no more than those of the buffer.
LEMMA PixelsFit ==
  ASSUME Blender!TypeOK, NEW n \in Nat, Blender!SizeFits(n)
  PROVE  x \in Nat \ {0} /\ y \in Nat \ {0} /\ 4 * x * y <= n
<1>1. x \in Nat \ {0} /\ y \in Nat \ {0}
  BY BlenderType DEF Blender!SizeFits, IntValue
<1>2. n \div 4 \in Nat /\ 4 * (n \div 4) <= n
  BY DivBounds
<1>3. y * ((n \div 4) \div y) <= n \div 4
  BY <1>1, <1>2, DivBounds
<1>4. y * x <= n \div 4
  BY <1>3 DEF Blender!SizeFits
<1>5. 4 * x * y = 4 * (y * x)
  BY <1>1
<1>6. y * x \in Nat
  BY <1>1
<1> QED
  BY <1>1, <1>2, <1>4, <1>5, <1>6

\* The size of an image passes the test.
LEMMA RightSizeFits ==
  ASSUME Blender!TypeOK, RightSize
  PROVE  Blender!ImgSizes = {size - 8} /\ Blender!SizeFits(size - 8)
<1>1. x \in Nat \ {0} /\ y \in Nat \ {0} /\ IntValue(size)
  BY BlenderType DEF RightSize, IntValue
<1> DEFINE q == x * y
<1>2. q \in Nat \ {0} /\ size - 8 = 4 * q
  BY <1>1 DEF RightSize
<1>3. size - 8 \in Blender!Ints
  <2> HIDE DEF q
  <2> QED
    BY <1>1, <1>2, BlenderInts, WordHalf DEF IntValue
<1>4. (size - 8) \div 4 = q
  <2> HIDE DEF q
  <2> QED
    BY <1>2
<1>5. q \div y = x
  <2>1. q \div y \in Nat /\ y * (q \div y) <= q /\ q < y * (q \div y) + y
    BY <1>1, <1>2, DivBounds
  <2> DEFINE k == q \div y
  <2>2. q = y * x
    BY <1>1
  <2>3. ASSUME k + 1 <= x
        PROVE  FALSE
    <3>1. y * (k + 1) <= y * x
      BY <1>1, <2>1, <2>3, MultOrder
    <3>2. y * (k + 1) = y * k + y
      BY <1>1, <2>1
    <3> HIDE DEF k, q
    <3> QED
      BY <1>1, <1>2, <2>1, <2>2, <3>1, <3>2 DEF k
  <2>4. ASSUME x + 1 <= k
        PROVE  FALSE
    <3>1. y * (x + 1) <= y * k
      BY <1>1, <2>1, <2>4, MultOrder
    <3>2. y * (x + 1) = y * x + y
      BY <1>1
    <3> HIDE DEF k, q
    <3> QED
      BY <1>1, <1>2, <2>1, <2>2, <3>1, <3>2 DEF k
  <2> QED
    BY <1>1, <2>1, <2>3, <2>4
<1> QED
  BY <1>1, <1>2, <1>3, <1>4, <1>5 DEF Blender!ImgSizes, Blender!SizeFits

LEMMA SizesOfInts ==
  ASSUME Blender!TypeOK, NEW n \in Blender!ImgSizes
  PROVE  n \in Int /\ n < Half
<1>1. IntValue(size)
  BY BlenderType
<1> QED
  BY <1>1, BlenderInts, WordHalf DEF Blender!ImgSizes, IntValue

LEMMA BlenderInit ==
  Blender!Init => ReadSoFar
<1> SUFFICES ASSUME Blender!Init
             PROVE  ReadSoFar
  OBVIOUS
<1>1. 0 \in Blender!Ints
  BY BlenderInts, WordHalf DEF IntValue
<1>2. Blender!TypeOK
  BY <1>1, NumbersAssumption, WordHalf DEF Blender!Init, Blender!TypeOK, Half
<1> QED
  BY <1>2 DEF Blender!Init, ReadSoFar, ThumbnailTaken, Blender!ThumbnailTaken

LEMMA BlenderReads ==
  ReadSoFar /\ Blender!Next => ReadSoFar'
<1> SUFFICES ASSUME ReadSoFar, Blender!Next
             PROVE  ReadSoFar'
  OBVIOUS
<1> USE DEF Blender!Fail, Blender!Goto
<1>0. /\ Blender!TypeOK /\ ThumbnailTaken
      /\ length \in Nat /\ at \in Nat /\ at <= length /\ header \in Nat \ {0}
      /\ Blender!Left \in Nat /\ Blender!Left = length - at
  <2>1. Blender!TypeOK /\ ThumbnailTaken
    BY DEF ReadSoFar
  <2> QED
    BY <2>1, BlenderType DEF Blender!Left
<1>1. CASE Blender!OpenFails
  BY <1>1 DEF Blender!OpenFails, ReadSoFar, Blender!TypeOK, ThumbnailTaken,
              Blender!ThumbnailTaken
<1>2. CASE Blender!ReadHead
  <2>1. at' \in 0..length
    BY <1>0, <1>2, NumbersAssumption DEF Blender!ReadHead, Blender!Least
  <2> QED
    BY <1>2, <2>1 DEF Blender!ReadHead, ReadSoFar, Blender!TypeOK, ThumbnailTaken,
                      Blender!ThumbnailTaken
<1>3. CASE Blender!HeaderMissing
  <2>1. at' \in 0..length
    BY <1>0, <1>3 DEF Blender!HeaderMissing
  <2> QED
    BY <1>3, <2>1 DEF Blender!HeaderMissing, ReadSoFar, Blender!TypeOK, ThumbnailTaken,
                      Blender!ThumbnailTaken
<1>4. CASE Blender!SkipBlock
  <2>1. PICK n \in FileSizes : Blender!ReadHeader("REND", n) /\ at' = Blender!Skipped(at + header, n)
    BY <1>4 DEF Blender!SkipBlock
  <2>2. n \in Blender!Ints /\ n \in Int
    BY NumbersAssumption, BlenderInts
  <2>3. at' \in 0..length
    BY <1>0, <2>1, <2>2 DEF Blender!ReadHeader, Blender!Skipped, Blender!Least
  <2> QED
    BY <1>4, <2>1, <2>2, <2>3 DEF Blender!SkipBlock, Blender!ReadHeader, ReadSoFar,
       Blender!TypeOK, ThumbnailTaken, Blender!ThumbnailTaken
<1>5. CASE Blender!LastBlock
  <2>1. PICK name \in {"TEST", "other"}, n \in FileSizes : Blender!ReadHeader(name, n)
    BY <1>5 DEF Blender!LastBlock
  <2>2. n \in Blender!Ints
    BY NumbersAssumption, BlenderInts
  <2>3. at' \in 0..length
    BY <1>0, <1>5, <2>1 DEF Blender!LastBlock, Blender!ReadHeader
  <2> QED
    BY <1>5, <2>1, <2>2, <2>3 DEF Blender!LastBlock, Blender!ReadHeader, ReadSoFar,
       Blender!TypeOK, ThumbnailTaken, Blender!ThumbnailTaken
<1>6. CASE Blender!NotTest
  BY <1>6 DEF Blender!NotTest, ReadSoFar, Blender!TypeOK, ThumbnailTaken,
              Blender!ThumbnailTaken
<1>7. CASE Blender!ReadDimensions
  <2>1. x' \in Blender!Ints /\ y' \in Blender!Ints
    BY <1>7, NumbersAssumption, BlenderInts, WordHalf DEF Blender!ReadDimensions, IntValue
  <2>2. at' \in 0..length
    BY <1>0, <1>7 DEF Blender!ReadDimensions, Blender!Least
  <2> QED
    BY <1>7, <2>1, <2>2 DEF Blender!ReadDimensions, ReadSoFar, Blender!TypeOK,
       ThumbnailTaken, Blender!ThumbnailTaken
<1>8. CASE Blender!CheckSize
  <2>1. PICK n \in Blender!ImgSizes :
          IF Blender!SizeFits(n) THEN image' = n /\ step' = "read" /\ result' = result
                                 ELSE image' = image /\ step' = "done" /\ result' = "fail"
    BY <1>8 DEF Blender!CheckSize
  <2>2. /\ UNCHANGED <<length, at, header, id, size, x, y, got>>
        /\ (RightSize <=> RightSize')
    BY <1>8 DEF Blender!CheckSize, RightSize
  <2>3. RightSize => n = size - 8 /\ Blender!SizeFits(n)
    BY <1>0, <2>1, RightSizeFits
  <2>4. CASE Blender!SizeFits(n)
    <3>1. n \in Int /\ n > 0 /\ n < Half
      BY <1>0, <2>4, SizesOfInts DEF Blender!SizeFits
    <3>2. Blender!SizeFits(image)'
      BY <2>1, <2>2, <2>4 DEF Blender!SizeFits
    <3>3. (RightSize => image = size - 8)'
      BY <2>1, <2>2, <2>3, <2>4
    <3>4. got' = 0
      BY <1>8, <2>2 DEF Blender!CheckSize, ReadSoFar
    <3>5. image' \in 0..(Word \div 2) - 1 /\ got' \in 0..image'
      BY <2>1, <2>4, <3>1, <3>4, WordHalf DEF Half
    <3>6. Blender!TypeOK'
      BY <1>0, <2>1, <2>2, <2>4, <3>5 DEF Blender!TypeOK
    <3> QED
      BY <2>1, <2>4, <3>2, <3>3, <3>4, <3>6 DEF ReadSoFar, ThumbnailTaken, Blender!ThumbnailTaken
  <2>5. CASE ~Blender!SizeFits(n)
    <3>1. ~RightSize'
      BY <2>2, <2>3, <2>5
    <3>2. ThumbnailTaken'
      BY <3>1 DEF RightSize, ThumbnailTaken, Blender!ThumbnailTaken
    <3>3. Blender!TypeOK'
      BY <1>0, <2>1, <2>2, <2>5 DEF Blender!TypeOK
    <3> QED
      BY <2>1, <2>5, <3>2, <3>3 DEF ReadSoFar
  <2> QED
    BY <2>4, <2>5
<1>9. CASE Blender!ReadImage
  <2>1. /\ UNCHANGED <<length, header, id, size, x, y, image>>
        /\ Blender!SizeFits(image)' /\ (RightSize => image = size - 8)'
    BY <1>9 DEF Blender!ReadImage, ReadSoFar, Blender!SizeFits, RightSize
  <2>2. image \in Nat
    BY <1>0, BlenderType
  <2>3. got' \in 0..image /\ at' \in 0..length /\ (got' = image \/ at' = length)
    BY <1>0, <1>9, <2>2 DEF Blender!ReadImage, Blender!Least
  <2>4. step' \in {"show", "done"} /\ (step' = "show" => got' = image)
        /\ result' \in {result, "fail"}
    BY <1>9 DEF Blender!ReadImage
  <2>5. Blender!TypeOK'
    BY <1>0, <2>1, <2>3, <2>4 DEF Blender!TypeOK
  <2>6. ThumbnailTaken'
    BY <2>1, <2>3 DEF RightSize, ThumbnailTaken, Blender!ThumbnailTaken
  <2> QED
    BY <2>1, <2>4, <2>5, <2>6 DEF ReadSoFar
<1>10. CASE Blender!Show
  <2>1. UNCHANGED <<length, at, header, id, size, x, y, image, got>> /\ step' = "done"
    BY <1>10 DEF Blender!Show
  <2>2. got = image /\ (RightSize => image = size - 8)
    BY <1>10 DEF Blender!Show, ReadSoFar
  <2>3. ThumbnailTaken'
    BY <2>1, <2>2 DEF RightSize, ThumbnailTaken, Blender!ThumbnailTaken
  <2>4. Blender!TypeOK'
    BY <1>0, <1>10, <2>1 DEF Blender!Show, Blender!TypeOK
  <2> QED
    BY <2>1, <2>3, <2>4 DEF ReadSoFar
<1> QED
  BY <1>1, <1>2, <1>3, <1>4, <1>5, <1>6, <1>7, <1>8, <1>9, <1>10 DEF Blender!Next

LEMMA ReadImageInside ==
  ReadSoFar => ImageInside
<1> SUFFICES ASSUME ReadSoFar, step = "show"
             PROVE  x > 0 /\ y > 0 /\ 4 * x * y <= image /\ image = got /\ 4 * x * y \in Blender!Ints
  BY DEF ImageInside, Blender!ImageInside
<1>1. Blender!TypeOK /\ Blender!SizeFits(image) /\ got = image
  BY DEF ReadSoFar
<1>2. image \in Nat /\ image < Half
  BY <1>1, BlenderType
<1>3. x \in Nat \ {0} /\ y \in Nat \ {0} /\ 4 * x * y <= image
  BY <1>1, <1>2, PixelsFit
<1>4. 4 * x * y \in Nat
  BY <1>3
<1> QED
  BY <1>1, <1>2, <1>3, <1>4, BlenderInts, WordHalf DEF IntValue

-----------------------------------------------------------------------------
(* RawCreator: the size of a picture is determined by its pixels, and so   *)
(* each pixel of a picture that is turned is known.                        *)

Pixels(c, r) == (0..c-1) \X (0..r-1)
Sizes == Widths \cup Heights

LEMMA PictureSize ==
  ASSUME NEW c \in Sizes, NEW r \in Sizes, NEW p, DOMAIN p = Pixels(c, r)
  PROVE  Raw!Columns(p) = c /\ Raw!Rows(p) = r
<1>1. c \in Nat \ {0} /\ r \in Nat \ {0} /\ \A n \in Sizes : n \in Nat \ {0}
  BY PreviewsAssumption DEF Sizes
<1>2. \A n \in Sizes : (<<n - 1, 0>> \in DOMAIN p /\ <<n, 0>> \notin DOMAIN p) <=> n = c
  BY <1>1 DEF Pixels
<1>3. \A n \in Sizes : (<<0, n - 1>> \in DOMAIN p /\ <<0, n>> \notin DOMAIN p) <=> n = r
  BY <1>1 DEF Pixels
<1>4. Raw!Columns(p) = c
  BY <1>2 DEF Raw!Columns, Sizes
<1>5. Raw!Rows(p) = r
  BY <1>3 DEF Raw!Rows, Sizes
<1> QED
  BY <1>4, <1>5

LEMMA RotatedPixels ==
  ASSUME NEW c \in Sizes, NEW r \in Sizes, NEW p, DOMAIN p = Pixels(c, r)
  PROVE  Raw!Rotated90(p) = [q \in Pixels(r, c) |-> p[<<q[2], r - 1 - q[1]>>]]
BY PictureSize DEF Raw!Rotated90, Pixels

LEMMA Turns ==
  ASSUME columns \in Sizes, rows \in Sizes
  PROVE  /\ Raw!Mirrored(Raw!Preview, TRUE, FALSE) =
              [q \in Pixels(columns, rows) |-> <<columns - 1 - q[1], q[2]>>]
         /\ Raw!Mirrored(Raw!Preview, FALSE, TRUE) =
              [q \in Pixels(columns, rows) |-> <<q[1], rows - 1 - q[2]>>]
         /\ Raw!Rotated90(Raw!Preview) =
              [q \in Pixels(rows, columns) |-> <<q[2], rows - 1 - q[1]>>]
         /\ Raw!Rotated180(Raw!Preview) =
              [q \in Pixels(columns, rows) |-> <<columns - 1 - q[1], rows - 1 - q[2]>>]
         /\ Raw!Rotated270(Raw!Preview) =
              [q \in Pixels(rows, columns) |-> <<columns - 1 - q[2], q[1]>>]
<1> DEFINE c == columns
           r == rows
           p == Raw!Preview
<1>1. c \in Nat \ {0} /\ r \in Nat \ {0}
  BY PreviewsAssumption DEF Sizes
<1>2. p = [q \in Pixels(c, r) |-> q]
  BY DEF Raw!Preview, Pixels
<1>3. \A q \in Pixels(c, r) : q = <<q[1], q[2]>> /\ q[1] \in 0..c-1 /\ q[2] \in 0..r-1
  BY DEF Pixels
<1>4. \A q \in Pixels(r, c) : q[1] \in 0..r-1 /\ q[2] \in 0..c-1
  BY DEF Pixels
<1>5. \A i \in 0..c-1, j \in 0..r-1 : <<i, j>> \in Pixels(c, r) /\ <<j, i>> \in Pixels(r, c)
  BY DEF Pixels
<1>6. \A i \in 0..c-1, j \in 0..r-1 : p[<<i, j>>] = <<i, j>>
  BY <1>2, <1>5
<1>12. DOMAIN p = Pixels(c, r)
  BY <1>2
<1>7. Raw!Mirrored(p, TRUE, FALSE) = [q \in Pixels(c, r) |-> <<c - 1 - q[1], q[2]>>]
  <2>1. Raw!Mirrored(p, TRUE, FALSE) = [q \in Pixels(c, r) |-> p[<<c - 1 - q[1], q[2]>>]]
    <3>1. Raw!Columns(p) = c /\ Raw!Rows(p) = r
      <4> HIDE DEF p
      <4> QED
        BY <1>12, PictureSize
    <3> HIDE DEF p
    <3> QED
      BY <1>12, <3>1 DEF Raw!Mirrored
  <2>2. \A q \in Pixels(c, r) : p[<<c - 1 - q[1], q[2]>>] = <<c - 1 - q[1], q[2]>>
    <3> HIDE DEF p
    <3> QED
      BY <1>1, <1>3, <1>6
  <2> QED
    BY <2>1, <2>2
<1>8. Raw!Mirrored(p, FALSE, TRUE) = [q \in Pixels(c, r) |-> <<q[1], r - 1 - q[2]>>]
  <2>1. Raw!Mirrored(p, FALSE, TRUE) = [q \in Pixels(c, r) |-> p[<<q[1], r - 1 - q[2]>>]]
    <3>1. Raw!Columns(p) = c /\ Raw!Rows(p) = r
      <4> HIDE DEF p
      <4> QED
        BY <1>12, PictureSize
    <3> HIDE DEF p
    <3> QED
      BY <1>12, <3>1 DEF Raw!Mirrored
  <2>2. \A q \in Pixels(c, r) : p[<<q[1], r - 1 - q[2]>>] = <<q[1], r - 1 - q[2]>>
    <3> HIDE DEF p
    <3> QED
      BY <1>1, <1>3, <1>6
  <2> QED
    BY <2>1, <2>2
<1>9. Raw!Rotated90(p) = [q \in Pixels(r, c) |-> <<q[2], r - 1 - q[1]>>]
  <2>1. Raw!Rotated90(p) = [q \in Pixels(r, c) |-> p[<<q[2], r - 1 - q[1]>>]]
    BY <1>12, RotatedPixels
  <2>2. \A q \in Pixels(r, c) : p[<<q[2], r - 1 - q[1]>>] = <<q[2], r - 1 - q[1]>>
    <3> HIDE DEF p
    <3> QED
      BY <1>1, <1>4, <1>6
  <2> QED
    BY <2>1, <2>2
<1>10. Raw!Rotated180(p) = [q \in Pixels(c, r) |-> <<c - 1 - q[1], r - 1 - q[2]>>]
  <2> DEFINE p1 == Raw!Rotated90(p)
  <2>1. Raw!Rotated90(p1) = [q \in Pixels(c, r) |-> p1[<<q[2], c - 1 - q[1]>>]]
    <3>1. DOMAIN p1 = Pixels(r, c)
      BY <1>9
    <3> HIDE DEF p1
    <3> QED
      BY <3>1, RotatedPixels
  <2>2. \A q \in Pixels(c, r) : p1[<<q[2], c - 1 - q[1]>>] = <<c - 1 - q[1], r - 1 - q[2]>>
    <3>1. \A q \in Pixels(c, r) : <<q[2], c - 1 - q[1]>> \in Pixels(r, c)
      <4>1. \A q \in Pixels(c, r) : c - 1 - q[1] \in 0..c-1 /\ q[2] \in 0..r-1
        BY <1>1, <1>3
      <4> QED
        BY <1>5, <4>1
    <3> QED
      BY <1>9, <3>1
  <2> QED
    BY <2>1, <2>2 DEF Raw!Rotated180
<1>11. Raw!Rotated270(p) = [q \in Pixels(r, c) |-> <<c - 1 - q[2], q[1]>>]
  <2> DEFINE p2 == Raw!Rotated180(p)
  <2>1. Raw!Rotated90(p2) = [q \in Pixels(r, c) |-> p2[<<q[2], r - 1 - q[1]>>]]
    <3>1. DOMAIN p2 = Pixels(c, r)
      BY <1>10
    <3> HIDE DEF p2
    <3> QED
      BY <3>1, RotatedPixels
  <2>2. \A q \in Pixels(r, c) : p2[<<q[2], r - 1 - q[1]>>] = <<c - 1 - q[2], q[1]>>
    <3>1. \A q \in Pixels(r, c) : /\ <<q[2], r - 1 - q[1]>> \in Pixels(c, r)
                                   /\ r - 1 - (r - 1 - q[1]) = q[1]
      <4>1. \A q \in Pixels(r, c) : /\ q[2] \in 0..c-1 /\ r - 1 - q[1] \in 0..r-1
                                     /\ r - 1 - (r - 1 - q[1]) = q[1]
        BY <1>1, <1>4
      <4> QED
        BY <1>5, <4>1
    <3> QED
      BY <1>10, <3>1
  <2> QED
    BY <2>1, <2>2 DEF Raw!Rotated270
<1> QED
  BY <1>7, <1>8, <1>9, <1>10, <1>11

LEMMA SideValues ==
  ASSUME NEW n, NEW count
  PROVE  /\ Raw!Side("top", n, count) = <<2, n>> /\ Raw!Side("left", n, count) = <<1, n>>
         /\ Raw!Side("bottom", n, count) = <<2, count - 1 - n>>
         /\ Raw!Side("right", n, count) = <<1, count - 1 - n>>
BY DEF Raw!Side

LEMMA ShownUpright ==
  ASSUME columns \in Sizes, rows \in Sizes,
         orientation \in Raw!Orientations \cup {Raw!NoOrientation},
         shown = Raw!Oriented(Raw!Preview, orientation)
  PROVE  Upright
<1> DEFINE o == orientation
           p == Raw!Preview
           RowAt(q) == Raw!Side(Raw!FirstRow(o), shown[q][2], rows)
           ColumnAt(q) == Raw!Side(Raw!FirstColumn(o), shown[q][1], columns)
           Right(q) == q[RowAt(q)[1]] = RowAt(q)[2] /\ q[ColumnAt(q)[1]] = ColumnAt(q)[2]
<1>1. columns \in Nat \ {0} /\ rows \in Nat \ {0}
  BY PreviewsAssumption DEF Sizes
<1> SUFFICES ASSUME o \notin {"ROT_90_HFLIP", "ROT_90_VFLIP"}, NEW q \in DOMAIN shown
             PROVE  Right(q)
  BY DEF Upright, Raw!Upright
<1>2. CASE o \in {Raw!NoOrientation, "UNSPECIFIED", "NORMAL"}
  <2>1. shown = p /\ Raw!FirstRow(o) = "top" /\ Raw!FirstColumn(o) = "left"
    BY <1>2 DEF Raw!Oriented, Raw!FirstRow, Raw!FirstColumn, Raw!NoOrientation
  <2>2. shown = [i \in Pixels(columns, rows) |-> i]
    BY <2>1 DEF Raw!Preview, Pixels
  <2>3. q \in Pixels(columns, rows) /\ shown[q] = q
    BY <2>2
  <2>4. RowAt(q) = <<2, shown[q][2]>> /\ ColumnAt(q) = <<1, shown[q][1]>>
    BY <2>1, SideValues
  <2> QED
    BY <1>1, <2>3, <2>4 DEF Pixels
<1>3. CASE o = "HFLIP"
  <2>1. /\ shown = Raw!Mirrored(p, TRUE, FALSE)
        /\ Raw!FirstRow(o) = "top" /\ Raw!FirstColumn(o) = "right"
    BY <1>3 DEF Raw!Oriented, Raw!FirstRow, Raw!FirstColumn, Raw!NoOrientation
  <2>2. shown = [i \in Pixels(columns, rows) |-> <<columns - 1 - i[1], i[2]>>]
    BY <2>1, Turns
  <2>3. q \in Pixels(columns, rows) /\ shown[q] = <<columns - 1 - q[1], q[2]>>
    BY <2>2
  <2>4. RowAt(q) = <<2, shown[q][2]>> /\ ColumnAt(q) = <<1, columns - 1 - shown[q][1]>>
    BY <2>1, SideValues
  <2> QED
    BY <1>1, <2>3, <2>4 DEF Pixels
<1>4. CASE o = "ROT_180"
  <2>1. /\ shown = Raw!Rotated180(p)
        /\ Raw!FirstRow(o) = "bottom" /\ Raw!FirstColumn(o) = "right"
    BY <1>4 DEF Raw!Oriented, Raw!FirstRow, Raw!FirstColumn, Raw!NoOrientation
  <2>2. shown = [i \in Pixels(columns, rows) |-> <<columns - 1 - i[1], rows - 1 - i[2]>>]
    BY <2>1, Turns
  <2>3. q \in Pixels(columns, rows) /\ shown[q] = <<columns - 1 - q[1], rows - 1 - q[2]>>
    BY <2>2
  <2>4. RowAt(q) = <<2, rows - 1 - shown[q][2]>> /\ ColumnAt(q) = <<1, columns - 1 - shown[q][1]>>
    BY <2>1, SideValues
  <2> QED
    BY <1>1, <2>3, <2>4 DEF Pixels
<1>5. CASE o = "VFLIP"
  <2>1. /\ shown = Raw!Mirrored(p, FALSE, TRUE)
        /\ Raw!FirstRow(o) = "bottom" /\ Raw!FirstColumn(o) = "left"
    BY <1>5 DEF Raw!Oriented, Raw!FirstRow, Raw!FirstColumn, Raw!NoOrientation
  <2>2. shown = [i \in Pixels(columns, rows) |-> <<i[1], rows - 1 - i[2]>>]
    BY <2>1, Turns
  <2>3. q \in Pixels(columns, rows) /\ shown[q] = <<q[1], rows - 1 - q[2]>>
    BY <2>2
  <2>4. RowAt(q) = <<2, rows - 1 - shown[q][2]>> /\ ColumnAt(q) = <<1, shown[q][1]>>
    BY <2>1, SideValues
  <2> QED
    BY <1>1, <2>3, <2>4 DEF Pixels
<1>6. CASE o = "ROT_90"
  <2>1. /\ shown = Raw!Rotated90(p)
        /\ Raw!FirstRow(o) = "right" /\ Raw!FirstColumn(o) = "top"
    BY <1>6 DEF Raw!Oriented, Raw!FirstRow, Raw!FirstColumn, Raw!NoOrientation
  <2>2. shown = [i \in Pixels(rows, columns) |-> <<i[2], rows - 1 - i[1]>>]
    BY <2>1, Turns
  <2>3. q \in Pixels(rows, columns) /\ shown[q] = <<q[2], rows - 1 - q[1]>>
    BY <2>2
  <2>4. RowAt(q) = <<1, rows - 1 - shown[q][2]>> /\ ColumnAt(q) = <<2, shown[q][1]>>
    BY <2>1, SideValues
  <2> QED
    BY <1>1, <2>3, <2>4 DEF Pixels
<1>7. CASE o = "ROT_270"
  <2>1. /\ shown = Raw!Rotated270(p)
        /\ Raw!FirstRow(o) = "left" /\ Raw!FirstColumn(o) = "bottom"
    BY <1>7 DEF Raw!Oriented, Raw!FirstRow, Raw!FirstColumn, Raw!NoOrientation
  <2>2. shown = [i \in Pixels(rows, columns) |-> <<columns - 1 - i[2], i[1]>>]
    BY <2>1, Turns
  <2>3. q \in Pixels(rows, columns) /\ shown[q] = <<columns - 1 - q[2], q[1]>>
    BY <2>2
  <2>4. RowAt(q) = <<1, shown[q][2]>> /\ ColumnAt(q) = <<2, columns - 1 - shown[q][1]>>
    BY <2>1, SideValues
  <2> QED
    BY <1>1, <2>3, <2>4 DEF Pixels
<1> QED
  BY <1>2, <1>3, <1>4, <1>5, <1>6, <1>7 DEF Raw!Orientations

-----------------------------------------------------------------------------
(* The preview of an EPSI file. *)

EpsiSoFar ==
  /\ Epsi!TypeOK
  /\ stage = "data" => preview.depth \in {1, 2, 4, 8}
  /\ Epsi!PreviewInside

LEMMA PreviewNumbers ==
  ASSUME preview \in PreviewComments
  PROVE  /\ preview.width \in Nat /\ preview.width < Half
         /\ preview.height \in Nat /\ preview.height < Half /\ preview.depth \in Nat
BY EpsiAssumption, WordHalf DEF Half

\* Past stops within the text, at the first character of C or at the end.
LEMMA PastStops ==
  ASSUME NEW s \in Seq(-4..15), NEW i \in 0..Len(s), NEW C
  PROVE  /\ Epsi!Past(s, i, C) \in i..Len(s)
         /\ Epsi!Past(s, i, C) < Len(s) => s[Epsi!Past(s, i, C) + 1] \in C
         /\ \A k \in i..Epsi!Past(s, i, C)-1 : s[k + 1] \notin C
<1> DEFINE stops == {j \in i..Len(s) : j = Len(s) \/ s[j + 1] \in C}
           First(j) == /\ j = Len(s) \/ s[j + 1] \in C
                       /\ \A k \in i..j-1 : s[k + 1] \notin C
<1>1. Len(s) \in Nat /\ i \in Nat /\ i <= Len(s)
  OBVIOUS
<1>2. stops \in SUBSET Nat /\ stops # {}
  BY <1>1
<1>3. PICK m \in stops : \A j \in stops : m <= j
  BY <1>2, SmallestOf
<1>4. \A k \in i..m-1 : s[k + 1] \notin C
  <2> SUFFICES ASSUME NEW k \in i..m-1, s[k + 1] \in C
               PROVE  FALSE
    OBVIOUS
  <2>1. k \in i..Len(s) /\ ~(m <= k)
    BY <1>1, <1>3
  <2>2. k \in stops
    BY <2>1
  <2> HIDE DEF stops
  <2> QED
    BY <1>3, <2>1, <2>2
<1>5. m \in i..Len(s) /\ First(m)
  BY <1>3, <1>4
<1>6. Epsi!Past(s, i, C) = CHOOSE j \in i..Len(s) : First(j)
  BY DEF Epsi!Past
<1> HIDE DEF First
<1>7. Epsi!Past(s, i, C) \in i..Len(s) /\ First(Epsi!Past(s, i, C))
  BY <1>5, <1>6
<1> QED
  BY <1>1, <1>7 DEF First

LEMMA ModSame ==
  ASSUME NEW n \in Nat, NEW k \in Nat, n < k
  PROVE  n % k = n
OBVIOUS

LEMMA LineNumbers ==
  ASSUME preview \in PreviewComments
  PROVE  /\ Epsi!BytesPerLine \in Nat
         /\ preview.width * preview.depth < Word =>
              preview.width * preview.depth <= 8 * Epsi!BytesPerLine
<1> DEFINE all == preview.width * preview.depth
           bits == all % Word
<1>1. all \in Nat /\ Word \in Nat \ {0}
  BY PreviewNumbers, WordHalf
<1>2. bits \in Nat /\ (all < Word => bits = all)
  BY <1>1
<1> DEFINE whole == bits \div 8
           extra == IF bits % 8 # 0 THEN 1 ELSE 0
<1>3. Epsi!BytesPerLine = whole + extra
  BY DEF Epsi!BytesPerLine
<1> HIDE DEF bits, all
<1>4. whole \in Nat /\ extra \in Nat /\ bits <= 8 * (whole + extra)
  BY <1>2
<1> HIDE DEF whole, extra
<1>5. Epsi!BytesPerLine \in Nat /\ bits <= 8 * Epsi!BytesPerLine
  BY <1>3, <1>4
<1> QED
  BY <1>2, <1>5 DEF all

\* A line of w pixels of z bits each, in b bytes; h of them.  A bit of it is one of them.
LEMMA BitWithin ==
  ASSUME NEW w \in Nat, NEW h \in Nat, NEW z \in Nat, NEW b \in Nat, w * z <= 8 * b,
         NEW c \in 0..w-1, NEW r \in 0..h-1, NEW d \in 0..z-1
  PROVE  /\ r * b * 8 + c * z + d \in Nat
         /\ r * b * 8 + c * z + d < h * b * 8
<1>1. c \in Nat /\ c + 1 <= w /\ r \in Nat /\ r + 1 <= h /\ d \in Nat /\ d < z
  OBVIOUS
<1>2. z * (c + 1) <= z * w
  BY <1>1, MultOrder
<1>3. b * (r + 1) <= b * h
  BY <1>1, MultOrder
<1>4. z * (c + 1) = c * z + z /\ z * w = w * z /\ b * (r + 1) = r * b + b /\ b * h = h * b
  BY <1>1
<1> DEFINE cz == c * z
           wz == w * z
           rb == r * b
           hb == h * b
<1>5. cz \in Nat /\ wz \in Nat /\ rb \in Nat /\ hb \in Nat
  BY <1>1
<1> HIDE DEF cz, wz, rb, hb
<1>6. cz + z <= wz /\ rb + b <= hb /\ wz <= 8 * b
  BY <1>2, <1>3, <1>4 DEF cz, wz, rb, hb
<1>7. rb * 8 + cz + d \in Nat /\ rb * 8 + cz + d < hb * 8
  BY <1>1, <1>5, <1>6
<1> QED
  BY <1>7 DEF cz, rb, hb

LEMMA FewBits ==
  ASSUME NEW w \in Nat, NEW z \in Nat, z <= 8, w * 8 + 31 < Half
  PROVE  w * z < Word
<1>1. w * z <= w * 8
  BY MultOrder
<1> DEFINE wz == w * z
<1>2. wz \in Nat /\ wz <= w * 8
  BY <1>1
<1> HIDE DEF wz
<1>3. wz < Word
  BY <1>2, WordHalf
<1> QED
  BY <1>3 DEF wz

LEMMA DrawnInside ==
  ASSUME Epsi!TypeOK, preview.depth \in {1, 2, 4, 8}, Len(bindata) = Epsi!DataBytes,
         preview.width * 8 + 31 < Half, preview.height * Epsi!BytesPerLine * 8 < Word
  PROVE  Epsi!Inside
<1> DEFINE w == preview.width
           h == preview.height
           z == preview.depth
           b == Epsi!BytesPerLine
<1>1. /\ preview \in PreviewComments
      /\ w \in Nat /\ h \in Nat /\ z \in Nat /\ b \in Nat /\ Word \in Nat /\ Word = 2 * Half
  BY PreviewNumbers, LineNumbers, WordHalf DEF Epsi!TypeOK
<1>2. z <= 8
  OBVIOUS
<1>3. w * z < Word
  BY <1>1, <1>2, FewBits
<1>4. w * z <= 8 * b
  BY <1>1, <1>3, LineNumbers
<1>5. Len(bindata) = h * b
  <2> DEFINE hb == h * b
  <2>1. hb \in Nat
    BY <1>1
  <2>2. hb * 8 < Word
    OBVIOUS
  <2>3. Len(bindata) = hb % Word
    BY DEF Epsi!DataBytes
  <2> HIDE DEF hb
  <2>4. hb < Word
    BY <1>1, <2>1, <2>2
  <2>5. hb % Word = hb
    BY <1>1, <2>1, <2>4, ModSame
  <2> QED
    BY <2>3, <2>5 DEF hb
<1> SUFFICES ASSUME NEW q \in Epsi!Pixels
             PROVE  /\ Epsi!HasImage
                    /\ \A d \in 0..z-1 : Epsi!BitNumber(q, d) \div 8 < Len(bindata)
  BY DEF Epsi!Inside
<1>6. q[1] \in 0..w-1 /\ q[2] \in 0..h-1
  BY <1>1 DEF Epsi!Pixels
<1>7. Epsi!HasImage
  <2>1. w > 0 /\ h > 0
    <3> HIDE DEF w, h
    <3> QED
      BY <1>1, <1>6
  <2>2. w * 8 + 31 < Word \div 2
    BY DEF Half
  <2> QED
    BY <2>1, <2>2 DEF Epsi!HasImage
<1>8. ASSUME NEW d \in 0..z-1
      PROVE  Epsi!BitNumber(q, d) \div 8 < Len(bindata)
  <2> DEFINE n == q[2] * b * 8 + q[1] * z + d
             hb == h * b
  <2>1. n \in Nat /\ n < h * b * 8
    BY <1>1, <1>4, <1>6, BitWithin
  <2>2. Epsi!BitNumber(q, d) = n % Word
    BY DEF Epsi!BitNumber
  <2> HIDE DEF n
  <2>3. Epsi!BitNumber(q, d) = n
    <3>1. n < Word
      BY <1>1, <2>1
    <3> QED
      BY <1>1, <2>1, <2>2, <3>1, ModSame
  <2>4. hb \in Nat /\ h * b * 8 = hb * 8 /\ Len(bindata) = hb
    BY <1>1, <1>5
  <2> HIDE DEF hb
  <2> QED
    BY <2>1, <2>3, <2>4
<1> QED
  BY <1>7, <1>8

LEMMA EpsiReads ==
  EpsiSoFar /\ Epsi!Next => EpsiSoFar'
<1> SUFFICES ASSUME EpsiSoFar, Epsi!Next
             PROVE  EpsiSoFar'
  OBVIOUS
<1>1. /\ Epsi!TypeOK /\ text \in Seq(-4..15) /\ Len(text) \in Nat /\ offset \in Nat
      /\ bindata \in Seq(0..255)
  BY DEF EpsiSoFar, Epsi!TypeOK
<1>2. CASE Epsi!ReadFails
  BY <1>1, <1>2 DEF Epsi!ReadFails, EpsiSoFar, Epsi!TypeOK, Epsi!PreviewInside
<1>3. CASE Epsi!ReadComment
  <2> DEFINE line == Epsi!Past(text, 0, {Epsi!Newline})
  <2>1. line \in 0..Len(text)
    BY <1>1, PastStops
  <2>2. Epsi!Past(text, line, {Epsi!Percent}) \in line..Len(text)
    BY <1>1, <2>1, PastStops
  <2>3. offset' \in Nat
    BY <1>1, <1>3, <2>1, <2>2 DEF Epsi!ReadComment, Epsi!DataStart
  <2> QED
    BY <1>1, <1>3, <2>3 DEF Epsi!ReadComment, EpsiSoFar, Epsi!TypeOK, Epsi!PreviewInside
<1>4. CASE Epsi!ReadByte
  <2> DEFINE n == Epsi!Past(text, offset, Epsi!Hex)
  <2>1. /\ offset < Len(text) /\ Epsi!HasByte(n)
        /\ bindata' = Append(bindata, Epsi!ByteAt(n)) /\ offset' = n + 2
        /\ UNCHANGED <<preview, text, pixels, stage, decoded>> /\ stage = "data"
    BY <1>4 DEF Epsi!ReadByte
  <2>2. n \in offset..Len(text) /\ (n < Len(text) => text[n + 1] \in Epsi!Hex)
    BY <1>1, <2>1, PastStops
  <2> HIDE DEF n
  <2>3. n \in Nat /\ text[n + 1] \in 0..15
    BY <1>1, <2>1, <2>2 DEF Epsi!HasByte, Epsi!Hex
  <2>4. Epsi!ByteAt(n) \in 0..255
    <3> DEFINE high == text[n + 1]
               low == text[n + 2]
    <3>1. Epsi!ByteAt(n) = IF n + 1 < Len(text) /\ low \in 0..15 THEN 16 * high + low ELSE high
      BY DEF Epsi!ByteAt, Epsi!Hex
    <3>2. high \in 0..15
      BY <2>3
    <3> HIDE DEF high, low
    <3>3. CASE n + 1 < Len(text) /\ low \in 0..15
      <4>1. 16 * high + low \in 0..255
        BY <3>2, <3>3
      <4> QED
        BY <3>1, <3>3, <4>1
    <3>4. CASE ~(n + 1 < Len(text) /\ low \in 0..15)
      BY <3>1, <3>2, <3>4
    <3> QED
      BY <3>3, <3>4
  <2>5. bindata' \in Seq(0..255) /\ offset' \in Nat
    BY <1>1, <2>1, <2>3, <2>4
  <2> QED
    BY <1>1, <2>1, <2>5 DEF EpsiSoFar, Epsi!TypeOK, Epsi!PreviewInside
<1>5. CASE Epsi!DataBroken
  BY <1>1, <1>5 DEF Epsi!DataBroken, EpsiSoFar, Epsi!TypeOK, Epsi!PreviewInside
<1>6. CASE Epsi!Draw
  BY <1>1, <1>6 DEF Epsi!Draw, EpsiSoFar, Epsi!TypeOK, Epsi!PreviewInside
<1>7. CASE Epsi!DrawOutside
  <2>1. /\ stage = "data" /\ Len(bindata) = Epsi!DataBytes /\ ~Epsi!Inside
        /\ stage' = "outside" /\ UNCHANGED <<preview, text, offset, bindata, pixels, decoded>>
    BY <1>7 DEF Epsi!DrawOutside
  <2>2. /\ preview.width \in Nat /\ preview.height \in Nat /\ Epsi!BytesPerLine \in Nat
        /\ Half \in Nat /\ Word \in Nat
    BY <1>1, PreviewNumbers, LineNumbers, WordHalf DEF Epsi!TypeOK
  <2>3. \/ preview.width * 8 + 31 >= Half
        \/ preview.height * Epsi!BytesPerLine * 8 >= Word
    BY <1>1, <2>1, <2>2, DrawnInside DEF EpsiSoFar
  <2>4. Epsi!BytesPerLine' = Epsi!BytesPerLine
    BY <2>1 DEF Epsi!BytesPerLine
  <2>5. Epsi!PreviewInside'
    BY <2>1, <2>3, <2>4 DEF Epsi!PreviewInside, Half
  <2>6. Epsi!TypeOK'
    BY <1>1, <2>1 DEF Epsi!TypeOK
  <2> QED
    BY <2>1, <2>5, <2>6 DEF EpsiSoFar
<1> QED
  BY <1>2, <1>3, <1>4, <1>5, <1>6, <1>7 DEF Epsi!Next

-----------------------------------------------------------------------------
(* One call of create.                                                     *)

PreviewShown ==
  /\ columns \in Widths /\ rows \in Heights /\ orientation \in Raw!Orientations \cup {Raw!NoOrientation}
  /\ shown = <<>> \/ (created /\ shown = Raw!Oriented(Raw!Preview, orientation))

CallInv ==
  /\ plugin \in {"blender", "raw", "gs", "epsi"}
  /\ plugin = "epsi" => EpsiSoFar
  /\ IF plugin = "blender" THEN ReadSoFar ELSE step = "idle"
  /\ IF plugin = "raw" THEN PreviewShown ELSE ~created
  /\ Dsc!TypeOK
  /\ RenderedSize /\ PreviewSize

LEMMA CallInit == Init => CallInv
<1> SUFFICES ASSUME Init
             PROVE  CallInv
  OBVIOUS
<1>1. Dsc!TypeOK
  <2>1. Dsc!Init
    BY DEF Init
  <2> QED
    BY <2>1 DEF Dsc!Init, Dsc!TypeOK, Dsc!Medium
<1>2. RenderedSize /\ PreviewSize
  BY DEF Init, GsIdle, RenderedSize, PreviewSize
<1>3. CASE plugin = "blender" /\ Blender!Init /\ RawIdle
  BY <1>1, <1>2, <1>3, BlenderInit DEF CallInv, RawIdle
<1>4. CASE plugin = "raw" /\ Raw!Init /\ BlenderIdle
  BY <1>1, <1>2, <1>4 DEF CallInv, Raw!Init, PreviewShown, BlenderIdle
<1>5. CASE plugin = "gs" /\ BlenderIdle /\ RawIdle
  BY <1>1, <1>2, <1>5 DEF CallInv, BlenderIdle, RawIdle
<1>6. CASE plugin = "epsi" /\ Epsi!Init /\ BlenderIdle /\ RawIdle
  <2>1. EpsiSoFar
    <3>1. text \in Seq(-4..15) /\ <<>> \in Seq(0..255)
      BY <1>6, EpsiAssumption DEF Epsi!Init
    <3> QED
      BY <1>6, <3>1 DEF Epsi!Init, EpsiSoFar, Epsi!TypeOK, Epsi!PreviewInside
  <2> QED
    BY <1>1, <1>2, <1>6, <2>1 DEF CallInv, BlenderIdle, RawIdle
<1> QED
  BY <1>3, <1>4, <1>5, <1>6 DEF Init

\* What gs is told, and the preview, for a box of the document.
LEMMA OptionsSizes ==
  ASSUME Dsc!TypeOK, Options
  PROVE  RenderedSize' /\ PreviewSize'
<1>1. PICK named \in BOOLEAN : options' = EpsOptions(box["BoundingBox"], request', named)
  BY DEF Options
<1> DEFINE b == box["BoundingBox"]
           r == request'
           k == Eps!PreviewScale(b, r.width, r.height)
<1>2. b \in Boxes /\ r \in Requests
  BY CommentsAssumption DEF Dsc!TypeOK, Options
<1>3. /\ options'.bbox = b
      /\ options'.rendered =
           IF named /\ Eps!IsEncapsulated(b, Len(page)) THEN RenderedOf(b, r) ELSE None
      /\ options'.preview =
           IF k # 0 THEN [width |-> Eps!Quotient(Eps!Width(b), k),
                          height |-> Eps!Quotient(Eps!Height(b), k)] ELSE None
  BY <1>1 DEF EpsOptions, RenderedOf
<1> HIDE DEF b, r, k
<1>4. RenderedSize'
  <2> SUFFICES ASSUME options'.rendered # None
               PROVE  /\ options'.rendered.width \in 0..4*r.width
                      /\ options'.rendered.height \in 0..4*r.height
                      /\ IF Eps!Width(b) <= 72 * r.width /\ Eps!Height(b) <= 72 * r.height
                           THEN \/ options'.rendered.width >= 2 * r.width
                                \/ options'.rendered.height >= 2 * r.height
                           ELSE options'.rendered.width = 0 /\ options'.rendered.height = 0
    BY <1>3 DEF RenderedSize, r
  <2>1. Eps!Width(b) > 0 /\ Eps!Height(b) > 0 /\ options'.rendered = RenderedOf(b, r)
    BY <1>3 DEF Eps!IsEncapsulated
  <2> QED
    BY <1>2, <2>1, RenderedBounds
<1>5. PreviewSize'
  <2> SUFFICES ASSUME options'.preview # None, Eps!Width(b) > 0, Eps!Height(b) > 0
               PROVE  /\ options'.preview.width >= r.width /\ options'.preview.height >= r.height
                      /\ \/ options'.preview.width < 2 * r.width
                         \/ options'.preview.height < 2 * r.height
    BY <1>3 DEF PreviewSize, r
  <2>1. k # 0 /\ options'.preview = [width |-> Eps!Quotient(Eps!Width(b), k),
                                      height |-> Eps!Quotient(Eps!Height(b), k)]
    BY <1>3
  <2> QED
    BY <1>2, <2>1, PreviewBounds DEF k
<1> QED
  BY <1>4, <1>5

LEMMA SizesStay ==
  RenderedSize /\ PreviewSize /\ UNCHANGED gsVars => RenderedSize' /\ PreviewSize'
BY DEF RenderedSize, PreviewSize, gsVars

LEMMA AttributesStay ==
  Dsc!TypeOK /\ UNCHANGED dscVars => Dsc!TypeOK'
BY DEF Dsc!TypeOK, Dsc!Medium, dscVars

LEMMA CallStep == CallInv /\ [Next]_vars => CallInv'
<1> SUFFICES ASSUME CallInv, [Next]_vars
             PROVE  CallInv'
  OBVIOUS
<1>1. CASE BlenderStep
  <2>1. /\ plugin = "blender" /\ plugin' = plugin
        /\ UNCHANGED rawVars /\ UNCHANGED dscVars /\ UNCHANGED gsVars
        /\ ReadSoFar'
    BY <1>1, BlenderReads DEF BlenderStep, CallInv
  <2>2. ~created'
    BY <2>1 DEF CallInv, rawVars
  <2> QED
    BY <2>1, <2>2, SizesStay, AttributesStay DEF CallInv
<1>2. CASE RawStep
  <2>1. /\ plugin = "raw" /\ plugin' = plugin
        /\ UNCHANGED blenderVars /\ UNCHANGED dscVars /\ UNCHANGED gsVars
        /\ Raw!Next /\ PreviewShown /\ step = "idle"
    BY <1>2 DEF RawStep, CallInv
  <2>2. PreviewShown'
    <3>1. /\ UNCHANGED <<columns, rows, orientation>> /\ ~created /\ created'
          /\ shown' = shown \/ shown' = Raw!Oriented(Raw!Preview, orientation)
      BY <2>1 DEF Raw!Next, Raw!Fails, Raw!Shows
    <3>2. Raw!Oriented(Raw!Preview, orientation)' = Raw!Oriented(Raw!Preview, orientation)
      BY <3>1 DEF Raw!Oriented, Raw!Preview
    <3> QED
      BY <3>1, <3>2, <2>1 DEF PreviewShown
  <2>3. step' = "idle"
    BY <2>1 DEF blenderVars
  <2> QED
    BY <2>1, <2>2, <2>3, SizesStay, AttributesStay DEF CallInv
<1>3. ASSUME plugin = "gs", plugin' = plugin, UNCHANGED blenderVars, UNCHANGED rawVars
      PROVE  plugin' = "gs" /\ step' = "idle" /\ ~created'
  BY <1>3 DEF CallInv, blenderVars, rawVars
<1>4. CASE DscStep
  <2>1. Dsc!TypeOK'
    BY <1>4, AttributesStep DEF DscStep, CallInv
  <2> QED
    BY <1>3, <1>4, <2>1, SizesStay DEF DscStep, CallInv
<1>5. CASE Options
  <2>1. RenderedSize' /\ PreviewSize'
    BY <1>5, OptionsSizes DEF CallInv
  <2>2. Dsc!TypeOK'
    BY <1>5 DEF Options, Dsc!TypeOK, Dsc!Medium
  <2> QED
    BY <1>3, <1>5, <2>1, <2>2 DEF Options, CallInv
<1>6. CASE EpsiStep
  <2>1. /\ plugin = "epsi" /\ plugin' = plugin
        /\ UNCHANGED blenderVars /\ UNCHANGED rawVars
        /\ UNCHANGED dscVars /\ UNCHANGED gsVars
        /\ EpsiSoFar'
    BY <1>6, EpsiReads DEF EpsiStep, CallInv
  <2>2. step' = "idle" /\ ~created'
    BY <2>1 DEF CallInv, blenderVars, rawVars
  <2> QED
    BY <2>1, <2>2, SizesStay, AttributesStay DEF CallInv
<1>7. CASE UNCHANGED vars
  <2>1. /\ plugin' = plugin /\ UNCHANGED blenderVars /\ UNCHANGED rawVars
        /\ UNCHANGED dscVars /\ UNCHANGED epsiVars /\ UNCHANGED gsVars
    BY <1>7 DEF vars
  <2>2. ReadSoFar => ReadSoFar'
    BY <2>1 DEF blenderVars, ReadSoFar, Blender!TypeOK, Blender!SizeFits, RightSize,
                ThumbnailTaken, Blender!ThumbnailTaken
  <2>3. PreviewShown => PreviewShown'
    BY <2>1 DEF rawVars, PreviewShown, Raw!Preview
  <2>4. step' = step /\ created' = created
    BY <2>1 DEF blenderVars, rawVars
  <2>5. EpsiSoFar => EpsiSoFar'
    BY <2>1 DEF epsiVars, EpsiSoFar, Epsi!TypeOK, Epsi!PreviewInside, Epsi!BytesPerLine
  <2> QED
    BY <2>1, <2>2, <2>3, <2>4, <2>5, SizesStay, AttributesStay DEF CallInv
<1> QED
  BY <1>1, <1>2, <1>4, <1>5, <1>6, <1>7 DEF Next

LEMMA CallInvariant == Spec => []CallInv
BY CallInit, CallStep, PTL DEF Spec

-----------------------------------------------------------------------------
\* The variables of each plugin keep their types, whatever the file says.
THEOREM CallTypes == Spec => []TypeOK
<1>1. CallInv => TypeOK
  BY DEF CallInv, TypeOK, ReadSoFar, EpsiSoFar
<1> QED
  BY <1>1, CallInvariant, PTL

\* For an int of any width, and any sizes in the file: the pixels that
\* BlenderCreator shows are all in the buffer and were all read.
THEOREM ImagesInside == Spec => []ImageInside
<1>1. CallInv => ImageInside
  BY ReadImageInside DEF CallInv, ImageInside, Blender!ImageInside
<1> QED
  BY <1>1, CallInvariant, PTL

\* Nor does BlenderCreator refuse a thumbnail of the right size.
THEOREM ThumbnailsTaken == Spec => []ThumbnailTaken
<1>1. CallInv => ThumbnailTaken
  BY DEF CallInv, ReadSoFar, ThumbnailTaken, Blender!ThumbnailTaken
<1> QED
  BY <1>1, CallInvariant, PTL

\* For a preview of any size and depth: as long as the numbers of its bits can be
\* counted, getEPSIPreview draws nothing that it has not read.
THEOREM PreviewsInside == Spec => []PreviewInside
<1>1. CallInv => PreviewInside
  BY DEF CallInv, EpsiSoFar, PreviewInside
<1> QED
  BY <1>1, CallInvariant, PTL

\* For a preview of any size, RawCreator puts each row and column where EXIF says.
THEOREM PreviewsUpright == Spec => []Upright
<1>1. CallInv => Upright
  <2> SUFFICES ASSUME CallInv, created
               PROVE  Upright
    BY DEF Upright, Raw!Upright
  <2>1. PreviewShown
    BY DEF CallInv
  <2>2. CASE shown = <<>>
    BY <2>2 DEF Upright, Raw!Upright
  <2>3. CASE shown = Raw!Oriented(Raw!Preview, orientation)
    BY <2>1, <2>3, ShownUpright DEF PreviewShown, Sizes
  <2> QED
    BY <2>1, <2>2, <2>3 DEF PreviewShown
<1> QED
  BY <1>1, CallInvariant, PTL

\* For any boxes, and requests that are small enough for the arithmetic of an int:
\* the size that gs is told is bounded by, and no smaller than, what is needed.
THEOREM RenderedSizes == Spec => []RenderedSize
<1>1. CallInv => RenderedSize
  BY DEF CallInv
<1> QED
  BY <1>1, CallInvariant, PTL

\* And the preview covers the thumbnail, with less than twice its size in one dimension.
THEOREM PreviewSizes == Spec => []PreviewSize
<1>1. CallInv => PreviewSize
  BY DEF CallInv
<1> QED
  BY <1>1, CallInvariant, PTL
=============================================================================
