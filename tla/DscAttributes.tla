---------------------------- MODULE DscAttributes ----------------------------
(***************************************************************************)
(* What the attribute comments of a document store (the dsc_parse          *)
(* functions of ps/dscparse.cpp): which of several comments counts, by the *)
(* part of the document they stand in.  The parts follow one another as in *)
(* DscSections.  Numbers and names are values; a comment that gives none,  *)
(* because it is malformed or says (atend), has the value None.  A %%+     *)
(* line is one more comment of the kind it continues.                      *)
(*                                                                         *)
(* There is no error function, as in GSCreator: comments are taken to be   *)
(* right.                                                                  *)
(***************************************************************************)
EXTENDS Integers, Sequences

CONSTANTS
  None,
  DocumentBoxes,  \* "BoundingBox", "HiResBoundingBox", "CropBox"
  Boxes,          \* values of boxes
  Numbers,        \* numbers that %%Pages gives
  Names,          \* names of media
  KnownNames,     \* those in dsc_known_media
  MaxComments     \* bounds the model

Orders == {"Ascend", "Descend", "Special"}
Orientations == {"Portrait", "Landscape"}

VARIABLES
  part,              \* scan_section
  box,               \* bbox, hires_bbox and crop_box of the document
  page_bbox, page_pages, page_order, page_orientation,
  media,             \* the names of the document's media
  page_media,        \* the default: None, an index of media, or a known name
  page,              \* the pages
  comments           \* history: the comments, with the page they belong to

docVars == <<box, page_bbox, page_pages, page_order, page_orientation, media, page_media>>
vars == <<part, docVars, page, comments>>

Medium == {None} \cup (1..Len(media)) \cup KnownNames

TypeOK ==
  /\ part \in {"comments", "defaults", "setup", "pages", "trailer"}
  /\ box \in [DocumentBoxes -> Boxes \cup {None}] /\ page_bbox \in Boxes \cup {None}
  /\ page_pages \in Int
  /\ page_order \in Orders \cup {None} /\ page_orientation \in Orientations \cup {None}
  /\ media \in Seq(Names) /\ page_media \in Medium
  /\ page \in Seq([bbox : Boxes \cup {None}, orientation : Orientations \cup {None},
                   media : Medium])

Init ==
  /\ part = "comments"
  /\ box = [b \in DocumentBoxes |-> None] /\ page_bbox = None
  /\ page_pages = 0 /\ page_order = None /\ page_orientation = None
  /\ media = <<>> /\ page_media = None /\ page = <<>> /\ comments = <<>>

\* A comment of this kind is read.
Comment(kind, value) ==
  /\ Len(comments) < MaxComments
  /\ comments' = Append(comments, [kind |-> kind, value |-> value, part |-> part,
                                   page |-> Len(page)])

-----------------------------------------------------------------------------
\* The document goes on with another part; there may be pages after a false trailer.
Enter ==
  /\ part' \in CASE part = "comments" -> {"defaults", "setup", "trailer"}
                 [] part = "defaults" -> {"setup", "trailer"}
                 [] part \in {"setup", "pages"} -> {"trailer"}
                 [] OTHER -> {}
  /\ UNCHANGED <<docVars, page, comments>>

NewPage == [bbox |-> None, orientation |-> None, media |-> None]
Page ==
  /\ Comment("Page", None)
  /\ part' = "pages" /\ page' = Append(page, NewPage)
  /\ UNCHANGED docVars

\* The document's attributes are given by comments and trailer.
InDocument == part \in {"comments", "trailer"} /\ UNCHANGED <<part, page>>

\* mutant: the last box of the comments counts
ParseBox_Last(old, value) == IF old # None /\ part = "pages" THEN old ELSE value
\* The first box counts, in the trailer and the defaults the last one.
ParseBox(old, value) ==
  IF old # None /\ part \in {"comments", "pages"} THEN old ELSE value

DocumentBox ==
  /\ InDocument
  /\ \E b \in DocumentBoxes, v \in Boxes \cup {None} :
       Comment(b, v) /\ box' = [box EXCEPT ![b] = ParseBox(@, v)]
  /\ UNCHANGED <<page_bbox, page_pages, page_order, page_orientation, media, page_media>>

\* The order after the number is DSC 2; it does not override one that is known.
Pages ==
  /\ InDocument
  /\ \E n \in Numbers \cup {None}, o \in Orders \cup {None} :
       /\ n = None => o = None
       /\ Comment("Pages", n)
       /\ IF n = None \/ (page_pages # 0 /\ part = "comments")
            THEN UNCHANGED <<page_pages, page_order>>
            ELSE page_pages' = n /\ page_order' = IF page_order = None THEN o ELSE page_order
  /\ UNCHANGED <<box, page_bbox, page_orientation, media, page_media>>

PageOrder ==
  /\ InDocument
  /\ \E o \in Orders \cup {None} :
       /\ Comment("PageOrder", o)
       /\ page_order' = IF o = None \/ (page_order # None /\ part = "comments")
                          THEN page_order ELSE o
  /\ UNCHANGED <<box, page_bbox, page_pages, page_orientation, media, page_media>>

\* Whether it is a duplicate is decided by the document's orientation.
ParseOrientation(old, value) ==
  IF value = None \/ (page_orientation # None /\ part = "comments") THEN old ELSE value

Orientation ==
  /\ part \in {"comments", "defaults", "trailer"} /\ UNCHANGED <<part, page>>
  /\ \E o \in Orientations \cup {None} :
       /\ Comment("Orientation", o)
       /\ page_orientation' = ParseOrientation(page_orientation, o)
  /\ UNCHANGED <<box, page_bbox, page_pages, page_order, media, page_media>>

DocumentMedia ==
  /\ InDocument
  /\ \E n \in Names : Comment("DocumentMedia", n) /\ media' = Append(media, n)
  /\ UNCHANGED <<box, page_bbox, page_pages, page_order, page_orientation, page_media>>

\* DSC 2.1: the names of the first media are given anew (of one or two, in the model).
PaperSizes ==
  /\ part = "comments" /\ UNCHANGED <<part, page>>
  /\ \E s \in UNION {[1..k -> Names] : k \in 1..2} :
       /\ Comment("DocumentPaperSizes", s)
       /\ media' = s \o SubSeq(media, Len(s) + 1, Len(media))
  /\ UNCHANGED <<box, page_bbox, page_pages, page_order, page_orientation, page_media>>

-----------------------------------------------------------------------------
\* The first medium of that name.
Listed(name) == \E i \in 1..Len(media) : media[i] = name
Found(name) ==
  CHOOSE i \in 1..Len(media) : media[i] = name /\ \A j \in 1..i-1 : media[j] # name

DefaultBox ==
  /\ part = "defaults"
  /\ \E v \in Boxes \cup {None} :
       Comment("PageBoundingBox", v) /\ page_bbox' = ParseBox(page_bbox, v)
  /\ UNCHANGED <<part, page, box, page_pages, page_order, page_orientation, media, page_media>>

\* A document's medium that %%PaperSize names becomes the default, within a page too.
DefaultMedium ==
  /\ \E n \in Names :
       \/ /\ part = "defaults" /\ Listed(n) /\ Comment("PageMedia", n)
          /\ page_media' = Found(n)
       \/ /\ part \in {"setup", "pages"} /\ Listed(n) /\ Comment("PaperSize", n)
          /\ page_media' = Found(n)
       \/ /\ part = "setup" /\ ~Listed(n) /\ n \in KnownNames /\ Comment("PaperSize", n)
          /\ page_media' = n
  /\ UNCHANGED <<part, page, box, page_bbox, page_pages, page_order, page_orientation, media>>

\* What a comment of a page says is said of the last page.
InPage == part = "pages" /\ page # <<>> /\ UNCHANGED <<part, docVars>>
PageBox_First(v) == page' = [page EXCEPT ![1].bbox = ParseBox(@, v)]  \* mutant
PageBox(v) == page' = [page EXCEPT ![Len(page)].bbox = ParseBox(@, v)]

PageAttribute ==
  /\ InPage
  /\ \/ \E v \in Boxes \cup {None} : Comment("PageBoundingBox", v) /\ PageBox(v)
     \/ \E o \in Orientations \cup {None} :
          /\ Comment("PageOrientation", o)
          /\ page' = [page EXCEPT ![Len(page)].orientation = ParseOrientation(@, o)]
     \/ \E n \in Names :
          /\ Listed(n) /\ Comment("PageMedia", n)
          /\ page' = [page EXCEPT ![Len(page)].media = Found(n)]
     \/ \E n \in KnownNames :
          /\ ~Listed(n) /\ Comment("PaperSize", n)
          /\ page' = [page EXCEPT ![Len(page)].media = n]

Next ==
  \/ Enter \/ Page \/ DocumentBox \/ Pages \/ PageOrder \/ Orientation \/ DocumentMedia
  \/ PaperSizes \/ DefaultBox \/ DefaultMedium \/ PageAttribute

Spec == Init /\ [][Next]_vars

-----------------------------------------------------------------------------
\* The comments of this kind in these parts, or in this page, by their numbers.
Given(kind, parts) ==
  {i \in 1..Len(comments) : comments[i].kind = kind /\ comments[i].part \in parts}
GivenInPage(kind, n) == {i \in Given(kind, {"pages"}) : comments[i].page = n}
\* Those that give a value; the value of the first, and of the last.
Good(S) == {i \in S : comments[i].value # None}
FirstOr(S, default) ==
  IF S = {} THEN default ELSE comments[CHOOSE i \in S : \A j \in S : i <= j].value
LastOr(S, default) ==
  IF S = {} THEN default ELSE comments[CHOOSE i \in S : \A j \in S : j <= i].value

\* "Process first %%BoundingBox: in comments, and last in trailer", as the comment in
\* dsc_parse_bounding_box says, and so for the number of pages and the orientation,
\* whatever malformed, deferred and repeated comments a document has; but a trailer
\* that gives no box takes away the one of the comments.
DocumentValues ==
  /\ \A b \in DocumentBoxes :
       box[b] = LastOr(Given(b, {"trailer"}), FirstOr(Good(Given(b, {"comments"})), None))
  /\ LET header == {i \in Good(Given("Pages", {"comments"})) : comments[i].value # 0}
     IN  page_pages = LastOr(Good(Given("Pages", {"trailer"})), FirstOr(header, 0))
  /\ page_orientation = LastOr(Good(Given("Orientation", {"defaults", "trailer"})),
                               FirstOr(Good(Given("Orientation", {"comments"})), None))

\* A page has what was said in it and nothing of another page: its first box, its last
\* orientation, and the medium that was named last, whose name has not changed since.
PageValues ==
  \A n \in 1..Len(page) :
    /\ page[n].bbox = FirstOr(Good(GivenInPage("PageBoundingBox", n)), None)
    /\ page[n].orientation = LastOr(Good(GivenInPage("PageOrientation", n)), None)
    /\ page[n].media \in 1..Len(media) =>
         media[page[n].media] = LastOr(GivenInPage("PageMedia", n), None)
=============================================================================
