-------------------------- MODULE ThumbnailPlugins --------------------------
(***************************************************************************)
(* The plugins of the thumbnail worker that do all by themselves: one call *)
(* of create of one of them.  BlenderCreator and RawCreator read a file;   *)
(* for GSCreator this is what it finds out about a file before it starts   *)
(* gs: DscAttributes hands the bounding box and the number of pages over   *)
(* to the computations of EpsFile, and EpsiPreview decodes a preview.  The *)
(* state of a plugin that is not called is that of one which has nothing   *)
(* to do.                                                                  *)
(***************************************************************************)
EXTENDS Integers, Sequences

CONSTANTS
  Word, Lengths, FileHead, BlockHeads, FileSizes, FileDimensions,  \* of BlenderCreator
  Widths, Heights,                                             \* of RawCreator
  None, DocumentBoxes, Boxes, Numbers, Names, KnownNames, MaxComments,  \* of DscAttributes
  PreviewComments, PreviewTexts,                               \* of EpsiPreview
  Requests     \* sizes that a thumbnail is asked for, as [width, height]

Int32 == -(Word \div 2)..(Word \div 2) - 1   \* (of Word values)
ASSUME NumbersAssumption ==
  /\ Word \in Nat /\ Word % 2 = 0 /\ Word >= 32
  /\ Lengths \subseteq Nat /\ FileHead \in Nat \ {0} /\ BlockHeads \subseteq Nat \ {0}
  /\ FileSizes \subseteq Int32 /\ FileDimensions \subseteq Int32
ASSUME PreviewsAssumption == Widths \subseteq Nat \ {0} /\ Heights \subseteq Nat \ {0}
ASSUME CommentsAssumption ==
  /\ Boxes \subseteq [llx : Int, lly : Int, urx : Int, ury : Int] /\ Numbers \subseteq Int
  /\ KnownNames \subseteq Names /\ MaxComments \in Nat
  /\ DocumentBoxes \subseteq {"BoundingBox", "HiResBoundingBox", "CropBox"}
  /\ "BoundingBox" \in DocumentBoxes
  /\ None \notin Boxes /\ None \notin Names /\ None \notin Numbers
  /\ None \notin Nat /\ \A n \in KnownNames : n \notin Nat   \* no number of a medium
  /\ None \notin {"Portrait", "Landscape"}
ASSUME EpsiAssumption ==
  /\ \A p \in PreviewComments : /\ p.width \in 0..(Word \div 2)-1 /\ p.height \in 0..(Word \div 2)-1
                               /\ p.depth \in Nat
  /\ PreviewTexts \subseteq Seq(-4..15)
\* A thumbnail has so few pixels that its size in points, four times over, is an int.
ASSUME RequestsAssumption ==
  \A r \in Requests : /\ r.width \in Nat \ {0} /\ 288 * r.width < Word \div 2
                      /\ r.height \in Nat \ {0} /\ 288 * r.height < Word \div 2

VARIABLES
  plugin,   \* the plugin that is called
  length, at, header, id, size, x, y, image, got, step, result,
  columns, rows, orientation, created, shown,
  part, box, page_bbox, page_pages, page_order, page_orientation, media, page_media,
  page, comments,
  preview, text, offset, bindata, pixels, stage, decoded,
  request,  \* the size asked for
  options   \* of an EPS file: what gs is told, and how its preview is scaled

blenderVars == <<length, at, header, id, size, x, y, image, got, step, result>>
rawVars == <<columns, rows, orientation, created, shown>>
dscVars == <<part, box, page_bbox, page_pages, page_order, page_orientation, media, page_media,
             page, comments>>
epsiVars == <<preview, text, offset, bindata, pixels, stage, decoded>>
gsVars == <<request, options>>
vars == <<plugin, blenderVars, rawVars, dscVars, epsiVars, gsVars>>

Blender == INSTANCE BlenderCreator
Raw == INSTANCE RawCreator
Dsc == INSTANCE DscAttributes
Eps == INSTANCE EpsFile
Epsi == INSTANCE EpsiPreview

BlenderIdle ==
  /\ length = 0 /\ at = 0 /\ header = 0 /\ id = "other" /\ size = 0 /\ x = 0 /\ y = 0
  /\ image = 0 /\ got = 0 /\ step = "idle" /\ result = "none"
RawIdle == columns = 1 /\ rows = 1 /\ orientation = "NORMAL" /\ created = FALSE /\ shown = <<>>
GsIdle == request = None /\ options = None
EpsiIdle ==
  /\ preview = None /\ text = <<>> /\ offset = 0 /\ bindata = <<>> /\ pixels = <<>>
  /\ stage = "idle" /\ decoded = "none"

\* create of one of them is called, or getEPSIPreview by create of GSCreator.
Init ==
  /\ \/ plugin = "blender" /\ Blender!Init /\ RawIdle /\ EpsiIdle
     \/ plugin = "raw" /\ Raw!Init /\ BlenderIdle /\ EpsiIdle
     \/ plugin = "gs" /\ BlenderIdle /\ RawIdle /\ EpsiIdle
     \/ plugin = "epsi" /\ Epsi!Init /\ BlenderIdle /\ RawIdle
  /\ Dsc!Init /\ GsIdle

BlenderStep ==
  plugin = "blender" /\ Blender!Next /\ UNCHANGED <<plugin, rawVars, dscVars, epsiVars, gsVars>>
RawStep ==
  plugin = "raw" /\ Raw!Next /\ UNCHANGED <<plugin, blenderVars, dscVars, epsiVars, gsVars>>
EpsiStep ==
  plugin = "epsi" /\ Epsi!Next /\ UNCHANGED <<plugin, blenderVars, rawVars, dscVars, gsVars>>
DscStep ==
  /\ plugin = "gs" /\ options = None
  /\ Dsc!Next /\ UNCHANGED <<plugin, blenderVars, rawVars, epsiVars, gsVars>>

\* The file is read; named tells whether its name is that of an EPS file.
EpsOptions(b, r, named) ==
  LET resolution == Eps!Resolution(b, r.width, r.height)
      scale == Eps!PreviewScale(b, r.width, r.height)
  IN  [bbox |-> b,
       rendered |-> IF named /\ Eps!IsEncapsulated(b, Len(page))
                      THEN [width |-> Eps!GsWidth(b, resolution),
                            height |-> Eps!GsHeight(b, resolution)]
                      ELSE None,
       preview |-> IF scale # 0
                     THEN [width |-> Eps!Quotient(Eps!Width(b), scale),
                           height |-> Eps!Quotient(Eps!Height(b), scale)]
                     ELSE None]

\* The parser's state ends with create.
Options ==
  /\ plugin = "gs" /\ options = None /\ box["BoundingBox"] # None
  /\ request' \in Requests
  /\ \E named \in BOOLEAN : options' = EpsOptions(box["BoundingBox"], request', named)
  /\ part' = "comments" /\ page' = <<>> /\ comments' = <<>>
  /\ box' = [b \in DocumentBoxes |-> None] /\ page_bbox' = None /\ page_pages' = 0
  /\ page_order' = None /\ page_orientation' = None /\ media' = <<>> /\ page_media' = None
  /\ UNCHANGED <<plugin, blenderVars, rawVars, epsiVars>>

Next ==
  BlenderStep \/ RawStep \/ EpsiStep \/ DscStep \/ Options

\* A call of create runs until it returns.
Spec == Init /\ [][Next]_vars /\ WF_vars(BlenderStep \/ RawStep \/ EpsiStep)

-----------------------------------------------------------------------------
TypeOK ==
  /\ plugin \in {"blender", "raw", "gs", "epsi"}
  /\ plugin = "blender" => Blender!TypeOK
  /\ plugin = "epsi" => Epsi!TypeOK
  /\ Dsc!TypeOK

DocumentValues == Dsc!DocumentValues
PageValues == Dsc!PageValues
ImageInside == Blender!ImageInside
ThumbnailTaken == Blender!ThumbnailTaken
Upright == Raw!Upright
PreviewInside == plugin = "epsi" => Epsi!PreviewInside
SamplesShown == plugin = "epsi" => Epsi!SamplesShown
PreviewTaken == plugin = "epsi" => Epsi!PreviewTaken

\* Each call of BlenderCreator::create returns, also for a file with negative sizes.
BlenderReturns == plugin = "blender" ~> step = "done"

\* Whatever box a file gives, also one that overflows: gs is never asked for more than
\* four times the size of the thumbnail; and for at least twice the size in one dimension,
\* unless the box is larger than 72 times the thumbnail, when gs is asked for nothing.
RenderedSize ==
  options # None /\ options.rendered # None =>
    LET b == options.bbox r == options.rendered
    IN  /\ r.width \in 0..4*request.width /\ r.height \in 0..4*request.height
        /\ IF Eps!Width(b) <= 72 * request.width /\ Eps!Height(b) <= 72 * request.height
             THEN r.width >= 2 * request.width \/ r.height >= 2 * request.height
             ELSE r.width = 0 /\ r.height = 0

\* The preview of a file that has a proper box covers the thumbnail, and in one
\* dimension it is less than twice as large; no box makes the divisor 0.
PreviewSize ==
  options # None /\ options.preview # None =>
    LET b == options.bbox p == options.preview
    IN  Eps!Width(b) > 0 /\ Eps!Height(b) > 0 =>
          /\ p.width >= request.width /\ p.height >= request.height
          /\ p.width < 2 * request.width \/ p.height < 2 * request.height
=============================================================================
