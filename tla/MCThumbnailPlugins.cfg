SPECIFICATION Spec
CONSTANTS
  Word = 2048
  Lengths <- MCLengths
  FileHead = 12
  BlockHeads = {20, 24}
  FileSizes <- MCFileSizes
  FileDimensions <- MCDimensions
  Widths = {1, 2, 3}
  Heights = {1, 2, 3}
  None = None
  DocumentBoxes = {"BoundingBox"}
  Boxes <- MCBoxes
  Numbers = {0, 1, 2}
  A4 = A4
  Letter = Letter
  Names <- MCNames
  KnownNames <- MCKnownNames
  MaxComments = 3
  PreviewComments <- MCPreviewComments
  PreviewTexts <- MCPreviewTexts
  Requests <- MCRequests
INVARIANTS TypeOK DocumentValues PageValues ImageInside ThumbnailTaken Upright RenderedSize PreviewSize PreviewInside SamplesShown PreviewTaken
PROPERTIES BlenderReturns
CHECK_DEADLOCK FALSE
