SPECIFICATION Spec
CONSTANTS
  FileSizes <- MCFileSizes
  CompressedSizes <- MCCompressedSizes
  Cap = 2
  SegmentReuse = TRUE
CHECK_DEADLOCK FALSE
INVARIANTS UploadIntact AllButLastChunk ThrowsOnlyOnLastChunk
PROPERTIES ServerFinishes
