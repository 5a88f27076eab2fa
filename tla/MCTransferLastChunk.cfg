SPECIFICATION Spec
CONSTANTS
  FileSizes <- MCFileSizes
  CompressedSizes <- MCCompressedSizes
  Cap = 2
  SegmentReuse = TRUE
CHECK_DEADLOCK FALSE
INVARIANT ResultIntact
