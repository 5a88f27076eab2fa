SPECIFICATION Spec
CONSTANTS
  FileSizes <- MCFileSizes
  CompressedSizes <- MCCompressedSizes
  Cap = 2
  SegmentReuse = FALSE
CHECK_DEADLOCK FALSE
INVARIANTS TypeOK ExclusiveSegment NoThrow ResultIntact
PROPERTIES Implements Termination
