CONSTANTS
  SegmentSize = 32
  SizeField = 65536
  Missed = 4
  ListedWhole = 3
  FileSizes <- MCFileSizes
  MaxInFlight = 2
SPECIFICATION TransferSpec
\* The transfer ends: the file is written, or its size is never known.
CHECK_DEADLOCK FALSE
INVARIANT SupportedSizesAreCorrect
