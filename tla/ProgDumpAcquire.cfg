SPECIFICATION Spec
CONSTANTS
  Code <- AcquireCode
  Watched = {}
  MaxFlips = 0
  Dist <- Distances
  Slot <- ProgArrays
  MaxScan = 3
INVARIANT ScanTellsTruth
\* A program ends, or the dump fails.
CHECK_DEADLOCK FALSE
