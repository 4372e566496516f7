SPECIFICATION Spec
CONSTANTS
  Code <- AcquireCode
  Watched = {3}
  MaxFlips = 1
  Dist <- Distances
  Slot <- ProgArrays
  MaxScan = 3
INVARIANT RedactedStayUnknown
\* A program ends, or the dump fails.
CHECK_DEADLOCK FALSE
