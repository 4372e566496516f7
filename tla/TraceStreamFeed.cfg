\* One request, with two events in gRPC's window and one on the wire.
SPECIFICATION FairSpec
CONSTANTS
  MaxConns = 1
  MaxLines = 3
  Window = 2
  Socket = 1
INVARIANT StreamIsSound
PROPERTIES
  PageIsFed
  LeavingReleases
  RecvEnds
  EndIsTold
\* The lines are used up: nothing need happen any more.
CHECK_DEADLOCK FALSE
