\* Two subscriptions and so two overlapping readers; three lines against a
\* buffer of one, so that a gap can precede an event and can itself be missed.
SPECIFICATION AgentSpec
CONSTANTS
  Clients = {c1, c2}
  Buffer = 1
  Blank = {}
  MaxLines = 3
  Rpcs = {r1, r2}
  MaxSignals = 3
INVARIANTS
  HubIsSound
  AttachedHasReader
  LateReadAtMostOnce
  GapAccounting
  CallsGetGrace
PROPERTIES
  EndedByOwnReader
  ImplementsFeed
  ReaderLetGoCloses
  AttachedAreServed
  SignalEndsProcess
\* The clients and the lines are used up: nothing need happen any more.
CHECK_DEADLOCK FALSE
