\* A call that answers with State and one that changes the switch under it,
\* while another process takes and drops an fd of its own; two holds in turn, so
\* that the first one's callback can come late to the second.
SPECIFICATION FairSpec
CONSTANTS
  Callers = {k1, k2}
  Procs = {p1}
  TTL = 1
  MaxTime = 2
INVARIANTS
  SwitchIsSound
PROPERTIES
  
  ImplementsLease
  HoldEnds
