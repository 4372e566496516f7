SPECIFICATION ListSpec
CONSTANTS
  MaxId = 2
  Procs = {p, q}
  Fds = {1}
  Unreadable = {q}
  MaxChanges = 3
  MaxKey = 2
  Objects = {7}
  MaxDump = 3
  MaxSlots = 2
  MaxEdits = 3
  LinkKinds <- KernelLinks
  MaxLinks = 2
  ProgType <- ProgTypes
  BtfKind <- Btfs
  TypeName <- Names
  Cgroups = {5}
INVARIANT SlotsReadAreCapped
\* A call ends.
CHECK_DEADLOCK FALSE
