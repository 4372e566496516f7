SPECIFICATION PagesSpec
CONSTANTS
  MaxId = 1
  Procs = {p, q}
  Fds = {1}
  Unreadable = {q}
  MaxChanges = 0
  MaxKey = 1
  Objects = {7}
  MaxDump = 3
  MaxSlots = 2
  MaxEdits = 0
  LinkKinds <- KernelLinks
  MaxLinks = 0
  ProgType <- ProgTypes
  BtfKind <- Btfs
  TypeName <- Names
  Cgroups = {5}
  Hidden = {}
  Progs = {1, 2}
  Maps = {1, 2}
  Links = {}
  HolderSets <- OneHolder
  DiagramHolders <- OneHolder
  TailSets <- TwoCalls
  Nodes = {1, 2}
  Pods = {1, 2, 3}
  Specs <- CommandLines
  MaxPodMoves = 4
INVARIANTS
  EveryMapGrouped
CHECK_DEADLOCK FALSE
