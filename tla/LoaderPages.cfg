\* Two programs, two maps; process 1 is hidden, process 2 is a loader.
SPECIFICATION PagesSpec
CONSTANTS
  MaxId = 2
  Procs = {p, q}
  Fds = {1}
  Unreadable = {q}
  MaxChanges = 3
  MaxKey = 2
  Objects = {7}
  MaxDump = 3
  MaxSlots = 2
  MaxEdits = 3
  LinkKinds <- KernelLinks
  MaxLinks = 2
  ProgType <- ProgTypes
  BtfKind <- Btfs
  TypeName <- Names
  Cgroups = {5}
  Hidden = {1}
  Progs = {1, 2}
  Maps = {1, 2}
  Links = {1}
  HolderSets <- OneHolder
  DiagramHolders <- FewHolders
  TailSets <- TwoCalls
  Nodes = {1, 2}
  Pods = {1, 2, 3}
  Specs <- CommandLines
  MaxPodMoves = 4
INVARIANTS
  WalkIsSound
  HoldersAreRight
  KeyWalkIsSound
  ResolvedOnce
  NoLoaderIsUntraced
  NoLoaderRowsNameNobody
  OnlyInheritedMapsAreLost
  PageIsSound
  FocusIsOnePiece
  EveryReferenceDrawn
  FindsTheNode
PROPERTY ShareNotOverstated
\* A page is made once, and a call ends.
CHECK_DEADLOCK FALSE
