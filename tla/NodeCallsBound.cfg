SPECIFICATION CallsSpec
CONSTANTS
  Code <- AcquireCode
  Watched = {}
  MaxFlips = 0
  Dist <- Distances
  Slot <- ProgArrays
  MaxScan = 3
  DirAt <- Bound
  Files = {"f", "g"}
  Ino <- Inos
  Dev <- Devs
  Places <- FilePlaces
  Unreadable = {}
  Tables <- MountTables
  Procs = {2}
  Fds = {1}
  Hidden = {}
  Foreign = {2}
  Prefixed = TRUE
  Queries <- Lookups
  CheckEvery = 2
  MaxEdits = 0
  CallSets <- CallsAtOnce
  Threads = {t1, t2}
  Pids = {1, 2}
  Self = 1
  Cgroups <- PodCgroups
  Setups <- Deployments
  MaxMoves = 0
  Tree <- TreeCgroups
  AtFirst <- CgroupsAtFirst
  Elsewhere <- MountedInside
  Types <- AttachTypes
  Known = {"bind"}
  ProgIds = {1}
  Flags = {"none", "multi"}
  Roots <- TreeRoots
  Limit = 4
  MaxAttach = 0
INVARIANT EveryLinkFound
\* A call ends.
CHECK_DEADLOCK FALSE
