SPECIFICATION CallsSpec
CONSTANTS
  Code <- ScanCode
  Watched = {1, 2}
  MaxFlips = 2
  Dist <- Distances
  Slot <- ProgArrays
  MaxScan = 3
  DirAt <- Plain
  Files = {"f", "g"}
  Ino <- Inos
  Dev <- Devs
  Places <- FilePlaces
  Unreadable = {}
  Tables <- MountTables
  Procs = {2}
  Fds = {1}
  Hidden = {}
  Foreign = {2}
  Prefixed = TRUE
  Queries <- Lookups
  CheckEvery = 2
  MaxEdits = 2
  CallSets <- CallsAtOnce
  Threads = {t1, t2}
  Pids = {1, 2}
  Self = 1
  Cgroups <- PodCgroups
  Setups <- Deployments
  MaxMoves = 2
  Tree <- TreeCgroups
  AtFirst <- CgroupsAtFirst
  Elsewhere <- MountedInside
  Types <- AttachTypes
  Known = {"bind"}
  ProgIds = {1}
  Flags = {"none", "multi"}
  Roots <- TreeRoots
  Limit = 4
  MaxAttach = 2
INVARIANTS
  ScanTellsTruth
  DumpIsSound
  MatchesAreRight
  EveryLinkFound
  PoolStaysHome
  ReadsAreTrue
  TreeIsRight
PROPERTY FollowsListing
\* A call ends, and so does a program.
CHECK_DEADLOCK FALSE
