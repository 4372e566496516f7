# bpf-explorer in TLA+

A model, its checks and its proofs, kept beside the code of bpf-explorer: one
binary that lists, dumps and follows the eBPF objects of Linux nodes.

## The system

An **agent** runs on every node and answers gRPC calls (`internal/server`) by
reading the kernel and /proc (`internal/inspector`) and the node's trace pipe
(`internal/tracelog`). A **UI** (`internal/web`) finds the agents
(`internal/discovery`), calls them, groups what they answer by the process that
loaded it, and renders pages. The `local` role runs both in one process.

Little of it keeps state between calls; but a call is many system calls, or many
RPCs, and the node does not wait for it.

| component | state it keeps | operations | hard part | correct when |
| --- | --- | --- | --- | --- |
| trace-log hub (`tracelog/hub.go`, `pipe.go`) | subscribers, running reader, generation; per client a channel and a drop count; per reader goroutine its context | Subscribe, Close, broadcast, reader loop, readerDone | goroutines outlive the client that started them, several readers overlap, slow clients drop lines | no panic, no lost teardown, every client has a live reader, every loss told, pipe let go |
| stats switch (`inspector/stats.go`) | fd, deadline, generation, timer | Set, State, timer callback, exit | late timers, restarts, three reads that are not one | one fd, every hold ends, none ended early, answers that name what was there |
| trace-log stream (`server.TraceLog`, `web/tracelog.go`, `tracelog.html`) | a stream, two goroutines, an EventSource | connect, pause, resume, gone, reconnect | a disconnect must reach the hub through three processes, and either connection may break | lines in order, "gone" after the last that arrived, pipe let go when the tab leaves |
| process (`agent.go`, `main.go`) | grace timer, listener, signal channel | Run, stop, runLocal | streams that never end | always stops, and no call is cut before its grace is over |
| object walks (`inspector.go`, `procpids.go`) | none across calls | id walk, /proc scan, CPU sample, walk of a map's keys | objects come and go, ids and fds change hands, keys are deleted under the walk | nothing listed twice, nothing present throughout missed, no share of another program |
| link resolution (`links.go`, `cgroup.go`) | a resolver's caches, for one call | attach details, targets, cgroup paths | ids of two spaces in one field, one lookup for many links | a name is the right one, nothing is loaded or walked twice |
| program dump (`disasm.go`, `tailcall.go`, `kallsyms.go`, `xlated.go`) | the cached base address | instructions, symbols, tail-call scan, listing | jumps into the middle, wide loads, hidden addresses | what it tells is what runs |
| inode search (`inode.go`) | none | fd and mapping scan, bounded filesystem walk | fds reused, links made and removed, a budget that runs out | partial answers say so |
| node reads (`cgroup.go`, `resources.go`, `node.go`, `sysctl`) | threads and their namespaces | enter init's namespaces, read paths, accounting, sysctls | a thread that cannot come back, paths spelled for another namespace | nobody is shown another's accounting |
| cgroup tree (`cgrouptree.go`) | none across calls | bounded walk, a query per attach type | attach, detach, mkdir and rmdir meanwhile; mounts inside; old kernels refuse flags | rows that were true, nothing present throughout missed |
| loader grouping and diagrams (`web/graph.go`, `handlers.go`) | none | groupByLoader, progGroups, Holders columns, the diagrams' selections and edges | four routes to a loader, three lists of three moments | every object in a group, every reference drawn |
| discovery (`discovery/`, `index`, `dial`) | none | Endpoints, dial | two pods for one node in a rollout, pods that change between two listings | a node with an agent is found |
| pages, formatting, generated code | none | render | none | not modelled |

The components meet in few places: `server.TraceLog` subscribes to the hub and
is itself consumed by the UI's bridge; `ListPrograms` asks the stats switch
before it samples; `agent.stop` ends the streams and so, through them, the hub's
readers; the grouping works on what three separate calls returned, and a
program's diagram on a dump that comes after them.

`PROJECT.json` lists every component and every hazard at its line.

## Modules

| module | models |
| --- | --- |
| `LineFeed` | what the hub promises a client, and nothing of how |
| `TraceHub` | the hub, its reader goroutines and their polls |
| `AgentShutdown` | the process: Listen, Serve, signal, GracefulStop, grace, Stop, runLocal's halves |
| `MCTraceHub` | TLC's instance: the hub, or the process |
| `AgentShutdownProofs` | a stopping agent gives its calls their grace, for any calls and signals |
| `TraceHubProofs` | proofs about the hub, and that it implements `LineFeed` |
| `StatsLease` | what the stats switch promises: a lease |
| `StatsSwitch`, `MCStatsSwitch` | the switch, its timers, callbacks and callers, the process's exit |
| `StatsSwitchProofs` | proofs about the switch, and that it implements `StatsLease` |
| `TraceStream`, `MCTraceStream` | one trace-log page and its streams: TraceLog handler, gRPC stream, Recv goroutine, SSE loop, EventSource; the hub behind it is `LineFeed` |
| `TraceStreamProofs` | lines in order and "gone" after the last that arrived, on any number of streams that may break, and that the page implements `LineFeed` |
| `ObjectWalk` | one ListMaps, ListPrograms or ListLinks call: CPU sample, /proc scan, id walk |
| `KeyWalk` | the keys of one map: DumpMap, and the slots a listing reads |
| `LinkAttach` | the attach details of a list of links, and the resolver's caches |
| `MCListing` | TLC's instances of these three, which `MCLoaderPages` has as well |
| `ListingProofs` | what a listing's rows, holders, shares, slots and link details say is so, for any node |
| `ProgDump`, `MCProgDump` | a program's dump and the page that reads it, and then the program, run |
| `ProgDumpProofs` | a dump says what the program does, for any program of these instructions |
| `WalkOrder` | a directory's entries in the order a walk has them |
| `InodeSearch` | one inode lookup: processes, filesystem walk, merge |
| `NodeReads` | namespaces entered, cgroup paths, accounting, sysctls, in several calls at once |
| `CgroupTree` | one tree of cgroups and what is attached to each |
| `MCNodeCalls` | TLC's instances of `ProgDump`, `InodeSearch`, `NodeReads` and `CgroupTree` |
| `NodeReadsProofs` | threads go home and nobody is shown another's accounting, for any calls, threads, namespaces and failures; a cgroup tree is true and whole; an inode's rows and holders are right, and every link is found where no directory has two paths |
| `LoaderGroups` | who loaded what, and what the Holders columns say of it |
| `LoaderPages` | the pages that group by loader: their calls, failures, filters and pickers, over `LoaderGroups` |
| `LoaderDiagrams` | the three diagrams: what each selects and draws, over `LoaderPages` |
| `Discovery` | Endpoints of both kinds, and the index and dial that ask for them |
| `MCLoaderPages` | TLC's instances of these and of the listings |
| `LoaderPagesProofs` | the groups and which maps are lost, what pages and pickers say when calls fail, that diagrams are whole, that a node is found; for any lists, pods and failures |

`TraceStream` uses `LineFeed` twice: as the hub, which `TraceHub` is proved to
implement, and as what the page is shown to implement. So the promise the hub
makes to its client is the promise the screen keeps.

Parts that share no state share an MC module and a run: its variable `mode` says
which of them a behaviour is, and the others stay where they began. So `pages` is
a listing of objects, of a map's keys or of links, or a page, a diagram or the
finding of a node; `node_calls` is a dump, an inode lookup, reads of paths and
sysctls, or a cgroup tree; `hub` is the hub or the process.

### TraceHub

Each critical section of `Hub.mu` is one action: `Subscribe` (`Join` when a
reader runs, `Start` or `OpenFails` when none does), `Close` (`Unsubscribe`, or
`UnsubscribeUnknown` when the reader's exit was first), `ScanLine` with
`Broadcast`, and `ReaderDone` (`TearDown`, or `Superseded` when the generation is
stale). Outside the mutex a reader moves between `check` (the context), `poll`,
`scan` (lines its Scanner still holds), `ended`, `closing` and `closed`, with
anything else in between.

`subs`, `stop`, `gen` are the Hub's fields; `stop` holds the number of the reader
it cancels, 0 for nil. `closes[c]` counts how often a client's channel was
closed, so that a second close, which panics in Go, can be seen. `rd[g]` is the
goroutine of generation g. `offered`, `last` and `home` are histories: what was
broadcast while a client was attached, the event it took last, and the
generation it attached under.

Abstracted: a line is its number in the order the kernel wrote it; `Blank` says
which are blank. A read takes any number of the waiting lines. A line longer
than the Scanner accepts, and a read that ends inside a line, are left out.
`poll` and `read` are one wait: nothing the properties tell apart happens between
them.

### AgentShutdown

`server` is the gRPC server (`draining` is GracefulStop at work), `catcher` the
goroutine of `agent.Run` that waits for a signal, takes it, stops catching more
and waits for GracefulStop or the grace. It runs before Serve does, so a signal
may stop the server first (`unserved`): Serve then returns an error, as it does
when the listener fails (`ServeFails`). `Leave` is main returning with the first
result of `runLocal`'s two halves. A signal that nobody catches kills. grpc-go
lets Serve return only once Stop or GracefulStop is through, which is why the
process may leave when Serve returns; the mutant `AgentReturnsEarly` shows what
hangs on it.

### StatsSwitch

Each critical section of `s.mu` is one action: `SetOn`, `SetOnFails`, `SetOff`,
`ReadHeld`, and `Callback`. `State` then reads the sysctl and one process after
another, an action each. `Fire` is the Go runtime starting a due timer: from
then on `Stop` is too late, and the callback waits in `fired` for the mutex.
`Exit` is the agent ending, however it ends, and starting again; `Others` are
other people's fds and the sysctl.

`why` and `seen` are histories: how the last hold ended, and which reasons the
kernel had to count, at some moment and throughout, while a State ran.

### TraceStream

A page makes up to `MaxConns` requests, one EventSource at a time; a request that
the page left may still be on its way down while the next comes up. Per request:
`agent` is where Server.TraceLog is, `net` what the gRPC stream holds (`Window`
events), `status` that its end is queued behind them, `recv` and `loop` where the
two goroutines of tracelogStream are, `errs` its buffered error, `ctx` that
r.Context() is done, `http` and `wire` the response and what of it is on its way
(`Socket` messages). `down` is that the connection to the agent has broken. `es`,
`shown` and `told` are the page's; `sent` and `got` are histories, the last event
the agent sent and the last that reached Recv.

A select with several ready cases is a choice between actions. A hang-up travels
`NoticeGone` (net/http), `CutArrives` (gRPC), `AgentDone`, and each may be late.
The agent may die, the reader may stop, either connection may break. When the
agent dies or its connection breaks (`AgentDies`, `StreamBreaks`), any part of what
was on its way arrives, the rest is lost, and Recv fails: so the page is told
"gone" of a stream whose last events it never had. Until the agent notices
(`CutArrives`), its Send goes on and reaches nobody. A write on a broken connection
to the browser fails or goes into a buffer nobody reads. A keepalive shows
up only as one more way to find the connection broken (`LoopDone`).

### The agent's other calls

Each of these modules has the node and one call in it, and every system call of
the call is an action of its own, so that the node may change between any two.
Histories say what was true throughout (`stayed`, `kept`, `calm`, `steady`) and
what was true at some moment (`held`, `carried`, `applied`, `was`): an answer
should have all of the first and nothing but the second.

* `ObjectWalk`: `gen` tells objects apart that had one id in turn. `ReadFirst` is
  a step of readRunTimes' first pass, `ReadFdDir` and `ReadFdInfo` of
  scanObjectPIDs, `GetNextId` and `Open` of the walk. Ids are handed out upwards
  and then again from the first free one, as the kernel does. The share of CPU
  time is the difference of the two run times, without the division.
* `KeyWalk`: `NextKey` answers as the kernel does: of a hash that has lost the
  given key, the first. `cut` is that a next key was refused, which ends the walk as
  the last key does; `unread` are the slots whose lookup failed, `looked` how many
  slots were read. `Behind` says what a walk has passed, at any moment and however
  it ends: `KeptKeysAreRead` is about that, so an early end is not excepted.
* `LinkAttach`: a link is a record of what the kernel reports; `of` is what it does
  not report, namely whether a target's ids are of the kernel's BTF or of a
  program. `LinkDetail` is the resolver's answer, `ReadLink` the answer and what
  is cached by it. A BTF object may give no handle or info (`closed`), a module's no
  spec (`broken`).
* `ProgDump`: an instruction is an operation, two registers, `imm` and `off`. The
  listing and the tail-call scan are operators on a sequence of them; `Run` is a
  machine of the kernel's, as far as r0 to r3 and the order of instructions go.
  `visible` is kptr_restrict, which may change between any two reads; `raw` and
  `resolved` say what the reads of the instructions and of the symbols were shown.
  `stage` is how far the dump is, or that the program runs, and `ip` where.
* `InodeSearch`: a directory tree with bind mounts is a function from paths to
  directories; a file's name is a place in a directory. `stat` is the fd between
  the scan's Stat and its Readlink: used again by then, it has a row with the inode
  of one file and the path of another, both of which its process must have held. `work` is the walk's stack, `seen` the links
  counted against the link count. The clock is looked at every `CheckEvery`
  entries.
* `NodeReads`: `ns` are the namespaces of each thread and `locked` which call's
  goroutine has a thread for its own; `Spell` is how the kernel spells a cgroup's
  path for the namespace of who reads. `Setups` are ways to deploy the agent.
  Where init's own links cannot be read, `cgroupV2Root` reads the agent's mounts.
  `jit` is that the JIT's sysctls were read in the node's network namespace, and
  `SysctlsAreTheNodes` what a page without a note says by showing them.
* `CgroupTree`: `Query` is when the kernel refuses, `known` the querier's cache of
  descriptions, `visited` what the walk counts against its limit. The walk is in
  the order of names, and reads what is in a cgroup once its queries are done
  (`EndCgroup`); the programs of one query are described in any order. Cgroups are
  made (`Mkdir`, of names none has had: a bound) and removed meanwhile; `Elsewhere`
  are mounts inside the hierarchy, which the walk leaves out (`OtherFilesystem`).

### The UI's pages

The code's loops keep the first answer of a pass over sorted ids; the operators
of `LoaderGroups` say the same with the lowest id of a set. `s` is what an agent's
calls returned. As they return the node of different moments, no list is assumed
to fit another. A page of `LoaderPages` makes its calls in the code's order
(`CallsOf`), any may fail, and `Required` says whether the page then ends in an
error. `AgentAnswers` takes any list the bounds allow, which is every list the
node could have at that moment.

`LoaderDiagrams` selects (`LoaderGroup`, `ProgramGroup`, `MapGroup`) and draws
(`buildGroupMermaid`) with separate operators, as the code does: the properties are
about what comes of the two together.

`Discovery` lets the pods of the agents' DaemonSet come, turn ready, fail and go
between the listing of the index, the listing of dial and the call. A name and
an address of a pod are assumed not to be used again. The index sorts what it
lists by node; only the first of it matters to where a browser is sent, so the
nodes are a set, and the first is the lowest.

## What the runs check

| run | question | bounds |
| --- | --- | --- |
| `hub` | `HubIsSound` (types, no double close, no send on closed), live reader for whoever is attached, one late read at most, gap accounting, own reader ends the stream, implements `LineFeed`, a reader let go of closes the pipe, attached means drained and an exit is told; `CallsGetGrace`, `SignalEndsProcess` | 2 clients, buffer 1, 3 lines; 2 calls, 3 signals |
| `stats` | `SwitchIsSound` (types, one fd, every hold timed), implements `StatsLease`, every hold ends, an answer names what kept stats on throughout and nothing that never did | 2 calls, 1 other process, TTL 1, clock to 2 |
| `stream_safety` | no reconnect into an ended stream | 2 requests, 1 line |
| `stream_feed` | types, "gone" after the last line that arrived, which is the last sent unless the connection broke; the screen implements `LineFeed`; leaving releases the pipe, no goroutine stays, the end is told | 1 request, 3 lines, window 2 |
| `pages` | the id walk and its holders, the CPU share, the walk of keys, links resolved once and right; no-loader group is the untraced, its rows name nobody, which maps are lost, nothing rests on a failed call; a diagram is of one piece and has every reference; a node with an agent is found | 2 ids, 2 processes, 3 changes; 3 keys, 3 edits; 3 links of 13 kinds; 2 programs, 2 maps, 1 link, 1 hidden pid, 1 loader, 2 tail calls; 2 nodes, 3 pods, 4 changes |
| `pages_lost` | violated: every map in a group | 2 programs, 2 maps, 2 loaders |
| `listing_targets` | violated: a link's target is named right | 2 links of 14 kinds |
| `listing_slots` | violated: a listing reads no more slots of a map than its cap | 3 slots, cap 2 |
| `node_calls` | what is told of a tail call holds, calls are named for what they call, a program goes where its listing says; the rows of an inode search and their holders, links found unless it says otherwise; threads handed on are home, accounting, paths and sysctls are who they are said to be of; the cgroup tree is true and whole | programs of up to 4 instructions of an alphabet of 25; 2 files, 3 places, 1 process with an fd and a mapping, 2 edits; 2 calls, 2 threads, 2 moves; 5 cgroups, one made, one mounted, 2 types, 2 changes, limit 4 |
| `prog_acquire` | violated: what is told of a tail call holds | 3 instructions, one a load-acquire |
| `prog_hidden` | violated: a call the kernel hid is not named | the same, one change of kptr_restrict |
| `search_links` | violated: links found unless it says otherwise | one bind mount, no edits |

Why the bounds are enough. The hub: two clients make "not the last to leave"
possible and two generations at once; a third generation beside them, and so a
reader superseded twice, is not in the instance, and is covered by the proofs,
which are for any number. A buffer of one makes drops happen on the second line,
and a third line can carry the gap or be missed with it. The process: a third
signal is one after the one that killed or was lost. The switch: two calls are a
hold and the one that replaces it while the first callback is still queued, or a
State and what changes under it. The stream: three lines are one in each buffer
between the hub and the page, so that the end can overtake any of them; the
second request is there for the reconnect. The pages: two programs and two maps
are an array or an outer map, what sits in its slot, and a program that
references either; every combination of those is enumerated. The listing: two
ids are one that goes and one that stays, or one that is handed out again; three
changes are to free, make and run. Three keys are one before, at and after the
walk's; MaxDump and MaxSlots are below and at that number. The dump: four
instructions are a map, an index, a jump or a write between them and the call,
so that every place for the jump's target comes up. The node's calls: two calls
on two threads are one thread entered while the other is handed on; the limit is
below the number of cgroups there may be, and above that of most trees.

`CHECK_DEADLOCK FALSE` is set where clients, lines and requests are used up, or a
call or a page is made once, and then nothing need happen. The switch never
stops, because other people's sysctl can always change.

### Where the code and its comments differ

Six runs end in a violation:

* `pages_lost`, a bug. A map sits in a slot of a loader's outer map, and a program
  without a loader references it. The no-loader group leaves it out because it
  has a loader (`graph.go:152`, `160-162`), the last loop leaves it to whoever
  references it (`174-176`), and no page lists it. `OnlyInheritedMapsAreLost`
  shows that this is the only way to lose a map.
* `prog_acquire`, a bug. The tail-call scan does not know that a load-acquire writes
  its destination (`tailcall.go:205`), and tells the slot that was there before.
* `listing_targets`, a bug. The target object of a link to a program's function is
  that program's id (`links.go:305-307`); `loadTargetSpec` looks it up as a BTF
  object's, and a program numbered like the kernel's own BTF object has its
  function named for a kernel function.
* `listing_slots`. `maxFDArraySlots` is said to cap how many slots a listing reads of
  one map, as "a bound on work done for every page view" (`inspector.go:358-360`); the
  loop counts the ids it found (`inspector.go:403`), so empty slots are free, and a
  large sparse array is walked whole for every page.
* `prog_hidden`, a bug. Where the instructions were read with hidden addresses and
  the symbols, after it, without, every call is named `__bpf_call_base`
  (`kallsyms.go:78`), though "naming a redacted call would be worse than leaving it
  unknown" (`kallsyms.go:106-108`). `NamesAreTrue` says that this name is all that can
  come of it.
* `search_links`, a bug. The walk stops when it has seen the inode as often as its
  link count says; through a bind mount inside the filesystem it sees one link
  twice, and ends, as complete, with another unseen (`inode.go:359-367`).

The models can express more such differences, on which no run is spent:

* `unsubscribe` does not wait for the reader it cancels. A client that attaches
  within its poll opens the pipe again (`tracefs.go:7-9` says there is at most one
  reader); both readers broadcast to it, so no line is lost, but lines can come
  out of the kernel's order.
* `Read` checks its context before poll, not after, so a cancelled reader may
  take one more buffer of lines, which nobody sees (`hub.go:26-28`).
  `LateReadAtMostOnce` bounds this to one.
* `State` reads three reasons at three moments, and may answer off though the
  kernel counted all along (`stats.go:35`): the agent's hold begins after the first
  read and another's fd goes before the last. That needs one reason to take over
  from another during the call: a reason that was there throughout is named, and
  one that is named was there (`ReasonsWereSeen`, proved). Between a hold's expiry
  and its callback it answers held with nothing left.
* "gone" is told when Recv fails, for whatever reason: where the agent was killed or
  its connection broke, the last events it sent may never have been shown.
  `GoneComesLast` says that those which reached the UI have.
* Of an outer map nobody holds, the partition takes the loader of the
  lowest-numbered program (`graph.go:115-117`), the Holders column the lowest pid
  (`handlers.go:1346`), though `graph.go:132-133` says the two are one partition.
* When a browser hangs up while the SSE loop writes, its next select may take
  Recv's error and write "gone" to nobody (`tracelog.go:93-94` says that the
  cancelled context comes first).
* On a loader's diagram, the edge of a link to a program no list has names a node
  that is not declared; `EveryReferenceDrawn` excepts just this.
* An agent that cannot see init's namespaces at all reports the paths of its own
  without a note (`cgroup.go:91-96`), and in a network namespace of its own the sysctls of that;
  `DisplacedIsTold` and `SysctlsAreTheNodes` except this deployment, which is not that
  of `bpf-explorer.yaml`.
* A cgroup removed between its being opened and asked fails the whole tree
  (`QueryFails`), and the limits of the cgroup walks cut the tree, or the index of
  ids, without a word: `TreeIsWhole` holds up to the limit only.
* A walk of keys that is refused the next one ends as if there were none, and the
  page is not told (`cut`). What it had passed by then was read all the same
  (`KeptKeysAreRead`).
* An fd that is closed and opened as another file between an inode search's Stat and
  its Readlink gets a row with the inode of the one and the path of the other.
  `MatchesWereThere` says that its process held both.
* The picker shows a node twice while a rollout has two ready pods on it
  (`kube.go:39` speaks of one endpoint per node). It is found all the same.

## Fairness

`TraceHub!Fairness`: weak fairness of each goroutine's own steps (the Go
scheduler runs what can run; the mutex is never held across a wait); weak
fairness of the poll as a whole, which returns within 200 ms; and strong fairness
of a read that finds lines, for a reader that comes back to its poll for ever and
is neither beaten to the lines nor interrupted each time. Nothing makes the
kernel write, the pipe fail, or a client come, receive or go.

`AgentShutdown!ProcessFairness`: the goroutines run, Serve among them, and the grace's
timer fires. No call need be answered, no client leave, no signal arrive, and the
listener need not fail.

`TraceStream!Fairness`: weak fairness of each goroutine, of net/http noticing a
dropped connection, of gRPC carrying a cancellation or noticing that the other end
is gone (which its transport does by a failing write or by keepalive), and of the browser delivering
what it received; strong fairness of TraceLog's select taking a case that is
ready again and again beside its events, as Go picks among ready cases at random.
Nobody has to connect, pause, fail or write.

`StatsSwitch!Fairness`: time passes, a due timer fires, its callback gets the
mutex. Nobody has to call, exit, or touch the sysctl.

## What is proved

All for any constants the named assumptions allow:

* bounds are numbers, buffers hold something, ids, pids and calls are numbered
  from 1 (`HubAssumption`, `SwitchAssumption`, `ShutdownAssumption`,
  `StreamAssumption`, `WalkAssumption`, `KeyAssumption`, `PagesAssumption`,
  `DiagramsAssumption`, `DiscoveryAssumption`);
* `DumpAssumption`: each instruction is one the kernel's verifier lets through
  (`Verified`: registers there are, operands that fit the operation), and no two
  functions are at one distance from `__bpf_call_base`, nor at none, nor is one called
  "unknown"; `SwitchAssumption` keeps the names of processes apart from the other
  reasons to count;
* `LinkAssumption`: a link's fields are what the kernel fills in for its type, and
  a target that is of the kernel's BTF has an object that exists;
* `ReadsAssumption`: cgroups are paths, the agent is a process, a call is of one of
  the kinds there are;
* `OneHierarchy`: a container whose node mounts no cgroup v2 has none either. The
  runtime bind-mounts the node's hierarchy into it, or leaves it out; a container
  with a hierarchy of its own would join the paths it reads from init to the wrong
  root, and its deployment would have to mount one on purpose;
* `TreeAssumption`: cgroups are finitely many paths; those there are at first have
  those above them, what is mounted somewhere has all that is below it, and a call
  names one root;
* `SearchAssumption`: directories hang together, places and directories are finitely
  many, and no two files or directories share inode and device;
* `OnePathEach`, a hypothesis of `LinksAllFound` alone: no directory has two paths.
  Where one is bind-mounted, `EveryLinkFound` is false, as the run `search_links`
  shows.

**The hub.** `TypeInv` strengthens `TypeOK` by `ScansWhatItTook` (a Scanner's lines
were taken from the pipe), which typing a broadcast line needs. `HubInv` adds
`AttachedHasReader` and `NoPanic` themselves, `NewIsNew` (a client that has not
subscribed has nothing to close) and `LateReads` (no reader is about to make a
late read it has already made). It is inductive (`HubInit`, `HubStep`) and gives
`TypeCorrect`, `AttachedAlwaysHasReader`, `NeverPanics`, `HubSound`,
`CancelIsPrompt` and, as an action property, `OnlyOwnReaderEndsStream`: the step that
takes an attached client out of `subs` is its own Close or `TearDown` of
generation `gen`, which is the one it attached under.

**The feed.** `GapAccounting` relates neighbours in the sequence of the last event
and the channel. `GapInv` states it with `Before`, so that taking, delivering and
missing an event are three lemmas about sequences (`GapsTail`, `GapsAppend`,
`GapsMiss`). `HeldOnce` says that no line is held by two readers and none that was
offered is held again; it is what makes `LineFeed!Offer` possible when two
readers overlap. With `HubInv` these give `EveryGapAccounted` and
`HubImplementsFeed`: each action is an Attach, Offer, Take, End or a stutter.

**The switch.** `SwitchInv` is `TypeOK`, `OneFd`, `HoldIsTimed` and `WithinTTL` (a
hold has at most one TTL to go, which bounds Left). `HoldIsTimed` carries the
argument: all running timers are the current hold's, so `Stop` leaves none
behind, and a queued callback of the current generation means the hold is due,
so `Callback` is `Expire`. It gives `SwitchTypeCorrect`, `OneFdAlways`,
`HoldAlwaysTimed`, `SwitchSound` and `SwitchImplementsLease`. `AnswerNamesReasons`
follows from `SeenInv`: in a call that is under way, a reason it has read was seen,
and one that was there throughout was read or is still to be, a process as long as
the scan has not passed it (`AnswerInv`).

**The pages.** The invariant is `ListsOK`: what the calls returned so far is one of
the lists, so ids and pids are numbers and "the lowest of a set" is in it
(`MinIsIn`, from the well-foundedness of `<`). What remains is about one moment:
`ProgTraced`, `OuterTraced`, `InnerTraced` and `KnownTraced` take the code's passes in
their order, and show of each that it finds a loader just when a route exists;
that it takes the lowest id does not matter. `OuterShown` says the same of the
Holders columns, which ignore Hidden: what they name is hidden, or the object was
traced. `GroupsTraced`, `UntracedRowsNameNobody` and `OnlyHeirsAreLost` follow.

**The process.** `TypeInv` adds to `ProcessTypeOK` that `errc` holds one result of
each half that has returned, so it has room for both. `GraceInv` adds to
`CallsGetGrace` why it holds when the process leaves: a stopped server has given
up or has nothing in flight, and a clean result in `errc` means the server has
stopped. It gives `ProcessTypeCorrect` and `CallsAlwaysGetGrace`.

**The threads.** `HomeInv` says of each thread that one call at most has it, from
LockOSThread until it has failed to enter or has left, that no call has two, and
that the thread is at home until the call has entered. So a thread is unlocked
only before it has moved: `PoolAlwaysHome`.

**The reads.** `ReadsInv` says of a path a call has read that the process had the
cgroup it spells, at some moment, as the namespace the call reads in spells it,
and that the call is marked when that is not init's. What remains is `Spell` and
back: a path that does not climb, joined to the root of the namespace it was
spelled for, is the cgroup again, and one that climbs is not joined. `JitInv` says of sysctls shown without a note that the call was on the node's
namespaces when it read them. That gives `ReadsAlwaysTrue`. The attempt found that the model had `cgroupV2Root` give up
where the code goes on to the agent's own mounts, and that what it then reads
needs `OneHierarchy`.

**The stream.** `StreamInv` follows the events of each connection from the screen back
to the agent: what is shown, on the wire, in the loop's hand, in Recv's, in the
gRPC stream and in TraceLog's are neighbouring pieces of one sequence (`Flows`),
with a gap at the broken end of a stream and none where it is whole (`Settled`);
each stage may end only after the one before it (`Ends`), and a page that was told
has shown all that Recv was given (`Told`). It gives `StreamAlwaysSound`,
`NeverReconnects` (a response that ends without "gone" broke) and
`PageImplementsFeed`: what the screen shows is a `LineFeed` client's view, event by
event, for a client may always leave with events unread.

**The dump.** `DumpInv` ties what the page shows to one reading of the program;
`DumpAlwaysSound` then follows from `Dist` being one to one, and where the addresses
were hidden, from all operands being one. For `ListingIsFollowed`
each operation is a case: the line's text and the machine's step agree on where
to go and what to write. `ScanIsTrue` needs `OperandsHeld`: while the program is
between the writer the scan found and the call, with no jump into between, the
register holds what the writer put there. It is proved for programs without a
load-acquire (`NoAcquire`), of which the run `prog_acquire` shows that it is false.

**The listing.** `WalkInv` is typing and three parts. `RowsInv`: rows go upwards in id, an object
that was there all along is in one once the walk has passed its id, and is that
object. `HoldersInv`: a pair that the scan found was held, and an fd that stayed is
awaited by the scan or found. `UsedInv`: what a program has run since the first pass
is on its account, also when its id changed hands. They give `WalkAlwaysSound`,
`HoldersAlwaysRight` and `NoShareOverstated`. `KeyInv` says that what a walk has behind
it (`Behind`) was read, however often deletions sent it back and wherever it ended,
and gives `KeyWalkAlwaysSound`; `LinkInv`, that what the resolver remembers is right or
nothing and was asked for by a row, gives `LinksResolvedOnce`.

**The tree of cgroups.** `TreeInv` has five parts. `NodeInv`: a cgroup that is there
has those above it, and the histories have what is so now. `RowsInv`: what is on
its way to the tree is as true as what is in it. `OnceInv`: nothing that is listed
hangs under what is listed, and neither what is asked nor what is in the tree
does, so no cgroup is met twice. `WholeInv`: what has applied all along is under
what is listed, or being asked for, or given. The step that needs work is
`EndCgroup`: a cgroup that is asked stays first in the list until what is in it
takes its place, one that is made meanwhile is not there all along, and one that is
removed had nothing under it that stayed (`ChildOnTheWay`, `NextList`). It gives `TreeAlwaysRight`.

**The inode search.** `SearchInv` has six parts. `FilesInv` is about the node (what is
linked and held exists), `PastInv` about its histories. `ScanInv`: unless the fd is
another by then, it holds what a Stat returned, and what a Readlink named it held;
if it is another, both were held (`BothHeld`).
`MatchesInv`: each row was a link or a holder's file during the call.
`HoldersInv`: a process that held the inode all along is a holder or still to be
read. `WorkInv`: the paths the walk has before it are under its root, and none is
on the way to another or to one it found. They give `MatchesAlwaysRight`.
`LinksInv` adds that what was found is still linked unless `lost`, and that a link
that is owed is found or under a path still to be visited. Its hard step is the
walk that stops because it has as many paths as the file has links: without a
bind mount no two of them are one place, so they are all the places there are
(`AllAreFound`), and nothing owed is left. That gives `LinksAllFound`. What a step of
the walk puts in place of a path is the same as for cgroups (`NextOnTheWay`,
`InOrder`, `NextInWalk`).

**Discovery.** `FindInv` says what each listing was of: pods that were there at its
moment, so that a node ready throughout is in both, and the address dialled is
one of a pod of the node that was opened. It gives `NodeAlwaysFound`.

**The diagrams.** `DiagramInv` says that a diagram is drawn from the lists and tail
calls that were read. `GroupOf` is the one fact about selection: a diagram's nodes
are its subject and what references join to it. From it `ProgramIsOnePiece` and
`MapIsOnePiece` give `FocusHangsTogether`, and `EveryReference` with `NoOtherEdge` gives
`DiagramIsComplete`.

**What a page knows.** `PageInv` adds to `ListsOK` how far a page is (`Progress`) and
that what it shows comes of the calls that answered (`Shown`). `PagesSayWhatTheyKnow`
then compares two worlds, the lists as they came and any others that agree with
them where a call answered: filters and pickers say the same in both.

Every invariant of a passing run is stated by a theorem. Only model-checked, and why:

* The liveness properties: `SignalEndsProcess` of the process, that attached clients
  are served or told (`AttachedAreServed`), that a reader let go closes the pipe,
  that every hold ends, that a page's leaving releases the pipe, that its Recv
  goroutine ends and that its end is told. The prover has no ENABLED, so no
  fairness.
* What the violation runs show.

## Not modelled

* Rendering: templates, formatting of values (BTF values, hex, durations), the
  wording of attach types and notes. No property is about wording. This includes
  the dump pages, each of which renders the answer of one call, and the page's
  own list of trace lines.
* The feature probes, kernel configuration and version of the node page: each is
  one read, shown.
* tracefs probing (`tracefs.go`): it opens the first path that works. Its outcome is
  `TraceHub`'s `OpenFails`.
* The roster's resources call: one more call whose failure leaves a column empty,
  like `LoaderPages`' others. What it reads is `NodeReads`; it may show the
  accounting of a process that has gone meanwhile, which `ReadsAreTrue` allows.
* Flags, routing and the HTTP server's set-up.
* Generated protobuf code.
