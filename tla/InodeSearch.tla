------------------------------ MODULE InodeSearch ------------------------------
(***************************************************************************)
(* One inode lookup: every process's fds and mappings are read for files    *)
(* that carry the inode, then, when asked, the filesystem is walked for its *)
(* links, as find -inum does, within a budget.  All the while processes     *)
(* open and close files and links are made and removed.                     *)
(***************************************************************************)
EXTENDS WalkOrder

CONSTANTS
    DirAt,       \* path |-> the directory there; a bind mount gives one two paths
    Files,
    Ino, Dev,    \* file or directory |-> its inode number, its device
    Places,      \* the <<directory, name>> that may hold a file (a bound)
    Unreadable,  \* directories the agent cannot list
    Tables,      \* pid 1's mount table and the agent's own, <<device, path>> each
    Procs, Fds,  \* processes, and the fds each may have
    Hidden,      \* processes the agent cannot read
    Foreign,     \* processes in a mount namespace the agent is not in
    Prefixed,    \* the agent is itself in another than pid 1
    Queries,     \* the lookups asked for (a bound)
    CheckEvery,  \* how many entries the walk takes between looks at the clock
    MaxEdits     \* how often files and fds change (a bound)

NoFile == "none"
MapSlot == 0     \* the slot of a process that stands for its mapping
Slots == Procs \X (Fds \union {MapSlot})
NoHit == [path |-> <<>>, file |-> NoFile, gone |-> FALSE]

Place(path) == <<DirAt[Front(path)], Last(path)>>
PathsOf(pl) == {Append(d, pl[2]) : d \in {o \in DOMAIN DirAt : DirAt[o] = pl[1]}}
FilePaths == (UNION {PathsOf(pl) : pl \in Places}) \ DOMAIN DirAt
Inodes == Files \union Range(DirAt)

\* Directories hang together, and no two files or directories share inode and device.
ASSUME SearchAssumption ==
    /\ DOMAIN DirAt \subseteq Seq(Nat) /\ IsFiniteSet(DOMAIN DirAt)
    /\ <<>> \in DOMAIN DirAt /\ \A d \in DOMAIN DirAt : \A n \in 0..Len(d) : SubSeq(d, 1, n) \in DOMAIN DirAt
    /\ Places \subseteq Range(DirAt) \X Nat /\ IsFiniteSet(Places)
    /\ NoFile \notin Files /\ Files \cap Range(DirAt) = {}
    /\ Inodes \subseteq DOMAIN Dev
    /\ \A f, g \in Inodes : Ino[f] = Ino[g] /\ Dev[f] = Dev[g] => f = g
    /\ Procs \subseteq Nat \ {0} /\ Fds \subseteq Nat \ {MapSlot}
    /\ Hidden \subseteq Procs /\ Foreign \subseteq Procs
    /\ CheckEvery \in Nat \ {0} /\ MaxEdits \in Nat

VARIABLES
    \* the node
    at,       \* place |-> the file it names, or NoFile
    slot,     \* process, fd or mapping |-> the file it holds, and by which path
    edits,
    late,     \* the budget is spent
    \* the lookup
    query, step,
    pids, fds, stat,   \* what the scan has yet to read, and the fd it has stat'ed
    hits, rows,
    plan,     \* root and device of the walk, or why there is none
    work,     \* paths the walk has yet to visit
    found, seen, timedOut,
    \* what happened during the lookup
    stayed,   \* paths that carried the inode all along
    carried,  \* <<path, device>> that carried it at any moment
    kept,     \* slots that have not changed
    heldBy,   \* <<process, fd, path, file>> at any moment
    reused,   \* fds closed and opened again between the scan's two calls
    lost      \* a path the walk had found was removed

fs == <<at, slot, edits, late>>
scan == <<pids, fds, stat, hits, rows>>
walk == <<plan, work, found, seen, timedOut>>
past == <<stayed, carried, kept, heldBy, reused, lost>>
searchVars == <<fs, query, step, scan, walk, past>>

-----------------------------------------------------------------------------
(* The node.                                                                *)

Links(f) == Cardinality({pl \in Places : at[pl] = f})
CarriedIn(a) ==
    {<<path, Dev[a[Place(path)]]>> :
        path \in {p \in FilePaths : a[Place(p)] # NoFile /\ Ino[a[Place(p)]] = query.ino}}
HeldIn(s) == {<<k[1], k[2], s[k].path, s[k].file>> : k \in {j \in Slots : s[j] # NoHit}}

NoPlan == [root |-> <<>>, dev |-> 0, note |-> ""]

SearchInit ==
    /\ at \in [Places -> Files \union {NoFile}]
    /\ \A pl \in Places : at[pl] # NoFile => Dev[at[pl]] = Dev[pl[1]]
    /\ slot \in [Slots -> {NoHit} \union
                 {[path |-> p, file |-> at[Place(p)], gone |-> FALSE] :
                    p \in {o \in FilePaths : at[Place(o)] # NoFile}}]
    /\ edits = 0 /\ late = FALSE
    /\ query \in Queries /\ step = "start"
    /\ pids = {} /\ fds = {} /\ stat = {} /\ hits = <<>> /\ rows = {}
    /\ plan = NoPlan /\ work = <<>> /\ found = <<>> /\ seen = 0 /\ timedOut = FALSE
    /\ carried = CarriedIn(at) /\ stayed = {c[1] : c \in CarriedIn(at)}
    /\ kept = {k \in Slots : slot[k] # NoHit} /\ heldBy = HeldIn(slot)
    /\ reused = {} /\ lost = FALSE

Editing ==
    /\ step # "done" /\ edits < MaxEdits /\ edits' = edits + 1
    /\ UNCHANGED <<late, query, step, scan, walk>>

Link(pl, f) ==
    /\ Editing
    /\ at[pl] = NoFile /\ Dev[f] = Dev[pl[1]] /\ Links(f) > 0
    /\ at' = [at EXCEPT ![pl] = f]
    /\ carried' = carried \union CarriedIn(at')
    /\ UNCHANGED <<slot, stayed, kept, heldBy, reused, lost>>

\* What holds the file by that name keeps it.
Unlink(pl) ==
    /\ Editing
    /\ at[pl] # NoFile
    /\ at' = [at EXCEPT ![pl] = NoFile]
    /\ slot' = [k \in Slots |-> IF slot[k] # NoHit /\ Place(slot[k].path) = pl
                                 THEN [slot[k] EXCEPT !.gone = TRUE] ELSE slot[k]]
    /\ stayed' = {p \in stayed : Place(p) # pl}
    /\ lost' = (lost \/ \E i \in DOMAIN found : found[i] \in FilePaths /\ Place(found[i]) = pl)
    /\ UNCHANGED <<carried, kept, heldBy, reused>>

SetSlot(k, h) ==
    /\ Editing
    /\ slot[k] # h /\ (h # NoHit => at[Place(h.path)] = h.file)
    /\ slot' = [slot EXCEPT ![k] = h]
    /\ kept' = kept \ {k} /\ heldBy' = heldBy \union HeldIn(slot')
    /\ reused' = IF \E asked \in stat : asked.slot = k THEN reused \union {k} ELSE reused
    /\ UNCHANGED <<at, stayed, carried, lost>>

Late == step = "walk" /\ ~late /\ late' = TRUE
        /\ UNCHANGED <<at, slot, edits, query, step, scan, walk, past>>

-----------------------------------------------------------------------------
(* The processes: resolveInode.                                             *)

\* Inode 0 stands for no file, and is not looked for.
Start ==
    /\ step = "start"
    /\ IF query.ino = 0 THEN step' = "done" /\ UNCHANGED pids
                        ELSE step' = "proc" /\ pids' = Procs
    /\ UNCHANGED <<fs, query, fds, stat, hits, rows, walk, past>>

Pid == CHOOSE p \in pids : \A o \in pids : p <= o
\* Mutant: the device asked for is not looked at.
WantedByNumber(f) == Ino[f] = query.ino
Wanted(f) == Ino[f] = query.ino /\ (query.dev = 0 \/ Dev[f] = query.dev)

ReadFds ==
    /\ step = "proc" /\ pids # {}
    /\ fds' = {k \in Slots : k[1] = Pid /\ k[1] \notin Hidden /\ k[2] # MapSlot /\ slot[k] # NoHit}
    /\ step' = "fds"
    /\ UNCHANGED <<fs, query, pids, stat, hits, rows, walk, past>>

\* fdHits asks twice for each fd, what it is and where: it may be another by then.
StatFd ==
    /\ step = "fds" /\ stat = {}
    /\ \E k \in fds :
          /\ fds' = fds \ {k}
          /\ stat' = IF slot[k] # NoHit /\ Wanted(slot[k].file)
                     THEN {[slot |-> k, dev |-> Dev[slot[k].file]]} ELSE {}
    /\ UNCHANGED <<fs, query, step, pids, hits, rows, walk, past>>

ReadlinkFd ==
    /\ step = "fds"
    /\ \E h \in stat : LET s == slot[h.slot] IN
          hits' = IF s = NoHit THEN hits
                  ELSE Append(hits, [slot |-> h.slot, dev |-> h.dev, path |-> s.path, deleted |-> s.gone])
    /\ stat' = {}
    /\ UNCHANGED <<fs, query, step, pids, fds, rows, walk, past>>

mapsHits(p) ==
    LET s == slot[<<p, MapSlot>>]
    IN  IF p \in Hidden \/ s = NoHit \/ ~Wanted(s.file) THEN <<>>
        ELSE <<[slot |-> <<p, MapSlot>>, dev |-> Dev[s.file], path |-> s.path, deleted |-> s.gone]>>

\* Where the agent reaches a path a process of another mount namespace holds.
hostPath(p) == IF p \in Foreign THEN {p} ELSE {}

\* Hits are grouped by device and path; the first makes the row.
Same(m, path, dev) == m.path = path /\ m.dev = dev

Holders(hs, path, dev) == {hs[i].slot : i \in {j \in DOMAIN hs : Same(hs[j], path, dev)}}
Firsts(ms, hs) ==
    {i \in DOMAIN hs : /\ \A m \in ms : ~Same(m, hs[i].path, hs[i].dev)
                       /\ \A j \in 1..(i - 1) : ~Same(hs[j], hs[i].path, hs[i].dev)}
AddHits(ms, hs) ==
    {[m EXCEPT !.holders = @ \union Holders(hs, m.path, m.dev)] : m \in ms}
    \union {[path |-> hs[i].path, dev |-> hs[i].dev, deleted |-> hs[i].deleted,
             reach |-> hostPath(hs[i].slot[1]), holders |-> Holders(hs, hs[i].path, hs[i].dev),
             fromWalk |-> FALSE] : i \in Firsts(ms, hs)}

EndProcess ==
    /\ step = "fds" /\ fds = {} /\ stat = {}
    /\ rows' = AddHits(rows, hits \o mapsHits(Pid))
    /\ hits' = <<>> /\ pids' = pids \ {Pid} /\ step' = "proc"
    /\ UNCHANGED <<fs, query, fds, stat, walk, past>>

-----------------------------------------------------------------------------
(* The walk.                                                                *)

\* Device |-> the mount point named first, in pid 1's table or, if that is
\* empty, the agent's own.
readMounts ==
    LET t == IF Tables[1] # <<>> THEN Tables[1] ELSE Tables[2]
        First(d) == CHOOSE i \in DOMAIN t : t[i][1] = d /\ \A j \in 1..(i - 1) : t[j][1] # d
    IN  [d \in {t[i][1] : i \in DOMAIN t} |-> t[First(d)][2]]

walkTarget ==
    LET byDevice == query.root = {} /\ query.dev # 0
        mounted == query.dev \in DOMAIN readMounts
        root == IF query.root # {} THEN CHOOSE r \in query.root : TRUE
                ELSE IF byDevice /\ mounted THEN readMounts[query.dev] ELSE <<>>
    IN  IF byDevice /\ ~mounted THEN [NoPlan EXCEPT !.note = "not mounted"]
        ELSE IF root \notin DOMAIN DirAt THEN [NoPlan EXCEPT !.note = "cannot read"]
        ELSE IF query.dev # 0 /\ Dev[DirAt[root]] # query.dev
             THEN [NoPlan EXCEPT !.note = "wrong device"]
        ELSE [root |-> root, dev |-> Dev[DirAt[root]], note |-> ""]

Target ==
    /\ step = "proc" /\ pids = {}
    /\ IF query.walk
       THEN /\ plan' = walkTarget
            /\ step' = IF plan'.note = "" THEN "walk" ELSE "done"
            /\ work' = <<plan'.root>>
       ELSE step' = "done" /\ UNCHANGED <<plan, work>>
    /\ UNCHANGED <<fs, query, scan, found, seen, timedOut, past>>

\* A directory's entries.
Entries(path) ==
    {d \in DOMAIN DirAt : d # <<>> /\ Front(d) = path}
    \union ({Append(path, pl[2]) : pl \in {o \in Places : o[1] = DirAt[path] /\ at[o] # NoFile}}
            \ DOMAIN DirAt)

\* The path came by a walk and is not held; pid 1's root is in front of it when
\* the agent has another.
AsFound(path) == [path |-> path, dev |-> plan.dev, deleted |-> FALSE,
                  reach |-> IF Prefixed THEN {1} ELSE {}, holders |-> {}, fromWalk |-> TRUE]
mergeMatches(fnd) ==
    rows \union {AsFound(path) : path \in {p \in Range(fnd) : \A m \in rows : ~Same(m, p, plan.dev)}}

Ends(fnd) == step' = "done" /\ found' = fnd /\ rows' = mergeMatches(fnd) /\ work' = <<>>
GoesOn(todo, fnd) ==
    IF todo = <<>> THEN Ends(fnd)
    ELSE found' = fnd /\ work' = todo /\ UNCHANGED <<step, rows>>

TooLate == (seen + 1) % CheckEvery = 0 /\ late

VisitDir(path, todo) ==
    LET d == DirAt[path]
    IN  IF path # plan.root /\ Dev[d] # plan.dev THEN GoesOn(todo, found)
        ELSE IF Ino[d] = query.ino THEN Ends(Append(found, path))
        ELSE IF d \in Unreadable THEN GoesOn(todo, found)
        ELSE \E s \in ByName(Entries(path)) : GoesOn(s \o todo, found)

\* Once there are as many matches as the file has links, there are no more.
VisitFile(path, todo) ==
    LET f == at[Place(path)]
    IN  IF f = NoFile \/ Ino[f] # query.ino \/ Dev[f] # plan.dev THEN GoesOn(todo, found)
        ELSE IF Len(found) + 1 >= Links(f) THEN Ends(Append(found, path))
        ELSE GoesOn(todo, Append(found, path))

VisitPath(path, todo) ==
    IF TooLate THEN Ends(found)
    ELSE IF path \in DOMAIN DirAt THEN VisitDir(path, todo) ELSE VisitFile(path, todo)

\* Mutant: a walk out of budget ends as any other does.
VisitUntimed ==
    /\ step = "walk"
    /\ seen' = seen + 1
    /\ VisitPath(Head(work), Tail(work))
    /\ UNCHANGED <<fs, query, pids, fds, stat, hits, plan, timedOut, past>>

Visit ==
    /\ step = "walk"
    /\ seen' = seen + 1 /\ timedOut' = TooLate
    /\ VisitPath(Head(work), Tail(work))
    /\ UNCHANGED <<fs, query, pids, fds, stat, hits, plan, past>>

Lookup == Start \/ ReadFds \/ StatFd \/ ReadlinkFd \/ EndProcess \/ Target \/ Visit

Edit ==
    \/ \E pl \in Places : Unlink(pl) \/ \E f \in Files : Link(pl, f)
    \/ \E k \in Slots : \/ SetSlot(k, NoHit)
                        \/ \E p \in FilePaths : at[Place(p)] # NoFile
                              /\ SetSlot(k, [path |-> p, file |-> at[Place(p)], gone |-> FALSE])
    \/ Late

SearchNext == Lookup \/ Edit

SearchSpec == SearchInit /\ [][SearchNext]_searchVars

-----------------------------------------------------------------------------
(* Properties.                                                              *)

Row == [path : DOMAIN DirAt \union FilePaths, dev : {Dev[x] : x \in DOMAIN Dev},
        deleted : BOOLEAN, reach : SUBSET (Procs \union {1}), holders : SUBSET Slots,
        fromWalk : BOOLEAN]

SearchTypeOK ==
    /\ at \in [Places -> Files \union {NoFile}] /\ DOMAIN slot = Slots
    /\ edits \in 0..MaxEdits /\ {late, timedOut, lost} \subseteq BOOLEAN
    /\ query \in Queries
    /\ step \in {"start", "proc", "fds", "walk", "done"}
    /\ pids \subseteq Procs /\ fds \subseteq Slots /\ \A h \in stat : h.slot \in Slots
    /\ \A m \in rows : m \in Row
    /\ plan.root \in DOMAIN DirAt /\ seen \in Nat
    /\ \A i \in DOMAIN work : work[i] \in DOMAIN DirAt \union FilePaths
    /\ \A i, j \in DOMAIN found : found[i] = found[j] => i = j
    /\ \A m, n \in rows : Same(m, n.path, n.dev) => m = n

\* A row is a path that carried the inode on that device at some moment of the
\* lookup, the device asked for if one was, and each of its holders held the inode
\* there and held the path: as one file, unless the fd became another between the
\* scan's two calls for it.
MatchesWereThere ==
    \A m \in rows :
        /\ query.dev # 0 => m.dev = query.dev
        /\ m.fromWalk => \/ <<m.path, m.dev>> \in carried
                         \/ /\ m.path \in DOMAIN DirAt
                            /\ Ino[DirAt[m.path]] = query.ino /\ Dev[DirAt[m.path]] = m.dev
        /\ \A k \in m.holders :
              \E h, i \in heldBy : /\ <<h[1], h[2]>> = k /\ h[3] = m.path
                                   /\ <<i[1], i[2]>> = k /\ Ino[i[4]] = query.ino /\ Dev[i[4]] = m.dev
                                   /\ k \notin reused => h = i
        /\ ~m.fromWalk => m.holders # {}
        /\ ~m.fromWalk /\ ~m.deleted /\ m.holders \cap reused = {} => <<m.path, m.dev>> \in carried

\* The walk is over and does not say that it stopped short.
SaysAll == step = "done" /\ query.walk /\ query.ino # 0 /\ plan.note = "" /\ ~timedOut
\* The walk can get to a file there.
Reached(path) ==
    /\ IsPrefix(plan.root, path)
    /\ \A n \in Len(plan.root)..(Len(path) - 1) :
          LET d == DirAt[SubSeq(path, 1, n)] IN Dev[d] = plan.dev /\ d \notin Unreadable
Found(path) == \E m \in rows : Same(m, path, plan.dev)

\* A walk that does not say it stopped short has found every link to the inode
\* under its root that was there all along, by one of its paths, whatever links
\* were made and removed meanwhile - unless a path it had found was removed, which
\* lowers the count of links it stops at.
EveryLinkFound ==
    SaysAll /\ ~lost =>
        \A path \in stayed :
            Reached(path) /\ Dev[at[Place(path)]] = plan.dev =>
                \E same \in FilePaths : Place(same) = Place(path) /\ Found(same)

\* Every process the agent can read that held the inode all along is a holder.
EveryHolderFound ==
    step \in {"walk", "done"} /\ query.ino # 0 =>
        \A k \in kept : k[1] \notin Hidden /\ Wanted(slot[k].file) =>
            \E m \in rows : k \in m.holders

\* The rows and their holders are right and complete.
MatchesAreRight == SearchTypeOK /\ MatchesWereThere /\ EveryHolderFound
=============================================================================
