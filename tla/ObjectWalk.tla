------------------------------ MODULE ObjectWalk ------------------------------
(***************************************************************************)
(* One listing call of the agent - ListMaps, ListPrograms or ListLinks -    *)
(* while the node goes on: objects are made and freed, ids handed out again,*)
(* fds opened and closed, programs run.  A listing is many system calls, and*)
(* none of them sees the node at one moment.                                *)
(***************************************************************************)
EXTENDS Integers, Sequences, FiniteSets

CONSTANTS
    MaxId,        \* object ids are 1..MaxId: handed out upwards, then again from 1
    Procs,        \* processes
    Fds,          \* the fds each may have
    Unreadable,   \* processes whose /proc entries the agent cannot read
    MaxChanges    \* how much the node does during the call (a bound)

Ids == 1..MaxId
NoId == 0

ASSUME WalkAssumption ==
    MaxId \in Nat \ {0} /\ MaxChanges \in Nat /\ Unreadable \subseteq Procs

VARIABLES
    \* the node
    gen,      \* id |-> the object that has it, by its number, or 0
    made,     \* how many objects there have been
    last,     \* the id handed out last
    fd,       \* process, fd |-> the id of the object it holds, or NoId
    rt,       \* id |-> run time of the program that has it
    on,       \* run time is being counted
    changes,
    \* the call
    call, pc,
    sample,   \* the switch was on when ListPrograms read it
    before,   \* id |-> run time, as the first pass read it
    todo,     \* processes the /proc scan has yet to read
    fdList,   \* process and fds of the directory being read
    holders,  \* <<id, process>> found by the scan
    cur,      \* the id GetNextID returned last
    out,      \* the rows
    \* what happened during the call
    stayed,   \* ids whose object has been there all along
    kept,     \* process, fd pairs that have held one object all along
    held,     \* <<process, id, object>> at any moment
    skipped,  \* ids the walk could not open although they were there
    used      \* id |-> run time of its object since the first pass, or since made

node == <<gen, made, last, fd, rt, on, changes>>
agent == <<call, pc, sample, before, todo, fdList, holders, cur, out>>
past == <<stayed, kept, held, skipped, used>>
walkVars == <<node, agent, past>>

Pairs == Procs \X Fds
Live == {i \in Ids : gen[i] # 0}
HeldIn(f, g) == {<<p[1], f[p], g[f[p]]>> : p \in {q \in Pairs : f[q] # NoId}}

WalkInit ==
    /\ call \in {"programs", "maps", "links"}
    /\ \E live \in SUBSET Ids :
          /\ gen = [i \in Ids |-> IF i \in live THEN i ELSE 0]
          /\ stayed = live
          /\ fd \in [Pairs -> {NoId} \union (IF call = "links" THEN {} ELSE live)]
    /\ made = MaxId /\ last \in {1, MaxId}
    /\ rt = [i \in Ids |-> 1]
    /\ on \in (IF call = "programs" THEN BOOLEAN ELSE {FALSE})
    /\ changes = 0
    /\ pc = "start" /\ sample = FALSE /\ before = <<>> /\ todo = {} /\ fdList = {}
    /\ holders = {} /\ cur = 0 /\ out = <<>>
    /\ kept = {p \in Pairs : fd[p] # NoId} /\ held = HeldIn(fd, gen)
    /\ skipped = {} /\ used = [i \in Ids |-> 0]

-----------------------------------------------------------------------------
(* The node.  An object lives while an fd holds it, and may without: a link, *)
(* a pin or a slot keeps it.                                                *)

Changing == pc \notin {"done", "failed"} /\ changes < MaxChanges /\ changes' = changes + 1

\* The next id that is free, from the one handed out last on.
NextFree ==
    LET free == Ids \ Live
        above == {i \in free : i > last}
        among == IF above # {} THEN above ELSE free
    IN  {i \in among : \A j \in among : i <= j}

Make ==
    /\ Changing
    /\ \E i \in NextFree :
          /\ gen' = [gen EXCEPT ![i] = made + 1]
          /\ rt' = [rt EXCEPT ![i] = 0] /\ used' = [used EXCEPT ![i] = 0]
          /\ last' = i
    /\ made' = made + 1
    /\ UNCHANGED <<fd, on, agent, stayed, kept, held, skipped>>

Free(i) ==
    /\ Changing
    /\ i \in Live /\ \A p \in Pairs : fd[p] # i
    /\ gen' = [gen EXCEPT ![i] = 0]
    /\ stayed' = stayed \ {i}
    /\ UNCHANGED <<made, last, fd, rt, on, agent, kept, held, skipped, used>>

\* A process opens an object on an fd, or closes it: i is then NoId.
SetFd(p, i) ==
    /\ Changing /\ call # "links"
    /\ i \in Live \union {NoId} /\ fd[p] # i /\ (fd[p] = NoId \/ i = NoId)
    /\ fd' = [fd EXCEPT ![p] = i]
    /\ kept' = kept \ {p}
    /\ held' = held \union HeldIn(fd', gen)
    /\ UNCHANGED <<gen, made, last, rt, on, agent, stayed, skipped, used>>

RunProgram(i) ==
    /\ Changing /\ call = "programs" /\ on /\ i \in Live
    /\ rt' = [rt EXCEPT ![i] = @ + 1] /\ used' = [used EXCEPT ![i] = @ + 1]
    /\ UNCHANGED <<gen, made, last, fd, on, agent, stayed, kept, held, skipped>>

\* The hold on the switch expires, or another process lets go of its own.
StatsOff ==
    /\ Changing /\ call = "programs" /\ on /\ on' = FALSE
    /\ UNCHANGED <<gen, made, last, fd, rt, agent, past>>

-----------------------------------------------------------------------------
(* The call.                                                                *)

\* ListPrograms reads the switch and samples if it is on; the others go straight
\* to /proc, or, for links, to the ids.
Start ==
    /\ pc = "start"
    /\ sample' = (call = "programs" /\ on)
    /\ pc' = IF sample' THEN "first" ELSE IF call = "links" THEN "walk" ELSE "scan"
    /\ todo' = Procs \ Unreadable
    /\ UNCHANGED <<node, call, before, fdList, holders, cur, out, past>>

\* Mutant: the walk asks from the id it has, and not from the one after it.
NextIdsAgain == {i \in Live : i >= cur /\ \A j \in Live : j >= cur => i <= j}

\* The id after cur, as the kernel returns it: none ends the walk.
NextIds == {i \in Live : i > cur /\ \A j \in Live : j > cur => i <= j}

\* readRunTimes: any error ends the pass, and a program that cannot be opened or
\* read is left out of it.
ReadFirst ==
    /\ pc = "first"
    /\ \E i \in NextIds :
          /\ cur' = i
          /\ \/ /\ before' = [j \in DOMAIN before \union {i} |-> IF j = i THEN rt[i] ELSE before[j]]
                /\ used' = [used EXCEPT ![i] = 0]
             \/ UNCHANGED <<before, used>>
    /\ UNCHANGED <<node, call, pc, sample, todo, fdList, holders, out, stayed, kept, held, skipped>>

EndFirst ==
    /\ pc = "first"
    /\ pc' = "scan" /\ cur' = 0
    /\ UNCHANGED <<node, call, sample, before, todo, fdList, holders, out, past>>

\* scanObjectPIDs: a process's fd directory is read, then each fd in it by name,
\* which may have been closed or opened again by then.
ReadFdDir(p) ==
    /\ pc = "scan" /\ fdList = {} /\ p \in todo
    /\ todo' = todo \ {p}
    /\ fdList' = {q \in Pairs : q[1] = p /\ fd[q] # NoId}
    /\ UNCHANGED <<node, call, pc, sample, before, holders, cur, out, past>>

ReadFdInfo(q) ==
    /\ pc = "scan" /\ q \in fdList
    /\ fdList' = fdList \ {q}
    /\ holders' = holders \union (IF fd[q] # NoId THEN {<<fd[q], q[1]>>} ELSE {})
    /\ UNCHANGED <<node, call, pc, sample, before, todo, cur, out, past>>

\* Mutant: the scan gives up at a process that has no fds.
EndScanEarly ==
    /\ pc = "scan" /\ fdList = {}
    /\ pc' = "walk"
    /\ UNCHANGED <<node, call, sample, before, todo, fdList, holders, cur, out, past>>

EndScan ==
    /\ pc = "scan" /\ fdList = {} /\ todo = {}
    /\ pc' = "walk"
    /\ UNCHANGED <<node, call, sample, before, todo, fdList, holders, cur, out, past>>

GetNextId ==
    /\ pc = "walk"
    /\ IF NextIds = {} THEN pc' = "done" /\ UNCHANGED cur
                       ELSE pc' = "open" /\ cur' \in NextIds
    /\ UNCHANGED <<node, call, sample, before, todo, fdList, holders, out, past>>

\* Any error but ENOENT fails the call, rows and all.
WalkFails ==
    /\ pc = "walk"
    /\ pc' = "failed" /\ out' = <<>>
    /\ UNCHANGED <<node, call, sample, before, todo, fdList, holders, cur, past>>

\* Mutant: a run time that went backwards is not noticed.
CpuShareAnyway(b, a) == {a - b}

\* cpuShare, without the division by the time between the reads.
CpuShare(b, a) == IF a < b THEN {} ELSE {a - b}

\* A row; p.Stats may fail, and leaves it without run time and share.
Row(i, stats) ==
    [id    |-> i,
     gen   |-> gen[i],
     pids  |-> {p \in Procs : <<i, p>> \in holders},
     share |-> IF stats /\ i \in DOMAIN before THEN CpuShare(before[i], rt[i]) ELSE {}]

\* The object at cur is opened and read.  It may be gone since GetNextID, or
\* another may have its id by now.
Open ==
    /\ pc = "open" /\ pc' = "walk"
    /\ IF cur \in Live THEN \E stats \in BOOLEAN : out' = Append(out, Row(cur, stats))
                       ELSE UNCHANGED out
    /\ UNCHANGED <<node, call, sample, before, todo, fdList, holders, cur, past>>

\* It is there and cannot be opened or read: the agent is out of fds, say.
CannotOpen ==
    /\ pc = "open" /\ pc' = "walk"
    /\ skipped' = skipped \union {cur}
    /\ UNCHANGED <<node, call, sample, before, todo, fdList, holders, cur, out,
                   stayed, kept, held, used>>

Agent ==
    \/ Start \/ ReadFirst \/ EndFirst
    \/ \E p \in Procs : ReadFdDir(p)
    \/ \E q \in Pairs : ReadFdInfo(q)
    \/ EndScan \/ GetNextId \/ WalkFails \/ Open \/ CannotOpen

NodeStep ==
    \/ Make \/ StatsOff
    \/ \E i \in Ids : Free(i) \/ RunProgram(i)
    \/ \E p \in Pairs, i \in Ids \union {NoId} : SetFd(p, i)

WalkNext == Agent \/ NodeStep

WalkSpec == WalkInit /\ [][WalkNext]_walkVars

-----------------------------------------------------------------------------
(* Properties.                                                              *)

WalkTypeOK ==
    /\ gen \in [Ids -> Nat] /\ made \in Nat /\ last \in Ids
    /\ fd \in [Pairs -> Ids \union {NoId}] /\ rt \in [Ids -> Nat] /\ on \in BOOLEAN
    /\ changes \in 0..MaxChanges
    /\ call \in {"programs", "maps", "links"}
    /\ pc \in {"start", "first", "scan", "walk", "open", "done", "failed"}
    /\ sample \in BOOLEAN /\ DOMAIN before \subseteq Ids
    /\ todo \subseteq Procs /\ fdList \subseteq Pairs /\ holders \subseteq Ids \X Procs
    /\ cur \in Ids \union {0} /\ \A r \in DOMAIN out : out[r].id \in Ids
    /\ stayed \subseteq Live /\ kept \subseteq Pairs
    /\ skipped \subseteq Ids /\ used \in [Ids -> Nat]

RowsOf(i) == {r \in DOMAIN out : out[r].id = i}

\* No id is listed twice, an object there all along is listed whatever came and
\* went around it, unless it could not be opened, and what is listed was there.
ListsWhatStayed ==
    /\ \A i \in Ids : Cardinality(RowsOf(i)) <= 1
    /\ pc = "done" => \A i \in stayed \ skipped : RowsOf(i) # {}
    /\ \A i \in stayed : \A r \in RowsOf(i) : out[r].gen = gen[i]

\* The walk is of its type, and lists what it should.
WalkIsSound == WalkTypeOK /\ ListsWhatStayed

\* A row's processes held an object of its id during the call - that very object,
\* unless the id changed hands - and a process the agent can read that held it
\* all along is among them.
HoldersAreRight ==
    \A r \in DOMAIN out :
        LET row == out[r]
        IN  /\ \A p \in row.pids :
                  \E h \in held : h[1] = p /\ h[2] = row.id /\ (row.id \in stayed => h[3] = row.gen)
            /\ call # "links" /\ row.id \in stayed =>
                  {q[1] : q \in {k \in kept : fd[k] = row.id}} \ Unreadable \subseteq row.pids

\* The CPU share never overstates: it is not negative, and not more than the
\* program listed used between the two reads, whatever the stats switch did during
\* the sample and even when the id named another program at the first read.
ShareNotOverstated ==
    [][\A r \in DOMAIN out' \ DOMAIN out :
          \A s \in out'[r].share : 0 <= s /\ s <= used[out'[r].id]]_out
=============================================================================
