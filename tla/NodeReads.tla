------------------------------- MODULE NodeReads -------------------------------
(***************************************************************************)
(* What the agent reads of processes and the node: cgroup paths, which the  *)
(* kernel spells for the namespace of the thread that reads them, the       *)
(* accounting of the cgroups they name, and the sysctls a network namespace *)
(* hides.  Calls run at once, each on a goroutine that any unlocked thread  *)
(* may run; processes move, exit and are replaced while they read.          *)
(***************************************************************************)
EXTENDS Integers, Sequences, FiniteSets

CONSTANTS
    CallSets,    \* what may be called at once: call |-> "process", "resources",
                 \* "node" or "sysctls" (a bound)
    Threads,
    Pids, Self,  \* processes; Self is the agent
    Cgroups,     \* the cgroups there may be, as paths from the node's root
    Setups,      \* the ways an agent may be deployed: see Setup
    MaxMoves     \* how often processes and cgroups change (a bound)

\* ns: the cgroup that is the root of the agent's cgroup namespace.  netns: it
\* has a network namespace of its own.  sees: it can read init's links and root.
\* enter: how far it gets into a namespace of init.  mounts: the cgroup at the root
\* of the cgroup2 mount in init's mount table and in its own, if there is one.
Mounted == {{}} \union {{c} : c \in Cgroups}
Setup == [ns : Cgroups, netns : BOOLEAN, sees : BOOLEAN,
          enter : {"ok", "open fails", "setns fails"}, mounts : [init : Mounted, self : Mounted]]

Gone == <<"gone">>
Kinds == {"process", "resources", "node", "sysctls"}

ASSUME ReadsAssumption ==
    /\ Cgroups \subseteq Seq(STRING) /\ <<>> \in Cgroups /\ Gone \notin Cgroups
    /\ Self \in Pids
    /\ \A calls \in CallSets :
          DOMAIN calls \subseteq Nat \ {0} /\ \A c \in DOMAIN calls : calls[c] \in Kinds
    /\ Setups \subseteq Setup /\ MaxMoves \in Nat

\* A container is given the node's hierarchy, if any: when init's mounts have none
\* its own do not.
ASSUME OneHierarchy ==
    \A s \in Setups : s.sees /\ s.ns # <<>> /\ s.mounts.init = {} => s.mounts.self = {}

VARIABLES
    \* the node
    setup,
    in,       \* process |-> its cgroup, or Gone
    moves,
    \* the agent's threads
    ns,       \* thread |-> its namespaces
    locked,   \* thread |-> the call whose goroutine has it for its own
    \* the calls
    kind,     \* call |-> which it is
    pc, todo,
    path,     \* call |-> process |-> its cgroup path as it was read, if it was
    note,     \* call |-> why what it read is not the node's, if it is not
    jit,      \* call |-> the sysctls of a network namespace could be read
    out,      \* call |-> process |-> the cgroup whose accounting it shows, if any
    \* what happened
    was       \* <<process, cgroup>> at any moment

world == <<setup, kind, in, moves, was>>
threads == <<ns, locked>>
readsVars == <<world, threads, pc, todo, path, note, jit, out>>

Free == 0
Home == [cgroup |-> setup.ns, net |-> setup.netns]
Unlocked == {t \in Threads : locked[t] = Free}

-----------------------------------------------------------------------------
(* The kernel and the node.                                                 *)

\* How a cgroup's path is spelled in the namespace of that root.
Common(a, b) == CHOOSE n \in 0..Len(a) :
    /\ n <= Len(b) /\ SubSeq(a, 1, n) = SubSeq(b, 1, n)
    /\ n < Len(a) /\ n < Len(b) => a[n + 1] # b[n + 1]
Spell(root, c) ==
    LET n == Common(root, c)
    IN  [i \in 1..(Len(root) - n) |-> ".."] \o SubSeq(c, n + 1, Len(c))
Climbs(p) == p # <<>> /\ Head(p) = ".."

\* A process is moved, exits, or a new one gets its pid; the agent stays.
Move(p) ==
    /\ moves < MaxMoves /\ moves' = moves + 1
    /\ p # Self
    /\ \E c \in Cgroups \union {Gone} :
          /\ c # in[p] /\ in' = [in EXCEPT ![p] = c]
          /\ was' = IF c = Gone THEN was ELSE was \union {<<p, c>>}
    /\ UNCHANGED <<setup, kind, threads, pc, todo, path, note, jit, out>>

ReadsInit ==
    /\ setup \in Setups /\ kind \in CallSets
    /\ in \in [Pids -> Cgroups] /\ Len(in[Self]) > 0
    /\ setup.ns \in {<<>>, in[Self]}
    /\ setup.mounts.init \subseteq {<<>>} /\ setup.mounts.self \subseteq {setup.ns}
    /\ was = {<<p, in[p]>> : p \in Pids} /\ moves = 0
    /\ ns = [t \in Threads |-> Home] /\ locked = [t \in Threads |-> Free]
    /\ pc = [c \in DOMAIN kind |-> "start"] /\ todo = [c \in DOMAIN kind |-> {}]
    /\ path = [c \in DOMAIN kind |-> [p \in Pids |-> {}]]
    /\ note = [c \in DOMAIN kind |-> ""] /\ jit = [c \in DOMAIN kind |-> FALSE]
    /\ out = [c \in DOMAIN kind |-> [p \in Pids |-> {}]]

-----------------------------------------------------------------------------
(* Where a call reads: readCgroupPaths, readSysctls and runInNS.            *)

Goes(c, to) == pc' = [pc EXCEPT ![c] = to]

\* The agent's own namespace is compared with init's.  Who cannot see init's
\* reads where it is, as does who shares it.
Apart(c) == setup.sees /\ IF kind[c] = "sysctls" THEN setup.netns ELSE setup.ns # <<>>
\* The processes a call reads: DescribeNode all of /proc, itself included.
Lowest(S) == {p \in S : \A o \in S : p <= o}
Asked(c) == CASE kind[c] = "node"      -> Pids
              [] kind[c] = "resources" -> Pids \ {Self}
              [] kind[c] = "process"   -> Lowest(Pids \ {Self})
              [] kind[c] = "sysctls"   -> {}

\* DescribeProcess asks first whether the process is there at all.
Begin(c) ==
    /\ pc[c] = "start"
    /\ IF kind[c] = "process" /\ \A p \in Asked(c) : in[p] = Gone
       THEN Goes(c, "done") /\ UNCHANGED todo
       ELSE /\ Goes(c, IF Apart(c) THEN "spawn" ELSE "here")
            /\ todo' = [todo EXCEPT ![c] = Asked(c)]
    /\ UNCHANGED <<world, threads, path, note, jit, out>>

LockThread(c, t) ==
    /\ pc[c] = "spawn" /\ t \in Unlocked
    /\ locked' = [locked EXCEPT ![t] = c]
    /\ Goes(c, "open")
    /\ UNCHANGED <<world, ns, todo, path, note, jit, out>>

\* Nothing has happened to the thread, and it goes back; what is read is read
\* where the agent is, and said to be.
CannotEnter(c, t) ==
    /\ locked[t] = c
    /\ \/ pc[c] = "open" /\ setup.enter = "open fails"
       \/ pc[c] = "setns" /\ setup.enter = "setns fails"
    /\ locked' = [locked EXCEPT ![t] = Free]
    /\ note' = [note EXCEPT ![c] = "could not be entered"]
    /\ Goes(c, "here")
    /\ UNCHANGED <<world, ns, todo, path, jit, out>>

OpenNamespace(c) ==
    /\ pc[c] = "open" /\ setup.enter # "open fails"
    /\ Goes(c, "setns")
    /\ UNCHANGED <<world, threads, todo, path, note, jit, out>>

Setns(c, t) ==
    /\ pc[c] = "setns" /\ locked[t] = c /\ setup.enter = "ok"
    /\ ns' = [ns EXCEPT ![t] = IF kind[c] = "sysctls" THEN [@ EXCEPT !.net = FALSE]
                                                        ELSE [@ EXCEPT !.cgroup = <<>>]]
    /\ Goes(c, "inside")
    /\ UNCHANGED <<world, locked, todo, path, note, jit, out>>

\* The thread a call's goroutine may be running on.
RunsOn(c) ==
    CASE pc[c] = "inside" -> {t \in Threads : locked[t] = c}
      [] pc[c] = "here"   -> Unlocked
      [] OTHER            -> {}

\* readCgroup; a process that is gone has no path.
ReadPath(c, p) ==
    /\ p \in todo[c]
    /\ \E t \in RunsOn(c) :
          path' = [path EXCEPT ![c][p] = IF in[p] = Gone THEN {} ELSE {Spell(ns[t].cgroup, in[p])}]
    /\ todo' = [todo EXCEPT ![c] = @ \ {p}]
    /\ UNCHANGED <<world, threads, pc, note, jit, out>>

\* The files are there in the node's network namespace only.
ReadJIT(c) ==
    /\ kind[c] = "sysctls"
    /\ \E t \in RunsOn(c) : jit' = [jit EXCEPT ![c] = ~ns[t].net]
    /\ Goes(c, IF pc[c] = "inside" THEN "exit" ELSE "done")
    /\ UNCHANGED <<world, threads, todo, path, note, out>>

PathsRead(c) ==
    /\ kind[c] # "sysctls" /\ pc[c] \in {"here", "inside"} /\ todo[c] = {}
    /\ Goes(c, IF pc[c] = "inside" THEN "exit" ELSE "paths")
    /\ UNCHANGED <<world, threads, todo, path, note, jit, out>>

\* Mutant: the thread is unlocked, and goes back to the pool.
UnlockThread(c, t) ==
    /\ pc[c] = "exit" /\ locked[t] = c
    /\ locked' = [locked EXCEPT ![t] = Free]
    /\ Goes(c, IF kind[c] = "sysctls" THEN "done" ELSE "paths")
    /\ UNCHANGED <<world, ns, todo, path, note, jit, out>>

\* The goroutine ends with its thread still locked: the runtime throws that away,
\* and another takes its place.
ThrowThreadAway(c, t) ==
    /\ pc[c] = "exit" /\ locked[t] = c
    /\ ns' = [ns EXCEPT ![t] = Home] /\ locked' = [locked EXCEPT ![t] = Free]
    /\ Goes(c, IF kind[c] = "sysctls" THEN "done" ELSE "paths")
    /\ UNCHANGED <<world, todo, path, note, jit, out>>

-----------------------------------------------------------------------------
(* What is made of the paths.                                               *)

\* Init's mount table says where the hierarchy is, which init's root leads to; the
\* agent's own is looked in when that names none.  Without init's links the same
\* place is opened from the agent's root, where its own mount is.
cgroupV2Root == IF setup.sees /\ setup.mounts.init # {} THEN setup.mounts.init
                                                        ELSE setup.mounts.self

\* cgroupResources: the cgroup a path names under the mount, if it is to be read.
\* Mutant: a path read in the agent's own namespace is joined to the mount too.
cgroupResourcesAnyway(p, n) ==
    {cg \in Cgroups : \E root \in cgroupV2Root, s \in p : ~Climbs(s) /\ cg = root \o s}
cgroupResources(p, n) ==
    {cg \in Cgroups : /\ n = ""
                      /\ \E root \in cgroupV2Root, s \in p : ~Climbs(s) /\ cg = root \o s}

\* DescribeProcess shows the accounting of the cgroup though the process may have
\* exited since its path was read.
Describe(c) ==
    /\ pc[c] = "paths" /\ kind[c] = "process"
    /\ out' = [out EXCEPT ![c] = [p \in Pids |-> cgroupResources(path[c][p], note[c])]]
    /\ Goes(c, "done")
    /\ UNCHANGED <<world, threads, todo, path, note, jit>>

\* GetProcessResources leaves such a process out.
readProcessResources(p) == in[p] # Gone
Account(c) ==
    /\ pc[c] = "paths" /\ kind[c] = "resources"
    /\ out' = [out EXCEPT ![c] =
                 [p \in Pids |-> IF readProcessResources(p) THEN cgroupResources(path[c][p], note[c])
                                                            ELSE {}]]
    /\ Goes(c, "done")
    /\ UNCHANGED <<world, threads, todo, path, note, jit>>

\* The first pod container's path is the example, and a path that climbs has been
\* read through a namespace the agent could not identify.
Samples(c) == {p \in Pids : \E s \in path[c][p] : \E i \in DOMAIN s : s[i] = "kubepods"}
readCgroups(c) ==
    LET shown == {Self} \union Lowest(Samples(c))
    IN  [paths |-> [p \in shown |-> path[c][p]],
         note |-> IF note[c] = "" /\ \E p \in shown : \E s \in path[c][p] : Climbs(s)
                  THEN "climbs" ELSE note[c]]

Report(c) ==
    /\ pc[c] = "paths" /\ kind[c] = "node"
    /\ out' = [out EXCEPT ![c] = [p \in Pids |-> IF p \in DOMAIN readCgroups(c).paths
                                                 THEN path[c][p] ELSE {}]]
    /\ note' = [note EXCEPT ![c] = readCgroups(c).note]
    /\ Goes(c, "done")
    /\ UNCHANGED <<world, threads, todo, path, jit>>

Step(c) ==
    \/ Begin(c) \/ OpenNamespace(c) \/ ReadJIT(c) \/ PathsRead(c)
    \/ Describe(c) \/ Account(c) \/ Report(c)
    \/ \E t \in Threads : \/ LockThread(c, t) \/ CannotEnter(c, t) \/ Setns(c, t)
                          \/ ThrowThreadAway(c, t)
    \/ \E p \in Pids : ReadPath(c, p)

ReadsNext == (\E c \in DOMAIN kind : Step(c)) \/ (\E p \in Pids : Move(p))
ReadsSpec == ReadsInit /\ [][ReadsNext]_readsVars

-----------------------------------------------------------------------------
(* Properties.                                                              *)

ReadsTypeOK ==
    /\ setup \in Setups /\ kind \in CallSets /\ in \in [Pids -> Cgroups \union {Gone}]
    /\ moves \in 0..MaxMoves
    /\ DOMAIN ns = Threads /\ locked \in [Threads -> {Free} \union DOMAIN kind]
    /\ \A c \in DOMAIN kind :
          /\ pc[c] \in {"start", "spawn", "open", "setns", "inside", "here", "exit", "paths", "done"}
          /\ todo[c] \subseteq Pids /\ \A p \in Pids : Cardinality(path[c][p]) <= 1
          /\ pc[c] \in {"start", "spawn", "here", "paths", "done"} <=> \A t \in Threads : locked[t] # c

\* A thread any goroutine may get is in the agent's own namespaces, whichever
\* calls entered others, failed to, or are in them now.
PoolStaysHome == \A t \in Unlocked : ns[t] = Home

\* The accounting shown for a process without a note is that of a cgroup it was in,
\* however the agent is deployed and whatever moved meanwhile.
ResourcesAreItsOwn ==
    \A c \in DOMAIN kind : kind[c] \in {"process", "resources"} =>
        \A p \in Pids : \A cg \in out[c][p] : <<p, cg>> \in was

\* A path on the node's page that carries no note is the one the node has for the
\* cgroup - unless the agent cannot see init's namespaces at all and reads no path
\* that climbs.
DisplacedIsTold ==
    \A c \in DOMAIN kind : kind[c] = "node" /\ pc[c] = "done" /\ note[c] = "" /\
                            (setup.sees \/ setup.ns = <<>>) =>
        \A p \in Pids : \A s \in out[c][p] : <<p, s>> \in was

\* The JIT settings shown without a note were read on a thread that was then in the
\* node's network namespace, whatever other calls did with theirs - with the same
\* exception.
SysctlsAreTheNodes ==
    \A c \in DOMAIN kind : kind[c] = "sysctls" /\ pc[c] = "done" /\ note[c] = "" /\
                            (setup.sees \/ ~setup.netns) => jit[c]

\* What is shown of processes and of the node is theirs.
ReadsAreTrue == ReadsTypeOK /\ ResourcesAreItsOwn /\ DisplacedIsTold /\ SysctlsAreTheNodes
=============================================================================
