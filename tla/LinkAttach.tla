------------------------------ MODULE LinkAttach ------------------------------
(***************************************************************************)
(* The attach details of the links of one ListLinks call, and the resolver  *)
(* that caches the lookups they need: what type of program a link attaches, *)
(* what its target is called in the target's own BTF, and which path its    *)
(* cgroup's id names.                                                       *)
(***************************************************************************)
EXTENDS Integers, Sequences, FiniteSets

CONSTANTS
    LinkKinds,    \* the links there may be: records as the kernel reports them
    MaxLinks,     \* how many (a bound)
    ProgType,     \* program id |-> its type's name
    BtfKind,      \* BTF object id |-> "vmlinux", "module" or "program"; "closed" when its
                  \* handle or info cannot be had, "broken" when a module's BTF cannot
    TypeName,     \* <<BTF, type id>> |-> the name of that function or tracepoint
    Cgroups       \* cgroup ids

\* A link: its type, its program, and by type the target's object and type ids, the
\* tracepoint or function it is on, or its cgroup; of some the kernel gives no
\* detail (~told).  Of a link to a program's function it reports the program's id as
\* the object: what `of` says, the agent is not told.
ASSUME LinkAssumption ==
    /\ MaxLinks \in Nat
    /\ \A l \in LinkKinds : /\ l.type \in {"raw_tracepoint", "tracing", "cgroup", "perf_event", "xdp"}
                            /\ l.obj \in Nat /\ l.btf \in Nat /\ l.of \in {"kernel", "program"}
                            /\ l.told \in BOOLEAN
    /\ \A l \in LinkKinds : l.of = "kernel" => l.obj = 0 \/ l.obj \in DOMAIN BtfKind
    /\ \A o \in DOMAIN BtfKind :
          o # 0 /\ BtfKind[o] \in {"vmlinux", "module", "program", "closed", "broken"}
    /\ \A t \in DOMAIN TypeName : t[1] \in {"vmlinux", "module", "program"}

VARIABLES
    links,      \* the links of the node, in the order of their ids
    progs,      \* programs there are
    cgroups,    \* cgroups there are
    kernelHas,  \* the kernel exposes its BTF
    n,          \* how many links have been read
    rows,       \* their attach details
    \* linkResolver
    progTypes,   \* program id |-> name, "" when it could not be read
    targetSpecs, \* target_obj_id |-> BTF, "none" when it cannot be had
    kernelBTF,   \* "untried", "none" or "vmlinux"
    cgroupPaths, \* {}, or the one set of cgroups the walk found
    loads, walks \* how often the kernel's BTF was loaded and the hierarchy walked

world == <<links, progs, cgroups, kernelHas>>
resolver == <<progTypes, targetSpecs, kernelBTF, cgroupPaths, loads, walks>>
linkVars == <<world, n, rows, resolver>>

LinkInit ==
    /\ links \in UNION {[1..k -> LinkKinds] : k \in 0..MaxLinks}
    /\ progs = DOMAIN ProgType /\ cgroups = Cgroups /\ kernelHas \in BOOLEAN
    /\ n = 0 /\ rows = <<>>
    /\ progTypes = <<>> /\ targetSpecs = <<>> /\ kernelBTF = "untried"
    /\ cgroupPaths = {} /\ loads = 0 /\ walks = 0

\* A program or a cgroup goes while the links are read.
ProgramGone(p) ==
    /\ n < Len(links) /\ p \in progs /\ progs' = progs \ {p}
    /\ UNCHANGED <<links, cgroups, kernelHas, n, rows, resolver>>
CgroupGone(c) ==
    /\ n < Len(links) /\ c \in cgroups /\ cgroups' = cgroups \ {c}
    /\ UNCHANGED <<links, progs, kernelHas, n, rows, resolver>>

-----------------------------------------------------------------------------
\* progTypeName: read once, and not again when it could not be.
TypeOfProgram(p) ==
    IF p \in DOMAIN progTypes THEN progTypes[p]
    ELSE IF p \in progs THEN ProgType[p] ELSE ""

\* vmlinux: loaded once, and not tried again when there is none.
Vmlinux ==
    IF kernelBTF # "untried" THEN kernelBTF ELSE IF kernelHas THEN "vmlinux" ELSE "none"

\* loadTargetSpec takes the object's id for a BTF id; 0 is the kernel's on an older
\* kernel, and only what the kernel owns is taken.  A module's needs the kernel's.
NeedsKernel(obj) ==
    obj = 0 \/ (obj \in DOMAIN BtfKind /\ BtfKind[obj] \in {"vmlinux", "module", "broken"})
LoadTargetSpec(obj) ==
    IF ~NeedsKernel(obj) \/ Vmlinux = "none" THEN "none"
    ELSE IF obj = 0 \/ BtfKind[obj] = "vmlinux" THEN "vmlinux"
    ELSE IF BtfKind[obj] = "module" THEN "module" ELSE "none"
\* Mutant: one BTF is kept for all objects.
TargetSpecShared(obj) ==
    IF DOMAIN targetSpecs # {} THEN targetSpecs[CHOOSE o \in DOMAIN targetSpecs : TRUE]
    ELSE LoadTargetSpec(obj)
TargetSpec(obj) ==
    IF obj \in DOMAIN targetSpecs THEN targetSpecs[obj] ELSE LoadTargetSpec(obj)

\* targetName: a type id of 0 names nothing, and loads nothing.
TargetName(l) ==
    LET at == <<TargetSpec(l.obj), l.btf>>
    IN  IF l.btf # 0 /\ at \in DOMAIN TypeName THEN TypeName[at] ELSE ""

\* The hierarchy as it is when it is walked, and as it was when the first cgroup
\* link asked.
walkCgroupPaths == cgroups
CgroupPaths == IF cgroupPaths = {} THEN walkCgroupPaths ELSE UNION cgroupPaths
cgroupPath(c) == {c} \intersect CgroupPaths

\* The one line of a link, part by part, and the path beside it; without a type it
\* is the empty line.
Detail == [type |-> "", progType |-> "", target |-> "", path |-> {}]

\* A tracepoint without a name is no line; an event without one still has its kind.
RawTracepointAttach(l) ==
    IF l.told /\ l.at # "" THEN [Detail EXCEPT !.type = "tp", !.target = l.at] ELSE Detail
PerfEventAttach(l) ==
    IF l.told THEN [Detail EXCEPT !.type = "perf_event", !.target = l.at] ELSE Detail
TracingAttach(l) ==
    IF l.told THEN [Detail EXCEPT !.type = "tracing", !.progType = TypeOfProgram(l.prog),
                                  !.target = TargetName(l)]
    ELSE Detail
CgroupAttach(l) ==
    IF l.told THEN [Detail EXCEPT !.type = "cgroup", !.path = cgroupPath(l.cgroup)] ELSE Detail

LinkDetail(l) ==
    CASE l.type = "raw_tracepoint" -> RawTracepointAttach(l)
      [] l.type = "tracing" -> TracingAttach(l)
      [] l.type = "cgroup" -> CgroupAttach(l)
      [] l.type = "perf_event" -> PerfEventAttach(l)
      [] OTHER -> Detail

Remember(f, k, v) == [x \in DOMAIN f \union {k} |-> IF x \in DOMAIN f THEN f[x] ELSE v]

\* The next link's detail, with every lookup it makes remembered.
ReadLink ==
    /\ n < Len(links) /\ n' = n + 1
    /\ LET l == links[n + 1]
           tracing == l.type = "tracing" /\ l.told
           inCgroup == l.type = "cgroup" /\ l.told
           looks == tracing /\ l.btf # 0 /\ l.obj \notin DOMAIN targetSpecs
           needs == looks /\ NeedsKernel(l.obj)
       IN  /\ rows' = Append(rows, LinkDetail(l))
           /\ progTypes' = IF tracing THEN Remember(progTypes, l.prog, TypeOfProgram(l.prog)) ELSE progTypes
           /\ targetSpecs' = IF looks THEN Remember(targetSpecs, l.obj, LoadTargetSpec(l.obj)) ELSE targetSpecs
           /\ kernelBTF' = IF needs THEN Vmlinux ELSE kernelBTF
           /\ loads' = loads + (IF needs /\ kernelBTF = "untried" THEN 1 ELSE 0)
           /\ cgroupPaths' = IF inCgroup THEN {CgroupPaths} ELSE cgroupPaths
           /\ walks' = walks + (IF inCgroup /\ cgroupPaths = {} THEN 1 ELSE 0)
    /\ UNCHANGED world

LinkNext ==
    \/ ReadLink
    \/ \E p \in DOMAIN ProgType : ProgramGone(p)
    \/ \E c \in Cgroups : CgroupGone(c)

LinkSpec == LinkInit /\ [][LinkNext]_linkVars

-----------------------------------------------------------------------------
\* What a link's target is really called: a program's functions are not in the
\* kernel's BTF.
TrueTarget(l) ==
    LET btf == IF l.obj = 0 THEN "vmlinux" ELSE BtfKind[l.obj]
    IN  IF l.of = "kernel" /\ <<btf, l.btf>> \in DOMAIN TypeName
        THEN TypeName[<<btf, l.btf>>] ELSE "a program's function"

NamesTarget(r) == links[r].type = "tracing" /\ rows[r].target # ""

\* A link's named target is its target (links.go:303-307: the object of a link to
\* another program is that program's id, so it cannot be resolved).
TargetIsTrue == \A r \in DOMAIN rows : NamesTarget(r) => rows[r].target = TrueTarget(links[r])

\* The target of a link into the kernel is named right, from whichever BTF was
\* loaded for an earlier link; the kernel's BTF is loaded and the hierarchy walked
\* at most once in a call, failing or not, and only for a link that needs it.
ResolvedOnce ==
    /\ \A r \in DOMAIN rows :
          NamesTarget(r) /\ links[r].of = "kernel" => rows[r].target = TrueTarget(links[r])
    /\ loads <= Cardinality({r \in DOMAIN rows : rows[r].type = "tracing" /\ links[r].btf # 0})
    /\ walks <= Cardinality({r \in DOMAIN rows : rows[r].type = "cgroup"})
    /\ loads <= 1 /\ walks <= 1
=============================================================================
