------------------------------ MODULE CgroupTree ------------------------------
(***************************************************************************)
(* One CgroupTree call: the hierarchy is walked from a root, and each cgroup *)
(* is asked, one attach type after the other, which programs it has.  The   *)
(* while, cgroups come and go and programs are attached, detached and freed. *)
(***************************************************************************)
EXTENDS WalkOrder

CONSTANTS
    Tree,        \* the directories there may be: paths, names being numbers (a bound)
    AtFirst,     \* those there are when the call begins
    Elsewhere,   \* those of another filesystem, mounted inside the hierarchy
    Types,       \* the attach types asked for, in order
    Known,       \* those the kernel has
    ProgIds,
    Flags,       \* what a cgroup may be attached with; NoFlags is one
    Roots,       \* the root a person may ask for, {} for none (a bound)
    Limit,       \* cgroupWalkLimit
    MaxAttach    \* how often the hierarchy and what is attached change (a bound)

NoFlags == "none"
NoProgram == 0

ASSUME TreeAssumption ==
    /\ Tree \subseteq Seq(Nat) /\ IsFiniteSet(Tree)
    /\ AtFirst \subseteq Tree /\ <<>> \in AtFirst
    /\ \A d \in AtFirst : \A n \in 0..Len(d) : SubSeq(d, 1, n) \in AtFirst
    /\ \A d \in Elsewhere, o \in Tree : IsPrefix(d, o) => o \in Elsewhere
    /\ Types \in Seq(Range(Types)) /\ Known \subseteq Range(Types) /\ NoFlags \in Flags
    /\ \A r \in Roots : \A d, o \in r : d = o
    /\ Limit \in Nat /\ MaxAttach \in Nat

VARIABLES
    \* the node
    there,       \* the directories there are
    made,        \* those there have been
    attached,    \* cgroup, type |-> its programs
    aflags,      \* cgroup, type |-> what they are attached with
    name,        \* program id |-> the program that has it, by number, if one does
    changed,
    old,         \* the kernel does not tell each program's own flags
    \* the call
    effective, root, phase,
    list, visited,     \* what the walk has yet to visit, and how much it has
    cg, types, ids,    \* the cgroup asked, the types left in order, and the ids left
    known,             \* cgroupQuerier.progs: id |-> its description
    cur, tree,         \* the cgroup's rows so far, and the cgroups with rows
    \* what happened during the call
    steady,      \* <<cgroup, type, id>> that have applied all along
    applied,     \* <<cgroup, type, id, flags>> at any moment
    named        \* <<id, program>> at any moment

host == <<there, made, attached, aflags, name, changed, old>>
call == <<effective, root, phase, list, visited, cg, types, ids, known, cur, tree>>
history == <<steady, applied, named>>
treeVars == <<host, call, history>>

Keys == Tree \X Range(Types)

\* What the kernel answers of a cgroup: its own programs, or with effective also
\* what it inherits, without flags.
Of(a, k) == IF ~effective THEN a[k]
            ELSE UNION {a[<<d, k[2]>>] : d \in {o \in Tree : IsPrefix(o, k[1])}}
FlagsOf(k) == IF effective THEN NoFlags ELSE aflags[k]
AppliesIn(a, t) ==
    {x \in Tree \X Range(Types) \X ProgIds :
        x[1] \in t \ Elsewhere /\ x[3] \in Of(a, <<x[1], x[2]>>)}

TreeInit ==
    /\ there = AtFirst /\ made = AtFirst
    /\ aflags \in [Keys -> Flags] /\ \A k, j \in Keys : aflags[k] = aflags[j]
    /\ attached \in [Keys -> SUBSET ProgIds]
    /\ \A k \in Keys : attached[k] # {} => k[1] \in there \ Elsewhere /\ k[2] \in Known
    /\ name = [i \in ProgIds |-> 1]
    /\ changed = 0 /\ old \in BOOLEAN
    /\ effective \in BOOLEAN /\ root \in Roots
    /\ phase = "start" /\ list = <<>> /\ visited = 0
    /\ cg = <<>> /\ types = <<>> /\ ids = {} /\ known = {} /\ cur = {} /\ tree = {}
    /\ steady = AppliesIn(attached, there)
    /\ applied = {<<x[1], x[2], x[3], FlagsOf(<<x[1], x[2]>>)>> : x \in steady}
    /\ named = {<<i, 1>> : i \in ProgIds}

-----------------------------------------------------------------------------
(* The node.                                                                *)

Changing == phase \notin {"done", "failed"} /\ changed < MaxAttach /\ changed' = changed + 1

Record ==
    /\ steady' = steady \cap AppliesIn(attached', there')
    /\ applied' = applied \union {<<x[1], x[2], x[3], IF effective THEN NoFlags ELSE aflags'[<<x[1], x[2]>>]>> :
                                    x \in AppliesIn(attached', there')}

\* The first program attached to a cgroup with a type settles the flags.
Attach(k, i) ==
    /\ Changing /\ k[1] \in there \ Elsewhere /\ k[2] \in Known /\ i \notin attached[k] /\ name[i] # NoProgram
    /\ attached' = [attached EXCEPT ![k] = @ \union {i}]
    /\ \E f \in Flags : /\ attached[k] # {} => f = aflags[k]
                        /\ aflags' = [aflags EXCEPT ![k] = f]
    /\ UNCHANGED <<there, made, name, old, call, named>>
    /\ Record

Detach(k, i) ==
    /\ Changing /\ i \in attached[k]
    /\ attached' = [attached EXCEPT ![k] = @ \ {i}]
    /\ UNCHANGED <<there, made, aflags, name, old, call, named>>
    /\ Record

\* A program that is attached nowhere is freed, and another may get its id.
Reload(i) ==
    /\ Changing /\ \A k \in Keys : i \notin attached[k]
    /\ \E other \in {NoProgram, changed + 2} : name' = [name EXCEPT ![i] = other]
    /\ named' = named \union {<<i, name'[i]>>}
    /\ UNCHANGED <<there, made, attached, aflags, old, call, steady, applied>>

\* A cgroup is made, by a name that none has had (a bound).
Mkdir(d) ==
    /\ Changing /\ d \notin made \union Elsewhere /\ Front(d) \in there \ Elsewhere
    /\ there' = there \union {d} /\ made' = made \union {d}
    /\ UNCHANGED <<attached, aflags, name, old, call, named>>
    /\ Record

\* A cgroup without children is removed, with what it has attached.
Rmdir(d) ==
    /\ Changing /\ d \in there \ ({<<>>} \union Elsewhere)
    /\ \A o \in there : o # <<>> => Front(o) # d
    /\ there' = there \ {d}
    /\ attached' = [k \in Keys |-> IF k[1] = d THEN {} ELSE attached[k]]
    /\ UNCHANGED <<made, aflags, name, old, call, named>>
    /\ Record

-----------------------------------------------------------------------------
(* The call.                                                                *)

\* A root that is not absolute is refused, and one that is not there fails; {}
\* stands for the first, no root asked for being <<>>.
cgroupTreeRoot == root
StartTree ==
    /\ phase = "start"
    /\ IF cgroupTreeRoot = {} \/ ~ (cgroupTreeRoot \subseteq there)
       THEN phase' = "failed" /\ UNCHANGED list
       ELSE phase' = "walk" /\ \E r \in cgroupTreeRoot : list' = <<r>>
    /\ UNCHANGED <<host, effective, root, visited, cg, types, ids, known, cur, tree, history>>

Children(d) == {o \in there : o # <<>> /\ Front(o) = d}

\* Whatever is mounted inside the hierarchy is not part of it.
OtherFilesystem(d) == (d \in Elsewhere) # (\E r \in root : r \in Elsewhere)

\* The walk's callback is given a directory; too many of them end the walk.  One
\* that is asked stays first in the list: what is in it is read when it has been.
VisitCgroup ==
    /\ phase = "walk" /\ list # <<>>
    /\ visited' = visited + 1
    /\ LET d == Head(list) IN
       IF visited' > Limit THEN list' = <<>> /\ UNCHANGED <<phase, cg, types>>
       ELSE IF d \notin there \/ OtherFilesystem(d)
            THEN list' = Tail(list) /\ UNCHANGED <<phase, cg, types>>
            ELSE phase' = "query" /\ cg' = d /\ types' = Types /\ UNCHANGED list
    /\ UNCHANGED <<host, effective, root, ids, known, cur, tree, history>>

\* BPF_PROG_QUERY.  Asking an old kernel for each program's flags, or any for an
\* unknown type, is EINVAL; so queryType asks again without.
Query(k, withFlags) ==
    IF k[2] \notin Known \/ (withFlags /\ (old \/ effective)) THEN "EINVAL" ELSE "ok"

\* Mutant: an inherited program is shown with the cgroup's own flags.
queryTypeFlagged(k) ==
    IF Query(k, ~effective) = "ok" \/ Query(k, FALSE) = "ok"
    THEN {[id |-> i, flags |-> aflags[k]] : i \in Of(attached, k)}
    ELSE {}

queryType(k) ==
    IF Query(k, ~effective) = "ok" \/ Query(k, FALSE) = "ok"
    THEN {[id |-> i, flags |-> FlagsOf(k)] : i \in Of(attached, k)}
    ELSE {}

AskType ==
    /\ phase = "query" /\ types # <<>> /\ ids = {} /\ cg \in there \ Elsewhere
    /\ ids' = queryType(<<cg, Head(types)>>)
    /\ phase' = "describe"
    /\ UNCHANGED <<host, effective, root, list, visited, cg, types, known, cur, tree, history>>

\* Any refusal but EINVAL fails the tree: for want of a capability, since the
\* cgroup was removed after it was opened, or since the directory is none.
QueryFails ==
    /\ phase = "query" /\ types # <<>>
    /\ phase' = "failed" /\ tree' = {}
    /\ UNCHANGED <<host, effective, root, list, visited, cg, types, ids, known, cur, history>>

\* A program is described once in a call; one that is gone has no name.
Described(i) == {d \in known : d[1] = i}
DescribeProg ==
    /\ phase = "describe"
    /\ \E p \in ids :
          /\ known' = IF Described(p.id) # {} THEN known ELSE known \union {<<p.id, name[p.id]>>}
          /\ cur' = cur \union {[type |-> Head(types), id |-> p.id, flags |-> p.flags, as |-> d[2]] :
                                  d \in {o \in known' : o[1] = p.id}}
          /\ ids' = ids \ {p}
    /\ UNCHANGED <<host, effective, root, phase, list, visited, cg, types, tree, history>>

NextType ==
    /\ phase = "describe" /\ ids = {}
    /\ phase' = "query" /\ types' = Tail(types)
    /\ UNCHANGED <<host, effective, root, list, visited, cg, ids, known, cur, tree, history>>

\* A cgroup with no programs is left out, and the walk goes on to its children.
EndCgroup ==
    /\ phase = "query" /\ types = <<>>
    /\ \E s \in ByName(Children(cg)) : list' = s \o Tail(list)
    /\ tree' = IF cur = {} THEN tree ELSE tree \union {[path |-> cg, progs |-> cur]}
    /\ phase' = "walk" /\ cur' = {}
    /\ UNCHANGED <<host, effective, root, visited, cg, types, ids, known, history>>

EndTree ==
    /\ phase = "walk" /\ list = <<>>
    /\ phase' = "done"
    /\ UNCHANGED <<host, effective, root, list, visited, cg, types, ids, known, cur, tree, history>>

TreeNext ==
    \/ StartTree \/ VisitCgroup \/ AskType \/ QueryFails \/ DescribeProg \/ NextType \/ EndCgroup \/ EndTree
    \/ \E k \in Keys, i \in ProgIds : Attach(k, i) \/ Detach(k, i)
    \/ \E i \in ProgIds : Reload(i)
    \/ \E d \in Tree : Mkdir(d) \/ Rmdir(d)
TreeSpec == TreeInit /\ [][TreeNext]_treeVars

-----------------------------------------------------------------------------
(* Properties.                                                              *)

TreeTypeOK ==
    /\ there \subseteq made /\ made \subseteq Tree /\ attached \in [Keys -> SUBSET ProgIds] /\ aflags \in [Keys -> Flags]
    /\ phase \in {"start", "walk", "query", "describe", "done", "failed"}
    /\ visited \in 0..(Limit + 1) /\ changed \in 0..MaxAttach
    /\ \A i \in DOMAIN list : list[i] \in Tree
    /\ \A i \in ProgIds : Cardinality(Described(i)) <= 1
    /\ phase = "failed" => tree = {}

\* Each row of the tree was so at some moment of the call: the program applied to
\* the cgroup by that type and those flags, and its id was the program's it is
\* described as, or nobody's.
RowsWereTrue ==
    \A c \in tree : \A p \in c.progs :
        <<c.path, p.type, p.id, p.flags>> \in applied /\ <<p.id, p.as>> \in named

\* A tree that is given has every program that applied to a cgroup under its root
\* all along, whatever was attached and removed beside it, unless the walk reached
\* its limit; no cgroup is in it twice.
TreeIsWhole ==
    phase = "done" /\ visited <= Limit =>
        /\ \A x \in steady : IsPrefix(CHOOSE r \in root : TRUE, x[1]) =>
              \E c \in tree : c.path = x[1] /\ \E p \in c.progs : p.type = x[2] /\ p.id = x[3]
        /\ \A c, o \in tree : c.path = o.path => c = o

\* A tree that is given is true and whole.
TreeIsRight == TreeTypeOK /\ RowsWereTrue /\ TreeIsWhole
=============================================================================
