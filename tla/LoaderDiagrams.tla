---------------------------- MODULE LoaderDiagrams ----------------------------
(***************************************************************************)
(* The diagram pages (internal/web/handlers.go, graph.go): of a loader, of a *)
(* program and of a map.  Each asks one agent for the three lists - a        *)
(* program's page also for where its own instructions tail-call - picks the  *)
(* objects to draw, and draws every reference it knows of between them.      *)
(***************************************************************************)
EXTENDS LoaderPages

CONSTANTS
  DiagramHolders,  (* bound: which pids may hold an object on these pages *)
  TailSets         (* bound: the tail calls a program's instructions may show *)

(* A tail call goes through a slot of a map; to is 0 when the slot is empty  *)
(* or the index is computed.                                                 *)
ASSUME DiagramsAssumption ==
  /\ DiagramHolders \subseteq HolderSets
  /\ \A cs \in TailSets : \A c \in cs :
       c.map \in Maps /\ c.slot \in Nat /\ c.to \in Progs \union {0}

VARIABLES
  subject,   (* what the page is of, and its id *)
  stage,     (* "lists", "calls", "drawing", "done" or "error" *)
  listed,    (* the three lists *)
  tails,     (* the tail calls of the subject's instructions *)
  diagram    (* the nodes declared and the edges *)

diagramVars == <<subject, stage, listed, tails, diagram>>

Subjects == [kind : {"loader"}, id : Groups]
              \union [kind : {"program"}, id : Progs] \union [kind : {"map"}, id : Maps]

Node(kind, id) == [kind |-> kind, id |-> id]
Edge(from, what, to) == [from |-> from, what |-> what, to |-> to]
Undrawn == [nodes |-> {}, edges |-> {}]

DiagramInit ==
  /\ subject \in Subjects
  /\ stage = "lists" /\ listed = None /\ tails = {} /\ diagram = Undrawn

-----------------------------------------------------------------------------
(* Whoever holds an object counts only for a loader's page.                 *)
HeldBy(hs, l) == \A x \in DOMAIN l : l[x].pids \in hs

(* The programs are required; maps and links that fail read as none there.  *)
FetchGraph ==
  /\ stage = "lists"
  /\ LET hs == IF subject.kind = "loader" THEN DiagramHolders ELSE {{}}
     IN  \E ps \in {l \in Lists.progs : HeldBy(hs, l)},
            ms \in {l \in Lists.maps : HeldBy(hs, l)}, ls \in Lists.links :
           listed' = [progs |-> ps, maps |-> ms, links |-> ls]
  /\ stage' = IF subject.kind = "program" THEN "calls" ELSE "drawing"
  /\ UNCHANGED <<subject, tails, diagram>>

FetchFails ==
  /\ stage = "lists"
  /\ stage' = "error"
  /\ UNCHANGED <<subject, listed, tails, diagram>>

(* Best effort: no calls when the dump fails.  The dump comes after the      *)
(* lists, so it may name what they do not have.                              *)
FetchTailCalls ==
  /\ stage = "calls" /\ subject.id \in DOMAIN listed.progs
  /\ tails' \in TailSets \union {{}}
  /\ stage' = "drawing"
  /\ UNCHANGED <<subject, listed, diagram>>

-----------------------------------------------------------------------------
(* What is drawn: the programs, maps, links and tail calls of a group.       *)

LoaderGroup(g) ==
  [progs |-> {p \in DOMAIN listed.progs : progGroups(listed)[p] = g},
   maps  |-> {m \in Maps : g \in MapGroups(listed, m)},
   links |-> {l \in DOMAIN listed.links : LinkGroup(listed, l) = g},
   calls |-> {}]

(* The program, its maps, its links, and the programs it tail-calls that the *)
(* list has.                                                                 *)
ProgramGroup(p) ==
  LET targets == {c.to : c \in tails} \cap DOMAIN listed.progs
  IN  [progs |-> {p} \union targets,
       maps  |-> listed.progs[p].maps,
       links |-> {l \in DOMAIN listed.links : listed.links[l] = p},
       calls |-> {c \in tails : c.to \in {p} \union targets}]

ReferringTo(ms) == {p \in DOMAIN listed.progs : listed.progs[p].maps \cap ms # {}}
AttachedTo(ps) == {l \in DOMAIN listed.links : listed.links[l] \in ps}

(* Mutant: the slots of every map are followed. *)
MapGroupOfAllSlots(m) ==
  LET ms == {m} \union listed.maps[m].inner
              \union {o \in DOMAIN listed.maps : m \in listed.maps[o].inner}
      ps == ReferringTo(ms) \union (DOMAIN listed.progs
              \cap UNION {listed.maps[o].progs : o \in DOMAIN listed.maps})
  IN  [progs |-> ps, maps |-> ms, links |-> AttachedTo(ps), calls |-> {}]

(* The map, the maps it holds and those that hold it, the programs that      *)
(* reference any of them or sit in its own slots, and their links.           *)
MapGroup(m) ==
  LET ms == {m} \union listed.maps[m].inner
              \union {o \in DOMAIN listed.maps : m \in listed.maps[o].inner}
      ps == ReferringTo(ms) \union (listed.maps[m].progs \cap DOMAIN listed.progs)
  IN  [progs |-> ps, maps |-> ms, links |-> AttachedTo(ps), calls |-> {}]

(* The pairs of a table and a target that a tail call accounts for.          *)
(* Mutant: the target alone counts. *)
PreciseByTarget(g) == {<<m, c.to>> : m \in Maps, c \in g.calls}
Precise(g) == {<<c.map, c.to>> : c \in g.calls}

(* Of a map that is not listed nothing is known.                             *)
Slots(m) == IF m \in DOMAIN listed.maps THEN listed.maps[m] ELSE [inner |-> {}, progs |-> {}]

(* Edges go to what the group declares, but for a link's, to the program it  *)
(* names.                                                                    *)
buildGroupMermaid(g) ==
  LET attaches == {Edge(Node("link", l), "attaches", Node("program", listed.links[l])) :
                     l \in {l \in g.links : listed.links[l] # 0}}
      uses == {Edge(Node("program", x[1]), "uses", Node("map", x[2])) :
                 x \in {x \in g.progs \X g.maps : x[2] \in listed.progs[x[1]].maps}}
      holds == {Edge(Node("map", x[1]), "holds", Node("map", x[2])) :
                  x \in {x \in g.maps \X g.maps : x[2] \in Slots(x[1]).inner}}
      slots == {Edge(Node("map", x[1]), "may tail call", Node("program", x[2])) :
                  x \in {x \in (g.maps \X g.progs) \ Precise(g) : x[2] \in Slots(x[1]).progs}}
      jumps == {Edge(Node("program", subject.id), <<"tail call", c.slot>>, Node("program", c.to)) :
                 c \in g.calls}
  IN  [nodes |-> {Node("program", p) : p \in g.progs} \union {Node("map", m) : m \in g.maps}
                   \union {Node("link", l) : l \in g.links},
       edges |-> attaches \union uses \union holds \union slots \union jumps]

Draw(g) ==
  /\ diagram' = buildGroupMermaid(g)
  /\ stage' = "done"
  /\ UNCHANGED <<subject, listed, tails>>

DrawLoader ==
  /\ stage = "drawing" /\ subject.kind = "loader" /\ subject.id \in AllGroups(listed)
  /\ Draw(LoaderGroup(subject.id))

DrawProgram ==
  /\ stage = "drawing" /\ subject.kind = "program"
  /\ Draw(ProgramGroup(subject.id))

DrawMap ==
  /\ stage = "drawing" /\ subject.kind = "map" /\ subject.id \in DOMAIN listed.maps
  /\ Draw(MapGroup(subject.id))

(* There is no such group, program or map in the lists.                      *)
NotFound ==
  /\ \/ stage = "calls" /\ subject.id \notin DOMAIN listed.progs
     \/ stage = "drawing" /\ subject.kind = "loader" /\ subject.id \notin AllGroups(listed)
     \/ stage = "drawing" /\ subject.kind = "map" /\ subject.id \notin DOMAIN listed.maps
  /\ stage' = "error"
  /\ UNCHANGED <<subject, listed, tails, diagram>>

DiagramNext ==
  \/ FetchGraph \/ FetchFails \/ FetchTailCalls
  \/ DrawLoader \/ DrawProgram \/ DrawMap \/ NotFound

DiagramSpec == DiagramInit /\ [][DiagramNext]_diagramVars

-----------------------------------------------------------------------------
Drawn == stage = "done"
Named == diagram.nodes \union UNION {{e.from, e.to} : e \in diagram.edges}

(* On the page of one program or one map every node is joined to it: what    *)
(* gathers the objects and what draws the edges are two pieces of code, and  *)
(* a slot edge is left out where a tail call is drawn in its place           *)
(* (graph.go:527-536, 575-590, 677-741).                                     *)
FocusIsOnePiece ==
  Drawn /\ subject.kind # "loader" =>
    \A piece \in SUBSET Named :
      /\ Node(subject.kind, subject.id) \in piece
      /\ \A e \in diagram.edges : e.from \in piece <=> e.to \in piece
      => piece = Named

(* What the lists say of two objects: a link attaches, a program references, *)
(* a map holds a map or a program.                                           *)
Refers(a, b) ==
  CASE a.kind = "link" -> b.kind = "program" /\ listed.links[a.id] = b.id
    [] a.kind = "program" -> b.kind = "map" /\ b.id \in listed.progs[a.id].maps
    [] a.kind = "map" -> /\ a.id \in DOMAIN listed.maps
                         /\ \/ b.kind = "map" /\ b.id \in listed.maps[a.id].inner
                            \/ b.kind = "program" /\ b.id \in listed.maps[a.id].progs

Joined(a, b) == \E e \in diagram.edges : e.from = a /\ e.to = b

(* Every reference between two objects of a diagram is on it, an array's     *)
(* slot as its own edge or as a tail call through that very array; every     *)
(* tail call into a listed program is on it, slot by slot; every edge is a   *)
(* reference or a tail call; and no edge names an object that the page does  *)
(* not draw, but for the link of a program that no list has.                 *)
EveryReferenceDrawn ==
  Drawn =>
    /\ \A a, b \in diagram.nodes :
         Refers(a, b) => \/ Joined(a, b)
                         \/ /\ b.kind = "program"
                            /\ \E c \in tails : /\ c.map = a.id /\ c.to = b.id
                                                /\ Joined(Node("program", subject.id), b)
    /\ \A c \in tails : c.to \in DOMAIN listed.progs =>
         \E e \in diagram.edges :
           e = Edge(Node("program", subject.id), <<"tail call", c.slot>>, Node("program", c.to))
    /\ \A e \in diagram.edges :
         \/ Refers(e.from, e.to)
         \/ \E c \in tails : e.what = <<"tail call", c.slot>> /\ e.to.id = c.to
    /\ \A n \in Named \ diagram.nodes :
         subject.kind = "loader" /\ n.kind = "program" /\ n.id \notin DOMAIN listed.progs
=============================================================================
