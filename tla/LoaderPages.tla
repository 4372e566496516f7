---------------------------- MODULE LoaderPages -----------------------------
(***************************************************************************)
(* The pages that group by loader (internal/web/handlers.go): the loaders  *)
(* index and the programs, maps and links lists, each of which may be      *)
(* narrowed to one group.  A page asks one agent for two or three lists,   *)
(* one after another; the node changes in between, and any call may fail.  *)
(***************************************************************************)
EXTENDS LoaderGroups, Sequences

CONSTANTS Progs, Maps, Links,   (* bounds: ids *)
          HolderSets            (* bound: which pids may hold one object *)

ASSUME PagesAssumption ==
  /\ Progs \subseteq Nat \ {0} /\ Maps \subseteq Nat \ {0} /\ Links \subseteq Nat \ {0}
  /\ Hidden \subseteq Nat \ {0}
  /\ HolderSets \subseteq SUBSET (Nat \ {0})

VARIABLES
  page,      (* the page being made *)
  filter,    (* the group it is narrowed to; empty when none *)
  calls,     (* the calls still to make, in order *)
  read,      (* the calls that answered *)
  got,       (* what they returned; nothing, where one was not made or failed *)
  answer     (* the page: what it lists and what its picker offers *)

vars == <<page, filter, calls, read, got, answer>>

Groups == {NoLoader} \union ((UNION HolderSets) \ Hidden)

Empty == [x \in {} |-> 0]
None  == [progs |-> Empty, maps |-> Empty, links |-> Empty]

(* What one call can return.  A map in a slot holds no slots itself.        *)
Some(Ids, Info) == UNION {[S -> Info] : S \in SUBSET Ids}

ProgInfo == [pids : HolderSets, maps : SUBSET Maps]

MapInfo ==
  [pids : HolderSets, inner : SUBSET Maps, progs : {{}}]
    \union [pids : HolderSets, inner : {{}}, progs : SUBSET Progs]

Lists == [
  progs |-> Some(Progs, ProgInfo),
  maps  |-> {l \in Some(Maps, MapInfo) :
               \A o \in DOMAIN l : \A m \in l[o].inner :
                 m # o /\ (m \in DOMAIN l => l[m].inner = {})},
  links |-> Some(Links, Progs \union {0})]

CallsOf == [loaders  |-> <<"progs", "maps", "links">>,
            programs |-> <<"progs", "maps">>,
            maps     |-> <<"maps", "progs">>,
            links    |-> <<"links", "progs", "maps">>]

-----------------------------------------------------------------------------
Blank == [state |-> "none"]
Error == [state |-> "error"]

Init ==
  /\ page \in DOMAIN CallsOf
  /\ filter \in IF page = "loaders" THEN {{}} ELSE {{}} \union {{g} : g \in Groups}
  /\ calls = CallsOf[page]
  /\ read = {}
  /\ got = None
  /\ answer = Blank

AgentAnswers ==
  /\ answer = Blank
  /\ calls # <<>>
  /\ \E l \in Lists[Head(calls)] : got' = [got EXCEPT ![Head(calls)] = l]
  /\ read' = read \union {Head(calls)}
  /\ calls' = Tail(calls)
  /\ UNCHANGED <<page, filter, answer>>

(* Mutant: only the page's own list is needed, filter or not. *)
RequiredAlways(call) == call = Head(CallsOf[page])

(* The page's own list always; under a filter also what it is grouped by.   *)
Required(call) == call = Head(CallsOf[page]) \/ filter # {}

CallFails ==
  /\ answer = Blank
  /\ calls # <<>>
  /\ calls' = Tail(calls)
  /\ answer' = IF Required(Head(calls)) THEN Error ELSE Blank
  /\ got' = IF Required(Head(calls)) THEN None ELSE got
  /\ UNCHANGED <<page, filter, read>>

(* What the page lists, and the groups each row belongs to.                 *)
RowGroups(s) ==
  CASE page = "programs" -> [p \in DOMAIN s.progs |-> {progGroups(s)[p]}]
    [] page = "maps"     -> [m \in DOMAIN s.maps |-> MapGroups(s, m)]
    [] page = "links"    -> [l \in DOMAIN s.links |-> {LinkGroup(s, l)}]

(* The groups that have anything of the page's kind, listed or only named.  *)
Offered(s) ==
  IF page = "maps" THEN UNION {MapGroups(s, m) : m \in Maps}
  ELSE UNION {RowGroups(s)[r] : r \in DOMAIN RowGroups(s)}

AllGroups(s) ==
  {progGroups(s)[p] : p \in DOMAIN s.progs}
    \union (UNION {ByHolder(s, m) : m \in DOMAIN s.maps})
    \union {LinkGroup(s, l) : l \in DOMAIN s.links}

Missing == {CallsOf[page][i] : i \in DOMAIN CallsOf[page]} \ read

Picker ==
  (IF Missing = {} THEN Offered(got) ELSE {})
    \union filter

Render ==
  /\ answer = Blank
  /\ calls = <<>>
  /\ answer' =
       IF page = "loaders" THEN [state |-> "done", rows |-> AllGroups(got), picker |-> {}]
       ELSE [state |-> "done",
             rows |-> {r \in DOMAIN RowGroups(got) : filter \subseteq RowGroups(got)[r]},
             picker |-> Picker]
  /\ UNCHANGED <<page, filter, calls, read, got>>

Next == AgentAnswers \/ CallFails \/ Render

Spec == Init /\ [][Next]_vars

-----------------------------------------------------------------------------
(* The variables have their types.                                          *)
TypeOK ==
  /\ page \in DOMAIN CallsOf
  /\ filter \in {{}} \union {{g} : g \in Groups}
  /\ \E n \in 0..Len(CallsOf[page]) : calls = SubSeq(CallsOf[page], n + 1, Len(CallsOf[page]))
  /\ read \subseteq DOMAIN None
  /\ \A c \in DOMAIN None : got[c] \in Lists[c]
  /\ answer.state = "done" =>
       /\ answer.rows \subseteq Groups \union Progs \union Maps \union Links
       /\ answer.picker \subseteq Groups

Done == answer.state = "done"
Index == Done /\ page = "loaders"   (* makes all three calls, may miss two *)

(* Who can be traced to a process that may be a loader, by any of the four  *)
(* routes of graph.go:43-52 and in any order of ids: a visible holder; a    *)
(* tail-call slot of an array held, or referenced by a held program; a      *)
(* program so traced that references a map; a slot of a map traced.         *)
Visible(pids) == \E pid \in pids : pid \notin Hidden

TracedBy(ps) ==
  {m \in DOMAIN got.maps : \/ Visible(got.maps[m].pids)
                           \/ \E p \in ps : m \in got.progs[p].maps}

HeldProgs   == {p \in DOMAIN got.progs : Visible(got.progs[p].pids)}
TracedProgs ==
  HeldProgs \union {p \in DOMAIN got.progs :
                      \E m \in TracedBy(HeldProgs) : p \in got.maps[m].progs}
TracedMaps  ==
  TracedBy(TracedProgs)
    \union (UNION {got.progs[p].maps : p \in TracedProgs})
    \union (UNION {got.maps[o].inner : o \in TracedBy(TracedProgs)})

(* The no-loader group has the programs, maps and links that no route traces *)
(* to a loader, and no others, though each route is a loop of its own that  *)
(* takes the lowest id (graph.go:107-183, 248-281).                         *)
NoLoaderIsUntraced ==
  Index =>
    /\ \A p \in DOMAIN got.progs : progGroups(got)[p] = NoLoader <=> p \notin TracedProgs
    /\ \A m \in DOMAIN got.maps \union (UNION {got.progs[p].maps : p \in DOMAIN got.progs}) :
         NoLoader \in MapGroups(got, m) <=> m \notin TracedMaps
    /\ \A l \in DOMAIN got.links :
         LinkGroup(got, l) = NoLoader <=> got.links[l] \notin TracedProgs

(* No row of the no-loader group names a loader in its Holders column, which *)
(* other code computes: "a row reading tetragon(1234) listed under no loader *)
(* is the page contradicting itself" (graph.go:104-106).                     *)
NoLoaderRowsNameNobody ==
  Index =>
    /\ \A p \in DOMAIN got.progs :
         progGroups(got)[p] = NoLoader => ProgColumn(got, p) \subseteq Hidden
    /\ \A m \in DOMAIN got.maps :
         NoLoader \in MapGroups(got, m) => MapColumn(got, m) \subseteq Hidden

(* A listed map is missing from every group only when it sits in a slot of a *)
(* traced map and only programs without a loader reference it               *)
(* (graph.go:160-162, 174-176).                                              *)
OnlyInheritedMapsAreLost ==
  Index =>
    \A m \in DOMAIN got.maps :
      MapGroups(got, m) = {} =>
        /\ ~Visible(got.maps[m].pids)
        /\ Referrers(got, m) # {}
        /\ Referrers(got, m) \cap TracedProgs = {}
        /\ \E o \in TracedBy(TracedProgs) : m \in got.maps[o].inner

(* What a page says of a group it says whatever the calls that failed would *)
(* have returned: the rows under a filter belong to it, and the picker      *)
(* offers groups that are there (handlers.go:375-397, 529-553, 645-678).    *)
Worlds ==
  LET may(c) == IF c \in Missing THEN Lists[c] ELSE {got[c]} IN
  [progs : may("progs"), maps : may("maps"), links : may("links")]

NothingRestsOnAFailure ==
  Done /\ page # "loaders" =>
    /\ \A r \in IF filter = {} THEN {} ELSE answer.rows :
         \A s \in Worlds : filter \subseteq RowGroups(s)[r]
    /\ \A g \in answer.picker \ filter : \A s \in Worlds : g \in Offered(s)

(* Every page is of its type, and says what it knows.                       *)
PageIsSound == TypeOK /\ NothingRestsOnAFailure

-----------------------------------------------------------------------------
(* What comments say, and the code does not keep.                           *)

(* graph.go:170-171: "Only a map nobody holds and nobody references is left *)
(* to the no-loader group", 175: "already under whichever groups reference  *)
(* it": so every listed map is in a group.                                  *)
EveryMapGrouped == Index => \A m \in DOMAIN got.maps : MapGroups(got, m) # {}
=============================================================================
