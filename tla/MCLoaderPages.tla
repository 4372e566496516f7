--------------------------- MODULE MCLoaderPages ---------------------------
(* TLC's instances of the pages, and of the agent's listings they are made  *)
(* of: pids and ids are numbers, for the lowest wins, so no symmetry; an    *)
(* object has one holder or none.  A behaviour is one listing, one page     *)
(* that groups by loader, one diagram, or the finding of a node; they share *)
(* no state, so the others are over.                                        *)
EXTENDS LoaderDiagrams, Discovery, MCListing

OneHolder == {{}, {1}, {2}}
FewHolders == {{}, {2}}

(* At most two calls: through a table's two slots, into the same program or  *)
(* another, into nothing, or through the other table.                        *)
Calls == [map : {1}, slot : {0, 1}, to : {0, 1, 2}] \union [map : {2}, slot : {0}, to : {2}]
TwoCalls == {{a, b} : a \in Calls, b \in Calls}

(* Two agents named on the command line, or one without its address.         *)
At(k, a) == [node |-> k, addr |-> a]
CommandLines == {<<At(2, 1), At(1, 2)>>, <<At(1, 1), At(1, 2)>>, <<At(1, 0)>>}

NoPage == Init /\ page = "loaders"
NoDiagram == DiagramInit /\ subject = [kind |-> "map", id |-> 1]

NoVisit == DiscoveryInit /\ spec # <<>> /\ spec[1].node # spec[2].node /\ visit = "index"

NoListing == NoWalk /\ NoKeyWalk /\ NoLinks

PagesInit ==
  \/ NoPage /\ NoDiagram /\ NoVisit /\ ListInit
  \/ NoListing /\ NoDiagram /\ NoVisit /\ mode = "page" /\ Init
  \/ NoListing /\ NoPage /\ NoVisit /\ mode = "diagram" /\ DiagramInit
  \/ NoListing /\ NoPage /\ NoDiagram /\ mode = "node" /\ DiscoveryInit
PagesNext ==
  \/ ListNext /\ UNCHANGED <<vars, diagramVars, discoveryVars>>
  \/ /\ UNCHANGED listVars
     /\ \/ mode = "page" /\ Next /\ UNCHANGED <<diagramVars, discoveryVars>>
        \/ mode = "diagram" /\ DiagramNext /\ UNCHANGED <<vars, discoveryVars>>
        \/ mode = "node" /\ DiscoveryNext /\ UNCHANGED <<vars, diagramVars>>
PagesSpec == PagesInit /\ [][PagesNext]_<<listVars, vars, diagramVars, discoveryVars>>
=============================================================================
