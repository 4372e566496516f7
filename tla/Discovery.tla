------------------------------- MODULE Discovery -------------------------------
(***************************************************************************)
(* How the UI finds the agent of a node (internal/discovery) and opens one   *)
(* (index, nodes and dial of internal/web/handlers.go): the agents are       *)
(* listed anew for every question, while the agents' pods come and go, or    *)
(* are named on the command line.                                            *)
(***************************************************************************)
EXTENDS Naturals, Sequences

CONSTANTS
  Nodes,       (* nodes, in the order of their names *)
  Pods,        (* names an agent's pod may get, in the order the API lists them *)
  Specs,       (* what --agents may say: sequences of [node, addr], addr 0 when empty *)
  MaxPodMoves  (* how often a pod changes (a bound) *)

ASSUME DiscoveryAssumption ==
  /\ Nodes \subseteq Nat \ {0} /\ Pods \subseteq Nat \ {0} /\ MaxPodMoves \in Nat
  /\ Specs \subseteq Seq([node : Nodes, addr : Nat])

VARIABLES
  spec,       (* what --agents says; <<>> in a cluster *)
  pods,       (* pod |-> its node, phase and readiness; it has an address of its own *)
  podMoves,
  entry,      (* the page the browser came in by: "index", or a link to a "node" *)
  visit,      (* "index", "node", "call" or "over" *)
  opened,     (* the node the browser is at, 0 for none *)
  addr,       (* the address dialled *)
  result,     (* what the browser is shown *)
  steady      (* the nodes that have had an agent ready at every moment *)

cluster == <<spec, pods, podMoves>>
browser == <<entry, visit, opened, addr, result, steady>>
discoveryVars == <<cluster, browser>>

-----------------------------------------------------------------------------
(* The pods of the agents' DaemonSet.  During a rollout a node may have two. *)

podReady(p) == pods[p].phase = "Running" /\ pods[p].ready
AgentOn(n) ==
  IF spec # <<>> THEN \E i \in DOMAIN spec : spec[i].node = n
  ELSE \E p \in DOMAIN pods : pods[p].node = n /\ podReady(p)

(* A pod of a node, with an address from when it runs; one that failed keeps  *)
(* its last conditions.  A name and an address are not used again.           *)
Pod(n, phases, readiness) == [node : {n}, phase : phases, ready : readiness]
Later(n) == Pod(n, {"Running", "Failed"}, BOOLEAN) \union Pod(n, {"Deleted"}, {FALSE})

PodsChange ==
  /\ spec = <<>> /\ podMoves < MaxPodMoves /\ visit # "over"
  /\ podMoves' = podMoves + 1
  /\ \/ \E p \in Pods \ DOMAIN pods, n \in Nodes : \E new \in Pod(n, {"Pending"}, {FALSE}) :
          pods' = [q \in DOMAIN pods \union {p} |-> IF q = p THEN new ELSE pods[q]]
     \/ \E p \in DOMAIN pods : \E s \in Later(pods[p].node) :
          pods[p].phase # "Deleted" /\ pods' = [pods EXCEPT ![p] = s]
  /\ UNCHANGED <<spec, entry, visit, opened, addr, result>>
  /\ steady' = {n \in steady : AgentOn(n)'}

-----------------------------------------------------------------------------
(* Endpoints: one for each ready pod in the order the pods are listed, or the *)
(* command line's.  Whoever asks for nodes in order sorts them again.        *)

Endpoint(n, a) == [node |-> n, addr |-> a]

(* An item without an address is refused, and so is a list of none.          *)
ParseStatic(s) == IF \E i \in DOMAIN s : s[i].addr = 0 THEN <<>> ELSE s

(* The places in the list, and what stands there.                            *)
Listed == IF spec # <<>> THEN DOMAIN spec ELSE {p \in DOMAIN pods : podReady(p)}
Endpoints(i) == IF spec # <<>> THEN spec[i] ELSE Endpoint(pods[i].node, i)

FirstOf(S) == {i \in S : \A j \in S : i <= j}

(* A cluster, or a command line that was accepted.                           *)
DiscoveryInit ==
  /\ spec \in {<<>>} \union {ParseStatic(s) : s \in Specs}
  /\ pods \in IF spec # <<>> THEN {<<>>}
              ELSE UNION {[ps -> UNION {Pod(n, {"Running"}, {TRUE}) : n \in Nodes}] : ps \in SUBSET Pods}
  /\ podMoves = 0
  /\ entry \in {"index", "node"} /\ visit = entry
  /\ opened \in IF entry = "index" THEN {0} ELSE Nodes
  /\ addr = 0 /\ result = "none" /\ steady = {n \in Nodes : AgentOn(n)}

-----------------------------------------------------------------------------
(* The UI.                                                                   *)

(* The picker, and what the index opens the first of.                        *)
nodes == {Endpoints(i).node : i \in Listed}

Over(what) == visit' = "over" /\ result' = what

(* The first node; a list that failed is not taken for an empty one.         *)
index ==
  /\ visit = "index"
  /\ \/ Over("error") /\ UNCHANGED opened
     \/ nodes = {} /\ Over("no agents") /\ UNCHANGED opened
     \/ opened' \in FirstOf(nodes) /\ visit' = "node" /\ UNCHANGED result
  /\ UNCHANGED <<cluster, entry, addr, steady>>

(* Mutant: only the first agent is looked at. *)
AddrsOfFirst(n) ==
  {Endpoints(i).addr : i \in {i \in FirstOf(Listed) : Endpoints(i).node = n}}

(* The first listed address of a node's agents, if it has any.               *)
AddrsOf(n) == {Endpoints(i).addr : i \in FirstOf({i \in Listed : Endpoints(i).node = n})}

dial ==
  /\ visit = "node"
  /\ \/ Over("error") /\ UNCHANGED addr
     \/ AddrsOf(opened) = {} /\ Over("not found") /\ UNCHANGED addr
     \/ addr' \in AddrsOf(opened) /\ visit' = "call" /\ UNCHANGED result
  /\ UNCHANGED <<cluster, entry, opened, steady>>

(* The connection is made when the call is: the pod may be gone by then.     *)
Call ==
  /\ visit = "call"
  /\ Over(IF spec # <<>> THEN "page" ELSE IF pods[addr].phase = "Running" THEN "page"
          ELSE "unavailable")
  /\ UNCHANGED <<cluster, entry, opened, addr, steady>>

DiscoveryNext == PodsChange \/ index \/ dial \/ Call
DiscoverySpec == DiscoveryInit /\ [][DiscoveryNext]_discoveryVars

-----------------------------------------------------------------------------
(* A node that has an agent throughout is found, by whichever of the pods a  *)
(* rollout has there; the index opens the first such node or an earlier one, *)
(* and says that there is none only then; and the page is of an agent on the *)
(* node that was opened.                                                     *)
FindsTheNode ==
  /\ result = "not found" => opened \notin steady
  /\ result = "no agents" => steady = {}
  /\ entry = "index" /\ opened # 0 => \A n \in steady : opened <= n
  /\ result = "page" =>
       IF spec = <<>> THEN pods[addr].node = opened
       ELSE \E i \in DOMAIN spec : spec[i] = Endpoint(opened, addr)
=============================================================================
