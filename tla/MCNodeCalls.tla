----------------------------- MODULE MCNodeCalls -----------------------------
(* The agent's calls about one thing, one kind at a time: a program's dump,  *)
(* an inode lookup, the reads of cgroup paths and sysctls, or a cgroup tree. *)
(* They share no state, so a behaviour is one of them with the others over.  *)
EXTENDS MCProgDump, InodeSearch, NodeReads, CgroupTree, TLC

\* A root with two directories; "b" is another filesystem, mounted at 4.
Plain == <<>> :> "root" @@ <<2>> :> "a" @@ <<4>> :> "b"
\* The same, with "a" bind-mounted at 1 too.
Bound == Plain @@ <<1>> :> "a"
Inos == "root" :> 2 @@ "a" :> 3 @@ "b" :> 2 @@ "f" :> 5 @@ "g" :> 5
Devs == "root" :> 1 @@ "a" :> 1 @@ "b" :> 2 @@ "f" :> 1 @@ "g" :> 2
FilePlaces == {<<"a", 1>>, <<"root", 3>>, <<"b", 1>>}
MountTables == << <<>>, << <<1, <<>>>>, <<2, <<4>>>>, <<1, <<2>>>> >> >>

Lookfor(ino, dev, under) == [ino |-> ino, dev |-> dev, walk |-> TRUE, root |-> under]
Lookups == {Lookfor(5, 0, {}), Lookfor(5, 2, {}), Lookfor(3, 1, {<<>>}), Lookfor(5, 3, {})}

PodCgroups == {<<>>, <<"kubepods", "a">>, <<"kubepods", "b">>}
Deployed(cgns, netns, sees, enter, ofInit) ==
    [ns |-> cgns, netns |-> netns, sees |-> sees, enter |-> enter,
     mounts |-> [init |-> ofInit, self |-> IF sees \/ cgns # <<>> THEN {cgns} ELSE {}]]
AgentsPod == <<"kubepods", "a">>
\* On the node itself; in a pod that enters init's namespaces, or fails to; and
\* where init's are not to be seen.
Deployments == {Deployed(<<>>, FALSE, TRUE, "ok", {<<>>}),
                Deployed(AgentsPod, TRUE, TRUE, "ok", {<<>>}),
                Deployed(AgentsPod, TRUE, TRUE, "setns fails", {<<>>}),
                Deployed(AgentsPod, TRUE, TRUE, "open fails", {<<>>}),
                Deployed(AgentsPod, TRUE, FALSE, "open fails", {<<>>}),
                Deployed(<<>>, FALSE, FALSE, "open fails", {})}
CallsAtOnce == {1 :> "resources" @@ 2 :> "node", 1 :> "process" @@ 2 :> "sysctls"}

CgroupsAtFirst == {<<>>, <<1>>, <<1, 1>>, <<3>>}
TreeCgroups == CgroupsAtFirst \union {<<2>>}
MountedInside == {<<3>>}
TreeRoots == {{}, {<<>>}, {<<1>>}}
AttachTypes == <<"bind", "lsm">>

VARIABLE mode    \* which of the four it is

NoDump == Init /\ len = (CHOOSE n \in DOMAIN Code : \A m \in DOMAIN Code : n <= m) /\ visible /\ based
NoSearch ==
    /\ SearchInit /\ query = CHOOSE q \in Queries : TRUE
    /\ \A pl \in Places : at[pl] = NoFile
NoReads ==
    /\ ReadsInit /\ setup = CHOOSE s \in Setups : s.mounts.init = {} /\ s.mounts.self = {}
    /\ in = [p \in Pids |-> AgentsPod]
    /\ kind = CHOOSE c \in CallSets : TRUE
NoTree ==
    /\ TreeInit /\ \A k \in Keys : attached[k] = {} /\ aflags[k] = NoFlags
    /\ ~old /\ ~effective /\ root = {}

CallsInit ==
  \/ NoSearch /\ NoReads /\ NoTree /\ mode = "dump" /\ Init
  \/ NoDump /\ NoReads /\ NoTree /\ mode = "inode" /\ SearchInit
  \/ NoDump /\ NoSearch /\ NoTree /\ mode = "reads" /\ ReadsInit
  \/ NoDump /\ NoSearch /\ NoReads /\ mode = "tree" /\ TreeInit
CallsNext ==
    /\ UNCHANGED mode
    /\ \/ mode = "dump" /\ Next /\ UNCHANGED <<searchVars, readsVars, treeVars>>
       \/ mode = "inode" /\ SearchNext /\ UNCHANGED <<vars, readsVars, treeVars>>
       \/ mode = "reads" /\ ReadsNext /\ UNCHANGED <<vars, searchVars, treeVars>>
       \/ mode = "tree" /\ TreeNext /\ UNCHANGED <<vars, searchVars, readsVars>>
CallsSpec == CallsInit /\ [][CallsNext]_<<mode, vars, searchVars, readsVars, treeVars>>
=============================================================================
