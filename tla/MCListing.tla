------------------------------ MODULE MCListing ------------------------------
(* The agent's listing calls, one at a time: an id walk, the walk of a map's *)
(* keys, or the details of a list of links.  The three share no state, so a  *)
(* behaviour is one of them with the other two over.                         *)
EXTENDS ObjectWalk, KeyWalk, LinkAttach, TLC

ProgTypes == 1 :> "lsm" @@ 2 :> "tracing"
Btfs == 1 :> "vmlinux" @@ 2 :> "module" @@ 3 :> "program" @@ 4 :> "broken"
        @@ 5 :> "closed"
Names == <<"vmlinux", 10>> :> "bpf_lsm_a" @@ <<"module", 10>> :> "mod_f"

Link(type, prog, obj, btf, of, cg) ==
    [type |-> type, prog |-> prog, obj |-> obj, btf |-> btf, of |-> of, cgroup |-> cg,
     at |-> "", told |-> TRUE]
KernelLinks == {Link("tracing", 1, 1, 10, "kernel", 0), Link("tracing", 2, 2, 10, "kernel", 0),
                Link("tracing", 2, 0, 10, "kernel", 0), Link("tracing", 1, 1, 11, "kernel", 0),
                Link("tracing", 2, 4, 10, "kernel", 0), Link("tracing", 2, 5, 10, "kernel", 0),
                Link("tracing", 1, 3, 0, "program", 0), Link("cgroup", 2, 0, 0, "kernel", 5),
                Link("cgroup", 2, 0, 0, "kernel", 6), Link("xdp", 2, 0, 0, "kernel", 0),
                [Link("raw_tracepoint", 2, 0, 0, "kernel", 0) EXCEPT !.at = "sched_switch"],
                [Link("perf_event", 2, 0, 0, "kernel", 0) EXCEPT !.at = "do_exit"],
                [Link("tracing", 2, 2, 10, "kernel", 0) EXCEPT !.told = FALSE]}
\* The last one traces a function of program 1.
AllLinks == KernelLinks \union {Link("tracing", 2, 1, 10, "program", 0)}

VARIABLE mode    \* which of the three it is, if it is one of them

NoWalk == WalkInit /\ call = "links" /\ stayed = {} /\ last = 1
NoKeyWalk == KeyInit /\ hash /\ slots = <<>> /\ for = "slots"
NoLinks == LinkInit /\ links = <<>> /\ kernelHas

ListInit ==
    \/ mode = "ids" /\ WalkInit /\ NoKeyWalk /\ NoLinks
    \/ mode = "keys" /\ NoWalk /\ KeyInit /\ NoLinks
    \/ mode = "links" /\ NoWalk /\ NoKeyWalk /\ LinkInit
ListNext ==
    /\ UNCHANGED mode
    /\ \/ mode = "ids" /\ WalkNext /\ UNCHANGED <<keyVars, linkVars>>
       \/ mode = "keys" /\ KeyNext /\ UNCHANGED <<walkVars, linkVars>>
       \/ mode = "links" /\ LinkNext /\ UNCHANGED <<walkVars, keyVars>>
listVars == <<mode, walkVars, keyVars, linkVars>>
ListSpec == ListInit /\ [][ListNext]_listVars
=============================================================================
