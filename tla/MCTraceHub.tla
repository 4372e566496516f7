----------------------------- MODULE MCTraceHub -----------------------------
(* TLC's instance of what the agent's process keeps running: its hub, or its *)
(* shutdown.  They share nothing but streams that do not end by themselves,  *)
(* so a behaviour is one of them with the other not begun or over.           *)
EXTENDS TraceHub, AgentShutdown

VARIABLE mode    \* which of the two it is

Over ==
  /\ role = "agent" /\ proc = "clean" /\ server = "stopped"
  /\ catching = FALSE /\ caught = FALSE /\ catcher = "over"
  /\ rpc = [r \in Rpcs |-> "none"] /\ errc = <<>> /\ returned = {"agent"}
  /\ signals = 0 /\ gaveUp = FALSE

AgentInit ==
  /\ Init
  /\ \/ mode = "hub" /\ Over
     \/ mode = "process" /\ ProcessInit
AgentNext ==
  /\ UNCHANGED mode
  /\ \/ mode = "hub" /\ Next /\ UNCHANGED processVars
     \/ mode = "process" /\ ProcessNext /\ UNCHANGED vars
(* Neither's fairness asks anything of it while the other runs. *)
AgentSpec ==
  AgentInit /\ [][AgentNext]_<<mode, vars, processVars>> /\ Fairness /\ ProcessFairness
=============================================================================
