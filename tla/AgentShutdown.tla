---------------------------- MODULE AgentShutdown ----------------------------
(***************************************************************************)
(* The process: an agent alone, or an agent and a UI of which the first to  *)
(* return ends it.  A signal is caught once and stops the gRPC server, which *)
(* is given a grace to let calls finish and then cuts them off; some calls  *)
(* are streams that end only when their client leaves.                      *)
(***************************************************************************)
EXTENDS Naturals, Sequences

CONSTANTS
    Rpcs,        \* calls a client may make; any of them may be a stream
    MaxSignals   \* how many SIGINT or SIGTERM arrive (a bound)

ASSUME ShutdownAssumption == MaxSignals \in Nat

VARIABLES
    role,       \* "agent" or "local"
    proc,       \* "up", or how it ended: "clean", "fatal", "killed"
    server,     \* "new", "listening", "serving", "draining", "stopped"; "unserved" when
                \* it was stopped before it served; "failed" when Run returns an error
    catching,   \* signal.Notify is in force
    caught,     \* a signal is in the goroutine's channel
    catcher,    \* where the goroutine is
    rpc,        \* call |-> "none", "open", "ended", "cut"
    errc,       \* what the halves returned: "clean" or "fatal"
    returned,   \* the halves that have
    signals,
    gaveUp     \* history: srv.Stop was called, the grace being over

processVars == <<role, proc, server, catching, caught, catcher, rpc, errc, returned,
                 signals, gaveUp>>

InFlight == {r \in Rpcs : rpc[r] = "open"}
CutInFlight == rpc' = [r \in Rpcs |-> IF r \in InFlight THEN "cut" ELSE rpc[r]]

ProcessInit ==
    /\ role \in {"agent", "local"} /\ proc = "up" /\ server = "new"
    /\ catching = FALSE /\ caught = FALSE /\ catcher = "none"
    /\ rpc = [r \in Rpcs |-> "none"] /\ errc = <<>> /\ returned = {}
    /\ signals = 0 /\ gaveUp = FALSE

-----------------------------------------------------------------------------
(* agent.Run and its goroutine.                                             *)

\* The address may not be free.
Listen ==
    /\ proc = "up" /\ server = "new"
    /\ \/ server' = "listening" /\ catcher' = "starting"
       \/ server' = "failed" /\ UNCHANGED catcher
    /\ UNCHANGED <<role, proc, catching, caught, rpc, errc, returned, signals, gaveUp>>

\* The goroutine runs already, so a signal may have stopped the server: Serve then
\* returns an error.
Serve ==
    /\ proc = "up" /\ server \in {"listening", "unserved"}
    /\ server' = IF server = "listening" THEN "serving" ELSE "failed"
    /\ UNCHANGED <<role, proc, catching, caught, catcher, rpc, errc, returned, signals, gaveUp>>

\* The listener fails.  The calls in flight go on until the process leaves; a new one
\* on a connection that is open is left out.
ServeFails ==
    /\ proc = "up" /\ server = "serving"
    /\ server' = "failed"
    /\ UNCHANGED <<role, proc, catching, caught, catcher, rpc, errc, returned, signals, gaveUp>>

Notify ==
    /\ proc = "up" /\ catcher = "starting"
    /\ catching' = TRUE /\ catcher' = "waiting"
    /\ UNCHANGED <<role, proc, server, caught, rpc, errc, returned, signals, gaveUp>>

TakeSignal ==
    /\ proc = "up" /\ catcher = "waiting" /\ caught
    /\ caught' = FALSE /\ catcher' = "took"
    /\ UNCHANGED <<role, proc, server, catching, rpc, errc, returned, signals, gaveUp>>

\* signal.Stop, and stop's own goroutine: GracefulStop takes no more calls.
BeginStop ==
    /\ proc = "up" /\ catcher = "took"
    /\ catching' = FALSE /\ catcher' = "stopping"
    /\ server' = CASE server = "serving"   -> "draining"
                   [] server = "listening" -> "unserved"
                   [] OTHER                -> server
    /\ UNCHANGED <<role, proc, caught, rpc, errc, returned, signals, gaveUp>>

\* stop's select: GracefulStop is done, or the grace is over and Stop cuts what is
\* left, which ends GracefulStop as well.
SeeDone ==
    /\ proc = "up" /\ catcher = "stopping" /\ InFlight = {}
    /\ server \in {"stopped", "unserved", "failed"}
    /\ catcher' = "over"
    /\ UNCHANGED <<role, proc, server, catching, caught, rpc, errc, returned, signals, gaveUp>>

\* Mutant: the goroutine waits for GracefulStop and nothing else.
GraceNeverEnds == FALSE /\ UNCHANGED processVars

GraceEnds ==
    /\ proc = "up" /\ catcher = "stopping"
    /\ catcher' = "over" /\ gaveUp' = TRUE
    /\ server' = IF server = "draining" THEN "stopped" ELSE server
    /\ CutInFlight
    /\ UNCHANGED <<role, proc, catching, caught, errc, returned, signals>>

-----------------------------------------------------------------------------
(* The gRPC server and its clients.                                         *)

\* GracefulStop returns once no call is open.
Drained ==
    /\ proc = "up" /\ server = "draining" /\ InFlight = {}
    /\ server' = "stopped"
    /\ UNCHANGED <<role, proc, catching, caught, catcher, rpc, errc, returned, signals, gaveUp>>

Request(r) ==
    /\ proc = "up" /\ server = "serving" /\ rpc[r] = "none"
    /\ rpc' = [rpc EXCEPT ![r] = "open"]
    /\ UNCHANGED <<role, proc, server, catching, caught, catcher, errc, returned, signals, gaveUp>>

\* A call is answered, or its client leaves.
Answered(r) ==
    /\ proc = "up" /\ rpc[r] = "open"
    /\ rpc' = [rpc EXCEPT ![r] = "ended"]
    /\ UNCHANGED <<role, proc, server, catching, caught, catcher, errc, returned, signals, gaveUp>>

-----------------------------------------------------------------------------
(* main, runLocal and ui.Run.                                               *)

HalfReturns(half, how) ==
    /\ half \notin returned
    /\ returned' = returned \union {half} /\ errc' = Append(errc, how)

\* Mutant: Serve's return is not waited for.
AgentReturnsEarly ==
    /\ proc = "up" /\ server \in {"draining", "stopped", "failed"}
    /\ HalfReturns("agent", IF server = "failed" THEN "fatal" ELSE "clean")
    /\ UNCHANGED <<role, proc, server, catching, caught, catcher, rpc, signals, gaveUp>>

\* Serve returns nil once the server has stopped, whichever of the two stopped it.
AgentReturns ==
    /\ proc = "up" /\ server \in {"stopped", "failed"}
    /\ HalfReturns("agent", IF server = "failed" THEN "fatal" ELSE "clean")
    /\ UNCHANGED <<role, proc, server, catching, caught, catcher, rpc, signals, gaveUp>>

\* The UI serves until it fails.
UIReturns ==
    /\ proc = "up" /\ role = "local" /\ HalfReturns("ui", "fatal")
    /\ UNCHANGED <<role, proc, server, catching, caught, catcher, rpc, signals, gaveUp>>

\* main leaves with the first result there is.
Leave ==
    /\ proc = "up" /\ errc # <<>>
    /\ proc' = Head(errc) /\ CutInFlight
    /\ UNCHANGED <<role, server, catching, caught, catcher, errc, returned, signals, gaveUp>>

\* Nobody catches it, and the runtime's default is to die; a second one while the
\* first is in the channel is lost.
Signal ==
    /\ proc = "up" /\ signals < MaxSignals /\ signals' = signals + 1
    /\ IF catching THEN caught' = TRUE /\ UNCHANGED <<proc, rpc>>
                   ELSE proc' = "killed" /\ CutInFlight /\ UNCHANGED caught
    /\ UNCHANGED <<role, server, catching, catcher, errc, returned, gaveUp>>

ProcessNext ==
    \/ Listen \/ Serve \/ ServeFails \/ Notify \/ TakeSignal \/ BeginStop \/ SeeDone \/ GraceEnds \/ Drained
    \/ AgentReturns \/ UIReturns \/ Leave \/ Signal
    \/ \E r \in Rpcs : Request(r) \/ Answered(r)

\* The goroutines run and the grace's timer fires.  No call need be answered, no
\* client leave, and no signal arrive.
ProcessFairness ==
    /\ WF_processVars(Listen) /\ WF_processVars(Serve)
    /\ WF_processVars(Notify) /\ WF_processVars(TakeSignal) /\ WF_processVars(BeginStop)
    /\ WF_processVars(GraceEnds) /\ WF_processVars(Drained)
    /\ WF_processVars(AgentReturns) /\ WF_processVars(Leave)

ProcessSpec == ProcessInit /\ [][ProcessNext]_processVars /\ ProcessFairness

-----------------------------------------------------------------------------
(* Properties.                                                              *)

ProcessTypeOK ==
    /\ role \in {"agent", "local"} /\ proc \in {"up", "clean", "fatal", "killed"}
    /\ server \in {"new", "listening", "serving", "draining", "stopped", "unserved", "failed"}
    /\ catching \in BOOLEAN /\ caught \in BOOLEAN /\ gaveUp \in BOOLEAN
    /\ catcher \in {"none", "starting", "waiting", "took", "stopping", "over"}
    /\ rpc \in [Rpcs -> {"none", "open", "ended", "cut"}]
    /\ errc \in Seq({"clean", "fatal"}) /\ Len(errc) <= 2
    /\ returned \subseteq {"agent", "ui"} /\ signals \in 0..MaxSignals

\* A call is cut short only when its grace is over, or the process was killed or
\* failed: an agent told to stop does not leave while a call is being answered.
CallsGetGrace == \A r \in Rpcs : rpc[r] = "cut" => gaveUp \/ proc \in {"killed", "fatal"}

\* Told to stop, the process ends, though its streams would go on for ever
\* (agent.go:63-66).
SignalEndsProcess == signals > 0 ~> proc # "up"
=============================================================================
