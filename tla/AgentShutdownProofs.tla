------------------------- MODULE AgentShutdownProofs -------------------------
(***************************************************************************)
(* Proofs about AgentShutdown, for any calls and any number of signals.    *)
(***************************************************************************)
EXTENDS AgentShutdown, SequenceTheorems, TLAPS

(* Each half is in errc once it has returned.                               *)
Halves == (IF "agent" \in returned THEN 1 ELSE 0) + (IF "ui" \in returned THEN 1 ELSE 0)

TypeInv == ProcessTypeOK /\ Len(errc) = Halves

LEMMA ReturnsKeepType ==
  ASSUME TypeInv, NEW half \in {"agent", "ui"}, NEW how \in {"clean", "fatal"},
         HalfReturns(half, how)
  PROVE  /\ errc' \in Seq({"clean", "fatal"}) /\ Len(errc') = Halves' /\ Len(errc') <= 2
         /\ returned' \subseteq {"agent", "ui"}
         /\ \A i \in 1..Len(errc) : errc'[i] = errc[i]
         /\ errc'[Len(errc')] = how /\ Len(errc') = Len(errc) + 1
<1>1. errc \in Seq({"clean", "fatal"})
  BY DEF TypeInv, ProcessTypeOK
<1>2. /\ errc' \in Seq({"clean", "fatal"}) /\ Len(errc') = Len(errc) + 1
      /\ \A i \in 1..Len(errc) : errc'[i] = errc[i]
      /\ errc'[Len(errc) + 1] = how
  BY <1>1, AppendProperties DEF HalfReturns
<1>3. Halves' = Halves + 1 /\ Halves' \in 0..2 /\ returned' \subseteq {"agent", "ui"}
  BY DEF HalfReturns, Halves, TypeInv, ProcessTypeOK
<1> QED
  BY <1>1, <1>2, <1>3, LenProperties DEF TypeInv

LEMMA CutKeepsType ==
  ASSUME ProcessTypeOK, CutInFlight
  PROVE  rpc' \in [Rpcs -> {"none", "open", "ended", "cut"}]
  BY DEF ProcessTypeOK, CutInFlight, InFlight

LEMMA TypeStep ==
  ASSUME TypeInv, [ProcessNext]_processVars
  PROVE  TypeInv'
<1> USE DEF TypeInv, ProcessTypeOK, Halves
<1>1. CASE Listen
  BY <1>1 DEF Listen
<1>s. CASE Serve \/ ServeFails
  BY <1>s DEF Serve, ServeFails
<1>2. CASE Notify
  BY <1>2 DEF Notify
<1>3. CASE TakeSignal
  BY <1>3 DEF TakeSignal
<1>4. CASE BeginStop
  BY <1>4 DEF BeginStop
<1>5. CASE SeeDone
  BY <1>5 DEF SeeDone
<1>6. CASE GraceEnds
  BY <1>6, CutKeepsType DEF GraceEnds
<1>7. CASE Drained
  BY <1>7 DEF Drained
<1>8. CASE AgentReturns
  BY <1>8, ReturnsKeepType DEF AgentReturns
<1>9. CASE UIReturns
  BY <1>9, ReturnsKeepType DEF UIReturns
<1>10. CASE Leave
  <2>1. Head(errc) \in {"clean", "fatal"}
    BY <1>10, HeadTailProperties DEF Leave
  <2> QED
    BY <1>10, <2>1, CutKeepsType DEF Leave
<1>11. CASE Signal
  <2>1. signals' \in 0..MaxSignals
    BY <1>11, ShutdownAssumption DEF Signal
  <2>2. rpc' \in [Rpcs -> {"none", "open", "ended", "cut"}]
    BY <1>11, CutKeepsType DEF Signal
  <2>3. proc' \in {"up", "killed"} /\ caught' \in BOOLEAN
    BY <1>11 DEF Signal
  <2> QED
    BY <1>11, <2>1, <2>2, <2>3 DEF Signal
<1>12. ASSUME NEW r \in Rpcs, Request(r) \/ Answered(r)
       PROVE  TypeInv'
  BY <1>12 DEF Request, Answered
<1>13. CASE UNCHANGED processVars
  BY <1>13 DEF processVars
<1> QED
  BY <1>1, <1>s, <1>2, <1>3, <1>4, <1>5, <1>6, <1>7, <1>8, <1>9, <1>10, <1>11, <1>12, <1>13
     DEF ProcessNext

LEMMA InitTyped ==
  ASSUME ProcessInit
  PROVE  TypeInv
<1>1. errc \in Seq({"clean", "fatal"}) /\ Len(errc) = 0
  BY EmptySeq DEF ProcessInit
<1>2. Halves = 0
  BY DEF ProcessInit, Halves
<1>3. rpc \in [Rpcs -> {"none", "open", "ended", "cut"}]
  BY DEF ProcessInit
<1>4. /\ role \in {"agent", "local"} /\ proc = "up" /\ server = "new" /\ catcher = "none"
      /\ catching = FALSE /\ caught = FALSE /\ gaveUp = FALSE
      /\ returned = {} /\ signals \in 0..MaxSignals
  BY ShutdownAssumption DEF ProcessInit
<1>5. /\ proc \in {"up", "clean", "fatal", "killed"}
      /\ server \in {"new", "listening", "serving", "draining", "stopped", "unserved", "failed"}
      /\ catcher \in {"none", "starting", "waiting", "took", "stopping", "over"}
      /\ returned \subseteq {"agent", "ui"}
  BY <1>4
<1>6. catching \in BOOLEAN /\ caught \in BOOLEAN /\ gaveUp \in BOOLEAN
  BY <1>4
<1>7. Len(errc) <= 2
  BY <1>1
<1>8. ProcessTypeOK
  BY <1>1, <1>3, <1>4, <1>5, <1>6, <1>7 DEF ProcessTypeOK
<1> QED
  BY <1>1, <1>2, <1>8 DEF TypeInv

(* Every variable of the process is of its type, in any run of it           *)
(* (agent.go, main.go): errc has room for both halves.                      *)
THEOREM ProcessTypeCorrect == ProcessSpec => []ProcessTypeOK
<1>1. ProcessInit => TypeInv
  BY InitTyped
<1>2. TypeInv /\ [ProcessNext]_processVars => TypeInv'
  BY TypeStep
<1>3. TypeInv => ProcessTypeOK
  BY DEF TypeInv
<1> QED
  BY <1>1, <1>2, <1>3, PTL DEF ProcessSpec

-----------------------------------------------------------------------------
(* GracefulStop and Stop leave nothing in flight that has not had its grace, *)
(* and a half that returned cleanly is the agent's, whose server stopped.    *)
GraceInv ==
  /\ TypeInv
  /\ server = "stopped" => gaveUp \/ InFlight = {}
  /\ \A i \in 1..Len(errc) : errc[i] = "clean" => server = "stopped"
  /\ CallsGetGrace

LEMMA GraceStep ==
  ASSUME GraceInv, [ProcessNext]_processVars
  PROVE  GraceInv'
<1>t. TypeInv'
  BY TypeStep DEF GraceInv
<1> USE <1>t DEF GraceInv, CallsGetGrace, InFlight
<1>1. CASE Listen
  BY <1>1 DEF Listen
<1>s. CASE Serve \/ ServeFails
  BY <1>s DEF Serve, ServeFails
<1>2. CASE Notify
  BY <1>2 DEF Notify
<1>3. CASE TakeSignal
  BY <1>3 DEF TakeSignal
<1>4. CASE BeginStop
  BY <1>4 DEF BeginStop
<1>5. CASE SeeDone
  BY <1>5 DEF SeeDone
<1>6. CASE GraceEnds
  BY <1>6 DEF GraceEnds, CutInFlight
<1>7. CASE Drained
  BY <1>7 DEF Drained
<1>8. CASE AgentReturns
  <2> DEFINE how == IF server = "failed" THEN "fatal" ELSE "clean"
  <2>1. HalfReturns("agent", how)
    BY <1>8 DEF AgentReturns
  <2>2. /\ \A i \in 1..Len(errc) : errc'[i] = errc[i]
        /\ errc'[Len(errc')] = how /\ Len(errc') = Len(errc) + 1
    BY <2>1, ReturnsKeepType
  <2>3. how = "clean" => server = "stopped"
    BY <1>8 DEF AgentReturns
  <2>4. Len(errc) \in Nat
    BY LenProperties DEF TypeInv, ProcessTypeOK
  <2> QED
    BY <1>8, <2>2, <2>3, <2>4 DEF AgentReturns
<1>9. CASE UIReturns
  <2>1. /\ \A i \in 1..Len(errc) : errc'[i] = errc[i]
        /\ errc'[Len(errc')] = "fatal" /\ Len(errc') = Len(errc) + 1
    BY <1>9, ReturnsKeepType DEF UIReturns
  <2>2. Len(errc) \in Nat
    BY LenProperties DEF TypeInv, ProcessTypeOK
  <2> QED
    BY <1>9, <2>1, <2>2 DEF UIReturns
<1>10. CASE Leave
  <2>1. Head(errc) = errc[1] /\ 1 \in 1..Len(errc) /\ errc[1] \in {"clean", "fatal"}
    BY <1>10, EmptySeq, HeadTailProperties, ElementOfSeq DEF Leave, TypeInv, ProcessTypeOK
  <2>2. CASE errc[1] = "fatal"
    BY <1>10, <2>1, <2>2 DEF Leave, CutInFlight
  <2>3. CASE errc[1] = "clean"
    <3>1. gaveUp \/ InFlight = {}
      BY <2>1, <2>3
    <3> QED
      BY <1>10, <3>1 DEF Leave, CutInFlight, TypeInv, ProcessTypeOK
  <2> QED
    BY <2>1, <2>2, <2>3
<1>11. CASE Signal
  BY <1>11 DEF Signal, CutInFlight
<1>12. ASSUME NEW r \in Rpcs, Request(r) \/ Answered(r)
       PROVE  GraceInv'
  BY <1>12 DEF Request, Answered, TypeInv, ProcessTypeOK
<1>13. CASE UNCHANGED processVars
  BY <1>13 DEF processVars
<1> QED
  BY <1>1, <1>s, <1>2, <1>3, <1>4, <1>5, <1>6, <1>7, <1>8, <1>9, <1>10, <1>11, <1>12, <1>13
     DEF ProcessNext

(* An agent told to stop cuts no call short before its grace is over        *)
(* (agent.go:51-82), however calls come and end, signals arrive and the two  *)
(* halves of the local role return: a call is cut only then, or by a kill or *)
(* a failure.                                                               *)
THEOREM CallsAlwaysGetGrace == ProcessSpec => []CallsGetGrace
<1>1. ASSUME ProcessInit
      PROVE  GraceInv
  <2>1. TypeInv
    BY <1>1, InitTyped
  <2>2. Len(errc) = 0
    BY <1>1, EmptySeq DEF ProcessInit
  <2> QED
    BY <1>1, <2>1, <2>2 DEF ProcessInit, GraceInv, CallsGetGrace, InFlight
<1>2. GraceInv /\ [ProcessNext]_processVars => GraceInv'
  BY GraceStep
<1>3. GraceInv => CallsGetGrace
  BY DEF GraceInv
<1> QED
  BY <1>1, <1>2, <1>3, PTL DEF ProcessSpec
==============================================================================
