-------------------------- MODULE TraceStreamProofs --------------------------
(***************************************************************************)
(* Proofs about TraceStream, for any number of requests and lines and any  *)
(* room in the two streams: what is on its way from the hub to the screen  *)
(* is one unbroken sequence of events, of which a broken connection takes  *)
(* the end away, so "gone" comes last, and the page implements LineFeed.   *)
(***************************************************************************)
EXTENDS TraceStream, SequenceTheorems, TLAPS

AnyEvent == Events \union {NoEvent}

(* Event e is the one after p of the lines off: the line at its place, told *)
(* of what lies between.                                                    *)
Follows(off, p, e) ==
  /\ e.at \in 1..Len(off) /\ p.at < e.at
  /\ e.line = off[e.at]
  /\ e.dropped = e.at - p.at - 1

(* What comes before the i-th of the events q that follow p: after the last *)
(* of them, it is where they end.                                           *)
Before(p, q, i) == IF i = 1 THEN p ELSE q[i - 1]
EndOf(p, q) == Before(p, q, Len(q) + 1)

(* The first n of q follow p, and one another.                              *)
Chain(off, p, q, n) == \A i \in 1..n : Follows(off, Before(p, q, i), q[i])

-----------------------------------------------------------------------------
(* Types, with what each goroutine holds.                                  *)
Payloads ==
  \A k \in Conns : /\ agent[k].pc = "send" => agent[k].ev \in Events
                   /\ recv[k].pc = "send" => recv[k].ev \in Events
                   /\ loop[k].pc = "write" => loop[k].ev \in Events

TypeInv == TypeOK /\ Payloads

-----------------------------------------------------------------------------
(* The last event that has got as far as the connection to the browser, the *)
(* SSE loop, the Recv goroutine, and the gRPC stream.                       *)
AtPage(k) == EndOf(shown[k], wire[k])
AtLoop(k) == IF loop[k].pc = "write" THEN loop[k].ev ELSE AtPage(k)
AtRecv(k) == IF recv[k].pc = "send" THEN recv[k].ev ELSE AtLoop(k)
AtNet(k)  == EndOf(AtRecv(k), net[k])

(* Who has begun, who is through, and what cannot be otherwise then.        *)
Stages(k) ==
  /\ k > made => http[k] = "none"
  /\ es = k => http[k] \notin {"none", "left"}
  /\ http[k] = "none" => loop[k].pc = "none"
  /\ http[k] = "open" => loop[k].pc \notin {"none", "returned"}
  /\ http[k] \in {"none", "refused", "failed"} => wire[k] = <<>>
  /\ loop[k].pc \in {"none", "opening"} =>
       /\ recv[k].pc = "none" /\ agent[k].pc = "none"
       /\ net[k] = <<>> /\ wire[k] = <<>>
       /\ shown[k] = NoEvent /\ got[k] = NoEvent /\ sent[k] = NoEvent /\ taken[k] = NoEvent
  /\ down[k] => agent[k].pc # "none"
  /\ ctx[k] => loop[k].pc = "returned" \/ Broken(k)
  /\ cut[k] => ctx[k] \/ down[k]
  /\ status[k] => agent[k].pc = "returned" \/ down[k]
  /\ errs[k] \/ loop[k].pc = "gone" => recv[k].pc = "done"

(* While the response is open each event follows the one before it, from    *)
(* the screen back to the gRPC stream, and to the agent while the           *)
(* connection to it lasts: only that connection's end takes events away,    *)
(* and it takes the last ones.                                              *)
Flows(k) ==
  http[k] = "open" =>
    /\ Chain(offered[k], shown[k], wire[k], Len(wire[k]))
    /\ loop[k].pc = "write" => Follows(offered[k], AtPage(k), loop[k].ev)
    /\ recv[k].pc = "send" => Follows(offered[k], AtLoop(k), recv[k].ev)
    /\ Chain(offered[k], AtRecv(k), net[k], Len(net[k]))
    /\ got[k] = AtRecv(k)
    /\ ~down[k] => sent[k] = AtNet(k)
    /\ agent[k].pc = "send" => /\ taken[k] = agent[k].ev
                               /\ Follows(offered[k], sent[k], taken[k])
    /\ agent[k].pc \in {"none", "subscribing", "select"} => taken[k] = sent[k]
    /\ recv[k].pc = "done" => net[k] = <<>> /\ (agent[k].pc = "returned" \/ down[k])

(* Nothing can change what was received, nor what was sent on a connection  *)
(* that never broke.                                                        *)
Settled(k) ==
  /\ recv[k].pc = "done"
  /\ agent[k].pc = "returned" \/ down[k]
  /\ got[k] = sent[k] \/ down[k]

(* A response that has ended has "gone" on its way, behind all that was      *)
(* received.                                                                *)
Ends(k) ==
  http[k] = "ended" =>
    /\ Settled(k)
    /\ wire[k] # <<>> /\ wire[k][Len(wire[k])] = Gone
    /\ Chain(offered[k], shown[k], wire[k], Len(wire[k]) - 1)
    /\ Before(shown[k], wire[k], Len(wire[k])) = got[k]

(* And a page that was told has left, and shown it.                         *)
Told(k) ==
  told[k] => http[k] = "left" /\ Settled(k) /\ shown[k] = got[k]

Link(k) == Stages(k) /\ Flows(k) /\ Ends(k) /\ Told(k)

StreamInv == TypeInv /\ \A k \in Conns : Link(k)
-----------------------------------------------------------------------------
(* The variables keep their types.                                         *)

LEMMA InitTyped ==
  ASSUME Init
  PROVE  TypeInv
<1> USE StreamAssumption
<1>1. NoEvent \in AnyEvent
  BY DEF AnyEvent
<1>2. \A S : <<>> \in Seq(S)
  BY EmptySeq
<1>3. /\ stream \in [Conns -> {"out", "in", "over"}]
      /\ offered \in [Conns -> Seq(Lines)]
      /\ taken \in [Conns -> AnyEvent]
  BY <1>1, <1>2 DEF Init, Feed!Init, Feed!NoEvent, NoEvent
<1>4. /\ written \in 0..MaxLines /\ es \in 0..made /\ made \in 0..MaxConns
      /\ cut \in [Conns -> BOOLEAN] /\ status \in [Conns -> BOOLEAN]
      /\ errs \in [Conns -> BOOLEAN] /\ ctx \in [Conns -> BOOLEAN] /\ down \in [Conns -> BOOLEAN]
      /\ told \in [Conns -> BOOLEAN]
      /\ http \in [Conns -> {"none", "open", "ended", "refused", "left", "failed"}]
  BY DEF Init
<1>5. /\ sent \in [Conns -> AnyEvent] /\ shown \in [Conns -> AnyEvent] /\ got \in [Conns -> AnyEvent]
      /\ net \in [Conns -> Seq(Events)] /\ wire \in [Conns -> Seq(Events \union {Gone})]
  BY <1>1, <1>2 DEF Init
<1>6. /\ agent \in [Conns -> Held({"none", "subscribing", "select", "send", "returned"})]
      /\ recv \in [Conns -> Held({"none", "recv", "send", "done"})]
      /\ loop \in [Conns -> Held({"none", "opening", "select", "write", "gone", "returned"})]
  BY DEF Init, At, Held
<1>7. Payloads
  BY DEF Init, At, Payloads
<1> QED
  BY <1>3, <1>4, <1>5, <1>6, <1>7 DEF TypeInv, TypeOK, AnyEvent

(* An event taken from the hub is one, of the lines offered.                *)
LEMMA TakenTyped ==
  ASSUME TypeInv, NEW k \in Conns, Feed!Take(k)
  PROVE  /\ taken' = [taken EXCEPT ![k] = taken'[k]]
         /\ taken'[k] \in Events
         /\ Follows(offered[k], taken[k], taken'[k])
         /\ UNCHANGED <<stream, offered>>
<1>1. PICK i \in (taken[k].at + 1) .. Len(offered[k]) :
        taken' = [taken EXCEPT ![k] = [line |-> offered[k][i],
                                       dropped |-> i - taken[k].at - 1,
                                       at |-> i]]
  BY DEF Feed!Take
<1>2. taken[k].at \in Nat /\ k \in DOMAIN taken
  BY DEF TypeInv, TypeOK, Events, NoEvent
<1>3. offered[k] \in Seq(Lines) /\ Len(offered[k]) \in Nat
  BY LenProperties DEF TypeInv, TypeOK
<1>4. i \in 1..Len(offered[k]) /\ i - taken[k].at - 1 \in Nat /\ taken[k].at < i
  BY <1>2, <1>3
<1>5. offered[k][i] \in Lines
  BY <1>3, <1>4, ElementOfSeq
<1> DEFINE e == [line |-> offered[k][i], dropped |-> i - taken[k].at - 1, at |-> i]
<1>6. e \in Events /\ e.at = i /\ e.line = offered[k][i] /\ e.dropped = i - taken[k].at - 1
  BY <1>4, <1>5 DEF Events
<1>7. taken' = [taken EXCEPT ![k] = e] /\ taken'[k] = e
  BY <1>1, <1>2
<1> HIDE DEF e
<1> QED
  BY <1>4, <1>6, <1>7 DEF Follows, Feed!Take

(* What a closed subscription, or the end of a reader, does to the hub.     *)
LEMMA EndTyped ==
  ASSUME TypeInv, NEW gone, Feed!End(gone)
  PROVE  stream' \in [Conns -> {"out", "in", "over"}] /\ UNCHANGED <<offered, taken>>
BY DEF Feed!End, TypeInv, TypeOK

LEMMA UnsubscribeTyped ==
  ASSUME TypeInv, NEW k \in Conns, Unsubscribe(k)
  PROVE  stream' \in [Conns -> {"out", "in", "over"}] /\ UNCHANGED <<offered, taken>>
BY EndTyped DEF Unsubscribe, feed, TypeInv, TypeOK

LEMMA ReturnTyped ==
  ASSUME TypeInv, NEW k \in Conns, NEW answer \in {"refused", "ended"}, Return(k, answer)
  PROVE  /\ loop' \in [Conns -> Held({"none", "opening", "select", "write", "gone", "returned"})]
         /\ \A j \in Conns : loop'[j].pc = "write" => loop'[j].ev \in Events
         /\ ctx' \in [Conns -> BOOLEAN]
         /\ http' \in [Conns -> {"none", "open", "ended", "refused", "left", "failed"}]
<1>1. At("returned") \in Held({"none", "opening", "select", "write", "gone", "returned"})
  BY DEF At, Held
<1> QED
  BY <1>1 DEF Return, TypeInv, TypeOK, Payloads, At

LEMMA AgentReturnsTyped ==
  ASSUME TypeInv, NEW k \in Conns, AgentReturns(k)
  PROVE  /\ agent' \in [Conns -> Held({"none", "subscribing", "select", "send", "returned"})]
         /\ \A j \in Conns : agent'[j].pc = "send" => agent'[j].ev \in Events
         /\ status' \in [Conns -> BOOLEAN]
<1>1. At("returned") \in Held({"none", "subscribing", "select", "send", "returned"})
  BY DEF At, Held
<1> QED
  BY <1>1 DEF AgentReturns, TypeInv, TypeOK, Payloads, At

(* A connection that breaks leaves a first part of what was on its way, and *)
(* the others theirs.                                                       *)
LEMMA BreakTyped ==
  ASSUME TypeInv, NEW gone, Break(gone)
  PROVE  /\ down' \in [Conns -> BOOLEAN] /\ status' \in [Conns -> BOOLEAN]
         /\ net' \in [Conns -> Seq(Events)]
         /\ \A k \in Conns :
              /\ Len(net'[k]) \in 0..Len(net[k])
              /\ \A i \in 1..Len(net'[k]) : net'[k][i] = net[k][i]
              /\ k \in gone => down'[k] /\ status'[k]
              /\ k \notin gone =>
                   net'[k] = net[k] /\ down'[k] = down[k] /\ status'[k] = status[k]
<1>1. /\ down' = [k \in Conns |-> down[k] \/ k \in gone]
      /\ status' = [k \in Conns |-> status[k] \/ k \in gone]
  BY DEF Break
<1>2. PICK part \in [Conns -> 0..Window] :
        /\ \A k \in Conns : part[k] <= Len(net[k]) /\ (k \notin gone => part[k] = Len(net[k]))
        /\ net' = [k \in Conns |-> SubSeq(net[k], 1, part[k])]
  BY DEF Break
<1>3. ASSUME NEW k \in Conns
      PROVE  /\ net'[k] \in Seq(Events)
             /\ Len(net'[k]) \in 0..Len(net[k])
             /\ \A i \in 1..Len(net'[k]) : net'[k][i] = net[k][i]
             /\ k \notin gone => net'[k] = net[k]
  <2>1. net[k] \in Seq(Events) /\ Len(net[k]) \in Nat
    BY LenProperties DEF TypeInv, TypeOK
  <2>2. part[k] \in Nat /\ part[k] \in 0..Len(net[k]) /\ net'[k] = SubSeq(net[k], 1, part[k])
    BY <1>2, <2>1, StreamAssumption
  <2>3. \A i \in 1..part[k] : net[k][i] \in Events
    BY <2>1, <2>2, ElementOfSeq
  <2>4. /\ net'[k] \in Seq(Events) /\ Len(net'[k]) = part[k]
        /\ \A i \in 1..part[k] : net'[k][i] = net[k][i]
    <3>1. SubSeq(net[k], 1, part[k]) = [i \in 1..part[k] |-> net[k][i]]
      BY <2>2
    <3> QED
      BY <2>2, <2>3, <3>1, IsASeq, SeqDef
  <2>5. k \notin gone => net'[k] = net[k]
    BY <1>2, <2>1, <2>2, <2>4, SeqEqual
  <2> QED
    BY <2>2, <2>4, <2>5
<1>4. net' \in [Conns -> Seq(Events)]
  BY <1>2, <1>3
<1>5. \A k \in Conns : down[k] \in BOOLEAN /\ status[k] \in BOOLEAN
  BY DEF TypeInv, TypeOK
<1>6. ASSUME NEW k \in Conns
      PROVE  /\ k \in gone => down'[k] /\ status'[k]
             /\ k \notin gone => down'[k] = down[k] /\ status'[k] = status[k]
  BY <1>1, <1>5
<1>7. down' \in [Conns -> BOOLEAN] /\ status' \in [Conns -> BOOLEAN]
  BY <1>1
<1> QED
  BY <1>3, <1>4, <1>6, <1>7

LEMMA RequestTyped ==
  ASSUME TypeInv, Request
  PROVE  TypeInv'
<1>1. At("opening") \in Held({"none", "opening", "select", "write", "gone", "returned"})
  BY DEF At, Held
<1>2. made' \in 0..MaxConns /\ es' \in 0..made'
  BY StreamAssumption DEF Request, TypeInv, TypeOK
<1> QED
  BY <1>1, <1>2 DEF Request, TypeInv, TypeOK, Payloads, At, feed, rpc

LEMMA TypeStep ==
  ASSUME TypeInv, [Next]_vars
  PROVE  TypeInv'
<1> USE DEF TypeInv, TypeOK, Payloads, feed, rpc, bridge, page
<1>1. CASE HandOut
  <2>1. written + 1 \in Lines /\ written' \in 0..MaxLines
    BY <1>1, StreamAssumption DEF HandOut, Lines
  <2>2. offered' \in [Conns -> Seq(Lines)]
    BY <1>1, <2>1, AppendProperties DEF HandOut, Feed!Offer
  <2> QED
    BY <1>1, <2>1, <2>2 DEF HandOut, Feed!Offer
<1>2. CASE ReaderStops
  BY <1>2, EndTyped DEF ReaderStops
<1>3. CASE AgentDies
  <2>1. stream' \in [Conns -> {"out", "in", "over"}] /\ UNCHANGED <<offered, taken>>
    BY <1>3, EndTyped DEF AgentDies
  <2>2. At("returned") \in Held({"none", "subscribing", "select", "send", "returned"})
    BY DEF At, Held
  <2>3. /\ down' \in [Conns -> BOOLEAN] /\ status' \in [Conns -> BOOLEAN]
        /\ net' \in [Conns -> Seq(Events)]
    BY <1>3, BreakTyped DEF AgentDies
  <2> QED
    BY <1>3, <2>1, <2>2, <2>3 DEF AgentDies, At
<1>4. CASE Connect \/ Reconnect
  BY <1>4, RequestTyped DEF Connect, Reconnect
<1>5. CASE Pause
  <2>1. es' \in 0..made
    BY <1>5, StreamAssumption DEF Pause, Leave
  <2> QED
    BY <1>5, <2>1 DEF Pause, Leave
<1>6. CASE ShowEvent
  <2>1. es \in Conns
    BY <1>6, StreamAssumption DEF ShowEvent, Conns
  <2>2. Head(wire[es]) \in Events /\ Tail(wire[es]) \in Seq(Events \union {Gone})
    BY <1>6, <2>1, HeadTailProperties DEF ShowEvent
  <2> QED
    BY <1>6, <2>1, <2>2 DEF ShowEvent
<1>7. CASE ShowGone
  <2>1. es \in Conns
    BY <1>7, StreamAssumption DEF ShowGone, Conns
  <2>2. Tail(wire[es]) \in Seq(Events \union {Gone})
    BY <1>7, <2>1, HeadTailProperties DEF ShowGone
  <2> QED
    <3>1. es' \in 0..made
      BY <1>7, StreamAssumption DEF ShowGone, Leave
    <3> QED
      BY <1>7, <2>1, <2>2, <3>1 DEF ShowGone, Leave
<1>8. ASSUME NEW k \in Conns, ConnectionFails(k)
      PROVE  TypeInv'
  BY <1>8, EmptySeq DEF ConnectionFails
<1>9. ASSUME NEW k \in Conns, NoticeGone(k)
      PROVE  TypeInv'
  BY <1>9 DEF NoticeGone
<1>10. ASSUME NEW k \in Conns, CutArrives(k)
       PROVE  TypeInv'
  BY <1>10 DEF CutArrives
<1>11. ASSUME NEW k \in Conns, Recv(k)
       PROVE  TypeInv'
  <2>1. Head(net[k]) \in Events /\ Tail(net[k]) \in Seq(Events)
    BY <1>11, HeadTailProperties DEF Recv
  <2>2. [pc |-> "send", ev |-> Head(net[k])] \in Held({"none", "recv", "send", "done"})
    BY <2>1 DEF Held
  <2> QED
    BY <1>11, <2>1, <2>2 DEF Recv
<1>12. ASSUME NEW k \in Conns, RecvFails(k)
       PROVE  TypeInv'
  <2>1. At("done") \in Held({"none", "recv", "send", "done"})
    BY DEF At, Held
  <2> QED
    BY <1>12, <2>1 DEF RecvFails, At
<1>13. ASSUME NEW k \in Conns, HandOver(k)
       PROVE  TypeInv'
  <2>1. At("recv") \in Held({"none", "recv", "send", "done"})
    BY DEF At, Held
  <2>2. [pc |-> "write", ev |-> recv[k].ev]
          \in Held({"none", "opening", "select", "write", "gone", "returned"})
    BY <1>13 DEF HandOver, Held
  <2> QED
    BY <1>13, <2>1, <2>2 DEF HandOver, At
<1>14. ASSUME NEW k \in Conns, RecvQuits(k)
       PROVE  TypeInv'
  <2>1. At("done") \in Held({"none", "recv", "send", "done"})
    BY DEF At, Held
  <2> QED
    BY <1>14, <2>1 DEF RecvQuits, At
<1>15. ASSUME NEW k \in Conns, OpenFails(k)
       PROVE  TypeInv'
  BY <1>15, ReturnTyped DEF OpenFails
<1>16. ASSUME NEW k \in Conns, OpenStream(k)
       PROVE  TypeInv'
  <2>1. /\ At("select") \in Held({"none", "opening", "select", "write", "gone", "returned"})
        /\ At("recv") \in Held({"none", "recv", "send", "done"})
        /\ At("subscribing") \in Held({"none", "subscribing", "select", "send", "returned"})
    BY DEF At, Held
  <2> QED
    BY <1>16, <2>1 DEF OpenStream, At
<1>17. ASSUME NEW k \in Conns, WriteLine(k)
       PROVE  TypeInv'
  <2>1. At("select") \in Held({"none", "opening", "select", "write", "gone", "returned"})
    BY DEF At, Held
  <2>2. wire' \in [Conns -> Seq(Events \union {Gone})]
    <3>1. Append(wire[k], loop[k].ev) \in Seq(Events \union {Gone})
      BY <1>17, AppendProperties DEF WriteLine
    <3> QED
      BY <1>17, <3>1 DEF WriteLine
  <2> QED
    BY <1>17, <2>1, <2>2 DEF WriteLine, At
<1>18. ASSUME NEW k \in Conns, WriteFails(k)
       PROVE  TypeInv'
  BY <1>18, ReturnTyped DEF WriteFails
<1>19. ASSUME NEW k \in Conns, LoopDone(k)
       PROVE  TypeInv'
  BY <1>19, ReturnTyped DEF LoopDone
<1>20. ASSUME NEW k \in Conns, LoopGone(k)
       PROVE  TypeInv'
  <2>1. At("gone") \in Held({"none", "opening", "select", "write", "gone", "returned"})
    BY DEF At, Held
  <2> QED
    BY <1>20, <2>1 DEF LoopGone, At
<1>21. ASSUME NEW k \in Conns, WriteGone(k)
       PROVE  TypeInv'
  <2>1. wire' \in [Conns -> Seq(Events \union {Gone})]
    <3>1. Append(wire[k], Gone) \in Seq(Events \union {Gone})
      BY AppendProperties
    <3> QED
      BY <1>21, <3>1 DEF WriteGone
  <2> QED
    BY <1>21, <2>1, ReturnTyped DEF WriteGone
<1>22. ASSUME NEW k \in Conns, Subscribe(k)
       PROVE  TypeInv'
  <2>1. At("select") \in Held({"none", "subscribing", "select", "send", "returned"})
    BY DEF At, Held
  <2> QED
    BY <1>22, <2>1 DEF Subscribe, Feed!Attach, At
<1>23. ASSUME NEW k \in Conns, SubscribeFails(k)
       PROVE  TypeInv'
  BY <1>23, AgentReturnsTyped DEF SubscribeFails, AgentReturns
<1>24. ASSUME NEW k \in Conns, TakeEvent(k)
       PROVE  TypeInv'
  <2>1. taken'[k] \in Events /\ taken' \in [Conns -> AnyEvent] /\ UNCHANGED <<stream, offered>>
    BY <1>24, TakenTyped DEF TakeEvent, AnyEvent
  <2>2. [pc |-> "send", ev |-> taken'[k]]
          \in Held({"none", "subscribing", "select", "send", "returned"})
    BY <2>1 DEF Held
  <2> QED
    BY <1>24, <2>1, <2>2 DEF TakeEvent, AnyEvent
<1>25. ASSUME NEW k \in Conns, Send(k)
       PROVE  TypeInv'
  <2>1. At("select") \in Held({"none", "subscribing", "select", "send", "returned"})
    BY DEF At, Held
  <2>2. net' \in [Conns -> Seq(Events)]
    <3>1. net[k] \in Seq(Events) /\ agent[k].ev \in Events
      BY <1>25 DEF Send
    <3>2. Append(net[k], agent[k].ev) \in Seq(Events)
      BY <3>1, AppendProperties
    <3> QED
      BY <1>25, <3>2 DEF Send
  <2> QED
    BY <1>25, <2>1, <2>2 DEF Send, At
<1>26. ASSUME NEW k \in Conns, SendFails(k)
       PROVE  TypeInv'
  BY <1>26, AgentReturnsTyped, UnsubscribeTyped DEF SendFails, AgentReturns
<1>27. ASSUME NEW k \in Conns, AgentDone(k)
       PROVE  TypeInv'
  BY <1>27, AgentReturnsTyped, UnsubscribeTyped DEF AgentDone, AgentReturns
<1>28. ASSUME NEW k \in Conns, ReaderStopped(k)
       PROVE  TypeInv'
  BY <1>28, AgentReturnsTyped DEF ReaderStopped, AgentReturns
<1>29. ASSUME NEW k \in Conns, StreamBreaks(k)
       PROVE  TypeInv'
  BY <1>29, BreakTyped DEF StreamBreaks
<1>30. CASE UNCHANGED vars
  BY <1>30 DEF vars
<1> QED
  BY <1>1, <1>2, <1>3, <1>4, <1>5, <1>6, <1>7, <1>8, <1>9, <1>10, <1>11, <1>12, <1>13, <1>14, <1>15, <1>16, <1>17, <1>18, <1>19, <1>20, <1>21, <1>22, <1>23, <1>24, <1>25, <1>26, <1>27, <1>28, <1>29, <1>30
     DEF Next, PageStep, RecvStep, LoopStep, AgentStep

-----------------------------------------------------------------------------
(* Sequences of events that follow one another.                            *)

LEMMA ChainTail ==
  ASSUME NEW S, NEW q \in Seq(S), q # <<>>, NEW n \in 1..Len(q), NEW off, NEW p,
         Chain(off, p, q, n)
  PROVE  /\ Follows(off, p, Head(q))
         /\ Chain(off, Head(q), Tail(q), n - 1)
         /\ \A i \in 1..Len(q) : Before(Head(q), Tail(q), i) = Before(p, q, i + 1)
         /\ EndOf(Head(q), Tail(q)) = EndOf(p, q)
<1>1. /\ Len(q) \in Nat \ {0}
      /\ Len(Tail(q)) = Len(q) - 1
      /\ \A i \in 1..Len(Tail(q)) : Tail(q)[i] = q[i + 1]
      /\ Head(q) = q[1]
  BY HeadTailProperties, LenProperties, EmptySeq
<1>2. \A i \in 1..Len(q) : Before(Head(q), Tail(q), i) = q[i] /\ Before(p, q, i + 1) = q[i]
  BY <1>1 DEF Before
<1>3. Follows(off, p, Head(q))
  BY <1>1 DEF Chain, Before
<1>4. ASSUME NEW i \in 1..(n - 1)
      PROVE  Follows(off, Before(Head(q), Tail(q), i), Tail(q)[i])
  <2>1. i + 1 \in 1..n /\ i \in 1..Len(q) /\ i \in 1..Len(Tail(q))
    BY <1>1
  <2>2. Follows(off, Before(p, q, i + 1), q[i + 1])
    BY <2>1 DEF Chain
  <2> QED
    BY <1>1, <1>2, <2>1, <2>2
<1>5. EndOf(Head(q), Tail(q)) = EndOf(p, q)
  BY <1>1, <1>2 DEF EndOf
<1> QED
  BY <1>2, <1>3, <1>4, <1>5 DEF Chain

LEMMA ChainAppend ==
  ASSUME NEW S, NEW q \in Seq(S), NEW e \in S, NEW off, NEW p, Chain(off, p, q, Len(q))
  PROVE  /\ Chain(off, p, Append(q, e), Len(Append(q, e)) - 1)
         /\ Before(p, Append(q, e), Len(Append(q, e))) = EndOf(p, q)
         /\ EndOf(p, Append(q, e)) = e
         /\ Append(q, e) # <<>> /\ Append(q, e)[Len(Append(q, e))] = e
         /\ Follows(off, EndOf(p, q), e) => Chain(off, p, Append(q, e), Len(Append(q, e)))
<1> DEFINE r == Append(q, e)
<1>1. /\ Len(q) \in Nat /\ Len(r) = Len(q) + 1 /\ r # <<>>
      /\ \A i \in 1..Len(q) : r[i] = q[i]
      /\ r[Len(q) + 1] = e
  BY AppendProperties, LenProperties
<1> HIDE DEF r
<1>2. \A i \in 1..(Len(q) + 1) : Before(p, r, i) = Before(p, q, i)
  BY <1>1 DEF Before
<1>3. Chain(off, p, r, Len(r) - 1)
  BY <1>1, <1>2 DEF Chain
<1>4. Before(p, r, Len(r)) = EndOf(p, q) /\ EndOf(p, r) = e
  BY <1>1, <1>2 DEF EndOf, Before
<1>5. Follows(off, EndOf(p, q), e) => Chain(off, p, r, Len(r))
  BY <1>1, <1>3, <1>4 DEF Chain
<1> QED
  BY <1>1, <1>3, <1>4, <1>5 DEF r

LEMMA FollowsGrow ==
  ASSUME NEW off \in Seq(Lines), NEW line \in Lines
  PROVE  /\ \A p, e : Follows(off, p, e) => Follows(Append(off, line), p, e)
         /\ \A p, q, n : Chain(off, p, q, n) => Chain(Append(off, line), p, q, n)
<1>1. /\ Len(off) \in Nat /\ Len(Append(off, line)) = Len(off) + 1
      /\ \A i \in 1..Len(off) : Append(off, line)[i] = off[i]
  BY AppendProperties, LenProperties
<1>2. ASSUME NEW p, NEW e, Follows(off, p, e)
      PROVE  Follows(Append(off, line), p, e)
  BY <1>1, <1>2 DEF Follows
<1> QED
  BY <1>2 DEF Chain

(* A first part of a chain is one.                                          *)
LEMMA ChainPrefix ==
  ASSUME NEW S, NEW q \in Seq(S), NEW T, NEW r \in Seq(T), Len(r) \in 0..Len(q),
         \A i \in 1..Len(r) : r[i] = q[i],
         NEW off, NEW p, Chain(off, p, q, Len(q))
  PROVE  Chain(off, p, r, Len(r))
<1>1. Len(q) \in Nat /\ Len(r) \in Nat
  BY LenProperties
<1>2. ASSUME NEW i \in 1..Len(r)
      PROVE  Follows(off, Before(p, r, i), r[i])
  <2>1. i \in 1..Len(q) /\ r[i] = q[i] /\ (i # 1 => i - 1 \in 1..Len(r))
    BY <1>1
  <2>2. Before(p, r, i) = Before(p, q, i)
    BY <2>1 DEF Before
  <2> QED
    BY <2>1, <2>2 DEF Chain
<1> QED
  BY <1>2 DEF Chain

LEMMA ChainEmpty ==
  /\ \A off, p : Chain(off, p, <<>>, Len(<<>>))
  /\ \A p : EndOf(p, <<>>) = p
BY EmptySeq DEF Chain, EndOf, Before

(* An event is not "gone".                                                  *)
LEMMA NotGone == \A off, p, e : Follows(off, p, e) => e # Gone
BY DEF Follows, Gone, NoEvent

-----------------------------------------------------------------------------
(* A step keeps every connection's link.                                   *)

LEMMA Domains ==
  ASSUME TypeInv
  PROVE  /\ DOMAIN http = Conns /\ DOMAIN loop = Conns /\ DOMAIN recv = Conns
         /\ DOMAIN agent = Conns /\ DOMAIN net = Conns /\ DOMAIN wire = Conns
         /\ DOMAIN shown = Conns /\ DOMAIN sent = Conns /\ DOMAIN taken = Conns
         /\ DOMAIN ctx = Conns /\ DOMAIN cut = Conns /\ DOMAIN status = Conns
         /\ DOMAIN errs = Conns /\ DOMAIN told = Conns /\ DOMAIN down = Conns /\ DOMAIN got = Conns
BY DEF TypeInv, TypeOK

(* The others' are as they were.                                            *)
Still(j) ==
  /\ http'[j] = http[j] /\ loop'[j] = loop[j] /\ recv'[j] = recv[j]
  /\ agent'[j] = agent[j] /\ net'[j] = net[j] /\ wire'[j] = wire[j]
  /\ shown'[j] = shown[j] /\ sent'[j] = sent[j] /\ taken'[j] = taken[j]
  /\ offered'[j] = offered[j] /\ ctx'[j] = ctx[j] /\ cut'[j] = cut[j]
  /\ status'[j] = status[j] /\ errs'[j] = errs[j] /\ told'[j] = told[j]
  /\ down'[j] = down[j] /\ got'[j] = got[j]

LEMMA StillLinked ==
  ASSUME NEW j \in Conns, Link(j), Still(j),
         j > made' => j > made, es' = j => es = j
  PROVE  Link(j)'
BY DEF Still, Link, Stages, Flows, Ends, Told, Settled, Broken, AtNet, AtRecv, AtLoop, AtPage

LEMMA LinkInit ==
  ASSUME Init, NEW k \in Conns
  PROVE  Link(k)
<1>1. made = 0 /\ es = 0 /\ k \in Nat \ {0}
  BY StreamAssumption DEF Init, Conns
<1>2. taken[k] = NoEvent /\ offered[k] = <<>>
  BY DEF Init, Feed!Init, Feed!NoEvent, NoEvent
<1>3. /\ http[k] = "none" /\ loop[k] = At("none") /\ recv[k] = At("none")
      /\ agent[k] = At("none") /\ net[k] = <<>> /\ wire[k] = <<>>
      /\ shown[k] = NoEvent /\ sent[k] = NoEvent /\ got[k] = NoEvent /\ ~down[k]
      /\ ~ctx[k] /\ ~cut[k] /\ ~status[k] /\ ~errs[k] /\ ~told[k]
  BY DEF Init
<1> QED
  BY <1>1, <1>2, <1>3 DEF Link, Stages, Flows, Ends, Told, At

(* What one connection does leaves the others as they were.                 *)
OfConn(k) ==
  \/ ConnectionFails(k) \/ NoticeGone(k) \/ CutArrives(k) \/ StreamBreaks(k)
  \/ RecvStep(k) \/ LoopStep(k) \/ AgentStep(k)

LEMMA OthersStill ==
  ASSUME TypeInv, NEW k \in Conns, OfConn(k), NEW j \in Conns, j # k
  PROVE  Still(j) /\ es' = es /\ made' = made
<1> USE Domains DEF Still, feed, rpc, bridge, page
<1>1. CASE ConnectionFails(k)
  BY <1>1 DEF ConnectionFails
<1>2. CASE NoticeGone(k)
  BY <1>2 DEF NoticeGone
<1>3. CASE CutArrives(k)
  BY <1>3 DEF CutArrives
<1>4. CASE Recv(k)
  BY <1>4 DEF Recv
<1>5. CASE RecvFails(k)
  BY <1>5 DEF RecvFails
<1>6. CASE HandOver(k)
  BY <1>6 DEF HandOver
<1>7. CASE RecvQuits(k)
  BY <1>7 DEF RecvQuits
<1>8. CASE OpenFails(k)
  BY <1>8 DEF OpenFails, Return
<1>9. CASE OpenStream(k)
  BY <1>9 DEF OpenStream
<1>10. CASE WriteLine(k)
  BY <1>10 DEF WriteLine
<1>11. CASE WriteFails(k)
  BY <1>11 DEF WriteFails, Return
<1>12. CASE LoopDone(k)
  BY <1>12 DEF LoopDone, Return
<1>13. CASE LoopGone(k)
  BY <1>13 DEF LoopGone
<1>14. CASE WriteGone(k)
  BY <1>14 DEF WriteGone, Return
<1>15. CASE Subscribe(k)
  BY <1>15 DEF Subscribe, Feed!Attach
<1>16. CASE SubscribeFails(k)
  BY <1>16 DEF SubscribeFails, AgentReturns
<1>17. CASE TakeEvent(k)
  BY <1>17, TakenTyped DEF TakeEvent
<1>18. CASE Send(k)
  BY <1>18 DEF Send
<1>19. CASE SendFails(k)
  BY <1>19, UnsubscribeTyped DEF SendFails, AgentReturns
<1>20. CASE AgentDone(k)
  BY <1>20, UnsubscribeTyped DEF AgentDone, AgentReturns
<1>21. CASE ReaderStopped(k)
  BY <1>21 DEF ReaderStopped, AgentReturns
<1>22. CASE StreamBreaks(k)
  <2>1. j \notin {k} /\ Break({k})
    BY <1>22 DEF StreamBreaks
  <2>2. net'[j] = net[j] /\ down'[j] = down[j] /\ status'[j] = status[j]
    BY <2>1, BreakTyped
  <2> QED
    BY <1>22, <2>2 DEF StreamBreaks
<1> QED
  BY <1>1, <1>2, <1>3, <1>4, <1>5, <1>6, <1>7, <1>8, <1>9, <1>10, <1>11, <1>12, <1>13, <1>14, <1>15, <1>16, <1>17, <1>18, <1>19, <1>20, <1>21, <1>22
     DEF OfConn, RecvStep, LoopStep, AgentStep

(* And keeps its own link.                                                  *)
LEMMA OwnLink ==
  ASSUME TypeInv, NEW k \in Conns, Link(k), OfConn(k)
  PROVE  Link(k)'
<1> USE Domains, ChainEmpty DEF Link, Stages, Flows, Ends, Told, Settled, Broken, AtNet, AtRecv, AtLoop, AtPage,
        At, feed, rpc, bridge, page
<1>1. CASE ConnectionFails(k)
  BY <1>1 DEF ConnectionFails
<1>2. CASE NoticeGone(k)
  BY <1>2 DEF NoticeGone
<1>3. CASE CutArrives(k)
  BY <1>3 DEF CutArrives
<1>4. CASE Recv(k)
  <2>1. net[k] \in Seq(Events) /\ net[k] # <<>> /\ Len(net[k]) \in 1..Len(net[k])
    BY <1>4, EmptySeq DEF Recv, TypeInv, TypeOK
  <2>2. /\ Len(Tail(net[k])) = Len(net[k]) - 1
        /\ net'[k] = Tail(net[k]) /\ recv'[k] = [pc |-> "send", ev |-> Head(net[k])]
    BY <1>4, <2>1, HeadTailProperties DEF Recv
  <2>3. Flows(k)'
    <3> SUFFICES ASSUME http[k] = "open" PROVE Flows(k)'
      BY <1>4 DEF Recv
    <3>1. /\ Follows(offered[k], AtLoop(k), Head(net[k]))
          /\ Chain(offered[k], Head(net[k]), Tail(net[k]), Len(net[k]) - 1)
          /\ EndOf(Head(net[k]), Tail(net[k])) = EndOf(AtRecv(k), net[k])
      BY <1>4, <2>1, ChainTail DEF Recv
    <3> QED
      BY <1>4, <2>1, <2>2, <3>1 DEF Recv
  <2> QED
    BY <1>4, <2>3 DEF Recv
<1>5. CASE RecvFails(k)
  BY <1>5 DEF RecvFails
<1>6. CASE HandOver(k)
  BY <1>6 DEF HandOver
<1>7. CASE RecvQuits(k)
  BY <1>7 DEF RecvQuits
<1>8. CASE OpenFails(k)
  BY <1>8 DEF OpenFails, Return
<1>9. CASE OpenStream(k)
  BY <1>9 DEF OpenStream
<1>10. CASE WriteLine(k)
  <2>1. wire[k] \in Seq(Events \union {Gone}) /\ loop[k].ev \in Events \union {Gone}
    BY <1>10 DEF WriteLine, TypeInv, TypeOK, Payloads
  <2>2. CASE wire' = wire /\ Broken(k)
    BY <1>10, <2>2 DEF WriteLine
  <2>3. CASE http[k] = "open" /\ wire' = [wire EXCEPT ![k] = Append(wire[k], loop[k].ev)]
    <3> DEFINE q == Append(wire[k], loop[k].ev)
    <3>1. Chain(offered[k], shown[k], q, Len(q)) /\ EndOf(shown[k], q) = loop[k].ev
      <4>1. /\ Chain(offered[k], shown[k], wire[k], Len(wire[k]))
            /\ Follows(offered[k], EndOf(shown[k], wire[k]), loop[k].ev)
        BY <1>10, <2>3 DEF WriteLine
      <4> QED
        BY ONLY <2>1, <4>1, ChainAppend
    <3>2. wire'[k] = q
      BY <2>3
    <3> HIDE DEF q
    <3> QED
      BY <1>10, <2>3, <3>1, <3>2 DEF WriteLine
  <2> QED
    BY <1>10, <2>2, <2>3 DEF WriteLine, HasRoom
<1>11. CASE WriteFails(k)
  BY <1>11 DEF WriteFails, Return
<1>12. CASE LoopDone(k)
  BY <1>12 DEF LoopDone, Return
<1>13. CASE LoopGone(k)
  BY <1>13 DEF LoopGone
<1>14. CASE WriteGone(k)
  <2>1. wire[k] \in Seq(Events \union {Gone}) /\ Gone \in Events \union {Gone}
    BY DEF TypeInv, TypeOK
  <2>2. CASE wire' = wire /\ Broken(k)
    BY <1>14, <2>2 DEF WriteGone, Return
  <2>3. CASE http[k] = "open" /\ wire' = [wire EXCEPT ![k] = Append(wire[k], Gone)]
    <3> DEFINE q == Append(wire[k], Gone)
    <3>1. /\ Chain(offered[k], shown[k], q, Len(q) - 1)
          /\ Before(shown[k], q, Len(q)) = EndOf(shown[k], wire[k])
          /\ q # <<>> /\ q[Len(q)] = Gone
      <4>1. Chain(offered[k], shown[k], wire[k], Len(wire[k]))
        BY <2>3
      <4> QED
        BY ONLY <2>1, <4>1, ChainAppend
    <3>2. wire'[k] = q
      BY <2>3
    <3>3. EndOf(shown[k], wire[k]) = got[k] /\ Settled(k)
      BY <1>14, <2>3 DEF WriteGone
    <3> HIDE DEF q
    <3> QED
      BY <1>14, <2>3, <3>1, <3>2, <3>3 DEF WriteGone, Return
  <2> QED
    BY <1>14, <2>2, <2>3 DEF WriteGone, HasRoom
<1>15. CASE Subscribe(k)
  BY <1>15 DEF Subscribe, Feed!Attach
<1>16. CASE SubscribeFails(k)
  BY <1>16 DEF SubscribeFails, AgentReturns
<1>17. CASE TakeEvent(k)
  BY <1>17, TakenTyped DEF TakeEvent
<1>18. CASE Send(k)
  <2>1. net[k] \in Seq(Events) /\ agent[k].ev \in Events
    BY <1>18 DEF Send, TypeInv, TypeOK, Payloads
  <2>2. Flows(k)'
    <3> SUFFICES ASSUME http[k] = "open" PROVE Flows(k)'
      BY <1>18 DEF Send
    <3>1. CASE down[k] /\ net' = net
      BY <1>18, <3>1 DEF Send
    <3>2. CASE ~down[k] /\ net' = [net EXCEPT ![k] = Append(net[k], agent[k].ev)]
      <4> DEFINE q == Append(net[k], agent[k].ev)
      <4>1. Chain(offered[k], AtRecv(k), q, Len(q)) /\ EndOf(AtRecv(k), q) = agent[k].ev
        BY <1>18, <2>1, <3>2, ChainAppend DEF Send
      <4>2. net'[k] = q
        BY <3>2
      <4> HIDE DEF q
      <4> QED
        BY <1>18, <3>2, <4>1, <4>2 DEF Send
    <3> QED
      BY <1>18, <3>1, <3>2 DEF Send
  <2> QED
    BY <1>18, <2>2 DEF Send
<1>19. CASE SendFails(k)
  BY <1>19, UnsubscribeTyped DEF SendFails, AgentReturns
<1>20. CASE AgentDone(k)
  BY <1>20, UnsubscribeTyped DEF AgentDone, AgentReturns
<1>21. CASE ReaderStopped(k)
  BY <1>21 DEF ReaderStopped, AgentReturns
<1>22. CASE StreamBreaks(k)
  <2>1. /\ Len(net'[k]) \in 0..Len(net[k]) /\ net[k] \in Seq(Events) /\ net'[k] \in Seq(Events)
        /\ \A i \in 1..Len(net'[k]) : net'[k][i] = net[k][i]
        /\ down'[k] /\ status'[k]
    <3>1. k \in {k} /\ Break({k}) /\ net[k] \in Seq(Events)
      BY <1>22 DEF StreamBreaks, TypeInv, TypeOK
    <3> QED
      BY ONLY TypeInv, <3>1, BreakTyped
  <2>2. Chain(offered[k], AtRecv(k), net[k], Len(net[k]))
          => Chain(offered[k], AtRecv(k), net'[k], Len(net'[k]))
    BY ONLY <2>1, ChainPrefix
  <2>3. net[k] = <<>> => net'[k] = <<>>
    BY <2>1, EmptySeq
  <2> QED
    BY <1>22, <2>1, <2>2, <2>3 DEF StreamBreaks, Connected
<1> QED
  BY <1>1, <1>2, <1>3, <1>4, <1>5, <1>6, <1>7, <1>8, <1>9, <1>10, <1>11, <1>12, <1>13, <1>14, <1>15, <1>16, <1>17, <1>18, <1>19, <1>20, <1>21, <1>22
     DEF OfConn, RecvStep, LoopStep, AgentStep

-----------------------------------------------------------------------------
(* The hub, the agent's death, and the page.                               *)

LEMMA HubLinks ==
  ASSUME TypeInv, NEW j \in Conns, Link(j), HandOut \/ ReaderStops \/ AgentDies
  PROVE  Link(j)'
<1> USE Domains DEF feed, rpc, bridge, page
<1>1. CASE HandOut
  <2>1. /\ offered[j] \in Seq(Lines) /\ written + 1 \in Lines
        /\ \/ offered'[j] = offered[j]
           \/ offered'[j] = Append(offered[j], written + 1)
    BY <1>1, StreamAssumption DEF HandOut, Feed!Offer, TypeInv, TypeOK, Lines
  <2>2. /\ \A p, e : Follows(offered[j], p, e) => Follows(offered'[j], p, e)
        /\ \A p, q, n : Chain(offered[j], p, q, n) => Chain(offered'[j], p, q, n)
    BY <2>1, FollowsGrow
  <2> QED
    BY <1>1, <2>2 DEF HandOut, Feed!Offer, Link, Stages, Flows, Ends, Told, Settled, Broken,
                      AtNet, AtRecv, AtLoop, AtPage
<1>2. CASE ReaderStops
  BY <1>2, EndTyped, StillLinked DEF ReaderStops, Still
<1>3. CASE AgentDies
  <2>1. UNCHANGED <<offered, taken>>
    BY <1>3, EndTyped DEF AgentDies
  <2>2. /\ Len(net'[j]) \in 0..Len(net[j]) /\ net[j] \in Seq(Events) /\ net'[j] \in Seq(Events)
        /\ \A i \in 1..Len(net'[j]) : net'[j][i] = net[j][i]
        /\ Connected(j) => down'[j] /\ status'[j]
        /\ ~Connected(j) => net'[j] = net[j] /\ down'[j] = down[j] /\ status'[j] = status[j]
    <3> DEFINE gone == {k \in Conns : Connected(k)}
    <3>1. Break(gone) /\ net[j] \in Seq(Events) /\ (j \in gone <=> Connected(j))
      BY <1>3 DEF AgentDies, TypeInv, TypeOK
    <3> HIDE DEF gone
    <3> QED
      BY <3>1, BreakTyped
  <2>3. Chain(offered[j], AtRecv(j), net[j], Len(net[j]))
          => Chain(offered[j], AtRecv(j), net'[j], Len(net'[j]))
    BY ONLY <2>2, ChainPrefix
  <2>4. net[j] = <<>> => net'[j] = <<>>
    BY <2>2, EmptySeq
  <2>5. /\ http'[j] = http[j] /\ loop'[j] = loop[j] /\ recv'[j] = recv[j] /\ wire'[j] = wire[j]
        /\ shown'[j] = shown[j] /\ sent'[j] = sent[j] /\ taken'[j] = taken[j] /\ got'[j] = got[j]
        /\ offered'[j] = offered[j] /\ ctx'[j] = ctx[j] /\ cut'[j] = cut[j]
        /\ errs'[j] = errs[j] /\ told'[j] = told[j] /\ es' = es /\ made' = made
        /\ agent'[j] = IF Serving(j) THEN At("returned") ELSE agent[j]
    BY <1>3, <2>1 DEF AgentDies
  <2>6. CASE ~Connected(j)
    BY <2>2, <2>5, <2>6 DEF Connected, Serving, At, Link, Stages, Flows, Ends, Told, Settled, Broken,
                            AtNet, AtRecv, AtLoop, AtPage
  <2>7. CASE Connected(j)
    BY <2>2, <2>3, <2>4, <2>5, <2>7
       DEF Connected, Serving, At, Link, Stages, Flows, Ends, Told, Settled, Broken,
           AtNet, AtRecv, AtLoop, AtPage
  <2> QED
    BY <2>6, <2>7
<1> QED
  BY <1>1, <1>2, <1>3

LEMMA RequestLinks ==
  ASSUME TypeInv, \A j \in Conns : Link(j), Request, NEW j \in Conns
  PROVE  Link(j)'
<1> USE Domains DEF feed, rpc, bridge, page
<1>1. made \in Nat /\ made' = made + 1 /\ es' = made' /\ j \in Nat
  BY DEF Request, TypeInv, TypeOK, Conns
<1>2. CASE j # made + 1
  BY <1>1, <1>2, StillLinked DEF Request, Still
<1>3. CASE j = made + 1
  <2>1. http[j] = "none" /\ Link(j)
    BY <1>1, <1>3 DEF Link, Stages
  <2>2. http'[j] = "open" /\ loop'[j] = At("opening")
    BY <1>3 DEF Request
  <2>3. /\ recv'[j] = recv[j] /\ agent'[j] = agent[j] /\ net'[j] = net[j] /\ wire'[j] = wire[j]
        /\ shown'[j] = shown[j] /\ sent'[j] = sent[j] /\ taken'[j] = taken[j]
        /\ offered'[j] = offered[j] /\ ctx'[j] = ctx[j] /\ cut'[j] = cut[j]
        /\ status'[j] = status[j] /\ errs'[j] = errs[j] /\ told'[j] = told[j]
        /\ down'[j] = down[j] /\ got'[j] = got[j]
    BY DEF Request
  <2> QED
    BY <1>1, <1>3, <2>1, <2>2, <2>3, ChainEmpty
       DEF At, Link, Stages, Flows, Ends, Told, Settled, Broken, AtNet, AtRecv, AtLoop, AtPage
<1> QED
  BY <1>2, <1>3

(* What the page takes from the wire.                                       *)
LEMMA OnWire ==
  ASSUME TypeInv, NEW k \in Conns, Link(k), es = k, wire[k] # <<>>
  PROVE  /\ wire[k] \in Seq(Events \union {Gone}) /\ Len(wire[k]) \in Nat \ {0}
         /\ Len(Tail(wire[k])) = Len(wire[k]) - 1
         /\ \A i \in 1..Len(Tail(wire[k])) : Tail(wire[k])[i] = wire[k][i + 1]
         /\ Head(wire[k]) = wire[k][1]
         /\ http[k] \in {"open", "ended"}
         /\ Head(wire[k]) # Gone => Follows(offered[k], shown[k], Head(wire[k]))
         /\ Head(wire[k]) = Gone => http[k] = "ended" /\ Len(wire[k]) = 1 /\ shown[k] = got[k]
<1>1. /\ wire[k] \in Seq(Events \union {Gone}) /\ Len(wire[k]) \in Nat \ {0}
      /\ Len(Tail(wire[k])) = Len(wire[k]) - 1
      /\ \A i \in 1..Len(Tail(wire[k])) : Tail(wire[k])[i] = wire[k][i + 1]
      /\ Head(wire[k]) = wire[k][1]
  BY HeadTailProperties, LenProperties, EmptySeq DEF TypeInv, TypeOK
<1>2. http[k] \in {"open", "ended"}
  BY DEF Link, Stages, TypeInv, TypeOK
<1>3. CASE http[k] = "open"
  <2>1. Follows(offered[k], shown[k], Head(wire[k]))
    BY <1>1, <1>3 DEF Link, Flows, Chain, Before
  <2> QED
    BY <1>1, <1>2, <2>1, NotGone
<1>4. CASE http[k] = "ended" /\ Len(wire[k]) = 1
  BY <1>1, <1>2, <1>4 DEF Link, Ends, Before
<1>5. CASE http[k] = "ended" /\ Len(wire[k]) # 1
  <2>1. Follows(offered[k], shown[k], Head(wire[k]))
    <3>1. Chain(offered[k], shown[k], wire[k], Len(wire[k]) - 1)
      BY <1>5 DEF Link, Ends
    <3>2. 1 \in 1..(Len(wire[k]) - 1)
      <4>1. \A n \in Nat \ {0} : n # 1 => 1 \in 1..(n - 1)
        OBVIOUS
      <4> QED
        BY ONLY <1>1, <1>5, <4>1
    <3>3. Follows(offered[k], Before(shown[k], wire[k], 1), wire[k][1])
      BY <3>1, <3>2 DEF Chain
    <3> QED
      BY <1>1, <3>3 DEF Before
  <2> QED
    BY <1>1, <1>2, <2>1, NotGone
<1> QED
  BY <1>2, <1>3, <1>4, <1>5

LEMMA PageLinks ==
  ASSUME TypeInv, \A j \in Conns : Link(j), Pause \/ ShowEvent \/ ShowGone, NEW j \in Conns
  PROVE  Link(j)'
<1> USE Domains DEF feed, rpc, bridge, page
<1>1. es \in Conns /\ es # 0 /\ made' = made
  BY StreamAssumption DEF Pause, ShowEvent, ShowGone, TypeInv, TypeOK, Conns
<1>2. CASE j # es
  <2>1. j # 0
    BY DEF Conns
  <2> QED
    BY <1>1, <1>2, <2>1, StillLinked DEF Pause, ShowEvent, ShowGone, Leave, Still
<1>3. CASE j = es /\ Pause
  BY <1>1, <1>3 DEF Pause, Leave, Link, Stages, Flows, Ends, Told, Settled, Broken
<1>4. CASE j = es /\ ShowEvent
  <2>1. wire[j] # <<>> /\ Head(wire[j]) # Gone /\ Link(j)
    BY <1>4 DEF ShowEvent
  <2> DEFINE q == Tail(wire[j])
             e == Head(wire[j])
  <2>2. /\ wire[j] \in Seq(Events \union {Gone})
        /\ Len(wire[j]) \in Nat \ {0} /\ Len(wire[j]) \in 1..Len(wire[j])
        /\ Len(q) = Len(wire[j]) - 1
        /\ \A i \in 1..Len(q) : q[i] = wire[j][i + 1]
        /\ http[j] \in {"open", "ended"}
        /\ e = wire[j][1]
    BY <1>1, <1>4, <2>1, OnWire
  <2>3. wire'[j] = q /\ shown'[j] = e
    BY <1>4 DEF ShowEvent
  <2>4. /\ http'[j] = http[j] /\ loop'[j] = loop[j] /\ recv'[j] = recv[j]
        /\ agent'[j] = agent[j] /\ net'[j] = net[j] /\ es' = es
        /\ sent'[j] = sent[j] /\ taken'[j] = taken[j]
        /\ offered'[j] = offered[j] /\ ctx'[j] = ctx[j] /\ cut'[j] = cut[j]
        /\ status'[j] = status[j] /\ errs'[j] = errs[j] /\ told'[j] = told[j]
        /\ down'[j] = down[j] /\ got'[j] = got[j]
    BY <1>4 DEF ShowEvent
  <2>5. CASE http[j] = "open"
    <3>1. /\ Chain(offered[j], e, q, Len(q))
          /\ EndOf(e, q) = EndOf(shown[j], wire[j])
      <4>1. Chain(offered[j], shown[j], wire[j], Len(wire[j]))
        BY <2>1, <2>5 DEF Link, Flows
      <4> QED
        BY ONLY <2>1, <2>2, <4>1, ChainTail
    <3>2. AtPage(j)' = AtPage(j) /\ AtLoop(j)' = AtLoop(j) /\ AtRecv(j)' = AtRecv(j) /\ AtNet(j)' = AtNet(j)
      BY <2>3, <2>4, <3>1 DEF AtNet, AtRecv, AtLoop, AtPage
    <3>3. Stages(j)' /\ Ends(j)' /\ Told(j)'
      BY <1>1, <2>1, <2>3, <2>4, <2>5 DEF Link, Stages, Told, Ends, Settled, Broken
    <3>4. Flows(j)'
      BY <2>1, <2>3, <2>4, <2>5, <3>1, <3>2 DEF Link, Flows
    <3> QED
      BY <3>3, <3>4 DEF Link
  <2>6. CASE http[j] = "ended"
    <3> DEFINE n == Len(wire[j])
    <3>1. /\ Chain(offered[j], shown[j], wire[j], n - 1)
          /\ wire[j][n] = Gone /\ Before(shown[j], wire[j], n) = got[j]
          /\ n # 1
      BY <2>1, <2>2, <2>6 DEF Link, Ends
    <3>2. n - 1 \in 1..n
      BY <2>2, <3>1
    <3>3. /\ Chain(offered[j], e, q, n - 2)
          /\ \A i \in 1..n : Before(e, q, i) = Before(shown[j], wire[j], i + 1)
      <4>1. n - 1 - 1 = n - 2
        BY <2>2
      <4> QED
        BY ONLY <2>1, <2>2, <3>1, <3>2, <4>1, ChainTail
    <3>4. q # <<>> /\ q[Len(q)] = Gone /\ Before(e, q, Len(q)) = got[j] /\ Len(q) - 1 = n - 2
      <4>1. Len(q) = n - 1 /\ n - 1 \in 1..Len(q)
        BY <2>2, <3>1
      <4>2. Before(e, q, n - 1) = Before(shown[j], wire[j], n - 1 + 1) /\ n - 1 + 1 = n
        BY <2>2, <3>2, <3>3
      <4>3. q[Len(q)] = wire[j][n] /\ Len(q) \in Nat \ {0} /\ Len(q) - 1 = n - 2
        BY <2>2, <4>1, <4>2
      <4>4. q # <<>>
        BY <4>3, EmptySeq
      <4> QED
        BY <3>1, <4>1, <4>2, <4>3, <4>4
    <3> HIDE DEF q, e, n
    <3>5. Stages(j)' /\ Ends(j)' /\ Told(j)' /\ Flows(j)'
      BY <1>1, <2>1, <2>3, <2>4, <2>6, <3>3, <3>4 DEF Link, Stages, Told, Ends, Flows, Settled, Broken
    <3> QED
      BY <3>5 DEF Link
  <2> QED
    BY <2>2, <2>5, <2>6
<1>5. CASE j = es /\ ShowGone
  <2>1. http[j] = "ended" /\ shown[j] = got[j] /\ Settled(j) /\ Link(j)
    BY <1>1, <1>5, OnWire DEF ShowGone, Link, Ends
  <2> QED
    BY <1>1, <1>5, <2>1 DEF ShowGone, Leave, Link, Stages, Flows, Ends, Told, Settled, Broken
<1> QED
  BY <1>2, <1>3, <1>4, <1>5

LEMMA StreamStep ==
  ASSUME StreamInv, [Next]_vars
  PROVE  StreamInv'
<1> USE DEF StreamInv
<1>1. TypeInv'
  BY TypeStep
<1>2. ASSUME NEW j \in Conns
      PROVE  Link(j)'
  <2>1. CASE HandOut \/ ReaderStops \/ AgentDies
    BY <2>1, HubLinks
  <2>2. CASE Connect \/ Reconnect
    BY <2>2, RequestLinks DEF Connect, Reconnect
  <2>3. CASE Pause \/ ShowEvent \/ ShowGone
    BY <2>3, PageLinks
  <2>4. ASSUME NEW k \in Conns, OfConn(k)
        PROVE  Link(j)'
    <3>1. CASE j = k
      BY <2>4, <3>1, OwnLink
    <3>2. CASE j # k
      BY <2>4, <3>2, OthersStill, StillLinked
    <3> QED
      BY <3>1, <3>2
  <2>5. CASE UNCHANGED vars
    BY <2>5, StillLinked DEF vars, Still
  <2> QED
    BY <2>1, <2>2, <2>3, <2>4, <2>5 DEF Next, PageStep, OfConn
<1> QED
  BY <1>1, <1>2

LEMMA StreamInvariant == Spec => []StreamInv
<1>1. Init => StreamInv
  BY InitTyped, LinkInit DEF StreamInv
<1>2. StreamInv /\ [Next]_vars => StreamInv'
  BY StreamStep
<1> QED
  BY <1>1, <1>2, PTL DEF Spec

(* StreamIsSound holds of every reachable state: types, and "gone" comes    *)
(* after everything that reached the UI, which is everything the agent sent *)
(* unless the connection to it broke (tracelog.go:66-83, 88-100).           *)
THEOREM StreamAlwaysSound == Spec => []StreamIsSound
<1>1. StreamInv => StreamIsSound
  BY DEF StreamInv, TypeInv, Link, Told, Settled, StreamIsSound, GoneComesLast
<1> QED
  BY <1>1, StreamInvariant, PTL

-----------------------------------------------------------------------------
(* The page asks again by itself only when the connection broke: an ended   *)
(* response always has "gone" to show first (tracelog.html:102-107).        *)
THEOREM NeverReconnects == Spec => NeverReconnectsIntoError
<1>1. ASSUME StreamInv, [Next]_vars
      PROVE  [es # 0 /\ es' \notin {0, es} => http[es] = "failed"]_vars
  <2> SUFFICES ASSUME Next, es # 0, es' \notin {0, es}
               PROVE  http[es] = "failed"
    BY <1>1
  <2>1. es \in Conns
    BY <1>1, StreamAssumption DEF StreamInv, TypeInv, TypeOK, Conns
  <2>2. \A k \in Conns : OfConn(k) => es' = es
    <3> SUFFICES ASSUME NEW k \in Conns, OfConn(k) PROVE es' = es
      OBVIOUS
    <3> USE DEF page
    <3>1. CASE ConnectionFails(k) \/ NoticeGone(k) \/ CutArrives(k) \/ StreamBreaks(k)
      BY <3>1 DEF ConnectionFails, NoticeGone, CutArrives, StreamBreaks
    <3>2. CASE RecvStep(k)
      BY <3>2 DEF RecvStep, Recv, RecvFails, HandOver, RecvQuits
    <3>3. CASE LoopStep(k)
      BY <3>3 DEF LoopStep, OpenFails, OpenStream, WriteLine, WriteFails, LoopDone, LoopGone, WriteGone
    <3>4. CASE AgentStep(k)
      BY <3>4 DEF AgentStep, Subscribe, SubscribeFails, TakeEvent, Send, SendFails, AgentDone,
                  ReaderStopped, AgentReturns
    <3> QED
      BY <3>1, <3>2, <3>3, <3>4 DEF OfConn
  <2>3. Reconnect
    BY <2>2 DEF Next, PageStep, OfConn, HandOut, ReaderStops, AgentDies, Connect, Pause, ShowEvent,
                ShowGone, Leave, page
  <2> QED
    BY <1>1, <2>1, <2>3 DEF Reconnect, StreamInv, Link, Ends
<1> QED
  BY <1>1, StreamInvariant, PTL DEF Spec, NeverReconnectsIntoError

-----------------------------------------------------------------------------
(* The page implements LineFeed: what it shows of a connection is a client's *)
(* stream, nothing lost untold, doubled or out of order                      *)
(* (server.go:233-245, tracelog.go:66-110, tracelog.html:95-101).            *)

LEMMA FedUnchanged ==
  ASSUME UNCHANGED <<stream, offered, shown>>
  PROVE  [Shown!Next]_(Shown!feedVars)
BY DEF Shown!feedVars

(* An end of the hub is one of the page's, and its clients are the same.    *)
LEMMA FedEnd ==
  ASSUME NEW gone, Feed!End(gone), UNCHANGED shown
  PROVE  Shown!Next
BY DEF Feed!End, Feed!In, Shown!Next, Shown!End, Shown!In

(* A connection's steps: it attaches, or ends, or none of it is seen.       *)
LEMMA FedConn ==
  ASSUME TypeInv, NEW k \in Conns, OfConn(k)
  PROVE  [Shown!Next]_(Shown!feedVars)
<1> USE FedUnchanged DEF feed, page
<1>1. CASE ConnectionFails(k) \/ NoticeGone(k) \/ CutArrives(k) \/ StreamBreaks(k)
  BY <1>1 DEF ConnectionFails, NoticeGone, CutArrives, StreamBreaks
<1>2. CASE RecvStep(k)
  BY <1>2 DEF RecvStep, Recv, RecvFails, HandOver, RecvQuits
<1>3. CASE LoopStep(k)
  BY <1>3 DEF LoopStep, OpenFails, OpenStream, WriteLine, WriteFails, LoopDone, LoopGone, WriteGone
<1>4. CASE Subscribe(k)
  BY <1>4 DEF Subscribe, Feed!Attach, Shown!Next, Shown!Attach
<1>5. CASE SubscribeFails(k) \/ ReaderStopped(k) \/ Send(k)
  BY <1>5 DEF SubscribeFails, ReaderStopped, Send, AgentReturns
<1>6. CASE TakeEvent(k)
  BY <1>6, TakenTyped DEF TakeEvent
<1>7. CASE SendFails(k) \/ AgentDone(k)
  BY <1>7, FedEnd DEF SendFails, AgentDone, AgentReturns, Unsubscribe
<1> QED
  BY <1>1, <1>2, <1>3, <1>4, <1>5, <1>6, <1>7 DEF OfConn, AgentStep

(* An event on screen is one taken from the hub.                            *)
LEMMA FedShow ==
  ASSUME StreamInv, ShowEvent
  PROVE  Shown!Next
<1>1. es \in Conns
  BY StreamAssumption DEF ShowEvent, StreamInv, TypeInv, TypeOK, Conns
<1> DEFINE e == Head(wire[es])
<1>2. Follows(offered[es], shown[es], e) /\ e \in Events
  <2>1. wire[es] \in Seq(Events \union {Gone}) /\ wire[es] # <<>> /\ Head(wire[es]) # Gone
    BY <1>1 DEF ShowEvent, StreamInv, TypeInv, TypeOK
  <2>2. Head(wire[es]) \in Events
    BY <2>1, HeadTailProperties
  <2> QED
    BY <1>1, <2>1, <2>2, OnWire DEF StreamInv
<1>3. shown[es].at \in Nat /\ Len(offered[es]) \in Nat
  BY <1>1, LenProperties DEF StreamInv, TypeInv, TypeOK, Events, NoEvent
<1>4. e = [line |-> e.line, dropped |-> e.dropped, at |-> e.at] /\ e.at \in Nat
  BY <1>2 DEF Events
<1>5. e.at \in (shown[es].at + 1) .. Len(offered[es])
  BY <1>2, <1>3, <1>4 DEF Follows
<1>6. shown' = [shown EXCEPT ![es] = [line |-> offered[es][e.at],
                                      dropped |-> e.at - shown[es].at - 1, at |-> e.at]]
  BY <1>2, <1>4 DEF ShowEvent, Follows
<1>7. UNCHANGED <<stream, offered>>
  BY DEF ShowEvent, feed
<1>8. Shown!Take(es)
  BY <1>5, <1>6, <1>7 DEF Shown!Take
<1> QED
  BY <1>1, <1>8 DEF Shown!Next

LEMMA FedStep ==
  ASSUME StreamInv, [Next]_vars
  PROVE  [Shown!Next]_(Shown!feedVars)
<1> USE FedUnchanged DEF feed, page
<1>1. CASE HandOut
  <2>1. written + 1 \in Lines
    BY <1>1, StreamAssumption DEF HandOut, StreamInv, TypeInv, TypeOK, Lines
  <2>2. Shown!Offer(written + 1)
    BY <1>1 DEF HandOut, Feed!Offer, Feed!In, Shown!Offer, Shown!In
  <2> QED
    BY <2>1, <2>2 DEF Shown!Next
<1>2. CASE ReaderStops
  BY <1>2, FedEnd DEF ReaderStops
<1>3. CASE AgentDies
  BY <1>3, FedEnd DEF AgentDies
<1>4. CASE Connect \/ Reconnect \/ Pause \/ ShowGone
  BY <1>4 DEF Connect, Reconnect, Request, Pause, ShowGone
<1>5. CASE ShowEvent
  BY <1>5, FedShow
<1>6. ASSUME NEW k \in Conns, OfConn(k)
      PROVE  [Shown!Next]_(Shown!feedVars)
  BY <1>6, FedConn DEF StreamInv
<1>7. CASE UNCHANGED vars
  BY <1>7 DEF vars
<1> QED
  BY <1>1, <1>2, <1>3, <1>4, <1>5, <1>6, <1>7 DEF Next, PageStep, OfConn

THEOREM PageImplementsFeed == Spec => PageIsFed
<1>1. Init => Shown!Init
  BY DEF Init, Feed!Init, Shown!Init, Shown!NoEvent, NoEvent
<1>2. StreamInv /\ [Next]_vars => [Shown!Next]_(Shown!feedVars)
  BY FedStep
<1> QED
  BY <1>1, <1>2, StreamInvariant, PTL DEF Spec, PageIsFed, Shown!Spec
=============================================================================
