---------------------------- MODULE TraceStream ----------------------------
(***************************************************************************)
(* One trace-log page and the streams it opens, from the hub to the lines  *)
(* on screen: the agent's TraceLog handler (internal/server), the gRPC     *)
(* stream, the UI's tracelogStream with its Recv goroutine and its SSE     *)
(* loop (internal/web/tracelog.go), the connection to the browser, and the *)
(* page's EventSource (templates/tracelog.html).                           *)
(*                                                                         *)
(* The hub is LineFeed, which TraceHub implements: a connection is one of  *)
(* its clients.  Connections are numbered as the page makes them; an older *)
(* one may still be on its way down while the next is up.                  *)
(***************************************************************************)
EXTENDS Naturals, Sequences

CONSTANTS MaxConns,  (* bound: how many requests the page makes *)
          MaxLines,  (* bound: how many lines the hub hands out *)
          Window,    (* how many events the gRPC stream holds *)
          Socket     (* how many messages the connection to the browser holds *)

ASSUME StreamAssumption ==
  /\ MaxConns \in Nat /\ MaxLines \in Nat
  /\ Window \in Nat \ {0} /\ Socket \in Nat \ {0}

VARIABLES
  written,   (* lines the hub handed out *)
  stream,    (* the hub: as in LineFeed, per connection *)
  offered,
  taken,     (* the last event TraceLog received from its subscription *)
  agent,     (* TraceLog: where it is, and the event it is sending *)
  cut,       (* its stream's context is done *)
  sent,      (* history: the last event it sent *)
  net,       (* events sent and not received *)
  status,    (* the stream's end is queued behind them *)
  down,      (* the connection to the agent has broken *)
  recv,      (* the Recv goroutine: where it is, and the event it hands over *)
  got,       (* history: the last event it received *)
  errs,      (* the errs channel holds an error *)
  loop,      (* tracelogStream: where it is, and the event it writes *)
  ctx,       (* r.Context() is done *)
  http,      (* the response, as the browser and the UI see it *)
  wire,      (* messages on their way to the browser *)
  es,        (* page: the connection its EventSource is on; 0 is null *)
  made,      (* requests made so far *)
  shown,     (* page: the last event it put on screen *)
  told       (* page: it was told "gone" *)

feed   == <<stream, offered, taken>>
rpc    == <<agent, cut, sent, net, status, down>>
bridge == <<recv, got, errs, loop, ctx>>
page   == <<es, made, shown, told>>
vars   == <<written, stream, offered, taken, agent, cut, sent, net, status, down,
            recv, got, errs, loop, ctx, http, wire, es, made, shown, told>>

Conns == 1..MaxConns
Lines == 1..MaxLines

Feed == INSTANCE LineFeed WITH Clients <- Conns, last <- taken

NoEvent == [line |-> 0, dropped |-> 0, at |-> 0]
Gone    == [NoEvent EXCEPT !.dropped = 1]   (* no event is line 0 *)
At(pc)  == [pc |-> pc, ev |-> NoEvent]

Init ==
  /\ written = 0
  /\ Feed!Init
  /\ agent = [k \in Conns |-> At("none")]
  /\ cut = [k \in Conns |-> FALSE]
  /\ sent = [k \in Conns |-> NoEvent]
  /\ net = [k \in Conns |-> <<>>]
  /\ status = [k \in Conns |-> FALSE]
  /\ down = [k \in Conns |-> FALSE]
  /\ recv = [k \in Conns |-> At("none")]
  /\ got = [k \in Conns |-> NoEvent]
  /\ errs = [k \in Conns |-> FALSE]
  /\ loop = [k \in Conns |-> At("none")]
  /\ ctx = [k \in Conns |-> FALSE]
  /\ http = [k \in Conns |-> "none"]
  /\ wire = [k \in Conns |-> <<>>]
  /\ es = 0
  /\ made = 0
  /\ shown = [k \in Conns |-> NoEvent]
  /\ told = [k \in Conns |-> FALSE]

-----------------------------------------------------------------------------
(* The hub, with the kernel behind it.                                     *)

HandOut ==
  /\ written < MaxLines
  /\ Feed!Offer(written + 1)
  /\ written' = written + 1
  /\ UNCHANGED <<rpc, bridge, http, wire, page>>

ReaderStops ==
  /\ Feed!End(Feed!In)
  /\ UNCHANGED <<written, rpc, bridge, http, wire, page>>

-----------------------------------------------------------------------------
(* The page.                                                               *)

Request ==
  /\ made < MaxConns
  /\ made' = made + 1
  /\ es' = made + 1
  /\ http' = [http EXCEPT ![made + 1] = "open"]
  /\ loop' = [loop EXCEPT ![made + 1] = At("opening")]
  /\ UNCHANGED <<written, feed, rpc, recv, got, errs, ctx, wire, shown, told>>

(* connect(): when the page loads, and on "resume". *)
Connect ==
  /\ es = 0
  /\ Request

(* EventSource's own: a response that ends is asked for again, one that was *)
(* refused is not.                                                          *)
Reconnect ==
  /\ es # 0
  /\ http[es] \in {"ended", "failed"}
  /\ wire[es] = <<>>
  /\ Request

(* stop(): on "pause", and when the tab is closed. *)
Leave(k) ==
  /\ es' = 0
  /\ http' = [http EXCEPT ![k] = "left"]

Pause ==
  /\ es # 0
  /\ Leave(es)
  /\ UNCHANGED <<written, feed, rpc, bridge, wire, made, shown, told>>

ShowEvent ==
  /\ es # 0
  /\ wire[es] # <<>>
  /\ Head(wire[es]) # Gone
  /\ shown' = [shown EXCEPT ![es] = Head(wire[es])]
  /\ wire' = [wire EXCEPT ![es] = Tail(wire[es])]
  /\ UNCHANGED <<written, feed, rpc, bridge, http, es, made, told>>

ShowGone ==
  /\ es # 0
  /\ wire[es] # <<>>
  /\ Head(wire[es]) = Gone
  /\ told' = [told EXCEPT ![es] = TRUE]
  /\ wire' = [wire EXCEPT ![es] = Tail(wire[es])]
  /\ Leave(es)
  /\ UNCHANGED <<written, feed, rpc, bridge, made, shown>>

(* The connection breaks, and what was on it is lost. *)
ConnectionFails(k) ==
  /\ http[k] = "open" \/ (http[k] = "ended" /\ wire[k] # <<>>)
  /\ http' = [http EXCEPT ![k] = "failed"]
  /\ wire' = [wire EXCEPT ![k] = <<>>]
  /\ UNCHANGED <<written, feed, rpc, bridge, page>>

-----------------------------------------------------------------------------
(* tracelogStream.                                                         *)

Broken(k) == http[k] \in {"left", "failed"}

(* net/http cancels a request whose connection is gone. *)
NoticeGone(k) ==
  /\ Broken(k)
  /\ loop[k].pc \notin {"none", "returned"}
  /\ ~ctx[k]
  /\ ctx' = [ctx EXCEPT ![k] = TRUE]
  /\ UNCHANGED <<written, feed, rpc, recv, got, errs, loop, http, wire, page>>

(* Returning ends the response and the request's context, and closes conn. *)
Return(k, answer) ==
  /\ loop' = [loop EXCEPT ![k] = At("returned")]
  /\ ctx' = [ctx EXCEPT ![k] = TRUE]
  /\ http' = [http EXCEPT ![k] = IF http[k] = "open" THEN answer ELSE http[k]]

(* dial or the call fails: 502. *)
OpenFails(k) ==
  /\ loop[k].pc = "opening"
  /\ Return(k, "refused")
  /\ UNCHANGED <<written, feed, rpc, recv, got, errs, wire, page>>

OpenStream(k) ==
  /\ loop[k].pc = "opening"
  /\ ~ctx[k]
  /\ loop' = [loop EXCEPT ![k] = At("select")]
  /\ recv' = [recv EXCEPT ![k] = At("recv")]
  /\ agent' = [agent EXCEPT ![k] = At("subscribing")]
  /\ UNCHANGED <<written, feed, cut, sent, net, status, down, got, errs, ctx, http, wire, page>>

(* The Recv goroutine. *)
Recv(k) ==
  /\ recv[k].pc = "recv"
  /\ net[k] # <<>>
  /\ recv' = [recv EXCEPT ![k] = [pc |-> "send", ev |-> Head(net[k])]]
  /\ got' = [got EXCEPT ![k] = Head(net[k])]
  /\ net' = [net EXCEPT ![k] = Tail(net[k])]
  /\ UNCHANGED <<written, feed, agent, cut, sent, status, down, errs, loop, ctx,
                 http, wire, page>>

(* Mutant: events is buffered, so the goroutine goes on to the error while  *)
(* an event still waits.                                                    *)
RecvFailsEarly(k) ==
  /\ recv[k].pc \in {"recv", "send"}
  /\ ctx[k] \/ (net[k] = <<>> /\ status[k])
  /\ errs' = [errs EXCEPT ![k] = TRUE]
  /\ recv' = [recv EXCEPT ![k] = At("done")]
  /\ UNCHANGED <<written, feed, rpc, got, loop, ctx, http, wire, page>>

RecvFails(k) ==
  /\ recv[k].pc = "recv"
  /\ ctx[k] \/ (net[k] = <<>> /\ status[k])
  /\ errs' = [errs EXCEPT ![k] = TRUE]
  /\ recv' = [recv EXCEPT ![k] = At("done")]
  /\ UNCHANGED <<written, feed, rpc, got, loop, ctx, http, wire, page>>

HandOver(k) ==
  /\ recv[k].pc = "send"
  /\ loop[k].pc = "select"
  /\ loop' = [loop EXCEPT ![k] = [pc |-> "write", ev |-> recv[k].ev]]
  /\ recv' = [recv EXCEPT ![k] = At("recv")]
  /\ UNCHANGED <<written, feed, rpc, got, errs, ctx, http, wire, page>>

(* Mutant: the goroutine does not watch the request's context. *)
RecvKeepsWaiting(k) == FALSE /\ UNCHANGED vars

RecvQuits(k) ==
  /\ recv[k].pc = "send"
  /\ ctx[k]
  /\ recv' = [recv EXCEPT ![k] = At("done")]
  /\ UNCHANGED <<written, feed, rpc, got, errs, loop, ctx, http, wire, page>>

(* The SSE loop.  A write waits for room; on a broken connection it fails,  *)
(* or still goes into a buffer nobody reads.                                *)
HasRoom(k) == http[k] = "open" /\ Len(wire[k]) < Socket

(* Mutant: a write that would wait is given up. *)
WriteLineOrNot(k) ==
  /\ loop[k].pc = "write"
  /\ loop' = [loop EXCEPT ![k] = At("select")]
  /\ wire' = IF HasRoom(k) THEN [wire EXCEPT ![k] = Append(wire[k], loop[k].ev)] ELSE wire
  /\ UNCHANGED <<written, feed, rpc, recv, got, errs, ctx, http, page>>

WriteLine(k) ==
  /\ loop[k].pc = "write"
  /\ \/ /\ HasRoom(k)
        /\ wire' = [wire EXCEPT ![k] = Append(wire[k], loop[k].ev)]
     \/ /\ Broken(k)
        /\ UNCHANGED wire
  /\ loop' = [loop EXCEPT ![k] = At("select")]
  /\ UNCHANGED <<written, feed, rpc, recv, got, errs, ctx, http, page>>

WriteFails(k) ==
  /\ loop[k].pc = "write"
  /\ Broken(k)
  /\ Return(k, "ended")
  /\ UNCHANGED <<written, feed, rpc, recv, got, errs, wire, page>>

(* r.Context() done, or a keepalive that cannot be written. *)
LoopDone(k) ==
  /\ loop[k].pc = "select"
  /\ ctx[k] \/ Broken(k)
  /\ Return(k, "ended")
  /\ UNCHANGED <<written, feed, rpc, recv, got, errs, wire, page>>

LoopGone(k) ==
  /\ loop[k].pc = "select"
  /\ errs[k]
  /\ errs' = [errs EXCEPT ![k] = FALSE]
  /\ loop' = [loop EXCEPT ![k] = At("gone")]
  /\ UNCHANGED <<written, feed, rpc, recv, got, ctx, http, wire, page>>

(* Mutant: the error only ends the response. *)
WriteNothing(k) ==
  /\ loop[k].pc = "gone"
  /\ Return(k, "ended")
  /\ UNCHANGED <<written, feed, rpc, recv, got, errs, wire, page>>

WriteGone(k) ==
  /\ loop[k].pc = "gone"
  /\ \/ /\ HasRoom(k)
        /\ wire' = [wire EXCEPT ![k] = Append(wire[k], Gone)]
     \/ /\ Broken(k)
        /\ UNCHANGED wire
  /\ Return(k, "ended")
  /\ UNCHANGED <<written, feed, rpc, recv, got, errs, page>>

-----------------------------------------------------------------------------
(* Server.TraceLog.                                                        *)

Serving(k) == agent[k].pc \notin {"none", "returned"}

(* The end of the request cancels the call, which ends the stream's context; *)
(* so does the loss of the connection, once the agent notices.               *)
CutArrives(k) ==
  /\ Serving(k)
  /\ ctx[k] \/ down[k]
  /\ ~cut[k]
  /\ cut' = [cut EXCEPT ![k] = TRUE]
  /\ UNCHANGED <<written, feed, agent, sent, net, status, down, bridge, http, wire, page>>

Subscribe(k) ==
  /\ agent[k].pc = "subscribing"
  /\ Feed!Attach(k)
  /\ agent' = [agent EXCEPT ![k] = At("select")]
  /\ UNCHANGED <<written, cut, sent, net, status, down, bridge, http, wire, page>>

(* What it returns reaches the other end unless the call was cancelled, or *)
(* has ended there already.                                                *)
AgentReturns(k) ==
  /\ agent' = [agent EXCEPT ![k] = At("returned")]
  /\ status' = [status EXCEPT ![k] = @ \/ ~cut[k]]
  /\ UNCHANGED <<written, cut, sent, net, down, bridge, http, wire, page>>

SubscribeFails(k) ==
  /\ agent[k].pc = "subscribing"
  /\ AgentReturns(k)
  /\ UNCHANGED feed

(* The deferred sub.Close. *)
Unsubscribe(k) ==
  \/ stream[k] = "in" /\ Feed!End({k})
  \/ stream[k] = "over" /\ UNCHANGED feed

TakeEvent(k) ==
  /\ agent[k].pc = "select"
  /\ Feed!Take(k)
  /\ agent' = [agent EXCEPT ![k] = [pc |-> "send", ev |-> taken'[k]]]
  /\ UNCHANGED <<written, cut, sent, net, status, down, bridge, http, wire, page>>

(* It waits for room.  On a connection that has broken it may go through all *)
(* the same, until the agent notices.                                        *)
Send(k) ==
  /\ agent[k].pc = "send"
  /\ \/ /\ ~down[k]
        /\ Len(net[k]) < Window
        /\ net' = [net EXCEPT ![k] = Append(net[k], agent[k].ev)]
     \/ /\ down[k]
        /\ UNCHANGED net
  /\ sent' = [sent EXCEPT ![k] = agent[k].ev]
  /\ agent' = [agent EXCEPT ![k] = At("select")]
  /\ UNCHANGED <<written, feed, cut, status, down, bridge, http, wire, page>>

SendFails(k) ==
  /\ agent[k].pc = "send"
  /\ cut[k]
  /\ Unsubscribe(k)
  /\ AgentReturns(k)

(* Mutant: TraceLog watches its subscription only. *)
NeverDone(k) == FALSE /\ UNCHANGED vars

AgentDone(k) ==
  /\ agent[k].pc = "select"
  /\ cut[k]
  /\ Unsubscribe(k)
  /\ AgentReturns(k)

(* The hub closed the channel: "trace_pipe reader stopped". *)
ReaderStopped(k) ==
  /\ agent[k].pc = "select"
  /\ stream[k] = "over"
  /\ UNCHANGED feed
  /\ AgentReturns(k)

-----------------------------------------------------------------------------
(* The connection from the UI to the agent, one for each request.          *)

Connected(k) == agent[k].pc # "none" /\ loop[k].pc # "returned" /\ ~down[k]

(* Of the events on their way a part arrives, and then Recv fails. *)
Break(gone) ==
  /\ down' = [k \in Conns |-> down[k] \/ k \in gone]
  /\ status' = [k \in Conns |-> status[k] \/ k \in gone]
  /\ \E part \in [Conns -> 0..Window] :
       /\ \A k \in Conns : part[k] <= Len(net[k]) /\ (k \notin gone => part[k] = Len(net[k]))
       /\ net' = [k \in Conns |-> SubSeq(net[k], 1, part[k])]

StreamBreaks(k) ==
  /\ Connected(k)
  /\ Break({k})
  /\ UNCHANGED <<written, feed, agent, cut, sent, bridge, http, wire, page>>

(* The agent dies and comes back, or cuts its calls off: every call it was  *)
(* serving is over, and its connections are gone.                           *)
AgentDies ==
  LET dead == {k \in Conns : Serving(k)} IN
  /\ dead # {}
  /\ agent' = [k \in Conns |-> IF k \in dead THEN At("returned") ELSE agent[k]]
  /\ Break({k \in Conns : Connected(k)})
  /\ Feed!End(Feed!In) \/ (Feed!In = {} /\ UNCHANGED feed)
  /\ UNCHANGED <<written, cut, sent, bridge, http, wire, page>>

-----------------------------------------------------------------------------
PageStep == Connect \/ Reconnect \/ Pause \/ ShowEvent \/ ShowGone

RecvStep(k) == Recv(k) \/ RecvFails(k) \/ HandOver(k) \/ RecvQuits(k)

LoopStep(k) ==
  \/ OpenFails(k) \/ OpenStream(k) \/ WriteLine(k) \/ WriteFails(k)
  \/ LoopDone(k) \/ LoopGone(k) \/ WriteGone(k)

AgentStep(k) ==
  \/ Subscribe(k) \/ SubscribeFails(k) \/ TakeEvent(k) \/ Send(k) \/ SendFails(k)
  \/ AgentDone(k) \/ ReaderStopped(k)

Next ==
  \/ HandOut \/ ReaderStops \/ AgentDies
  \/ PageStep
  \/ \E k \in Conns : \/ ConnectionFails(k) \/ NoticeGone(k) \/ CutArrives(k)
                      \/ StreamBreaks(k)
                      \/ RecvStep(k) \/ LoopStep(k) \/ AgentStep(k)

Spec == Init /\ [][Next]_vars

(* Goroutines that can run are run, a dropped connection and a cancelled    *)
(* call are noticed, and the browser delivers what it received.  Nothing    *)
(* makes the hub hand out lines, or anybody connect, pause or fail.         *)
Fairness ==
  /\ WF_vars(ShowEvent \/ ShowGone)
  /\ \A k \in Conns :
       /\ WF_vars(NoticeGone(k))
       /\ WF_vars(CutArrives(k))
       /\ WF_vars(RecvStep(k))
       /\ WF_vars(LoopStep(k))
       /\ WF_vars(AgentStep(k))
       /\ SF_vars(AgentDone(k) \/ ReaderStopped(k))

FairSpec == Spec /\ Fairness

-----------------------------------------------------------------------------
(* Safety.                                                                 *)

Events == [line : Lines, dropped : Nat, at : Nat \ {0}]
Held(pcs) == [pc : pcs, ev : Events \union {NoEvent}]

(* Every variable has its type.                                             *)
TypeOK ==
  /\ written \in 0..MaxLines
  /\ stream \in [Conns -> {"out", "in", "over"}]
  /\ offered \in [Conns -> Seq(Lines)]
  /\ taken \in [Conns -> Events \union {NoEvent}]
  /\ agent \in [Conns -> Held({"none", "subscribing", "select", "send", "returned"})]
  /\ cut \in [Conns -> BOOLEAN]
  /\ sent \in [Conns -> Events \union {NoEvent}]
  /\ net \in [Conns -> Seq(Events)]
  /\ status \in [Conns -> BOOLEAN]
  /\ down \in [Conns -> BOOLEAN]
  /\ recv \in [Conns -> Held({"none", "recv", "send", "done"})]
  /\ got \in [Conns -> Events \union {NoEvent}]
  /\ errs \in [Conns -> BOOLEAN]
  /\ loop \in [Conns -> Held({"none", "opening", "select", "write", "gone", "returned"})]
  /\ ctx \in [Conns -> BOOLEAN]
  /\ http \in [Conns -> {"none", "open", "ended", "refused", "left", "failed"}]
  /\ wire \in [Conns -> Seq(Events \union {Gone})]
  /\ es \in 0..made
  /\ made \in 0..MaxConns
  /\ shown \in [Conns -> Events \union {NoEvent}]
  /\ told \in [Conns -> BOOLEAN]

(* "gone" comes after the last line: when the page is told, it has shown    *)
(* every event that reached the UI, though lines and error reach the SSE    *)
(* loop over two channels (tracelog.go:66-83, 88-100).  Those are all the   *)
(* agent sent, unless the connection to it broke: what that took with it    *)
(* the page cannot know of.                                                 *)
GoneComesLast ==
  \A k \in Conns : told[k] => shown[k] = got[k] /\ (down[k] \/ shown[k] = sent[k])

(* Every connection is as it should be.                                     *)
StreamIsSound == TypeOK /\ GoneComesLast

(* What the page shows of a connection is what LineFeed promises a client:  *)
(* nothing is lost, doubled or reordered on the way through two goroutines, *)
(* two connections and two processes, and every gap is still told at its    *)
(* place (server.go:233-245, tracelog.go:66-110, tracelog.html:95-101).     *)
Shown == INSTANCE LineFeed WITH Clients <- Conns, last <- shown
PageIsFed == Shown!Spec

(* The page never reconnects by itself because the agent ended the stream,  *)
(* only when the connection to the UI broke (tracelog.html:102-107).        *)
NeverReconnectsIntoError ==
  [][es # 0 /\ es' \notin {0, es} => http[es] = "failed"]_vars

-----------------------------------------------------------------------------
(* Liveness.                                                               *)

(* "Closing the response ends the gRPC stream, which is what releases the   *)
(* node's trace_pipe" (tracelog.go:39-42).                                  *)
LeavingReleases ==
  \A k \in Conns : http[k] = "left" ~> ~Serving(k) /\ stream[k] # "in"

(* However the SSE loop ends, its Recv goroutine ends too                   *)
(* (tracelog.go:66-67).                                                     *)
RecvEnds ==
  \A k \in Conns : loop[k].pc = "returned" ~> recv[k].pc \in {"none", "done"}

(* When the agent's side ends, a page that is there is told.                *)
EndIsTold ==
  \A k \in Conns : status[k] ~> (told[k] \/ Broken(k))
=============================================================================
