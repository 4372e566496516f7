------------------------------ MODULE TraceHub ------------------------------
(***************************************************************************)
(* internal/tracelog: the Hub that fans one trace_pipe reader out to every *)
(* attached subscriber, its reader goroutines, and the pipeReader they     *)
(* poll.  Every critical section of Hub.mu is one action.  Outside the     *)
(* mutex a reader goroutine moves between its context check, its poll, the *)
(* lines its Scanner still holds, and its exit; any other goroutine may    *)
(* run between two of those.                                               *)
(*                                                                         *)
(* A client stands for one call of Hub.Subscribe and the Subscription it   *)
(* returned, so the ids that Hub.nextID hands out are the clients          *)
(* themselves.  A line is its place in what the kernel emitted.            *)
(***************************************************************************)
EXTENDS Naturals, Sequences, FiniteSets

CONSTANTS Clients,   (* the calls of Hub.Subscribe *)
          Buffer,    (* bufferSize(): how far a subscriber may fall behind *)
          Blank,     (* the lines that are blank *)
          MaxLines   (* bound: how many lines the kernel ever emits *)

ASSUME HubAssumption ==
  /\ IsFiniteSet(Clients)
  /\ Buffer \in Nat \ {0}
  /\ MaxLines \in Nat

VARIABLES
  written,   (* kernel: lines emitted so far *)
  drained,   (* kernel: lines some reader has taken; the pipe holds the rest *)
  client,    (* client[c]: "new", "refused", "open", or "gone" after Close *)
  subs,      (* Hub.subs *)
  stop,      (* Hub.stop: the generation whose reader it cancels; 0 is nil *)
  gen,       (* Hub.gen *)
  rd,        (* rd[g]: the reader goroutine of generation g *)
  closes,    (* closes[c]: how often close(c.ch) ran; a second one panics *)
  ch,        (* Subscription.ch *)
  dropped,   (* Subscription.dropped *)
  offered,   (* history: the lines broadcast while c was in subs *)
  last,      (* history: the last event c received *)
  home       (* history: the generation c attached under; 0 before *)

kernel  == <<written, drained>>
hub     == <<subs, stop, gen, closes, home>>
feed    == <<ch, dropped, offered>>
vars    == <<written, drained, client, subs, stop, gen, rd, closes,
             ch, dropped, offered, last, home>>

Lines == 1..MaxLines
Gens  == 1..gen

(* lo..hi are the lines a reader took from the pipe and has not scanned yet; *)
(* late is a history of the reads it made after it was cancelled.            *)
ReaderPCs == {"check", "poll", "scan", "ended", "closing", "closed"}
NewReader == [pc |-> "check", lo |-> 1, hi |-> 0, cancelled |-> FALSE, late |-> 0]

NoEvent == [line |-> 0, dropped |-> 0, at |-> 0]

Init ==
  /\ written = 0
  /\ drained = 0
  /\ client = [c \in Clients |-> "new"]
  /\ subs = {}
  /\ stop = 0
  /\ gen = 0
  /\ rd = <<>>
  /\ closes = [c \in Clients |-> 0]
  /\ ch = [c \in Clients |-> <<>>]
  /\ dropped = [c \in Clients |-> 0]
  /\ offered = [c \in Clients |-> <<>>]
  /\ last = [c \in Clients |-> NoEvent]
  /\ home = [c \in Clients |-> 0]

-----------------------------------------------------------------------------
(* The kernel's trace buffer, one for the node.                            *)

Emit ==
  /\ written < MaxLines
  /\ written' = written + 1
  /\ UNCHANGED <<drained, client, hub, rd, feed, last>>

-----------------------------------------------------------------------------
(* Hub.Subscribe: the first client opens the pipe and starts a reader; if  *)
(* the open fails the error goes to the caller and the hub is untouched.   *)

Join(c) ==
  /\ stop # 0
  /\ home' = [home EXCEPT ![c] = gen]
  /\ UNCHANGED <<stop, gen, rd>>

Start(c) ==
  /\ stop = 0
  /\ gen' = gen + 1
  /\ stop' = gen + 1
  /\ rd' = Append(rd, NewReader)
  /\ home' = [home EXCEPT ![c] = gen + 1]

Subscribe(c) ==
  /\ client[c] = "new"
  /\ Join(c) \/ Start(c)
  /\ subs' = subs \union {c}
  /\ client' = [client EXCEPT ![c] = "open"]
  /\ UNCHANGED <<kernel, closes, feed, last>>

OpenFails(c) ==
  /\ client[c] = "new"
  /\ stop = 0
  /\ client' = [client EXCEPT ![c] = "refused"]
  /\ UNCHANGED <<kernel, hub, rd, feed, last>>

(* A receive from Events(): buffered events come out even after the close. *)
Receive(c) ==
  /\ client[c] = "open"
  /\ ch[c] # <<>>
  /\ last' = [last EXCEPT ![c] = Head(ch[c])]
  /\ ch' = [ch EXCEPT ![c] = Tail(ch[c])]
  /\ UNCHANGED <<kernel, client, hub, rd, dropped, offered>>

-----------------------------------------------------------------------------
(* stop(): cancel the running reader's context, and forget it.             *)

(* Mutant: the cancel function is dropped without being called. *)
CancelNothing(readers) == readers

Cancel(readers) == [readers EXCEPT ![stop].cancelled = TRUE]

CloseChannels(S) == [c \in Clients |-> IF c \in S THEN closes[c] + 1 ELSE closes[c]]

(* Subscription.Close: unsubscribe does nothing for an id it does not hold. *)
Unsubscribe(c) ==
  /\ c \in subs
  /\ subs' = subs \ {c}
  /\ closes' = CloseChannels({c})
  /\ IF subs' = {} /\ stop # 0
     THEN stop' = 0 /\ rd' = Cancel(rd)
     ELSE UNCHANGED <<stop, rd>>

(* Mutant: the channel is closed whether or not the id is still held. *)
UnsubscribeAgain(c) ==
  /\ c \notin subs
  /\ closes' = CloseChannels({c})
  /\ UNCHANGED <<subs, stop, rd>>

UnsubscribeUnknown(c) ==
  /\ c \notin subs
  /\ UNCHANGED <<subs, closes, stop, rd>>

Close(c) ==
  /\ client[c] = "open"
  /\ client' = [client EXCEPT ![c] = "gone"]
  /\ Unsubscribe(c) \/ UnsubscribeUnknown(c)
  /\ UNCHANGED <<kernel, gen, home, feed, last>>

-----------------------------------------------------------------------------
(* The reader goroutine.  pipeReader.Read looks at its context only at the *)
(* top of its loop, so a reader cancelled after that still polls and reads *)
(* once more, and its Scanner hands out every line of that read.           *)

MoveTo(g, pc) == rd' = [rd EXCEPT ![g].pc = pc]

(* Mutant: Read polls again without looking at its context. *)
NeverCheckContext(g) ==
  /\ rd[g].pc = "check"
  /\ MoveTo(g, "poll")
  /\ UNCHANGED <<kernel, client, hub, feed, last>>

CheckContext(g) ==
  /\ rd[g].pc = "check"
  /\ MoveTo(g, IF rd[g].cancelled THEN "ended" ELSE "poll")
  /\ UNCHANGED <<kernel, client, hub, feed, last>>

(* poll times out, or is interrupted, or another reader took the line first. *)
PollAgain(g) ==
  /\ rd[g].pc = "poll"
  /\ MoveTo(g, "check")
  /\ UNCHANGED <<kernel, client, hub, feed, last>>

Took(r, n) ==
  [r EXCEPT !.pc = "scan", !.lo = drained + 1, !.hi = n,
            !.late = IF r.cancelled THEN r.late + 1 ELSE r.late]

(* One read takes as many of the waiting lines as the kernel hands over. *)
ReadLines(g) ==
  /\ rd[g].pc = "poll"
  /\ \E n \in (drained + 1) .. written :
       /\ drained' = n
       /\ rd' = [rd EXCEPT ![g] = Took(rd[g], n)]
  /\ UNCHANGED <<written, client, hub, feed, last>>

(* poll reports no POLLIN, or poll or read fails: the pipe is gone. *)
PipeFails(g) ==
  /\ rd[g].pc = "poll"
  /\ MoveTo(g, "ended")
  /\ UNCHANGED <<kernel, client, hub, feed, last>>

HasRoom(c) == Len(ch[c]) < Buffer

(* Mutant: a delivered event does not reset the subscriber's count. *)
BroadcastKeepsCount(line) ==
  /\ ch' = [c \in Clients |->
              IF c \in subs /\ HasRoom(c)
              THEN Append(ch[c], [line |-> line, dropped |-> dropped[c],
                                  at |-> Len(offered[c]) + 1])
              ELSE ch[c]]
  /\ dropped' = [c \in Clients |-> IF c \in subs /\ ~HasRoom(c)
                                   THEN dropped[c] + 1 ELSE dropped[c]]
  /\ offered' = [c \in Clients |-> IF c \in subs THEN Append(offered[c], line)
                                                 ELSE offered[c]]

(* Mutant: a line that finds the buffer full is lost without being counted. *)
BroadcastUncounted(line) ==
  /\ ch' = [c \in Clients |->
              IF c \in subs /\ HasRoom(c)
              THEN Append(ch[c], [line |-> line, dropped |-> 0,
                                  at |-> Len(offered[c]) + 1])
              ELSE ch[c]]
  /\ offered' = [c \in Clients |-> IF c \in subs THEN Append(offered[c], line)
                                                 ELSE offered[c]]
  /\ UNCHANGED dropped

(* Hub.broadcast: a send that never blocks; a full buffer counts the loss. *)
Broadcast(line) ==
  /\ ch' = [c \in Clients |->
              IF c \in subs /\ HasRoom(c)
              THEN Append(ch[c], [line |-> line, dropped |-> dropped[c],
                                  at |-> Len(offered[c]) + 1])
              ELSE ch[c]]
  /\ dropped' = [c \in Clients |->
                   IF c \notin subs THEN dropped[c]
                   ELSE IF HasRoom(c) THEN 0 ELSE dropped[c] + 1]
  /\ offered' = [c \in Clients |-> IF c \in subs THEN Append(offered[c], line)
                                                 ELSE offered[c]]

Scanned(r) == [r EXCEPT !.lo = r.lo + 1,
                        !.pc = IF r.lo = r.hi THEN "check" ELSE "scan"]

(* Hub.read's loop body, for the next line its Scanner holds. *)
ScanLine(g) ==
  /\ rd[g].pc = "scan"
  /\ IF rd[g].lo \in Blank THEN UNCHANGED feed ELSE Broadcast(rd[g].lo)
  /\ rd' = [rd EXCEPT ![g] = Scanned(rd[g])]
  /\ UNCHANGED <<kernel, client, hub, last>>

(* Mutants: h.stop not reset; no channel closed. *)
TearDownKeepsStop(g) ==
  /\ g = gen
  /\ subs' = {}
  /\ closes' = CloseChannels(subs)
  /\ MoveTo(g, "closing")
  /\ UNCHANGED stop

TearDownInSilence(g) ==
  /\ g = gen
  /\ subs' = {}
  /\ stop' = 0
  /\ MoveTo(g, "closing")
  /\ UNCHANGED closes

(* Hub.readerDone; rc.Close is deferred until after it. *)
TearDown(g) ==
  /\ g = gen
  /\ subs' = {}
  /\ closes' = CloseChannels(subs)
  /\ stop' = 0
  /\ rd' = [IF stop # 0 THEN Cancel(rd) ELSE rd EXCEPT ![g].pc = "closing"]

(* Mutant: readerDone without its generation check. *)
SupersededTearsDown(g) ==
  /\ g # gen
  /\ subs' = {}
  /\ closes' = CloseChannels(subs)
  /\ stop' = 0
  /\ MoveTo(g, "closing")

Superseded(g) ==
  /\ g # gen
  /\ MoveTo(g, "closing")
  /\ UNCHANGED <<subs, closes, stop>>

ReaderDone(g) ==
  /\ rd[g].pc = "ended"
  /\ TearDown(g) \/ Superseded(g)
  /\ UNCHANGED <<kernel, client, gen, home, feed, last>>

ClosePipe(g) ==
  /\ rd[g].pc = "closing"
  /\ MoveTo(g, "closed")
  /\ UNCHANGED <<kernel, client, hub, feed, last>>

-----------------------------------------------------------------------------
ClientStep(c) == Subscribe(c) \/ OpenFails(c) \/ Receive(c) \/ Close(c)

ReaderStep(g) ==
  \/ CheckContext(g) \/ PollAgain(g) \/ ReadLines(g) \/ PipeFails(g)
  \/ ScanLine(g) \/ ReaderDone(g) \/ ClosePipe(g)

Next ==
  \/ Emit
  \/ \E c \in Clients : ClientStep(c)
  \/ \E g \in Gens : ReaderStep(g)

Spec == Init /\ [][Next]_vars

(* Each generation needs a subscription of its own to start it. *)
PossibleGens == 1..Cardinality(Clients)

(* A goroutine that can run is run; a poll returns within its timeout; and  *)
(* a reader that keeps finding lines is not beaten to them or interrupted   *)
(* for ever.  Nothing obliges the kernel to write, the pipe to fail, or a   *)
(* client to come, to receive, or to leave.                                 *)
Fairness ==
  \A g \in PossibleGens :
    /\ WF_vars(g \in Gens /\ (CheckContext(g) \/ ScanLine(g)))
    /\ WF_vars(g \in Gens /\ (ReaderDone(g) \/ ClosePipe(g)))
    /\ WF_vars(g \in Gens /\ (PollAgain(g) \/ ReadLines(g) \/ PipeFails(g)))
    /\ SF_vars(g \in Gens /\ ReadLines(g))

FairSpec == Spec /\ Fairness

-----------------------------------------------------------------------------
(* Safety.                                                                 *)

Events  == [line : Lines, dropped : Nat, at : Nat \ {0}]
Readers == [pc : ReaderPCs, lo : Nat, hi : Nat, cancelled : BOOLEAN, late : Nat]

(* Every variable has its type, and Hub.gen counts the readers ever started *)
(* (hub.go:83-85), so a reader's number names it for good.                  *)
TypeOK ==
  /\ written \in 0..MaxLines
  /\ drained \in 0..written
  /\ client \in [Clients -> {"new", "refused", "open", "gone"}]
  /\ subs \in SUBSET Clients
  /\ rd \in Seq(Readers)
  /\ gen = Len(rd)
  /\ stop \in {0, gen}
  /\ closes \in [Clients -> Nat]
  /\ ch \in [Clients -> Seq(Events)]
  /\ dropped \in [Clients -> Nat]
  /\ offered \in [Clients -> Seq(Lines)]
  /\ last \in [Clients -> Events \union {NoEvent}]
  /\ home \in [Clients -> 0..gen]

(* What a reader's Scanner still holds are lines it took from the pipe.     *)
ScansWhatItTook ==
  \A g \in Gens : rd[g].pc = "scan" => 1 <= rd[g].lo /\ rd[g].lo <= rd[g].hi
                                     /\ rd[g].hi <= drained

(* The hub never panics: no channel is closed twice, and a channel that     *)
(* broadcast may still send on, that of a client in subs, is open           *)
(* (hub.go:110-111, 145, 167-170), whichever of a client's own Close and    *)
(* its reader's exit comes first.                                           *)
NoPanic == \A c \in Clients : closes[c] <= (IF c \in subs THEN 0 ELSE 1)

(* The hub keeps its types, and never panics.                               *)
HubIsSound == TypeOK /\ NoPanic

(* The hub holds a reader exactly while somebody is attached, and whoever   *)
(* is attached listens to the newest one, which is neither cancelled nor    *)
(* through with readerDone: no client waits on a reader that is gone.       *)
AttachedHasReader ==
  /\ stop = (IF subs = {} THEN 0 ELSE gen)
  /\ \A c \in subs : /\ client[c] = "open"
                     /\ home[c] = gen
                     /\ ~rd[gen].cancelled
                     /\ rd[gen].pc \notin {"closing", "closed"}

(* Cancelling is prompt (pipe.go:14-16, 18-22): a reader that was cancelled *)
(* takes lines from the node at most once more.                             *)
LateReadAtMostOnce == \A g \in Gens : rd[g].late <= 1

(* Event.Dropped and Subscription.dropped account for every line a client   *)
(* was offered: each event tells exactly the lines missed since the event   *)
(* before it, and the running count the lines missed since the last one     *)
(* (hub.go:19-24, 143-150).                                                 *)
GapAccounting ==
  \A c \in Clients :
    LET evs == <<last[c]>> \o ch[c] IN
    /\ \A i \in 2..Len(evs) :
         /\ evs[i].at = evs[i-1].at + evs[i].dropped + 1
         /\ evs[i].line = offered[c][evs[i].at]
    /\ Len(offered[c]) = evs[Len(evs)].at + dropped[c]

(* The generation check of readerDone: a client that did not leave by       *)
(* itself loses its stream only to the exit of the reader it attached to,   *)
(* never to that of an older one still on its way out (hub.go:153-162).     *)
EndedByOwnReader ==
  [][\A c \in subs \ subs' :
        client'[c] = "open" => rd[home[c]].pc = "ended"]_vars

-----------------------------------------------------------------------------
(* What the package promises its clients.                                  *)

Stream == [c \in Clients |-> IF c \in subs THEN "in"
                             ELSE IF closes[c] = 0 THEN "out" ELSE "over"]

Feed == INSTANCE LineFeed WITH stream <- Stream

(* The hub implements the feed: same lines in the same order for all who    *)
(* are attached, none offered twice even while two readers overlap, every   *)
(* loss reported, no stream restarted.                                      *)
ImplementsFeed == Feed!Spec

-----------------------------------------------------------------------------
(* Liveness.                                                               *)

Open == {g \in Gens : rd[g].pc # "closed"}

(* A reader the hub has let go of stops draining the node: it ends and      *)
(* closes the pipe (hub.go:58-59, 113-117; pipe.go:18-22).                  *)
ReaderLetGoCloses ==
  \A g \in PossibleGens : (g \in Gens /\ stop # g) ~> (g \in Gens \ Open)

(* When a reader stops by itself every client still attached is told, by    *)
(* the close of its channel (hub.go:53-56, 153-155).                        *)
ReaderExitIsTold ==
  \A c \in Clients :
    (c \in subs /\ rd[home[c]].pc = "ended") ~> (closes[c] = 1)

(* While somebody is attached the pipe is drained: waiting lines are read,  *)
(* or the reader's end leaves nobody attached (hub.go:120-137).             *)
AttachedMeansDrained ==
  (subs # {} /\ drained < written) ~> (drained = written \/ subs = {})

(* Nobody attached is left waiting on a pipe that nobody reads.             *)
AttachedAreServed == AttachedMeansDrained /\ ReaderExitIsTold
=============================================================================
