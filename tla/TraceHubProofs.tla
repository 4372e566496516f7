--------------------------- MODULE TraceHubProofs ---------------------------
(***************************************************************************)
(* Proofs about TraceHub, for any set of clients, buffer and lines: its     *)
(* own invariants, the accounting of dropped lines, and that it implements *)
(* LineFeed.                                                               *)
(***************************************************************************)
EXTENDS TraceHub, SequenceTheorems, TLAPS

TypeInv == TypeOK /\ ScansWhatItTook

(* A step that replaces one reader's record by another keeps the readers a  *)
(* sequence of records, one per generation.                                 *)
LEMMA OneReaderMoves ==
  ASSUME TypeOK, NEW g \in Gens, NEW r \in Readers,
         rd' = [rd EXCEPT ![g] = r]
  PROVE  /\ rd' \in Seq(Readers)
         /\ Len(rd') = gen
         /\ rd'[g] = r
         /\ \A h \in Gens : h # g => rd'[h] = rd[h]
  BY ExceptSeq DEF TypeOK, Gens

LEMMA MoveToMoves ==
  ASSUME TypeOK, NEW g \in Gens, NEW pc \in ReaderPCs, MoveTo(g, pc)
  PROVE  /\ rd' \in Seq(Readers)
         /\ Len(rd') = gen
         /\ rd'[g] = [rd[g] EXCEPT !.pc = pc]
         /\ \A h \in Gens : h # g => rd'[h] = rd[h]
<1>1. rd[g] \in Readers
  BY ElementOfSeq DEF TypeOK, Gens
<1>2. [rd[g] EXCEPT !.pc = pc] \in Readers
  BY <1>1 DEF Readers
<1>3. rd' = [rd EXCEPT ![g] = [rd[g] EXCEPT !.pc = pc]]
  BY DEF MoveTo
<1> QED
  BY <1>2, <1>3, OneReaderMoves

(* stop() changes nothing but one reader's cancelled flag.                  *)
LEMMA CancelMoves ==
  ASSUME TypeOK, stop # 0
  PROVE  /\ stop \in Gens
         /\ Cancel(rd) \in Seq(Readers)
         /\ Len(Cancel(rd)) = gen
         /\ Cancel(rd)[stop] = [rd[stop] EXCEPT !.cancelled = TRUE]
         /\ \A h \in Gens : h # stop => Cancel(rd)[h] = rd[h]
<1> DEFINE r == [rd[stop] EXCEPT !.cancelled = TRUE]
<1>1. stop \in Gens
  BY LenProperties DEF TypeOK, Gens
<1>2. rd[stop] \in Readers
  BY <1>1, ElementOfSeq DEF TypeOK, Gens
<1>3. r \in Readers
  BY <1>2 DEF Readers
<1>4. Cancel(rd) = [rd EXCEPT ![stop] = r]
  BY DEF Cancel
<1>5. /\ Cancel(rd) \in Seq(Readers)
      /\ Len(Cancel(rd)) = gen
      /\ Cancel(rd)[stop] = r
      /\ \A h \in Gens : h # stop => Cancel(rd)[h] = rd[h]
  <2> HIDE DEF r
  <2> QED
    BY <1>1, <1>3, <1>4, ExceptSeq DEF TypeOK, Gens
<1> QED
  BY <1>1, <1>5

(* What readerDone does to the readers when it tears the hub down.          *)
LEMMA TearDownMoves ==
  ASSUME TypeOK, NEW g \in Gens, TearDown(g)
  PROVE  /\ rd' \in Seq(Readers)
         /\ Len(rd') = gen
         /\ \A h \in Gens : h # g => rd'[h] = rd[h]
         /\ rd'[g].pc = "closing"
         /\ rd'[g].late = rd[g].late
         /\ rd'[g].cancelled = (rd[g].cancelled \/ stop # 0)
<1> DEFINE mid == IF stop # 0 THEN Cancel(rd) ELSE rd
<1>1. /\ mid \in Seq(Readers)
      /\ Len(mid) = gen
      /\ \A h \in Gens : h # g => mid[h] = rd[h]
      /\ mid[g] = [rd[g] EXCEPT !.cancelled = (rd[g].cancelled \/ stop # 0)]
  <2>1. rd[g] \in Readers
    BY ElementOfSeq DEF TypeOK, Gens
  <2>2. CASE stop = 0
    BY <2>1, <2>2 DEF TypeOK, Readers
  <2>3. CASE stop # 0
    <3>1. stop = g
      BY <2>3 DEF TypeOK, TearDown
    <3> QED
      BY <2>1, <2>3, <3>1, CancelMoves DEF Readers
  <2> QED
    BY <2>2, <2>3
<1>2. rd' = [mid EXCEPT ![g] = [mid[g] EXCEPT !.pc = "closing"]]
  BY DEF TearDown
<1>3. mid[g] \in Readers
  BY <1>1, ElementOfSeq DEF Gens
<1>4. [mid[g] EXCEPT !.pc = "closing"] \in Readers
  BY <1>3 DEF Readers, ReaderPCs
<1>5. /\ rd' \in Seq(Readers)
      /\ Len(rd') = gen
      /\ \A h \in Gens : rd'[h] = IF h = g THEN [mid[g] EXCEPT !.pc = "closing"] ELSE mid[h]
  <2> HIDE DEF mid
  <2> QED
    BY <1>1, <1>2, <1>4, ExceptSeq DEF Gens
<1>6. rd[g] \in Readers
  BY ElementOfSeq DEF TypeOK, Gens
<1> QED
  <2>1. mid[g] = [rd[g] EXCEPT !.cancelled = (rd[g].cancelled \/ stop # 0)]
    BY <1>1
  <2>2. rd'[g] = [mid[g] EXCEPT !.pc = "closing"]
    BY <1>5
  <2>3. \A h \in Gens : h # g => rd'[h] = rd[h]
    BY <1>1, <1>5
  <2> HIDE DEF mid
  <2> QED
    BY <1>5, <1>6, <2>1, <2>2, <2>3 DEF Readers

LEMMA NewReaderIsReader == NewReader \in Readers
  BY DEF NewReader, Readers, ReaderPCs

(* Appending a reader numbers it gen + 1 and leaves the others alone.       *)
LEMMA StartMoves ==
  ASSUME TypeOK, NEW c, Start(c)
  PROVE  /\ rd' \in Seq(Readers)
         /\ Len(rd') = gen + 1
         /\ rd'[gen + 1] = NewReader
         /\ \A h \in Gens : rd'[h] = rd[h]
  BY NewReaderIsReader, AppendProperties DEF TypeOK, Gens, Start

(* A channel and the history of its lines keep their types when a line is   *)
(* broadcast.                                                               *)
LEMMA BroadcastType ==
  ASSUME TypeOK, NEW line \in Lines, Broadcast(line)
  PROVE  /\ ch' \in [Clients -> Seq(Events)]
         /\ dropped' \in [Clients -> Nat]
         /\ offered' \in [Clients -> Seq(Lines)]
<1>1. ASSUME NEW c \in Clients
      PROVE  /\ Append(ch[c], [line |-> line, dropped |-> dropped[c],
                               at |-> Len(offered[c]) + 1]) \in Seq(Events)
             /\ Append(offered[c], line) \in Seq(Lines)
  <2>1. ch[c] \in Seq(Events) /\ offered[c] \in Seq(Lines) /\ dropped[c] \in Nat
    BY DEF TypeOK
  <2>2. Len(offered[c]) \in Nat
    BY <2>1, LenProperties
  <2>3. [line |-> line, dropped |-> dropped[c], at |-> Len(offered[c]) + 1] \in Events
    BY <2>1, <2>2 DEF Events
  <2> QED
    BY <2>1, <2>3, AppendProperties
<1>2. ch' \in [Clients -> Seq(Events)]
  BY <1>1 DEF Broadcast, TypeOK
<1>3. dropped' \in [Clients -> Nat]
  BY DEF Broadcast, TypeOK
<1>4. offered' \in [Clients -> Seq(Lines)]
  BY <1>1 DEF Broadcast, TypeOK
<1> QED
  BY <1>2, <1>3, <1>4

(* A reader's record after a read, and after a line of it was scanned.      *)
LEMMA TookIsReader ==
  ASSUME TypeOK, NEW r \in Readers, NEW n \in (drained + 1) .. written
  PROVE  /\ Took(r, n) \in Readers
         /\ Took(r, n).pc = "scan"
         /\ Took(r, n).lo = drained + 1
         /\ Took(r, n).hi = n
         /\ Took(r, n).cancelled = r.cancelled
         /\ Took(r, n).late = IF r.cancelled THEN r.late + 1 ELSE r.late
<1> DEFINE late == IF r.cancelled THEN r.late + 1 ELSE r.late
<1>1. drained \in Nat /\ n \in Nat
  BY HubAssumption DEF TypeOK
<1>2. late \in Nat
  BY DEF Readers
<1>3. Took(r, n) = [r EXCEPT !.pc = "scan", !.lo = drained + 1, !.hi = n, !.late = late]
  BY DEF Took
<1> HIDE DEF late
<1>4. Took(r, n) = [pc |-> "scan", lo |-> drained + 1, hi |-> n,
                    cancelled |-> r.cancelled, late |-> late]
  BY <1>3 DEF Readers
<1>5. r.cancelled \in BOOLEAN
  BY DEF Readers
<1>6. Took(r, n) \in Readers
  BY <1>1, <1>2, <1>4, <1>5 DEF Readers, ReaderPCs
<1> QED
  BY <1>4, <1>6 DEF late

LEMMA ScannedIsReader ==
  ASSUME NEW r \in Readers
  PROVE  /\ Scanned(r) \in Readers
         /\ Scanned(r).pc = IF r.lo = r.hi THEN "check" ELSE "scan"
         /\ Scanned(r).lo = r.lo + 1
         /\ Scanned(r).hi = r.hi
         /\ Scanned(r).cancelled = r.cancelled
         /\ Scanned(r).late = r.late
<1> DEFINE pc == IF r.lo = r.hi THEN "check" ELSE "scan"
<1>1. pc \in ReaderPCs
  BY DEF ReaderPCs
<1>2. Scanned(r) = [r EXCEPT !.lo = r.lo + 1, !.pc = pc]
  BY DEF Scanned
<1> HIDE DEF pc
<1>3. Scanned(r) = [pc |-> pc, lo |-> r.lo + 1, hi |-> r.hi,
                    cancelled |-> r.cancelled, late |-> r.late]
  BY <1>2 DEF Readers
<1>4. Scanned(r) \in Readers
  BY <1>1, <1>3 DEF Readers
<1> QED
  BY <1>3, <1>4 DEF pc

(* A step that gives no reader lines to scan that it did not hold before.   *)
ReadersKeepLines ==
  \A g \in Gens' : rd'[g].pc = "scan" =>
    /\ g \in Gens /\ rd[g].pc = "scan"
    /\ rd'[g].lo = rd[g].lo /\ rd'[g].hi = rd[g].hi

LEMMA KeptScans ==
  ASSUME ScansWhatItTook, ReadersKeepLines, drained' = drained
  PROVE  ScansWhatItTook'
  BY DEF ScansWhatItTook, ReadersKeepLines

LEMMA TypeInit == Init => TypeInv
  BY HubAssumption DEF Init, TypeInv, TypeOK, ScansWhatItTook, NoEvent, Gens

LEMMA TypeStep == TypeInv /\ [Next]_vars => TypeInv'
<1> SUFFICES ASSUME TypeOK, ScansWhatItTook, [Next]_vars
             PROVE  TypeOK' /\ ScansWhatItTook'
  BY DEF TypeInv
<1> USE HubAssumption
<1>1. CASE Emit
  <2>1. /\ written < MaxLines /\ written' = written + 1
        /\ UNCHANGED <<drained, client, hub, rd, feed, last>>
    BY <1>1 DEF Emit
  <2>2. written' \in 0..MaxLines /\ drained' \in 0..written'
    BY <2>1 DEF TypeOK
  <2>3. TypeOK'
    BY <2>1, <2>2 DEF hub, feed, TypeOK
  <2>4. ScansWhatItTook'
    BY <2>1 DEF hub, ScansWhatItTook, Gens
  <2> QED
    BY <2>3, <2>4
<1>2. ASSUME NEW c \in Clients, Subscribe(c)
      PROVE  TypeOK' /\ ScansWhatItTook'
  <2>1. CASE Join(c)
    BY <1>2, <2>1 DEF Subscribe, Join, kernel, feed, TypeOK, ScansWhatItTook, Gens
  <2>2. CASE Start(c)
    <3>1. /\ rd' \in Seq(Readers)
          /\ Len(rd') = gen + 1
          /\ rd'[gen + 1] = NewReader
          /\ \A h \in Gens : rd'[h] = rd[h]
      BY <2>2, StartMoves
    <3>2. gen \in Nat /\ gen' = gen + 1
      BY <2>2, LenProperties DEF TypeOK, Start
    <3>3. TypeOK'
      BY <1>2, <2>2, <3>1, <3>2 DEF Subscribe, Start, kernel, feed, TypeOK
    <3>4. ReadersKeepLines
      BY <3>1, <3>2 DEF ReadersKeepLines, Gens, NewReader
    <3>5. drained' = drained
      BY <1>2 DEF Subscribe, kernel
    <3> QED
      BY <3>3, <3>4, <3>5, KeptScans
  <2> QED
    BY <1>2, <2>1, <2>2 DEF Subscribe
<1>3. ASSUME NEW c \in Clients, OpenFails(c)
      PROVE  TypeOK' /\ ScansWhatItTook'
  BY <1>3 DEF OpenFails, kernel, hub, feed, TypeOK, ScansWhatItTook, Gens
<1>4. ASSUME NEW c \in Clients, Receive(c)
      PROVE  TypeOK' /\ ScansWhatItTook'
  <2>1. Head(ch[c]) \in Events /\ Tail(ch[c]) \in Seq(Events)
    BY <1>4, HeadTailProperties DEF Receive, TypeOK
  <2>2. TypeOK'
    BY <1>4, <2>1 DEF Receive, kernel, hub, TypeOK
  <2> QED
    BY <1>4, <2>2 DEF Receive, kernel, hub, ScansWhatItTook, Gens
<1>5. ASSUME NEW c \in Clients, Close(c)
      PROVE  TypeOK' /\ ScansWhatItTook'
  <2>1. CASE stop # 0 /\ rd' = Cancel(rd) /\ stop' = 0 /\ Unsubscribe(c)
    <3>1. /\ stop \in Gens
          /\ rd' \in Seq(Readers)
          /\ Len(rd') = gen
          /\ rd'[stop] = [rd[stop] EXCEPT !.cancelled = TRUE]
          /\ \A h \in Gens : h # stop => rd'[h] = rd[h]
      BY <2>1, CancelMoves
    <3>2. TypeOK'
      BY <1>5, <2>1, <3>1 DEF Close, Unsubscribe, CloseChannels, kernel, feed, TypeOK
    <3>3. rd[stop] \in Readers
      BY <3>1, ElementOfSeq DEF TypeOK, Gens
    <3>4. rd'[stop].pc = rd[stop].pc /\ rd'[stop].lo = rd[stop].lo /\ rd'[stop].hi = rd[stop].hi
      BY <3>1, <3>3 DEF Readers
    <3>5. gen' = gen /\ drained' = drained
      BY <1>5 DEF Close, kernel
    <3>6. ReadersKeepLines
      BY <3>1, <3>4, <3>5 DEF ReadersKeepLines, Gens
    <3> QED
      BY <3>2, <3>5, <3>6, KeptScans
  <2>2. CASE Unsubscribe(c) /\ UNCHANGED <<stop, rd>>
    <3>1. TypeOK'
      BY <1>5, <2>2 DEF Close, Unsubscribe, CloseChannels, kernel, feed, TypeOK
    <3>2. gen' = gen /\ drained' = drained /\ rd' = rd
      BY <1>5, <2>2 DEF Close, kernel
    <3> QED
      BY <3>1, <3>2 DEF ScansWhatItTook, Gens
  <2>3. CASE UnsubscribeUnknown(c)
    <3>1. TypeOK'
      BY <1>5, <2>3 DEF Close, UnsubscribeUnknown, kernel, feed, TypeOK
    <3>2. gen' = gen /\ drained' = drained /\ rd' = rd
      BY <1>5, <2>3 DEF Close, UnsubscribeUnknown, kernel
    <3> QED
      BY <3>1, <3>2 DEF ScansWhatItTook, Gens
  <2> QED
    BY <1>5, <2>1, <2>2, <2>3 DEF Close, Unsubscribe
<1>6. ASSUME NEW g \in Gens, NEW pc \in ReaderPCs \ {"scan"}, MoveTo(g, pc),
             UNCHANGED <<kernel, client, hub, feed, last>>
      PROVE  TypeOK' /\ ScansWhatItTook'
  <2>1. /\ rd' \in Seq(Readers)
        /\ Len(rd') = gen
        /\ rd'[g] = [rd[g] EXCEPT !.pc = pc]
        /\ \A h \in Gens : h # g => rd'[h] = rd[h]
    BY <1>6, MoveToMoves
  <2>2. rd[g] \in Readers
    BY ElementOfSeq DEF TypeOK, Gens
  <2>3. TypeOK'
    BY <1>6, <2>1 DEF kernel, hub, feed, TypeOK
  <2>4. gen' = gen /\ drained' = drained
    BY <1>6 DEF kernel, hub
  <2>5. rd'[g].pc = pc
    BY <2>1, <2>2 DEF Readers
  <2>6. ReadersKeepLines
    BY <1>6, <2>1, <2>4, <2>5 DEF ReadersKeepLines, Gens
  <2> QED
    BY <2>3, <2>4, <2>6, KeptScans
<1>7. ASSUME NEW g \in Gens, CheckContext(g)
      PROVE  TypeOK' /\ ScansWhatItTook'
  BY <1>6, <1>7 DEF CheckContext, ReaderPCs
<1>8. ASSUME NEW g \in Gens, PollAgain(g)
      PROVE  TypeOK' /\ ScansWhatItTook'
  BY <1>6, <1>8 DEF PollAgain, ReaderPCs
<1>9. ASSUME NEW g \in Gens, PipeFails(g)
      PROVE  TypeOK' /\ ScansWhatItTook'
  BY <1>6, <1>9 DEF PipeFails, ReaderPCs
<1>10. ASSUME NEW g \in Gens, ClosePipe(g)
       PROVE  TypeOK' /\ ScansWhatItTook'
  BY <1>6, <1>10 DEF ClosePipe, ReaderPCs
<1>11. ASSUME NEW g \in Gens, ReadLines(g)
       PROVE  TypeOK' /\ ScansWhatItTook'
  <2>1. rd[g] \in Readers
    BY ElementOfSeq DEF TypeOK, Gens
  <2>2. PICK n \in (drained + 1) .. written :
          /\ drained' = n
          /\ rd' = [rd EXCEPT ![g] = Took(rd[g], n)]
    BY <1>11 DEF ReadLines
  <2> DEFINE r == Took(rd[g], n)
  <2>3. r \in Readers /\ r.pc = "scan" /\ r.lo = drained + 1 /\ r.hi = n
    BY <2>1, <2>2, TookIsReader
  <2>4. rd' = [rd EXCEPT ![g] = r]
    BY <2>2
  <2> HIDE DEF r
  <2>5. /\ rd' \in Seq(Readers)
        /\ Len(rd') = gen
        /\ rd'[g] = r
        /\ \A h \in Gens : h # g => rd'[h] = rd[h]
    BY <2>3, <2>4, OneReaderMoves
  <2>6. TypeOK'
    BY <1>11, <2>2, <2>5 DEF ReadLines, hub, feed, TypeOK
  <2>7. ScansWhatItTook'
    <3>1. drained \in Nat /\ drained' = n /\ n \in Nat /\ drained + 1 <= n /\ gen' = gen
      BY <1>11, <2>2 DEF ReadLines, hub, TypeOK
    <3>2. ASSUME NEW h \in Gens, rd'[h].pc = "scan"
          PROVE  1 <= rd'[h].lo /\ rd'[h].lo <= rd'[h].hi /\ rd'[h].hi <= drained'
      <4>1. CASE h = g
        BY <2>3, <2>5, <3>1, <4>1
      <4>2. CASE h # g
        <5>1. rd[h] \in Readers
          BY ElementOfSeq DEF TypeOK, Gens
        <5>2. rd[h].lo \in Nat /\ rd[h].hi \in Nat
          BY <5>1 DEF Readers
        <5>3. rd'[h] = rd[h]
          BY <2>5, <4>2
        <5>4. 1 <= rd[h].lo /\ rd[h].lo <= rd[h].hi /\ rd[h].hi <= drained
          BY <3>2, <5>3 DEF ScansWhatItTook
        <5> QED
          BY <3>1, <5>2, <5>3, <5>4
      <4> QED
        BY <4>1, <4>2
    <3> QED
      BY <3>1, <3>2 DEF ScansWhatItTook, Gens
  <2> QED
    BY <2>6, <2>7
<1>12. ASSUME NEW g \in Gens, ScanLine(g)
       PROVE  TypeOK' /\ ScansWhatItTook'
  <2>1. rd[g] \in Readers
    BY ElementOfSeq DEF TypeOK, Gens
  <2> DEFINE r == Scanned(rd[g])
  <2>2. /\ r \in Readers
        /\ r.lo = rd[g].lo + 1
        /\ r.hi = rd[g].hi
        /\ r.pc = IF rd[g].lo = rd[g].hi THEN "check" ELSE "scan"
    BY <2>1, ScannedIsReader
  <2>3. rd' = [rd EXCEPT ![g] = r]
    BY <1>12 DEF ScanLine
  <2> HIDE DEF r
  <2>4. /\ rd' \in Seq(Readers)
        /\ Len(rd') = gen
        /\ rd'[g] = r
        /\ \A h \in Gens : h # g => rd'[h] = rd[h]
    BY <2>2, <2>3, OneReaderMoves
  <2>5. rd[g].lo \in Lines /\ rd[g].lo \in Nat /\ rd[g].hi \in Nat
    BY <1>12, <2>1 DEF ScanLine, ScansWhatItTook, TypeOK, Lines, Readers
  <2>6. /\ ch' \in [Clients -> Seq(Events)]
        /\ dropped' \in [Clients -> Nat]
        /\ offered' \in [Clients -> Seq(Lines)]
    BY <1>12, <2>5, BroadcastType DEF ScanLine, feed, TypeOK
  <2>7. TypeOK'
    BY <1>12, <2>4, <2>6 DEF ScanLine, kernel, hub, TypeOK
  <2>8. ScansWhatItTook'
    BY <1>12, <2>2, <2>4, <2>5 DEF ScanLine, kernel, hub, ScansWhatItTook, Gens
  <2> QED
    BY <2>7, <2>8
<1>13. ASSUME NEW g \in Gens, ReaderDone(g)
       PROVE  TypeOK' /\ ScansWhatItTook'
  <2>1. CASE TearDown(g)
    <3>1. /\ rd' \in Seq(Readers)
          /\ Len(rd') = gen
          /\ \A h \in Gens : h # g => rd'[h] = rd[h]
          /\ rd'[g].pc = "closing"
      BY <2>1, TearDownMoves
    <3>2. TypeOK'
      BY <1>13, <2>1, <3>1 DEF ReaderDone, TearDown, CloseChannels, kernel, feed, TypeOK
    <3>3. ScansWhatItTook'
      BY <1>13, <3>1 DEF ReaderDone, kernel, ScansWhatItTook, Gens
    <3> QED
      BY <3>2, <3>3
  <2>2. CASE Superseded(g)
    BY <1>6, <1>13, <2>2 DEF ReaderDone, Superseded, ReaderPCs, hub
  <2> QED
    BY <1>13, <2>1, <2>2 DEF ReaderDone
<1>14. CASE UNCHANGED vars
  BY <1>14 DEF vars, TypeOK, ScansWhatItTook, Gens
<1> QED
  BY <1>1, <1>2, <1>3, <1>4, <1>5, <1>7, <1>8, <1>9, <1>10, <1>11, <1>12,
     <1>13, <1>14 DEF Next, ClientStep, ReaderStep

(* TypeOK holds in every behaviour of the hub.                              *)
THEOREM TypeCorrect == Spec => []TypeOK
<1>1. Spec => []TypeInv
  BY TypeInit, TypeStep, PTL DEF Spec
<1>2. TypeInv => TypeOK
  BY DEF TypeInv
<1> QED
  BY <1>1, <1>2, PTL

-----------------------------------------------------------------------------
(* The hub and its readers.                                                *)

(* What a reader's record says of its reads: none was late before it was    *)
(* cancelled, nor while it is about to make one.                            *)
LateReads ==
  \A g \in Gens : /\ rd[g].late <= 1
                  /\ ~rd[g].cancelled => rd[g].late = 0
                  /\ rd[g].pc = "poll" => rd[g].late = 0

(* A client that has not subscribed has no channel to close.                *)
NewIsNew ==
  \A c \in Clients : client[c] \in {"new", "refused"} => c \notin subs /\ closes[c] = 0

HubInv == /\ TypeInv
          /\ AttachedHasReader
          /\ subs # {} => gen # 0
          /\ NoPanic
          /\ NewIsNew
          /\ LateReads

LEMMA HubInit == Init => HubInv
  BY TypeInit DEF Init, HubInv, AttachedHasReader, NoPanic, NewIsNew, LateReads, Gens

(* A step of one reader that leaves the hub alone, does not end with        *)
(* readerDone and reads at most once after a cancel keeps the invariant.    *)
LEMMA ReaderAlone ==
  ASSUME HubInv, TypeInv', NEW g \in Gens,
         UNCHANGED <<client, subs, stop, gen, closes, home>>,
         \A h \in Gens : h # g => rd'[h] = rd[h],
         rd'[g].cancelled = rd[g].cancelled,
         rd'[g].pc \in {"closing", "closed"} => g # gen \/ subs = {},
         rd'[g].late <= 1,
         ~rd'[g].cancelled => rd'[g].late = 0,
         rd'[g].pc = "poll" => rd'[g].late = 0
  PROVE  HubInv'
<1>1. gen' = gen /\ Gens' = Gens
  BY DEF Gens
<1>2. LateReads'
  BY <1>1 DEF HubInv, LateReads
<1>3. NoPanic' /\ NewIsNew'
  BY DEF HubInv, NoPanic, NewIsNew
<1>4. ASSUME NEW c \in subs
      PROVE  ~rd'[gen].cancelled /\ rd'[gen].pc \notin {"closing", "closed"}
  <2>1. gen \in Gens
    BY <1>4, LenProperties DEF HubInv, TypeInv, TypeOK, Gens
  <2>2. ~rd[gen].cancelled /\ rd[gen].pc \notin {"closing", "closed"}
    BY <1>4 DEF HubInv, AttachedHasReader
  <2> QED
    BY <1>4, <2>1, <2>2
<1>5. AttachedHasReader'
  BY <1>1, <1>4 DEF HubInv, AttachedHasReader
<1> QED
  BY <1>2, <1>3, <1>5 DEF HubInv

LEMMA ReaderMovesTo ==
  ASSUME HubInv, TypeInv', NEW g \in Gens, NEW pc \in ReaderPCs, MoveTo(g, pc),
         UNCHANGED <<client, subs, stop, gen, closes, home>>,
         pc \in {"closing", "closed"} => g # gen \/ subs = {},
         pc = "poll" => ~rd[g].cancelled
  PROVE  HubInv'
<1>1. TypeOK /\ rd[g] \in Readers
  BY ElementOfSeq DEF HubInv, TypeInv, TypeOK, Gens
<1>2. /\ rd'[g] = [rd[g] EXCEPT !.pc = pc]
      /\ \A h \in Gens : h # g => rd'[h] = rd[h]
  BY <1>1, MoveToMoves
<1>3. rd'[g].pc = pc /\ rd'[g].late = rd[g].late /\ rd'[g].cancelled = rd[g].cancelled
  BY <1>1, <1>2 DEF Readers
<1>4. rd[g].late <= 1 /\ (~rd[g].cancelled => rd[g].late = 0)
  BY DEF HubInv, LateReads
<1> QED
  BY <1>2, <1>3, <1>4, ReaderAlone

LEMMA HubStep == HubInv /\ [Next]_vars => HubInv'
<1> SUFFICES ASSUME HubInv, [Next]_vars
             PROVE  HubInv'
  OBVIOUS
<1>1. TypeInv /\ TypeInv' /\ TypeOK
  BY TypeStep DEF HubInv, TypeInv
<1>2. CASE UNCHANGED <<client, hub, rd>>
  BY <1>1, <1>2 DEF hub, HubInv, AttachedHasReader, NoPanic, NewIsNew, LateReads, Gens
<1>3. CASE Emit
  BY <1>2, <1>3 DEF Emit
<1>4. ASSUME NEW c \in Clients, Subscribe(c)
      PROVE  HubInv'
  <2>1. /\ c \notin subs /\ closes[c] = 0
        /\ subs' = subs \union {c}
        /\ client' = [client EXCEPT ![c] = "open"]
        /\ closes' = closes
    BY <1>4 DEF Subscribe, HubInv, NewIsNew
  <2>2. NoPanic' /\ NewIsNew'
    BY <1>1, <2>1 DEF HubInv, NoPanic, NewIsNew, TypeOK
  <2>3. gen \in Nat
    BY <1>1, LenProperties DEF TypeOK
  <2>4. CASE Join(c)
    <3>1. subs # {} /\ stop = gen /\ gen # 0
      BY <2>4 DEF Join, HubInv, AttachedHasReader
    <3>2. PICK d \in subs : TRUE
      BY <3>1
    <3>3. ~rd[gen].cancelled /\ rd[gen].pc \notin {"closing", "closed"}
      BY <3>2 DEF HubInv, AttachedHasReader
    <3>4. /\ stop' = stop /\ gen' = gen /\ rd' = rd
          /\ home' = [home EXCEPT ![c] = gen]
      BY <2>4 DEF Join
    <3>5. AttachedHasReader'
      BY <1>1, <2>1, <3>1, <3>3, <3>4 DEF HubInv, AttachedHasReader, TypeOK
    <3>6. LateReads'
      BY <3>4 DEF HubInv, LateReads, Gens
    <3> QED
      BY <1>1, <2>2, <3>1, <3>4, <3>5, <3>6 DEF HubInv
  <2>5. CASE Start(c)
    <3>1. subs = {}
      BY <2>5 DEF Start, HubInv, AttachedHasReader
    <3>2. /\ stop' = gen + 1 /\ gen' = gen + 1
          /\ home' = [home EXCEPT ![c] = gen + 1]
      BY <2>5 DEF Start
    <3>3. /\ rd'[gen + 1] = NewReader
          /\ \A h \in Gens : rd'[h] = rd[h]
      BY <1>1, <2>5, StartMoves
    <3>4. AttachedHasReader'
      BY <1>1, <2>1, <3>1, <3>2, <3>3 DEF AttachedHasReader, TypeOK, NewReader
    <3>5. LateReads'
      BY <2>3, <3>2, <3>3 DEF HubInv, LateReads, Gens, NewReader
    <3> QED
      BY <1>1, <2>2, <2>3, <3>2, <3>4, <3>5 DEF HubInv
  <2> QED
    BY <1>4, <2>4, <2>5 DEF Subscribe
<1>5. ASSUME NEW c \in Clients, OpenFails(c)
      PROVE  HubInv'
  <2>1. c \notin subs /\ closes[c] = 0
    BY <1>5 DEF OpenFails, HubInv, NewIsNew
  <2> QED
    BY <1>1, <1>5, <2>1 DEF OpenFails, hub, HubInv, AttachedHasReader, NoPanic, NewIsNew,
                       LateReads, Gens, TypeOK
<1>6. ASSUME NEW c \in Clients, Receive(c)
      PROVE  HubInv'
  BY <1>2, <1>6 DEF Receive
<1>7. ASSUME NEW c \in Clients, Close(c)
      PROVE  HubInv'
  <2>1. /\ client' = [client EXCEPT ![c] = "gone"]
        /\ gen' = gen /\ home' = home
    BY <1>7 DEF Close
  <2>2. CASE Unsubscribe(c)
    <3>1. /\ c \in subs /\ subs' = subs \ {c}
          /\ closes' = [d \in Clients |-> IF d \in {c} THEN closes[d] + 1 ELSE closes[d]]
      BY <2>2 DEF Unsubscribe, CloseChannels
    <3>2. NoPanic' /\ NewIsNew'
      BY <1>1, <2>1, <3>1 DEF HubInv, NoPanic, NewIsNew, TypeOK
    <3>3. CASE subs' = {} /\ stop # 0
      <4>1. stop' = 0 /\ rd' = Cancel(rd)
        BY <2>2, <3>3 DEF Unsubscribe
      <4>2. AttachedHasReader'
        BY <3>3, <4>1 DEF AttachedHasReader
      <4>3. /\ stop \in Gens
            /\ rd'[stop] = [rd[stop] EXCEPT !.cancelled = TRUE]
            /\ \A h \in Gens : h # stop => rd'[h] = rd[h]
        BY <1>1, <3>3, <4>1, CancelMoves
      <4>4. rd[stop] \in Readers
        BY <1>1, <4>3, ElementOfSeq DEF TypeOK, Gens
      <4>5. LateReads'
        BY <2>1, <4>3, <4>4 DEF HubInv, LateReads, Gens, Readers
      <4> QED
        BY <1>1, <3>2, <3>3, <4>2, <4>5 DEF HubInv
    <3>4. CASE ~(subs' = {} /\ stop # 0)
      <4>1. UNCHANGED <<stop, rd>>
        BY <2>2, <3>4 DEF Unsubscribe
      <4>2. AttachedHasReader'
        BY <1>1, <2>1, <3>1, <3>4, <4>1 DEF HubInv, AttachedHasReader, TypeOK
      <4>3. LateReads'
        BY <2>1, <4>1 DEF HubInv, LateReads, Gens
      <4> QED
        BY <1>1, <2>1, <3>1, <3>2, <4>2, <4>3 DEF HubInv
    <3> QED
      BY <3>3, <3>4
  <2>3. CASE UnsubscribeUnknown(c)
    BY <1>1, <2>1, <2>3 DEF UnsubscribeUnknown, HubInv, AttachedHasReader, NoPanic,
                       NewIsNew, LateReads, Gens, TypeOK
  <2> QED
    BY <1>7, <2>2, <2>3 DEF Close
<1>8. ASSUME NEW g \in Gens, CheckContext(g)
      PROVE  HubInv'
  BY <1>1, <1>8, ReaderMovesTo DEF CheckContext, ReaderPCs, hub
<1>9. ASSUME NEW g \in Gens, PollAgain(g)
      PROVE  HubInv'
  BY <1>1, <1>9, ReaderMovesTo DEF PollAgain, ReaderPCs, hub
<1>10. ASSUME NEW g \in Gens, PipeFails(g)
       PROVE  HubInv'
  BY <1>1, <1>10, ReaderMovesTo DEF PipeFails, ReaderPCs, hub
<1>11. ASSUME NEW g \in Gens, ReadLines(g)
       PROVE  HubInv'
  <2>1. rd[g] \in Readers
    BY <1>1, ElementOfSeq DEF TypeOK, Gens
  <2>2. PICK n \in (drained + 1) .. written : rd' = [rd EXCEPT ![g] = Took(rd[g], n)]
    BY <1>11 DEF ReadLines
  <2> DEFINE r == Took(rd[g], n)
  <2>3. /\ r \in Readers /\ r.pc = "scan" /\ r.cancelled = rd[g].cancelled
        /\ r.late = IF rd[g].cancelled THEN rd[g].late + 1 ELSE rd[g].late
    BY <1>1, <2>1, TookIsReader
  <2>4. rd[g].late = 0
    BY <1>11 DEF ReadLines, HubInv, LateReads
  <2>5. rd' = [rd EXCEPT ![g] = r]
    BY <2>2
  <2> HIDE DEF r
  <2>6. rd'[g] = r /\ \A h \in Gens : h # g => rd'[h] = rd[h]
    BY <1>1, <2>3, <2>5, OneReaderMoves
  <2> QED
    BY <1>1, <1>11, <2>3, <2>4, <2>6, ReaderAlone DEF ReadLines, hub
<1>12. ASSUME NEW g \in Gens, ScanLine(g)
       PROVE  HubInv'
  <2>1. rd[g] \in Readers
    BY <1>1, ElementOfSeq DEF TypeOK, Gens
  <2> DEFINE r == Scanned(rd[g])
  <2>2. /\ r \in Readers /\ r.pc \in {"check", "scan"}
        /\ r.cancelled = rd[g].cancelled /\ r.late = rd[g].late
    BY <2>1, ScannedIsReader
  <2>3. rd' = [rd EXCEPT ![g] = r]
    BY <1>12 DEF ScanLine
  <2>4. rd[g].late <= 1 /\ (~rd[g].cancelled => rd[g].late = 0)
    BY DEF HubInv, LateReads
  <2> HIDE DEF r
  <2>5. rd'[g] = r /\ \A h \in Gens : h # g => rd'[h] = rd[h]
    BY <1>1, <2>2, <2>3, OneReaderMoves
  <2> QED
    BY <1>1, <1>12, <2>2, <2>4, <2>5, ReaderAlone DEF ScanLine, hub
<1>13. ASSUME NEW g \in Gens, ReaderDone(g)
       PROVE  HubInv'
  <2>1. CASE TearDown(g)
    <3>1. /\ subs' = {} /\ stop' = 0 /\ gen' = gen /\ client' = client
          /\ closes' = [d \in Clients |-> IF d \in subs THEN closes[d] + 1 ELSE closes[d]]
      BY <1>13, <2>1 DEF ReaderDone, TearDown, CloseChannels
    <3>2. AttachedHasReader'
      BY <3>1 DEF AttachedHasReader
    <3>3. NoPanic' /\ NewIsNew'
      BY <1>1, <3>1 DEF HubInv, NoPanic, NewIsNew, TypeOK
    <3>4. /\ \A h \in Gens : h # g => rd'[h] = rd[h]
          /\ rd'[g].pc = "closing"
          /\ rd'[g].late = rd[g].late
          /\ rd'[g].cancelled = (rd[g].cancelled \/ stop # 0)
      BY <1>1, <2>1, TearDownMoves
    <3>5. LateReads'
      BY <3>1, <3>4 DEF HubInv, LateReads, Gens
    <3> QED
      BY <1>1, <3>1, <3>2, <3>3, <3>5 DEF HubInv
  <2>2. CASE Superseded(g)
    BY <1>1, <1>13, <2>2, ReaderMovesTo DEF ReaderDone, Superseded, ReaderPCs
  <2> QED
    BY <1>13, <2>1, <2>2 DEF ReaderDone
<1>14. ASSUME NEW g \in Gens, ClosePipe(g)
       PROVE  HubInv'
  <2>1. g # gen \/ subs = {}
    BY <1>14 DEF ClosePipe, HubInv, AttachedHasReader
  <2> QED
    BY <1>1, <1>14, <2>1, ReaderMovesTo DEF ClosePipe, ReaderPCs, hub
<1>15. CASE UNCHANGED vars
  BY <1>2, <1>15 DEF vars, hub
<1> QED
  BY <1>3, <1>4, <1>5, <1>6, <1>7, <1>8, <1>9, <1>10, <1>11, <1>12, <1>13, <1>14,
     <1>15 DEF Next, ClientStep, ReaderStep

LEMMA HubInvariant == Spec => []HubInv
  BY HubInit, HubStep, PTL DEF Spec

(* Whoever is attached listens to a reader that is neither cancelled nor    *)
(* through with its exit, in every behaviour of the hub.                    *)
THEOREM AttachedAlwaysHasReader == Spec => []AttachedHasReader
<1>1. HubInv => AttachedHasReader
  BY DEF HubInv
<1> QED
  BY <1>1, HubInvariant, PTL

(* No channel is ever closed twice, and none in subs is closed: neither     *)
(* close nor broadcast's send can panic.                                    *)
THEOREM NeverPanics == Spec => []NoPanic
<1>1. HubInv => NoPanic
  BY DEF HubInv
<1> QED
  BY <1>1, HubInvariant, PTL

(* The hub keeps its types, and no close and no send can panic.             *)
THEOREM HubSound == Spec => []HubIsSound
<1>1. TypeOK /\ NoPanic => HubIsSound
  BY DEF HubIsSound
<1> QED
  BY <1>1, TypeCorrect, NeverPanics, PTL

(* A cancelled reader takes lines from the node at most once more.          *)
THEOREM CancelIsPrompt == Spec => []LateReadAtMostOnce
<1>1. HubInv => LateReadAtMostOnce
  BY DEF HubInv, LateReads, LateReadAtMostOnce
<1> QED
  BY <1>1, HubInvariant, PTL

(* A stale reader's exit never ends a successor's streams.                  *)
THEOREM OnlyOwnReaderEndsStream == Spec => EndedByOwnReader
<1>1. HubInv /\ [Next]_vars =>
        [\A c \in subs \ subs' : client'[c] = "open" => rd[home[c]].pc = "ended"]_vars
  <2> SUFFICES ASSUME HubInv, Next, NEW c \in subs \ subs', client'[c] = "open"
               PROVE  rd[home[c]].pc = "ended"
    OBVIOUS
  <2>1. TypeOK /\ c \in Clients /\ home[c] = gen
    BY DEF HubInv, TypeInv, TypeOK, AttachedHasReader
  <2>2. ASSUME NEW d \in Clients, ClientStep(d)
        PROVE  FALSE
    BY <2>1, <2>2 DEF ClientStep, Subscribe, OpenFails, Receive, Close, Unsubscribe,
                 UnsubscribeUnknown, hub, TypeOK
  <2>3. ASSUME NEW g \in Gens, ReaderStep(g)
        PROVE  rd[gen].pc = "ended"
    BY <2>1, <2>3 DEF ReaderStep, CheckContext, PollAgain, ReadLines, PipeFails, ScanLine,
                 ReaderDone, TearDown, Superseded, ClosePipe, hub
  <2> QED
    BY <2>1, <2>2, <2>3 DEF Next, Emit, hub
<1> QED
  BY <1>1, HubInvariant, PTL DEF Spec, EndedByOwnReader

-----------------------------------------------------------------------------
(* What the clients are given: every line missed is counted.               *)

(* The events in a channel q, after the event l the client took last: each  *)
(* tells the lines missed since the one before it, and is the line at its   *)
(* place among the lines off that were offered; d were missed since.        *)
Before(l, q, i) == IF i = 1 THEN l ELSE q[i - 1]

Gaps(l, q, off, d) ==
  /\ \A i \in 1..Len(q) : /\ q[i].at = Before(l, q, i).at + q[i].dropped + 1
                          /\ q[i].at <= Len(off)
                          /\ q[i].line = off[q[i].at]
  /\ Len(off) = Before(l, q, Len(q) + 1).at + d

GapInv == \A c \in Clients : Gaps(last[c], ch[c], offered[c], dropped[c])

(* Lines a reader still holds are held by it alone, and offered to nobody.  *)
Holds(g) == rd[g].pc = "scan"

HeldOnce ==
  /\ \A g, h \in Gens :
       g # h /\ Holds(g) /\ Holds(h) => rd[g].hi < rd[h].lo \/ rd[h].hi < rd[g].lo
  /\ \A c \in Clients : \A i \in 1..Len(offered[c]) :
       /\ offered[c][i] <= drained
       /\ \A g \in Gens : Holds(g) => offered[c][i] < rd[g].lo \/ rd[g].hi < offered[c][i]

FeedInv == HubInv /\ GapInv /\ HeldOnce

-----------------------------------------------------------------------------
(* What taking an event, delivering one and missing one do to the gaps.     *)

AnyEvent == Events \union {NoEvent}

LEMMA GapsTail ==
  ASSUME NEW l \in AnyEvent, NEW q \in Seq(Events), NEW off \in Seq(Lines), NEW d \in Nat,
         q # <<>>, Gaps(l, q, off, d)
  PROVE  Gaps(Head(q), Tail(q), off, d)
<1>1. /\ Len(q) \in Nat \ {0}
      /\ Len(Tail(q)) = Len(q) - 1
      /\ \A i \in 1..Len(Tail(q)) : Tail(q)[i] = q[i + 1]
  BY HeadTailProperties, LenProperties, EmptySeq
<1>2. Head(q) = q[1]
  BY <1>1
<1>3. \A i \in 1..Len(q) : Before(Head(q), Tail(q), i) = q[i]
  BY <1>1, <1>2 DEF Before
<1>4. ASSUME NEW i \in 1..Len(Tail(q))
      PROVE  /\ Tail(q)[i].at = Before(Head(q), Tail(q), i).at + Tail(q)[i].dropped + 1
             /\ Tail(q)[i].at <= Len(off)
             /\ Tail(q)[i].line = off[Tail(q)[i].at]
  <2>1. i \in 1..Len(q) /\ i + 1 \in 1..Len(q) /\ Tail(q)[i] = q[i + 1]
    BY <1>1
  <2>2. Before(l, q, i + 1) = q[i]
    BY <2>1 DEF Before
  <2> QED
    BY <1>3, <2>1, <2>2 DEF Gaps
<1>5. Before(l, q, Len(q) + 1) = q[Len(q)]
  BY <1>1 DEF Before
<1>6. Len(off) = Before(Head(q), Tail(q), Len(Tail(q)) + 1).at + d
  BY <1>1, <1>3, <1>5 DEF Gaps
<1> QED
  BY <1>4, <1>6 DEF Gaps

LEMMA GapsAppend ==
  ASSUME NEW l \in AnyEvent, NEW q \in Seq(Events), NEW off \in Seq(Lines), NEW d \in Nat,
         NEW line \in Lines, Gaps(l, q, off, d)
  PROVE  Gaps(l, Append(q, [line |-> line, dropped |-> d, at |-> Len(off) + 1]),
              Append(off, line), 0)
<1> DEFINE e == [line |-> line, dropped |-> d, at |-> Len(off) + 1]
           q2 == Append(q, e)
           off2 == Append(off, line)
<1>1. Len(off) \in Nat /\ Len(q) \in Nat
  BY LenProperties
<1>2. /\ Len(off2) = Len(off) + 1
      /\ \A i \in 1..Len(off) : off2[i] = off[i]
      /\ off2[Len(off) + 1] = line
  BY AppendProperties
<1>3. e \in Events
  BY <1>1 DEF Events
<1>4. /\ Len(q2) = Len(q) + 1
      /\ \A i \in 1..Len(q) : q2[i] = q[i]
      /\ q2[Len(q) + 1] = e
  <2> HIDE DEF e
  <2> QED
    BY <1>3, AppendProperties
<1>5. e.line = line /\ e.dropped = d /\ e.at = Len(off) + 1
  OBVIOUS
<1>6. \A i \in 1..(Len(q) + 1) : Before(l, q2, i) = Before(l, q, i)
  BY <1>1, <1>4 DEF Before
<1> HIDE DEF e, q2, off2
<1>7. ASSUME NEW i \in 1..Len(q2)
      PROVE  /\ q2[i].at = Before(l, q2, i).at + q2[i].dropped + 1
             /\ q2[i].at <= Len(off2)
             /\ q2[i].line = off2[q2[i].at]
  <2>1. CASE i = Len(q) + 1
    <3>1. Before(l, q2, i).at + d = Len(off)
      BY <1>6, <2>1, <1>1, <1>4 DEF Gaps
    <3>2. Before(l, q2, i).at \in Nat
      <4>1. Before(l, q, i) \in AnyEvent
        BY <1>1, <2>1, ElementOfSeq DEF Before, AnyEvent
      <4> QED
        BY <4>1, <1>1, <1>4, <1>6 DEF AnyEvent, Events, NoEvent
    <3> QED
      BY <1>1, <1>2, <1>4, <1>5, <2>1, <3>1, <3>2
  <2>2. CASE i \in 1..Len(q)
    <3>1. q2[i] = q[i] /\ q[i] \in Events /\ Before(l, q2, i) = Before(l, q, i)
      BY <1>1, <1>4, <1>6, <2>2, ElementOfSeq
    <3>2. q[i].at \in Nat \ {0}
      BY <3>1 DEF Events
    <3>3. /\ q[i].at = Before(l, q, i).at + q[i].dropped + 1
          /\ q[i].at <= Len(off)
          /\ q[i].line = off[q[i].at]
      BY <2>2 DEF Gaps
    <3>4. q[i].at \in 1..Len(off) /\ q[i].at <= Len(off2)
      BY <1>1, <1>2, <3>2, <3>3
    <3> QED
      BY <1>2, <3>1, <3>3, <3>4
  <2> QED
    BY <1>1, <1>4, <2>1, <2>2
<1>8. Len(off2) = Before(l, q2, Len(q2) + 1).at + 0
  BY <1>1, <1>2, <1>4, <1>5 DEF Before
<1>9. Gaps(l, q2, off2, 0)
  BY <1>7, <1>8 DEF Gaps
<1> QED
  BY <1>9 DEF e, q2, off2

LEMMA GapsMiss ==
  ASSUME NEW l \in AnyEvent, NEW q \in Seq(Events), NEW off \in Seq(Lines), NEW d \in Nat,
         NEW line \in Lines, Gaps(l, q, off, d)
  PROVE  Gaps(l, q, Append(off, line), d + 1)
<1> DEFINE off2 == Append(off, line)
<1>1. Len(off) \in Nat /\ Len(q) \in Nat
  BY LenProperties
<1>2. /\ Len(off2) = Len(off) + 1
      /\ \A i \in 1..Len(off) : off2[i] = off[i]
  BY AppendProperties
<1> HIDE DEF off2
<1>3. ASSUME NEW i \in 1..Len(q)
      PROVE  /\ q[i].at = Before(l, q, i).at + q[i].dropped + 1
             /\ q[i].at <= Len(off2)
             /\ q[i].line = off2[q[i].at]
  <2>1. q[i] \in Events
    BY <1>1, ElementOfSeq
  <2>2. q[i].at \in Nat \ {0}
    BY <2>1 DEF Events
  <2>3. /\ q[i].at = Before(l, q, i).at + q[i].dropped + 1
        /\ q[i].at <= Len(off)
        /\ q[i].line = off[q[i].at]
    BY DEF Gaps
  <2> QED
    BY <1>1, <1>2, <2>2, <2>3
<1>4. Before(l, q, Len(q) + 1).at \in Nat
  <2>1. Before(l, q, Len(q) + 1) \in AnyEvent
    BY <1>1, ElementOfSeq DEF Before, AnyEvent
  <2> QED
    BY <2>1 DEF AnyEvent, Events, NoEvent
<1>5. Len(off) = Before(l, q, Len(q) + 1).at + d
  BY DEF Gaps
<1>6. Len(off2) = Before(l, q, Len(q) + 1).at + (d + 1)
  BY <1>1, <1>2, <1>4, <1>5
<1>7. Gaps(l, q, off2, d + 1)
  BY <1>3, <1>6 DEF Gaps
<1> QED
  BY <1>7 DEF off2

-----------------------------------------------------------------------------
(* The gaps are kept by every step.                                         *)

LEMMA GapStep == TypeInv /\ GapInv /\ [Next]_vars => GapInv'
<1> SUFFICES ASSUME TypeInv, GapInv, [Next]_vars
             PROVE  GapInv'
  OBVIOUS
<1>1. TypeOK /\ ScansWhatItTook
  BY DEF TypeInv
<1>2. CASE UNCHANGED <<feed, last>>
  BY <1>2 DEF GapInv, feed
<1>3. ASSUME NEW c \in Clients, Receive(c)
      PROVE  GapInv'
  <2>1. /\ last' = [last EXCEPT ![c] = Head(ch[c])]
        /\ ch' = [ch EXCEPT ![c] = Tail(ch[c])]
        /\ UNCHANGED <<dropped, offered>>
    BY <1>3 DEF Receive
  <2>2. Gaps(Head(ch[c]), Tail(ch[c]), offered[c], dropped[c])
    <3>1. /\ last[c] \in AnyEvent /\ ch[c] \in Seq(Events)
          /\ offered[c] \in Seq(Lines) /\ dropped[c] \in Nat
      BY <1>1 DEF TypeOK, AnyEvent
    <3>2. ch[c] # <<>> /\ Gaps(last[c], ch[c], offered[c], dropped[c])
      BY <1>3 DEF Receive, GapInv
    <3> QED
      BY <3>1, <3>2, GapsTail
  <2>3. ASSUME NEW d \in Clients
        PROVE  Gaps(last'[d], ch'[d], offered'[d], dropped'[d])
    BY <1>1, <2>1, <2>2 DEF GapInv, TypeOK
  <2> QED
    BY <2>3 DEF GapInv
<1>4. ASSUME NEW g \in Gens, ScanLine(g)
      PROVE  GapInv'
  <2>1. CASE rd[g].lo \in Blank
    BY <1>2, <1>4, <2>1 DEF ScanLine
  <2>2. CASE rd[g].lo \notin Blank
    <3> DEFINE line == rd[g].lo
    <3>1. line \in Lines
      <4>1. rd[g] \in Readers
        BY <1>1, ElementOfSeq DEF TypeOK, Gens
      <4>2. line \in Nat /\ rd[g].hi \in Nat
        BY <4>1 DEF Readers
      <4>3. 1 <= line /\ line <= rd[g].hi /\ rd[g].hi <= drained
        BY <1>1, <1>4 DEF ScanLine, ScansWhatItTook
      <4>4. drained \in 0..written /\ written \in 0..MaxLines
        BY <1>1 DEF TypeOK
      <4> HIDE DEF line
      <4> QED
        BY <4>2, <4>3, <4>4, HubAssumption DEF Lines
    <3>2. Broadcast(line) /\ last' = last
      BY <1>4, <2>2 DEF ScanLine
    <3> HIDE DEF line
    <3>3. ASSUME NEW c \in Clients
          PROVE  Gaps(last'[c], ch'[c], offered'[c], dropped'[c])
      <4> DEFINE e == [line |-> line, dropped |-> dropped[c], at |-> Len(offered[c]) + 1]
      <4>1. /\ last[c] \in AnyEvent /\ ch[c] \in Seq(Events)
            /\ offered[c] \in Seq(Lines) /\ dropped[c] \in Nat
        BY <1>1 DEF TypeOK, AnyEvent
      <4>2. Gaps(last[c], ch[c], offered[c], dropped[c])
        BY DEF GapInv
      <4>3. CASE c \notin subs
        <5>1. ch'[c] = ch[c] /\ dropped'[c] = dropped[c] /\ offered'[c] = offered[c]
          BY <3>2, <4>3 DEF Broadcast
        <5> QED
          BY <3>2, <4>2, <5>1
      <4>4. CASE c \in subs /\ HasRoom(c)
        <5>1. /\ ch'[c] = Append(ch[c], e)
              /\ dropped'[c] = 0
              /\ offered'[c] = Append(offered[c], line)
          BY <3>2, <4>4 DEF Broadcast
        <5>2. Gaps(last[c], Append(ch[c], e), Append(offered[c], line), 0)
          BY <3>1, <4>1, <4>2, GapsAppend
        <5> QED
          BY <3>2, <5>1, <5>2
      <4>5. CASE c \in subs /\ ~HasRoom(c)
        <5>1. /\ ch'[c] = ch[c]
              /\ dropped'[c] = dropped[c] + 1
              /\ offered'[c] = Append(offered[c], line)
          BY <3>2, <4>5 DEF Broadcast
        <5>2. Gaps(last[c], ch[c], Append(offered[c], line), dropped[c] + 1)
          BY <3>1, <4>1, <4>2, GapsMiss
        <5> QED
          BY <3>2, <5>1, <5>2
      <4> QED
        BY <4>3, <4>4, <4>5
    <3> QED
      BY <3>3 DEF GapInv
  <2> QED
    BY <2>1, <2>2
<1>5. CASE UNCHANGED vars
  BY <1>2, <1>5 DEF vars, feed
<1>6. CASE Emit
  BY <1>2, <1>6 DEF Emit
<1>7. ASSUME NEW c \in Clients, Subscribe(c) \/ OpenFails(c) \/ Close(c)
      PROVE  GapInv'
  BY <1>2, <1>7 DEF Subscribe, OpenFails, Close
<1>8. ASSUME NEW g \in Gens, CheckContext(g) \/ PollAgain(g) \/ ReadLines(g) \/ PipeFails(g)
                            \/ ReaderDone(g) \/ ClosePipe(g)
      PROVE  GapInv'
  BY <1>2, <1>8 DEF CheckContext, PollAgain, ReadLines, PipeFails, ReaderDone, ClosePipe
<1> QED
  BY <1>3, <1>4, <1>5, <1>6, <1>7, <1>8 DEF Next, ClientStep, ReaderStep

LEMMA GapInvariant == Spec => [](TypeInv /\ GapInv)
<1>1. Init => GapInv
  <2> SUFFICES ASSUME Init, NEW c \in Clients
               PROVE  Gaps(last[c], ch[c], offered[c], dropped[c])
    BY DEF GapInv
  <2>1. /\ last[c] = NoEvent /\ ch[c] = <<>> /\ offered[c] = <<>> /\ dropped[c] = 0
    BY DEF Init
  <2> QED
    BY <2>1 DEF Gaps, Before, NoEvent
<1> QED
  BY <1>1, TypeInit, TypeStep, GapStep, PTL DEF Spec

(* Every line a client was offered is accounted for, in every behaviour:    *)
(* delivered, waiting in its channel, or counted as dropped in the place it *)
(* was dropped at.                                                          *)
THEOREM EveryGapAccounted == Spec => []GapAccounting
<1>1. TypeInv /\ GapInv => GapAccounting
  <2> SUFFICES ASSUME TypeInv, GapInv, NEW c \in Clients
               PROVE  LET evs == <<last[c]>> \o ch[c] IN
                      /\ \A i \in 2..Len(evs) :
                           /\ evs[i].at = evs[i-1].at + evs[i].dropped + 1
                           /\ evs[i].line = offered[c][evs[i].at]
                      /\ Len(offered[c]) = evs[Len(evs)].at + dropped[c]
    BY DEF GapAccounting
  <2> DEFINE l == last[c]
             q == ch[c]
             evs == <<l>> \o q
  <2>1. l \in AnyEvent /\ q \in Seq(AnyEvent) /\ <<l>> \in Seq(AnyEvent)
    BY DEF TypeInv, TypeOK, AnyEvent
  <2>2. Gaps(l, q, offered[c], dropped[c])
    BY DEF GapInv
  <2>3. Len(q) \in Nat
    BY <2>1, LenProperties
  <2>4. /\ Len(evs) = Len(q) + 1
        /\ \A i \in 1..Len(evs) : evs[i] = IF i = 1 THEN l ELSE q[i - 1]
    <3>1. Len(<<l>>) = 1 /\ <<l>>[1] = l
      OBVIOUS
    <3> HIDE DEF l, q
    <3> QED
      BY <2>1, <2>3, <3>1, ConcatProperties
  <2> HIDE DEF l, q, evs
  <2>5. \A i \in 1..(Len(q) + 1) : evs[i] = Before(l, q, i)
    BY <2>3, <2>4 DEF Before
  <2>6. ASSUME NEW i \in 2..Len(evs)
        PROVE  /\ evs[i].at = evs[i-1].at + evs[i].dropped + 1
               /\ evs[i].line = offered[c][evs[i].at]
    <3>1. i - 1 \in 1..Len(q) /\ evs[i] = q[i - 1] /\ evs[i - 1] = Before(l, q, i - 1)
      BY <2>3, <2>4, <2>5
    <3> QED
      BY <2>2, <3>1 DEF Gaps
  <2>7. Len(offered[c]) = evs[Len(evs)].at + dropped[c]
    BY <2>2, <2>3, <2>4, <2>5 DEF Gaps
  <2> QED
    BY <2>6, <2>7 DEF evs, l, q
<1> QED
  BY <1>1, GapInvariant, PTL

-----------------------------------------------------------------------------
(* No line is held by two readers, and none that was offered is held again. *)

LEMMA KeptLines ==
  ASSUME HeldOnce, ReadersKeepLines, UNCHANGED <<drained, offered>>
  PROVE  HeldOnce'
  BY DEF HeldOnce, ReadersKeepLines, Holds

(* Nothing but a read or a scan changes what a reader holds.                *)
LEMMA OthersKeepLines ==
  ASSUME TypeOK, Next, \A g \in Gens : ~ReadLines(g) /\ ~ScanLine(g)
  PROVE  ReadersKeepLines /\ UNCHANGED <<drained, offered>>
<1>1. CASE gen' = gen /\ rd' = rd /\ UNCHANGED <<drained, offered>>
  BY <1>1 DEF ReadersKeepLines, Holds, Gens
<1>2. CASE Emit
  BY <1>1, <1>2 DEF Emit, hub, feed
<1>3. ASSUME NEW c \in Clients, Subscribe(c)
      PROVE  ReadersKeepLines /\ UNCHANGED <<drained, offered>>
  <2>1. CASE Join(c)
    BY <1>1, <1>3, <2>1 DEF Subscribe, Join, kernel, feed
  <2>2. CASE Start(c)
    <3>1. /\ rd'[gen + 1] = NewReader
          /\ \A h \in Gens : rd'[h] = rd[h]
      BY <2>2, StartMoves
    <3>2. gen \in Nat /\ gen' = gen + 1
      BY <2>2, LenProperties DEF TypeOK, Start
    <3> QED
      BY <1>3, <3>1, <3>2 DEF Subscribe, kernel, feed, ReadersKeepLines, Holds, Gens, NewReader
  <2> QED
    BY <1>3, <2>1, <2>2 DEF Subscribe
<1>4. ASSUME NEW c \in Clients, OpenFails(c) \/ Receive(c)
      PROVE  ReadersKeepLines /\ UNCHANGED <<drained, offered>>
  BY <1>1, <1>4 DEF OpenFails, Receive, kernel, hub, feed
<1>5. ASSUME NEW c \in Clients, Close(c)
      PROVE  ReadersKeepLines /\ UNCHANGED <<drained, offered>>
  <2>1. CASE stop # 0 /\ rd' = Cancel(rd)
    <3>1. /\ stop \in Gens
          /\ rd'[stop] = [rd[stop] EXCEPT !.cancelled = TRUE]
          /\ \A h \in Gens : h # stop => rd'[h] = rd[h]
      BY <2>1, CancelMoves
    <3>2. rd[stop] \in Readers
      BY <3>1, ElementOfSeq DEF TypeOK, Gens
    <3> QED
      BY <1>5, <3>1, <3>2 DEF Close, kernel, feed, ReadersKeepLines, Holds, Gens, Readers
  <2>2. CASE UNCHANGED rd
    BY <1>1, <1>5, <2>2 DEF Close, kernel, feed
  <2> QED
    BY <1>5, <2>1, <2>2 DEF Close, Unsubscribe, UnsubscribeUnknown
<1>6. ASSUME NEW g \in Gens, NEW pc \in ReaderPCs \ {"scan"}, MoveTo(g, pc),
             gen' = gen, UNCHANGED <<drained, offered>>
      PROVE  ReadersKeepLines /\ UNCHANGED <<drained, offered>>
  <2>1. /\ rd'[g] = [rd[g] EXCEPT !.pc = pc]
        /\ \A h \in Gens : h # g => rd'[h] = rd[h]
    BY <1>6, MoveToMoves
  <2>2. rd[g] \in Readers
    BY ElementOfSeq DEF TypeOK, Gens
  <2> QED
    BY <1>6, <2>1, <2>2 DEF ReadersKeepLines, Holds, Gens, Readers
<1>7. ASSUME NEW g \in Gens, CheckContext(g) \/ PollAgain(g) \/ PipeFails(g) \/ ClosePipe(g)
      PROVE  ReadersKeepLines /\ UNCHANGED <<drained, offered>>
  <2>1. gen' = gen /\ UNCHANGED <<drained, offered>>
    BY <1>7 DEF CheckContext, PollAgain, PipeFails, ClosePipe, kernel, hub, feed
  <2>2. PICK pc \in ReaderPCs \ {"scan"} : MoveTo(g, pc)
    BY <1>7 DEF CheckContext, PollAgain, PipeFails, ClosePipe, ReaderPCs
  <2> QED
    BY <1>6, <2>1, <2>2
<1>8. ASSUME NEW g \in Gens, ReaderDone(g)
      PROVE  ReadersKeepLines /\ UNCHANGED <<drained, offered>>
  <2>1. gen' = gen /\ UNCHANGED <<drained, offered>>
    BY <1>8 DEF ReaderDone, kernel, feed
  <2>2. CASE TearDown(g)
    <3>1. /\ \A h \in Gens : h # g => rd'[h] = rd[h]
          /\ rd'[g].pc = "closing"
      BY <2>2, TearDownMoves
    <3> QED
      BY <2>1, <3>1 DEF ReadersKeepLines, Holds, Gens
  <2>3. CASE Superseded(g)
    BY <1>6, <2>1, <2>3 DEF Superseded, ReaderPCs
  <2> QED
    BY <1>8, <2>2, <2>3 DEF ReaderDone
<1> QED
  BY <1>2, <1>3, <1>4, <1>5, <1>7, <1>8 DEF Next, ClientStep, ReaderStep

LEMMA HeldOnceStep == TypeInv /\ HeldOnce /\ [Next]_vars => HeldOnce'
<1> SUFFICES ASSUME TypeInv, HeldOnce, [Next]_vars
             PROVE  HeldOnce'
  OBVIOUS
<1>1. TypeOK /\ ScansWhatItTook
  BY DEF TypeInv
<1>2. \A g \in Gens : rd[g] \in Readers
  BY <1>1, ElementOfSeq DEF TypeOK, Gens
<1>3. CASE UNCHANGED vars
  BY <1>3 DEF vars, HeldOnce, Holds, Gens
<1>4. CASE Next /\ \A g \in Gens : ~ReadLines(g) /\ ~ScanLine(g)
  BY <1>1, <1>4, OthersKeepLines, KeptLines
<1>5. ASSUME NEW g \in Gens, ReadLines(g)
      PROVE  HeldOnce'
  <2>1. PICK n \in (drained + 1) .. written :
          /\ drained' = n
          /\ rd' = [rd EXCEPT ![g] = Took(rd[g], n)]
    BY <1>5 DEF ReadLines
  <2> DEFINE r == Took(rd[g], n)
  <2>2. r \in Readers /\ r.lo = drained + 1 /\ r.hi = n
    BY <1>1, <1>2, TookIsReader
  <2>3. rd' = [rd EXCEPT ![g] = r]
    BY <2>1
  <2> HIDE DEF r
  <2>4. rd'[g] = r /\ \A h \in Gens : h # g => rd'[h] = rd[h]
    BY <1>1, <2>2, <2>3, OneReaderMoves
  <2>5. gen' = gen /\ offered' = offered
    BY <1>5 DEF ReadLines, hub, feed
  <2>6. drained \in Nat /\ n \in Nat /\ drained + 1 <= n
    BY <1>1 DEF TypeOK
  <2>7. \A h \in Gens : Holds(h) => rd[h].hi < r.lo
    BY <1>1, <1>2, <2>2, <2>6 DEF ScansWhatItTook, Holds, Readers
  <2>8. \A c \in Clients : \A i \in 1..Len(offered[c]) :
          offered[c][i] \in Nat /\ offered[c][i] < r.lo
    <3> SUFFICES ASSUME NEW c \in Clients, NEW i \in 1..Len(offered[c])
                 PROVE  offered[c][i] \in Nat /\ offered[c][i] < r.lo
      OBVIOUS
    <3>1. offered[c] \in Seq(Lines)
      BY <1>1 DEF TypeOK
    <3>2. offered[c][i] \in Nat
      BY <3>1, ElementOfSeq, HubAssumption DEF Lines
    <3> QED
      BY <2>2, <2>6, <3>2 DEF HeldOnce
  <2>9. ASSUME NEW a \in Gens', NEW b \in Gens', a # b, Holds(a)', Holds(b)'
        PROVE  rd'[a].hi < rd'[b].lo \/ rd'[b].hi < rd'[a].lo
    <3>1. CASE a # g /\ b # g
      BY <2>4, <2>5, <2>9, <3>1 DEF HeldOnce, Holds, Gens
    <3>2. CASE a = g \/ b = g
      BY <2>4, <2>5, <2>7, <2>9, <3>2 DEF Holds, Gens
    <3> QED
      BY <3>1, <3>2
  <2>10. ASSUME NEW c \in Clients, NEW i \in 1..Len(offered'[c])
         PROVE  /\ offered'[c][i] <= drained'
                /\ \A h \in Gens' : Holds(h)' => \/ offered'[c][i] < rd'[h].lo
                                                  \/ rd'[h].hi < offered'[c][i]
    <3>1. offered'[c][i] \in Nat /\ offered'[c][i] < r.lo
      BY <2>5, <2>8
    <3>2. offered'[c][i] <= drained'
      BY <2>1, <2>2, <2>6, <3>1
    <3>3. ASSUME NEW h \in Gens', Holds(h)'
          PROVE  offered'[c][i] < rd'[h].lo \/ rd'[h].hi < offered'[c][i]
      BY <2>4, <2>5, <3>1, <3>3 DEF HeldOnce, Holds, Gens
    <3> QED
      BY <3>2, <3>3
  <2> QED
    BY <2>9, <2>10 DEF HeldOnce
<1>6. ASSUME NEW g \in Gens, ScanLine(g)
      PROVE  HeldOnce'
  <2> DEFINE r == Scanned(rd[g])
             line == rd[g].lo
  <2>1. /\ r \in Readers /\ r.lo = line + 1 /\ r.hi = rd[g].hi
        /\ r.pc = IF line = rd[g].hi THEN "check" ELSE "scan"
    BY <1>2, ScannedIsReader
  <2>2. rd' = [rd EXCEPT ![g] = r]
    BY <1>6 DEF ScanLine
  <2>3. /\ line \in Nat /\ rd[g].hi \in Nat /\ Holds(g)
        /\ 1 <= line /\ line <= rd[g].hi /\ rd[g].hi <= drained
    BY <1>1, <1>2, <1>6 DEF ScanLine, ScansWhatItTook, Holds, Readers
  <2>4. /\ gen' = gen /\ drained' = drained /\ drained \in Nat
    BY <1>1, <1>6 DEF ScanLine, kernel, hub, TypeOK
  <2>5. line \in Lines
    BY <1>1, <2>3, HubAssumption DEF TypeOK, Lines
  <2>6. \/ offered' = offered
        \/ offered' = [c \in Clients |-> IF c \in subs THEN Append(offered[c], line)
                                                       ELSE offered[c]]
    BY <1>6 DEF ScanLine, Broadcast, feed
  <2> HIDE DEF r, line
  <2>7. rd'[g] = r /\ \A h \in Gens : h # g => rd'[h] = rd[h]
    BY <1>1, <2>1, <2>2, OneReaderMoves
  <2>8. \A h \in Gens : h # g /\ Holds(h) => rd[g].hi < rd[h].lo \/ rd[h].hi < line
    BY <2>3 DEF HeldOnce, line
  <2>9. ASSUME NEW a \in Gens', NEW b \in Gens', a # b, Holds(a)', Holds(b)'
        PROVE  rd'[a].hi < rd'[b].lo \/ rd'[b].hi < rd'[a].lo
    <3>1. CASE a # g /\ b # g
      BY <2>4, <2>7, <2>9, <3>1 DEF HeldOnce, Holds, Gens
    <3>2. CASE a = g
      <4>1. b \in Gens /\ b # g /\ Holds(b) /\ rd'[b] = rd[b] /\ rd[b] \in Readers
        BY <1>2, <2>4, <2>7, <2>9, <3>2 DEF Holds, Gens
      <4>2. rd[g].hi < rd[b].lo \/ rd[b].hi < line
        BY <2>8, <4>1
      <4> QED
        BY <2>1, <2>3, <2>7, <3>2, <4>1, <4>2 DEF Readers
    <3>3. CASE b = g
      <4>1. a \in Gens /\ a # g /\ Holds(a) /\ rd'[a] = rd[a] /\ rd[a] \in Readers
        BY <1>2, <2>4, <2>7, <2>9, <3>3 DEF Holds, Gens
      <4>2. rd[g].hi < rd[a].lo \/ rd[a].hi < line
        BY <2>8, <4>1
      <4> QED
        BY <2>1, <2>3, <2>7, <3>3, <4>1, <4>2 DEF Readers
    <3> QED
      BY <3>1, <3>2, <3>3
  (* What may have been offered by now: what had been, and the line itself. *)
  <2>10. ASSUME NEW c \in Clients, NEW i \in 1..Len(offered'[c])
         PROVE  \/ offered'[c][i] = line
                \/ i \in 1..Len(offered[c]) /\ offered'[c][i] = offered[c][i]
    <3>1. offered[c] \in Seq(Lines) /\ Len(offered[c]) \in Nat
      BY <1>1, LenProperties DEF TypeOK
    <3>2. offered'[c] = offered[c] \/ offered'[c] = Append(offered[c], line)
      BY <2>6
    <3>3. CASE offered'[c] = Append(offered[c], line)
      <4>1. /\ Len(offered'[c]) = Len(offered[c]) + 1
            /\ \A j \in 1..Len(offered[c]) : offered'[c][j] = offered[c][j]
            /\ offered'[c][Len(offered[c]) + 1] = line
        BY <2>5, <3>1, <3>3, AppendProperties
      <4>2. i = Len(offered[c]) + 1 \/ i \in 1..Len(offered[c])
        BY <3>1, <4>1
      <4> QED
        BY <4>1, <4>2
    <3> QED
      BY <3>2, <3>3
  <2>11. ASSUME NEW c \in Clients, NEW i \in 1..Len(offered'[c])
         PROVE  /\ offered'[c][i] <= drained'
                /\ \A h \in Gens' : Holds(h)' => \/ offered'[c][i] < rd'[h].lo
                                                  \/ rd'[h].hi < offered'[c][i]
    <3>1. CASE offered'[c][i] = line
      <4>1. line <= drained
        BY <2>3, <2>4
      <4>2. ASSUME NEW h \in Gens', Holds(h)'
            PROVE  line < rd'[h].lo \/ rd'[h].hi < line
        <5>1. CASE h = g
          BY <2>1, <2>3, <2>7, <5>1
        <5>2. CASE h # g
          <6>1. h \in Gens /\ Holds(h) /\ rd'[h] = rd[h] /\ rd[h] \in Readers
            BY <1>2, <2>4, <2>7, <4>2, <5>2 DEF Holds, Gens
          <6>2. rd[g].hi < rd[h].lo \/ rd[h].hi < line
            BY <2>8, <5>2, <6>1
          <6> QED
            BY <2>3, <6>1, <6>2 DEF Readers
        <5> QED
          BY <5>1, <5>2
      <4> QED
        BY <2>4, <3>1, <4>1, <4>2
    <3>2. CASE i \in 1..Len(offered[c]) /\ offered'[c][i] = offered[c][i]
      <4> DEFINE x == offered[c][i]
      <4>1. x \in Nat
        <5>1. offered[c] \in Seq(Lines)
          BY <1>1 DEF TypeOK
        <5> QED
          BY <3>2, <5>1, ElementOfSeq, HubAssumption DEF Lines
      <4>2. /\ x <= drained
            /\ \A h \in Gens : Holds(h) => x < rd[h].lo \/ rd[h].hi < x
        BY <3>2 DEF HeldOnce
      <4> HIDE DEF x
      <4>3. ASSUME NEW h \in Gens', Holds(h)'
            PROVE  x < rd'[h].lo \/ rd'[h].hi < x
        <5>1. CASE h = g
          <6>1. x < line \/ rd[g].hi < x
            BY <2>3, <4>2 DEF line
          <6> QED
            BY <2>1, <2>3, <2>7, <4>1, <5>1, <6>1
        <5>2. CASE h # g
          BY <2>4, <2>7, <4>2, <4>3, <5>2 DEF Holds, Gens
        <5> QED
          BY <5>1, <5>2
      <4> QED
        BY <2>4, <3>2, <4>2, <4>3 DEF x
    <3> QED
      BY <2>10, <3>1, <3>2
  <2> QED
    BY <2>9, <2>11 DEF HeldOnce
<1> QED
  BY <1>3, <1>4, <1>5, <1>6

-----------------------------------------------------------------------------
(* The hub implements the feed.                                             *)

LEMMA FeedInit == Init => FeedInv /\ Feed!Init
<1> SUFFICES ASSUME Init
             PROVE  FeedInv /\ Feed!Init
  OBVIOUS
<1>1. HeldOnce
  BY DEF Init, HeldOnce, Gens
<1>2. ASSUME NEW c \in Clients
      PROVE  Gaps(last[c], ch[c], offered[c], dropped[c])
  BY DEF Init, Gaps, Before, NoEvent
<1>3. Feed!Init
  BY DEF Init, Feed!Init, Stream, NoEvent, Feed!NoEvent
<1> QED
  BY <1>1, <1>2, <1>3, HubInit DEF FeedInv, GapInv

LEMMA FeedInvStep == FeedInv /\ [Next]_vars => FeedInv'
  BY HubStep, GapStep, HeldOnceStep DEF FeedInv, HubInv

LEMMA SubscribeAttaches ==
  ASSUME FeedInv, NEW c \in Clients, Subscribe(c)
  PROVE  Feed!Attach(c)
<1>1. c \notin subs /\ closes[c] = 0
  BY DEF FeedInv, HubInv, NewIsNew, Subscribe
<1>2. subs' = subs \union {c} /\ UNCHANGED <<closes, offered, last>>
  BY DEF Subscribe, feed
<1>3. Stream[c] = "out"
  BY <1>1 DEF Stream
<1>4. Stream' = [Stream EXCEPT ![c] = "in"]
  BY <1>1, <1>2 DEF Stream
<1> QED
  BY <1>2, <1>3, <1>4 DEF Feed!Attach

LEMMA ReceiveTakes ==
  ASSUME FeedInv, NEW c \in Clients, Receive(c)
  PROVE  Feed!Take(c)
<1> DEFINE e == Head(ch[c])
<1>1. /\ ch[c] \in Seq(Events) /\ offered[c] \in Seq(Lines) /\ last[c] \in AnyEvent
      /\ ch[c] # <<>>
  BY DEF FeedInv, HubInv, TypeInv, TypeOK, Receive, AnyEvent
<1>2. /\ Len(ch[c]) \in Nat \ {0} /\ Len(offered[c]) \in Nat
      /\ e = ch[c][1] /\ e \in Events
  BY <1>1, LenProperties, EmptySeq, HeadTailProperties, ElementOfSeq
<1>3. last[c].at \in Nat
  BY <1>1 DEF AnyEvent, Events, NoEvent
<1>4. /\ e.at = last[c].at + e.dropped + 1
      /\ e.at <= Len(offered[c])
      /\ e.line = offered[c][e.at]
  <2>1. Gaps(last[c], ch[c], offered[c], dropped[c])
    BY DEF FeedInv, GapInv
  <2> QED
    BY <1>2, <2>1 DEF Gaps, Before
<1>5. UNCHANGED <<subs, closes, offered>> /\ last' = [last EXCEPT ![c] = e]
  BY DEF Receive, hub
<1> HIDE DEF e
<1>6. e.at \in Nat /\ e.dropped \in Nat
      /\ e = [line |-> e.line, dropped |-> e.dropped, at |-> e.at]
  BY <1>2 DEF Events
<1>7. e.at \in (last[c].at + 1) .. Len(offered[c]) /\ e.dropped = e.at - last[c].at - 1
  BY <1>2, <1>3, <1>4, <1>6
<1>8. last' = [last EXCEPT ![c] = [line |-> offered[c][e.at],
                                   dropped |-> e.at - last[c].at - 1, at |-> e.at]]
  BY <1>4, <1>5, <1>6, <1>7
<1>9. Stream' = Stream
  BY <1>5 DEF Stream
<1> QED
  BY <1>5, <1>7, <1>8, <1>9 DEF Feed!Take

(* Closing the channels of some subscribers ends exactly their streams.     *)
LEMMA ClosedStreamsEnd ==
  ASSUME FeedInv, NEW S \in SUBSET subs, S # {}, subs' = subs \ S,
         closes' = CloseChannels(S), UNCHANGED <<offered, last>>
  PROVE  \E gone \in SUBSET Clients : Feed!End(gone)
<1>1. S \subseteq Clients /\ closes \in [Clients -> Nat] /\ S \subseteq Feed!In
  BY DEF FeedInv, HubInv, TypeInv, TypeOK, Feed!In, Stream
<1>2. Stream' = [c \in Clients |-> IF c \in S THEN "over" ELSE Stream[c]]
  BY <1>1 DEF Stream, CloseChannels
<1>3. Feed!End(S)
  BY <1>1, <1>2 DEF Feed!End
<1> QED
  BY <1>1, <1>3

LEMMA ScanOffers ==
  ASSUME FeedInv, NEW g \in Gens, ScanLine(g)
  PROVE  (\E line \in Lines : Feed!Offer(line)) \/ UNCHANGED Feed!feedVars
<1> DEFINE line == rd[g].lo
<1>1. TypeOK /\ ScansWhatItTook /\ rd[g] \in Readers
  BY ElementOfSeq DEF FeedInv, HubInv, TypeInv, TypeOK, Gens
<1>2. /\ line \in Nat /\ rd[g].hi \in Nat /\ Holds(g)
      /\ 1 <= line /\ line <= rd[g].hi /\ rd[g].hi <= drained
  BY <1>1 DEF ScanLine, ScansWhatItTook, Holds, Readers
<1>3. line \in Lines
  BY <1>1, <1>2, HubAssumption DEF TypeOK, Lines
<1>4. UNCHANGED <<subs, closes, last>> /\ Stream' = Stream
  BY DEF ScanLine, hub, Stream
<1>5. CASE offered' = offered
  BY <1>4, <1>5 DEF Feed!feedVars
<1>6. CASE Broadcast(line)
  <2>1. offered' = [c \in Clients |-> IF c \in subs THEN Append(offered[c], line)
                                                   ELSE offered[c]]
    BY <1>6 DEF Broadcast
  <2>2. offered \in [Clients -> Seq(Lines)] /\ subs \subseteq Clients
    BY <1>1 DEF TypeOK
  <2>3. CASE subs = {}
    <3>1. offered' = offered
      BY <2>1, <2>2, <2>3
    <3> QED
      BY <1>5, <3>1
  <2>4. CASE subs # {}
    <3>1. Feed!In = subs
      BY <2>2 DEF Feed!In, Stream
    <3>2. ASSUME NEW c \in Clients, NEW i \in 1..Len(offered[c])
          PROVE  offered[c][i] # line
      BY <1>2 DEF FeedInv, HeldOnce
    <3>3. Feed!Offer(line)
      BY <1>4, <2>1, <2>4, <3>1, <3>2 DEF Feed!Offer
    <3> QED
      BY <1>3, <3>3
  <2> QED
    BY <2>3, <2>4
<1> QED
  BY <1>5, <1>6 DEF ScanLine, feed

LEMMA FeedStep == FeedInv /\ [Next]_vars => [Feed!Next]_(Feed!feedVars)
<1> SUFFICES ASSUME FeedInv, [Next]_vars
             PROVE  Feed!Next \/ UNCHANGED Feed!feedVars
  OBVIOUS
<1>1. CASE UNCHANGED <<subs, closes, offered, last>>
  BY <1>1 DEF Stream, Feed!feedVars
<1>2. CASE Emit
  BY <1>1, <1>2 DEF Emit, hub, feed
<1>3. ASSUME NEW c \in Clients, Subscribe(c)
      PROVE  Feed!Next
  BY <1>3, SubscribeAttaches DEF Feed!Next
<1>4. ASSUME NEW c \in Clients, OpenFails(c)
      PROVE  Feed!Next \/ UNCHANGED Feed!feedVars
  BY <1>1, <1>4 DEF OpenFails, hub, feed
<1>5. ASSUME NEW c \in Clients, Receive(c)
      PROVE  Feed!Next
  BY <1>5, ReceiveTakes DEF Feed!Next
<1>6. ASSUME NEW c \in Clients, Close(c)
      PROVE  Feed!Next \/ UNCHANGED Feed!feedVars
  <2>1. UNCHANGED <<offered, last>>
    BY <1>6 DEF Close, feed
  <2>2. CASE Unsubscribe(c)
    <3>1. /\ {c} \in SUBSET subs /\ {c} # {}
          /\ subs' = subs \ {c} /\ closes' = CloseChannels({c})
      BY <2>2 DEF Unsubscribe
    <3> QED
      BY <2>1, <3>1, ClosedStreamsEnd DEF Feed!Next
  <2>3. CASE UnsubscribeUnknown(c)
    BY <1>1, <2>1, <2>3 DEF UnsubscribeUnknown
  <2> QED
    BY <1>6, <2>2, <2>3 DEF Close
<1>7. ASSUME NEW g \in Gens, CheckContext(g) \/ PollAgain(g) \/ ReadLines(g) \/ PipeFails(g)
                            \/ ClosePipe(g)
      PROVE  Feed!Next \/ UNCHANGED Feed!feedVars
  BY <1>1, <1>7 DEF CheckContext, PollAgain, ReadLines, PipeFails, ClosePipe, hub, feed
<1>8. ASSUME NEW g \in Gens, ScanLine(g)
      PROVE  Feed!Next \/ UNCHANGED Feed!feedVars
  BY <1>8, ScanOffers DEF Feed!Next
<1>9. ASSUME NEW g \in Gens, ReaderDone(g)
      PROVE  Feed!Next \/ UNCHANGED Feed!feedVars
  <2>1. UNCHANGED <<offered, last>>
    BY <1>9 DEF ReaderDone, feed
  <2>2. CASE TearDown(g) /\ subs # {}
    <3>1. /\ subs \in SUBSET subs /\ subs' = subs \ subs /\ closes' = CloseChannels(subs)
      BY <2>2 DEF TearDown
    <3> QED
      BY <2>1, <2>2, <3>1, ClosedStreamsEnd DEF Feed!Next
  <2>3. CASE TearDown(g) /\ subs = {}
    <3>1. subs' = subs /\ closes' = [c \in Clients |-> closes[c]]
      BY <2>3 DEF TearDown, CloseChannels
    <3>2. closes' = closes
      BY <3>1 DEF FeedInv, HubInv, TypeInv, TypeOK
    <3> QED
      BY <1>1, <2>1, <3>1, <3>2
  <2>4. CASE Superseded(g)
    BY <1>1, <2>1, <2>4 DEF Superseded
  <2> QED
    BY <1>9, <2>2, <2>3, <2>4 DEF ReaderDone
<1>10. CASE UNCHANGED vars
  BY <1>1, <1>10 DEF vars
<1> QED
  BY <1>2, <1>3, <1>4, <1>5, <1>6, <1>7, <1>8, <1>9, <1>10 DEF Next, ClientStep, ReaderStep

(* The hub implements LineFeed: one order for all, no line offered twice    *)
(* even while two readers overlap, every gap told, no stream restarted.     *)
THEOREM HubImplementsFeed == Spec => ImplementsFeed
  BY FeedInit, FeedInvStep, FeedStep, PTL DEF Spec, ImplementsFeed, Feed!Spec
=============================================================================
