------------------------------ MODULE LineFeed ------------------------------
(***************************************************************************)
(* What internal/tracelog promises each of its clients, and nothing of how *)
(* it does it.  While a client's stream is "in", every line the feed hands *)
(* out is offered to it, in the one order every client sees, and no line   *)
(* is ever offered twice.  A client may miss lines, but the next event it  *)
(* takes says exactly how many.  A stream that is over stays over.         *)
(*                                                                         *)
(* Events carry the position "at" of their line among the lines offered to *)
(* that client: the client does not see it, the promise is stated with it. *)
(***************************************************************************)
EXTENDS Naturals, Sequences

CONSTANTS Clients,  (* the subscriptions a run of the agent ever creates *)
          Lines     (* what the pipe can carry *)

VARIABLES stream,   (* stream[c]  : "out" before, "in" during, "over" after *)
          offered,  (* offered[c] : every line handed out while c was in *)
          last      (* last[c]    : the last event c took *)

feedVars == <<stream, offered, last>>

NoEvent == [line |-> 0, dropped |-> 0, at |-> 0]

Init ==
  /\ stream = [c \in Clients |-> "out"]
  /\ offered = [c \in Clients |-> <<>>]
  /\ last = [c \in Clients |-> NoEvent]

In == {c \in Clients : stream[c] = "in"}

Attach(c) ==
  /\ stream[c] = "out"
  /\ stream' = [stream EXCEPT ![c] = "in"]
  /\ UNCHANGED <<offered, last>>

(* One line goes to every attached client at once, and to none of them again. *)
Offer(line) ==
  /\ In # {}
  /\ \A c \in Clients : \A i \in 1..Len(offered[c]) : offered[c][i] # line
  /\ offered' = [c \in Clients |-> IF c \in In THEN Append(offered[c], line)
                                               ELSE offered[c]]
  /\ UNCHANGED <<stream, last>>

(* The client takes the line at position i, told of every line it skipped. *)
Take(c) ==
  /\ \E i \in (last[c].at + 1) .. Len(offered[c]) :
       last' = [last EXCEPT ![c] = [line |-> offered[c][i],
                                    dropped |-> i - last[c].at - 1,
                                    at |-> i]]
  /\ UNCHANGED <<stream, offered>>

End(gone) ==
  /\ gone # {}
  /\ gone \subseteq In
  /\ stream' = [c \in Clients |-> IF c \in gone THEN "over" ELSE stream[c]]
  /\ UNCHANGED <<offered, last>>

Next ==
  \/ \E c \in Clients : Attach(c) \/ Take(c)
  \/ \E line \in Lines : Offer(line)
  \/ \E gone \in SUBSET Clients : End(gone)

Spec == Init /\ [][Next]_feedVars
=============================================================================
