----------------------------- MODULE StatsLease -----------------------------
(***************************************************************************)
(* What the stats switch promises (internal/inspector/stats.go:16-19,      *)
(* 38-42, 82-84): a lease.  Turning it on holds it for TTL from then, on   *)
(* again starts the TTL over, and a hold ends because somebody asked,      *)
(* because the agent exited, or, never before its time, because it expired.*)
(***************************************************************************)
EXTENDS Naturals

CONSTANT TTL

VARIABLES now,    (* the clock *)
          on,     (* the agent keeps the kernel counting *)
          until,  (* when the hold expires; 0 while off *)
          why     (* how the last hold ended *)

leaseVars == <<now, on, until, why>>

Init ==
  /\ now = 0
  /\ on = FALSE
  /\ until = 0
  /\ why = "never held"

Tick ==
  /\ now' = now + 1
  /\ UNCHANGED <<on, until, why>>

TurnOn ==
  /\ on' = TRUE
  /\ until' = now + TTL
  /\ UNCHANGED <<now, why>>

EndHold(reason) ==
  /\ on
  /\ on' = FALSE
  /\ until' = 0
  /\ why' = reason
  /\ UNCHANGED now

Expire ==
  /\ now >= until
  /\ EndHold("expired")

Next == Tick \/ TurnOn \/ EndHold("asked") \/ EndHold("exited") \/ Expire

Spec == Init /\ [][Next]_leaseVars
=============================================================================
