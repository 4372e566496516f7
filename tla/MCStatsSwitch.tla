---------------------------- MODULE MCStatsSwitch ----------------------------
(* TLC's instance of StatsSwitch. *)
EXTENDS StatsSwitch
=============================================================================
