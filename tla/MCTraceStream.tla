--------------------------- MODULE MCTraceStream ---------------------------
(* TLC's instances of TraceStream. *)
EXTENDS TraceStream
=============================================================================
