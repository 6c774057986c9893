--------------------------- MODULE MCEventStream ---------------------------
(* Model values and bounds for the event stream. *)
EXTENDS EventStream, TLC
=============================================================================
