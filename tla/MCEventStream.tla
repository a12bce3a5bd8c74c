---------------------------- MODULE MCEventStream ---------------------------
(* Small instances of EventStream.                                         *)
EXTENDS EventStream
CONSTANTS e1, e2, c1, c2
=============================================================================
