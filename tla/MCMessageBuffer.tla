---------------------------- MODULE MCMessageBuffer ----------------------------
(* Model checking of MessageBuffer.  The bounds are given by the configuration. *)
EXTENDS MessageBuffer
=============================================================================
