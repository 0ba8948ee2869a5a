------------------------------ MODULE MCWorkflow ------------------------------
(* Model checking of Workflow.  The bounds are given by the configurations. *)
EXTENDS Workflow
=============================================================================
