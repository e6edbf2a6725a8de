---------------------------- MODULE MCDebugRuntime ----------------------------
(* Instances of DebugRuntime for TLC. *)
EXTENDS DebugRuntime
=============================================================================
