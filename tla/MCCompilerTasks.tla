--------------------------- MODULE MCCompilerTasks ---------------------------
(* Instances of CompilerTasks for TLC. *)
EXTENDS CompilerTasks

MCSources == Snapshots
=============================================================================
