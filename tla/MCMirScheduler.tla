--------------------------- MODULE MCMirScheduler ---------------------------
(* Instances of MirScheduler for TLC. *)
EXTENDS MirScheduler

\* All kinds of task.
EveryKind == AllKinds
==============================================================================
