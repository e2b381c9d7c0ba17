------------------------ MODULE MCDeferredScheduler ------------------------
(* Instances of DeferredScheduler for TLC. *)
EXTENDS DeferredScheduler

\* The kinds of handle of each run.
Everything == AllKinds
SpawnAndGather == {"spawn", "sleep", "gather"}
==============================================================================
