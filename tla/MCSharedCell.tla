---------------------------- MODULE MCSharedCell ----------------------------
(* Instances of SharedCell for TLC. *)
EXTENDS SharedCell

TwoCells == 1 .. 2
==============================================================================
