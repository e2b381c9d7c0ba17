---------------------------- MODULE MCJitTiering ----------------------------
(* An instance of JitTiering for TLC: two functions that can be compiled,  *)
(* one of them in advance, and one that cannot; three threads.             *)
EXTENDS JitTiering
=============================================================================
