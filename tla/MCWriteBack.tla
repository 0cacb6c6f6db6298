---------------------------- MODULE MCWriteBack ----------------------------
(* Two sources, each of which may call functions in its sections, define   *)
(* some, or both; two functions; up to MaxRuns runs, each of which may be  *)
(* stopped at any step but the last.                                       *)
EXTENDS WriteBack
=============================================================================
