-------------------------- MODULE MCLogPipeline ---------------------------
(* An instance of LogPipeline small enough for TLC.  Two of its properties *)
(* are temporal, so there is no symmetry.                                  *)
EXTENDS LogPipeline

=============================================================================
