---------------------------- MODULE MCDiscovery ----------------------------
(* Instances of Discovery for TLC: addresses are numbers; liveness is      *)
(* checked, so there is no symmetry.                                       *)
EXTENDS Discovery

=============================================================================
