--------------------------- MODULE MCAssignments ---------------------------
(* Instances of Assignments for TLC. *)
EXTENDS Assignments, TLC

Symmetry ==
  Permutations(TripIds) \cup Permutations(Drivers) \cup Permutations(Vehicles)
    \cup Permutations(Supervisors) \cup Permutations(Codes)

=============================================================================
