-------------------------- MODULE MCVehicleUnits --------------------------
(* Instances of VehicleUnits small enough for TLC.                         *)
EXTENDS VehicleUnits, TLC

(* No action and no property names a slot, a unit, a plate or a baseline.  *)
Symmetry ==
  Permutations(Requests) \cup Permutations(UnitIds)
    \cup Permutations(Plates) \cup Permutations(Baselines)

=============================================================================
