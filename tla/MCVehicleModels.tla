------------------------- MODULE MCVehicleModels --------------------------
(* Instances of VehicleModels small enough for TLC.                        *)
EXTENDS VehicleModels, TLC

(* No action and no property names one of these. *)
Symmetry ==
  Permutations(Requests) \cup Permutations(ModelIds)
    \cup Permutations(Names) \cup Permutations(Trims)
    \cup Permutations(Licences)

=============================================================================
