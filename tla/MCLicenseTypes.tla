-------------------------- MODULE MCLicenseTypes --------------------------
(* Instances of LicenseTypes small enough for TLC.                         *)
EXTENDS LicenseTypes, TLC

(* No action and no property names a slot, a type or a driver. *)
Symmetry ==
  Permutations(Requests) \cup Permutations(Types) \cup Permutations(Drivers)

=============================================================================
