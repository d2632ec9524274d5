--------------------------- MODULE MCFuelReports ---------------------------
(* An instance of FuelReports small enough for TLC.                        *)
EXTENDS FuelReports, TLC

(* No action and no property names one of these; trips do not come in an   *)
(* order.                                                                  *)
Symmetry ==
  Permutations(TripIds) \cup Permutations(RouteIds) \cup Permutations(Drivers)

=============================================================================
