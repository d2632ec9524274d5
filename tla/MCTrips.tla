------------------------------ MODULE MCTrips ------------------------------
(* Instances of Trips small enough for TLC.                                *)
EXTENDS Trips, TLC

(* Slots, trips, drivers and vehicles are interchangeable: no action and   *)
(* no invariant names one of them.                                         *)
Symmetry ==
  Permutations(Requests) \cup Permutations(TripIds)
    \cup Permutations(Drivers) \cup Permutations(Vehicles)

=============================================================================
