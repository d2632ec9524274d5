------------------------- MODULE MCDriverAccounts -------------------------
(* An instance of DriverAccounts small enough for TLC.                     *)
EXTENDS DriverAccounts, TLC

(* No action and no property names a slot, a driver or an account. *)
Symmetry ==
  Permutations(Requests) \cup Permutations(DriverIds) \cup Permutations(Users)

=============================================================================
