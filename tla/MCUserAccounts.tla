-------------------------- MODULE MCUserAccounts --------------------------
(* An instance of UserAccounts small enough for TLC.                       *)
EXTENDS UserAccounts, TLC

(* No action and no property names one of these. *)
Symmetry ==
  Permutations(Requests) \cup Permutations(Users) \cup Permutations(Emails)
    \cup Permutations(Passwords)

=============================================================================
