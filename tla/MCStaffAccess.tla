--------------------------- MODULE MCStaffAccess ---------------------------
(* Small instances of StaffAccess for TLC. *)
EXTENDS StaffAccess, TLC

Symmetry == Permutations(Sessions) \cup Permutations(Requests)

=============================================================================
