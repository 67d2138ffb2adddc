---------------------------- MODULE MCOrderMoney ----------------------------
(* Small instances of OrderMoney for TLC. *)
EXTENDS OrderMoney, TLC

Symmetry == Permutations(Requests)

=============================================================================
