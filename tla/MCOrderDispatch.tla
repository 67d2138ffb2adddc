-------------------------- MODULE MCOrderDispatch --------------------------
(* Small instances of OrderDispatch for TLC. *)
EXTENDS OrderDispatch, TLC

Symmetry == Permutations(Providers) \cup Permutations(Requests)

\* Every provider matches every order, and all visits overlap.
AllSuited == [o \in Orders |-> Providers]
Overlapping == [o \in Orders |-> 0]
OneHour == [o \in Orders |-> 1]
OneActiveOrder == [p \in Providers |-> 1]

\* Every provider matches one order, and one of them the others too.
OneShared ==
  LET mine == CHOOSE o \in Orders : TRUE
      shared == CHOOSE p \in Providers : TRUE
  IN  [o \in Orders |-> IF o = mine THEN Providers ELSE {shared}]

=============================================================================
