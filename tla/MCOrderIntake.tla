--------------------------- MODULE MCOrderIntake ---------------------------
(***************************************************************************)
(* Small instances of OrderIntake, FeeConfirmation and ProviderTask for    *)
(* TLC: an order comes in, its fee is confirmed, the provider works on it. *)
(* The three share the order's row: the page asks whether there is one, a  *)
(* fee needs one, a task changes its status; none looks at what another    *)
(* writes.  A behaviour runs one of them, and the orders whose fees are    *)
(* confirmed are written by Open.                                          *)
(***************************************************************************)
EXTENDS OrderIntake, FeeConfirmation, ProviderTask

VARIABLE part

MCInit ==
  /\ Init /\ FeeInit /\ TaskInit
  /\ \/ part = "intake" /\ gateway = "fake"
     \/ part = "fees" /\ app = "web"
     \/ part = "task" /\ app = "web" /\ gateway = "fake"
MCNext ==
  \/ part = "intake" /\ Next /\ UNCHANGED <<feeVars, taskVars, part>>
  \/ part = "fees" /\ FeeNext /\ UNCHANGED <<vars, taskVars, part>>
  \/ part = "task" /\ TaskNext /\ UNCHANGED <<vars, feeVars, part>>
MCSpec == MCInit /\ [][MCNext]_<<vars, feeVars, taskVars, part>> /\ Fairness /\ TaskFairness

\* The type invariants of the three modules.
TypesAreKept == TypeOK /\ FeeTypeOK /\ TaskTypeOK

=============================================================================
