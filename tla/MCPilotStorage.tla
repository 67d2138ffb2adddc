--------------------------- MODULE MCPilotStorage ---------------------------
(***************************************************************************)
(* Small instances of PilotStorage and LiveAcceptance for TLC: processes   *)
(* that are killed and started again over files that outlive them.  The    *)
(* runner's server keeps its evidence in a directory of its own, and no    *)
(* more is shared.  A behaviour runs one of them.                          *)
(***************************************************************************)
EXTENDS PilotStorage, LiveAcceptance

CONSTANT o1

VARIABLE part

\* The uploads compete for the place of one order.
OneOrder == [k \in Keys |-> o1]

MCInit == Init /\ AcceptanceInit /\ part \in {"storage", "acceptance"}
MCNext ==
  \/ part = "storage" /\ Next /\ UNCHANGED <<acceptanceVars, part>>
  \/ part = "acceptance" /\ AcceptanceNext /\ UNCHANGED <<vars, part>>

\* StorageFairness and AcceptanceFairness, each in its own behaviours.
Storage == part = "storage"
Acceptance == part = "acceptance"
MCFairness ==
  /\ \A p \in Processes :
       WF_vars(Storage /\ Start(p)) /\ WF_vars(Storage /\ Proceed(p))
  /\ WF_vars(Storage /\ Tick)
  /\ WF_acceptanceVars(\E r \in Runners : Acceptance /\ StartRunner(r))
  /\ \A r \in Runners : WF_acceptanceVars(Acceptance /\ GoOn(r))
  /\ WF_acceptanceVars(\E r \in Runners : Acceptance /\ DockerSettles(r))
MCSpec == MCInit /\ [][MCNext]_<<vars, acceptanceVars, part>> /\ MCFairness

=============================================================================
