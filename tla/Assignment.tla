----------------------------- MODULE Assignment -----------------------------
(***************************************************************************)
(* What dispatching promises about an order, whatever waves, sweeps and    *)
(* races lead there: a paid order is open, is offered to providers, is     *)
(* taken by at most one of them, who held an offer for it when it was      *)
(* taken, and never opens again.  Taking an order withdraws every offer    *)
(* for it.                                                                 *)
(***************************************************************************)
CONSTANTS Orders, Providers, None

VARIABLES phase,   \* "unpaid", "open", "taken" or "closed"
          holder,  \* the provider an order belongs to, or None
          offers   \* offers[o]: providers who may still take o

assignmentVars == <<phase, holder, offers>>

Init ==
  /\ phase = [o \in Orders |-> "unpaid"]
  /\ holder = [o \in Orders |-> None]
  /\ offers = [o \in Orders |-> {}]

Open(o) ==
  /\ phase[o] = "unpaid"
  /\ phase' = [phase EXCEPT ![o] = "open"]
  /\ UNCHANGED <<holder, offers>>

Offer(o, P) ==
  /\ offers' = [offers EXCEPT ![o] = @ \cup P]
  /\ UNCHANGED <<phase, holder>>

\* A review withdraws a provider's offers for every order at once.
Withdraw ==
  /\ offers' \in [Orders -> SUBSET Providers]
  /\ \A o \in Orders : offers'[o] \subseteq offers[o]
  /\ UNCHANGED <<phase, holder>>

Take(o, p) ==
  /\ phase[o] = "open"
  /\ p \in offers[o]
  /\ phase' = [phase EXCEPT ![o] = "taken"]
  /\ holder' = [holder EXCEPT ![o] = p]
  /\ offers' = [offers EXCEPT ![o] = {}]

Close(o) ==
  /\ phase[o] \in {"open", "taken"}
  /\ phase' = [phase EXCEPT ![o] = "closed"]
  /\ UNCHANGED <<holder, offers>>

Next ==
  \/ \E o \in Orders : Open(o) \/ Close(o)
  \/ \E o \in Orders : \E P \in SUBSET Providers : Offer(o, P)
  \/ \E o \in Orders, p \in Providers : Take(o, p)
  \/ Withdraw

Spec == Init /\ [][Next]_assignmentVars
=============================================================================
