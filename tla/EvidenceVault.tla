---------------------------- MODULE EvidenceVault ----------------------------
(***************************************************************************)
(* What the storage of evidence promises, whatever crashes and retries     *)
(* lead there: a place is held within the quotas before a file is sent, a  *)
(* held place is kept by one complete file or given up, an upload is       *)
(* confirmed once and only when its file is kept, a report only lists      *)
(* files that are kept, and what is kept is kept for ever.                 *)
(***************************************************************************)
EXTENDS Naturals, FiniteSets

CONSTANTS Keys, OrderOf, MaxPerOrder, MaxTotal

VARIABLES place,     \* "free", "held" or "kept", for every object key
          answers,   \* how often the upload of a key was confirmed
          attached   \* keys listed as evidence of a report

vaultVars == <<place, answers, attached>>

Taken == {k \in Keys : place[k] # "free"}
TakenOf(o) == {k \in Taken : OrderOf[k] = o}

Init ==
  /\ place = [k \in Keys |-> "free"]
  /\ answers = [k \in Keys |-> 0]
  /\ attached = {}

Hold(k) ==
  /\ place[k] = "free"
  /\ Cardinality(Taken) < MaxTotal
  /\ Cardinality(TakenOf(OrderOf[k])) < MaxPerOrder
  /\ place' = [place EXCEPT ![k] = "held"]
  /\ UNCHANGED <<answers, attached>>

GiveUp(k) ==
  /\ place[k] = "held"
  /\ place' = [place EXCEPT ![k] = "free"]
  /\ UNCHANGED <<answers, attached>>

Keep(k) ==
  /\ place[k] = "held"
  /\ place' = [place EXCEPT ![k] = "kept"]
  /\ UNCHANGED <<answers, attached>>

Confirm(k) ==
  /\ place[k] = "kept"
  /\ answers[k] = 0
  /\ answers' = [answers EXCEPT ![k] = 1]
  /\ UNCHANGED <<place, attached>>

Attach(k) ==
  /\ place[k] = "kept"
  /\ attached' = attached \cup {k}
  /\ UNCHANGED <<place, answers>>

Next == \E k \in Keys : Hold(k) \/ GiveUp(k) \/ Keep(k) \/ Confirm(k) \/ Attach(k)

Spec == Init /\ [][Next]_vaultVars

-----------------------------------------------------------------------------
(* Consequences, proved in EvidenceVault_proofs.                           *)

TypeOK ==
  /\ place \in [Keys -> {"free", "held", "kept"}]
  /\ answers \in [Keys -> 0..1]
  /\ attached \subseteq Keys

\* Reservations and stored files together never exceed a quota.
WithinQuotas ==
  /\ Cardinality(Taken) <= MaxTotal
  /\ \A o : Cardinality(TakenOf(o)) <= MaxPerOrder

\* An upload that was confirmed, or that a report lists, is kept.
WhatCountsIsKept ==
  /\ \A k \in Keys : answers[k] > 0 => place[k] = "kept"
  /\ \A k \in attached : place[k] = "kept"

\* What is kept is never given up.
KeptForEver == [][\A k \in Keys : place[k] = "kept" => place'[k] = "kept"]_vaultVars
=============================================================================
