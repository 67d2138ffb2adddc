------------------------ MODULE EvidenceVault_proofs ------------------------
(* Proofs about EvidenceVault, for every set of keys and every quota.      *)
EXTENDS EvidenceVault, FiniteSetTheorems, TLAPS

\* The types are inductive.
LEMMA VaultTypes == Spec => []TypeOK
<1>1. Init => TypeOK
  BY DEF Init, TypeOK
<1>2. TypeOK /\ [Next]_vaultVars => TypeOK'
  BY DEF TypeOK, Next, vaultVars, Hold, GiveUp, Keep, Confirm, Attach
<1>3. QED
  BY <1>1, <1>2, PTL DEF Spec

\* Confirmations and evidence rows exist only for keys that are kept: only a
\* kept key is confirmed or attached, and no step takes a kept key away.
THEOREM VaultBacksWhatCounts == Spec => []WhatCountsIsKept
<1>1. Init => WhatCountsIsKept
  BY DEF Init, WhatCountsIsKept
<1>2. TypeOK /\ WhatCountsIsKept /\ [Next]_vaultVars => WhatCountsIsKept'
  BY DEF TypeOK, WhatCountsIsKept, Next, vaultVars, Hold, GiveUp, Keep, Confirm, Attach
<1>3. QED
  BY <1>1, <1>2, VaultTypes, PTL DEF Spec

\* No step takes a kept key away.
THEOREM VaultKeepsForEver == Spec => KeptForEver
<1>1. TypeOK /\ [Next]_vaultVars
        => [\A k \in Keys : place[k] = "kept" => place'[k] = "kept"]_vaultVars
  BY DEF TypeOK, Next, vaultVars, Hold, GiveUp, Keep, Confirm, Attach
<1>2. QED
  BY <1>1, VaultTypes, PTL DEF Spec, KeptForEver

-----------------------------------------------------------------------------
(* Quotas.                                                                 *)

\* A step takes at most one place, and only after the quotas were looked at.
LEMMA PlacesTaken ==
  ASSUME TypeOK, [Next]_vaultVars
  PROVE  \/ Taken' \subseteq Taken
         \/ \E k \in Keys : /\ Taken' \subseteq Taken \cup {k}
                            /\ Cardinality(Taken) < MaxTotal
                            /\ Cardinality(TakenOf(OrderOf[k])) < MaxPerOrder
<1>1. CASE \E k \in Keys : Hold(k)
  BY <1>1 DEF TypeOK, Hold, Taken
<1>2. CASE ~\E k \in Keys : Hold(k)
  BY <1>2 DEF TypeOK, Next, vaultVars, GiveUp, Keep, Confirm, Attach, Taken
<1>3. QED
  BY <1>1, <1>2

\* Sets that grow by one element grow by at most one in number.
LEMMA OneMore ==
  ASSUME NEW S, NEW T, NEW x, IsFiniteSet(S), T \subseteq S \cup {x}
  PROVE  /\ Cardinality(T) \in Nat /\ Cardinality(S) \in Nat
         /\ Cardinality(T) <= Cardinality(S) + 1
<1>1. /\ IsFiniteSet(S \cup {x})
      /\ Cardinality(S \cup {x}) = IF x \in S THEN Cardinality(S) ELSE Cardinality(S) + 1
  BY FS_AddElement
<1>2. Cardinality(T) <= Cardinality(S \cup {x}) /\ IsFiniteSet(T)
  BY <1>1, FS_Subset
<1>3. QED
  BY <1>1, <1>2, FS_CardinalityType

\* Whatever the order of reservations, uploads and releases, the quotas hold.
THEOREM VaultWithinQuotas ==
  ASSUME IsFiniteSet(Keys), MaxPerOrder \in Nat, MaxTotal \in Nat
  PROVE  Spec => []WithinQuotas
<1>1. Init => WithinQuotas
  <2>1. Init => Taken = {} /\ \A o : TakenOf(o) = {}
    BY DEF Init, Taken, TakenOf
  <2>2. QED
    BY <2>1, FS_EmptySet DEF WithinQuotas
<1>2. TypeOK /\ WithinQuotas /\ [Next]_vaultVars => WithinQuotas'
  <2> SUFFICES ASSUME TypeOK, WithinQuotas, [Next]_vaultVars
               PROVE  WithinQuotas'
    OBVIOUS
  <2>1. IsFiniteSet(Taken) /\ IsFiniteSet(Taken')
    BY FS_Subset DEF Taken
  <2>2. \A o : IsFiniteSet(TakenOf(o)) /\ IsFiniteSet(TakenOf(o)')
    BY <2>1, FS_Subset DEF TakenOf
  <2>3. CASE Taken' \subseteq Taken
    <3>1. Cardinality(Taken') <= Cardinality(Taken)
      BY <2>1, <2>3, FS_Subset
    <3>2. ASSUME NEW o PROVE Cardinality(TakenOf(o)') <= Cardinality(TakenOf(o))
      <4>1. TakenOf(o)' \subseteq TakenOf(o)
        BY <2>3 DEF TakenOf
      <4>2. QED
        BY <2>2, <4>1, FS_Subset
    <3>3. QED
      BY <2>1, <2>2, <3>1, <3>2, FS_CardinalityType DEF WithinQuotas
  <2>4. CASE \E k \in Keys : /\ Taken' \subseteq Taken \cup {k}
                             /\ Cardinality(Taken) < MaxTotal
                             /\ Cardinality(TakenOf(OrderOf[k])) < MaxPerOrder
    <3> PICK k \in Keys : /\ Taken' \subseteq Taken \cup {k}
                          /\ Cardinality(Taken) < MaxTotal
                          /\ Cardinality(TakenOf(OrderOf[k])) < MaxPerOrder
      BY <2>4
    <3>1. Cardinality(Taken') <= MaxTotal
      <4>1. /\ Cardinality(Taken') \in Nat /\ Cardinality(Taken) \in Nat
            /\ Cardinality(Taken') <= Cardinality(Taken) + 1
        BY <2>1, OneMore
      <4>2. QED
        BY <4>1
    <3>2. ASSUME NEW o PROVE Cardinality(TakenOf(o)') <= MaxPerOrder
      <4>1. CASE o = OrderOf[k]
        <5>1. TakenOf(o)' \subseteq TakenOf(o) \cup {k}
          BY DEF TakenOf
        <5>2. /\ Cardinality(TakenOf(o)') \in Nat /\ Cardinality(TakenOf(o)) \in Nat
              /\ Cardinality(TakenOf(o)') <= Cardinality(TakenOf(o)) + 1
          BY <2>2, <5>1, OneMore
        <5>3. QED
          BY <4>1, <5>2
      <4>2. CASE o # OrderOf[k]
        <5>1. TakenOf(o)' \subseteq TakenOf(o)
          BY <4>2 DEF TakenOf
        <5>2. Cardinality(TakenOf(o)') <= Cardinality(TakenOf(o))
          BY <2>2, <5>1, FS_Subset
        <5>3. QED
          BY <2>2, <5>2, FS_CardinalityType DEF WithinQuotas
      <4>3. QED
        BY <4>1, <4>2
    <3>3. QED
      BY <3>1, <3>2 DEF WithinQuotas
  <2>5. QED
    BY <2>3, <2>4, PlacesTaken
<1>3. QED
  BY <1>1, <1>2, VaultTypes, PTL DEF Spec

=============================================================================
