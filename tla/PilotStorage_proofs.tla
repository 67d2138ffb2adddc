------------------------ MODULE PilotStorage_proofs ------------------------
(***************************************************************************)
(* One process that shares its directory with nobody, for any keys, orders *)
(* and quotas, and however often it dies or an operation fails: rows of    *)
(* evidence are backed by complete files, and every step on the files is a *)
(* step of EvidenceVault, or none.                                         *)
(*                                                                         *)
(* The invariant says what a mutation has seen of the files (Sound), which *)
(* is still so when it acts, as nobody else changes them; that an object   *)
(* is there before its metadata (FilesAgree); and what attachEvidence has  *)
(* read (ReadersAgree), which no mutation takes away: without the lease    *)
(* it may read between two renames, but in the opposite order.             *)
(***************************************************************************)
EXTENDS MCPilotStorage, FiniteSetTheorems, WellFoundedInduction, TLAPS

OneProcess == \E p : Processes = {p}

Complete(k) == Pair \subseteq disk[k]

\* The stages of an upload for which a reservation holds its place.
Uploads == {"pairs", "check", "temporaries", "object", "metadata"}

\* What a mutation knows of the files.
Sound(m) ==
  /\ m.op # "start" => m.key \in minted
  /\ m.stage = "reserve" => m.op = "issue"
  /\ m.stage \in {"check", "temporaries", "object", "metadata", "drop"} => m.op = "accept"
  /\ m.stage \in {"reservations", "pairs"} =>
       \A k \in Keys : m.names[k] \cap Pair = disk[k] \cap Pair
  /\ m.stage = "reservations" =>
       \A k \in Keys : "reservation" \in disk[k] => "reservation" \in m.names[k]
  /\ m.stage = "pairs" =>
       \A k \in Keys :
         "reservation" \in disk[k] /\ k \notin expired /\ ~Complete(k) => k \in m.counted
  /\ m.stage = "reserve" =>
       \A k \in Keys :
         Complete(k) \/ ("reservation" \in disk[k] /\ k \notin expired) => k \in m.counted
  /\ m.stage \in {"temporaries", "object"} =>
       "reservation" \in disk[m.key] /\ disk[m.key] \cap Pair = {}
  /\ m.stage = "metadata" =>
       "reservation" \in disk[m.key] /\ disk[m.key] \cap Pair = {"object"}
  /\ m.stage = "drop" \/ (m.stage = "release" /\ m.op = "accept" /\ m.outcome = "done") =>
       Complete(m.key) /\ answers[m.key] = 0
LanesAreSound == \A p \in Processes : Sound(lane[p])

FilesAgree ==
  /\ \A k \in Keys : "metadata" \in disk[k] => "object" \in disk[k]
  /\ \A k \in Keys : answers[k] > 0 => answers[k] = 1 /\ Complete(k)
  /\ \A k \in attached : Complete(k)

ReadersAgree ==
  \A p \in Processes :
    /\ reader[p].stage # "idle" => reader[p].key \in Keys
    /\ reader[p].stage = "content" => "metadata" \in disk[reader[p].key]
    /\ reader[p].stage = "verified" => Complete(reader[p].key)

\* There is a last instant at which a lease was asked for.
InstantsEnd ==
  \E n \in Nat : /\ \A l \in leases : l.asked <= n
                 /\ \A p \in Processes : lane[p].asked <= n

StoreInv == TypeOK /\ InstantsEnd /\ LanesAreSound /\ FilesAgree /\ ReadersAgree

-----------------------------------------------------------------------------
(* Numbers.                                                                *)

LEMMA LeastOf ==
  ASSUME NEW S \in SUBSET Nat, S # {}
  PROVE  \E x \in S : \A y \in S : x <= y
<1>1. PICK R : R = {p \in Nat \X Nat : p[1] < p[2]}
  OBVIOUS
<1>2. IsWellFoundedOn(R, Nat)
  BY <1>1, NatLessThanWellFounded DEF OpToRel
<1>3. PICK x \in S : \A y \in S : <<y, x>> \notin R
  BY <1>2, WFMin
<1>4. \A y \in S : ~(y < x)
  <2> SUFFICES ASSUME NEW y \in S, y < x PROVE FALSE
    OBVIOUS
  <2>1. <<y, x>> \in Nat \X Nat /\ <<y, x>>[1] = y /\ <<y, x>>[2] = x
    OBVIOUS
  <2>2. <<y, x>> \in R
    BY <2>1, <1>1
  <2> QED
    BY <2>2, <1>3
<1> QED
  BY <1>4

LEMMA MaxIsOf ==
  ASSUME NEW S \in SUBSET Nat, S # {}, NEW n \in Nat, \A x \in S : x <= n
  PROVE  Max(S) \in S
<1>1. PICK U : U = {m \in Nat : \A x \in S : x <= m}
  OBVIOUS
<1>2. PICK m \in U : \A k \in U : m <= k
  <2>1. U \in SUBSET Nat /\ n \in U
    BY <1>1
  <2> QED
    BY <2>1, LeastOf
<1>3. m \in Nat /\ \A x \in S : x <= m
  BY <1>1
<1>4. m \in S
  <2> SUFFICES ASSUME m \notin S PROVE FALSE
    OBVIOUS
  <2>1. PICK x \in S : TRUE
    OBVIOUS
  <2>2. m - 1 \in Nat /\ \A y \in S : y <= m - 1
    BY <1>3, <2>1
  <2>3. m - 1 \in U
    BY <2>2, <1>1
  <2> QED
    BY <2>3, <1>2, <1>3
<1> QED
  BY <1>3, <1>4 DEF Max

LEMMA MinIsOf ==
  ASSUME NEW a \in Nat, NEW b \in Nat
  PROVE  Min({a, b}) \in {a, b} /\ Min({a, b}) <= b
<1>1. \E x \in {a, b} : \A y \in {a, b} : x <= y
  <2>1. CASE a <= b
    BY <2>1
  <2>2. CASE b <= a
    BY <2>2
  <2> QED
    BY <2>1, <2>2
<1> QED
  BY <1>1 DEF Min

\* The instant of a new lease can be told, and after it there is a last one.
LEMMA InstantIs ==
  ASSUME StoreInv
  PROVE  NextInstant \in Nat
<1>1. PICK n \in Nat : /\ \A l \in leases : l.asked <= n
                       /\ \A p \in Processes : lane[p].asked <= n
  BY DEF StoreInv, InstantsEnd
<1>2. PICK S : S = {0} \cup {l.asked : l \in leases} \cup {lane[p].asked : p \in Processes}
  OBVIOUS
<1>3. S \in SUBSET Nat /\ S # {} /\ \A x \in S : x <= n
  BY <1>1, <1>2 DEF StoreInv, TypeOK, Lane, Lease
<1>4. Max(S) \in Nat
  BY <1>3, MaxIsOf
<1> QED
  BY <1>2, <1>4 DEF NextInstant

-----------------------------------------------------------------------------
(* Lanes.                                                                  *)

\* The mutation of p goes on to stage s, and is the same.
Onwards(p, s) ==
  LET m == lane'[p] IN
    /\ lane' \in [Processes -> Lane] /\ m.stage = s
    /\ m.op = lane[p].op /\ m.key = lane[p].key /\ m.asked = lane[p].asked
    /\ m.names = lane[p].names /\ m.counted = lane[p].counted /\ m.bytes = lane[p].bytes
    /\ \A q \in Processes \ {p} : lane'[q] = lane[q]

LEMMA GoIs ==
  ASSUME lane \in [Processes -> Lane], NEW p \in Processes, NEW s \in Stage, Go(p, s)
  PROVE  Onwards(p, s)
<1>1. PICK m \in Lane : m = lane[p]
  OBVIOUS
<1>2. [m EXCEPT !.stage = s] \in Lane
  BY DEF Lane
<1>3. lane' = [lane EXCEPT ![p] = [m EXCEPT !.stage = s]]
  BY <1>1 DEF Go
<1> QED
  BY <1>1, <1>2, <1>3 DEF Onwards, Lane

LEMMA GiveUpIs ==
  ASSUME lane \in [Processes -> Lane], NEW p \in Processes, GiveUp(p)
  PROVE  Onwards(p, "release") /\ lane'[p].outcome = "failed"
<1>1. lane[p] \in Lane
  OBVIOUS
<1>2. PICK m : m = [lane[p] EXCEPT !.stage = "release", !.outcome = "failed"]
  OBVIOUS
<1>3. /\ m \in Lane /\ m.stage = "release" /\ m.outcome = "failed"
      /\ m.op = lane[p].op /\ m.key = lane[p].key /\ m.asked = lane[p].asked
      /\ m.names = lane[p].names /\ m.counted = lane[p].counted /\ m.bytes = lane[p].bytes
  BY <1>1, <1>2 DEF Lane, Stage
<1>4. lane' = [lane EXCEPT ![p] = m]
  BY <1>1, <1>2 DEF GiveUp, Lane
<1> QED
  BY <1>3, <1>4 DEF Onwards

LEMMA SucceedIs ==
  ASSUME lane \in [Processes -> Lane], NEW p \in Processes, Succeed(p)
  PROVE  Onwards(p, "release") /\ lane'[p].outcome = "done"
<1>1. lane[p] \in Lane
  OBVIOUS
<1>2. PICK m : m = [lane[p] EXCEPT !.stage = "release", !.outcome = "done"]
  OBVIOUS
<1>3. /\ m \in Lane /\ m.stage = "release" /\ m.outcome = "done"
      /\ m.op = lane[p].op /\ m.key = lane[p].key /\ m.asked = lane[p].asked
      /\ m.names = lane[p].names /\ m.counted = lane[p].counted /\ m.bytes = lane[p].bytes
  BY <1>1, <1>2 DEF Lane, Stage
<1>4. lane' = [lane EXCEPT ![p] = m]
  BY <1>1, <1>2 DEF Succeed, Lane
<1> QED
  BY <1>3, <1>4 DEF Onwards

LEMMA IdleIs ==
  /\ Idle \in Lane /\ Nothing \in [Keys -> SUBSET Files]
  /\ Idle.stage = "idle" /\ Idle.op = "start" /\ Idle.asked = 0
<1>1. 0 \in 0..WaitLimit
  BY StorageAssumption
<1> QED
  BY <1>1 DEF Idle, Lane, Nothing, Stage, Bytes

LEMMA MyLeaseIs ==
  ASSUME lane \in [Processes -> Lane], NEW p \in Processes,
         NEW s \in {"beating", "left", "torn"}
  PROVE  /\ MyLease(p) \in Lease /\ MyLease(p).asked = lane[p].asked
         /\ [MyLease(p) EXCEPT !.state = s] \in Lease
         /\ [MyLease(p) EXCEPT !.state = s].asked = lane[p].asked
<1>1. 0 \in 0..StaleAge /\ lane[p].asked \in Nat
  BY StorageAssumption DEF Lane
<1> QED
  BY <1>1 DEF MyLease, Lease

\* Leases are of instants that were there before, and of mutations.
LEMMA InstantsStay ==
  ASSUME StoreInv, leases' \subseteq Lease, lane' \in [Processes -> Lane],
         \A l \in leases' : \/ \E m \in leases : l.asked = m.asked
                            \/ \E p \in Processes : l.asked = lane[p].asked,
         NEW i \in Nat,
         \A p \in Processes : lane'[p].asked \in {lane[p].asked, i}
  PROVE  InstantsEnd'
<1>1. PICK n \in Nat : /\ \A l \in leases : l.asked <= n
                       /\ \A p \in Processes : lane[p].asked <= n
  BY DEF StoreInv, InstantsEnd
<1>2. \A p \in Processes : lane[p].asked \in Nat
  BY DEF StoreInv, TypeOK, Lane
<1>3. PICK m \in Nat : n <= m /\ i <= m
  <2>1. CASE n <= i
    BY <2>1
  <2>2. CASE i <= n
    BY <2>2
  <2> QED
    BY <2>1, <2>2
<1>4. \A l \in leases' : l.asked <= m
  <2> SUFFICES ASSUME NEW l \in leases' PROVE l.asked <= m
    OBVIOUS
  <2>1. l.asked \in Nat /\ l.asked <= n
    BY <1>1 DEF Lease
  <2> QED
    BY <2>1, <1>3
<1>5. \A p \in Processes : lane'[p].asked <= m
  BY <1>1, <1>2, <1>3
<1> QED
  BY <1>4, <1>5 DEF InstantsEnd

-----------------------------------------------------------------------------
(* The vault.                                                              *)

Held(k) ==
  ~Complete(k) /\ "reservation" \in disk[k] /\ (k \in expired => Uploading(k))
VaultStep == [Vault!Next]_(Vault!vaultVars)

LEMMA PlaceIs ==
  /\ Place \in [Keys -> {"free", "held", "kept"}]
  /\ \A k \in Keys : /\ Place[k] = "kept" <=> Complete(k)
                     /\ Place[k] = "held" <=> Held(k)
                     /\ Place[k] = "free" <=> ~Complete(k) /\ ~Held(k)
BY DEF Place, Held, Complete

LEMMA NextPlaceIs ==
  /\ Place' \in [Keys -> {"free", "held", "kept"}]
  /\ \A k \in Keys : /\ Place'[k] = "kept" <=> Complete(k)'
                     /\ Place'[k] = "held" <=> Held(k)'
                     /\ Place'[k] = "free" <=> ~Complete(k)' /\ ~Held(k)'
BY DEF Place, Held, Complete

LEMMA NeverBoth == \A k \in Keys : ~(Complete(k) /\ Held(k)) /\ ~(Complete(k)' /\ Held(k)')
BY DEF Held

\* All but one place stay what they are.
LEMMA PlacesStay ==
  ASSUME NEW j \in Keys,
         \A k \in Keys \ {j} : (Complete(k)' <=> Complete(k)) /\ (Held(k)' <=> Held(k))
  PROVE  Place' = [Place EXCEPT ![j] = Place'[j]]
<1>1. \A k \in Keys \ {j} : Place'[k] = Place[k]
  <2> SUFFICES ASSUME NEW k \in Keys \ {j} PROVE Place'[k] = Place[k]
    OBVIOUS
  <2>1. Place[k] \in {"free", "held", "kept"}
    BY PlaceIs
  <2> QED
    BY <2>1, PlaceIs, NextPlaceIs
<1>2. Place \in [Keys -> {"free", "held", "kept"}] /\ Place' \in [Keys -> {"free", "held", "kept"}]
  BY PlaceIs, NextPlaceIs
<1> QED
  BY <1>1, <1>2

LEMMA VaultStays ==
  ASSUME \A k \in Keys : (Complete(k)' <=> Complete(k)) /\ (Held(k)' <=> Held(k)),
         UNCHANGED <<answers, attached>>
  PROVE  VaultStep
<1>1. \A k \in Keys : Place'[k] = Place[k]
  <2> SUFFICES ASSUME NEW k \in Keys PROVE Place'[k] = Place[k]
    OBVIOUS
  <2>1. Place[k] \in {"free", "held", "kept"}
    BY PlaceIs
  <2> QED
    BY <2>1, PlaceIs, NextPlaceIs
<1>2. Place \in [Keys -> {"free", "held", "kept"}] /\ Place' \in [Keys -> {"free", "held", "kept"}]
  BY PlaceIs, NextPlaceIs
<1>3. Place' = Place
  BY <1>1, <1>2
<1> QED
  BY <1>3 DEF VaultStep, Vault!vaultVars

\* A place that was held may be free again.
LEMMA VaultDrops ==
  ASSUME NEW j \in Keys, Complete(j)' <=> Complete(j), Held(j)' => Held(j),
         \A k \in Keys \ {j} : (Complete(k)' <=> Complete(k)) /\ (Held(k)' <=> Held(k)),
         UNCHANGED <<answers, attached>>
  PROVE  VaultStep
<1>1. CASE Held(j)' <=> Held(j)
  BY <1>1, VaultStays
<1>2. CASE Held(j) /\ ~Held(j)'
  <2>1. Place[j] = "held" /\ Place'[j] = "free"
    BY <1>2, PlaceIs, NextPlaceIs, NeverBoth
  <2>2. Place' = [Place EXCEPT ![j] = "free"]
    BY <2>1, PlacesStay
  <2>3. Vault!GiveUp(j)
    BY <2>1, <2>2 DEF Vault!GiveUp
  <2> QED
    BY <2>3 DEF VaultStep, Vault!Next
<1> QED
  BY <1>1, <1>2

LEMMA SameCount == \A S : Vault!Cardinality(S) = Cardinality(S)
BY DEF Vault!Cardinality, Cardinality

\* A place is taken within the quotas.
LEMMA VaultHolds ==
  ASSUME IsFiniteSet(Keys), NEW j \in Keys, NEW C \in SUBSET Keys,
         ~Complete(j), ~Held(j), ~Complete(j)', Held(j)',
         \A k \in Keys \ {j} : (Complete(k)' <=> Complete(k)) /\ (Held(k)' <=> Held(k)),
         \A k \in Keys : Complete(k) \/ Held(k) => k \in C,
         WithinQuota(C, j),
         UNCHANGED <<answers, attached>>
  PROVE  VaultStep
<1>1. Place[j] = "free" /\ Place'[j] = "held"
  BY PlaceIs, NextPlaceIs
<1>2. Place' = [Place EXCEPT ![j] = "held"]
  BY <1>1, PlacesStay
<1>3. Vault!Taken \subseteq C
  <2> SUFFICES ASSUME NEW k \in Keys, Place[k] # "free" PROVE k \in C
    BY DEF Vault!Taken
  <2> QED
    BY PlaceIs
<1>4. IsFiniteSet(C)
  BY FS_Subset
<1>5. Cardinality(Vault!Taken) < MaxTotal
  <2>1. /\ Cardinality(Vault!Taken) <= Cardinality(C)
        /\ Cardinality(Vault!Taken) \in Nat /\ Cardinality(C) \in Nat
    BY <1>3, <1>4, FS_Subset, FS_CardinalityType
  <2> QED
    BY <2>1, StorageAssumption DEF WithinQuota
<1>6. Cardinality(Vault!TakenOf(OrderOf[j])) < MaxPerOrder
  <2>1. PICK D : D = {k \in C : OrderOf[k] = OrderOf[j]}
    OBVIOUS
  <2>2. PICK T : T = Vault!TakenOf(OrderOf[j])
    OBVIOUS
  <2>3. D \subseteq C /\ T \subseteq D
    BY <1>3, <2>1, <2>2 DEF Vault!TakenOf
  <2>4. IsFiniteSet(D)
    BY <2>3, <1>4, FS_Subset
  <2>5. Cardinality(T) <= Cardinality(D) /\ Cardinality(T) \in Nat /\ Cardinality(D) \in Nat
    BY <2>3, <2>4, FS_Subset, FS_CardinalityType
  <2>6. Cardinality(D) < MaxPerOrder
    BY <2>1 DEF WithinQuota
  <2> QED
    BY <2>2, <2>5, <2>6, StorageAssumption
<1>7. Vault!Hold(j)
  BY <1>1, <1>2, <1>5, <1>6, SameCount DEF Vault!Hold
<1> QED
  BY <1>7 DEF VaultStep, Vault!Next

LEMMA VaultKeeps ==
  ASSUME NEW j \in Keys, Held(j), Complete(j)',
         \A k \in Keys \ {j} : (Complete(k)' <=> Complete(k)) /\ (Held(k)' <=> Held(k)),
         UNCHANGED <<answers, attached>>
  PROVE  VaultStep
<1>1. Place[j] = "held" /\ Place'[j] = "kept"
  BY PlaceIs, NextPlaceIs
<1>2. Place' = [Place EXCEPT ![j] = "kept"]
  BY <1>1, PlacesStay
<1>3. Vault!Keep(j)
  BY <1>1, <1>2 DEF Vault!Keep
<1> QED
  BY <1>3 DEF VaultStep, Vault!Next

LEMMA VaultConfirms ==
  ASSUME NEW j \in Keys, Complete(j), answers[j] = 0,
         \A k \in Keys : (Complete(k)' <=> Complete(k)) /\ (Held(k)' <=> Held(k)),
         answers' = [answers EXCEPT ![j] = @ + 1], attached' = attached
  PROVE  VaultStep
<1>1. Place[j] = "kept" /\ Place'[j] = "kept"
  BY PlaceIs, NextPlaceIs
<1>2. Place' = Place
  <2>1. Place' = [Place EXCEPT ![j] = "kept"] /\ Place \in [Keys -> {"free", "held", "kept"}]
    BY <1>1, PlacesStay, PlaceIs
  <2> QED
    BY <1>1, <2>1
<1>3. Vault!Confirm(j)
  BY <1>1, <1>2 DEF Vault!Confirm
<1> QED
  BY <1>3 DEF VaultStep, Vault!Next

LEMMA VaultAttaches ==
  ASSUME NEW j \in Keys, Complete(j),
         \A k \in Keys : (Complete(k)' <=> Complete(k)) /\ (Held(k)' <=> Held(k)),
         attached' = attached \cup {j}, answers' = answers
  PROVE  VaultStep
<1>1. Place[j] = "kept" /\ Place'[j] = "kept"
  BY PlaceIs, NextPlaceIs
<1>2. Place' = Place
  <2>1. Place' = [Place EXCEPT ![j] = "kept"] /\ Place \in [Keys -> {"free", "held", "kept"}]
    BY <1>1, PlacesStay, PlaceIs
  <2> QED
    BY <1>1, <2>1
<1>3. Vault!Attach(j)
  BY <1>1, <1>2 DEF Vault!Attach
<1> QED
  BY <1>3 DEF VaultStep, Vault!Next

-----------------------------------------------------------------------------
(* The process and its files.                                              *)

LEMMA MineAlone ==
  ASSUME OneProcess, NEW p \in Processes, NEW k \in Keys
  PROVE  /\ Uploading(k) <=> lane[p].op = "accept" /\ lane[p].key = k /\ lane[p].stage \in Uploads
         /\ Uploading(k)' <=>
              lane'[p].op = "accept" /\ lane'[p].key = k /\ lane'[p].stage \in Uploads
BY DEF OneProcess, Uploading, Uploads

\* What is complete stays so; then what was read and confirmed is still true.
LEMMA StoreGoes ==
  ASSUME StoreInv, OneProcess, NEW p \in Processes,
         TypeOK', InstantsEnd', Sound(lane[p])', FilesAgree',
         \A k \in Keys : Complete(k) => Complete(k)', reader'[p] \in {reader[p], NotReading}
  PROVE  StoreInv'
<1>1. LanesAreSound'
  BY DEF LanesAreSound, OneProcess
<1>2. ReadersAgree'
  <2> SUFFICES ASSUME NEW q \in Processes
               PROVE  /\ reader'[q].stage # "idle" => reader'[q].key \in Keys
                      /\ reader'[q].stage = "content" => "metadata" \in disk'[reader'[q].key]
                      /\ reader'[q].stage = "verified" => Complete(reader[q].key)'
    BY DEF ReadersAgree
  <2>1. q = p
    BY DEF OneProcess
  <2>2. CASE reader'[p] = NotReading
    BY <2>1, <2>2 DEF NotReading
  <2>3. CASE reader'[p] = reader[p]
    <3>1. /\ reader[p].stage # "idle" => reader[p].key \in Keys
          /\ reader[p].stage = "content" => "metadata" \in disk[reader[p].key]
          /\ reader[p].stage = "verified" => Complete(reader[p].key)
      BY DEF StoreInv, ReadersAgree
    <3>2. \A k \in Keys : "metadata" \in disk[k] => Complete(k)
      BY DEF StoreInv, FilesAgree, Complete, Pair
    <3>3. \A k \in Keys : Complete(k)' => "metadata" \in disk'[k]
      BY DEF Complete, Pair
    <3>4. reader'[p].stage = "content" => "metadata" \in disk'[reader'[p].key]
      BY <2>3, <3>1, <3>2, <3>3
    <3>5. PICK r : r = reader[p]
      OBVIOUS
    <3>6. r.stage = "verified" => r.key \in Keys /\ Complete(r.key)
      BY <3>1, <3>5
    <3>7. r.stage = "verified" => Pair \subseteq disk'[r.key]
      BY <3>6 DEF Complete
    <3> QED
      BY <2>1, <2>3, <3>1, <3>4, <3>5, <3>7 DEF Complete
  <2> QED
    BY <2>2, <2>3
<1> QED
  BY <1>1, <1>2 DEF StoreInv

LEMMA StoreKeeps ==
  ASSUME StoreInv, OneProcess, NEW p \in Processes,
         TypeOK', InstantsEnd', Sound(lane[p])',
         \A k \in Keys : Complete(k) => Complete(k)',
         \A k \in Keys : "metadata" \in disk'[k] => "object" \in disk'[k],
         UNCHANGED <<answers, attached>>, reader'[p] \in {reader[p], NotReading}
  PROVE  StoreInv'
<1>1. FilesAgree'
  BY DEF StoreInv, FilesAgree, TypeOK
<1> QED
  BY <1>1, StoreGoes

\* A step of the lane that completes nothing, and takes at most the reservation
\* of its own key away.
LEMMA LaneStep ==
  ASSUME StoreInv, OneProcess, NEW p \in Processes,
         TypeOK', InstantsEnd', Sound(lane[p])',
         lane'[p].op = "accept" /\ lane'[p].stage \in Uploads =>
           lane[p].op = "accept" /\ lane[p].stage \in Uploads /\ lane'[p].key = lane[p].key,
         \A k \in Keys : Complete(k)' <=> Complete(k),
         \A k \in Keys : "metadata" \in disk'[k] => "object" \in disk'[k],
         \A k \in Keys : "reservation" \in disk'[k] => "reservation" \in disk[k],
         \A k \in Keys \ {lane[p].key} : "reservation" \in disk[k] => "reservation" \in disk'[k],
         UNCHANGED <<expired, answers, attached>>, reader'[p] \in {reader[p], NotReading}
  PROVE  StoreInv' /\ VaultStep
<1>1. StoreInv'
  BY StoreKeeps
<1>2. \A k \in Keys : Uploading(k)' => Uploading(k)
  BY MineAlone
<1>3. \A k \in Keys : Held(k)' => Held(k)
  BY <1>2 DEF Held
<1>4. \A k \in Keys \ {lane[p].key} : Held(k)' <=> Held(k)
  BY <1>3, MineAlone DEF Held
<1>5. VaultStep
  <2>1. CASE lane[p].key \in Keys
    <3>1. PICK j \in Keys : j = lane[p].key
      BY <2>1
    <3>2. /\ Complete(j)' <=> Complete(j)
          /\ Held(j)' => Held(j)
          /\ \A k \in Keys \ {j} : (Complete(k)' <=> Complete(k)) /\ (Held(k)' <=> Held(k))
      BY <1>3, <1>4, <3>1
    <3> QED
      BY <3>2, VaultDrops
  <2>2. CASE lane[p].key \notin Keys
    BY <1>4, <2>2, VaultStays
  <2> QED
    BY <2>1, <2>2
<1> QED
  BY <1>1, <1>5

LEMMA SameFiles ==
  ASSUME StoreInv, OneProcess, NEW p \in Processes,
         TypeOK', InstantsEnd', Sound(lane[p])',
         lane'[p].op = "accept" /\ lane'[p].stage \in Uploads =>
           lane[p].op = "accept" /\ lane[p].stage \in Uploads /\ lane'[p].key = lane[p].key,
         UNCHANGED <<disk, expired, answers, attached>>, reader'[p] \in {reader[p], NotReading}
  PROVE  StoreInv' /\ VaultStep
<1>1. \A k \in Keys : Complete(k)' <=> Complete(k)
  BY DEF Complete
<1>2. \A k \in Keys : "metadata" \in disk'[k] => "object" \in disk'[k]
  BY DEF StoreInv, FilesAgree
<1> QED
  BY <1>1, <1>2, LaneStep

\* Stages in which a mutation knows nothing of the files yet, or any more.
LEMMA QuietSound ==
  ASSUME NEW p \in Processes,
         \/ lane'[p].stage \in {"idle", "contend", "wait", "manifest", "sweep"}
         \/ lane'[p].stage = "release" /\ ~(lane'[p].op = "accept" /\ lane'[p].outcome = "done"),
         lane'[p].op # "start" => lane'[p].key \in minted'
  PROVE  Sound(lane[p])'
BY DEF Sound

LEMMA KeyIsMinted ==
  ASSUME StoreInv, NEW p \in Processes, lane[p].op # "start"
  PROVE  lane[p].key \in minted /\ lane[p].key \in Keys
BY DEF StoreInv, TypeOK, LanesAreSound, Sound

-----------------------------------------------------------------------------
(* Requests and the lease.                                                 *)

LEMMA BeginIs ==
  ASSUME StoreInv, NEW p \in Processes, NEW op \in {"start", "issue", "accept"},
         NEW k \in Keys \cup {None}, NEW bytes \in Bytes, Begin(p, op, k, bytes),
         leases' = leases
  PROVE  /\ lane' \in [Processes -> Lane] /\ InstantsEnd'
         /\ lane'[p].stage = "contend" /\ lane'[p].op = op /\ lane'[p].key = k
<1>1. PICK i \in Nat : i = NextInstant
  BY InstantIs
<1>2. PICK m : m = [Idle EXCEPT !.stage = "contend", !.op = op, !.key = k,
                                !.bytes = bytes, !.asked = i]
  OBVIOUS
<1>3. m \in Lane /\ m.stage = "contend" /\ m.op = op /\ m.key = k /\ m.asked = i
  BY <1>2, IdleIs DEF Lane, Stage
<1>4. lane \in [Processes -> Lane] /\ leases \subseteq Lease
  BY DEF StoreInv, TypeOK
<1>5. lane' = [lane EXCEPT ![p] = m]
  BY <1>1, <1>2 DEF Begin
<1>6. lane' \in [Processes -> Lane] /\ lane'[p] = m
  BY <1>3, <1>4, <1>5
<1>7. \A q \in Processes : lane'[q].asked \in {lane[q].asked, i}
  BY <1>3, <1>4, <1>5
<1>8. InstantsEnd'
  BY <1>4, <1>6, <1>7, InstantsStay
<1> QED
  BY <1>3, <1>6, <1>8

LEMMA Starts ==
  ASSUME StoreInv, OneProcess, NEW p \in Processes, Start(p)
  PROVE  StoreInv' /\ VaultStep
<1>1. /\ lane' \in [Processes -> Lane] /\ InstantsEnd'
      /\ lane'[p].stage = "contend" /\ lane'[p].op = "start"
  BY BeginIs DEF Start, Bytes
<1>2. TypeOK'
  BY <1>1 DEF Start, StoreInv, TypeOK, clientVars, evidenceVars
<1>3. Sound(lane[p])'
  BY <1>1, QuietSound
<1> QED
  BY <1>1, <1>2, <1>3, SameFiles DEF Start, clientVars, evidenceVars

LEMMA Issues ==
  ASSUME StoreInv, OneProcess, NEW p \in Processes, NEW k \in Keys, IssueUpload(p, k)
  PROVE  StoreInv' /\ VaultStep
<1>1. /\ lane' \in [Processes -> Lane] /\ InstantsEnd'
      /\ lane'[p].stage = "contend" /\ lane'[p].op = "issue" /\ lane'[p].key = k
  BY BeginIs DEF IssueUpload, Bytes
<1>2. TypeOK'
  BY <1>1 DEF IssueUpload, Mint, StoreInv, TypeOK, evidenceVars
<1>3. Sound(lane[p])'
  BY <1>1, QuietSound DEF IssueUpload, Mint
<1> QED
  BY <1>1, <1>2, <1>3, SameFiles DEF IssueUpload, evidenceVars

LEMMA Accepts ==
  ASSUME StoreInv, OneProcess, NEW p \in Processes, NEW k \in Keys, NEW bytes \in Bytes,
         AcceptUpload(p, k, bytes)
  PROVE  StoreInv' /\ VaultStep
<1>1. /\ lane' \in [Processes -> Lane] /\ InstantsEnd'
      /\ lane'[p].stage = "contend" /\ lane'[p].op = "accept" /\ lane'[p].key = k
  BY BeginIs DEF AcceptUpload
<1>2. TypeOK'
  BY <1>1 DEF AcceptUpload, StoreInv, TypeOK, clientVars, evidenceVars
<1>3. k \in minted'
  BY DEF AcceptUpload, Presents, StoreInv, TypeOK, clientVars
<1>4. Sound(lane[p])'
  BY <1>1, <1>3, QuietSound
<1>5. lane'[p].stage \notin Uploads
  BY <1>1 DEF Uploads
<1> QED
  BY <1>2, <1>1, <1>4, <1>5, SameFiles DEF AcceptUpload, clientVars, evidenceVars

\* The lane goes on without a new instant.
LEMMA InstantsOnwards ==
  ASSUME StoreInv, NEW p \in Processes, NEW s \in Stage, Onwards(p, s),
         leases' \subseteq Lease,
         \A l \in leases' : l \in leases \/ l.asked = lane[p].asked
  PROVE  InstantsEnd'
<1>1. \A q \in Processes : lane'[q].asked \in {lane[q].asked, 0}
  BY DEF Onwards
<1>2. \A l \in leases' : \/ \E m \in leases : l.asked = m.asked
                         \/ \E q \in Processes : l.asked = lane[q].asked
  OBVIOUS
<1>3. lane' \in [Processes -> Lane] /\ 0 \in Nat
  BY DEF Onwards
<1> QED
  BY <1>1, <1>2, <1>3, InstantsStay

\* The lane goes on and the files stay, whatever becomes of leases.
LEMMA GoesOn ==
  ASSUME StoreInv, OneProcess, NEW p \in Processes, NEW s \in Stage, Onwards(p, s),
         s \in {"wait", "manifest", "sweep"} \/ (s = "release" /\ lane'[p].outcome = "failed"),
         leases' \subseteq Lease, manifest' \in {"none", "torn", "whole"},
         faults' \in 0..MaxFaults, crashes' \in 0..MaxCrashes,
         \A l \in leases' : l \in leases \/ l.asked = lane[p].asked,
         UNCHANGED <<process, disk, clientVars, evidenceVars>>
  PROVE  StoreInv' /\ VaultStep
<1>1. InstantsEnd'
  BY InstantsOnwards
<1>2. TypeOK'
  BY DEF StoreInv, TypeOK, Onwards, clientVars, evidenceVars
<1>3. lane'[p].stage = s /\ lane'[p].op = lane[p].op /\ lane'[p].key = lane[p].key
  BY DEF Onwards
<1>4. Sound(lane[p])'
  BY <1>3, KeyIsMinted, QuietSound DEF clientVars
<1>5. s \notin Uploads
  BY DEF Uploads
<1> QED
  BY <1>1, <1>2, <1>3, <1>4, <1>5, SameFiles DEF clientVars, evidenceVars

LEMMA WritesLease ==
  ASSUME StoreInv, OneProcess, NEW p \in Processes, WriteLease(p)
  PROVE  StoreInv' /\ VaultStep
<1>1. lane \in [Processes -> Lane] /\ "wait" \in Stage
  BY DEF StoreInv, TypeOK, Stage
<1>2. Onwards(p, "wait")
  BY <1>1, GoIs DEF WriteLease
<1>3. /\ leases' \subseteq Lease /\ leases' = leases \cup {MyLease(p)}
      /\ MyLease(p).asked = lane[p].asked
  BY <1>1, MyLeaseIs DEF WriteLease, StoreInv, TypeOK
<1> QED
  BY <1>1, <1>2, <1>3, GoesOn DEF WriteLease, StoreInv, TypeOK

LEMMA Acquires ==
  ASSUME StoreInv, OneProcess, NEW p \in Processes, Acquire(p)
  PROVE  StoreInv' /\ VaultStep
<1>1. lane \in [Processes -> Lane] /\ "manifest" \in Stage
  BY DEF StoreInv, TypeOK, Stage
<1>2. Onwards(p, "manifest")
  BY <1>1, GoIs DEF Acquire
<1> QED
  BY <1>1, <1>2, GoesOn DEF Acquire, StoreInv, TypeOK

LEMMA EnsuresManifest ==
  ASSUME StoreInv, OneProcess, NEW p \in Processes, EnsureManifest(p)
  PROVE  StoreInv' /\ VaultStep
<1>1. lane \in [Processes -> Lane] /\ {"sweep", "release"} \subseteq Stage
  BY DEF StoreInv, TypeOK, Stage
<1>2. CASE Go(p, "sweep") /\ manifest' = "whole"
  <2>1. Onwards(p, "sweep")
    BY <1>1, <1>2, GoIs
  <2> QED
    BY <1>1, <1>2, <2>1, GoesOn DEF EnsureManifest, StoreInv, TypeOK
<1>3. CASE GiveUp(p) /\ manifest' = manifest
  <2>1. Onwards(p, "release") /\ lane'[p].outcome = "failed"
    BY <1>1, <1>3, GiveUpIs
  <2> QED
    BY <1>1, <1>3, <2>1, GoesOn DEF EnsureManifest, StoreInv, TypeOK
<1> QED
  BY <1>2, <1>3 DEF EnsureManifest

LEMMA Polls ==
  ASSUME StoreInv, OneProcess, NEW p \in Processes, Poll(p)
  PROVE  StoreInv' /\ VaultStep
<1>1. lane \in [Processes -> Lane] /\ {"wait", "release"} \subseteq Stage
  BY DEF StoreInv, TypeOK, Stage
<1>2. leases' \subseteq leases /\ leases' \subseteq Lease
  BY DEF Poll, Quarantine, StoreInv, TypeOK
<1>3. CASE lane' = [lane EXCEPT ![p].polled = "yes"]
  <2>1. Onwards(p, "wait")
    <3>1. PICK m \in Lane : m = lane[p]
      BY <1>1
    <3>2. PICK n : n = [m EXCEPT !.polled = "yes"]
      OBVIOUS
    <3>3. /\ n \in Lane /\ n.stage = m.stage
          /\ n.op = m.op /\ n.key = m.key /\ n.asked = m.asked
          /\ n.names = m.names /\ n.counted = m.counted /\ n.bytes = m.bytes
      BY <3>2 DEF Lane
    <3>4. m.stage = "wait"
      BY <3>1 DEF Poll, At
    <3>5. lane' = [lane EXCEPT ![p] = n]
      BY <1>3, <3>1, <3>2
    <3> QED
      BY <1>1, <3>1, <3>3, <3>4, <3>5 DEF Onwards
  <2> QED
    BY <1>1, <1>2, <2>1, GoesOn DEF Poll, StoreInv, TypeOK
<1>4. CASE GiveUp(p)
  <2>1. Onwards(p, "release") /\ lane'[p].outcome = "failed"
    BY <1>1, <1>4, GiveUpIs
  <2> QED
    BY <1>1, <1>2, <2>1, GoesOn DEF Poll, StoreInv, TypeOK
<1> QED
  BY <1>3, <1>4 DEF Poll

LEMMA Ticks ==
  ASSUME StoreInv, OneProcess, Tick
  PROVE  StoreInv' /\ VaultStep
<1>0. PICK p \in Processes : TRUE
  BY DEF OneProcess
<1>1. \A q \in Processes :
        /\ lane'[q] \in Lane /\ lane'[q].stage = lane[q].stage /\ lane'[q].op = lane[q].op
        /\ lane'[q].key = lane[q].key /\ lane'[q].asked = lane[q].asked
        /\ lane'[q].names = lane[q].names /\ lane'[q].counted = lane[q].counted
        /\ lane'[q].outcome = lane[q].outcome
  <2> SUFFICES ASSUME NEW q \in Processes
               PROVE  /\ lane'[q] \in Lane /\ lane'[q].stage = lane[q].stage
                      /\ lane'[q].op = lane[q].op
                      /\ lane'[q].key = lane[q].key /\ lane'[q].asked = lane[q].asked
                      /\ lane'[q].names = lane[q].names /\ lane'[q].counted = lane[q].counted
                      /\ lane'[q].outcome = lane[q].outcome
    OBVIOUS
  <2>1. PICK l \in Lane : l = lane[q]
    BY DEF StoreInv, TypeOK
  <2>2. CASE ~At(q, "wait")
    BY <2>1, <2>2 DEF Tick
  <2>3. CASE At(q, "wait")
    <3>1. l.waited \in 0..WaitLimit /\ l.waited < WaitLimit
      BY <2>1, <2>3 DEF Tick, Lane
    <3>2. l.waited + 1 \in 0..WaitLimit
      BY <3>1, StorageAssumption
    <3>3. PICK m : m = [l EXCEPT !.waited = l.waited + 1, !.polled = "no"]
      OBVIOUS
    <3>4. /\ m \in Lane /\ m.stage = l.stage /\ m.op = l.op /\ m.key = l.key /\ m.asked = l.asked
          /\ m.names = l.names /\ m.counted = l.counted /\ m.outcome = l.outcome
      BY <2>1, <3>2, <3>3 DEF Lane
    <3>5. lane'[q] = m
      BY <2>1, <2>3, <3>3 DEF Tick
    <3> QED
      BY <2>1, <3>4, <3>5
  <2> QED
    BY <2>2, <2>3
<1>2. lane' \in [Processes -> Lane]
  BY <1>1 DEF Tick
<1>3. \A l \in leases' : l \in Lease /\ \E m \in leases : l.asked = m.asked
  <2> SUFFICES ASSUME NEW l \in leases' PROVE l \in Lease /\ \E m \in leases : l.asked = m.asked
    OBVIOUS
  <2>1. PICK m \in leases :
          l = [m EXCEPT !.age = IF m.state = "beating" THEN 0 ELSE Min({m.age + 1, StaleAge})]
    BY DEF Tick
  <2>2. m \in Lease
    BY DEF StoreInv, TypeOK
  <2>3. m.age + 1 \in Nat /\ StaleAge \in Nat
    BY <2>2, StorageAssumption DEF Lease
  <2>4. PICK a : a = IF m.state = "beating" THEN 0 ELSE Min({m.age + 1, StaleAge})
    OBVIOUS
  <2>5. a \in 0..StaleAge
    BY <2>3, <2>4, MinIsOf
  <2>6. l = [m EXCEPT !.age = a]
    BY <2>1, <2>4
  <2> QED
    BY <2>2, <2>5, <2>6 DEF Lease
<1>4. InstantsEnd'
  BY <1>1, <1>2, <1>3, InstantsStay
<1>5. TypeOK'
  BY <1>2, <1>3 DEF Tick, StoreInv, TypeOK, clientVars, evidenceVars
<1>6. Sound(lane[p])'
  <2>1. Sound(lane[p])
    BY DEF StoreInv, LanesAreSound
  <2>2. UNCHANGED <<disk, expired, minted, answers>>
    BY DEF Tick, clientVars
  <2>3. /\ lane'[p].stage = lane[p].stage /\ lane'[p].op = lane[p].op /\ lane'[p].key = lane[p].key
        /\ lane'[p].names = lane[p].names /\ lane'[p].counted = lane[p].counted
        /\ lane'[p].outcome = lane[p].outcome
    BY <1>1
  <2> QED
    BY ONLY <2>1, <2>2, <2>3 DEF Sound, Complete
<1>7. lane'[p].op = lane[p].op /\ lane'[p].stage = lane[p].stage /\ lane'[p].key = lane[p].key
  BY <1>1
<1>8. UNCHANGED <<disk, expired, answers, attached, reader>>
  BY DEF Tick, clientVars, evidenceVars
<1> QED
  BY <1>4, <1>5, <1>6, <1>7, <1>8, SameFiles

-----------------------------------------------------------------------------
(* The sweep.                                                              *)

LEMMA Sweeps ==
  ASSUME StoreInv, OneProcess, NEW p \in Processes, Sweep(p)
  PROVE  StoreInv' /\ VaultStep
<1>1. lane[p] \in Lane /\ disk \in [Keys -> SUBSET Files]
  BY DEF StoreInv, TypeOK
<1>2. /\ disk' \in [Keys -> SUBSET Files]
      /\ \A k \in Keys : disk'[k] = disk[k] \ Temporary
  BY <1>1 DEF Sweep
<1>3. PICK m : m = [lane[p] EXCEPT !.stage = "reservations", !.names = disk']
  OBVIOUS
<1>4. /\ m \in Lane /\ m.stage = "reservations" /\ m.names = disk' /\ m.op = lane[p].op
      /\ m.key = lane[p].key /\ m.asked = lane[p].asked
  BY <1>1, <1>2, <1>3 DEF Lane, Stage
<1>5. lane' = [lane EXCEPT ![p] = m] /\ lane \in [Processes -> Lane]
  BY <1>3 DEF Sweep, StoreInv, TypeOK
<1>6. lane' \in [Processes -> Lane] /\ lane'[p] = m
  BY <1>4, <1>5
<1>7. TypeOK'
  BY <1>2, <1>6 DEF Sweep, StoreInv, TypeOK, clientVars, evidenceVars
<1>8. InstantsEnd'
  <2>1. leases' = leases /\ leases \subseteq Lease
    BY DEF Sweep, StoreInv, TypeOK
  <2>2. \A q \in Processes : lane'[q].asked \in {lane[q].asked, 0}
    BY <1>4, <1>5
  <2> QED
    BY <1>6, <2>1, <2>2, InstantsStay
<1>9. Sound(lane[p])'
  <2>1. m.op # "start" => m.key \in minted'
    BY <1>4, KeyIsMinted DEF Sweep, clientVars
  <2> QED
    BY <1>4, <1>6, <2>1 DEF Sound
<1>10. \A k \in Keys : /\ disk'[k] \cap Pair = disk[k] \cap Pair
                       /\ "reservation" \in disk'[k] <=> "reservation" \in disk[k]
  BY <1>2 DEF Pair, Temporary
<1>11. \A k \in Keys : Complete(k)' <=> Complete(k)
  BY <1>10 DEF Complete
<1>12. \A k \in Keys : "metadata" \in disk'[k] => "object" \in disk'[k]
  BY <1>10 DEF StoreInv, FilesAgree, Pair
<1>13. lane'[p].stage \notin Uploads
  BY <1>4, <1>6 DEF Uploads
<1>14. UNCHANGED <<expired, answers, attached, reader>>
  BY DEF Sweep, clientVars, evidenceVars
<1> QED
  BY <1>7, <1>8, <1>9, <1>10, <1>11, <1>12, <1>13, <1>14, LaneStep

\* What the lane in a step of the sweep becomes, and the time it began at.
LEMMA LaneBecomes ==
  ASSUME StoreInv, NEW p \in Processes, NEW m \in Lane, lane' = [lane EXCEPT ![p] = m],
         m.asked = lane[p].asked, leases' = leases
  PROVE  lane' \in [Processes -> Lane] /\ lane'[p] = m /\ InstantsEnd'
<1>1. lane \in [Processes -> Lane] /\ leases \subseteq Lease
  BY DEF StoreInv, TypeOK
<1>2. lane' \in [Processes -> Lane] /\ lane'[p] = m
  BY <1>1
<1>3. \A q \in Processes : lane'[q].asked \in {lane[q].asked, 0}
  BY <1>1
<1> QED
  BY <1>1, <1>2, <1>3, InstantsStay

LEMMA PrunesReservations ==
  ASSUME StoreInv, OneProcess, NEW p \in Processes, PruneReservations(p)
  PROVE  StoreInv' /\ VaultStep
<1>1. lane[p] \in Lane /\ disk \in [Keys -> SUBSET Files]
  BY DEF StoreInv, TypeOK
<1>2. /\ disk' \in [Keys -> SUBSET Files]
      /\ \A k \in Keys : disk'[k] = disk[k] \ Outdated(p, k)
  BY <1>1 DEF PruneReservations
<1>3. /\ \A k \in Keys : lane[p].names[k] \cap Pair = disk[k] \cap Pair
      /\ \A k \in Keys : "reservation" \in disk[k] => "reservation" \in lane[p].names[k]
  BY DEF StoreInv, LanesAreSound, Sound, PruneReservations, At
<1>4. \A k \in Keys :
        Reserved(p, k) <=> "reservation" \in disk[k] /\ k \notin expired /\ ~Complete(k)
  BY <1>3 DEF Reserved, Readable, Complete
<1>5. \A k \in Keys :
        /\ disk'[k] \cap Pair = disk[k] \cap Pair
        /\ "reservation" \in disk'[k] <=> "reservation" \in disk[k] /\ k \notin expired /\ ~Complete(k)
  BY <1>2, <1>3, <1>4 DEF Outdated, Pair
<1>6. PICK C \in SUBSET Keys : C = {k \in Keys : Reserved(p, k)}
  OBVIOUS
<1>7. PICK m : m = [lane[p] EXCEPT !.stage = "pairs", !.counted = C]
  OBVIOUS
<1>8. /\ m \in Lane /\ m.stage = "pairs" /\ m.names = lane[p].names /\ m.counted = C
      /\ m.op = lane[p].op /\ m.key = lane[p].key /\ m.asked = lane[p].asked
  BY <1>1, <1>7 DEF Lane, Stage
<1>9. lane' = [lane EXCEPT ![p] = m]
  BY <1>6, <1>7 DEF PruneReservations, StoreInv, TypeOK
<1>10. lane' \in [Processes -> Lane] /\ lane'[p] = m /\ InstantsEnd'
  BY <1>8, <1>9, LaneBecomes DEF PruneReservations
<1>11. TypeOK'
  BY <1>2, <1>10 DEF PruneReservations, StoreInv, TypeOK, clientVars, evidenceVars
<1>12. UNCHANGED <<minted, expired, answers, attached, reader>>
  BY DEF PruneReservations, clientVars, evidenceVars
<1>13. \A k \in Keys : Complete(k)' <=> Complete(k)
  BY <1>5 DEF Complete
<1>14. Sound(lane[p])'
  <2>1. m.op # "start" => m.key \in minted'
    BY <1>8, <1>12, KeyIsMinted
  <2>2. \A k \in Keys : m.names[k] \cap Pair = disk'[k] \cap Pair
    BY <1>3, <1>5, <1>8
  <2>3. \A k \in Keys : "reservation" \in disk'[k] => k \in m.counted
    BY <1>4, <1>5, <1>6, <1>8
  <2> QED
    BY <1>8, <1>10, <2>1, <2>2, <2>3 DEF Sound
<1>15. \A k \in Keys : "metadata" \in disk'[k] => "object" \in disk'[k]
  BY <1>5 DEF StoreInv, FilesAgree, Pair
<1>16. StoreInv'
  BY <1>10, <1>11, <1>12, <1>13, <1>14, <1>15, StoreKeeps
<1>17. \A k \in Keys : Held(k)' <=> Held(k)
  <2>1. \A k \in Keys : ~Uploading(k)
    BY MineAlone DEF PruneReservations, At, Uploads
  <2> QED
    BY <1>5, <1>12, <1>13, <2>1 DEF Held
<1> QED
  BY <1>12, <1>13, <1>16, <1>17, VaultStays

LEMMA PrunesPairs ==
  ASSUME StoreInv, OneProcess, NEW p \in Processes, PrunePairs(p)
  PROVE  StoreInv' /\ VaultStep
<1>1. lane[p] \in Lane /\ disk \in [Keys -> SUBSET Files]
  BY DEF StoreInv, TypeOK
<1>2. /\ \A k \in Keys : lane[p].names[k] \cap Pair = disk[k] \cap Pair
      /\ \A k \in Keys :
           "reservation" \in disk[k] /\ k \notin expired /\ ~Complete(k) => k \in lane[p].counted
  BY DEF StoreInv, LanesAreSound, Sound, PrunePairs, At
<1>3. \A k \in Keys : Stored(p, k) <=> Complete(k)
  BY <1>2 DEF Stored, Readable, Complete
<1>4. /\ disk' \in [Keys -> SUBSET Files]
      /\ \A k \in Keys : disk'[k] = IF Stored(p, k) THEN disk[k]
                                    ELSE disk[k] \ (lane[p].names[k] \cap Pair)
  BY <1>1 DEF PrunePairs
<1>5. \A k \in Keys :
        /\ Complete(k) => disk'[k] = disk[k]
        /\ ~Complete(k) => disk'[k] = disk[k] \ Pair
  BY <1>2, <1>3, <1>4
<1>6. \A k \in Keys : /\ Complete(k)' <=> Complete(k)
                      /\ "reservation" \in disk'[k] <=> "reservation" \in disk[k]
                      /\ "metadata" \in disk'[k] => "object" \in disk'[k]
  BY <1>5 DEF Complete, Pair
<1>7. PICK C \in SUBSET Keys : C = lane[p].counted \cup {k \in Keys : Stored(p, k)}
  BY <1>1 DEF Lane
<1>8. PICK s \in {"release", "reserve", "check"} :
        /\ s = CASE lane[p].op = "start" -> "release"
                 [] lane[p].op = "issue" -> "reserve"
                 [] OTHER -> "check"
        /\ s = "reserve" => lane[p].op = "issue"
        /\ s = "release" => lane[p].op = "start"
        /\ s = "check" => lane[p].op = "accept"
  BY <1>1 DEF Lane
<1>9. PICK o \in {"done", "failed"} : o = IF lane[p].op = "start" THEN "done" ELSE "failed"
  OBVIOUS
<1>10. PICK m : m = [lane[p] EXCEPT !.stage = s, !.outcome = o, !.names = Nothing, !.counted = C]
  OBVIOUS
<1>11. /\ m \in Lane /\ m.stage = s /\ m.counted = C
       /\ m.op = lane[p].op /\ m.key = lane[p].key /\ m.asked = lane[p].asked
  <2>1. PICK l \in Lane : l = lane[p]
    BY <1>1
  <2>2. m = [l EXCEPT !.stage = s, !.outcome = o, !.names = Nothing, !.counted = C]
    BY <1>10, <2>1
  <2>3. s \in Stage /\ o \in {"done", "failed"} /\ Nothing \in [Keys -> SUBSET Files]
    BY <1>8, <1>9, IdleIs DEF Stage
  <2>4. /\ m \in Lane /\ m.stage = s /\ m.counted = C
        /\ m.op = l.op /\ m.key = l.key /\ m.asked = l.asked
    BY <2>2, <2>3 DEF Lane
  <2> QED
    BY <2>1, <2>4
<1>12. lane' = [lane EXCEPT ![p] = m]
  BY <1>7, <1>8, <1>9, <1>10 DEF PrunePairs, StoreInv, TypeOK
<1>13. lane' \in [Processes -> Lane] /\ lane'[p] = m /\ InstantsEnd'
  BY <1>11, <1>12, LaneBecomes DEF PrunePairs
<1>14. TypeOK'
  BY <1>4, <1>13 DEF PrunePairs, StoreInv, TypeOK, clientVars, evidenceVars
<1>15. UNCHANGED <<minted, expired, answers, attached, reader>>
  BY DEF PrunePairs, clientVars, evidenceVars
<1>16. Sound(lane[p])'
  <2>1. m.op # "start" => m.key \in minted'
    BY <1>11, <1>15, KeyIsMinted
  <2>2. \A k \in Keys :
          Complete(k)' \/ ("reservation" \in disk'[k] /\ k \notin expired') => k \in m.counted
    BY <1>2, <1>3, <1>6, <1>7, <1>11, <1>15
  <2> QED
    BY <1>8, <1>11, <1>13, <2>1, <2>2 DEF Sound
<1>17. lane'[p].op = "accept" => lane[p].op = "accept" /\ lane[p].stage \in Uploads
  BY <1>11, <1>13 DEF PrunePairs, At, Uploads
<1>18. lane'[p].key = lane[p].key
  BY <1>11, <1>13
<1> QED
  BY <1>6, <1>13, <1>14, <1>15, <1>16, <1>17, <1>18, LaneStep

-----------------------------------------------------------------------------
(* issueUpload.                                                            *)

LEMMA Reserves ==
  ASSUME StoreInv, OneProcess, IsFiniteSet(Keys), NEW p \in Processes, Reserve(p)
  PROVE  StoreInv' /\ VaultStep
<1>1. lane \in [Processes -> Lane] /\ disk \in [Keys -> SUBSET Files] /\ "release" \in Stage
  BY DEF StoreInv, TypeOK, Stage
<1>2. UNCHANGED <<minted, expired, answers, attached, reader>>
  BY DEF Reserve, clientVars, evidenceVars
<1>3. lane[p].op = "issue" /\ lane[p].key \in minted /\ lane[p].key \in Keys
  BY KeyIsMinted DEF Reserve, At, StoreInv, LanesAreSound, Sound
<1>4. CASE GiveUp(p) /\ UNCHANGED disk
  <2>1. Onwards(p, "release") /\ lane'[p].outcome = "failed"
    BY <1>1, <1>4, GiveUpIs
  <2> QED
    BY <1>1, <1>4, <2>1, GoesOn DEF Reserve, StoreInv, TypeOK
<1>5. CASE /\ disk[lane[p].key] = {} /\ WithinQuota(lane[p].counted, lane[p].key)
           /\ Add(lane[p].key, {"reservation"}) /\ Succeed(p)
  <2>1. Onwards(p, "release") /\ lane'[p].outcome = "done"
    BY <1>1, <1>5, SucceedIs
  <2>2. PICK j \in Keys : j = lane[p].key
    BY <1>3
  <2>3. /\ disk' \in [Keys -> SUBSET Files] /\ disk'[j] = {"reservation"}
        /\ \A k \in Keys \ {j} : disk'[k] = disk[k]
    BY <1>1, <1>5, <2>2 DEF Add, Files
  <2>4. /\ ~Complete(j) /\ ~Complete(j)'
        /\ \A k \in Keys \ {j} : Complete(k)' <=> Complete(k)
    BY <1>5, <2>2, <2>3 DEF Complete, Pair
  <2>5. \A k \in Keys : "metadata" \in disk'[k] => "object" \in disk'[k]
    BY <2>3 DEF StoreInv, FilesAgree
  <2>6. InstantsEnd'
    BY <1>1, <2>1, InstantsOnwards DEF Reserve, StoreInv, TypeOK
  <2>7. TypeOK'
    BY <2>1, <2>3 DEF Reserve, StoreInv, TypeOK, Onwards, clientVars, evidenceVars
  <2>8. Sound(lane[p])'
    BY <1>2, <1>3, <2>1, QuietSound DEF Onwards
  <2>9. StoreInv'
    BY <1>2, <2>4, <2>5, <2>6, <2>7, <2>8, StoreKeeps
  <2>10. \A k \in Keys : ~Uploading(k) /\ ~Uploading(k)'
    BY <1>3, <2>1, MineAlone DEF Onwards
  <2>11. \A k \in Keys \ {j} : Held(k)' <=> Held(k)
    BY <1>2, <2>3, <2>4, <2>10 DEF Held
  <2>12. ~Held(j)
    BY <1>5, <2>2 DEF Held
  <2>13. CASE j \in expired
    <3>1. ~Held(j)'
      BY <1>2, <2>10, <2>13 DEF Held
    <3> QED
      BY <1>2, <2>4, <2>9, <2>11, <2>12, <3>1, VaultStays
  <2>14. CASE j \notin expired
    <3>1. Held(j)'
      BY <1>2, <2>3, <2>4, <2>14 DEF Held
    <3>2. PICK C \in SUBSET Keys : C = lane[p].counted
      BY <1>1 DEF Lane
    <3>3. \A k \in Keys : Complete(k) \/ Held(k) => k \in C
      BY <2>10, <3>2 DEF Held, Reserve, At, StoreInv, LanesAreSound, Sound
    <3>4. WithinQuota(C, j)
      BY <1>5, <2>2, <3>2
    <3> QED
      BY <1>2, <2>4, <2>9, <2>11, <2>12, <3>1, <3>3, <3>4, VaultHolds
  <2> QED
    BY <2>13, <2>14
<1> QED
  BY <1>4, <1>5 DEF Reserve

-----------------------------------------------------------------------------
(* acceptUpload.                                                           *)

\* A step on the files of the own key that completes nothing.
LEMMA OwnFiles ==
  ASSUME StoreInv, OneProcess, NEW p \in Processes, NEW s \in Stage, Onwards(p, s),
         NEW j \in Keys, j = lane[p].key, NEW F \in SUBSET Files, disk' = [disk EXCEPT ![j] = F],
         Pair \subseteq F <=> Pair \subseteq disk[j], "metadata" \in F => "object" \in F,
         "reservation" \in F => "reservation" \in disk[j],
         Sound(lane[p])', s \in Uploads => lane[p].stage \in Uploads,
         leases' \subseteq Lease, manifest' \in {"none", "torn", "whole"},
         faults' \in 0..MaxFaults, crashes' \in 0..MaxCrashes,
         \A l \in leases' : l \in leases \/ l.asked = lane[p].asked,
         UNCHANGED <<process, clientVars, evidenceVars>>
  PROVE  StoreInv' /\ VaultStep
<1>1. disk \in [Keys -> SUBSET Files]
  BY DEF StoreInv, TypeOK
<1>2. /\ disk' \in [Keys -> SUBSET Files] /\ disk'[j] = F
      /\ \A k \in Keys \ {j} : disk'[k] = disk[k]
  BY <1>1
<1>3. InstantsEnd'
  BY InstantsOnwards
<1>4. TypeOK'
  BY <1>2 DEF StoreInv, TypeOK, Onwards, clientVars, evidenceVars
<1>5. \A k \in Keys : Complete(k)' <=> Complete(k)
  BY <1>2 DEF Complete
<1>6. \A k \in Keys : "metadata" \in disk'[k] => "object" \in disk'[k]
  BY <1>2 DEF StoreInv, FilesAgree
<1>7. \A k \in Keys : "reservation" \in disk'[k] => "reservation" \in disk[k]
  BY <1>2
<1>8. \A k \in Keys \ {lane[p].key} : "reservation" \in disk[k] => "reservation" \in disk'[k]
  BY <1>2
<1>9. UNCHANGED <<expired, answers, attached, reader>>
  BY DEF clientVars, evidenceVars
<1>10. lane'[p].stage = s /\ lane'[p].op = lane[p].op /\ lane'[p].key = lane[p].key
  BY DEF Onwards
<1> QED
  BY <1>3, <1>4, <1>5, <1>6, <1>7, <1>8, <1>9, <1>10, LaneStep

\* What is known of a lane in the stages of an upload, and of its key.
LEMMA UploadIs ==
  ASSUME StoreInv, NEW p \in Processes,
         lane[p].stage \in {"check", "temporaries", "object", "metadata", "drop"}
  PROVE  /\ lane \in [Processes -> Lane] /\ disk \in [Keys -> SUBSET Files]
         /\ lane[p].op = "accept" /\ lane[p].key \in Keys /\ lane[p].key \in minted
         /\ Sound(lane[p])
BY KeyIsMinted DEF StoreInv, TypeOK, LanesAreSound, Sound

LEMMA ChecksUpload ==
  ASSUME StoreInv, OneProcess, NEW p \in Processes, CheckUpload(p)
  PROVE  StoreInv' /\ VaultStep
<1>1. /\ lane \in [Processes -> Lane] /\ disk \in [Keys -> SUBSET Files]
      /\ lane[p].op = "accept" /\ lane[p].key \in Keys /\ lane[p].key \in minted
  BY UploadIs DEF CheckUpload, At
<1>2. PICK j \in Keys : j = lane[p].key
  BY <1>1
<1>3. {"temporaries", "release"} \subseteq Stage /\ UNCHANGED <<minted, leases, answers>>
  BY DEF Stage, CheckUpload, clientVars
<1>4. CASE GiveUp(p)
  <2>1. Onwards(p, "release") /\ lane'[p].outcome = "failed"
    BY <1>1, <1>4, GiveUpIs
  <2>2. Sound(lane[p])'
    BY <1>1, <1>3, <2>1, QuietSound DEF Onwards
  <2>3. PICK F \in SUBSET Files : /\ disk' = [disk EXCEPT ![j] = F]
                                  /\ F \in {disk[j], disk[j] \ {"reservation"}}
    BY <1>1, <1>2, <1>4 DEF CheckUpload, Remove, Go, GiveUp
  <2>4. /\ Pair \subseteq F <=> Pair \subseteq disk[j]
        /\ "metadata" \in F => "object" \in F
        /\ "reservation" \in F => "reservation" \in disk[j]
    BY <2>3 DEF Pair, StoreInv, FilesAgree
  <2>5. "release" \notin Uploads
    BY DEF Uploads
  <2> QED
    BY <1>2, <1>3, <2>1, <2>2, <2>3, <2>4, <2>5, OwnFiles DEF CheckUpload, StoreInv, TypeOK
<1>5. CASE /\ "reservation" \in disk[j] /\ disk[j] \cap Pair = {}
           /\ Go(p, "temporaries") /\ UNCHANGED disk
  <2>1. Onwards(p, "temporaries")
    BY <1>1, <1>3, <1>5, GoIs
  <2>2. Sound(lane[p])'
    BY <1>1, <1>2, <1>3, <1>5, <2>1 DEF Onwards, Sound
  <2>3. PICK F \in SUBSET Files : F = disk[j]
    BY <1>1
  <2>4. disk' = [disk EXCEPT ![j] = F]
    BY <1>1, <1>5, <2>3
  <2>5. "metadata" \in F => "object" \in F
    BY <2>3 DEF StoreInv, FilesAgree
  <2>6. lane[p].stage \in Uploads
    BY DEF Uploads, CheckUpload, At
  <2> QED
    BY <1>2, <1>3, <2>1, <2>2, <2>3, <2>4, <2>5, <2>6, OwnFiles DEF CheckUpload, StoreInv, TypeOK
<1> QED
  BY <1>2, <1>4, <1>5 DEF CheckUpload, Readable

LEMMA WritesTemporaries ==
  ASSUME StoreInv, OneProcess, NEW p \in Processes, WriteTemporaries(p)
  PROVE  StoreInv' /\ VaultStep
<1>1. /\ lane \in [Processes -> Lane] /\ disk \in [Keys -> SUBSET Files]
      /\ lane[p].op = "accept" /\ lane[p].key \in Keys /\ lane[p].key \in minted
  BY UploadIs DEF WriteTemporaries, At
<1>2. PICK j \in Keys : j = lane[p].key
  BY <1>1
<1>3. "reservation" \in disk[j] /\ disk[j] \cap Pair = {}
  BY <1>2, UploadIs DEF WriteTemporaries, At, Sound
<1>4. "object" \in Stage /\ UNCHANGED <<minted, leases, answers>>
  BY DEF Stage, WriteTemporaries, clientVars
<1>5. Onwards(p, "object")
  BY <1>1, <1>4, GoIs DEF WriteTemporaries
<1>6. PICK F \in SUBSET Files : F = disk[j] \cup Temporary
  BY <1>1 DEF Files, Temporary
<1>7. disk' = [disk EXCEPT ![j] = F]
  BY <1>2, <1>6 DEF WriteTemporaries, Add
<1>8. F \cap Pair = {} /\ "reservation" \in F
  BY <1>3, <1>6 DEF Pair, Temporary
<1>9. Sound(lane[p])'
  <2>1. disk'[j] = F
    BY <1>1, <1>7
  <2> QED
    BY <1>1, <1>2, <1>4, <1>5, <1>8, <2>1 DEF Onwards, Sound
<1>10. lane[p].stage \in Uploads
  BY DEF Uploads, WriteTemporaries, At
<1>11. ~(Pair \subseteq F) /\ ~(Pair \subseteq disk[j]) /\ "metadata" \notin F
  BY <1>3, <1>8 DEF Pair
<1> QED
  BY <1>2, <1>3, <1>4, <1>5, <1>7, <1>9, <1>10, <1>11, OwnFiles
  DEF WriteTemporaries, StoreInv, TypeOK

LEMMA RenamesObject ==
  ASSUME StoreInv, OneProcess, NEW p \in Processes, RenameObject(p)
  PROVE  StoreInv' /\ VaultStep
<1>1. /\ lane \in [Processes -> Lane] /\ disk \in [Keys -> SUBSET Files]
      /\ lane[p].op = "accept" /\ lane[p].key \in Keys /\ lane[p].key \in minted
  BY UploadIs DEF RenameObject, At
<1>2. PICK j \in Keys : j = lane[p].key
  BY <1>1
<1>3. "reservation" \in disk[j] /\ disk[j] \cap Pair = {}
  BY <1>2, UploadIs DEF RenameObject, At, Sound
<1>4. {"metadata", "release"} \subseteq Stage /\ UNCHANGED <<minted, leases, answers>>
  BY DEF Stage, RenameObject, clientVars
<1>5. lane[p].stage \in Uploads
  BY DEF Uploads, RenameObject, At
<1>6. CASE Move(j, "temporary object", "object") /\ Go(p, "metadata")
  <2>1. Onwards(p, "metadata")
    BY <1>1, <1>4, <1>6, GoIs
  <2>2. PICK F \in SUBSET Files : F = (disk[j] \ {"temporary object"}) \cup {"object"}
    BY <1>1 DEF Files
  <2>3. disk' = [disk EXCEPT ![j] = F]
    BY <1>6, <2>2 DEF Move
  <2>4. F \cap Pair = {"object"} /\ "reservation" \in F
    BY <1>3, <2>2 DEF Pair
  <2>5. Sound(lane[p])'
    <3>1. disk'[j] = F
      BY <1>1, <2>3
    <3> QED
      BY <1>1, <1>2, <1>4, <2>1, <2>4, <3>1 DEF Onwards, Sound
  <2>6. ~(Pair \subseteq F) /\ ~(Pair \subseteq disk[j]) /\ "metadata" \notin F
    BY <1>3, <2>4 DEF Pair
  <2> QED
    BY <1>2, <1>3, <1>4, <1>5, <2>1, <2>3, <2>5, <2>6, OwnFiles
    DEF RenameObject, StoreInv, TypeOK
<1>7. CASE Remove(j, Temporary) /\ GiveUp(p)
  <2>1. Onwards(p, "release") /\ lane'[p].outcome = "failed"
    BY <1>1, <1>7, GiveUpIs
  <2>2. PICK F \in SUBSET Files : F = disk[j] \ Temporary
    BY <1>1
  <2>3. disk' = [disk EXCEPT ![j] = F]
    BY <1>7, <2>2 DEF Remove
  <2>4. Sound(lane[p])'
    BY <1>1, <1>4, <2>1, QuietSound DEF Onwards
  <2>5. ~(Pair \subseteq F) /\ ~(Pair \subseteq disk[j]) /\ "metadata" \notin F
    BY <1>3, <2>2 DEF Pair
  <2> QED
    BY <1>2, <1>3, <1>4, <1>5, <2>1, <2>3, <2>4, <2>5, OwnFiles
    DEF RenameObject, StoreInv, TypeOK
<1> QED
  BY <1>2, <1>6, <1>7 DEF RenameObject

LEMMA RenamesMetadata ==
  ASSUME StoreInv, OneProcess, NEW p \in Processes, RenameMetadata(p)
  PROVE  StoreInv' /\ VaultStep
<1>1. /\ lane \in [Processes -> Lane] /\ disk \in [Keys -> SUBSET Files]
      /\ lane[p].op = "accept" /\ lane[p].key \in Keys /\ lane[p].key \in minted
  BY UploadIs DEF RenameMetadata, At
<1>2. PICK j \in Keys : j = lane[p].key
  BY <1>1
<1>3. "reservation" \in disk[j] /\ disk[j] \cap Pair = {"object"}
  BY <1>2, UploadIs DEF RenameMetadata, At, Sound
<1>4. /\ {"drop", "release"} \subseteq Stage
      /\ UNCHANGED <<minted, leases, expired, answers, attached, reader>>
  BY DEF Stage, RenameMetadata, clientVars, evidenceVars
<1>5. lane[p].stage \in Uploads
  BY DEF Uploads, RenameMetadata, At
<1>6. ~Complete(j) /\ "metadata" \notin disk[j] /\ "object" \in disk[j]
  BY <1>3 DEF Complete, Pair
<1>7. CASE Move(j, "temporary metadata", "metadata") /\ Go(p, "drop")
  <2>1. Onwards(p, "drop")
    BY <1>1, <1>4, <1>7, GoIs
  <2>2. PICK F \in SUBSET Files : F = (disk[j] \ {"temporary metadata"}) \cup {"metadata"}
    BY <1>1 DEF Files
  <2>3. disk' = [disk EXCEPT ![j] = F]
    BY <1>7, <2>2 DEF Move
  <2>4. /\ disk' \in [Keys -> SUBSET Files] /\ disk'[j] = F
        /\ \A k \in Keys \ {j} : disk'[k] = disk[k]
    BY <1>1, <2>3
  <2>5. Pair \subseteq F
    BY <1>6, <2>2 DEF Pair
  <2>6. answers[j] = 0
    BY <1>6 DEF StoreInv, TypeOK, FilesAgree
  <2>7. Sound(lane[p])'
    BY <1>1, <1>2, <1>4, <2>1, <2>4, <2>5, <2>6 DEF Onwards, Sound, Complete
  <2>8. InstantsEnd'
    BY <1>1, <1>4, <2>1, InstantsOnwards DEF StoreInv, TypeOK
  <2>9. TypeOK'
    BY <2>1, <2>4 DEF RenameMetadata, StoreInv, TypeOK, Onwards, clientVars, evidenceVars
  <2>10. Complete(j)' /\ \A k \in Keys \ {j} : Complete(k)' <=> Complete(k)
    BY <2>4, <2>5 DEF Complete
  <2>11. \A k \in Keys : "metadata" \in disk'[k] => "object" \in disk'[k]
    BY <2>4, <2>5 DEF StoreInv, FilesAgree, Pair
  <2>12. StoreInv'
    BY <1>4, <1>6, <2>7, <2>8, <2>9, <2>10, <2>11, StoreKeeps
  <2>13. Held(j)
    BY <1>1, <1>2, <1>3, <1>5, <1>6, MineAlone DEF Held
  <2>14. \A k \in Keys \ {j} : Held(k)' <=> Held(k)
    <3>1. \A k \in Keys \ {j} : ~Uploading(k) /\ ~Uploading(k)'
      BY <1>2, <2>1, MineAlone DEF Onwards
    <3> QED
      BY <1>4, <2>4, <2>10, <3>1 DEF Held
  <2> QED
    BY <1>4, <2>10, <2>12, <2>13, <2>14, VaultKeeps
<1>8. CASE Remove(j, {"object"} \cup Temporary) /\ GiveUp(p)
  <2>1. Onwards(p, "release") /\ lane'[p].outcome = "failed"
    BY <1>1, <1>8, GiveUpIs
  <2>2. PICK F \in SUBSET Files : F = disk[j] \ ({"object"} \cup Temporary)
    BY <1>1
  <2>3. disk' = [disk EXCEPT ![j] = F]
    BY <1>8, <2>2 DEF Remove
  <2>4. Sound(lane[p])'
    BY <1>1, <1>4, <2>1, QuietSound DEF Onwards
  <2>5. ~(Pair \subseteq F) /\ ~(Pair \subseteq disk[j]) /\ "metadata" \notin F
    BY <1>6, <2>2 DEF Pair
  <2> QED
    BY <1>2, <1>3, <1>4, <1>5, <2>1, <2>3, <2>4, <2>5, OwnFiles
    DEF RenameMetadata, StoreInv, TypeOK
<1> QED
  BY <1>2, <1>7, <1>8 DEF RenameMetadata

LEMMA DropsReservation ==
  ASSUME StoreInv, OneProcess, NEW p \in Processes, DropReservation(p)
  PROVE  StoreInv' /\ VaultStep
<1>1. /\ lane \in [Processes -> Lane] /\ disk \in [Keys -> SUBSET Files]
      /\ lane[p].op = "accept" /\ lane[p].key \in Keys /\ lane[p].key \in minted
  BY UploadIs DEF DropReservation, At
<1>2. PICK j \in Keys : j = lane[p].key
  BY <1>1
<1>3. Complete(j) /\ answers[j] = 0
  BY <1>2, UploadIs DEF DropReservation, At, Sound
<1>4. "release" \in Stage /\ UNCHANGED <<minted, leases, answers>>
  BY DEF Stage, DropReservation, clientVars
<1>5. Onwards(p, "release") /\ lane'[p].outcome = "done"
  BY <1>1, SucceedIs DEF DropReservation
<1>6. PICK F \in SUBSET Files : F = disk[j] \ {"reservation"}
  BY <1>1
<1>7. disk' = [disk EXCEPT ![j] = F]
  BY <1>2, <1>6 DEF DropReservation, Remove
<1>8. Pair \subseteq F /\ Pair \subseteq disk[j] /\ "object" \in F
  BY <1>3, <1>6 DEF Pair, Complete
<1>9. Sound(lane[p])'
  <2>1. disk'[j] = F
    BY <1>1, <1>7
  <2> QED
    BY <1>1, <1>2, <1>3, <1>4, <1>5, <1>8, <2>1 DEF Onwards, Sound, Complete
<1>10. "release" \notin Uploads /\ "reservation" \notin F
  BY <1>6 DEF Uploads
<1> QED
  BY <1>2, <1>4, <1>5, <1>7, <1>8, <1>9, <1>10, OwnFiles
  DEF DropReservation, StoreInv, TypeOK

-----------------------------------------------------------------------------
(* Answers and failures.                                                   *)

\* What a lane that ends leaves.
LEMMA LaneEnds ==
  ASSUME StoreInv, NEW p \in Processes, lane' = [lane EXCEPT ![p] = Idle],
         leases' \subseteq Lease,
         \A l \in leases' : l \in leases \/ l.asked = lane[p].asked
  PROVE  /\ lane' \in [Processes -> Lane] /\ lane'[p] = Idle /\ InstantsEnd'
         /\ Sound(lane[p])' /\ lane'[p].stage \notin Uploads
<1>1. lane \in [Processes -> Lane]
  BY DEF StoreInv, TypeOK
<1>2. lane' \in [Processes -> Lane] /\ lane'[p] = Idle
  BY <1>1, IdleIs
<1>3. \A q \in Processes : lane'[q].asked \in {lane[q].asked, 0}
  BY <1>1, IdleIs
<1>4. \A l \in leases' : \/ \E m \in leases : l.asked = m.asked
                         \/ \E q \in Processes : l.asked = lane[q].asked
  OBVIOUS
<1>5. InstantsEnd' /\ 0 \in Nat
  BY <1>2, <1>3, <1>4, InstantsStay
<1>6. Sound(lane[p])'
  BY <1>2, IdleIs, QuietSound
<1>7. lane'[p].stage \notin Uploads
  BY <1>2, IdleIs DEF Uploads
<1> QED
  BY <1>2, <1>5, <1>6, <1>7

LEMMA AnswersOnce ==
  ASSUME StoreInv, OneProcess, NEW p \in Processes, At(p, "release"),
         NEW o \in {"done", "failed"}, o = "done" => lane[p].outcome = "done", Answer(p, o),
         leases' \subseteq Lease, faults' \in 0..MaxFaults, crashes' \in 0..MaxCrashes,
         \A l \in leases' : l \in leases \/ l.asked = lane[p].asked,
         UNCHANGED <<disk, manifest, evidenceVars>>
  PROVE  StoreInv' /\ VaultStep
<1>1. lane' = [lane EXCEPT ![p] = Idle]
  BY DEF Answer
<1>2. /\ lane' \in [Processes -> Lane] /\ lane'[p] = Idle /\ InstantsEnd'
      /\ Sound(lane[p])' /\ lane'[p].stage \notin Uploads
  BY <1>1, LaneEnds
<1>3. process' \in [Processes -> {"down", "starting", "up"}]
  BY DEF Answer, StoreInv, TypeOK
<1>4. tokens' \subseteq minted
  BY KeyIsMinted DEF Answer, StoreInv, TypeOK
<1>5. UNCHANGED <<minted, expired, attached, reader>>
  BY DEF Answer, evidenceVars
<1>6. CASE answers' = answers
  <2>1. TypeOK'
    BY <1>2, <1>3, <1>4, <1>5, <1>6 DEF StoreInv, TypeOK
  <2> QED
    BY <1>2, <1>5, <1>6, <2>1, SameFiles
<1>7. CASE lane[p].op = "accept" /\ o = "done"
  <2>1. PICK j \in Keys : j = lane[p].key
    BY <1>7, KeyIsMinted
  <2>2. Complete(j) /\ answers[j] = 0
    BY <1>7, <2>1 DEF StoreInv, LanesAreSound, Sound, At
  <2>3. answers' = [answers EXCEPT ![j] = @ + 1] /\ answers \in [Keys -> Nat]
    BY <1>7, <2>1 DEF Answer, StoreInv, TypeOK
  <2>4. /\ answers' \in [Keys -> Nat] /\ answers'[j] = 1
        /\ \A k \in Keys \ {j} : answers'[k] = answers[k]
    BY <2>2, <2>3
  <2>5. TypeOK'
    BY <1>2, <1>3, <1>4, <1>5, <2>4 DEF StoreInv, TypeOK
  <2>6. \A k \in Keys : Complete(k)' <=> Complete(k)
    BY DEF Complete
  <2>7. FilesAgree'
    <3>1. \A k \in Keys : answers'[k] > 0 => answers'[k] = 1 /\ Complete(k)'
      BY <2>2, <2>4, <2>6 DEF StoreInv, FilesAgree
    <3>2. \A k \in attached' : Complete(k)'
      BY <1>5, <2>6 DEF StoreInv, FilesAgree, TypeOK
    <3> QED
      BY <3>1, <3>2 DEF StoreInv, FilesAgree
  <2>8. StoreInv'
    BY <1>2, <1>5, <2>5, <2>6, <2>7, StoreGoes
  <2>9. \A k \in Keys : Held(k)' <=> Held(k)
    <3>1. \A k \in Keys : ~Uploading(k) /\ ~Uploading(k)'
      BY <1>2, MineAlone DEF At, Uploads
    <3> QED
      BY <1>5, <2>6, <3>1 DEF Held
  <2> QED
    BY <1>5, <2>2, <2>3, <2>6, <2>8, <2>9, VaultConfirms
<1> QED
  BY <1>6, <1>7 DEF Answer

LEMMA Releases ==
  ASSUME StoreInv, OneProcess, NEW p \in Processes, Release(p)
  PROVE  StoreInv' /\ VaultStep
<1>1. PICK o \in {"done", "failed"} : o = lane[p].outcome
  BY DEF StoreInv, TypeOK, Lane
<1>2. leases' \subseteq leases /\ leases' \subseteq Lease
  BY DEF Release, Quarantine, StoreInv, TypeOK
<1> QED
  BY <1>1, <1>2, AnswersOnce DEF Release, StoreInv, TypeOK

LEMMA FailsRelease ==
  ASSUME StoreInv, OneProcess, NEW p \in Processes, FailRelease(p)
  PROVE  StoreInv' /\ VaultStep
<1>1. PICK o \in {"done", "failed"} : o = lane[p].outcome
  BY DEF StoreInv, TypeOK, Lane
<1>2. faults' \in 0..MaxFaults /\ crashes' \in 0..MaxCrashes /\ At(p, "release")
      /\ UNCHANGED <<disk, manifest, evidenceVars>>
  BY StorageAssumption DEF FailRelease, StoreInv, TypeOK
<1>3. CASE /\ leases' = (leases \ {MyLease(p)}) \cup {[MyLease(p) EXCEPT !.state = "left"]}
           /\ Answer(p, lane[p].outcome)
  <2>1. PICK m \in Lease : m = [MyLease(p) EXCEPT !.state = "left"] /\ m.asked = lane[p].asked
    BY MyLeaseIs DEF StoreInv, TypeOK
  <2>2. leases' = (leases \ {MyLease(p)}) \cup {m}
    BY <1>3, <2>1
  <2>3. leases' \subseteq Lease /\ \A l \in leases' : l \in leases \/ l.asked = lane[p].asked
    BY <2>1, <2>2 DEF StoreInv, TypeOK
  <2> QED
    BY <1>1, <1>2, <1>3, <2>3, AnswersOnce
<1>4. CASE Quarantine({MyLease(p)}) /\ Answer(p, "failed")
  <2>1. leases' \subseteq leases /\ leases' \subseteq Lease
    BY <1>4 DEF Quarantine, StoreInv, TypeOK
  <2> QED
    BY <1>2, <1>4, <2>1, AnswersOnce
<1> QED
  BY <1>3, <1>4 DEF FailRelease

\* What an interrupted write leaves counts for nothing.
LEMMA LeftoversAre ==
  ASSUME StoreInv, NEW p \in Processes, NEW files \in Leftovers(p)
  PROVE  \/ files = disk
         \/ /\ lane[p].stage \in {"reserve", "temporaries"} /\ lane[p].key \in Keys
            /\ \E F \in SUBSET Files :
                 /\ files = [disk EXCEPT ![lane[p].key] = F]
                 /\ F \cap (Pair \cup {"reservation"}) =
                      disk[lane[p].key] \cap (Pair \cup {"reservation"})
<1>1. disk \in [Keys -> SUBSET Files] /\ Sound(lane[p])
  BY DEF StoreInv, TypeOK, LanesAreSound
<1>2. CASE At(p, "reserve")
  <2>1. lane[p].key \in Keys
    BY <1>1, <1>2, KeyIsMinted DEF At, Sound
  <2>2. PICK F \in SUBSET Files : F = disk[lane[p].key] \cup {"torn reservation"}
    BY <1>1, <2>1 DEF Files
  <2>3. files = disk \/ files = [disk EXCEPT ![lane[p].key] = F]
    BY <1>2, <2>2 DEF Leftovers, At
  <2>4. F \cap (Pair \cup {"reservation"}) = disk[lane[p].key] \cap (Pair \cup {"reservation"})
    BY <2>2 DEF Pair
  <2> QED
    BY <1>2, <2>1, <2>3, <2>4 DEF At
<1>3. CASE At(p, "temporaries")
  <2>1. lane[p].key \in Keys
    BY <1>3, UploadIs DEF At
  <2>2. PICK F \in SUBSET Files : F = disk[lane[p].key] \cup {"temporary object"}
    BY <1>1, <2>1 DEF Files
  <2>3. PICK G \in SUBSET Files : G = disk[lane[p].key] \cup Temporary
    BY <1>1, <2>1 DEF Files, Temporary
  <2>4. \/ files = disk
        \/ files = [disk EXCEPT ![lane[p].key] = F]
        \/ files = [disk EXCEPT ![lane[p].key] = G]
    BY <1>3, <2>2, <2>3 DEF Leftovers, At
  <2>5. /\ F \cap (Pair \cup {"reservation"}) = disk[lane[p].key] \cap (Pair \cup {"reservation"})
        /\ G \cap (Pair \cup {"reservation"}) = disk[lane[p].key] \cap (Pair \cup {"reservation"})
    BY <2>2, <2>3 DEF Pair, Temporary
  <2> QED
    BY <1>3, <2>1, <2>4, <2>5 DEF At
<1>4. CASE ~At(p, "reserve") /\ ~At(p, "temporaries")
  BY <1>4 DEF Leftovers
<1> QED
  BY <1>2, <1>3, <1>4

LEMMA OthersAreLeft ==
  ASSUME StoreInv, NEW p \in Processes
  PROVE  /\ ManifestLeftovers(p) \subseteq {"none", "torn", "whole"}
         /\ \A ls \in LeaseLeftovers(p) :
              ls \subseteq Lease /\ \A l \in ls : l \in leases \/ l.asked = lane[p].asked
<1>1. ManifestLeftovers(p) \subseteq {"none", "torn", "whole"}
  BY DEF ManifestLeftovers, StoreInv, TypeOK
<1>2. PICK m \in Lease : m = [MyLease(p) EXCEPT !.state = "torn"] /\ m.asked = lane[p].asked
  BY MyLeaseIs DEF StoreInv, TypeOK
<1>3. LeaseLeftovers(p) \subseteq {leases, leases \cup {m}} /\ leases \subseteq Lease
  BY <1>2 DEF LeaseLeftovers, StoreInv, TypeOK
<1> QED
  BY <1>1, <1>2, <1>3

LEMMA FailsWorking ==
  ASSUME StoreInv, OneProcess, NEW p \in Processes, FailWorking(p)
  PROVE  StoreInv' /\ VaultStep
<1>1. /\ lane \in [Processes -> Lane] /\ disk \in [Keys -> SUBSET Files]
      /\ "release" \in Stage /\ "release" \notin Uploads
  BY DEF StoreInv, TypeOK, Stage, Uploads
<1>2. Onwards(p, "release") /\ lane'[p].outcome = "failed"
  BY <1>1, GiveUpIs DEF FailWorking
<1>3. /\ faults' \in 0..MaxFaults /\ crashes' \in 0..MaxCrashes
      /\ UNCHANGED <<process, clientVars, evidenceVars>>
  BY StorageAssumption DEF FailWorking, StoreInv, TypeOK
<1>4. /\ manifest' \in {"none", "torn", "whole"} /\ leases' \subseteq Lease
      /\ \A l \in leases' : l \in leases \/ l.asked = lane[p].asked
  BY OthersAreLeft DEF FailWorking
<1>5. PICK files \in Leftovers(p) : disk' = Undone(p, files)
  BY DEF FailWorking
<1>6. Sound(lane[p])'
  BY <1>2, <1>3, KeyIsMinted, QuietSound DEF Onwards, clientVars
<1>7. CASE disk' = disk
  BY <1>1, <1>2, <1>3, <1>4, <1>7, GoesOn
<1>8. CASE lane[p].key \in Keys /\
           \E G \in SUBSET Files :
             /\ disk' = [disk EXCEPT ![lane[p].key] = G]
             /\ "reservation" \in G => "reservation" \in disk[lane[p].key]
             /\ \/ G \cap Pair = disk[lane[p].key] \cap Pair
                \/ /\ disk[lane[p].key] \cap Pair = {"object"}
                   /\ G \cap Pair = {}
  <2>1. PICK j \in Keys, G \in SUBSET Files :
          /\ j = lane[p].key /\ disk' = [disk EXCEPT ![j] = G]
          /\ "reservation" \in G => "reservation" \in disk[j]
          /\ \/ G \cap Pair = disk[j] \cap Pair
             \/ disk[j] \cap Pair = {"object"} /\ G \cap Pair = {}
    BY <1>8
  <2>2. /\ Pair \subseteq G <=> Pair \subseteq disk[j]
        /\ "metadata" \in G => "object" \in G
    BY <2>1 DEF Pair, StoreInv, FilesAgree
  <2> QED
    BY <1>1, <1>2, <1>3, <1>4, <1>6, <2>1, <2>2, OwnFiles
<1>9. CASE At(p, "reserve")
  BY <1>5, <1>7, <1>8, <1>9, LeftoversAre DEF Undone, At
<1>10. CASE lane[p].stage \in {"temporaries", "object"}
  <2>1. PICK j \in Keys : j = lane[p].key
    BY <1>10, UploadIs
  <2>2. PICK F \in SUBSET Files :
          /\ files = [disk EXCEPT ![j] = F]
          /\ F \cap (Pair \cup {"reservation"}) = disk[j] \cap (Pair \cup {"reservation"})
    BY <1>1, <2>1, LeftoversAre
  <2>3. disk' = [files EXCEPT ![j] = @ \ Temporary]
    BY <1>5, <1>10, <2>1 DEF Undone, At
  <2>4. PICK G \in SUBSET Files : G = F \ Temporary
    OBVIOUS
  <2>5. disk' = [disk EXCEPT ![j] = G]
    BY <1>1, <2>2, <2>3, <2>4
  <2>6. G \cap Pair = disk[j] \cap Pair /\ ("reservation" \in G => "reservation" \in disk[j])
    BY <2>2, <2>4 DEF Pair, Temporary
  <2> QED
    BY <1>8, <2>1, <2>5, <2>6
<1>11. CASE At(p, "metadata")
  <2>1. PICK j \in Keys : j = lane[p].key
    BY <1>11, UploadIs DEF At
  <2>2. disk[j] \cap Pair = {"object"}
    BY <1>11, <2>1, UploadIs DEF At, Sound
  <2>3. files = disk
    BY <1>11, LeftoversAre DEF At
  <2>4. disk' = [disk EXCEPT ![j] = @ \ ({"object"} \cup Temporary)]
    BY <1>5, <1>11, <2>1, <2>3 DEF Undone, At
  <2>5. PICK G \in SUBSET Files : G = disk[j] \ ({"object"} \cup Temporary)
    BY <1>1
  <2>6. disk' = [disk EXCEPT ![j] = G]
    BY <2>4, <2>5
  <2>7. G \cap Pair = {} /\ ("reservation" \in G => "reservation" \in disk[j])
    BY <2>2, <2>5 DEF Pair
  <2> QED
    BY <1>8, <2>1, <2>2, <2>6, <2>7
<1>12. CASE lane[p].stage \notin {"reserve", "temporaries", "object", "metadata"}
  BY <1>5, <1>7, <1>12, LeftoversAre DEF Undone, At
<1> QED
  BY <1>9, <1>10, <1>11, <1>12 DEF At

LEMMA Crashes ==
  ASSUME StoreInv, OneProcess, NEW p \in Processes, Crash(p)
  PROVE  StoreInv' /\ VaultStep
<1>1. disk \in [Keys -> SUBSET Files] /\ reader \in [Processes -> Reader]
  BY DEF StoreInv, TypeOK
<1>2. leases' \subseteq Lease /\ \A l \in leases' : l \in leases \/ l.asked = lane[p].asked
  <2>1. CASE leases' = (leases \ {MyLease(p)}) \cup {[MyLease(p) EXCEPT !.state = "left"]}
    <3>1. PICK m \in Lease : m = [MyLease(p) EXCEPT !.state = "left"] /\ m.asked = lane[p].asked
      BY MyLeaseIs DEF StoreInv, TypeOK
    <3>2. leases' = (leases \ {MyLease(p)}) \cup {m}
      BY <2>1, <3>1
    <3> QED
      BY <3>1, <3>2 DEF StoreInv, TypeOK
  <2>2. CASE leases' \in LeaseLeftovers(p)
    BY <2>2, OthersAreLeft
  <2> QED
    BY <2>1, <2>2 DEF Crash
<1>3. /\ lane' \in [Processes -> Lane] /\ lane'[p] = Idle /\ InstantsEnd'
      /\ Sound(lane[p])' /\ lane'[p].stage \notin Uploads
  BY <1>2, LaneEnds DEF Crash
<1>4. /\ disk' \in [Keys -> SUBSET Files]
      /\ \A k \in Keys : disk'[k] \cap (Pair \cup {"reservation"}) =
                           disk[k] \cap (Pair \cup {"reservation"})
  BY <1>1, LeftoversAre DEF Crash
<1>5. /\ process' \in [Processes -> {"down", "starting", "up"}]
      /\ manifest' \in {"none", "torn", "whole"}
      /\ crashes' \in 0..MaxCrashes /\ faults' \in 0..MaxFaults
  BY OthersAreLeft, StorageAssumption DEF Crash, StoreInv, TypeOK
<1>6. NotReading \in Reader
  BY DEF NotReading, Reader
<1>7. reader' \in [Processes -> Reader] /\ reader'[p] = NotReading
  BY <1>1, <1>6 DEF Crash
<1>8. UNCHANGED <<minted, expired, tokens, answers, attached>>
  BY DEF Crash, clientVars
<1>9. TypeOK'
  BY <1>2, <1>3, <1>4, <1>5, <1>7, <1>8 DEF StoreInv, TypeOK
<1>10. \A k \in Keys : /\ Complete(k)' <=> Complete(k)
                       /\ "reservation" \in disk'[k] <=> "reservation" \in disk[k]
                       /\ "metadata" \in disk'[k] => "object" \in disk'[k]
  BY <1>4 DEF Complete, Pair, StoreInv, FilesAgree
<1> QED
  BY <1>3, <1>7, <1>8, <1>9, <1>10, LaneStep

LEMMA Expires ==
  ASSUME StoreInv, OneProcess, NEW j \in Keys, Expire(j)
  PROVE  StoreInv' /\ VaultStep
<1>1. PICK p \in Processes : TRUE
  BY DEF OneProcess
<1>2. UNCHANGED <<lane, disk, leases, minted, answers, reader, attached>>
  BY DEF Expire, evidenceVars
<1>3. expired' = expired \cup {j} /\ j \in minted
  BY DEF Expire
<1>4. TypeOK'
  BY DEF Expire, StoreInv, TypeOK, evidenceVars
<1>5. InstantsEnd'
  BY <1>2 DEF StoreInv, InstantsEnd
<1>6. Sound(lane[p])'
  <2>1. Sound(lane[p])
    BY DEF StoreInv, LanesAreSound
  <2> QED
    BY ONLY <1>2, <1>3, <2>1 DEF Sound, Complete
<1>7. \A k \in Keys : Complete(k)' <=> Complete(k)
  BY <1>2 DEF Complete
<1>8. \A k \in Keys : "metadata" \in disk'[k] => "object" \in disk'[k]
  BY <1>2 DEF StoreInv, FilesAgree
<1>9. StoreInv'
  BY <1>2, <1>4, <1>5, <1>6, <1>7, <1>8, StoreKeeps
<1>10. \A k \in Keys : Uploading(k)' <=> Uploading(k)
  BY <1>1, <1>2, MineAlone
<1>11. /\ Held(j)' => Held(j)
       /\ \A k \in Keys \ {j} : Held(k)' <=> Held(k)
  BY <1>2, <1>3, <1>7, <1>10 DEF Held
<1> QED
  BY <1>2, <1>7, <1>9, <1>11, VaultDrops

-----------------------------------------------------------------------------
(* attachEvidence.                                                         *)

\* A step of a reader, who does not change the files.
LEMMA ReadsOn ==
  ASSUME StoreInv, OneProcess, NEW p \in Processes, NEW r \in Reader,
         reader' = [reader EXCEPT ![p] = r],
         r.stage # "idle" => r.key \in Keys,
         r.stage = "content" => "metadata" \in disk[r.key],
         r.stage = "verified" => Complete(r.key),
         attached' \subseteq Keys, \A k \in attached' : Complete(k),
         UNCHANGED <<process, lane, disk, manifest, leases, clientVars, crashes, faults>>
  PROVE  /\ StoreInv'
         /\ \A k \in Keys : (Complete(k)' <=> Complete(k)) /\ (Held(k)' <=> Held(k))
<1>1. UNCHANGED <<lane, disk, leases, minted, expired, tokens, answers>>
  BY DEF clientVars
<1>2. reader \in [Processes -> Reader]
  BY DEF StoreInv, TypeOK
<1>3. reader' \in [Processes -> Reader] /\ reader'[p] = r
  BY <1>2
<1>4. TypeOK'
  BY <1>1, <1>3 DEF StoreInv, TypeOK
<1>5. InstantsEnd'
  BY <1>1 DEF StoreInv, InstantsEnd
<1>6. LanesAreSound'
  <2> SUFFICES ASSUME NEW q \in Processes PROVE Sound(lane[q])'
    BY DEF LanesAreSound
  <2>1. Sound(lane[q])
    BY DEF StoreInv, LanesAreSound
  <2> QED
    BY ONLY <1>1, <2>1 DEF Sound, Complete
<1>7. \A k \in Keys : Complete(k)' <=> Complete(k)
  BY <1>1 DEF Complete
<1>8. FilesAgree'
  <2>1. \A k \in attached' : Complete(k)'
    BY <1>7
  <2>2. \A k \in Keys : answers'[k] > 0 => answers'[k] = 1 /\ Complete(k)'
    BY <1>1, <1>7 DEF StoreInv, FilesAgree
  <2> QED
    BY <1>1, <2>1, <2>2 DEF StoreInv, FilesAgree
<1>9. ReadersAgree'
  <2> SUFFICES ASSUME NEW q \in Processes
               PROVE  /\ reader'[q].stage # "idle" => reader'[q].key \in Keys
                      /\ reader'[q].stage = "content" => "metadata" \in disk'[reader'[q].key]
                      /\ reader'[q].stage = "verified" => Complete(reader[q].key)'
    BY DEF ReadersAgree
  <2>1. reader'[q] = r
    BY <1>3 DEF OneProcess
  <2>2. r.stage = "verified" => Pair \subseteq disk'[r.key]
    BY <1>1 DEF Complete
  <2> QED
    BY <1>1, <2>1, <2>2 DEF Complete
<1>10. \A k \in Keys : Uploading(k)' <=> Uploading(k)
  BY <1>1, MineAlone
<1>11. \A k \in Keys : Held(k)' <=> Held(k)
  BY <1>1, <1>7, <1>10 DEF Held
<1> QED
  BY <1>4, <1>5, <1>6, <1>7, <1>8, <1>9, <1>11 DEF StoreInv

\* ... that attaches nothing.
LEMMA OnlyReads ==
  ASSUME StoreInv, OneProcess, NEW p \in Processes, NEW r \in Reader,
         reader' = [reader EXCEPT ![p] = r],
         r.stage # "idle" => r.key \in Keys,
         r.stage = "content" => "metadata" \in disk[r.key],
         r.stage = "verified" => Complete(r.key), attached' = attached,
         UNCHANGED <<process, lane, disk, manifest, leases, clientVars, crashes, faults>>
  PROVE  StoreInv' /\ VaultStep
<1>1. attached' \subseteq Keys /\ \A k \in attached' : Complete(k)
  BY DEF StoreInv, TypeOK, FilesAgree
<1>2. /\ StoreInv'
      /\ \A k \in Keys : (Complete(k)' <=> Complete(k)) /\ (Held(k)' <=> Held(k))
  BY <1>1, ReadsOn
<1>3. UNCHANGED <<answers, attached>>
  BY DEF clientVars
<1> QED
  BY <1>2, <1>3, VaultStays

LEMMA NotReadingIs == NotReading \in Reader /\ NotReading.stage = "idle"
BY DEF NotReading, Reader

LEMMA RequestsAttach ==
  ASSUME StoreInv, OneProcess, NEW p \in Processes, NEW k \in Keys, RequestAttach(p, k)
  PROVE  StoreInv' /\ VaultStep
<1>1. PICK r : r = [stage |-> "metadata", key |-> k]
  OBVIOUS
<1>2. r \in Reader /\ r.stage = "metadata" /\ r.key = k
  BY <1>1 DEF Reader
<1>3. reader' = [reader EXCEPT ![p] = r]
  BY <1>1 DEF RequestAttach
<1> QED
  BY <1>2, <1>3, OnlyReads DEF RequestAttach

\* The reader looks further, or gives up.
LEMMA LooksOn ==
  ASSUME StoreInv, NEW p \in Processes, NEW s \in {"content", "verified"},
         reader[p].stage # "idle", Look(p, s)
  PROVE  \E r \in Reader : /\ reader' = [reader EXCEPT ![p] = r]
                           /\ r.stage = s /\ r.key = reader[p].key /\ r.key \in Keys
<1>1. reader \in [Processes -> Reader] /\ reader[p] \in Reader /\ reader[p].key \in Keys
  BY DEF StoreInv, TypeOK, ReadersAgree
<1>2. PICK r : r = [reader[p] EXCEPT !.stage = s]
  OBVIOUS
<1>3. r \in Reader /\ r.stage = s /\ r.key = reader[p].key
  BY <1>1, <1>2 DEF Reader
<1>4. reader' = [reader EXCEPT ![p] = r]
  BY <1>2 DEF Look
<1> QED
  BY <1>1, <1>3, <1>4

LEMMA ReadsMetadata ==
  ASSUME StoreInv, OneProcess, NEW p \in Processes, ReadMetadata(p)
  PROVE  StoreInv' /\ VaultStep
<1>1. CASE Readable(reader[p].key, "metadata") /\ Look(p, "content")
  <2>1. PICK r \in Reader :
          /\ reader' = [reader EXCEPT ![p] = r]
          /\ r.stage = "content" /\ r.key = reader[p].key /\ r.key \in Keys
    BY <1>1, LooksOn DEF ReadMetadata
  <2>2. "metadata" \in disk[r.key]
    BY <1>1, <2>1 DEF Readable
  <2> QED
    BY <2>1, <2>2, OnlyReads DEF ReadMetadata
<1>2. CASE reader' = [reader EXCEPT ![p] = NotReading]
  BY <1>2, NotReadingIs, OnlyReads DEF ReadMetadata
<1> QED
  BY <1>1, <1>2 DEF ReadMetadata

LEMMA ReadsContent ==
  ASSUME StoreInv, OneProcess, NEW p \in Processes, ReadContent(p)
  PROVE  StoreInv' /\ VaultStep
<1>1. CASE Readable(reader[p].key, "object") /\ Look(p, "verified")
  <2>1. PICK r \in Reader :
          /\ reader' = [reader EXCEPT ![p] = r]
          /\ r.stage = "verified" /\ r.key = reader[p].key /\ r.key \in Keys
    BY <1>1, LooksOn DEF ReadContent
  <2>2. "object" \in disk[r.key] /\ "metadata" \in disk[r.key]
    BY <1>1, <2>1 DEF Readable, ReadContent, StoreInv, ReadersAgree
  <2>3. Complete(r.key)
    BY <2>2 DEF Complete, Pair
  <2> QED
    BY <2>1, <2>3, OnlyReads DEF ReadContent
<1>2. CASE reader' = [reader EXCEPT ![p] = NotReading]
  BY <1>2, NotReadingIs, OnlyReads DEF ReadContent
<1> QED
  BY <1>1, <1>2 DEF ReadContent

LEMMA CreatesEvidence ==
  ASSUME StoreInv, OneProcess, NEW p \in Processes, CreateEvidence(p)
  PROVE  StoreInv' /\ VaultStep
<1>1. PICK j \in Keys : j = reader[p].key
  BY DEF CreateEvidence, StoreInv, ReadersAgree
<1>2. Complete(j) /\ attached' = attached \cup {j}
  BY <1>1 DEF CreateEvidence, StoreInv, ReadersAgree
<1>3. attached' \subseteq Keys /\ \A k \in attached' : Complete(k)
  BY <1>2 DEF StoreInv, TypeOK, FilesAgree
<1>4. /\ StoreInv'
      /\ \A k \in Keys : (Complete(k)' <=> Complete(k)) /\ (Held(k)' <=> Held(k))
  BY <1>3, NotReadingIs, ReadsOn DEF CreateEvidence
<1>5. answers' = answers
  BY DEF CreateEvidence, clientVars
<1> QED
  BY <1>2, <1>4, <1>5, VaultAttaches

-----------------------------------------------------------------------------
(* The theorems.                                                           *)

LEMMA StoreBegins ==
  ASSUME Init
  PROVE  StoreInv /\ Vault!Init
<1>1. TypeOK
  BY IdleIs, NotReadingIs, StorageAssumption DEF Init, TypeOK
<1>2. InstantsEnd
  <2>1. /\ \A l \in leases : l.asked <= 0
        /\ \A p \in Processes : lane[p].asked <= 0
    BY IdleIs DEF Init
  <2>2. 0 \in Nat
    OBVIOUS
  <2> QED
    BY <2>1, <2>2 DEF InstantsEnd
<1>3. LanesAreSound
  BY IdleIs DEF Init, LanesAreSound, Sound
<1>4. FilesAgree
  BY DEF Init, FilesAgree, Nothing
<1>5. ReadersAgree
  BY NotReadingIs DEF Init, ReadersAgree
<1>6. Place = [k \in Keys |-> "free"]
  <2>1. \A k \in Keys : ~Complete(k) /\ ~Held(k)
    BY DEF Init, Nothing, Complete, Held, Pair
  <2>2. \A k \in Keys : Place[k] = "free"
    BY <2>1, PlaceIs
  <2> QED
    BY <2>2, PlaceIs
<1>7. Vault!Init
  BY <1>6 DEF Init, Vault!Init
<1> QED
  BY <1>1, <1>2, <1>3, <1>4, <1>5, <1>7 DEF StoreInv

\* Every step keeps the invariant and is one of the vault, or none.
LEMMA StoreStep ==
  ASSUME StoreInv, OneProcess, IsFiniteSet(Keys), Next
  PROVE  StoreInv' /\ VaultStep
<1>1. ASSUME NEW p \in Processes, Start(p) \/ Proceed(p) \/ Verify(p)
      PROVE  StoreInv' /\ VaultStep
  BY <1>1, Starts, WritesLease, Acquires, Polls, EnsuresManifest, Sweeps,
     PrunesReservations, PrunesPairs, Reserves, ChecksUpload, WritesTemporaries,
     RenamesObject, RenamesMetadata, DropsReservation, Releases,
     ReadsMetadata, ReadsContent, CreatesEvidence
  DEF Proceed, Verify
<1>2. ASSUME NEW p \in Processes, FailWorking(p) \/ FailRelease(p) \/ Crash(p)
      PROVE  StoreInv' /\ VaultStep
  BY <1>2, FailsWorking, FailsRelease, Crashes
<1>3. ASSUME NEW p \in Processes, NEW k \in Keys, IssueUpload(p, k) \/ RequestAttach(p, k)
      PROVE  StoreInv' /\ VaultStep
  BY <1>3, Issues, RequestsAttach
<1>4. ASSUME NEW p \in Processes, NEW k \in Keys, NEW bytes \in Bytes, AcceptUpload(p, k, bytes)
      PROVE  StoreInv' /\ VaultStep
  BY <1>4, Accepts
<1> QED
  BY <1>1, <1>2, <1>3, <1>4, Expires, Ticks DEF Next

LEMMA StoreStutters ==
  ASSUME StoreInv, UNCHANGED vars
  PROVE  StoreInv' /\ VaultStep
<1>1. StoreInv'
  BY DEF vars, clientVars, evidenceVars, StoreInv, TypeOK, InstantsEnd, LanesAreSound, Sound,
         FilesAgree, ReadersAgree, Complete
<1>2. \A k \in Keys : (Complete(k)' <=> Complete(k)) /\ (Held(k)' <=> Held(k))
  BY DEF vars, clientVars, Complete, Held, Uploading
<1>3. UNCHANGED <<answers, attached>>
  BY DEF vars, clientVars, evidenceVars
<1> QED
  BY <1>1, <1>2, <1>3, VaultStays

\* The state of the directory, of the lanes and of the leases is well-formed
\* after any number of crashes and failures of LocalPilotObjectStorage.
THEOREM StorageTypes ==
  ASSUME OneProcess, IsFiniteSet(Keys)
  PROVE  Spec => []TypeOK
<1>1. Init => StoreInv
  BY StoreBegins
<1>2. StoreInv /\ [Next]_vars => StoreInv'
  BY StoreStep, StoreStutters
<1>3. StoreInv => TypeOK
  BY DEF StoreInv
<1> QED
  BY <1>1, <1>2, <1>3, PTL DEF Spec

\* A row of evidence that attachEvidence created after verifyUpload has both
\* files for ever, although verifyUpload reads them without the lease while
\* uploads are stored and what crashes left is swept.
THEOREM EvidenceStaysBacked ==
  ASSUME OneProcess, IsFiniteSet(Keys)
  PROVE  Spec => []EvidenceIsBacked
<1>1. Init => StoreInv
  BY StoreBegins
<1>2. StoreInv /\ [Next]_vars => StoreInv'
  BY StoreStep, StoreStutters
<1>3. StoreInv => EvidenceIsBacked
  BY DEF StoreInv, FilesAgree, EvidenceIsBacked, Servable, Readable, Complete
<1> QED
  BY <1>1, <1>2, <1>3, PTL DEF Spec

\* LocalPilotObjectStorage implements EvidenceVault, for any finite set of keys
\* and any quotas: each step of a mutation, a failure or a crash takes one place
\* within the quotas, gives one up, keeps one, confirms or attaches one, or is
\* none of its steps.
THEOREM DirectoryKeepsItsPromise ==
  ASSUME OneProcess, IsFiniteSet(Keys)
  PROVE  Spec => KeepsItsPromise
<1>1. Init => StoreInv /\ Vault!Init
  BY StoreBegins
<1>2. StoreInv /\ [Next]_vars => StoreInv' /\ [Vault!Next]_(Vault!vaultVars)
  BY StoreStep, StoreStutters DEF VaultStep
<1> QED
  BY <1>1, <1>2, PTL DEF Spec, KeepsItsPromise, Vault!Spec

-----------------------------------------------------------------------------
(* The live acceptance.                                                    *)


\* The stages in which no server of a runner is there.
Serverless(r) ==
  \/ script[r] \in Starting \cup {"boot", "booting", "prepare", "start"}
  \/ restart[r] \in {"forget", "rename", "start"}
  \/ cleanup[r] \in {"forget", "rename", "unbox", "empty", "drop", "done"}

\* The three lanes of a runner, and what it has made.
LanesAgree(r) ==
  /\ cleanup[r] # "none" => script[r] \in Running \ {"boot"}
  /\ restart[r] # "none" => script[r] \in {"serve", "finish"} /\ cleanup[r] \in {"none", "close"}
  /\ script[r] \in {"save", "rename"} => cleanup[r] \notin {"empty", "drop", "done"}
  /\ script[r] = "rename" => cleanup[r] # "rename"
  /\ script[r] = "rename" \/ restart[r] \in {"rename", "renamed"} \/ cleanup[r] = "rename" =>
       pending[r] # NoRunner
MadeAgrees(r) ==
  /\ \A s, t \in ServersOf(r) : s = t
  /\ Serverless(r) => ServersOf(r) = {}
  /\ script[r] \in Starting \cup {"boot"} \/ cleanup[r] \in {"empty", "drop", "done"} =>
       box[r] = "none"
  /\ cleanup[r] \in {"drop", "done"} => r \notin dirs
  /\ script[r] \in Starting => r \notin acquired

\* The marker is that of the runner at work, and of what exists.
MarkerAgrees(r) ==
  /\ script[r] \in Starting => marker.run # r
  /\ script[r] \in Running /\ cleanup[r] # "done" => marker.run = r
  /\ HasLeft(r) => marker.run = r

\* A runner that deals with the marker it has found is the only one, and knows
\* how much of it is removed.
Reclaims(q) == script[q] \in {"inspect"} \cup Reclaiming
ReclaimAgrees(q) ==
  Reclaims(q) =>
    LET r == seen[q].run IN
      /\ r \in Runners \ {q} /\ marker.run \in {r, NoRunner}
      /\ script[r] \notin Starting \ {"look"}
      /\ script[q] \in Reclaiming => script[r] \in {"ended", "look"}
      /\ script[q] \in {"unbox", "empty", "drop"} => ServersOf(r) = {}
      /\ script[q] \in {"empty", "drop"} => box[r] = "none"
      /\ script[q] = "drop" => r \notin dirs
OneReclaims == \A q, r \in Runners : Reclaims(q) /\ Reclaims(r) => q = r

AcceptanceInv ==
  /\ AcceptanceTypeOK /\ OneReclaims
  /\ \A r \in Runners : LanesAgree(r) /\ MadeAgrees(r) /\ MarkerAgrees(r) /\ ReclaimAgrees(r)

LEMMA NoMarkerIs ==
  /\ NoMarker \in Marker /\ NoMarker.run = NoRunner /\ 0 \in 0..MaxStarts
  /\ \A r \in Runners, n \in 0..MaxStarts : [run |-> r, api |-> n] \in Marker
BY AcceptanceAssumption DEF NoMarker, Marker

\* The steps of a runner, by what they are about.
RunnerBegins(r) == StartRunner(r) \/ MakeTemp(r) \/ AcquireState(r) \/ BootDatabase(r)
RunnerStarts(r) ==
  DatabaseReady(r) \/ Prepare(r) \/ StartPilot(r) \/ SaveStart(r) \/ RenameStart(r)
    \/ PilotReady(r) \/ TestsEnd(r) \/ ScriptFails(r)
RunnerRestarts(r) == RequestRestart(r) \/ Again(r)
RunnerCleans(r) == Signal(r) \/ Finish(r) \/ CleanUp(r) \/ CleanupFails(r)
RunnerEnds(r) == End(r) \/ ReclaimFails(r) \/ Kill(r)

LEMMA AcceptanceTyped ==
  ASSUME AcceptanceInv, ReclaimsAlone, NEW p \in Runners
  PROVE  /\ RunnerBegins(p) => AcceptanceTypeOK'
         /\ Reclaim(p) => AcceptanceTypeOK'
         /\ RunnerStarts(p) => AcceptanceTypeOK'
         /\ RunnerRestarts(p) => AcceptanceTypeOK'
         /\ RunnerCleans(p) => AcceptanceTypeOK'
         /\ RunnerEnds(p) => AcceptanceTypeOK'
         /\ DockerSettles(p) => AcceptanceTypeOK'
<1> USE NoMarkerIs, AcceptanceAssumption
    DEF AcceptanceInv, AcceptanceTypeOK, LanesAgree, Scripts, Restarts, Cleanups, Starting,
        Reclaiming, Running, memoryVars, fileVars, processVars, laneVars
<1>1. ASSUME RunnerBegins(p) PROVE AcceptanceTypeOK'
  <2>1. CASE StartRunner(p) \/ MakeTemp(p) \/ BootDatabase(p)
    BY <2>1, SMTT(30) DEF StartRunner, MakeTemp, BootDatabase, ScriptGoes
  <2>2. CASE AcquireState(p)
    <3>1. PICK m \in Marker : m = [run |-> p, api |-> 0]
      OBVIOUS
    <3>2. marker' \in {marker, m}
      BY <2>2, <3>1 DEF AcquireState
    <3> QED
      BY <2>2, <3>2 DEF AcquireState, ScriptGoes, Exit
  <2> QED
    BY <1>1, <2>1, <2>2 DEF RunnerBegins
<1>2. ASSUME Reclaim(p) PROVE AcceptanceTypeOK'
  BY <1>2
  DEF Reclaim, ReadState, InspectRunner, StopStaleServer, RemoveStaleBox, RemoveStaleTemp,
      DropStaleMarker, ScriptGoes, Exit, Active, Alive, Undisturbed, RemoveBox
<1>3. ASSUME RunnerStarts(p) PROVE AcceptanceTypeOK'
  BY <1>3
  DEF RunnerStarts, DatabaseReady, Prepare, StartPilot, SaveStart, RenameStart, PilotReady,
      TestsEnd, ScriptFails, ScriptGoes, Spawn, MayStart, WritePending, RenamePending,
      Clash
<1>4. ASSUME RunnerRestarts(p) PROVE AcceptanceTypeOK'
  BY <1>4
  DEF RunnerRestarts, RequestRestart, Again, StopPilot, ForgetPilot, RenameForgotten,
      RestartPilot, SaveRestart, RenameRestart, AnswerRestart, RestartGoes, Spawn,
      MayStart, WritePending, RenamePending, Clash
<1>5. ASSUME RunnerCleans(p) PROVE AcceptanceTypeOK'
  BY <1>5
  DEF RunnerCleans, Signal, Finish, BeginCleanup, CleanUp, CleanupFails, CloseControl,
      StopAll, PersistNone, RenameNone, RemoveOwnBox, RemoveOwnTemp, DropMarker,
      CleanupGoes, WritePending, RenamePending, Clash, RemoveBox, Saving, Alive
<1>6. ASSUME RunnerEnds(p) PROVE AcceptanceTypeOK'
  BY <1>6, SMTT(30) DEF RunnerEnds, End, ReclaimFails, Kill, Exit, Alive
<1>7. ASSUME DockerSettles(p) PROVE AcceptanceTypeOK'
  BY <1>7 DEF DockerSettles
<1> QED
  BY <1>1, <1>2, <1>3, <1>4, <1>5, <1>6, <1>7

LEMMA LanesStay ==
  ASSUME AcceptanceInv, ReclaimsAlone, NEW p \in Runners
  PROVE  /\ RunnerBegins(p) => \A r \in Runners : LanesAgree(r)'
         /\ Reclaim(p) => \A r \in Runners : LanesAgree(r)'
         /\ RunnerStarts(p) => \A r \in Runners : LanesAgree(r)'
         /\ RunnerRestarts(p) => \A r \in Runners : LanesAgree(r)'
         /\ RunnerCleans(p) => \A r \in Runners : LanesAgree(r)'
         /\ RunnerEnds(p) => \A r \in Runners : LanesAgree(r)'
         /\ DockerSettles(p) => \A r \in Runners : LanesAgree(r)'
<1> USE NoMarkerIs, AcceptanceAssumption
    DEF AcceptanceInv, AcceptanceTypeOK, LanesAgree, Scripts, Restarts, Cleanups, Starting,
        Reclaiming, Running, memoryVars, fileVars, processVars, laneVars
<1>1. ASSUME RunnerBegins(p) PROVE \A r \in Runners : LanesAgree(r)'
  BY <1>1
  DEF RunnerBegins, StartRunner, MakeTemp, AcquireState, BootDatabase, ScriptGoes, Exit,
      Alive, HasLeft, Undisturbed
<1>2. ASSUME Reclaim(p) PROVE \A r \in Runners : LanesAgree(r)'
  BY <1>2
  DEF Reclaim, ReadState, InspectRunner, StopStaleServer, RemoveStaleBox, RemoveStaleTemp,
      DropStaleMarker, ScriptGoes, Exit, Active, Alive, Undisturbed, RemoveBox, NoMarker
<1>3. ASSUME RunnerStarts(p) PROVE \A r \in Runners : LanesAgree(r)'
  BY <1>3
  DEF RunnerStarts, DatabaseReady, Prepare, StartPilot, SaveStart, RenameStart, PilotReady,
      TestsEnd, ScriptFails, ScriptGoes, Spawn, MayStart, WritePending, RenamePending,
      Clash
<1>4. ASSUME RunnerRestarts(p) PROVE \A r \in Runners : LanesAgree(r)'
  BY <1>4
  DEF RunnerRestarts, RequestRestart, Again, StopPilot, ForgetPilot, RenameForgotten,
      RestartPilot, SaveRestart, RenameRestart, AnswerRestart, RestartGoes, Spawn,
      MayStart, WritePending, RenamePending, Clash
<1>5. ASSUME RunnerCleans(p) PROVE \A r \in Runners : LanesAgree(r)'
  BY <1>5
  DEF RunnerCleans, Signal, Finish, BeginCleanup, CleanUp, CleanupFails, CloseControl,
      StopAll, PersistNone, RenameNone, RemoveOwnBox, RemoveOwnTemp, DropMarker,
      CleanupGoes, WritePending, RenamePending, Clash, RemoveBox, Saving, NoMarker, Alive
<1>6. ASSUME RunnerEnds(p) PROVE \A r \in Runners : LanesAgree(r)'
  BY <1>6 DEF RunnerEnds, End, ReclaimFails, Kill, Exit, Alive
<1>7. ASSUME DockerSettles(p) PROVE \A r \in Runners : LanesAgree(r)'
  BY <1>7 DEF DockerSettles
<1> QED
  BY <1>1, <1>2, <1>3, <1>4, <1>5, <1>6, <1>7

LEMMA MadeStays ==
  ASSUME AcceptanceInv, ReclaimsAlone, NEW p \in Runners
  PROVE  /\ RunnerBegins(p) => \A r \in Runners : MadeAgrees(r)'
         /\ Reclaim(p) => \A r \in Runners : MadeAgrees(r)'
         /\ RunnerStarts(p) => \A r \in Runners : MadeAgrees(r)'
         /\ RunnerRestarts(p) => \A r \in Runners : MadeAgrees(r)'
         /\ RunnerCleans(p) => \A r \in Runners : MadeAgrees(r)'
         /\ RunnerEnds(p) => \A r \in Runners : MadeAgrees(r)'
         /\ DockerSettles(p) => \A r \in Runners : MadeAgrees(r)'
<1> USE NoMarkerIs, AcceptanceAssumption
    DEF AcceptanceInv, AcceptanceTypeOK, LanesAgree, MadeAgrees, MarkerAgrees, Serverless,
        HasLeft, ServersOf, Scripts, Restarts, Cleanups, Starting, Reclaiming, Running,
        memoryVars, fileVars, processVars, laneVars
<1>1. ASSUME RunnerBegins(p) PROVE \A r \in Runners : MadeAgrees(r)'
  BY <1>1
  DEF RunnerBegins, StartRunner, MakeTemp, AcquireState, BootDatabase, ScriptGoes, Exit,
      Alive, HasLeft, Undisturbed
<1>2. ASSUME Reclaim(p) PROVE \A r \in Runners : MadeAgrees(r)'
  BY <1>2
  DEF Reclaim, ReadState, InspectRunner, StopStaleServer, RemoveStaleBox, RemoveStaleTemp,
      DropStaleMarker, ScriptGoes, Exit, Active, Alive, Undisturbed, RemoveBox, NoMarker
<1>3. ASSUME RunnerStarts(p) PROVE \A r \in Runners : MadeAgrees(r)'
  BY <1>3
  DEF RunnerStarts, DatabaseReady, Prepare, StartPilot, SaveStart, RenameStart, PilotReady,
      TestsEnd, ScriptFails, ScriptGoes, Spawn, MayStart, WritePending, RenamePending,
      Clash
<1>4. ASSUME RunnerRestarts(p) PROVE \A r \in Runners : MadeAgrees(r)'
  BY <1>4
  DEF RunnerRestarts, RequestRestart, Again, StopPilot, ForgetPilot, RenameForgotten,
      RestartPilot, SaveRestart, RenameRestart, AnswerRestart, RestartGoes, Spawn,
      MayStart, WritePending, RenamePending, Clash
<1>5. ASSUME RunnerCleans(p) PROVE \A r \in Runners : MadeAgrees(r)'
  BY <1>5
  DEF RunnerCleans, Signal, Finish, BeginCleanup, CleanUp, CleanupFails, CloseControl,
      StopAll, PersistNone, RenameNone, RemoveOwnBox, RemoveOwnTemp, DropMarker,
      CleanupGoes, WritePending, RenamePending, Clash, RemoveBox, Saving, NoMarker, Alive
<1>6. ASSUME RunnerEnds(p) PROVE \A r \in Runners : MadeAgrees(r)'
  BY <1>6 DEF RunnerEnds, End, ReclaimFails, Kill, Exit, Alive
<1>7. ASSUME DockerSettles(p) PROVE \A r \in Runners : MadeAgrees(r)'
  BY <1>7 DEF DockerSettles
<1> QED
  BY <1>1, <1>2, <1>3, <1>4, <1>5, <1>6, <1>7

LEMMA MarkerStays ==
  ASSUME AcceptanceInv, ReclaimsAlone, NEW p \in Runners
  PROVE  /\ RunnerBegins(p) => \A r \in Runners : MarkerAgrees(r)'
         /\ Reclaim(p) => \A r \in Runners : MarkerAgrees(r)'
         /\ RunnerStarts(p) => \A r \in Runners : MarkerAgrees(r)'
         /\ RunnerRestarts(p) => \A r \in Runners : MarkerAgrees(r)'
         /\ RunnerCleans(p) => \A r \in Runners : MarkerAgrees(r)'
         /\ RunnerEnds(p) => \A r \in Runners : MarkerAgrees(r)'
         /\ DockerSettles(p) => \A r \in Runners : MarkerAgrees(r)'
<1> USE NoMarkerIs, AcceptanceAssumption
    DEF AcceptanceInv, AcceptanceTypeOK, LanesAgree, MadeAgrees, MarkerAgrees, ReclaimAgrees,
        Reclaims, Serverless, HasLeft, ServersOf, Scripts, Restarts, Cleanups, Starting,
        Reclaiming, Running, memoryVars, fileVars, processVars, laneVars
<1>1. ASSUME RunnerBegins(p) PROVE \A r \in Runners : MarkerAgrees(r)'
  BY <1>1
  DEF RunnerBegins, StartRunner, MakeTemp, AcquireState, BootDatabase, ScriptGoes, Exit,
      Alive, HasLeft, Undisturbed
<1>2. ASSUME Reclaim(p) PROVE \A r \in Runners : MarkerAgrees(r)'
  BY <1>2
  DEF Reclaim, ReadState, InspectRunner, StopStaleServer, RemoveStaleBox, RemoveStaleTemp,
      DropStaleMarker, ScriptGoes, Exit, Active, Alive, Undisturbed, RemoveBox, NoMarker
<1>3. ASSUME RunnerStarts(p) PROVE \A r \in Runners : MarkerAgrees(r)'
  BY <1>3
  DEF RunnerStarts, DatabaseReady, Prepare, StartPilot, SaveStart, RenameStart, PilotReady,
      TestsEnd, ScriptFails, ScriptGoes, Spawn, MayStart, WritePending, RenamePending,
      Clash
<1>4. ASSUME RunnerRestarts(p) PROVE \A r \in Runners : MarkerAgrees(r)'
  BY <1>4
  DEF RunnerRestarts, RequestRestart, Again, StopPilot, ForgetPilot, RenameForgotten,
      RestartPilot, SaveRestart, RenameRestart, AnswerRestart, RestartGoes, Spawn,
      MayStart, WritePending, RenamePending, Clash
<1>5. ASSUME RunnerCleans(p) PROVE \A r \in Runners : MarkerAgrees(r)'
  BY <1>5
  DEF RunnerCleans, Signal, Finish, BeginCleanup, CleanUp, CleanupFails, CloseControl,
      StopAll, PersistNone, RenameNone, RemoveOwnBox, RemoveOwnTemp, DropMarker,
      CleanupGoes, WritePending, RenamePending, Clash, RemoveBox, Saving, NoMarker, Alive
<1>6. ASSUME RunnerEnds(p) PROVE \A r \in Runners : MarkerAgrees(r)'
  BY <1>6 DEF RunnerEnds, End, ReclaimFails, Kill, Exit, Alive
<1>7. ASSUME DockerSettles(p) PROVE \A r \in Runners : MarkerAgrees(r)'
  BY <1>7 DEF DockerSettles
<1> QED
  BY <1>1, <1>2, <1>3, <1>4, <1>5, <1>6, <1>7

LEMMA ReadsMarker ==
  ASSUME AcceptanceInv, ReclaimsAlone, NEW p \in Runners, ReadState(p)
  PROVE  \A r \in Runners : ReclaimAgrees(r)'
<1>1. \A q \in Runners : ~Reclaims(q)
  BY DEF ReadState, Undisturbed, Reclaims
<1>2. \A q \in Runners : Reclaims(q)' => q = p /\ script'[p] = "inspect" /\ marker.run # NoRunner
  BY <1>1
  DEF ReadState, ScriptGoes, Reclaims, AcceptanceInv, AcceptanceTypeOK, Reclaiming
<1>3. CASE marker.run = NoRunner
  BY <1>2, <1>3 DEF ReclaimAgrees
<1>4. CASE marker.run # NoRunner
  <2>1. PICK r \in Runners : r = marker.run
    BY <1>4 DEF AcceptanceInv, AcceptanceTypeOK, Marker
  <2>2. seen'[p] = marker /\ marker' = marker
    BY DEF ReadState, AcceptanceInv, AcceptanceTypeOK, fileVars
  <2>3. r # p /\ script[r] \notin Starting
    BY <2>1 DEF ReadState, AcceptanceInv, MarkerAgrees, Starting
  <2>4. script'[r] = script[r]
    BY <2>3 DEF ReadState, ScriptGoes, AcceptanceInv, AcceptanceTypeOK
  <2>5. ReclaimAgrees(p)'
    BY <1>2, <2>1, <2>2, <2>3, <2>4 DEF ReclaimAgrees, Reclaiming
  <2> QED
    BY <1>2, <2>5 DEF ReclaimAgrees
<1> QED
  BY <1>3, <1>4

LEMMA ReclaimStays ==
  ASSUME AcceptanceInv, ReclaimsAlone, NEW p \in Runners
  PROVE  /\ RunnerBegins(p) => \A r \in Runners : ReclaimAgrees(r)'
         /\ Reclaim(p) => \A r \in Runners : ReclaimAgrees(r)'
         /\ RunnerStarts(p) => \A r \in Runners : ReclaimAgrees(r)'
         /\ RunnerRestarts(p) => \A r \in Runners : ReclaimAgrees(r)'
         /\ RunnerCleans(p) => \A r \in Runners : ReclaimAgrees(r)'
         /\ RunnerEnds(p) => \A r \in Runners : ReclaimAgrees(r)'
         /\ DockerSettles(p) => \A r \in Runners : ReclaimAgrees(r)'
<1> USE NoMarkerIs, AcceptanceAssumption
    DEF AcceptanceInv, AcceptanceTypeOK, LanesAgree, OneReclaims, MadeAgrees, MarkerAgrees,
        ReclaimAgrees, Reclaims, HasLeft, ServersOf, Scripts, Restarts, Cleanups, Starting,
        Reclaiming, Running, memoryVars, fileVars, processVars, laneVars
<1>1. ASSUME RunnerBegins(p) PROVE \A r \in Runners : ReclaimAgrees(r)'
  BY <1>1
  DEF RunnerBegins, StartRunner, MakeTemp, AcquireState, BootDatabase, ScriptGoes, Exit,
      Alive, HasLeft, Undisturbed
<1>2. ASSUME Reclaim(p) PROVE \A r \in Runners : ReclaimAgrees(r)'
  <2>1. CASE InspectRunner(p)
    BY <2>1 DEF InspectRunner, ScriptGoes, Exit, Active, Alive, NoMarker
  <2>2. CASE StopStaleServer(p)
    BY <2>2 DEF StopStaleServer, ScriptGoes
  <2>3. CASE RemoveStaleBox(p)
    BY <2>3 DEF RemoveStaleBox, ScriptGoes, RemoveBox
  <2>4. CASE RemoveStaleTemp(p)
    BY <2>4 DEF RemoveStaleTemp, ScriptGoes
  <2>5. CASE DropStaleMarker(p)
    BY <2>5 DEF DropStaleMarker, ScriptGoes, Exit, NoMarker
  <2> QED
    BY <1>2, <2>1, <2>2, <2>3, <2>4, <2>5, ReadsMarker DEF Reclaim
<1>3. ASSUME RunnerStarts(p) PROVE \A r \in Runners : ReclaimAgrees(r)'
  BY <1>3
  DEF RunnerStarts, DatabaseReady, Prepare, StartPilot, SaveStart, RenameStart, PilotReady,
      TestsEnd, ScriptFails, ScriptGoes, Spawn, MayStart, WritePending, RenamePending,
      Clash
<1>4. ASSUME RunnerRestarts(p) PROVE \A r \in Runners : ReclaimAgrees(r)'
  BY <1>4
  DEF RunnerRestarts, RequestRestart, Again, StopPilot, ForgetPilot, RenameForgotten,
      RestartPilot, SaveRestart, RenameRestart, AnswerRestart, RestartGoes, Spawn,
      MayStart, WritePending, RenamePending, Clash
<1>5. ASSUME RunnerCleans(p) PROVE \A r \in Runners : ReclaimAgrees(r)'
  BY <1>5
  DEF RunnerCleans, Signal, Finish, BeginCleanup, CleanUp, CleanupFails, CloseControl,
      StopAll, PersistNone, RenameNone, RemoveOwnBox, RemoveOwnTemp, DropMarker,
      CleanupGoes, WritePending, RenamePending, Clash, RemoveBox, Saving, NoMarker, Alive
<1>6. ASSUME RunnerEnds(p) PROVE \A r \in Runners : ReclaimAgrees(r)'
  BY <1>6 DEF RunnerEnds, End, ReclaimFails, Kill, Exit, Alive
<1>7. ASSUME DockerSettles(p) PROVE \A r \in Runners : ReclaimAgrees(r)'
  BY <1>7 DEF DockerSettles
<1> QED
  BY <1>1, <1>2, <1>3, <1>4, <1>5, <1>6, <1>7

LEMMA OneStays ==
  ASSUME AcceptanceInv, ReclaimsAlone, NEW p \in Runners
  PROVE  /\ RunnerBegins(p) => OneReclaims'
         /\ Reclaim(p) => OneReclaims'
         /\ RunnerStarts(p) => OneReclaims'
         /\ RunnerRestarts(p) => OneReclaims'
         /\ RunnerCleans(p) => OneReclaims'
         /\ RunnerEnds(p) => OneReclaims'
         /\ DockerSettles(p) => OneReclaims'
<1> USE NoMarkerIs, AcceptanceAssumption
    DEF AcceptanceInv, AcceptanceTypeOK, OneReclaims, Reclaims, Scripts, Restarts, Cleanups,
        Starting, Reclaiming, Running, memoryVars, fileVars, processVars, laneVars
<1>1. ASSUME RunnerBegins(p) PROVE OneReclaims'
  BY <1>1
  DEF RunnerBegins, StartRunner, MakeTemp, AcquireState, BootDatabase, ScriptGoes, Exit,
      Alive, HasLeft, Undisturbed
<1>2. ASSUME Reclaim(p) PROVE OneReclaims'
  BY <1>2
  DEF Reclaim, ReadState, InspectRunner, StopStaleServer, RemoveStaleBox, RemoveStaleTemp,
      DropStaleMarker, ScriptGoes, Exit, Active, Alive, Undisturbed, RemoveBox, NoMarker
<1>3. ASSUME RunnerStarts(p) PROVE OneReclaims'
  BY <1>3
  DEF RunnerStarts, DatabaseReady, Prepare, StartPilot, SaveStart, RenameStart, PilotReady,
      TestsEnd, ScriptFails, ScriptGoes, Spawn, MayStart, WritePending, RenamePending,
      Clash
<1>4. ASSUME RunnerRestarts(p) PROVE OneReclaims'
  BY <1>4
  DEF RunnerRestarts, RequestRestart, Again, StopPilot, ForgetPilot, RenameForgotten,
      RestartPilot, SaveRestart, RenameRestart, AnswerRestart, RestartGoes, Spawn,
      MayStart, WritePending, RenamePending, Clash
<1>5. ASSUME RunnerCleans(p) PROVE OneReclaims'
  BY <1>5
  DEF RunnerCleans, Signal, Finish, BeginCleanup, CleanUp, CleanupFails, CloseControl,
      StopAll, PersistNone, RenameNone, RemoveOwnBox, RemoveOwnTemp, DropMarker,
      CleanupGoes, WritePending, RenamePending, Clash, RemoveBox, Saving, NoMarker, Alive
<1>6. ASSUME RunnerEnds(p) PROVE OneReclaims'
  BY <1>6 DEF RunnerEnds, End, ReclaimFails, Kill, Exit, Alive
<1>7. ASSUME DockerSettles(p) PROVE OneReclaims'
  BY <1>7 DEF DockerSettles
<1> QED
  BY <1>1, <1>2, <1>3, <1>4, <1>5, <1>6, <1>7

LEMMA ServerIsGone ==
  ASSUME AcceptanceInv, NEW s \in servers, ServerEnds(s)
  PROVE  AcceptanceInv'
<1>1. AcceptanceTypeOK'
  BY AcceptanceAssumption DEF ServerEnds, AcceptanceInv, AcceptanceTypeOK,
     laneVars, memoryVars, fileVars
<1>2. UNCHANGED <<script, restart, cleanup, seen, marker, pending, dirs, acquired, box>>
  BY DEF ServerEnds, laneVars, memoryVars, fileVars
<1>3. \A r \in Runners : ServersOf(r)' \subseteq ServersOf(r)
  BY DEF ServerEnds, ServersOf
<1>4. OneReclaims'
  BY <1>2 DEF AcceptanceInv, OneReclaims, Reclaims
<1>5. ASSUME NEW r \in Runners
      PROVE  LanesAgree(r)' /\ MadeAgrees(r)' /\ MarkerAgrees(r)'
  <2>1. LanesAgree(r) /\ MadeAgrees(r) /\ MarkerAgrees(r)
    BY DEF AcceptanceInv
  <2> QED
    BY <1>2, <1>3, <2>1 DEF LanesAgree, MadeAgrees, MarkerAgrees, Serverless, HasLeft
<1>6. ASSUME NEW q \in Runners PROVE ReclaimAgrees(q)'
  <2> SUFFICES ASSUME Reclaims(q)' PROVE ReclaimAgrees(q)'
    BY DEF ReclaimAgrees
  <2>1. PICK r : r = seen[q].run
    OBVIOUS
  <2>2. Reclaims(q) /\ ReclaimAgrees(q)
    BY <1>2 DEF AcceptanceInv, Reclaims
  <2>3. r \in Runners /\ ServersOf(r)' \subseteq ServersOf(r)
    BY <1>3, <2>1, <2>2 DEF ReclaimAgrees
  <2> QED
    BY <1>2, <2>1, <2>2, <2>3 DEF ReclaimAgrees
<1> QED
  BY <1>1, <1>4, <1>5, <1>6 DEF AcceptanceInv

LEMMA AcceptanceBegins ==
  ASSUME AcceptanceInit
  PROVE  AcceptanceInv
<1>1. \A r \in Runners : /\ script[r] = "ended" /\ restart[r] = "none" /\ cleanup[r] = "none"
                         /\ box[r] = "none" /\ ServersOf(r) = {}
  BY DEF AcceptanceInit, ServersOf
<1>2. AcceptanceTypeOK
  BY NoMarkerIs, AcceptanceAssumption DEF AcceptanceInit, AcceptanceTypeOK, Scripts, Restarts, Cleanups
<1>3. "ended" \notin Starting \cup Running /\ "ended" \notin {"inspect"} \cup Reclaiming
  BY DEF Starting, Reclaiming, Running
<1>4. \A r \in Runners : r \notin dirs
  BY DEF AcceptanceInit
<1> QED
  BY <1>1, <1>2, <1>3, <1>4 DEF AcceptanceInv, OneReclaims, Reclaims, LanesAgree, MadeAgrees,
     MarkerAgrees, ReclaimAgrees, HasLeft

LEMMA AcceptanceStep ==
  ASSUME AcceptanceInv, ReclaimsAlone, AcceptanceNext
  PROVE  AcceptanceInv'
<1>1. ASSUME NEW p \in Runners,
             \/ RunnerBegins(p) \/ Reclaim(p) \/ RunnerStarts(p) \/ RunnerRestarts(p)
             \/ RunnerCleans(p) \/ RunnerEnds(p) \/ DockerSettles(p)
      PROVE  AcceptanceInv'
  BY <1>1, AcceptanceTyped, LanesStay, MadeStays, MarkerStays, ReclaimStays, OneStays
  DEF AcceptanceInv
<1>2. ASSUME NEW p \in Runners,
             \/ StartRunner(p) \/ GoOn(p) \/ DockerSettles(p) \/ RequestRestart(p) \/ Signal(p)
             \/ ScriptFails(p) \/ CleanupFails(p) \/ ReclaimFails(p) \/ Kill(p)
      PROVE  AcceptanceInv'
  BY <1>1, <1>2 DEF GoOn, Run, RunnerBegins, RunnerStarts, RunnerRestarts, RunnerCleans, RunnerEnds
<1> QED
  BY <1>2, ServerIsGone DEF AcceptanceNext

\* Whenever a runner of the live acceptance is killed, gets a signal or fails,
\* between any two steps of its script, its restarts and its cleanup: each
\* server, container and acquired directory that exists is of the run that the
\* marker names, for any number of runners, as long as nobody else reads or
\* takes the marker while one deals with what it has found.
THEOREM WhatExistsStaysNamed ==
  ASSUME ReclaimsAlone
  PROVE  AcceptanceSpec => []WhatExistsIsNamed
<1>1. AcceptanceInit => AcceptanceInv
  BY AcceptanceBegins
<1>2. AcceptanceInv /\ [AcceptanceNext]_acceptanceVars => AcceptanceInv'
  <2>1. ASSUME AcceptanceInv, UNCHANGED acceptanceVars PROVE AcceptanceInv'
    BY <2>1 DEF acceptanceVars, laneVars, memoryVars, fileVars, processVars, AcceptanceInv,
       AcceptanceTypeOK, OneReclaims, Reclaims, LanesAgree, MadeAgrees, MarkerAgrees,
       ReclaimAgrees, Serverless, HasLeft, ServersOf
  <2> QED
    BY <2>1, AcceptanceStep
<1>3. AcceptanceInv => WhatExistsIsNamed
  BY DEF AcceptanceInv, MarkerAgrees, WhatExistsIsNamed
<1> QED
  BY <1>1, <1>2, <1>3, PTL DEF AcceptanceSpec

=============================================================================
