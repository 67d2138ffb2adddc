-------------------------------- MODULE Sums --------------------------------
(***************************************************************************)
(* What MapThenSumSet of the community modules adds up to, for every       *)
(* finite set.  MapThenSumSet takes the elements in an order CHOOSE fixes; *)
(* the sum is a recursive function on subsets.  That it exists, and that   *)
(* the order does not matter, is shown here by induction on the size of    *)
(* the set, in the form of a smallest counterexample.                      *)
(***************************************************************************)
EXTENDS Integers, FiniteSets, FiniteSetsExt, FiniteSetTheorems, WellFoundedInduction, TLAPS

Chosen(s) == CHOOSE x \in s : TRUE

\* f has the sums of h over the subsets of S.
Totals(h, f, S) ==
  f = [s \in SUBSET S |-> IF s = {} THEN 0 ELSE h[Chosen(s)] + f[s \ {Chosen(s)}]]

TotalOf(h, S) == (CHOOSE f : Totals(h, f, S))[S]

-----------------------------------------------------------------------------
\* A set of numbers has a least one.
LEMMA LeastNumber ==
  ASSUME NEW S \in SUBSET Nat, S # {}
  PROVE  \E x \in S : \A y \in S : x <= y
<1>1. PICK R : R = {p \in Nat \X Nat : p[1] < p[2]}
  OBVIOUS
<1>2. IsWellFoundedOn(R, Nat)
  BY <1>1, NatLessThanWellFounded DEF OpToRel
<1>3. PICK x \in S : \A y \in S : <<y, x>> \notin R
  BY <1>2, WFMin
<1>4. \A y \in S : ~(y < x)
  <2> SUFFICES ASSUME NEW y \in S, y < x PROVE FALSE
    OBVIOUS
  <2>1. <<y, x>> \in Nat \X Nat /\ <<y, x>>[1] = y /\ <<y, x>>[2] = x
    OBVIOUS
  <2>2. <<y, x>> \in R
    BY <2>1, <1>1
  <2> QED
    BY <2>2, <1>3
<1> QED
  BY <1>4

\* Of finite sets one has the fewest elements.
LEMMA SmallestSet ==
  ASSUME NEW C, C # {}, \A s \in C : IsFiniteSet(s)
  PROVE  \E s \in C : \A t \in C : Cardinality(s) <= Cardinality(t)
<1>1. PICK N : N = {n \in Nat : \E s \in C : Cardinality(s) = n}
  OBVIOUS
<1>2. \A s \in C : Cardinality(s) \in N
  BY <1>1, FS_CardinalityType
<1>3. PICK n \in N : \A m \in N : n <= m
  BY <1>1, <1>2, LeastNumber
<1> QED
  BY <1>1, <1>2, <1>3

LEMMA ChosenIsIn ==
  ASSUME NEW s, s # {}
  PROVE  Chosen(s) \in s
BY DEF Chosen

LEMMA FewerWithout ==
  ASSUME NEW s, IsFiniteSet(s), NEW x \in s
  PROVE  IsFiniteSet(s \ {x}) /\ Cardinality(s \ {x}) < Cardinality(s)
<1>1. IsFiniteSet(s \ {x}) /\ Cardinality(s \ {x}) = Cardinality(s) - 1
  BY FS_RemoveElement
<1>2. Cardinality(s) \in Nat
  BY FS_CardinalityType
<1> QED
  BY <1>1, <1>2

\* Two functions of sums agree where both are defined.
LEMMA TotalsAgree ==
  ASSUME NEW h, NEW S, NEW T, NEW f, NEW g, Totals(h, f, S), Totals(h, g, T),
         NEW s \in SUBSET S, s \in SUBSET T, IsFiniteSet(s)
  PROVE  f[s] = g[s]
<1>1. PICK C : C = {t \in SUBSET s : f[t] # g[t]}
  OBVIOUS
<1>2. \A t \in C : IsFiniteSet(t)
  BY <1>1, FS_Subset
<1> SUFFICES ASSUME C # {} PROVE FALSE
  BY <1>1
<1>3. PICK t \in C : \A u \in C : Cardinality(t) <= Cardinality(u)
  BY <1>2, SmallestSet
<1>4. /\ t \in SUBSET S /\ f[t] = IF t = {} THEN 0 ELSE h[Chosen(t)] + f[t \ {Chosen(t)}]
      /\ t \in SUBSET T /\ g[t] = IF t = {} THEN 0 ELSE h[Chosen(t)] + g[t \ {Chosen(t)}]
  BY <1>1 DEF Totals
<1>5. t # {}
  BY <1>1, <1>4
<1>6. t \ {Chosen(t)} \notin C
  <2>1. Cardinality(t \ {Chosen(t)}) < Cardinality(t)
    BY <1>2, <1>5, ChosenIsIn, FewerWithout
  <2>2. Cardinality(t) \in Nat /\ IsFiniteSet(t \ {Chosen(t)})
    BY <1>2, <1>5, ChosenIsIn, FewerWithout, FS_CardinalityType
  <2>3. Cardinality(t \ {Chosen(t)}) \in Nat
    BY <2>2, FS_CardinalityType
  <2> QED
    BY <2>1, <2>2, <2>3, <1>3
<1>7. f[t \ {Chosen(t)}] = g[t \ {Chosen(t)}]
  BY <1>1, <1>6
<1> QED
  BY <1>1, <1>4, <1>5, <1>7

\* Every finite set has its function of sums.
LEMMA TotalsExist ==
  ASSUME NEW h, NEW S, IsFiniteSet(S)
  PROVE  \E f : Totals(h, f, S)
<1>1. PICK C : C = {t \in SUBSET S : ~\E f : Totals(h, f, t)}
  OBVIOUS
<1>2. \A t \in SUBSET S : IsFiniteSet(t)
  BY FS_Subset
<1> SUFFICES ASSUME C # {} PROVE FALSE
  BY <1>1
<1>3. PICK t \in C : \A u \in C : Cardinality(t) <= Cardinality(u)
  BY <1>1, <1>2, SmallestSet
<1>4. \A u \in SUBSET t : u # t => \E f : Totals(h, f, u)
  <2> SUFFICES ASSUME NEW u \in SUBSET t, u # t PROVE u \notin C
    BY <1>1
  <2>1. IsFiniteSet(t) /\ IsFiniteSet(u) /\ Cardinality(t) \in Nat /\ Cardinality(u) \in Nat
    BY <1>1, <1>2, FS_CardinalityType
  <2>2. Cardinality(u) < Cardinality(t)
    BY <2>1, FS_Subset
  <2> QED
    BY <2>1, <2>2, <1>3
<1> DEFINE V(u) == TotalOf(h, u)
           W(u) == IF u = {} THEN 0 ELSE h[Chosen(u)] + V(u \ {Chosen(u)})
<1>5. ASSUME NEW u \in SUBSET t, u # t
      PROVE  V(u) = W(u)
  <2>1. PICK f : f = CHOOSE fn : Totals(h, fn, u)
    OBVIOUS
  <2>2. Totals(h, f, u) /\ V(u) = f[u]
    BY <2>1, <1>4, <1>5 DEF TotalOf
  <2>3. f[u] = IF u = {} THEN 0 ELSE h[Chosen(u)] + f[u \ {Chosen(u)}]
    BY <2>2 DEF Totals
  <2>4. ASSUME u # {}
        PROVE  f[u \ {Chosen(u)}] = V(u \ {Chosen(u)})
    <3> DEFINE w == u \ {Chosen(u)}
    <3>1. w \in SUBSET t /\ w # t /\ w \in SUBSET u /\ IsFiniteSet(w)
      BY <1>1, <1>2, <1>5, <2>4, ChosenIsIn
    <3>2. PICK g : g = CHOOSE fn : Totals(h, fn, w)
      OBVIOUS
    <3>3. Totals(h, g, w) /\ V(w) = g[w]
      BY <3>1, <3>2, <1>4 DEF TotalOf
    <3> QED
      BY <2>2, <3>1, <3>3, TotalsAgree
  <2> QED
    BY <2>2, <2>3, <2>4
<1>6. PICK f : f = [u \in SUBSET t |-> W(u)]
  OBVIOUS
<1>7. \A u \in SUBSET t : u # {} => f[u \ {Chosen(u)}] = V(u \ {Chosen(u)})
  <2> SUFFICES ASSUME NEW u \in SUBSET t, u # {}
               PROVE  f[u \ {Chosen(u)}] = V(u \ {Chosen(u)})
    OBVIOUS
  <2> DEFINE w == u \ {Chosen(u)}
  <2>1. w \in SUBSET t /\ w # t
    BY ChosenIsIn
  <2>2. V(w) = W(w)
    BY <2>1, <1>5
  <2> HIDE DEF w, V, W
  <2>3. f[w] = W(w)
    BY <2>1, <1>6
  <2>4. f[w] = V(w)
    BY <2>2, <2>3
  <2> QED
    BY <2>4 DEF w
<1>8. Totals(h, f, t)
  <2> DEFINE G(u) == IF u = {} THEN 0 ELSE h[Chosen(u)] + f[u \ {Chosen(u)}]
  <2>1. \A u \in SUBSET t : W(u) = G(u)
    BY <1>7
  <2> HIDE DEF W, G
  <2>2. f = [u \in SUBSET t |-> G(u)]
    BY <1>6, <2>1
  <2> QED
    BY <2>2 DEF Totals, G
<1> QED
  BY <1>1, <1>8

-----------------------------------------------------------------------------
(* Sums.                                                                   *)

LEMMA TotalOfNone ==
  ASSUME NEW h
  PROVE  TotalOf(h, {}) = 0
<1>1. PICK f : f = CHOOSE fn : Totals(h, fn, {})
  OBVIOUS
<1>2. Totals(h, f, {})
  BY <1>1, TotalsExist, FS_EmptySet
<1> QED
  BY <1>1, <1>2 DEF TotalOf, Totals

LEMMA TotalUnfolds ==
  ASSUME NEW h, NEW S, IsFiniteSet(S), S # {}
  PROVE  TotalOf(h, S) = h[Chosen(S)] + TotalOf(h, S \ {Chosen(S)})
<1> DEFINE w == S \ {Chosen(S)}
<1>1. PICK f : f = CHOOSE fn : Totals(h, fn, S)
  OBVIOUS
<1>2. Totals(h, f, S) /\ TotalOf(h, S) = f[S]
  BY <1>1, TotalsExist DEF TotalOf
<1>3. PICK g : g = CHOOSE fn : Totals(h, fn, w)
  OBVIOUS
<1>4. IsFiniteSet(w)
  BY FS_Subset
<1>5. Totals(h, g, w) /\ TotalOf(h, w) = g[w]
  BY <1>3, <1>4, TotalsExist DEF TotalOf
<1>6. f[w] = g[w]
  BY <1>2, <1>4, <1>5, TotalsAgree
<1>7. f[S] = h[Chosen(S)] + f[w]
  BY <1>2 DEF Totals
<1> QED
  BY <1>2, <1>5, <1>6, <1>7

LEMMA TotalIsInt ==
  ASSUME NEW h, NEW S, IsFiniteSet(S), \A x \in S : h[x] \in Int
  PROVE  TotalOf(h, S) \in Int
<1>1. PICK C : C = {s \in SUBSET S : TotalOf(h, s) \notin Int}
  OBVIOUS
<1>2. \A s \in SUBSET S : IsFiniteSet(s)
  BY FS_Subset
<1> SUFFICES ASSUME C # {} PROVE FALSE
  BY <1>1
<1>3. PICK s \in C : \A t \in C : Cardinality(s) <= Cardinality(t)
  BY <1>1, <1>2, SmallestSet
<1>4. s # {} /\ s \in SUBSET S /\ IsFiniteSet(s)
  <2>1. TotalOf(h, {}) \in Int
    BY TotalOfNone
  <2> QED
    BY <2>1, <1>1, <1>2
<1>5. Chosen(s) \in s
  BY <1>4, ChosenIsIn
<1>6. TotalOf(h, s \ {Chosen(s)}) \in Int
  <2>1. IsFiniteSet(s \ {Chosen(s)}) /\ Cardinality(s \ {Chosen(s)}) < Cardinality(s)
    BY <1>4, <1>5, FewerWithout
  <2>2. Cardinality(s) \in Nat /\ Cardinality(s \ {Chosen(s)}) \in Nat
    BY <1>4, <2>1, FS_CardinalityType
  <2>3. s \ {Chosen(s)} \notin C
    BY <2>1, <2>2, <1>3
  <2> QED
    BY <2>3, <1>1, <1>4
<1> QED
  BY <1>1, <1>4, <1>5, <1>6, TotalUnfolds

\* The order does not matter: an element more adds what it counts.
LEMMA TotalAdds ==
  ASSUME NEW h, NEW S, IsFiniteSet(S), NEW y, y \notin S, h[y] \in Int,
         \A x \in S : h[x] \in Int
  PROVE  TotalOf(h, S \cup {y}) = TotalOf(h, S) + h[y]
<1> DEFINE U == S \cup {y}
           Adds(s, z) == TotalOf(h, s \cup {z}) = TotalOf(h, s) + h[z]
<1>1. PICK C : C = {s \in SUBSET U : \E z \in U \ s : ~Adds(s, z)}
  OBVIOUS
<1>2. \A s \in SUBSET U : IsFiniteSet(s) /\ TotalOf(h, s) \in Int
  <2> SUFFICES ASSUME NEW s \in SUBSET U PROVE IsFiniteSet(s) /\ TotalOf(h, s) \in Int
    OBVIOUS
  <2>1. IsFiniteSet(s)
    BY FS_Subset, FS_AddElement
  <2>2. \A x \in s : h[x] \in Int
    OBVIOUS
  <2> QED
    BY <2>1, <2>2, TotalIsInt
<1> SUFFICES ASSUME C # {} PROVE FALSE
  <2>1. S \notin C
    OBVIOUS
  <2>2. Adds(S, y)
    BY <2>1, <1>1
  <2> QED
    BY <2>2
<1>3. PICK s \in C : \A t \in C : Cardinality(s) <= Cardinality(t)
  <2>1. \A t \in C : IsFiniteSet(t)
    BY <1>1, <1>2
  <2> QED
    BY <2>1, SmallestSet
<1>4. PICK z \in U \ s : ~Adds(s, z)
  BY <1>1
<1>5. PICK T : T = s \cup {z}
  OBVIOUS
<1>6. PICK x : x = Chosen(T)
  OBVIOUS
<1>7. s \in SUBSET U /\ T \in SUBSET U /\ T # {} /\ x \in T
  BY <1>1, <1>4, <1>5, <1>6, ChosenIsIn
<1>8. IsFiniteSet(s) /\ IsFiniteSet(T) /\ h[x] \in Int /\ h[z] \in Int /\ TotalOf(h, s) \in Int
  BY <1>2, <1>4, <1>7
<1>9. PICK v : v = T \ {x}
  OBVIOUS
<1>10. TotalOf(h, T) = h[x] + TotalOf(h, v)
  BY <1>6, <1>7, <1>8, <1>9, TotalUnfolds
<1>11. TotalOf(h, T) # TotalOf(h, s) + h[z]
  BY <1>4, <1>5
<1>12. x # z
  <2> SUFFICES ASSUME x = z PROVE FALSE
    OBVIOUS
  <2>1. v = s
    BY <1>4, <1>5, <1>9
  <2> QED
    BY <2>1, <1>8, <1>10, <1>11
<1>13. PICK w : w = s \ {x}
  OBVIOUS
<1>14. /\ x \in s /\ v = w \cup {z} /\ w \cup {x} = s
       /\ w \in SUBSET U /\ x \in U \ w /\ z \in U \ w
  BY <1>4, <1>5, <1>7, <1>9, <1>12, <1>13
<1>15. w \notin C
  <2>1. IsFiniteSet(w) /\ Cardinality(w) < Cardinality(s)
    BY <1>8, <1>13, <1>14, FewerWithout
  <2>2. Cardinality(s) \in Nat /\ Cardinality(w) \in Nat
    BY <1>8, <2>1, FS_CardinalityType
  <2> QED
    BY <2>2, <2>1, <1>3
<1>16. Adds(w, z) /\ Adds(w, x) /\ TotalOf(h, w) \in Int
  BY <1>1, <1>2, <1>14, <1>15
<1>17. TotalOf(h, v) = TotalOf(h, w) + h[z] /\ TotalOf(h, s) = TotalOf(h, w) + h[x]
  <2>1. v = w \cup {z} /\ s = w \cup {x}
    BY <1>14
  <2> QED
    BY <2>1, <1>16, Zenon
<1> QED
  BY <1>8, <1>10, <1>11, <1>16, <1>17

\* Functions that agree on a set have the same sum.
LEMMA TotalsOfEquals ==
  ASSUME NEW g, NEW h, NEW S, IsFiniteSet(S), \A x \in S : g[x] = h[x]
  PROVE  TotalOf(g, S) = TotalOf(h, S)
<1>1. PICK f : f = CHOOSE fn : Totals(g, fn, S)
  OBVIOUS
<1>2. Totals(g, f, S) /\ TotalOf(g, S) = f[S]
  BY <1>1, TotalsExist DEF TotalOf
<1>3. Totals(h, f, S)
  <2> DEFINE G(s) == IF s = {} THEN 0 ELSE g[Chosen(s)] + f[s \ {Chosen(s)}]
             H(s) == IF s = {} THEN 0 ELSE h[Chosen(s)] + f[s \ {Chosen(s)}]
  <2>1. \A s \in SUBSET S : G(s) = H(s)
    BY ChosenIsIn
  <2>2. f = [s \in SUBSET S |-> G(s)]
    BY <1>2 DEF Totals
  <2> HIDE DEF G, H
  <2>3. f = [s \in SUBSET S |-> H(s)]
    BY <2>1, <2>2
  <2> QED
    BY <2>3 DEF Totals, H
<1>4. PICK e : e = CHOOSE fn : Totals(h, fn, S)
  OBVIOUS
<1>5. Totals(h, e, S) /\ TotalOf(h, S) = e[S]
  BY <1>4, TotalsExist DEF TotalOf
<1> QED
  BY <1>2, <1>3, <1>5, TotalsAgree

\* One more for one element is one more in all.
LEMMA TotalGrows ==
  ASSUME NEW g, NEW h, NEW S, IsFiniteSet(S), NEW y \in S,
         \A x \in S : h[x] \in Int, g[y] \in Int, \A x \in S \ {y} : g[x] = h[x]
  PROVE  TotalOf(g, S) = TotalOf(h, S) - h[y] + g[y]
<1>1. PICK w : w = S \ {y}
  OBVIOUS
<1>2. IsFiniteSet(w) /\ y \notin w /\ S = w \cup {y} /\ \A x \in w : h[x] \in Int /\ g[x] = h[x]
  BY <1>1, FS_Subset
<1>3. TotalOf(g, w) = TotalOf(h, w) /\ TotalOf(h, w) \in Int
  BY <1>2, TotalsOfEquals, TotalIsInt
<1>4. TotalOf(h, S) = TotalOf(h, w) + h[y]
  BY <1>2, TotalAdds
<1>5. TotalOf(g, S) = TotalOf(g, w) + g[y]
  <2>1. \A x \in w : g[x] \in Int
    BY <1>2
  <2> QED
    BY <2>1, <1>2, TotalAdds
<1> QED
  BY <1>3, <1>4, <1>5

LEMMA TotalIsNat ==
  ASSUME NEW h, NEW S, IsFiniteSet(S), \A x \in S : h[x] \in Nat
  PROVE  TotalOf(h, S) \in Nat
<1>1. PICK C : C = {s \in SUBSET S : TotalOf(h, s) \notin Nat}
  OBVIOUS
<1>2. \A s \in SUBSET S : IsFiniteSet(s)
  BY FS_Subset
<1> SUFFICES ASSUME C # {} PROVE FALSE
  BY <1>1
<1>3. PICK s \in C : \A t \in C : Cardinality(s) <= Cardinality(t)
  BY <1>1, <1>2, SmallestSet
<1>4. s # {} /\ s \in SUBSET S /\ IsFiniteSet(s)
  <2>1. TotalOf(h, {}) \in Nat
    BY TotalOfNone
  <2> QED
    BY <2>1, <1>1, <1>2
<1>5. Chosen(s) \in s
  BY <1>4, ChosenIsIn
<1>6. TotalOf(h, s \ {Chosen(s)}) \in Nat
  <2>1. IsFiniteSet(s \ {Chosen(s)}) /\ Cardinality(s \ {Chosen(s)}) < Cardinality(s)
    BY <1>4, <1>5, FewerWithout
  <2>2. Cardinality(s) \in Nat /\ Cardinality(s \ {Chosen(s)}) \in Nat
    BY <1>4, <2>1, FS_CardinalityType
  <2>3. s \ {Chosen(s)} \notin C
    BY <2>1, <2>2, <1>3
  <2> QED
    BY <2>3, <1>1, <1>4
<1> QED
  BY <1>1, <1>4, <1>5, <1>6, TotalUnfolds

\* Two sets apart have the sum of their sums.
LEMMA TotalOfTwo ==
  ASSUME NEW h, NEW R, NEW S, IsFiniteSet(R), IsFiniteSet(S), R \cap S = {},
         \A x \in R \cup S : h[x] \in Int
  PROVE  TotalOf(h, R \cup S) = TotalOf(h, R) + TotalOf(h, S)
<1> DEFINE Joins(s) == TotalOf(h, R \cup s) = TotalOf(h, R) + TotalOf(h, s)
<1>1. PICK C : C = {s \in SUBSET S : ~Joins(s)}
  OBVIOUS
<1>2. \A s \in SUBSET S : IsFiniteSet(s) /\ IsFiniteSet(R \cup s)
  BY FS_Subset, FS_Union
<1> SUFFICES ASSUME C # {} PROVE FALSE
  <2>1. S \notin C
    OBVIOUS
  <2> QED
    BY <2>1, <1>1
<1>3. PICK s \in C : \A t \in C : Cardinality(s) <= Cardinality(t)
  <2>1. \A t \in C : IsFiniteSet(t)
    BY <1>1, <1>2
  <2> QED
    BY <2>1, SmallestSet
<1>4. s # {} /\ s \in SUBSET S /\ IsFiniteSet(s) /\ ~Joins(s)
  <2>1. R \cup {} = R /\ TotalOf(h, {}) = 0 /\ TotalOf(h, R) \in Int
    BY TotalOfNone, TotalIsInt
  <2>2. TotalOf(h, R) = TotalOf(h, R) + TotalOf(h, {})
    BY <2>1
  <2>3. Joins({})
    BY <2>1, <2>2, Zenon
  <2> QED
    BY <2>3, <1>1, <1>2
<1>5. PICK x \in s : TRUE
  BY <1>4
<1>6. PICK w : w = s \ {x}
  OBVIOUS
<1>7. /\ w \in SUBSET S /\ x \notin w /\ s = w \cup {x} /\ IsFiniteSet(w)
      /\ Cardinality(w) < Cardinality(s)
  BY <1>4, <1>5, <1>6, FewerWithout
<1>8. Joins(w)
  <2>1. Cardinality(s) \in Nat /\ Cardinality(w) \in Nat
    BY <1>4, <1>7, FS_CardinalityType
  <2>2. w \notin C
    BY <2>1, <1>7, <1>3
  <2> QED
    BY <2>2, <1>1, <1>7
<1>9. TotalOf(h, s) = TotalOf(h, w) + h[x]
  <2>1. TotalOf(h, w \cup {x}) = TotalOf(h, w) + h[x]
    BY <1>4, <1>5, <1>7, TotalAdds
  <2> QED
    BY <2>1, <1>7, Zenon
<1>10. TotalOf(h, R \cup s) = TotalOf(h, R \cup w) + h[x]
  <2>1. PICK u : u = R \cup w
    OBVIOUS
  <2>2. IsFiniteSet(u) /\ x \notin u /\ R \cup s = u \cup {x} /\ \A e \in u \cup {x} : h[e] \in Int
    BY <2>1, <1>2, <1>4, <1>5, <1>7
  <2>3. TotalOf(h, u \cup {x}) = TotalOf(h, u) + h[x]
    BY <2>2, TotalAdds
  <2> QED
    BY <2>1, <2>2, <2>3, Zenon
<1>11. /\ TotalOf(h, R) \in Int /\ TotalOf(h, w) \in Int /\ h[x] \in Int
  BY <1>4, <1>5, <1>7, TotalIsInt
<1> QED
  BY <1>4, <1>8, <1>9, <1>10, <1>11

LEMMA TotalOfZeros ==
  ASSUME NEW h, NEW S, IsFiniteSet(S), \A x \in S : h[x] = 0
  PROVE  TotalOf(h, S) = 0
<1>1. PICK C : C = {s \in SUBSET S : TotalOf(h, s) # 0}
  OBVIOUS
<1>2. \A s \in SUBSET S : IsFiniteSet(s)
  BY FS_Subset
<1> SUFFICES ASSUME C # {} PROVE FALSE
  BY <1>1
<1>3. PICK s \in C : \A t \in C : Cardinality(s) <= Cardinality(t)
  BY <1>1, <1>2, SmallestSet
<1>4. s # {} /\ s \in SUBSET S /\ IsFiniteSet(s)
  BY <1>1, <1>2, TotalOfNone
<1>5. Chosen(s) \in s
  BY <1>4, ChosenIsIn
<1>6. TotalOf(h, s \ {Chosen(s)}) = 0
  <2>1. IsFiniteSet(s \ {Chosen(s)}) /\ Cardinality(s \ {Chosen(s)}) < Cardinality(s)
    BY <1>4, <1>5, FewerWithout
  <2>2. Cardinality(s) \in Nat /\ Cardinality(s \ {Chosen(s)}) \in Nat
    BY <1>4, <2>1, FS_CardinalityType
  <2>3. s \ {Chosen(s)} \notin C
    BY <2>1, <2>2, <1>3
  <2> QED
    BY <2>3, <1>1, <1>4
<1> QED
  BY <1>1, <1>4, <1>5, <1>6, TotalUnfolds

\* The community modules' sum is this one.
LEMMA SumIsTotal ==
  ASSUME NEW h, NEW S
  PROVE  MapThenSumSet(LAMBDA x : h[x], S) = TotalOf(h, S)
BY DEF MapThenSumSet, MapThenFoldSet, TotalOf, Totals, Chosen

=============================================================================
