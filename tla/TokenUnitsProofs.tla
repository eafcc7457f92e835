--------------------------- MODULE TokenUnitsProofs ---------------------------
(***************************************************************************)
(* What the total of a balance sheet is and how it moves when one balance  *)
(* changes.  Everything the proofs of the token-moving programs need of a  *)
(* sum is in TotalIsNat and TotalUpdate.                                   *)
(***************************************************************************)
EXTENDS TokenUnits, FiniteSetTheorems, TLAPS

\* An owner of n units has exactly n units.
LEMMA UnitsOfCardinality ==
  ASSUME NEW o, NEW n \in Nat
  PROVE  IsFiniteSet(UnitsOf(o, n)) /\ Cardinality(UnitsOf(o, n)) = n
<1>1. IsFiniteSet({o}) /\ Cardinality({o}) = 1
  BY FS_Singleton
<1>2. IsFiniteSet(1 .. n) /\ Cardinality(1 .. n) = n
  BY FS_Interval
<1>3. /\ IsFiniteSet({o} \X (1 .. n))
      /\ Cardinality({o} \X (1 .. n)) = Cardinality({o}) * Cardinality(1 .. n)
  BY <1>1, <1>2, FS_Product, Zenon
<1>4. Cardinality({o}) * Cardinality(1 .. n) = n
  BY <1>1, <1>2
<1> QED
  BY <1>3, <1>4 DEF UnitsOf

\* Finitely many owners hold finitely many units.
LEMMA UnitsFinite ==
  ASSUME NEW S, IsFiniteSet(S), NEW f \in [S -> Nat]
  PROVE  IsFiniteSet(Units(f))
<1> DEFINE piles == {UnitsOf(o, f[o]) : o \in S}
           pile  == [o \in S |-> UnitsOf(o, f[o])]
<1>1. pile \in Surjection(S, piles)
  BY DEF Surjection
<1>2. IsFiniteSet(piles)
  BY <1>1, FS_Surjection
<1>3. \A T \in piles : IsFiniteSet(T)
  BY UnitsOfCardinality
<1>4. IsFiniteSet(UNION piles)
  BY <1>2, <1>3, FS_UNION
<1> QED
  BY <1>4 DEF Units

\* The total is a natural number.
LEMMA TotalIsNat ==
  ASSUME NEW S, IsFiniteSet(S), NEW f \in [S -> Nat]
  PROVE  Total(f) \in Nat
BY UnitsFinite, FS_CardinalityType DEF Total

\* Two balance sheets that agree everywhere but at x: their totals, without
\* the pile of x, are the same.
LEMMA TotalWithout ==
  ASSUME NEW S, IsFiniteSet(S), NEW f \in [S -> Nat], NEW x \in S
  PROVE  LET rest == UNION {UnitsOf(o, f[o]) : o \in S \ {x}}
         IN  IsFiniteSet(rest) /\ Total(f) = Cardinality(rest) + f[x]
<1> DEFINE rest == UNION {UnitsOf(o, f[o]) : o \in S \ {x}}
           mine == UnitsOf(x, f[x])
<1>1. Units(f) = rest \cup mine
  BY DEF Units
<1>2. rest \cap mine = {}
  BY DEF UnitsOf
<1>3. IsFiniteSet(Units(f))
  BY UnitsFinite
<1>4. rest \in SUBSET Units(f)
  BY <1>1
<1>5. IsFiniteSet(rest)
  BY <1>3, <1>4, FS_Subset
<1>6. IsFiniteSet(mine) /\ Cardinality(mine) = f[x]
  BY UnitsOfCardinality
<1>7. Cardinality(rest \cup mine) =
        Cardinality(rest) + Cardinality(mine) - Cardinality(rest \cap mine)
  BY <1>5, <1>6, FS_Union
<1>8. Cardinality(rest \cap mine) = 0
  BY <1>2, FS_EmptySet
<1>9. Cardinality(rest) \in Nat
  BY <1>5, FS_CardinalityType
<1> QED
  BY <1>1, <1>5, <1>6, <1>7, <1>8, <1>9 DEF Total

\* Changing the balance of x moves the total by what x gained or lost.
THEOREM TotalUpdate ==
  ASSUME NEW S, IsFiniteSet(S), NEW f \in [S -> Nat], NEW x \in S, NEW v \in Nat
  PROVE  Total([f EXCEPT ![x] = v]) = Total(f) - f[x] + v
<1> DEFINE g     == [f EXCEPT ![x] = v]
           restF == UNION {UnitsOf(o, f[o]) : o \in S \ {x}}
           restG == UNION {UnitsOf(o, g[o]) : o \in S \ {x}}
<1>1. g \in [S -> Nat] /\ g[x] = v
  OBVIOUS
<1>2. \A o \in S \ {x} : g[o] = f[o]
  OBVIOUS
<1>3. restF = restG
  BY <1>2
<1>4. IsFiniteSet(restF) /\ Total(f) = Cardinality(restF) + f[x]
  BY TotalWithout
<1>5. Total(g) = Cardinality(restG) + g[x]
  BY <1>1, TotalWithout
<1>6. Cardinality(restF) \in Nat /\ f[x] \in Nat
  BY <1>4, FS_CardinalityType
<1> HIDE DEF g, restF, restG
<1> QED
  BY <1>1, <1>3, <1>4, <1>5, <1>6 DEF g

\* A total of zero leaves every balance at zero.
LEMMA TotalZero ==
  ASSUME NEW S, IsFiniteSet(S), NEW f \in [S -> Nat], Total(f) = 0, NEW x \in S
  PROVE  f[x] = 0
<1> DEFINE rest == UNION {UnitsOf(o, f[o]) : o \in S \ {x}}
<1>1. IsFiniteSet(rest) /\ Total(f) = Cardinality(rest) + f[x]
  BY TotalWithout
<1>2. Cardinality(rest) \in Nat /\ f[x] \in Nat
  BY <1>1, FS_CardinalityType
<1> QED
  BY <1>1, <1>2

\* If every owner holds the same, the total is their number times that.
LEMMA TotalConstant ==
  ASSUME NEW S, IsFiniteSet(S), NEW f \in [S -> Nat], NEW c \in Nat, \A o \in S : f[o] = c
  PROVE  Total(f) = Cardinality(S) * c
<1>1. Units(f) = S \X (1 .. c)
  BY DEF Units, UnitsOf
<1>2. IsFiniteSet(1 .. c) /\ Cardinality(1 .. c) = c
  BY FS_Interval
<1>3. Cardinality(S \X (1 .. c)) = Cardinality(S) * Cardinality(1 .. c)
  BY <1>2, FS_Product, Zenon
<1> QED
  BY <1>1, <1>2, <1>3 DEF Total

\* If only the owners in B hold anything, and none more than cap, the total is
\* at most their number times cap.
THEOREM TotalBound ==
  ASSUME NEW S, IsFiniteSet(S), NEW f \in [S -> Nat], NEW cap \in Nat,
         NEW B \in SUBSET S,
         \A o \in S : f[o] <= cap,
         \A o \in S \ B : f[o] = 0
  PROVE  /\ IsFiniteSet(B)
         /\ Cardinality(B) \in Nat
         /\ Total(f) <= Cardinality(B) * cap
<1>1. IsFiniteSet(B) /\ Cardinality(B) \in Nat
  BY FS_Subset, FS_CardinalityType
<1>2. IsFiniteSet(1 .. cap) /\ Cardinality(1 .. cap) = cap
  BY FS_Interval
<1>3. /\ IsFiniteSet(B \X (1 .. cap))
      /\ Cardinality(B \X (1 .. cap)) = Cardinality(B) * Cardinality(1 .. cap)
  BY <1>1, <1>2, FS_Product, Zenon
<1>4. Units(f) \in SUBSET (B \X (1 .. cap))
  <2> SUFFICES ASSUME NEW o \in S, NEW u \in UnitsOf(o, f[o])
               PROVE  u \in B \X (1 .. cap)
    BY DEF Units
  <2>1. PICK k \in 1 .. f[o] : u = <<o, k>>
    BY DEF UnitsOf
  <2>2. o \in B
    BY <2>1
  <2>3. k \in 1 .. cap
    BY <2>1
  <2> QED
    BY <2>1, <2>2, <2>3
<1>5. Cardinality(Units(f)) <= Cardinality(B \X (1 .. cap))
  BY <1>3, <1>4, FS_Subset
<1> QED
  BY <1>1, <1>2, <1>3, <1>5 DEF Total
===============================================================================
