------------------------------ MODULE Shop_proofs ------------------------------
(***************************************************************************)
(* What the proofs about the shop front share: facts about tables, which   *)
(* are sequences of rows, about small sets of rows and of requests, and    *)
(* about the mix of endpoints, which no step changes.                      *)
(***************************************************************************)
EXTENDS Shop, TLAPS, FiniteSetTheorems, SequenceTheorems

---------------------------------------------------------------------------
(* Tables and sets *)

LEMMA AppendRow ==
    ASSUME NEW S, NEW table \in Seq(S), NEW row \in S
    PROVE  /\ Append(table, row) \in Seq(S)
           /\ Len(Append(table, row)) = Len(table) + 1
           /\ DOMAIN Append(table, row) = 1 .. (Len(table) + 1)
           /\ \A i \in 1 .. Len(table) : Append(table, row)[i] = table[i]
           /\ Append(table, row)[Len(table) + 1] = row
BY AppendProperties

LEMMA TableDomain ==
    ASSUME NEW S, NEW table \in Seq(S)
    PROVE  /\ Len(table) \in Nat /\ DOMAIN table = 1 .. Len(table)
           /\ \A i \in DOMAIN table : table[i] \in S
OBVIOUS

LEMMA TableOf ==
    ASSUME NEW S, NEW n \in Nat, NEW f \in [1 .. n -> S]
    PROVE  f \in Seq(S) /\ Len(f) = n /\ DOMAIN f = 1 .. n
OBVIOUS

LEMMA SumBound ==
    ASSUME NEW S, NEW T, IsFiniteSet(S), IsFiniteSet(T)
    PROVE  /\ IsFiniteSet(S \cup T)
           /\ Cardinality(S) \in Nat /\ Cardinality(T) \in Nat /\ Cardinality(S \cup T) \in Nat
           /\ Cardinality(S \cup T) <= Cardinality(S) + Cardinality(T)
<1>1. /\ IsFiniteSet(S \cup T) /\ IsFiniteSet(S \cap T)
      /\ Cardinality(S \cup T) = Cardinality(S) + Cardinality(T) - Cardinality(S \cap T)
  BY FS_Union, FS_Intersection
<1>2. QED
  BY <1>1, FS_CardinalityType

LEMMA SubsetBound ==
    ASSUME NEW S, NEW T, IsFiniteSet(T), S \subseteq T
    PROVE  /\ IsFiniteSet(S)
           /\ Cardinality(S) \in Nat /\ Cardinality(T) \in Nat
           /\ Cardinality(S) <= Cardinality(T)
BY FS_Subset, FS_CardinalityType

\* Two sets of requests that have none in common.
LEMMA ClerksSum ==
    ASSUME NEW S \in SUBSET Clerks, NEW T \in SUBSET Clerks, S \cap T = {}
    PROVE  /\ Cardinality(S) \in Nat /\ Cardinality(T) \in Nat /\ Cardinality(Clerks) \in Nat
           /\ Cardinality(S) + Cardinality(T) <= Cardinality(Clerks)
<1>1. IsFiniteSet(Clerks) /\ IsFiniteSet(S) /\ IsFiniteSet(T)
  BY PartiesAssumption, FS_Subset
<1>0. Cardinality({}) = 0
  BY FS_EmptySet, Zenon
<1>2. Cardinality(S \cap T) = 0
  BY <1>0
<1>3. Cardinality(S \cup T) = Cardinality(S) + Cardinality(T) - Cardinality(S \cap T)
  BY <1>1, FS_Union
<1>4. Cardinality(S \cup T) <= Cardinality(Clerks)
  BY <1>1, FS_Subset
<1>5. QED
  BY <1>1, <1>2, <1>3, <1>4, FS_CardinalityType

\* There is a finite number of requests, and at least one.
LEMMA ClerksCount == Cardinality(Clerks) \in Nat /\ Cardinality(Clerks) >= 1
<1>1. IsFiniteSet(Clerks) /\ Clerks # {}
  BY PartiesAssumption
<1>2. Cardinality(Clerks) \in Nat
  BY <1>1, FS_CardinalityType
<1>3. Cardinality(Clerks) # 0
  BY <1>1, FS_EmptySet
<1>4. QED
  BY <1>2, <1>3

LEMMA OneMore ==
    ASSUME NEW S, NEW x, IsFiniteSet(S)
    PROVE  /\ IsFiniteSet(S \cup {x})
           /\ Cardinality(S) \in Nat /\ Cardinality(S \cup {x}) \in Nat
           /\ Cardinality(S \cup {x}) <= Cardinality(S) + 1
           /\ x \notin S => Cardinality(S \cup {x}) = Cardinality(S) + 1
<1>1. IsFiniteSet(S \cup {x})
  BY FS_AddElement
<1>2. Cardinality(S) \in Nat /\ Cardinality(S \cup {x}) \in Nat
  BY <1>1, FS_CardinalityType
<1>3. Cardinality(S \cup {x}) = IF x \in S THEN Cardinality(S) ELSE Cardinality(S) + 1
  BY FS_AddElement
<1>4. QED
  BY <1>1, <1>2, <1>3

LEMMA AtMostOne ==
    ASSUME NEW S, \A x, y \in S : x = y
    PROVE  Cardinality(S) <= 1
<1>1. CASE S = {}
  <2>1. Cardinality({}) = 0
    BY FS_EmptySet, Zenon
  <2>2. QED
    BY <1>1, <2>1
<1>2. CASE S # {}
  <2>1. PICK x \in S : S = {x}
    BY <1>2
  <2>2. Cardinality({x}) = 1
    BY FS_Singleton
  <2>3. QED
    BY <2>1, <2>2
<1>3. QED
  BY <1>1, <1>2

LEMMA OneElement ==
    ASSUME NEW S, IsFiniteSet(S), Cardinality(S) <= 1, NEW a \in S, NEW b \in S
    PROVE  a = b
<1>1. SUFFICES ASSUME a # b PROVE FALSE
  OBVIOUS
<1>2. IsFiniteSet({a}) /\ Cardinality({a}) = 1
  BY FS_Singleton
<1>3. Cardinality({a} \cup {b}) = 2
  BY <1>1, <1>2, FS_AddElement
<1>4. {a} \cup {b} \subseteq S
  OBVIOUS
<1>5. Cardinality({a} \cup {b}) <= Cardinality(S)
  BY <1>4, FS_Subset
<1>6. Cardinality(S) \in Nat
  BY FS_CardinalityType
<1>7. QED
  BY <1>3, <1>5, <1>6

---------------------------------------------------------------------------
(* Steps of the shop front *)

\* The endpoints in use stay the same.
LEMMA MixStays == Spec => [](inUse \in Mixes)
<1>1. Init => inUse \in Mixes
  BY DEF Init
<1>2. inUse \in Mixes /\ [Next]_shopVars => (inUse \in Mixes)'
  BY DEF Next, shopVars
<1>3. QED
  BY <1>1, <1>2, PTL DEF Spec

================================================================================
