-------------------------- MODULE Positions_proof --------------------------
(* Counting along an order: in a finite set every place of a strict total   *)
(* order is taken by one element.  So Nth enumerates a set of positions and *)
(* Picked has the elements at them, each once and in their order.           *)
EXTENDS Positions, Functions, FiniteSetTheorems, SequenceTheorems, WellFoundedInduction, TLAPS

\* Numbers have a least element.
LEMMA Least ==
    ASSUME NEW T \in SUBSET Nat, T # {}
    PROVE  \E m \in T : \A k \in T : m <= k
<1>1. IsWellFoundedOn(OpToRel(<, Nat), Nat)
  BY NatLessThanWellFounded
<1>2. PICK m \in T : \A k \in T : ~(<<k, m>> \in OpToRel(<, Nat))
  BY <1>1, WFMin
<1>3. \A k \in T : ~(k < m)
  BY <1>2 DEF OpToRel
<1>4. QED
  BY <1>3

IsOrderOn(R, S) ==
    /\ \A x \in S : <<x, x>> \notin R
    /\ \A x, y \in S : x # y => <<x, y>> \in R \/ <<y, x>> \in R
    /\ \A x, y, z \in S : <<x, y>> \in R /\ <<y, z>> \in R => <<x, z>> \in R

Before(R, S, x) == {y \in S : <<y, x>> \in R}

Rank(R, S, x) == Cardinality(Before(R, S, x)) + 1

\* What goes before an element is fewer than all, and fewer than what goes
\* before a later one.
LEMMA RankGrows ==
    ASSUME NEW S, IsFiniteSet(S), NEW R, IsOrderOn(R, S)
    PROVE  /\ \A x \in S : Rank(R, S, x) \in 1 .. Cardinality(S)
           /\ \A x, y \in S : <<x, y>> \in R => Rank(R, S, x) < Rank(R, S, y)
<1>1. \A x : Before(R, S, x) \in SUBSET S
  BY DEF Before
<1>2. \A x : /\ IsFiniteSet(Before(R, S, x))
             /\ Cardinality(Before(R, S, x)) \in Nat
             /\ Cardinality(Before(R, S, x)) <= Cardinality(S)
             /\ Cardinality(Before(R, S, x)) = Cardinality(S) => Before(R, S, x) = S
  <2> TAKE x
  <2>1. /\ IsFiniteSet(Before(R, S, x))
        /\ Cardinality(Before(R, S, x)) <= Cardinality(S)
        /\ Cardinality(Before(R, S, x)) = Cardinality(S) => Before(R, S, x) = S
    BY <1>1, FS_Subset
  <2> QED
    BY <2>1, FS_CardinalityType
<1>3. Cardinality(S) \in Nat
  BY FS_CardinalityType
<1>4. ASSUME NEW x \in S PROVE Rank(R, S, x) \in 1 .. Cardinality(S)
  <2>1. x \notin Before(R, S, x)
    BY DEF Before, IsOrderOn
  <2>2. Cardinality(Before(R, S, x)) # Cardinality(S)
    BY <1>2, <2>1
  <2> QED
    BY <1>2, <1>3, <2>2 DEF Rank
<1>5. ASSUME NEW x \in S, NEW y \in S, <<x, y>> \in R
      PROVE  Rank(R, S, x) < Rank(R, S, y)
  <2>1. Before(R, S, x) \in SUBSET Before(R, S, y)
    BY <1>5, Zenon DEF Before, IsOrderOn
  <2>2. x \in Before(R, S, y) /\ x \notin Before(R, S, x)
    BY <1>5, Zenon DEF Before, IsOrderOn
  <2>3. /\ Cardinality(Before(R, S, x)) <= Cardinality(Before(R, S, y))
        /\ Cardinality(Before(R, S, x)) # Cardinality(Before(R, S, y))
    BY <1>2, <2>1, <2>2, FS_Subset
  <2> QED
    BY <1>2, <2>3 DEF Rank
<1> QED
  BY <1>4, <1>5

\* Every place is taken, by one element.
LEMMA Ranks ==
    ASSUME NEW S, IsFiniteSet(S), NEW R, IsOrderOn(R, S)
    PROVE  /\ \A x, y \in S : Rank(R, S, x) = Rank(R, S, y) => x = y
           /\ \A k \in 1 .. Cardinality(S) : \E x \in S : Rank(R, S, x) = k
<1> DEFINE f == [x \in S |-> Rank(R, S, x)]
           T == 1 .. Cardinality(S)
<1>1. Cardinality(S) \in Nat
  BY FS_CardinalityType
<1>2. \A x, y \in S : Rank(R, S, x) = Rank(R, S, y) => x = y
  <2> SUFFICES ASSUME NEW x \in S, NEW y \in S, x # y
               PROVE  Rank(R, S, x) # Rank(R, S, y)
    OBVIOUS
  <2>1. <<x, y>> \in R \/ <<y, x>> \in R
    BY DEF IsOrderOn
  <2>2. Rank(R, S, x) \in Nat /\ Rank(R, S, y) \in Nat
    BY <1>1, RankGrows
  <2>3. Rank(R, S, x) < Rank(R, S, y) \/ Rank(R, S, y) < Rank(R, S, x)
    BY <2>1, RankGrows
  <2> QED
    BY <2>2, <2>3
<1>3. f \in [S -> T]
  BY RankGrows
<1>4. f \in Injection(S, T)
  BY <1>2, <1>3 DEF Injection, IsInjective
<1>5. IsFiniteSet(T) /\ Cardinality(T) = Cardinality(S)
  <2>1. 1 \in Int /\ Cardinality(S) \in Int
    BY <1>1
  <2>2. /\ IsFiniteSet(T)
        /\ Cardinality(T) = IF 1 > Cardinality(S) THEN 0 ELSE Cardinality(S) - 1 + 1
    BY <2>1, FS_Interval
  <2> QED
    BY <1>1, <2>2
<1>6. f \in Surjection(S, T)
  <2> HIDE DEF f, T
  <2> QED
    BY <1>4, <1>5, FS_Injection
<1>7. \A k \in T : \E x \in S : f[x] = k
  <2> HIDE DEF f, T
  <2> QED
    BY <1>6 DEF Surjection
<1> QED
  BY <1>2, <1>7

\* One place at a time.
LEMMA RankTaken ==
    ASSUME NEW S, IsFiniteSet(S), NEW R, IsOrderOn(R, S), NEW k \in 1 .. Cardinality(S)
    PROVE  \E x \in S : Rank(R, S, x) = k
<1>1. \A l \in 1 .. Cardinality(S) : \E x \in S : Rank(R, S, x) = l
  BY Ranks
<1> QED
  BY <1>1

-----------------------------------------------------------------------------
(* Positions of a list. *)

\* In any set of numbers: the one with k - 1 below it has rank k.
LEMMA NthByRank ==
    ASSUME NEW P, IsFiniteSet(P), NEW R, IsOrderOn(R, P),
           \A i \in P : {j \in P : j < i} = Before(R, P, i),
           NEW k \in 1 .. Cardinality(P)
    PROVE  Nth(P, k) \in P /\ Rank(R, P, Nth(P, k)) = k
<1>1. Cardinality(P) \in Nat
  BY FS_CardinalityType
<1>2. ASSUME NEW i \in P PROVE Cardinality(Before(R, P, i)) \in Nat
  <2>1. Before(R, P, i) \in SUBSET P
    BY DEF Before
  <2>2. IsFiniteSet(Before(R, P, i))
    BY <2>1, FS_Subset
  <2> QED
    BY <2>2, FS_CardinalityType
<1>3. PICK i \in P : Rank(R, P, i) = k
  BY RankTaken
<1>4. Cardinality(Before(R, P, i)) = k - 1
  BY <1>1, <1>2, <1>3 DEF Rank
<1>5. Cardinality({j \in P : j < i}) = k - 1
  BY <1>4, Zenon
<1>6. Nth(P, k) \in P /\ Cardinality({j \in P : j < Nth(P, k)}) = k - 1
  BY <1>5, Zenon DEF Nth
<1>7. Cardinality(Before(R, P, Nth(P, k))) = k - 1
  BY <1>6, Zenon
<1> QED
  BY <1>1, <1>2, <1>6, <1>7 DEF Rank

\* Numbers are in their order.
LEMMA NthIsNth ==
    ASSUME NEW n \in Nat, NEW P \in SUBSET (1 .. n)
    PROVE  /\ IsFiniteSet(P) /\ Cardinality(P) \in Nat
           /\ \A k \in 1 .. Cardinality(P) : Nth(P, k) \in P
           /\ \A i \in P : \E k \in 1 .. Cardinality(P) : Nth(P, k) = i
           /\ \A k, l \in 1 .. Cardinality(P) : k < l => Nth(P, k) < Nth(P, l)
           /\ \A k, l \in 1 .. Cardinality(P) : Nth(P, k) = Nth(P, l) => k = l
<1>1. \A i \in P : i \in Nat
  OBVIOUS
<1>2. IsFiniteSet(P) /\ Cardinality(P) \in Nat
  <2>1. IsFiniteSet(1 .. n)
    BY FS_Interval
  <2>2. IsFiniteSet(P)
    BY <2>1, FS_Subset
  <2> QED
    BY <2>2, FS_CardinalityType
<1>3. PICK R : \A i, j \in P : <<i, j>> \in R <=> i < j
  <2> DEFINE R == {p \in P \X P : p[1] < p[2]}
  <2>1. \A i, j \in P : <<i, j>> \in R <=> i < j
    OBVIOUS
  <2> QED
    BY <2>1
<1>4. IsOrderOn(R, P)
  BY <1>1, <1>3 DEF IsOrderOn
<1>5. \A i \in P : {j \in P : j < i} = Before(R, P, i)
  BY <1>3 DEF Before
<1>7. ASSUME NEW k \in 1 .. Cardinality(P)
      PROVE  Nth(P, k) \in P /\ Rank(R, P, Nth(P, k)) = k
  BY <1>2, <1>4, <1>5, NthByRank, Zenon
<1>8. ASSUME NEW i \in P PROVE \E k \in 1 .. Cardinality(P) : Nth(P, k) = i
  <2> DEFINE k == Rank(R, P, i)
  <2>1. k \in 1 .. Cardinality(P)
    BY <1>2, <1>4, RankGrows
  <2>2. Nth(P, k) \in P /\ Rank(R, P, Nth(P, k)) = k
    BY <1>7, <2>1
  <2>3. Nth(P, k) = i
    BY <1>2, <1>4, <2>2, Ranks
  <2> QED
    BY <2>1, <2>3
<1>9. ASSUME NEW k \in 1 .. Cardinality(P), NEW l \in 1 .. Cardinality(P), k < l
      PROVE  Nth(P, k) < Nth(P, l)
  <2>1. /\ Nth(P, k) \in P /\ Rank(R, P, Nth(P, k)) = k
        /\ Nth(P, l) \in P /\ Rank(R, P, Nth(P, l)) = l
    BY <1>7
  <2>2. Nth(P, k) # Nth(P, l)
    BY <1>2, <1>9, <2>1
  <2>3. ~(Nth(P, l) < Nth(P, k))
    <3> SUFFICES ASSUME Nth(P, l) < Nth(P, k) PROVE FALSE
      OBVIOUS
    <3>1. Rank(R, P, Nth(P, l)) < Rank(R, P, Nth(P, k))
      BY <1>2, <1>3, <1>4, <2>1, RankGrows
    <3> QED
      BY <1>2, <1>9, <2>1, <3>1
  <2>4. Nth(P, k) \in Nat /\ Nth(P, l) \in Nat
    BY <1>1, <2>1, Zenon
  <2> QED
    BY <2>2, <2>3, <2>4
<1>10. ASSUME NEW k \in 1 .. Cardinality(P), NEW l \in 1 .. Cardinality(P),
              Nth(P, k) = Nth(P, l)
       PROVE  k = l
  BY <1>7, <1>10
<1> QED
  BY <1>2, <1>7, <1>8, <1>9, <1>10

\* The list of the elements picked, and its elements.
LEMMA PickedIsList ==
    ASSUME NEW S, NEW s, NEW n \in Nat, NEW P \in SUBSET (1 .. n),
           \A i \in P : s[i] \in S
    PROVE  /\ Picked(s, P) \in Seq(S)
           /\ Len(Picked(s, P)) = Cardinality(P)
<1>1. /\ Cardinality(P) \in Nat
      /\ \A k \in 1 .. Cardinality(P) : Nth(P, k) \in P
  BY NthIsNth
<1>2. \A k \in 1 .. Cardinality(P) : s[Nth(P, k)] \in S
  BY <1>1
<1> QED
  BY <1>1, <1>2 DEF Picked

\* What is picked, place by place.
LEMMA PickedAt ==
    ASSUME NEW s, NEW P
    PROVE  /\ DOMAIN Picked(s, P) = 1 .. Cardinality(P)
           /\ \A k \in 1 .. Cardinality(P) : Picked(s, P)[k] = s[Nth(P, k)]
BY DEF Picked

\* As a set it is what stands at the positions.
LEMMA PickedElements ==
    ASSUME NEW s, NEW n \in Nat, NEW P \in SUBSET (1 .. n)
    PROVE  Range(Picked(s, P)) = {s[i] : i \in P}
<1>1. /\ \A k \in 1 .. Cardinality(P) : Nth(P, k) \in P
      /\ \A i \in P : \E k \in 1 .. Cardinality(P) : Nth(P, k) = i
  BY NthIsNth
<1>2. \A k \in 1 .. Cardinality(P) : Picked(s, P)[k] \in {s[i] : i \in P}
  <2> TAKE k \in 1 .. Cardinality(P)
  <2>1. Picked(s, P)[k] = s[Nth(P, k)] /\ Nth(P, k) \in P
    BY <1>1, PickedAt
  <2> QED
    BY <2>1
<1>3. \A i \in P : \E k \in 1 .. Cardinality(P) : Picked(s, P)[k] = s[i]
  BY <1>1, PickedAt
<1> QED
  BY <1>2, <1>3, PickedAt DEF Range

\* Of some of the positions as many are picked as there are.
LEMMA PickedCount ==
    ASSUME NEW n \in Nat, NEW P \in SUBSET (1 .. n), NEW T \in SUBSET P
    PROVE  Cardinality({k \in 1 .. Cardinality(P) : Nth(P, k) \in T}) = Cardinality(T)
<1> DEFINE K == {k \in 1 .. Cardinality(P) : Nth(P, k) \in T}
           f == [k \in K |-> Nth(P, k)]
<1>1. /\ Cardinality(P) \in Nat
      /\ \A k \in 1 .. Cardinality(P) : Nth(P, k) \in P
      /\ \A i \in P : \E k \in 1 .. Cardinality(P) : Nth(P, k) = i
      /\ \A k, l \in 1 .. Cardinality(P) : Nth(P, k) = Nth(P, l) => k = l
  BY NthIsNth
<1>2. f \in [K -> T]
  OBVIOUS
<1>3. \A i \in T : \E k \in K : f[k] = i
  BY <1>1
<1>4. \A k, l \in K : f[k] = f[l] => k = l
  BY <1>1
<1>5. IsFiniteSet(K)
  <2>1. IsFiniteSet(1 .. Cardinality(P))
    BY <1>1, FS_Interval
  <2>2. K \in SUBSET (1 .. Cardinality(P))
    BY Zenon
  <2> HIDE DEF K
  <2> QED
    BY <2>1, <2>2, FS_Subset
<1>6. f \in Bijection(K, T)
  <2> HIDE DEF f, K
  <2> QED
    BY <1>2, <1>3, <1>4 DEF Bijection, Injection, IsInjective, Surjection
<1>7. ExistsBijection(K, T)
  <2> HIDE DEF f, K
  <2> QED
    BY <1>6 DEF ExistsBijection
<1> HIDE DEF K
<1>8. Cardinality(T) = Cardinality(K)
  BY <1>5, <1>7, FS_Bijection
<1> QED
  BY <1>8 DEF K
=============================================================================
