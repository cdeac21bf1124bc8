--------------------------- MODULE Display_proof ---------------------------
(* What the builder's functions return, for any fleet: the elements of the  *)
(* lists a key walks through, the views its presses produce, the agents the *)
(* keys show.  Then the view state under any sequence of presses and        *)
(* snapshots, and the panel's board under any sequence of frames, clicks,   *)
(* keys and snapshots.                                                      *)
EXTENDS Navigation, Panel, Positions_proof

\* The labels K13 walks through are labels of agents, and none is the empty
\* one.
LEMMA SpacesTyped ==
    ASSUME NEW sn, IsSnapshot(sn)
    PROVE  UniqueSpaces(sn) \in Seq(Spaces)
<1> DEFINE as == sn.agents
           labels == [i \in DOMAIN as |-> as[i].space]
           P == FirstPlaces(as)
<1>1. /\ Len(as) \in Nat /\ DOMAIN as = 1 .. Len(as)
      /\ \A i \in DOMAIN as : as[i].space \in Spaces \cup {None}
  BY DEF IsSnapshot
<1>2. P \in SUBSET (1 .. Len(as))
  BY <1>1, Zenon DEF FirstPlaces
<1>3. \A i \in P : labels[i] \in Spaces
  BY <1>1 DEF FirstPlaces
<1> HIDE DEF P, labels
<1>4. Picked(labels, P) \in Seq(Spaces)
  BY <1>1, <1>2, <1>3, PickedIsList
<1> QED
  BY <1>4 DEF UniqueSpaces, P, labels

\* The list positions start at 1; 0 is for what the list does not have.
LEMMA IndexTyped ==
    ASSUME NEW S, NEW list \in Seq(S), NEW x
    PROVE  IndexIn(list, x) \in 0 .. Len(list)
<1>1. CASE x \notin Range(list)
  BY <1>1 DEF IndexIn
<1>2. CASE x \in Range(list)
  <2> DEFINE T == {i \in DOMAIN list : list[i] = x}
  <2>1. \A i \in DOMAIN list : i \in Nat
    OBVIOUS
  <2>2. T \in SUBSET Nat /\ T # {}
    BY <1>2, <2>1, Zenon DEF Range
  <2>3. PICK m \in T : \A k \in T : m <= k
    <3> HIDE DEF T
    <3>1. QED
      BY <2>2, Least
  <2>4. m \in DOMAIN list /\ list[m] = x
    BY Zenon
  <2>5. \A j \in 1 .. m - 1 : ~(m <= j) /\ j \in DOMAIN list
    BY <2>4
  <2>6. \A j \in 1 .. m - 1 : list[j] # x
    BY <2>3, <2>5, Zenon
  <2>7. IndexIn(list, x) \in DOMAIN list
    BY <1>2, <2>4, <2>6, Zenon DEF IndexIn
  <2>8. QED
    BY <2>7
<1>3. QED
  BY <1>1, <1>2

\* The element after another is one of the list.
LEMMA AfterIsElement ==
    ASSUME NEW S, NEW list \in Seq(S), Len(list) # 0, NEW x
    PROVE  After(list, x) \in Range(list) /\ After(list, x) \in S
<1> DEFINE i == IndexIn(list, x)
<1>1. i \in 0 .. Len(list)
  BY IndexTyped
<1> HIDE DEF i
<1>2. (i % Len(list)) + 1 \in 1 .. Len(list)
  BY <1>1
<1>3. After(list, x) = list[(i % Len(list)) + 1]
  BY DEF After, i
<1>4. QED
  BY <1>2, <1>3 DEF Range

-----------------------------------------------------------------------------
(* The agents on the keys. *)

\* What the sort reads of an agent.
IsAgent(a) == a.machine \in Machines /\ a.status \in Statuses

\* The comparison orders the agents, equal ones apart.
LEMMA LessOrders ==
    ASSUME NEW a, NEW b, NEW c, IsAgent(a), IsAgent(b), IsAgent(c)
    PROVE  /\ ~LessAgent(a, a)
           /\ LessAgent(a, b) => ~LessAgent(b, a)
           /\ LessAgent(a, b) /\ LessAgent(b, c) => LessAgent(a, c)
           /\ ~LessAgent(b, a) /\ ~LessAgent(c, b) => ~LessAgent(c, a)
<1> DEFINE p(x) == StatusPriority[x.status]
           n(x) == NameRank[x.machine]
<1>1. \A x : IsAgent(x) => p(x) \in Nat /\ n(x) \in Nat
  BY NamesAssumption DEF IsAgent, Statuses, StatusPriority
<1>2. \A x, y : LessAgent(x, y) <=> p(x) < p(y) \/ (p(x) = p(y) /\ n(x) < n(y))
  BY DEF LessAgent
<1> HIDE DEF p, n
<1>3. p(a) \in Nat /\ n(a) \in Nat /\ p(b) \in Nat /\ n(b) \in Nat
      /\ p(c) \in Nat /\ n(c) \in Nat
  BY <1>1
<1> QED
  BY <1>2, <1>3

\* The positions of a list of agents, in the order of the sort: a total one,
\* since the position decides between equals.
LEMMA GoesOrders ==
    ASSUME NEW F, NEW n \in Nat, \A i \in 1 .. n : IsAgent(F[i]),
           NEW R, \A i, j \in 1 .. n : <<i, j>> \in R <=> Goes(F, i, j)
    PROVE  IsOrderOn(R, 1 .. n)
<1>1. \A i \in 1 .. n : i \in Nat
  OBVIOUS
<1>2. \A i, j \in 1 .. n : <<i, j>> \in R <=>
          \/ LessAgent(F[i], F[j])
          \/ ~LessAgent(F[j], F[i]) /\ i < j
  BY DEF Goes
<1>3. \A i \in 1 .. n : <<i, i>> \notin R
  BY <1>1, <1>2, LessOrders
<1>4. ASSUME NEW i \in 1 .. n, NEW j \in 1 .. n, i # j
      PROVE  <<i, j>> \in R \/ <<j, i>> \in R
  <2>1. i < j \/ j < i
    BY <1>4
  <2> QED
    BY <1>2, <2>1
<1>5. ASSUME NEW i \in 1 .. n, NEW j \in 1 .. n, NEW k \in 1 .. n,
             <<i, j>> \in R, <<j, k>> \in R
      PROVE  <<i, k>> \in R
  <2>1. /\ IsAgent(F[i]) /\ IsAgent(F[j]) /\ IsAgent(F[k])
        /\ i \in Nat /\ j \in Nat /\ k \in Nat
    OBVIOUS
  <2> DEFINE a == F[i]
             b == F[j]
             c == F[k]
  <2>2. /\ \/ LessAgent(a, b)
           \/ ~LessAgent(b, a) /\ i < j
        /\ \/ LessAgent(b, c)
           \/ ~LessAgent(c, b) /\ j < k
        /\ LessAgent(a, c) => <<i, k>> \in R
        /\ ~LessAgent(c, a) /\ i < k => <<i, k>> \in R
    BY <1>2, <1>5
  <2>3. i < j /\ j < k => i < k
    BY <2>1
  <2>4. /\ LessAgent(a, b) => ~LessAgent(b, a)
        /\ LessAgent(b, c) => ~LessAgent(c, b)
        /\ LessAgent(a, b) /\ LessAgent(b, c) => LessAgent(a, c)
        /\ LessAgent(a, c) => ~LessAgent(c, a)
        /\ ~LessAgent(b, a) /\ ~LessAgent(c, b) => ~LessAgent(c, a)
        /\ ~LessAgent(c, b) /\ ~LessAgent(a, c) => ~LessAgent(a, b)
        /\ ~LessAgent(a, c) /\ ~LessAgent(b, a) => ~LessAgent(b, c)
    BY <2>1, LessOrders
  <2> HIDE DEF a, b, c
  <2> QED
    BY <2>2, <2>3, <2>4
<1> QED
  BY <1>3, <1>4, <1>5 DEF IsOrderOn

\* The position that comes k-th.
SortedAt(F, D, k) ==
    CHOOSE i \in D : Cardinality({j \in D : Goes(F, j, i)}) = k - 1

\* In a linear order the position that comes k-th is the one of rank k.
LEMMA SortedByRank ==
    ASSUME NEW F, NEW D, IsFiniteSet(D), NEW R, IsOrderOn(R, D),
           \A i \in D : {j \in D : Goes(F, j, i)} = Before(R, D, i),
           NEW k \in 1 .. Cardinality(D)
    PROVE  SortedAt(F, D, k) \in D /\ Rank(R, D, SortedAt(F, D, k)) = k
<1>1. Cardinality(D) \in Nat
  BY FS_CardinalityType
<1>2. ASSUME NEW i \in D PROVE Cardinality(Before(R, D, i)) \in Nat
  <2>1. Before(R, D, i) \in SUBSET D
    BY DEF Before
  <2>2. IsFiniteSet(Before(R, D, i))
    BY <2>1, FS_Subset
  <2> QED
    BY <2>2, FS_CardinalityType
<1>3. PICK i \in D : Rank(R, D, i) = k
  BY RankTaken
<1>4. Cardinality(Before(R, D, i)) = k - 1
  BY <1>1, <1>2, <1>3 DEF Rank
<1>5. Cardinality({j \in D : Goes(F, j, i)}) = k - 1
  BY <1>4, Zenon
<1>6. /\ SortedAt(F, D, k) \in D
      /\ Cardinality({j \in D : Goes(F, j, SortedAt(F, D, k))}) = k - 1
  BY <1>5, Zenon DEF SortedAt
<1>7. Cardinality(Before(R, D, SortedAt(F, D, k))) = k - 1
  BY <1>6, Zenon
<1> QED
  BY <1>1, <1>2, <1>6, <1>7 DEF Rank

\* Sorting puts every agent at one place, and none before a more urgent one.
LEMMA Sorted ==
    ASSUME NEW F, NEW n \in Nat, DOMAIN F = 1 .. n, \A i \in 1 .. n : IsAgent(F[i])
    PROVE  /\ DOMAIN SortAgents(F) = 1 .. n
           /\ \A k \in 1 .. n : /\ SortedAt(F, 1 .. n, k) \in 1 .. n
                                /\ SortAgents(F)[k] = F[SortedAt(F, 1 .. n, k)]
           /\ \A i \in 1 .. n : \E k \in 1 .. n : SortedAt(F, 1 .. n, k) = i
           /\ \A k, l \in 1 .. n : k < l =>
                 ~LessAgent(SortAgents(F)[l], SortAgents(F)[k])
<1> DEFINE D == 1 .. n
           at(k) == SortedAt(F, D, k)
<1>1. PICK R : \A i, j \in D : <<i, j>> \in R <=> Goes(F, i, j)
  <2> DEFINE R == {p \in D \X D : Goes(F, p[1], p[2])}
  <2>1. \A i, j \in D : <<i, j>> \in R <=> Goes(F, i, j)
    OBVIOUS
  <2> QED
    BY <2>1
<1>2. IsOrderOn(R, D)
  BY <1>1, GoesOrders
<1>3. IsFiniteSet(D) /\ Cardinality(D) = n
  <2>1. 1 \in Int /\ n \in Int
    OBVIOUS
  <2>2. IsFiniteSet(D) /\ Cardinality(D) = IF 1 > n THEN 0 ELSE n - 1 + 1
    BY <2>1, FS_Interval
  <2> QED
    BY <2>2
<1>4. \A i \in D : {j \in D : Goes(F, j, i)} = Before(R, D, i)
  BY <1>1 DEF Before
<1>5. \A k \in D : at(k) \in D /\ Rank(R, D, at(k)) = k
  <2> HIDE DEF D
  <2>1. \A k \in 1 .. Cardinality(D) : at(k) \in D /\ Rank(R, D, at(k)) = k
    BY <1>2, <1>3, <1>4, SortedByRank
  <2> QED
    BY <1>3, <2>1 DEF D
<1>6. \A k \in D : SortAgents(F)[k] = F[at(k)]
  BY DEF SortAgents, SortedAt
<1>7. DOMAIN SortAgents(F) = D
  BY DEF SortAgents
<1>8. ASSUME NEW i \in D PROVE \E k \in D : at(k) = i
  <2>1. Rank(R, D, i) \in D
    BY <1>2, <1>3, RankGrows
  <2>2. at(Rank(R, D, i)) \in D /\ Rank(R, D, at(Rank(R, D, i))) = Rank(R, D, i)
    BY <1>5, <2>1
  <2>3. at(Rank(R, D, i)) = i
    BY <1>2, <1>3, <2>2, Ranks
  <2> QED
    BY <2>1, <2>3
<1>9. ASSUME NEW k \in D, NEW l \in D, k < l
      PROVE  ~LessAgent(SortAgents(F)[l], SortAgents(F)[k])
  <2>1. /\ at(k) \in D /\ Rank(R, D, at(k)) = k
        /\ at(l) \in D /\ Rank(R, D, at(l)) = l
    BY <1>5
  <2>2. <<at(l), at(k)>> \notin R
    <3> SUFFICES ASSUME <<at(l), at(k)>> \in R PROVE FALSE
      OBVIOUS
    <3>1. Rank(R, D, at(l)) < Rank(R, D, at(k))
      BY <1>2, <1>3, <2>1, RankGrows
    <3> QED
      BY <1>9, <2>1, <3>1
  <2>3. ~LessAgent(F[at(l)], F[at(k)])
    BY <1>1, <2>1, <2>2 DEF Goes
  <2> QED
    BY <1>6, <2>3
<1> QED
  BY <1>5, <1>6, <1>7, <1>8, <1>9

\* The agents that a view lets pass, of those of a snapshot.
Passing(v, agents) == {agents[i] : i \in {j \in DOMAIN agents : Passes(v, agents[j])}}

\* Filter, sort and cut: what is on the keys passes, everything that passes is
\* there if there is a key for it, and what is left off is no more urgent.
LEMMA CellsAreMostUrgent ==
    ASSUME NEW v, NEW sn, NEW n \in Nat, DOMAIN sn.agents = 1 .. n,
           \A i \in 1 .. n : IsAgent(sn.agents[i])
    PROVE  LET cells == Cells(v, sn)
           IN  /\ Len(cells) \in Nat /\ DOMAIN cells = 1 .. Len(cells)
               /\ Len(cells) <= Slots
               /\ Range(cells) \subseteq Passing(v, sn.agents)
               /\ Len(cells) < Slots => Range(cells) = Passing(v, sn.agents)
               /\ \A a \in Passing(v, sn.agents) \ Range(cells), b \in Range(cells) :
                     ~LessAgent(a, b)
<1> DEFINE as == sn.agents
           P == {j \in DOMAIN as : Passes(v, as[j])}
           F == FilterAgents(v, as)
           A == {as[i] : i \in P}
           S == SortAgents(F)
           cells == Cells(v, sn)
           m == Len(F)
           c == IF m > Slots THEN Slots ELSE m
<1>1. P \in SUBSET (1 .. n) /\ \A i \in P : as[i] \in A /\ IsAgent(as[i])
  OBVIOUS
<1>2. /\ F \in Seq(A) /\ Range(F) = A
  <2>1. F = Picked(as, P)
    BY DEF FilterAgents
  <2> HIDE DEF P, F, A
  <2>2. Picked(as, P) \in Seq(A)
    BY <1>1, PickedIsList
  <2>3. Range(Picked(as, P)) = {as[i] : i \in P}
    BY <1>1, PickedElements
  <2> QED
    BY <2>1, <2>2, <2>3 DEF A
<1>3. \A a \in A : IsAgent(a)
  BY <1>1
<1>4. A = Passing(v, as)
  BY DEF Passing
<1> HIDE DEF P, F, A
<1>5. m \in Nat /\ DOMAIN F = 1 .. m /\ \A i \in 1 .. m : F[i] \in A /\ IsAgent(F[i])
  BY <1>2, <1>3, LenProperties, ElementOfSeq
<1>6. /\ DOMAIN S = 1 .. m
      /\ \A k \in 1 .. m : /\ SortedAt(F, 1 .. m, k) \in 1 .. m
                           /\ S[k] = F[SortedAt(F, 1 .. m, k)]
      /\ \A i \in 1 .. m : \E k \in 1 .. m : SortedAt(F, 1 .. m, k) = i
      /\ \A k, l \in 1 .. m : k < l => ~LessAgent(S[l], S[k])
  BY <1>5, Sorted
<1> HIDE DEF S
<1>7. /\ S \in Seq(A) /\ Len(S) = m
      /\ \A a \in A : \E k \in 1 .. m : S[k] = a
  <2>1. \A k \in 1 .. m : S[k] \in A
    BY <1>5, <1>6
  <2>2. S = [k \in 1 .. m |-> S[k]]
    BY <1>6 DEF S, SortAgents
  <2>3. S \in Seq(A) /\ Len(S) = m
    BY <1>5, <2>1, <2>2
  <2>4. ASSUME NEW a \in A PROVE \E k \in 1 .. m : S[k] = a
    <3>1. PICK i \in 1 .. m : F[i] = a
      BY <1>2, <1>5 DEF Range
    <3>2. PICK k \in 1 .. m : SortedAt(F, 1 .. m, k) = i
      BY <1>6
    <3> QED
      BY <1>6, <3>1, <3>2
  <2> QED
    BY <2>3, <2>4
<1> HIDE DEF m
<1>8. c \in Nat /\ c <= m /\ c <= Slots /\ (c < Slots => c = m)
  BY <1>5, SlotsAssumption
<1>9. /\ Len(cells) = c /\ DOMAIN cells = 1 .. c
      /\ \A k \in 1 .. c : cells[k] = S[k]
  <2>1. cells = SubSeq(S, 1, c)
    BY <1>7 DEF Cells, Truncate, S, F
  <2>2. \A k \in 1 .. c : S[k] \in A
    BY <1>5, <1>7, <1>8, LenProperties, ElementOfSeq
  <2> HIDE DEF cells, c
  <2>3. /\ SubSeq(S, 1, c) \in Seq(A) /\ Len(SubSeq(S, 1, c)) = IF 1 <= c THEN c - 1 + 1 ELSE 0
        /\ \A k \in 1 .. c - 1 + 1 : SubSeq(S, 1, c)[k] = S[1 + k - 1]
    BY <1>8, <2>2, SubSeqProperties
  <2>4. Len(SubSeq(S, 1, c)) = c /\ DOMAIN SubSeq(S, 1, c) = 1 .. c
    BY <1>8, <2>3, LenProperties
  <2>5. ASSUME NEW k \in 1 .. c PROVE SubSeq(S, 1, c)[k] = S[k]
    <3>1. k \in 1 .. c - 1 + 1 /\ 1 + k - 1 = k
      BY <1>8
    <3> QED
      BY <2>3, <3>1
  <2> QED
    BY <2>1, <2>4, <2>5
<1> HIDE DEF cells, c
<1>10. \A k \in 1 .. m : S[k] \in A
  BY <1>5, <1>7, LenProperties, ElementOfSeq
<1>11. \A b \in Range(cells) : \E k \in 1 .. c : b = S[k]
  BY <1>9 DEF Range
<1>12. Range(cells) \subseteq A
  BY <1>5, <1>8, <1>10, <1>11
<1>13. ASSUME NEW a \in A, a \notin Range(cells) PROVE \E l \in 1 .. m : a = S[l] /\ c < l
  <2>1. PICK l \in 1 .. m : S[l] = a
    BY <1>7
  <2>2. l \notin 1 .. c
    BY <1>9, <1>13, <2>1 DEF Range
  <2> QED
    BY <1>5, <1>8, <2>1, <2>2
<1>14. ASSUME c < Slots PROVE Range(cells) = A
  <2>1. ASSUME NEW l \in 1 .. m PROVE ~(c < l)
    BY <1>5, <1>8, <1>14, <2>1
  <2>2. A \subseteq Range(cells)
    BY <1>13, <2>1, Zenon
  <2> QED
    BY <1>12, <2>2, Zenon
<1>15. ASSUME NEW a \in A \ Range(cells), NEW b \in Range(cells) PROVE ~LessAgent(a, b)
  <2>1. PICK l \in 1 .. m : a = S[l] /\ c < l
    BY <1>13
  <2>2. PICK k \in 1 .. c : b = S[k]
    BY <1>11
  <2>3. k \in 1 .. m /\ k < l
    BY <1>5, <1>8, <2>1
  <2> QED
    BY <1>6, <2>1, <2>2, <2>3
<1> QED
  BY <1>4, <1>8, <1>9, <1>12, <1>14, <1>15 DEF cells

-----------------------------------------------------------------------------
(* Key presses. *)

\* The empty snapshot of a builder without one is a snapshot.
LEMMA NoSnapshotIsOne == IsSnapshot(NoSnapshot)
<1>0. DOMAIN NoSnapshot = {"machines", "agents", "stats"}
  BY DEF NoSnapshot
<1>1. NoSnapshot.machines = <<>> /\ NoSnapshot.agents = <<>>
  BY DEF NoSnapshot
<1>2. <<>> \in Seq([name : Machines, health : Healths])
  OBVIOUS
<1>3. DOMAIN <<>> = 1 .. Len(<<>>) /\ Len(<<>>) \in Nat /\ DOMAIN <<>> = {}
  OBVIOUS
<1> HIDE DEF NoSnapshot
<1>4. QED
  BY <1>0, <1>1, <1>2, <1>3, Zenon DEF IsSnapshot

\* The elements of a sequence are in its set, position by position.
LEMMA ElementsTyped ==
    ASSUME NEW S, NEW s \in Seq(S)
    PROVE  \A i \in 1 .. Len(s) : s[i] \in S
OBVIOUS

\* The machine names of a snapshot are machine names, one after the other.
LEMMA MachinesTyped ==
    ASSUME NEW sn, IsSnapshot(sn)
    PROVE  /\ MachineNames(sn) \in Seq(Machines)
           /\ Len(MachineNames(sn)) = Len(sn.machines)
<1>1. /\ sn.machines \in Seq([name : Machines, health : Healths])
      /\ MachineNames(sn) = [i \in DOMAIN sn.machines |-> sn.machines[i].name]
  BY DEF IsSnapshot, MachineNames
<1> DEFINE ms == sn.machines
<1>2. ms \in Seq([name : Machines, health : Healths])
  BY <1>1
<1> HIDE DEF ms
<1>3. Len(ms) \in Nat /\ DOMAIN ms = 1 .. Len(ms)
  BY <1>2
<1>4. \A i \in 1 .. Len(ms) : ms[i] \in [name : Machines, health : Healths]
  BY <1>2, ElementsTyped, Zenon
<1>5. \A i \in 1 .. Len(ms) : ms[i].name \in Machines
  BY <1>4
<1>6. MachineNames(sn) = [i \in 1 .. Len(ms) |-> ms[i].name]
  BY <1>1, <1>3 DEF ms
<1>7. /\ [i \in 1 .. Len(ms) |-> ms[i].name] \in Seq(Machines)
      /\ Len([i \in 1 .. Len(ms) |-> ms[i].name]) = Len(ms)
  BY <1>3, <1>5
<1>8. QED
  BY <1>6, <1>7 DEF ms

\* K11 without a toggle, and with it.
LEMMA K11View ==
    ASSUME NEW v \in View
    PROVE  /\ SetAll(v) \in View
           /\ SetAll(v).mode = "all" /\ SetAll(v).machine = None
           /\ SetAll(v).space = None
           /\ ToggleActiveOnly(v) \in View
           /\ ToggleActiveOnly(v).mode = v.mode
           /\ ToggleActiveOnly(v).machine = v.machine
           /\ ToggleActiveOnly(v).space = v.space
<1>1. SetAll(v) = [v EXCEPT !.mode = "all", !.machine = None, !.space = None]
  BY DEF SetAll
<1>2. ToggleActiveOnly(v) = [v EXCEPT !.activeOnly = ~v.activeOnly]
  BY DEF ToggleActiveOnly
<1>3. (~v.activeOnly) \in BOOLEAN
  OBVIOUS
<1>4. PICK b \in BOOLEAN : ToggleActiveOnly(v) = [v EXCEPT !.activeOnly = b]
  BY <1>2, <1>3, Zenon
<1>5. QED
  BY <1>1, <1>4 DEF View

\* K12 selects a machine of the snapshot and nothing else, or does nothing.
LEMMA K12View ==
    ASSUME NEW v \in View, NEW sn, IsSnapshot(sn)
    PROVE  /\ NextMachine(v, sn) \in View
           /\ IF Len(sn.machines) = 0 THEN NextMachine(v, sn) = v
              ELSE /\ NextMachine(v, sn).mode = "machine"
                   /\ NextMachine(v, sn).space = None
                   /\ NextMachine(v, sn).machine \in Machines
                   /\ NextMachine(v, sn).machine \in Range(MachineNames(sn))
<1>1. CASE Len(sn.machines) = 0
  BY <1>1 DEF NextMachine
<1>2. CASE Len(sn.machines) # 0
  <2> DEFINE m == After(MachineNames(sn), v.machine)
  <2>1. m \in Machines /\ m \in Range(MachineNames(sn))
    BY <1>2, MachinesTyped, AfterIsElement
  <2>2. NextMachine(v, sn) =
            [v EXCEPT !.mode = "machine", !.space = None, !.machine = m]
    BY <1>2 DEF NextMachine
  <2> HIDE DEF m
  <2>3. QED
    BY <1>2, <2>1, <2>2 DEF View
<1>3. QED
  BY <1>1, <1>2

\* K13 selects a label of the snapshot and nothing else, or does nothing.
LEMMA K13View ==
    ASSUME NEW v \in View, NEW sn, IsSnapshot(sn)
    PROVE  /\ NextSpace(v, sn) \in View
           /\ IF Len(UniqueSpaces(sn)) = 0 THEN NextSpace(v, sn) = v
              ELSE /\ NextSpace(v, sn).mode = "space"
                   /\ NextSpace(v, sn).machine = None
                   /\ NextSpace(v, sn).space \in Spaces
                   /\ NextSpace(v, sn).space \in Range(UniqueSpaces(sn))
<1>1. CASE Len(UniqueSpaces(sn)) = 0
  BY <1>1 DEF NextSpace
<1>2. CASE Len(UniqueSpaces(sn)) # 0
  <2> DEFINE l == After(UniqueSpaces(sn), v.space)
  <2>1. l \in Spaces /\ l \in Range(UniqueSpaces(sn))
    BY <1>2, SpacesTyped, AfterIsElement
  <2>2. NextSpace(v, sn) =
            [v EXCEPT !.mode = "space", !.machine = None, !.space = l]
    BY <1>2 DEF NextSpace
  <2> HIDE DEF l
  <2>3. QED
    BY <1>2, <2>1, <2>2 DEF View
<1>3. QED
  BY <1>1, <1>2

-----------------------------------------------------------------------------
(* Presses in a row. *)

Distinct(list) == \A i, j \in DOMAIN list : list[i] = list[j] => i = j

\* A place in a list of n, from 1 on again after the last.
Turn(n, x) == IF x <= n THEN x ELSE x - n

\* A row of selections goes through the list from some place on, and the last
\* one is what is selected.
IsRow(row, list, x) ==
    /\ Len(row) <= Len(list)
    /\ Len(row) > 0 =>
          /\ x = row[Len(row)]
          /\ \E c \in 1 .. Len(list) :
                \A i \in 1 .. Len(row) : row[i] = list[Turn(Len(list), c + i - 1)]

\* Of a list without repetition the index of an element is its place, and the
\* element after it is at the next.
LEMMA AfterPlace ==
    ASSUME NEW S, NEW list \in Seq(S), Distinct(list), NEW q \in 1 .. Len(list)
    PROVE  After(list, list[q]) = list[IF q = Len(list) THEN 1 ELSE q + 1]
<1> DEFINE n == Len(list)
<1>1. n \in Nat /\ DOMAIN list = 1 .. n
  BY LenProperties
<1>2. list[q] \in Range(list) /\ q \in DOMAIN list
  BY <1>1 DEF Range
<1>3. \A j \in 1 .. q - 1 : j \in DOMAIN list /\ j # q
  BY <1>1
<1>4. \A j \in 1 .. q - 1 : list[j] # list[q]
  BY <1>2, <1>3 DEF Distinct
<1>5. \A i \in DOMAIN list : list[i] = list[q] => i = q
  BY <1>2 DEF Distinct
<1>6. IndexIn(list, list[q]) = q
  BY <1>2, <1>4, <1>5, Zenon DEF IndexIn
<1>7. (q % n) + 1 = IF q = n THEN 1 ELSE q + 1
  <2> HIDE DEF n
  <2>1. n \in Nat /\ q \in 1 .. n
    BY <1>1 DEF n
  <2>2. CASE q = n
    BY <2>1, <2>2
  <2>3. CASE q # n
    <3>1. q < n /\ q \in Nat
      BY <2>1, <2>3
    <3>2. q % n = q
      BY <2>1, <3>1
    <3> QED
      BY <2>3, <3>2
  <2> QED
    BY <2>2, <2>3
<1> QED
  BY <1>6, <1>7 DEF After

\* A row without two of the same: it is not longer than the list.
LEMMA RowDistinct ==
    ASSUME NEW S, NEW list \in Seq(S), Distinct(list),
           NEW row \in Seq(S), NEW x, IsRow(row, list, x)
    PROVE  Distinct(row)
<1> DEFINE n == Len(list)
           m == Len(row)
<1>1. /\ n \in Nat /\ DOMAIN list = 1 .. n
      /\ m \in Nat /\ DOMAIN row = 1 .. m /\ m <= n
  BY LenProperties DEF IsRow
<1> SUFFICES ASSUME NEW i \in 1 .. m, NEW j \in 1 .. m, row[i] = row[j] PROVE i = j
  BY <1>1 DEF Distinct
<1>2. PICK c \in 1 .. n : \A k \in 1 .. m : row[k] = list[Turn(n, c + k - 1)]
  <2>1. Len(row) > 0
    BY <1>1
  <2> QED
    BY <2>1, Zenon DEF IsRow
<1>3. \A k \in 1 .. m : Turn(n, c + k - 1) \in DOMAIN list
  BY <1>1 DEF Turn
<1>4. Turn(n, c + i - 1) = Turn(n, c + j - 1)
  BY <1>2, <1>3 DEF Distinct
<1> QED
  BY <1>1, <1>4 DEF Turn

\* A press goes on with the row.
LEMMA RowGoesOn ==
    ASSUME NEW S, NEW list \in Seq(S), Distinct(list), Len(list) # 0,
           NEW row \in Seq(S), NEW x, IsRow(row, list, x)
    PROVE  LET y == After(list, x)
           IN  IsRow(Extended(row, y, Len(list)), list, y)
<1> DEFINE n == Len(list)
           m == Len(row)
           y == After(list, x)
           new == Extended(row, y, n)
<1>1. /\ n \in Nat /\ n >= 1 /\ DOMAIN list = 1 .. n
      /\ m \in Nat /\ DOMAIN row = 1 .. m /\ m <= n
  BY LenProperties DEF IsRow
<1>2. y \in Range(list) /\ y \in S
  BY AfterIsElement
<1>3. PICK p \in 1 .. n : list[p] = y
  BY <1>1, <1>2 DEF Range
<1> SUFFICES IsRow(new, list, y)
  OBVIOUS
<1> HIDE DEF y
<1>4. CASE m < n
  <2>1. new = Append(row, y)
    BY <1>4 DEF Extended
  <2> HIDE DEF new
  <2>2. /\ Len(new) = m + 1 /\ new[m + 1] = y
        /\ \A i \in 1 .. m : new[i] = row[i]
    BY <1>1, <1>2, <2>1, AppendProperties
  <2>3. CASE m = 0
    <3>1. \A i \in 1 .. m + 1 : i = 1 /\ Turn(n, p + i - 1) = p
      BY <1>1, <2>3 DEF Turn
    <3>2. \A i \in 1 .. m + 1 : new[i] = list[Turn(n, p + i - 1)]
      BY <1>3, <2>2, <2>3, <3>1
    <3> QED
      <4> HIDE DEF n, m
      <4>1. m + 1 <= n
        BY <1>1, <1>4
      <4>2. Len(new) = m + 1 /\ new[m + 1] = y /\ Len(list) = n
        BY <2>2 DEF n
      <4> HIDE DEF new
      <4>3. \A i \in 1 .. Len(new) : new[i] = list[Turn(Len(list), p + i - 1)]
        BY <3>2, <4>2
      <4>4. p \in 1 .. Len(list) /\ Len(new) <= Len(list) /\ y = new[Len(new)]
        BY <4>1, <4>2
      <4> QED
        BY <4>3, <4>4, Zenon DEF IsRow
  <2>4. CASE m > 0
    <3>1. PICK c \in 1 .. n : \A i \in 1 .. m : row[i] = list[Turn(n, c + i - 1)]
      BY <2>4 DEF IsRow
    <3> DEFINE q == Turn(n, c + m - 1)
    <3>2. q \in 1 .. n /\ x = list[q]
      BY <1>1, <2>4, <3>1 DEF IsRow, Turn
    <3>3. y = list[IF q = n THEN 1 ELSE q + 1]
      BY <3>2, AfterPlace DEF y
    <3>4. (IF q = n THEN 1 ELSE q + 1) = Turn(n, c + (m + 1) - 1)
      BY <1>1, <1>4, <2>4 DEF Turn
    <3>5. ASSUME NEW i \in 1 .. m + 1 PROVE new[i] = list[Turn(n, c + i - 1)]
      <4>1. CASE i = m + 1
        BY <2>2, <3>3, <3>4, <4>1
      <4>2. CASE i \in 1 .. m
        BY <2>2, <3>1, <4>2
      <4> QED
        BY <1>1, <4>1, <4>2
    <3> QED
      <4> HIDE DEF n, m
      <4>1. m + 1 <= n
        BY <1>1, <1>4
      <4>2. Len(new) = m + 1 /\ new[m + 1] = y /\ Len(list) = n
        BY <2>2 DEF n
      <4>3. \A i \in 1 .. Len(new) : new[i] = list[Turn(Len(list), c + i - 1)]
        BY <3>5, <4>2
      <4>4. c \in 1 .. Len(list) /\ Len(new) <= Len(list) /\ y = new[Len(new)]
        BY <4>1, <4>2
      <4> QED
        BY <4>3, <4>4, Zenon DEF IsRow
  <2> QED
    BY <1>1, <2>3, <2>4
<1>5. CASE m = n
  <2>1. new = Append(Tail(row), y) /\ row # <<>>
    BY <1>1, <1>5 DEF Extended
  <2> HIDE DEF new
  <2>2. /\ Tail(row) \in Seq(S) /\ Len(Tail(row)) = n - 1
        /\ \A i \in 1 .. n - 1 : Tail(row)[i] = row[i + 1]
    BY <1>5, <2>1, HeadTailProperties
  <2>3. /\ Len(new) = n /\ new[n] = y
        /\ \A i \in 1 .. n - 1 : new[i] = row[i + 1]
    <3>1. /\ Len(Append(Tail(row), y)) = (n - 1) + 1
          /\ Append(Tail(row), y)[(n - 1) + 1] = y
          /\ \A i \in 1 .. n - 1 : Append(Tail(row), y)[i] = Tail(row)[i]
      BY <1>2, <2>2, AppendProperties
    <3> HIDE DEF n, m
    <3>2. (n - 1) + 1 = n
      BY <1>1
    <3> QED
      BY <2>1, <2>2, <3>1, <3>2, Zenon
  <2>4. PICK c \in 1 .. n : \A i \in 1 .. n : row[i] = list[Turn(n, c + i - 1)]
    BY <1>1, <1>5 DEF IsRow
  <2> DEFINE q == Turn(n, c + n - 1)
             d == Turn(n, c + 1)
  <2>5. q \in 1 .. n /\ x = list[q]
    BY <1>1, <1>5, <2>4 DEF IsRow, Turn
  <2>6. y = list[IF q = n THEN 1 ELSE q + 1]
    BY <2>5, AfterPlace DEF y
  <2>7. d \in 1 .. n /\ (IF q = n THEN 1 ELSE q + 1) = Turn(n, d + n - 1)
    BY <1>1 DEF Turn
  <2>8. \A i \in 1 .. n - 1 : /\ i + 1 \in 1 .. n
                              /\ Turn(n, c + (i + 1) - 1) = Turn(n, d + i - 1)
    BY <1>1 DEF Turn
  <2> HIDE DEF q, d
  <2>9. ASSUME NEW i \in 1 .. n PROVE new[i] = list[Turn(n, d + i - 1)]
    <3>1. CASE i = n
      BY <2>3, <2>6, <2>7, <3>1
    <3>2. CASE i \in 1 .. n - 1
      BY <2>3, <2>4, <2>8, <3>2
    <3> HIDE DEF n
    <3>3. i = n \/ i \in 1 .. n - 1
      BY <1>1
    <3> QED
      BY <3>1, <3>2, <3>3
  <2> HIDE DEF n, m
  <2>10. n <= n
    BY <1>1
  <2>11. Len(list) = n
    BY DEF n
  <2>12. \A i \in 1 .. Len(new) : new[i] = list[Turn(Len(list), d + i - 1)]
    BY <2>3, <2>9, <2>11
  <2>13. d \in 1 .. Len(list) /\ Len(new) <= Len(list) /\ y = new[Len(new)]
    BY <2>3, <2>7, <2>10, <2>11
  <2> QED
    BY <2>12, <2>13, Zenon DEF IsRow
<1>6. m < n \/ m = n
  <2> HIDE DEF n, m
  <2> QED
    BY <1>1
<1> QED
  BY <1>4, <1>5, <1>6, Zenon

\* The lists that the keys walk through have no repetition.
LEMMA MachinesDistinct ==
    ASSUME NEW sn, IsSnapshot(sn)
    PROVE  Distinct(MachineNames(sn))
BY Zenon DEF IsSnapshot, MachineNames, Distinct

\* Nor has the list of labels: each is there at its first agent only.
LEMMA SpacesDistinct ==
    ASSUME NEW sn, IsSnapshot(sn)
    PROVE  Distinct(UniqueSpaces(sn))
<1> DEFINE as == sn.agents
           labels == [i \in DOMAIN as |-> as[i].space]
           P == FirstPlaces(as)
<1>1. Len(as) \in Nat /\ DOMAIN as = 1 .. Len(as)
  BY DEF IsSnapshot
<1>2. P \in SUBSET (1 .. Len(as))
  BY <1>1, Zenon DEF FirstPlaces
<1>3. ASSUME NEW i \in P, NEW j \in P, i < j PROVE labels[i] # labels[j]
  <2>1. i \in 1 .. j - 1
    BY <1>1, <1>2, <1>3
  <2> QED
    BY <1>1, <2>1 DEF FirstPlaces
<1>4. \A i, j \in P : labels[i] = labels[j] => i = j
  <2> SUFFICES ASSUME NEW i \in P, NEW j \in P, labels[i] = labels[j] PROVE i = j
    OBVIOUS
  <2>1. i \in Nat /\ j \in Nat
    BY <1>1, <1>2
  <2>2. ~(i < j) /\ ~(j < i)
    BY <1>3
  <2> QED
    BY <2>1, <2>2
<1> HIDE DEF P, labels
<1>5. UniqueSpaces(sn) = Picked(labels, P)
  BY DEF UniqueSpaces, P, labels
<1>6. /\ \A k \in 1 .. Cardinality(P) : Nth(P, k) \in P
      /\ \A k, l \in 1 .. Cardinality(P) : Nth(P, k) = Nth(P, l) => k = l
  BY <1>1, <1>2, NthIsNth
<1>7. Distinct(Picked(labels, P))
  <2> DEFINE list == Picked(labels, P)
  <2>1. /\ DOMAIN list = 1 .. Cardinality(P)
        /\ \A k \in 1 .. Cardinality(P) : list[k] = labels[Nth(P, k)]
    BY PickedAt
  <2> HIDE DEF list
  <2> SUFFICES ASSUME NEW k \in DOMAIN list, NEW l \in DOMAIN list, list[k] = list[l]
               PROVE  k = l
    BY DEF Distinct, list
  <2>2. labels[Nth(P, k)] = labels[Nth(P, l)]
    BY <2>1
  <2> QED
    BY <1>4, <1>6, <2>1, <2>2
<1> QED
  BY <1>5, <1>7

-----------------------------------------------------------------------------
(* The controller. *)

\* The view is one, whatever the presses in a row have selected; a row is a
\* row of machines or of labels, as the mode says.
ViewInv ==
    /\ snap \in Snapshots \cup {NoSnapshot}
    /\ view \in View
    /\ view.mode = "all" => visited = <<>>
    /\ view.mode = "machine" => visited \in Seq(Machines)
    /\ view.mode = "space" => visited \in Seq(Spaces)

\* The controller always holds a snapshot.
LEMMA SnapIsOne == ASSUME ViewInv PROVE IsSnapshot(snap)
BY SnapshotsAssumption, NoSnapshotIsOne DEF ViewInv

\* The row of the last selections stays a row of selections.
LEMMA ExtendedTyped ==
    ASSUME NEW S, NEW row \in Seq(S), NEW x \in S, NEW n \in Nat, n # 0
    PROVE  Extended(row, x, n) \in Seq(S)
<1>1. CASE Len(row) < n
  BY <1>1 DEF Extended
<1>2. CASE ~(Len(row) < n)
  <2>1. row # <<>>
    BY <1>2
  <2>2. Tail(row) \in Seq(S)
    BY <2>1
  <2>3. QED
    BY <1>2, <2>2 DEF Extended
<1>3. QED
  BY <1>1, <1>2

\* The start: everything is shown, nothing is selected.
LEMMA ViewInit == Init => ViewInv /\ ModeNamesSelection
BY DEF Init, ViewInv, ModeNamesSelection, NewView, View

\* A press of K11.
LEMMA K11Step ==
    ASSUME ViewInv, OnK11
    PROVE  /\ ViewInv' /\ ModeNamesSelection'
           /\ view'.machine = None /\ view'.space = None
<1>1. SetAll(view) \in View
  BY K11View DEF ViewInv
<1>2. /\ view' \in View /\ view'.mode = "all"
      /\ view'.machine = None /\ view'.space = None
  <2>1. CASE K11Toggle
    BY <1>1, <2>1, K11View DEF OnK11, ViewInv
  <2>2. CASE ~K11Toggle
    BY <1>1, <2>2, K11View DEF OnK11, ViewInv
  <2>3. QED
    BY <2>1, <2>2
<1>3. QED
  BY <1>2 DEF OnK11, ViewInv, ModeNamesSelection

\* A press of K12: the selection is a machine of the snapshot, or the view is
\* what it was.
LEMMA K12Step ==
    ASSUME ViewInv, ModeNamesSelection, OnK12
    PROVE  /\ ViewInv' /\ ModeNamesSelection'
           /\ Len(snap.machines) # 0 =>
                  view'.machine \in Range(MachineNames(snap))
<1>1. IsSnapshot(snap) /\ view \in View /\ snap' = snap
  BY SnapIsOne DEF ViewInv, OnK12
<1>2. view' = NextMachine(view, snap)
  BY DEF OnK12, NextMachine, NoSnapshot
<1>3. Len(snap.machines) \in Nat
  BY <1>1 DEF IsSnapshot
<1>4. CASE Len(snap.machines) = 0
  <2>1. view' = view /\ visited' = <<>>
    BY <1>1, <1>2, <1>4, K12View DEF OnK12
  <2>2. QED
    BY <1>1, <1>4, <2>1 DEF ViewInv, ModeNamesSelection
<1>5. CASE Len(snap.machines) # 0
  <2>1. /\ view' \in View /\ view'.mode = "machine" /\ view'.space = None
        /\ view'.machine \in Machines
        /\ view'.machine \in Range(MachineNames(snap))
    BY <1>1, <1>2, <1>5, K12View
  <2>2. view'.machine # None
    BY <2>1, NamesAssumption
  <2> DEFINE row == IF view.mode = "machine" THEN visited ELSE <<>>
  <2>3. row \in Seq(Machines)
    BY DEF ViewInv
  <2> HIDE DEF row
  <2>4. visited' \in Seq(Machines)
    <3>1. visited' = Extended(row, view'.machine, Len(snap.machines))
      BY <1>5 DEF OnK12, row
    <3>2. QED
      BY <1>3, <1>5, <2>1, <2>3, <3>1, ExtendedTyped
  <2>5. ViewInv'
    BY <1>1, <2>1, <2>4 DEF ViewInv
  <2>6. ModeNamesSelection'
    BY <2>1, <2>2 DEF ModeNamesSelection
  <2>7. QED
    BY <2>1, <2>5, <2>6
<1>6. QED
  BY <1>4, <1>5

\* Without a snapshot there is no label.
LEMMA NoSpaces == Len(UniqueSpaces(NoSnapshot)) = 0
<1>1. FirstPlaces(NoSnapshot.agents) = {}
  BY DEF FirstPlaces, NoSnapshot
<1>2. Cardinality(FirstPlaces(NoSnapshot.agents)) = 0
  BY <1>1, FS_EmptySet
<1> QED
  BY <1>2 DEF UniqueSpaces, Picked

\* A press of K13.
LEMMA K13Step ==
    ASSUME ViewInv, ModeNamesSelection, OnK13
    PROVE  /\ ViewInv' /\ ModeNamesSelection'
           /\ Len(UniqueSpaces(snap)) # 0 =>
                  view'.space \in Range(UniqueSpaces(snap))
<1>1. IsSnapshot(snap) /\ view \in View /\ snap' = snap
  BY SnapIsOne DEF ViewInv, OnK13
<1>2. UniqueSpaces(snap) \in Seq(Spaces) /\ Len(UniqueSpaces(snap)) \in Nat
  BY <1>1, SpacesTyped
<1>3. view' = NextSpace(view, snap)
  BY NoSpaces DEF OnK13, NextSpace
<1>4. CASE Len(UniqueSpaces(snap)) = 0
  <2>1. view' = view /\ visited' = <<>>
    BY <1>1, <1>3, <1>4, K13View DEF OnK13
  <2>2. QED
    BY <1>1, <1>4, <2>1 DEF ViewInv, ModeNamesSelection
<1>5. CASE Len(UniqueSpaces(snap)) # 0
  <2>1. /\ view' \in View /\ view'.mode = "space" /\ view'.machine = None
        /\ view'.space \in Spaces
        /\ view'.space \in Range(UniqueSpaces(snap))
    BY <1>1, <1>3, <1>5, K13View
  <2>2. view'.space # None
    BY <2>1, NamesAssumption
  <2> DEFINE row == IF view.mode = "space" THEN visited ELSE <<>>
  <2>3. row \in Seq(Spaces)
    BY DEF ViewInv
  <2> HIDE DEF row
  <2>4. visited' \in Seq(Spaces)
    <3>1. visited' = Extended(row, view'.space, Len(UniqueSpaces(snap)))
      BY <1>5 DEF OnK13, row
    <3>2. QED
      BY <1>2, <1>5, <2>1, <2>3, <3>1, ExtendedTyped
  <2>5. ViewInv'
    BY <1>1, <2>1, <2>4 DEF ViewInv
  <2>6. ModeNamesSelection'
    BY <2>1, <2>2 DEF ModeNamesSelection
  <2>7. QED
    BY <2>1, <2>5, <2>6
<1>6. QED
  BY <1>4, <1>5

\* No step breaks the type of the view or the tie of mode and selection.
LEMMA ViewStep ==
    ViewInv /\ ModeNamesSelection /\ [Next]_vars => ViewInv' /\ ModeNamesSelection'
<1> SUFFICES ASSUME ViewInv, ModeNamesSelection, [Next]_vars
             PROVE  ViewInv' /\ ModeNamesSelection'
  OBVIOUS
<1>1. CASE ApplySnapshot
  BY <1>1 DEF ApplySnapshot, ViewInv, ModeNamesSelection
<1>2. CASE OnK11
  BY <1>2, K11Step
<1>3. CASE OnK12
  BY <1>3, K12Step
<1>4. CASE OnK13
  BY <1>4, K13Step
<1>5. CASE UNCHANGED vars
  BY <1>5 DEF vars, ViewInv, ModeNamesSelection
<1>6. QED
  BY <1>1, <1>2, <1>3, <1>4, <1>5 DEF Next

-----------------------------------------------------------------------------

\* Every variable keeps its type.
THEOREM TypeCorrect == Spec => []TypeOK
<1>1. ASSUME ViewInv PROVE TypeOK
  <2>1. view.mode \in {"all", "machine", "space"}
    BY <1>1 DEF ViewInv, View
  <2>2. visited \in Seq(Machines) \/ visited \in Seq(Spaces)
    <3>1. <<>> \in Seq(Machines)
      OBVIOUS
    <3>2. QED
      BY <1>1, <2>1, <3>1, Zenon DEF ViewInv
  <2>3. QED
    BY <1>1, <2>2 DEF ViewInv, TypeOK
<1>2. QED
  BY ViewInit, ViewStep, <1>1, PTL DEF Spec

\* The mode names the one selection there is (builder.go: SetAll, NextMachine
\* and NextSpace write three fields each).
THEOREM OneSelection == Spec => []ModeNamesSelection
BY ViewInit, ViewStep, PTL DEF Spec

\* A press of K12 or K13 selects what the present snapshot has
\* (builder.go: NextMachine and NextSpace look the old selection up).
THEOREM PressIsPresent == Spec => PressSelectsPresent
<1>1. ASSUME ViewInv, ModeNamesSelection, OnK12, Len(snap.machines) # 0
      PROVE  view'.machine \in Range(MachineNames(snap))
  BY <1>1, K12Step
<1>2. ASSUME ViewInv, ModeNamesSelection, OnK13, Len(UniqueSpaces(snap)) # 0
      PROVE  view'.space \in Range(UniqueSpaces(snap))
  BY <1>2, K13Step
<1>3. QED
  BY ViewInit, ViewStep, <1>1, <1>2, PTL DEF Spec, PressSelectsPresent

\* What the row of selections is: through the list of the mode.
RowInv ==
    /\ view.mode = "machine" => IsRow(visited, MachineNames(snap), view.machine)
    /\ view.mode = "space" => IsRow(visited, UniqueSpaces(snap), view.space)

\* No selections are a row through any list.
LEMMA NoRow ==
    ASSUME NEW list, NEW S, list \in Seq(S), NEW x
    PROVE  IsRow(<<>>, list, x)
<1>1. Len(<<>>) = 0 /\ Len(list) \in Nat
  BY LenProperties
<1> QED
  BY <1>1 DEF IsRow

\* Every list of a snapshot is one, for a row that begins again.
LEMMA NoRowYet ==
    ASSUME NEW sn, IsSnapshot(sn), NEW x
    PROVE  IsRow(<<>>, MachineNames(sn), x) /\ IsRow(<<>>, UniqueSpaces(sn), x)
BY NoRow, MachinesTyped, SpacesTyped

\* Every press and every snapshot keeps the selections a row, or begins a new one.
LEMMA RowStep ==
    ViewInv /\ ModeNamesSelection /\ RowInv /\ ViewInv' /\ [Next]_vars => RowInv'
<1> SUFFICES ASSUME ViewInv, ModeNamesSelection, RowInv, ViewInv', [Next]_vars
             PROVE  RowInv'
  OBVIOUS
<1>1. IsSnapshot(snap) /\ view \in View
  BY SnapIsOne DEF ViewInv
<1>2. CASE ApplySnapshot
  <2>1. IsSnapshot(snap')
    BY <1>2, SnapshotsAssumption DEF ApplySnapshot
  <2> QED
    BY <1>2, <2>1, NoRowYet DEF ApplySnapshot, RowInv
<1>3. CASE OnK11
  BY <1>1, <1>3, NoRowYet DEF OnK11, RowInv
<1>4. CASE OnK12
  <2>1. snap' = snap /\ view' = NextMachine(view, snap)
    BY <1>4 DEF OnK12, NextMachine, NoSnapshot
  <2>2. CASE Len(snap.machines) = 0
    BY <1>1, <1>4, <2>1, <2>2, NoRowYet DEF OnK12, RowInv
  <2>3. CASE Len(snap.machines) # 0
    <3> DEFINE list == MachineNames(snap)
               row == IF view.mode = "machine" THEN visited ELSE <<>>
    <3>1. list \in Seq(Machines) /\ Len(list) = Len(snap.machines) /\ Distinct(list)
      BY <1>1, MachinesTyped, MachinesDistinct
    <3>2. view'.mode = "machine" /\ view'.machine = After(list, view.machine)
      BY <1>1, <2>1, <2>3 DEF NextMachine, View
    <3>3. visited' = Extended(row, view'.machine, Len(snap.machines))
      BY <1>4, <2>3 DEF OnK12
    <3>4. row \in Seq(Machines)
      BY DEF ViewInv
    <3>5. IsRow(row, list, view.machine)
      BY <1>1, NoRowYet DEF RowInv
    <3> HIDE DEF list, row
    <3>6. IsRow(visited', list, view'.machine)
      BY <2>3, <3>1, <3>2, <3>3, <3>4, <3>5, RowGoesOn
    <3> QED
      BY <2>1, <3>2, <3>6 DEF RowInv, list
  <2> QED
    BY <2>2, <2>3
<1>5. CASE OnK13
  <2>1. snap' = snap /\ view' = NextSpace(view, snap)
    BY <1>5, NoSpaces DEF OnK13, NextSpace
  <2>2. CASE Len(UniqueSpaces(snap)) = 0
    BY <1>1, <1>5, <2>1, <2>2, NoRowYet DEF OnK13, RowInv
  <2>3. CASE Len(UniqueSpaces(snap)) # 0
    <3> DEFINE list == UniqueSpaces(snap)
               row == IF view.mode = "space" THEN visited ELSE <<>>
    <3>1. list \in Seq(Spaces) /\ Distinct(list)
      BY <1>1, SpacesTyped, SpacesDistinct
    <3>2. view'.mode = "space" /\ view'.space = After(list, view.space)
      BY <1>1, <2>1, <2>3 DEF NextSpace, View
    <3>3. visited' = Extended(row, view'.space, Len(list))
      BY <1>5, <2>3 DEF OnK13
    <3>4. row \in Seq(Spaces)
      BY DEF ViewInv
    <3>5. IsRow(row, list, view.space)
      BY <1>1, NoRowYet DEF RowInv
    <3> HIDE DEF row
    <3>6. IsRow(visited', list, view'.space)
      BY <2>3, <3>1, <3>2, <3>3, <3>4, <3>5, RowGoesOn
    <3> QED
      BY <2>1, <3>2, <3>6 DEF RowInv
  <2> QED
    BY <2>2, <2>3
<1>6. CASE UNCHANGED vars
  BY <1>6 DEF vars, RowInv
<1> QED
  BY <1>2, <1>3, <1>4, <1>5, <1>6 DEF Next

\* As many presses of one key as its list is long select everything in it
\* (builder.go: machineNext, spaceNextIdx), for lists of any length and every
\* snapshot.
THEOREM CycleIsComplete == Spec => []CycleReachesAll
<1>1. Init => RowInv
  BY NoSnapshotIsOne, NoRowYet DEF Init, RowInv
<1>2. ASSUME ViewInv, RowInv PROVE CycleReachesAll
  <2>1. IsSnapshot(snap) /\ view.mode \in {"all", "machine", "space"}
    BY <1>2, SnapIsOne DEF ViewInv, View
  <2>2. Distinct(visited)
    <3>1. CASE view.mode = "all"
      <4>1. visited = <<>> /\ DOMAIN <<>> = {}
        BY <1>2, <3>1 DEF ViewInv
      <4> QED
        BY <4>1 DEF Distinct
    <3>2. CASE view.mode = "machine"
      BY <1>2, <2>1, <3>2, RowDistinct, MachinesTyped, MachinesDistinct DEF RowInv, ViewInv
    <3>3. CASE view.mode = "space"
      BY <1>2, <2>1, <3>3, RowDistinct, SpacesTyped, SpacesDistinct DEF RowInv, ViewInv
    <3> QED
      BY <2>1, <3>1, <3>2, <3>3
  <2> QED
    BY <2>2 DEF Distinct, CycleReachesAll
<1>3. QED
  BY ViewInit, ViewStep, RowStep, <1>1, <1>2, PTL DEF Spec

\* What the keys show is what passes the filters, the most urgent first
\* (builder.go: filterAgents, sortAgents and the cut in Build), for any number
\* of agents and keys.
THEOREM MostUrgentShown == Spec => []UrgentFirst
<1>1. ASSUME ViewInv, ModeNamesSelection PROVE UrgentFirst
  <2> DEFINE passing == {a \in Range(snap.agents) :
                           /\ view.machine # None => a.machine = view.machine
                           /\ view.space # None => a.space = view.space
                           /\ view.activeOnly => a.status \in Active}
             cells == Cells(view, snap)
  <2>1. /\ IsSnapshot(snap)
        /\ view.machine # None => view.space = None
    BY <1>1, SnapIsOne DEF ModeNamesSelection
  <2>2. /\ Len(snap.agents) \in Nat /\ DOMAIN snap.agents = 1 .. Len(snap.agents)
        /\ \A i \in 1 .. Len(snap.agents) : IsAgent(snap.agents[i])
    BY <2>1 DEF IsSnapshot, IsAgent
  <2>3. passing = Passing(view, snap.agents)
    <3>1. \A a : Passes(view, a) <=>
              /\ view.machine # None => a.machine = view.machine
              /\ view.space # None => a.space = view.space
              /\ view.activeOnly => a.status \in Active
      BY <2>1, Zenon DEF Passes
    <3>2. ASSUME NEW a \in passing PROVE a \in Passing(view, snap.agents)
      <4>1. PICK i \in DOMAIN snap.agents : a = snap.agents[i]
        BY DEF Range
      <4>2. Passes(view, snap.agents[i])
        BY <3>1, <4>1, Zenon
      <4> QED
        BY <4>1, <4>2, Zenon DEF Passing
    <3>3. ASSUME NEW a \in Passing(view, snap.agents) PROVE a \in passing
      <4>1. PICK i \in DOMAIN snap.agents : a = snap.agents[i] /\ Passes(view, snap.agents[i])
        BY Zenon DEF Passing
      <4>2. a \in Range(snap.agents) /\ Passes(view, a)
        BY <4>1, Zenon DEF Range
      <4> QED
        BY <3>1, <4>2, Zenon
    <3> HIDE DEF passing
    <3> QED
      BY <3>2, <3>3
  <2> HIDE DEF passing
  <2>4. /\ Range(cells) \subseteq passing
        /\ Len(cells) < Slots => Range(cells) = passing
        /\ \A a \in passing \ Range(cells), b \in Range(cells) : ~LessAgent(a, b)
    BY <2>2, <2>3, CellsAreMostUrgent
  <2> QED
    BY <2>4, Zenon DEF UrgentFirst, passing
<1>2. QED
  BY ViewInit, ViewStep, <1>1, PTL DEF Spec

-----------------------------------------------------------------------------
(* The panel: what a frame shows of a snapshot. *)

\* The agents whose machine and space are lit.
LitPlaces(sn) ==
    {i \in DOMAIN sn.agents :
        sn.agents[i].machine \notin hidden /\ sn.agents[i].space \notin dark}

\* How many agents at the places of P have a status.
CountIn(sn, P, st) == Cardinality({i \in P : sn.agents[i].status = st})

\* The labels of a snapshot are those of its agents.
LEMMA SpacesAreLabels ==
    ASSUME NEW sn, IsSnapshot(sn)
    PROVE  {a.space : a \in Range(sn.agents)} \ {None} \subseteq Range(UniqueSpaces(sn))
<1> DEFINE list == sn.agents
           labels == [i \in DOMAIN list |-> list[i].space]
           P == FirstPlaces(list)
<1>1. Len(list) \in Nat /\ DOMAIN list = 1 .. Len(list)
  BY DEF IsSnapshot
<1>2. P \in SUBSET (1 .. Len(list))
  BY <1>1, Zenon DEF FirstPlaces
<1>3. Range(UniqueSpaces(sn)) = {labels[i] : i \in P}
  <2> HIDE DEF P, labels
  <2>1. Range(Picked(labels, P)) = {labels[i] : i \in P}
    BY <1>1, <1>2, PickedElements
  <2> QED
    BY <2>1 DEF UniqueSpaces, P, labels
<1>4. ASSUME NEW i \in 1 .. Len(list), list[i].space # None
      PROVE  \E j \in P : labels[j] = list[i].space
  <2> DEFINE T == {j \in 1 .. Len(list) : list[j].space = list[i].space}
  <2>1. T \in SUBSET Nat /\ T # {}
    OBVIOUS
  <2>2. PICK m \in T : \A j \in T : m <= j
    <3> HIDE DEF T
    <3> QED
      BY <2>1, Least
  <2>3. m \in 1 .. Len(list) /\ list[m].space = list[i].space
    OBVIOUS
  <2>4. \A j \in 1 .. m - 1 : j \in 1 .. Len(list) /\ ~(m <= j)
    BY <1>1, <2>3
  <2>5. \A j \in 1 .. m - 1 : list[j].space # list[m].space
    BY <2>2, <2>3, <2>4
  <2>6. m \in P
    BY <1>1, <1>4, <2>3, <2>5 DEF FirstPlaces
  <2>7. labels[m] = list[m].space
    BY <1>1, <2>3
  <2> QED
    BY <2>3, <2>6, <2>7
<1>5. ASSUME NEW a \in Range(list), a.space # None PROVE a.space \in {labels[i] : i \in P}
  <2>1. PICK i \in 1 .. Len(list) : list[i] = a
    BY <1>1 DEF Range
  <2>2. PICK j \in P : labels[j] = a.space
    BY <1>4, <1>5, <2>1
  <2> HIDE DEF P, labels
  <2> QED
    BY <2>2
<1> HIDE DEF P, labels
<1> QED
  BY <1>3, <1>5

\* What is left of a snapshot is what is lit, and it is counted again.
LEMMA LitSnapshot ==
    ASSUME NEW sn, IsSnapshot(sn)
    PROVE  /\ FilterHidden(sn).agents = Picked(sn.agents, LitPlaces(sn))
           /\ sn # NoSnapshot => FilterHidden(sn).stats = Tally(FilterHidden(sn).agents)
           /\ FilterHidden(sn).machines = sn.machines
<1> DEFINE list == Picked(sn.agents, LitPlaces(sn))
<1>1. DOMAIN sn = {"machines", "agents", "stats"}
  BY DEF IsSnapshot
<1>2. CASE sn = NoSnapshot
  <2>1. FilterHidden(sn) = sn /\ sn.agents = <<>>
    BY <1>2 DEF FilterHidden, NoSnapshot
  <2>2. LitPlaces(sn) = {}
    BY <2>1 DEF LitPlaces
  <2>3. list = <<>>
    BY <2>2, FS_EmptySet DEF Picked
  <2> QED
    BY <1>2, <2>1, <2>3
<1>3. CASE sn # NoSnapshot
  <2>1. FilterHidden(sn) = [sn EXCEPT !.agents = list, !.stats = Tally(list)]
    BY <1>3 DEF FilterHidden, LitPlaces
  <2> HIDE DEF list
  <2> QED
    BY <1>1, <2>1 DEF list
<1> QED
  BY <1>2, <1>3

\* The lit agents are agents of the snapshot, each counted once.
LEMMA LitAgents ==
    ASSUME NEW sn, IsSnapshot(sn)
    PROVE  LET list == FilterHidden(sn).agents
               P == LitPlaces(sn)
           IN  /\ Range(list) = {sn.agents[i] : i \in P}
               /\ Len(list) \in Nat /\ DOMAIN list = 1 .. Len(list)
               /\ \A i \in 1 .. Len(list) : IsAgent(list[i])
<1> DEFINE P == LitPlaces(sn)
           n == Len(sn.agents)
           A == {sn.agents[i] : i \in P}
<1>1. n \in Nat /\ DOMAIN sn.agents = 1 .. n
  BY DEF IsSnapshot
<1>2. P \in SUBSET (1 .. n) /\ \A i \in P : sn.agents[i] \in A /\ IsAgent(sn.agents[i])
  BY <1>1 DEF LitPlaces, IsSnapshot, IsAgent
<1>3. \A a \in A : IsAgent(a)
  BY <1>2
<1> HIDE DEF P, n, A
<1>4. Picked(sn.agents, P) \in Seq(A)
  BY <1>1, <1>2, PickedIsList
<1>5. Range(Picked(sn.agents, P)) = A
  BY <1>1, <1>2, PickedElements DEF A
<1>6. FilterHidden(sn).agents = Picked(sn.agents, P)
  BY LitSnapshot DEF P
<1>7. /\ Len(Picked(sn.agents, P)) \in Nat
      /\ DOMAIN Picked(sn.agents, P) = 1 .. Len(Picked(sn.agents, P))
      /\ \A i \in 1 .. Len(Picked(sn.agents, P)) : Picked(sn.agents, P)[i] \in A
  BY <1>4, LenProperties, ElementOfSeq
<1> QED
  BY <1>3, <1>5, <1>6, <1>7 DEF A, P

\* The counters of the filtered snapshot are the counts of the lit agents.
LEMMA LitCounts ==
    ASSUME NEW sn, IsSnapshot(sn), NEW st \in Statuses
    PROVE  Tally(FilterHidden(sn).agents)[st] = CountIn(sn, LitPlaces(sn), st)
<1> DEFINE P == LitPlaces(sn)
           n == Len(sn.agents)
           list == Picked(sn.agents, P)
           T == {i \in P : sn.agents[i].status = st}
           K == {k \in DOMAIN list : list[k].status = st}
<1>1. n \in Nat /\ DOMAIN sn.agents = 1 .. n
  BY DEF IsSnapshot
<1>2. P \in SUBSET (1 .. n) /\ T \in SUBSET P
  BY <1>1 DEF LitPlaces
<1>3. K = {k \in 1 .. Cardinality(P) : Nth(P, k) \in T}
  <2>1. /\ DOMAIN list = 1 .. Cardinality(P)
        /\ \A k \in 1 .. Cardinality(P) : list[k] = sn.agents[Nth(P, k)]
    BY PickedAt
  <2>2. \A k \in 1 .. Cardinality(P) : Nth(P, k) \in P
    <3> HIDE DEF P
    <3> QED
      BY <1>1, <1>2, NthIsNth
  <2> HIDE DEF P, list
  <2> QED
    BY <2>1, <2>2
<1>4. Cardinality(K) = Cardinality(T)
  <2> HIDE DEF P, K, T
  <2> QED
    BY <1>1, <1>2, <1>3, PickedCount
<1>5. FilterHidden(sn).agents = list
  BY LitSnapshot
<1>6. Tally(list)[st] = Cardinality(K)
  BY DEF Tally
<1> HIDE DEF list, K
<1> QED
  BY <1>4, <1>5, <1>6 DEF CountIn

\* The rows of the grid have the agents of the model, whatever their order.
LEMMA RowsHaveAll ==
    ASSUME NEW m, NEW n \in Nat, DOMAIN m.agents = 1 .. n
    PROVE  UNION {Range(Rows(m)[k]) : k \in DOMAIN Rows(m)} = Range(m.agents)
<1> DEFINE list == m.agents
           Of(k) == {i \in DOMAIN list : list[i].machine = k}
           names == {a.machine : a \in Range(list)}
<1>1. DOMAIN Rows(m) = names /\ \A k \in names : Rows(m)[k] = Picked(list, Of(k))
  BY DEF Rows
<1>2. ASSUME NEW k \in names PROVE Range(Rows(m)[k]) = {list[i] : i \in Of(k)}
  <2>1. Of(k) \in SUBSET (1 .. n)
    OBVIOUS
  <2> DEFINE P == Of(k)
  <2> HIDE DEF P
  <2>2. Range(Picked(list, P)) = {list[i] : i \in P}
    BY <2>1, PickedElements DEF P
  <2> QED
    BY <1>1, <2>2 DEF P
<1>3. ASSUME NEW k \in names, NEW a \in Range(Rows(m)[k]) PROVE a \in Range(list)
  <2>1. PICK i \in Of(k) : a = list[i]
    BY <1>2, <1>3
  <2> QED
    BY <2>1 DEF Range
<1>4. ASSUME NEW a \in Range(list) PROVE \E k \in names : a \in Range(Rows(m)[k])
  <2>1. PICK i \in DOMAIN list : a = list[i]
    BY DEF Range
  <2>2. a.machine \in names /\ i \in Of(a.machine)
    BY <2>1
  <2> QED
    BY <1>2, <2>1, <2>2
<1> HIDE DEF names
<1> QED
  BY <1>1, <1>3, <1>4

\* What is drawn are the lit agents that pass, the most urgent first.
LEMMA DrawnAreLit ==
    ASSUME NEW sn, IsSnapshot(sn), NEW v, NEW m, m = Build(v, FilterHidden(sn), None)
    PROVE  LET passing == {a \in {sn.agents[i] : i \in LitPlaces(sn)} : Passes(v, a)}
               cells == UNION {Range(Rows(m)[k]) : k \in DOMAIN Rows(m)}
           IN  /\ DOMAIN m.agents = 1 .. Len(m.agents) /\ Len(m.agents) \in Nat
               /\ cells \subseteq passing
               /\ Len(m.agents) < Slots => cells = passing
               /\ \A a \in passing \ cells, b \in cells : ~LessAgent(a, b)
<1> DEFINE fs == FilterHidden(sn)
           lit == {sn.agents[i] : i \in LitPlaces(sn)}
           passing == {a \in lit : Passes(v, a)}
           cells == UNION {Range(Rows(m)[k]) : k \in DOMAIN Rows(m)}
<1>1. m.agents = Cells(v, fs)
  BY DEF Build
<1>2. /\ Range(fs.agents) = lit
      /\ Len(fs.agents) \in Nat /\ DOMAIN fs.agents = 1 .. Len(fs.agents)
      /\ \A i \in 1 .. Len(fs.agents) : IsAgent(fs.agents[i])
  BY LitAgents
<1>3. Passing(v, fs.agents) = passing
  <2> HIDE DEF fs, lit
  <2>1. ASSUME NEW a \in Passing(v, fs.agents) PROVE a \in passing
    <3>1. PICK i \in DOMAIN fs.agents : a = fs.agents[i] /\ Passes(v, fs.agents[i])
      BY Zenon DEF Passing
    <3>2. a \in lit /\ Passes(v, a)
      BY <1>2, <3>1, Zenon DEF Range
    <3> QED
      BY <3>2, Zenon
  <2>2. ASSUME NEW a \in passing PROVE a \in Passing(v, fs.agents)
    <3>1. a \in lit /\ Passes(v, a)
      BY Zenon
    <3>2. PICK i \in DOMAIN fs.agents : a = fs.agents[i]
      BY <1>2, <3>1, Zenon DEF Range
    <3>3. Passes(v, fs.agents[i])
      BY <3>1, <3>2, Zenon
    <3> QED
      BY <3>2, <3>3, Zenon DEF Passing
  <2> HIDE DEF passing
  <2> QED
    BY <2>1, <2>2
<1> HIDE DEF fs, lit, passing
<1>4. LET drawn == Cells(v, fs)
      IN  /\ Len(drawn) \in Nat /\ DOMAIN drawn = 1 .. Len(drawn)
          /\ Range(drawn) \subseteq Passing(v, fs.agents)
          /\ Len(drawn) < Slots => Range(drawn) = Passing(v, fs.agents)
          /\ \A a \in Passing(v, fs.agents) \ Range(drawn), b \in Range(drawn) :
                ~LessAgent(a, b)
  BY <1>2, CellsAreMostUrgent
<1>5. cells = Range(m.agents)
  BY <1>1, <1>4, RowsHaveAll
<1> HIDE DEF cells
<1>6. /\ DOMAIN m.agents = 1 .. Len(m.agents) /\ Len(m.agents) \in Nat
      /\ cells \subseteq passing
      /\ Len(m.agents) < Slots => cells = passing
      /\ \A a \in passing \ cells, b \in cells : ~LessAgent(a, b)
  BY <1>1, <1>3, <1>4, <1>5
<1> QED
  BY <1>6, Zenon DEF fs, lit, passing, cells

\* The header counts what is lit, and waits for data when nothing is.
LEMMA HeaderCountsLit ==
    ASSUME NEW sn, IsSnapshot(sn), sn # NoSnapshot, NEW v,
           NEW m, m = Build(v, FilterHidden(sn), None)
    PROVE  /\ Header(m).waiting <=> LitPlaces(sn) = {}
           /\ \A st \in Statuses : Header(m).counts[st] = CountIn(sn, LitPlaces(sn), st)
<1> DEFINE list == FilterHidden(sn).agents
           P == LitPlaces(sn)
           h == Header(m)
<1>1. m.stats = Tally(list)
  BY LitSnapshot DEF Build
<1>2. h.counts = m.stats
  BY DEF Header
<1>3. h.waiting <=> m.stats = Tally(<<>>)
  BY DEF Header
<1>4. \A st \in Statuses : Tally(list)[st] = CountIn(sn, P, st)
  BY LitCounts
<1>5. \A st \in Statuses : Tally(<<>>)[st] = 0
  BY FS_EmptySet DEF Tally
<1> HIDE DEF list, P, h
<1>6. ASSUME P = {} PROVE Tally(list) = Tally(<<>>)
  <2>1. \A st \in Statuses : CountIn(sn, P, st) = 0
    BY <1>6, FS_EmptySet DEF CountIn
  <2>2. \A st \in Statuses : Tally(list)[st] = Tally(<<>>)[st]
    BY <1>4, <1>5, <2>1
  <2> QED
    BY <2>2 DEF Tally
<1>7. ASSUME Tally(list) = Tally(<<>>) PROVE P = {}
  <2> SUFFICES ASSUME NEW i \in P PROVE FALSE
    OBVIOUS
  <2> DEFINE st == sn.agents[i].status
             T == {j \in P : sn.agents[j].status = st}
  <2>1. /\ st \in Statuses /\ i \in T
        /\ P \subseteq 1 .. Len(sn.agents) /\ Len(sn.agents) \in Nat
    BY DEF P, LitPlaces, IsSnapshot
  <2>2. IsFiniteSet(T)
    <3>1. IsFiniteSet(1 .. Len(sn.agents))
      BY <2>1, FS_Interval
    <3>2. T \subseteq 1 .. Len(sn.agents)
      BY <2>1
    <3> QED
      BY <3>1, <3>2, FS_Subset
  <2>3. Cardinality(T) = 0
    BY <1>4, <1>5, <1>7, <2>1 DEF CountIn
  <2> HIDE DEF T
  <2> QED
    BY <2>1, <2>2, <2>3, FS_EmptySet
<1>8. h.waiting <=> P = {}
  BY <1>1, <1>3, <1>6, <1>7, Zenon
<1>9. \A st \in Statuses : h.counts[st] = CountIn(sn, P, st)
  BY <1>1, <1>2, <1>4
<1> QED
  BY <1>8, <1>9, Zenon DEF h, P

-----------------------------------------------------------------------------
(* The panel: clicks, keys and frames. *)

\* In a frame the chips are there for the snapshot it read; the model is the
\* one of the present filters as long as nothing was clicked or pressed.
FrameInv ==
    phase # "wait" =>
        /\ frame.read \in Published \cup {NoSnapshot}
        /\ Range(MachineNames(frame.read)) \subseteq machineClicks
        /\ Range(UniqueSpaces(frame.read)) \subseteq Range(spaceOrder) \cap spaceClicks
        /\ DOMAIN frame.model.agents \subseteq Nat
        /\ inputs = 0 => frame.model = Build(viewState, FilterHidden(frame.read), None)

\* The chips laid out are finitely many, and clicked ones were registered.
BoardInv ==
    board # <<>> =>
        /\ IsFiniteSet(board.machines) /\ IsFiniteSet(board.spaces)
        /\ board.spaces \subseteq spaceClicks
        /\ DOMAIN board.model.agents \subseteq Nat

\* Only a label with a chip is dark, so that a frame that meets a new label
\* lights none up behind the filter's back.
ChipsInv ==
    /\ stored \in Published \cup {NoSnapshot}
    /\ spaceOrder \in Seq(Spaces)
    /\ dark \subseteq spaceClicks
    /\ phase \in {"wait", "clicks", "keys"}
    /\ inputs \in Nat
    /\ phase # "keys" => inputs = 0

\* What BoardMatchesChips says of the snapshot, the view, the chips that are
\* off, the grid, the model and the header of a board.
IsShown(sn, v, offMachines, offSpaces, rows, m, header) ==
    LET lit == {i \in DOMAIN sn.agents :
                  LET a == sn.agents[i]
                  IN  a.machine \notin offMachines /\ a.space \notin offSpaces}
        passing == {a \in {sn.agents[i] : i \in lit} : Passes(v, a)}
        cells == UNION {Range(rows[n]) : n \in DOMAIN rows}
    IN  /\ cells \subseteq passing
        /\ Len(m.agents) < Slots => cells = passing
        /\ \A a \in passing \ cells, b \in cells : ~LessAgent(a, b)
        /\ sn # NoSnapshot =>
              /\ header.waiting <=> lit = {}
              /\ \A st \in Statuses : header.counts[st] =
                    Cardinality({i \in lit : sn.agents[i].status = st})

QuietIsShown ==
    board # <<>> /\ board.quiet =>
        IsShown(board.read, board.viewState, board.dimMachines, board.dimSpaces,
                board.rows, board.model, board.header)

PanelInv ==
    /\ ChipsInv
    /\ FrameInv
    /\ BoardInv
    /\ NeverLockedOut
    /\ QuietIsShown

\* What the store holds is a snapshot, or the one of nothing.
LEMMA PublishedIsOne == \A sn \in Published \cup {NoSnapshot} : IsSnapshot(sn)
BY PublishedAssumption, NoSnapshotIsOne

\* A list has finitely many elements.
LEMMA RangeFinite ==
    ASSUME NEW S, NEW list \in Seq(S)
    PROVE  IsFiniteSet(Range(list))
<1>1. DOMAIN list = 1 .. Len(list) /\ Len(list) \in Nat
  BY LenProperties
<1>2. IsFiniteSet(DOMAIN list)
  BY <1>1, FS_Interval
<1>3. list \in Surjection(DOMAIN list, Range(list))
  BY DEF Range, Surjection
<1> QED
  BY <1>2, <1>3, FS_Surjection

\* The panel starts without a board.
LEMMA PanelStart == PanelInit => PanelInv
<1> SUFFICES ASSUME PanelInit PROVE PanelInv
  OBVIOUS
<1>1. ChipsInv
  BY DEF PanelInit, ChipsInv
<1>2. phase = "wait" /\ board = <<>>
  BY DEF PanelInit
<1> QED
  BY <1>1, <1>2, Zenon DEF PanelInv, FrameInv, BoardInv, NeverLockedOut, QuietIsShown

\* A step that lays out no board leaves what was true of the last one.
LEMMA BoardStays ==
    ASSUME PanelInv, board' = board, spaceClicks \subseteq spaceClicks'
    PROVE  BoardInv' /\ NeverLockedOut' /\ QuietIsShown'
<1>1. BoardInv' /\ NeverLockedOut'
  BY DEF PanelInv, BoardInv, NeverLockedOut
<1>2. QuietIsShown'
  BY Zenon DEF PanelInv, QuietIsShown
<1> QED
  BY <1>1, <1>2

\* The model of the present filters is the same until one of them changes.
LEMMA ModelStays ==
    ASSUME UNCHANGED <<frame, viewState, hidden, dark>>
    PROVE  Build(viewState, FilterHidden(frame.read), None)'
               = Build(viewState, FilterHidden(frame.read), None)
<1>1. frame' = frame /\ viewState' = viewState /\ hidden' = hidden /\ dark' = dark
  OBVIOUS
<1>2. FilterHidden(frame.read)' = FilterHidden(frame.read)
  BY <1>1 DEF FilterHidden
<1> QED
  BY <1>1, <1>2

\* A snapshot that comes concerns neither the frame under way nor the board.
LEMMA PumpStep == ASSUME PanelInv, NatsPump PROVE PanelInv'
<1>1. /\ stored' \in Published
      /\ UNCHANGED <<viewState, hidden, inputVars, frameVars, board>>
  BY DEF NatsPump, boardVars
<1>2. /\ UNCHANGED <<frame, viewState, hidden, dark>>
      /\ UNCHANGED <<machineClicks, spaceClicks, spaceOrder, phase, inputs, board>>
  BY <1>1 DEF inputVars, frameVars
<1>3. ChipsInv'
  BY <1>1, <1>2 DEF PanelInv, ChipsInv
<1>4. FrameInv'
  BY <1>2, ModelStays DEF PanelInv, FrameInv
<1> QED
  BY <1>2, <1>3, <1>4, BoardStays DEF PanelInv

\* A step that changes nothing changes nothing here.
LEMMA StutterStep == ASSUME PanelInv, UNCHANGED panelVars PROVE PanelInv'
<1>1. /\ UNCHANGED <<frame, viewState, hidden, dark>>
      /\ UNCHANGED <<stored, machineClicks, spaceClicks, spaceOrder, phase, inputs, board>>
  BY DEF panelVars, storeVars, inputVars, frameVars, boardVars
<1>2. ChipsInv'
  BY <1>1 DEF PanelInv, ChipsInv
<1>3. FrameInv'
  BY <1>1, ModelStays DEF PanelInv, FrameInv
<1> QED
  BY <1>1, <1>2, <1>3, BoardStays DEF PanelInv

\* Whatever key it is, it only ends the time in which nothing was pressed.
LEMMA KeyStep == ASSUME PanelInv, HandleKeys PROVE PanelInv'
<1>1. /\ phase = "keys" /\ phase' = "keys" /\ inputs' = inputs + 1
      /\ UNCHANGED <<stored, hidden, inputVars, frame, board>>
  BY DEF HandleKeys, Key, KeyA, KeyM, KeyP, KeyR, KeyEscape, KeyEnter, KeyDigit, boardVars
<1>2. UNCHANGED <<stored, machineClicks, spaceClicks, spaceOrder, dark, frame, board>>
  BY <1>1 DEF inputVars
<1>3. inputs' \in Nat /\ inputs' # 0
  BY <1>1 DEF PanelInv, ChipsInv
<1>4. ChipsInv'
  BY <1>1, <1>2, <1>3 DEF PanelInv, ChipsInv
<1>5. FrameInv'
  BY <1>1, <1>2, <1>3 DEF PanelInv, FrameInv
<1> QED
  BY <1>2, <1>4, <1>5, BoardStays DEF PanelInv

\* A frame that begins has chips for what it read, and darkens none.
LEMMA BeginStep == ASSUME PanelInv, BeginFrame PROVE PanelInv'
<1>1. /\ phase = "wait" /\ phase' = "clicks"
      /\ machineClicks' = machineClicks \cup Range(MachineNames(stored))
      /\ spaceClicks' = spaceClicks \cup Range(UniqueSpaces(stored))
      /\ spaceOrder' = IF stored = NoSnapshot THEN spaceOrder ELSE UniqueSpaces(stored)
      /\ dark' = dark \ (Range(UniqueSpaces(stored)) \ spaceClicks)
      /\ UNCHANGED <<stored, viewState, hidden, inputs, board>>
  BY DEF BeginFrame, FrameEvent, SyncMachines, SyncSpaces, storeVars, boardVars
<1>2. /\ frame'.read = stored
      /\ frame'.model = Build(viewState, FilterHidden(stored), None)
  BY Zenon DEF BeginFrame
<1>3. stored \in Published \cup {NoSnapshot} /\ IsSnapshot(stored)
  BY PublishedIsOne DEF PanelInv, ChipsInv
<1>4. dark' = dark
  BY <1>1 DEF PanelInv, ChipsInv
<1>5. spaceOrder' \in Seq(Spaces) /\ Range(UniqueSpaces(stored)) \subseteq Range(spaceOrder')
  <2>1. CASE stored = NoSnapshot
    <3>1. UniqueSpaces(stored) \in Seq(Spaces) /\ Len(UniqueSpaces(stored)) = 0
      BY <1>3, <2>1, SpacesTyped, NoSpaces
    <3>2. DOMAIN UniqueSpaces(stored) = {}
      BY <3>1, LenProperties
    <3>3. Range(UniqueSpaces(stored)) = {}
      BY <3>2 DEF Range
    <3> QED
      BY <1>1, <2>1, <3>3 DEF PanelInv, ChipsInv
  <2>2. CASE stored # NoSnapshot
    BY <1>1, <1>3, <2>2, SpacesTyped
  <2> QED
    BY <2>1, <2>2
<1>6. ChipsInv'
  BY <1>1, <1>3, <1>4, <1>5 DEF PanelInv, ChipsInv
<1>7. FrameInv'
  <2>1. FilterHidden(frame.read)' = FilterHidden(stored)
    BY <1>1, <1>2, <1>4 DEF FilterHidden
  <2>2. Build(viewState, FilterHidden(frame.read), None)' = frame'.model
    BY <1>1, <1>2, <2>1
  <2>3. DOMAIN frame'.model.agents \subseteq Nat
    BY <1>2, <1>3, DrawnAreLit
  <2> QED
    BY <1>1, <1>2, <1>3, <1>5, <2>2, <2>3 DEF FrameInv
<1> QED
  BY <1>1, <1>6, <1>7, BoardStays DEF PanelInv

\* Without a click nothing is filtered anew; every click counts as an input.
LEMMA ClickStep ==
    ASSUME PanelInv, NEW act \in BOOLEAN, NEW ms \in SUBSET Machines,
           NEW ss \in SUBSET Spaces, HandleClicks(act, ms, ss)
    PROVE  PanelInv'
<1>1. /\ phase = "clicks" /\ phase' = "keys"
      /\ board = <<>> => ms = {} /\ ss = {}
      /\ board # <<>> => ms \subseteq board.machines /\ ss \subseteq board.spaces
      /\ hidden' = Toggled(hidden, ms)
      /\ dark' = Toggled(dark, ss)
      /\ UNCHANGED <<stored, machineClicks, spaceClicks, spaceOrder, frame, board>>
  BY DEF HandleClicks, boardVars
<1>2. IsFiniteSet(ms) /\ IsFiniteSet(ss) /\ ss \subseteq spaceClicks
  <2>1. CASE board = <<>>
    BY <1>1, <2>1, FS_EmptySet
  <2>2. CASE board # <<>>
    BY <1>1, <2>2, FS_Subset DEF PanelInv, BoardInv
  <2> QED
    BY <2>1, <2>2
<1>3. /\ Cardinality(ms) \in Nat /\ Cardinality(ss) \in Nat
      /\ Cardinality(ms) = 0 => ms = {}
      /\ Cardinality(ss) = 0 => ss = {}
  BY <1>2, FS_CardinalityType, FS_EmptySet
<1>4. /\ inputs' \in Nat
      /\ inputs' = 0 => viewState' = viewState /\ ms = {} /\ ss = {}
  <2>1. CASE act
    <3>1. inputs' = 1 + Cardinality(ms) + Cardinality(ss)
      BY <2>1 DEF HandleClicks
    <3> QED
      BY <1>3, <3>1
  <2>2. CASE ~act
    <3>1. inputs' = 0 + Cardinality(ms) + Cardinality(ss) /\ viewState' = viewState
      BY <2>2 DEF HandleClicks
    <3>2. /\ inputs' \in Nat
          /\ inputs' = 0 => Cardinality(ms) = 0 /\ Cardinality(ss) = 0
      BY <1>3, <3>1
    <3> QED
      BY <1>3, <3>1, <3>2
  <2> QED
    BY <2>1, <2>2
<1>5. dark' \subseteq spaceClicks'
  BY <1>1, <1>2 DEF PanelInv, ChipsInv, Toggled
<1>6. ChipsInv'
  BY <1>1, <1>4, <1>5 DEF PanelInv, ChipsInv
<1>7. FrameInv'
  <2>1. ASSUME inputs' = 0
        PROVE  frame'.model = Build(viewState, FilterHidden(frame.read), None)'
    <3>1. UNCHANGED <<frame, viewState, hidden, dark>>
      BY <1>1, <1>4, <2>1 DEF Toggled
    <3>2. frame.model = Build(viewState, FilterHidden(frame.read), None)
      BY <1>1 DEF PanelInv, ChipsInv, FrameInv
    <3> QED
      BY <3>1, <3>2, ModelStays
  <2> QED
    BY <1>1, <2>1 DEF PanelInv, FrameInv
<1> QED
  BY <1>1, <1>6, <1>7, BoardStays DEF PanelInv

\* Laying out makes a board of the frame, which agrees with its chips when quiet.
LEMMA LayoutStep == ASSUME PanelInv, LayoutBoard PROVE PanelInv'
<1> DEFINE sn == frame.read
           m == frame.model
           b == [model |-> m, read |-> sn, header |-> Header(m), rows |-> Rows(m),
                 machines |-> MachineChips(sn), spaces |-> SpaceChips,
                 dimMachines |-> hidden, dimSpaces |-> dark,
                 viewState |-> viewState, quiet |-> inputs = 0]
<1>1. /\ phase = "keys" /\ phase' = "wait" /\ inputs' = 0 /\ board' = b
      /\ UNCHANGED <<stored, viewState, hidden, machineClicks, spaceClicks, spaceOrder, dark>>
  BY DEF LayoutBoard, storeVars, inputVars
<1>2. /\ b.model = m /\ b.read = sn /\ b.header = Header(m) /\ b.rows = Rows(m)
      /\ b.machines = MachineChips(sn) /\ b.spaces = SpaceChips
      /\ b.dimMachines = hidden /\ b.dimSpaces = dark /\ b.viewState = viewState
  OBVIOUS
<1>3. b.quiet <=> inputs = 0
  BY Zenon
<1>4. /\ IsSnapshot(sn)
      /\ Range(MachineNames(sn)) \subseteq machineClicks
      /\ Range(UniqueSpaces(sn)) \subseteq Range(spaceOrder) \cap spaceClicks
      /\ DOMAIN m.agents \subseteq Nat
      /\ inputs = 0 => m = Build(viewState, FilterHidden(sn), None)
  BY <1>1, PublishedIsOne DEF PanelInv, FrameInv
<1> HIDE DEF b
<1>5. ChipsInv' /\ FrameInv'
  BY <1>1 DEF PanelInv, ChipsInv, FrameInv
<1>6. BoardInv'
  <2>1. IsFiniteSet(Range(MachineNames(sn))) /\ IsFiniteSet(Range(spaceOrder))
    BY <1>4, MachinesTyped, RangeFinite DEF PanelInv, ChipsInv
  <2>2. IsFiniteSet(b.machines) /\ IsFiniteSet(b.spaces) /\ b.spaces \subseteq spaceClicks
    BY <1>2, <2>1, FS_Subset DEF MachineChips, SpaceChips
  <2> QED
    BY <1>1, <1>2, <1>4, <2>2 DEF BoardInv
<1>7. NeverLockedOut'
  <2>1. Range(MachineNames(sn)) \subseteq b.machines
    BY <1>2, <1>4 DEF MachineChips
  <2>2. {a.space : a \in Range(sn.agents)} \ {None} \subseteq b.spaces
    BY <1>2, <1>4, SpacesAreLabels DEF SpaceChips
  <2> QED
    BY <1>1, <1>2, <2>1, <2>2 DEF NeverLockedOut
<1>8. ASSUME inputs = 0
      PROVE  IsShown(sn, viewState, hidden, dark, Rows(m), m, Header(m))
  <2> DEFINE lit == LitPlaces(sn)
             passing == {a \in {sn.agents[i] : i \in lit} : Passes(viewState, a)}
             cells == UNION {Range(Rows(m)[k]) : k \in DOMAIN Rows(m)}
  <2>1. m = Build(viewState, FilterHidden(sn), None)
    BY <1>4, <1>8
  <2>2. /\ cells \subseteq passing
        /\ Len(m.agents) < Slots => cells = passing
        /\ \A a \in passing \ cells, c \in cells : ~LessAgent(a, c)
    BY <1>4, <2>1, DrawnAreLit
  <2>3. sn # NoSnapshot =>
           /\ Header(m).waiting <=> lit = {}
           /\ \A st \in Statuses : Header(m).counts[st] =
                 Cardinality({i \in lit : sn.agents[i].status = st})
    BY <1>4, <2>1, HeaderCountsLit DEF CountIn
  <2> QED
    BY <2>2, <2>3, Zenon DEF IsShown, LitPlaces
<1>9. QuietIsShown'
  <2>1. board'.quiet => IsShown(b.read, b.viewState, b.dimMachines, b.dimSpaces,
                                b.rows, b.model, b.header)
    BY <1>1, <1>2, <1>3, <1>8, Zenon
  <2> QED
    BY <1>1, <2>1, Zenon DEF QuietIsShown
<1> QED
  BY <1>5, <1>6, <1>7, <1>9 DEF PanelInv

\* Every step of the panel keeps the invariant.
LEMMA PanelStep == PanelInv /\ [PanelNext]_panelVars => PanelInv'
<1> SUFFICES ASSUME PanelInv, [PanelNext]_panelVars PROVE PanelInv'
  OBVIOUS
<1>1. CASE Clicks
  <2>1. PICK act \in BOOLEAN, ms \in SUBSET Machines, ss \in SUBSET Spaces :
           HandleClicks(act, ms, ss)
    BY <1>1 DEF Clicks
  <2> QED
    BY <2>1, ClickStep
<1> QED
  BY <1>1, PumpStep, BeginStep, KeyStep, LayoutStep, StutterStep DEF PanelNext

\* Whatever was hidden can be brought back: each machine and label of the
\* snapshot drawn has its chip (app.go gives SyncMachines and SyncSpaces the
\* snapshot before filterHiddenMachines).
THEOREM ChipsForAll == PanelSpec => []NeverLockedOut
<1>1. PanelInv => NeverLockedOut
  BY DEF PanelInv
<1> QED
  BY PanelStart, PanelStep, <1>1, PTL DEF PanelSpec

\* What a frame without input draws is what its chips and its view let
\* through, the most urgent first, counted in the header.
THEOREM BoardIsWhatIsLit == PanelSpec => []BoardMatchesChips
<1>1. PanelInv => BoardMatchesChips
  BY Zenon DEF PanelInv, QuietIsShown, IsShown, BoardMatchesChips
<1> QED
  BY PanelStart, PanelStep, <1>1, PTL DEF PanelSpec

\* When no two cells of a list share a pane id, the last of a pane id is the
\* only one, and a cell is new exactly when the map of old statuses says so.
LEMMA AlertMeansEntry ==
    ASSUME NEW old, NEW new, DOMAIN old \subseteq Nat,
           \A i, j \in DOMAIN old : old[i].pane = old[j].pane => i = j,
           \A a \in Range(old), b \in Range(new) :
              a.pane = b.pane => a.machine = b.machine
    PROVE  CheckAlert(old, new) <=>
              \E a \in Range(new) :
                 /\ a.status \in Watched
                 /\ \A b \in Range(old) : <<b.machine, b.pane, b.status>>
                                              # <<a.machine, a.pane, a.status>>
<1>1. ASSUME CheckAlert(old, new)
      PROVE  \E a \in Range(new) :
                 /\ a.status \in Watched
                 /\ \A b \in Range(old) : <<b.machine, b.pane, b.status>>
                                              # <<a.machine, a.pane, a.status>>
  <2>1. PICK i \in DOMAIN new :
           /\ new[i].status \in Watched
           /\ \A j \in {j \in DOMAIN old : old[j].pane = new[i].pane} :
                 (\A k \in {k \in DOMAIN old : old[k].pane = new[i].pane} : k <= j)
                    => old[j].status # new[i].status
    BY <1>1 DEF CheckAlert, ShouldAlert
  <2>2. ASSUME NEW j \in DOMAIN old, old[j].pane = new[i].pane
        PROVE  old[j].status # new[i].status
    <3>1. \A k \in DOMAIN old : old[k].pane = new[i].pane => k = j /\ k <= j
      BY <2>2
    <3> QED
      BY <2>1, <2>2, <3>1
  <2>3. ASSUME NEW b \in Range(old)
        PROVE  b.pane # new[i].pane \/ b.status # new[i].status
    <3>1. PICK j \in DOMAIN old : b = old[j]
      BY DEF Range
    <3> QED
      BY <2>2, <3>1
  <2>4. new[i] \in Range(new)
    BY DEF Range
  <2> QED
    BY <2>1, <2>3, <2>4
<1>2. ASSUME NEW a \in Range(new), a.status \in Watched,
             \A b \in Range(old) : <<b.machine, b.pane, b.status>>
                                       # <<a.machine, a.pane, a.status>>
      PROVE  CheckAlert(old, new)
  <2>1. PICK i \in DOMAIN new : a = new[i]
    BY DEF Range
  <2>2. ASSUME NEW j \in DOMAIN old, old[j].pane = a.pane PROVE old[j].status # a.status
    <3>1. old[j] \in Range(old)
      BY DEF Range
    <3>2. old[j].machine = a.machine
      BY <2>2, <3>1
    <3> QED
      BY <1>2, <2>2, <3>1, <3>2
  <2> QED
    BY <1>2, <2>1, <2>2 DEF CheckAlert, ShouldAlert
<1> QED
  BY <1>1, <1>2

\* An alert is raised exactly when a cell has come to a watched status
\* (app.go: checkAlert after LayoutBoard), when pane ids tell the cells apart.
THEOREM AlertIsEntry == PanelSpec => AlertsOnEntry
<1> DEFINE old == board.model.agents
           new == Range(board'.model.agents)
           Apart == /\ \A i, j \in DOMAIN old : old[i].pane = old[j].pane => i = j
                    /\ \A a \in Range(old), b \in new :
                          a.pane = b.pane => a.machine = b.machine
           Entered(a) == /\ a.status \in Watched
                         /\ \A b \in Range(old) :
                               <<b.machine, b.pane, b.status>>
                                  # <<a.machine, a.pane, a.status>>
           Exact == phase = "keys" /\ phase' = "wait" /\ board # <<>>
                       => (Apart => (alerted' <=> \E a \in new : Entered(a)))
<1>1. PanelInv /\ [PanelNext]_panelVars => [Exact]_panelVars
  <2> SUFFICES ASSUME PanelInv, PanelNext, phase = "keys", phase' = "wait",
                      board # <<>>, Apart
               PROVE  alerted' <=> \E a \in new : Entered(a)
    BY Zenon
  <2>1. LayoutBoard
    BY DEF PanelNext, NatsPump, frameVars, BeginFrame, Clicks, HandleClicks, HandleKeys,
           Key, KeyA, KeyM, KeyP, KeyR, KeyEscape, KeyEnter, KeyDigit
  <2>2. board'.model = frame.model
    BY <2>1 DEF LayoutBoard
  <2>3. alerted' <=> CheckAlert(old, frame.model.agents)
    BY <2>1, Zenon DEF LayoutBoard
  <2>4. DOMAIN old \subseteq Nat
    BY DEF PanelInv, BoardInv
  <2>5. CheckAlert(old, board'.model.agents) <=> \E a \in new : Entered(a)
    BY <2>4, AlertMeansEntry
  <2> QED
    BY <2>2, <2>3, <2>5, Zenon
<1> QED
  BY PanelStart, PanelStep, <1>1, PTL DEF PanelSpec, AlertsOnEntry
=============================================================================
