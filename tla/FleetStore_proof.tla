------------------------- MODULE FleetStore_proof -------------------------
(***************************************************************************)
(* Proofs about FleetStore, for every set of connections, every naming of  *)
(* them, and every report and failure a fetch can bring.                   *)
(***************************************************************************)
EXTENDS FleetStore, FiniteSetTheorems, TLAPS

LOCAL P == INSTANCE Positions_proof

USE ConnsAssumption, ReportsAssumption, MaxSeqAssumption

----------------------------------------------------------------------------
(* Sequences *)

\* Concatenation, position by position.
LEMMA ConcatProps ==
    ASSUME NEW S, NEW s \in Seq(S), NEW t \in Seq(S)
    PROVE  /\ s \o t \in Seq(S)
           /\ Len(s \o t) = Len(s) + Len(t)
           /\ \A i \in 1..Len(s) : (s \o t)[i] = s[i]
           /\ \A i \in 1..Len(t) : (s \o t)[Len(s) + i] = t[i]
  OBVIOUS

\* Appending, position by position.
LEMMA AppendProps ==
    ASSUME NEW S, NEW s \in Seq(S), NEW e \in S
    PROVE  /\ Append(s, e) \in Seq(S)
           /\ Len(Append(s, e)) = Len(s) + 1
           /\ \A i \in 1..Len(s) : Append(s, e)[i] = s[i]
           /\ Append(s, e)[Len(s) + 1] = e
  OBVIOUS

\* A sequence is indexed from one to its length.
LEMMA SeqProps ==
    ASSUME NEW S, NEW s \in Seq(S)
    PROVE  Len(s) \in Nat /\ DOMAIN s = 1..Len(s)
  OBVIOUS

\* What a concatenation holds is what its two parts hold.
LEMMA ElementsConcat ==
    ASSUME NEW S, NEW s \in Seq(S), NEW t \in Seq(S)
    PROVE  Elements(s \o t) = Elements(s) \cup Elements(t)
<1>1. /\ DOMAIN s = 1..Len(s) /\ DOMAIN t = 1..Len(t)
      /\ DOMAIN (s \o t) = 1..(Len(s) + Len(t))
      /\ Len(s) \in Nat /\ Len(t) \in Nat
  BY ConcatProps
<1>2. ASSUME NEW x \in Elements(s \o t) PROVE x \in Elements(s) \cup Elements(t)
  <2>1. PICK i \in 1..(Len(s) + Len(t)) : x = (s \o t)[i]
    BY <1>1 DEF Elements
  <2>2. CASE i <= Len(s)
    BY <1>1, <2>1, <2>2, ConcatProps DEF Elements
  <2>3. CASE i > Len(s)
    <3>1. i - Len(s) \in 1..Len(t) /\ i = Len(s) + (i - Len(s))
      BY <1>1, <2>3
    <3> QED
      BY <1>1, <2>1, <3>1, ConcatProps DEF Elements
  <2> QED
    BY <1>1, <2>2, <2>3
<1>3. ASSUME NEW x \in Elements(s) PROVE x \in Elements(s \o t)
  <2>1. PICK i \in 1..Len(s) : x = s[i]
    BY <1>1, <1>3 DEF Elements
  <2> QED
    BY <1>1, <2>1, ConcatProps DEF Elements
<1>4. ASSUME NEW x \in Elements(t) PROVE x \in Elements(s \o t)
  <2>1. PICK i \in 1..Len(t) : x = t[i]
    BY <1>1, <1>4 DEF Elements
  <2>2. Len(s) + i \in 1..(Len(s) + Len(t)) /\ x = (s \o t)[Len(s) + i]
    BY <1>1, <2>1, ConcatProps
  <2> QED
    BY <1>1, <2>2 DEF Elements
<1> QED
  BY <1>2, <1>3, <1>4

\* Appending adds one element.
LEMMA ElementsAppend ==
    ASSUME NEW S, NEW s \in Seq(S), NEW e \in S
    PROVE  Elements(Append(s, e)) = Elements(s) \cup {e}
<1>1. DOMAIN s = 1..Len(s) /\ DOMAIN Append(s, e) = 1..(Len(s) + 1) /\ Len(s) \in Nat
  BY AppendProps
<1> QED
  BY <1>1, AppendProps DEF Elements

\* The positions of a sequence that hold a given status.
Positions(s, st) == {i \in DOMAIN s : s[i].status = st}

\* The positions of a status are finitely many.
LEMMA PositionsFinite ==
    ASSUME NEW S, NEW s \in Seq(S), NEW st
    PROVE  IsFiniteSet(Positions(s, st)) /\ Cardinality(Positions(s, st)) \in Nat
<1>1. Positions(s, st) \in SUBSET (1..Len(s)) /\ Len(s) \in Nat
  BY DEF Positions
<1>2. IsFiniteSet(1..Len(s))
  BY <1>1, FS_Interval
<1> QED
  BY <1>1, <1>2, FS_Subset, FS_CardinalityType

\* Counting a status in a concatenation adds the counts of its parts.
LEMMA TallyConcat ==
    ASSUME NEW S, NEW s \in Seq(S), NEW t \in Seq(S), NEW st \in Statuses
    PROVE  Tally(s \o t)[st] = Tally(s)[st] + Tally(t)[st]
<1> DEFINE A == Positions(s, st)
           B == Positions(t, st)
           shift(i) == Len(s) + i
           C == {shift(i) : i \in B}
<1>1. /\ DOMAIN s = 1..Len(s) /\ DOMAIN t = 1..Len(t)
      /\ DOMAIN (s \o t) = 1..(Len(s) + Len(t))
      /\ Len(s) \in Nat /\ Len(t) \in Nat
  BY ConcatProps
<1>2. Positions(s \o t, st) = A \cup C
  <2>1. ASSUME NEW i \in Positions(s \o t, st) PROVE i \in A \cup C
    <3>1. i \in 1..(Len(s) + Len(t)) /\ (s \o t)[i].status = st
      BY <1>1 DEF Positions
    <3>2. CASE i <= Len(s)
      BY <1>1, <3>1, <3>2, ConcatProps DEF Positions
    <3>3. CASE i > Len(s)
      <4>1. i - Len(s) \in 1..Len(t) /\ i = shift(i - Len(s))
        BY <1>1, <3>1, <3>3
      <4>2. t[i - Len(s)].status = st
        BY <3>1, <4>1, ConcatProps
      <4> QED
        BY <1>1, <4>1, <4>2 DEF Positions
    <3> QED
      BY <1>1, <3>1, <3>2, <3>3
  <2>2. ASSUME NEW i \in A PROVE i \in Positions(s \o t, st)
    BY <1>1, ConcatProps DEF Positions
  <2>3. ASSUME NEW i \in B PROVE shift(i) \in Positions(s \o t, st)
    <3>1. i \in 1..Len(t) /\ t[i].status = st
      BY <1>1 DEF Positions
    <3>2. shift(i) \in 1..(Len(s) + Len(t)) /\ (s \o t)[shift(i)] = t[i]
      BY <1>1, <3>1, ConcatProps
    <3> QED
      BY <1>1, <3>1, <3>2 DEF Positions
  <2> QED
    BY <2>1, <2>2, <2>3
<1>3. A \cap C = {}
  BY <1>1 DEF Positions
<1>4. IsFiniteSet(A) /\ IsFiniteSet(B) /\ Cardinality(A) \in Nat /\ Cardinality(B) \in Nat
  BY PositionsFinite
<1>5. IsFiniteSet(C) /\ Cardinality(C) = Cardinality(B)
  <2> DEFINE f == [i \in B |-> shift(i)]
  <2>1. f \in Bijection(B, C)
    <3>1. f \in [B -> C]
      OBVIOUS
    <3>2. \A i, j \in B : f[i] = f[j] => i = j
      BY <1>1 DEF Positions
    <3>3. \A c \in C : \E i \in B : f[i] = c
      OBVIOUS
    <3> QED
      BY <3>1, <3>2, <3>3 DEF Bijection, Injection, Surjection, IsInjective
  <2>2. ExistsBijection(B, C)
    BY <2>1 DEF ExistsBijection
  <2> QED
    BY <1>4, <2>2, FS_Bijection
<1> HIDE DEF A, B, C
<1>6. Cardinality(A \cup C) = Cardinality(A) + Cardinality(B)
  <2>1. Cardinality(A \cap C) = 0
    BY <1>3, FS_EmptySet
  <2>2. Cardinality(A \cup C) = Cardinality(A) + Cardinality(C) - Cardinality(A \cap C)
    BY <1>4, <1>5, FS_Union
  <2> QED
    BY <1>4, <1>5, <2>1, <2>2
<1>7. Cardinality(Positions(s \o t, st)) = Cardinality(A) + Cardinality(B)
  BY <1>2, <1>6
<1> QED
  BY <1>7 DEF Tally, Positions, A, B

----------------------------------------------------------------------------
(* The inductive invariant *)

\* Names are entered in order once, when their machine is.
OrderInv ==
    /\ Elements(order) = DOMAIN machines
    /\ \A i, j \in DOMAIN order : order[i] = order[j] => i = j

\* A machine's state is what its last result and last success made it.
MachineInv ==
    /\ \A n \in DOMAIN machines :
          /\ machines[n].health = IF ok[n] THEN "online" ELSE "offline"
          /\ machines[n].agents = good[n]
    /\ \A n \in Names \ DOMAIN machines : good[n] = <<>>

\* x stands before y among the first k names.
Before(x, y, k) == \E a, b \in 1..k : a < b /\ order[a] = x /\ order[b] = y

Among(x, k) == \E a \in 1..k : order[a] = x

\* The machines of a list stand in it as they do in the first k names.
Lists(ms, k) ==
    /\ \A i \in DOMAIN ms : Among(ms[i].name, k)
    /\ \A i, j \in DOMAIN ms : i < j => Before(ms[i].name, ms[j].name, k)

NamesIn(ms) == {ms[i].name : i \in DOMAIN ms}

LastKnownIn(s) ==
    /\ \A i \in DOMAIN s.machines :
          s.machines[i].health = IF ok[s.machines[i].name] THEN "online" ELSE "offline"
    /\ Elements(s.agents) = UNION {Elements(good[n]) : n \in NamesIn(s.machines)}

SnapshotInv ==
    /\ Lists(snapshot.machines, Len(order))
    /\ snapshot.stats = Tally(snapshot.agents)
    /\ phase = "idle" => LastKnownIn(snapshot)

PartialInv ==
    phase = "build" =>
        /\ Lists(partial.machines, next - 1)
        /\ partial.stats = Tally(partial.agents)
        /\ LastKnownIn(partial)

IInv ==
    /\ TypeOK
    /\ OrderInv
    /\ MachineInv
    /\ SnapshotInv
    /\ PartialInv
    /\ phase # "idle" => seq < MaxSeq

\* The empty snapshot of NewStore.
LEMMA NothingProps ==
    /\ Nothing \in Snapshots
    /\ \A k : Lists(Nothing.machines, k)
    /\ Nothing.stats = Tally(Nothing.agents)
    /\ LastKnownIn(Nothing)
<1>1. DOMAIN <<>> = {}
  OBVIOUS
<1>2. Nothing \in Snapshots
  BY DEF Nothing, Snapshots, NoStats
<1>3. Nothing.stats = Tally(Nothing.agents)
  BY <1>1, FS_EmptySet DEF Nothing, NoStats, Tally
<1> QED
  BY <1>1, <1>2, <1>3 DEF Nothing, Lists, LastKnownIn, NamesIn, Elements

\* The start.
LEMMA InitIInv == Init => IInv
<1> SUFFICES ASSUME Init PROVE IInv
  OBVIOUS
<1>1. machines = NoView /\ DOMAIN machines = {} /\ order = <<>> /\ DOMAIN order = {}
  BY DEF Init, NoView
<1>2. changed \in BOOLEAN
  BY Zenon DEF Init
<1>3. TypeOK
  <2>1. ok \in [Names -> BOOLEAN] /\ good \in [Names -> Seq(Agents)]
    BY DEF Init
  <2>2. machines \in [DOMAIN machines -> MachineStates]
    BY <1>1 DEF NoView
  <2> QED
    BY <1>1, <1>2, <2>1, <2>2, NothingProps DEF Init, TypeOK
<1>4. OrderInv /\ MachineInv
  BY <1>1 DEF Init, OrderInv, MachineInv, Elements
<1>5. SnapshotInv /\ PartialInv
  BY NothingProps DEF Init, SnapshotInv, PartialInv
<1> QED
  BY <1>3, <1>4, <1>5 DEF IInv, Init

----------------------------------------------------------------------------
(* Steps *)

\* What one turn of the first loop does to order and machines, whatever the
\* outcome: entering a name keeps OrderInv, typing, and all listings.
LEMMA EnterProps ==
    ASSUME IInv, NEW n \in Names, NEW state \in MachineStates,
           order' = Enter(n), machines' = Updated(n, state)
    PROVE  /\ order' \in Seq(Names)
           /\ Len(order') >= Len(order)
           /\ \A i \in 1..Len(order) : order'[i] = order[i]
           /\ DOMAIN machines' = DOMAIN machines \cup {n}
           /\ machines' \in [DOMAIN machines' -> MachineStates]
           /\ machines'[n] = state
           /\ \A m \in DOMAIN machines : m # n => machines'[m] = machines[m]
           /\ OrderInv'
<1>1. /\ order \in Seq(Names) /\ Len(order) \in Nat /\ DOMAIN order = 1..Len(order)
      /\ machines \in [DOMAIN machines -> MachineStates]
  BY DEF IInv, TypeOK
<1>2. /\ DOMAIN machines' = DOMAIN machines \cup {n}
      /\ machines' \in [DOMAIN machines' -> MachineStates]
      /\ machines'[n] = state
      /\ \A m \in DOMAIN machines : m # n => machines'[m] = machines[m]
  BY <1>1 DEF Updated
<1>3. CASE n \in DOMAIN machines
  <2>1. order' = order
    BY <1>3 DEF Enter
  <2>2. OrderInv'
    BY <1>2, <1>3, <2>1 DEF IInv, OrderInv, Elements
  <2> QED
    BY <1>1, <1>2, <2>1, <2>2
<1>4. CASE n \notin DOMAIN machines
  <2>1. order' = Append(order, n)
    BY <1>4 DEF Enter
  <2>2. /\ order' \in Seq(Names) /\ Len(order') = Len(order) + 1
        /\ \A i \in 1..Len(order) : order'[i] = order[i]
        /\ order'[Len(order) + 1] = n
        /\ Elements(order') = Elements(order) \cup {n}
    BY <1>1, <2>1, AppendProps, ElementsAppend
  <2>3. DOMAIN order' = 1..(Len(order) + 1)
    BY <2>2
  <2>4. \A i \in 1..Len(order) : order[i] # n
    BY <1>1, <1>4 DEF IInv, OrderInv, Elements
  <2>5. \A i, j \in DOMAIN order' : order'[i] = order'[j] => i = j
    <3> SUFFICES ASSUME NEW i \in DOMAIN order', NEW j \in DOMAIN order',
                        order'[i] = order'[j]
                 PROVE  i = j
      OBVIOUS
    <3>1. i \in 1..(Len(order) + 1) /\ j \in 1..(Len(order) + 1)
      BY <2>3
    <3>2. CASE i \in 1..Len(order) /\ j \in 1..Len(order)
      BY <1>1, <2>2, <3>2 DEF IInv, OrderInv
    <3>3. CASE i = Len(order) + 1 \/ j = Len(order) + 1
      BY <1>1, <2>2, <2>4, <3>1, <3>3
    <3> QED
      BY <1>1, <3>1, <3>2, <3>3
  <2>6. Elements(order') = DOMAIN machines'
    BY <1>2, <2>2 DEF IInv, OrderInv
  <2>7. OrderInv'
    BY <2>5, <2>6 DEF OrderInv, Elements
  <2> QED
    BY <1>1, <1>2, <2>2, <2>7
<1> QED
  BY <1>3, <1>4

\* What holds among the first names holds among more of them.
LEMMA BeforeGrows ==
    ASSUME NEW k \in Nat, k >= 1, NEW x, NEW y
    PROVE  /\ Among(x, k - 1) => Among(x, k)
           /\ Before(x, y, k - 1) => Before(x, y, k)
           /\ Among(order[k], k)
           /\ Among(x, k - 1) => Before(x, order[k], k)
<1>1. (\A a \in 1..(k - 1) : a \in 1..k /\ a < k) /\ k \in 1..k
  OBVIOUS
<1> QED
  BY <1>1 DEF Among, Before

\* The next name in order may be appended to a list of earlier names.
LEMMA ListsAppend ==
    ASSUME NEW S, NEW ms \in Seq(S), NEW e \in S, NEW k \in Nat, k >= 1,
           Lists(ms, k - 1), order[k] = e.name
    PROVE  Lists(Append(ms, e), k)
<1> DEFINE L == Len(ms)
           new == Append(ms, e)
<1>1. /\ L \in Nat /\ DOMAIN ms = 1..L /\ DOMAIN new = 1..(L + 1)
      /\ \A i \in 1..L : new[i] = ms[i]
      /\ new[L + 1] = e
  BY AppendProps
<1> HIDE DEF L, new
<1>2. ASSUME NEW i \in 1..L PROVE Among(new[i].name, k - 1)
  BY <1>1 DEF Lists
<1>3. ASSUME NEW i \in 1..(L + 1) PROVE Among(new[i].name, k)
  <2>1. CASE i \in 1..L
    BY <1>2, <2>1, BeforeGrows
  <2>2. CASE i = L + 1
    BY <1>1, <2>2, BeforeGrows
  <2> QED
    BY <1>1, <2>1, <2>2
<1>4. ASSUME NEW i \in 1..(L + 1), NEW j \in 1..(L + 1), i < j
      PROVE  Before(new[i].name, new[j].name, k)
  <2>1. i \in 1..L
    BY <1>1, <1>4
  <2>2. CASE j \in 1..L
    <3>1. Before(ms[i].name, ms[j].name, k - 1)
      BY <1>1, <1>4, <2>1, <2>2 DEF Lists
    <3> QED
      BY <1>1, <2>1, <2>2, <3>1, BeforeGrows
  <2>3. CASE j = L + 1
    BY <1>1, <1>2, <2>1, <2>3, BeforeGrows
  <2> QED
    BY <1>1, <2>2, <2>3
<1> QED
  BY <1>1, <1>3, <1>4 DEF Lists, new

\* A listing of earlier names is one of the names up to any later place.
LEMMA ListsMore ==
    ASSUME NEW ms, NEW k \in Nat, k >= 1, Lists(ms, k - 1)
    PROVE  Lists(ms, k)
<1>1. ASSUME NEW i \in DOMAIN ms PROVE Among(ms[i].name, k)
  <2>1. Among(ms[i].name, k - 1)
    BY DEF Lists
  <2> QED
    BY <2>1, BeforeGrows
<1>2. ASSUME NEW i \in DOMAIN ms, NEW j \in DOMAIN ms, i < j
      PROVE  Before(ms[i].name, ms[j].name, k)
  <2>1. Before(ms[i].name, ms[j].name, k - 1)
    BY <1>2 DEF Lists
  <2> QED
    BY <2>1, BeforeGrows
<1> QED
  BY <1>1, <1>2 DEF Lists

\* The names of a list with one machine more.
LEMMA NamesAppend ==
    ASSUME NEW S, NEW ms \in Seq(S), NEW e \in S
    PROVE  NamesIn(Append(ms, e)) = NamesIn(ms) \cup {e.name}
<1>1. DOMAIN ms = 1..Len(ms) /\ DOMAIN Append(ms, e) = 1..(Len(ms) + 1) /\ Len(ms) \in Nat
  BY AppendProps
<1> QED
  BY <1>1, AppendProps DEF NamesIn

\* A fetched report becomes a sequence of agents of its machine.
LEMMA AgentsOfType ==
    ASSUME NEW n \in Names, NEW rep \in Reports
    PROVE  AgentsOf(n, rep) \in Seq(Agents)
<1> DEFINE R == [pane : Panes, raw : Raws]
<1>0. rep \in Seq(R)
  BY Zenon, ReportsAssumption
<1> HIDE DEF R
<1>1. Len(rep) \in Nat /\ rep \in [1..Len(rep) -> R]
  BY <1>0
<1>2. ASSUME NEW i \in DOMAIN rep PROVE AgentOf(n, rep[i]) \in Agents
  <2>1. rep[i] \in R
    BY <1>1
  <2>2. MapStatus(rep[i].raw) \in Statuses
    BY DEF MapStatus, Statuses
  <2> QED
    BY <2>1, <2>2 DEF AgentOf, Agents, R
<1>3. Len(rep) \in Nat /\ DOMAIN rep = 1..Len(rep)
  BY <1>1
<1>4. AgentsOf(n, rep) \in [1..Len(rep) -> Agents]
  BY <1>2, <1>3 DEF AgentsOf
<1> QED
  BY <1>3, <1>4

\* A step that leaves the loop's output alone and gives no new outcome.
LEMMA SnapshotStays ==
    ASSUME IInv, UNCHANGED <<snapshot, order, ok, good>>,
           phase' = "idle" => phase = "idle"
    PROVE  SnapshotInv'
  BY DEF IInv, SnapshotInv, Lists, Among, Before, LastKnownIn, NamesIn

\* A step that leaves the partial snapshot alone.
LEMMA PartialStays ==
    ASSUME PartialInv, UNCHANGED <<phase, next, partial, order, ok, good>>
    PROVE  PartialInv'
<1> SUFFICES ASSUME phase = "build" PROVE PartialInv'
  BY DEF PartialInv
<1>1. /\ partial' = partial /\ ok' = ok /\ good' = good /\ order' = order
      /\ next' = next
  OBVIOUS
<1>2. Lists(partial.machines, next - 1)' /\ (partial.stats = Tally(partial.agents))'
  BY <1>1 DEF PartialInv, Lists, Among, Before
<1>3. \A i \in DOMAIN partial'.machines :
         partial'.machines[i].health
            = IF ok'[partial'.machines[i].name] THEN "online" ELSE "offline"
  BY <1>1 DEF PartialInv, LastKnownIn
<1>4. Elements(partial'.agents)
         = UNION {Elements(good'[m]) : m \in NamesIn(partial'.machines)}
  BY <1>1 DEF PartialInv, LastKnownIn
<1>5. LastKnownIn(partial)'
  BY <1>3, <1>4 DEF LastKnownIn, NamesIn, Elements
<1> QED
  BY <1>2, <1>5 DEF PartialInv

\* A turn of the first loop keeps the invariant, for either outcome.
LEMMA ApplyIInv ==
    ASSUME IInv, NEW c \in Conns, NEW state \in MachineStates, Reached(c),
           machines' = Updated(NameOf[c], state),
           good' \in [Names -> Seq(Agents)], ok' \in [Names -> BOOLEAN],
           state.health = IF ok'[NameOf[c]] THEN "online" ELSE "offline",
           state.agents = good'[NameOf[c]],
           \A m \in Names \ {NameOf[c]} : good'[m] = good[m] /\ ok'[m] = ok[m],
           UNCHANGED <<source, phase, next, partial, seq, snapshot, changed>>
    PROVE  IInv'
<1> DEFINE n == NameOf[c]
<1>1. n \in Names /\ order' = Enter(n) /\ phase = "apply"
  BY DEF Reached
<1>2. /\ order' \in Seq(Names) /\ Len(order') >= Len(order)
      /\ \A i \in 1..Len(order) : order'[i] = order[i]
      /\ DOMAIN machines' = DOMAIN machines \cup {n}
      /\ machines' \in [DOMAIN machines' -> MachineStates]
      /\ machines'[n] = state
      /\ \A m \in DOMAIN machines : m # n => machines'[m] = machines[m]
      /\ OrderInv'
  BY <1>1, EnterProps
<1>3. Len(order) \in Nat /\ Len(order') \in Nat
  BY <1>2 DEF IInv, TypeOK
<1>4. TypeOK'
  <2>1. DOMAIN machines' \in SUBSET Names /\ seen' \in SUBSET Names
    BY <1>1, <1>2 DEF IInv, TypeOK, Reached
  <2>2. next' \in 1..(Len(order') + 1)
    BY <1>2, <1>3 DEF IInv, TypeOK
  <2> QED
    BY <1>2, <2>1, <2>2 DEF IInv, TypeOK, Reached
<1>5. MachineInv'
  BY <1>1, <1>2 DEF IInv, TypeOK, MachineInv
<1>6. SnapshotInv'
  <2>1. Lists(snapshot.machines, Len(order))
    BY DEF IInv, SnapshotInv
  <2>2. ASSUME NEW x, NEW y
        PROVE  /\ Among(x, Len(order)) => Among(x, Len(order))'
               /\ Before(x, y, Len(order)) => Before(x, y, Len(order))'
    <3>1. /\ Among(x, Len(order)) => \E a \in 1..Len(order') : order'[a] = x
          /\ Before(x, y, Len(order)) =>
                \E a, b \in 1..Len(order') : a < b /\ order'[a] = x /\ order'[b] = y
      <4> DEFINE k == Len(order)
                 l == Len(order')
      <4>1. k \in Nat /\ l \in Nat /\ k <= l /\ \A i \in 1..k : order'[i] = order[i]
        BY <1>2, <1>3
      <4> HIDE DEF k, l
      <4>2. /\ Among(x, k) => \E a \in 1..l : order'[a] = x
            /\ Before(x, y, k) =>
                  \E a, b \in 1..l : a < b /\ order'[a] = x /\ order'[b] = y
        <5>1. \A a \in 1..k : a \in 1..l
          BY <4>1
        <5> QED
          BY <4>1, <5>1 DEF Among, Before
      <4> QED
        BY <4>2 DEF k, l
    <3> QED
      BY <3>1, Zenon DEF Among, Before
  <2>3. Lists(snapshot.machines, Len(order))'
    BY <2>1, <2>2 DEF Lists
  <2> QED
    BY <1>1, <2>3 DEF IInv, SnapshotInv
<1>7. PartialInv'
  BY <1>1 DEF PartialInv
<1> QED
  BY <1>2, <1>4, <1>5, <1>6, <1>7 DEF IInv

\* A turn of the second loop adds a machine, its agents and their counts.
LEMMA BuildIInv == ASSUME IInv, BuildOne, UNCHANGED source PROVE IInv'
<1> DEFINE n == order[next]
<1>1. /\ phase = "build" /\ next \in 1..Len(order) /\ next' = next + 1
      /\ partial' = IF Listed(n) THEN With(n) ELSE partial
      /\ UNCHANGED <<phase, pending, seen, machines, order, seq, snapshot,
                     changed, good, ok>>
  BY DEF BuildOne, IInv, TypeOK
<1>2. Len(order) \in Nat /\ n \in Names /\ n \in DOMAIN machines
  BY <1>1 DEF IInv, TypeOK, OrderInv, Elements
<1>3. /\ partial \in Snapshots /\ Lists(partial.machines, next - 1)
      /\ partial.stats = Tally(partial.agents) /\ LastKnownIn(partial)
  BY <1>1 DEF IInv, TypeOK, PartialInv
<1>4. CASE ~Listed(n)
  <2>1. Lists(partial.machines, next)
    <3>1. next \in Nat /\ next >= 1
      BY <1>1, <1>2
    <3> QED
      BY <1>3, <3>1, ListsMore
  <2>2. PartialInv'
    <3>1. next' - 1 = next /\ partial' = partial
      BY <1>1, <1>4
    <3>2. Lists(partial.machines, next - 1)'
      <4>1. order' = order
        BY <1>1
      <4> QED
        BY <2>1, <3>1, <4>1 DEF Lists, Among, Before
    <3>3. LastKnownIn(partial)'
      <4>1. UNCHANGED <<partial, ok, good>>
        BY <1>1, <3>1
      <4>2. partial' = partial /\ ok' = ok /\ good' = good
        BY <4>1
      <4>3. \A i \in DOMAIN partial'.machines :
               partial'.machines[i].health
                  = IF ok'[partial'.machines[i].name] THEN "online" ELSE "offline"
        BY <1>3, <4>2 DEF LastKnownIn
      <4>4. Elements(partial'.agents)
               = UNION {Elements(good'[m]) : m \in NamesIn(partial'.machines)}
        BY <1>3, <4>2 DEF LastKnownIn
      <4> QED
        BY <4>3, <4>4 DEF LastKnownIn, NamesIn, Elements
    <3> QED
      BY <1>3, <3>1, <3>2, <3>3 DEF PartialInv
  <2>3. SnapshotInv'
    BY <1>1, SnapshotStays
  <2> QED
    BY <1>1, <1>2, <1>4, <2>2, <2>3 DEF IInv, TypeOK, OrderInv, MachineInv
<1>5. CASE Listed(n)
  <2> DEFINE ms == partial.machines
             ag == machines[n].agents
             L == Len(ms)
  <2>1. /\ partial'.machines = Append(ms, Info(n))
        /\ partial'.agents = partial.agents \o ag
        /\ partial'.stats = AddedStats(n)
        /\ partial' = [machines |-> partial'.machines, agents |-> partial'.agents,
                       stats |-> partial'.stats]
    BY <1>1, <1>5 DEF With
  <2>2. /\ machines[n] \in MachineStates
        /\ ag \in Seq(Agents) /\ partial.agents \in Seq(Agents)
        /\ ms \in Seq(MachineInfos)
        /\ Info(n) \in MachineInfos
        /\ Info(n).name = n /\ Info(n).health = machines[n].health
    BY <1>2, <1>3 DEF IInv, TypeOK, MachineStates, MachineInfos, Snapshots, Info
  <2>3. /\ L \in Nat /\ Len(partial'.machines) = L + 1
        /\ DOMAIN ms = 1..L /\ DOMAIN partial'.machines = 1..(L + 1)
        /\ \A i \in 1..L : partial'.machines[i] = ms[i]
        /\ partial'.machines[L + 1] = Info(n)
    BY <2>1, <2>2, AppendProps
  <2>4. partial'.stats = Tally(partial'.agents)
    <3>1. \A s \in Statuses :
             Tally(partial.agents \o ag)[s] = Tally(partial.agents)[s] + Tally(ag)[s]
      BY <2>2, TallyConcat
    <3>2. Tally(partial.agents \o ag)
             = [s \in Statuses |-> Tally(partial.agents \o ag)[s]]
      BY DEF Tally
    <3>3. AddedStats(n) = [s \in Statuses |-> Tally(partial.agents)[s] + Tally(ag)[s]]
      BY <1>3 DEF AddedStats
    <3> QED
      BY <2>1, <3>1, <3>2, <3>3
  <2>5. partial' \in Snapshots
    <3>1. \A s \in Statuses : Tally(partial'.agents)[s] \in Nat
      <4>1. partial'.agents \in Seq(Agents)
        BY <2>1, <2>2, ConcatProps
      <4> QED
        BY <4>1, PositionsFinite DEF Tally, Positions
    <3>2. partial'.stats \in [Statuses -> Nat]
      BY <2>4, <3>1 DEF Tally
    <3>3. partial'.agents \in Seq(Agents)
      BY <2>1, <2>2, ConcatProps
    <3>4. partial'.machines \in Seq(MachineInfos)
      BY <2>1, <2>2, AppendProps
    <3> QED
      BY <2>1, <3>2, <3>3, <3>4 DEF Snapshots
  <2>6. Lists(partial'.machines, next)
    <3>1. next \in Nat /\ next >= 1 /\ order[next] = Info(n).name
      BY <1>1, <1>2, <2>2
    <3>2. Lists(Append(ms, Info(n)), next)
      BY <1>3, <2>2, <3>1, ListsAppend
    <3> QED
      BY <2>1, <3>2
  <2>7. LastKnownIn(partial')
    <3>1. NamesIn(partial'.machines) = NamesIn(ms) \cup {n}
      BY <2>1, <2>2, NamesAppend
    <3>2. Elements(partial'.agents) = Elements(partial.agents) \cup Elements(ag)
      BY <2>1, <2>2, ElementsConcat
    <3>3. ag = good[n] /\ machines[n].health = IF ok[n] THEN "online" ELSE "offline"
      BY <1>2 DEF IInv, MachineInv
    <3>4. Elements(partial'.agents)
             = UNION {Elements(good[m]) : m \in NamesIn(partial'.machines)}
      BY <1>3, <3>1, <3>2, <3>3 DEF LastKnownIn
    <3>5. ASSUME NEW i \in DOMAIN partial'.machines
          PROVE  partial'.machines[i].health
                    = IF ok[partial'.machines[i].name] THEN "online" ELSE "offline"
      <4>1. CASE i \in 1..L
        <5>1. partial'.machines[i] = ms[i] /\ i \in DOMAIN ms
          BY <2>3, <4>1
        <5>2. ms[i].health = IF ok[ms[i].name] THEN "online" ELSE "offline"
          BY <1>3, <5>1 DEF LastKnownIn
        <5> QED
          BY <5>1, <5>2
      <4>2. CASE i = L + 1
        BY <2>2, <2>3, <3>3, <4>2
      <4> QED
        BY <2>3, <4>1, <4>2
    <3> QED
      BY <3>4, <3>5 DEF LastKnownIn
  <2>8. PartialInv'
    <3>1. next' - 1 = next
      BY <1>1
    <3> QED
      BY <1>1, <2>4, <2>6, <2>7, <3>1 DEF PartialInv, Lists, Among, Before, LastKnownIn, NamesIn
  <2>9. SnapshotInv'
    BY <1>1, SnapshotStays
  <2>10. next' \in 1..(Len(order') + 1)
    BY <1>1, <1>2
  <2> QED
    BY <1>1, <2>5, <2>8, <2>9, <2>10 DEF IInv, TypeOK, OrderInv, MachineInv
<1> QED
  BY <1>4, <1>5

\* No step of a round breaks the invariant.
LEMMA NextIInv == IInv /\ [Next]_vars => IInv'
<1> SUFFICES ASSUME IInv, [Next]_vars PROVE IInv'
  OBVIOUS
<1>0. good \in [Names -> Seq(Agents)] /\ ok \in [Names -> BOOLEAN] /\ source' = source
  BY DEF IInv, TypeOK, Next, vars
<1>1. CASE StartRound
  <2>1. PICK S \in SUBSET Conns : Round(S)
    BY <1>1 DEF StartRound
  <2>2. /\ phase = "idle" /\ phase' = "apply" /\ pending' = S /\ seen' = {}
        /\ UNCHANGED <<machines, order, next, partial, seq, snapshot, changed, good, ok>>
    BY <2>1 DEF Round
  <2>3. SnapshotInv'
    BY <2>2, SnapshotStays
  <2>4. PartialInv'
    BY <2>2 DEF PartialInv
  <2> QED
    BY <1>0, <2>1, <2>2, <2>3, <2>4 DEF IInv, TypeOK, OrderInv, MachineInv, Round
<1>2. CASE \E c \in Conns, e \in Errors : ApplyFailure(c, e)
  <2>1. PICK c \in Conns, e \in Errors : ApplyFailure(c, e)
    BY <1>2
  <2> DEFINE n == NameOf[c]
             state == OfflineState(n, e)
  <2>2. n \in Names
    OBVIOUS
  <2>3. state \in MachineStates /\ state.health = "offline" /\ state.agents = good[n]
    <3>1. CASE n \in DOMAIN machines
      <4>1. machines[n] \in MachineStates /\ machines[n].agents = good[n]
        BY <3>1 DEF IInv, TypeOK, MachineInv
      <4> QED
        BY <3>1, <4>1 DEF OfflineState, KnownAgents, MachineStates, Healths, ErrorTexts
    <3>2. CASE n \notin DOMAIN machines
      <4>1. good[n] = <<>>
        BY <2>2, <3>2 DEF IInv, MachineInv
      <4>2. state = [health |-> "offline", err |-> e, agents |-> <<>>]
        BY <3>2 DEF OfflineState, KnownAgents
      <4>3. <<>> \in Seq(Agents)
        OBVIOUS
      <4>4. e \in ErrorTexts
        BY DEF ErrorTexts
      <4> HIDE DEF state
      <4> QED
        BY <4>1, <4>2, <4>3, <4>4 DEF MachineStates, Healths
    <3> QED
      BY <3>1, <3>2
  <2>4. /\ Reached(c) /\ machines' = Updated(n, state)
        /\ ok' = [ok EXCEPT ![n] = FALSE] /\ good' = good
        /\ UNCHANGED <<phase, next, partial, seq, snapshot, changed>>
    BY <2>1 DEF ApplyFailure
  <2>5. /\ ok' \in [Names -> BOOLEAN] /\ ok'[n] = FALSE
        /\ \A m \in Names \ {n} : ok'[m] = ok[m]
    BY <1>0, <2>2, <2>4
  <2> HIDE DEF state
  <2> QED
    BY <1>0, <2>2, <2>3, <2>4, <2>5, ApplyIInv
<1>3. CASE \E c \in Conns, rep \in Reports : ApplySuccess(c, rep)
  <2>1. PICK c \in Conns, rep \in Reports : ApplySuccess(c, rep)
    BY <1>3
  <2> DEFINE n == NameOf[c]
             state == OnlineState(n, rep)
             agents == AgentsOf(n, rep)
  <2>2. n \in Names /\ agents \in Seq(Agents)
    BY AgentsOfType
  <2>3. state \in MachineStates /\ state.health = "online" /\ state.agents = agents
    BY <2>2 DEF OnlineState, MachineStates, Healths, ErrorTexts
  <2>4. /\ Reached(c) /\ machines' = Updated(n, state)
        /\ ok' = [ok EXCEPT ![n] = TRUE] /\ good' = [good EXCEPT ![n] = agents]
        /\ UNCHANGED <<phase, next, partial, seq, snapshot, changed>>
    BY <2>1 DEF ApplySuccess
  <2>5. /\ ok' \in [Names -> BOOLEAN] /\ ok'[n] = TRUE
        /\ \A m \in Names \ {n} : ok'[m] = ok[m]
    BY <1>0, <2>2, <2>4
  <2>6. /\ good' \in [Names -> Seq(Agents)] /\ good'[n] = agents
        /\ \A m \in Names \ {n} : good'[m] = good[m]
    BY <1>0, <2>2, <2>4
  <2> HIDE DEF state, agents
  <2> QED
    BY <1>0, <2>2, <2>3, <2>4, <2>5, <2>6, ApplyIInv
<1>4. CASE EndApply
  <2>1. /\ phase' = "build" /\ next' = 1 /\ partial' = Nothing
        /\ UNCHANGED <<pending, seen, machines, order, seq, snapshot, changed, good, ok>>
    BY <1>4 DEF EndApply
  <2>2. SnapshotInv'
    BY <2>1, SnapshotStays
  <2>3. PartialInv'
    <3>1. /\ Nothing.machines = <<>> /\ Nothing.agents = <<>>
          /\ DOMAIN <<>> = {}
      BY DEF Nothing
    <3>2. Lists(partial.machines, next - 1)'
      BY <2>1, <3>1 DEF Lists
    <3>3. LastKnownIn(partial)'
      BY <2>1, <3>1 DEF LastKnownIn, NamesIn, Elements
    <3>4. (partial.stats = Tally(partial.agents))'
      BY <2>1, NothingProps
    <3> QED
      BY <3>2, <3>3, <3>4 DEF PartialInv
  <2>4. next' \in 1..(Len(order') + 1)
    BY <2>1 DEF IInv, TypeOK
  <2>5. phase = "apply"
    BY <1>4 DEF EndApply
  <2>6. TypeOK'
    BY <1>0, <2>1, <2>4, NothingProps DEF IInv, TypeOK
  <2> QED
    BY <2>1, <2>2, <2>3, <2>5, <2>6 DEF IInv, OrderInv, MachineInv
<1>5. CASE BuildOne
  BY <1>0, <1>5, BuildIInv
<1>6. CASE Commit
  <2>1. /\ phase = "build" /\ next > Len(order) /\ seq' = seq + 1
        /\ snapshot' = partial /\ phase' = "idle"
        /\ UNCHANGED <<pending, seen, machines, order, next, partial, good, ok>>
    BY <1>6 DEF Commit
  <2>2. changed' \in BOOLEAN
    BY <1>6, Zenon DEF Commit
  <2>3. next - 1 = Len(order)
    BY <2>1 DEF IInv, TypeOK
  <2>4. /\ Lists(partial.machines, Len(order))
        /\ partial.stats = Tally(partial.agents)
        /\ LastKnownIn(partial)
    BY <2>1, <2>3 DEF IInv, PartialInv
  <2>5. Lists(snapshot.machines, Len(order))'
    BY <2>1, <2>4 DEF Lists, Among, Before
  <2>6. LastKnownIn(snapshot)'
    <3>1. snapshot' = partial /\ ok' = ok /\ good' = good
      BY <2>1
    <3>2. \A i \in DOMAIN snapshot'.machines :
             snapshot'.machines[i].health
                = IF ok'[snapshot'.machines[i].name] THEN "online" ELSE "offline"
      BY <2>4, <3>1 DEF LastKnownIn
    <3>3. Elements(snapshot'.agents)
             = UNION {Elements(good'[m]) : m \in NamesIn(snapshot'.machines)}
      BY <2>4, <3>1 DEF LastKnownIn
    <3> QED
      BY <3>2, <3>3 DEF LastKnownIn, NamesIn, Elements
  <2>7. SnapshotInv' /\ PartialInv'
    BY <2>1, <2>4, <2>5, <2>6 DEF SnapshotInv, PartialInv
  <2> QED
    BY <1>0, <2>1, <2>2, <2>7 DEF IInv, TypeOK, OrderInv, MachineInv
<1>7. CASE UNCHANGED vars
  <2>1. SnapshotInv'
    BY <1>7, SnapshotStays DEF vars, loopVars
  <2>2. PartialInv'
    BY <1>7, PartialStays DEF IInv, vars, loopVars
  <2> QED
    BY <1>7, <2>1, <2>2 DEF IInv, TypeOK, OrderInv, MachineInv, vars, loopVars
<1> QED
  BY <1>1, <1>2, <1>3, <1>4, <1>5, <1>6, <1>7 DEF Next

\* The invariant holds in every state.
LEMMA Invariance == Spec => []IInv
  BY InitIInv, NextIInv, PTL DEF Spec

\* Names that are known keep their place when a step enters another.
LEMMA OrderGrows ==
    ASSUME IInv, [Next]_vars
    PROVE  Len(order) <= Len(order') /\ \A i \in 1..Len(order) : order'[i] = order[i]
<1>1. order \in Seq(Names) /\ Len(order) \in Nat
  BY DEF IInv, TypeOK
<1>2. CASE UNCHANGED order
  BY <1>1, <1>2
<1>3. CASE \E n \in Names : order' = Enter(n)
  <2>1. PICK n \in Names : order' = Enter(n)
    BY <1>3
  <2>2. CASE n \in DOMAIN machines
    BY <1>1, <2>1, <2>2 DEF Enter
  <2>3. CASE n \notin DOMAIN machines
    BY <1>1, <2>1, <2>3, AppendProps DEF Enter
  <2> QED
    BY <2>2, <2>3
<1>4. CASE \E c \in Conns : Reached(c)
  BY <1>3, <1>4 DEF Reached
<1>5. CASE StartRound \/ EndApply \/ BuildOne \/ Commit \/ UNCHANGED vars
  BY <1>2, <1>5 DEF StartRound, Round, EndApply, BuildOne, Commit, vars
<1> QED
  BY <1>4, <1>5 DEF Next, ApplyFailure, ApplySuccess

----------------------------------------------------------------------------
(* What a snapshot says of the machine states it shows, and back *)

\* The machine states that the round in progress will show.
ViewOf == [n \in seen |-> machines[n]]

\* What a turn of the second loop over the name n makes of p, when the round
\* shows the states V.
Turned(V, p, n) ==
    IF n \in DOMAIN V
    THEN [machines |-> Append(p.machines, [name |-> n, health |-> V[n].health,
                                           err |-> V[n].err]),
          agents   |-> p.agents \o V[n].agents,
          stats    |-> [s \in Statuses |-> p.stats[s] + Tally(V[n].agents)[s]]]
    ELSE p

\* s is what the turns over the first k names of ord make of nothing: f has
\* what is built after each of them.
BuiltOf(ord, V, k, s) ==
    \E f : /\ f[0] = Nothing
           /\ \A j \in 1..k : f[j] = Turned(V, f[j - 1], ord[j])
           /\ f[k] = s

\* The agents of n in a list are one after the other, and they are b.
IsBlock(as, n, b) ==
    \E o \in Nat : /\ o + Len(b) <= Len(as)
                   /\ \A i \in 1..Len(as) :
                         as[i].machine = n <=> o < i /\ i <= o + Len(b)
                   /\ \A i \in 1..Len(b) : as[o + i] = b[i]

\* A snapshot lists the names of N as V has them, each with its agents.
Shows(s, V, N) ==
    /\ NamesIn(s.machines) = N
    /\ \A i \in DOMAIN s.machines :
          /\ s.machines[i].health = V[s.machines[i].name].health
          /\ s.machines[i].err = V[s.machines[i].name].err
    /\ \A i \in DOMAIN s.agents : s.agents[i].machine \in N
    /\ \A n \in N : IsBlock(s.agents, n, V[n].agents)

\* The agents of a machine carry its name.
Own(n, as) == \A i \in DOMAIN as : as[i].machine = n

FirstNames(k) == {order[j] : j \in 1..k}

ViewsInv ==
    /\ \A n \in DOMAIN machines : Own(n, machines[n].agents)
    /\ seen \subseteq DOMAIN machines
    /\ DOMAIN views.last \subseteq DOMAIN machines
    /\ views.last \in [DOMAIN views.last -> MachineStates]
    /\ BuiltOf(order, views.last, Len(order), snapshot)
    /\ Shows(snapshot, views.last, DOMAIN views.last)
    /\ phase = "build" =>
          /\ BuiltOf(order, ViewOf, next - 1, partial)
          /\ Shows(partial, ViewOf, seen \cap FirstNames(next - 1))
    /\ changed <=> views.last # views.before

\* Nothing is what no turn makes of nothing.
LEMMA BuiltStart == ASSUME NEW ord, NEW V PROVE BuiltOf(ord, V, 0, Nothing)
<1> DEFINE f == [j \in {0} |-> Nothing]
<1>1. f[0] = Nothing /\ \A j \in 1..0 : f[j] = Turned(V, f[j - 1], ord[j])
  OBVIOUS
<1> HIDE DEF f
<1> QED
  BY <1>1, Zenon DEF BuiltOf

\* One turn more.
LEMMA BuiltTurn ==
    ASSUME NEW ord, NEW V, NEW k \in Nat, NEW s, BuiltOf(ord, V, k, s)
    PROVE  BuiltOf(ord, V, k + 1, Turned(V, s, ord[k + 1]))
<1>1. PICK f : /\ f[0] = Nothing /\ f[k] = s
               /\ \A j \in 1..k : f[j] = Turned(V, f[j - 1], ord[j])
  BY Zenon DEF BuiltOf
<1> DEFINE t == Turned(V, s, ord[k + 1])
           g == [j \in 0..(k + 1) |-> IF j = k + 1 THEN t ELSE f[j]]
<1> HIDE DEF t
<1>2. g[0] = Nothing /\ g[k + 1] = t
  BY <1>1
<1>3. ASSUME NEW j \in 1..(k + 1) PROVE g[j] = Turned(V, g[j - 1], ord[j])
  <2>1. g[j - 1] = f[j - 1]
    OBVIOUS
  <2>2. CASE j = k + 1
    <3>1. g[j - 1] = s /\ g[j] = t
      BY <1>1, <2>1, <2>2
    <3> HIDE DEF g
    <3> QED
      BY <2>2, <3>1 DEF t
  <2>3. CASE j # k + 1
    <3>1. j \in 1..k /\ g[j] = f[j]
      BY <2>3
    <3> HIDE DEF g
    <3> QED
      BY <1>1, <2>1, <3>1
  <2> QED
    BY <2>2, <2>3
<1> HIDE DEF g
<1> QED
  BY <1>2, <1>3, Zenon DEF BuiltOf, t

\* Only the names that are turned over count.
LEMMA BuiltSame ==
    ASSUME NEW ord, NEW other, NEW V, NEW k \in Nat, NEW s, BuiltOf(ord, V, k, s),
           \A j \in 1..k : other[j] = ord[j]
    PROVE  BuiltOf(other, V, k, s)
<1>1. PICK f : /\ f[0] = Nothing /\ f[k] = s
               /\ \A j \in 1..k : f[j] = Turned(V, f[j - 1], ord[j])
  BY Zenon DEF BuiltOf
<1>2. \A j \in 1..k : f[j] = Turned(V, f[j - 1], other[j])
  BY <1>1
<1> QED
  BY <1>1, <1>2, Zenon DEF BuiltOf

\* The states and the order make one snapshot.
LEMMA BuiltOnce ==
    ASSUME NEW ord, NEW V, NEW k \in Nat, NEW s, NEW t,
           BuiltOf(ord, V, k, s), BuiltOf(ord, V, k, t)
    PROVE  s = t
<1>1. PICK f : /\ f[0] = Nothing /\ f[k] = s
               /\ \A j \in 1..k : f[j] = Turned(V, f[j - 1], ord[j])
  BY Zenon DEF BuiltOf
<1>2. PICK g : /\ g[0] = Nothing /\ g[k] = t
               /\ \A j \in 1..k : g[j] = Turned(V, g[j - 1], ord[j])
  BY Zenon DEF BuiltOf
<1> DEFINE T == {j \in 0..k : f[j] # g[j]}
<1>3. T = {}
  <2> SUFFICES ASSUME T # {} PROVE FALSE
    OBVIOUS
  <2>1. T \in SUBSET Nat
    OBVIOUS
  <2>2. PICK m \in T : \A j \in T : m <= j
    <3> HIDE DEF T
    <3> QED
      BY <2>1, P!Least
  <2>3. m \in 0..k /\ m # 0 /\ f[m] # g[m]
    BY <1>1, <1>2, <2>2
  <2>4. m \in 1..k /\ m - 1 \in 0..k /\ m - 1 < m
    BY <2>3
  <2>5. f[m - 1] = g[m - 1]
    BY <2>2, <2>4
  <2> QED
    BY <1>1, <1>2, <2>3, <2>4, <2>5
<1>4. k \in 0..k
  OBVIOUS
<1> QED
  BY <1>1, <1>2, <1>3, <1>4

\* A list has one block of a machine.
LEMMA BlockOnce ==
    ASSUME NEW as, Len(as) \in Nat, NEW n, NEW S, NEW b \in Seq(S), NEW c \in Seq(S),
           IsBlock(as, n, b), IsBlock(as, n, c)
    PROVE  b = c
<1> DEFINE L == Len(b)
           M == Len(c)
           N == Len(as)
<1>1. /\ L \in Nat /\ M \in Nat /\ N \in Nat
      /\ DOMAIN b = 1..L /\ DOMAIN c = 1..M
  <2>1. L \in Nat /\ M \in Nat /\ DOMAIN b = 1..L /\ DOMAIN c = 1..M
    OBVIOUS
  <2> QED
    BY <2>1
<1>2. PICK o \in Nat : /\ o + L <= N
                       /\ \A i \in 1..N : as[i].machine = n <=> o < i /\ i <= o + L
                       /\ \A i \in 1..L : as[o + i] = b[i]
  BY Zenon DEF IsBlock
<1>3. PICK p \in Nat : /\ p + M <= N
                       /\ \A i \in 1..N : as[i].machine = n <=> p < i /\ i <= p + M
                       /\ \A i \in 1..M : as[p + i] = c[i]
  BY Zenon DEF IsBlock
<1> HIDE DEF L, M, N
<1>4. \A i \in 1..N : (o < i /\ i <= o + L) <=> (p < i /\ i <= p + M)
  BY <1>2, <1>3
<1>5. L = M /\ (L # 0 => o = p)
  <2>1. CASE L = 0
    <3>1. M # 0 => p + 1 \in 1..N /\ p < p + 1 /\ p + 1 <= p + M
      BY <1>1, <1>3
    <3> QED
      BY <1>1, <1>4, <2>1, <3>1
  <2>2. CASE L # 0
    <3> DEFINE first == o + 1
               last == o + L
               other == p + 1
               end == p + M
    <3>1. /\ first \in 1..N /\ o < first /\ first <= o + L
          /\ last \in 1..N /\ o < last /\ last <= o + L
      BY <1>1, <1>2, <2>2
    <3> HIDE DEF first, last
    <3>2. p < first /\ first <= p + M /\ p < last /\ last <= p + M
      BY <1>4, <3>1
    <3>3. M # 0
      BY <1>1, <3>1, <3>2
    <3>4. /\ other \in 1..N /\ p < other /\ other <= p + M
          /\ end \in 1..N /\ p < end /\ end <= p + M
      BY <1>1, <1>3, <3>3
    <3> HIDE DEF other, end
    <3>5. o < other /\ other <= o + L /\ o < end /\ end <= o + L
      BY <1>4, <3>4
    <3> QED
      BY <1>1, <3>2, <3>5 DEF first, last, other, end
  <2> QED
    BY <2>1, <2>2
<1>6. ASSUME NEW i \in 1..L PROVE b[i] = c[i]
  <2>1. o = p /\ i \in 1..M
    BY <1>1, <1>5
  <2>2. as[o + i] = b[i] /\ as[p + i] = c[i]
    BY <1>2, <1>3, <2>1
  <2> QED
    BY <2>1, <2>2
<1> QED
  BY <1>1, <1>5, <1>6

\* One list is another one with more behind it.
Joins(new, as, t) ==
    /\ Len(as) \in Nat /\ Len(t) \in Nat /\ Len(new) = Len(as) + Len(t)
    /\ DOMAIN as = 1..Len(as) /\ DOMAIN t = 1..Len(t) /\ DOMAIN new = 1..Len(new)
    /\ \A i \in 1..Len(as) : new[i] = as[i]
    /\ \A i \in 1..Len(t) : new[Len(as) + i] = t[i]

\* Concatenation is such a list.
LEMMA ConcatJoins ==
    ASSUME NEW S, NEW s \in Seq(S), NEW t \in Seq(S)
    PROVE  Joins(s \o t, s, t)
<1>1. s \o t \in Seq(S)
  BY ConcatProps
<1>2. /\ Len(s) \in Nat /\ Len(t) \in Nat
      /\ DOMAIN s = 1..Len(s) /\ DOMAIN t = 1..Len(t)
      /\ DOMAIN (s \o t) = 1..Len(s \o t)
  BY <1>1, SeqProps
<1>3. /\ s \o t \in Seq(S)
      /\ Len(s \o t) = Len(s) + Len(t)
      /\ \A i \in 1..Len(s) : (s \o t)[i] = s[i]
      /\ \A i \in 1..Len(t) : (s \o t)[Len(s) + i] = t[i]
  OBVIOUS
<1> QED
  BY <1>2, <1>3, Zenon DEF Joins

\* Agents of other machines that follow leave a block alone.
LEMMA BlockStays ==
    ASSUME NEW new, NEW as, NEW t, Joins(new, as, t), NEW n, NEW b,
           Len(b) \in Nat, IsBlock(as, n, b), \A i \in DOMAIN t : t[i].machine # n
    PROVE  IsBlock(new, n, b)
<1> DEFINE L == Len(b)
           N == Len(as)
           M == Len(t)
<1>1. /\ L \in Nat /\ M \in Nat /\ N \in Nat /\ DOMAIN t = 1..M
      /\ Len(new) = N + M
      /\ \A i \in 1..N : new[i] = as[i]
      /\ \A i \in 1..M : new[N + i] = t[i]
  BY DEF Joins
<1>2. PICK o \in Nat : /\ o + L <= N
                       /\ \A i \in 1..N : as[i].machine = n <=> o < i /\ i <= o + L
                       /\ \A i \in 1..L : as[o + i] = b[i]
  BY Zenon DEF IsBlock
<1> HIDE DEF L, M, N
<1>3. ASSUME NEW i \in 1..(N + M)
      PROVE  new[i].machine = n <=> o < i /\ i <= o + L
  <2>1. CASE i \in 1..N
    BY <1>1, <1>2, <2>1
  <2>2. CASE i > N
    <3>1. i - N \in 1..M /\ i = N + (i - N)
      BY <1>1, <2>2
    <3>2. new[i].machine # n
      BY <1>1, <3>1
    <3> QED
      BY <1>1, <1>2, <2>2, <3>2
  <2> QED
    BY <1>1, <2>1, <2>2
<1>4. ASSUME NEW i \in 1..L PROVE new[o + i] = b[i]
  <2>1. o + i \in 1..N
    BY <1>1, <1>2
  <2> QED
    BY <1>1, <1>2, <2>1
<1>5. o + L <= N + M
  BY <1>1, <1>2
<1> QED
  <2>1. /\ o + Len(b) <= Len(new)
        /\ \A i \in 1..Len(new) : new[i].machine = n <=> o < i /\ i <= o + Len(b)
        /\ \A i \in 1..Len(b) : new[o + i] = b[i]
    BY <1>1, <1>3, <1>4, <1>5 DEF L
  <2> QED
    BY <2>1, Zenon DEF IsBlock

\* The agents of a machine that was not there before are a block.
LEMMA BlockNew ==
    ASSUME NEW new, NEW as, NEW b, Joins(new, as, b), NEW n,
           \A i \in DOMAIN as : as[i].machine # n, Own(n, b)
    PROVE  IsBlock(new, n, b)
<1> DEFINE L == Len(b)
           N == Len(as)
<1>1. /\ L \in Nat /\ N \in Nat /\ DOMAIN as = 1..N /\ DOMAIN b = 1..L
      /\ Len(new) = N + L
      /\ \A i \in 1..N : new[i] = as[i]
      /\ \A i \in 1..L : new[N + i] = b[i]
  BY DEF Joins
<1> HIDE DEF L, N
<1>2. ASSUME NEW i \in 1..(N + L)
      PROVE  new[i].machine = n <=> N < i /\ i <= N + L
  <2>1. CASE i \in 1..N
    <3>1. new[i] = as[i] /\ as[i].machine # n
      BY <1>1, <2>1
    <3>2. ~(N < i)
      BY <1>1, <2>1
    <3> QED
      BY <3>1, <3>2
  <2>2. CASE i > N
    <3>1. i - N \in 1..L /\ i = N + (i - N)
      BY <1>1, <2>2
    <3>2. PICK j \in 1..L : i = N + j
      BY <3>1
    <3>3. new[i] = b[j] /\ b[j].machine = n
      BY <1>1, <3>2 DEF Own
    <3>4. N < i /\ i <= N + L
      BY <1>1, <3>2
    <3> QED
      BY <3>3, <3>4
  <2> QED
    BY <1>1, <2>1, <2>2
<1>3. /\ N \in Nat /\ N + Len(b) <= Len(new)
      /\ \A i \in 1..Len(new) : new[i].machine = n <=> N < i /\ i <= N + Len(b)
      /\ \A i \in 1..Len(b) : new[N + i] = b[i]
  BY <1>1, <1>2 DEF L
<1> QED
  BY <1>3, Zenon DEF IsBlock

\* A turn shows the machine it is over, and what was shown before.
LEMMA ShowsTurn ==
    ASSUME NEW V, NEW N \in SUBSET DOMAIN V, NEW n \in DOMAIN V, n \notin N,
           V \in [DOMAIN V -> MachineStates], NEW p \in Snapshots, Shows(p, V, N),
           Own(n, V[n].agents)
    PROVE  Shows(Turned(V, p, n), V, N \cup {n})
<1> DEFINE e == [name |-> n, health |-> V[n].health, err |-> V[n].err]
           ms == p.machines
           as == p.agents
           b == V[n].agents
           q == Turned(V, p, n)
<1>1. q.machines = Append(ms, e) /\ q.agents = as \o b
  BY DEF Turned
<1>2. /\ \A m \in DOMAIN V : V[m] \in MachineStates
      /\ as \in Seq(Agents) /\ ms \in Seq(MachineInfos)
  BY DEF Snapshots
<1>3. b \in Seq(Agents)
  BY <1>2 DEF MachineStates
<1>4. /\ DOMAIN ms = 1..Len(ms) /\ Len(ms) \in Nat
      /\ Len(Append(ms, e)) = Len(ms) + 1 /\ DOMAIN Append(ms, e) = 1..(Len(ms) + 1)
      /\ \A i \in 1..Len(ms) : Append(ms, e)[i] = ms[i]
      /\ Append(ms, e)[Len(ms) + 1] = e
  BY <1>2
<1>5. /\ DOMAIN as = 1..Len(as) /\ Len(as) \in Nat /\ DOMAIN b = 1..Len(b) /\ Len(b) \in Nat
      /\ DOMAIN (as \o b) = 1..(Len(as) + Len(b))
      /\ \A i \in 1..Len(as) : (as \o b)[i] = as[i]
      /\ \A i \in 1..Len(b) : (as \o b)[Len(as) + i] = b[i]
  <2> HIDE DEF b
  <2>1. Joins(as \o b, as, b)
    BY <1>2, <1>3, ConcatJoins
  <2> QED
    BY <2>1 DEF Joins
<1>6. \A i \in DOMAIN as : as[i].machine \in N
  BY DEF Shows
<1> HIDE DEF e, b, q
<1>7. NamesIn(q.machines) = N \cup {n}
  <2>1. e.name = n
    BY DEF e
  <2> QED
    BY <1>1, <1>4, <2>1 DEF NamesIn, Shows
<1>8. ASSUME NEW i \in DOMAIN q.machines
      PROVE  /\ q.machines[i].health = V[q.machines[i].name].health
             /\ q.machines[i].err = V[q.machines[i].name].err
  <2>1. CASE i \in 1..Len(ms)
    <3>1. q.machines[i] = ms[i] /\ i \in DOMAIN ms
      BY <1>1, <1>4, <2>1
    <3> QED
      BY <3>1 DEF Shows
  <2>2. CASE i = Len(ms) + 1
    <3>1. q.machines[i] = e
      BY <1>1, <1>4, <2>2
    <3>2. e.name = n /\ e.health = V[n].health /\ e.err = V[n].err
      BY DEF e
    <3> QED
      BY <3>1, <3>2
  <2> QED
    BY <1>1, <1>4, <2>1, <2>2
<1>9. ASSUME NEW i \in DOMAIN q.agents PROVE q.agents[i].machine \in N \cup {n}
  <2>1. CASE i \in 1..Len(as)
    BY <1>1, <1>5, <1>6, <2>1
  <2>2. CASE i > Len(as)
    <3>1. i - Len(as) \in 1..Len(b) /\ i = Len(as) + (i - Len(as))
      BY <1>1, <1>5, <2>2
    <3> QED
      BY <1>1, <1>5, <3>1 DEF Own, b
  <2> QED
    BY <1>1, <1>5, <2>1, <2>2
<1>10. ASSUME NEW m \in N \cup {n} PROVE IsBlock(q.agents, m, V[m].agents)
  <2>1. CASE m = n
    <3>1. \A i \in DOMAIN as : as[i].machine # n
      BY <1>6
    <3>2. IsBlock(as \o b, n, b)
      <4>1. Own(n, b)
        BY DEF b
      <4> QED
        BY <1>2, <1>3, <3>1, <4>1, BlockNew, ConcatJoins
    <3> QED
      BY <1>1, <2>1, <3>2 DEF b
  <2>2. CASE m \in N
    <3>1. \A i \in DOMAIN b : b[i].machine # m
      BY <2>2 DEF Own, b
    <3>2. IsBlock(as, m, V[m].agents)
      BY <2>2 DEF Shows
    <3>3. Len(V[m].agents) \in Nat
      BY <1>2, <2>2 DEF MachineStates
    <3>4. IsBlock(as \o b, m, V[m].agents)
      BY <1>2, <1>3, <3>1, <3>2, <3>3, BlockStays, ConcatJoins
    <3> QED
      BY <1>1, <3>4
  <2> QED
    BY <2>1, <2>2
<1> QED
  BY <1>7, <1>8, <1>9, <1>10 DEF Shows, q

\* A snapshot shows one state of its machines.
LEMMA ShowsOnce ==
    ASSUME NEW s \in Snapshots,
           NEW V, V \in [DOMAIN V -> MachineStates], Shows(s, V, DOMAIN V),
           NEW W, W \in [DOMAIN W -> MachineStates], Shows(s, W, DOMAIN W)
    PROVE  V = W
<1>1. DOMAIN V = DOMAIN W
  BY DEF Shows
<1>2. ASSUME NEW n \in DOMAIN V PROVE V[n] = W[n]
  <2>1. V[n] \in MachineStates /\ W[n] \in MachineStates
    BY <1>1
  <2>2. PICK i \in DOMAIN s.machines : s.machines[i].name = n
    BY DEF Shows, NamesIn
  <2>3. V[n].health = W[n].health /\ V[n].err = W[n].err
    BY <2>2 DEF Shows
  <2>4. V[n].agents = W[n].agents
    <3>1. IsBlock(s.agents, n, V[n].agents) /\ IsBlock(s.agents, n, W[n].agents)
      BY <1>1 DEF Shows
    <3>2. V[n].agents \in Seq(Agents) /\ W[n].agents \in Seq(Agents)
      BY <2>1 DEF MachineStates
    <3>3. Len(s.agents) \in Nat
      BY DEF Snapshots
    <3> QED
      BY <3>1, <3>2, <3>3, BlockOnce
  <2>5. /\ V[n] = [health |-> V[n].health, err |-> V[n].err, agents |-> V[n].agents]
        /\ W[n] = [health |-> W[n].health, err |-> W[n].err, agents |-> W[n].agents]
    BY <2>1 DEF MachineStates
  <2> QED
    BY <2>3, <2>4, <2>5
<1> QED
  BY <1>1, <1>2

\* The start.
LEMMA InitViews == Init => ViewsInv
<1> SUFFICES ASSUME Init PROVE ViewsInv
  OBVIOUS
<1>1. /\ machines = NoView /\ DOMAIN machines = {} /\ order = <<>> /\ Len(order) = 0
      /\ views.last = NoView /\ views.before = NoView /\ snapshot = Nothing
      /\ seen = {} /\ phase = "idle"
  BY DEF Init, NoView
<1>2. BuiltOf(order, views.last, Len(order), snapshot)
  BY <1>1, BuiltStart
<1>3. Shows(snapshot, views.last, DOMAIN views.last)
  <2>1. DOMAIN <<>> = {} /\ DOMAIN NoView = {}
    BY DEF NoView
  <2>2. Nothing.machines = <<>> /\ Nothing.agents = <<>>
    BY DEF Nothing
  <2> QED
    BY <1>1, <2>1, <2>2 DEF Shows, NamesIn
<1>4. changed <=> views.last # views.before
  BY <1>1, Zenon DEF Init
<1>5. views.last \in [DOMAIN views.last -> MachineStates]
  BY <1>1 DEF NoView
<1> QED
  BY <1>1, <1>2, <1>3, <1>4, <1>5 DEF ViewsInv, NoView

\* A turn of the first loop, whatever the outcome.
LEMMA ApplyViews ==
    ASSUME IInv, ViewsInv, NEW c \in Conns, NEW state \in MachineStates, Reached(c),
           machines' = Updated(NameOf[c], state), Own(NameOf[c], state.agents),
           UNCHANGED <<phase, snapshot, changed, views>>
    PROVE  ViewsInv'
<1> DEFINE n == NameOf[c]
<1>1. /\ n \in Names /\ order' = Enter(n) /\ phase = "apply" /\ phase' = "apply"
      /\ seen' = seen \cup {n}
  BY DEF Reached
<1>2. /\ order' \in Seq(Names) /\ Len(order') >= Len(order)
      /\ \A i \in 1..Len(order) : order'[i] = order[i]
      /\ DOMAIN machines' = DOMAIN machines \cup {n}
      /\ machines'[n] = state
      /\ \A m \in DOMAIN machines : m # n => machines'[m] = machines[m]
  BY <1>1, EnterProps
<1>3. \A m \in DOMAIN machines' : Own(m, machines'[m].agents)
  BY <1>2 DEF ViewsInv
<1>4. seen' \subseteq DOMAIN machines' /\ DOMAIN views'.last \subseteq DOMAIN machines'
  BY <1>1, <1>2 DEF ViewsInv
<1>5. BuiltOf(order', views.last, Len(order'), snapshot)
  <2>1. order \in Seq(Names) /\ Len(order) \in Nat
    BY DEF IInv, TypeOK
  <2>2. BuiltOf(order', views.last, Len(order), snapshot)
    BY <1>2, <2>1, BuiltSame DEF ViewsInv
  <2>3. CASE n \in DOMAIN machines
    BY <1>1, <2>2, <2>3 DEF Enter
  <2>4. CASE n \notin DOMAIN machines
    <3>1. order' = Append(order, n)
      BY <1>1, <2>4 DEF Enter
    <3>2. Len(order') = Len(order) + 1 /\ order'[Len(order) + 1] = n
      BY <1>1, <2>1, <3>1, AppendProps
    <3>3. Turned(views.last, snapshot, n) = snapshot
      BY <2>4 DEF Turned, ViewsInv
    <3> QED
      BY <2>1, <2>2, <3>2, <3>3, BuiltTurn
  <2> QED
    BY <2>3, <2>4
<1>6. (changed <=> views.last # views.before)'
  BY Zenon DEF ViewsInv
<1>7. views' = views /\ snapshot' = snapshot /\ phase' # "build"
  BY <1>1
<1>8. /\ (views.last \in [DOMAIN views.last -> MachineStates])'
      /\ Shows(snapshot, views.last, DOMAIN views.last)'
  BY <1>7 DEF ViewsInv, Shows, NamesIn
<1>9. BuiltOf(order, views.last, Len(order), snapshot)'
  BY <1>5, <1>7
<1> QED
  BY <1>3, <1>4, <1>6, <1>7, <1>8, <1>9, Zenon DEF ViewsInv

\* A turn of the second loop.
LEMMA BuildViews ==
    ASSUME IInv, ViewsInv, BuildOne PROVE ViewsInv'
<1> DEFINE n == order[next]
           N == seen \cap FirstNames(next - 1)
<1>1. /\ phase = "build" /\ next \in 1..Len(order) /\ next' = next + 1
      /\ partial' = IF Listed(n) THEN With(n) ELSE partial
      /\ UNCHANGED <<phase, seen, machines, order, snapshot, changed, views>>
  BY DEF BuildOne, IInv, TypeOK
<1>2. /\ order \in Seq(Names) /\ DOMAIN order = 1..Len(order) /\ Len(order) \in Nat
      /\ next \in Nat /\ next - 1 \in Nat /\ (next - 1) + 1 = next /\ next' - 1 = next
  BY <1>1 DEF IInv, TypeOK
<1>3. partial \in Snapshots /\ machines \in [DOMAIN machines -> MachineStates]
  BY DEF IInv, TypeOK
<1>4. DOMAIN ViewOf = seen /\ \A m \in seen : ViewOf[m] = machines[m]
  BY DEF ViewOf
<1>5. ViewOf \in [DOMAIN ViewOf -> MachineStates]
  BY <1>3, <1>4 DEF ViewOf, ViewsInv
<1>6. partial' = Turned(ViewOf, partial, n)
  <2>1. CASE n \in seen
    <3>1. partial' = With(n)
      BY <1>1, <2>1 DEF Listed
    <3>2. With(n) = Turned(ViewOf, partial, n)
      BY <1>4, <2>1 DEF With, Turned, Info, AddedStats
    <3> QED
      BY <3>1, <3>2
  <2>2. CASE n \notin seen
    BY <1>1, <1>4, <2>2 DEF Listed, Turned
  <2> QED
    BY <2>1, <2>2
<1>7. BuiltOf(order, ViewOf, next, partial')
  <2>1. BuiltOf(order, ViewOf, next - 1, partial)
    BY <1>1 DEF ViewsInv
  <2>2. BuiltOf(order, ViewOf, (next - 1) + 1,
                Turned(ViewOf, partial, order[(next - 1) + 1]))
    BY <1>2, <2>1, BuiltTurn
  <2> QED
    BY <1>2, <1>6, <2>2
<1>8. n \notin FirstNames(next - 1) /\ FirstNames(next) = FirstNames(next - 1) \cup {n}
  BY <1>1, <1>2 DEF FirstNames, IInv, OrderInv
<1>9. Shows(partial', ViewOf, seen \cap FirstNames(next))
  <2>1. Shows(partial, ViewOf, N)
    BY <1>1 DEF ViewsInv
  <2>2. CASE n \in seen
    <3>1. Own(n, ViewOf[n].agents)
      BY <1>4, <2>2 DEF ViewsInv
    <3>2. N \in SUBSET DOMAIN ViewOf /\ n \in DOMAIN ViewOf /\ n \notin N
      BY <1>4, <1>8, <2>2
    <3> HIDE DEF N
    <3>3. Shows(Turned(ViewOf, partial, n), ViewOf, N \cup {n})
      BY <1>3, <1>5, <2>1, <3>1, <3>2, ShowsTurn
    <3>4. seen \cap FirstNames(next) = N \cup {n}
      BY <1>8, <2>2 DEF N
    <3> QED
      BY <1>6, <3>3, <3>4
  <2>3. CASE n \notin seen
    <3>1. partial' = partial
      BY <1>1, <2>3 DEF Listed
    <3>2. seen \cap FirstNames(next) = N
      BY <1>8, <2>3
    <3> QED
      BY <2>1, <3>1, <3>2
  <2> QED
    BY <2>2, <2>3
<1>10. /\ ViewOf' = ViewOf /\ FirstNames(next - 1)' = FirstNames(next)
       /\ (\A m \in DOMAIN machines : Own(m, machines[m].agents))'
       /\ seen' \subseteq DOMAIN machines'
       /\ DOMAIN views'.last \subseteq DOMAIN machines'
  BY <1>1, <1>2 DEF ViewOf, FirstNames, ViewsInv, Own
<1>11. /\ BuiltOf(order, ViewOf, next - 1, partial)'
       /\ Shows(partial, ViewOf, seen \cap FirstNames(next - 1))'
  BY <1>1, <1>2, <1>7, <1>9, <1>10
<1>12. (changed <=> views.last # views.before)'
  BY <1>1, Zenon DEF ViewsInv
<1>13. /\ (views.last \in [DOMAIN views.last -> MachineStates])'
       /\ Shows(snapshot, views.last, DOMAIN views.last)'
       /\ BuiltOf(order, views.last, Len(order), snapshot)'
  <2>1. views' = views /\ snapshot' = snapshot /\ order' = order
    BY <1>1
  <2> QED
    BY <2>1 DEF ViewsInv, Shows, NamesIn
<1> QED
  BY <1>10, <1>11, <1>12, <1>13, Zenon DEF ViewsInv

\* No step of a round breaks it.
LEMMA NextViews == IInv /\ ViewsInv /\ [Next]_vars => ViewsInv'
<1> SUFFICES ASSUME IInv, ViewsInv, [Next]_vars PROVE ViewsInv'
  OBVIOUS
<1>1. CASE /\ UNCHANGED <<machines, order, snapshot, changed, views>>
           /\ seen' \subseteq seen
           /\ phase' # "build"
  <2>1. /\ machines' = machines /\ order' = order /\ snapshot' = snapshot
        /\ views' = views
    BY <1>1
  <2>2. /\ \A n \in DOMAIN machines' : Own(n, machines'[n].agents)
        /\ seen' \subseteq DOMAIN machines'
        /\ DOMAIN views'.last \subseteq DOMAIN machines'
    BY <1>1, <2>1 DEF ViewsInv
  <2>3. /\ (views.last \in [DOMAIN views.last -> MachineStates])'
        /\ Shows(snapshot, views.last, DOMAIN views.last)'
        /\ BuiltOf(order, views.last, Len(order), snapshot)'
    BY <2>1 DEF ViewsInv, Shows, NamesIn
  <2>4. (changed <=> views.last # views.before)'
    BY <1>1, Zenon DEF ViewsInv
  <2> QED
    BY <1>1, <2>2, <2>3, <2>4, Zenon DEF ViewsInv, Own
<1>2. CASE StartRound
  BY <1>1, <1>2 DEF StartRound, Round
<1>3. CASE \E c \in Conns, e \in Errors : ApplyFailure(c, e)
  <2>1. PICK c \in Conns, e \in Errors : ApplyFailure(c, e)
    BY <1>3
  <2> DEFINE n == NameOf[c]
             state == OfflineState(n, e)
  <2>2. n \in Names
    OBVIOUS
  <2>3. state \in MachineStates /\ Own(n, state.agents)
    <3>1. state = [health |-> "offline", err |-> e, agents |-> KnownAgents(n)]
      BY DEF OfflineState
    <3>2. KnownAgents(n) \in Seq(Agents) /\ Own(n, KnownAgents(n))
      <4>1. CASE n \in DOMAIN machines
        <5>1. machines[n] \in MachineStates /\ Own(n, machines[n].agents)
          BY <4>1 DEF IInv, TypeOK, ViewsInv
        <5> QED
          BY <4>1, <5>1 DEF KnownAgents, MachineStates
      <4>2. CASE n \notin DOMAIN machines
        <5>1. KnownAgents(n) = <<>> /\ <<>> \in Seq(Agents) /\ DOMAIN <<>> = {}
          BY <4>2 DEF KnownAgents
        <5> QED
          BY <5>1 DEF Own
      <4> QED
        BY <4>1, <4>2
    <3>3. e \in ErrorTexts
      BY DEF ErrorTexts
    <3> HIDE DEF state
    <3> QED
      BY <3>1, <3>2, <3>3 DEF MachineStates, Healths
  <2>4. /\ Reached(c) /\ machines' = Updated(n, state)
        /\ UNCHANGED <<phase, snapshot, changed, views>>
    BY <2>1 DEF ApplyFailure
  <2> HIDE DEF state
  <2> QED
    BY <2>3, <2>4, ApplyViews
<1>4. CASE \E c \in Conns, rep \in Reports : ApplySuccess(c, rep)
  <2>1. PICK c \in Conns, rep \in Reports : ApplySuccess(c, rep)
    BY <1>4
  <2> DEFINE n == NameOf[c]
             state == OnlineState(n, rep)
             agents == AgentsOf(n, rep)
  <2>2. n \in Names /\ agents \in Seq(Agents)
    BY AgentsOfType
  <2>3. state \in MachineStates /\ state.agents = agents
    BY <2>2 DEF OnlineState, MachineStates, Healths, ErrorTexts
  <2>4. Own(n, agents)
    BY DEF Own, AgentsOf, AgentOf
  <2>5. /\ Reached(c) /\ machines' = Updated(n, state)
        /\ UNCHANGED <<phase, snapshot, changed, views>>
    BY <2>1 DEF ApplySuccess
  <2> HIDE DEF state, agents
  <2> QED
    BY <2>3, <2>4, <2>5, ApplyViews
<1>5. CASE EndApply
  <2>1. /\ phase' = "build" /\ next' = 1 /\ partial' = Nothing
        /\ machines' = machines /\ order' = order /\ snapshot' = snapshot
        /\ views' = views /\ seen' = seen
    BY <1>5 DEF EndApply
  <2>2. /\ \A n \in DOMAIN machines' : Own(n, machines'[n].agents)
        /\ seen' \subseteq DOMAIN machines'
        /\ DOMAIN views'.last \subseteq DOMAIN machines'
    BY <2>1 DEF ViewsInv
  <2>3. /\ (views.last \in [DOMAIN views.last -> MachineStates])'
        /\ Shows(snapshot, views.last, DOMAIN views.last)'
        /\ BuiltOf(order, views.last, Len(order), snapshot)'
    BY <2>1 DEF ViewsInv, Shows, NamesIn
  <2>4. (changed <=> views.last # views.before)'
    BY <1>5, Zenon DEF ViewsInv, EndApply
  <2>5. next' - 1 = 0
    BY <2>1
  <2>6. BuiltOf(order, ViewOf, next - 1, partial)'
    BY <2>1, <2>5, BuiltStart
  <2>7. Shows(partial, ViewOf, seen \cap FirstNames(next - 1))'
    <3>1. Nothing.machines = <<>> /\ Nothing.agents = <<>> /\ DOMAIN <<>> = {}
      BY DEF Nothing
    <3>2. FirstNames(next - 1)' = {}
      BY <2>5 DEF FirstNames
    <3> QED
      BY <2>1, <3>1, <3>2 DEF Shows, NamesIn
  <2> QED
    BY <2>2, <2>3, <2>4, <2>6, <2>7, Zenon DEF ViewsInv, Own
<1>6. CASE BuildOne
  BY <1>6, BuildViews
<1>7. CASE Commit
  <2>1. /\ phase = "build" /\ next > Len(order) /\ phase' = "idle"
        /\ snapshot' = partial /\ views'.last = ViewOf /\ views'.before = views.last
        /\ seen' = seen /\ machines' = machines /\ order' = order
    BY <1>7 DEF Commit, ViewOf
  <2>2. next - 1 = Len(order) /\ DOMAIN order = 1..Len(order)
    BY <2>1 DEF IInv, TypeOK
  <2>3. DOMAIN ViewOf = seen /\ seen \subseteq DOMAIN machines
    BY DEF ViewOf, ViewsInv
  <2>4. seen \cap FirstNames(Len(order)) = DOMAIN ViewOf
    <3>1. FirstNames(Len(order)) = DOMAIN machines
      BY <2>2 DEF FirstNames, IInv, OrderInv, Elements
    <3> QED
      BY <2>3, <3>1
  <2>5. ViewOf \in [DOMAIN ViewOf -> MachineStates]
    <3>1. machines \in [DOMAIN machines -> MachineStates]
      BY DEF IInv, TypeOK
    <3> QED
      BY <2>3, <3>1 DEF ViewOf
  <2>6. /\ BuiltOf(order, ViewOf, Len(order), partial)
        /\ Shows(partial, ViewOf, DOMAIN ViewOf)
    BY <2>1, <2>2, <2>4 DEF ViewsInv
  <2>7. snapshot = partial <=> views.last = ViewOf
    <3>1. /\ views.last \in [DOMAIN views.last -> MachineStates]
          /\ BuiltOf(order, views.last, Len(order), snapshot)
          /\ Shows(snapshot, views.last, DOMAIN views.last)
      BY DEF ViewsInv
    <3>2. partial \in Snapshots /\ Len(order) \in Nat
      BY DEF IInv, TypeOK
    <3>3. ASSUME snapshot = partial PROVE views.last = ViewOf
      BY <2>5, <2>6, <3>1, <3>2, <3>3, ShowsOnce
    <3>4. ASSUME views.last = ViewOf PROVE snapshot = partial
      BY <2>6, <3>1, <3>2, <3>4, BuiltOnce
    <3> QED
      BY <3>3, <3>4
  <2>8. changed' <=> ~(snapshot = partial)
    BY <1>7, Zenon DEF Commit, SameSnapshot
  <2>9. (changed <=> views.last # views.before)'
    BY <2>1, <2>7, <2>8, Zenon
  <2>10. /\ \A n \in DOMAIN machines' : Own(n, machines'[n].agents)
         /\ seen' \subseteq DOMAIN machines'
         /\ DOMAIN views'.last \subseteq DOMAIN machines'
    BY <2>1, <2>3 DEF ViewsInv
  <2>11. /\ (views.last \in [DOMAIN views.last -> MachineStates])'
         /\ Shows(snapshot, views.last, DOMAIN views.last)'
         /\ BuiltOf(order, views.last, Len(order), snapshot)'
    BY <2>1, <2>5, <2>6
  <2> QED
    BY <2>1, <2>9, <2>10, <2>11, Zenon DEF ViewsInv, Own
<1>8. CASE UNCHANGED vars
  <2>1. /\ machines' = machines /\ order' = order /\ snapshot' = snapshot
        /\ views' = views /\ seen' = seen /\ phase' = phase /\ next' = next
        /\ partial' = partial
    BY <1>8 DEF vars, loopVars
  <2>2. (changed <=> views.last # views.before)'
    BY <1>8, Zenon DEF vars, ViewsInv
  <2>3. ViewOf' = ViewOf /\ FirstNames(next - 1)' = FirstNames(next - 1)
    BY <2>1 DEF ViewOf, FirstNames
  <2>4. phase' = "build" =>
           /\ BuiltOf(order, ViewOf, next - 1, partial)'
           /\ Shows(partial, ViewOf, seen \cap FirstNames(next - 1))'
    BY <2>1, <2>3 DEF ViewsInv
  <2>5. /\ \A n \in DOMAIN machines' : Own(n, machines'[n].agents)
        /\ seen' \subseteq DOMAIN machines'
        /\ DOMAIN views'.last \subseteq DOMAIN machines'
    BY <2>1 DEF ViewsInv
  <2>6. /\ (views.last \in [DOMAIN views.last -> MachineStates])'
        /\ Shows(snapshot, views.last, DOMAIN views.last)'
        /\ BuiltOf(order, views.last, Len(order), snapshot)'
    BY <2>1 DEF ViewsInv, Shows, NamesIn
  <2> QED
    BY <2>2, <2>4, <2>5, <2>6, Zenon DEF ViewsInv, Own
<1> QED
  BY <1>2, <1>3, <1>4, <1>5, <1>6, <1>7, <1>8 DEF Next

----------------------------------------------------------------------------
(* Theorems *)

\* Every variable stays in its type, whatever the fetches bring.
THEOREM TypeCorrect == Spec => []TypeOK
  BY Invariance, PTL DEF IInv

\* Every snapshot shows each machine's last outcome and the agents of its
\* last success: a failing connection never empties its part of the fleet.
THEOREM LastKnownShown == Spec => []LastKnownAgents
<1>1. IInv => LastKnownAgents
  BY DEF IInv, SnapshotInv, LastKnownIn, LastKnownAgents, ListedNames, NamesIn
<1> QED
  BY <1>1, Invariance, PTL

\* The counters of every snapshot are the counts of its agents.
THEOREM StatsCount == Spec => []StatsMatchAgents
<1>1. IInv => StatsMatchAgents
  BY DEF IInv, SnapshotInv, StatsMatchAgents
<1> QED
  BY <1>1, Invariance, PTL

\* No snapshot lists a machine twice, even with connections of one name.
THEOREM NamedOnce == Spec => []ListedOnce
<1>1. IInv => ListedOnce
  <2> SUFFICES ASSUME IInv, NEW i \in DOMAIN snapshot.machines,
                      NEW j \in DOMAIN snapshot.machines,
                      snapshot.machines[i].name = snapshot.machines[j].name, i # j
               PROVE  FALSE
    BY DEF ListedOnce
  <2>1. /\ snapshot.machines \in Seq(MachineInfos) /\ order \in Seq(Names)
        /\ DOMAIN order = 1..Len(order) /\ Len(order) \in Nat
    BY DEF IInv, TypeOK, Snapshots
  <2>2. i \in Nat /\ j \in Nat
    BY <2>1
  <2>3. Before(snapshot.machines[i].name, snapshot.machines[i].name, Len(order))
    <3>1. CASE i < j
      BY <3>1 DEF IInv, SnapshotInv, Lists
    <3>2. CASE j < i
      BY <3>2 DEF IInv, SnapshotInv, Lists
    <3> QED
      BY <2>2, <3>1, <3>2
  <2> QED
    BY <2>1, <2>3 DEF Before, IInv, OrderInv
<1> QED
  BY <1>1, Invariance, PTL

\* Two machines never swap places from one snapshot to the next.
THEOREM OrderIsStable == Spec => StableOrder
<1> DEFINE NoSwap == \A a, b \in Names :
              Precedes(snapshot.machines, a, b) => ~Precedes(snapshot'.machines, b, a)
<1>1. IInv /\ IInv' /\ [Next]_vars => [NoSwap]_vars
  <2> SUFFICES ASSUME IInv, IInv', [Next]_vars, NEW a \in Names, NEW b \in Names,
                      Precedes(snapshot.machines, a, b),
                      Precedes(snapshot'.machines, b, a)
               PROVE  FALSE
    OBVIOUS
  <2>1. PICK x \in 1..Len(order), y \in 1..Len(order) :
           x < y /\ order[x] = a /\ order[y] = b
    <3>1. PICK i \in DOMAIN snapshot.machines, j \in DOMAIN snapshot.machines :
             i < j /\ snapshot.machines[i].name = a /\ snapshot.machines[j].name = b
      BY DEF Precedes
    <3>2. Before(a, b, Len(order))
      BY <3>1 DEF IInv, SnapshotInv, Lists
    <3> QED
      BY <3>2 DEF Before
  <2>2. PICK u \in 1..Len(order'), v \in 1..Len(order') :
           u < v /\ order'[u] = b /\ order'[v] = a
    <3>1. PICK i \in DOMAIN snapshot'.machines, j \in DOMAIN snapshot'.machines :
             i < j /\ snapshot'.machines[i].name = b /\ snapshot'.machines[j].name = a
      BY DEF Precedes
    <3>2. Lists(snapshot.machines, Len(order))'
      BY DEF IInv, SnapshotInv
    <3> QED
      BY <3>1, <3>2 DEF Lists, Before
  <2>3. /\ Len(order) <= Len(order') /\ Len(order) \in Nat /\ Len(order') \in Nat
        /\ \A i \in 1..Len(order) : order'[i] = order[i]
    <3>1. order \in Seq(Names) /\ order' \in Seq(Names)
      BY DEF IInv, TypeOK
    <3> QED
      BY <3>1, OrderGrows
  <2>4. order'[x] = a /\ order'[y] = b /\ x \in 1..Len(order') /\ y \in 1..Len(order')
    BY <2>1, <2>3
  <2>5. \A i, j \in 1..Len(order') : order'[i] = order'[j] => i = j
    <3>1. order' \in Seq(Names)
      BY DEF IInv, TypeOK
    <3>2. DOMAIN order' = 1..Len(order')
      BY <3>1
    <3> QED
      BY <3>2 DEF IInv, OrderInv
  <2>6. x = v /\ y = u
    BY <2>2, <2>4, <2>5
  <2> QED
    BY <2>1, <2>2, <2>6
<1> QED
  BY <1>1, Invariance, PTL DEF Spec, StableOrder

\* A change is reported exactly when the machines look different from the
\* round before, whatever the order of arrival: a snapshot and the states it
\* shows determine each other.
THEOREM ChangeIsExact == Spec => []ChangedIsExact
<1>1. Init => IInv /\ ViewsInv
  BY InitIInv, InitViews
<1>2. IInv /\ ViewsInv /\ [Next]_vars => (IInv /\ ViewsInv)'
  BY NextIInv, NextViews
<1>3. IInv /\ ViewsInv => ChangedIsExact
  BY Zenon DEF ViewsInv, ChangedIsExact
<1> QED
  BY <1>1, <1>2, <1>3, PTL DEF Spec
=============================================================================
