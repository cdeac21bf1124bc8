--------------------------- MODULE DisplayModel ---------------------------
(***************************************************************************)
(* displaymodel.Builder: what the deck's keys mean (K11 all/active, K12    *)
(* next machine, K13 next space) and which agents a snapshot puts on the   *)
(* agent keys under the present view.                                      *)
(*                                                                         *)
(* The first part defines the builder's functions over a view and a        *)
(* snapshot, without state, for the modules that use the builder.  A       *)
(* snapshot is [machines, agents, stats] as the collector publishes it; an *)
(* agent's pane stands for everything of it that no filter reads.          *)
(***************************************************************************)
EXTENDS Naturals, Sequences, FiniteSets, Functions, Positions

CONSTANTS
    Machines,    \* machine names
    Spaces,      \* workspace labels
    NameRank,    \* the alphabetical order of machine names
    Slots        \* agent keys of the deck (10)

None == ""       \* the empty string: nothing selected, no label

Statuses == {"blocked", "done", "working", "idle", "unknown"}
Healths == {"online", "offline"}

ASSUME NamesAssumption ==
    /\ None \notin Machines \cup Spaces
    /\ NameRank \in [Machines -> Nat]
    /\ \A m, n \in Machines : NameRank[m] = NameRank[n] => m = n
ASSUME SlotsAssumption == Slots \in Nat

\* What the collector publishes: every machine is listed once
\* (FleetStore!ListedOnce).
IsSnapshot(s) ==
    /\ DOMAIN s = {"machines", "agents", "stats"}
    /\ s.machines \in Seq([name : Machines, health : Healths])
    /\ \A i, j \in DOMAIN s.machines : s.machines[i].name = s.machines[j].name => i = j
    /\ DOMAIN s.agents = 1 .. Len(s.agents) /\ Len(s.agents) \in Nat
    /\ \A i \in DOMAIN s.agents : /\ s.agents[i].machine \in Machines
                                 /\ s.agents[i].space \in Spaces \cup {None}
                                 /\ s.agents[i].status \in Statuses

NoSnapshot == [machines |-> <<>>, agents |-> <<>>, stats |-> <<>>]   \* nil

View == [mode : {"all", "machine", "space"}, machine : Machines \cup {None},
         space : Spaces \cup {None}, activeOnly : BOOLEAN]

NewView == [mode |-> "all", machine |-> None, space |-> None,
            activeOnly |-> FALSE]

----------------------------------------------------------------------------
(* The lists a key press walks through. *)

MachineNames(snap) == [i \in DOMAIN snap.machines |-> snap.machines[i].name]

\* Where a label appears for the first time.
FirstPlaces(agents) ==
    {i \in DOMAIN agents :
        /\ agents[i].space # None
        /\ \A j \in 1 .. i - 1 : agents[j].space # agents[i].space}

\* Workspace labels in the order of their first agents.
UniqueSpaces(snap) ==
    Picked([i \in DOMAIN snap.agents |-> snap.agents[i].space], FirstPlaces(snap.agents))

\* findMachineIndex and findSpaceIndex, 0 when there is none.
IndexIn(list, x) ==
    IF x \in Range(list)
    THEN CHOOSE i \in DOMAIN list :
            list[i] = x /\ \A j \in 1 .. i - 1 : list[j] # x
    ELSE 0

\* The element after x, the first one when x is not in the list.
After(list, x) == list[(IndexIn(list, x) % Len(list)) + 1]
StopAtLast(list, x) ==                                   \* mutant
    IF IndexIn(list, x) = Len(list) THEN x ELSE list[IndexIn(list, x) + 1]

----------------------------------------------------------------------------
(* Key presses. *)

SetAll(v) == [v EXCEPT !.mode = "all", !.machine = None, !.space = None]

ToggleActiveOnly(v) == [v EXCEPT !.activeOnly = ~@]

\* Mutant: the selected space survives a change of machine.
KeepSpace(v, snap) ==
    IF Len(snap.machines) = 0 THEN v
    ELSE [v EXCEPT !.mode = "machine",
                   !.machine = MachineNames(snap)[
                       (IndexIn(MachineNames(snap), @) % Len(snap.machines)) + 1]]

\* Mutant: the last machine is never left.
LastMachineStays(v, snap) ==
    IF Len(snap.machines) = 0 THEN v
    ELSE [v EXCEPT !.mode = "machine", !.space = None,
                   !.machine = StopAtLast(MachineNames(snap), @)]

NextMachine(v, snap) ==
    IF Len(snap.machines) = 0 THEN v
    ELSE [v EXCEPT !.mode = "machine", !.space = None,
                   !.machine = After(MachineNames(snap), @)]

\* Mutant: a label no agent has any more is kept.
KeepStale(v, snap) ==
    LET spaces == UniqueSpaces(snap)
    IN  IF Len(spaces) = 0 THEN v
        ELSE [v EXCEPT !.mode = "space", !.machine = None,
                       !.space = IF @ \in {None} \cup Range(spaces)
                                 THEN After(spaces, @) ELSE @]

NextSpace(v, snap) ==
    LET spaces == UniqueSpaces(snap)
    IN  IF Len(spaces) = 0 THEN v
        ELSE [v EXCEPT !.mode = "space", !.machine = None,
                       !.space = After(spaces, @)]

----------------------------------------------------------------------------
(* Building a model. *)

Active == {"blocked", "working", "done"}

Passes(v, a) ==
    /\ v.machine # None /\ v.space = None => a.machine = v.machine
    /\ v.space # None => a.space = v.space
    /\ v.activeOnly => a.status \in Active

FilterAgents(v, agents) == Picked(agents, {i \in DOMAIN agents : Passes(v, agents[i])})

StatusPriority ==
    [blocked |-> 0, done |-> 1, working |-> 2, idle |-> 3, unknown |-> 4]

LessAgent(a, b) ==
    \/ StatusPriority[a.status] < StatusPriority[b.status]
    \/ /\ StatusPriority[a.status] = StatusPriority[b.status]
       /\ NameRank[a.machine] < NameRank[b.machine]

\* sort.Slice, which keeps equal elements in their order up to 12 of them
\* (it is an insertion sort then).
Goes(agents, i, j) ==
    \/ LessAgent(agents[i], agents[j])
    \/ ~LessAgent(agents[j], agents[i]) /\ i < j
SortAgents(agents) ==
    [k \in DOMAIN agents |->
        agents[CHOOSE i \in DOMAIN agents :
            Cardinality({j \in DOMAIN agents : Goes(agents, j, i)}) = k - 1]]

Truncate(agents) == SubSeq(agents, 1, IF Len(agents) > Slots THEN Slots ELSE Len(agents))

\* Mutant: the keys are filled before the agents are sorted.
CutThenSort(v, snap) == SortAgents(Truncate(FilterAgents(v, snap.agents)))

Cells(v, snap) == Truncate(SortAgents(FilterAgents(v, snap.agents)))

\* Build(): sys is the display's own CPU and memory reading.
Build(v, snap, sys) ==
    [mode       |-> v.mode,
     agents     |-> Cells(v, snap),
     filtered   |-> v.activeOnly,
     navMachine |-> [current |-> IF v.machine \in Range(MachineNames(snap))
                                 THEN v.machine ELSE None,
                     next    |-> IF Len(snap.machines) = 0 THEN None
                                 ELSE After(MachineNames(snap), v.machine)],
     navSpace   |-> [count   |-> Len(UniqueSpaces(snap)),
                     current |-> IF v.space \in Range(UniqueSpaces(snap))
                                 THEN v.space ELSE None,
                     next    |-> IF Len(UniqueSpaces(snap)) = 0 THEN None
                                 ELSE After(UniqueSpaces(snap), v.space)],
     stats      |-> snap.stats,
     sys        |-> sys,
     machines   |-> snap.machines]
=============================================================================
