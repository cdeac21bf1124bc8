---------------------------- MODULE Navigation ----------------------------
(***************************************************************************)
(* The view state under key presses while snapshots come and go: the       *)
(* controller's OnK11, OnK12 and OnK13 and its ApplySnapshot, with what    *)
(* Build puts on the agent keys after each of them.                        *)
(***************************************************************************)
EXTENDS DisplayModel

CONSTANTS
    Snapshots,   \* snapshots the collector may publish
    K11Toggle    \* the --k11-toggle flag

ASSUME SnapshotsAssumption == \A s \in Snapshots : IsSnapshot(s)
ASSUME ToggleAssumption == K11Toggle \in BOOLEAN

VARIABLES
    snap,      \* lastSnapshot
    view,      \* the builder's ViewState
    visited    \* history: what the presses in a row of one key selected

vars == <<snap, view, visited>>

Init ==
    /\ snap = NoSnapshot
    /\ view = NewView
    /\ visited = <<>>

----------------------------------------------------------------------------

ApplySnapshot ==
    /\ snap' \in Snapshots
    /\ visited' = <<>>
    /\ UNCHANGED view

OnK11 ==
    /\ view' = IF K11Toggle THEN ToggleActiveOnly(SetAll(view)) ELSE SetAll(view)
    /\ visited' = <<>>
    /\ UNCHANGED snap

\* The last selections of a row: at most as many as the list is long.
Extended(row, x, n) ==
    IF Len(row) < n THEN Append(row, x) ELSE Append(Tail(row), x)

OnK12 ==
    /\ view' = IF snap = NoSnapshot THEN view ELSE NextMachine(view, snap)
    /\ visited' = IF Len(snap.machines) = 0 THEN <<>>
                  ELSE Extended(IF view.mode = "machine" THEN visited ELSE <<>>,
                                view'.machine, Len(snap.machines))
    /\ UNCHANGED snap

OnK13 ==
    /\ view' = IF snap = NoSnapshot THEN view ELSE NextSpace(view, snap)
    /\ visited' = IF Len(UniqueSpaces(snap)) = 0 THEN <<>>
                  ELSE Extended(IF view.mode = "space" THEN visited ELSE <<>>,
                                view'.space, Len(UniqueSpaces(snap)))
    /\ UNCHANGED snap

Next == ApplySnapshot \/ OnK11 \/ OnK12 \/ OnK13

Spec == Init /\ [][Next]_vars

----------------------------------------------------------------------------
(* Properties. *)

\* Every variable holds a value of its type.
TypeOK ==
    /\ snap \in Snapshots \cup {NoSnapshot}
    /\ view \in View
    /\ visited \in Seq(Machines) \cup Seq(Spaces)

\* The two selections and the mode are three fields that NextMachine,
\* NextSpace and SetAll write separately: whatever was pressed, at most one
\* selection is set and the mode names it.
ModeNamesSelection ==
    /\ view.mode = "all"     <=> view.machine = None /\ view.space = None
    /\ view.mode = "machine" <=> view.machine # None
    /\ view.mode = "space"   <=> view.space # None

\* An agent that is left off the keys although it passes the filters never
\* goes before one that is on them, and one on them passes every filter: the
\* blocked agents are what the ten keys show first.
UrgentFirst ==
    LET cells == Cells(view, snap)
        passing == {a \in Range(snap.agents) :
                      /\ view.machine # None => a.machine = view.machine
                      /\ view.space # None => a.space = view.space
                      /\ view.activeOnly => a.status \in Active}
    IN  /\ Range(cells) \subseteq passing
        /\ Len(cells) < Slots => Range(cells) = passing
        /\ \A a \in passing \ Range(cells), b \in Range(cells) : ~LessAgent(a, b)

\* Pressing one of the cycle keys as often as its list is long selects every
\* element of the list: no machine and no space is unreachable.
CycleReachesAll ==
    \A i, j \in DOMAIN visited : i # j => visited[i] # visited[j]

\* A press of a cycle key selects something the snapshot has, also when what
\* was selected vanished with a snapshot since the last press.
PressSelectsPresent ==
    [][/\ OnK12 /\ Len(snap.machines) # 0 =>
              view'.machine \in Range(MachineNames(snap))
       /\ OnK13 /\ Len(UniqueSpaces(snap)) # 0 =>
              view'.space \in Range(UniqueSpaces(snap))]_vars
=============================================================================
