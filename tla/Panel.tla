------------------------------- MODULE Panel -------------------------------
(***************************************************************************)
(* The desktop panel: natsPump puts snapshots into the store while the     *)
(* window's frame loop reads it, filters what the user has hidden, builds  *)
(* a model, handles the clicks and keys that came since the last frame,    *)
(* lays the board out and compares it with the last one for alerts.        *)
(*                                                                         *)
(* A frame reads the store at its start; a key reads it again.  The builder*)
(* takes its view from the store at the start of a frame and gives it back *)
(* after every click and key, and nothing else writes either: one variable *)
(* stands for both.  The health and the flag of the panel are the subject  *)
(* of Health; durations, colours and sizes are left out.                   *)
(***************************************************************************)
EXTENDS DisplayModel

CONSTANTS
    Published,   \* snapshots the collector may publish
    Watched,     \* the statuses of --alert-on, none without a rule
    MaxInputs    \* bound: clicks and keys that wait for one frame

ASSUME PublishedAssumption ==
    \A s \in Published :
        /\ IsSnapshot(s)
        /\ \A a \in Range(s.agents) : a.machine \in Range(MachineNames(s))
ASSUME PanelAssumption == Watched \subseteq Statuses /\ MaxInputs \in Nat

VARIABLES
    stored,        \* store.snapshot
    viewState,     \* store.viewState and the builder's state
    hidden,        \* store.hiddenMachines
    machineClicks, \* the machines with a Clickable
    spaceClicks,   \* the labels with a Clickable
    spaceOrder,    \* the labels that are laid out
    dark,          \* HiddenSpaces
    phase,         \* frame loop: "wait" for an event, "clicks", "keys"
    frame,         \* the frame under way: the snapshot read, the model built of it
    refs,          \* Agents: the cards that a digit selects
    selected,      \* SelectedIdx, 0 for none
    board,         \* what the last frame laid out, <<>> before it
    alerted,       \* whether the last frame raised an alert
    inputs         \* clicks and keys handled in this frame

storeVars == <<stored, viewState, hidden>>
inputVars == <<machineClicks, spaceClicks, spaceOrder, dark>>
frameVars == <<phase, frame, inputs>>
boardVars == <<board, alerted>>
panelVars == <<storeVars, inputVars, frameVars, refs, selected, boardVars>>

PanelInit ==
    /\ stored = NoSnapshot
    /\ viewState = NewView
    /\ hidden = {}
    /\ machineClicks = {} /\ spaceClicks = {} /\ dark = {}
    /\ spaceOrder = <<>>
    /\ phase = "wait"
    /\ frame = <<>>
    /\ refs = <<>>
    /\ selected = 0
    /\ board = <<>>
    /\ alerted = FALSE
    /\ inputs = 0

----------------------------------------------------------------------------
(* What a frame shows. *)

Tally(agents) ==
    [st \in Statuses |-> Cardinality({i \in DOMAIN agents : agents[i].status = st})]

\* Mutant: an agent is left out only when its machine and its space are off.
BothOff(s) ==
    LET lit == {i \in DOMAIN s.agents :
                  s.agents[i].machine \notin hidden \/ s.agents[i].space \notin dark}
        agents == Picked(s.agents, lit)
    IN  IF s = NoSnapshot THEN s
        ELSE [s EXCEPT !.agents = agents, !.stats = Tally(agents)]

\* filterHiddenMachines: the machines stay, the agents are counted again.
FilterHidden(s) ==
    LET lit == {i \in DOMAIN s.agents :
                  s.agents[i].machine \notin hidden /\ s.agents[i].space \notin dark}
        agents == Picked(s.agents, lit)
    IN  IF s = NoSnapshot THEN s
        ELSE [s EXCEPT !.agents = agents, !.stats = Tally(agents)]

\* The attention cards, which alone are registered for selection.
Cards(m) ==
    LET urgent == Picked(m.agents, {i \in DOMAIN m.agents : m.agents[i].status \in Active})
    IN  SubSeq(urgent, 1, IF Len(urgent) > 3 THEN 3 ELSE Len(urgent))

\* The header: its counts, or the wait for data when all of them are zero.
Header(m) ==
    [waiting |-> m.stats = Tally(<<>>), counts |-> m.stats]

\* The agent grid: a row per machine.
Rows(m) ==
    [n \in {a.machine : a \in Range(m.agents)} |->
        Picked(m.agents, {i \in DOMAIN m.agents : m.agents[i].machine = n})]

\* The chips: what the snapshot and the order name, as far as there is a
\* Clickable.
MachineChips(s) == Range(MachineNames(s)) \cap machineClicks
SpaceChips == Range(spaceOrder) \cap spaceClicks

ShouldAlert(st) == st \in Watched

NewlyThere(old, new) ==                                  \* mutant
    \E i \in DOMAIN new :
        /\ ShouldAlert(new[i].status)
        /\ \A j \in DOMAIN old : old[j].pane # new[i].pane

\* checkAlert: the agents of the last model by pane id, where the last of
\* several with one pane id stands for all.
CheckAlert(old, new) ==
    \E i \in DOMAIN new :
        LET same == {j \in DOMAIN old : old[j].pane = new[i].pane}
        IN  /\ ShouldAlert(new[i].status)
            /\ \A j \in same : (\A k \in same : k <= j) => old[j].status # new[i].status

----------------------------------------------------------------------------
(* natsPump. *)

NatsPump ==
    /\ stored' \in Published
    /\ UNCHANGED <<viewState, hidden, inputVars, frameVars, refs, selected, boardVars>>

----------------------------------------------------------------------------
(* The frame loop. *)

\* SyncMachines and SyncSpaces, on what the store has.
SyncMachines(s) == machineClicks' = machineClicks \cup Range(MachineNames(s))

SyncFiltered(s) ==                                       \* mutant
    /\ spaceClicks' = spaceClicks \cup Range(UniqueSpaces(FilterHidden(s)))
    /\ spaceOrder' = UniqueSpaces(FilterHidden(s))
    /\ dark' = dark
SyncSpaces(s) ==
    /\ spaceClicks' = spaceClicks \cup Range(UniqueSpaces(s))
    /\ spaceOrder' = IF s = NoSnapshot THEN spaceOrder ELSE UniqueSpaces(s)
    /\ dark' = dark \ (Range(UniqueSpaces(s)) \ spaceClicks)

ChangedOnly ==                                           \* mutant
    phase = "wait" /\ (IF board = <<>> THEN TRUE ELSE board.read # stored)
\* refreshPump asks for a frame five times a second, changed or not.
FrameEvent == phase = "wait"

\* Reads the store, syncs the chips, filters and builds; then the cards of
\* the last frame are forgotten.
BeginFrame ==
    /\ FrameEvent
    /\ SyncMachines(stored)
    /\ SyncSpaces(stored)
    /\ frame' = [read |-> stored, model |-> Build(viewState, FilterHidden(stored), None)]
    /\ refs' = <<>>
    /\ phase' = "clicks"
    /\ UNCHANGED <<storeVars, inputs, selected, boardVars>>

Toggled(set, some) == (set \ some) \cup (some \ set)

\* HandleClicks: what was clicked of what the last frame laid out.  The
\* button that hides the window changes nothing here.
HandleClicks(act, ms, ss) ==
    /\ phase = "clicks"
    /\ board = <<>> => ~act /\ ms = {} /\ ss = {}
    /\ board # <<>> => ms \subseteq board.machines /\ ss \subseteq board.spaces
    /\ viewState' = IF act THEN ToggleActiveOnly(viewState) ELSE viewState
    /\ hidden' = Toggled(hidden, ms)
    /\ dark' = Toggled(dark, ss)
    /\ inputs' = (IF act THEN 1 ELSE 0) + Cardinality(ms) + Cardinality(ss)
    /\ inputs' <= MaxInputs
    /\ phase' = "keys"
    /\ UNCHANGED <<stored, machineClicks, spaceClicks, spaceOrder, frame, refs,
                   selected, boardVars>>

\* One turn of HandleKeys.
Key(v, i) ==
    /\ phase = "keys"
    /\ inputs < MaxInputs
    /\ inputs' = inputs + 1
    /\ viewState' = v
    /\ selected' = i
    /\ UNCHANGED <<stored, hidden, inputVars, phase, frame, refs, boardVars>>

KeyA == Key(ToggleActiveOnly(viewState), selected)
KeyM == Key(NextMachine(viewState, stored), selected)
KeyP == Key(NextSpace(viewState, stored), selected)
KeyR == Key(SetAll(viewState), 0)
KeyEscape == Key(viewState, 0)
KeyDigit(d) == Key(viewState, IF d <= Len(refs) THEN d ELSE selected)
\* Publishes a focus command when a card is selected, which changes nothing
\* here.
KeyEnter == Key(viewState, selected)

\* LayoutBoard, which reads the hidden machines again: the chips show what
\* the input of this frame left, the agents what it found.  Then checkAlert.
LayoutBoard ==
    /\ phase = "keys"
    /\ board' = [model |-> frame.model,
                 read |-> frame.read,
                 header |-> Header(frame.model), rows |-> Rows(frame.model),
                 machines |-> MachineChips(frame.read), spaces |-> SpaceChips,
                 dimMachines |-> hidden, dimSpaces |-> dark,
                 viewState |-> viewState, quiet |-> inputs = 0]
    /\ refs' = Cards(frame.model)
    /\ alerted' = (board # <<>> /\ CheckAlert(board.model.agents, frame.model.agents))
    /\ phase' = "wait"
    /\ frame' = <<>>
    /\ inputs' = 0
    /\ UNCHANGED <<storeVars, inputVars, selected>>

----------------------------------------------------------------------------

HandleKeys ==
    \/ KeyA \/ KeyM \/ KeyP \/ KeyR \/ KeyEscape \/ KeyEnter
    \/ \E d \in 1 .. 9 : KeyDigit(d)

Clicks ==
    \E act \in BOOLEAN, ms \in SUBSET Machines, ss \in SUBSET Spaces :
        HandleClicks(act, ms, ss)

PanelNext == NatsPump \/ BeginFrame \/ Clicks \/ HandleKeys \/ LayoutBoard

PanelSpec == PanelInit /\ [][PanelNext]_panelVars

\* The window's events are handled one after the other; nobody has to press
\* anything.
FrameGoesOn ==
    \/ FrameEvent /\ phase' = "clicks"
    \/ phase = "clicks" /\ phase' = "keys"
    \/ phase = "keys" /\ phase' = "wait"

FairSpec == PanelSpec /\ WF_phase(FrameGoesOn)

----------------------------------------------------------------------------
(* Properties. *)

\* Every machine of the snapshot that was drawn, and every label of its
\* agents, has a chip to click, also when its agents are hidden, so that what
\* was hidden can be brought back; the chips are made of the snapshot before
\* it is filtered.
NeverLockedOut ==
    board # <<>> =>
        /\ Range(MachineNames(board.read)) \subseteq board.machines
        /\ {a.space : a \in Range(board.read.agents)} \ {None} \subseteq board.spaces

\* The store, the input state and the builder each filter, and the chips are
\* laid out from a second reading: in a frame without input the agents drawn
\* are those whose chips are lit and which the view lets pass, the most urgent
\* ones when there are too many, and the header counts all that are lit.
BoardMatchesChips ==
    board # <<>> /\ board.quiet =>
        LET lit == {i \in DOMAIN board.read.agents :
                      LET a == board.read.agents[i]
                      IN  a.machine \notin board.dimMachines /\ a.space \notin board.dimSpaces}
            passing == {a \in {board.read.agents[i] : i \in lit} : Passes(board.viewState, a)}
            cells == UNION {Range(board.rows[n]) : n \in DOMAIN board.rows}
        IN  /\ cells \subseteq passing
            /\ Len(board.model.agents) < Slots => cells = passing
            /\ \A a \in passing \ cells, b \in cells : ~LessAgent(a, b)
            /\ board.read # NoSnapshot =>
                  /\ board.header.waiting <=> lit = {}
                  /\ \A st \in Statuses : board.header.counts[st] =
                        Cardinality({i \in lit : board.read.agents[i].status = st})

\* Once snapshots, clicks and keys stop changing anything, the board shows
\* what they left, since a frame comes whether or not anything is dirty.
SettledIsDrawn ==
    LET settled == <<storeVars, dark>>
    IN  <>[][FALSE]_settled =>
            <>[](/\ board # <<>>
                 /\ board.read = stored
                 /\ board.model = Build(viewState, FilterHidden(stored), None)
                 /\ board.dimMachines = hidden /\ board.dimSpaces = dark)

\* With pane ids that no two cells of a board share, an alert is raised
\* exactly when a cell has come to a watched status since the last board: by a
\* change, by a chip lit again, or by moving up onto a key.
AlertsOnEntry ==
    [][phase = "keys" /\ phase' = "wait" /\ board # <<>> =>
         LET old == board.model.agents
             new == Range(board'.model.agents)
             Entered(a) ==
                /\ a.status \in Watched
                /\ \A b \in Range(old) : <<b.machine, b.pane, b.status>>
                                             # <<a.machine, a.pane, a.status>>
         IN  /\ \A i, j \in DOMAIN old : old[i].pane = old[j].pane => i = j
             /\ \A a \in Range(old), b \in new : a.pane = b.pane => a.machine = b.machine
             => (alerted' <=> \E a \in new : Entered(a))]_panelVars
=============================================================================
