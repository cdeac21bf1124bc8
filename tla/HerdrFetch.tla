----------------------------- MODULE HerdrFetch -----------------------------
(***************************************************************************)
(* fetchConn and merge of the bridge: one connection's herdr is asked for  *)
(* its workspaces, then for its agents, then for its tabs, and the three   *)
(* answers are joined.  Each call is a connection of its own, so herdr's   *)
(* users open, close and move things between them: the joined result may   *)
(* never have been the state of herdr.                                     *)
(*                                                                         *)
(* herdr itself is not part of the repository: its state is what the three *)
(* calls return, its changes whatever keeps that state meaningful.  Calls  *)
(* that fail end the fetch with an error (Bridge).  A pane keeps its tab.  *)
(***************************************************************************)
EXTENDS Naturals

CONSTANTS
    Workspaces,   \* workspaces of this herdr
    Panes,        \* panes an agent may run in
    Titles,       \* tab labels
    LabelOf       \* label of each workspace, None when it has none

None == ""
Gone == "gone"    \* no agent runs in the pane

ASSUME LabelsAssumption == None \notin Titles \cup Workspaces /\ DOMAIN LabelOf = Workspaces
ASSUME GoneAssumption == Gone \notin Workspaces

VARIABLES
    open,      \* the workspaces there are
    place,     \* the workspace each pane's agent is in, or Gone
    title,     \* the label of each pane's tab
    asked,     \* the calls answered: 0 .. 3
    wsRead,    \* workspace.list
    agRead,    \* agent.list
    reported,  \* what merge made of them
    places,    \* history: where each agent was since the fetch began
    stayed,    \* history: workspaces that were there all the time
    titles     \* history: the labels each pane's tab had

herdrVars == <<open, place, title>>
fetchVars == <<asked, wsRead, agRead, reported>>
herdrFetchVars == <<herdrVars, fetchVars, places, stayed, titles>>

HerdrInit ==
    /\ open \in SUBSET Workspaces
    /\ place \in [Panes -> open \cup {Gone}]
    /\ title \in [Panes -> Titles]
    /\ asked = 0
    /\ wsRead = {}
    /\ agRead = [p \in Panes |-> Gone]
    /\ reported = {}
    /\ places = [p \in Panes |-> {place[p]}]
    /\ stayed = open
    /\ titles = [p \in Panes |-> {title[p]}]

----------------------------------------------------------------------------
(* herdr's users. *)

\* An agent starts, moves to another workspace, or ends.
Move(p, w) ==
    /\ w \in open \cup {Gone}
    /\ w # place[p]
    /\ place' = [place EXCEPT ![p] = w]
    /\ places' = [places EXCEPT ![p] = @ \cup {w}]
    /\ UNCHANGED <<open, title, fetchVars, stayed, titles>>

Open(w) ==
    /\ w \notin open
    /\ open' = open \cup {w}
    /\ UNCHANGED <<place, title, fetchVars, places, stayed, titles>>

\* The agents in the workspace end with it.
Close(w) ==
    /\ w \in open
    /\ open' = open \ {w}
    /\ place' = [p \in Panes |-> IF place[p] = w THEN Gone ELSE place[p]]
    /\ places' = [p \in Panes |-> places[p] \cup {place'[p]}]
    /\ stayed' = stayed \ {w}
    /\ UNCHANGED <<title, fetchVars, titles>>

Rename(p, l) ==
    /\ title' = [title EXCEPT ![p] = l]
    /\ titles' = [titles EXCEPT ![p] = @ \cup {l}]
    /\ UNCHANGED <<open, place, fetchVars, places, stayed>>

----------------------------------------------------------------------------
(* The fetch. *)

\* The history begins again with the fetch.
ListWorkspaces ==
    /\ asked \in {0, 3}
    /\ asked' = 1
    /\ wsRead' = open
    /\ reported' = {}
    /\ agRead' = [p \in Panes |-> Gone]
    /\ places' = [p \in Panes |-> {place[p]}]
    /\ stayed' = open
    /\ titles' = [p \in Panes |-> {title[p]}]
    /\ UNCHANGED herdrVars

ListAgents ==
    /\ asked = 1
    /\ asked' = 2
    /\ agRead' = place
    /\ UNCHANGED <<herdrVars, wsRead, reported, places, stayed, titles>>

DropUnlabelled(p) ==                                     \* mutant
    agRead[p] \in wsRead /\ LabelOf[agRead[p]] # None
TakeAll(p) == agRead[p] # Gone                           \* mutant

\* merge goes through the workspaces: an agent whose workspace was not in
\* the first answer is left out.
Merged(p) == agRead[p] \in wsRead

\* A workspace without a label is called after its number, which is its own.
Label(w) == IF LabelOf[w] = None THEN w ELSE LabelOf[w]

\* A tab that closed before the third answer, with the agent in it, leaves
\* an empty label.
ListTabs ==
    /\ asked = 2
    /\ asked' = 3
    /\ \E closed \in SUBSET {p \in Panes : place[p] = Gone} :
          reported' = {[pane |-> p, ws |-> agRead[p], label |-> Label(agRead[p]),
                        tab |-> IF p \in closed THEN None ELSE title[p]] :
                       p \in {q \in Panes : Merged(q)}}
    /\ UNCHANGED <<herdrVars, wsRead, agRead, places, stayed, titles>>

HerdrNext ==
    \/ \E p \in Panes, w \in Workspaces \cup {Gone} : Move(p, w)
    \/ \E w \in Workspaces : Open(w) \/ Close(w)
    \/ \E p \in Panes, l \in Titles : Rename(p, l)
    \/ ListWorkspaces \/ ListAgents \/ ListTabs

HerdrSpec == HerdrInit /\ [][HerdrNext]_herdrFetchVars

----------------------------------------------------------------------------
(* Properties. *)

\* An agent that stayed where it was for the whole fetch is reported there,
\* whatever changed around it and whether or not its workspace has a label.
StayersReported ==
    asked = 3 => \A p \in Panes :
        \A w \in stayed : agRead[p] = w /\ places[p] = {w}
            => \E a \in reported : a.pane = p /\ a.ws = w

\* Nothing is reported that was not so at some moment of the fetch, each
\* part by itself: the agent was in that workspace, the workspace was there
\* when the fetch began, the tab had that label unless it is empty.
NothingInvented ==
    asked = 3 => \A a \in reported :
        /\ a.ws \in places[a.pane] \cap wsRead
        /\ a.tab \in titles[a.pane] \cup {None}
=============================================================================
