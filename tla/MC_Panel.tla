----------------------------- MODULE MC_Panel -----------------------------
(* Two machines, two labels, two agents that fit the board or three that do *)
(* not, one of which shares its pane id with one of the other machine.      *)
EXTENDS Panel, TLC

MCMachines == {"hub", "lab"}
MCRank == ("hub" :> 1) @@ ("lab" :> 2)
MCSpaces == {"api", "web"}

Agent(m, p, s, st) == [machine |-> m, pane |-> p, space |-> s, status |-> st]
Snap(ms, as) ==
    [machines |-> [i \in DOMAIN ms |-> [name |-> ms[i], health |-> "online"]],
     agents |-> as, stats |-> Tally(as)]

MCSnapshots ==
    {Snap(<<"hub", "lab">>, <<Agent("hub", "p1", "api", "idle"), Agent("lab", "p2", "web", "blocked")>>),
     Snap(<<"hub", "lab">>, <<Agent("hub", "p1", "api", "blocked"), Agent("lab", "p1", "web", "idle"),
                             Agent("lab", "p2", "web", "blocked")>>),
     Snap(<<"hub">>, <<Agent("hub", "p1", None, "idle")>>)}
=============================================================================
