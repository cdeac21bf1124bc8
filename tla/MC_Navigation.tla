--------------------------- MODULE MC_Navigation ---------------------------
(* Three machines, three labels, and snapshots in which agents, labels and  *)
(* machines come and go.                                                    *)
EXTENDS Navigation, TLC

MCMachines == {"dev", "hub", "lab"}
MCRank == ("dev" :> 1) @@ ("hub" :> 2) @@ ("lab" :> 3)
MCSpaces == {"api", "web", "ops"}

Agent(m, p, s, st) == [machine |-> m, pane |-> p, space |-> s, status |-> st]
Mac(n, h) == [name |-> n, health |-> h]
Snap(ms, as) == [machines |-> ms, agents |-> as, stats |-> Len(as)]

MCSnapshots ==
    {Snap(<<Mac("hub", "online")>>,
          <<Agent("hub", "p1", None, "idle")>>),
     Snap(<<Mac("hub", "online"), Mac("dev", "online")>>,
          <<Agent("hub", "p1", "api", "idle"), Agent("dev", "p1", "web", "working")>>),
     Snap(<<Mac("hub", "online"), Mac("dev", "offline"), Mac("lab", "online")>>,
          <<Agent("hub", "p1", "web", "idle"), Agent("hub", "p2", "api", "blocked"),
            Agent("dev", "p1", "web", "done"), Agent("lab", "p1", None, "unknown"),
            Agent("lab", "p2", "ops", "blocked")>>),
     Snap(<<Mac("lab", "online"), Mac("hub", "online")>>,
          <<Agent("lab", "p1", "ops", "working"), Agent("lab", "p2", "ops", "done"),
            Agent("hub", "p1", "web", "working")>>),
     Snap(<<Mac("hub", "offline"), Mac("lab", "online"), Mac("dev", "online")>>, <<>>)}
=============================================================================
