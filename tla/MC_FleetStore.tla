--------------------------- MODULE MC_FleetStore ---------------------------
(* Three connections, two of which share a name. *)
EXTENDS FleetStore, TLC

CONSTANTS c1, c2, c3, p1, p2

MCConns == {c1, c2, c3}
MCNames == {"near", "far"}
MCNameOf == (c1 :> "near") @@ (c2 :> "far") @@ (c3 :> "far")
MCReports ==
    {<<>>,
     <<[pane |-> p1, raw |-> "working"]>>,
     <<[pane |-> p2, raw |-> "compacting"], [pane |-> p1, raw |-> "blocked"]>>}
=============================================================================
