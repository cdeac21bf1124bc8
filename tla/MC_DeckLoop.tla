---------------------------- MODULE MC_DeckLoop ----------------------------
(* One machine with one agent without a label, which works (animated) or is *)
(* idle.                                                                    *)
EXTENDS DeckLoop, TLC

MCMachines == {"hub"}
MCRank == "hub" :> 1
MCSpaces == {"api"}

Mac(n, h) == [name |-> n, health |-> h]
Agent(m, s, st) == [machine |-> m, pane |-> "p", space |-> s, status |-> st]
Tally(as) == [st \in {"idle", "working"} |->
                Cardinality({i \in DOMAIN as : as[i].status = st})]
Snap(ms, as) == [machines |-> ms, agents |-> as, stats |-> Tally(as)]

Hub(st) == Snap(<<Mac("hub", "online")>>, <<Agent("hub", None, st)>>)
TwoSnapshots == {Hub("working"), Hub("idle")}

Limit(d, c, f, m) == [drops |-> d, clears |-> c, faults |-> f, minutes |-> m]
OneOfEach == {Limit(1, 1, 1, 0), Limit(1, 0, 0, 1), Limit(0, 0, 1, 1)}
Nothing == {Limit(0, 0, 0, 0)}

K1_K12 == <<"K1", "K12">>
K1_K11_K14 == <<"K1", "K11", "K14">>
=============================================================================
