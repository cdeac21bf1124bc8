---------------------------- MODULE FetchRounds ----------------------------
(***************************************************************************)
(* What the bridge promises to the collector's loop and to the fleet       *)
(* store: rounds, one after the other.  A round brings a sequence of       *)
(* results, each of its own connection, and some result for every name, so *)
(* one of every connection that has a name of its own.  The store's rounds *)
(* from the bridge (FleetStore!Round) are of this kind.                    *)
(***************************************************************************)
EXTENDS Naturals, Sequences

CONSTANTS
    Conns,    \* connections
    Configs   \* ways to name them

VARIABLES
    names,        \* the name of each connection
    round,        \* number of the round
    collecting,   \* whether it is under way
    results       \* [conn, ok] of the last finished one, in order

vars == <<names, round, collecting, results>>

IsRound(res) ==
    /\ \A i \in DOMAIN res : res[i].conn \in Conns
    /\ \A i, j \in DOMAIN res : res[i].conn = res[j].conn => i = j
    /\ \A c \in Conns : \E i \in DOMAIN res : names[res[i].conn] = names[c]

Init == names \in Configs /\ round = 0 /\ collecting = FALSE /\ results = <<>>

Start ==
    /\ ~collecting
    /\ round' = round + 1
    /\ collecting' = (Conns # {})
    /\ results' = <<>>
    /\ UNCHANGED names

Return ==
    /\ collecting
    /\ collecting' = FALSE
    /\ IsRound(results')
    /\ UNCHANGED <<names, round>>

Next == Start \/ Return

Spec == Init /\ [][Next]_vars
=============================================================================
