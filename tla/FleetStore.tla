---------------------------- MODULE FleetStore ----------------------------
(***************************************************************************)
(* The collector's fleet store: ApplyResults takes the fetch results of a  *)
(* round, one after the other, into the per-machine state, then rebuilds   *)
(* the snapshot that is published.                                         *)
(*                                                                         *)
(* The two loops of ApplyResults are one action per turn.  The results of  *)
(* a round are chosen as the first loop reaches them: the connection whose *)
(* result came next and what it brought.  A machine is named by its        *)
(* connection, and nothing keeps two connections from having one name.     *)
(***************************************************************************)
EXTENDS Naturals, Sequences, FiniteSets

CONSTANTS
    Conns,      \* connections of the configuration (or of the mock data)
    Names,      \* machine names
    NameOf,     \* the name each connection is configured with
    Panes,      \* pane identifiers
    Raws,       \* status texts herdr reports
    Reports,    \* agent lists a fetch can bring
    Errors,     \* error texts of a failed fetch
    MaxSeq      \* bound: rounds in a behaviour

Statuses == {"done", "idle", "working", "blocked", "unknown"}

ASSUME ConnsAssumption == NameOf \in [Conns -> Names]
ASSUME ReportsAssumption == Reports \subseteq Seq([pane : Panes, raw : Raws])
ASSUME MaxSeqAssumption == MaxSeq \in Nat

VARIABLES
    source,    \* where the rounds come from: "bridge" or "mock"
    phase,     \* "idle", "apply" (first loop) or "build" (second loop)
    pending,   \* connections whose result the first loop has not reached
    seen,      \* names with a result in this round
    machines,  \* machine state per known name
    order,     \* known names, in the order they first appeared
    next,      \* position in order the second loop has reached
    partial,   \* machines, agents and stats built so far
    seq,       \* number of the last snapshot
    snapshot,  \* the current snapshot
    changed,   \* what the last ApplyResults returned
    good,      \* history: the agents of each name's last successful fetch
    ok,        \* history: whether each name's last result was a success
    views      \* history: the machine states the last two snapshots show

loopVars == <<phase, pending, seen, next, partial>>
vars == <<source, loopVars, machines, order, seq, snapshot, changed, good, ok, views>>

----------------------------------------------------------------------------

\* The statuses herdr knows keep their name, any other becomes "unknown".
MapStatus(raw) == IF raw \in Statuses THEN raw ELSE "unknown"

AgentOf(n, a) == [machine |-> n, pane |-> a.pane, status |-> MapStatus(a.raw)]

AgentsOf(n, rep) == [i \in DOMAIN rep |-> AgentOf(n, rep[i])]

Tally(agents) ==
    [s \in Statuses |-> Cardinality({i \in DOMAIN agents : agents[i].status = s})]

NoStats == [s \in Statuses |-> 0]

Nothing == [machines |-> <<>>, agents |-> <<>>, stats |-> NoStats]

\* What the snapshot says of a machine.
Info(n) == [name |-> n, health |-> machines[n].health, err |-> machines[n].err]

NoView == [n \in {} |-> <<>>]

----------------------------------------------------------------------------

Init ==
    /\ source \in {"bridge", "mock"}
    /\ phase = "idle"
    /\ pending = {}
    /\ seen = {}
    /\ machines = NoView
    /\ order = <<>>
    /\ next = 1
    /\ partial = Nothing
    /\ seq = 0
    /\ snapshot = Nothing
    /\ changed = FALSE
    /\ good = [n \in Names |-> <<>>]
    /\ ok = [n \in Names |-> FALSE]
    /\ views = [last |-> NoView, before |-> NoView]

\* A round's results arrive.  The bridge reports every name (of two
\* connections with one name it may report a single failure when the round
\* times out); a mock phase reports the connections it lists.
Round(S) ==
    /\ phase = "idle"
    /\ seq < MaxSeq
    /\ source = "bridge" => {NameOf[c] : c \in S} = {NameOf[c] : c \in Conns}
    /\ phase' = "apply"
    /\ pending' = S
    /\ seen' = {}
    /\ UNCHANGED <<machines, order, next, partial, seq, snapshot, changed, good, ok, views>>

StartRound == \E S \in SUBSET Conns : Round(S)

\* Turn of the first loop: the machine is entered at its first result.
ByArrival(n) == Append(SelectSeq(order, LAMBDA m : m # n), n)  \* mutant
Enter(n) == IF n \in DOMAIN machines THEN order ELSE Append(order, n)

KnownAgents(n) == IF n \in DOMAIN machines THEN machines[n].agents ELSE <<>>

Reached(c) ==
    /\ phase = "apply"
    /\ c \in pending
    /\ pending' = pending \ {c}
    /\ seen' = seen \cup {NameOf[c]}
    /\ order' = Enter(NameOf[c])

Updated(n, state) == [m \in DOMAIN machines \cup {n} |->
                         IF m = n THEN state ELSE machines[m]]

Forgets(n, e) == [health |-> "offline", err |-> e, agents |-> <<>>]  \* mutant
OfflineState(n, e) == [health |-> "offline", err |-> e, agents |-> KnownAgents(n)]

\* ... a failed fetch marks it offline and keeps the agents it had,
ApplyFailure(c, e) ==
    /\ source = "bridge"
    /\ Reached(c)
    /\ machines' = Updated(NameOf[c], OfflineState(NameOf[c], e))
    /\ ok' = [ok EXCEPT ![NameOf[c]] = FALSE]
    /\ UNCHANGED <<phase, next, partial, seq, snapshot, changed, good, views>>

OnlineState(n, rep) == [health |-> "online", err |-> "", agents |-> AgentsOf(n, rep)]

\* ... a successful one marks it online and replaces them.
ApplySuccess(c, rep) ==
    /\ Reached(c)
    /\ machines' = Updated(NameOf[c], OnlineState(NameOf[c], rep))
    /\ good' = [good EXCEPT ![NameOf[c]] = AgentsOf(NameOf[c], rep)]
    /\ ok' = [ok EXCEPT ![NameOf[c]] = TRUE]
    /\ UNCHANGED <<phase, next, partial, seq, snapshot, changed, views>>

\* The first loop has reached every result.
EndApply ==
    /\ phase = "apply"
    /\ pending = {}
    /\ phase' = "build"
    /\ next' = 1
    /\ partial' = Nothing
    /\ UNCHANGED <<pending, seen, machines, order, seq, snapshot, changed, good, ok, views>>

Listed(n) == n \in seen

Overwritten(n) == Tally(machines[n].agents)              \* mutant
AddedStats(n) ==
    [s \in Statuses |-> partial.stats[s] + Tally(machines[n].agents)[s]]

With(n) == [machines |-> Append(partial.machines, Info(n)),
            agents   |-> partial.agents \o machines[n].agents,
            stats    |-> AddedStats(n)]

\* Turn of the second loop: the next name in order is listed with its
\* agents if this round had a result for it.
BuildOne ==
    /\ phase = "build"
    /\ next <= Len(order)
    /\ partial' = IF Listed(order[next]) THEN With(order[next]) ELSE partial
    /\ next' = next + 1
    /\ UNCHANGED <<phase, pending, seen, machines, order, seq, snapshot, changed, good, ok, views>>

\* snapshotEqual: machines, agents and stats, position by position.
SameLengths ==                                           \* mutant
    /\ Len(snapshot.machines) = Len(partial.machines)
    /\ Len(snapshot.agents) = Len(partial.agents)
    /\ snapshot.stats = partial.stats
SameSnapshot == snapshot = partial

\* The new snapshot replaces the old one and is published.
Commit ==
    /\ phase = "build"
    /\ next > Len(order)
    /\ seq' = seq + 1
    /\ snapshot' = partial
    /\ changed' = ~SameSnapshot
    /\ phase' = "idle"
    /\ views' = [last |-> [n \in seen |-> machines[n]], before |-> views.last]
    /\ UNCHANGED <<pending, seen, machines, order, next, partial, good, ok>>

\* The source is chosen once, when the collector starts.
Next ==
    /\ \/ StartRound
       \/ \E c \in Conns, e \in Errors : ApplyFailure(c, e)
       \/ \E c \in Conns, rep \in Reports : ApplySuccess(c, rep)
       \/ EndApply
       \/ BuildOne
       \/ Commit
    /\ UNCHANGED source

Spec == Init /\ [][Next]_vars

----------------------------------------------------------------------------
(* Properties *)

Elements(s) == {s[i] : i \in DOMAIN s}

ListedNames == {snapshot.machines[i].name : i \in DOMAIN snapshot.machines}

Agents == [machine : Names, pane : Panes, status : Statuses]

Healths == {"online", "offline"}

ErrorTexts == Errors \cup {""}

MachineStates == [health : Healths, err : ErrorTexts, agents : Seq(Agents)]

MachineInfos == [name : Names, health : Healths, err : ErrorTexts]

Snapshots == [machines : Seq(MachineInfos),
              agents   : Seq(Agents),
              stats    : [Statuses -> Nat]]

TypeOK ==
    /\ source \in {"bridge", "mock"}
    /\ phase \in {"idle", "apply", "build"}
    /\ pending \in SUBSET Conns
    /\ seen \in SUBSET Names
    /\ DOMAIN machines \in SUBSET Names
    /\ machines \in [DOMAIN machines -> MachineStates]
    /\ order \in Seq(Names)
    /\ next \in 1..(Len(order) + 1)
    /\ partial \in Snapshots
    /\ seq \in 0..MaxSeq
    /\ snapshot \in Snapshots
    /\ changed \in BOOLEAN
    /\ good \in [Names -> Seq(Agents)]
    /\ ok \in [Names -> BOOLEAN]

\* A failed fetch does not empty the display: between rounds every listed
\* machine has the health of its last result, and the snapshot's agents are
\* exactly those its machines' last successful fetches brought.
LastKnownAgents ==
    phase = "idle" =>
        /\ \A i \in DOMAIN snapshot.machines :
              LET m == snapshot.machines[i]
              IN  m.health = IF ok[m.name] THEN "online" ELSE "offline"
        /\ Elements(snapshot.agents) = UNION {Elements(good[n]) : n \in ListedNames}

\* The five counters of a snapshot add up to its agents, status by status.
StatsMatchAgents == snapshot.stats = Tally(snapshot.agents)

\* A machine is listed once, however many connections share its name and
\* however often it went away and came back.
ListedOnce ==
    \A i, j \in DOMAIN snapshot.machines :
        snapshot.machines[i].name = snapshot.machines[j].name => i = j

\* ApplyResults reports a change exactly when what the machines of the round
\* look like differs from the round before: neither the order in which the
\* results came in nor the time that passed counts, and no change is lost.
ChangedIsExact == phase = "idle" => (changed <=> views.last # views.before)

Precedes(s, a, b) ==
    \E i, j \in DOMAIN s : i < j /\ s[i].name = a /\ s[j].name = b

\* From one snapshot to the next two machines never swap places, whatever
\* the order of arrival.
StableOrder ==
    [][\A a, b \in Names :
          Precedes(snapshot.machines, a, b) => ~Precedes(snapshot'.machines, b, a)]_vars
=============================================================================
