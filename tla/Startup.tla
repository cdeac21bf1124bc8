------------------------------ MODULE Startup ------------------------------
(***************************************************************************)
(* The collector until its event loop runs, and when it ends: the embedded *)
(* NATS server, the configuration or the mock data, and one connection     *)
(* after the other, for those over SSH a tunnel process that forwards a    *)
(* local port and is waited for.                                           *)
(*                                                                         *)
(* ssh is external.  It is asked to share its transport (ControlMaster=auto *)
(* with ControlPersist=10m): the first one for a host and a port puts a     *)
(* master with the forward into the background and becomes its client, a    *)
(* later one finds the master by the control socket.  Without             *)
(* ExitOnForwardFailure an ssh whose port is taken lives on without        *)
(* forwarding.  A master outlives the collector that started it, which may *)
(* be started again, with another configuration.                           *)
(***************************************************************************)
EXTENDS Naturals, Sequences, FiniteSets

CONSTANTS
    Hosts,       \* hosts to reach over SSH
    Files,       \* what connections.json may hold: lists of connections
    DefaultPort, \* 19999
    Patience,    \* dials before the deadline of WaitReady (100)
    MaxRuns,     \* bound: times the collector is started
    OtherPorts   \* bound: ports that another program may hold

\* A connection of the configuration; host "" when the host or the remote
\* socket is left out, localPort 0 when the port is.
Connection ==
    [type : {"local", "ssh", "other"}, host : Hosts \cup {""}, localPort : Nat]
Local == [type |-> "local", host |-> "", localPort |-> 0]
Ssh(host, port) == [type |-> "ssh", host |-> host, localPort |-> port]

DefaultConfig == <<Local>>

ASSUME StartupAssumption ==
    /\ Files \subseteq Seq(Connection) /\ DefaultPort \in Nat \ {0} /\ Patience \in Nat
    /\ MaxRuns \in Nat /\ OtherPorts \subseteq Nat

VARIABLES
    step,      \* "nats", "source", "connect", "wait", "running", "closing",
               \* "ended", or "killed" before there is a signal handler
    cfg,       \* cfg.Connections
    at,        \* the one being connected
    ssh,       \* per ssh started in all runs: what became of the process, the
               \* master whose client it is, and of the one it left behind
    first,     \* the first ssh of this run
    tunnels,   \* the ssh that the exit closes, in order
    dials,     \* ticks of this WaitReady
    listener,  \* by port: who accepts there
    added,     \* the bridge's connections: the one of cfg, and the port of its
               \* client, 0 for the socket
    runs       \* counter for the bound

vars == <<step, cfg, at, ssh, first, tunnels, dials, listener, added, runs>>

\* Who accepts on a port: an ssh that forwards itself, the master left by one,
\* or another program.
Itself(t) == [kind |-> "ssh", of |-> t]
Master(t) == [kind |-> "master", of |-> t]
Other == [kind |-> "other", of |-> 0]

Init ==
    /\ step = "nats"
    /\ cfg = <<>> /\ at = 1 /\ ssh = <<>> /\ first = 1 /\ tunnels = <<>>
    /\ dials = 0
    /\ \E S \in SUBSET OtherPorts : listener = [p \in S |-> Other]
    /\ added = <<>>
    /\ runs = 1

----------------------------------------------------------------------------
(* NATS and the source. *)

\* The server with its publisher; runMain returns the error of either.
StartNats ==
    /\ step = "nats"
    /\ step' \in {"source", "ended"}
    /\ UNCHANGED <<cfg, at, ssh, first, tunnels, dials, listener, added, runs>>

\* --mock-data: a file that cannot be used ends the program.
LoadMock ==
    /\ step = "source"
    /\ step' \in {"running", "ended"}
    /\ UNCHANGED <<cfg, at, ssh, first, tunnels, dials, listener, added, runs>>

\* LoadConfig: the default for a file that is missing, unreadable or broken.
LoadConfig ==
    /\ step = "source"
    /\ cfg' \in Files \cup {DefaultConfig}
    /\ step' = "connect"
    /\ UNCHANGED <<at, ssh, first, tunnels, dials, listener, added, runs>>

----------------------------------------------------------------------------
(* The loop over the connections. *)

TunnelPort(c) == IF c.localPort = 0 THEN DefaultPort ELSE c.localPort

NextConnection == at' = at + 1 /\ step' = "connect" /\ UNCHANGED cfg

\* A missing socket, a missing host or an unknown type, or an ssh that does
\* not start.
SkipConnection ==
    /\ step = "connect" /\ at <= Len(cfg)
    /\ NextConnection
    /\ UNCHANGED <<ssh, first, tunnels, dials, listener, added, runs>>

AddLocal ==
    /\ step = "connect" /\ at <= Len(cfg) /\ cfg[at].type = "local"
    /\ added' = Append(added, [conn |-> at, port |-> 0])
    /\ NextConnection
    /\ UNCHANGED <<ssh, first, tunnels, dials, listener, runs>>

StartTunnel ==
    LET c == cfg[at]
    IN  /\ step = "connect" /\ at <= Len(cfg) /\ c.type = "ssh" /\ c.host # ""
        /\ ssh' = Append(ssh, [host |-> c.host, port |-> TunnelPort(c),
                               state |-> "connecting", server |-> 0, master |-> "none"])
        /\ tunnels' = Append(tunnels, Len(ssh'))
        /\ dials' = 0
        /\ step' = "wait"
        /\ UNCHANGED <<cfg, at, first, listener, added, runs>>

Current == Len(ssh)
Without(holder) ==
    [p \in {q \in DOMAIN listener : listener[q] # holder} |-> listener[p]]

\* The control socket is named after host and port.
SamePath(t, u) == ssh[t].host = ssh[u].host /\ ssh[t].port = ssh[u].port
\* What Close leaves of the masters: none that a later ssh could find.
Hidden(t, u) ==
    IF SamePath(t, u) /\ ssh[u].master = "reachable" THEN "hidden" ELSE ssh[u].master

SocketOnly(t) ==                                         \* mutant
    /\ ssh' = [u \in DOMAIN ssh |-> [ssh[u] EXCEPT !.master = Hidden(t, u)]]
    /\ UNCHANGED listener
\* Close: the control socket is removed; the process gets SIGINT, and a second
\* later SIGKILL.  A master in the background gets neither.
Close(t) ==
    /\ ssh' = [u \in DOMAIN ssh |->
                  [ssh[u] EXCEPT !.state = IF u = t THEN "dead" ELSE @,
                                 !.master = Hidden(t, u)]]
    /\ listener' = Without(Itself(t))

LeftAlone(t) == UNCHANGED <<ssh, listener>>              \* mutant
\* What becomes of an ssh that was waited for in vain.
GiveUp(t) == Close(t)

NoDeadline == FALSE                                      \* mutant
Deadline == dials = Patience

\* WaitReady: the deadline, or ssh seen dead at a tick.
NotReady ==
    /\ step = "wait"
    /\ Deadline \/ ssh[Current].state = "dead"
    /\ GiveUp(Current)
    /\ NextConnection
    /\ UNCHANGED <<first, tunnels, dials, added, runs>>

\* A tick with a dial that fails.
DialFails ==
    /\ step = "wait"
    /\ ssh[Current].port \notin DOMAIN listener
    /\ dials' = IF dials < Patience THEN dials + 1 ELSE dials
    /\ UNCHANGED <<step, cfg, at, ssh, first, tunnels, listener, added, runs>>

\* A dial that succeeds, whoever accepts it.
Ready ==
    /\ step = "wait"
    /\ ssh[Current].port \in DOMAIN listener
    /\ added' = Append(added, [conn |-> at, port |-> ssh[Current].port])
    /\ NextConnection
    /\ UNCHANGED <<ssh, first, tunnels, dials, listener, runs>>

RunLoop ==
    /\ step = "connect" /\ at > Len(cfg)
    /\ step' = "running"
    /\ UNCHANGED <<cfg, at, ssh, first, tunnels, dials, listener, added, runs>>

\* SIGINT or SIGTERM: the deferred Close of every tunnel, those closed
\* before too.
Signal ==
    /\ step = "running"
    /\ step' = "closing"
    /\ UNCHANGED <<cfg, at, ssh, first, tunnels, dials, listener, added, runs>>

CloseTunnel ==
    /\ step = "closing" /\ tunnels # <<>>
    /\ Close(Head(tunnels))
    /\ tunnels' = Tail(tunnels)
    /\ UNCHANGED <<step, cfg, at, first, dials, added, runs>>

Exit ==
    /\ step = "closing" /\ tunnels = <<>>
    /\ step' = "ended"
    /\ UNCHANGED <<cfg, at, ssh, first, tunnels, dials, listener, added, runs>>

\* A signal before there is a handler: nothing deferred runs.
Kill ==
    /\ step \in {"connect", "wait"}
    /\ step' = "killed"
    /\ UNCHANGED <<cfg, at, ssh, first, tunnels, dials, listener, added, runs>>

----------------------------------------------------------------------------
(* ssh. *)

Taken(p) == p \in DOMAIN listener
Listening(holder, p) ==
    [q \in DOMAIN listener \cup {p} |-> IF q = p THEN holder ELSE listener[q]]

\* It forwards itself, if the port is free.
Forward(t) ==
    /\ ssh[t].state = "connecting"
    /\ IF Taken(ssh[t].port)
       THEN ssh' = [ssh EXCEPT ![t].state = "idle"] /\ UNCHANGED listener
       ELSE /\ ssh' = [ssh EXCEPT ![t].state = "forwarding"]
            /\ listener' = Listening(Itself(t), ssh[t].port)
    /\ UNCHANGED <<step, cfg, at, first, tunnels, dials, added, runs>>

\* It finds no control socket, and puts a master with the forward, if the
\* port is free, into the background.
Detach(t) ==
    /\ ssh[t].state = "connecting"
    /\ \A u \in DOMAIN ssh : ssh[u].master = "reachable" => ~SamePath(t, u)
    /\ ssh' = [ssh EXCEPT ![t].state = "client", ![t].server = t,
                          ![t].master = "reachable"]
    /\ listener' = IF Taken(ssh[t].port) THEN listener
                   ELSE Listening(Master(t), ssh[t].port)
    /\ UNCHANGED <<step, cfg, at, first, tunnels, dials, added, runs>>

\* It becomes the client of a master that has the forward or can have it.
Share(t, m) ==
    LET p == ssh[t].port
    IN  /\ ssh[t].state = "connecting"
        /\ ssh[m].master = "reachable" /\ SamePath(t, m)
        /\ Taken(p) => listener[p] = Master(m)
        /\ ssh' = [ssh EXCEPT ![t].state = "client", ![t].server = m]
        /\ listener' = Listening(Master(m), p)
        /\ UNCHANGED <<step, cfg, at, first, tunnels, dials, added, runs>>

Die(t) ==
    /\ ssh[t].state # "dead"
    /\ ssh' = [ssh EXCEPT ![t].state = "dead"]
    /\ listener' = Without(Itself(t))
    /\ UNCHANGED <<step, cfg, at, first, tunnels, dials, added, runs>>

\* The transport ends, and with it every client.
Clients(m) == {u \in DOMAIN ssh : ssh[u].state = "client" /\ ssh[u].server = m}
MasterEnds(m) ==
    /\ ssh[m].master \in {"reachable", "hidden"}
    /\ ssh' = [u \in DOMAIN ssh |->
                  [ssh[u] EXCEPT !.state = IF u \in Clients(m) THEN "dead" ELSE @,
                                 !.master = IF u = m THEN "none" ELSE @]]
    /\ listener' = Without(Master(m))
    /\ UNCHANGED <<step, cfg, at, first, tunnels, dials, added, runs>>

\* Ten minutes without a client, nor a collector that dials the port.
Persisted ==
    /\ step \in {"ended", "killed"}
    /\ \E m \in DOMAIN ssh : Clients(m) = {} /\ MasterEnds(m)

\* Another program takes a port or leaves it.
OtherProgram(p) ==
    /\ \/ ~Taken(p) /\ listener' = Listening(Other, p)
       \/ Taken(p) /\ listener[p] = Other /\ listener' = Without(Other)
    /\ UNCHANGED <<step, cfg, at, ssh, first, tunnels, dials, added, runs>>

----------------------------------------------------------------------------

\* The collector is started again.
Restart ==
    /\ step \in {"ended", "killed"}
    /\ runs < MaxRuns
    /\ runs' = runs + 1
    /\ step' = "nats"
    /\ cfg' = <<>> /\ at' = 1 /\ tunnels' = <<>> /\ dials' = 0 /\ added' = <<>>
    /\ first' = Len(ssh) + 1
    /\ UNCHANGED <<ssh, listener>>

Connect ==
    SkipConnection \/ AddLocal \/ StartTunnel \/ NotReady \/ DialFails \/ Ready \/ RunLoop

Start == StartNats \/ LoadMock \/ LoadConfig
Stop == Signal \/ CloseTunnel \/ Exit \/ Kill

Outside ==
    \/ \E t \in DOMAIN ssh :
          \/ Forward(t) \/ Detach(t) \/ Die(t) \/ MasterEnds(t)
          \/ \E m \in DOMAIN ssh : Share(t, m)
    \/ \E p \in OtherPorts : OtherProgram(p)

Next == Start \/ Connect \/ Stop \/ Restart \/ Outside

Spec == Init /\ [][Next]_vars

\* The process goes on, and a master that nobody uses ends, as ControlPersist
\* says.  Nothing else is asked of ssh, nor that anybody sends a signal or
\* starts the collector again.
FairSpec ==
    /\ Spec
    /\ WF_vars(Start) /\ WF_vars(Connect) /\ WF_vars(CloseTunnel \/ Exit)
    /\ WF_vars(Persisted)

----------------------------------------------------------------------------
(* Properties. *)

\* While the event loop runs, the only ssh processes this run started that
\* live are those of connections it uses, so one that was given up does not
\* come up later and listen; and when it has ended in order, none of them
\* lives.  What lives on are masters, in the background.
NoStray ==
    LET Alive == {t \in first .. Len(ssh) : ssh[t].state # "dead"}
    IN  /\ step = "running" =>
              \A t \in Alive : \E k \in DOMAIN added :
                  cfg[added[k].conn].host = ssh[t].host /\ added[k].port = ssh[t].port
        /\ step = "ended" => Alive = {}

\* After an ordered end the ports come back, though masters outlive it: unless
\* the collector is started again, no forward of this run is left in the end,
\* but one that an ssh of an earlier run, killed before it closed its tunnels,
\* keeps in use.
PortsComeBack ==
    step = "ended" ~>
        \/ step # "ended"
        \/ \A p \in DOMAIN listener :
              listener[p].of >= first =>
                  \E u \in Clients(listener[p].of) : u < first

\* Whatever ssh does, the collector gets through its connections and starts
\* its loop, unless NATS or the mock data ended it or somebody killed it.
StartupEnds == step = "nats" ~> step \in {"running", "ended", "killed"}
=============================================================================
