--------------------------- MODULE Startup_proof ---------------------------
(* Which ssh processes of a run are left, for any configurations, ports,    *)
(* patience and number of runs, whatever the masters and other programs do. *)
EXTENDS Startup, TLAPS

Process ==
    [host : Hosts \cup {""}, port : Nat \ {0},
     state : {"connecting", "idle", "forwarding", "client", "dead"},
     server : Nat, master : {"none", "reachable", "hidden"}]
Steps == {"nats", "source", "connect", "wait", "running", "closing", "ended", "killed"}

\* Before it has a configuration a run has started nothing.
TypeInv ==
    /\ step \in Steps
    /\ cfg \in Seq(Connection)
    /\ at \in Nat \ {0}
    /\ ssh \in Seq(Process)
    /\ first \in 1 .. Len(ssh) + 1
    /\ tunnels \in Seq(Nat)
    /\ added \in Seq([conn : Nat, port : Nat])
    /\ step \in {"nats", "source"} =>
          first = Len(ssh) + 1 /\ added = <<>> /\ tunnels = <<>>

\* The last ssh is the one waited for, and has the host of the connection the
\* loop is at.
WaitInv ==
    step = "wait" => /\ at \in DOMAIN cfg
                     /\ Current >= first
                     /\ ssh[Current].host = cfg[at].host

InUse(t) ==
    \E k \in DOMAIN added :
        cfg[added[k].conn].host = ssh[t].host /\ added[k].port = ssh[t].port

\* An ssh of this run that lives is in use or waited for, and on the list of
\* those that the exit closes.
AliveInv ==
    /\ step \in {"connect", "wait", "running"} =>
          /\ Len(tunnels) = Len(ssh) + 1 - first
          /\ \A i \in DOMAIN tunnels : tunnels[i] = first + i - 1
    /\ \A t \in first .. Len(ssh) : ssh[t].state # "dead" =>
          /\ step \in {"connect", "running"} => InUse(t)
          /\ step = "wait" => InUse(t) \/ t = Current
          /\ step = "closing" => \E i \in DOMAIN tunnels : tunnels[i] = t
          /\ step # "ended"

IInv == TypeInv /\ WaitInv /\ AliveInv

-----------------------------------------------------------------------------
(* The processes. *)

\* No process becomes another one, and none that is dead comes back.
SameProcesses ==
    /\ ssh' \in Seq(Process) /\ Len(ssh') = Len(ssh) /\ DOMAIN ssh' = DOMAIN ssh
    /\ \A u \in DOMAIN ssh :
          /\ ssh'[u].host = ssh[u].host /\ ssh'[u].port = ssh[u].port
          /\ ssh'[u].state # "dead" => ssh[u].state # "dead"

\* A port in use is a port.
LEMMA PortIsPositive == \A c \in Connection : TunnelPort(c) \in Nat \ {0}
  BY StartupAssumption DEF TunnelPort, Connection

\* Before the start there is no ssh.
LEMMA Initially == Init => IInv
  BY DEF Init, IInv, TypeInv, Steps, WaitInv, AliveInv

\* What is done to each process for itself leaves the others.
LEMMA EachForItself ==
    ASSUME ssh \in Seq(Process),
           DOMAIN ssh' = DOMAIN ssh, Len(ssh') = Len(ssh),
           \A u \in DOMAIN ssh : ssh'[u] \in Process,
           ssh' = [u \in DOMAIN ssh |-> ssh'[u]],
           \A u \in DOMAIN ssh :
              /\ ssh'[u].host = ssh[u].host /\ ssh'[u].port = ssh[u].port
              /\ ssh'[u].state # "dead" => ssh[u].state # "dead"
    PROVE  SameProcesses
<1>1. DOMAIN ssh = 1 .. Len(ssh) /\ Len(ssh) \in Nat
  OBVIOUS
<1>2. ssh' \in [1 .. Len(ssh) -> Process]
  BY <1>1
<1>3. ssh' \in Seq(Process)
  BY <1>1, <1>2
<1> QED
  BY <1>3 DEF SameProcesses

\* Ending an ssh takes from the others at most the way to their masters.
LEMMA CloseStep ==
    ASSUME TypeInv, NEW t, Close(t)
    PROVE  SameProcesses /\ (t \in DOMAIN ssh => ssh'[t].state = "dead")
<1>1. ssh \in Seq(Process) /\ \A u \in DOMAIN ssh : ssh[u] \in Process
  BY DEF TypeInv
<1>2. ssh' = [u \in DOMAIN ssh |->
                 [ssh[u] EXCEPT !.state = IF u = t THEN "dead" ELSE @,
                                !.master = Hidden(t, u)]]
  BY DEF Close
<1>3. \A u \in DOMAIN ssh : Hidden(t, u) \in {"none", "reachable", "hidden"}
  BY <1>1 DEF Hidden, Process
<1>4. ASSUME NEW u \in DOMAIN ssh
      PROVE  /\ ssh'[u] \in Process
             /\ ssh'[u].host = ssh[u].host /\ ssh'[u].port = ssh[u].port
             /\ ssh'[u].state = IF u = t THEN "dead" ELSE ssh[u].state
  <2> DEFINE way == Hidden(t, u)
             state == IF u = t THEN "dead" ELSE ssh[u].state
  <2>1. ssh'[u] = [ssh[u] EXCEPT !.state = state, !.master = way]
    BY <1>2
  <2>2. way \in {"none", "reachable", "hidden"}
    BY <1>3
  <2>3. ssh[u] \in Process
    BY <1>1
  <2>4. state \in {"connecting", "idle", "forwarding", "client", "dead"}
    BY <2>3 DEF Process
  <2> HIDE DEF way, state
  <2>5. /\ ssh'[u] \in Process
        /\ ssh'[u].host = ssh[u].host /\ ssh'[u].port = ssh[u].port /\ ssh'[u].state = state
    BY <2>1, <2>2, <2>3, <2>4 DEF Process
  <2> QED
    BY <2>5 DEF state
<1>5. DOMAIN ssh' = DOMAIN ssh
  BY <1>2
<1>6. ssh' = [u \in DOMAIN ssh |-> ssh'[u]]
  BY <1>2
<1>7. Len(ssh') = Len(ssh)
  <2>1. DOMAIN ssh = 1 .. Len(ssh) /\ Len(ssh) \in Nat
    BY <1>1
  <2> QED
    BY <1>5, <1>6, <2>1
<1>8. SameProcesses
  BY <1>1, <1>4, <1>5, <1>6, <1>7, EachForItself
<1> QED
  BY <1>4, <1>8

\* Setting fields of one process, but never to life, leaves the others.
LEMMA OneChanges ==
    ASSUME TypeInv, NEW t \in DOMAIN ssh, NEW new \in Process,
           new.host = ssh[t].host, new.port = ssh[t].port,
           new.state # "dead" => ssh[t].state # "dead",
           ssh' = [ssh EXCEPT ![t] = new]
    PROVE  SameProcesses
<1>1. ssh \in Seq(Process)
  BY DEF TypeInv
<1>2. ssh' \in Seq(Process) /\ Len(ssh') = Len(ssh) /\ DOMAIN ssh' = DOMAIN ssh
  BY <1>1
<1>3. \A u \in DOMAIN ssh : ssh'[u] = IF u = t THEN new ELSE ssh[u]
  BY <1>1
<1> QED
  BY <1>2, <1>3 DEF SameProcesses

\* Whatever ssh and other programs do, they do not touch the collector, and
\* bring no process back to life.
LEMMA OutsideStep ==
    ASSUME TypeInv, Outside
    PROVE  SameProcesses /\ UNCHANGED <<step, cfg, at, first, tunnels, added>>
<1>0. ssh \in Seq(Process) /\ \A t \in DOMAIN ssh : ssh[t] \in Process
  BY DEF TypeInv
<1>1. ASSUME NEW t \in DOMAIN ssh, Forward(t)
      PROVE  SameProcesses /\ UNCHANGED <<step, cfg, at, first, tunnels, added>>
  <2>1. PICK st \in {"idle", "forwarding"} : ssh' = [ssh EXCEPT ![t].state = st]
    BY <1>1 DEF Forward
  <2> DEFINE new == [ssh[t] EXCEPT !.state = st]
  <2>2. /\ new \in Process /\ new.host = ssh[t].host /\ new.port = ssh[t].port
        /\ ssh[t].state # "dead"
    BY <1>0, <1>1 DEF Process, Forward
  <2>3. ssh' = [ssh EXCEPT ![t] = new]
    BY <2>1
  <2> HIDE DEF new
  <2>4. SameProcesses
    BY <2>2, <2>3, OneChanges
  <2> QED
    BY <1>1, <2>4 DEF Forward
<1>2. ASSUME NEW t \in DOMAIN ssh, Detach(t)
      PROVE  SameProcesses /\ UNCHANGED <<step, cfg, at, first, tunnels, added>>
  <2> DEFINE new == [ssh[t] EXCEPT !.state = "client", !.server = t, !.master = "reachable"]
  <2>1. t \in Nat
    BY <1>0
  <2>2. /\ new \in Process /\ new.host = ssh[t].host /\ new.port = ssh[t].port
        /\ ssh[t].state # "dead"
    BY <1>0, <1>2, <2>1 DEF Process, Detach
  <2>3. ssh' = [ssh EXCEPT ![t] = new]
    BY <1>2 DEF Detach
  <2> HIDE DEF new
  <2>4. SameProcesses
    BY <2>2, <2>3, OneChanges
  <2> QED
    BY <1>2, <2>4 DEF Detach
<1>3. ASSUME NEW t \in DOMAIN ssh, NEW m \in DOMAIN ssh, Share(t, m)
      PROVE  SameProcesses /\ UNCHANGED <<step, cfg, at, first, tunnels, added>>
  <2> DEFINE new == [ssh[t] EXCEPT !.state = "client", !.server = m]
  <2>1. m \in Nat
    BY <1>0
  <2>2. /\ new \in Process /\ new.host = ssh[t].host /\ new.port = ssh[t].port
        /\ ssh[t].state # "dead"
    BY <1>0, <1>3, <2>1 DEF Process, Share
  <2>3. ssh' = [ssh EXCEPT ![t] = new]
    BY <1>3 DEF Share
  <2> HIDE DEF new
  <2>4. SameProcesses
    BY <2>2, <2>3, OneChanges
  <2> QED
    BY <1>3, <2>4 DEF Share
<1>4. ASSUME NEW t \in DOMAIN ssh, Die(t)
      PROVE  SameProcesses /\ UNCHANGED <<step, cfg, at, first, tunnels, added>>
  <2> DEFINE new == [ssh[t] EXCEPT !.state = "dead"]
  <2>1. new \in Process /\ new.host = ssh[t].host /\ new.port = ssh[t].port /\ new.state = "dead"
    BY <1>0 DEF Process
  <2>2. ssh' = [ssh EXCEPT ![t] = new]
    BY <1>4 DEF Die
  <2> HIDE DEF new
  <2>3. SameProcesses
    BY <2>1, <2>2, OneChanges
  <2> QED
    BY <1>4, <2>3 DEF Die
<1>5. ASSUME NEW m \in DOMAIN ssh, MasterEnds(m)
      PROVE  SameProcesses /\ UNCHANGED <<step, cfg, at, first, tunnels, added>>
  <2>1. ssh' = [u \in DOMAIN ssh |->
                   [ssh[u] EXCEPT !.state = IF u \in Clients(m) THEN "dead" ELSE @,
                                  !.master = IF u = m THEN "none" ELSE @]]
    BY <1>5 DEF MasterEnds
  <2>2. ASSUME NEW u \in DOMAIN ssh
        PROVE  /\ ssh'[u] \in Process
               /\ ssh'[u].host = ssh[u].host /\ ssh'[u].port = ssh[u].port
               /\ ssh'[u].state # "dead" => ssh[u].state # "dead"
    <3> DEFINE state == IF u \in Clients(m) THEN "dead" ELSE ssh[u].state
               way == IF u = m THEN "none" ELSE ssh[u].master
    <3>1. ssh'[u] = [ssh[u] EXCEPT !.state = state, !.master = way]
      BY <2>1
    <3>2. ssh[u] \in Process
      BY <1>0
    <3>3. /\ state \in {"connecting", "idle", "forwarding", "client", "dead"}
          /\ state # "dead" => ssh[u].state # "dead"
          /\ way \in {"none", "reachable", "hidden"}
      BY <3>2 DEF Process
    <3> HIDE DEF state, way
    <3> QED
      BY <3>1, <3>2, <3>3 DEF Process
  <2>3. DOMAIN ssh' = DOMAIN ssh /\ ssh' = [u \in DOMAIN ssh |-> ssh'[u]]
    BY <2>1
  <2>4. Len(ssh') = Len(ssh)
    <3>1. DOMAIN ssh = 1 .. Len(ssh) /\ Len(ssh) \in Nat
      BY <1>0
    <3> QED
      BY <2>3, <3>1
  <2>5. SameProcesses
    BY <1>0, <2>2, <2>3, <2>4, EachForItself
  <2> QED
    BY <1>5, <2>5 DEF MasterEnds
<1>6. ASSUME NEW p \in OtherPorts, OtherProgram(p)
      PROVE  SameProcesses /\ UNCHANGED <<step, cfg, at, first, tunnels, added>>
  BY <1>0, <1>6 DEF OtherProgram, SameProcesses
<1> QED
  BY <1>1, <1>2, <1>3, <1>4, <1>5, <1>6 DEF Outside

\* The loop stands at a connection of the configuration.
LEMMA AtConnection ==
    ASSUME TypeInv, at <= Len(cfg)
    PROVE  at \in DOMAIN cfg /\ cfg[at] \in Connection
BY DEF TypeInv

\* StartTunnel adds a process of the connection to this run.
LEMMA StartTunnelStep ==
    ASSUME TypeInv, StartTunnel
    PROVE  /\ ssh' \in Seq(Process) /\ Len(ssh') = Len(ssh) + 1
           /\ \A t \in DOMAIN ssh : t \in DOMAIN ssh' /\ ssh'[t] = ssh[t]
           /\ DOMAIN ssh' = 1 .. Len(ssh')
           /\ ssh'[Len(ssh')].host = cfg[at].host
           /\ at \in DOMAIN cfg
           /\ tunnels' = Append(tunnels, Len(ssh'))
           /\ UNCHANGED <<cfg, at, first, added>> /\ step = "connect" /\ step' = "wait"
<1>1. at <= Len(cfg)
  BY DEF StartTunnel
<1>2. at \in DOMAIN cfg /\ cfg[at] \in Connection
  BY <1>1, AtConnection
<1> DEFINE new == [host |-> cfg[at].host, port |-> TunnelPort(cfg[at]),
                   state |-> "connecting", server |-> 0, master |-> "none"]
<1>3. new \in Process /\ new.host = cfg[at].host
  BY <1>2, PortIsPositive DEF Process, Connection
<1>4. ssh' = Append(ssh, new) /\ ssh \in Seq(Process)
  BY DEF StartTunnel, TypeInv
<1> HIDE DEF new
<1>5. /\ ssh' \in Seq(Process) /\ Len(ssh') = Len(ssh) + 1
      /\ \A t \in DOMAIN ssh : t \in DOMAIN ssh' /\ ssh'[t] = ssh[t]
      /\ DOMAIN ssh' = 1 .. Len(ssh')
      /\ ssh'[Len(ssh')] = new
  BY <1>3, <1>4
<1>6. tunnels' = Append(tunnels, Len(ssh')) /\ UNCHANGED <<cfg, at, first, added>>
      /\ step = "connect" /\ step' = "wait"
  BY DEF StartTunnel
<1> QED
  BY <1>2, <1>3, <1>5, <1>6

-----------------------------------------------------------------------------
(* The steps. *)

\* Every step keeps the types, and the beginning of a run empty.
LEMMA TypeStep == TypeInv /\ WaitInv /\ [Next]_vars => TypeInv'
<1> SUFFICES ASSUME TypeInv, WaitInv, [Next]_vars PROVE TypeInv'
  OBVIOUS
<1> USE DEF TypeInv, Steps
<1>1. CASE StartNats
  BY <1>1 DEF StartNats
<1>2. CASE LoadMock
  BY <1>2 DEF LoadMock
<1>3. CASE LoadConfig
  <2>1. Local \in Connection
    BY DEF Local, Connection
  <2>2. DefaultConfig \in Seq(Connection)
    BY <2>1 DEF DefaultConfig
  <2>3. cfg' \in Seq(Connection)
    BY <1>3, <2>2, StartupAssumption DEF LoadConfig
  <2> QED
    BY <1>3, <2>3 DEF LoadConfig
<1>4. CASE SkipConnection
  BY <1>4 DEF SkipConnection, NextConnection
<1>5. CASE AddLocal
  BY <1>5 DEF AddLocal, NextConnection
<1>6. CASE StartTunnel
  <2>1. tunnels' \in Seq(Nat)
    <3>1. tunnels' = Append(tunnels, Len(ssh')) /\ Len(ssh') \in Nat
      BY <1>6, StartTunnelStep
    <3> QED
      BY <3>1
  <2>2. first' \in 1 .. Len(ssh') + 1
    BY <1>6, StartTunnelStep
  <2> QED
    BY <1>6, <2>1, <2>2, StartTunnelStep
<1>7. CASE NotReady
  <2>1. Close(Current)
    BY <1>7 DEF NotReady, GiveUp
  <2>2. SameProcesses
    BY <2>1, CloseStep
  <2> QED
    BY <1>7, <2>2 DEF NotReady, NextConnection, SameProcesses
<1>8. CASE DialFails
  BY <1>8 DEF DialFails
<1>9. CASE Ready
  <2>1. Current \in DOMAIN ssh /\ ssh[Current] \in Process
    BY <1>9 DEF Ready, WaitInv, Current
  <2>2. added' \in Seq([conn : Nat, port : Nat])
    <3> DEFINE new == [conn |-> at, port |-> ssh[Current].port]
    <3>1. new \in [conn : Nat, port : Nat]
      BY <2>1 DEF Process
    <3>2. added' = Append(added, new)
      BY <1>9 DEF Ready
    <3> HIDE DEF new
    <3> QED
      BY <3>1, <3>2
  <2> QED
    BY <1>9, <2>2 DEF Ready, NextConnection
<1>10. CASE RunLoop
  BY <1>10 DEF RunLoop
<1>11. CASE Signal \/ Exit \/ Kill
  BY <1>11 DEF Signal, Exit, Kill
<1>12. CASE CloseTunnel
  <2>1. SameProcesses
    BY <1>12, CloseStep DEF CloseTunnel
  <2>2. tunnels' \in Seq(Nat)
    BY <1>12 DEF CloseTunnel
  <2> QED
    BY <1>12, <2>1, <2>2 DEF CloseTunnel, SameProcesses
<1>13. CASE Restart
  BY <1>13 DEF Restart
<1>14. CASE Outside
  BY <1>14, OutsideStep DEF SameProcesses
<1>15. CASE UNCHANGED vars
  BY <1>15 DEF vars
<1> QED
  BY <1>1, <1>2, <1>3, <1>4, <1>5, <1>6, <1>7, <1>8, <1>9, <1>10, <1>11, <1>12, <1>13, <1>14, <1>15
  DEF Next, Start, Connect, Stop

\* The ssh waited for stays the one of the connection.
LEMMA WaitStep == TypeInv /\ WaitInv /\ [Next]_vars => WaitInv'
<1> SUFFICES ASSUME TypeInv, WaitInv, [Next]_vars, step' = "wait" PROVE WaitInv'
  BY DEF WaitInv
<1>1. CASE StartTunnel
  <2>1. Current' = Len(ssh') /\ Len(ssh) \in Nat /\ first \in 1 .. Len(ssh) + 1
    BY DEF Current, TypeInv
  <2> QED
    BY <1>1, <2>1, StartTunnelStep DEF WaitInv
<1>2. CASE DialFails \/ UNCHANGED vars
  BY <1>2 DEF DialFails, vars, WaitInv, Current
<1>3. CASE Outside
  <2>1. /\ SameProcesses /\ UNCHANGED <<step, cfg, at, first>>
        /\ at \in DOMAIN cfg /\ Current >= first /\ ssh[Current].host = cfg[at].host
    BY <1>3, OutsideStep DEF WaitInv
  <2>2. Current \in DOMAIN ssh /\ Current' = Current
    BY <2>1 DEF TypeInv, Current, SameProcesses
  <2> QED
    BY <2>1, <2>2 DEF WaitInv, SameProcesses
<1>4. ~(StartNats \/ LoadMock \/ LoadConfig \/ SkipConnection \/ AddLocal \/ NotReady \/ Ready
        \/ RunLoop \/ Signal \/ CloseTunnel \/ Exit \/ Kill \/ Restart)
  BY DEF StartNats, LoadMock, LoadConfig, SkipConnection, AddLocal, NotReady, Ready,
         NextConnection, RunLoop, Signal, CloseTunnel, Exit, Kill, Restart
<1> QED
  BY <1>1, <1>2, <1>3, <1>4 DEF Next, Start, Connect, Stop

\* A step that revives no ssh and changes no list keeps what the living are
\* alive for.
LEMMA AliveKept ==
    ASSUME TypeInv, AliveInv, SameProcesses, UNCHANGED <<cfg, added, tunnels, step, first>>
    PROVE  AliveInv'
<1>1. DOMAIN ssh = 1 .. Len(ssh) /\ Len(ssh) \in Nat /\ first \in 1 .. Len(ssh) + 1
  BY DEF TypeInv
<1>2. \A t \in first .. Len(ssh) : t \in DOMAIN ssh
  BY <1>1
<1>3. \A t \in DOMAIN ssh : InUse(t) => InUse(t)'
  BY DEF InUse, SameProcesses
<1>4. Current' = Current /\ Len(ssh') = Len(ssh)
  BY DEF Current, SameProcesses
<1>5. \A t \in DOMAIN ssh : ssh'[t].state # "dead" => ssh[t].state # "dead"
  BY DEF SameProcesses
<1> QED
  BY <1>2, <1>3, <1>4, <1>5 DEF AliveInv

\* No step leaves an ssh of this run alive that nothing uses.
LEMMA AliveStep == TypeInv /\ WaitInv /\ AliveInv /\ [Next]_vars => AliveInv'
<1> SUFFICES ASSUME TypeInv, WaitInv, AliveInv, [Next]_vars PROVE AliveInv'
  OBVIOUS
<1>0. /\ ssh \in Seq(Process) /\ tunnels \in Seq(Nat) /\ added \in Seq([conn : Nat, port : Nat])
      /\ Len(ssh) \in Nat /\ DOMAIN ssh = 1 .. Len(ssh) /\ first \in 1 .. Len(ssh) + 1
      /\ \A t \in first .. Len(ssh) : t \in DOMAIN ssh
  BY DEF TypeInv
<1>1. CASE StartNats \/ LoadMock \/ LoadConfig
  <2>1. UNCHANGED <<ssh, first, tunnels>> /\ tunnels = <<>> /\ first = Len(ssh) + 1
    BY <1>1 DEF StartNats, LoadMock, LoadConfig, TypeInv
  <2>2. ~\E t \in first' .. Len(ssh') : TRUE
    BY <1>0, <2>1
  <2>3. Len(tunnels') = Len(ssh') + 1 - first' /\ DOMAIN tunnels' = {}
    BY <1>0, <2>1
  <2> QED
    BY <2>2, <2>3 DEF AliveInv
<1>2. CASE SkipConnection \/ RunLoop
  BY <1>2 DEF SkipConnection, NextConnection, RunLoop, AliveInv, InUse
<1>3. CASE DialFails \/ UNCHANGED vars
  <2>1. SameProcesses
    BY <1>0, <1>3 DEF DialFails, vars, SameProcesses
  <2> QED
    BY <1>3, <2>1, AliveKept DEF DialFails, vars
<1>4. CASE AddLocal
  <2>1. /\ UNCHANGED <<ssh, cfg, tunnels, first>> /\ step = "connect" /\ step' = "connect"
        /\ added' = Append(added, [conn |-> at, port |-> 0])
    BY <1>4 DEF AddLocal, NextConnection
  <2>2. \A k \in DOMAIN added : k \in DOMAIN added' /\ added'[k] = added[k]
    BY <1>0, <2>1
  <2>3. \A t \in DOMAIN ssh : InUse(t) => InUse(t)'
    BY <2>1, <2>2 DEF InUse
  <2> QED
    BY <1>0, <2>1, <2>3 DEF AliveInv
<1>5. CASE StartTunnel
  <2>1. /\ UNCHANGED <<cfg, added, first>> /\ step = "connect" /\ step' = "wait"
        /\ tunnels' = Append(tunnels, Len(ssh'))
        /\ Len(ssh') = Len(ssh) + 1
        /\ \A t \in DOMAIN ssh : ssh'[t] = ssh[t]
    BY <1>5, StartTunnelStep
  <2>2. Len(tunnels) = Len(ssh) + 1 - first /\ \A i \in DOMAIN tunnels : tunnels[i] = first + i - 1
    BY <2>1 DEF AliveInv
  <2>3. /\ Len(tunnels') = Len(tunnels) + 1
        /\ \A i \in DOMAIN tunnels' : \/ i \in DOMAIN tunnels /\ tunnels'[i] = tunnels[i]
                                      \/ i = Len(tunnels) + 1 /\ tunnels'[i] = Len(ssh')
    BY <1>0, <2>1
  <2>4. Len(tunnels') = Len(ssh') + 1 - first' /\ \A i \in DOMAIN tunnels' : tunnels'[i] = first' + i - 1
    BY <1>0, <2>1, <2>2, <2>3
  <2>5. \A t \in DOMAIN ssh : InUse(t) => InUse(t)'
    BY <2>1 DEF InUse
  <2>6. \A t \in first' .. Len(ssh') : t \in first .. Len(ssh) \/ t = Current'
    BY <1>0, <2>1 DEF Current
  <2>7. \A t \in first' .. Len(ssh') : ssh'[t].state # "dead" => InUse(t)' \/ t = Current'
    BY <1>0, <2>1, <2>5, <2>6 DEF AliveInv
  <2> QED
    BY <2>1, <2>4, <2>7 DEF AliveInv
<1>6. CASE NotReady
  <2>1. /\ Close(Current) /\ UNCHANGED <<cfg, added, tunnels, first>>
        /\ step = "wait" /\ step' = "connect"
    BY <1>6 DEF NotReady, GiveUp, NextConnection
  <2>2. SameProcesses /\ (Current \in DOMAIN ssh => ssh'[Current].state = "dead")
    BY <2>1, CloseStep
  <2>3. \A t \in DOMAIN ssh : InUse(t) => InUse(t)'
    BY <2>1, <2>2 DEF InUse, SameProcesses
  <2>4. \A t \in first .. Len(ssh) : ssh'[t].state # "dead" =>
            ssh[t].state # "dead" /\ t # Current
    BY <1>0, <2>2 DEF SameProcesses
  <2>5. \A t \in first .. Len(ssh) : ssh'[t].state # "dead" => InUse(t)'
    BY <1>0, <2>1, <2>3, <2>4 DEF AliveInv
  <2>6. Len(ssh') = Len(ssh)
    BY <2>2 DEF SameProcesses
  <2> QED
    BY <2>1, <2>5, <2>6 DEF AliveInv
<1>7. CASE Ready
  <2>1. /\ ssh[Current].host = cfg[at].host
        /\ UNCHANGED <<ssh, cfg, tunnels, first>> /\ step = "wait" /\ step' = "connect"
        /\ added' = Append(added, [conn |-> at, port |-> ssh[Current].port])
    BY <1>7 DEF Ready, NextConnection, WaitInv
  <2>2. /\ \A k \in DOMAIN added : k \in DOMAIN added' /\ added'[k] = added[k]
        /\ \E k \in DOMAIN added' : added'[k].conn = at /\ added'[k].port = ssh[Current].port
    <3> DEFINE new == [conn |-> at, port |-> ssh[Current].port]
    <3>1. new.conn = at /\ new.port = ssh[Current].port /\ added' = Append(added, new)
      BY <2>1
    <3> HIDE DEF new
    <3>2. added \in Seq([conn : Nat, port : Nat])
      BY <1>0
    <3>3. Len(added) + 1 \in DOMAIN added' /\ added'[Len(added) + 1] = new
      BY <3>1, <3>2
    <3>4. \A k \in DOMAIN added : k \in DOMAIN added' /\ added'[k] = added[k]
      BY <3>1, <3>2
    <3> QED
      BY <3>1, <3>3, <3>4
  <2>3. \A t \in DOMAIN ssh : InUse(t) => InUse(t)'
    BY <2>1, <2>2 DEF InUse
  <2>4. InUse(Current)'
    BY <2>1, <2>2 DEF InUse, Current
  <2> QED
    BY <1>0, <2>1, <2>3, <2>4 DEF AliveInv, Current
<1>8. CASE Signal
  <2>1. step = "running" /\ step' = "closing" /\ UNCHANGED <<ssh, first, tunnels>>
    BY <1>8 DEF Signal
  <2>2. Len(tunnels) = Len(ssh) + 1 - first /\ \A i \in DOMAIN tunnels : tunnels[i] = first + i - 1
    BY <2>1 DEF AliveInv
  <2>3. ASSUME NEW t \in first .. Len(ssh) PROVE \E i \in DOMAIN tunnels : tunnels[i] = t
    <3>1. t + 1 - first \in DOMAIN tunnels
      BY <1>0, <2>2
    <3>2. tunnels[t + 1 - first] = t
      BY <1>0, <2>2, <3>1
    <3> QED
      BY <3>1, <3>2
  <2> QED
    BY <2>1, <2>3 DEF AliveInv
<1>9. CASE CloseTunnel
  <2>1. /\ step = "closing" /\ step' = "closing" /\ tunnels # <<>> /\ tunnels' = Tail(tunnels)
        /\ Close(Head(tunnels)) /\ UNCHANGED first
    BY <1>9 DEF CloseTunnel
  <2>2. SameProcesses /\ (Head(tunnels) \in DOMAIN ssh => ssh'[Head(tunnels)].state = "dead")
    BY <2>1, CloseStep
  <2>3. \A t \in first .. Len(ssh) : ssh'[t].state # "dead" =>
            ssh[t].state # "dead" /\ t # Head(tunnels)
    BY <1>0, <2>2 DEF SameProcesses
  <2>4. ASSUME NEW t \in first .. Len(ssh), ssh'[t].state # "dead"
        PROVE  \E i \in DOMAIN tunnels' : tunnels'[i] = t
    <3>1. PICK i \in DOMAIN tunnels : tunnels[i] = t
      BY <2>1, <2>3, <2>4 DEF AliveInv
    <3>2. i # 1
      BY <1>0, <2>1, <2>3, <2>4, <3>1
    <3>3. i - 1 \in DOMAIN tunnels' /\ tunnels'[i - 1] = t
      BY <1>0, <2>1, <3>1, <3>2
    <3> QED
      BY <3>3
  <2>5. Len(ssh') = Len(ssh)
    BY <2>2 DEF SameProcesses
  <2> QED
    BY <2>1, <2>4, <2>5 DEF AliveInv
<1>10. CASE Exit
  <2>1. step = "closing" /\ step' = "ended" /\ tunnels = <<>> /\ UNCHANGED <<ssh, first>>
    BY <1>10 DEF Exit
  <2>2. \A t \in first .. Len(ssh) : ssh[t].state = "dead"
    BY <2>1 DEF AliveInv
  <2> QED
    BY <2>1, <2>2 DEF AliveInv
<1>11. CASE Kill
  BY <1>11 DEF Kill, AliveInv
<1>12. CASE Restart
  <2>1. step' = "nats" /\ ssh' = ssh /\ first' = Len(ssh) + 1
    BY <1>12 DEF Restart
  <2>2. ~\E t \in first' .. Len(ssh') : TRUE
    BY <1>0, <2>1
  <2> QED
    BY <2>1, <2>2 DEF AliveInv
<1>13. CASE Outside
  BY <1>13, OutsideStep, AliveKept
<1> QED
  BY <1>1, <1>2, <1>3, <1>4, <1>5, <1>6, <1>7, <1>8, <1>9, <1>10, <1>11, <1>12, <1>13
  DEF Next, Start, Connect, Stop

-----------------------------------------------------------------------------
(* The theorem. *)

\* The invariant holds in every state of every behaviour.
LEMMA Inductive == Spec => []IInv
<1>1. Init => IInv
  BY Initially
<1>2. IInv /\ [Next]_vars => IInv'
  BY TypeStep, WaitStep, AliveStep DEF IInv
<1> QED
  BY <1>1, <1>2, PTL DEF Spec

\* The event loop runs with no ssh process of this run but those in use, and
\* an ordered end leaves none of them alive, whatever the masters of this run
\* and of earlier ones, late or dead ssh and other programs did meanwhile.
THEOREM NoneAstray == Spec => []NoStray
<1>1. IInv => NoStray
  BY DEF IInv, AliveInv, NoStray, InUse
<1> QED
  BY <1>1, Inductive, PTL
=============================================================================
