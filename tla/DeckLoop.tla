----------------------------- MODULE DeckLoop -----------------------------
(***************************************************************************)
(* herdr-deck from the snapshot to the key: the event loop of main.go with *)
(* the controller's dirty flag and hash, renderAll with the client's image *)
(* cache, the message pump that reconnects, and the device on the other    *)
(* side of the socket.                                                     *)
(*                                                                         *)
(* Two goroutines share the controller and the client.  The event loop     *)
(* runs one select case at a time; only its render case has steps that the *)
(* pump can come between (Capture, MarkClean, then per key the cache and   *)
(* binding lookup and the write).  The pump handles device messages while  *)
(* it reads and reconnects when the read fails.                            *)
(*                                                                         *)
(* A picture is what the renderer draws from, not the SVG: two SVG texts   *)
(* are equal when what they are drawn from is.  The LRU between the cache  *)
(* per key and the SVG conversion returns what the conversion would, so it *)
(* does not appear.  Of the clocks, the minutes an agent has its status are *)
(* counted, each agent's at its own pace, since the keys show them and the *)
(* hash covers them; any health tick may find the last heartbeat five      *)
(* seconds old.                                                            *)
(***************************************************************************)
EXTENDS DisplayModel

CONSTANTS
    Snapshots,   \* snapshots the collector may publish
    Readings,    \* CPU and memory readings
    K11Toggle,   \* the --k11-toggle flag
    Keys,        \* the keys of the deck, in the order renderAll draws them
    Profile,     \* whether the Ulanzi profile gives every key its action
    Limits       \* bounds: how often the socket breaks, how often the user takes
                 \* an action off a key, how many SVG conversions and readings
                 \* fail, and how many minutes an agent has its status; a
                 \* behaviour keeps to one of them

SlotOf == [K1 |-> 1, K2 |-> 2, K3 |-> 3, K4 |-> 4, K5 |-> 5,
           K6 |-> 6, K7 |-> 7, K8 |-> 8, K9 |-> 9, K10 |-> 10]
KeyNames == DOMAIN SlotOf \cup {"K11", "K12", "K13", "K14"}

ASSUME SnapshotsAssumption == \A s \in Snapshots : IsSnapshot(s)
ASSUME KeysAssumption == Keys \in Seq(KeyNames) /\ Keys # <<>>
ASSUME DeckAssumption ==
    /\ K11Toggle \in BOOLEAN /\ Profile \in BOOLEAN
    /\ Limits \subseteq [drops : Nat, clears : Nat, faults : Nat, minutes : Nat]

AllKeys == Range(Keys)
Default == <<"the action's own icon">>
NoPicture == <<>>

VARIABLES
    snap, sys, view, health,  \* fleet manager, controller and builder
    minutes,                  \* statusSince, as the minutes since, per agent
    dirty, lastHash,          \* what a render is decided on
    rpc, todo,                \* render case: its step, the keys still to draw
    captured,                 \* the model Capture returned
    rendered,                 \* what renderAll was last called with
    sending,                  \* the picture on its way to Head(todo)
    cache,                    \* latestByKey, per key
    bound,                    \* keyActions: the keys with an action
    pump, connected,          \* message pump; the client's connected flag
    link, shown,              \* the socket; what each key shows
    missed,                   \* history: the last drawing never reached the key
    seen,                     \* history: the view and the minutes Capture saw
    overtaken,                \* history: a press came between Capture and MarkClean
    left                      \* what the bounds still allow

fleetVars == <<snap, sys, view, health, minutes>>
renderVars == <<lastHash, rpc, todo, captured, rendered, sending>>
deviceVars == <<link, shown, missed>>
clientVars == <<cache, bound, pump, connected>>
history == <<seen, overtaken>>
vars == <<fleetVars, dirty, history, renderVars, clientVars, deviceVars,
          left>>

Init ==
    /\ snap = NoSnapshot
    /\ minutes = <<>>
    /\ sys \in Readings
    /\ view = NewView
    /\ health = "connected"
    /\ dirty = FALSE
    /\ lastHash = <<>>
    /\ rpc = "idle"
    /\ todo = <<>>
    /\ captured = <<>>
    /\ rendered = <<>>
    /\ sending = NoPicture
    /\ cache = [k \in AllKeys |-> NoPicture]
    /\ bound = IF Profile THEN AllKeys ELSE {}
    /\ pump = "reading"
    /\ connected = TRUE
    /\ link = TRUE
    /\ shown = [k \in AllKeys |-> Default]
    /\ missed = [k \in AllKeys |-> TRUE]
    /\ seen = [view |-> NewView, minutes |-> <<>>]
    /\ overtaken = FALSE
    /\ left \in Limits

----------------------------------------------------------------------------
(* How long the agents have their status. *)

Id(a) == <<a.machine, a.pane>>
Places(s, id) == {i \in DOMAIN s.agents : Id(s.agents[i]) = id}
Ids(s) == {Id(s.agents[i]) : i \in DOMAIN s.agents}

\* buildAgentStatusMap: the last agent of an id counts.
StatusOf(s, id) ==
    s.agents[CHOOSE i \in Places(s, id) : \A j \in Places(s, id) : j <= i].status

\* The minutes go on for an agent that was there with the status it has, and
\* begin anew for all others, for those that are listed twice among them.
GoesOn(old, new, id) ==
    /\ id \in Ids(old)
    /\ Cardinality(Places(new, id)) = 1
    /\ StatusOf(old, id) = StatusOf(new, id)
Since(old, new, m) == [id \in Ids(new) |-> IF GoesOn(old, new, id) THEN m[id] ELSE 0]

\* The snapshot with the durations Build puts on the agents.
Timed(s, m) ==
    [s EXCEPT !.agents = [i \in DOMAIN s.agents |->
        [machine |-> s.agents[i].machine, pane |-> s.agents[i].pane,
         space |-> s.agents[i].space, status |-> s.agents[i].status,
         minutes |-> m[Id(s.agents[i])]]]]

----------------------------------------------------------------------------
(* What is drawn. *)

\* visualHash; the tallies are below ten, so their digits do not run into
\* each other.
Modeless(m) == <<m.agents, m.filtered, m.stats, m.sys>>      \* mutant
VisualHash(m) == <<m.agents, m.mode, m.filtered, m.stats, m.sys>>

AgentCounts(m) ==
    [i \in DOMAIN m.machines |->
        Cardinality({j \in DOMAIN m.agents :
                        m.agents[j].machine = m.machines[i].name})]

SpacesOf(m) == {a.space : a \in Range(m.agents)}

\* What the tallies per label and machine are counted from.
Breakdown(m) ==
    [i \in DOMAIN m.agents |->
        <<m.agents[i].space, m.agents[i].machine, m.agents[i].status>>]

\* The data each key is drawn from (viewmodel.Adapt and the renderer).  An
\* agent is gray and the tallies are zero while the collector is offline.
AgentPicture(m, off, i) ==
    IF i > Len(m.agents) THEN <<"empty">>
    ELSE IF off THEN <<"agent", [m.agents[i] EXCEPT !.status = "offline"]>>
    ELSE <<"agent", m.agents[i]>>

Picture(k, r) ==
    LET m == r.model
    IN  CASE k = "K11" -> <<"nav", m.mode = "all", m.filtered, m.machines, AgentCounts(m)>>
          [] k = "K12" -> <<"machine", m.mode = "machine", m.navMachine>>
          [] k = "K13" -> <<"space", m.mode = "space",
                            IF m.mode = "space" THEN m.navSpace ELSE None>>
          [] k = "K14" -> <<"stats", IF r.off THEN 0 ELSE m.stats, m.sys, Breakdown(m)>>
          [] OTHER -> AgentPicture(m, r.off, SlotOf[k])

\* Drawn with SetKeyGIFImage or SetKeySVGDirect, which take the key out of
\* the cache, and not with SetKeyImage, which looks the picture up in it.
Animated(k, r) ==
    /\ k \in DOMAIN SlotOf
    /\ SlotOf[k] <= Len(r.model.agents)
    /\ ~r.off
    /\ r.model.agents[SlotOf[k]].status \in {"working", "done"}
Direct(k, r) == k = "K14" \/ Animated(k, r)

\* Of the direct ones, SetKeySVGDirect does not convert anything.
Converts(k, r) ==
    k = "K14" => Cardinality(SpacesOf(r.model)) > 1

----------------------------------------------------------------------------
(* The event loop: one select case at a time. *)

MarkDirty == dirty' = TRUE

\* fleet.Manager.ApplySnapshot and Controller.ApplySnapshot.
TakeSnapshot ==
    /\ snap' \in Snapshots
    /\ minutes' = Since(snap, snap', minutes)
    /\ health' = "connected"

ApplySnapshotQuietly ==                                  \* mutant
    /\ rpc = "idle"
    /\ TakeSnapshot
    /\ UNCHANGED <<sys, view, dirty, history, renderVars, clientVars,
                   deviceVars, left>>

ApplySnapshot ==
    /\ rpc = "idle"
    /\ TakeSnapshot
    /\ MarkDirty
    /\ UNCHANGED <<sys, view, history, renderVars, clientVars, deviceVars, left>>

\* The clock: nothing is marked dirty.
Minute(id) ==
    /\ minutes[id] < left.minutes
    /\ minutes' = [minutes EXCEPT ![id] = @ + 1]
    /\ UNCHANGED <<snap, sys, view, health, dirty, history, renderVars, clientVars,
                   deviceVars, left>>

MarkHeartbeat ==
    /\ rpc = "idle"
    /\ health' = "connected"
    /\ UNCHANGED <<snap, sys, view, minutes, dirty, history, renderVars, clientVars,
                   deviceVars, left>>

\* The last heartbeat is more than five seconds old.  A health tick that
\* finds it younger, or the collector offline already, changes nothing: only
\* MarkHeartbeat and ApplySnapshot set the health back.
HealthTick ==
    /\ rpc = "idle"
    /\ health = "connected"
    /\ health' = "offline"
    /\ MarkDirty
    /\ UNCHANGED <<snap, sys, view, minutes, history, renderVars, clientVars,
                   deviceVars, left>>

SysTickQuietly ==                                        \* mutant
    /\ rpc = "idle"
    /\ sys' \in Readings
    /\ UNCHANGED <<snap, view, health, minutes, dirty, history, renderVars,
                   clientVars, deviceVars, left>>
Collected ==
    /\ rpc = "idle"
    /\ sys' \in Readings
    /\ MarkDirty
    /\ UNCHANGED <<snap, view, health, minutes, history, renderVars, clientVars,
                   deviceVars, left>>

\* The reading fails: the error is logged and the loop goes on.
CollectFails ==
    /\ rpc = "idle"
    /\ left.faults > 0
    /\ left' = [left EXCEPT !.faults = @ - 1]
    /\ UNCHANGED <<fleetVars, dirty, history, renderVars, clientVars, deviceVars>>

SysTick == Collected \/ CollectFails

\* Capture: the model of this moment and its hash, the empty one while there
\* is no snapshot.
Capture ==
    /\ rpc = "idle"
    /\ dirty
    /\ LET m == Build(view, Timed(snap, minutes), sys)
       IN  captured' = [model |-> m,
                        hash |-> IF snap = NoSnapshot THEN <<>> ELSE VisualHash(m)]
    /\ rpc' = "captured"
    /\ seen' = [view |-> view, minutes |-> minutes]
    /\ overtaken' = FALSE
    /\ UNCHANGED <<fleetVars, dirty, lastHash, todo, rendered, sending, clientVars,
                   deviceVars, left>>

\* MarkClean, which also takes away a flag set since Capture, then nothing when
\* the hash is the one drawn last, otherwise renderAll, which reads the health
\* once.
MarkClean ==
    /\ rpc = "captured"
    /\ dirty' = FALSE
    /\ captured' = <<>>
    /\ IF captured.hash = lastHash
       THEN /\ rpc' = "idle"
            /\ UNCHANGED <<lastHash, todo, rendered>>
       ELSE /\ lastHash' = captured.hash
            /\ rendered' = [model |-> captured.model, off |-> health = "offline"]
            /\ todo' = Keys
            /\ rpc' = "drawing"
    /\ UNCHANGED <<fleetVars, history, sending, clientVars, deviceVars, left>>

----------------------------------------------------------------------------
(* renderAll: one key after the other. *)

\* The key at the head is done with; whether its drawing got lost.
NextKey(lost) ==
    /\ todo' = Tail(todo)
    /\ rpc' = IF Tail(todo) = <<>> THEN "idle" ELSE "drawing"
    /\ sending' = NoPicture
    /\ missed' = [missed EXCEPT ![Head(todo)] = lost]

SkipKey ==
    /\ rpc = "drawing"
    /\ ~connected
    /\ NextKey(TRUE)
    /\ UNCHANGED <<fleetVars, dirty, history, lastHash, captured, rendered,
                   clientVars, link, shown, left>>

\* The SVG does not convert: the error is logged and the loop goes on.
ConvertFails ==
    LET k == Head(todo)
    IN  /\ rpc = "drawing"
        /\ connected
        /\ Converts(k, rendered)
        /\ Direct(k, rendered) \/ cache[k] # Picture(k, rendered)
        /\ left.faults > 0
        /\ left' = [left EXCEPT !.faults = @ - 1]
        /\ NextKey(TRUE)
        /\ UNCHANGED <<fleetVars, dirty, history, lastHash, captured, rendered,
                       clientVars, link, shown>>

\* SetKeyImage on a picture the key is known to show.
CacheHit ==
    LET k == Head(todo)
    IN  /\ rpc = "drawing"
        /\ connected
        /\ ~Direct(k, rendered)
        /\ cache[k] = Picture(k, rendered)
        /\ NextKey(missed[k])
        /\ UNCHANGED <<fleetVars, dirty, history, lastHash, captured, rendered,
                       clientVars, link, shown, left>>

\* What is left of a Set... call once the picture is there: without an
\* action there is nobody to send it to.
SendOrDrop(k) ==
    IF k \in bound
    THEN /\ sending' = Picture(k, rendered)
         /\ rpc' = "sending"
         /\ UNCHANGED <<todo, missed>>
    ELSE NextKey(TRUE)

\* Mutant: the animated paths leave the cache alone.
CacheForgotten ==
    LET k == Head(todo)
    IN  /\ rpc = "drawing"
        /\ connected
        /\ Direct(k, rendered)
        /\ cache' = cache
        /\ SendOrDrop(k)
        /\ UNCHANGED <<fleetVars, dirty, history, lastHash, captured, rendered,
                       bound, pump, connected, link, shown, left>>

\* SetKeyGIFImage and SetKeySVGDirect.
DrawDirect ==
    LET k == Head(todo)
    IN  /\ rpc = "drawing"
        /\ connected
        /\ Direct(k, rendered)
        /\ cache' = IF k \in bound THEN [cache EXCEPT ![k] = NoPicture] ELSE cache
        /\ SendOrDrop(k)
        /\ UNCHANGED <<fleetVars, dirty, history, lastHash, captured, rendered,
                       bound, pump, connected, link, shown, left>>

\* SetKeyImage on another picture: the cache takes it before the action is
\* looked up.
DrawStatic ==
    LET k == Head(todo)
    IN  /\ rpc = "drawing"
        /\ connected
        /\ ~Direct(k, rendered)
        /\ cache[k] # Picture(k, rendered)
        /\ cache' = [cache EXCEPT ![k] = Picture(k, rendered)]
        /\ SendOrDrop(k)
        /\ UNCHANGED <<fleetVars, dirty, history, lastHash, captured, rendered,
                       bound, pump, connected, link, shown, left>>

\* sendRaw: the picture arrives when the socket still stands and the device
\* still has the action it is addressed to.
Send ==
    LET k == Head(todo)
        arrives == link /\ connected /\ k \in bound
    IN  /\ rpc = "sending"
        /\ shown' = IF arrives THEN [shown EXCEPT ![k] = sending] ELSE shown
        /\ NextKey(~arrives)
        /\ UNCHANGED <<fleetVars, dirty, history, lastHash, captured, rendered,
                       clientVars, link, left>>

----------------------------------------------------------------------------
(* The message pump and the device. *)

ReadFails ==
    /\ pump = "reading"
    /\ ~link
    /\ connected' = FALSE
    /\ pump' = "waiting"
    /\ UNCHANGED <<fleetVars, dirty, history, renderVars, cache, bound,
                   deviceVars, left>>

\* A Connect that fails goes back to a read that fails at once: it leaves
\* everything as it is.
Connect ==
    /\ pump = "waiting"
    /\ link' = TRUE
    /\ connected' = TRUE
    /\ pump' = "seeding"
    /\ UNCHANGED <<fleetVars, dirty, history, renderVars, cache, bound, shown,
                   missed, left>>

SeedKeyActions ==
    /\ pump = "seeding"
    /\ bound' = IF Profile THEN AllKeys ELSE bound
    /\ pump' = "resetting"
    /\ UNCHANGED <<fleetVars, dirty, history, renderVars, cache, connected,
                   deviceVars, left>>

ResetImageCache ==
    /\ pump = "resetting"
    /\ cache' = [k \in AllKeys |-> NoPicture]
    /\ pump' = "marking"
    /\ UNCHANGED <<fleetVars, dirty, history, renderVars, bound, connected,
                   deviceVars, left>>

MarkReconnected ==
    /\ pump = "marking"
    /\ MarkDirty
    /\ pump' = "reading"
    /\ UNCHANGED <<fleetVars, history, renderVars, cache, bound, connected,
                   deviceVars, left>>

\* The device gives a key its action ("add"): onAdd only logs.
HandleAdd(k) ==
    /\ pump = "reading" /\ link
    /\ k \notin bound
    /\ bound' = bound \cup {k}
    /\ UNCHANGED <<fleetVars, dirty, history, renderVars, cache, pump, connected,
                   deviceVars, left>>

\* The user takes the action off a key ("clear").
HandleClear(k) ==
    /\ pump = "reading" /\ link
    /\ k \in bound
    /\ left.clears > 0
    /\ left' = [left EXCEPT !.clears = @ - 1]
    /\ bound' = bound \ {k}
    /\ shown' = [shown EXCEPT ![k] = Default]
    /\ missed' = [missed EXCEPT ![k] = TRUE]
    /\ UNCHANGED <<fleetVars, dirty, history, renderVars, cache, pump, connected,
                   link>>

\* onKeyDown, from the pump: the agent keys only log.  A key that is not among
\* the drawn ones is on the deck all the same, and can be pressed.
KeyDown(k, v) ==
    /\ pump = "reading" /\ link
    /\ k \in AllKeys => k \in bound
    /\ view' = v
    /\ MarkDirty
    /\ overtaken' = (overtaken \/ rpc = "captured")
    /\ UNCHANGED <<snap, sys, health, minutes, seen, renderVars, clientVars,
                   deviceVars, left>>

OnK11 == KeyDown("K11", IF K11Toggle THEN ToggleActiveOnly(SetAll(view))
                                     ELSE SetAll(view))
OnK12 == KeyDown("K12", NextMachine(view, snap))
OnK13 == KeyDown("K13", NextSpace(view, snap))

\* The Ulanzi application goes away; its keys lose their pictures.
LinkDrop ==
    /\ link
    /\ left.drops > 0
    /\ left' = [left EXCEPT !.drops = @ - 1]
    /\ link' = FALSE
    /\ shown' = [k \in AllKeys |-> Default]
    /\ missed' = [k \in AllKeys |-> TRUE]
    /\ UNCHANGED <<fleetVars, dirty, history, renderVars, clientVars>>

----------------------------------------------------------------------------

DrawKey == SkipKey \/ ConvertFails \/ CacheHit \/ DrawDirect \/ DrawStatic \/ Send

EventLoop ==
    ApplySnapshot \/ MarkHeartbeat \/ HealthTick \/ SysTick \/ Capture \/ MarkClean
        \/ DrawKey

PumpRuns == ReadFails \/ SeedKeyActions \/ ResetImageCache \/ MarkReconnected
MessagePump == PumpRuns \/ Connect

Device ==
    \/ \E k \in AllKeys : HandleAdd(k) \/ HandleClear(k)
    \/ OnK11 \/ OnK12 \/ OnK13
    \/ LinkDrop

Clock == \E id \in Ids(snap) : Minute(id)

Next == EventLoop \/ MessagePump \/ Device \/ Clock

Spec == Init /\ [][Next]_vars

\* The render case goes on: Capture, MarkClean and DrawKey, and no other
\* action, move rpc or todo, and one of them can whenever this holds.  Stated
\* with the two variables alone, so that no model is built to decide whether
\* the render case may go on.
renderPlace == <<rpc, todo>>
RenderRuns ==
    /\ rpc # "idle" \/ dirty
    /\ rpc' \in {"idle", "captured", "drawing", "sending"}
    /\ todo' \in {Keys, todo, SubSeq(todo, 2, Len(todo))}

\* The two goroutines run.  The tickers fire for ever and select chooses at
\* random among the cases that are ready, so the reading of the system, which
\* is ready every ten seconds, is not passed over for ever.  It may fail, but
\* not for ever, which is assumed with the bound of the faults.  Nothing is
\* asked of the device, nor that a Connect ever succeeds.
FairSpec ==
    /\ Spec
    /\ WF_renderPlace(RenderRuns)
    /\ WF_vars(PumpRuns)
    /\ SF_vars(SysTick)

----------------------------------------------------------------------------
(* Properties. *)

\* An entry of the cache per key is what makes SetKeyImage not send: it names
\* what the key shows, whichever of the three Set... calls drew the key since
\* and whenever the pump reset the cache, unless the last drawing was lost.
CacheTellsTruth ==
    \A k \in AllKeys :
        /\ cache[k] # NoPicture
        /\ ~missed[k]
        /\ ~(rpc = "sending" /\ Head(todo) = k)
        => shown[k] = cache[k]

\* Between two renders a key whose drawing was not lost shows what the last
\* renderAll was given, skipped by the cache or not.
ShownIsRendered ==
    rpc = "idle" =>
        \A k \in AllKeys : ~missed[k] => shown[k] = Picture(k, rendered)

\* The hash of the present snapshot and readings under the view and with the
\* durations that were captured last.
SeenHash ==
    IF snap = NoSnapshot THEN <<>>
    ELSE VisualHash(Build(seen.view, Timed(snap, seen.minutes), sys))

\* While the flag is down and the loop waits, the hash drawn last is that of
\* the present snapshot and readings, with the view and the durations of the
\* last Capture.  The durations may have grown since, which nothing marks; the
\* view is another only when a press came between Capture and MarkClean.
CleanMeansCurrent ==
    rpc = "idle" /\ ~dirty =>
        /\ DOMAIN seen.minutes = Ids(snap)
        /\ \A id \in Ids(snap) : seen.minutes[id] <= minutes[id]
        /\ lastHash = SeenHash
        /\ seen.view = view \/ overtaken

\* What the hash covers of a key's picture: of the navigation keys whether
\* they are lit and filtered, and neither the names on them nor the health of
\* the machines; the others in full, gray or not as renderAll found the health.
Hashed(k, picture) ==
    IF k \in {"K11", "K12", "K13"}
    THEN <<picture[2], k = "K11" /\ picture[3]>>
    ELSE picture

\* What renderAll would be given for the present.
Present == [model |-> Build(view, Timed(snap, minutes), sys), off |-> rendered.off]

\* Once presses, snapshots, readings and durations stop changing, every key
\* whose drawing was not lost shows, in what the hash covers of it, what they
\* left: also the press whose flag MarkClean took away and the minutes nothing
\* marks, since every reading of the system raises the flag again, and though
\* readings fail.
QuietIsDrawn ==
    <>[][UNCHANGED <<snap, sys, view, minutes>>]_<<snap, sys, view, minutes>>
        => <>[](snap # NoSnapshot =>
                  \A k \in AllKeys :
                      ~missed[k] => Hashed(k, shown[k]) = Hashed(k, Picture(k, Present)))

\* A press of the machine key gets to a render, unless the mode changes again:
\* also the press that came between Capture and MarkClean.
ModeIsDrawn ==
    \A md \in {"all", "machine", "space"} :
        (snap # NoSnapshot /\ view.mode = md)
            ~> (view.mode # md \/ (rendered # <<>> /\ rendered.model.mode = md))

\* A render is pending, or the keys show the collector's health.
OfflineIsShown ==
    rpc = "idle" /\ ~dirty /\ rendered # <<>> /\ health = "offline"
        => rendered.off
=============================================================================
