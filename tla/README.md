# herdr-ulanzi-deck: TLA+ models, checks and proofs

herdr-ulanzi-deck shows the agents of several herdr instances on an Ulanzi
deck with LCD keys and on a desktop panel.  Three programs take part:

    herdr ──socket/SSH──▶ collector ──NATS──▶ deck  ──WebSocket──▶ Ulanzi app
                                       └────▶ panel

This directory holds TLA+ models of the parts that keep state and run
concurrently, TLC configurations for them, and proofs checked by TLAPS.
Paths below are relative to the repository's `src/`.

## 1. Inventory

| Component | State | Operations | Talks to | What is hard |
|---|---|---|---|---|
| collector event loop `collector/cmd/herdr-collector/main.go` | tickers, backoff counts, last health | refresh (2 s), heartbeat (1 s), stop | bridge and store by call, publisher | a refresh blocks the heartbeats; backoff |
| bridge `collector/internal/bridge` | connections; per round a channel and a context | FetchAll, fetchConn, merge | herdr clients, one goroutine each | timeouts, late goroutines, torn reads |
| fleet store `collector/internal/fleet` | machine states, order, snapshot, seq | ApplyResults, Snapshot | event loop | partial failure, order of arrival, change detection |
| publisher / NATS server | connection | PublishSnapshot, PublishHeartbeat | subscribers | delivery at most once |
| mock source `collector/internal/mockdata` | phases | FetchAll | event loop, instead of the bridge | machines leave and return |
| start: NATS server, configuration, tunnels `collector/internal/{natsserver,config,tunnel}` | connections, ssh processes, ports | Start, LoadConfig, Tunnel.Start, WaitReady, Close | event loop before and after it runs; ssh | an ssh that is late, dies or meets a taken port; masters that outlive the process |
| subscriber `deck/internal/subscriber`, `panel-gio/internal/subscriber` | two channels of 4 | two NATS callbacks | event loop of the display | drain-then-push races the receiver |
| deck event loop `deck/cmd/herdr-deck/main.go` | last hash | five select cases, renderAll | all deck parts | two goroutines on one controller and client |
| controller `deck/internal/controller` | snapshot, dirty flag, last model | OnK11/12/13, MarkDirty, Capture, MarkClean | builder, fleet manager | check-then-clear of the flag; hash coverage |
| builder `displaymodel` | view state | Build, SetAll, NextMachine, NextSpace, ToggleActiveOnly | controller, panel | stale selections |
| fleet manager `deck/internal/fleet` | snapshot, health, readings, since-times | ApplySnapshot, MarkHeartbeat, CheckHealth | event loop, controller | health set back before it is looked at |
| deck client `deck/internal/deckclient` | socket, action id per key | Connect, ReadPump, SeedKeyActions, SetKeyImage, SetKeyGIFImage, SetKeySVGDirect | Ulanzi application | cache against hardware across failures; ids of two sources |
| render cache `deck/internal/deckclient/render_cache.go` | picture per key; LRU of 64 by hash | GetByKey, PutByKey, GetLRU, PutLRU, ClearByKey, Reset | deck client, message pump | one lock per call, a reset between any two; map and list kept apart |
| profile `deck/internal/profile` | directories and files on disk | RemoveOldProfiles, CreateProfile, ActivateProfile, GetKeyActionMap | event loop, message pump, Ulanzi application | the process may end between any two files; ignored errors |
| readings, renderer | samples; none | | event loop | |
| panel application `panel-gio/internal/board/app.go` | model of the last frame, offline flag, since-times | natsPump, healthCheckPump, refreshPump, frame loop, checkAlert | store, builder, subscriber | check-then-act between goroutines; one frame reads the store twice |
| panel store `panel-gio/internal/store` | snapshot, view, hidden machines, health | setters and getters under one lock | panel application | |
| panel input `panel-gio/internal/board/input.go` | chips, hidden labels, cards, selection | SyncMachines, SyncSpaces, HandleClicks, HandleKeys | store, builder | what is hidden must stay reachable |
| panel layout, alert, command, tray | | | panel application | |

What makes each of them correct:

* bridge: one result per connection (per name, if names are shared), of this
  round; FetchAll returns; no goroutine stays behind; a torn read reports every
  agent that stayed where it was.
* store: failing connections keep their agents; counters count; machines keep
  their places; the change flag is exact.
* subscriber: a register that only moves forward; no blocked callback; no
  lost sign of life.
* navigation: mode and selections agree; presses select what is there; the
  cycle reaches everything; urgent agents are never cut off for others.
* deck: cache entries are true; keys show what was rendered; with a clean flag the last
  hash is the present one, but for what the clock and a lost press changed; what was left
  is drawn in the end, as far as the hash covers it.
* health: a dead collector is noticed; a live one does not count as dead for long.
* start: no ssh process of the run is left that nothing uses; the ports come back after
  an ordered end; the start ends, whatever ssh does.
* image cache: an image is sent as asked, whatever was evicted or reset meanwhile;
  the second level keeps what was used last.
* profile: one profile of ours at most; a profile with our name is whole; an
  id the application told is kept.
* panel: nothing that was hidden is locked out; board and chips agree; what was changed
  is drawn; alerts are raised on entering a watched status.

## 2. Modules

| Module | Models | Remarks |
|---|---|---|
| `Subscriber` | both subscriber callbacks, their channels, the two receives, NATS in between | implements `LatestValue` |
| `LatestValue` | the register the consumer sees | abstract |
| `FleetStore` | ApplyResults, one action per turn of its loops | rounds from the bridge or from the mock source |
| `Bridge` | FetchAll, deadline, goroutines, channels | implements `FetchRounds` |
| `FetchRounds` | rounds with a result for every name | abstract; what `FleetStore!Round` assumes |
| `HerdrFetch` | the three calls of fetchConn and merge, against a herdr that changes | herdr is external |
| `Startup` | NATS server, configuration, the loop over the connections, tunnels, the exit, the next start | ssh and its masters are external |
| `CollectorLoop` | tickers, select, backoff, restarts, in seconds | |
| `Health` | CollectorLoop (INSTANCE), messages, the deck's health check, the panel's two goroutines | composition |
| `DisplayModel` | builder: views, filters, sort, navigation steps, Build | operators only |
| `Navigation` | controller: the three keys over `DisplayModel` | |
| `DeckLoop` | event loop, dirty flag, hash, renderAll per key, cache per key, message pump, device | extends `DisplayModel` |
| `ImageCache` | both levels of the image cache under the three Set... calls, and Reset | for what `DeckLoop` leaves out |
| `Profile` | Ensure file by file, the ids of the keys, the application's start and stop | the application is external |
| `Panel` | the panel's pump of snapshots, frame loop, input, filter, board and alerts | extends `DisplayModel` |
| `Positions` | the elements of a list at the positions that meet a condition, in order | operators only; every filter loop of the code |
| `FleetStore_proof`, `DeckLoop_proof`, `Startup_proof` | theorems of the module they are named after | |
| `Signals_proof` | theorems of `Subscriber` and `Health` | what the displays hear of the collector |
| `Bridge_proof` | theorems of `Bridge` and `HerdrFetch` | a round and one fetch of it |
| `DeckClient_proof` | theorems of `ImageCache` and `Profile` | |
| `Display_proof` | theorems of `DisplayModel`, `Navigation` and `Panel` | |
| `Positions_proof` | lemmas on `Positions` and on ranks in a finite order | |
| `MC_*` | constants for TLC | |

How the actions correspond to the code is listed definition by definition in
`PROJECT.json` under `map`.  The choices that matter:

* **Subscriber.** The drain loop's turns, its end and the send are separate
  actions, since the consumer may receive between any two of them.  A message
  may be lost or malformed.  The panel's subscriber is the same code line by line.
* **FleetStore.** The results of a round are taken one at a time in any order
  (the channel of the bridge orders them by arrival).  Two connections may have
  one name.  `good`, `ok` and `views` are history.  An agent is its machine,
  pane and status; the other texts are carried along by the code and left out.
* **Bridge.** Every round has its own channel and context, so the variables are
  indexed by round.  A goroutine's look at the context and the start of its call
  are two steps.  A call ends whenever it likes, in an answer or an error.
* **HerdrFetch.** `Move`, `Open`, `Close` and `Rename` are herdr's users; the
  three calls read at three moments.
* **CollectorLoop.** One step of `Second` waits for the loop to have handled what
  is due, so that ages count seconds.  A ticker's channel holds one tick.
* **Health.** Ages count the seconds that began since, so an age of exactly five
  may be found on either side of the five-second limit: the check chooses.  The
  panel's goroutines share two atomics: the check loads the age, loads the flag and raises it,
  the pump stores the age and then the flag, and each of these is a step.  The health that
  `natsPump` and the check also write to the panel's store is read by nobody.
* **DisplayModel / Navigation.** A snapshot lists every machine once, as
  `FleetStore!ListedOnce` says of what the store publishes (and `NamedOnce` proves).  `NameRank` gives the order of machine names that
  the sort compares.  `Slots` is ten in the code.  `visited` is history: the last
  selections of a row of presses.
* **DeckLoop.** A picture is what the renderer draws it from.  Only the render
  case has several steps; the pump and the device may act between Capture and
  MarkClean, and per key between the lookup and the write.  `minutes` is how long each agent
  has its status: a snapshot restarts it as `ApplySnapshot` of the fleet manager does, the clock
  moves it for any agent at any moment without raising the flag, and `Capture` puts it on the
  agents, where the hash and the keys have it.  `missed`, `seen` and `overtaken` are history:
  the last drawing of a key never arrived (the write failed, the key had no action, the
  conversion failed, or the hardware lost its picture), what Capture read, and whether a press
  came between Capture and MarkClean.  The LRU is left out: what it returns is what a
  conversion would (`ImageCache!SentIsAsked`).
* **ImageCache.** Every call of the cache takes its lock once, so a Set... call has a
  step per call of the cache, and `Reset` may come between any two.  `Hash` keeps what the
  code hashes, the text and the width; that two images have one hash of 64 bits is left
  out.  `recent` is history and the reference: the hashes used since the last reset, in the
  order of use, without a limit.
* **Profile.** A page of a profile gives every key an id of its own, so an id is a
  profile and a page.  `first` is the page whose directory comes first by name, which is the
  one GetKeyActionMap reads.  A write or removal may fail, and the process may end,
  between any two steps and in the middle of a removal.
* **Startup.** ssh is external: it listens, early, late or never, and may die at any time.
  The code starts it without ExitOnForwardFailure, so one that finds its port taken
  lives on idle, and with ControlMaster=auto and ControlPersist=10m, so the first for a host and
  port leaves a master with the forward in the background and becomes its client, and a later one
  becomes a client of that master as long as it finds the control socket.  Close removes the socket
  and ends the process it started, not the master.  The collector may be started
  again, after an ordered end or a kill, with what is left; another program may hold a port.  Who
  accepts at a port is a variable, and a dial succeeds whoever it is.
* **Panel.** The frame loop has three steps, reading, clicks and keys, and laying out;
  snapshots come in between any two.  The board reads the hidden machines a second time,
  after the input.  The cards are forgotten before the keys are handled, as in the code.
  The store's view and the builder's are one variable, since every change of one is
  copied to the other in the same step.
* **Names.** `Health`, `HerdrFetch`, `Profile` and `Panel` name their `Init`, `Next`, `Spec`
  and `vars` after themselves (`HealthInit`, `PanelSpec`, ...), so that one module can prove
  theorems about them and about another component.

## 3. Runs

| Run | Configuration | What it shows | Distinct states |
|---|---|---|---|
| `subscriber` | `MC_Subscriber.cfg` | never blocks, newest is next, dropped beats are heard, decoded snapshots are superseded or received, refinement of the register | 3,136 |
| `fleet_store` | `MC_FleetStore.cfg` | last known agents, exact counters, stable order, exact change flag | 1,167,577 |
| `bridge` | `MC_Bridge.cfg` | rounds as promised (refinement), one late call at most, no blocked goroutine, FetchAll returns | 969,130 |
| `herdr_fetch` | `MC_HerdrFetch.cfg` | torn reads report stayers and invent nothing | 435,760 |
| `startup` | `MC_Startup.cfg` | no stray ssh process, the ports come back after an ordered end, the start ends; over two runs, with masters, killed runs and another program on a port | 872,610 |
| `health` | `MC_Health.cfg` | of a dead collector the deck's health and the panel's flag tell within seven seconds; the deck's health is never wrong, the panel's flag for less than a refresh period and a timeout per lost snapshot; the logged health is exact although ticks are skipped; silence lasts a fetch and a second at most | 399,052 |
| `navigation` | `MC_Navigation.cfg` | one selection, urgent first, complete cycles, no stale selection after a press | 160 |
| `deck_loop` | `MC_DeckLoop.cfg` | cache, keys and flag in every interleaving, with a broken socket, a cleared key, a failed conversion or reading and a minute that passes; what was left is drawn as far as the hash covers it, and so is a press | 415,292 |
| `deck_offline` | `MC_DeckLoop_offline.cfg` | finding: an offline collector does not turn the keys gray | ends in a violation |
| `image_cache` | `MC_ImageCache.cfg` | an image is sent as asked; the second level is a least-recently-used cache | 35,409 |
| `profile` | `MC_Profile.cfg` | one profile, whole, and ids that are kept, with crashes and failures | 322,399 |
| `panel` | `MC_Panel.cfg` | nothing locked out, board and chips agree, changes are drawn, alerts on entry | 351,404 |

### Bounds, and why they are enough

* `subscriber`: the code's capacity of 4 and six publications, so that a buffer can be
  full and be drained while more arrive.
* `fleet_store`: three connections, two of which share a name, three rounds: the
  third is the first in which a machine may return after it was left out, and
  three results have all orders of arrival.  Reports have no, one and two agents,
  one of them with a status the store does not know.
* `bridge`: two connections, two rounds and two calls per fetch (the code has
  three): a goroutine of round one can be in any place while round two runs, and a fetch has
  a call after its first.  Both ways of naming the connections are initial states.
* `herdr_fetch`: two workspaces, one without a label, two panes, two labels; fetches repeat.
* `startup`: three files (ports given, both left out, one left out behind a local and an
  unusable connection) and the default, over two hosts; one dial that may fail before
  the deadline instead of a hundred: a tunnel can be ready before, between or not in time.  Two runs,
  so that processes, masters and control sockets of one meet those of the next, and one
  port that another program takes and leaves as it likes.
* `health`: the code's periods and limits in seconds; ages are counted up to eight, beyond
  every limit (seven).  One lost message, and one connection, whose failures set the backoff.
* `navigation`: snapshots in which machines, labels and agents come and go, with two
  keys for up to five agents.
* `deck_loop`: one agent key, drawn directly while its agent works and through the cache
  otherwise, and the machine key, drawn through the cache.  A behaviour has one of three budgets (`OneOfEach`): a break, a clear
  and a failed conversion or reading; a break and a minute; or a failure and a minute.
  All at once would be too many states for a run.  One machine and no label, since what the selection
  itself does is `Navigation`'s matter.  `deck_offline` has the filter and the statistics key.
  The proofs cover any keys, snapshots and numbers of failures.
* `image_cache`: two keys, two texts at two widths and room for three: a fourth
  image evicts, a second key reuses, and an evicted image comes back.
* `profile`: one key, two pages, three profiles and two faults: a profile that a failed removal
  left is there when the next one is made, and a crash can hit any step of either.
* `panel`: two machines and two labels with two cells, one input per frame; the input
  of several frames adds up in the store.

`CHECK_DEADLOCK FALSE` is said of `fleet_store` and `bridge`, whose rounds are
bounded and which stop after the last, and of `startup`, which ends.

### Fairness

* `Subscriber`: the callback and the consumer go on when they can: goroutines that the Go
  scheduler runs, and a loop whose cases return.
* `Bridge`: weak fairness of the collecting goroutine and of the context's timer.
  Nothing is assumed of the fetching goroutines, so FetchAll returns whoever
  does not answer.
* `Startup`: weak fairness of the collector's own steps, which are one goroutine's, so the
  start ends whatever ssh does.  Of ssh only what ControlPersist says is assumed: when no
  collector runs that dials the port, a master without a client ends.
* `DeckLoop`: weak fairness of the steps of the render case and of the pump, which
  run unless blocked; strong fairness of the readings' tick, because `select`
  chooses at random among ready cases.  A reading may fail, but not for ever: that is assumed, with
  the bound of the failures.  Nothing is assumed of the device, nor
  that a reconnect ever succeeds.
* `Panel`: weak fairness of the frame loop, which `refreshPump` wakes five times a second.
  Nobody has to click or press.

### What the runs say of the code beyond passing

One documented promise is not kept, shown by `deck_offline` (`findings` in `PROJECT.json`):
`visualHash` does not cover the health, so going offline draws nothing until something
else changes.

Other divergences met on the way are built into the models as the code has
them, with the promise in the weaker form that holds.  In the collector:

* `FetchAll` finds connections without a result by name (`bridge.go:121`), so with a shared
  name it returns fewer results than its comment says; `FetchRounds` promises
  one for every name.
* The backoff is always two ticks (`main.go:209`, whose comment says 2,
  4, 6, ...), its limit of 60 is never met, and it only quietens the log:
  every connection is asked in every round.
* Heartbeats pause during a fetch (`subjects.go:11` says every second).  `SignsOfLife` bounds the
  silence by a fetch and a second, which is longer than the five seconds after
  which the displays give up: a slow herdr makes them show a live collector as
  offline for a moment.
* Every SSH connection without a port gets 19999 (`main.go:134`), so with two of them the second is
  answered by the first host.  `WaitReady` takes whoever accepts the dial, so ports that differ
  do not help against a master of an earlier run or another program either.  No property holds here,
  and none is stated.  A tunnel that is not ready in time is not tried again.
* Close ends the process it started (`tunnel.go:161` calls it the SSH forwarding process, and
  `docs/archive/architecture.md:102` says that shutdown cleans it up).  The forward is the
  master's, and stays for up to ten minutes; since Close removes the control socket, the next run
  cannot share that master, and its own ssh finds the port taken.  `NoStray` speaks of the
  processes the collector started, `PortsComeBack` of what is behind them.
* A signal before the handler is installed (`main.go:165`) ends the collector without
  closing its tunnels: `NoStray` and `PortsComeBack` speak of the ordered end.  A dead ssh that nobody waited for
  still takes the signal of `WaitReady`'s look, so its end may go unnoticed until the deadline.

In the deck:

* A reconnect resets the cache and raises the flag, but redraws nothing as long as the hash is
  the one drawn last, though `client.go:344` and `docs/debugging.md:97` speak of a forced full
  re-render.  The keys that the hardware lost meanwhile are `missed` until then.
* The hash (`controller.go:142`) covers the agents with their durations, the mode, the filter,
  the counters and the readings.  It does not cover the names on the machine and space keys, the
  health of the machines on K11, nor the health of the collector: a second press of K12 that moves
  between two machines without agents changes nothing on the deck.  `Hashed` names what of a key
  is covered, and `QuietIsDrawn` promises no more.  What is covered is drawn in the end because the
  next reading raises the flag again; gray keys come with the next change of anything covered.
* A press between Capture and MarkClean loses its flag (`controller.go:95`); the ten-second
  reading of the system draws it in the end (`ModeIsDrawn`, `QuietIsDrawn`).  Durations raise no flag
  either and appear with the same reading.
* The branch for a recovery (`main.go:243`) is never taken: messages set
  the health back before a check compares it.
* A key drawn before it has an action is cached as if it had been sent
  (`client.go:264`); `missed` marks such a drawing in `DeckLoop`.
* GetKeyActionMap reads the page whose directory comes first by name, not the current one.
  An id that the application told and that belongs to a profile removed since stays the client's
  after a restart of the application, until the application tells another: `ToldIsKept` says
  that ids are kept, not that they are still known.
  Every reconnect makes a new profile, and a directory that never got its manifest is never
  removed.

In the panel:

* The offline flag is taken down by snapshots only, and may be raised over one that has
  just come (`app.go:281`).  `WrongIsShort` bounds how long it contradicts the heartbeats: less than
  `RefreshPeriod + Timeout`, and as long again for every snapshot that is lost while it is up.  Within the period the next refresh begins; a quick one takes the
  flag down, and one that takes the whole timeout leaves no fresh heartbeat to contradict.
* Digits never select: the cards are cleared (`app.go:154`) before the keys are handled,
  although the footer (`input.go:227`) and `docs/README.zh.md:93` offer them; the
  line for the selected agent shows the first one.
* Machines and labels that are hidden still have chips, since the chips are made before the filter
  (`NeverLockedOut`).
* An alert asks for a frame and does nothing else, although `rules.go:1` speaks of the window
  popping up; agents are compared by pane id alone, which two machines may share.
  `AlertsOnEntry` speaks of steps from a board whose cells have pane ids of their own to one
  in which a pane id that was there is still of the same machine.
* A since-time is set once and not restarted by a change of status (`app.go:312`).

## 4. Proofs

`tlapm` checks the proofs of eight modules, without any assumption but the named
ones on the constants (TLC evaluates those in the runs).  Every invariant and every action
property that a passing run checks is a theorem, and so are the two refinements; the
table says where.

| Module | Theorems (property of the run in brackets where the name differs) |
|---|---|
| `Signals_proof` | of `Subscriber`: `TypeCorrect`, `CallbackNeverBlocks` (PushNeverBlocks), `NewestArrivesNext` (NewestIsNext), `BeatsAreHeard` (DroppedBeatIsHeard), `ImplementsRegister` (RegisterSpec); of `Health`: `DeathIsNoticed` (DeadIsNoticed), `LogTellsHealth` (LogIsExact), `NeverSilentForLong` (SignsOfLife), `WrongEnds` (WrongIsShort) |
| `FleetStore_proof` | `TypeCorrect`, `LastKnownShown` (LastKnownAgents), `StatsCount` (StatsMatchAgents), `NamedOnce`, `OrderIsStable` (StableOrder), `ChangeIsExact` (ChangedIsExact) |
| `Bridge_proof` | of `Bridge`: `AskedOnceMore` (OneLateCall), `NobodyLeftBehind` (SendNeverBlocks), `ReturnsRounds` (RoundsSpec); of `HerdrFetch`: `StayersAreReported` (StayersReported), `ReportIsMadeOfAnswers` (NothingInvented) |
| `Display_proof` | of `Navigation`: `TypeCorrect`, `OneSelection` (ModeNamesSelection), `PressIsPresent` (PressSelectsPresent), `CycleIsComplete` (CycleReachesAll), `MostUrgentShown` (UrgentFirst); of `Panel`: `ChipsForAll` (NeverLockedOut), `BoardIsWhatIsLit` (BoardMatchesChips), `AlertIsEntry` (AlertsOnEntry) |
| `DeckLoop_proof` | `CacheTruth` (CacheTellsTruth), `KeysShowModel` (ShownIsRendered), `CleanIsCurrent` (CleanMeansCurrent) |
| `DeckClient_proof` | of `ImageCache`: `SentAsAsked` (SentIsAsked), `KeepsLastUsed` (LastUsedKept); of `Profile`: `OneProfileAtMost` (OneProfile), `NamedHasItsPages` (NamedIsWhole), `ToldIsNeverLost` (ToldIsKept) |
| `Startup_proof` | `NoneAstray` (NoStray) |

The arguments:

* **Positions_proof.** The code's filters, the list of labels and the failures appended at the
  deadline are all elements of a list at certain positions, in order.  `Nth` names the k-th of
  a set of positions by counting those before it; that there is one is a fact of counting, and
  is proved once for every finite linear order: ranks grow along the order, so no two elements
  have the same, so every rank is taken (`RankGrows`, `Ranks`).  From it: what `Picked` has
  as elements, in which order, how many, and how many of them meet a further condition.
* **Signals_proof, Subscriber.** The invariant adds to the types that the snapshot channel
  never holds more than one element (`OneBuffered`), and that what is on its way is newer
  than what the consumer has and no newer than what was decoded (`Ordered`).  From it: the
  callback never blocks, the next receive is the newest, dropped heartbeats are heard,
  and every step is a step of `LatestValue` or leaves it unchanged.
* **Signals_proof, Health.** `LogInv`: a tick is skipped only for a machine that the log has as
  offline, hence no recovery is missed.  `SignInv`: the loop that waits has published in this
  second or has a heartbeat due, and a fetch began within a second of something published.
  `MailInv`: no display heard anything after the last sign of life.  `NoticeInv`: a check after
  the timeout finds it, and there is one every second.  `WrongInv` ties how long the
  flag has been wrong to the ticker of the refreshes, to a snapshot on its way and to the
  age of the last heartbeat, with a slack for each snapshot lost; without the link to the refresh under way it is not inductive.
* **FleetStore_proof.** `IInv`: the order lists the known names once; a machine's
  state is what its last result and last success made it; the snapshot, and in the
  second loop the partial snapshot, list machines in that order up to the place
  the loop has reached, with counters equal to the counts of their agents.
  The middle part is needed because the snapshot is assembled over many steps and results
  arrive in between rounds only.  `ViewsInv` is for the change flag: the snapshot is
  what the loop makes of the order and of the states it had at its last end (`BuiltOf`), and it
  shows those states (`Shows`: every machine once, its agents in one block).  So
  the same states make the same snapshot, and snapshots that compare as equal, position by
  position, show the same states.  The order grows at its end
  only, by names that no earlier round had, so the last snapshot stays one that is made of it.
* **Bridge_proof, Bridge.** `LateInv`: a call begun late was begun after the look that still found
  time left, and the next look finds none.  `ChanInv`: a channel holds one result at most of
  each connection, sent as its goroutine's last act, and rounds to come have not begun.  A
  goroutine about to send is therefore missing in its channel, and counting connections leaves
  it room, also in rounds long given up.  `CollectInv`: the results taken are of different
  connections, ended, with none left in the channel.  When the loop has counted to the end
  there are as many results as connections, so every one; at the deadline the failures
  appended are of names that had no result, one of each.  With that a return is a step
  of `FetchRounds`, and everything else leaves it unchanged.
* **Bridge_proof, HerdrFetch.** `HerdrInv`: herdr's history holds every answer as it was given,
  and what stayed to the end was in the first.  `JoinInv`: the merge joins the answers pane by pane.
* **Display_proof, Navigation.** Lemmas on the builder's operators: the list of labels has every label
  once, the element after another is in the list, what a navigation step does to the
  view.  `RowInv` says that the selections of a row of presses stand one behind the other
  in the list, going round, so that none comes back before all were there.  `SortAgents` puts
  every agent at its rank in the order of `Goes`, a linear order of positions; by the lemmas on
  ranks it is a rearrangement in which no agent comes before one that must go before it, and the
  cut takes the end only: `MostUrgentShown`.  (Beyond twelve agents `sort.Slice` may order agents
  that compare as equal otherwise than the model; the property does not tell these apart.)
* **Display_proof, Panel.** `ChipsInv` holds the fact on which the board rests: only a label with a
  chip is dark.  A label that a frame meets for the first time therefore lights up nothing
  that the filter of the same frame took away.  `FrameInv` says what a frame under way has
  read, which chips it has for it, and that its model is the one of the present filters as long
  as nothing was clicked or pressed in it; `BoardInv` that clicks are of chips that are there.
  That the grid, the header and the chips agree then follows from counting what is
  picked.  `AlertIsEntry` needs only that the cells of a board are numbered.
* **DeckLoop_proof.** `KeyInv` ties cache, keys and the step of the render case
  together: the picture being sent is the one the cache names, unless the pump reset
  the cache meanwhile, and the keys `renderAll` is through with show what it was given.
  `FlagInv` says that the flag is up, or the last hash is that of the present snapshot and readings
  with what Capture saw (`seen`), whose durations are at most the present ones: a snapshot restarts
  durations, but raises the flag, and the clock, which does not, only adds to them.
* **DeckClient_proof, ImageCache.** `CallInv` says what a call under way carries, `KeptInv` that both
  levels hold conversions of images with the hash they are found under, for `SentIsAsked`.
  `OrderInv` says that the list is the end of the reference and the map its elements; lemmas on
  lists without repetitions show that a use, a new hash, and a hash that comes back
  after it was evicted keep it so: `LastUsedKept`.
* **DeckClient_proof, Profile.** `KeyInv` (the client's ids and what it was told change together)
  gives `ToldIsKept`.  `RemovalInv` says which profiles a removal under way has still to look at,
  and `WritingInv` which pages a profile without a name has; they carry `OneProfile` and
  `NamedIsWhole` through every crash.
* **Startup_proof.** `WaitInv` ties the last ssh to the connection that is waited for, and
  `AliveInv` says which ssh of the present run may live at which step, and that the list of tunnels
  holds them all.  What masters, other programs and processes of earlier runs do changes no
  process into another and brings none back (`OutsideStep`), which is all that is needed of them.

Four properties were corrected or strengthened because a proof asked for it: `WrongIsShort` has the
exact bound and counts the lost snapshots, `CleanMeansCurrent` names what a clean flag leaves open, `AlertsOnEntry` excludes two cells of one machine with one pane id, of which the code
looks at the last one only, and a snapshot of `DisplayModel` lists every machine once.

Only model-checked: the liveness properties `EveryDecodedIsSuperseded`, `QuietIsDrawn`,
`ModeIsDrawn`, `SettledIsDrawn`, `FetchAllReturns`, `PortsComeBack` and `StartupEnds`.  Liveness under fairness and
ENABLED are out of the prover's reach.  So is induction over data; no proof here
needs it, since filters and sorts are defined by counting and not by recursion.

## 5. Not modelled

The SVG texts and their rasterisation (`render`, `draw.go`), the panel's theme, sizes and
durations, and the tray's native calls: drawing, without state another part reads.
The NATS library and the Ulanzi application: environment.  The panic of the WebSocket library after
a thousand reads of a failed connection (`main.go:284` of the deck): its count is the library's.
`FocusAgent` and `Subscribe` of the collector and `FindOurProfile` of the deck: nothing calls
them.  The JavaScript demo, the end-to-end scripts and the `herdr-test` tool: not part of the
running system.

## 6. Plan

Done: every module of section 2 and the proofs of section 4.  In order of weight:

1. Types of the modules whose invariants are proved without all of them, `Panel`, `Profile` and
   `ImageCache`, as theorems of their own; that `DeckLoop` and `Panel` keep the view a `View`.
2. Lemmas that liveness rests on and that are safety: that a press or a snapshot leaves the
   deck's flag up or a reading to come (for `QuietIsDrawn`), that a round under way has a
   step enabled by its timer (for `FetchAllReturns`), and that the dials of a tunnel count up
   (for `StartupEnds`).
3. That the rounds of `FetchRounds` are those `FleetStore!Round` takes from the bridge.
4. The deck's link with the library's read count, which would make the retries after failed connects
   finite.
5. Since-times of the panel, and the phases of the mock timeline by the clock.
