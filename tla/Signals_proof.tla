--------------------------- MODULE Signals_proof ---------------------------
(***************************************************************************)
(* What a display hears of the collector.  First the channels of the       *)
(* Subscriber, for every capacity and every number of snapshots: the       *)
(* invariants TLC checks, and that the consumer sees the register          *)
(* LatestValue.  Then Health, for every timeout, period, number of machines*)
(* and of lost messages.                                                   *)
(***************************************************************************)
EXTENDS Health, Subscriber, TLAPS

-----------------------------------------------------------------------------
(* The subscriber's channels. *)

\* The channel holds one snapshot at most, and everything that is still on
\* its way to the consumer is newer than what the consumer holds.
OneBuffered == snapshotCh = <<>> \/ \E v \in 1..MaxPublish : snapshotCh = <<v>>

Ordered ==
    /\ current <= decoded
    /\ decoded <= delivered
    /\ delivered <= published
    /\ \A v \in 1..MaxPublish :
          snapshotCh = <<v>> => current < v /\ v <= decoded
    /\ cb # "idle" =>
          /\ msg = decoded
          /\ current < msg
          /\ \A v \in 1..MaxPublish : snapshotCh = <<v>> => v < msg

\* The inductive invariant.
IInv ==
    /\ TypeOK
    /\ OneBuffered
    /\ Ordered
    /\ PushNeverBlocks
    /\ NewestIsNext
    /\ DroppedBeatIsHeard

USE CapAssumption, MaxPublishAssumption

\* What a channel with at most one element yields and becomes.
LEMMA OneElement ==
    ASSUME NEW v \in Nat
    PROVE  /\ Head(<<v>>) = v
           /\ Tail(<<v>>) = <<>>
           /\ Append(<<>>, v) = <<v>>
           /\ Len(<<>>) = 0
           /\ <<v>> # <<>>
           /\ \A w : <<v>> = <<w>> => v = w
  OBVIOUS

\* Every state of every behaviour: the invariant holds at the start ...
LEMMA InitIInv == Init => IInv
<1> SUFFICES ASSUME Init PROVE IInv
  OBVIOUS
<1>1. \A v \in 1..MaxPublish : snapshotCh # <<v>>
  BY OneElement DEF Init
<1>2. unheard \in BOOLEAN /\ DroppedBeatIsHeard
  BY Zenon DEF Init, DroppedBeatIsHeard
<1>3. TypeOK
  BY <1>2 DEF Init, TypeOK
<1>4. OneBuffered /\ Ordered /\ PushNeverBlocks /\ NewestIsNext
  BY <1>1 DEF Init, OneBuffered, Ordered, PushNeverBlocks, NewestIsNext
<1> QED
  BY <1>2, <1>3, <1>4 DEF IInv

\* ... and no step of the callbacks, the consumer or the collector breaks it.
LEMMA NextIInv == IInv /\ [Next]_vars => IInv'
<1> SUFFICES ASSUME IInv, [Next]_vars PROVE IInv'
  OBVIOUS
<1> USE DEF IInv, TypeOK, OneBuffered, Ordered, PushNeverBlocks, NewestIsNext,
            DroppedBeatIsHeard, snapVars, beatVars
<1>1. CASE Publish
  BY <1>1 DEF Publish
<1>2. CASE Deliver
  <2> PICK w \in Deliverable : delivered' = w /\ msg' = w /\ decoded' = w
    BY <1>2 DEF Deliver
  <2>1. w \in 1..MaxPublish /\ delivered < w /\ w <= published
    BY DEF Deliverable
  <2>2. /\ cb = "idle" /\ cb' = "draining" /\ msg' = w /\ decoded' = w
        /\ UNCHANGED <<published, snapshotCh, current, heartbeatCh, unheard>>
    BY <1>2 DEF Deliver
  <2>3. TypeOK' /\ OneBuffered'
    BY <2>1, <2>2
  <2>4. Ordered'
    BY <2>1, <2>2
  <2> QED
    BY <2>1, <2>2, <2>3, <2>4
<1>3. CASE DeliverMalformed
  BY <1>3 DEF DeliverMalformed, Deliverable
<1>4. CASE Drain
  <2>1. PICK v \in 1..MaxPublish : snapshotCh = <<v>>
    BY <1>4 DEF Drain
  <2>2. snapshotCh' = <<>>
    BY <1>4, <2>1, OneElement DEF Drain
  <2>3. \A v2 \in 1..MaxPublish : snapshotCh' # <<v2>>
    BY <2>2, OneElement
  <2> QED
    BY <1>4, <2>2, <2>3 DEF Drain
<1>5. CASE EndDrain
  BY <1>5 DEF EndDrain, NothingBuffered
<1>6. CASE Push
  <2>1. snapshotCh' = <<msg>> /\ msg \in 1..MaxPublish /\ cb = "pushing"
    BY <1>6, OneElement DEF Push, Sent
  <2>2. \A v \in 1..MaxPublish : snapshotCh' = <<v>> => v = msg
    BY <2>1, OneElement
  <2> QED
    BY <1>6, <2>1, <2>2, OneElement DEF Push
<1>7. CASE Receive
  <2>1. PICK v \in 1..MaxPublish : snapshotCh = <<v>>
    BY <1>7 DEF Receive
  <2>2. snapshotCh' = <<>> /\ current' = v
    BY <1>7, <2>1, OneElement DEF Receive
  <2>3. \A w \in 1..MaxPublish : snapshotCh' # <<w>>
    BY <2>2, OneElement
  <2>4. cb = "idle" => v = decoded
    BY <2>1, OneElement
  <2> QED
    BY <1>7, <2>1, <2>2, <2>3, <2>4 DEF Receive
<1>8. CASE HeartbeatCallback
  BY <1>8 DEF HeartbeatCallback, RoomForBeat
<1>9. CASE ReceiveHeartbeat
  <2>1. unheard' \in BOOLEAN /\ DroppedBeatIsHeard'
    BY <1>9, Zenon DEF ReceiveHeartbeat
  <2> HIDE DEF DroppedBeatIsHeard
  <2> QED
    BY <1>9, <2>1 DEF ReceiveHeartbeat
<1>10. CASE UNCHANGED vars
  BY <1>10 DEF vars
<1> HIDE DEF IInv
<1> QED
  BY <1>1, <1>2, <1>3, <1>4, <1>5, <1>6, <1>7, <1>8, <1>9, <1>10 DEF Next

\* The invariant holds in every state.
LEMMA Invariance == Spec => []IInv
  BY InitIInv, NextIInv, PTL DEF Spec

\* Every variable stays in its type, whatever the callbacks, the consumer
\* and the network do.
THEOREM TypeCorrect == Spec => []TypeOK
  BY Invariance, PTL DEF IInv

\* The snapshot callback never blocks in its send.
THEOREM CallbackNeverBlocks == Spec => []PushNeverBlocks
  BY Invariance, PTL DEF IInv

\* Between callbacks the consumer has the newest decoded snapshot or gets it
\* with its next receive.
THEOREM NewestArrivesNext == Spec => []NewestIsNext
  BY Invariance, PTL DEF IInv

\* A heartbeat dropped on a full buffer leaves one to be read.
THEOREM BeatsAreHeard == Spec => []DroppedBeatIsHeard
  BY Invariance, PTL DEF IInv

\* The two channels and callbacks implement the forward-only register: each
\* step of the subscriber is a step of LatestValue or leaves it unchanged.
THEOREM ImplementsRegister == Spec => RegisterSpec
<1>1. Init => Register!Init
  BY DEF Init, Register!Init
<1>2. IInv /\ [Next]_vars => [Register!Next]_(Register!vars)
  <2> SUFFICES ASSUME IInv, [Next]_vars PROVE [Register!Next]_(Register!vars)
    OBVIOUS
  <2> USE DEF Register!vars, Register!Next, snapVars, beatVars
  <2>1. CASE Publish
    BY <2>1 DEF Publish, Register!Publish
  <2>2. CASE Receive
    <3>1. PICK v \in 1..MaxPublish : snapshotCh = <<v>>
      BY <2>2 DEF Receive, IInv, OneBuffered
    <3>2. current' = v /\ published' = published
      BY <2>2, <3>1, OneElement DEF Receive
    <3>3. v \in (current + 1)..published
      BY <3>1 DEF IInv, Ordered, TypeOK
    <3> QED
      BY <3>2, <3>3 DEF Register!Observe
  <2>3. CASE \/ Deliver \/ DeliverMalformed \/ Drain \/ EndDrain \/ Push
             \/ HeartbeatCallback \/ ReceiveHeartbeat
    BY <2>3 DEF Deliver, DeliverMalformed, Drain, EndDrain, Push,
                HeartbeatCallback, ReceiveHeartbeat
  <2>4. CASE UNCHANGED vars
    BY <2>4 DEF vars
  <2> QED
    BY <2>1, <2>2, <2>3, <2>4 DEF Next
<1> QED
  BY <1>1, <1>2, Invariance, PTL DEF Spec, RegisterSpec, Register!Spec

-----------------------------------------------------------------------------
(* The invariants of Health. *)

CollectorTypes ==
    /\ loop \in {"down", "select", "fetching"}
    /\ fetchAge \in 0 .. FetchLimit
    /\ refreshIn \in 1 .. RefreshPeriod
    /\ skip \in [Names -> Nat]
    /\ signAge \in 0 .. Horizon

LoopInv == (loop = "select" => ticking) /\ (ticking => loop # "down")

\* A tick is skipped only for a machine that the log has as offline.
LogInv ==
    /\ ticking => \A n \in Names :
          lastHealth[n] = IF n \in failed THEN "offline" ELSE "online"
    /\ \A n \in Names : skip[n] > 0 => lastHealth[n] = "offline"

\* The loop that waits published in this second or has a heartbeat due; a
\* fetch began within a second of something published.
SignInv ==
    /\ loop = "select" => signAge <= 1 /\ (~beatDue => signAge = 0)
    /\ loop = "fetching" /\ ticking => signAge <= fetchAge + 1

CollectorInv == CollectorTypes /\ LoopInv /\ LogInv /\ SignInv

DisplayTypes ==
    /\ deckMail \in SUBSET Messages /\ panelMail \in SUBSET Messages
    /\ deckAge \in 0 .. Horizon /\ panelAge \in 0 .. Horizon
    /\ panelPump \in {"select", "clear"}
    /\ panelCheck \in {"wait", "tick", "stale", "found"}
    /\ panelWrong \in Nat /\ panelLost \in Nat

\* Messages are handled in the second they were published in, so no display
\* has heard anything later than the last of them, and natsPump is between its
\* two stores only in such a second.
MailInv ==
    /\ deckMail # {} \/ panelMail # {} \/ panelPump = "clear" => signAge = 0
    /\ signAge <= deckAge /\ signAge <= panelAge

\* A check that comes after the timeout finds it; there is one each second.
NoticeInv ==
    /\ signAge > Timeout + 1 => deckHealth = "offline" /\ panelOffline
    /\ signAge > Timeout /\ ~deckTick => deckHealth = "offline"
    /\ signAge > Timeout /\ panelCheck = "wait" => panelOffline

\* How much longer the lost snapshots let the flag be wrong.
Slack == panelLost * (RefreshPeriod + Timeout)

\* The refresh period in which a snapshot should take the flag down.
PeriodInv(slack) ==
    /\ panelWrong <= slack + RefreshPeriod + panelAge
    /\ panelMail # {} => panelWrong <= slack + RefreshPeriod
    /\ loop = "select" => panelWrong <= slack + RefreshPeriod
    /\ loop = "select" /\ ~refreshDue => panelWrong + refreshIn <= slack + RefreshPeriod

\* While the flag is up with a fresh heartbeat: less than a refresh period
\* has passed since the snapshot it was raised over, or the next refresh has
\* begun, and with it the silence; or a snapshot is about to take it down, or
\* was lost.
WrongInv(slack) ==
    /\ deckHealth = "offline" => deckAge >= Timeout
    /\ panelWrong > 0 =>
          panelOffline /\ panelAge < Timeout /\ panelCheck \in {"wait", "tick"}
    /\ panelWrong < slack + RefreshPeriod + Timeout
    /\ panelWrong > 0 /\ "snapshot" \notin panelMail /\ panelPump = "select" =>
          PeriodInv(slack)

DisplayInv == DisplayTypes /\ MailInv /\ NoticeInv /\ WrongInv(Slack)

USE PeriodAssumption, TimeoutAssumption

-----------------------------------------------------------------------------
(* The collector's loop. *)

\* No step of the collector's loop lets the log or the signs of life slip.
LEMMA CollectorStep ==
    ASSUME CollectorInv, Collector!Next \/ UNCHANGED collectorVars
    PROVE  CollectorInv'
<1> USE DEF CollectorInv
<1>1. CASE Collector!StartRefresh
  BY <1>1 DEF Collector!StartRefresh, Collector!backoffVars, CollectorTypes,
              LoopInv, LogInv, SignInv
<1>2. ASSUME NEW S \in SUBSET Names, Collector!FinishRefresh(S)
      PROVE  CollectorInv'
  <2>1. /\ loop' = "select" /\ ticking' = TRUE /\ fetchAge' = 0 /\ signAge' = 0
        /\ failed' = Names \ S
        /\ UNCHANGED <<refreshIn, refreshDue, beatDue>>
    BY <1>2 DEF Collector!FinishRefresh
  <2>2. \A n \in Names : Collector!Backoff(skip[n]) \in Nat
    BY DEF Collector!Backoff, CollectorTypes
  <2>3. /\ skip' \in [Names -> Nat]
        /\ \A n \in Names :
              /\ n \in S => skip'[n] = 0 /\ lastHealth'[n] = "online"
              /\ n \notin S => lastHealth'[n] = "offline"
    <3>1. skip' = [n \in Names |-> IF n \in S THEN 0
                             ELSE IF skip[n] > 0 THEN skip[n] - 1
                             ELSE Collector!Backoff(skip[n])]
      BY <1>2 DEF Collector!FinishRefresh, Collector!BackedOff, Collector!Skipped
    <3>2. lastHealth' = [n \in Names |->
                      IF n \in S THEN "online"
                      ELSE IF skip[n] > 0 THEN lastHealth[n] ELSE "offline"]
      BY <1>2 DEF Collector!FinishRefresh, Collector!Logged, Collector!Skipped
    <3> QED
      BY <2>2, <3>1, <3>2 DEF CollectorTypes, LogInv
  <2>4. CollectorTypes'
    BY <2>1, <2>3 DEF CollectorTypes
  <2>5. LoopInv' /\ SignInv'
    BY <2>1 DEF LoopInv, SignInv
  <2>6. LogInv'
    BY <2>1, <2>3 DEF LogInv
  <2> QED
    BY <2>4, <2>5, <2>6
<1>3. CASE Collector!PublishHeartbeat
  BY <1>3 DEF Collector!PublishHeartbeat, Collector!backoffVars, CollectorTypes,
              LoopInv, LogInv, SignInv
<1>4. CASE Collector!Second
  <2>1. CollectorTypes'
    BY <1>4 DEF Collector!Second, Collector!Capped, Collector!backoffVars, CollectorTypes
  <2>2. LoopInv' /\ LogInv'
    BY <1>4 DEF Collector!Second, Collector!backoffVars, LoopInv, LogInv
  <2>3. SignInv'
    BY <1>4 DEF Collector!Second, Collector!Prompt, Collector!Capped, CollectorTypes,
                LoopInv, SignInv
  <2> QED
    BY <2>1, <2>2, <2>3
<1>5. CASE Collector!Stop
  BY <1>5 DEF Collector!Stop, Collector!backoffVars, CollectorTypes, LoopInv, LogInv,
              SignInv
<1>6. CASE Collector!Restart
  <2>1. /\ loop' = "fetching" /\ fetchAge' = 0 /\ ticking' = FALSE
        /\ refreshIn' = RefreshPeriod /\ signAge' = signAge
        /\ skip' = [n \in Names |-> 0]
    BY <1>6 DEF Collector!Restart, Collector!Starting
  <2>2. \A n \in Names : skip'[n] = 0
    BY <2>1
  <2> QED
    BY <2>1, <2>2 DEF CollectorTypes, LoopInv, LogInv, SignInv
<1>7. CASE UNCHANGED collectorVars
  BY <1>7 DEF collectorVars, CollectorTypes, LoopInv, LogInv, SignInv
<1> QED
  BY <1>1, <1>2, <1>3, <1>4, <1>5, <1>6, <1>7 DEF Collector!Next

-----------------------------------------------------------------------------
(* The displays. *)

\* A second of the collector: the loop has nothing to do, and waits or fetches.
LEMMA SecondOfLoop ==
    ASSUME CollectorInv, Collector!Second
    PROVE  /\ loop' = loop
           /\ signAge' = IF signAge < Horizon THEN signAge + 1 ELSE signAge
           /\ loop = "select" =>
                 /\ ~refreshDue
                 /\ refreshDue' <=> refreshIn = 1
                 /\ refreshIn # 1 => refreshIn' = refreshIn - 1
<1>1. signAge' = Collector!Capped(signAge + 1) /\ loop' = loop
  BY DEF Collector!Second
<1>2. signAge' = IF signAge < Horizon THEN signAge + 1 ELSE signAge
  BY <1>1 DEF Collector!Capped, CollectorInv, CollectorTypes
<1>3. ASSUME loop = "select"
      PROVE  /\ ~refreshDue
             /\ refreshDue' <=> refreshIn = 1
             /\ refreshIn # 1 => refreshIn' = refreshIn - 1
  BY <1>3 DEF Collector!Second, Collector!Prompt, CollectorInv, LoopInv
<1> QED
  BY <1>1, <1>2, <1>3

\* Each lost snapshot is worth a period and a timeout more.
LEMMA SlackGrows ==
    ASSUME panelLost \in Nat
    PROVE  /\ Slack \in Nat
           /\ panelLost = 0 => Slack = 0
           /\ panelLost' = panelLost => Slack' = Slack
           /\ panelLost' = 0 => Slack' = 0
           /\ panelLost' = panelLost + 1 => Slack' = Slack + (RefreshPeriod + Timeout)
           /\ WrongLimit(panelLost) = Slack + RefreshPeriod + Timeout
<1> DEFINE grace == RefreshPeriod + Timeout
<1>1. grace \in Nat
  OBVIOUS
<1>2. /\ Slack = panelLost * grace /\ Slack' = panelLost' * grace
      /\ WrongLimit(panelLost) = (panelLost + 1) * grace
      /\ grace = RefreshPeriod + Timeout
  BY DEF Slack, WrongLimit
<1> HIDE DEF grace
<1>3. panelLost * grace \in Nat /\ 0 * grace = 0
  BY <1>1
<1>4. (panelLost + 1) * grace = panelLost * grace + grace
  BY <1>1
<1>5. /\ Slack \in Nat
      /\ panelLost = 0 => Slack = 0
      /\ panelLost' = panelLost => Slack' = Slack
      /\ panelLost' = 0 => Slack' = 0
  BY <1>2, <1>3
<1>6. panelLost' = panelLost + 1 => Slack' = Slack + grace
  BY <1>2, <1>4
<1> HIDE DEF Slack
<1>7. WrongLimit(panelLost) = Slack + RefreshPeriod + Timeout
  <2>1. WrongLimit(panelLost) = Slack + grace
    BY <1>2, <1>4
  <2> QED
    BY <1>2, <1>5, <2>1
<1> QED
  BY <1>2, <1>5, <1>6, <1>7

\* A message published: the flag was not wrong for longer than a period.
LEMMA SendStep ==
    ASSUME CollectorInv, DisplayInv, NEW m \in Messages, Send(m),
           signAge' = 0,
           \/ m = "snapshot"
           \/ loop = "select" /\ UNCHANGED <<loop, refreshDue, refreshIn>>
    PROVE  DisplayInv'
<1>1. /\ deckMail' = deckMail \cup {m} /\ panelMail' = panelMail \cup {m}
      /\ UNCHANGED <<deckAge, deckHealth, deckTick, panelAge, panelPump, panelOffline,
                     panelCheck, panelWrong, panelLost>>
  BY DEF Send, deckVars, panelVars
<1>2. DisplayTypes' /\ MailInv'
  BY <1>1 DEF DisplayInv, DisplayTypes, MailInv, CollectorInv, CollectorTypes
<1>3. NoticeInv'
  BY <1>1 DEF NoticeInv
<1>4. Slack' = Slack
  BY <1>1, SlackGrows DEF DisplayInv, DisplayTypes
<1>5. WrongInv(Slack)'
  <2> HIDE DEF Slack
  <2>1. CASE m = "snapshot"
    BY <1>1, <1>4, <2>1 DEF DisplayInv, WrongInv
  <2>2. CASE UNCHANGED <<loop, refreshDue, refreshIn>> /\ loop = "select"
    BY <1>1, <1>4, <2>2 DEF DisplayInv, DisplayTypes, WrongInv, PeriodInv, CollectorInv,
                           CollectorTypes
  <2> QED
    BY <2>1, <2>2
<1> QED
  BY <1>2, <1>3, <1>5 DEF DisplayInv

\* The collector's other steps leave the displays alone.
LEMMA CollectorRunsStep ==
    ASSUME CollectorInv, DisplayInv, CollectorRuns
    PROVE  DisplayInv'
<1>1. UNCHANGED <<deckMail, panelMail, deckAge, deckHealth, deckTick, panelAge,
                  panelPump, panelOffline, panelCheck, panelWrong, panelLost>>
  BY DEF CollectorRuns, deckVars, panelVars, mail
<1>2. signAge' = signAge /\ loop' # "select"
  BY DEF CollectorRuns, Collector!StartRefresh, Collector!Stop, Collector!Restart,
         Collector!Starting
<1>3. DisplayTypes' /\ MailInv' /\ NoticeInv'
  BY <1>1, <1>2 DEF DisplayInv, DisplayTypes, MailInv, NoticeInv
<1>4. Slack' = Slack
  BY <1>1 DEF Slack
<1>5. WrongInv(Slack)'
  BY <1>1, <1>2, <1>4 DEF DisplayInv, WrongInv, PeriodInv
<1> QED
  BY <1>3, <1>5 DEF DisplayInv

\* What the deck does with its mail and its tick.
LEMMA DeckStep ==
    ASSUME CollectorInv, DisplayInv,
           HealthTick \/ \E m \in Messages : LoseForDeck(m) \/ DeckHears(m)
    PROVE  DisplayInv'
<1>1. /\ UNCHANGED <<loop, refreshDue, refreshIn, signAge, panelMail, panelAge,
                     panelPump, panelOffline, panelCheck, panelWrong, panelLost>>
  BY DEF HealthTick, LoseForDeck, DeckHears, collectorVars, panelVars, mail
<1>2. Slack' = Slack
  BY <1>1 DEF Slack
<1>3. (deckHealth' = "offline" => deckAge' >= Timeout) => WrongInv(Slack)'
  BY <1>1, <1>2 DEF DisplayInv, WrongInv, PeriodInv
<1>4. ASSUME NEW m \in Messages, LoseForDeck(m) PROVE DisplayInv'
  <2>1. UNCHANGED <<deckAge, deckHealth, deckTick>> /\ deckMail' = deckMail \ {m}
    BY <1>4 DEF LoseForDeck, deckVars
  <2>2. DisplayTypes' /\ MailInv' /\ NoticeInv'
    BY <1>1, <1>4, <2>1 DEF LoseForDeck, DisplayInv, DisplayTypes, MailInv, NoticeInv
  <2>3. deckHealth' = "offline" => deckAge' >= Timeout
    BY <2>1 DEF DisplayInv, WrongInv
  <2> QED
    BY <1>3, <2>2, <2>3 DEF DisplayInv
<1>5. ASSUME NEW m \in Messages, DeckHears(m) PROVE DisplayInv'
  <2>1. DisplayTypes' /\ MailInv' /\ NoticeInv'
    BY <1>1, <1>5 DEF DeckHears, DisplayInv, DisplayTypes, MailInv, NoticeInv
  <2>2. deckHealth' = "connected"
    BY <1>5 DEF DeckHears
  <2> QED
    BY <1>3, <2>1, <2>2 DEF DisplayInv
<1>6. ASSUME HealthTick PROVE DisplayInv'
  <2>1. PICK stale \in BOOLEAN :
            /\ stale => deckAge >= Timeout
            /\ deckAge > Timeout => stale
            /\ deckHealth' = IF stale THEN "offline" ELSE deckHealth
    BY <1>6 DEF HealthTick, MayBeStale, MustBeStale
  <2>2. UNCHANGED <<deckAge, deckMail>>
    BY <1>6 DEF HealthTick, mail
  <2>3. DisplayTypes' /\ MailInv'
    BY <1>1, <2>2 DEF DisplayInv, DisplayTypes, MailInv
  <2>4. signAge > Timeout => deckAge > Timeout
    BY DEF DisplayInv, DisplayTypes, MailInv, CollectorInv, CollectorTypes
  <2>5. NoticeInv'
    BY <1>1, <2>1, <2>4 DEF DisplayInv, NoticeInv, CollectorInv, CollectorTypes
  <2>6. deckHealth' = "offline" => deckAge' >= Timeout
    BY <2>1, <2>2 DEF DisplayInv, WrongInv
  <2> QED
    BY <1>3, <2>3, <2>5, <2>6 DEF DisplayInv
<1> QED
  BY <1>4, <1>5, <1>6

\* What natsPump does with the panel's mail, and what is lost of it.
LEMMA PanelMailStep ==
    ASSUME CollectorInv, DisplayInv,
           \/ PanelSnapshot \/ ClearOffline \/ PanelHeartbeat
           \/ \E m \in Messages : LoseForPanel(m)
    PROVE  DisplayInv'
<1>1. /\ UNCHANGED <<loop, refreshDue, refreshIn, signAge, deckMail, deckAge, deckTick,
                     deckHealth, panelCheck>>
      /\ panelMail # {} \/ panelPump = "clear"
      /\ panelMail' \in SUBSET panelMail
  BY DEF PanelSnapshot, ClearOffline, PanelHeartbeat, LoseForPanel, collectorVars,
         deckVars, mail
<1>2. signAge = 0
  BY <1>1 DEF DisplayInv, MailInv
<1>3. deckHealth' = "offline" => deckAge' >= Timeout
  BY <1>1 DEF DisplayInv, WrongInv
<1>4. panelLost \in Nat /\ Slack \in Nat
  BY SlackGrows DEF DisplayInv, DisplayTypes
<1>5. CASE PanelSnapshot
  <2>1. /\ panelAge' = 0 /\ panelPump' = "clear"
        /\ UNCHANGED <<panelOffline, panelWrong, panelLost>>
    BY <1>5 DEF PanelSnapshot
  <2>2. DisplayTypes' /\ MailInv' /\ NoticeInv'
    BY <1>1, <1>2, <2>1 DEF DisplayInv, DisplayTypes, MailInv, NoticeInv
  <2>3. Slack' = Slack
    BY <1>4, <2>1, SlackGrows
  <2>4. WrongInv(Slack)'
    BY <1>1, <1>3, <2>1, <2>3 DEF DisplayInv, DisplayTypes, WrongInv
  <2> QED
    BY <2>2, <2>4 DEF DisplayInv
<1>6. CASE ClearOffline
  <2>1. /\ panelPump' = "select" /\ panelOffline' = FALSE /\ panelWrong' = 0
        /\ panelLost' = 0 /\ UNCHANGED <<panelAge, panelMail>>
    BY <1>6 DEF ClearOffline, mail
  <2>2. DisplayTypes' /\ MailInv' /\ NoticeInv'
    BY <1>1, <1>2, <2>1 DEF DisplayInv, DisplayTypes, MailInv, NoticeInv
  <2>3. Slack' = 0
    BY <1>4, <2>1, SlackGrows
  <2>4. WrongInv(Slack)'
    BY <1>3, <2>1, <2>3 DEF WrongInv
  <2> QED
    BY <2>2, <2>4 DEF DisplayInv
<1>7. CASE PanelHeartbeat
  <2>1. /\ panelAge' = 0 /\ panelMail # {} /\ panelPump = "select"
        /\ UNCHANGED <<panelPump, panelOffline, panelWrong, panelLost>>
        /\ "snapshot" \in panelMail => "snapshot" \in panelMail'
    BY <1>7 DEF PanelHeartbeat
  <2>2. DisplayTypes' /\ MailInv' /\ NoticeInv'
    BY <1>1, <1>2, <2>1 DEF DisplayInv, DisplayTypes, MailInv, NoticeInv
  <2>3. Slack' = Slack
    BY <1>4, <2>1, SlackGrows
  <2> HIDE DEF Slack
  <2>4. panelWrong > 0 /\ "snapshot" \notin panelMail' => PeriodInv(Slack)
    BY <2>1 DEF DisplayInv, WrongInv
  <2>5. panelWrong > 0 /\ "snapshot" \notin panelMail' => PeriodInv(Slack)'
    BY <1>1, <1>4, <2>1, <2>3, <2>4 DEF PeriodInv, DisplayInv, DisplayTypes
  <2>6. WrongInv(Slack)'
    BY <1>1, <1>3, <2>1, <2>3, <2>5 DEF DisplayInv, DisplayTypes, WrongInv
  <2> QED
    BY <2>2, <2>6 DEF DisplayInv
<1>8. ASSUME NEW m \in Messages, LoseForPanel(m) PROVE DisplayInv'
  <2>1. /\ panelMail' = panelMail \ {m}
        /\ UNCHANGED <<panelAge, panelPump, panelOffline, panelWrong>>
        /\ panelLost' = IF m = "snapshot" /\ panelOffline THEN panelLost + 1
                                                          ELSE panelLost
    BY <1>8 DEF LoseForPanel
  <2>2. DisplayTypes' /\ MailInv' /\ NoticeInv'
    BY <1>1, <1>2, <2>1 DEF DisplayInv, DisplayTypes, MailInv, NoticeInv
  <2>3. /\ panelWrong \in Nat /\ panelAge \in Nat
        /\ refreshIn \in 1 .. RefreshPeriod
        /\ panelWrong < Slack + RefreshPeriod + Timeout
    BY DEF DisplayInv, DisplayTypes, WrongInv, CollectorInv, CollectorTypes
  <2>4. CASE m = "snapshot" /\ panelOffline
    <3>1. Slack' = Slack + (RefreshPeriod + Timeout)
      BY <1>4, <2>1, <2>4, SlackGrows
    <3> HIDE DEF Slack
    <3>2. PeriodInv(Slack)' /\ panelWrong' < Slack' + RefreshPeriod + Timeout
      BY <1>1, <1>4, <2>1, <2>3, <3>1 DEF PeriodInv
    <3>3. WrongInv(Slack)'
      BY <1>1, <1>3, <2>1, <3>2 DEF DisplayInv, WrongInv
    <3> QED
      BY <2>2, <3>3 DEF DisplayInv
  <2>5. CASE ~(m = "snapshot" /\ panelOffline)
    <3>1. Slack' = Slack
      BY <1>4, <2>1, <2>5, SlackGrows
    <3>2. panelWrong > 0 => m # "snapshot"
      BY <2>5 DEF DisplayInv, WrongInv
    <3> HIDE DEF Slack
    <3>3. panelWrong > 0 /\ "snapshot" \notin panelMail' => "snapshot" \notin panelMail
      BY <2>1, <3>2
    <3>4. WrongInv(Slack)'
      BY <1>1, <1>3, <2>1, <3>1, <3>3 DEF DisplayInv, WrongInv, PeriodInv
    <3> QED
      BY <2>2, <3>4 DEF DisplayInv
  <2> QED
    BY <2>4, <2>5
<1> QED
  BY <1>5, <1>6, <1>7, <1>8

\* healthCheckPump loads the heartbeat, then the flag, and raises the flag
\* over whatever came since.
LEMMA PanelCheckStep ==
    ASSUME CollectorInv, DisplayInv, LoadHeartbeat \/ LoadOffline \/ RaiseOffline
    PROVE  DisplayInv'
<1>1. /\ UNCHANGED <<loop, refreshDue, refreshIn, signAge, deckMail, deckAge, deckTick,
                     deckHealth, panelMail, panelAge, panelPump, panelWrong, panelLost>>
  BY DEF LoadHeartbeat, LoadOffline, RaiseOffline, collectorVars, deckVars, mail
<1>2. Slack' = Slack
  BY <1>1 DEF Slack
<1> HIDE DEF Slack
<1>3. (panelWrong > 0 => panelOffline' /\ panelCheck' \in {"wait", "tick"})
         => WrongInv(Slack)'
  BY <1>1, <1>2 DEF DisplayInv, WrongInv, PeriodInv
<1>4. signAge > Timeout => panelAge > Timeout
  BY DEF DisplayInv, DisplayTypes, MailInv, CollectorInv, CollectorTypes
<1>5. CASE LoadHeartbeat
  <2>1. PICK stale \in BOOLEAN :
            /\ stale => panelAge >= Timeout
            /\ panelAge > Timeout => stale
            /\ panelCheck' = IF stale THEN "stale" ELSE "wait"
    BY <1>5 DEF LoadHeartbeat, MayBeStale, MustBeStale
  <2>2. panelOffline' = panelOffline
    BY <1>5 DEF LoadHeartbeat
  <2>3. DisplayTypes' /\ MailInv'
    BY <1>1, <2>1 DEF DisplayInv, DisplayTypes, MailInv
  <2>4. NoticeInv'
    BY <1>1, <1>4, <2>1, <2>2 DEF DisplayInv, NoticeInv
  <2>5. panelWrong > 0 => ~stale
    BY <2>1 DEF DisplayInv, DisplayTypes, WrongInv
  <2>6. WrongInv(Slack)'
    BY <1>3, <2>1, <2>2, <2>5 DEF DisplayInv, WrongInv
  <2> QED
    BY <2>3, <2>4, <2>6 DEF DisplayInv
<1>6. CASE LoadOffline
  <2>1. /\ panelCheck = "stale" /\ panelOffline' = panelOffline
        /\ panelCheck' = IF panelOffline THEN "wait" ELSE "found"
    BY <1>6 DEF LoadOffline
  <2>2. DisplayTypes' /\ MailInv' /\ NoticeInv'
    BY <1>1, <2>1 DEF DisplayInv, DisplayTypes, MailInv, NoticeInv
  <2>3. ~(panelWrong > 0)
    BY <2>1 DEF DisplayInv, WrongInv
  <2> QED
    BY <1>3, <2>2, <2>3 DEF DisplayInv
<1>7. CASE RaiseOffline
  <2>1. panelCheck = "found" /\ panelCheck' = "wait" /\ panelOffline' = TRUE
    BY <1>7 DEF RaiseOffline
  <2>2. DisplayTypes' /\ MailInv' /\ NoticeInv'
    BY <1>1, <2>1 DEF DisplayInv, DisplayTypes, MailInv, NoticeInv
  <2> QED
    BY <1>3, <2>1, <2>2 DEF DisplayInv
<1> QED
  BY <1>5, <1>6, <1>7

\* A second begins when everything has been handled.
LEMMA SecondStep ==
    ASSUME CollectorInv, DisplayInv, Second
    PROVE  DisplayInv'
<1>1. /\ deckMail = {} /\ panelMail = {} /\ ~deckTick /\ panelCheck = "wait"
      /\ panelPump = "select"
      /\ UNCHANGED <<deckHealth, panelPump, panelOffline, panelLost, deckMail, panelMail>>
      /\ deckTick' = TRUE /\ panelCheck' = "tick"
  BY DEF Second, Handled, mail
<1>2. /\ deckAge' = IF deckAge < Horizon THEN deckAge + 1 ELSE deckAge
      /\ panelAge' = IF panelAge < Horizon THEN panelAge + 1 ELSE panelAge
      /\ panelWrong' = IF panelOffline /\ panelAge' < Timeout
                       THEN NextWrong(panelWrong) ELSE 0
  BY DEF Second, NextAge
<1>3. /\ loop' = loop
      /\ signAge' = IF signAge < Horizon THEN signAge + 1 ELSE signAge
      /\ loop = "select" =>
            /\ ~refreshDue
            /\ refreshDue' <=> refreshIn = 1
            /\ refreshIn # 1 => refreshIn' = refreshIn - 1
  BY SecondOfLoop DEF Second
<1>4. NextWrong(panelWrong) \in Nat /\ NextWrong(panelWrong) <= panelWrong + 1
  BY DEF NextWrong, DisplayInv, DisplayTypes
<1>5. /\ signAge \in 0 .. Horizon /\ refreshIn \in 1 .. RefreshPeriod
      /\ deckAge \in 0 .. Horizon /\ panelAge \in 0 .. Horizon /\ panelWrong \in Nat
      /\ panelLost \in Nat /\ signAge <= deckAge /\ signAge <= panelAge
  BY DEF CollectorInv, CollectorTypes, DisplayInv, DisplayTypes, MailInv
<1>6. DisplayTypes' /\ MailInv'
  BY <1>1, <1>2, <1>3, <1>4, <1>5 DEF DisplayInv, DisplayTypes, MailInv
<1>7. NoticeInv'
  BY <1>1, <1>3, <1>5 DEF DisplayInv, NoticeInv
<1>8. Slack \in Nat /\ Slack' = Slack
  BY <1>1, <1>5, SlackGrows
<1> HIDE DEF Slack
<1>9. deckHealth' = "offline" => deckAge' >= Timeout
  BY <1>1, <1>2, <1>5 DEF DisplayInv, WrongInv
<1>10. CASE ~panelOffline \/ ~(panelAge' < Timeout)
  <2>1. panelWrong' = 0
    BY <1>2, <1>10
  <2>2. WrongInv(Slack)'
    BY <1>8, <1>9, <2>1 DEF WrongInv
  <2> QED
    BY <1>6, <1>7, <2>2 DEF DisplayInv
<1>11. CASE panelOffline /\ panelAge' < Timeout
  <2>1. panelWrong' \in Nat /\ panelWrong' <= panelWrong + 1
    BY <1>2, <1>4, <1>11
  <2>2. panelAge' = panelAge + 1
    BY <1>2, <1>5, <1>11
  <2>3. /\ panelWrong <= Slack + RefreshPeriod + panelAge
        /\ loop = "select" => panelWrong + refreshIn <= Slack + RefreshPeriod
    <3>1. CASE panelWrong = 0
      BY <1>5, <1>8, <3>1
    <3>2. CASE panelWrong > 0
      BY <1>1, <1>3, <3>2 DEF DisplayInv, WrongInv, PeriodInv
    <3> QED
      BY <1>5, <3>1, <3>2
  <2>4. /\ panelWrong' <= Slack + RefreshPeriod + panelAge'
        /\ panelWrong' < Slack + RefreshPeriod + Timeout
    BY <1>5, <1>8, <1>11, <2>1, <2>2, <2>3
  <2>5. /\ loop' = "select" => panelWrong' <= Slack + RefreshPeriod
        /\ loop' = "select" /\ ~refreshDue' =>
              panelWrong' + refreshIn' <= Slack + RefreshPeriod
    BY <1>3, <1>5, <1>8, <2>1, <2>3
  <2>6. WrongInv(Slack)'
    BY <1>1, <1>8, <1>9, <1>11, <2>4, <2>5 DEF WrongInv, PeriodInv
  <2> QED
    BY <1>6, <1>7, <2>6 DEF DisplayInv
<1> QED
  BY <1>10, <1>11

-----------------------------------------------------------------------------
(* Every state of every behaviour. *)

HealthInv == CollectorInv /\ DisplayInv

\* Every step of collector, displays and clock keeps the invariant.
LEMMA HealthStep == HealthInv /\ [HealthNext]_healthVars => HealthInv'
<1> SUFFICES ASSUME CollectorInv, DisplayInv, [HealthNext]_healthVars
             PROVE  CollectorInv' /\ DisplayInv'
  BY DEF HealthInv
<1>1. CASE PublishSnapshot
  <2>1. PICK S \in SUBSET Names : Collector!FinishRefresh(S)
    BY <1>1 DEF PublishSnapshot
  <2>2. signAge' = 0 /\ Send("snapshot")
    BY <1>1, <2>1 DEF PublishSnapshot, Collector!FinishRefresh
  <2>3. CollectorInv'
    <3>1. Collector!Next
      BY <2>1 DEF Collector!Next
    <3> QED
      BY <3>1, CollectorStep
  <2>4. DisplayInv'
    <3>1. "snapshot" \in Messages
      BY DEF Messages
    <3> QED
      BY <2>2, <3>1, SendStep
  <2> QED
    BY <2>3, <2>4
<1>2. CASE PublishHeartbeat
  <2>1. /\ Collector!PublishHeartbeat /\ Send("heartbeat")
        /\ UNCHANGED <<loop, refreshDue, refreshIn>> /\ loop = "select" /\ signAge' = 0
    BY <1>2 DEF PublishHeartbeat, Collector!PublishHeartbeat
  <2> QED
    BY <2>1, CollectorStep, SendStep DEF Collector!Next, Messages
<1>3. CASE CollectorRuns
  BY <1>3, CollectorStep, CollectorRunsStep DEF CollectorRuns, Collector!Next
<1>4. CASE Second
  BY <1>4, CollectorStep, SecondStep DEF Second, Collector!Next
<1>5. CASE HealthTick \/ \E m \in Messages : LoseForDeck(m) \/ DeckHears(m)
  <2>1. UNCHANGED collectorVars
    BY <1>5 DEF HealthTick, LoseForDeck, DeckHears
  <2> QED
    BY <1>5, <2>1, CollectorStep, DeckStep
<1>6. CASE \/ PanelSnapshot \/ ClearOffline \/ PanelHeartbeat
           \/ \E m \in Messages : LoseForPanel(m)
  <2>1. UNCHANGED collectorVars
    BY <1>6 DEF PanelSnapshot, ClearOffline, PanelHeartbeat, LoseForPanel
  <2> QED
    BY <1>6, <2>1, CollectorStep, PanelMailStep
<1>7. CASE LoadHeartbeat \/ LoadOffline \/ RaiseOffline
  <2>1. UNCHANGED collectorVars
    BY <1>7 DEF LoadHeartbeat, LoadOffline, RaiseOffline
  <2> QED
    BY <1>7, <2>1, CollectorStep, PanelCheckStep
<1>8. CASE UNCHANGED healthVars
  <2>1. UNCHANGED collectorVars
    BY <1>8 DEF healthVars
  <2>2. DisplayInv'
    BY <1>8 DEF healthVars, collectorVars, deckVars, panelVars, mail, DisplayInv,
                DisplayTypes, MailInv, NoticeInv, WrongInv, PeriodInv, Slack
  <2> QED
    BY <2>1, <2>2, CollectorStep
<1> QED
  BY <1>1, <1>2, <1>3, <1>4, <1>5, <1>6, <1>7, <1>8 DEF HealthNext

\* It holds in every state of every behaviour.
LEMMA HealthAlways == HealthSpec => []HealthInv
<1>1. HealthInit => HealthInv
  <2> SUFFICES ASSUME HealthInit PROVE HealthInv
    OBVIOUS
  <2>1. Collector!Init
    BY DEF HealthInit
  <2>2. /\ loop = "fetching" /\ fetchAge = 0 /\ ~ticking /\ refreshIn = RefreshPeriod
        /\ skip = [n \in Names |-> 0] /\ signAge = 0
    BY <2>1 DEF Collector!Init
  <2>3. CollectorInv
    <3>1. \A n \in Names : skip[n] = 0
      BY <2>2
    <3> QED
      BY <2>2, <3>1 DEF CollectorInv, CollectorTypes, LoopInv, LogInv, SignInv
  <2>4. DisplayInv
    <3>1. /\ deckMail = {} /\ panelMail = {} /\ deckAge = Horizon /\ panelAge = 0
          /\ panelWrong = 0 /\ panelCheck = "wait" /\ panelPump = "select"
          /\ panelLost = 0 /\ deckHealth = "connected"
      BY DEF HealthInit
    <3>2. Slack = 0
      BY <3>1, SlackGrows
    <3> QED
      BY <2>2, <3>1, <3>2 DEF DisplayInv, DisplayTypes, MailInv, NoticeInv, WrongInv
  <2> QED
    BY <2>3, <2>4 DEF HealthInv
<1> QED
  BY <1>1, HealthStep, PTL DEF HealthSpec

\* When nothing was published for a timeout and two seconds, the deck's fleet
\* manager has its health at offline and the panel its flag up, whatever was
\* lost and wherever natsPump came between the loads and the store of the check.
THEOREM DeathIsNoticed == HealthSpec => []DeadIsNoticed
<1>1. HealthInv => DeadIsNoticed
  BY DEF HealthInv, CollectorInv, CollectorTypes, DisplayInv, NoticeInv, DeadIsNoticed
<1> QED
  BY <1>1, HealthAlways, PTL

\* The log was last told the health the store shows, for every backoff.
THEOREM LogTellsHealth == HealthSpec => []LogIsExact
<1>1. HealthInv => LogIsExact
  BY DEF HealthInv, CollectorInv, LogInv, LogIsExact, Collector!LogIsExact
<1> QED
  BY <1>1, HealthAlways, PTL

\* A running collector is never silent for more than a fetch and a second.
THEOREM NeverSilentForLong == HealthSpec => []SignsOfLife
<1>1. HealthInv => SignsOfLife
  BY DEF HealthInv, CollectorInv, CollectorTypes, LoopInv, SignInv, SignsOfLife,
         Collector!SignsOfLife
<1> QED
  BY <1>1, HealthAlways, PTL

\* The deck is offline only over an old sign, and the panel's flag contradicts
\* fresh ones for less than a period and a timeout, and as long again for every
\* snapshot lost while it is up.
THEOREM WrongEnds == HealthSpec => []WrongIsShort
<1>1. HealthInv => WrongIsShort
  BY SlackGrows DEF HealthInv, DisplayInv, DisplayTypes, WrongInv, WrongIsShort
<1> QED
  BY <1>1, HealthAlways, PTL
=============================================================================
