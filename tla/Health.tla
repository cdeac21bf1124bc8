------------------------------- MODULE Health -------------------------------
(***************************************************************************)
(* Who notices, and when, that the collector is gone: the collector's      *)
(* event loop (CollectorLoop), the deck's event loop and the panel's two   *)
(* goroutines, with the messages between them.                             *)
(*                                                                         *)
(* Snapshots and heartbeats reach each display within their second or are  *)
(* lost.  A display that is handed several of a kind at once takes the     *)
(* newest (Subscriber).  Ages are counted in the seconds that began since, *)
(* so an age of exactly the limit may be found on either side of it.  The  *)
(* displays handle what has come within the second it came in.             *)
(***************************************************************************)
EXTENDS Naturals

CONSTANTS
    Names, FetchLimit, RefreshPeriod, Horizon,   \* as in CollectorLoop
    Timeout,     \* seconds without a sign of the collector (5)
    MaxLost      \* bound: messages lost

ASSUME PeriodAssumption == RefreshPeriod \in Nat /\ RefreshPeriod >= 1 /\ FetchLimit \in Nat
ASSUME TimeoutAssumption ==
    Timeout \in Nat /\ Horizon \in Nat /\ Timeout < Horizon /\ MaxLost \in Nat

VARIABLES
    loop, fetchAge, ticking, refreshIn, refreshDue, beatDue,
    skip, lastHealth, failed, signAge,
    deckMail,      \* kinds of messages on their way to the deck
    deckAge,       \* seconds since the deck's lastHeartbeat
    deckHealth,    \* the fleet manager's health
    deckTick,      \* the health tick waits in its channel
    panelMail,     \* kinds of messages on their way to the panel
    panelAge,      \* seconds since lastHB
    panelPump,     \* natsPump: "select", or "clear" once lastHB is stored
    panelOffline,  \* the panel's offline flag
    panelCheck,    \* healthCheckPump: "wait", "tick", "stale", or "found"
    panelWrong,    \* history: seconds the flag has been up with a fresh lastHB
    panelLost,     \* history: snapshots lost while the flag is up
    lost           \* counter for the bound

Collector == INSTANCE CollectorLoop

collectorVars == <<loop, fetchAge, ticking, refreshIn, refreshDue, beatDue, skip,
                   lastHealth, failed, signAge>>
deckVars == <<deckAge, deckHealth, deckTick>>
panelVars == <<panelAge, panelPump, panelOffline, panelCheck, panelWrong, panelLost>>
mail == <<deckMail, panelMail>>
healthVars == <<collectorVars, deckVars, panelVars, mail, lost>>

Messages == {"snapshot", "heartbeat"}

\* The fleet manager starts as connected, with no heartbeat ever; the panel
\* starts with a heartbeat of its own making.
HealthInit ==
    /\ Collector!Init
    /\ deckMail = {}
    /\ deckAge = Horizon
    /\ deckHealth = "connected"
    /\ deckTick = FALSE
    /\ panelMail = {}
    /\ panelAge = 0
    /\ panelPump = "select"
    /\ panelOffline = FALSE
    /\ panelCheck = "wait"
    /\ panelWrong = 0
    /\ panelLost = 0
    /\ lost = 0

MayBeStale(age) == age >= Timeout
MustBeStale(age) == age > Timeout

----------------------------------------------------------------------------
(* The collector and the messages. *)

Send(m) ==
    /\ deckMail' = deckMail \cup {m}
    /\ panelMail' = panelMail \cup {m}
    /\ UNCHANGED <<deckVars, panelVars, lost>>

PublishSnapshot ==
    /\ \E S \in SUBSET Names : Collector!FinishRefresh(S)
    /\ Send("snapshot")

NotPublished ==                                          \* mutant
    Collector!SilentBeat /\ UNCHANGED <<deckVars, panelVars, mail, lost>>
PublishHeartbeat == Collector!PublishHeartbeat /\ Send("heartbeat")

CollectorRuns ==
    /\ Collector!StartRefresh \/ Collector!Stop \/ Collector!Restart
    /\ UNCHANGED <<deckVars, panelVars, mail, lost>>

LoseForDeck(m) ==
    /\ m \in deckMail
    /\ lost < MaxLost
    /\ deckMail' = deckMail \ {m}
    /\ lost' = lost + 1
    /\ UNCHANGED <<collectorVars, deckVars, panelVars, panelMail>>

LoseForPanel(m) ==
    /\ m \in panelMail
    /\ lost < MaxLost
    /\ panelMail' = panelMail \ {m}
    /\ panelLost' = IF m = "snapshot" /\ panelOffline THEN panelLost + 1 ELSE panelLost
    /\ lost' = lost + 1
    /\ UNCHANGED <<collectorVars, deckVars, panelAge, panelPump, panelOffline,
                   panelCheck, panelWrong, deckMail>>

----------------------------------------------------------------------------
(* The deck: snapshots and heartbeats alike set the health. *)

DeckHears(m) ==
    /\ m \in deckMail
    /\ deckMail' = deckMail \ {m}
    /\ deckAge' = 0
    /\ deckHealth' = "connected"
    /\ UNCHANGED <<collectorVars, deckTick, panelVars, panelMail, lost>>

\* What the event loop does with a health that the check changed, it marks
\* the keys to be drawn (DeckLoop), it does for offline only: a message sets
\* the health back before any check sees it.
HealthTick ==
    /\ deckTick
    /\ deckTick' = FALSE
    /\ \E stale \in BOOLEAN :
          /\ stale => MayBeStale(deckAge)
          /\ MustBeStale(deckAge) => stale
          /\ deckHealth' = IF stale THEN "offline" ELSE deckHealth
    /\ UNCHANGED <<collectorVars, deckAge, panelVars, mail, lost>>

----------------------------------------------------------------------------
(* The panel: only a snapshot takes the flag down. *)

\* natsPump stores the time of the snapshot ...
PanelSnapshot ==
    /\ panelPump = "select"
    /\ "snapshot" \in panelMail
    /\ panelMail' = panelMail \ {"snapshot"}
    /\ panelAge' = 0
    /\ panelPump' = "clear"
    /\ UNCHANGED <<collectorVars, deckVars, panelOffline, panelCheck, panelWrong,
                   panelLost, deckMail, lost>>

KeepsOffline ==                                          \* mutant
    /\ panelPump = "clear"
    /\ panelPump' = "select"
    /\ UNCHANGED <<collectorVars, deckVars, panelAge, panelOffline, panelCheck,
                   panelWrong, panelLost, mail, lost>>
\* ... and then the flag.
ClearOffline ==
    /\ panelPump = "clear"
    /\ panelPump' = "select"
    /\ panelOffline' = FALSE
    /\ panelWrong' = 0
    /\ panelLost' = 0
    /\ UNCHANGED <<collectorVars, deckVars, panelAge, panelCheck, mail, lost>>

PanelHeartbeat ==
    /\ panelPump = "select"
    /\ "heartbeat" \in panelMail
    /\ panelMail' = panelMail \ {"heartbeat"}
    /\ panelAge' = 0
    /\ UNCHANGED <<collectorVars, deckVars, panelPump, panelOffline, panelCheck,
                   panelWrong, panelLost, deckMail, lost>>

\* healthCheckPump loads lastHB ...
LoadHeartbeat ==
    /\ panelCheck = "tick"
    /\ \E stale \in BOOLEAN :
          /\ stale => MayBeStale(panelAge)
          /\ MustBeStale(panelAge) => stale
          /\ panelCheck' = IF stale THEN "stale" ELSE "wait"
    /\ UNCHANGED <<collectorVars, deckVars, panelAge, panelPump, panelOffline,
                   panelWrong, panelLost, mail, lost>>

\* ... loads the flag ...
LoadOffline ==
    /\ panelCheck = "stale"
    /\ panelCheck' = IF panelOffline THEN "wait" ELSE "found"
    /\ UNCHANGED <<collectorVars, deckVars, panelAge, panelPump, panelOffline,
                   panelWrong, panelLost, mail, lost>>

NeverOffline ==                                          \* mutant
    /\ panelCheck = "found"
    /\ panelCheck' = "wait"
    /\ UNCHANGED <<collectorVars, deckVars, panelAge, panelPump, panelOffline,
                   panelWrong, panelLost, mail, lost>>
\* ... and raises it, whatever natsPump did since either load.
RaiseOffline ==
    /\ panelCheck = "found"
    /\ panelCheck' = "wait"
    /\ panelOffline' = TRUE
    /\ UNCHANGED <<collectorVars, deckVars, panelAge, panelPump, panelWrong,
                   panelLost, mail, lost>>

----------------------------------------------------------------------------

Handled ==
    /\ deckMail = {} /\ panelMail = {}
    /\ ~deckTick /\ panelPump = "select" /\ panelCheck = "wait"

NextAge(n) == IF n < Horizon THEN n + 1 ELSE n

\* How long the flag may be wrong, and a bound of the count of it.
WrongLimit(losses) == (losses + 1) * (RefreshPeriod + Timeout)
NextWrong(n) == IF n < WrongLimit(MaxLost) THEN n + 1 ELSE n

Second ==
    /\ Handled
    /\ Collector!Second
    /\ deckAge' = NextAge(deckAge)
    /\ deckTick' = TRUE
    /\ panelAge' = NextAge(panelAge)
    /\ panelCheck' = "tick"
    /\ panelWrong' = IF panelOffline /\ panelAge' < Timeout
                     THEN NextWrong(panelWrong) ELSE 0
    /\ UNCHANGED <<deckHealth, panelPump, panelOffline, panelLost, mail, lost>>

HealthNext ==
    \/ PublishSnapshot \/ PublishHeartbeat \/ CollectorRuns
    \/ \E m \in Messages : LoseForDeck(m) \/ LoseForPanel(m) \/ DeckHears(m)
    \/ HealthTick
    \/ PanelSnapshot \/ ClearOffline \/ PanelHeartbeat
    \/ LoadHeartbeat \/ LoadOffline \/ RaiseOffline
    \/ Second

HealthSpec == HealthInit /\ [][HealthNext]_healthVars

----------------------------------------------------------------------------
(* Properties. *)

\* When nothing has been published for seven seconds, the deck's fleet manager
\* has its health at offline and the panel has its offline flag up, whatever
\* was lost before and wherever natsPump came between the three steps of
\* healthCheckPump.  That the deck then draws nothing is DeckLoop's matter.
DeadIsNoticed ==
    signAge >= Timeout + 2 => deckHealth = "offline" /\ panelOffline

\* The health the log was last told is the one the fleet store shows, though
\* the log hears nothing of the ticks that are skipped.
LogIsExact == Collector!LogIsExact

\* A running collector is never silent for more than a fetch and a second,
\* though a fetch holds up the heartbeats.
SignsOfLife == Collector!SignsOfLife

\* A display that hears of the collector does not have it as gone, or not for
\* long.  The deck has it as gone only when its last sign is a timeout old: its
\* one loop hears and checks, and whatever it hears takes the health back.  The
\* panel's flag may be raised over a snapshot that has just come, and then
\* contradicts the signs that keep coming: for less than a refresh period and a
\* timeout, since within the period the next refresh begins, which takes the
\* flag down or, when it takes the timeout, leaves no fresh sign; and as long
\* again for every snapshot that is lost while the flag is up.
WrongIsShort ==
    /\ deckHealth = "offline" => deckAge >= Timeout
    /\ panelWrong < WrongLimit(panelLost)
=============================================================================
