--------------------------- MODULE CollectorLoop ---------------------------
(***************************************************************************)
(* The collector's event loop: two tickers, one loop.  A refresh fetches   *)
(* from every connection, which takes up to five seconds and holds up the  *)
(* heartbeats, keeps the backoff of the connections that failed, and       *)
(* publishes a snapshot; a heartbeat publishes a heartbeat.                *)
(*                                                                         *)
(* Time is in seconds and passes with Second, which waits for a loop that  *)
(* has something to do: the loop itself takes no time.  A ticker holds one *)
(* tick at most.  What a refresh does to the fleet store and to the        *)
(* snapshot it publishes is the subject of Bridge and FleetStore.          *)
(***************************************************************************)
EXTENDS Naturals

CONSTANTS
    Names,          \* connection names
    FetchLimit,     \* seconds a FetchAll takes at most (5)
    RefreshPeriod,  \* seconds between two refresh ticks (2)
    Horizon         \* bound: ages are counted up to it

VARIABLES
    loop,        \* "down", "select" or "fetching"
    fetchAge,    \* seconds the FetchAll has taken so far
    ticking,     \* whether the tickers run: after the initial refresh
    refreshIn,   \* seconds to the next refresh tick
    refreshDue,  \* a refresh tick waits in its channel
    beatDue,     \* a heartbeat tick waits in its channel
    skip,        \* skipRemaining
    lastHealth,  \* the health last logged of each name, "" for none
    failed,      \* history: names whose last result was a failure
    signAge      \* history: seconds since anything was published

tickVars == <<loop, fetchAge, ticking, refreshIn, refreshDue, beatDue>>
backoffVars == <<skip, lastHealth, failed>>
vars == <<tickVars, backoffVars, signAge>>

Capped(n) == IF n < Horizon THEN n ELSE Horizon

\* The process starts with a refresh, before there are tickers.
Starting ==
    /\ loop' = "fetching"
    /\ fetchAge' = 0
    /\ ticking' = FALSE
    /\ refreshIn' = RefreshPeriod
    /\ refreshDue' = FALSE
    /\ beatDue' = FALSE
    /\ skip' = [n \in Names |-> 0]
    /\ lastHealth' = [n \in Names |-> ""]
    /\ failed' = {}

Init ==
    /\ loop = "fetching"
    /\ fetchAge = 0
    /\ ticking = FALSE
    /\ refreshIn = RefreshPeriod
    /\ refreshDue = FALSE
    /\ beatDue = FALSE
    /\ skip = [n \in Names |-> 0]
    /\ lastHealth = [n \in Names |-> ""]
    /\ failed = {}
    /\ signAge = 0

----------------------------------------------------------------------------
(* The event loop. *)

\* select takes the refresh tick; FetchAll asks every connection, whatever
\* its backoff.
StartRefresh ==
    /\ loop = "select"
    /\ refreshDue
    /\ refreshDue' = FALSE
    /\ loop' = "fetching"
    /\ fetchAge' = 0
    /\ UNCHANGED <<ticking, refreshIn, beatDue, backoffVars, signAge>>

\* A failure in a tick that is to be skipped only counts the tick.
Skipped(n) == skip[n] > 0

Backoff(k) == IF k + 2 > 60 THEN 60 ELSE k + 2

LoggedFirst(S) ==                                        \* mutant
    lastHealth' = [n \in Names |->
                      IF n \in S THEN "online"
                      ELSE IF lastHealth[n] = "" THEN "offline" ELSE lastHealth[n]]
Logged(S) ==
    lastHealth' = [n \in Names |->
                      IF n \in S THEN "online"
                      ELSE IF Skipped(n) THEN lastHealth[n] ELSE "offline"]

BackedOff(S) ==
    skip' = [n \in Names |-> IF n \in S THEN 0
                             ELSE IF Skipped(n) THEN skip[n] - 1
                             ELSE Backoff(skip[n])]

\* FetchAll returns, with a result for every name, those of S successful;
\* the snapshot is published, changed or not, and the first time the tickers
\* are made.
FinishRefresh(S) ==
    /\ loop = "fetching"
    /\ loop' = "select"
    /\ ticking' = TRUE
    /\ BackedOff(S)
    /\ Logged(S)
    /\ failed' = Names \ S
    /\ fetchAge' = 0
    /\ signAge' = 0
    /\ UNCHANGED <<refreshIn, refreshDue, beatDue>>

SilentBeat ==                                            \* mutant
    /\ loop = "select"
    /\ beatDue
    /\ beatDue' = FALSE
    /\ UNCHANGED <<loop, fetchAge, ticking, refreshIn, refreshDue,
                   backoffVars, signAge>>

\* select takes the heartbeat tick.
PublishHeartbeat ==
    /\ loop = "select"
    /\ beatDue
    /\ beatDue' = FALSE
    /\ signAge' = 0
    /\ UNCHANGED <<loop, fetchAge, ticking, refreshIn, refreshDue,
                   backoffVars>>

----------------------------------------------------------------------------
(* Time, and the process. *)

Prompt == loop = "select" => ~refreshDue /\ ~beatDue

\* A tick is dropped when its channel still holds one.
Second ==
    /\ Prompt
    /\ loop = "fetching" => fetchAge < FetchLimit
    /\ fetchAge' = IF loop = "fetching" THEN fetchAge + 1 ELSE fetchAge
    /\ IF ticking
       THEN /\ beatDue' = TRUE
            /\ refreshDue' = (refreshDue \/ refreshIn = 1)
            /\ refreshIn' = IF refreshIn = 1 THEN RefreshPeriod ELSE refreshIn - 1
       ELSE UNCHANGED <<beatDue, refreshDue, refreshIn>>
    /\ signAge' = Capped(signAge + 1)
    /\ UNCHANGED <<loop, ticking, backoffVars>>

\* The process ends, by a signal or otherwise.
Stop ==
    /\ loop # "down"
    /\ loop' = "down"
    /\ ticking' = FALSE
    /\ refreshDue' = FALSE
    /\ beatDue' = FALSE
    /\ fetchAge' = 0
    /\ UNCHANGED <<refreshIn, backoffVars, signAge>>

Restart ==
    /\ loop = "down"
    /\ Starting
    /\ UNCHANGED signAge

Next ==
    \/ StartRefresh
    \/ \E S \in SUBSET Names : FinishRefresh(S)
    \/ PublishHeartbeat
    \/ Second
    \/ Stop \/ Restart

Spec == Init /\ [][Next]_vars

----------------------------------------------------------------------------
(* Properties. *)

\* The health the log was last told is the one the fleet store shows, though
\* the log hears nothing of the ticks that are skipped: a machine's change
\* of health is logged, once.
LogIsExact ==
    loop # "down" /\ ticking => \A n \in Names :
        lastHealth[n] = IF n \in failed THEN "offline" ELSE "online"

\* A running collector is never silent for more than a fetch and a second:
\* the snapshots stand in for the heartbeats they hold up.
SignsOfLife == loop # "down" /\ ticking => signAge <= FetchLimit + 1
=============================================================================
