------------------------------- MODULE Bridge -------------------------------
(***************************************************************************)
(* The collector's bridge: FetchAll starts a goroutine per connection,     *)
(* collects their results from a channel until it has one of each or five  *)
(* seconds are over, and returns.  Goroutines that are still waiting for   *)
(* their herdr then go on into the following rounds.                       *)
(*                                                                         *)
(* Every round has a channel and a context of its own.  A fetch makes its  *)
(* calls one after the other and looks at the context before each; a call  *)
(* that has begun ends in an answer or an error (the client dials for five *)
(* seconds at most and reads for ten), whenever that is.  What the calls   *)
(* return is the subject of HerdrFetch.                                    *)
(***************************************************************************)
EXTENDS Naturals, Sequences, Functions, Positions

CONSTANTS
    Conns,       \* connections
    Configs,     \* ways to name the connections; names may be shared
    Listed,      \* b.connections: the connections in their order
    Calls,       \* calls of a fetch (3: workspaces, agents, tabs)
    MaxRounds    \* bound: rounds in a behaviour

ASSUME ListedAssumption ==
    /\ Listed \in Seq(Conns) /\ Range(Listed) = Conns
    /\ \A i, j \in DOMAIN Listed : Listed[i] = Listed[j] => i = j
ASSUME NumbersAssumption == Calls \in Nat /\ Calls >= 1 /\ MaxRounds \in Nat

Rounds == 1 .. MaxRounds
Fetches == Rounds \X Conns

VARIABLES
    nameOf,     \* the name of each connection in the configuration
    round,      \* number of the round FetchAll is in or was in last
    main,       \* "idle" or "collecting"
    results,    \* the results FetchAll has, of the round
    expired,    \* rounds whose context is done
    chan,       \* the buffered channel of each round
    fetch,      \* the goroutine of each round and connection
    late        \* history: calls a goroutine began after its context was done

vars == <<nameOf, round, main, results, expired, chan, fetch, late>>

Result(c, ok) == [conn |-> c, ok |-> ok]

\* A goroutine is about to look at the context before its k-th call, waits
\* for the answer to it, has its result to send, or is through.
NotStarted == [at |-> "none", call |-> 0, ok |-> FALSE]
BeforeCall(k) == [at |-> "check", call |-> k, ok |-> FALSE]
Finished(ok) == [at |-> "send", call |-> 0, ok |-> ok]

Init ==
    /\ nameOf \in Configs
    /\ round = 0
    /\ main = "idle"
    /\ results = <<>>
    /\ expired = {}
    /\ chan = [r \in Rounds |-> <<>>]
    /\ fetch = [f \in Fetches |-> NotStarted]
    /\ late = [f \in Fetches |-> 0]

----------------------------------------------------------------------------
(* FetchAll. *)

FetchAll ==
    /\ main = "idle"
    /\ round < MaxRounds
    /\ round' = round + 1
    /\ main' = IF Listed = <<>> THEN "idle" ELSE "collecting"
    /\ results' = <<>>
    /\ fetch' = [f \in Fetches |->
                    IF f[1] = round + 1 THEN BeforeCall(1) ELSE fetch[f]]
    /\ UNCHANGED <<expired, chan, late>>

\* A result comes in; with the last one FetchAll returns, which cancels the
\* context.
Collect ==
    /\ main = "collecting"
    /\ chan[round] # <<>>
    /\ results' = Append(results, Head(chan[round]))
    /\ chan' = [chan EXCEPT ![round] = Tail(@)]
    /\ IF Len(results') = Len(Listed)
       THEN main' = "idle" /\ expired' = expired \cup {round}
       ELSE UNCHANGED <<main, expired>>
    /\ UNCHANGED <<round, fetch, late>>

\* Five seconds after the start.
Deadline ==
    /\ main = "collecting"
    /\ round \notin expired
    /\ expired' = expired \cup {round}
    /\ UNCHANGED <<round, main, results, chan, fetch, late>>

Failures == [i \in DOMAIN Listed |-> Result(Listed[i], FALSE)]

EveryoneMissing(res) == Failures                         \* mutant

\* The connections without a result, by name, as containsResult finds them
\* while the failures are appended one by one.
Missing(res) ==
    LET names == {nameOf[res[i].conn] : i \in DOMAIN res}
        lacks(i) == /\ nameOf[Listed[i]] \notin names
                    /\ \A j \in 1 .. i - 1 : nameOf[Listed[j]] # nameOf[Listed[i]]
    IN  Picked(Failures, {i \in DOMAIN Listed : lacks(i)})

\* Mutant: the select has no case for the end of the context.
NoTimeOut == main = "waiting for ever" /\ UNCHANGED vars

\* The select takes the end of the context, also when a result is there.
TimeOut ==
    /\ main = "collecting"
    /\ round \in expired
    /\ results' = results \o Missing(results)
    /\ main' = "idle"
    /\ UNCHANGED <<round, expired, chan, fetch, late>>

----------------------------------------------------------------------------
(* fetchConn in its goroutine. *)

Unchecked(f) ==                                          \* mutant
    /\ fetch[f].at = "check"
    /\ fetch' = [fetch EXCEPT ![f].at = "call"]
    /\ late' = [late EXCEPT ![f] = @ + IF f[1] \in expired THEN 1 ELSE 0]
    /\ UNCHANGED <<round, main, results, expired, chan>>

\* Between the look at the context and the call the deadline may pass: the
\* call is begun all the same.
Check(f) ==
    /\ fetch[f].at = "check"
    /\ fetch' = [fetch EXCEPT ![f] = IF f[1] \in expired THEN Finished(FALSE)
                                     ELSE [@ EXCEPT !.at = "begin"]]
    /\ UNCHANGED <<round, main, results, expired, chan, late>>

Begin(f) ==
    /\ fetch[f].at = "begin"
    /\ fetch' = [fetch EXCEPT ![f].at = "call"]
    /\ late' = [late EXCEPT ![f] = @ + IF f[1] \in expired THEN 1 ELSE 0]
    /\ UNCHANGED <<round, main, results, expired, chan>>

Answer(f, ok) ==
    /\ fetch[f].at = "call"
    /\ fetch' = [fetch EXCEPT ![f] =
                    IF ok /\ @.call < Calls THEN BeforeCall(@.call + 1)
                    ELSE Finished(ok)]
    /\ UNCHANGED <<round, main, results, expired, chan, late>>

OneSlot == 1                                             \* mutant
Capacity == Len(Listed)

Send(f) ==
    /\ fetch[f].at = "send"
    /\ Len(chan[f[1]]) < Capacity
    /\ chan' = [chan EXCEPT ![f[1]] = Append(@, Result(f[2], fetch[f].ok))]
    /\ fetch' = [fetch EXCEPT ![f] = [@ EXCEPT !.at = "ended"]]
    /\ UNCHANGED <<round, main, results, expired, late>>

Goroutine(f) ==
    Check(f) \/ Begin(f) \/ Answer(f, TRUE) \/ Answer(f, FALSE) \/ Send(f)

\* The configuration is read once.
Next ==
    /\ \/ FetchAll \/ Collect \/ Deadline \/ TimeOut
       \/ \E f \in Fetches : Goroutine(f)
    /\ UNCHANGED nameOf

Spec == Init /\ [][Next]_vars

\* The collecting goroutine runs and the timer of the context fires.  Nothing
\* is said of the other goroutines, of the calls, nor that FetchAll is called.
FairSpec ==
    /\ Spec
    /\ WF_vars((Collect \/ TimeOut) /\ UNCHANGED nameOf)
    /\ WF_vars(Deadline /\ UNCHANGED nameOf)

----------------------------------------------------------------------------
(* Properties. *)

\* A herdr that stopped answering is asked at most once more by a fetch
\* whose time is over.
OneLateCall == \A f \in Fetches : late[f] <= 1

\* FetchAll returns, whoever does not answer: the collector's only loop waits
\* for it.
FetchAllReturns == main = "collecting" ~> main = "idle"

\* No goroutine is left behind for good: its channel takes its result, also
\* when nobody reads it any more.
SendNeverBlocks ==
    \A f \in Fetches : fetch[f].at = "send" => Len(chan[f[1]]) < Capacity

\* "Returns one FetchResult per connection", also when it times out with
\* results of this or of earlier rounds still on their way: the rounds are of
\* the kind the fleet store is given, whether or not the names are distinct.
Rds == INSTANCE FetchRounds
        WITH names <- nameOf,
             collecting <- (main = "collecting"),
             results <- IF main = "idle" THEN results ELSE <<>>
RoundsSpec == Rds!Spec
=============================================================================
