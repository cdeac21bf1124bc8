---------------------------- MODULE Subscriber ----------------------------
(***************************************************************************)
(* The NATS subscriber of the deck and of the panel (both have the same    *)
(* code): the two subscription callbacks, the two buffered Go channels     *)
(* they feed, and the consumer loop that reads them.                       *)
(*                                                                         *)
(* A snapshot is its publication index.  NATS core delivers the messages   *)
(* of a subject in order and at most once, so what reaches the callback is *)
(* some increasing sequence of indices: a lost message is one skipped, a   *)
(* delayed one arrives while later ones are already published.             *)
(***************************************************************************)
EXTENDS Naturals, Sequences

CONSTANTS
    Cap,         \* capacity of snapshotCh and of heartbeatCh (4 in the code)
    MaxPublish   \* bound: snapshots published in a behaviour

ASSUME CapAssumption == Cap \in Nat /\ Cap >= 1
ASSUME MaxPublishAssumption == MaxPublish \in Nat

VARIABLES
    published,    \* index of the last snapshot published by the collector
    delivered,    \* index of the last message handed to the callback
    cb,           \* program counter of the snapshot callback
    msg,          \* the snapshot the callback has decoded
    snapshotCh,   \* the buffered channel of snapshots
    decoded,      \* the last snapshot that was decoded without error
    current,      \* the snapshot the consumer loop holds
    heartbeatCh,  \* number of heartbeats buffered in heartbeatCh
    unheard       \* a heartbeat came in since the consumer last read one

snapVars == <<published, delivered, cb, msg, snapshotCh, decoded, current>>
beatVars == <<heartbeatCh, unheard>>
vars == <<snapVars, beatVars>>

TypeOK ==
    /\ published \in 0..MaxPublish
    /\ delivered \in 0..MaxPublish
    /\ cb \in {"idle", "draining", "pushing"}
    /\ msg \in 0..MaxPublish
    /\ snapshotCh \in Seq(1..MaxPublish)
    /\ decoded \in 0..MaxPublish
    /\ current \in 0..MaxPublish
    /\ heartbeatCh \in 0..Cap
    /\ unheard \in BOOLEAN

Init ==
    /\ published = 0
    /\ delivered = 0
    /\ cb = "idle"
    /\ msg = 0
    /\ snapshotCh = <<>>
    /\ decoded = 0
    /\ current = 0
    /\ heartbeatCh = 0
    /\ unheard = FALSE

\* The collector publishes its next snapshot.
Publish ==
    /\ published < MaxPublish
    /\ published' = published + 1
    /\ UNCHANGED <<delivered, cb, msg, snapshotCh, decoded, current, beatVars>>

\* Delivery keeps the publication order; what is skipped was lost.
EachInItsGoroutine == 1..published                       \* mutant
Deliverable == (delivered + 1)..published

\* NATS hands the callback a message and the payload decodes: the callback
\* enters its drain loop.
Deliver ==
    /\ cb = "idle"
    /\ \E v \in Deliverable : delivered' = v /\ msg' = v /\ decoded' = v
    /\ cb' = "draining"
    /\ UNCHANGED <<published, snapshotCh, current, beatVars>>

\* The payload does not decode: the callback returns.
DeliverMalformed ==
    /\ cb = "idle"
    /\ \E v \in Deliverable : delivered' = v
    /\ UNCHANGED <<published, cb, msg, snapshotCh, decoded, current, beatVars>>

\* One turn of the drain loop: discard a buffered snapshot ...
Drain ==
    /\ cb = "draining"
    /\ snapshotCh # <<>>
    /\ snapshotCh' = Tail(snapshotCh)
    /\ UNCHANGED <<published, delivered, cb, msg, decoded, current, beatVars>>

\* ... until the select finds the channel empty.
NoDrain == TRUE                                          \* mutant
NothingBuffered == snapshotCh = <<>>

EndDrain ==
    /\ cb = "draining"
    /\ NothingBuffered
    /\ cb' = "pushing"
    /\ UNCHANGED <<published, delivered, msg, snapshotCh, decoded, current, beatVars>>

NotSent == snapshotCh                                    \* mutant
Sent == Append(snapshotCh, msg)

\* The send of the decoded snapshot blocks while the channel is full.
Push ==
    /\ cb = "pushing"
    /\ Len(snapshotCh) < Cap
    /\ snapshotCh' = Sent
    /\ cb' = "idle"
    /\ UNCHANGED <<published, delivered, msg, decoded, current, beatVars>>

\* The consumer loop takes the oldest buffered snapshot.
Receive ==
    /\ snapshotCh # <<>>
    /\ current' = Head(snapshotCh)
    /\ snapshotCh' = Tail(snapshotCh)
    /\ UNCHANGED <<published, delivered, cb, msg, decoded, beatVars>>

ReceiverWaiting == FALSE                                 \* mutant
RoomForBeat == heartbeatCh < Cap

\* The heartbeat callback: its send drops the beat when the buffer is full.
HeartbeatCallback ==
    /\ unheard' = TRUE
    /\ heartbeatCh' = IF RoomForBeat THEN heartbeatCh + 1 ELSE heartbeatCh
    /\ UNCHANGED snapVars

\* The consumer loop takes a heartbeat.
ReceiveHeartbeat ==
    /\ heartbeatCh > 0
    /\ heartbeatCh' = heartbeatCh - 1
    /\ unheard' = FALSE
    /\ UNCHANGED snapVars

Next ==
    \/ Publish
    \/ Deliver
    \/ DeliverMalformed
    \/ Drain
    \/ EndDrain
    \/ Push
    \/ Receive
    \/ HeartbeatCallback
    \/ ReceiveHeartbeat

Spec == Init /\ [][Next]_vars

\* The callback goroutine and the consumer's select loop keep running; the
\* network and the collector owe nothing.
Fairness ==
    /\ WF_vars(Drain \/ EndDrain \/ Push)
    /\ WF_vars(Receive)
    /\ WF_vars(ReceiveHeartbeat)

FairSpec == Spec /\ Fairness

----------------------------------------------------------------------------
(* Properties *)

\* The push of the newest snapshot never blocks the NATS callback: when the
\* callback reaches its send, the drain loop has left the channel empty and
\* only the consumer has touched it since.
PushNeverBlocks == cb = "pushing" => snapshotCh = <<>>

\* Between two callbacks the last decoded snapshot is the one the consumer
\* holds or the only one it can receive next: nothing stale is in front of
\* it, and it cannot be lost.
NewestIsNext ==
    cb = "idle" => \/ snapshotCh = <<>> /\ current = decoded
                   \/ snapshotCh = <<decoded>> /\ current < decoded

\* A heartbeat that was dropped because the buffer was full is not missed:
\* as long as the consumer has not read one since, one is buffered.
DroppedBeatIsHeard == unheard => heartbeatCh > 0

\* The consumer gets to every decoded snapshot or to a newer one.
EveryDecodedIsSuperseded ==
    \A v \in 1..MaxPublish : (decoded = v) ~> (current >= v)

\* The consumer sees a register that only moves forward: no snapshot twice,
\* none after a newer one.
Register == INSTANCE LatestValue WITH value <- current
RegisterSpec == Register!Spec
=============================================================================
