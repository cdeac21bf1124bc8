---------------------------- MODULE LatestValue ----------------------------
(***************************************************************************)
(* What the snapshot subscription promises to the loop that reads it: a    *)
(* register that only moves forward.  The producer publishes snapshots     *)
(* 1, 2, 3, ...; the reader holds one of them (0 before the first) and     *)
(* each time it looks it may skip any number of snapshots, but it never    *)
(* sees the same one twice, an older one, or one nobody published.         *)
(***************************************************************************)
EXTENDS Naturals

VARIABLES
    published,  \* index of the last snapshot published
    value       \* index of the snapshot the reader holds

vars == <<published, value>>

Init == published = 0 /\ value = 0

Publish == published' = published + 1 /\ UNCHANGED value

Observe == \E v \in (value + 1)..published : value' = v /\ UNCHANGED published

Next == Publish \/ Observe

Spec == Init /\ [][Next]_vars
=============================================================================
