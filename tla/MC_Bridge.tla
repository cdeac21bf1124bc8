----------------------------- MODULE MC_Bridge -----------------------------
(* Two connections over two rounds, with two names or with one. *)
EXTENDS Bridge, TLC

CONSTANTS c1, c2

MCConns == {c1, c2}
MCListed == <<c1, c2>>
MCConfigs == {(c1 :> "near") @@ (c2 :> "far"), (c1 :> "far") @@ (c2 :> "far")}
=============================================================================
