--------------------------- MODULE MC_HerdrFetch ---------------------------
(* Two workspaces, one without a label, and two agents. *)
EXTENDS HerdrFetch, TLC

MCLabelOf == ("w1" :> "api") @@ ("w2" :> None)
=============================================================================
