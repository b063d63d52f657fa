-------------------------- MODULE MCFinalDelivery --------------------------
(* Instance values for model checking FinalDelivery. *)
EXTENDS FinalDelivery, TLC

CONSTANTS k1, k2, k3, bot1, bot2, d1, d2

\* Two overlapping ticks of one bot and one of its replica.
OverlapAndReplica == (k1 :> bot1 @@ k2 :> bot1 @@ k3 :> bot2)

\* The first answer may be published twice.
FirstRenewed == (d1 :> 1 @@ d2 :> 0)
=============================================================================
