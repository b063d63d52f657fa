--------------------------- MODULE DeliveryPromise ---------------------------
(***************************************************************************)
(* What the final-delivery outbox promises, seen from the thread that      *)
(* waits for an answer: an answer that is ready is offered to the bots     *)
(* until it is settled one way or the other; it is called delivered only   *)
(* when a message with it was posted; and what is settled stays settled.   *)
(* A bot that lost its lease may post again at any time.                   *)
(*                                                                         *)
(* The promise is about an answer that is published once.  When it is      *)
(* published anew, settled or not, it is offered again, and a message with *)
(* what it was before may pass for it.                                     *)
(***************************************************************************)
CONSTANT Deliveries

VARIABLES phase, posted, renewed

vars == <<phase, posted, renewed>>

Init ==
    /\ phase   = [d \in Deliveries |-> "awaiting"]
    /\ posted  = [d \in Deliveries |-> FALSE]
    /\ renewed = {}

Offer(d) ==
    /\ phase[d] = "awaiting"
    /\ phase' = [phase EXCEPT ![d] = "offered"]
    /\ UNCHANGED <<posted, renewed>>

Renew(d) ==
    /\ phase[d] # "awaiting"
    /\ phase'   = [phase EXCEPT ![d] = "offered"]
    /\ posted'  = [posted EXCEPT ![d] = FALSE]
    /\ renewed' = renewed \cup {d}

Post(d) ==
    /\ phase[d] # "awaiting"
    /\ posted' = [posted EXCEPT ![d] = TRUE]
    /\ UNCHANGED <<phase, renewed>>

Settle(d) ==
    /\ phase[d] = "offered"
    /\ posted[d] \/ d \in renewed
    /\ phase' = [phase EXCEPT ![d] = "delivered"]
    /\ UNCHANGED <<posted, renewed>>

GiveUp(d) ==
    /\ phase[d] = "offered"
    /\ phase' = [phase EXCEPT ![d] = "dead_letter"]
    /\ UNCHANGED <<posted, renewed>>

Next == \E d \in Deliveries : Offer(d) \/ Renew(d) \/ Post(d) \/ Settle(d) \/ GiveUp(d)

Spec == Init /\ [][Next]_vars
=============================================================================
