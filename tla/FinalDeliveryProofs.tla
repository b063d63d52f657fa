------------------------- MODULE FinalDeliveryProofs -------------------------
(***************************************************************************)
(* Proofs about FinalDelivery for every number of answers, ticks and bots: *)
(* the types, the owner invariant, and that the handlers and the poller    *)
(* implement DeliveryPromise.                                              *)
(***************************************************************************)
EXTENDS FinalDelivery, TLAPS

\* What a tick's place says of the rows it works on: it reports only what it
\* posted or what was published anew, and holds only answers that were
\* published.
TickKnows ==
    \A k \in Ticks :
        /\ pc[k] \in {"report", "complain"} => current[k] \in batch[k]
        /\ pc[k] = "report" => posted[current[k]] \/ renewals[current[k]] > 0
        /\ \A d \in batch[k] : state[d] # "awaiting"
        /\ \A d \in outdated[k] : renewals[d] > 0

\* Nothing is posted before it is published.
NotPostedYet == \A d \in Deliveries : state[d] = "awaiting" => ~posted[d]

IInv == TypeOK /\ OwnedWhileSending /\ TickKnows /\ NotPostedYet

-----------------------------------------------------------------------------
LEMMA InitIInv == Init => IInv
  BY DeliveryAssumption
  DEF Init, IInv, TypeOK, OwnedWhileSending, TickKnows, NotPostedYet, States

\* What the two settling handlers may do to a row.
RowsSound ==
    /\ state'    \in [Deliveries -> States]
    /\ owner'    \in [Deliveries -> Consumers \cup {None}]
    /\ leased'   \in [Deliveries -> BOOLEAN]
    /\ due'      \in [Deliveries -> BOOLEAN]
    /\ attempts' \in [Deliveries -> 0 .. MaxAttempts]
    /\ OwnedWhileSending'
    /\ \A x \in Deliveries : state'[x] = "awaiting" <=> state[x] = "awaiting"

LEMMA SameRowsSound ==
  ASSUME IInv, UNCHANGED rowVars
  PROVE  RowsSound
  BY DEF IInv, TypeOK, OwnedWhileSending, RowsSound, rowVars

LEMMA MarkDeliveredSound ==
  ASSUME IInv, NEW d \in Deliveries, NEW c \in Consumers, MarkDelivered(d, c)
  PROVE  RowsSound
  <1>1. CASE state[d] # "delivered" /\ owner[d] = c
    <2>1. state[d] = "sending"
      BY <1>1, DeliveryAssumption DEF IInv, OwnedWhileSending
    <2>2. /\ state'  = [state EXCEPT ![d] = "delivered"]
          /\ owner'  = [owner EXCEPT ![d] = None]
          /\ leased' = [leased EXCEPT ![d] = FALSE]
          /\ UNCHANGED <<due, attempts>>
      BY <1>1 DEF MarkDelivered
    <2>. QED  BY <2>1, <2>2 DEF IInv, TypeOK, States, OwnedWhileSending, RowsSound
  <1>2. CASE ~(state[d] # "delivered" /\ owner[d] = c)
    BY <1>2, SameRowsSound DEF MarkDelivered
  <1>. QED  BY <1>1, <1>2

LEMMA MarkFailedSound ==
  ASSUME IInv, NEW d \in Deliveries, NEW c \in Consumers, NEW final \in BOOLEAN,
         MarkFailed(d, c, final)
  PROVE  RowsSound
  <1>1. CASE MayFail(d, c, final)
    <2>1. state[d] = "sending"
      BY <1>1, DeliveryAssumption DEF IInv, OwnedWhileSending, MayFail
    <2>2. /\ state'  = [state EXCEPT ![d] = FailedState(d, final)]
          /\ owner'  = [owner EXCEPT ![d] = None]
          /\ leased' = [leased EXCEPT ![d] = FALSE]
          /\ due'    = [due EXCEPT ![d] = FALSE]
          /\ UNCHANGED attempts
      BY <1>1 DEF MarkFailed
    <2>3. FailedState(d, final) \in {"dead_letter", "pending"}
      BY DEF FailedState
    <2>. QED  BY <2>1, <2>2, <2>3 DEF IInv, TypeOK, States, OwnedWhileSending, RowsSound
  <1>2. CASE ~MayFail(d, c, final)
    BY <1>2, SameRowsSound DEF MarkFailed
  <1>. QED  BY <1>1, <1>2

\* A tick that goes on to its next delivery knows what it knew.
LEMMA NextDeliveryKnows ==
  ASSUME IInv, RowsSound, NEW k \in Ticks, NextDelivery(k), UNCHANGED <<posted, histVars>>
  PROVE  /\ pc' \in [Ticks -> {"idle", "loop", "report", "complain"}]
         /\ batch' \in [Ticks -> SUBSET Deliveries]
         /\ outdated' \in [Ticks -> SUBSET Deliveries]
         /\ current' \in [Ticks -> Deliveries \cup {None}]
         /\ permanent' \in [Ticks -> BOOLEAN]
         /\ TickKnows'
         /\ NotPostedYet'
  BY DEF IInv, TypeOK, RowsSound, NextDelivery, TickKnows, NotPostedYet, histVars

\* A tick that has to complain about the delivery it could not report.
LEMMA ToComplainKnows ==
  ASSUME IInv, RowsSound, NEW k \in Ticks, pc[k] = "report",
         pc' = [pc EXCEPT ![k] = "complain"],
         UNCHANGED <<batch, outdated, current, permanent, posted, histVars>>
  PROVE  /\ pc' \in [Ticks -> {"idle", "loop", "report", "complain"}]
         /\ TickKnows'
         /\ NotPostedYet'
  BY DEF IInv, TypeOK, RowsSound, TickKnows, NotPostedYet, histVars

\* A message adds to what is posted, and only of a published answer.
LEMMA PutMessageKnows ==
  ASSUME IInv, NEW k \in Ticks, NEW d \in Deliveries, d \in batch[k], PutMessage(k, d)
  PROVE  /\ posted' \in [Deliveries -> BOOLEAN]
         /\ \A x \in Deliveries : posted[x] => posted'[x]
         /\ posted'[d] \/ renewals[d] > 0
         /\ \A x \in Deliveries : state[x] = "awaiting" => ~posted'[x]
  BY DEF IInv, TypeOK, TickKnows, NotPostedYet, PutMessage

LEMMA TickIInv ==
  ASSUME IInv, NEW k \in Ticks,
         \/ TickStep(k)
         \/ ReportLost(k) \/ ComplainLost(k) \/ Crash(k)
         \/ \E S \in SUBSET Deliveries : Claim(k, S)
         \/ \E d \in Deliveries : Heartbeat(k, d)
  PROVE  IInv'
  <1>. USE DeliveryAssumption
  <1>c. ConsumerOf[k] \in Consumers /\ ConsumerOf[k] # None  OBVIOUS
  <1>1. CASE \E d \in Deliveries : Post(k, d)
    <2>. PICK d \in Deliveries : Post(k, d)  BY <1>1
    <2>1. TypeOK'  BY PutMessageKnows DEF IInv, TypeOK, Post, rowVars, histVars
    <2>2. OwnedWhileSending'  BY DEF IInv, OwnedWhileSending, Post, rowVars
    <2>3. TickKnows'
      BY PutMessageKnows DEF IInv, TypeOK, TickKnows, Post, rowVars, histVars
    <2>4. NotPostedYet'  BY PutMessageKnows DEF IInv, NotPostedYet, Post, rowVars
    <2>. QED  BY <2>1, <2>2, <2>3, <2>4 DEF IInv
  <1>2. CASE \E d \in Deliveries : PostFails(k, d)
    <2>. PICK d \in Deliveries : PostFails(k, d)  BY <1>2
    <2>1. UNCHANGED posted \/ PutMessage(k, d)
      BY DEF PostFails
    <2>2. permanent' \in [Ticks -> BOOLEAN]  BY DEF IInv, TypeOK, PostFails
    <2>3. TypeOK'
      BY <2>1, <2>2, PutMessageKnows DEF IInv, TypeOK, PostFails, rowVars, histVars
    <2>4. OwnedWhileSending'  BY DEF IInv, OwnedWhileSending, PostFails, rowVars
    <2>5. TickKnows'
      BY <2>1, PutMessageKnows DEF IInv, TypeOK, TickKnows, PostFails, rowVars, histVars
    <2>6. NotPostedYet'
      BY <2>1, PutMessageKnows DEF IInv, NotPostedYet, PostFails, rowVars
    <2>. QED  BY <2>3, <2>4, <2>5, <2>6 DEF IInv
  <1>3. CASE Report(k)
    <2>1. current[k] \in Deliveries /\ pc[k] = "report"
      BY <1>3 DEF IInv, TypeOK, TickKnows, Report
    <2>2. RowsSound  BY <1>3, <1>c, <2>1, MarkDeliveredSound DEF Report
    <2>3. CASE DeliveredOk(current[k], ConsumerOf[k])
      BY <1>3, <2>2, <2>3, NextDeliveryKnows DEF Report, IInv, TypeOK, RowsSound, histVars
    <2>4. CASE ~DeliveredOk(current[k], ConsumerOf[k])
      <3>1. /\ pc' = [pc EXCEPT ![k] = "complain"]
            /\ UNCHANGED <<batch, outdated, current, permanent, posted, histVars, faults>>
        BY <1>3, <2>4 DEF Report
      <3>2. /\ pc' \in [Ticks -> {"idle", "loop", "report", "complain"}]
            /\ TickKnows' /\ NotPostedYet'
        BY <2>1, <2>2, <3>1, ToComplainKnows
      <3>. QED  BY <2>2, <3>1, <3>2 DEF IInv, TypeOK, RowsSound, histVars
    <2>. QED  BY <2>3, <2>4
  <1>4. CASE ReportLost(k)
    <2>1. current[k] \in Deliveries /\ pc[k] = "report"
      BY <1>4 DEF IInv, TypeOK, TickKnows, ReportLost
    <2>2. RowsSound
      BY <1>4, <1>c, <2>1, MarkDeliveredSound, SameRowsSound DEF ReportLost
    <2>3. /\ pc' = [pc EXCEPT ![k] = "complain"]
          /\ UNCHANGED <<batch, outdated, current, permanent, posted, histVars>>
          /\ faults' \in 0 .. MaxFaults
      BY <1>4 DEF ReportLost, IInv, TypeOK
    <2>4. /\ pc' \in [Ticks -> {"idle", "loop", "report", "complain"}]
          /\ TickKnows' /\ NotPostedYet'
      BY <2>1, <2>2, <2>3, ToComplainKnows
    <2>. QED  BY <2>2, <2>3, <2>4 DEF IInv, TypeOK, RowsSound, histVars
  <1>5. CASE Complain(k)
    <2>1. current[k] \in Deliveries /\ permanent[k] \in BOOLEAN
      BY <1>5 DEF IInv, TypeOK, TickKnows, Complain
    <2>2. RowsSound  BY <1>5, <1>c, <2>1, MarkFailedSound DEF Complain
    <2>. QED  BY <1>5, <2>2, NextDeliveryKnows DEF Complain, IInv, TypeOK, RowsSound, histVars
  <1>6. CASE ComplainLost(k)
    <2>1. RowsSound  BY <1>6, SameRowsSound DEF ComplainLost
    <2>2. faults' \in 0 .. MaxFaults  BY <1>6 DEF ComplainLost, IInv, TypeOK
    <2>. QED
      BY <1>6, <2>1, <2>2, NextDeliveryKnows DEF ComplainLost, IInv, TypeOK, RowsSound, histVars
  <1>7. CASE Crash(k)
    <2>1. RowsSound  BY <1>7, SameRowsSound DEF Crash
    <2>2. TypeOK'  BY <1>7, <2>1 DEF Crash, IInv, TypeOK, RowsSound, histVars
    <2>3. TickKnows'  BY <1>7 DEF Crash, IInv, TypeOK, TickKnows, rowVars, histVars
    <2>4. NotPostedYet'  BY <1>7 DEF Crash, IInv, NotPostedYet, rowVars
    <2>. QED  BY <2>1, <2>2, <2>3, <2>4 DEF IInv, RowsSound
  <1>8. CASE \E S \in SUBSET Deliveries : Claim(k, S)
    <2>. PICK S \in SUBSET Deliveries : Claim(k, S)  BY <1>8
    <2>1. state' \in [Deliveries -> States] /\ owner' \in [Deliveries -> Consumers \cup {None}]
          /\ leased' \in [Deliveries -> BOOLEAN]
      BY <1>c DEF IInv, TypeOK, States, Claim
    <2>2. attempts' \in [Deliveries -> 0 .. MaxAttempts]
      <3>1. \A d \in S : CountClaim(attempts[d]) \in 0 .. MaxAttempts
        BY DEF IInv, TypeOK, CountClaim
      <3>. QED  BY <3>1 DEF IInv, TypeOK, Claim
    <2>3. TypeOK'  BY <2>1, <2>2 DEF IInv, TypeOK, Claim, histVars
    <2>4. OwnedWhileSending'
      BY <1>c DEF IInv, TypeOK, OwnedWhileSending, Claim
    <2>5. TickKnows'
      BY DEF IInv, TypeOK, TickKnows, Claim, Claimable, histVars
    <2>6. NotPostedYet'
      BY DEF IInv, NotPostedYet, Claim, Claimable
    <2>. QED  BY <2>3, <2>4, <2>5, <2>6 DEF IInv
  <1>9. CASE \E d \in Deliveries : Heartbeat(k, d)
    <2>. PICK d \in Deliveries : Heartbeat(k, d)  BY <1>9
    <2>. QED
      BY DEF IInv, TypeOK, OwnedWhileSending, TickKnows, NotPostedYet, Heartbeat, tickVars, histVars
  <1>. QED
    BY <1>1, <1>2, <1>3, <1>4, <1>5, <1>6, <1>7, <1>8, <1>9 DEF TickStep

\* A publication, the first or a further one, opens its row and outdates what
\* the ticks have of it.
LEMMA PublishIInv ==
  ASSUME IInv, NEW d \in Deliveries, Publish(d)
  PROVE  IInv'
  <1>. USE DeliveryAssumption
  <1>1. /\ renewals' \in [Deliveries -> Nat]
        /\ \A x \in Deliveries : renewals[x] <= renewals'[x] /\ renewals'[x] <= MaxRenewals[x]
        /\ state[d] # "awaiting" => renewals'[d] > 0
    <2>1. /\ renewals \in [Deliveries -> Nat] /\ MaxRenewals \in [Deliveries -> Nat]
          /\ \A x \in Deliveries : renewals[x] <= MaxRenewals[x]
      BY DEF IInv, TypeOK
    <2>2. CASE state[d] = "awaiting"
      <3>1. renewals' = renewals  BY <2>2 DEF Publish
      <3>. QED  BY <2>1, <2>2, <3>1
    <2>3. CASE state[d] # "awaiting"
      <3>1. renewals' = [renewals EXCEPT ![d] = @ + 1] /\ renewals[d] < MaxRenewals[d]
        BY <2>3 DEF Publish
      <3>. QED  BY <2>1, <3>1
    <2>. QED  BY <2>2, <2>3
  <1>2. outdated' \in [Ticks -> SUBSET Deliveries] /\ slipped' \subseteq Deliveries
    BY DEF IInv, TypeOK, Publish
  <1>3. TypeOK'  BY <1>1, <1>2 DEF IInv, TypeOK, Publish, States
  <1>4. OwnedWhileSending'  BY DEF IInv, TypeOK, OwnedWhileSending, Publish
  <1>5. TickKnows'
    <2>. SUFFICES ASSUME NEW k \in Ticks
                  PROVE  /\ pc'[k] \in {"report", "complain"} => current'[k] \in batch'[k]
                         /\ pc'[k] = "report" => posted'[current'[k]] \/ renewals'[current'[k]] > 0
                         /\ \A x \in batch'[k] : state'[x] # "awaiting"
                         /\ \A x \in outdated'[k] : renewals'[x] > 0
      BY DEF TickKnows
    <2>1. pc'[k] = pc[k] /\ current'[k] = current[k] /\ batch'[k] = batch[k]
      BY DEF Publish
    <2>2. ASSUME pc[k] = "report"
          PROVE  posted'[current[k]] \/ renewals'[current[k]] > 0
      <3>1. current[k] \in Deliveries /\ current[k] \in batch[k]
        BY <2>2 DEF IInv, TypeOK, TickKnows
      <3>2. CASE current[k] = d  BY <1>1, <3>1, <3>2 DEF IInv, TickKnows
      <3>3. CASE current[k] # d
        <4>1. posted'[current[k]] = posted[current[k]]
          BY <3>1, <3>3 DEF IInv, TypeOK, Publish
        <4>2. posted[current[k]] \/ renewals[current[k]] > 0
          BY <2>2 DEF IInv, TickKnows
        <4>. QED  BY <1>1, <3>1, <4>1, <4>2 DEF IInv, TypeOK
      <3>. QED  BY <3>2, <3>3
    <2>3. \A x \in batch[k] : state'[x] # "awaiting"
      BY DEF IInv, TypeOK, TickKnows, Publish
    <2>4. \A x \in outdated'[k] : renewals'[x] > 0
      <3>1. outdated'[k] = outdated[k] \cup (batch[k] \cap {d})  BY DEF Publish
      <3>2. \A x \in outdated[k] : x \in Deliveries /\ renewals[x] > 0
        BY DEF IInv, TypeOK, TickKnows
      <3>3. d \in batch[k] => renewals'[d] > 0  BY <1>1 DEF IInv, TickKnows
      <3>. QED  BY <1>1, <3>1, <3>2, <3>3 DEF IInv, TypeOK
    <2>. QED  BY <2>1, <2>2, <2>3, <2>4 DEF IInv, TickKnows
  <1>6. NotPostedYet'  BY DEF IInv, TypeOK, NotPostedYet, Publish
  <1>. QED  BY <1>3, <1>4, <1>5, <1>6 DEF IInv

LEMMA NextIInv == IInv /\ [Next]_vars => IInv'
  <1>. SUFFICES ASSUME IInv, [Next]_vars  PROVE IInv'  OBVIOUS
  <1>. USE DeliveryAssumption
  <1>1. CASE \E d \in Deliveries : Publish(d)
    BY <1>1, PublishIInv
  <1>2. CASE \E d \in Deliveries : BecomesDue(d)
    BY <1>2 DEF IInv, TypeOK, OwnedWhileSending, TickKnows, NotPostedYet, BecomesDue, tickVars, histVars
  <1>3. CASE \E d \in Deliveries : LeaseExpires(d)
    BY <1>3 DEF IInv, TypeOK, OwnedWhileSending, TickKnows, NotPostedYet, LeaseExpires, tickVars, histVars
  <1>4. CASE \E d \in Deliveries : LeaseLapses(d)
    BY <1>4 DEF IInv, TypeOK, OwnedWhileSending, TickKnows, NotPostedYet, LeaseLapses, tickVars
  <1>5. CASE UNCHANGED vars
    BY <1>5 DEF IInv, TypeOK, OwnedWhileSending, TickKnows, NotPostedYet, vars, rowVars, tickVars, histVars
  <1>. QED  BY <1>1, <1>2, <1>3, <1>4, <1>5, TickIInv DEF Next

\* The tables and the pollers keep their types.
THEOREM TypeOKHolds == Spec => []TypeOK
  <1>1. Spec => []IInv  BY InitIInv, NextIInv, PTL DEF Spec
  <1>. QED  BY <1>1, PTL DEF IInv

\* Owner and lease go with sending, whichever handlers ran in which order
\* (the claim, heartbeat, delivered and failed handlers of routers/agent.py).
THEOREM OwnedHolds == Spec => []OwnedWhileSending
  <1>1. Spec => []IInv  BY InitIInv, NextIInv, PTL DEF Spec
  <1>. QED  BY <1>1, PTL DEF IInv

-----------------------------------------------------------------------------
(* Refinement *)

LEMMA SamePhase ==
  ASSUME \A d \in Deliveries :
           state'[d] = state[d]
           \/ {state[d], state'[d]} \subseteq {"pending", "sending"},
         UNCHANGED <<posted, renewals>>
  PROVE  UNCHANGED Promise!vars
  BY DEF Promise!vars

\* A settled delivery was offered, and posted or published anew, before.
LEMMA ReportKeepsPromise ==
  ASSUME IInv, NEW k \in Ticks, pc[k] = "report",
         MarkDelivered(current[k], ConsumerOf[k]), UNCHANGED <<posted, renewals>>
  PROVE  [Promise!Next]_(Promise!vars)
  <1>. DEFINE c == ConsumerOf[k]
  <1>. PICK d \in Deliveries : d = current[k] /\ (posted[d] \/ renewals[d] > 0)
    BY DEF IInv, TypeOK, TickKnows
  <1>1. CASE state[d] # "delivered" /\ owner[d] = c
    <2>1. state[d] = "sending"
      BY <1>1, DeliveryAssumption DEF IInv, OwnedWhileSending
    <2>2. state' = [state EXCEPT ![d] = "delivered"]  BY <1>1 DEF MarkDelivered
    <2>3. Promise!Settle(d)
      BY <2>1, <2>2 DEF IInv, TypeOK, Promise!Settle
    <2>. QED  BY <2>3 DEF Promise!Next
  <1>2. CASE ~(state[d] # "delivered" /\ owner[d] = c)
    <2>1. UNCHANGED state  BY <1>2 DEF MarkDelivered, rowVars
    <2>. QED  BY <2>1, SamePhase
  <1>. QED  BY <1>1, <1>2

\* Who complains owns the row, so the row is offered and not settled.
LEMMA ComplainKeepsPromise ==
  ASSUME IInv, NEW k \in Ticks, pc[k] = "complain",
         MarkFailed(current[k], ConsumerOf[k], permanent[k]), UNCHANGED <<posted, renewals>>
  PROVE  [Promise!Next]_(Promise!vars)
  <1>. DEFINE c == ConsumerOf[k]  final == permanent[k]
  <1>. PICK d \in Deliveries : d = current[k]  BY DEF IInv, TypeOK, TickKnows
  <1>1. CASE MayFail(d, c, final)
    <2>1. state[d] = "sending"
      BY <1>1, DeliveryAssumption DEF IInv, OwnedWhileSending, MayFail
    <2>2. state' = [state EXCEPT ![d] = FailedState(d, final)]
      BY <1>1 DEF MarkFailed
    <2>3. CASE FailedState(d, final) = "dead_letter"
      <3>1. Promise!GiveUp(d)
        BY <2>1, <2>2, <2>3 DEF IInv, TypeOK, Promise!GiveUp
      <3>. QED  BY <3>1 DEF Promise!Next
    <2>4. CASE FailedState(d, final) = "pending"
      BY <2>1, <2>2, <2>4, SamePhase DEF IInv, TypeOK
    <2>. QED  BY <2>3, <2>4 DEF FailedState
  <1>2. CASE ~MayFail(d, c, final)
    <2>1. UNCHANGED state  BY <1>2 DEF MarkFailed, rowVars
    <2>. QED  BY <2>1, SamePhase
  <1>. QED  BY <1>1, <1>2

\* The first publication offers the answer, a further one offers it again.
LEMMA PublishKeepsPromise ==
  ASSUME IInv, NEW d \in Deliveries, Publish(d)
  PROVE  [Promise!Next]_(Promise!vars)
  <1>1. CASE state[d] = "awaiting"
    <2>1. UNCHANGED <<posted, renewals>>
      BY <1>1 DEF IInv, TypeOK, NotPostedYet, Publish
    <2>2. Promise!Offer(d)
      BY <1>1, <2>1 DEF IInv, TypeOK, Publish, Promise!Offer
    <2>. QED  BY <2>2 DEF Promise!Next
  <1>2. CASE state[d] # "awaiting"
    <2>1. renewals' = [renewals EXCEPT ![d] = @ + 1]  BY <1>2 DEF Publish
    <2>2. {x \in Deliveries : renewals'[x] > 0} = {x \in Deliveries : renewals[x] > 0} \cup {d}
      BY <2>1 DEF IInv, TypeOK
    <2>3. Promise!Renew(d)
      BY <1>2, <2>2 DEF IInv, TypeOK, States, Publish, Promise!Renew
    <2>. QED  BY <2>3 DEF Promise!Next
  <1>. QED  BY <1>1, <1>2

\* Every step of the outbox is a step of the promise or none.
LEMMA StepKeepsPromise == IInv /\ [Next]_vars => [Promise!Next]_(Promise!vars)
  <1>. SUFFICES ASSUME IInv, [Next]_vars  PROVE [Promise!Next]_(Promise!vars)
    OBVIOUS
  <1>1. CASE \E d \in Deliveries : Publish(d)
    BY <1>1, PublishKeepsPromise
  <1>2. CASE \E d \in Deliveries, k \in Ticks : Post(k, d) \/ PostFails(k, d)
    <2>. PICK d \in Deliveries, k \in Ticks : Post(k, d) \/ PostFails(k, d)  BY <1>2
    <2>1. UNCHANGED <<state, renewals>> /\ state[d] # "awaiting"
      BY DEF Post, PostFails, rowVars, histVars, IInv, TickKnows
    <2>2. CASE UNCHANGED posted  BY <2>1, <2>2, SamePhase
    <2>3. CASE posted' = [posted EXCEPT ![d] = TRUE]
      <3>1. Promise!Post(d)  BY <2>1, <2>3 DEF Promise!Post
      <3>. QED  BY <3>1 DEF Promise!Next
    <2>. QED  BY <2>2, <2>3 DEF Post, PostFails, PutMessage
  <1>3. CASE \E k \in Ticks : Report(k) \/ ReportLost(k)
    <2>. PICK k \in Ticks : Report(k) \/ ReportLost(k)  BY <1>3
    <2>1. CASE MarkDelivered(current[k], ConsumerOf[k])
      BY <2>1, ReportKeepsPromise DEF Report, ReportLost, histVars
    <2>2. CASE UNCHANGED rowVars
      BY <2>2, SamePhase DEF Report, ReportLost, rowVars, histVars
    <2>. QED  BY <2>1, <2>2 DEF Report, ReportLost
  <1>4. CASE \E k \in Ticks : Complain(k)
    BY <1>4, ComplainKeepsPromise DEF Complain, histVars
  <1>5. CASE \E k \in Ticks, S \in SUBSET Deliveries : Claim(k, S)
    <2>1. \A d \in Deliveries :
            state'[d] = state[d] \/ {state[d], state'[d]} \subseteq {"pending", "sending"}
      BY <1>5 DEF Claim, Claimable
    <2>. QED  BY <1>5, <2>1, SamePhase DEF Claim, histVars
  <1>6. CASE \/ \E d \in Deliveries : BecomesDue(d) \/ LeaseExpires(d) \/ LeaseLapses(d)
             \/ \E k \in Ticks : ComplainLost(k) \/ Crash(k)
             \/ \E k \in Ticks, d \in Deliveries : Heartbeat(k, d)
             \/ UNCHANGED vars
    <2>1. UNCHANGED <<state, posted, renewals>>
      BY <1>6
      DEF BecomesDue, LeaseExpires, LeaseLapses, ComplainLost, Crash, Heartbeat, vars, rowVars, histVars
    <2>. QED  BY <2>1, SamePhase
  <1>. QED  BY <1>1, <1>2, <1>3, <1>4, <1>5, <1>6 DEF Next, TickStep

\* The outbox implements its promise, for any number of bots, ticks and
\* publications: a settled answer stays settled until it is published anew,
\* and "delivered" comes only after a post where it was published once.
THEOREM Refinement == Spec => KeepsPromise
  <1>1. Init => Promise!Init  BY DEF Init, Promise!Init
  <1>2. Spec => []IInv  BY InitIInv, NextIInv, PTL DEF Spec
  <1>. QED  BY <1>1, <1>2, StepKeepsPromise, PTL DEF Spec, KeepsPromise, Promise!Spec

-----------------------------------------------------------------------------
(* One holder *)

\* An answer that a tick holds in time is leased, or delivered by a report
\* whose response was lost.
InHand ==
    \A k \in Ticks :
        \A d \in batch[k] \ slipped : leased[d] \/ state[d] = "delivered"

HInv == IInv /\ OneHolder /\ InHand

LEMMA InitHInv == Init => HInv
  BY InitIInv DEF Init, HInv, OneHolder, InHand

\* A handler that settles what tick k works on, or nothing, leaves the hands
\* of the others alone.
LEMMA SettleInHand ==
  ASSUME HInv, NEW k \in Ticks, current[k] \in batch[k], current[k] \in Deliveries,
         UNCHANGED slipped,
         \A x \in Deliveries \ {current[k]} : leased'[x] = leased[x] /\ state'[x] = state[x]
  PROVE  \A j \in Ticks \ {k} :
            \A d \in batch[j] \ slipped : leased'[d] \/ state'[d] = "delivered"
  BY DEF HInv, IInv, TypeOK, OneHolder, InHand

LEMMA TickHInv ==
  ASSUME HInv, NEW k \in Ticks, UNCHANGED slipped,
         Report(k) \/ ReportLost(k) \/ Complain(k)
  PROVE  OneHolder' /\ InHand'
  <1>1. /\ current[k] \in batch[k] /\ current[k] \in Deliveries
        /\ batch \in [Ticks -> SUBSET Deliveries]
        /\ pc \in [Ticks -> {"idle", "loop", "report", "complain"}]
        /\ current \in [Ticks -> Deliveries \cup {None}]
    <2>1. pc[k] \in {"report", "complain"}  BY DEF Report, ReportLost, Complain
    <2>. QED  BY <2>1 DEF HInv, IInv, TypeOK, TickKnows
  <1>2. \A x \in Deliveries \ {current[k]} : leased'[x] = leased[x] /\ state'[x] = state[x]
    BY DEF HInv, IInv, TypeOK, Report, ReportLost, Complain, MarkDelivered, MarkFailed, rowVars
  <1>3. \A j \in Ticks \ {k} :
            \A d \in batch[j] \ slipped : leased'[d] \/ state'[d] = "delivered"
    BY <1>1, <1>2, SettleInHand
  <1>4. CASE NextDelivery(k)
    <2>1. /\ batch' = [batch EXCEPT ![k] = @ \ {current[k]}]
          /\ pc' = [pc EXCEPT ![k] = IF batch[k] \subseteq {current[k]} THEN "idle" ELSE "loop"]
          /\ current' = [current EXCEPT ![k] = None]
      BY <1>4 DEF NextDelivery
    <2>2. \A d \in batch'[k] \ slipped : leased'[d] \/ state'[d] = "delivered"
      BY <1>1, <1>2, <2>1 DEF HInv, InHand
    <2>3. OneHolder'  BY <1>1, <2>1 DEF HInv, OneHolder
    <2>4. InHand'  BY <1>1, <1>3, <2>1, <2>2 DEF HInv, InHand
    <2>. QED  BY <2>3, <2>4
  <1>5. CASE ~NextDelivery(k)
    <2>1. /\ pc' = [pc EXCEPT ![k] = "complain"]
          /\ UNCHANGED <<batch, current>>
          /\ MarkDelivered(current[k], ConsumerOf[k]) \/ UNCHANGED rowVars
      BY <1>5 DEF Report, ReportLost, Complain
    <2>2. \A d \in batch[k] \ slipped : leased'[d] \/ state'[d] = "delivered"
      BY <1>1, <1>2, <2>1 DEF HInv, IInv, TypeOK, InHand, MarkDelivered, rowVars
    <2>3. OneHolder'  BY <2>1 DEF HInv, OneHolder
    <2>4. InHand'  BY <1>1, <1>3, <2>1, <2>2 DEF HInv, InHand
    <2>. QED  BY <2>3, <2>4
  <1>. QED  BY <1>4, <1>5

\* A claim takes only what nobody holds in time.
LEMMA ClaimHInv ==
  ASSUME HInv, NEW k \in Ticks, NEW S \in SUBSET Deliveries, Claim(k, S)
  PROVE  OneHolder' /\ InHand'
  <1>1. \A j \in Ticks : batch[j] \cap S \subseteq slipped
    BY DEF HInv, InHand, Claim, Claimable
  <1>2. /\ batch' = [batch EXCEPT ![k] = S] /\ pc' = [pc EXCEPT ![k] = "loop"]
        /\ UNCHANGED <<current, slipped>>
        /\ \A d \in Deliveries : leased'[d] = (d \in S \/ leased[d])
        /\ \A d \in Deliveries \ S : state'[d] = state[d]
    BY DEF Claim, histVars
  <1>3. /\ batch \in [Ticks -> SUBSET Deliveries]
        /\ pc \in [Ticks -> {"idle", "loop", "report", "complain"}]
    BY DEF HInv, IInv, TypeOK
  <1>4. OneHolder'  BY <1>1, <1>2, <1>3 DEF HInv, OneHolder
  <1>5. InHand'
    <2>1. \A j \in Ticks \ {k} : \A d \in batch[j] \ slipped : leased'[d] \/ state'[d] = "delivered"
      BY <1>1, <1>2, <1>3 DEF HInv, InHand
    <2>. QED  BY <1>2, <1>3, <2>1 DEF HInv, InHand
  <1>. QED  BY <1>4, <1>5

LEMMA NextHInv == HInv /\ [Next]_vars => HInv'
  <1>. SUFFICES ASSUME HInv, [Next]_vars  PROVE HInv'  OBVIOUS
  <1>1. IInv'  BY NextIInv DEF HInv
  <1>2. CASE \E k \in Ticks : Report(k) \/ ReportLost(k) \/ Complain(k)
    <2>1. UNCHANGED slipped  BY <1>2 DEF Report, ReportLost, Complain, histVars
    <2>. QED  BY <1>1, <1>2, <2>1, TickHInv DEF HInv
  <1>3. CASE \E k \in Ticks, S \in SUBSET Deliveries : Claim(k, S)
    BY <1>1, <1>3, ClaimHInv DEF HInv
  <1>4. CASE \E k \in Ticks, d \in Deliveries : Post(k, d) \/ PostFails(k, d)
    BY <1>1, <1>4 DEF HInv, IInv, TypeOK, OneHolder, InHand, Post, PostFails, rowVars, histVars
  <1>5. CASE \E k \in Ticks : ComplainLost(k)
    BY <1>1, <1>5 DEF HInv, IInv, TypeOK, OneHolder, InHand, ComplainLost, NextDelivery, rowVars, histVars
  <1>6. CASE \E k \in Ticks : Crash(k)
    BY <1>1, <1>6 DEF HInv, IInv, TypeOK, OneHolder, InHand, Crash, rowVars, histVars
  <1>7. CASE \E k \in Ticks, d \in Deliveries : Heartbeat(k, d)
    BY <1>1, <1>7 DEF HInv, IInv, TypeOK, OneHolder, InHand, Heartbeat, tickVars, histVars
  <1>8. CASE \E d \in Deliveries : Publish(d)
    BY <1>1, <1>8 DEF HInv, IInv, TypeOK, OneHolder, InHand, Held, Publish
  <1>9. CASE \E d \in Deliveries : BecomesDue(d) \/ LeaseExpires(d) \/ LeaseLapses(d)
    BY <1>1, <1>9
    DEF HInv, IInv, TypeOK, OneHolder, InHand, Held, BecomesDue, LeaseExpires, LeaseLapses, tickVars, histVars
  <1>10. CASE UNCHANGED vars
    BY <1>1, <1>10 DEF HInv, OneHolder, InHand, vars, rowVars, tickVars, histVars
  <1>. QED
    BY <1>2, <1>3, <1>4, <1>5, <1>6, <1>7, <1>8, <1>9, <1>10 DEF Next, TickStep

\* An answer has one holder, whatever the number of bots and of overlapping
\* ticks of each, unless its lease lapsed or it was published anew under one.
THEOREM OneHolderHolds == Spec => []OneHolder
  <1>1. Spec => []HInv  BY InitHInv, NextHInv, PTL DEF Spec
  <1>. QED  BY <1>1, PTL DEF HInv
=============================================================================
