--------------------------- MODULE DeliveryProofs ---------------------------
(***************************************************************************)
(* The outbox delivers at least once: RunRetention, with its job threads,    *)
(* sweeps, clients and crashes, implements AtLeastOnce.                       *)
(***************************************************************************)
EXTENDS RunRetentionProofs

-----------------------------------------------------------------------------
\* What is under way

UnderwayOf(p, b) == UNION {b[s] : s \in {t \in Sweeper : p[t] \in {"asked", "marking"}}}

LEMMA UnderwayIs == Underway = UnderwayOf(phase, batch) /\ Underway' = UnderwayOf(phase', batch')
BY DEF Underway, UnderwayOf

\* One thread is in an exchange at a time, so what is under way is its batch.
LEMMA OneUnderway ==
  ASSUME NEW p, NEW b, NEW s \in Sweeper,
         \A t \in Sweeper : t # s => p[t] \notin {"asked", "marking"}
  PROVE  UnderwayOf(p, b) = IF p[s] \in {"asked", "marking"} THEN b[s] ELSE {}
BY DEF UnderwayOf

LEMMA SameUnderway ==
  ASSUME \A t \in Sweeper : /\ phase'[t] \in {"asked", "marking"} <=> phase[t] \in {"asked", "marking"}
                            /\ phase[t] \in {"asked", "marking"} => batch'[t] = batch[t]
  PROVE  UNCHANGED Underway
<1>1. {t \in Sweeper : phase'[t] \in {"asked", "marking"}} = {t \in Sweeper : phase[t] \in {"asked", "marking"}}
  OBVIOUS
<1> QED
  BY <1>1, UnderwayIs DEF UnderwayOf

LEMMA NothingUnderway ==
  ASSUME \A t \in Sweeper : phase'[t] \notin {"asked", "marking"}
  PROVE  Underway' = {}
BY UnderwayIs DEF UnderwayOf

-----------------------------------------------------------------------------
\* What a step does to the events is a step of the queue

LEMMA SameStanding ==
  ASSUME UNCHANGED events
  PROVE  UNCHANGED Standing
BY DEF Standing, events

LEMMA MarkStands ==
  ASSUME EventTypes, NEW e \in Event, NEW to \in {"pending", "rejected", "sent"}, Mark(e, to)
  PROVE  Standing' = [Standing EXCEPT ![e] = IF to = "pending" THEN "owed"
                                             ELSE IF to = "sent" THEN "settled" ELSE "dropped"]
<1>1. \A d \in Event : state'[d] = IF d = e THEN to ELSE state[d]
  BY DEF Mark, EventTypes
<1> QED
  BY <1>1 DEF Standing

LEMMA DropIsDrop ==
  ASSUME EventTypes, NEW es \in SUBSET Event, \A e \in es : state[e] # "none",
         \A e \in Event : IF e \in es THEN state'[e] \in {"gone", "rejected"} ELSE state'[e] = state[e],
         Underway' \in {Underway, {}}, UNCHANGED confirmed
  PROVE  \E ds \in SUBSET Event : Delivery!Drop(ds)
<1>1. \A e \in es : Standing[e] # "none"
  BY DEF Standing
<1>2. Standing' = [e \in Event |-> IF e \in es THEN "dropped" ELSE Standing[e]]
  BY DEF Standing
<1>3. Delivery!Drop(es)
  BY <1>1, <1>2 DEF Delivery!Drop
<1> QED
  BY <1>3

LEMMA QuietDelivery ==
  ASSUME EventTypes, QuietStep, UNCHANGED <<Underway, confirmed>>
  PROVE  [Delivery!Next]_(Delivery!deliveryVars)
<1>1. CASE UNCHANGED events
  BY <1>1, SameStanding DEF Delivery!deliveryVars
<1>2. CASE \E e \in Event, r \in Run, k \in {"local_run_update", "run_update"},
             p \in {"none", "active"} \cup Final, s \in {"none"} \cup Final : Enqueue(e, r, k, p, s)
  <2>1. PICK e \in Event : state[e] = "none" /\ state' = [state EXCEPT ![e] = "pending"]
    BY <1>2 DEF Enqueue
  <2>2. Standing[e] = "none" /\ Standing' = [Standing EXCEPT ![e] = "owed"]
    BY <2>1 DEF Standing, EventTypes
  <2>3. Delivery!Queue(e)
    BY <2>2 DEF Delivery!Queue
  <2> QED
    BY <2>3 DEF Delivery!Next
<1>3. CASE \E e \in Event : state[e] # "none" /\ Mark(e, "rejected")
  <2>1. PICK e \in Event : state[e] # "none" /\ Mark(e, "rejected")
    BY <1>3
  <2>2. \A d \in Event : IF d \in {e} THEN state'[d] \in {"gone", "rejected"} ELSE state'[d] = state[d]
    BY <2>1 DEF Mark, EventTypes
  <2> QED
    BY <2>1, <2>2, DropIsDrop DEF Delivery!Next
<1>4. CASE \E es \in SUBSET Event : (\A e \in es : state[e] # "none") /\ Delete(es)
  <2>1. PICK es \in SUBSET Event : (\A e \in es : state[e] # "none") /\ Delete(es)
    BY <1>4
  <2>2. \A d \in Event : IF d \in es THEN state'[d] \in {"gone", "rejected"} ELSE state'[d] = state[d]
    BY <2>1 DEF Delete
  <2> QED
    BY <2>1, <2>2, DropIsDrop DEF Delivery!Next
<1>5. CASE Restart
  <2>1. PICK old \in SUBSET Expirable(Linked) :
          state' = [e \in Event |-> CASE e \in old -> "gone"
                                      [] Undelivered(e) /\ ~Row(about[e]) /\ e \notin old -> "rejected"
                                      [] OTHER -> state[e]]
    BY <1>5 DEF Restart
  <2> DEFINE es == {e \in Event : e \in old \/ (Undelivered(e) /\ ~Row(about[e]))}
  <2>2. \A e \in es : state[e] # "none"
    BY DEF Undelivered, Expirable, Queued
  <2>3. \A d \in Event : IF d \in es THEN state'[d] \in {"gone", "rejected"} ELSE state'[d] = state[d]
    BY <2>1
  <2>4. es \in SUBSET Event
    OBVIOUS
  <2> HIDE DEF es
  <2> QED
    BY <2>2, <2>3, <2>4, DropIsDrop DEF Delivery!Next
<1> QED
  BY <1>1, <1>2, <1>3, <1>4, <1>5 DEF QuietStep

LEMMA GiveUp ==
  ASSUME UNCHANGED events, UNCHANGED confirmed, Underway' = {}
  PROVE  [Delivery!Next]_(Delivery!deliveryVars)
<1>1. UNCHANGED Standing
  BY SameStanding
<1>2. confirmed' = confirmed \cup {} /\ {} \in SUBSET Underway
  OBVIOUS
<1>3. Delivery!Take
  BY <1>1, <1>2 DEF Delivery!Take
<1> QED
  BY <1>3 DEF Delivery!Next

-----------------------------------------------------------------------------
\* The threads in sync_once

LEMMA DeliveryAlone ==
  ASSUME ExchangeInv, NEW s \in Sweeper, phase[s] \in Exchanging
  PROVE  /\ \A t \in Sweeper : t # s => phase[t] \notin {"asked", "marking"}
         /\ Underway = IF phase[s] \in {"asked", "marking"} THEN batch[s] ELSE {}
<1>1. \A t \in Sweeper : t # s => phase[t] \notin {"asked", "marking"}
  BY DEF ExchangeInv, Exchanging
<1> QED
  BY <1>1, OneUnderway, UnderwayIs

\* The same after a step of s, which moves nobody else.
LEMMA DeliveryAloneNext ==
  ASSUME ExchangeInv, SyncTypes, NEW s \in Sweeper, phase[s] \in Exchanging, NEW p, Go(s, p)
  PROVE  Underway' = IF p \in {"asked", "marking"} THEN batch'[s] ELSE {}
<1>1. \A t \in Sweeper : t # s => phase'[t] \notin {"asked", "marking"}
  BY DeliveryAlone DEF Go, SyncTypes
<1>2. phase'[s] = p
  BY DEF Go, SyncTypes
<1> QED
  BY <1>1, <1>2, OneUnderway, UnderwayIs

LEMMA DeliverIsDelivery ==
  ASSUME RetentionInv, NEW s \in Syncer, Deliver(s)
  PROVE  [Delivery!Next]_(Delivery!deliveryVars)
<1>0. EventTypes /\ SyncTypes /\ ExchangeInv /\ s \in Sweeper
  BY TypeGroups DEF RetentionInv, Sweeper
<1>1. CASE BeginSync(s) \/ Suppressed(s)
  <2>1. UNCHANGED <<events, confirmed, batch>>
    BY <1>1 DEF BeginSync, Suppressed, exchange
  <2>2. UNCHANGED Underway
    BY <1>0, <1>1, <2>1, SameUnderway DEF BeginSync, Suppressed, Go, SyncTypes
  <2> QED
    BY <2>1, <2>2, SameStanding DEF Delivery!deliveryVars
<1>2. CASE PickBatch(s)
  <2>1. PICK es \in SUBSET (Waiting \ tried[s]) : batch' = [batch EXCEPT ![s] = es]
    BY <1>2 DEF PickBatch
  <2>2. phase[s] = "pick" /\ Go(s, "asked") /\ UNCHANGED <<events, confirmed>>
    BY <1>2 DEF PickBatch
  <2>3. Underway = {} /\ Underway' = es
    BY <1>0, <2>1, <2>2, DeliveryAlone, DeliveryAloneNext DEF SyncTypes, Exchanging
  <2>4. es \in SUBSET Event /\ \A e \in es : Standing[e] = "owed"
    BY DEF Waiting, Standing
  <2>5. Delivery!Offer(es)
    BY <2>2, <2>3, <2>4, SameStanding DEF Delivery!Offer
  <2> QED
    BY <2>4, <2>5 DEF Delivery!Next
<1>3. CASE Drained(s)
  <2>1. phase[s] = "pick" /\ Go(s, "sweep") /\ UNCHANGED <<events, confirmed>>
    BY <1>3 DEF Drained
  <2>2. Underway' = {}
    BY <1>0, <2>1, DeliveryAloneNext DEF Exchanging
  <2> QED
    BY <2>1, <2>2, GiveUp
<1>4. CASE Answer(s)
  <2>1. PICK ok \in SUBSET batch[s] : confirmed' = confirmed \cup ok
    BY <1>4 DEF Answer
  <2>2. phase[s] = "asked" /\ Go(s, "marking") /\ UNCHANGED <<events, batch>>
    BY <1>4 DEF Answer
  <2>3. Underway = batch[s] /\ Underway' = batch[s]
    BY <1>0, <2>2, DeliveryAlone, DeliveryAloneNext DEF Exchanging
  <2>4. Delivery!Take
    BY <2>1, <2>2, <2>3, SameStanding DEF Delivery!Take
  <2> QED
    BY <2>4 DEF Delivery!Next
<1>5. CASE MarkReceipt(s)
  <2>1. PICK e \in batch[s], to \in {"pending", "rejected", "sent"} :
          /\ to = "sent" => e \in taken[s]
          /\ Mark(e, to)
          /\ batch' = [batch EXCEPT ![s] = @ \ {e}]
    BY <1>5 DEF MarkReceipt
  <2>2. phase[s] = "marking" /\ UNCHANGED <<confirmed, phase>>
    BY <1>5 DEF MarkReceipt
  <2>3. e \in Event /\ state[e] # "sent" /\ (to = "sent" => e \in confirmed)
    BY <1>0, <2>1, <2>2 DEF SyncTypes, ExchangeInv
  <2>4. Underway = batch[s] /\ Underway' = batch[s] \ {e}
    <3>1. \A t \in Sweeper : t # s => phase'[t] \notin {"asked", "marking"}
      BY <1>0, <2>2, DeliveryAlone DEF Exchanging
    <3>2. batch'[s] = batch[s] \ {e}
      BY <1>0, <2>1 DEF SyncTypes
    <3> QED
      BY <1>0, <2>2, <3>1, <3>2, DeliveryAlone, OneUnderway, UnderwayIs DEF Exchanging
  <2>5. Standing[e] # "settled"
    BY <2>3 DEF Standing
  <2>6. Standing' = [Standing EXCEPT ![e] = IF to = "pending" THEN "owed"
                                            ELSE IF to = "sent" THEN "settled" ELSE "dropped"]
    BY <1>0, <2>1, <2>3, MarkStands
  <2>7. Delivery!Resolve(e)
    BY <2>1, <2>2, <2>3, <2>4, <2>5, <2>6 DEF Delivery!Resolve
  <2> QED
    BY <2>3, <2>7 DEF Delivery!Next
<1>6. CASE Marked(s)
  <2>1. PICK p \in {"pick", "sweep"} : Go(s, p)
    BY <1>6 DEF Marked
  <2>2. phase[s] = "marking" /\ UNCHANGED <<events, confirmed>>
    BY <1>6 DEF Marked
  <2>3. Underway' = {}
    BY <1>0, <2>1, <2>2, DeliveryAloneNext DEF Exchanging
  <2> QED
    BY <2>2, <2>3, GiveUp
<1>7. CASE SuppressOne(s)
  <2>1. PICK e \in doomed[s] : Mark(e, "rejected")
    BY <1>7 DEF SuppressOne
  <2>2. e \in Event /\ state[e] # "none"
    BY <1>0 DEF SyncTypes, ExchangeInv
  <2>3. QuietStep
    BY <2>1, <2>2 DEF QuietStep
  <2>4. UNCHANGED <<phase, batch, confirmed>>
    BY <1>7 DEF SuppressOne
  <2>5. UNCHANGED Underway
    BY <2>4 DEF Underway
  <2> QED
    BY <1>0, <2>3, <2>4, <2>5, QuietDelivery
<1>8. CASE MarkFails(s)
  <2>1. phase[s] \in Exchanging /\ Go(s, "idle") /\ UNCHANGED <<events, confirmed>>
    BY <1>8 DEF MarkFails, Exchanging
  <2>2. Underway' = {}
    BY <1>0, <2>1, DeliveryAloneNext
  <2> QED
    BY <2>1, <2>2, GiveUp
<1> QED
  BY <1>1, <1>2, <1>3, <1>4, <1>5, <1>6, <1>7, <1>8 DEF Deliver, SyncStep

LEMMA FaultIsDelivery ==
  ASSUME RetentionInv, NEW s \in Syncer, Misdeliver(s)
  PROVE  [Delivery!Next]_(Delivery!deliveryVars)
<1>0. EventTypes /\ SyncTypes /\ ExchangeInv /\ s \in Sweeper
  BY TypeGroups DEF RetentionInv, Sweeper
<1>1. phase[s] = "asked" /\ phase[s] \in Exchanging
  BY DEF Misdeliver, SyncFault, LoseAnswer, RefuseBatch, RetireEvent, RefuseClaim, Exchanging
<1>2. UNCHANGED confirmed /\ \E p \in {"idle", "sweep", "pick", "suppress"} : Go(s, p)
  BY DEF Misdeliver, SyncFault, LoseAnswer, RefuseBatch, RetireEvent, RefuseClaim, Go
<1>3. Underway = batch[s] /\ Underway' = {}
  BY <1>0, <1>1, <1>2, DeliveryAlone, DeliveryAloneNext
<1>4. CASE RetireEvent(s)
  <2>1. PICK e \in batch[s] : Mark(e, "rejected")
    BY <1>4 DEF RetireEvent
  <2>2. e \in Event /\ state[e] # "sent"
    BY <1>0, <1>1 DEF SyncTypes, ExchangeInv
  <2>3. Standing[e] # "settled"
    BY <2>2 DEF Standing
  <2>4. Standing' = [Standing EXCEPT ![e] = "dropped"]
    BY <1>0, <2>1, <2>2, MarkStands
  <2>5. Delivery!Resolve(e)
    BY <1>2, <1>3, <2>1, <2>3, <2>4 DEF Delivery!Resolve
  <2> QED
    BY <2>2, <2>5 DEF Delivery!Next
<1>5. CASE ~RetireEvent(s)
  <2>1. UNCHANGED events
    BY <1>5 DEF Misdeliver, SyncFault, LoseAnswer, RefuseBatch, RefuseClaim
  <2> QED
    BY <1>2, <1>3, <2>1, GiveUp
<1> QED
  BY <1>4, <1>5

-----------------------------------------------------------------------------
\* The refinement

LEMMA NextIsDelivery ==
  ASSUME RetentionInv, RetentionNext
  PROVE  [Delivery!Next]_(Delivery!deliveryVars)
<1>0. EventTypes /\ SyncTypes /\ ExchangeInv /\ EffectiveType
  BY TypeGroups DEF RetentionInv, EffectiveType, RowTypes
<1>1. CASE \E r \in Run : RunStep(r)
  <2>1. UNCHANGED <<phase, exchange, confirmed>> /\ QuietStep
    BY <1>0, <1>1, RunFrame, RunIsQuiet
  <2> QED
    BY <1>0, <2>1, QuietDelivery DEF Underway, exchange
<1>2. CASE \E r \in Run : JobStep(r)
  <2>1. UNCHANGED <<phase, exchange, confirmed>> /\ QuietStep
    BY <1>2, JobFrame, JobIsQuiet
  <2> QED
    BY <1>0, <2>1, QuietDelivery DEF Underway, exchange
<1>3. CASE \E s \in Sweeper : SweepStep(s)
  <2>1. PICK s \in Sweeper : SweepStep(s)
    BY <1>3
  <2>2. UNCHANGED <<exchange, confirmed>> /\ QuietStep
    BY <1>0, <2>1, SweepFrame, SweepIsQuiet
  <2>3. \A t \in Sweeper : phase'[t] \in Exchanging => phase'[t] = phase[t]
    BY <1>0, <2>1, SweepLeavesExchanges
  <2>4. phase[s] \notin Exchanging /\ \A t \in Sweeper : t # s => phase'[t] = phase[t]
    BY <1>0, <2>1 DEF SweepStep, SweepStart, SweepNext, SweepLook, SweepRequeue, SweepRecheck, SweepMark, SweepEnforce,
                      SweepLosesRow, SweepDone, Go, SyncTypes, Exchanging
  <2>5. UNCHANGED Underway
    BY <2>2, <2>3, <2>4, SameUnderway DEF exchange, Exchanging
  <2> QED
    BY <1>0, <2>2, <2>5, QuietDelivery
<1>4. CASE \E r \in Run : AsideStep(r)
  <2>1. UNCHANGED <<phase, exchange, confirmed>> /\ QuietStep
    BY <1>4, AsideFrame, AsideIsQuiet
  <2> QED
    BY <1>0, <2>1, QuietDelivery DEF Underway, exchange
<1>5. CASE OutboxStep
  <2>1. CASE (\E s \in Syncer : AgeEvents(s)) \/ PruneEvents
    <3>1. UNCHANGED <<confirmed, phase, exchange>>
      BY <2>1 DEF AgeEvents, Expire, PruneEvents, PruneQueue
    <3>2. PICK es \in SUBSET Queued : Delete(es)
      BY <2>1 DEF AgeEvents, Expire, Expirable, PruneEvents, PruneQueue
    <3>3. es \in SUBSET Event /\ \A e \in es : state[e] # "none"
      BY DEF Queued
    <3>4. QuietStep
      BY <3>2, <3>3 DEF QuietStep
    <3> QED
      BY <1>0, <3>1, <3>4, QuietDelivery DEF Underway, exchange
  <2>2. CASE Reconnect
    <3>1. UNCHANGED <<events, confirmed, phase, exchange>>
      BY <2>2 DEF Reconnect, ChangeConnection
    <3> QED
      BY <3>1, SameStanding DEF Underway, exchange, Delivery!deliveryVars
  <2> QED
    BY <1>5, <2>1, <2>2, DeliverIsDelivery, FaultIsDelivery DEF OutboxStep
<1>6. CASE Dying
  <2>1. UNCHANGED <<events, confirmed>>
    BY <1>6, DyingFrame
  <2>2. \A t \in Sweeper : phase'[t] \notin {"asked", "marking"}
    BY <1>6, DyingDies DEF Die
  <2> QED
    BY <2>1, <2>2, NothingUnderway, GiveUp
<1>7. CASE Restart
  <2>1. QuietStep /\ UNCHANGED <<confirmed, exchange>>
    BY <1>7 DEF QuietStep, Restart
  <2>2. phase[Main] \notin Exchanging /\ phase'[Main] = "sweep"
        /\ \A t \in Sweeper : t # Main => phase'[t] = phase[t]
    BY <1>0, <1>7 DEF ExchangeInv, Restart, Go, SyncTypes, Sweeper
  <2>3. UNCHANGED Underway
    BY <2>1, <2>2, SameUnderway DEF exchange, Exchanging
  <2> QED
    BY <1>0, <2>1, <2>3, QuietDelivery
<1> QED
  BY <1>1, <1>2, <1>3, <1>4, <1>5, <1>6, <1>7, NextCases

LEMMA DeliveryStarts == RetentionInit => Delivery!Init
<1> SUFFICES ASSUME RetentionInit
             PROVE  Delivery!Init
  OBVIOUS
<1>1. Standing = [e \in Event |-> "none"] /\ confirmed = {}
  BY DEF RetentionInit, OutboxInit, Standing
<1>2. \A t \in Sweeper : phase[t] \notin {"asked", "marking"}
  BY DEF RetentionInit, OutboxInit
<1>3. Underway = {}
  BY <1>2 DEF Underway
<1> QED
  BY <1>1, <1>3 DEF Delivery!Init

\* The outbox of the daemon implements at-least-once delivery: only owed reports are
\* offered, one exchange at a time, and settled is only what the server has
\* confirmed (sync_event.py and _sync_once_admitted), over any faults and crashes.
THEOREM OutboxDelivers == RetentionSpec => DeliveryRefined
<1>1. RetentionInv /\ [RetentionNext]_retentionVars => [Delivery!Next]_(Delivery!deliveryVars)
  <2>1. ASSUME RetentionInv, RetentionNext
        PROVE  [Delivery!Next]_(Delivery!deliveryVars)
    BY <2>1, NextIsDelivery
  <2>2. ASSUME UNCHANGED retentionVars
        PROVE  UNCHANGED Delivery!deliveryVars
    BY <2>2 DEF retentionVars, outbox, events, exchange, Standing, Underway, Delivery!deliveryVars
  <2> QED
    BY <2>1, <2>2
<1> QED
  BY <1>1, InvHolds, DeliveryStarts, PTL DEF RetentionSpec, DeliveryRefined, Delivery!DeliverySpec
=============================================================================
