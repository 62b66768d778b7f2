----------------------------- MODULE SyncOutbox -----------------------------
(***************************************************************************)
(* The durable events of the daemon for the central server                   *)
(* (repositories/sync_event.py) and the threads that deliver them            *)
(* (_sync_once_admitted of server.py).  A statement under the store's lock    *)
(* is one step; an exchange with the server and the marks of its receipts    *)
(* are steps of their own, inside _server_sync_lock.                         *)
(***************************************************************************)
EXTENDS Naturals, FiniteSets

CONSTANTS
  Run,     \* local runs; a run of a server job carries the job's claim
  Event,   \* identities of events: an enqueued event has a fresh one
  Syncer,  \* threads in sync_once
  Main     \* the thread of the daemon's constructor

ASSUME OutboxAssumption == Main \notin Syncer

VARIABLES
  state,       \* status of each event's row: "pending" stands for pending and for failed
               \* retryably, "rejected" for failed for good
  about,       \* the run each event tells of
  kind,        \* kind
  proof,       \* local_run_proof: the local status the payload proves, or "none"
  says,        \* the final status a run_update reports, or "none"
  confirmed,   \* events the server has confirmed with a receipt
  connected,   \* current_server_connection_credentials() is not None
  superseded,  \* _superseded_server_attempts, by run
  phase,       \* where each thread in sync_once is
  batch,       \* events of the request, then those whose receipt is not marked yet
  taken,       \* events of the batch whose receipt says ok
  tried,       \* attempted_ids
  single,      \* force_single_event
  doomed       \* what _suppress_queued_server_attempt_events has listed

events   == <<state, about, kind, proof, says>>
exchange == <<batch, taken, tried, single, doomed>>
outbox   == <<events, confirmed, connected, superseded, phase, exchange>>

Sweeper == Syncer \cup {Main}
Exchanging == {"pick", "asked", "marking", "suppress"}
Sweeping == {"sweep", "next", "look", "requeue", "recheck",
             "mark_sync", "mark_free", "enforce"}
Final == {"succeeded", "failed"}

OutboxTypeOK ==
  /\ state \in [Event -> {"none", "pending", "rejected", "sent", "gone"}]
  /\ about \in [Event -> Run]
  /\ kind \in [Event -> {"local_run_update", "run_update"}]
  /\ proof \in [Event -> {"none", "active"} \cup Final]
  /\ says \in [Event -> {"none"} \cup Final]
  /\ confirmed \subseteq Event
  /\ connected \in BOOLEAN
  /\ superseded \subseteq Run
  /\ phase \in [Sweeper -> {"idle"} \cup Exchanging \cup Sweeping]
  /\ batch \in [Sweeper -> SUBSET Event]
  /\ taken \in [Sweeper -> SUBSET Event]
  /\ tried \in [Sweeper -> SUBSET Event]
  /\ single \in [Sweeper -> BOOLEAN]
  /\ doomed \in [Sweeper -> SUBSET Event]

OutboxInit ==
  /\ state = [e \in Event |-> "none"]
  /\ about \in [Event -> Run]
  /\ kind = [e \in Event |-> "local_run_update"]
  /\ proof = [e \in Event |-> "none"]
  /\ says = [e \in Event |-> "none"]
  /\ confirmed = {}
  /\ connected \in BOOLEAN
  /\ superseded = {}
  /\ phase = [s \in Sweeper |-> "idle"]
  /\ batch = [s \in Sweeper |-> {}]
  /\ taken = [s \in Sweeper |-> {}]
  /\ tried = [s \in Sweeper |-> {}]
  /\ single = [s \in Sweeper |-> FALSE]
  /\ doomed = [s \in Sweeper |-> {}]

-----------------------------------------------------------------------------
\* The repository.

Waiting == {e \in Event : state[e] = "pending"}
Queued == {e \in Event : state[e] \notin {"none", "gone"}}

\* run_sync_state
EventsOf(r) == {e \in Queued : about[e] = r /\ proof[e] # "none"}
FinalQueued(r) == \E e \in EventsOf(r) : proof[e] \in Final
Unsent(r) == \E e \in EventsOf(r) : state[e] # "sent"

Enqueue(e, r, k, p, s) ==
  /\ state[e] = "none"
  /\ state' = [state EXCEPT ![e] = "pending"]
  /\ about' = [about EXCEPT ![e] = r]
  /\ kind' = [kind EXCEPT ![e] = k]
  /\ proof' = [proof EXCEPT ![e] = p]
  /\ says' = [says EXCEPT ![e] = s]

\* mark_sync_event_sent, mark_sync_event_failed: whatever the status was.
Mark(e, to) ==
  /\ state[e] # "gone"
  /\ state' = [state EXCEPT ![e] = to]
  /\ UNCHANGED <<about, kind, proof, says>>

Delete(es) ==
  /\ state' = [e \in Event |-> IF e \in es THEN "gone" ELSE state[e]]
  /\ UNCHANGED <<about, kind, proof, says>>

\* expire_sync_event_payloads: linked is what has a payload_expires_at, and any
\* part of it may be past it.
Expirable(linked) == {e \in Queued \cap linked : kind[e] = "local_run_update" \/ state[e] = "sent"}

\* prune_sync_events, of any status and age
PruneQueue ==
  /\ \E es \in SUBSET Queued : es # {} /\ Delete(es)
  /\ UNCHANGED <<confirmed, connected, superseded, phase, exchange>>

-----------------------------------------------------------------------------
\* _sync_once_admitted

Go(s, p) == phase' = [phase EXCEPT ![s] = p]

\* What the call kept of its exchanges ends with them.
Forget(s) ==
  /\ batch' = [batch EXCEPT ![s] = {}]
  /\ taken' = [taken EXCEPT ![s] = {}]
  /\ tried' = [tried EXCEPT ![s] = {}]
  /\ single' = [single EXCEPT ![s] = FALSE]
  /\ doomed' = [doomed EXCEPT ![s] = {}]

BeginSync(s) ==
  /\ connected
  /\ phase[s] = "idle"
  /\ \A t \in Sweeper : phase[t] \notin Exchanging
  /\ Go(s, "pick")
  /\ UNCHANGED <<events, confirmed, connected, superseded, exchange>>

\* list_pending_sync_events deletes what is too old before it selects.
Expire(s, linked) ==
  /\ phase[s] = "pick"
  /\ \E old \in SUBSET Expirable(linked) : old # {} /\ Delete(old)
  /\ UNCHANGED <<confirmed, connected, superseded, phase, exchange>>

\* A batch shares one claim, or has none.
OneAttempt(es) ==
  \/ \A e \in es : kind[e] = "local_run_update"
  \/ \E r \in Run : \A e \in es : kind[e] = "run_update" /\ about[e] = r

PickBatch(s) ==
  /\ phase[s] = "pick"
  /\ \E es \in SUBSET (Waiting \ tried[s]) :
       /\ es # {}
       /\ OneAttempt(es)
       /\ single[s] => Cardinality(es) = 1
       /\ batch' = [batch EXCEPT ![s] = es]
       /\ tried' = [tried EXCEPT ![s] = @ \cup es]
  /\ Go(s, "asked")
  /\ UNCHANGED <<events, confirmed, connected, superseded, taken, single, doomed>>

\* Nothing is left to try: the lock is released, and the runs are swept.
Drained(s) ==
  /\ phase[s] = "pick"
  /\ Waiting \subseteq tried[s]
  /\ Go(s, "sweep")
  /\ Forget(s)
  /\ UNCHANGED <<events, confirmed, connected, superseded>>

\* The server answers with a receipt for every event.
Answer(s) ==
  /\ phase[s] = "asked"
  /\ \E ok \in SUBSET batch[s] :
       /\ confirmed' = confirmed \cup ok
       /\ taken' = [taken EXCEPT ![s] = ok]
  /\ Go(s, "marking")
  /\ UNCHANGED <<events, connected, superseded, batch, tried, single, doomed>>

\* No answer, or one that proves nothing: the drain ends, and a first request
\* that fails leaves sync_once before the sweep.
LoseAnswer(s) ==
  /\ phase[s] = "asked"
  /\ phase' \in {[phase EXCEPT ![s] = p] : p \in {"idle", "sweep"}}
  /\ Forget(s)
  /\ UNCHANGED <<events, confirmed, connected, superseded>>

\* The server refuses the request as a whole.  A batch is tried again one by
\* one; a single event, or the one of an identity collision, is retired.
RefuseBatch(s) ==
  /\ phase[s] = "asked"
  /\ Cardinality(batch[s]) > 1
  /\ tried' = [tried EXCEPT ![s] = @ \ batch[s]]
  /\ single' = [single EXCEPT ![s] = TRUE]
  /\ batch' = [batch EXCEPT ![s] = {}]
  /\ Go(s, "pick")
  /\ UNCHANGED <<events, confirmed, connected, superseded, taken, doomed>>

RetireEvent(s) ==
  /\ phase[s] = "asked"
  /\ \E e \in batch[s] : Mark(e, "rejected")
  /\ batch' = [batch EXCEPT ![s] = {}]
  /\ Go(s, "pick")
  /\ UNCHANGED <<confirmed, connected, superseded, taken, tried, single, doomed>>

\* _suppress_queued_server_attempt_events lists, then marks one by one.
ReportsOf(r) == {e \in Waiting : kind[e] = "run_update" /\ about[e] = r}

\* The attempt was reclaimed: _reject_stale_sync_events.
RefuseClaim(s) ==
  /\ phase[s] = "asked"
  /\ \E r \in Run :
       /\ \A e \in batch[s] : kind[e] = "run_update" /\ about[e] = r
       /\ superseded' = superseded \cup {r}
       /\ doomed' = [doomed EXCEPT ![s] = ReportsOf(r)]
  /\ batch' = [batch EXCEPT ![s] = {}]
  /\ Go(s, "suppress")
  /\ UNCHANGED <<events, confirmed, connected, taken, tried, single>>

SuppressOne(s) ==
  /\ phase[s] = "suppress"
  /\ \E e \in doomed[s] :
       /\ Mark(e, "rejected")
       /\ doomed' = [doomed EXCEPT ![s] = @ \ {e}]
  /\ UNCHANGED <<confirmed, connected, superseded, phase, batch, taken, tried, single>>

Suppressed(s) ==
  /\ phase[s] = "suppress"
  /\ doomed[s] = {}
  /\ Go(s, "pick")
  /\ UNCHANGED <<events, confirmed, connected, superseded, exchange>>

BrokenMarkReceipt(s) ==       \* an event without a receipt of its own is taken for delivered
  /\ phase[s] = "marking"
  /\ \E e \in batch[s] :
       /\ \E to \in {"sent", "rejected"} : Mark(e, to)
       /\ batch' = [batch EXCEPT ![s] = @ \ {e}]
       /\ taken' = [taken EXCEPT ![s] = @ \ {e}]
  /\ UNCHANGED <<confirmed, connected, superseded, phase, tried, single, doomed>>

\* The receipts are marked one by one: taken, or an error that is retryable or not.
\* A response with an invalid part ends the drain after them.
MarkReceipt(s) ==
  /\ phase[s] = "marking"
  /\ \E e \in batch[s] :
       /\ \/ e \in taken[s] /\ Mark(e, "sent")
          \/ e \notin taken[s] /\ \E to \in {"pending", "rejected"} : Mark(e, to)
       /\ batch' = [batch EXCEPT ![s] = @ \ {e}]
       /\ taken' = [taken EXCEPT ![s] = @ \ {e}]
  /\ UNCHANGED <<confirmed, connected, superseded, phase, tried, single, doomed>>

Marked(s) ==
  /\ phase[s] = "marking"
  /\ batch[s] = {}
  /\ \/ Go(s, "pick") /\ UNCHANGED exchange
     \/ Go(s, "sweep") /\ Forget(s)
  /\ UNCHANGED <<events, confirmed, connected, superseded>>

\* The row to be marked is gone: the KeyError leaves sync_once, without a sweep.
MarkFails(s) ==
  /\ \/ phase[s] \in {"asked", "marking"} /\ \E e \in batch[s] : state[e] = "gone"
     \/ phase[s] = "suppress" /\ \E e \in doomed[s] : state[e] = "gone"
  /\ Go(s, "idle")
  /\ Forget(s)
  /\ UNCHANGED <<events, confirmed, connected, superseded>>

\* connect_server and disconnect_server, for what the outbox sees of them
Connect    == ~connected /\ connected' = TRUE
Disconnect == connected /\ connected' = FALSE

ChangeConnection ==
  /\ Connect \/ Disconnect
  /\ UNCHANGED <<events, confirmed, superseded, phase, exchange>>

SyncStep(s) ==
  \/ BeginSync(s) \/ PickBatch(s) \/ Drained(s) \/ Answer(s) \/ MarkReceipt(s) \/ Marked(s)
  \/ SuppressOne(s) \/ Suppressed(s) \/ MarkFails(s)

\* A request that gets no receipts
SyncFault(s) == LoseAnswer(s) \/ RefuseBatch(s) \/ RetireEvent(s) \/ RefuseClaim(s)
=============================================================================
