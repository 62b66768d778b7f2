----------------------------- MODULE Lifecycle -----------------------------
(***************************************************************************)
(* LifecycleController of src/spl/daemon/lifecycle.py: root admission, work *)
(* leases, completion lineages, the no-claim boundary and the self-exit     *)
(* commit.  Every method runs under the controller's one lock, so each is   *)
(* one action; callers are unconstrained here (DaemonWork.tla composes the  *)
(* controller with the daemon's threads).  A rejected call that leaves the  *)
(* controller unchanged is a stuttering step; a rejected call that records  *)
(* unknown work is an action of its own.                                    *)
(***************************************************************************)
EXTENDS Naturals

CONSTANTS
  Work,          \* work ids; an id is free again once its record is popped
  Lineage,       \* lineage ids; free again once the lineage is dropped
  MaxRevision    \* bound: admission revisions explored

ASSUME LifecycleAssumption == MaxRevision \in Nat \ {0}

VARIABLES
  admissionOpen,    \* _admission_open
  revision,         \* _revision
  works,            \* _works: the set of live work records
  openLineages,     \* _lineages entries that are not sealed
  sealedLineages,   \* _lineages entries that are sealed
  drainLineages,    \* the _lineages ids that start with "drain_"
  drain,            \* _drain: NoDrain, or the revision that scheduled it
  boundary,         \* _claim_boundary
  unknownWork,      \* _permanent_unknown_work > 0
  outcomeUnknown,   \* _permanent_outcome_unknown > 0
  stopping,         \* _stopping
  exit,             \* _exit_requested and the self-exit thread
  exitCallback      \* _exit_callback is bound

ledger  == <<works, openLineages, sealedLineages, drainLineages>>
control == <<admissionOpen, revision, drain>>
doubt   == <<unknownWork, outcomeUnknown>>
commit  == <<stopping, exit>>
vars    == <<ledger, control, doubt, commit, boundary, exitCallback>>

NoDrain == 0

\* The kinds the controller tells apart.  "local_run" stands for every kind
\* that is both a root and a descendant (guarded runs, builds, registry
\* mutations, callbacks).
RootKinds       == {"local_run", "remote_claim", "sync_poll"}
DescendantKinds == {"local_run", "terminal_commit", "sync_flush"}
Phases          == {"queued", "active"}

WorkRecord ==
  [id: Work, kind: RootKinds \cup DescendantKinds, lineage: Lineage, phase: Phases]

Boundaries == {"not_required", "pending", "proven", "failed", "outcome_unknown"}

lineages == openLineages \cup sealedLineages

TypeOK ==
  /\ admissionOpen \in BOOLEAN
  /\ revision \in 1..MaxRevision
  /\ works \subseteq WorkRecord
  /\ openLineages \subseteq Lineage
  /\ sealedLineages \subseteq Lineage
  /\ drainLineages \subseteq Lineage
  /\ drain \in {NoDrain} \cup 1..MaxRevision
  /\ boundary \in Boundaries
  /\ unknownWork \in BOOLEAN
  /\ outcomeUnknown \in BOOLEAN
  /\ stopping \in BOOLEAN
  /\ exit \in {"none", "spawned", "signalled"}
  /\ exitCallback \in BOOLEAN

Init ==
  /\ admissionOpen = TRUE
  /\ revision = 1
  /\ works = {}
  /\ openLineages = {}
  /\ sealedLineages = {}
  /\ drainLineages = {}
  /\ drain = NoDrain
  /\ boundary = "not_required"
  /\ unknownWork = FALSE
  /\ outcomeUnknown = FALSE
  /\ stopping = FALSE
  /\ exit = "none"
  /\ exitCallback = FALSE

-----------------------------------------------------------------------------
(* The stop commit. *)

Live(w) == \E r \in works : r.id = w
Busy(l) == \E r \in works : r.lineage = l

\* Broken on purpose, as every "Broken..." definition of these modules: the
\* permanent doubts are not looked at.
BrokenBlocked ==
  \/ works # {}
  \/ \E l \in openLineages : ~Busy(l)

\* _blockers_locked: any non-zero counter.
Blocked ==
  \/ works # {}
  \/ \E l \in openLineages : ~Busy(l)
  \/ unknownWork
  \/ outcomeUnknown

CommitEnabled ==
  /\ drain # NoDrain
  /\ boundary \in {"not_required", "proven"}
  /\ ~Blocked
  /\ exitCallback

\* _maybe_commit_stop_locked, called last by the methods that end with it:
\* it looks at the state those methods have just written.
MaybeCommitStop ==
  IF ~stopping /\ CommitEnabled'
  THEN stopping' = TRUE /\ exit' = "spawned"
  ELSE UNCHANGED commit

\* The self-exit thread: the callback sets the server's shutdown event ...
ExitSignalled ==
  /\ exit = "spawned"
  /\ exit' = "signalled"
  /\ UNCHANGED <<ledger, control, doubt, stopping, boundary, exitCallback>>

\* ... or raises, and the daemon stays up with an outcome it cannot vouch for.
ExitFailed ==
  /\ exit = "spawned"
  /\ exit' = "none"
  /\ stopping' = FALSE
  /\ outcomeUnknown' = TRUE
  /\ UNCHANGED <<ledger, control, unknownWork, boundary, exitCallback>>

BindExitCallback ==
  /\ exitCallback' = TRUE
  /\ UNCHANGED <<ledger, control, doubt, boundary>>
  /\ MaybeCommitStop

-----------------------------------------------------------------------------
(* Admission. *)

\* _reserve_locked: a record in a lineage that is opened when missing.
Reserve(w, k, l, phase) ==
  /\ ~Live(w)
  /\ works' = works \cup {[id |-> w, kind |-> k, lineage |-> l, phase |-> phase]}
  /\ openLineages' = openLineages \cup {l}
  /\ UNCHANGED <<sealedLineages, control, doubt, commit, boundary, exitCallback>>

RecordUnknownWork ==
  /\ unknownWork' = TRUE
  /\ UNCHANGED <<ledger, control, outcomeUnknown, commit, boundary, exitCallback>>

\* Without the look at _admission_open.
BrokenReserveRoot(w, k, l, phase) ==
  /\ l \notin lineages
  /\ Reserve(w, k, l, phase)
  /\ UNCHANGED drainLineages

\* reserve_root (every caller leaves the lineage id to be made up), and the
\* claim-capable half of begin_sync.
ReserveRoot(w, k, l, phase) ==
  /\ admissionOpen
  /\ l \notin lineages
  /\ Reserve(w, k, l, phase)
  /\ UNCHANGED drainLineages

BeginPoll(w, l) == ReserveRoot(w, "sync_poll", l, "active")

\* reserve_descendant: the drain does not close it, the seal does.
ReserveDescendant(w, k, l, phase) ==
  /\ l \in openLineages
  /\ Reserve(w, k, l, phase)
  /\ UNCHANGED drainLineages

RejectDescendant(l) ==
  /\ l \notin openLineages
  /\ RecordUnknownWork

\* The draining half of begin_sync: a fresh drain lineage, no claims.  The
\* stop commit does not close it.
BeginFlush(w, l) ==
  /\ ~admissionOpen
  /\ drain # NoDrain
  /\ l \notin lineages
  /\ Reserve(w, "sync_flush", l, "active")
  /\ drainLineages' = drainLineages \cup {l}

\* Any live lease is taken for a claim-capable poll.
BrokenIsPoll(p) == Live(p)

\* admit_remote_claim: only the live lease of a claim-capable poll admits.
IsPoll(p) == \E r \in works : r.id = p /\ r.kind = "sync_poll"

AdmitRemoteClaim(p, w, l) ==
  /\ IsPoll(p)
  /\ l \notin lineages
  /\ Reserve(w, "remote_claim", l, "queued")
  /\ UNCHANGED drainLineages

RejectRemoteClaim(p) ==
  /\ ~IsPoll(p)
  /\ RecordUnknownWork

-----------------------------------------------------------------------------
(* Progress of admitted work. *)

Activate(w) ==
  /\ \E r \in works :
       /\ r.id = w
       /\ works' = (works \ {r}) \cup {[r EXCEPT !.phase = "active"]}
  /\ UNCHANGED <<openLineages, sealedLineages, drainLineages, control, doubt,
                 commit, boundary, exitCallback>>

\* A sealed lineage stays in the table when its last work completes.
BrokenSealAndDrop(l, seal) ==
  /\ openLineages' = IF seal THEN openLineages \ {l} ELSE openLineages
  /\ sealedLineages' = IF seal THEN (sealedLineages \cup ({l} \cap lineages)) ELSE sealedLineages
  /\ drainLineages' = drainLineages \cap lineages'

\* _drop_sealed_lineage_if_idle_locked, after l has been sealed or not.
SealAndDrop(l, seal) ==
  LET busy == \E r \in works' : r.lineage = l
      sealed == IF seal THEN (sealedLineages \cup ({l} \cap lineages)) ELSE sealedLineages
  IN  /\ openLineages' = IF seal THEN openLineages \ {l} ELSE openLineages
      /\ sealedLineages' = IF busy THEN sealed ELSE sealed \ {l}
      /\ drainLineages' = drainLineages \cap lineages'

\* LifecycleWorkLease.complete -> _complete_work; completing again is a no-op.
Complete(w, seal) ==
  /\ \E r \in works :
       /\ r.id = w
       /\ works' = works \ {r}
       /\ SealAndDrop(r.lineage, seal)
  /\ UNCHANGED <<control, doubt, boundary, exitCallback>>
  /\ MaybeCommitStop

\* seal_lineage, and its rejection.
SealLineage(l) ==
  /\ l \in lineages
  /\ UNCHANGED <<works, control, doubt, boundary, exitCallback>>
  /\ SealAndDrop(l, TRUE)
  /\ MaybeCommitStop

SealUnknownLineage(l) ==
  /\ l \notin lineages
  /\ RecordUnknownWork

-----------------------------------------------------------------------------
(* The claim boundary.  None of the marks says which drain it is for. *)

BrokenMarkBoundary(b) ==      \* does not look whether the stop can commit
  /\ drain # NoDrain
  /\ boundary' = b
  /\ UNCHANGED <<ledger, control, doubt, commit, exitCallback>>

MarkBoundary(b) ==
  /\ drain # NoDrain
  /\ boundary' = b
  /\ UNCHANGED <<ledger, control, doubt, exitCallback>>
  /\ MaybeCommitStop

MarkNotRequired == MarkBoundary("not_required")
BrokenMarkProven == MarkBoundary("flushed")      \* a state no reader knows
MarkProven      == MarkBoundary("proven")

MarkFailed(unknown) ==
  /\ drain # NoDrain
  /\ boundary \notin {"failed", "outcome_unknown"}
  /\ boundary' = IF unknown THEN "outcome_unknown" ELSE "failed"
  /\ outcomeUnknown' = (outcomeUnknown \/ unknown)
  /\ UNCHANGED <<ledger, control, unknownWork, commit, exitCallback>>

-----------------------------------------------------------------------------
(* Drain and cancel, fenced by the admission revision. *)

RequestDrain(expected) ==
  /\ drain = NoDrain
  /\ expected = revision
  /\ revision < MaxRevision
  /\ admissionOpen' = FALSE
  /\ revision' = revision + 1
  /\ drain' = revision + 1
  /\ boundary' = "pending"
  /\ UNCHANGED <<ledger, doubt, commit, exitCallback>>

\* A cancel names the drain it was issued for, and comes before the commit.
BrokenCancelFence(d, expected) == drain # NoDrain /\ d = drain /\ expected = revision

CancelFence(d, expected) ==
  /\ drain # NoDrain
  /\ ~stopping
  /\ d = drain
  /\ expected = revision

\* Idle drain lineages go with the drain.
CancelDrain(d, expected) ==
  /\ CancelFence(d, expected)
  /\ revision < MaxRevision
  /\ drain' = NoDrain
  /\ boundary' = "not_required"
  /\ admissionOpen' = TRUE
  /\ revision' = revision + 1
  /\ openLineages' = {l \in openLineages : l \in drainLineages => Busy(l)}
  /\ sealedLineages' = {l \in sealedLineages : l \in drainLineages => Busy(l)}
  /\ drainLineages' = drainLineages \cap lineages'
  /\ UNCHANGED <<works, doubt, commit, exitCallback>>

-----------------------------------------------------------------------------

WorkStep ==
  \/ \E w \in Work, l \in Lineage :
       \/ \E k \in RootKinds \ {"sync_poll"}, phase \in Phases : ReserveRoot(w, k, l, phase)
       \/ \E k \in DescendantKinds, phase \in Phases : ReserveDescendant(w, k, l, phase)
       \/ BeginPoll(w, l)
       \/ BeginFlush(w, l)
       \/ \E p \in Work : AdmitRemoteClaim(p, w, l)
  \/ \E w \in Work : Activate(w)
  \/ \E w \in Work, seal \in BOOLEAN : Complete(w, seal)

RejectStep ==
  \/ \E l \in Lineage : RejectDescendant(l) \/ SealUnknownLineage(l)
  \/ \E p \in Work : RejectRemoteClaim(p)
  \/ RecordUnknownWork

ControlStep ==
  \/ \E l \in Lineage : SealLineage(l)
  \/ MarkNotRequired
  \/ MarkProven
  \/ \E unknown \in BOOLEAN : MarkFailed(unknown)
  \/ \E expected \in 1..MaxRevision : RequestDrain(expected)
  \/ \E d, expected \in 1..MaxRevision : CancelDrain(d, expected)
  \/ BindExitCallback
  \/ ExitSignalled
  \/ ExitFailed

Next == WorkStep \/ RejectStep \/ ControlStep

Spec == Init /\ [][Next]_vars

-----------------------------------------------------------------------------
(* Properties. *)

\* A daemon whose stop is committed runs nothing but drain flushes (and what
\* they admit under their own lineage): no run, claim or claim-capable poll
\* can be live once the exit has been requested (_maybe_commit_stop_locked
\* against reserve_root, reserve_descendant and admit_remote_claim).
StoppingRunsOnlyFlushes ==
  stopping => \A r \in works :
                /\ r.lineage \in drainLineages
                /\ r.kind \in DescendantKinds

\* No wake-up is lost: a scheduled drain with nothing left to wait for has
\* committed, in every state.  Every method that can take away the last
\* blocker must call _maybe_commit_stop_locked.
NoMissedCommit == ~stopping => ~CommitEnabled

\* A sealed lineage stays in the table only while work of it is live, and a
\* live record always has its lineage there: completion can be counted.
LineagesAccounted ==
  /\ \A l \in sealedLineages : Busy(l)
  /\ \A r \in works : r.lineage \in lineages
  /\ openLineages \cap sealedLineages = {}

\* Once work has been lost track of, no later event commits the stop: not a
\* cancel, not a second drain, not a proven boundary.
DoubtNeverCommits == [][(unknownWork \/ outcomeUnknown) => ~(stopping' /\ ~stopping)]_vars

\* The stop commit cannot be taken back by the supervisor: while stopping,
\* admission stays closed, the drain stays the same and the revision stands.
CommitIsFinal ==
  [][stopping => /\ ~admissionOpen'
                 /\ UNCHANGED control]_vars

\* The controller implements the when-idle stop it promises its supervisor.
Promise ==
  INSTANCE WhenIdleStop WITH
    owed     <- lineages \ drainLineages,
    flushing <- drainLineages,
    gate     <- IF stopping THEN "stopping"
                ELSE IF drain # NoDrain THEN "closed" ELSE "open",
    poisoned <- unknownWork \/ outcomeUnknown

PromiseSpec == Promise!Spec
=============================================================================
