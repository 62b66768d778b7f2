---------------------------- MODULE RunRetention ----------------------------
(***************************************************************************)
(* The life of a local run's row and directory (repositories/run.py, the     *)
(* retention of server.py): the run thread's terminal commit, the thread of  *)
(* a server job, the sweeps after a sync and at startup, the retention       *)
(* scheduler, and what clients ask over HTTP, over the outbox of SyncOutbox. *)
(* The daemon may die at any moment and start again on its store.            *)
(***************************************************************************)
EXTENDS SyncOutbox

CONSTANTS
  Policy,     \* keep policies of the runs that clients start
  MaxTrouble  \* bound: deaths of the process, calls of rmtree that fail, requests that get
              \* no receipts, changes of the connection, and events pruned or expired, together

Keeps == {"never", "on_failure", "always"}

ASSUME RetentionAssumption == Policy \subseteq Keeps /\ MaxTrouble \in Nat

VARIABLES
  status,      \* status of each run's row; "starting" and the like are "active"
  pruned,      \* the row has been deleted
  keep,        \* the keep policy
  mode,        \* retention_report_mode
  queued,      \* retention_terminal_queued
  required,    \* retention_sync_required
  acked,       \* retention_delivery_acked, or no delivery is required
  lease,       \* retention_delivery_expires_at: none, in the future, in the past
  effective,   \* retention_effective_status
  compacted,   \* manifest.retention.directory_removed
  runDir,      \* run_dir is not empty
  files,       \* the files of the run are under runs/, all of them
  runner,      \* the run's thread
  job,         \* the thread of the server job that started the run
  caught,      \* the job's thread is in its except branch
  condemned,   \* what a stale job's thread has listed to suppress
  scheduled,   \* _retention_deadlines
  todo,        \* rest of a sweep's list_runs(), with the flag it read
  at,          \* the run a sweep is at
  up,          \* the process: down, in its constructor, up
  trouble      \* how much has gone wrong, or been done from outside

rows     == <<status, pruned, keep, mode, queued, required, acked, lease, effective, compacted, runDir>>
threads  == <<runner, job, caught, condemned>>
sweeps   == <<todo, at>>
retentionVars == <<outbox, rows, files, threads, scheduled, sweeps, up, trouble>>

RunnerAt == {"idle", "staged", "active", "running", "committed", "report", "decide",
             "mark_sync", "mark_free", "require", "enforce", "done"}
JobAt == {"idle", "claimed", "handoff", "failing", "suppress",
          "mark_succeeded", "mark_failed", "enforce", "done"}

RetentionTypeOK ==
  /\ OutboxTypeOK
  /\ status \in [Run -> {"none", "active"} \cup Final]
  /\ pruned \in [Run -> BOOLEAN]
  /\ keep \in [Run -> Keeps]
  /\ mode \in [Run -> {"local", "remote"}]
  /\ queued \in [Run -> BOOLEAN]
  /\ required \in [Run -> BOOLEAN]
  /\ acked \in [Run -> BOOLEAN]
  /\ lease \in [Run -> {"none", "live", "expired"}]
  /\ effective \in [Run -> {"none", "failed"}]
  /\ compacted \in [Run -> BOOLEAN]
  /\ runDir \in [Run -> BOOLEAN]
  /\ files \in [Run -> BOOLEAN]
  /\ runner \in [Run -> RunnerAt]
  /\ job \in [Run -> JobAt]
  /\ caught \in [Run -> BOOLEAN]
  /\ condemned \in [Run -> SUBSET Event]
  /\ scheduled \in [Run -> BOOLEAN]
  /\ todo \in [Sweeper -> SUBSET (Run \X BOOLEAN)]
  /\ at \in [Sweeper -> Run]
  /\ up \in {"down", "starting", "up"}
  /\ trouble \in 0..MaxTrouble

RetentionInit ==
  /\ OutboxInit
  /\ status = [r \in Run |-> "none"]
  /\ pruned = [r \in Run |-> FALSE]
  /\ keep = [r \in Run |-> "always"]
  /\ mode = [r \in Run |-> "local"]
  /\ queued = [r \in Run |-> FALSE]
  /\ required = [r \in Run |-> FALSE]
  /\ acked = [r \in Run |-> FALSE]
  /\ lease = [r \in Run |-> "none"]
  /\ effective = [r \in Run |-> "none"]
  /\ compacted = [r \in Run |-> FALSE]
  /\ runDir = [r \in Run |-> FALSE]
  /\ files = [r \in Run |-> FALSE]
  /\ runner = [r \in Run |-> "idle"]
  /\ job = [r \in Run |-> "idle"]
  /\ caught = [r \in Run |-> FALSE]
  /\ condemned = [r \in Run |-> {}]
  /\ scheduled = [r \in Run |-> FALSE]
  /\ todo = [s \in Sweeper |-> {}]
  /\ at \in [Sweeper -> Run]
  /\ up = "up"
  /\ trouble = 0

-----------------------------------------------------------------------------
\* The repository: what is computed or written under one hold of the lock.

Row(r) == status[r] # "none" /\ ~pruned[r]

\* retention_disposition
Disposition(policy, st) ==
  IF st \notin Final THEN "active"
  ELSE IF policy = "always" \/ (policy = "on_failure" /\ st # "succeeded") THEN "retain"
  ELSE "remove"

DecisionStatus(r) == IF effective[r] = "none" THEN status[r] ELSE effective[r]
Decision(r) == Disposition(keep[r], DecisionStatus(r))

BrokenNextEffective(r, eff) ==   \* records an outcome that is the row's own
  IF eff = "none" THEN effective[r] ELSE eff

BrokenNextAnew(r, eff) ==        \* an omitted outcome forgets the recorded one
  IF eff = status[r] THEN "none" ELSE eff

\* What a mark with the outcome eff, or without one ("none"), records of it: only
\* what differs from the row's status; a mark without keeps what was recorded.
NextEffective(r, eff) ==
  IF eff = "none" THEN effective[r]
  ELSE IF eff = status[r] THEN "none" ELSE eff

\* mark_retention_terminal_queued.  The manifest's retention block is written anew.
MarkRow(r, sync, eff) ==
  LET next == NextEffective(r, eff)
      remove == Disposition(keep[r], IF next = "none" THEN status[r] ELSE next) = "remove"
  IN  /\ Row(r)
      /\ required' = [required EXCEPT ![r] = sync]
      /\ queued' = [queued EXCEPT ![r] = TRUE]
      /\ effective' = [effective EXCEPT ![r] = next]
      /\ acked' = [acked EXCEPT ![r] = @ \/ ~remove]
      /\ lease' = [lease EXCEPT ![r] = IF remove /\ ~acked[r] /\ @ = "none" THEN "live" ELSE @]
      /\ compacted' = [compacted EXCEPT ![r] = FALSE]
      /\ UNCHANGED <<status, pruned, keep, mode, runDir>>

BrokenDue(r) ==               \* takes a report that is queued for one that is delivered
  /\ Row(r)
  /\ Decision(r) = "remove"
  /\ ~compacted[r]
  /\ queued[r]

\* The order of the checks of _enforce_run_retention_locked.
Due(r) ==
  /\ Row(r)
  /\ Decision(r) = "remove"
  /\ ~compacted[r]
  /\ queued[r]
  /\ ~Unsent(r)
Removable(r) == Due(r) /\ (acked[r] \/ lease[r] = "expired")
DeliveryPending(r) == Due(r) /\ ~Removable(r)

\* rmtree first, then the row.
Remove(r) ==
  /\ files' = [files EXCEPT ![r] = @ /\ ~runDir[r]]
  /\ runDir' = [runDir EXCEPT ![r] = FALSE]
  /\ compacted' = [compacted EXCEPT ![r] = TRUE]
  /\ UNCHANGED <<status, pruned, keep, mode, queued, required, lease, effective>>

Trouble == trouble < MaxTrouble /\ trouble' = trouble + 1

\* A failing rmtree may have removed some files.
RmtreeFails(r) ==
  /\ runDir[r] /\ files[r]
  /\ Trouble
  /\ files' \in {files, [files EXCEPT ![r] = FALSE]}

\* enforce_run_retention, without a fault and with one
Enforce(r) ==
  /\ Row(r)
  /\ \/ Removable(r) /\ Remove(r) /\ UNCHANGED acked
     \/ ~Removable(r) /\ UNCHANGED <<rows, files>>
  /\ UNCHANGED trouble

BrokenEnforceFails(r) ==      \* rmtree with ignore_errors: the row forgets what is still there
  /\ Removable(r)
  /\ RmtreeFails(r)
  /\ runDir' = [runDir EXCEPT ![r] = FALSE]
  /\ compacted' = [compacted EXCEPT ![r] = TRUE]
  /\ UNCHANGED <<status, pruned, keep, mode, queued, required, acked, lease, effective>>

EnforceFails(r) == Removable(r) /\ RmtreeFails(r) /\ UNCHANGED rows

\* Thread switches: the groups that a step of one kind of thread leaves alone.
RunGoes(r, p) == runner' = [runner EXCEPT ![r] = p] /\ UNCHANGED <<job, caught, condemned>>
JobGoes(r, p) == job' = [job EXCEPT ![r] = p] /\ UNCHANGED <<runner, caught, condemned>>
Rest == UNCHANGED <<confirmed, connected, superseded, phase, exchange, sweeps, up>>
Linked == {e \in Event : proof[e] # "none" /\ Row(about[e])}

-----------------------------------------------------------------------------
\* The run: create_run and the thread of _execute_run.

\* create_run makes the directory before there is a row.
StageRun(r) ==
  /\ up = "up"
  /\ runner[r] = "idle"
  /\ \/ /\ job[r] = "idle"
        /\ \E k \in Policy : keep' = [keep EXCEPT ![r] = k]
        /\ UNCHANGED mode
     \/ /\ job[r] = "claimed"
        /\ keep' = [keep EXCEPT ![r] = "on_failure"]
        /\ mode' = [mode EXCEPT ![r] = "remote"]
  /\ files' = [files EXCEPT ![r] = TRUE]
  /\ RunGoes(r, "staged")
  /\ Rest
  /\ UNCHANGED <<events, status, pruned, queued, required, acked, lease, effective, compacted,
                 runDir, scheduled, trouble>>

InsertRow(r) ==
  /\ runner[r] = "staged"
  /\ status' = [status EXCEPT ![r] = "active"]
  /\ acked' = [acked EXCEPT ![r] = mode[r] = "remote"]
  /\ runDir' = [runDir EXCEPT ![r] = TRUE]
  /\ RunGoes(r, "active")
  /\ Rest
  /\ UNCHANGED <<events, pruned, keep, mode, queued, required, lease, effective, compacted,
                 files, scheduled, trouble>>

\* The insert fails: the directory is removed again.
InsertFails(r) ==
  /\ runner[r] = "staged"
  /\ files' = [files EXCEPT ![r] = FALSE]
  /\ RunGoes(r, "done")
  /\ Rest
  /\ UNCHANGED <<events, rows, scheduled, trouble>>

\* enqueue_local_run_update
ReportLocal(r, p) ==
  \/ connected /\ \E e \in Event : Enqueue(e, r, "local_run_update", p, "none")
  \/ ~connected /\ UNCHANGED events

\* _update_local_run on the way to the worker
Advance(r) ==
  /\ runner[r] = "active"
  /\ IF mode[r] = "local" THEN ReportLocal(r, "active") ELSE UNCHANGED events
  /\ RunGoes(r, "running")
  /\ Rest
  /\ UNCHANGED <<rows, files, scheduled, trouble>>

\* update_run with a final status; it writes the manifest in a second transaction.
Commit(r) ==
  /\ runner[r] = "running"
  /\ \E s \in Final : status' = [status EXCEPT ![r] = s]
  /\ RunGoes(r, "committed")
  /\ Rest
  /\ UNCHANGED <<events, pruned, keep, mode, queued, required, acked, lease, effective, compacted, runDir,
                 files, scheduled, trouble>>

RewriteManifest(r) ==
  /\ runner[r] = "committed"
  /\ Row(r)
  /\ compacted' = [compacted EXCEPT ![r] = FALSE]
  /\ RunGoes(r, IF mode[r] = "local" THEN "report" ELSE "require")
  /\ Rest
  /\ UNCHANGED <<events, status, pruned, keep, mode, queued, required, acked, lease, effective, runDir,
                 files, scheduled, trouble>>

\* _update_local_run_terminal_admitted: report, look at what is queued, mark.
Report(r) ==
  /\ runner[r] = "report"
  /\ ReportLocal(r, status[r])
  /\ RunGoes(r, "decide")
  /\ Rest
  /\ UNCHANGED <<rows, files, scheduled, trouble>>

BrokenDecide(r) ==            \* a connection is taken for a queued report
  /\ runner[r] = "decide"
  /\ RunGoes(r, IF connected THEN "mark_sync" ELSE "mark_free")
  /\ Rest
  /\ UNCHANGED <<events, rows, files, scheduled, trouble>>

Decide(r) ==
  /\ runner[r] = "decide"
  /\ RunGoes(r, IF FinalQueued(r) THEN "mark_sync" ELSE IF ~connected THEN "mark_free" ELSE "enforce")
  /\ Rest
  /\ UNCHANGED <<events, rows, files, scheduled, trouble>>

RunMarks(r) ==
  /\ runner[r] \in {"mark_sync", "mark_free"}
  /\ MarkRow(r, runner[r] = "mark_sync", "none")
  /\ RunGoes(r, "enforce")
  /\ Rest
  /\ UNCHANGED <<events, files, scheduled, trouble>>

\* set_retention_sync_required
Require(r) ==
  /\ runner[r] = "require"
  /\ Row(r)
  /\ required' = [required EXCEPT ![r] = TRUE]
  /\ queued' = [queued EXCEPT ![r] = FALSE]
  /\ RunGoes(r, "enforce")
  /\ Rest
  /\ UNCHANGED <<events, status, pruned, keep, mode, acked, lease, effective, compacted, runDir,
                 files, scheduled, trouble>>

\* A failing rmtree is an exception of the run: the run thread tries to commit
\* a failure, which only a failed run accepts, and reports it again.
RunEnforces(r) ==
  /\ runner[r] = "enforce"
  /\ \/ /\ Enforce(r)
        /\ scheduled' = [scheduled EXCEPT ![r] = @ \/ DeliveryPending(r)]
        /\ RunGoes(r, "done")
     \/ /\ EnforceFails(r)
        /\ RunGoes(r, IF status[r] = "failed" THEN "report" ELSE "done")
        /\ UNCHANGED scheduled
  /\ Rest
  /\ UNCHANGED events

\* The row was pruned under the thread.
RunLosesRow(r) ==
  /\ ~Row(r)
  /\ runner[r] \in {"committed", "mark_sync", "mark_free", "require", "enforce"}
  /\ RunGoes(r, "done")
  /\ Rest
  /\ UNCHANGED <<events, rows, files, scheduled, trouble>>

RunStep(r) ==
  \/ StageRun(r) \/ InsertRow(r) \/ InsertFails(r) \/ Advance(r) \/ Commit(r)
  \/ RewriteManifest(r) \/ Report(r) \/ Decide(r) \/ RunMarks(r)
  \/ Require(r) \/ RunEnforces(r) \/ RunLosesRow(r)

-----------------------------------------------------------------------------
\* The server job: _execute_server_job after its claim.

\* _send_server_run_update: nothing is queued for a superseded attempt.
SendUpdate(r, p, s) ==
  /\ r \notin superseded
  /\ \E e \in Event : Enqueue(e, r, "run_update", p, s)

\* The local run a final report carries as its proof: as the wait returned it, or
\* as the except branch finds it.
JobProof(r) == IF mode[r] = "remote" /\ (Row(r) \/ ~caught[r]) THEN status[r] ELSE "none"

Claim(r) ==
  /\ up = "up"
  /\ job[r] = "idle" /\ runner[r] = "idle"
  /\ JobGoes(r, "claimed")
  /\ Rest
  /\ UNCHANGED <<events, rows, files, scheduled, trouble>>

\* The reports before the last: no run is their proof, and some are left out, for
\* the events are few.  A superseded attempt ends here.
ReportProgress(r) ==
  /\ job[r] = "claimed"
  /\ \/ SendUpdate(r, "none", "none") /\ UNCHANGED threads
     \/ r \in superseded /\ runner[r] # "staged" /\ UNCHANGED events /\ JobGoes(r, "done")
  /\ Rest
  /\ UNCHANGED <<rows, files, scheduled, trouble>>

\* The wait for the run ends with a final status of its row.
WaitEnds(r) ==
  /\ job[r] = "claimed"
  /\ mode[r] = "remote" /\ Row(r) /\ status[r] \in Final
  /\ JobGoes(r, IF status[r] = "succeeded" THEN "handoff" ELSE "failing")
  /\ Rest
  /\ UNCHANGED <<events, rows, files, scheduled, trouble>>

\* _prepare_remote_run_artifacts finds the attempt superseded.
HandoffStale(r) ==
  /\ job[r] = "handoff"
  /\ superseded' = superseded \cup {r}
  /\ condemned' = [condemned EXCEPT ![r] = ReportsOf(r)]
  /\ job' = [job EXCEPT ![r] = "suppress"]
  /\ UNCHANGED <<events, confirmed, connected, phase, exchange, sweeps, up, rows, files,
                 runner, caught, scheduled, trouble>>

JobSuppresses(r) ==
  /\ job[r] = "suppress"
  /\ \E e \in condemned[r] :
       /\ Mark(e, "rejected")
       /\ condemned' = [condemned EXCEPT ![r] = @ \ {e}]
  /\ Rest
  /\ UNCHANGED <<rows, files, runner, job, caught, scheduled, trouble>>

\* Every report is marked, or one is gone; a superseded attempt reports nothing.
SuppressEnds(r) ==
  /\ job[r] = "suppress"
  /\ condemned[r] = {} \/ \E e \in condemned[r] : state[e] = "gone"
  /\ condemned' = [condemned EXCEPT ![r] = {}]
  /\ job' = [job EXCEPT ![r] = "done"]
  /\ Rest
  /\ UNCHANGED <<events, rows, files, runner, caught, scheduled, trouble>>

\* The final report; the except branch reports without a row as well, and marks
\* only a final one.
SendFinal(r) ==
  /\ \/ job[r] = "handoff" /\ SendUpdate(r, JobProof(r), "succeeded") /\ JobGoes(r, "mark_succeeded")
     \/ /\ job[r] = "failing"
        /\ SendUpdate(r, JobProof(r), "failed")
        /\ JobGoes(r, IF caught[r] /\ JobProof(r) \notin Final THEN "done" ELSE "mark_failed")
     \/ job[r] \in {"handoff", "failing"} /\ r \in superseded /\ JobGoes(r, "done") /\ UNCHANGED events
  /\ Rest
  /\ UNCHANGED <<rows, files, scheduled, trouble>>

\* _mark_remote_local_terminal_queued
JobMarks(r) ==
  /\ job[r] \in {"mark_succeeded", "mark_failed"}
  /\ MarkRow(r, TRUE, IF job[r] = "mark_failed" THEN "failed" ELSE "succeeded")
  /\ JobGoes(r, "enforce")
  /\ Rest
  /\ UNCHANGED <<events, files, scheduled, trouble>>

JobEnforces(r) ==
  /\ job[r] = "enforce"
  /\ Enforce(r)
  /\ JobGoes(r, "done")
  /\ Rest
  /\ UNCHANGED <<events, scheduled>>

\* An exception: the row is gone, rmtree failed, the job could not start its run,
\* wait for it or hand it off.  The except branch sends a failed report, also
\* after a succeeded one; an exception in that branch ends the thread.
JobRaises(r) ==
  /\ \/ job[r] = "enforce" /\ EnforceFails(r)
     \/ /\ \/ job[r] \in {"mark_succeeded", "mark_failed", "enforce"} /\ ~Row(r)
           \/ job[r] = "handoff"
           \/ job[r] = "claimed" /\ runner[r] # "staged"
        /\ UNCHANGED <<rows, files, trouble>>
  /\ caught' = [caught EXCEPT ![r] = TRUE]
  /\ job' = [job EXCEPT ![r] = IF caught[r] THEN "done" ELSE "failing"]
  /\ Rest
  /\ UNCHANGED <<events, scheduled, runner, condemned>>

JobStep(r) ==
  \/ Claim(r) \/ ReportProgress(r) \/ WaitEnds(r) \/ HandoffStale(r) \/ JobSuppresses(r)
  \/ SuppressEnds(r) \/ SendFinal(r) \/ JobMarks(r) \/ JobEnforces(r)
  \/ JobRaises(r)

-----------------------------------------------------------------------------
\* sweep_run_retention, by the constructor and by each thread in sync_once

SweepRest == UNCHANGED <<confirmed, connected, superseded, exchange, threads>>

SweepStart(s) ==
  /\ phase[s] = "sweep"
  /\ todo' = [todo EXCEPT ![s] = {<<r, queued[r]>> : r \in {q \in Run : Row(q) /\ Decision(q) = "remove"}}]
  /\ Go(s, "next")
  /\ SweepRest
  /\ UNCHANGED <<events, rows, files, scheduled, at, up, trouble>>

SweepNext(s) ==
  /\ phase[s] = "next"
  /\ \E entry \in todo[s] :
       /\ at' = [at EXCEPT ![s] = entry[1]]
       /\ todo' = [todo EXCEPT ![s] = @ \ {entry}]
       /\ Go(s, IF entry[2] THEN "enforce" ELSE "look")
  /\ SweepRest
  /\ UNCHANGED <<events, rows, files, scheduled, up, trouble>>

SweepLook(s) ==
  /\ phase[s] = "look"
  /\ Go(s, IF FinalQueued(at[s]) THEN "mark_sync"
           ELSE IF mode[at[s]] = "remote" THEN "enforce"
           ELSE IF connected THEN "requeue" ELSE "mark_free")
  /\ SweepRest
  /\ UNCHANGED <<events, rows, files, scheduled, sweeps, up, trouble>>

SweepRequeue(s) ==
  /\ phase[s] = "requeue"
  /\ ReportLocal(at[s], status[at[s]])
  /\ Go(s, "recheck")
  /\ SweepRest
  /\ UNCHANGED <<rows, files, scheduled, sweeps, up, trouble>>

SweepRecheck(s) ==
  /\ phase[s] = "recheck"
  /\ Go(s, IF FinalQueued(at[s]) THEN "mark_sync" ELSE "enforce")
  /\ SweepRest
  /\ UNCHANGED <<events, rows, files, scheduled, sweeps, up, trouble>>

SweepMark(s) ==
  /\ phase[s] \in {"mark_sync", "mark_free"}
  /\ MarkRow(at[s], phase[s] = "mark_sync", "none")
  /\ Go(s, "enforce")
  /\ SweepRest
  /\ UNCHANGED <<events, files, scheduled, sweeps, up, trouble>>

\* A failing rmtree is scheduled again, as is a delivery that is pending.
SweepEnforce(s) ==
  /\ phase[s] = "enforce"
  /\ \/ /\ Enforce(at[s])
        /\ scheduled' = [scheduled EXCEPT ![at[s]] = @ \/ DeliveryPending(at[s])]
     \/ /\ EnforceFails(at[s])
        /\ scheduled' = [scheduled EXCEPT ![at[s]] = TRUE]
  /\ Go(s, "next")
  /\ SweepRest
  /\ UNCHANGED <<events, sweeps, up>>

\* The row was pruned: the KeyError is not caught and ends the sweep.
SweepLosesRow(s) ==
  /\ phase[s] \in {"mark_sync", "mark_free", "enforce"}
  /\ ~Row(at[s])
  /\ Go(s, "idle")
  /\ todo' = [todo EXCEPT ![s] = {}]
  /\ SweepRest
  /\ UNCHANGED <<events, rows, files, scheduled, at, up, trouble>>

SweepDone(s) ==
  /\ phase[s] = "next"
  /\ todo[s] = {}
  /\ Go(s, "idle")
  /\ up' = IF s = Main THEN "up" ELSE up
  /\ SweepRest
  /\ UNCHANGED <<events, rows, files, scheduled, sweeps, trouble>>

SweepStep(s) ==
  \/ SweepStart(s) \/ SweepNext(s) \/ SweepLook(s) \/ SweepRequeue(s) \/ SweepRecheck(s)
  \/ SweepMark(s) \/ SweepEnforce(s) \/ SweepLosesRow(s) \/ SweepDone(s)

-----------------------------------------------------------------------------
\* The scheduler, the clients, time, and the life of the process.

Aside == UNCHANGED <<confirmed, connected, superseded, phase, exchange, threads, sweeps, up>>

\* A deadline has passed: that of the lease, or of a retry.
SchedulerEnforces(r) ==
  /\ scheduled[r]
  /\ lease[r] = "live" => acked[r]
  /\ \/ ~Row(r) /\ scheduled' = [scheduled EXCEPT ![r] = FALSE] /\ UNCHANGED <<rows, files, trouble>>
     \/ Enforce(r) /\ scheduled' = [scheduled EXCEPT ![r] = DeliveryPending(r)]
     \/ EnforceFails(r) /\ UNCHANGED scheduled
  /\ Aside
  /\ UNCHANGED events

AwaitsDelivery(r) == Row(r) /\ status[r] \in Final /\ ~acked[r] /\ Decision(r) = "remove"

Renew(r) ==
  /\ up = "up"
  /\ AwaitsDelivery(r)
  /\ lease' = [lease EXCEPT ![r] = "live"]
  /\ scheduled' = [scheduled EXCEPT ![r] = TRUE]
  /\ Aside
  /\ UNCHANGED <<events, status, pruned, keep, mode, queued, required, acked, effective, compacted,
                 runDir, files, trouble>>

\* The acknowledgement and the enforcement are under one hold of the lock, but
\* the first is committed when the second fails.
Acknowledge(r) ==
  /\ up = "up" /\ Row(r)
  /\ status[r] \in Final
  /\ acked' = [acked EXCEPT ![r] = TRUE]
  /\ \/ /\ Due(r) /\ Remove(r)
        /\ scheduled' = [scheduled EXCEPT ![r] = FALSE]
        /\ UNCHANGED trouble
     \/ /\ ~Due(r)
        /\ scheduled' = [scheduled EXCEPT ![r] = FALSE]
        /\ UNCHANGED <<status, pruned, keep, mode, queued, required, lease, effective, compacted,
                       runDir, files, trouble>>
     \/ /\ Due(r) /\ RmtreeFails(r)
        /\ UNCHANGED <<status, pruned, keep, mode, queued, required, lease, effective, compacted, runDir,
                       scheduled>>
  /\ Aside
  /\ UNCHANGED events

\* prune_runs of a finished run with nothing unsent, its events with it
PruneRow(r) ==
  /\ up = "up"
  /\ Row(r) /\ status[r] \in Final
  /\ ~Unsent(r)
  /\ pruned' = [pruned EXCEPT ![r] = TRUE]
  /\ files' = [files EXCEPT ![r] = @ /\ ~runDir[r]]
  /\ Delete(EventsOf(r))
  /\ Aside
  /\ UNCHANGED <<status, keep, mode, queued, required, acked, lease, effective, compacted, runDir,
                 scheduled, trouble>>

\* prune_runs of a directory that no row names
PruneOrphan(r) ==
  /\ up = "up"
  /\ files[r]
  /\ ~(Row(r) /\ runDir[r])
  /\ files' = [files EXCEPT ![r] = FALSE]
  /\ Aside
  /\ UNCHANGED <<events, rows, scheduled, trouble>>

LeaseExpires(r) ==
  /\ lease[r] = "live" /\ ~acked[r]
  /\ lease' = [lease EXCEPT ![r] = "expired"]
  /\ Aside
  /\ UNCHANGED <<events, status, pruned, keep, mode, queued, required, acked, effective, compacted, runDir,
                 files, scheduled, trouble>>

\* What the process holds in memory is lost.
Die ==
  /\ up # "down"
  /\ Trouble
  /\ up' = "down"
  /\ phase' = [s \in Sweeper |-> "idle"]
  /\ batch' = [s \in Sweeper |-> {}]
  /\ taken' = [s \in Sweeper |-> {}]
  /\ tried' = [s \in Sweeper |-> {}]
  /\ single' = [s \in Sweeper |-> FALSE]
  /\ doomed' = [s \in Sweeper |-> {}]
  /\ runner' = [r \in Run |-> IF runner[r] = "idle" THEN "idle" ELSE "done"]
  /\ job' = [r \in Run |-> IF job[r] = "idle" THEN "idle" ELSE "done"]
  /\ caught' = [r \in Run |-> FALSE]
  /\ condemned' = [r \in Run |-> {}]
  /\ scheduled' = [r \in Run |-> FALSE]
  /\ todo' = [s \in Sweeper |-> {}]
  /\ superseded' = {}
  /\ UNCHANGED <<events, confirmed, connected, at>>

Crash == Die /\ UNCHANGED <<rows, files>>

\* A crash between rmtree and the row, or within rmtree
Enforcing(r) ==
  \/ runner[r] = "enforce" \/ job[r] = "enforce" \/ scheduled[r]
  \/ \E s \in Sweeper : phase[s] = "enforce" /\ at[s] = r

HalfRemoved(r) == runDir[r] /\ files' = [files EXCEPT ![r] = FALSE]

CrashRemoving(r) ==
  /\ Die
  /\ Removable(r) /\ Enforcing(r)
  /\ HalfRemoved(r)
  /\ UNCHANGED rows

CrashAcknowledging(r) ==
  /\ up = "up" /\ Due(r)
  /\ Die
  /\ HalfRemoved(r)
  /\ acked' = [acked EXCEPT ![r] = TRUE]
  /\ UNCHANGED <<status, pruned, keep, mode, queued, required, lease, effective, compacted, runDir>>

CrashPruning(r) ==
  /\ up = "up" /\ Row(r) /\ status[r] \in Final /\ ~Unsent(r)
  /\ Die
  /\ HalfRemoved(r)
  /\ UNCHANGED rows

\* The constructor: _normalize_persisted_run_telemetry, then the sweep of Main.
\* A report that was not delivered is written anew from the row, or retired with it.
Undelivered(e) == state[e] \in {"pending", "rejected"} /\ kind[e] = "local_run_update"

Restart ==
  /\ up = "down"
  /\ up' = "starting"
  /\ Go(Main, "sweep")
  /\ \E old \in SUBSET Expirable(Linked) :
       /\ state' = [e \in Event |-> CASE e \in old -> "gone"
                                      [] Undelivered(e) /\ ~Row(about[e]) /\ e \notin old -> "rejected"
                                      [] OTHER -> state[e]]
       /\ proof' = [e \in Event |-> IF Undelivered(e) /\ Row(about[e]) /\ e \notin old
                                     THEN status[about[e]] ELSE proof[e]]
  /\ UNCHANGED <<about, kind, says, confirmed, connected, superseded, exchange, rows, files,
                 threads, scheduled, sweeps, trouble>>

-----------------------------------------------------------------------------
Unswept == UNCHANGED <<rows, files, threads, scheduled, sweeps, up>>

Deliver(s)    == up = "up" /\ SyncStep(s) /\ Unswept /\ UNCHANGED trouble
Misdeliver(s) == SyncFault(s) /\ Unswept /\ Trouble
AgeEvents(s)  == Expire(s, Linked) /\ Unswept /\ Trouble
PruneEvents   == up = "up" /\ PruneQueue /\ Unswept /\ Trouble
Reconnect     == up = "up" /\ ChangeConnection /\ Unswept /\ Trouble

Client(r) == Renew(r) \/ Acknowledge(r) \/ PruneRow(r) \/ PruneOrphan(r)

Fault(r) == CrashRemoving(r) \/ CrashAcknowledging(r) \/ CrashPruning(r)

RetentionNext ==
  \/ \E r \in Run : RunStep(r) \/ JobStep(r) \/ SchedulerEnforces(r) \/ Client(r) \/ LeaseExpires(r)
                    \/ Fault(r)
  \/ \E s \in Syncer : Deliver(s) \/ Misdeliver(s) \/ AgeEvents(s)
  \/ \E s \in Sweeper : SweepStep(s)
  \/ PruneEvents \/ Reconnect \/ Crash \/ Restart

RetentionSpec == RetentionInit /\ [][RetentionNext]_retentionVars

-----------------------------------------------------------------------------
\* Properties

\* A row that waits for a report, and for nothing else, has one: what the daemon
\* takes for durable (retention_terminal_queued) was queued before, whatever
\* thread set the flag and whatever died in between.
ReportIsDurable ==
  \A r \in Run : queued[r] /\ required[r] =>
    \E e \in Event : state[e] # "none" /\ about[e] = r /\ proof[e] \in Final

\* No directory is lost sight of: the files of a run are named by its row, or
\* there was never a row.  A crash in a removal, a pruning or an insertion leaves
\* the row that names them, or no files.
NoLeakedDirectory ==
  \A r \in Run : files[r] => \/ Row(r) /\ runDir[r]
                            \/ status[r] = "none"

\* The outcome of the run has reached the server, or its report was given up.
Reported(r) ==
  \E e \in Event : /\ about[e] = r /\ proof[e] \in Final
                   /\ \/ state[e] = "sent" /\ e \in confirmed
                      \/ state[e] = "gone"

\* The files of a run go only when it has ended and no report of it is unsent;
\* retention takes them only from a run whose policy removes it, after the client
\* has them or its lease is over, and the server has its outcome.
RemovalIsEarned ==
  [][\A r \in Run :
       /\ files[r] /\ ~files'[r] =>
            \/ status[r] = "none"
            \/ status[r] \in Final /\ ~Unsent(r)
       /\ runDir[r] /\ ~runDir'[r] =>
            /\ Decision(r) = "remove"
            /\ acked'[r] \/ lease[r] = "expired"
            /\ required[r] => Reported(r)]_retentionVars

\* What has been decided to be kept is kept: no later mark, of a job, a sweep or
\* a run's thread that works on a flag it read before, turns the decision, and
\* the row goes on naming the files (_mark_remote_local_terminal_queued against
\* sweep_run_retention).
RetainedForGood ==
  [][\A r \in Run : Row(r) /\ Decision(r) = "retain" =>
       /\ Decision(r)' = "retain"
       /\ runDir[r] => runDir'[r]]_retentionVars

\* The outbox implements at-least-once delivery, whatever the job threads, the
\* sweeps, the clients and the crashes do to its rows.
Standing == [e \in Event |-> CASE state[e] = "none"    -> "none"
                               [] state[e] = "pending" -> "owed"
                               [] state[e] = "sent"    -> "settled"
                               [] OTHER                -> "dropped"]
Underway == UNION {batch[s] : s \in {t \in Sweeper : phase[t] \in {"asked", "marking"}}}

Delivery == INSTANCE AtLeastOnce WITH standing <- Standing, underway <- Underway, taken <- confirmed
DeliveryRefined == Delivery!DeliverySpec

\* tests/daemon/test_sol_083_retention.py: a run whose hand-off the daemon reports
\* as failed keeps its files under keep = "on_failure".
FailedHandoffKept ==
  \A e \in Event :
    LET r == about[e]
    IN  state[e] # "none" /\ says[e] = "failed" /\ kind[e] = "run_update"
          /\ mode[r] = "remote" /\ keep[r] = "on_failure" /\ Row(r) => runDir[r]
=============================================================================
