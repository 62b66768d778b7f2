# A verification project for splime's daemon

splime runs user pipelines: a client SDK (`SPLClient`), a pure core (`spl.core`:
the IR, adapters, resume planning, node runtimes) and `spl-daemon`, the local
runtime that stores runs in SQLite, builds environments, starts worker
processes, pools docker containers and exchanges jobs and events with a central
server. These modules model the part of it where order matters, which is the
daemon: threads, leases, retries, and a supervisor that wants to stop the
process when it is idle.

All paths below are relative to `src/src/spl`.

## Inventory

| component | state it keeps | operations | how it interacts |
|---|---|---|---|
| lifecycle controller, `daemon/lifecycle.py` | admission flag and revision, live work records, completion lineages, scheduled drain, claim boundary, permanent doubts, stop flag, exit thread | reserve_root, reserve_descendant, begin_sync, admit_remote_claim, activate, complete, seal_lineage, mark_boundary_*, request_drain, cancel_drain, bind_exit_callback | every root operation of the daemon holds one of its leases; the commit of a stop calls back into the server |
| daemon threads, `daemon/server.py` | per-thread program counters, the sync lock, the run threads | sync_once, accept_server_job, _execute_server_job, start_run, the run thread, the drain coordinator | call the controller between their own steps, without its lock |
| startup receipt, `daemon/lifecycle_startup.py` | one receipt per child process | publish, read once | the supervisor reads it before the first request |
| home lock, `daemon/home_lock.py` | lock file payload, identity file | acquire, release | one daemon per home; the generation names the instance |
| run store and retention, `daemon/repositories/run.py`, `daemon/store.py` | run rows, run directories, delivery leases | create, update, mark terminal, renew, acknowledge, enforce, prune | the outbox, the retention scheduler and the routes |
| sync outbox, `daemon/repositories/sync_event.py` | durable events and their status | enqueue, list, mark sent or failed, expire, prune | filled by run updates, emptied by sync_once |
| docker pool, `daemon/docker_pool.py` | containers, starting slots, leases, quarantine | prewarm, ensure, use, release, quarantine, evict, shutdown | run threads wait on its condition |
| docker backend, `daemon/docker_environment.py`, `daemon/runtime_backend.py` | none of its own | command lines | used by the pool and the builds |
| environment builds, `daemon/environment_base.py`, `daemon/environment.py` | build threads, ready and failed rows | ensure, build, wait | leases of the controller |
| heartbeat, `daemon/heartbeat_service.py` | one loop per connection, stop events | start, ensure, stop, watchdog, shutdown | calls sync_once |
| server connection, `daemon/repositories/server_connection.py`, `daemon/server_connection.py` | connection row, secret | connect, disconnect, identity checks | sync_once and the coordinator read it |
| catalogue sync, `daemon/catalogue_sync.py` | catalogue rows | pull, reconcile | after an exchange |
| callback capabilities, `daemon/callback_capability.py` | live capabilities | issue, use, revoke | a run's worker calls back |
| browser adapter runs, `daemon/browser_adapter_run.py` | preflights and their expiry | preflight, admit, cancel, shutdown | routes and run threads |
| guarded runs, prepared validation, `daemon/guarded_local_run.py`, `daemon/prepared_validation.py` | none | admit against the registry | enter the controller as local runs |
| worker and remote client, `daemon/worker.py`, `daemon/remote_client.py` | a process of its own | run user code | its exit ends the run thread's wait |
| registry, `daemon/repositories/object.py`, `library_adapter.py` | content-addressed rows | SQL under one lock | routes |
| resume planning, node runtimes, `core/resume.py`, `core/node_runtime.py` | none | pure functions of a graph and a previous run | a run's preparation |
| manifest, redaction, contracts, IR, client SDK, routes, CLI | none that matters here | conversions and wrappers | |

### Hard behaviours

* **When-idle stop.** A supervisor schedules a drain; admission closes; the
  daemon stops when everything it admitted is settled and one last flush with
  the central server succeeded. In between, polls admitted before the drain
  still return jobs, runs end, waits time out, the supervisor cancels and
  drains again, coordinators of an old drain finish late, and the exit callback
  may raise. The controller is right when a stop commits only over settled
  work, no wake-up is lost, a committed stop is not taken back, and what was
  lost track of is never forgotten.
* **Failures between two steps.** Threads that do not start, store writes that
  raise before or after they took effect, exchanges whose answer is lost. The
  threads are right when whatever they give up on is settled or counted.
* **Crashes.** The home lock writes three files between the moment it has the
  system's lock and the moment it serves; retention removes a directory before
  it updates the row that names it. They are right when the next process sees
  that the last one did not end well and no file is lost sight of.
* **Durable reports.** A run's outcome is queued, looked up and marked in three
  steps, by up to three threads, while batches are sent, refused, confirmed,
  suppressed, expired and pruned. It is right when files go only after whoever
  needs them has them, and a report is settled only by the server's word.
* **Capacity and waiters** (docker pool): starts outside the lock, waits without
  a time-out, workers that outlive their lease.
* **Wedged threads** (heartbeat): joins that time out, a watchdog, replacements
  and a shutdown over threads that may sit in a call to the server.

`PROJECT.json` lists each of these at its line under `hazards`, with the
property that would catch it, or with a note why none does.

## Modules

| module | models | composes |
|---|---|---|
| `WhenIdleStop` | the abstract promise: work is owed or a flush, the gate is open, closed or stopping | |
| `Lifecycle` | `LifecycleController` | implements `WhenIdleStop` |
| `DaemonWork` | the threads of `server.py` around the controller | extends `Lifecycle` |
| `WarmLeases` | the abstract promise of the pool: a container is leased to one user at a time, empty and for its key, or retired | |
| `DockerPool` | `DockerPool` and the runs and prewarms that lease its containers | implements `WarmLeases` |
| `AtLeastOnce` | the abstract promise of the outbox: a report is owed until it is settled or dropped | |
| `SyncOutbox` | the durable events and the threads that deliver them | |
| `RunRetention` | run rows, directories and everything that marks, delivers, removes and prunes them, with restarts | extends `SyncOutbox`, implements `AtLeastOnce` |
| `HomeLock` | the lock, identity and endpoint files of a home along the life of `serve()` | |
| `Heartbeat` | the heartbeat service: one loop per connection, requests, watchdog, shutdown | |
| `DaemonLife` | the processes that serve a home one after the other, each with a store and a heartbeat service | extends `HomeLock` and `Heartbeat` |
| `MCLifecycle`, `MCDaemonWork`, `MCDockerPool`, `MCRunRetention` | small instances (`DaemonLife` needs none) | |
| `LifecycleProofs`, `DaemonProofs`, `DrainProofs`, `DockerPoolProofs`, `RunRetentionProofs`, `DeliveryProofs`, `HomeLockProofs`, `DaemonLifeProofs` | theorems and proofs | |

Definitions named `Broken...` are deliberate faults: each is a plausible error
in the definition that follows it, and substituting it makes TLC violate the
property `PROJECT.json` pairs it with. No specification uses them.

### Lifecycle

One action per controller method; every method runs under the controller's one
lock. A variable is the field its comment names. Callers are arbitrary: any
method with any argument at any time, so what holds here holds for every user
of the controller. A rejection that changes nothing is a stutter; a rejection
that records unknown work is an action (`RejectDescendant`,
`RejectRemoteClaim`, `SealUnknownLineage`). `MaybeCommitStop` is the last
conjunct of exactly the actions whose methods end with
`_maybe_commit_stop_locked`.

Abstractions: the proof strings, instance identity and replay checks of the
HTTP control plane reject without a state change; one work kind, `local_run`,
stands for all kinds that are both roots and descendants; the counters of
permanent doubt are booleans (only zero is ever tested); work and lineage ids
may be reused once dropped, which allows more than the random ids of the code.

### DaemonWork

Each thread is a program counter whose steps are single controller calls, or
the work between two of them, so threads interleave wherever the code has
released the controller's lock:

* `sync[s]`: a heartbeat or the coordinator of drain `s` inside `sync_once`:
  `begin_sync`, the exchange, the accept loop, the boundary mark, and the
  `finally` that completes the lease;
* `job[j]`: a server job from assignment through `accept_server_job` and its
  thread to the completion of its claim;
* `run[r]`, `row[r]`: a local run from `start_run` through its thread to its
  terminal commit, and its durable row;
* `mutation[m]`: a connect or disconnect request; `connected` is what the
  credentials lookup answers;
* `closed`: `serve()` has shut the runtime down and closed the store.

A drain is scheduled in one step and its coordinator started in another, as in
`request_lifecycle_drain`: when `thread.start()` raises, the drain stands
(`sync[d]` is `unstarted`) until the supervisor repeats its request. A request that
rewrites the connection under an exchange makes that exchange `stale`: the row it
would write to may have been replaced and pruned.

Faults (`Fault`): `network` (an exchange fails before or after it was sent),
`store` (an access raises, a write before or after it took effect), `thread`
(`Thread.start` raises, for a job, a run or a coordinator), `handoff` (a job is
refused or its handoff raises), `files` (what `_execute_run` does outside its `try`
raises, or the state file that goes with a row), `shutdown` (the store is closed
while run threads outlive their join). A store that is closed raises at every access;
only the terminal commit swallows that (`CommitSkipped`).

Abstractions: an exchange is one step, since `_server_sync_lock` serialises it
and it makes no controller call; the central server honours
`claim_jobs=False`, as `sync_once` requires of the answer before it proves the
boundary; payload work (adapters, artifacts, manifests, HTTP) is one step with
its outcomes; leases nested strictly inside another lease of the same lineage
(callbacks, builds, sweeps) add no step. A row is absent, live or terminal: which
terminal status it has, and so the status that a second commit overwrites, is not
seen.

### DockerPool

What the code does between two waits under the pool's condition is one action;
waiting, `docker run`, the worker and the destruction of a quarantined
container are steps of their own, so other threads get in between. `pc[u]` is
where a call of `ensure_container`, and the run or prewarm that made it, has
got to: `ready` is the head of the loop, `waiting` is `Condition.wait`, and
`WakeAndGoto` is `notify_all`. `containers` and `starting` are the two tables;
a container is named by its generation, since docker's name and immutable id
carry it. `docker`, `orphans` and `workers` are the outside: what docker has,
what the pool has given up on, and the worker processes inside containers. A
worker outlives its docker client when the client is killed at a time-out.

Abstractions: time is left out, so any idle container may have been idle too
long or may have stopped running, and the least recently used one may be any
idle one. Each call gets a lease id of its own. `enabled` is true and
`pool_size` positive, as the pool requires of a caller. The end of the docker
client of a run that has not timed out is the end of its worker, which is what
`docker exec` promises; what a worker leaves behind in its container is not
modelled. The branch of `ensure_container` for a container that appeared under
the key of a start is left out of `Adopt`, because `StartsAlone` makes it dead.

### SyncOutbox and RunRetention

`SyncOutbox` is `repositories/sync_event.py` with the delivery loop of
`_sync_once_admitted`. `state` is the status column; an event keeps the run it
is `about`, its `kind`, the local status it is a `proof` of and what a server
job's report `says`. `phase[s]` is where a thread in `sync_once` is: it picks a
batch of one attempt, asks, and marks the receipts one by one; a refused batch
is tried one by one, a single refused event is retired, and a reclaimed attempt
has its reports suppressed, each by a statement of its own. `Mark` has no guard
on the status, as the SQL has none.

`RunRetention` adds the row and the files of each run, and everybody who writes
them: `runner[r]`, the run's thread from `create_run` through its terminal
commit to the enforcement; `job[r]`, the thread of the server job that started
it, with its except branch; the sweep after an exchange and the sweep of the
constructor (`Main`); the retention scheduler; and the client's requests (renew,
acknowledge, prune). What the code does under one hold of the store's lock is
one action. `MarkRow` is `mark_retention_terminal_queued`; `Due` and `Removable`
are the checks of `_enforce_run_retention_locked` in their order. `Crash` loses
what is in memory at any moment; `CrashRemoving`, `CrashAcknowledging` and
`CrashPruning` also leave a removal half done. `Restart` normalises the reports
that were not delivered, and then the constructor sweeps.

Abstractions: the files of a run are one unit, so a removal that stops half-way
has removed them or not, and a state file that a late write creates anew after a
removal is not seen. Batch sizes are any, ages are any (`Expire` takes any part
of what may be too old), and time is the choice whether a lease has expired. The
diagnostics, the results an answer brings and the events of other kinds are left
out. Transactions are durable when they return: loss of power is not modelled.

### HomeLock, Heartbeat and DaemonLife

`at[p]` is where process `p` is between `acquire` and `release`; each write of
the lock file is two steps, `Tear...` (truncate) and `Record...`, and a crash
may come between any two. `Previous`, `CleanStop` and `StaleTakeover` are the
expressions of `acquire`. `settled` is a history variable: the daemon of the
last generation is done with its store. A `RegistryStore` whose constructor raises
is never closed by `serve()`, but nobody has it, so `OpenFails` counts as done.

`Heartbeat` has the registry (`threads` with its `_stops`), the threads that are
`alive`, those that are in a call (`calling`) and those told to stop
(`stopped`). A caller of the service is a request, the watchdog, or the thread
that builds and shuts down the runtime; its stages are the places where it holds
`_lifecycle_lock`, waits for it, or joins. A join ends whether the thread has
ended or not. The thread identities are reused once a thread has ended, which
nobody can tell.

`DaemonLife` ties them: a store is opened after the home is acquired and closed
before it is released, on the error paths too; heartbeat threads may outlast the
store and even the lock, but not the process. The constructor restores the
heartbeat before or after it fails; what `shutdown` raises is swallowed, so a
store may be closed over heartbeats that were never halted.

Abstractions: a heartbeat's round is one call with its outcomes (`DaemonWork`
has what it exchanges); a connection is a name, and which one is current is what
requests and a late record of a heartbeat make it; a thread that cannot be
started is left out. `LifeEnd` ends a process with the release of its lock, although
it exits a little later: its store is closed by then, so a thread left over can only
end, and no step of the home is its own. The copied identity file and the home hash, Windows' lock
and daemons older than the lock are left out of `HomeLock`.

## Runs

| run | instance | states | shows |
|---|---|---|---|
| `lifecycle` | 2 works, 2 lineages, 4 revisions (two drains and their cancels), symmetric | 82,040 | the controller's invariants, `DoubtNeverCommits`, `CommitIsFinal`, and that it implements `WhenIdleStop` |
| `daemon_claims` | one heartbeat, one job with its run, drain, cancel; every fault | 1,184,000 | the stop waits for every thread; what is given up on is counted, save a run over a closed store; whatever an undecided drain waits for is in the hands of a thread, save a leaked lease and a coordinator that did not start |
| `daemon_redrain` | one job, one user run, one connect or disconnect request, two drains whose coordinators overlap; network faults | 2,252,000 | late marks of the first drain do not let the second stop before its threads; only claimed runs start behind the gate |
| `daemon_live` | one heartbeat, one job, one drain; store and thread faults | 287,000 | under fairness every drain is decided, or has no coordinator because none started, and every claim settles or is counted |
| `docker_pool` | three calls for two keys, room for one | 22,700 | capacity counts the starts outside the lock; one worker in a container; no container forgotten; nobody waits for nobody; a shut-down pool stays empty; it implements `WarmLeases`; under fairness every call and run ends, also over a shutdown, and so does the shutdown |
| `run_retention` | one run with the policy "never" or of a server job (then "on_failure"), two events, one syncer beside the constructor's sweep, one trouble anywhere | 811,000 | marks have reports, files go only when earned and are never lost sight of, what is to be kept stays kept, the outbox implements `AtLeastOnce` |
| `daemon_life` | two processes, two generations, two connections with two threads each, one request at a time | 326,000 | one owner, growing generations, noticed takeovers, a store only under the lock, one heartbeat loop per connection; under fairness a wedged or dead loop is replaced and none outlasts the store for good |
| `sealed_run`, `stranded_run`, `dropped_job`, `late_connect`, `kept_failure` | smallest instance that shows it | | see Findings |

Why the bounds are enough to be interesting. Two works and two lineages are
what it takes for a lineage to have a sibling, for a flush to overlap a poll and
for one lease to be completed while another keeps the stop waiting. Four
revisions are open, drained, cancelled, drained again: a mark or a cancel that
belongs to an earlier drain can arrive in a later one. One job and one
heartbeat already overlap with a coordinator per drain. Two calls of one key
are what it takes to wait for a lease or a start, and one key more than the
pool has room for what it takes to wait for room and to evict.

Rows of different runs meet only in a batch, and events of one batch share an
attempt, so one run with two events has the interesting cases: a report beside
the final one, a batch of two that is refused and tried one by one, a report
made anew by a sweep. The policy "never" is the one under which files go after
either end, and a server job brings "on_failure". `MaxTrouble` bounds deaths,
failing removals, requests that get no receipts, changes of the connection and
prunings together; one of them anywhere is what the properties are about. Two
processes and two generations are a daemon and its successor, over any crash; two
connections with two threads are a replacement and an old thread that is still
in its call. The theorems below cover every other size.

`CHECK_DEADLOCK` is switched off where the system may stop: the pool, when every
call has ended and it is shut down (`CallsEnd` and `ShutdownEnds` would see a
call that stops earlier); `run_retention` and `kept_failure`, when the run and its
reports are done with; and `daemon_life`, when the generations of the bound are
used up. Elsewhere the supervisor and the clients always have a step, or a thread
has.

### Fairness

`FairDaemonSpec` assumes weak fairness of what the operating system schedules: a
started thread's next step (`SyncStep`, `CoordinatorStep`, `JobStep`,
`RunStep`), an admitted request's end (`EndMutation`) and the binding of the
exit callback at start-up. Nothing is assumed of the supervisor, the clients,
the heartbeat's next round or a wait's time-out. `FinitelyManyReplays` is needed
and is a fact about the supervisor, not the code: every repeated drain request
may start a coordinator whose flush overlaps a heartbeat's flush, and a
supervisor that never stops repeating can keep the daemon busy for ever.
`DrainDecides` also accepts two outcomes that the code does not repair by itself. A
`leaked` run: a write that raises after the lease was bound keeps that lease for ever,
and then no drain commits. And a drain that is `Unattended`: its coordinator's thread
did not start, which the supervisor sees as the failure of its request, and nobody
but the supervisor, by repeating it, starts another.

`FairPoolSpec` assumes weak fairness of each call once begun (docker's commands
have time-outs, and a worker ends or exceeds its own) and of a shutdown that was
woken. A call that never begins is allowed. `CallsEnd` is about finitely many
calls: `notify_all` is not a queue, and with new calls for ever a waiter could
be passed by for ever.

`FairLifeSpec` assumes weak fairness of each caller's steps once begun, of the
ends of a loop (calls to the server, joins and waits have time-outs) and of the
watchdog's rounds. Nobody has to send a request, a daemon need not stop, and a
loop need not call. `HeartbeatRecovers` speaks of a connection that stays
current while no replacement or stop is under way: a supervisor that replaces
for ever may keep it without a loop.

`RetentionSpec` has no fairness: which sweep removes a directory in the end is
liveness over a state space that TLC does not finish at this module's size.

## Proofs

Assumptions: `LifecycleAssumption` (`MaxRevision` is a positive natural) and
`DaemonAssumption` (the lease names are work and lineage ids). `DrainProofs` also
uses `NamesDiffer`: a server job is no run of a local client and a heartbeat no
coordinator, which the code's fresh ids and its two kinds of callers give. The proofs hold
for every set of works, lineages, heartbeats, jobs, runs and requests, every
`MaxRevision` and every set of faults.

`LifecycleProofs`: the inductive invariant is `IInv`. The safety properties
alone are not inductive. To know that a claim finds no poll once stopping, one
must know that drain lineages hold descendants only (`DrainWorkInv`) and that a
committed table holds drain lineages only (`StoppingInv`); to know that a stop
found an empty lineage table, that sealed lineages have live work
(`LineagesAccounted`). `StepFacts` collects what each action does to the gate.
From `IInv`: `TypeCorrect`, `StopIsClean`, `NoLostWakeup`, `TableIsExact`,
`DoubtBlocksForEver`, `CommitStands`, and `ImplementsPromise`, where each
action maps to one of `WhenIdleStop` or a stutter under
`owed <- lineages \ drainLineages`, `flushing <- drainLineages`.

`DaemonProofs`: `DaemonUsesController` shows that every step of a thread is a
method of the controller or leaves it alone, so `IInv` holds in the composition.
`DaemonInv` adds `Held` (a thread between admission and completion holds its
live lease under the lineage the code gave it), `JobsCounted` and `RunsCounted`
(what ended unaccounted is counted, unless the store was closed under it) and
`StopSettles`. The argument for
`StopHasWaited` is then short: a live lease outside a drain lineage contradicts
a commit. From it: `DaemonTypeCorrect`, `StopHasWaited`, `GivingUpCounts`,
`NoLateAssignment`, `DrainOnlyDrains`.

`DrainProofs` is about what the drain waits for. `DaemonInv` says that a thread
that holds work has its lease; the converse is what a drain needs to end, and
`StopHasWaited` says nothing of it: a lease that nobody will complete would also
keep the stop waiting, for ever. The inductive invariant is `BookInv`: every lease
of the controller's table belongs to a thread that has yet to complete it (`Book`),
every open lineage to one that has yet to seal it (`Holders`), every assigned job
sits in the inbox of one exchange (`InboxBook`), and a pending boundary has the
coordinator of that drain or a request that is to start one, unless starting it
failed (`CoordinatorBook`). None of them is inductive alone: a
claim's lineage is opened in one thread and sealed in another, and the run below it
adds leases of a third, so the book must know of each hand-over which side has it.
With `NoMissedCommit`, which commits a drain that waits for nothing, `UndecidedWaits`
follows: whatever faults there are, a drain that is neither committed nor failed nor
in doubt has a thread to wait for, or a run whose lease leaked, or a coordinator that
did not start. `DrainDecides` accepts the last two as well.
This is the safety half of `DrainDecides`: what fairness adds is that the thread moves.

Four more theorems of `DrainProofs` say of the statements that the runs refute when
they hold. `ClosedWithoutLoss`: no network, store or shutdown faults, and no request
rewrites the connection under an exchange (`Rewritten`), which could let the poll meet
a row that is gone. `IdleOverTerminalRows`: no thread, store or shutdown faults.
`UserRunsAreWritten`: no store, files or shutdown faults, for the runs of local
clients. `NoLeaseIfConnectionStands`: the connection does not change.
`DaemonKeepsPromise` carries the controller's promise to the composition.

`DockerPoolProofs`, from `PoolAssumption` (`PoolSize` is a positive natural,
every call has a key, `Free` is no call): the inductive invariant is `PoolInv`.
`Tables` says who is under which key: keys are unique, a start has its key to
itself, and the lease of a record belongs to a run that still holds it. `Room`
is the capacity; it needs `Tables` to know that an adopted start gives its slot
back. `Apart` is about generations: a call that starts, leases or still has a
worker inside claims its generation alone, so a lease that was retired cannot be
reached again, and a worker of a retired container has no record any more. With
it, `Forgotten` tells the containers of a failed start from those of another.
`Closing` and `WaitersHaveAWaker` use all of these: `FullPool` shows that who
waits for room has found a start or a lease. From `PoolInv`: `PoolTypeCorrect`,
`CapacityKept`, `WorkersIsolated`, `StartsKeepToThemselves`,
`NoContainerForgotten`, `NoLostWakeup`, `ShutDownForGood`. The proofs hold for
any calls (also infinitely many), keys and pool size.

`PoolKeepsLeases` shows that `PoolSpec` implements `WarmLeases`, with the call as
the user: `ReserveStart` maps to `Start`, a failed or discarded start to `Abandon`,
`LeaseWarm` to `Lease`, `Release` to `GiveBack`, `Retire`, `Destroy` and `Adopt` to
their namesakes, a pass that ends in a wait to `EvictIdle`, a shutdown to `Close` or
`Shut`; waiting, validating, `docker run` and time-outs map to a stutter. The hard guards are
the ones the code never tests: nobody is inside a container that is leased or given
back, because a worker's run claims its generation; and a worker enters under a
lease that still stands, or after the shutdown took all of them. The second needs
`Standing` beside `PoolInv`: only a shutdown takes a container from the run that leases it,
and a retired generation has no record, nor a start that could bring it back.

`RunRetentionProofs`, from `OutboxAssumption` (the constructor's thread is not a
syncer) and `RetentionAssumption` (policies are keep values, `MaxTrouble` is a
natural), for any runs, events, syncers and faults: the inductive invariant is
`RetentionInv`. `RunnerInv` and `JobInv` tie where a thread is to its row: a job
reports an end only of a run that has ended. `QueuedInv` is why
`ReportIsDurable` is inductive: who is about to mark a row (a run's thread, a
job, a sweep) has queued a final report or seen one, and a final proof is about
a run that has ended, which never becomes live again. `ExchangeInv` says that one
thread is in an exchange at a time, that what it works on is not settled and that
"sent" has the server's word. `NoLeakedDirectory` needs
`RunnerInv`: a thread that makes or removes a directory before its row has none. The proof
first classes what a step may do to the events (`QuietStep`, `EventStep`), so
that each part is shown once per kind of thread instead of once per action. From
the invariant: `RetentionTypeCorrect`, `MarksHaveReports`, `NothingLeaks`,
`KeepingStands` and `RemovalsAreEarned`. `KeepingStands` says that a decision to keep a
run's files is final: a later mark without an outcome keeps the recorded one, and the
one mark that brings an outcome comes from a job that finds none recorded
(`JobInv`). `RemovalsAreEarned` follows because `Due` looks at everything but
the report itself, and a marked row with nothing unsent must have one that was
confirmed or is gone.

`DeliveryProofs` shows `OutboxDelivers`, that `RetentionSpec` implements
`AtLeastOnce`. A report's `standing` is its status, what is `underway` the batch
of the thread in the exchange, `taken` what the server has confirmed. An enqueue
maps to `Queue`; `PickBatch` to `Offer`; `Answer`, `LoseAnswer`, the refusals, and
a death of the process to `Take`; `MarkReceipt` and `RetireEvent` to `Resolve`;
suppression, expiry, pruning and the normalisation at a restart to `Drop`; every
other step to a stutter. `ExchangeInv` is what makes `Offer` and `Resolve` find
their guards, although `Mark` has none.

`HomeLockProofs`, from `HomeAssumption` (`Nobody` is no process, `MaxGeneration`
is a natural): `HomeInv` adds to the types `LockIsHeld` (who is past `Lock` has
the system's lock, and only it), `Numbered`, and `StopsAreSettled`: a "stopped"
that names the last generation was written by the daemon of that generation,
after it closed its store. `StaleNoticed` then is a short case split, and
`GenerationsIncrease` needs that the lock file never runs ahead of the identity
file. Theorems: `HomeTypeCorrect`, `OneOwner`, `TakeoversNoticed`,
`GenerationsGrow`.

`DaemonLifeProofs`, also from `HeartbeatAssumption`: `LifeUsesHome` shows that
the composition only takes steps of the home lock, so those theorems hold in it.
`HeartInv` needs `OneLoop` together with the registry's types: a connection whose
registered thread is dead has no thread at all, so the one started is its only
one. Theorems besides: `LifeTypeCorrect`, `NoSecondLoop`, `StoreIsLocked`.

Only model-checked: `DrainDecides`, `ClaimsSettle`, `CallsEnd`, `ShutdownEnds`,
`HeartbeatRecovers` and `LoopsEnd` (liveness under fairness, which the prover
does not reach; of `DrainDecides`, `UndecidedWaits` proves that there is always somebody to wait for).

## Findings

Five things the repository says of itself that the code does not do, each the
counterexample of a run; `PROJECT.json` quotes the lines. Under Proofs is what
holds of the second to the fourth, and of the runs of local clients in the first,
when the faults they need are absent.

* `sealed_run`: when the wait of a server job ends before its run (time-out or
  supersession), the claim's lineage is sealed and the run's terminal commit is
  refused: the row keeps its live status.
* `stranded_run`: a run whose thread does not start leaves its row live, and
  the daemon counts as idle over it.
* `dropped_job`: jobs of an answer that the sync call does not survive are
  forgotten without being counted, and a later stop commits. (Jobs left behind by one
  whose thread does not start are forgotten too, but that one is counted, and no stop
  commits over it.)
* `late_connect`: a connect request admitted before the drain may store a
  connection after the coordinator read that there is none; the stop commits
  with the boundary `not_required`.
* `kept_failure`: a job whose run succeeded and whose hand-off failed queues its
  failed report before it marks the row as failed. A sweep, or the next start,
  may come in between, take the final report for that of a success and remove
  the files that `keep="on_failure"` promises to keep.

## Not modelled, and the plan

Payload data, wording, SQL text, HTTP parsing, docker command lines and the
user's code are not modelled. Of the docker pool, the containers of single runs
and the clean-up of an earlier daemon's containers are left out: they depend on
docker's label queries only. What each module abstracts is said in its section;
these of it are hazards that no property covers, listed with a note: a late
state file that makes a removed directory again, a prune of orphans over a
directory whose row is about to be inserted, a sweep that ends at a pruned row,
a terminal commit that is made again with another status,
a late heartbeat that makes a disconnected connection current again, and the
livelock of a supervisor that repeats its drain for ever.

Most of the repository's lines are data: source analysis, adapters, the client
SDK, the command line, routes and documents, SQL text. What they do is one step
with its outcomes here, and it has no order of its own that could go wrong.

Of the components with control of their own, these are left, in this order:

1. Environment builds: build threads, waiters of a build, their leases.
2. Browser runs and callback capabilities: expiry against admission, revocation
   before a terminal status.
3. The connection's rows: which one is current after late records; and the
   composition of `RunRetention` with the sync calls of `DaemonWork`, which share
   `sync_once` (today each has the other's part as a choice).
4. Resume planning as operators over small graphs against a reference
   definition; catalogue reconciliation.
