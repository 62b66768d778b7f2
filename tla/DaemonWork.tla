----------------------------- MODULE DaemonWork -----------------------------
(***************************************************************************)
(* The daemon's threads around the lifecycle controller (src/spl/daemon/    *)
(* server.py): sync callers and drain coordinators, server jobs, local runs *)
(* and the supervisor.  Every step is one LifecycleController call, or the  *)
(* work between two of them, so threads interleave where the code releases  *)
(* the controller's lock.  An exchange with the central server is one step: *)
(* _server_sync_lock serialises it and it makes no admission.  A lease that  *)
(* lives strictly inside another lease of its lineage (the retention sweep,  *)
(* callbacks, environment builds) adds no step.                              *)
(***************************************************************************)
EXTENDS Lifecycle

CONSTANTS
  Syncer,      \* heartbeat loops and sync kicks that call sync_once
  Job,         \* jobs the central server may assign
  UserRun,     \* runs started by local clients
  Mutation,    \* connect and disconnect requests of local clients
  Fault        \* what may happen: some of "network" (an answer is lost or no
               \* good), "store" (an access raises), "thread" (a thread does not
               \* start), "handoff" (it raises), "files" (a run's files or input)
               \* and "shutdown" (serve ends under what still runs)

DrainId == 2..MaxRevision     \* a drain is named by the revision it made
Caller  == Syncer \cup DrainId
Run     == Job \cup UserRun   \* a job's local run goes by the job's name

SyncLease(s)   == <<"sync", s>>
ClaimLease(j)  == <<"claim", j>>
RunLease(r)    == <<"run", r>>
CommitLease(r) == <<"commit", r>>
MutationLease(m) == <<"mutation", m>>

LeaseIds ==
  {SyncLease(s) : s \in Caller} \cup {ClaimLease(j) : j \in Job} \cup
  {RunLease(r) : r \in Run} \cup {CommitLease(r) : r \in Run} \cup
  {MutationLease(m) : m \in Mutation}

ASSUME DaemonAssumption == LeaseIds \subseteq Work /\ LeaseIds \subseteq Lineage

\* create_run makes up a fresh id for every run; threads are named apart.
ASSUME NamesDiffer == Job \cap UserRun = {} /\ Syncer \cap DrainId = {}

VARIABLES
  connected,   \* current_server_connection_credentials() is not None
  closed,      \* serve() has shut the daemon down and closed the store
  mutation,    \* life of a connect or disconnect request
  sync,        \* program counter of every sync caller
  inbox,       \* jobs received by a caller and not yet accepted
  job,         \* life of a job, as this daemon's threads see it
  run,         \* program counter of the threads that carry a local run
  row          \* the durable run row: "none", "live" (not terminal), "terminal"

threads    == <<connected, closed, mutation, sync, inbox, job, run, row>>
daemonVars == <<vars, threads>>

SyncAt == {"idle", "requested", "unstarted", "credentials", "absent", "ready", "exchange", "accept",
           "start", "give_up", "prove", "fail", "close", "erring"}
JobAt  == {"offered", "received", "admitted", "running", "starting", "waiting", "handing",
           "closing", "unproven", "settled", "unretained", "dropped"}
RunAt  == {"none", "leased", "bound", "worker", "commit", "committing", "committed", "escaping",
           "release", "over", "refused", "stranded", "leaked"}

\* sent: the flush has called note_request_sent; raised: the coordinator will
\* see sync_once raise something other than LifecycleError; stale: the
\* connection was rewritten under the exchange.
Call(at, sent, raised) == [at |-> at, sent |-> sent, raised |-> raised, stale |-> FALSE]
Idle == Call("idle", FALSE, FALSE)

\* worker: the run thread was started; retried: its terminal commit has
\* already failed once.
DaemonTypeOK ==
  /\ connected \in BOOLEAN /\ closed \in BOOLEAN
  /\ mutation \in [Mutation -> {"none", "admitted", "done"}]
  /\ sync \in [Caller -> [at : SyncAt, sent : BOOLEAN, raised : BOOLEAN, stale : BOOLEAN]]
  /\ inbox \in [Caller -> SUBSET Job]
  /\ job \in [Job -> JobAt]
  /\ run \in [Run -> [at : RunAt, worker : BOOLEAN, retried : BOOLEAN]]
  /\ row \in [Run -> {"none", "live", "terminal"}]

DaemonInit ==
  /\ Init
  /\ connected \in BOOLEAN /\ closed = FALSE
  /\ mutation = [m \in Mutation |-> "none"]
  /\ sync = [s \in Caller |-> Idle]
  /\ inbox = [s \in Caller |-> {}]
  /\ job = [j \in Job |-> "offered"]
  /\ run = [r \in Run |-> [at |-> "none", worker |-> FALSE, retried |-> FALSE]]
  /\ row = [r \in Run |-> "none"]

At(s, at)    == sync[s].at = at
Goto(s, at)  == sync' = [sync EXCEPT ![s].at = at]
JobGoto(j, at) == job' = [job EXCEPT ![j] = at]
RunGoto(r, at) == run' = [run EXCEPT ![r].at = at]

\* A closed store raises at every access.
StoreRaises == "store" \in Fault \/ closed

-----------------------------------------------------------------------------
(* The supervisor and the connection. *)

\* request_lifecycle_drain: a first request schedules the drain, a replay only
\* finds it.  Then, in a step of its own, its handler starts a coordinator for
\* it when none is alive.
SeekCoordinator(d) ==
  sync' = IF sync[d].at \in {"idle", "unstarted"} THEN [sync EXCEPT ![d].at = "requested"] ELSE sync

RequestLifecycleDrain(expected) ==
  /\ RequestDrain(expected)
  /\ SeekCoordinator(drain')
  /\ UNCHANGED <<connected, closed, mutation, inbox, job, run, row>>

ReplayLifecycleDrain ==
  /\ drain # NoDrain
  /\ SeekCoordinator(drain)
  /\ UNCHANGED <<vars, connected, closed, mutation, inbox, job, run, row>>

StartCoordinator(d) ==
  /\ At(d, "requested")
  /\ Goto(d, "credentials")
  /\ UNCHANGED <<vars, connected, closed, mutation, inbox, job, run, row>>

\* thread.start raises, and so does the request: the drain stands without a
\* coordinator, until a replay.
CoordinatorStartFails(d) ==
  /\ "thread" \in Fault
  /\ At(d, "requested")
  /\ Goto(d, "unstarted")
  /\ UNCHANGED <<vars, connected, closed, mutation, inbox, job, run, row>>

CancelLifecycleDrain(d, expected) ==
  /\ CancelDrain(d, expected)
  /\ UNCHANGED threads

\* A connect or disconnect request: admitted as a root mutation, it rewrites
\* the connection whenever it gets to it.
BeginMutation(m) ==
  /\ mutation[m] = "none"
  /\ ReserveRoot(MutationLease(m), "local_run", MutationLease(m), "active")
  /\ mutation' = [mutation EXCEPT ![m] = "admitted"]
  /\ UNCHANGED <<connected, closed, sync, inbox, job, run, row>>

EndMutation(m) ==
  /\ mutation[m] = "admitted"
  /\ Complete(MutationLease(m), TRUE)
  /\ mutation' = [mutation EXCEPT ![m] = "done"]
  /\ connected' \in IF closed THEN {connected} ELSE BOOLEAN
  /\ sync' = [s \in Caller |-> IF connected /\ ~closed /\ At(s, "exchange")
                              THEN [sync[s] EXCEPT !.stale = TRUE] ELSE sync[s]]
  /\ UNCHANGED <<closed, inbox, job, run, row>>

\* serve() ends: shutdown() waits 30 s for the run threads and the store is
\* closed, with whatever threads are left.
CloseStore ==
  /\ "shutdown" \in Fault
  /\ ~closed
  /\ closed' = TRUE
  /\ UNCHANGED <<vars, connected, mutation, sync, inbox, job, run, row>>

-----------------------------------------------------------------------------
(* The drain coordinator: _establish_lifecycle_claim_boundary. *)

\* The credentials are read before, and outside, the controller's lock.
ReadCredentials(d) ==
  /\ At(d, "credentials")
  /\ \/ ~closed /\ Goto(d, IF connected THEN "ready" ELSE "absent")
     \/ StoreRaises /\ Goto(d, "erring")
  /\ UNCHANGED <<vars, connected, closed, mutation, inbox, job, run, row>>

\* The mark is for whatever drain is current now; LifecycleError ends it.
ReportAbsent(d) ==
  /\ At(d, "absent")
  /\ IF drain # NoDrain THEN MarkNotRequired ELSE UNCHANGED vars
  /\ Goto(d, "idle")
  /\ UNCHANGED <<connected, closed, mutation, inbox, job, run, row>>

\* The coordinator's own handler, for what the store or sync_once raised.
MarkFailedIfDraining(unknown) ==
  \/ MarkFailed(unknown)
  \/ /\ drain = NoDrain \/ boundary \in {"failed", "outcome_unknown"}
     /\ UNCHANGED vars

ReportError(d) ==
  /\ At(d, "erring")
  /\ MarkFailedIfDraining(FALSE)
  /\ Goto(d, "idle")
  /\ UNCHANGED <<connected, closed, mutation, inbox, job, run, row>>

-----------------------------------------------------------------------------
(* sync_once. *)

Polling(s) == IsPoll(SyncLease(s))

\* begin_sync admits a claim-capable poll, or a no-claim flush while draining.
\* The heartbeat service is shut down before the store is closed.
BeginSync(s) ==
  /\ IF s \in Syncer THEN connected /\ ~closed /\ At(s, "idle") ELSE At(s, "ready")
  /\ IF admissionOpen THEN BeginPoll(SyncLease(s), SyncLease(s))
                      ELSE BeginFlush(SyncLease(s), SyncLease(s))
  /\ sync' = [sync EXCEPT ![s] = Call("exchange", FALSE, FALSE)]
  /\ UNCHANGED <<connected, closed, mutation, inbox, job, run, row>>

\* The server is there, or was when the request went out.
Reached(s) == connected \/ sync[s].stale

\* Only a coordinator tells what sync_once raises.
Raises(s) == IF s \in DrainId THEN BOOLEAN ELSE {FALSE}

\* The request leaves claim_jobs out, whatever lease it runs under.
BrokenReceiveJobs(s, jobs) ==
  /\ At(s, "exchange")
  /\ Reached(s)
  /\ \A j \in jobs : job[j] = "offered"
  /\ inbox' = [inbox EXCEPT ![s] = jobs]
  /\ job' = [j \in Job |-> IF j \in jobs THEN "received" ELSE job[j]]
  /\ sync' = [sync EXCEPT ![s] = Call("accept", FALSE, FALSE)]
  /\ UNCHANGED <<vars, connected, closed, mutation, run, row>>

\* A completed claim-capable exchange: the server assigned some jobs.
ReceiveJobs(s, jobs) ==
  /\ At(s, "exchange") /\ Polling(s)
  /\ Reached(s)
  /\ \A j \in jobs : job[j] = "offered"
  /\ inbox' = [inbox EXCEPT ![s] = jobs]
  /\ job' = [j \in Job |-> IF j \in jobs THEN "received" ELSE job[j]]
  /\ sync' = [sync EXCEPT ![s] = Call("accept", FALSE, FALSE)]
  /\ UNCHANGED <<vars, connected, closed, mutation, run, row>>

\* A job whose identity does not validate: refused, and never forgotten.
RefuseJob(s, j) ==
  /\ "handoff" \in Fault
  /\ At(s, "exchange") /\ Polling(s)
  /\ Reached(s)
  /\ job[j] = "offered"
  /\ RecordUnknownWork
  /\ JobGoto(j, "unretained")
  /\ UNCHANGED <<connected, closed, mutation, sync, inbox, run, row>>

\* The server assigned jobs in an exchange that this poll does not survive: its
\* answer is lost, or before the accept loop the store raises, or does not
\* find the connection's row any more (replaced, and pruned by a client).
DropJobs(s, jobs) ==
  /\ "network" \in Fault \/ StoreRaises \/ sync[s].stale
  /\ At(s, "exchange") /\ Polling(s)
  /\ Reached(s)
  /\ jobs # {}
  /\ \A j \in jobs : job[j] = "offered"
  /\ job' = [j \in Job |-> IF j \in jobs THEN "dropped" ELSE job[j]]
  /\ \E raised \in Raises(s) :
       sync' = [sync EXCEPT ![s] = Call("close", FALSE, raised)]
  /\ UNCHANGED <<vars, connected, closed, mutation, inbox, run, row>>

\* Not connected, an error before or after the request, or a partial answer.
ExchangeFails(s) ==
  /\ "network" \in Fault \/ StoreRaises \/ sync[s].stale \/ ~connected
  /\ At(s, "exchange")
  /\ \E sent \in BOOLEAN, raised \in Raises(s) :
       /\ sent => Reached(s) /\ ~Polling(s)
       /\ sync' = [sync EXCEPT ![s] = Call(IF Polling(s) THEN "close" ELSE "fail", sent, raised)]
  /\ UNCHANGED <<vars, connected, closed, mutation, inbox, job, run, row>>

\* The flush: the server accepted claim_jobs=False and answered in full.
FlushSucceeds(s) ==
  /\ At(s, "exchange") /\ ~Polling(s)
  /\ Reached(s)
  /\ sync' = [sync EXCEPT ![s] = Call("prove", TRUE, FALSE)]
  /\ UNCHANGED <<vars, connected, closed, mutation, inbox, job, run, row>>

ProveBoundary(s) ==
  /\ At(s, "prove")
  /\ IF drain # NoDrain THEN MarkProven /\ Goto(s, "close")
                        ELSE UNCHANGED vars /\ Goto(s, "fail")
  /\ UNCHANGED <<connected, closed, mutation, inbox, job, run, row>>

BrokenFailBoundary(s) ==      \* an error ends the flush without a mark
  /\ At(s, "fail")
  /\ Goto(s, "close")
  /\ UNCHANGED <<vars, connected, closed, mutation, inbox, job, run, row>>

FailBoundary(s) ==
  /\ At(s, "fail")
  /\ MarkFailedIfDraining(sync[s].sent)
  /\ Goto(s, "close")
  /\ UNCHANGED <<connected, closed, mutation, inbox, job, run, row>>

\* A coordinator's thread is left in a state its handler does not know.
BrokenAfterClose(s) == IF s \in DrainId /\ sync[s].raised THEN "raised" ELSE "idle"

\* The finally clause; a coordinator still sees what was raised.
AfterClose(s) == IF s \in DrainId /\ sync[s].raised THEN "erring" ELSE "idle"

CloseSync(s) ==
  /\ At(s, "close")
  /\ Complete(SyncLease(s), TRUE)
  /\ sync' = [sync EXCEPT ![s] = Call(AfterClose(s), FALSE, FALSE)]
  /\ UNCHANGED <<connected, closed, mutation, inbox, job, run, row>>

-----------------------------------------------------------------------------
(* accept_server_job, for the jobs of one poll in turn. *)

AdmitJob(s, j) ==
  /\ At(s, "accept")
  /\ j \in inbox[s]
  /\ AdmitRemoteClaim(SyncLease(s), ClaimLease(j), ClaimLease(j))
  /\ JobGoto(j, "admitted")
  /\ Goto(s, "start")
  /\ UNCHANGED <<connected, closed, mutation, inbox, run, row>>

\* The poll's finally clause completes the claim the job's thread goes on with.
BrokenStartJobThread(s, j) ==
  /\ At(s, "start")
  /\ j \in inbox[s] /\ job[j] = "admitted"
  /\ Complete(ClaimLease(j), TRUE)
  /\ JobGoto(j, "running")
  /\ inbox' = [inbox EXCEPT ![s] = @ \ {j}]
  /\ Goto(s, "accept")
  /\ UNCHANGED <<connected, closed, mutation, run, row>>

StartJobThread(s, j) ==
  /\ At(s, "start")
  /\ j \in inbox[s] /\ job[j] = "admitted"
  /\ Activate(ClaimLease(j))
  /\ JobGoto(j, "running")
  /\ inbox' = [inbox EXCEPT ![s] = @ \ {j}]
  /\ Goto(s, "accept")
  /\ UNCHANGED <<connected, closed, mutation, run, row>>

JobThreadFails(s, j) ==
  /\ "thread" \in Fault
  /\ At(s, "start")
  /\ j \in inbox[s] /\ job[j] = "admitted"
  /\ RecordUnknownWork
  /\ JobGoto(j, "unretained")
  /\ Goto(s, "give_up")
  /\ UNCHANGED <<connected, closed, mutation, inbox, run, row>>

\* The raise leaves the rest of the list behind.
GiveUpJob(s, j) ==
  /\ At(s, "give_up")
  /\ j \in inbox[s] /\ job[j] = "unretained"
  /\ Complete(ClaimLease(j), TRUE)
  /\ job' = [i \in Job |-> IF i \in inbox[s] \ {j} THEN "dropped" ELSE job[i]]
  /\ inbox' = [inbox EXCEPT ![s] = {}]
  /\ sync' = [sync EXCEPT ![s] = Call("close", FALSE, s \in DrainId)]
  /\ UNCHANGED <<connected, closed, mutation, run, row>>

AllAccepted(s) ==
  /\ At(s, "accept")
  /\ inbox[s] = {}
  /\ Goto(s, "close")
  /\ UNCHANGED <<vars, connected, closed, mutation, inbox, job, run, row>>

-----------------------------------------------------------------------------
(* _execute_server_job: prepare, start the local run, wait, hand off. *)

LineageOf(r) == IF r \in Job THEN ClaimLease(r) ELSE RunLease(r)
RunIsAt(r, at) == run[r].at = at

\* Something fails before start_run: the failure is handed off.
PrepareJobFails(j) ==
  /\ job[j] = "running"
  /\ JobGoto(j, "handing")
  /\ UNCHANGED <<vars, connected, closed, mutation, sync, inbox, run, row>>

\* start_run on the job's thread: a descendant of the claim.
StartJobRun(j) ==
  /\ job[j] = "running"
  /\ ReserveDescendant(RunLease(j), "local_run", ClaimLease(j), "active")
  /\ RunGoto(j, "leased")
  /\ JobGoto(j, "starting")
  /\ UNCHANGED <<connected, closed, mutation, sync, inbox, row>>

\* start_run returned: its run thread is up, or the run failed before one.
JobRunStarted(j) ==
  /\ job[j] = "starting"
  /\ run[j].worker \/ RunIsAt(j, "over")
  /\ JobGoto(j, "waiting")
  /\ UNCHANGED <<vars, connected, closed, mutation, sync, inbox, run, row>>

BrokenJobRunRaised(j) ==      \* only a refused run is noticed
  /\ job[j] = "starting"
  /\ run[j].at = "refused"
  /\ JobGoto(j, "handing")
  /\ UNCHANGED <<vars, connected, closed, mutation, sync, inbox, run, row>>

JobRunRaised(j) ==
  /\ job[j] = "starting"
  /\ run[j].at \in {"refused", "stranded", "leaked"}
  /\ JobGoto(j, "handing")
  /\ UNCHANGED <<vars, connected, closed, mutation, sync, inbox, run, row>>

\* _wait_local_run: the row is terminal ...
SeeTerminalRow(j) ==
  /\ job[j] = "waiting"
  /\ row[j] = "terminal" /\ ~closed
  /\ JobGoto(j, "handing")
  /\ UNCHANGED <<vars, connected, closed, mutation, sync, inbox, run, row>>

\* ... or the wait runs out of time, or the server superseded the attempt.
\* Either way the run thread is left alone.
StopWaiting(j) ==
  /\ job[j] = "waiting"
  /\ JobGoto(j, "handing")
  /\ UNCHANGED <<vars, connected, closed, mutation, sync, inbox, run, row>>

HandOff(j) ==
  /\ job[j] = "handing"
  /\ JobGoto(j, "closing")
  /\ UNCHANGED <<vars, connected, closed, mutation, sync, inbox, run, row>>

\* The handler closes the claim without counting what escaped.
BrokenHandOffEscapes(j) ==
  /\ "handoff" \in Fault
  /\ job[j] = "handing"
  /\ JobGoto(j, "unproven")
  /\ UNCHANGED <<vars, connected, closed, mutation, sync, inbox, run, row>>

\* What escapes the handoff cannot be proven.
HandOffEscapes(j) ==
  /\ "handoff" \in Fault \/ closed
  /\ job[j] = "handing"
  /\ RecordUnknownWork
  /\ JobGoto(j, "unproven")
  /\ UNCHANGED <<connected, closed, mutation, sync, inbox, run, row>>

\* The claim is completed and its lineage is never sealed.
BrokenCloseClaim(j) ==
  /\ job[j] \in {"closing", "unproven"}
  /\ Live(ClaimLease(j))
  /\ Complete(ClaimLease(j), FALSE)
  /\ job' = [job EXCEPT ![j] = IF @ = "closing" THEN "settled" ELSE @]
  /\ UNCHANGED <<connected, closed, mutation, sync, inbox, run, row>>

CloseClaim(j) ==
  /\ job[j] \in {"closing", "unproven"}
  /\ Live(ClaimLease(j))
  /\ Complete(ClaimLease(j), TRUE)
  /\ job' = [job EXCEPT ![j] = IF @ = "closing" THEN "settled" ELSE @]
  /\ UNCHANGED <<connected, closed, mutation, sync, inbox, run, row>>

-----------------------------------------------------------------------------
(* start_run and the run thread. *)

StartUserRun(r) ==
  /\ r \in UserRun
  /\ RunIsAt(r, "none")
  /\ ReserveRoot(RunLease(r), "local_run", RunLease(r), "active")
  /\ RunGoto(r, "leased")
  /\ UNCHANGED <<connected, closed, mutation, sync, inbox, job, row>>

\* create_run raises: _release_unbound_lifecycle_lease.
CreateRunFails(r) ==
  /\ RunIsAt(r, "leased")
  /\ Complete(RunLease(r), r \in UserRun)
  /\ RunGoto(r, "refused")
  /\ UNCHANGED <<connected, closed, mutation, sync, inbox, job, row>>

CreateRun(r) ==
  /\ ~closed
  /\ RunIsAt(r, "leased")
  /\ row' = [row EXCEPT ![r] = "live"]
  /\ RunGoto(r, "bound")
  /\ UNCHANGED <<vars, connected, closed, mutation, sync, inbox, job>>

\* _fail_run_before_worker: the caller's thread commits the failed row.
PrepareRunFails(r) ==
  /\ RunIsAt(r, "bound")
  /\ RunGoto(r, "commit")
  /\ UNCHANGED <<vars, connected, closed, mutation, sync, inbox, job, row>>

\* The "starting" write raises: the lease is bound, so nobody releases it.
StartingWriteFails(r) ==
  /\ "files" \in Fault \/ StoreRaises
  /\ RunIsAt(r, "bound")
  /\ RunGoto(r, "leaked")
  /\ UNCHANGED <<vars, connected, closed, mutation, sync, inbox, job, row>>

StartRunThread(r) ==
  /\ RunIsAt(r, "bound")
  /\ run' = [run EXCEPT ![r].at = "worker", ![r].worker = TRUE]
  /\ UNCHANGED <<vars, connected, closed, mutation, sync, inbox, job, row>>

\* thread.start raises: the lease is released, the row keeps its status.
RunThreadFails(r) ==
  /\ "thread" \in Fault
  /\ RunIsAt(r, "bound")
  /\ Complete(RunLease(r), r \in UserRun)
  /\ RunGoto(r, "stranded")
  /\ UNCHANGED <<connected, closed, mutation, sync, inbox, job, row>>

WorkerEnds(r) ==
  /\ RunIsAt(r, "worker")
  /\ RunGoto(r, "commit")
  /\ UNCHANGED <<vars, connected, closed, mutation, sync, inbox, job, row>>

\* What _execute_run does before its try, or in its handlers, raises: no
\* terminal commit is made.
WorkerBreaks(r) ==
  /\ "files" \in Fault \/ StoreRaises
  /\ RunIsAt(r, "worker")
  /\ RunGoto(r, "escaping")
  /\ UNCHANGED <<vars, connected, closed, mutation, sync, inbox, job, row>>

\* _update_local_run_terminal: the commit is a descendant of the run.
BeginCommit(r) ==
  /\ RunIsAt(r, "commit")
  /\ ReserveDescendant(CommitLease(r), "terminal_commit", LineageOf(r), "active")
  /\ RunGoto(r, "committing")
  /\ UNCHANGED <<connected, closed, mutation, sync, inbox, job, row>>

\* A commit attempt that raises is made once more by _execute_run, or escapes;
\* _fail_run_before_worker lets it escape past its finally clause.
AfterFailedCommit(r) ==
  \/ /\ run[r].worker /\ ~run[r].retried
     /\ run' = [run EXCEPT ![r].at = "commit", ![r].retried = TRUE]
  \/ /\ run[r].worker
     /\ RunGoto(r, "escaping")
  \/ /\ ~run[r].worker
     /\ RunGoto(r, "release")

\* The lineage is sealed, or gone: the descendant is refused and counted.
CommitRefused(r) ==
  /\ RunIsAt(r, "commit")
  /\ RejectDescendant(LineageOf(r))
  /\ AfterFailedCommit(r)
  /\ UNCHANGED <<connected, closed, mutation, sync, inbox, job, row>>

CommitRow(r) ==
  /\ ~closed
  /\ RunIsAt(r, "committing")
  /\ row' = [row EXCEPT ![r] = "terminal"]
  /\ RunGoto(r, "committed")
  /\ UNCHANGED <<vars, connected, closed, mutation, sync, inbox, job>>

\* "Store is closed" is swallowed: the commit returns and the row stays.
CommitSkipped(r) ==
  /\ closed
  /\ RunIsAt(r, "committing")
  /\ RunGoto(r, "committed")
  /\ UNCHANGED <<vars, connected, closed, mutation, sync, inbox, job, row>>

\* The store raises, before or after the row is written, or after it the files do
\* that go with the row.
CommitRaises(r) ==
  /\ \/ "store" \in Fault /\ RunIsAt(r, "committing")
     \/ Fault \cap {"store", "files"} # {} /\ RunIsAt(r, "committed")
  /\ Complete(CommitLease(r), FALSE)
  /\ AfterFailedCommit(r)
  /\ UNCHANGED <<connected, closed, mutation, sync, inbox, job, row>>

EndCommit(r) ==
  /\ RunIsAt(r, "committed")
  /\ Complete(CommitLease(r), FALSE)
  /\ RunGoto(r, "release")
  /\ UNCHANGED <<connected, closed, mutation, sync, inbox, job, row>>

\* _execute_run_with_lifecycle: what escapes is not safe to call idle.
RunEscapes(r) ==
  /\ RunIsAt(r, "escaping")
  /\ RecordUnknownWork
  /\ RunGoto(r, "release")
  /\ UNCHANGED <<connected, closed, mutation, sync, inbox, job, row>>

ReleaseRun(r) ==
  /\ RunIsAt(r, "release")
  /\ Complete(RunLease(r), r \in UserRun)
  /\ RunGoto(r, IF run[r].worker \/ row[r] = "terminal" THEN "over" ELSE "stranded")
  /\ UNCHANGED <<connected, closed, mutation, sync, inbox, job, row>>

-----------------------------------------------------------------------------

SupervisorStep ==
  \/ \E expected \in 1..MaxRevision : RequestLifecycleDrain(expected)
  \/ ReplayLifecycleDrain
  \/ \E d, expected \in 1..MaxRevision : CancelLifecycleDrain(d, expected)
  \/ \E m \in Mutation : BeginMutation(m)

ControllerStep ==
  /\ BindExitCallback \/ ExitSignalled \/ ExitFailed
  /\ UNCHANGED threads

SyncStep(s) ==
  \/ ExchangeFails(s) \/ FlushSucceeds(s) \/ ProveBoundary(s) \/ FailBoundary(s) \/ CloseSync(s)
  \/ \E jobs \in SUBSET Job : ReceiveJobs(s, jobs) \/ DropJobs(s, jobs)
  \/ \E j \in Job : RefuseJob(s, j) \/ AdmitJob(s, j) \/ StartJobThread(s, j)
                     \/ JobThreadFails(s, j) \/ GiveUpJob(s, j)
  \/ AllAccepted(s)

CoordinatorStep(d) ==
  \/ StartCoordinator(d) \/ CoordinatorStartFails(d)
  \/ ReadCredentials(d) \/ ReportAbsent(d) \/ ReportError(d) \/ BeginSync(d)

JobStep(j) ==
  \/ PrepareJobFails(j) \/ StartJobRun(j) \/ JobRunStarted(j) \/ JobRunRaised(j)
  \/ SeeTerminalRow(j) \/ HandOff(j) \/ HandOffEscapes(j) \/ CloseClaim(j)

RunStep(r) ==
  \/ CreateRunFails(r) \/ CreateRun(r) \/ PrepareRunFails(r) \/ StartingWriteFails(r)
  \/ StartRunThread(r) \/ RunThreadFails(r) \/ WorkerEnds(r) \/ WorkerBreaks(r)
  \/ BeginCommit(r) \/ CommitRefused(r) \/ CommitRow(r) \/ CommitSkipped(r) \/ CommitRaises(r)
  \/ EndCommit(r) \/ RunEscapes(r) \/ ReleaseRun(r)

DaemonNext ==
  \/ SupervisorStep
  \/ ControllerStep
  \/ CloseStore
  \/ \E m \in Mutation : EndMutation(m)
  \/ \E s \in Caller : SyncStep(s)
  \/ \E s \in Syncer : BeginSync(s)
  \/ \E d \in DrainId : CoordinatorStep(d)
  \/ \E j \in Job : JobStep(j) \/ StopWaiting(j)
  \/ \E r \in Run : RunStep(r)
  \/ \E r \in UserRun : StartUserRun(r)

DaemonSpec == DaemonInit /\ [][DaemonNext]_daemonVars

\* Started threads run, and a worker ends.  The supervisor, the clients, the
\* heartbeat's next round and a wait's timeout come when they come.
DaemonFairness ==
  /\ WF_daemonVars(BindExitCallback /\ UNCHANGED threads)
  /\ \A m \in Mutation : WF_daemonVars(EndMutation(m))
  /\ \A s \in Caller : WF_daemonVars(SyncStep(s))
  /\ \A d \in DrainId : WF_daemonVars(CoordinatorStep(d))
  /\ \A j \in Job : WF_daemonVars(JobStep(j))
  /\ \A r \in Run : WF_daemonVars(RunStep(r))

\* The supervisor repeats a drain request finitely often.  Each repetition may
\* start a coordinator whose flush overlaps a heartbeat's: without this, the
\* two can keep the daemon from ever being idle.
FinitelyManyReplays == <>[][~ReplayLifecycleDrain]_daemonVars

FairDaemonSpec == DaemonSpec /\ DaemonFairness /\ FinitelyManyReplays

-----------------------------------------------------------------------------
(* Properties. *)

\* A committed stop has waited for every thread that holds work: no caller is
\* polling or accepting, no accepted job is unsettled, no run is under way,
\* and none of them ended unaccounted (sync_once, accept_server_job,
\* _execute_server_job_with_lifecycle and start_run against
\* _maybe_commit_stop_locked).
StopWaitsForThreads ==
  stopping =>
    /\ \A s \in Caller : ~Polling(s) /\ inbox[s] = {}
    /\ \A j \in Job : job[j] \in {"offered", "settled", "dropped"}
    /\ \A r \in Run : run[r].at \in {"none", "over", "refused", "stranded"}
    /\ \A m \in Mutation : mutation[m] # "admitted"

\* The central server hands no job to a daemon that has committed its stop:
\* a claim-capable exchange holds a poll lease from before the drain.
NoJobWhileStopping ==
  [][stopping => \A j \in Job : job[j] = "offered" => job'[j] = "offered"]_daemonVars

\* Work that a thread gives up on without settling it is counted as unknown:
\* a job that was refused or whose handoff escaped, and a run whose thread has
\* ended over a row that is not terminal, whether its commit was refused, failed
\* or was never reached.  Only a shutdown that closed the store under the run
\* lets it end in silence (_update_local_run_terminal_admitted).
EscapesAreCounted ==
  /\ \A j \in Job : job[j] \in {"unretained", "unproven"} => unknownWork
  /\ \A r \in Run : RunIsAt(r, "over") /\ row[r] = "live" => unknownWork \/ closed

\* Behind a closed gate work only drains: while a drain stands, a new run row
\* is made only for a run or a claim admitted before it (through its poll).
ClaimedRunsOnly ==
  [][drain # NoDrain =>
       \A r \in Run : run[r].at = "none" /\ run'[r].at # "none" =>
          r \in Job /\ Live(ClaimLease(r))]_daemonVars

\* The request that scheduled the drain, or a replay, failed to start the
\* coordinator that its boundary waits for.
Unattended(d) == boundary = "pending" /\ At(d, "unstarted")

\* A drain is decided: it commits, is cancelled, or reports why it cannot: an
\* unproven boundary, work that is unknown or leaked, or a coordinator that did
\* not start, which its request raises.
DrainDecides ==
  \A d \in DrainId :
    drain = d ~> \/ stopping
                 \/ drain # d
                 \/ boundary \in {"failed", "outcome_unknown"}
                 \/ unknownWork \/ outcomeUnknown
                 \/ \E r \in Run : RunIsAt(r, "leaked")
                 \/ Unattended(d)

\* A drain that stands undecided is waited for by a thread that will still act:
\* a sync call, a coordinator or the request that starts one, a claim, a run or
\* a mutation.  There are two exceptions: a run whose lease leaked
\* (_bind_lifecycle_run_lease) and a drain whose coordinator did not start
\* (request_lifecycle_drain).  No other lease and no lineage outlives its
\* thread, and any other pending boundary has a coordinator.
UndecidedDrainWaits ==
  /\ drain # NoDrain /\ ~stopping /\ exitCallback
  /\ boundary \notin {"failed", "outcome_unknown"} /\ ~unknownWork /\ ~outcomeUnknown
  => \/ \E s \in Caller : sync[s].at \notin {"idle", "unstarted"}
     \/ \E j \in Job : job[j] \in {"admitted", "running", "starting", "waiting", "handing", "closing"}
     \/ \E r \in Run : run[r].at \notin {"none", "over", "refused", "stranded"}
     \/ \E m \in Mutation : mutation[m] = "admitted"
     \/ Unattended(drain)

\* A job this daemon admitted is settled or counted as unknown, whatever its
\* run does.
ClaimsSettle ==
  \A j \in Job : job[j] = "admitted" ~> job[j] = "settled" \/ unknownWork

-----------------------------------------------------------------------------
(* What the repository says of these threads, and the code does not do. *)

\* _execute_run (server.py): "Launch the worker process and persist the final
\* run state": a run thread that has ended left a terminal row.
RunsPersist == \A r \in Run : RunIsAt(r, "over") => row[r] = "terminal"

\* _execute_run_with_lifecycle (server.py): "An accepted local Run that escapes
\* its normal terminal-state write is not safe to classify as idle": a stop
\* commits only over terminal rows.
IdleRunsAreTerminal == stopping => \A r \in Run : row[r] # "live"

\* accept_server_job (server.py): "If its exact identity cannot be retained
\* locally, Stop must fail closed": a stop never commits over a job that the
\* central server assigned and this daemon let go of.
StopFailsClosed == stopping => \A j \in Job : job[j] # "dropped"

\* _establish_lifecycle_claim_boundary (server.py): "Run one serialized
\* draining sync or prove no central lease exists": a stop that needed no
\* draining sync has no connection that holds a central lease.
NoCentralLease == stopping /\ boundary = "not_required" => ~connected
=============================================================================
