---------------------------- MODULE DaemonProofs ----------------------------
(***************************************************************************)
(* The daemon's threads drive the lifecycle controller only through its     *)
(* methods, so what LifecycleProofs proves for arbitrary callers holds of    *)
(* the daemon.                                                              *)
(***************************************************************************)
EXTENDS DaemonWork, LifecycleProofs

LEMMA LeasesAreIds ==
  /\ \A s \in Caller : SyncLease(s) \in Work /\ SyncLease(s) \in Lineage
  /\ \A j \in Job : ClaimLease(j) \in Work /\ ClaimLease(j) \in Lineage
  /\ \A r \in Run : RunLease(r) \in Work /\ RunLease(r) \in Lineage
  /\ \A r \in Run : CommitLease(r) \in Work /\ LineageOf(r) \in Lineage
  /\ \A m \in Mutation : MutationLease(m) \in Work /\ MutationLease(m) \in Lineage
  BY DaemonAssumption DEF LeaseIds, LineageOf, Run

\* The shapes a controller step takes in this module.
LEMMA ReserveIsNext ==
  ASSUME NEW w \in Work, NEW l \in Lineage
  PROVE  /\ ReserveRoot(w, "local_run", l, "active") => Next
         /\ ReserveDescendant(w, "local_run", l, "active") => Next
         /\ ReserveDescendant(w, "terminal_commit", l, "active") => Next
         /\ BeginPoll(w, l) => Next
         /\ BeginFlush(w, l) => Next
         /\ \A p \in Work : AdmitRemoteClaim(p, w, l) => Next
         /\ RejectDescendant(l) => Next
<1>1. /\ "local_run" \in RootKinds \ {"sync_poll"}
      /\ {"local_run", "terminal_commit"} \subseteq DescendantKinds
      /\ "active" \in Phases
  BY DEF RootKinds, DescendantKinds, Phases
<1> QED
  BY <1>1 DEF Next, WorkStep, RejectStep

LEMMA ProgressIsNext ==
  ASSUME NEW w \in Work
  PROVE  /\ Activate(w) => Next
         /\ \A seal \in BOOLEAN : Complete(w, seal) => Next
  BY DEF Next, WorkStep

LEMMA ControlIsNext ==
  /\ MarkNotRequired => Next
  /\ MarkProven => Next
  /\ \A unknown \in BOOLEAN : MarkFailed(unknown) => Next
  /\ \A e \in 1..MaxRevision : RequestDrain(e) => Next
  /\ \A d, e \in 1..MaxRevision : CancelDrain(d, e) => Next
  /\ BindExitCallback => Next
  /\ ExitSignalled => Next
  /\ ExitFailed => Next
  /\ RecordUnknownWork => Next
  BY DEF Next, ControlStep, RejectStep

LEMMA SyncStepUses ==
  ASSUME NEW s \in Caller, SyncStep(s) \/ BeginSync(s), DaemonTypeOK
  PROVE  [Next]_vars
<1> USE LeasesAreIds
<1>1. CASE BeginSync(s)
  BY <1>1, ReserveIsNext DEF BeginSync
<1>2. CASE ExchangeFails(s) \/ FlushSucceeds(s)
  BY <1>2 DEF ExchangeFails, FlushSucceeds
<1>3. CASE ProveBoundary(s)
  BY <1>3, ControlIsNext DEF ProveBoundary
<1>4. CASE FailBoundary(s)
  <2>1. sync[s].sent \in BOOLEAN
    BY DEF DaemonTypeOK
  <2> QED
    BY <1>4, <2>1, ControlIsNext DEF FailBoundary, MarkFailedIfDraining
<1>5. CASE CloseSync(s)
  BY <1>5, ProgressIsNext DEF CloseSync
<1>6. ASSUME NEW jobs, ReceiveJobs(s, jobs) \/ DropJobs(s, jobs)
      PROVE  [Next]_vars
  BY <1>6 DEF ReceiveJobs, DropJobs
<1>7. ASSUME NEW j \in Job,
             RefuseJob(s, j) \/ AdmitJob(s, j) \/ StartJobThread(s, j) \/ JobThreadFails(s, j)
               \/ GiveUpJob(s, j)
      PROVE  [Next]_vars
  BY <1>7, ReserveIsNext, ProgressIsNext, ControlIsNext
     DEF RefuseJob, AdmitJob, StartJobThread, JobThreadFails, GiveUpJob
<1>8. CASE AllAccepted(s)
  BY <1>8 DEF AllAccepted
<1> QED
  BY <1>1, <1>2, <1>3, <1>4, <1>5, <1>6, <1>7, <1>8 DEF SyncStep

LEMMA JobStepUses ==
  ASSUME NEW j \in Job, JobStep(j) \/ StopWaiting(j)
  PROVE  [Next]_vars
<1>1. CASE StartJobRun(j)
  <2>1. j \in Run
    BY DEF Run
  <2> QED
    BY <1>1, <2>1, LeasesAreIds, ReserveIsNext DEF StartJobRun
<1>2. CASE HandOffEscapes(j)
  BY <1>2, ControlIsNext DEF HandOffEscapes
<1>3. CASE CloseClaim(j)
  BY <1>3, LeasesAreIds, ProgressIsNext DEF CloseClaim
<1>4. CASE \/ PrepareJobFails(j) \/ JobRunStarted(j) \/ JobRunRaised(j) \/ SeeTerminalRow(j)
           \/ StopWaiting(j) \/ HandOff(j)
  BY <1>4 DEF PrepareJobFails, JobRunStarted, JobRunRaised, SeeTerminalRow, StopWaiting, HandOff
<1> QED
  BY <1>1, <1>2, <1>3, <1>4 DEF JobStep

LEMMA RunStepUses ==
  ASSUME NEW r \in Run, RunStep(r) \/ (r \in UserRun /\ StartUserRun(r))
  PROVE  [Next]_vars
<1> USE LeasesAreIds
<1>1. CASE StartUserRun(r)
  BY <1>1, ReserveIsNext DEF StartUserRun
<1>2. CASE CreateRunFails(r) \/ RunThreadFails(r) \/ ReleaseRun(r)
  <2>1. (r \in UserRun) \in BOOLEAN
    OBVIOUS
  <2> QED
    BY <1>2, <2>1, ProgressIsNext DEF CreateRunFails, RunThreadFails, ReleaseRun
<1>3. CASE CommitRaises(r) \/ EndCommit(r)
  BY <1>3, ProgressIsNext DEF CommitRaises, EndCommit
<1>4. CASE BeginCommit(r) \/ CommitRefused(r)
  BY <1>4, ReserveIsNext DEF BeginCommit, CommitRefused
<1>5. CASE RunEscapes(r)
  BY <1>5, ControlIsNext DEF RunEscapes
<1>6. CASE \/ CreateRun(r) \/ PrepareRunFails(r) \/ StartingWriteFails(r) \/ StartRunThread(r)
           \/ WorkerEnds(r) \/ WorkerBreaks(r) \/ CommitRow(r) \/ CommitSkipped(r)
  BY <1>6 DEF CreateRun, PrepareRunFails, StartingWriteFails, StartRunThread, WorkerEnds,
              WorkerBreaks, CommitRow, CommitSkipped
<1> QED
  BY <1>1, <1>2, <1>3, <1>4, <1>5, <1>6 DEF RunStep

-----------------------------------------------------------------------------
(* Types of the threads' own state. *)

SyncRecord == [at : SyncAt, sent : BOOLEAN, raised : BOOLEAN, stale : BOOLEAN]

LEMMA GotoTypes ==
  ASSUME sync \in [Caller -> SyncRecord], NEW s, NEW at \in SyncAt, Goto(s, at)
  PROVE  sync' \in [Caller -> SyncRecord]
<1>1. ASSUME NEW c \in Caller
      PROVE  [sync[c] EXCEPT !.at = at] \in SyncRecord
  BY DEF SyncRecord
<1> QED
  BY <1>1 DEF Goto

\* A mutation only lets a call know that its connection was rewritten.
LEMMA MutationLeavesSync ==
  ASSUME sync \in [Caller -> SyncRecord], NEW m, EndMutation(m)
  PROVE  /\ sync' \in [Caller -> SyncRecord]
         /\ \A s \in Caller : /\ sync'[s].at = sync[s].at /\ sync'[s].sent = sync[s].sent
                              /\ sync'[s].raised = sync[s].raised
<1>1. sync' = [s \in Caller |-> IF connected /\ ~closed /\ At(s, "exchange")
                              THEN [sync[s] EXCEPT !.stale = TRUE] ELSE sync[s]]
  BY DEF EndMutation
<1>2. ASSUME NEW s \in Caller
      PROVE  /\ sync'[s] \in SyncRecord
             /\ sync'[s].at = sync[s].at /\ sync'[s].sent = sync[s].sent
             /\ sync'[s].raised = sync[s].raised
  <2>1. sync[s] \in SyncRecord
    OBVIOUS
  <2>2. sync'[s] = sync[s] \/ sync'[s] = [sync[s] EXCEPT !.stale = TRUE]
    BY <1>1
  <2> QED
    BY <2>1, <2>2 DEF SyncRecord
<1> QED
  BY <1>1, <1>2

LEMMA SyncTypes ==
  ASSUME DaemonTypeOK, NEW s \in Caller, SyncStep(s) \/ BeginSync(s)
  PROVE  DaemonTypeOK'
<1>1. sync \in [Caller -> SyncRecord]
  BY DEF DaemonTypeOK, SyncRecord
<1>2. sync' \in [Caller -> SyncRecord]
  <2>1. \/ sync' = sync
        \/ \E at \in SyncAt : Goto(s, at)
        \/ \E at \in SyncAt, sent, raised \in BOOLEAN :
             sync' = [sync EXCEPT ![s] = Call(at, sent, raised)]
    <3>1. CASE BeginSync(s)
      BY <3>1 DEF BeginSync, SyncAt
    <3>2. CASE CloseSync(s)
      <4>1. AfterClose(s) \in SyncAt
        BY DEF AfterClose, SyncAt
      <4>2. sync' = [sync EXCEPT ![s] = Call(AfterClose(s), FALSE, FALSE)]
        BY <3>2 DEF CloseSync
      <4> QED
        BY <4>1, <4>2
    <3>3. CASE ExchangeFails(s)
      <4>1. PICK sent, raised \in BOOLEAN :
              sync' = [sync EXCEPT ![s] = Call(IF Polling(s) THEN "close" ELSE "fail", sent,
              raised)]
        BY <3>3 DEF ExchangeFails, Raises
      <4>2. (IF Polling(s) THEN "close" ELSE "fail") \in SyncAt
        BY DEF SyncAt
      <4> QED
        BY <4>1, <4>2
    <3>7. CASE FlushSucceeds(s)
      BY <3>7 DEF FlushSucceeds, SyncAt
    <3>4. CASE ProveBoundary(s) \/ FailBoundary(s) \/ AllAccepted(s)
      BY <3>4 DEF ProveBoundary, FailBoundary, AllAccepted, SyncAt
    <3>5. ASSUME NEW jobs, ReceiveJobs(s, jobs) \/ DropJobs(s, jobs)
          PROVE  <2>1!1 \/ <2>1!2 \/ <2>1!3
      BY <3>5 DEF ReceiveJobs, DropJobs, Raises, SyncAt
    <3>6. ASSUME NEW j,
                 RefuseJob(s, j) \/ AdmitJob(s, j) \/ StartJobThread(s, j) \/ JobThreadFails(s, j)
                   \/ GiveUpJob(s, j)
          PROVE  <2>1!1 \/ <2>1!2 \/ <2>1!3
      <4>1. (s \in DrainId) \in BOOLEAN
        OBVIOUS
      <4> QED
        BY <3>6, <4>1 DEF RefuseJob, AdmitJob, StartJobThread, JobThreadFails, GiveUpJob, SyncAt
    <3> QED
      BY <3>1, <3>2, <3>3, <3>4, <3>5, <3>6, <3>7 DEF SyncStep
  <2>2. ASSUME NEW at \in SyncAt, NEW sent \in BOOLEAN, NEW raised \in BOOLEAN
        PROVE  Call(at, sent, raised) \in SyncRecord
    BY DEF SyncRecord, Call
  <2> QED
    BY <1>1, <2>1, <2>2, GotoTypes
<1>3. job' \in [Job -> JobAt] /\ inbox' \in [Caller -> SUBSET Job]
  <2> USE DEF JobAt, JobGoto
  <2>1. job \in [Job -> JobAt] /\ inbox \in [Caller -> SUBSET Job]
    BY DEF DaemonTypeOK
  <2>2. CASE BeginSync(s) \/ CloseSync(s) \/ ExchangeFails(s) \/ FlushSucceeds(s)
             \/ ProveBoundary(s) \/ FailBoundary(s) \/ AllAccepted(s)
    BY <2>1, <2>2 DEF BeginSync, CloseSync, ExchangeFails, FlushSucceeds, ProveBoundary,
                      FailBoundary, AllAccepted
  <2>3. ASSUME NEW jobs \in SUBSET Job, ReceiveJobs(s, jobs) \/ DropJobs(s, jobs)
        PROVE  job' \in [Job -> JobAt] /\ inbox' \in [Caller -> SUBSET Job]
    BY <2>1, <2>3 DEF ReceiveJobs, DropJobs
  <2>4. ASSUME NEW j \in Job,
               RefuseJob(s, j) \/ AdmitJob(s, j) \/ StartJobThread(s, j) \/ JobThreadFails(s, j)
        PROVE  job' \in [Job -> JobAt] /\ inbox' \in [Caller -> SUBSET Job]
    BY <2>1, <2>4 DEF RefuseJob, AdmitJob, StartJobThread, JobThreadFails
  <2>5. ASSUME NEW j \in Job, GiveUpJob(s, j)
        PROVE  job' \in [Job -> JobAt] /\ inbox' \in [Caller -> SUBSET Job]
    BY <2>1, <2>5 DEF GiveUpJob
  <2> QED
    BY <2>2, <2>3, <2>4, <2>5 DEF SyncStep
<1>4. UNCHANGED <<connected, closed, mutation, run, row>>
  BY DEF SyncStep, BeginSync, CloseSync, ExchangeFails, FlushSucceeds, ProveBoundary, FailBoundary,
         AllAccepted, ReceiveJobs, DropJobs, RefuseJob, AdmitJob, StartJobThread, JobThreadFails,
         GiveUpJob
<1> QED
  BY <1>2, <1>3, <1>4 DEF DaemonTypeOK, SyncRecord

LEMMA JobTypes ==
  ASSUME DaemonTypeOK, NEW j \in Job, JobStep(j) \/ StopWaiting(j)
  PROVE  DaemonTypeOK'
<1>1. UNCHANGED <<connected, closed, mutation, sync, inbox, row>>
  BY DEF JobStep, PrepareJobFails, StartJobRun, JobRunStarted, JobRunRaised, SeeTerminalRow,
         StopWaiting, HandOff, HandOffEscapes, CloseClaim
<1>2. job' \in [Job -> JobAt]
  BY DEF JobStep, PrepareJobFails, StartJobRun, JobRunStarted, JobRunRaised, SeeTerminalRow,
         StopWaiting, HandOff, HandOffEscapes, CloseClaim, JobGoto, JobAt, DaemonTypeOK
<1>3. run' = run \/ RunGoto(j, "leased")
  BY DEF JobStep, PrepareJobFails, StartJobRun, JobRunStarted, JobRunRaised, SeeTerminalRow,
         StopWaiting, HandOff, HandOffEscapes, CloseClaim
<1>4. run' \in [Run -> [at : RunAt, worker : BOOLEAN, retried : BOOLEAN]]
  BY <1>3 DEF RunGoto, RunAt, DaemonTypeOK
<1> QED
  BY <1>1, <1>2, <1>4 DEF DaemonTypeOK

LEMMA RunTypes ==
  ASSUME DaemonTypeOK, NEW r \in Run, RunStep(r) \/ StartUserRun(r)
  PROVE  DaemonTypeOK'
<1>1. UNCHANGED <<connected, closed, mutation, sync, inbox, job>>
  BY DEF RunStep, StartUserRun, CreateRunFails, CreateRun, PrepareRunFails, StartingWriteFails,
         StartRunThread, RunThreadFails, WorkerEnds, WorkerBreaks, BeginCommit, CommitRefused,
         CommitRow, CommitSkipped,
         CommitRaises, EndCommit, RunEscapes, ReleaseRun
<1>2. row' = row \/ \E status \in {"live", "terminal"} : row' = [row EXCEPT ![r] = status]
  BY DEF RunStep, StartUserRun, CreateRunFails, CreateRun, PrepareRunFails, StartingWriteFails,
         StartRunThread, RunThreadFails, WorkerEnds, WorkerBreaks, BeginCommit, CommitRefused,
         CommitRow, CommitSkipped,
         CommitRaises, EndCommit, RunEscapes, ReleaseRun
<1>3. \/ \E at \in RunAt : RunGoto(r, at)
      \/ run' = [run EXCEPT ![r].at = "worker", ![r].worker = TRUE]
      \/ run' = [run EXCEPT ![r].at = "commit", ![r].retried = TRUE]
  BY DEF RunStep, StartUserRun, CreateRunFails, CreateRun, PrepareRunFails, StartingWriteFails,
         StartRunThread, RunThreadFails, WorkerEnds, WorkerBreaks, BeginCommit, CommitRefused,
         CommitRow, CommitSkipped,
         CommitRaises, EndCommit, RunEscapes, ReleaseRun, AfterFailedCommit, RunAt
<1>4. run' \in [Run -> [at : RunAt, worker : BOOLEAN, retried : BOOLEAN]]
  BY <1>3 DEF RunGoto, RunAt, DaemonTypeOK
<1>5. row' \in [Run -> {"none", "live", "terminal"}]
  BY <1>2 DEF DaemonTypeOK
<1> QED
  BY <1>1, <1>4, <1>5 DEF DaemonTypeOK

LEMMA DaemonStepCases ==
  ASSUME DaemonTypeOK, DaemonNext
  PROVE  [Next]_vars /\ DaemonTypeOK'
<1>s. (\E d : SeekCoordinator(d)) => sync' \in [Caller -> SyncRecord]
  <2> SUFFICES ASSUME NEW d, SeekCoordinator(d)
               PROVE  sync' \in [Caller -> SyncRecord]
    OBVIOUS
  <2>1. sync \in [Caller -> SyncRecord] /\ "requested" \in SyncAt
    BY DEF DaemonTypeOK, SyncRecord, SyncAt
  <2>2. CASE sync' = sync
    BY <2>1, <2>2
  <2>3. CASE Goto(d, "requested")
    BY <2>1, <2>3, GotoTypes
  <2> QED
    BY <2>2, <2>3 DEF SeekCoordinator, Goto
<1>1. ASSUME NEW e \in 1..MaxRevision, RequestLifecycleDrain(e)
      PROVE  [Next]_vars /\ DaemonTypeOK'
  <2>1. Next
    BY <1>1, ControlIsNext DEF RequestLifecycleDrain
  <2>2. DaemonTypeOK'
    BY <1>1, <1>s DEF RequestLifecycleDrain, DaemonTypeOK, SyncRecord
  <2> QED
    BY <2>1, <2>2
<1>2. CASE ReplayLifecycleDrain
  BY <1>2, <1>s DEF ReplayLifecycleDrain, DaemonTypeOK, SyncRecord
<1>3. ASSUME NEW d \in 1..MaxRevision, NEW e \in 1..MaxRevision, CancelLifecycleDrain(d, e)
      PROVE  [Next]_vars /\ DaemonTypeOK'
  BY <1>3, ControlIsNext DEF CancelLifecycleDrain, threads, DaemonTypeOK
<1>4. ASSUME NEW m \in Mutation, BeginMutation(m) \/ EndMutation(m)
      PROVE  [Next]_vars /\ DaemonTypeOK'
  <2>1. [Next]_vars
    BY <1>4, LeasesAreIds, ReserveIsNext, ProgressIsNext DEF BeginMutation, EndMutation
  <2>2. sync' = sync \/ EndMutation(m)
    BY <1>4 DEF BeginMutation
  <2>3. sync' \in [Caller -> SyncRecord]
    BY <2>2, MutationLeavesSync DEF DaemonTypeOK, SyncRecord
  <2>4. mutation' \in [Mutation -> {"none", "admitted", "done"}] /\ connected' \in BOOLEAN
        /\ UNCHANGED <<closed, inbox, job, run, row>>
    BY <1>4 DEF BeginMutation, EndMutation, DaemonTypeOK
  <2> QED
    BY <2>1, <2>3, <2>4 DEF DaemonTypeOK, SyncRecord
<1>5. CASE ControllerStep
  BY <1>5, ControlIsNext DEF ControllerStep, threads, DaemonTypeOK
<1>c. CASE CloseStore
  BY <1>c DEF CloseStore, DaemonTypeOK
<1>6. ASSUME NEW s \in Caller, SyncStep(s) \/ BeginSync(s)
      PROVE  [Next]_vars /\ DaemonTypeOK'
  BY <1>6, SyncStepUses, SyncTypes
<1>7. ASSUME NEW d \in DrainId, CoordinatorStep(d), ~BeginSync(d)
      PROVE  [Next]_vars /\ DaemonTypeOK'
  <2>1. [Next]_vars
    BY <1>7, ControlIsNext DEF CoordinatorStep, StartCoordinator, CoordinatorStartFails,
       ReadCredentials, ReportAbsent, ReportError, MarkFailedIfDraining
  <2>2. \E at \in SyncAt : Goto(d, at)
    BY <1>7 DEF CoordinatorStep, StartCoordinator, CoordinatorStartFails, ReadCredentials,
                ReportAbsent, ReportError, SyncAt
  <2>3. sync' \in [Caller -> SyncRecord]
    BY <2>2, GotoTypes DEF DaemonTypeOK, SyncRecord
  <2>4. UNCHANGED <<connected, closed, mutation, inbox, job, run, row>>
    BY <1>7 DEF CoordinatorStep, StartCoordinator, CoordinatorStartFails, ReadCredentials,
                ReportAbsent, ReportError
  <2> QED
    BY <2>1, <2>3, <2>4 DEF DaemonTypeOK, SyncRecord
<1>8. ASSUME NEW j \in Job, JobStep(j) \/ StopWaiting(j)
      PROVE  [Next]_vars /\ DaemonTypeOK'
  BY <1>8, JobStepUses, JobTypes
<1>9. ASSUME NEW r \in Run, RunStep(r) \/ (r \in UserRun /\ StartUserRun(r))
      PROVE  [Next]_vars /\ DaemonTypeOK'
  BY <1>9, RunStepUses, RunTypes
<1>10. Syncer \subseteq Caller /\ DrainId \subseteq Caller /\ UserRun \subseteq Run
  BY DEF Caller, Run
<1> QED
  BY <1>1, <1>2, <1>3, <1>4, <1>5, <1>c, <1>6, <1>7, <1>8, <1>9, <1>10
     DEF DaemonNext, SupervisorStep

LEMMA InitTypes == DaemonInit => DaemonTypeOK
<1>1. Idle \in SyncRecord
  BY DEF Idle, Call, SyncAt, SyncRecord
<1>2. DaemonInit => sync \in [Caller -> SyncRecord]
  BY <1>1 DEF DaemonInit
<1>3. DaemonInit => run \in [Run -> [at : RunAt, worker : BOOLEAN, retried : BOOLEAN]]
  BY DEF DaemonInit, RunAt
<1>4. DaemonInit => /\ job \in [Job -> JobAt] /\ inbox \in [Caller -> SUBSET Job]
                    /\ mutation \in [Mutation -> {"none", "admitted", "done"}]
                    /\ row \in [Run -> {"none", "live", "terminal"}]
  BY DEF DaemonInit, JobAt
<1>5. DaemonInit => connected \in BOOLEAN /\ closed = FALSE
  BY DEF DaemonInit
<1>6. closed = FALSE => closed \in BOOLEAN
  OBVIOUS
<1> QED
  BY <1>2, <1>3, <1>4, <1>5, <1>6 DEF DaemonTypeOK, SyncRecord

\* Every step of the daemon is a method of the controller, or leaves the
\* controller alone: the daemon is one of the callers Lifecycle allows.
THEOREM DaemonUsesController == DaemonSpec => Spec
<1>1. DaemonInit => Init /\ DaemonTypeOK
  BY InitTypes DEF DaemonInit
<1>2. DaemonTypeOK /\ [DaemonNext]_daemonVars => [Next]_vars /\ DaemonTypeOK'
  <2>1. DaemonTypeOK /\ DaemonNext => [Next]_vars /\ DaemonTypeOK'
    BY DaemonStepCases
  <2>2. DaemonTypeOK /\ UNCHANGED daemonVars => UNCHANGED vars /\ DaemonTypeOK'
    BY DEF daemonVars, threads, DaemonTypeOK
  <2> QED
    BY <2>1, <2>2
<1> QED
  BY <1>1, <1>2, PTL DEF DaemonSpec, Spec

-----------------------------------------------------------------------------
(* Threads hold their leases for as long as they hold work. *)

SyncLeases == {SyncLease(s) : s \in Caller}
AcceptAt   == {"accept", "start", "give_up"}
JobHolds   == {"admitted", "running", "starting", "waiting", "handing", "closing"}
RunAtRest  == {"none", "over", "refused", "stranded"}

\* A caller with jobs in hand still has the poll that brought them.
CallersHold ==
  \A s \in Caller : /\ inbox[s] # {} => sync[s].at \in AcceptAt
                    /\ sync[s].at \in AcceptAt => Polling(s)

JobsHold ==
  \A j \in Job : /\ job[j] \in JobHolds => Live(ClaimLease(j))
                 /\ job[j] = "received" => \E s \in Caller : j \in inbox[s]

RunsHold == \A r \in Run : run[r].at \notin RunAtRest => Live(RunLease(r))

MutationsHold == \A m \in Mutation : mutation[m] = "admitted" => Live(MutationLease(m))

\* Nothing but sync calls lives in a sync call's lineage.
SyncLineagesApart ==
  /\ drainLineages \subseteq SyncLeases
  /\ \A rec \in works : rec.lineage \in SyncLeases => rec.id \in SyncLeases

Held == CallersHold /\ JobsHold /\ RunsHold /\ MutationsHold /\ SyncLineagesApart

Keeps(x) == (Live(x) => Live(x)') /\ (IsPoll(x) => IsPoll(x)')

LEMMA LeasesDiffer ==
  /\ \A a, b : /\ SyncLease(a) # ClaimLease(b) /\ SyncLease(a) # RunLease(b)
               /\ SyncLease(a) # CommitLease(b) /\ SyncLease(a) # MutationLease(b)
               /\ ClaimLease(a) # RunLease(b) /\ ClaimLease(a) # CommitLease(b)
               /\ ClaimLease(a) # MutationLease(b) /\ RunLease(a) # CommitLease(b)
               /\ RunLease(a) # MutationLease(b) /\ CommitLease(a) # MutationLease(b)
  /\ \A a, b : /\ SyncLease(a) = SyncLease(b) => a = b
               /\ ClaimLease(a) = ClaimLease(b) => a = b
               /\ RunLease(a) = RunLease(b) => a = b
               /\ MutationLease(a) = MutationLease(b) => a = b
  BY DEF SyncLease, ClaimLease, RunLease, CommitLease, MutationLease

\* What a controller method does to the leases in the table.
LEMMA ReserveLive ==
  ASSUME NEW w, NEW k, NEW l, NEW phase, Reserve(w, k, l, phase)
  PROVE  /\ Live(w)'
         /\ k = "sync_poll" => IsPoll(w)'
         /\ \A x : Keeps(x)
         /\ \A rec \in works' : rec \in works \/ (rec.id = w /\ rec.lineage = l)
<1> DEFINE new == [id |-> w, kind |-> k, lineage |-> l, phase |-> phase]
<1>1. works' = works \cup {new}
  BY DEF Reserve
<1>2. new.id = w /\ new.kind = k /\ new.lineage = l
  OBVIOUS
<1> HIDE DEF new
<1>3. Live(w)' /\ (k = "sync_poll" => IsPoll(w)')
  BY <1>1, <1>2 DEF Live, IsPoll
<1>4. \A x : Keeps(x)
  BY <1>1 DEF Live, IsPoll, Keeps
<1>5. \A rec \in works' : rec \in works \/ (rec.id = w /\ rec.lineage = l)
  BY <1>1, <1>2
<1> QED
  BY <1>3, <1>4, <1>5

LEMMA ActivateLive ==
  ASSUME TypeOK, NEW w, Activate(w)
  PROVE  /\ \A x : Keeps(x)
         /\ \A rec \in works' : \E old \in works : rec.id = old.id /\ rec.lineage = old.lineage
<1>1. PICK r \in works : works' = (works \ {r}) \cup {[r EXCEPT !.phase = "active"]}
  BY DEF Activate
<1>2. r \in WorkRecord
  BY DEF TypeOK
<1> DEFINE new == [r EXCEPT !.phase = "active"]
<1>3. new.id = r.id /\ new.kind = r.kind /\ new.lineage = r.lineage
  BY <1>2 DEF WorkRecord
<1>4. works' = (works \ {r}) \cup {new}
  BY <1>1
<1> HIDE DEF new
<1> QED
  BY <1>3, <1>4 DEF Live, IsPoll, Keeps

LEMMA CompleteLive ==
  ASSUME NEW w, NEW seal, Complete(w, seal)
  PROVE  /\ \A x : x # w => Keeps(x)
         /\ works' \subseteq works
         /\ drainLineages' \subseteq drainLineages
  BY DEF Complete, SealAndDrop, Live, IsPoll, Keeps

LEMMA ApartKeeps ==
  ASSUME SyncLineagesApart, drainLineages' \subseteq drainLineages \cup SyncLeases,
         \A rec \in works' :
            \/ rec.lineage \in SyncLeases => rec.id \in SyncLeases
            \/ \E old \in works : rec.id = old.id /\ rec.lineage = old.lineage
  PROVE  SyncLineagesApart'
  BY DEF SyncLineagesApart, SyncLeases, Caller

\* Steps that leave a lease and its thread alone keep what the thread holds.
LEMMA JobsHoldKeeps ==
  ASSUME JobsHold, UNCHANGED job,
         \A j \in Job : Keeps(ClaimLease(j)),
         \A s \in Caller : inbox[s] \subseteq inbox'[s]
  PROVE  JobsHold'
  BY DEF JobsHold, Keeps

LEMMA RunsHoldKeeps ==
  ASSUME RunsHold, UNCHANGED run, \A r \in Run : Keeps(RunLease(r))
  PROVE  RunsHold'
  BY DEF RunsHold, Keeps

LEMMA MutationsHoldKeeps ==
  ASSUME MutationsHold, UNCHANGED mutation, \A m \in Mutation : Keeps(MutationLease(m))
  PROVE  MutationsHold'
  BY DEF MutationsHold, Keeps

LEMMA CallersHoldKeeps ==
  ASSUME CallersHold, UNCHANGED <<sync, inbox>>, \A s \in Caller : Keeps(SyncLease(s))
  PROVE  CallersHold'
  BY DEF CallersHold, Keeps, Polling

\* Controller methods that are no lease operation touch no record.
LEMMA ControlKeeps ==
  ASSUME UNCHANGED works
  PROVE  \A x : Keeps(x)
  BY DEF Keeps, Live, IsPoll

-----------------------------------------------------------------------------
(* Runs and server jobs. *)

LEMMA RunStepHeld ==
  ASSUME Held, TypeOK, DaemonTypeOK, NEW r \in Run, RunStep(r) \/ (r \in UserRun /\ StartUserRun(r))
  PROVE  Held'
<1> USE DEF Held
<1>1. UNCHANGED <<mutation, sync, inbox, job>>
  BY DEF RunStep, StartUserRun, CreateRunFails, CreateRun, PrepareRunFails, StartingWriteFails,
         StartRunThread, RunThreadFails, WorkerEnds, WorkerBreaks, BeginCommit, CommitRefused,
         CommitRow, CommitSkipped,
         CommitRaises, EndCommit, RunEscapes, ReleaseRun
<1>2. ASSUME \A x : x # RunLease(r) => Keeps(x),
             run'[r].at \notin RunAtRest => Live(RunLease(r))',
             \A q \in Run : q # r => run'[q] = run[q],
             SyncLineagesApart'
      PROVE  Held'
  <2>1. RunsHold'
    <3>1. RunsHold
      OBVIOUS
    <3>2. ASSUME NEW q \in Run, run'[q].at \notin RunAtRest
          PROVE  Live(RunLease(q))'
      <4>1. CASE q = r
        BY <1>2, <3>2, <4>1
      <4>2. CASE q # r
        <5>1. run[q].at \notin RunAtRest
          BY <1>2, <3>2, <4>2
        <5>2. RunLease(q) # RunLease(r)
          BY <4>2 DEF RunLease
        <5> QED
          BY <1>2, <3>1, <5>1, <5>2 DEF RunsHold, Keeps
      <4> QED
        BY <4>1, <4>2
    <3> QED
      BY <3>2 DEF RunsHold
  <2>2. JobsHold' /\ MutationsHold' /\ CallersHold'
    BY <1>1, <1>2, LeasesDiffer, JobsHoldKeeps, MutationsHoldKeeps, CallersHoldKeeps
  <2> QED
    BY <1>2, <2>1, <2>2
<1>3. ASSUME NEW at, run' = [run EXCEPT ![r].at = at]
      PROVE  run'[r].at = at /\ \A q \in Run : q # r => run'[q] = run[q]
  BY <1>3 DEF DaemonTypeOK
<1>4. CASE StartUserRun(r)
  <2>1. Reserve(RunLease(r), "local_run", RunLease(r), "active") /\ UNCHANGED drainLineages
    BY <1>4 DEF StartUserRun, ReserveRoot
  <2>2. SyncLineagesApart'
    BY <2>1, ReserveLive, LeasesDiffer, ApartKeeps DEF SyncLeases
  <2>3. \A q \in Run : q # r => run'[q] = run[q]
    BY <1>4 DEF StartUserRun, RunGoto, DaemonTypeOK
  <2> QED
    BY <1>2, <2>1, <2>2, <2>3, ReserveLive
<1>5. CASE CreateRunFails(r) \/ RunThreadFails(r) \/ ReleaseRun(r)
  <2>1. PICK seal : Complete(RunLease(r), seal)
    BY <1>5 DEF CreateRunFails, RunThreadFails, ReleaseRun
  <2>2. PICK at \in RunAtRest : run' = [run EXCEPT ![r].at = at]
    BY <1>5 DEF CreateRunFails, RunThreadFails, ReleaseRun, RunGoto, RunAtRest
  <2>3. SyncLineagesApart'
    BY <2>1, CompleteLive, ApartKeeps
  <2> QED
    BY <1>2, <1>3, <2>1, <2>2, <2>3, CompleteLive
<1>6. CASE CommitRaises(r) \/ EndCommit(r)
  <2>1. PICK seal : Complete(CommitLease(r), seal)
    BY <1>6 DEF CommitRaises, EndCommit
  <2>2. run[r].at \notin RunAtRest /\ \A q \in Run : q # r => run'[q] = run[q]
    BY <1>6 DEF CommitRaises, EndCommit, AfterFailedCommit, RunIsAt, RunGoto, RunAtRest,
                DaemonTypeOK
  <2>3. SyncLineagesApart'
    BY <2>1, CompleteLive, ApartKeeps
  <2>4. Live(RunLease(r))'
    BY <2>1, <2>2, CompleteLive, LeasesDiffer DEF RunsHold, Keeps
  <2>5. \A x : x # RunLease(r) /\ x # CommitLease(r) => Keeps(x)
    BY <2>1, CompleteLive
  <2>6. RunsHold'
    BY <2>2, <2>4, <2>5, LeasesDiffer DEF RunsHold, Keeps
  <2>7. JobsHold' /\ MutationsHold' /\ CallersHold'
    BY <1>1, <2>5, LeasesDiffer, JobsHoldKeeps, MutationsHoldKeeps, CallersHoldKeeps
  <2> QED
    BY <2>3, <2>6, <2>7
<1>7. CASE BeginCommit(r)
  <2>1. Reserve(CommitLease(r), "terminal_commit", LineageOf(r),
  "active") /\ UNCHANGED drainLineages
    BY <1>7 DEF BeginCommit, ReserveDescendant
  <2>2. LineageOf(r) \notin SyncLeases
    BY LeasesDiffer DEF SyncLeases, LineageOf
  <2>3. SyncLineagesApart'
    BY <2>1, <2>2, ReserveLive, ApartKeeps
  <2>4. run[r].at \notin RunAtRest /\ \A q \in Run : q # r => run'[q] = run[q]
    BY <1>7 DEF BeginCommit, RunIsAt, RunGoto, RunAtRest, DaemonTypeOK
  <2> QED
    BY <1>2, <2>1, <2>3, <2>4, ReserveLive DEF RunsHold, Keeps
<1>8. CASE \/ CreateRun(r) \/ PrepareRunFails(r) \/ StartingWriteFails(r) \/ StartRunThread(r)
           \/ WorkerEnds(r) \/ WorkerBreaks(r) \/ CommitRow(r) \/ CommitSkipped(r)
           \/ CommitRefused(r) \/ RunEscapes(r)
  <2>1. UNCHANGED <<works, drainLineages>>
    BY <1>8 DEF CreateRun, PrepareRunFails, StartingWriteFails, StartRunThread, WorkerEnds,
                WorkerBreaks, CommitRow, CommitSkipped,
                CommitRefused, RunEscapes, RejectDescendant, RecordUnknownWork, vars, ledger
  <2>2. run[r].at \notin RunAtRest /\ \A q \in Run : q # r => run'[q] = run[q]
    BY <1>8 DEF CreateRun, PrepareRunFails, StartingWriteFails, StartRunThread, WorkerEnds,
                WorkerBreaks, CommitRow, CommitSkipped,
                CommitRefused, RunEscapes, AfterFailedCommit, RunIsAt, RunGoto, RunAtRest,
                DaemonTypeOK
  <2>3. SyncLineagesApart'
    BY <2>1 DEF SyncLineagesApart
  <2> QED
    BY <1>2, <2>1, <2>2, <2>3, ControlKeeps DEF RunsHold, Keeps
<1> QED
  BY <1>4, <1>5, <1>6, <1>7, <1>8 DEF RunStep

LEMMA JobStepHeld ==
  ASSUME Held, TypeOK, DaemonTypeOK, NEW j \in Job, JobStep(j) \/ StopWaiting(j)
  PROVE  Held'
<1> USE DEF Held
<1>1. UNCHANGED <<mutation, sync, inbox>>
  BY DEF JobStep, StopWaiting, PrepareJobFails, StartJobRun, JobRunStarted, JobRunRaised,
         SeeTerminalRow, HandOff, HandOffEscapes, CloseClaim
<1>2. ASSUME \A x : x # ClaimLease(j) => Keeps(x),
             job'[j] \in JobHolds => Live(ClaimLease(j))',
             job'[j] # "received",
             \A i \in Job : i # j => job'[i] = job[i]
      PROVE  JobsHold' /\ MutationsHold' /\ CallersHold'
  <2>1. ASSUME NEW i \in Job, i # j
        PROVE  /\ job'[i] \in JobHolds => Live(ClaimLease(i))'
               /\ job'[i] = "received" => \E s \in Caller : i \in inbox'[s]
    <3>1. ClaimLease(i) # ClaimLease(j)
      BY <2>1 DEF ClaimLease
    <3> QED
      BY <1>1, <1>2, <2>1, <3>1 DEF JobsHold, Keeps
  <2>2. JobsHold'
    BY <1>2, <2>1 DEF JobsHold
  <2>3. MutationsHold' /\ CallersHold'
    BY <1>1, <1>2, LeasesDiffer, MutationsHoldKeeps, CallersHoldKeeps
  <2> QED
    BY <2>2, <2>3
<1>3. CASE StartJobRun(j)
  <2>1. /\ Reserve(RunLease(j), "local_run", ClaimLease(j), "active")
        /\ UNCHANGED drainLineages
    BY <1>3 DEF StartJobRun, ReserveDescendant
  <2>2. SyncLineagesApart'
    BY <2>1, ReserveLive, LeasesDiffer, ApartKeeps DEF SyncLeases
  <2>3. job[j] \in JobHolds /\ job'[j] # "received" /\ \A i \in Job : i # j => job'[i] = job[i]
    BY <1>3 DEF StartJobRun, JobGoto, JobHolds, DaemonTypeOK
  <2>4. \A r \in Run : r # j => run'[r] = run[r]
    BY <1>3 DEF StartJobRun, RunGoto, DaemonTypeOK
  <2>5. RunsHold'
    BY <2>1, <2>4, ReserveLive DEF RunsHold, Keeps
  <2> QED
    BY <1>2, <2>1, <2>2, <2>3, <2>5, ReserveLive DEF JobsHold, Keeps
<1>4. CASE CloseClaim(j)
  <2>1. Complete(ClaimLease(j), TRUE) /\ UNCHANGED run
    BY <1>4 DEF CloseClaim
  <2>2. /\ job'[j] \in {"settled", "unproven"}
        /\ \A i \in Job : i # j => job'[i] = job[i]
    BY <1>4 DEF CloseClaim, DaemonTypeOK
  <2>3. SyncLineagesApart'
    BY <2>1, CompleteLive, ApartKeeps
  <2>4. \A x : x # ClaimLease(j) => Keeps(x)
    BY <2>1, CompleteLive
  <2>5. RunsHold'
    BY <2>1, <2>4, LeasesDiffer, RunsHoldKeeps
  <2> QED
    BY <1>2, <2>2, <2>3, <2>4, <2>5 DEF JobHolds
<1>5. CASE \/ PrepareJobFails(j) \/ JobRunStarted(j) \/ JobRunRaised(j) \/ SeeTerminalRow(j)
           \/ HandOff(j) \/ HandOffEscapes(j) \/ StopWaiting(j)
  <2>1. UNCHANGED <<works, drainLineages, run>>
    BY <1>5 DEF PrepareJobFails, JobRunStarted, JobRunRaised, SeeTerminalRow, HandOff,
                HandOffEscapes, StopWaiting, RecordUnknownWork, vars, ledger
  <2>2. /\ job[j] \in JobHolds /\ job'[j] # "received"
        /\ \A i \in Job : i # j => job'[i] = job[i]
    BY <1>5 DEF PrepareJobFails, JobRunStarted, JobRunRaised, SeeTerminalRow, HandOff,
                HandOffEscapes, StopWaiting, JobGoto, JobHolds, DaemonTypeOK
  <2>3. SyncLineagesApart'
    BY <2>1 DEF SyncLineagesApart
  <2>4. RunsHold'
    BY <2>1, ControlKeeps, RunsHoldKeeps
  <2> QED
    BY <1>2, <2>1, <2>2, <2>3, <2>4, ControlKeeps DEF JobsHold, Keeps
<1> QED
  BY <1>3, <1>4, <1>5 DEF JobStep

-----------------------------------------------------------------------------
(* Sync calls. *)

\* A step of one caller, seen from the others.
LEMMA CallerMoves ==
  ASSUME CallersHold, NEW s \in Caller,
         \A c \in Caller : c # s => sync'[c] = sync[c] /\ inbox'[c] = inbox[c],
         \A x : x # SyncLease(s) => Keeps(x),
         inbox'[s] # {} => sync'[s].at \in AcceptAt,
         sync'[s].at \in AcceptAt => Polling(s)'
  PROVE  CallersHold'
<1>1. ASSUME NEW c \in Caller, c # s
      PROVE  /\ inbox'[c] # {} => sync'[c].at \in AcceptAt
             /\ sync'[c].at \in AcceptAt => Polling(c)'
  <2>1. SyncLease(c) # SyncLease(s)
    BY <1>1 DEF SyncLease
  <2> QED
    BY <1>1, <2>1 DEF CallersHold, Polling, Keeps
<1> QED
  BY <1>1 DEF CallersHold

\* A step of a caller that receives, accepts and gives up nothing.
LEMMA QuietCaller ==
  ASSUME Held, NEW s \in Caller,
         UNCHANGED <<mutation, inbox, job, run>>,
         \A c \in Caller : c # s => sync'[c] = sync[c],
         \A x : x # SyncLease(s) => Keeps(x),
         inbox[s] = {}, sync'[s].at \notin AcceptAt,
         SyncLineagesApart'
  PROVE  Held'
<1>1. CallersHold'
  BY CallerMoves DEF Held
<1>2. JobsHold' /\ RunsHold' /\ MutationsHold'
  BY LeasesDiffer, JobsHoldKeeps, RunsHoldKeeps, MutationsHoldKeeps DEF Held
<1> QED
  BY <1>1, <1>2 DEF Held

LEMMA BeginSyncHeld ==
  ASSUME Held, TypeOK, DaemonTypeOK, NEW s \in Caller, BeginSync(s)
  PROVE  Held'
<1>1. /\ UNCHANGED <<mutation, inbox, job, run>>
      /\ sync' = [sync EXCEPT ![s] = Call("exchange", FALSE, FALSE)]
      /\ sync[s].at \in {"idle", "ready"}
  BY DEF BeginSync, At
<1>2. /\ \A c \in Caller : c # s => sync'[c] = sync[c]
      /\ inbox[s] = {} /\ sync'[s].at \notin AcceptAt
  BY <1>1 DEF DaemonTypeOK, Held, CallersHold, AcceptAt, Call
<1>3. PICK k : /\ Reserve(SyncLease(s), k, SyncLease(s), "active")
               /\ drainLineages' \subseteq drainLineages \cup {SyncLease(s)}
  BY DEF BeginSync, BeginPoll, BeginFlush, ReserveRoot
<1>4. SyncLineagesApart'
  <2>1. SyncLease(s) \in SyncLeases
    BY DEF SyncLeases
  <2> QED
    BY <1>3, <2>1, ReserveLive, ApartKeeps DEF Held
<1> QED
  BY <1>1, <1>2, <1>3, <1>4, ReserveLive, QuietCaller

LEMMA QuietSyncHeld ==
  ASSUME Held, TypeOK, DaemonTypeOK, NEW s \in Caller,
         \/ ExchangeFails(s) \/ FlushSucceeds(s) \/ ProveBoundary(s) \/ FailBoundary(s)
         \/ CloseSync(s) \/ AllAccepted(s)
  PROVE  Held'
<1>1. UNCHANGED <<mutation, inbox, job, run>>
  BY DEF ExchangeFails, FlushSucceeds, ProveBoundary, FailBoundary, CloseSync, AllAccepted
<1>2. inbox[s] = {}
  BY DEF ExchangeFails, FlushSucceeds, ProveBoundary, FailBoundary, CloseSync, AllAccepted,
         At, Held, CallersHold, AcceptAt
<1>3. /\ \A c \in Caller : c # s => sync'[c] = sync[c]
      /\ sync'[s].at \notin AcceptAt
  <2>1. CASE ExchangeFails(s)
    BY <2>1 DEF ExchangeFails, Call, DaemonTypeOK, AcceptAt
  <2>2. CASE FlushSucceeds(s) \/ ProveBoundary(s) \/ FailBoundary(s) \/ AllAccepted(s)
    BY <2>2 DEF FlushSucceeds, ProveBoundary, FailBoundary, AllAccepted, Goto, Call, DaemonTypeOK,
                AcceptAt
  <2>3. CASE CloseSync(s)
    BY <2>3 DEF CloseSync, AfterClose, Call, DaemonTypeOK, AcceptAt
  <2> QED
    BY <2>1, <2>2, <2>3
<1>4. CASE CloseSync(s)
  <2>1. Complete(SyncLease(s), TRUE)
    BY <1>4 DEF CloseSync
  <2>2. SyncLineagesApart'
    BY <2>1, CompleteLive, ApartKeeps DEF Held
  <2> QED
    BY <1>1, <1>2, <1>3, <2>1, <2>2, CompleteLive, QuietCaller
<1>5. CASE UNCHANGED <<works, drainLineages>>
  <2>1. SyncLineagesApart'
    BY <1>5 DEF SyncLineagesApart, Held
  <2> QED
    BY <1>1, <1>2, <1>3, <1>5, <2>1, ControlKeeps, QuietCaller
<1>6. CloseSync(s) \/ UNCHANGED <<works, drainLineages>>
  BY DEF ExchangeFails, FlushSucceeds, ProveBoundary, FailBoundary, AllAccepted, MarkProven,
         MarkBoundary, MarkFailedIfDraining, MarkFailed, vars, ledger
<1> QED
  BY <1>4, <1>5, <1>6

\* Jobs come in: the poll that brings them is live.
LEMMA ReceiveHeld ==
  ASSUME Held, TypeOK, DaemonTypeOK, NEW s \in Caller,
         \/ \E jobs \in SUBSET Job : ReceiveJobs(s, jobs) \/ DropJobs(s, jobs)
         \/ \E j \in Job : RefuseJob(s, j)
  PROVE  Held'
<1>1. UNCHANGED <<works, drainLineages, mutation, run>>
  BY DEF ReceiveJobs, DropJobs, RefuseJob, RecordUnknownWork, vars, ledger
<1>2. SyncLineagesApart' /\ RunsHold' /\ MutationsHold'
  BY <1>1, ControlKeeps, RunsHoldKeeps, MutationsHoldKeeps DEF SyncLineagesApart, Held
<1>3. Polling(s)' /\ inbox[s] = {}
  BY <1>1 DEF ReceiveJobs, DropJobs, RefuseJob, Polling, IsPoll, At, Held, CallersHold, AcceptAt
<1>4. \A c \in Caller : c # s => sync'[c] = sync[c] /\ inbox'[c] = inbox[c]
  BY DEF ReceiveJobs, DropJobs, RefuseJob, DaemonTypeOK
<1>5. inbox'[s] # {} => sync'[s].at \in AcceptAt
  BY <1>3 DEF ReceiveJobs, DropJobs, RefuseJob, Call, DaemonTypeOK, AcceptAt
<1>6. CallersHold'
  BY <1>1, <1>3, <1>4, <1>5, ControlKeeps, CallerMoves DEF Held
<1>7. ASSUME NEW i \in Job
      PROVE  \/ job'[i] = job[i]
             \/ job'[i] = "received" /\ i \in inbox'[s]
             \/ job'[i] \in {"dropped", "unretained"}
  <2>1. CASE \E jobs \in SUBSET Job : ReceiveJobs(s, jobs)
    <3>1. PICK jobs \in SUBSET Job : ReceiveJobs(s, jobs)
      BY <2>1
    <3>2. inbox'[s] = jobs
      BY <3>1 DEF ReceiveJobs, DaemonTypeOK
    <3>3. job'[i] = IF i \in jobs THEN "received" ELSE job[i]
      BY <3>1 DEF ReceiveJobs
    <3> QED
      BY <3>2, <3>3
  <2>2. ASSUME NEW jobs \in SUBSET Job, DropJobs(s, jobs)
        PROVE  job'[i] \in {"dropped", job[i]}
    BY <2>2 DEF DropJobs
  <2>3. ASSUME NEW j \in Job, RefuseJob(s, j)
        PROVE  job'[i] \in {"unretained", job[i]}
    BY <2>3 DEF RefuseJob, JobGoto, DaemonTypeOK
  <2> QED
    BY <2>1, <2>2, <2>3
<1>8. JobsHold'
  BY <1>1, <1>3, <1>4, <1>7, ControlKeeps DEF JobsHold, Keeps, Held, JobHolds
<1> QED
  BY <1>2, <1>6, <1>8 DEF Held

\* Jobs are accepted one by one, under the lease of the poll.
LEMMA AcceptHeld ==
  ASSUME Held, TypeOK, DaemonTypeOK, NEW s \in Caller, NEW j \in Job,
         AdmitJob(s, j) \/ StartJobThread(s, j) \/ JobThreadFails(s, j) \/ GiveUpJob(s, j)
  PROVE  Held'
<1>1. UNCHANGED <<mutation, run>> /\ Polling(s)
  BY DEF AdmitJob, StartJobThread, JobThreadFails, GiveUpJob, At, Held, CallersHold, AcceptAt
<1>2. /\ SyncLineagesApart'
      /\ \A x : x # ClaimLease(j) => Keeps(x)
      /\ job'[j] \in JobHolds => Live(ClaimLease(j))'
  <2>1. CASE AdmitJob(s, j)
    <3>1. Reserve(ClaimLease(j), "remote_claim", ClaimLease(j), "queued") /\ UNCHANGED drainLineages
      BY <2>1 DEF AdmitJob, AdmitRemoteClaim
    <3>2. SyncLineagesApart'
      BY <3>1, ReserveLive, LeasesDiffer, ApartKeeps DEF SyncLeases, Held
    <3> QED
      BY <3>1, <3>2, ReserveLive
  <2>2. CASE StartJobThread(s, j)
    <3>1. Activate(ClaimLease(j)) /\ job[j] = "admitted"
      BY <2>2 DEF StartJobThread
    <3>2. Live(ClaimLease(j))
      BY <3>1 DEF Held, JobsHold, JobHolds
    <3>3. \A x : Keeps(x)
      BY <3>1, ActivateLive
    <3>4. UNCHANGED drainLineages
      BY <3>1 DEF Activate
    <3>5. SyncLineagesApart'
      BY <3>1, <3>4, ActivateLive, ApartKeeps DEF Held
    <3> QED
      BY <3>2, <3>3, <3>5 DEF Keeps
  <2>3. CASE JobThreadFails(s, j)
    <3>1. UNCHANGED <<works, drainLineages>> /\ job'[j] = "unretained"
      BY <2>3 DEF JobThreadFails, RecordUnknownWork, ledger, JobGoto, DaemonTypeOK
    <3> QED
      BY <3>1, ControlKeeps DEF SyncLineagesApart, Held, JobHolds
  <2>4. CASE GiveUpJob(s, j)
    <3>1. Complete(ClaimLease(j), TRUE) /\ job'[j] = "unretained"
      BY <2>4 DEF GiveUpJob
    <3>2. SyncLineagesApart'
      BY <3>1, CompleteLive, ApartKeeps DEF Held
    <3> QED
      BY <3>1, <3>2, CompleteLive DEF JobHolds
  <2> QED
    BY <2>1, <2>2, <2>3, <2>4
<1>3. RunsHold' /\ MutationsHold'
  BY <1>1, <1>2, LeasesDiffer, RunsHoldKeeps, MutationsHoldKeeps DEF Held
<1>4. \A c \in Caller : c # s => sync'[c] = sync[c] /\ inbox'[c] = inbox[c]
  BY DEF AdmitJob, StartJobThread, JobThreadFails, GiveUpJob, Goto, DaemonTypeOK
<1>5. inbox'[s] # {} => sync'[s].at \in AcceptAt
  <2>1. CASE GiveUpJob(s, j)
    BY <2>1 DEF GiveUpJob, DaemonTypeOK
  <2>2. CASE AdmitJob(s, j) \/ StartJobThread(s, j) \/ JobThreadFails(s, j)
    BY <2>2 DEF AdmitJob, StartJobThread, JobThreadFails, Goto, DaemonTypeOK, AcceptAt
  <2> QED
    BY <2>1, <2>2
<1>6. CallersHold'
  <2>1. Polling(s)'
    BY <1>1, <1>2, LeasesDiffer DEF Polling, Keeps
  <2>2. \A x : x # SyncLease(s) /\ x # ClaimLease(j) => Keeps(x)
    BY <1>2
  <2>3. \A c \in Caller : Keeps(SyncLease(c))
    BY <1>2, LeasesDiffer
  <2> QED
    BY <1>4, <1>5, <2>1, <2>3 DEF CallersHold, Polling, Keeps, Held
<1>7. ASSUME NEW i \in Job, i # j
      PROVE  /\ job'[i] \in JobHolds => Live(ClaimLease(i))'
             /\ job'[i] = "received" => \E c \in Caller : i \in inbox'[c]
  <2>1. ClaimLease(i) # ClaimLease(j)
    BY <1>7 DEF ClaimLease
  <2>2. \/ job'[i] = job[i] /\ (i \in inbox[s] => i \in inbox'[s])
        \/ job'[i] = "dropped"
        \/ job'[i] = job[i] /\ i \notin inbox[s]
    <3>1. CASE AdmitJob(s, j) \/ StartJobThread(s, j) \/ JobThreadFails(s, j)
      <4>1. job'[i] = job[i]
        BY <1>7, <3>1 DEF AdmitJob, StartJobThread, JobThreadFails, JobGoto, DaemonTypeOK
      <4>2. i \in inbox[s] => i \in inbox'[s]
        BY <1>7, <3>1 DEF AdmitJob, StartJobThread, JobThreadFails, DaemonTypeOK
      <4> QED
        BY <4>1, <4>2
    <3>2. CASE GiveUpJob(s, j)
      <4>1. job'[i] = IF i \in inbox[s] \ {j} THEN "dropped" ELSE job[i]
        BY <3>2 DEF GiveUpJob
      <4> QED
        BY <1>7, <4>1
    <3> QED
      BY <3>1, <3>2
  <2> QED
    BY <1>2, <1>4, <1>7, <2>1, <2>2 DEF JobsHold, Keeps, Held, JobHolds
<1>8. job'[j] # "received"
  BY DEF AdmitJob, StartJobThread, JobThreadFails, GiveUpJob, JobGoto, DaemonTypeOK
<1>9. JobsHold'
  BY <1>2, <1>7, <1>8 DEF JobsHold
<1> QED
  BY <1>2, <1>3, <1>6, <1>9 DEF Held

-----------------------------------------------------------------------------
(* Every step of the daemon. *)

\* A step that leaves the leases and the threads' holds alone.
LEMMA IdleHeld ==
  ASSUME Held, UNCHANGED <<mutation, inbox, job, run, works>>,
         drainLineages' \subseteq drainLineages,
         \A c \in Caller : sync'[c] = sync[c] \/
                           (sync[c].at \notin AcceptAt /\ sync'[c].at \notin AcceptAt)
  PROVE  Held'
<1>1. SyncLineagesApart' /\ RunsHold' /\ MutationsHold' /\ JobsHold'
  BY ControlKeeps, RunsHoldKeeps, MutationsHoldKeeps, JobsHoldKeeps DEF SyncLineagesApart, Held
<1>2. CallersHold'
  BY DEF CallersHold, Held, Polling, IsPoll
<1> QED
  BY <1>1, <1>2 DEF Held

LEMMA SupervisorHeld ==
  ASSUME Held, TypeOK, DaemonTypeOK, SupervisorStep \/ ControllerStep
  PROVE  Held'
<1>1. CASE SupervisorStep /\ UNCHANGED mutation
  <2>1. /\ UNCHANGED <<inbox, job, run, works>>
        /\ drainLineages' \subseteq drainLineages
    BY <1>1 DEF SupervisorStep, RequestLifecycleDrain, ReplayLifecycleDrain, CancelLifecycleDrain,
                BeginMutation, RequestDrain, CancelDrain, threads, vars, ledger, DaemonTypeOK
  <2>2. UNCHANGED sync \/ \E d : SeekCoordinator(d)
    BY <1>1 DEF SupervisorStep, RequestLifecycleDrain, ReplayLifecycleDrain, CancelLifecycleDrain,
                BeginMutation, threads, DaemonTypeOK
  <2>3. \A c \in Caller : sync'[c] = sync[c] \/
                           (sync[c].at \notin AcceptAt /\ sync'[c].at \notin AcceptAt)
    BY <2>2 DEF SeekCoordinator, DaemonTypeOK, AcceptAt
  <2> QED
    BY <1>1, <2>1, <2>3, IdleHeld
<1>2. CASE ControllerStep
  <2>1. UNCHANGED <<mutation, sync, inbox, job, run, works, drainLineages>>
    BY <1>2 DEF ControllerStep, BindExitCallback, ExitSignalled, ExitFailed, threads, ledger
  <2> QED
    BY <2>1, IdleHeld
<1>3. ASSUME NEW m \in Mutation, BeginMutation(m)
      PROVE  Held'
  <2>1. /\ Reserve(MutationLease(m), "local_run", MutationLease(m), "active")
        /\ UNCHANGED <<drainLineages, sync, inbox, job, run>>
    BY <1>3 DEF BeginMutation, ReserveRoot
  <2>2. SyncLineagesApart'
    BY <2>1, ReserveLive, LeasesDiffer, ApartKeeps DEF SyncLeases, Held
  <2>3. CallersHold' /\ RunsHold' /\ JobsHold'
    BY <2>1, ReserveLive, CallersHoldKeeps, RunsHoldKeeps, JobsHoldKeeps DEF Held
  <2>4. \A n \in Mutation : n # m => mutation'[n] = mutation[n]
    BY <1>3 DEF BeginMutation, DaemonTypeOK
  <2>5. MutationsHold'
    BY <2>1, <2>4, ReserveLive DEF MutationsHold, Keeps, Held
  <2> QED
    BY <2>2, <2>3, <2>5 DEF Held
<1> QED
  BY <1>1, <1>2, <1>3 DEF SupervisorStep, RequestLifecycleDrain, ReplayLifecycleDrain,
                          CancelLifecycleDrain, threads

LEMMA EndMutationHeld ==
  ASSUME Held, TypeOK, DaemonTypeOK, NEW m \in Mutation, EndMutation(m)
  PROVE  Held'
<1>1. Complete(MutationLease(m), TRUE) /\ UNCHANGED <<inbox, job, run>>
  BY DEF EndMutation
<1>2. SyncLineagesApart'
  BY <1>1, CompleteLive, ApartKeeps DEF Held
<1>3. \A x : x # MutationLease(m) => Keeps(x)
  BY <1>1, CompleteLive
<1>4. RunsHold' /\ JobsHold'
  BY <1>1, <1>3, LeasesDiffer, RunsHoldKeeps, JobsHoldKeeps DEF Held
<1>7. CallersHold'
  <2>1. sync \in [Caller -> SyncRecord]
    BY DEF DaemonTypeOK, SyncRecord
  <2>2. \A s \in Caller : sync'[s].at = sync[s].at
    BY <2>1, MutationLeavesSync
  <2> QED
    BY <1>1, <1>3, <2>2, LeasesDiffer DEF CallersHold, Polling, Keeps, Held
<1>5. mutation'[m] # "admitted" /\ \A n \in Mutation : n # m => mutation'[n] = mutation[n]
  BY DEF EndMutation, DaemonTypeOK
<1>6. MutationsHold'
  <2>1. ASSUME NEW n \in Mutation, n # m
        PROVE  MutationLease(n) # MutationLease(m)
    BY <2>1 DEF MutationLease
  <2> QED
    BY <1>3, <1>5, <2>1 DEF MutationsHold, Keeps, Held
<1> QED
  BY <1>2, <1>4, <1>6, <1>7 DEF Held

LEMMA CoordinatorHeld ==
  ASSUME Held, TypeOK, DaemonTypeOK, NEW d \in DrainId,
         CoordinatorStep(d), ~BeginSync(d)
  PROVE  Held'
<1>1. UNCHANGED <<mutation, inbox, job, run, works, drainLineages>>
  BY DEF CoordinatorStep, StartCoordinator, CoordinatorStartFails, ReadCredentials, ReportAbsent,
         ReportError, MarkNotRequired, MarkBoundary,
         MarkFailedIfDraining, MarkFailed, vars, ledger
<1>2. /\ sync[d].at \notin AcceptAt
      /\ \E at \in SyncAt \ AcceptAt : Goto(d, at)
  BY DEF CoordinatorStep, StartCoordinator, CoordinatorStartFails, ReadCredentials, ReportAbsent,
         ReportError, At, AcceptAt, SyncAt
<1>3. \A c \in Caller : sync'[c] = sync[c] \/
                         (sync[c].at \notin AcceptAt /\ sync'[c].at \notin AcceptAt)
  BY <1>2 DEF Goto, DaemonTypeOK, AcceptAt
<1> QED
  BY <1>1, <1>3, IdleHeld

LEMMA HeldStep ==
  ASSUME Held, TypeOK, DaemonTypeOK, DaemonNext
  PROVE  Held'
<1>1. CASE SupervisorStep \/ ControllerStep
  BY <1>1, SupervisorHeld
<1>2. CASE \E m \in Mutation : EndMutation(m)
  BY <1>2, EndMutationHeld
<1>3. ASSUME NEW s \in Caller, SyncStep(s)
      PROVE  Held'
  BY <1>3, QuietSyncHeld, ReceiveHeld, AcceptHeld DEF SyncStep
<1>4. ASSUME NEW s \in Caller, BeginSync(s)
      PROVE  Held'
  BY <1>4, BeginSyncHeld
<1>5. ASSUME NEW d \in DrainId, CoordinatorStep(d)
      PROVE  Held'
  <2>1. d \in Caller
    BY DEF Caller
  <2> QED
    BY <1>5, <2>1, CoordinatorHeld, BeginSyncHeld DEF CoordinatorStep
<1>6. CASE \E j \in Job : JobStep(j) \/ StopWaiting(j)
  BY <1>6, JobStepHeld
<1>7. CASE (\E r \in Run : RunStep(r)) \/ (\E r \in UserRun : StartUserRun(r))
  <2>1. UserRun \subseteq Run
    BY DEF Run
  <2> QED
    BY <1>7, <2>1, RunStepHeld
<1>8. Syncer \subseteq Caller
  BY DEF Caller
<1>9. CASE CloseStore
  <2>1. UNCHANGED <<mutation, sync, inbox, job, run, works, drainLineages>>
    BY <1>9 DEF CloseStore, vars, ledger
  <2> QED
    BY <2>1, IdleHeld
<1> QED
  BY <1>1, <1>2, <1>3, <1>4, <1>5, <1>6, <1>7, <1>8, <1>9 DEF DaemonNext

-----------------------------------------------------------------------------
(* What a thread gives up on is counted before its lease goes. *)

GivenUp == {"unretained", "unproven"}

JobsCounted == \A j \in Job : job[j] \in GivenUp => unknownWork

RunCounted(r) ==
  /\ run[r].at = "committed" => row[r] = "terminal" \/ closed
  /\ run[r].at = "release" /\ run[r].worker /\ row[r] = "live" => unknownWork \/ closed
  /\ run[r].at = "over" /\ row[r] = "live" => unknownWork \/ closed

RunsCounted == \A r \in Run : RunCounted(r)

\* A stop does not commit over a job given up on, and none is given up later.
StopSettles == stopping => \A j \in Job : job[j] \notin GivenUp

\* The lease table, the threads and the doubts agree.
DaemonInv ==
  /\ IInv
  /\ DaemonTypeOK
  /\ Held
  /\ JobsCounted
  /\ RunsCounted
  /\ StopSettles

LEMMA StopRests ==
  ASSUME IInv, Held, stopping
  PROVE  /\ \A s \in Caller : ~Polling(s) /\ inbox[s] = {}
         /\ \A j \in Job : job[j] \notin JobHolds /\ job[j] # "received"
         /\ \A r \in Run : run[r].at \in RunAtRest
         /\ \A m \in Mutation : mutation[m] # "admitted"
<1>1. \A rec \in works : rec.kind # "sync_poll" /\ rec.id \in SyncLeases
  BY DEF IInv, StoppingInv, DrainWorkInv, LineagesAccounted, DescendantKinds, Held,
         SyncLineagesApart
<1>2. \A s \in Caller : ~Polling(s) /\ inbox[s] = {}
  BY <1>1 DEF Polling, IsPoll, Held, CallersHold
<1>3. \A a : ~Live(ClaimLease(a)) /\ ~Live(RunLease(a)) /\ ~Live(MutationLease(a))
  BY <1>1, LeasesDiffer DEF Live, SyncLeases
<1> QED
  BY <1>2, <1>3 DEF Held, JobsHold, RunsHold, MutationsHold

\* A thread gives up on a job under a lease, and counts it.
LEMMA JobGivenUp ==
  ASSUME DaemonTypeOK, DaemonNext, NEW j \in Job, job'[j] \in GivenUp, job[j] \notin GivenUp
  PROVE  unknownWork' /\ (job[j] \in JobHolds \/ \E s \in Caller : Polling(s))
<1>1. PICK i \in Job : \/ \E s \in Caller : RefuseJob(s, i) \/ JobThreadFails(s, i)
                       \/ HandOffEscapes(i)
  <2>1. job' # job
    OBVIOUS
  <2>2. ASSUME NEW s \in Caller, SyncStep(s)
        PROVE  \E i \in Job : RefuseJob(s, i) \/ JobThreadFails(s, i)
    <3>1. CASE \/ ExchangeFails(s) \/ FlushSucceeds(s) \/ ProveBoundary(s) \/ FailBoundary(s)
               \/ CloseSync(s) \/ AllAccepted(s)
      BY <2>1, <3>1 DEF ExchangeFails, FlushSucceeds, ProveBoundary, FailBoundary, CloseSync,
                        AllAccepted
    <3>2. ASSUME NEW jobs \in SUBSET Job, ReceiveJobs(s, jobs) \/ DropJobs(s, jobs)
          PROVE  FALSE
      <4>1. job'[j] \in {"received", "dropped", job[j]}
        BY <3>2 DEF ReceiveJobs, DropJobs
      <4> QED
        BY <4>1 DEF GivenUp
    <3>3. ASSUME NEW i \in Job, AdmitJob(s, i) \/ StartJobThread(s, i)
          PROVE  FALSE
      BY <3>3 DEF AdmitJob, StartJobThread, JobGoto, DaemonTypeOK, GivenUp
    <3>4. ASSUME NEW i \in Job, GiveUpJob(s, i)
          PROVE  FALSE
      <4>1. job'[j] \in {"dropped", job[j]}
        BY <3>4 DEF GiveUpJob
      <4> QED
        BY <4>1 DEF GivenUp
    <3> QED
      BY <2>2, <3>1, <3>2, <3>3, <3>4 DEF SyncStep
  <2>3. ASSUME NEW i \in Job, JobStep(i) \/ StopWaiting(i)
        PROVE  HandOffEscapes(i)
    BY <2>3 DEF JobStep, StopWaiting, PrepareJobFails, StartJobRun, JobRunStarted, JobRunRaised,
                SeeTerminalRow, HandOff, CloseClaim, JobGoto, DaemonTypeOK, GivenUp
  <2>4. ASSUME NEW r, RunStep(r) \/ StartUserRun(r)
        PROVE  UNCHANGED job
    BY <2>4 DEF RunStep, StartUserRun, CreateRunFails, CreateRun, PrepareRunFails,
                StartingWriteFails, StartRunThread, RunThreadFails, WorkerEnds, WorkerBreaks,
                BeginCommit,
                CommitRefused, CommitRow, CommitSkipped, CommitRaises, EndCommit, RunEscapes,
                ReleaseRun
  <2>5. SupervisorStep \/ ControllerStep => UNCHANGED job
    BY DEF SupervisorStep, ControllerStep, RequestLifecycleDrain, ReplayLifecycleDrain,
           CancelLifecycleDrain, BeginMutation, threads
  <2>6. (\E m : EndMutation(m)) \/ CloseStore => UNCHANGED job
    BY DEF EndMutation, CloseStore
  <2>7. \A s : BeginSync(s) \/ CoordinatorStep(s) => UNCHANGED job
    BY DEF CoordinatorStep, BeginSync, StartCoordinator, CoordinatorStartFails, ReadCredentials,
           ReportAbsent, ReportError
  <2> QED
    BY <2>1, <2>2, <2>3, <2>4, <2>5, <2>6, <2>7 DEF DaemonNext
<1>2. unknownWork'
  BY <1>1 DEF RefuseJob, JobThreadFails, HandOffEscapes, RecordUnknownWork
<1>3. job'[j] # job[j] => i = j
  BY <1>1 DEF RefuseJob, JobThreadFails, HandOffEscapes, JobGoto, DaemonTypeOK
<1>4. job[i] \in JobHolds \/ \E s \in Caller : Polling(s)
  BY <1>1 DEF RefuseJob, JobThreadFails, HandOffEscapes, JobHolds
<1> QED
  BY <1>2, <1>3, <1>4

\* A run step moves its own run and row, and counts a run that escapes.
LEMMA RunStepCounted ==
  ASSUME DaemonTypeOK, RunsCounted, unknownWork => unknownWork', UNCHANGED closed, NEW r \in Run,
         RunStep(r) \/ StartUserRun(r)
  PROVE  RunsCounted'
<1>1. ASSUME NEW q \in Run, q # r
      PROVE  run'[q] = run[q] /\ row'[q] = row[q]
  BY <1>1 DEF RunStep, StartUserRun, CreateRunFails, CreateRun, PrepareRunFails,
              StartingWriteFails, StartRunThread, RunThreadFails, WorkerEnds, WorkerBreaks,
              BeginCommit,
              CommitRefused, CommitRow, CommitSkipped, CommitRaises, EndCommit, RunEscapes,
              ReleaseRun,
              AfterFailedCommit, RunGoto, DaemonTypeOK
<1>2. RunCounted(r)'
  <2>1. CASE \/ StartUserRun(r) \/ CreateRunFails(r) \/ CreateRun(r) \/ PrepareRunFails(r)
             \/ StartingWriteFails(r) \/ StartRunThread(r) \/ RunThreadFails(r)
             \/ WorkerEnds(r) \/ BeginCommit(r)
    <3>1. run'[r].at \in {"leased", "refused", "bound", "commit", "leaked", "worker", "stranded",
                          "committing"}
      BY <2>1 DEF StartUserRun, CreateRunFails, CreateRun, PrepareRunFails, StartingWriteFails,
                  StartRunThread, RunThreadFails, WorkerEnds, BeginCommit, RunGoto, DaemonTypeOK
    <3> QED
      BY <3>1 DEF RunCounted
  <2>2. CASE CommitRefused(r) \/ CommitRaises(r)
    <3>1. AfterFailedCommit(r)
      BY <2>2 DEF CommitRefused, CommitRaises
    <3>2. CASE run[r].worker
      <4>1. run'[r].at \in {"commit", "escaping"}
        BY <3>1, <3>2 DEF AfterFailedCommit, RunGoto, DaemonTypeOK
      <4> QED
        BY <4>1 DEF RunCounted
    <3>3. CASE ~run[r].worker
      <4>1. run' = [run EXCEPT ![r].at = "release"]
        BY <3>1, <3>3 DEF AfterFailedCommit, RunGoto
      <4>2. run'[r].at = "release" /\ run'[r].worker = run[r].worker
        BY <4>1 DEF DaemonTypeOK
      <4> QED
        BY <3>3, <4>2 DEF RunCounted
    <3> QED
      BY <3>2, <3>3
  <2>3. CASE CommitRow(r) \/ CommitSkipped(r)
    BY <2>3 DEF CommitRow, CommitSkipped, RunGoto, RunCounted, DaemonTypeOK
  <2>4. CASE EndCommit(r)
    BY <2>4 DEF EndCommit, RunGoto, RunsCounted, RunCounted, RunIsAt, DaemonTypeOK
  <2>7. CASE WorkerBreaks(r)
    <3>1. run'[r].at = "escaping"
      BY <2>7 DEF WorkerBreaks, RunGoto, DaemonTypeOK
    <3> QED
      BY <3>1 DEF RunCounted
  <2>5. CASE RunEscapes(r)
    BY <2>5 DEF RunEscapes, RecordUnknownWork, RunGoto, RunCounted, DaemonTypeOK
  <2>6. CASE ReleaseRun(r)
    <3>1. run[r].at = "release" /\ row' = row
      BY <2>6 DEF ReleaseRun, RunIsAt
    <3>2. \/ run[r].worker /\ RunGoto(r, "over")
          \/ row[r] = "terminal" /\ RunGoto(r, "over")
          \/ RunGoto(r, "stranded")
      BY <2>6 DEF ReleaseRun
    <3> QED
      BY <3>1, <3>2 DEF RunGoto, RunsCounted, RunCounted, DaemonTypeOK
  <2> QED
    BY <2>1, <2>2, <2>3, <2>4, <2>5, <2>6, <2>7 DEF RunStep
<1> QED
  BY <1>1, <1>2 DEF RunsCounted, RunCounted

\* Only a shutdown closes the store, and nothing opens it again.
LEMMA ClosedStays ==
  ASSUME DaemonNext
  PROVE  closed' = closed \/ CloseStore
<1>1. SupervisorStep \/ ControllerStep \/ (\E m : EndMutation(m)) => closed' = closed
  BY DEF SupervisorStep, ControllerStep, RequestLifecycleDrain, ReplayLifecycleDrain,
         CancelLifecycleDrain, BeginMutation, EndMutation, threads
<1>2. ASSUME NEW s, SyncStep(s) \/ BeginSync(s) \/ CoordinatorStep(s)
      PROVE  UNCHANGED closed
  BY <1>2 DEF SyncStep, CoordinatorStep, ExchangeFails, FlushSucceeds, ProveBoundary, FailBoundary,
              CloseSync, ReceiveJobs, DropJobs, AdmitJob, StartJobThread, GiveUpJob, AllAccepted,
              RefuseJob, JobThreadFails, BeginSync, StartCoordinator, CoordinatorStartFails,
              ReadCredentials, ReportAbsent, ReportError
<1>3. ASSUME NEW j, JobStep(j) \/ StopWaiting(j)
      PROVE  UNCHANGED closed
  BY <1>3 DEF JobStep, StopWaiting, PrepareJobFails, StartJobRun, JobRunStarted, JobRunRaised,
              SeeTerminalRow, HandOff, HandOffEscapes, CloseClaim
<1>4. ASSUME NEW r, RunStep(r) \/ StartUserRun(r)
      PROVE  UNCHANGED closed
  BY <1>4 DEF RunStep, StartUserRun, CreateRunFails, CreateRun, PrepareRunFails,
              StartingWriteFails, StartRunThread, RunThreadFails, WorkerEnds, WorkerBreaks,
              BeginCommit, CommitRefused, CommitRow, CommitSkipped, CommitRaises, EndCommit,
              RunEscapes, ReleaseRun
<1> QED
  BY <1>1, <1>2, <1>3, <1>4 DEF DaemonNext

LEMMA RunsCountedStep ==
  ASSUME DaemonTypeOK, RunsCounted, unknownWork => unknownWork', DaemonNext
  PROVE  RunsCounted'
<1>c. closed => closed'
  BY ClosedStays DEF CloseStore
<1>1. CASE UNCHANGED <<run, row>>
  BY <1>1, <1>c DEF RunsCounted, RunCounted
<1>2. ASSUME NEW j \in Job, StartJobRun(j)
      PROVE  RunsCounted'
  <2>1. row' = row /\ run' = [run EXCEPT ![j].at = "leased"]
    BY <1>2 DEF StartJobRun, RunGoto
  <2>2. run'[j].at = "leased" /\ \A q \in Run : q # j => run'[q] = run[q]
    BY <2>1 DEF DaemonTypeOK, Run
  <2> QED
    BY <1>c, <2>1, <2>2 DEF RunsCounted, RunCounted
<1>3. ASSUME NEW j \in Job, JobStep(j) \/ StopWaiting(j), ~StartJobRun(j)
      PROVE  UNCHANGED <<run, row>>
  BY <1>3 DEF JobStep, StopWaiting, PrepareJobFails, JobRunStarted, JobRunRaised,
              SeeTerminalRow, HandOff, HandOffEscapes, CloseClaim
<1>4. ASSUME NEW s, SyncStep(s) \/ BeginSync(s) \/ CoordinatorStep(s)
      PROVE  UNCHANGED <<run, row>>
  BY <1>4 DEF SyncStep, CoordinatorStep, ExchangeFails, FlushSucceeds, ProveBoundary, FailBoundary,
              CloseSync, ReceiveJobs, DropJobs, AdmitJob, StartJobThread, GiveUpJob, AllAccepted,
              RefuseJob, JobThreadFails, BeginSync, StartCoordinator, CoordinatorStartFails,
              ReadCredentials, ReportAbsent, ReportError
<1>5. SupervisorStep \/ ControllerStep \/ CloseStore \/ (\E m \in Mutation : EndMutation(m))
        => UNCHANGED <<run, row>>
  BY DEF SupervisorStep, ControllerStep, RequestLifecycleDrain, ReplayLifecycleDrain,
         CancelLifecycleDrain, BeginMutation, EndMutation, CloseStore, threads
<1>6. ASSUME NEW r \in Run, RunStep(r) \/ StartUserRun(r)
      PROVE  RunsCounted'
  <2>1. UNCHANGED closed
    BY <1>6 DEF RunStep, StartUserRun, CreateRunFails, CreateRun, PrepareRunFails,
                StartingWriteFails, StartRunThread, RunThreadFails, WorkerEnds, WorkerBreaks,
                BeginCommit, CommitRefused, CommitRow, CommitSkipped, CommitRaises, EndCommit,
                RunEscapes, ReleaseRun
  <2> QED
    BY <1>6, <2>1, RunStepCounted
<1>7. UserRun \subseteq Run
  BY DEF Run
<1> QED
  BY <1>1, <1>2, <1>3, <1>4, <1>5, <1>6, <1>7 DEF DaemonNext

LEMMA DaemonInvInit == DaemonInit => DaemonInv
<1> SUFFICES ASSUME DaemonInit PROVE DaemonInv
  OBVIOUS
<1>1. IInv /\ DaemonTypeOK
  BY InitIInv, InitTypes DEF DaemonInit
<1>2. Held
  BY DEF DaemonInit, Init, Held, CallersHold, JobsHold, RunsHold, MutationsHold, SyncLineagesApart,
         Idle, Call, AcceptAt, JobHolds, RunAtRest
<1>3. JobsCounted /\ RunsCounted /\ StopSettles
  BY DEF DaemonInit, Init, JobsCounted, RunsCounted, RunCounted, StopSettles, GivenUp
<1> QED
  BY <1>1, <1>2, <1>3 DEF DaemonInv

LEMMA DaemonInvStep == DaemonInv /\ [DaemonNext]_daemonVars => DaemonInv'
<1>1. ASSUME DaemonInv, DaemonNext
      PROVE  DaemonInv'
  <2> USE <1>1 DEF DaemonInv
  <2>1. [Next]_vars /\ DaemonTypeOK'
    BY DaemonStepCases
  <2>2. IInv' /\ (unknownWork => unknownWork') /\ (stopping' /\ ~stopping => CommitEnabled')
    BY <2>1, IInvStep, StepFacts
  <2>3. Held'
    BY HeldStep DEF IInv
  <2>4. JobsCounted'
    BY <2>2, JobGivenUp DEF JobsCounted
  <2>5. RunsCounted'
    BY <2>2, RunsCountedStep
  <2>6. StopSettles'
    <3>1. CASE stopping
      BY <3>1, StopRests, JobGivenUp DEF StopSettles
    <3>2. CASE ~stopping
      BY <2>2, <2>4, <3>2 DEF StopSettles, JobsCounted, CommitEnabled, Blocked
    <3> QED
      BY <3>1, <3>2
  <2> QED
    BY <2>1, <2>2, <2>3, <2>4, <2>5, <2>6
<1>2. ASSUME DaemonInv, UNCHANGED daemonVars
      PROVE  DaemonInv'
  <2>1. UNCHANGED vars /\ UNCHANGED <<connected, closed, mutation, sync, inbox, job, run, row>>
    BY <1>2 DEF daemonVars, threads
  <2>2. IInv' /\ UNCHANGED <<works, drainLineages, unknownWork, stopping>>
    BY <1>2, <2>1, IInvStep DEF DaemonInv, vars, ledger, doubt, commit
  <2>3. DaemonTypeOK' /\ JobsCounted' /\ RunsCounted' /\ StopSettles'
    BY <1>2, <2>1, <2>2 DEF DaemonInv, DaemonTypeOK, JobsCounted, RunsCounted, RunCounted,
                            StopSettles
  <2>4. Held'
    BY <1>2, <2>1, <2>2, IdleHeld DEF DaemonInv
  <2> QED
    BY <2>2, <2>3, <2>4 DEF DaemonInv
<1> QED
  BY <1>1, <1>2

LEMMA DaemonInvariance == DaemonSpec => []DaemonInv
  BY DaemonInvInit, DaemonInvStep, PTL DEF DaemonSpec

\* Whatever the threads, the supervisor and the faults do, a committed stop
\* has waited for every thread that holds work, and for every job given up on.
THEOREM StopHasWaited == DaemonSpec => []StopWaitsForThreads
<1>1. DaemonInv => StopWaitsForThreads
  <2> SUFFICES ASSUME DaemonInv, stopping
               PROVE  /\ \A j \in Job : job[j] \in {"offered", "settled", "dropped"}
                      /\ \A r \in Run : run[r].at \in {"none", "over", "refused", "stranded"}
    BY StopRests DEF StopWaitsForThreads, DaemonInv
  <2>1. \A j \in Job : job[j] \in {"offered", "settled", "dropped"}
    BY StopRests DEF DaemonInv, StopSettles, GivenUp, JobHolds, DaemonTypeOK, JobAt
  <2> QED
    BY <2>1, StopRests DEF DaemonInv, RunAtRest
<1> QED
  BY <1>1, DaemonInvariance, PTL

\* What a thread gives up on is counted as unknown, for every fault, save a run over
\* which serve() has closed the store.
THEOREM GivingUpCounts == DaemonSpec => []EscapesAreCounted
<1>1. DaemonInv => EscapesAreCounted
  BY DEF DaemonInv, JobsCounted, GivenUp, RunsCounted, RunCounted, EscapesAreCounted, RunIsAt
<1> QED
  BY <1>1, DaemonInvariance, PTL

\* The threads' program counters and the run rows have their types.
THEOREM DaemonTypeCorrect == DaemonSpec => []DaemonTypeOK
<1>1. DaemonInv => DaemonTypeOK
  BY DEF DaemonInv
<1> QED
  BY <1>1, DaemonInvariance, PTL

\* No exchange assigns a job once the stop is committed: it would need a
\* claim-capable poll, and the commit has waited for the last one.
THEOREM NoLateAssignment == DaemonSpec => NoJobWhileStopping
<1>1. DaemonInv /\ [DaemonNext]_daemonVars =>
        [stopping => \A j \in Job : job[j] = "offered" => job'[j] = "offered"]_daemonVars
  <2> SUFFICES ASSUME DaemonInv, DaemonNext, stopping, NEW j \in Job, job[j] = "offered"
               PROVE  job'[j] = "offered"
    OBVIOUS
  <2>1. \A s \in Caller : ~Polling(s) /\ inbox[s] = {}
    BY StopRests DEF DaemonInv
  <2>2. ASSUME NEW s \in Caller, SyncStep(s)
        PROVE  job'[j] = job[j]
    BY <2>1, <2>2 DEF SyncStep, ExchangeFails, FlushSucceeds, ProveBoundary, FailBoundary,
                      CloseSync,
                ReceiveJobs, DropJobs, RefuseJob, AdmitJob, StartJobThread, JobThreadFails,
                GiveUpJob, AllAccepted
  <2>3. ASSUME NEW i \in Job, JobStep(i) \/ StopWaiting(i)
        PROVE  job'[j] = job[j]
    BY <2>3 DEF JobStep, StopWaiting, PrepareJobFails, StartJobRun, JobRunStarted, JobRunRaised,
                SeeTerminalRow, HandOff, HandOffEscapes, CloseClaim, JobGoto, DaemonInv,
                DaemonTypeOK
  <2>4. ASSUME NEW r, RunStep(r) \/ StartUserRun(r)
        PROVE  UNCHANGED job
    BY <2>4 DEF RunStep, StartUserRun, CreateRunFails, CreateRun, PrepareRunFails,
                StartingWriteFails, StartRunThread, RunThreadFails, WorkerEnds, WorkerBreaks,
                BeginCommit,
                CommitRefused, CommitRow, CommitSkipped, CommitRaises, EndCommit, RunEscapes,
                ReleaseRun
  <2>5. SupervisorStep \/ ControllerStep => UNCHANGED job
    BY DEF SupervisorStep, ControllerStep, RequestLifecycleDrain, ReplayLifecycleDrain,
           CancelLifecycleDrain, BeginMutation, threads
  <2>6. (\E m : EndMutation(m)) \/ CloseStore => UNCHANGED job
    BY DEF EndMutation, CloseStore
  <2>7. \A s : BeginSync(s) \/ CoordinatorStep(s) => UNCHANGED job
    BY DEF CoordinatorStep, BeginSync, StartCoordinator, CoordinatorStartFails, ReadCredentials,
           ReportAbsent, ReportError
  <2> QED
    BY <2>2, <2>3, <2>4, <2>5, <2>6, <2>7 DEF DaemonNext
<1> QED
  BY <1>1, DaemonInvariance, PTL DEF DaemonSpec, NoJobWhileStopping

\* Behind a closed gate a run starts only under the live lease of a claim.
THEOREM DrainOnlyDrains == DaemonSpec => ClaimedRunsOnly
<1>1. DaemonInv /\ [DaemonNext]_daemonVars =>
        [drain # NoDrain => \A r \in Run : run[r].at = "none" /\ run'[r].at # "none" =>
                               r \in Job /\ Live(ClaimLease(r))]_daemonVars
  <2> SUFFICES ASSUME DaemonInv, DaemonNext, drain # NoDrain, NEW r \in Run,
                      run[r].at = "none", run'[r].at # "none"
               PROVE  r \in Job /\ Live(ClaimLease(r))
    OBVIOUS
  <2>1. ~admissionOpen
    BY DEF DaemonInv, IInv, GateInv
  <2>2. ASSUME NEW q \in Run, RunStep(q) \/ StartUserRun(q)
        PROVE  run'[r] = run[r]
    <3>1. CASE StartUserRun(q)
      BY <2>1, <3>1 DEF StartUserRun, ReserveRoot
    <3>2. CASE RunStep(q)
      <4>1. q # r /\ (run' = run \/ \E v : run' = [run EXCEPT ![q] = v])
        BY <3>2 DEF RunStep, CreateRunFails, CreateRun, PrepareRunFails, StartingWriteFails,
                    StartRunThread, RunThreadFails, WorkerEnds, WorkerBreaks, BeginCommit,
                    CommitRefused,
                    CommitRow, CommitSkipped, CommitRaises, EndCommit, RunEscapes, ReleaseRun,
                    AfterFailedCommit, RunGoto, RunIsAt
      <4> QED
        BY <4>1 DEF DaemonInv, DaemonTypeOK
    <3> QED
      BY <2>2, <3>1, <3>2
  <2>3. ASSUME NEW j \in Job, StartJobRun(j)
        PROVE  r \in Job /\ Live(ClaimLease(r))
    <3>1. job[j] \in JobHolds /\ run' = [run EXCEPT ![j].at = "leased"]
      BY <2>3 DEF StartJobRun, RunGoto, JobHolds
    <3>2. r = j
      BY <3>1 DEF DaemonInv, DaemonTypeOK, Run
    <3> QED
      BY <3>1, <3>2 DEF DaemonInv, Held, JobsHold
  <2>4. ASSUME NEW j \in Job, JobStep(j) \/ StopWaiting(j), ~StartJobRun(j)
        PROVE  UNCHANGED run
    BY <2>4 DEF JobStep, StopWaiting, PrepareJobFails, JobRunStarted, JobRunRaised,
                SeeTerminalRow, HandOff, HandOffEscapes, CloseClaim
  <2>5. ASSUME NEW s, SyncStep(s) \/ BeginSync(s) \/ CoordinatorStep(s)
        PROVE  UNCHANGED run
    BY <2>5 DEF SyncStep, CoordinatorStep, ExchangeFails, FlushSucceeds, ProveBoundary,
                FailBoundary, CloseSync, ReceiveJobs, DropJobs, AdmitJob, StartJobThread,
                GiveUpJob, AllAccepted, RefuseJob, JobThreadFails, BeginSync, StartCoordinator,
                CoordinatorStartFails, ReadCredentials, ReportAbsent, ReportError
  <2>6. SupervisorStep \/ ControllerStep \/ CloseStore \/ (\E m \in Mutation : EndMutation(m))
          => UNCHANGED run
    BY DEF SupervisorStep, ControllerStep, RequestLifecycleDrain, ReplayLifecycleDrain,
           CancelLifecycleDrain, BeginMutation, EndMutation, CloseStore, threads
  <2>7. UserRun \subseteq Run
    BY DEF Run
  <2> QED
    BY <2>2, <2>3, <2>4, <2>5, <2>6, <2>7 DEF DaemonNext
<1> QED
  BY <1>1, DaemonInvariance, PTL DEF DaemonSpec, ClaimedRunsOnly
=============================================================================
