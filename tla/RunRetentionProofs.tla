------------------------- MODULE RunRetentionProofs -------------------------
(***************************************************************************)
(* Theorems about RunRetention, for any number of runs, events, syncers and  *)
(* faults: what the rows promise of reports and directories, and that the    *)
(* outbox delivers at least once.                                             *)
(***************************************************************************)
EXTENDS RunRetention, TLAPS

-----------------------------------------------------------------------------
\* The inductive invariant

\* A run's thread goes with its row.
RunnerInv ==
  \A r \in Run :
    /\ runner[r] \in {"idle", "staged"} => status[r] = "none"
    /\ runner[r] \in {"active", "running"} => status[r] = "active"
    /\ runner[r] \in {"committed", "report", "decide", "mark_sync", "mark_free", "require", "enforce"}
         => status[r] \in Final
    /\ status[r] = "none" => ~pruned[r]

\* A job reports the end of a run that has ended, of a remote one, or catches.
JobInv ==
  \A r \in Run :
    /\ job[r] \in {"handoff", "mark_succeeded"} => status[r] = "succeeded"
    /\ job[r] \in {"mark_failed", "enforce"} => status[r] \in Final
    /\ job[r] = "failing" /\ ~caught[r] => status[r] \in Final /\ mode[r] = "remote"
    /\ job[r] = "handoff" => mode[r] = "remote"
    /\ job[r] \in {"idle", "claimed", "handoff"} => ~caught[r]
    /\ effective[r] # "none" => status[r] \in Final
    /\ job[r] \in {"idle", "claimed", "handoff", "mark_succeeded"} => effective[r] = "none"

\* A final report of r has been queued, whatever became of it.
HasFinal(r) == \E e \in Event : state[e] # "none" /\ about[e] = r /\ proof[e] \in Final

\* Who is about to mark a row has seen the report, or has queued it.
QueuedInv ==
  /\ \A e \in Event : proof[e] \in Final => status[about[e]] \in Final
  /\ \A r \in Run :
       /\ queued[r] /\ required[r] => HasFinal(r)
       /\ runner[r] = "mark_sync" => HasFinal(r)
       /\ job[r] \in {"mark_succeeded", "mark_failed"} => HasFinal(r)
  /\ \A s \in Sweeper : phase[s] = "mark_sync" => HasFinal(at[s])

\* One exchange at a time, of events that are queued and not settled; what is
\* sent, or about to be marked so, has the server's word.
ExchangeInv ==
  /\ phase[Main] \notin Exchanging
  /\ \A s, t \in Sweeper : phase[s] \in Exchanging /\ phase[t] \in Exchanging => s = t
  /\ \A s \in Sweeper :
       /\ taken[s] \subseteq confirmed
       /\ phase[s] \in {"asked", "marking"} => \A e \in batch[s] : state[e] \notin {"none", "sent"}
       /\ \A e \in doomed[s] : state[e] # "none"
  /\ \A e \in Event : state[e] = "sent" => e \in confirmed
  /\ \A r \in Run : \A e \in condemned[r] : state[e] # "none"

EffectiveType == effective \in [Run -> {"none", "failed"}]

\* The types in groups.
EventTypes ==
  /\ state \in [Event -> {"none", "pending", "rejected", "sent", "gone"}]
  /\ about \in [Event -> Run]
  /\ kind \in [Event -> {"local_run_update", "run_update"}]
  /\ proof \in [Event -> {"none", "active"} \cup Final]
  /\ says \in [Event -> {"none"} \cup Final]
SyncTypes ==
  /\ confirmed \subseteq Event
  /\ connected \in BOOLEAN
  /\ superseded \subseteq Run
  /\ phase \in [Sweeper -> {"idle"} \cup Exchanging \cup Sweeping]
  /\ batch \in [Sweeper -> SUBSET Event]
  /\ taken \in [Sweeper -> SUBSET Event]
  /\ tried \in [Sweeper -> SUBSET Event]
  /\ single \in [Sweeper -> BOOLEAN]
  /\ doomed \in [Sweeper -> SUBSET Event]
RowTypes ==
  /\ status \in [Run -> {"none", "active"} \cup Final]
  /\ pruned \in [Run -> BOOLEAN]
  /\ keep \in [Run -> Keeps]
  /\ mode \in [Run -> {"local", "remote"}]
  /\ queued \in [Run -> BOOLEAN]
  /\ required \in [Run -> BOOLEAN]
  /\ acked \in [Run -> BOOLEAN]
  /\ lease \in [Run -> {"none", "live", "expired"}]
  /\ effective \in [Run -> {"none", "failed"}]
  /\ compacted \in [Run -> BOOLEAN]
  /\ runDir \in [Run -> BOOLEAN]
ThreadTypes ==
  /\ runner \in [Run -> RunnerAt]
  /\ job \in [Run -> JobAt]
  /\ caught \in [Run -> BOOLEAN]
  /\ condemned \in [Run -> SUBSET Event]
ProcessTypes ==
  /\ files \in [Run -> BOOLEAN]
  /\ scheduled \in [Run -> BOOLEAN]
  /\ todo \in [Sweeper -> SUBSET (Run \X BOOLEAN)]
  /\ at \in [Sweeper -> Run]
  /\ up \in {"down", "starting", "up"}
  /\ trouble \in 0..MaxTrouble

RetentionInv ==
  RetentionTypeOK /\ RunnerInv /\ JobInv /\ QueuedInv /\ ExchangeInv /\ NoLeakedDirectory

-----------------------------------------------------------------------------
\* Kinds of steps

AsideStep(r) ==
  SchedulerEnforces(r) \/ Renew(r) \/ Acknowledge(r) \/ PruneRow(r) \/ PruneOrphan(r) \/ LeaseExpires(r)
OutboxStep ==
  (\E s \in Syncer : Deliver(s) \/ Misdeliver(s) \/ AgeEvents(s)) \/ PruneEvents \/ Reconnect
Dying == Crash \/ \E r \in Run : Fault(r)

\* What a step may do to the events.  Only a receipt settles one or makes one wait
\* again.
QuietStep ==
  \/ UNCHANGED events
  \/ \E e \in Event, r \in Run, k \in {"local_run_update", "run_update"},
        p \in {"none", "active"} \cup Final, s \in {"none"} \cup Final :
       Enqueue(e, r, k, p, s) /\ (p \in Final => status[r] \in Final)
  \/ \E e \in Event : state[e] # "none" /\ Mark(e, "rejected")
  \/ \E es \in SUBSET Event : (\A e \in es : state[e] # "none") /\ Delete(es)
  \/ Restart
EventStep ==
  \/ QuietStep
  \/ \E e \in Event, to \in {"pending", "sent"} :
       state[e] # "none" /\ (to = "sent" => e \in confirmed) /\ Mark(e, to)

-----------------------------------------------------------------------------
\* What each kind of step leaves alone

LEMMA RunFrame ==
  ASSUME EffectiveType, NEW r \in Run, RunStep(r)
  PROVE  UNCHANGED <<confirmed, connected, superseded, phase, exchange, sweeps, up, job, caught,
                     condemned, effective>>
<1>1. CASE StageRun(r) \/ InsertRow(r)
  BY <1>1 DEF StageRun, InsertRow, Rest, RunGoes, rows, EffectiveType
<1>2. CASE InsertFails(r) \/ Advance(r) \/ Report(r) \/ Decide(r) \/ RunLosesRow(r)
  BY <1>2 DEF InsertFails, Advance, Report, Decide, RunLosesRow, Rest, RunGoes, rows,
       EffectiveType
<1>3. CASE Commit(r) \/ RewriteManifest(r) \/ Require(r)
  BY <1>3 DEF Commit, RewriteManifest, Require, Rest, RunGoes, rows, EffectiveType
<1>4. CASE RunMarks(r)
  BY <1>4 DEF RunMarks, MarkRow, NextEffective, Rest, RunGoes, rows, EffectiveType
<1>5. CASE RunEnforces(r)
  BY <1>5 DEF RunEnforces, Enforce, EnforceFails, RmtreeFails, Trouble, Remove, Rest, RunGoes,
       rows, EffectiveType
<1> QED
  BY <1>1, <1>2, <1>3, <1>4, <1>5 DEF RunStep

LEMMA JobFrame ==
  ASSUME NEW r \in Run, JobStep(r)
  PROVE  UNCHANGED <<phase, exchange, sweeps, up, confirmed, connected, runner, status, pruned, keep, mode,
                     scheduled>>
<1>1. CASE Claim(r) \/ ReportProgress(r) \/ WaitEnds(r) \/ HandoffStale(r) \/ JobSuppresses(r)
     \/ SuppressEnds(r) \/ SendFinal(r)
  BY <1>1 DEF Claim, ReportProgress, WaitEnds, HandoffStale, JobSuppresses, SuppressEnds,
       SendFinal, Rest, JobGoes, threads, rows
<1>2. CASE JobMarks(r)
  BY <1>2 DEF JobMarks, MarkRow, NextEffective, Rest, JobGoes, threads, rows
<1>3. CASE JobEnforces(r)
  BY <1>3 DEF JobEnforces, Enforce, Remove, Rest, JobGoes, threads, rows
<1>4. CASE JobRaises(r)
  BY <1>4 DEF JobRaises, EnforceFails, RmtreeFails, Trouble, Rest, JobGoes, threads, rows
<1> QED
  BY <1>1, <1>2, <1>3, <1>4 DEF JobStep

LEMMA SweepFrame ==
  ASSUME EffectiveType, NEW s \in Sweeper, SweepStep(s)
  PROVE  UNCHANGED <<confirmed, connected, superseded, exchange, threads, status, pruned, keep, mode,
                     effective>>
<1>1. CASE SweepMark(s)
  BY <1>1 DEF SweepMark, MarkRow, NextEffective, SweepRest, Go, rows, EffectiveType
<1>2. CASE SweepEnforce(s)
  BY <1>2 DEF SweepEnforce, Enforce, EnforceFails, RmtreeFails, Trouble, Remove, SweepRest, Go,
       rows, EffectiveType
<1>3. CASE SweepStart(s) \/ SweepNext(s) \/ SweepLook(s) \/ SweepRequeue(s) \/ SweepRecheck(s)
     \/ SweepLosesRow(s) \/ SweepDone(s)
  BY <1>3 DEF SweepStart, SweepNext, SweepLook, SweepRequeue, SweepRecheck, SweepLosesRow,
       SweepDone, SweepRest, Go, rows, EffectiveType
<1> QED
  BY <1>1, <1>2, <1>3 DEF SweepStep

LEMMA AsideFrame ==
  ASSUME NEW r \in Run, AsideStep(r)
  PROVE  UNCHANGED <<confirmed, connected, superseded, phase, exchange, threads, sweeps, up, status, keep,
                     mode, effective, required, queued>>
<1>1. CASE SchedulerEnforces(r)
  BY <1>1 DEF SchedulerEnforces, Enforce, EnforceFails, RmtreeFails, Trouble, Remove, Aside,
       rows
<1>2. CASE Acknowledge(r)
  BY <1>2 DEF Acknowledge, RmtreeFails, Trouble, Remove, Aside, rows
<1>3. CASE Renew(r) \/ PruneRow(r) \/ PruneOrphan(r) \/ LeaseExpires(r)
  BY <1>3 DEF Renew, PruneRow, PruneOrphan, LeaseExpires, Aside, rows
<1> QED
  BY <1>1, <1>2, <1>3 DEF AsideStep


LEMMA TypeGroups ==
  RetentionTypeOK <=> EventTypes /\ SyncTypes /\ RowTypes /\ ThreadTypes /\ ProcessTypes
BY DEF RetentionTypeOK, OutboxTypeOK, EventTypes, SyncTypes, RowTypes, ThreadTypes, ProcessTypes

LEMMA TypeGroupsNext ==
  EventTypes' /\ SyncTypes' /\ RowTypes' /\ ThreadTypes' /\ ProcessTypes' => RetentionTypeOK'
BY DEF RetentionTypeOK, OutboxTypeOK, EventTypes, SyncTypes, RowTypes, ThreadTypes, ProcessTypes

LEMMA UnchangedTypes ==
  /\ EventTypes /\ UNCHANGED events => EventTypes'
  /\ SyncTypes /\ UNCHANGED <<confirmed, connected, superseded, phase, exchange>> => SyncTypes'
  /\ RowTypes /\ UNCHANGED rows => RowTypes'
  /\ ThreadTypes /\ UNCHANGED threads => ThreadTypes'
  /\ ProcessTypes /\ UNCHANGED <<files, scheduled, sweeps, up, trouble>> => ProcessTypes'
BY DEF EventTypes, SyncTypes, RowTypes, ThreadTypes, ProcessTypes, events, exchange, rows, threads, sweeps

LEMMA MarkRowTypes ==
  ASSUME RowTypes, NEW r \in Run, NEW sync \in BOOLEAN, NEW eff \in {"none", "failed", "succeeded"},
         status[r] \in Final \/ eff = "none",
         eff = "succeeded" => status[r] = "succeeded",
         MarkRow(r, sync, eff)
  PROVE  RowTypes'
BY DEF RowTypes, MarkRow, NextEffective, Final

LEMMA RemoveTypes ==
  ASSUME RowTypes, NEW r \in Run, Remove(r), UNCHANGED acked \/ acked' = [acked EXCEPT ![r] = TRUE]
  PROVE  RowTypes'
BY DEF RowTypes, Remove

LEMMA EnforceTypes ==
  ASSUME RowTypes, ProcessTypes, NEW r \in Run, Enforce(r) \/ EnforceFails(r)
  PROVE  RowTypes' /\ files' \in [Run -> BOOLEAN] /\ trouble' \in 0..MaxTrouble
<1>1. CASE Enforce(r)
  <2>1. CASE Removable(r) /\ Remove(r) /\ UNCHANGED acked
    BY <1>1, <2>1, RemoveTypes DEF Enforce, Remove, ProcessTypes
  <2>2. CASE UNCHANGED <<rows, files>>
    BY <1>1, <2>2, UnchangedTypes DEF Enforce, ProcessTypes
  <2> QED
    BY <1>1, <2>1, <2>2 DEF Enforce
<1>2. CASE EnforceFails(r)
  <2>1. trouble' \in 0..MaxTrouble
    BY <1>2, RetentionAssumption DEF EnforceFails, RmtreeFails, Trouble, ProcessTypes
  <2>2. files' \in [Run -> BOOLEAN]
    BY <1>2 DEF EnforceFails, RmtreeFails, ProcessTypes
  <2> QED
    BY <1>2, <2>1, <2>2, UnchangedTypes DEF EnforceFails
<1> QED
  BY <1>1, <1>2

LEMMA RunRowTypes ==
  ASSUME RowTypes, ThreadTypes, ProcessTypes, NEW r \in Run, RunStep(r)
  PROVE  RowTypes'
<1>1. CASE StageRun(r)
  <2>1. keep' \in [Run -> Keeps] /\ mode' \in [Run -> {"local", "remote"}]
    BY <1>1, RetentionAssumption DEF StageRun, RowTypes, Keeps
  <2> QED
    BY <1>1, <2>1 DEF StageRun, RowTypes
<1>2. CASE InsertRow(r) \/ Commit(r) \/ RewriteManifest(r) \/ Require(r)
  BY <1>2 DEF InsertRow, Commit, RewriteManifest, Require, RowTypes
<1>3. CASE RunMarks(r)
  BY <1>3, MarkRowTypes DEF RunMarks
<1>4. CASE RunEnforces(r)
  BY <1>4, EnforceTypes DEF RunEnforces
<1>5. CASE InsertFails(r) \/ Advance(r) \/ Report(r) \/ Decide(r) \/ RunLosesRow(r)
  BY <1>5, UnchangedTypes DEF InsertFails, Advance, Report, Decide, RunLosesRow
<1> QED
  BY <1>1, <1>2, <1>3, <1>4, <1>5 DEF RunStep


LEMMA RunThreadTypes ==
  ASSUME ThreadTypes, NEW r \in Run, RunStep(r)
  PROVE  ThreadTypes'
<1>1. CASE StageRun(r) \/ InsertRow(r) \/ InsertFails(r) \/ Advance(r) \/ Commit(r) \/
     RewriteManifest(r) \/ Report(r) \/ Decide(r) \/ RunMarks(r) \/ Require(r) \/
     RunEnforces(r) \/ RunLosesRow(r)
  BY <1>1 DEF StageRun, InsertRow, InsertFails, Advance, Commit, RewriteManifest, Report,
       Decide, RunMarks, Require, RunEnforces, RunLosesRow, Rest, RunGoes, ThreadTypes,
       RunnerAt
<1> QED
  BY <1>1 DEF RunStep

LEMMA RunProcessTypes ==
  ASSUME RowTypes, ProcessTypes, NEW r \in Run, RunStep(r)
  PROVE  ProcessTypes'
<1>1. CASE StageRun(r) \/ InsertFails(r)
  BY <1>1 DEF StageRun, InsertFails, ProcessTypes, Rest, sweeps
<1>2. CASE RunEnforces(r)
  <2>1. files' \in [Run -> BOOLEAN] /\ trouble' \in 0..MaxTrouble
    BY <1>2, EnforceTypes DEF RunEnforces
  <2>2. scheduled' \in [Run -> BOOLEAN]
    BY <1>2 DEF RunEnforces, ProcessTypes
  <2> QED
    BY <1>2, <2>1, <2>2 DEF RunEnforces, ProcessTypes, Rest, sweeps
<1>3. CASE ~(StageRun(r) \/ InsertFails(r) \/ RunEnforces(r))
  <2>1. UNCHANGED <<files, scheduled, sweeps, up, trouble>>
    BY <1>3 DEF RunStep, InsertRow, Advance, Commit, RewriteManifest, Report, Decide, RunMarks, Require,
                RunLosesRow, Rest
  <2> QED
    BY <2>1, UnchangedTypes
<1> QED
  BY <1>1, <1>2, <1>3


LEMMA JobRowTypes ==
  ASSUME RowTypes, ProcessTypes, JobInv, NEW r \in Run, JobStep(r)
  PROVE  RowTypes'
<1>1. CASE JobMarks(r)
  <2>1. job[r] = "mark_succeeded" => status[r] = "succeeded"
    BY DEF JobInv
  <2>2. job[r] = "mark_failed" => status[r] \in Final
    BY DEF JobInv
  <2> QED
    BY <1>1, <2>1, <2>2, MarkRowTypes DEF JobMarks, Final
<1>2. CASE JobEnforces(r)
  BY <1>2, EnforceTypes DEF JobEnforces
<1>3. CASE JobRaises(r)
  BY <1>3, EnforceTypes, UnchangedTypes DEF JobRaises
<1>4. CASE ~(JobMarks(r) \/ JobEnforces(r) \/ JobRaises(r))
  BY <1>4, UnchangedTypes DEF JobStep, Claim, ReportProgress, WaitEnds, HandoffStale, JobSuppresses,
                              SuppressEnds, SendFinal
<1> QED
  BY <1>1, <1>2, <1>3, <1>4

LEMMA JobThreadTypes ==
  ASSUME ThreadTypes, NEW r \in Run, JobStep(r)
  PROVE  ThreadTypes'
<1>1. CASE Claim(r) \/ ReportProgress(r) \/ WaitEnds(r)
  BY <1>1 DEF Claim, ReportProgress, WaitEnds, Rest, JobGoes, threads, ThreadTypes, JobAt,
       ReportsOf, Waiting
<1>2. CASE HandoffStale(r) \/ JobSuppresses(r) \/ SuppressEnds(r)
  BY <1>2 DEF HandoffStale, JobSuppresses, SuppressEnds, Rest, JobGoes, threads, ThreadTypes,
       JobAt, ReportsOf, Waiting
<1>3. CASE SendFinal(r)
  BY <1>3 DEF SendFinal, Rest, JobGoes, threads, ThreadTypes, JobAt, ReportsOf, Waiting
<1>4. CASE JobMarks(r) \/ JobEnforces(r) \/ JobRaises(r)
  BY <1>4 DEF JobMarks, JobEnforces, JobRaises, Rest, JobGoes, threads, ThreadTypes, JobAt,
       ReportsOf, Waiting
<1> QED
  BY <1>1, <1>2, <1>3, <1>4 DEF JobStep

LEMMA JobProcessTypes ==
  ASSUME RowTypes, ProcessTypes, NEW r \in Run, JobStep(r)
  PROVE  ProcessTypes'
<1>1. UNCHANGED <<scheduled, sweeps, up>>
  BY JobFrame
<1>2. files' \in [Run -> BOOLEAN] /\ trouble' \in 0..MaxTrouble
  <2>1. CASE JobEnforces(r)
    BY <2>1, EnforceTypes DEF JobEnforces
  <2>2. CASE JobRaises(r)
    BY <2>2, EnforceTypes DEF JobRaises, ProcessTypes
  <2>3. CASE ~(JobEnforces(r) \/ JobRaises(r))
    BY <2>3 DEF JobStep, Claim, ReportProgress, WaitEnds, HandoffStale, JobSuppresses, SuppressEnds,
                SendFinal, JobMarks, ProcessTypes
  <2> QED
    BY <2>1, <2>2, <2>3
<1> QED
  BY <1>1, <1>2 DEF ProcessTypes, sweeps

LEMMA SweepRowTypes ==
  ASSUME RowTypes, ProcessTypes, NEW s \in Sweeper, SweepStep(s)
  PROVE  RowTypes'
<1>1. at[s] \in Run
  BY DEF ProcessTypes
<1>2. CASE SweepMark(s)
  BY <1>1, <1>2, MarkRowTypes DEF SweepMark
<1>3. CASE SweepEnforce(s)
  BY <1>1, <1>3, EnforceTypes DEF SweepEnforce
<1>4. CASE ~(SweepMark(s) \/ SweepEnforce(s))
  BY <1>4, UnchangedTypes DEF SweepStep, SweepStart, SweepNext, SweepLook, SweepRequeue, SweepRecheck,
                              SweepLosesRow, SweepDone
<1> QED
  BY <1>2, <1>3, <1>4

LEMMA SweepSyncTypes ==
  ASSUME SyncTypes, NEW s \in Sweeper, SweepStep(s)
  PROVE  SyncTypes'
<1>1. CASE SweepStart(s) \/ SweepNext(s) \/ SweepLook(s)
  BY <1>1 DEF SweepStart, SweepNext, SweepLook, SweepRest, Go, SyncTypes, Exchanging, Sweeping,
       exchange
<1>2. CASE SweepRequeue(s) \/ SweepRecheck(s) \/ SweepMark(s)
  BY <1>2 DEF SweepRequeue, SweepRecheck, SweepMark, SweepRest, Go, SyncTypes, Exchanging,
       Sweeping, exchange
<1>3. CASE SweepEnforce(s) \/ SweepLosesRow(s) \/ SweepDone(s)
  BY <1>3 DEF SweepEnforce, SweepLosesRow, SweepDone, SweepRest, Go, SyncTypes, Exchanging,
       Sweeping, exchange
<1> QED
  BY <1>1, <1>2, <1>3 DEF SweepStep

LEMMA SweepProcessTypes ==
  ASSUME RowTypes, ProcessTypes, NEW s \in Sweeper, SweepStep(s)
  PROVE  ProcessTypes'
<1>1. CASE SweepEnforce(s)
  <2>1. at[s] \in Run
    BY DEF ProcessTypes
  <2>2. files' \in [Run -> BOOLEAN] /\ trouble' \in 0..MaxTrouble
    BY <1>1, <2>1, EnforceTypes DEF SweepEnforce
  <2> QED
    BY <1>1, <2>1, <2>2 DEF SweepEnforce, ProcessTypes, sweeps
<1>2. CASE SweepStart(s)
  <2>1. {<<r, queued[r]>> : r \in {q \in Run : Row(q) /\ Decision(q) = "remove"}} \in SUBSET (Run \X BOOLEAN)
    BY DEF RowTypes
  <2> QED
    BY <1>2, <2>1 DEF SweepStart, ProcessTypes
<1>3. CASE SweepNext(s) \/ SweepLosesRow(s) \/ SweepDone(s)
  BY <1>3 DEF SweepNext, SweepLosesRow, SweepDone, ProcessTypes, sweeps
<1>4. CASE SweepLook(s) \/ SweepRequeue(s) \/ SweepRecheck(s) \/ SweepMark(s)
  BY <1>4, UnchangedTypes DEF SweepLook, SweepRequeue, SweepRecheck, SweepMark
<1> QED
  BY <1>1, <1>2, <1>3, <1>4 DEF SweepStep

LEMMA AsideTypes ==
  ASSUME RowTypes, ProcessTypes, NEW r \in Run, AsideStep(r)
  PROVE  RowTypes' /\ ProcessTypes'
<1>1. UNCHANGED <<sweeps, up>>
  BY AsideFrame
<1>2. CASE SchedulerEnforces(r)
  <2>1. RowTypes' /\ files' \in [Run -> BOOLEAN] /\ trouble' \in 0..MaxTrouble
    BY <1>2, EnforceTypes, UnchangedTypes DEF SchedulerEnforces, ProcessTypes
  <2>2. scheduled' \in [Run -> BOOLEAN]
    BY <1>2 DEF SchedulerEnforces, ProcessTypes, DeliveryPending
  <2> QED
    BY <1>1, <2>1, <2>2 DEF ProcessTypes, sweeps
<1>3. CASE Renew(r) \/ PruneRow(r) \/ PruneOrphan(r) \/ LeaseExpires(r)
  <2>1. RowTypes'
    BY <1>3 DEF Renew, PruneRow, PruneOrphan, LeaseExpires, RowTypes, rows
  <2>2. files' \in [Run -> BOOLEAN] /\ scheduled' \in [Run -> BOOLEAN]
    BY <1>3 DEF Renew, PruneRow, PruneOrphan, LeaseExpires, ProcessTypes
  <2>3. UNCHANGED trouble
    BY <1>3 DEF Renew, PruneRow, PruneOrphan, LeaseExpires
  <2> QED
    BY <1>1, <2>1, <2>2, <2>3 DEF ProcessTypes, sweeps
<1>4. CASE Acknowledge(r)
  <2>1. RowTypes'
    BY <1>4, RemoveTypes DEF Acknowledge, RowTypes
  <2>2. files' \in [Run -> BOOLEAN]
    BY <1>4 DEF Acknowledge, Remove, RmtreeFails, ProcessTypes
  <2>3. scheduled' \in [Run -> BOOLEAN]
    BY <1>4 DEF Acknowledge, ProcessTypes
  <2>4. trouble' \in 0..MaxTrouble
    BY <1>4, RetentionAssumption DEF Acknowledge, RmtreeFails, Trouble, ProcessTypes
  <2> QED
    BY <1>1, <2>1, <2>2, <2>3, <2>4 DEF ProcessTypes, sweeps
<1> QED
  BY <1>2, <1>3, <1>4 DEF AsideStep

LEMMA OutboxTypes ==
  ASSUME SyncTypes, ProcessTypes, OutboxStep
  PROVE  SyncTypes' /\ ProcessTypes'
<1>1. UNCHANGED <<files, scheduled, sweeps, up>>
  BY DEF OutboxStep, Deliver, Misdeliver, AgeEvents, PruneEvents, Reconnect, Unswept
<1>2. trouble' \in 0..MaxTrouble
  BY RetentionAssumption DEF OutboxStep, Deliver, Misdeliver, AgeEvents, PruneEvents, Reconnect, Trouble,
                             ProcessTypes
<1>3. ProcessTypes'
  BY <1>1, <1>2 DEF ProcessTypes, sweeps
<1>4. ASSUME NEW s \in Syncer, Deliver(s)
      PROVE  SyncTypes'
  <2>1. s \in Sweeper
    BY DEF Sweeper
  <2> USE <2>1 DEF SyncTypes, Go, exchange, Exchanging, Sweeping
  <2>2. CASE BeginSync(s) \/ Suppressed(s)
    BY <2>2 DEF BeginSync, Suppressed
  <2>3. CASE PickBatch(s)
    BY <2>3 DEF PickBatch, Waiting
  <2>4. CASE Drained(s) \/ Marked(s) \/ MarkFails(s)
    BY <2>4 DEF Drained, Marked, MarkFails, Forget
  <2>5. CASE Answer(s)
    BY <2>5 DEF Answer
  <2>6. CASE MarkReceipt(s) \/ SuppressOne(s)
    BY <2>6 DEF MarkReceipt, SuppressOne
  <2> QED
    BY <1>4, <2>2, <2>3, <2>4, <2>5, <2>6 DEF Deliver, SyncStep
<1>5. ASSUME NEW s \in Syncer, Misdeliver(s)
      PROVE  SyncTypes'
  <2>1. s \in Sweeper
    BY DEF Sweeper
  <2> USE <2>1 DEF SyncTypes, Go, exchange, Exchanging, Sweeping
  <2>2. CASE LoseAnswer(s)
    BY <2>2 DEF LoseAnswer, Forget
  <2>3. CASE RefuseBatch(s)
    BY <2>3 DEF RefuseBatch
  <2>5. CASE RetireEvent(s)
    BY <2>5 DEF RetireEvent
  <2>4. CASE RefuseClaim(s)
    BY <2>4 DEF RefuseClaim, ReportsOf, Waiting
  <2> QED
    BY <1>5, <2>2, <2>3, <2>4, <2>5 DEF Misdeliver, SyncFault
<1>6. CASE (\E s \in Syncer : AgeEvents(s)) \/ PruneEvents
  <2>1. UNCHANGED <<confirmed, connected, superseded, phase, exchange>>
    BY <1>6 DEF AgeEvents, PruneEvents, Expire, PruneQueue
  <2> QED
    BY <1>3, <2>1, UnchangedTypes
<1>7. CASE Reconnect
  <2>1. connected' \in BOOLEAN
    BY <1>7 DEF Reconnect, ChangeConnection, Connect, Disconnect
  <2>2. UNCHANGED <<confirmed, superseded, phase, exchange>>
    BY <1>7 DEF Reconnect, ChangeConnection
  <2> QED
    BY <1>3, <2>1, <2>2 DEF SyncTypes, exchange
<1> QED
  BY <1>3, <1>4, <1>5, <1>6, <1>7 DEF OutboxStep

LEMMA DyingTypes ==
  ASSUME SyncTypes, RowTypes, ThreadTypes, ProcessTypes, Dying
  PROVE  SyncTypes' /\ RowTypes' /\ ThreadTypes' /\ ProcessTypes'
<1>1. Die
  BY DEF Dying, Crash, Fault, CrashRemoving, CrashAcknowledging, CrashPruning
<1>2. SyncTypes'
  BY <1>1 DEF Die, SyncTypes
<1>3. ThreadTypes'
  BY <1>1 DEF Die, ThreadTypes, RunnerAt, JobAt
<1>4. RowTypes'
  BY UnchangedTypes DEF Dying, Crash, Fault, CrashRemoving, CrashAcknowledging, CrashPruning, RowTypes
<1>5. files' \in [Run -> BOOLEAN]
  BY DEF Dying, Crash, Fault, CrashRemoving, CrashAcknowledging, CrashPruning, HalfRemoved, ProcessTypes
<1>6. trouble' \in 0..MaxTrouble
  BY <1>1, RetentionAssumption DEF Die, Trouble, ProcessTypes
<1>7. ProcessTypes'
  BY <1>1, <1>5, <1>6 DEF Die, ProcessTypes
<1> QED
  BY <1>2, <1>3, <1>4, <1>7

LEMMA RestartTypes ==
  ASSUME SyncTypes, RowTypes, ThreadTypes, ProcessTypes, Restart
  PROVE  SyncTypes' /\ RowTypes' /\ ThreadTypes' /\ ProcessTypes'
<1>1. SyncTypes'
  BY DEF Restart, Go, SyncTypes, exchange, Exchanging, Sweeping, Sweeper
<1> QED
  BY <1>1, UnchangedTypes DEF Restart, ProcessTypes, sweeps

-----------------------------------------------------------------------------
\* The events

LEMMA ReportLocalIsQuiet ==
  ASSUME NEW r \in Run, NEW p \in {"none", "active"} \cup Final,
         p \in Final => status[r] \in Final, ReportLocal(r, p)
  PROVE  QuietStep
BY DEF ReportLocal, QuietStep

LEMMA SendUpdateIsQuiet ==
  ASSUME NEW r \in Run, NEW p \in {"none", "active"} \cup Final, NEW s \in {"none"} \cup Final,
         p \in Final => status[r] \in Final, SendUpdate(r, p, s)
  PROVE  QuietStep
BY DEF SendUpdate, QuietStep

LEMMA RunIsQuiet ==
  ASSUME RetentionInv, NEW r \in Run, RunStep(r)
  PROVE  QuietStep
<1>1. status[r] \in {"none", "active"} \cup Final
  BY TypeGroups DEF RetentionInv, RowTypes
<1>2. CASE Advance(r)
  BY <1>2, ReportLocalIsQuiet DEF Advance, QuietStep, Final
<1>3. CASE Report(r)
  BY <1>1, <1>3, ReportLocalIsQuiet DEF Report
<1>4. CASE ~(Advance(r) \/ Report(r))
  <2>1. UNCHANGED events
    BY <1>4 DEF RunStep, StageRun, InsertRow, InsertFails, Commit, RewriteManifest, Decide, RunMarks, Require,
                RunEnforces, RunLosesRow
  <2> QED
    BY <2>1 DEF QuietStep
<1> QED
  BY <1>2, <1>3, <1>4

LEMMA JobProofFact ==
  ASSUME RetentionInv, NEW r \in Run
  PROVE  /\ JobProof(r) \in {"none", "active"} \cup Final
         /\ JobProof(r) \in Final => status[r] \in Final
<1>1. status[r] \in {"none", "active"} \cup Final
  BY TypeGroups DEF RetentionInv, RowTypes
<1> QED
  BY <1>1 DEF JobProof, Final

LEMMA JobIsQuiet ==
  ASSUME RetentionInv, NEW r \in Run, JobStep(r)
  PROVE  QuietStep
<1>1. CASE ReportProgress(r)
  BY <1>1, SendUpdateIsQuiet DEF ReportProgress, QuietStep, Final
<1>2. CASE SendFinal(r)
  BY <1>2, SendUpdateIsQuiet, JobProofFact DEF SendFinal, QuietStep, Final
<1>3. CASE JobSuppresses(r)
  <2>1. PICK e \in condemned[r] : Mark(e, "rejected")
    BY <1>3 DEF JobSuppresses
  <2>2. e \in Event /\ state[e] # "none"
    BY TypeGroups DEF RetentionInv, ThreadTypes, ExchangeInv
  <2> QED
    BY <2>1, <2>2 DEF QuietStep
<1>4. CASE ~(ReportProgress(r) \/ SendFinal(r) \/ JobSuppresses(r))
  <2>1. UNCHANGED events
    BY <1>4 DEF JobStep, Claim, WaitEnds, HandoffStale, SuppressEnds, JobMarks, JobEnforces, JobRaises
  <2> QED
    BY <2>1 DEF QuietStep
<1> QED
  BY <1>1, <1>2, <1>3, <1>4

LEMMA SweepIsQuiet ==
  ASSUME RetentionInv, NEW s \in Sweeper, SweepStep(s)
  PROVE  QuietStep
<1>1. at[s] \in Run /\ status[at[s]] \in {"none", "active"} \cup Final
  BY TypeGroups DEF RetentionInv, RowTypes, ProcessTypes
<1>2. CASE SweepRequeue(s)
  BY <1>1, <1>2, ReportLocalIsQuiet DEF SweepRequeue
<1>3. CASE ~SweepRequeue(s)
  <2>1. UNCHANGED events
    BY <1>3 DEF SweepStep, SweepStart, SweepNext, SweepLook, SweepRecheck, SweepMark, SweepEnforce,
                SweepLosesRow, SweepDone
  <2> QED
    BY <2>1 DEF QuietStep
<1> QED
  BY <1>2, <1>3

LEMMA AsideIsQuiet ==
  ASSUME NEW r \in Run, AsideStep(r)
  PROVE  QuietStep
<1>1. CASE PruneRow(r)
  <2>1. EventsOf(r) \in SUBSET Event /\ \A e \in EventsOf(r) : state[e] # "none"
    BY DEF EventsOf, Queued
  <2> QED
    BY <1>1, <2>1 DEF PruneRow, QuietStep
<1>2. CASE ~PruneRow(r)
  <2>1. UNCHANGED events
    BY <1>2 DEF AsideStep, SchedulerEnforces, Renew, Acknowledge, PruneOrphan, LeaseExpires
  <2> QED
    BY <2>1 DEF QuietStep
<1> QED
  BY <1>1, <1>2

LEMMA DyingIsQuiet ==
  ASSUME Dying
  PROVE  QuietStep
BY DEF Dying, Crash, Fault, CrashRemoving, CrashAcknowledging, CrashPruning, Die, QuietStep

LEMMA OutboxEvents ==
  ASSUME RetentionInv, OutboxStep
  PROVE  EventStep
<1>1. ASSUME NEW s \in Syncer, Deliver(s) \/ Misdeliver(s) \/ AgeEvents(s)
      PROVE  EventStep
  <2>1. s \in Sweeper /\ batch[s] \subseteq Event /\ doomed[s] \subseteq Event
    BY TypeGroups DEF RetentionInv, SyncTypes, Sweeper
  <2>2. CASE MarkReceipt(s)
    <3>1. PICK e \in batch[s] : \/ e \in taken[s] /\ Mark(e, "sent")
                                \/ e \notin taken[s] /\ \E to \in {"pending", "rejected"} : Mark(e, to)
      BY <2>2 DEF MarkReceipt
    <3>2. e \in Event /\ state[e] # "none" /\ (e \in taken[s] => e \in confirmed)
      BY <2>1, <2>2 DEF MarkReceipt, RetentionInv, ExchangeInv
    <3> QED
      BY <3>1, <3>2 DEF EventStep, QuietStep
  <2>3. CASE RetireEvent(s)
    <3>1. PICK e \in batch[s] : Mark(e, "rejected")
      BY <2>3 DEF RetireEvent
    <3>2. e \in Event /\ state[e] # "none"
      BY <2>1, <2>3 DEF RetireEvent, RetentionInv, ExchangeInv
    <3> QED
      BY <3>1, <3>2 DEF EventStep, QuietStep
  <2>4. CASE SuppressOne(s)
    <3>1. PICK e \in doomed[s] : Mark(e, "rejected")
      BY <2>4 DEF SuppressOne
    <3>2. e \in Event /\ state[e] # "none"
      BY <2>1 DEF RetentionInv, ExchangeInv
    <3> QED
      BY <3>1, <3>2 DEF EventStep, QuietStep
  <2>5. CASE AgeEvents(s)
    <3>1. PICK old \in SUBSET Expirable(Linked) : Delete(old)
      BY <2>5 DEF AgeEvents, Expire
    <3>2. old \in SUBSET Event /\ \A e \in old : state[e] # "none"
      BY DEF Expirable, Queued
    <3> QED
      BY <3>1, <3>2 DEF EventStep, QuietStep
  <2>6. CASE UNCHANGED events
    BY <2>6 DEF EventStep, QuietStep
  <2> QED
    BY <1>1, <2>2, <2>3, <2>4, <2>5, <2>6
       DEF Deliver, Misdeliver, SyncStep, SyncFault, BeginSync, PickBatch, Drained, Answer, Marked, Suppressed,
           MarkFails, LoseAnswer, RefuseBatch, RefuseClaim
<1>2. CASE PruneEvents
  <2>1. PICK es \in SUBSET Queued : Delete(es)
    BY <1>2 DEF PruneEvents, PruneQueue
  <2>2. es \in SUBSET Event /\ \A e \in es : state[e] # "none"
    BY DEF Queued
  <2> QED
    BY <2>1, <2>2 DEF EventStep, QuietStep
<1>3. CASE Reconnect
  BY <1>3 DEF Reconnect, ChangeConnection, EventStep, QuietStep
<1> QED
  BY <1>1, <1>2, <1>3 DEF OutboxStep

LEMMA EventTypesKept ==
  ASSUME EventTypes, RowTypes, EventStep
  PROVE  EventTypes'
<1>1. CASE \E e \in Event, r \in Run, k \in {"local_run_update", "run_update"},
             p \in {"none", "active"} \cup Final, s \in {"none"} \cup Final : Enqueue(e, r, k, p, s)
  BY <1>1 DEF Enqueue, EventTypes
<1>2. CASE \E e \in Event, to \in {"pending", "rejected", "sent"} : Mark(e, to)
  BY <1>2 DEF Mark, EventTypes
<1>3. CASE \E es \in SUBSET Event : Delete(es)
  BY <1>3 DEF Delete, EventTypes
<1>4. CASE Restart
  BY <1>4 DEF Restart, EventTypes, RowTypes
<1> QED
  BY <1>1, <1>2, <1>3, <1>4, UnchangedTypes DEF EventStep, QuietStep

\* Reports are never forgotten: one that was queued stays on record, and what it
\* proves of a run's end stays proved.
EventsGrow ==
  /\ \A e \in Event : state[e] # "none" =>
       /\ state'[e] # "none" /\ about'[e] = about[e]
       /\ proof[e] \in Final => proof'[e] \in Final
  /\ \A e \in Event : proof'[e] \in Final => status[about'[e]] \in Final

LEMMA EventsDoGrow ==
  ASSUME EventTypes, RowTypes, EventStep,
         \A e \in Event : proof[e] \in Final => status[about[e]] \in Final
  PROVE  EventsGrow
<1>1. CASE UNCHANGED events
  BY <1>1 DEF EventsGrow, events
<1>2. ASSUME NEW e \in Event, NEW r \in Run, NEW k \in {"local_run_update", "run_update"},
             NEW p \in {"none", "active"} \cup Final, NEW s \in {"none"} \cup Final,
             Enqueue(e, r, k, p, s), p \in Final => status[r] \in Final
      PROVE  EventsGrow
  BY <1>2 DEF EventsGrow, Enqueue, EventTypes
<1>3. CASE \E e \in Event, to \in {"pending", "rejected", "sent"} : Mark(e, to)
  BY <1>3 DEF EventsGrow, Mark, EventTypes
<1>4. CASE \E es \in SUBSET Event : Delete(es)
  BY <1>4 DEF EventsGrow, Delete
<1>5. CASE Restart
  <2>1. about' = about
    BY <1>5 DEF Restart
  <2>2. PICK old \in SUBSET Expirable(Linked) :
          /\ state' = [e \in Event |-> CASE e \in old -> "gone"
                                         [] Undelivered(e) /\ ~Row(about[e]) /\ e \notin old -> "rejected"
                                         [] OTHER -> state[e]]
          /\ proof' = [e \in Event |-> IF Undelivered(e) /\ Row(about[e]) /\ e \notin old
                                        THEN status[about[e]] ELSE proof[e]]
    BY <1>5 DEF Restart
  <2>3. \A e \in Event : state[e] # "none" => state'[e] # "none"
    BY <2>2
  <2> QED
    BY <2>1, <2>2, <2>3 DEF EventsGrow
<1> QED
  BY <1>1, <1>2, <1>3, <1>4, <1>5 DEF EventStep, QuietStep

LEMMA FinalStays ==
  ASSUME EventTypes, EventsGrow, NEW r \in Run, HasFinal(r)
  PROVE  HasFinal(r)'
BY DEF HasFinal, EventsGrow

LEMMA QuietSettlesNothing ==
  ASSUME EventTypes, QuietStep
  PROVE  \A e \in Event : state'[e] = "sent" => state[e] = "sent"
<1>1. CASE \E e \in Event, r \in Run, k \in {"local_run_update", "run_update"},
             p \in {"none", "active"} \cup Final, s \in {"none"} \cup Final : Enqueue(e, r, k, p, s)
  BY <1>1 DEF Enqueue, EventTypes
<1>2. CASE \E e \in Event, to \in {"pending", "rejected"} : Mark(e, to)
  BY <1>2 DEF Mark, EventTypes
<1>3. CASE \E es \in SUBSET Event : Delete(es)
  BY <1>3 DEF Delete
<1>4. CASE Restart
  BY <1>4 DEF Restart
<1>5. CASE UNCHANGED events
  BY <1>5 DEF events
<1> QED
  BY <1>1, <1>2, <1>3, <1>4, <1>5 DEF QuietStep

-----------------------------------------------------------------------------
\* The threads

LEMMA OutboxFrame ==
  ASSUME OutboxStep
  PROVE  UNCHANGED <<rows, files, threads, scheduled, sweeps, up>>
BY DEF OutboxStep, Deliver, Misdeliver, AgeEvents, PruneEvents, Reconnect, Unswept

LEMMA DyingFrame ==
  ASSUME Dying
  PROVE  UNCHANGED <<events, confirmed, connected, at, status, pruned, keep, mode, queued, required, effective,
                     runDir>>
BY DEF Dying, Crash, Fault, CrashRemoving, CrashAcknowledging, CrashPruning, Die, rows

LEMMA DyingDies ==
  ASSUME Dying
  PROVE  Die
BY DEF Dying, Crash, Fault, CrashRemoving, CrashAcknowledging, CrashPruning

LEMMA NextCases ==
  ASSUME RetentionNext
  PROVE  \/ \E r \in Run : RunStep(r) \/ JobStep(r) \/ AsideStep(r)
         \/ \E s \in Sweeper : SweepStep(s)
         \/ OutboxStep \/ Dying \/ Restart
BY DEF RetentionNext, OutboxStep, AsideStep, Dying, Client

LEMMA RunnerAfterRun ==
  ASSUME RowTypes, ThreadTypes, RunnerInv, NEW r \in Run, RunStep(r)
  PROVE  RunnerInv'
<1>1. CASE StageRun(r)
  BY <1>1 DEF StageRun, Rest, RunGoes, RunnerInv, RowTypes, ThreadTypes, rows, Final
<1>2. CASE InsertRow(r)
  BY <1>2 DEF InsertRow, Rest, RunGoes, RunnerInv, RowTypes, ThreadTypes, rows, Final
<1>3. CASE InsertFails(r) \/ Advance(r)
  BY <1>3 DEF InsertFails, Advance, Rest, RunGoes, RunnerInv, RowTypes, ThreadTypes, rows,
       Final
<1>4. CASE Commit(r)
  BY <1>4 DEF Commit, Rest, RunGoes, RunnerInv, RowTypes, ThreadTypes, rows, Final
<1>5. CASE RewriteManifest(r) \/ Report(r)
  BY <1>5 DEF RewriteManifest, Report, Rest, RunGoes, RunnerInv, RowTypes, ThreadTypes, rows,
       Final
<1>6. CASE Decide(r)
  BY <1>6 DEF Decide, Rest, RunGoes, RunnerInv, RowTypes, ThreadTypes, rows, Final
<1>7. CASE RunMarks(r)
  BY <1>7 DEF RunMarks, MarkRow, NextEffective, Rest, RunGoes, RunnerInv, RowTypes, ThreadTypes, rows, Final
<1>8. CASE Require(r)
  BY <1>8 DEF Require, Rest, RunGoes, RunnerInv, RowTypes, ThreadTypes, rows, Final
<1>9. CASE RunEnforces(r)
  BY <1>9 DEF RunEnforces, Enforce, EnforceFails, RmtreeFails, Trouble, Remove, Rest, RunGoes,
       RunnerInv, RowTypes, ThreadTypes, rows, Final
<1>10. CASE RunLosesRow(r)
  BY <1>10 DEF RunLosesRow, Rest, RunGoes, RunnerInv, RowTypes, ThreadTypes, rows, Final
<1> QED
  BY <1>1, <1>2, <1>3, <1>4, <1>5, <1>6, <1>7, <1>8, <1>9, <1>10 DEF RunStep

LEMMA RunnerKept ==
  ASSUME RetentionInv, RetentionNext
  PROVE  RunnerInv'
<1> USE DEF RetentionInv
<1>0. RowTypes /\ ThreadTypes
  BY TypeGroups
<1>1. ASSUME NEW r \in Run, RunStep(r)
      PROVE  RunnerInv'
  BY <1>0, <1>1, RunnerAfterRun
<1>2. CASE \E r \in Run : JobStep(r)
  BY <1>2, JobFrame DEF RunnerInv
<1>3. ASSUME NEW r \in Run, AsideStep(r)
      PROVE  RunnerInv'
  <2>1. UNCHANGED <<runner, status>>
    BY <1>3, AsideFrame DEF threads
  <2>2. \A q \in Run : pruned'[q] => pruned[q] \/ status[q] # "none"
    <3>1. CASE PruneRow(r)
      BY <1>0, <3>1 DEF PruneRow, Row, RowTypes
    <3>2. CASE ~PruneRow(r)
      BY <1>3, <3>2 DEF AsideStep, SchedulerEnforces, Enforce, EnforceFails, Remove, Renew, Acknowledge,
                         PruneOrphan, LeaseExpires, rows
    <3> QED
      BY <3>1, <3>2
  <2> QED
    BY <2>1, <2>2 DEF RunnerInv
<1>4. CASE \E s \in Sweeper : SweepStep(s)
  BY <1>0, <1>4, SweepFrame DEF RunnerInv, threads, EffectiveType, RowTypes
<1>5. CASE OutboxStep
  BY <1>5, OutboxFrame DEF RunnerInv, threads, rows
<1>6. CASE Dying
  BY <1>6, DyingFrame, DyingDies DEF RunnerInv, Die
<1>7. CASE Restart
  BY <1>7 DEF RunnerInv, Restart, threads, rows
<1> QED
  BY <1>1, <1>2, <1>3, <1>4, <1>5, <1>6, <1>7, NextCases

\* What has ended stays as it ended.
StatusStays == \A q \in Run : status[q] \in Final => status'[q] = status[q]

LEMMA RunKeepsStatus ==
  ASSUME RowTypes, ThreadTypes, RunnerInv, NEW r \in Run, RunStep(r)
  PROVE  /\ StatusStays
         /\ \A q \in Run : mode[q] = "remote" => mode'[q] = "remote"
<1>1. CASE StageRun(r)
  BY <1>1 DEF StageRun, Rest, RunGoes, StatusStays, RunnerInv, RowTypes, ThreadTypes, rows,
       Final
<1>2. CASE InsertRow(r)
  BY <1>2 DEF InsertRow, Rest, RunGoes, StatusStays, RunnerInv, RowTypes, ThreadTypes, rows,
       Final
<1>3. CASE Commit(r)
  BY <1>3 DEF Commit, Rest, RunGoes, StatusStays, RunnerInv, RowTypes, ThreadTypes, rows, Final
<1>4. CASE InsertFails(r) \/ Advance(r) \/ RewriteManifest(r) \/ Report(r) \/ Decide(r)
  BY <1>4 DEF InsertFails, Advance, RewriteManifest, Report, Decide, Rest, RunGoes,
       StatusStays, RunnerInv, RowTypes, ThreadTypes, rows, Final
<1>5. CASE RunMarks(r)
  BY <1>5 DEF RunMarks, MarkRow, NextEffective, Rest, RunGoes, StatusStays, RunnerInv, RowTypes, ThreadTypes,
       rows, Final
<1>6. CASE Require(r)
  BY <1>6 DEF Require, Rest, RunGoes, StatusStays, RunnerInv, RowTypes, ThreadTypes, rows,
       Final
<1>7. CASE RunEnforces(r)
  BY <1>7 DEF RunEnforces, Enforce, EnforceFails, RmtreeFails, Trouble, Remove, Rest, RunGoes,
       StatusStays, RunnerInv, RowTypes, ThreadTypes, rows, Final
<1>8. CASE RunLosesRow(r)
  BY <1>8 DEF RunLosesRow, Rest, RunGoes, StatusStays, RunnerInv, RowTypes, ThreadTypes, rows,
       Final
<1> QED
  BY <1>1, <1>2, <1>3, <1>4, <1>5, <1>6, <1>7, <1>8 DEF RunStep

LEMMA StatusKept ==
  ASSUME RetentionInv, RetentionNext
  PROVE  StatusStays
<1> USE DEF RetentionInv
<1>0. RowTypes /\ ThreadTypes
  BY TypeGroups
<1>1. CASE \E r \in Run : RunStep(r)
  BY <1>0, <1>1, RunKeepsStatus
<1>2. CASE \E r \in Run : JobStep(r)
  BY <1>2, JobFrame DEF StatusStays
<1>3. CASE \E r \in Run : AsideStep(r)
  BY <1>3, AsideFrame DEF StatusStays
<1>4. CASE \E s \in Sweeper : SweepStep(s)
  BY <1>0, <1>4, SweepFrame DEF StatusStays, EffectiveType, RowTypes
<1>5. CASE OutboxStep
  BY <1>5, OutboxFrame DEF StatusStays, rows
<1>6. CASE Dying
  BY <1>6, DyingFrame DEF StatusStays
<1>7. CASE Restart
  BY <1>7 DEF StatusStays, Restart, rows
<1> QED
  BY <1>1, <1>2, <1>3, <1>4, <1>5, <1>6, <1>7, NextCases

LEMMA JobAfterJob ==
  ASSUME RowTypes, ThreadTypes, JobInv, NEW r \in Run, JobStep(r)
  PROVE  JobInv'
<1>0. UNCHANGED <<status, mode>>
  BY JobFrame
<1>1. CASE Claim(r)
  BY <1>1, <1>0 DEF Claim, Rest, JobGoes, threads, JobInv, RowTypes, ThreadTypes, rows, Final
<1>2. CASE ReportProgress(r)
  BY <1>2, <1>0 DEF ReportProgress, Rest, JobGoes, threads, JobInv, RowTypes, ThreadTypes,
       rows, Final
<1>3. CASE WaitEnds(r)
  BY <1>3, <1>0 DEF WaitEnds, Rest, JobGoes, threads, JobInv, RowTypes, ThreadTypes, rows,
       Final
<1>4. CASE HandoffStale(r)
  BY <1>4, <1>0 DEF HandoffStale, Rest, JobGoes, threads, JobInv, RowTypes, ThreadTypes, rows,
       Final
<1>5. CASE JobSuppresses(r)
  BY <1>5, <1>0 DEF JobSuppresses, Rest, JobGoes, threads, JobInv, RowTypes, ThreadTypes, rows,
       Final
<1>6. CASE SuppressEnds(r)
  BY <1>6, <1>0 DEF SuppressEnds, Rest, JobGoes, threads, JobInv, RowTypes, ThreadTypes, rows,
       Final
<1>7. CASE SendFinal(r)
  BY <1>7, <1>0 DEF SendFinal, JobProof, Rest, JobGoes, threads, JobInv, RowTypes, ThreadTypes,
       rows, Final
<1>8. CASE JobMarks(r)
  BY <1>8, <1>0 DEF JobMarks, MarkRow, NextEffective, Rest, JobGoes, threads, JobInv, RowTypes, ThreadTypes,
       rows, Final
<1>9. CASE JobEnforces(r)
  BY <1>9, <1>0 DEF JobEnforces, Enforce, Remove, Rest, JobGoes, threads, JobInv, RowTypes,
       ThreadTypes, rows, Final
<1>10. CASE JobRaises(r)
  <2>1. UNCHANGED effective
    BY <1>10 DEF JobRaises, EnforceFails, rows
  <2>2. caught' = [caught EXCEPT ![r] = TRUE]
    BY <1>10 DEF JobRaises
  <2>3. job' = [job EXCEPT ![r] = "done"] \/ job' = [job EXCEPT ![r] = "failing"]
    BY <1>10 DEF JobRaises
  <2> QED
    BY <1>0, <2>1, <2>2, <2>3 DEF JobInv, ThreadTypes, Final
<1> QED
  BY <1>1, <1>2, <1>3, <1>4, <1>5, <1>6, <1>7, <1>8, <1>9, <1>10 DEF JobStep

LEMMA JobKept ==
  ASSUME RetentionInv, RetentionNext
  PROVE  JobInv'
<1> USE DEF RetentionInv
<1>0. RowTypes /\ ThreadTypes /\ EffectiveType
  BY TypeGroups DEF EffectiveType, RowTypes
<1>1. ASSUME NEW r \in Run, RunStep(r)
      PROVE  JobInv'
  <2>1. UNCHANGED <<job, caught, effective>>
    BY <1>0, <1>1, RunFrame
  <2>2. StatusStays /\ \A q \in Run : mode[q] = "remote" => mode'[q] = "remote"
    BY <1>0, <1>1, RunKeepsStatus
  <2> QED
    BY <2>1, <2>2 DEF JobInv, StatusStays, Final
<1>2. CASE \E r \in Run : JobStep(r)
  BY <1>0, <1>2, JobAfterJob
<1>3. CASE \E r \in Run : AsideStep(r)
  BY <1>3, AsideFrame DEF JobInv, threads
<1>4. CASE \E s \in Sweeper : SweepStep(s)
  BY <1>0, <1>4, SweepFrame DEF JobInv, threads
<1>5. CASE OutboxStep
  BY <1>5, OutboxFrame DEF JobInv, threads, rows
<1>6. CASE Dying
  BY <1>6, DyingFrame, DyingDies DEF JobInv, Die
<1>7. CASE Restart
  BY <1>7 DEF JobInv, Restart, threads, rows
<1> QED
  BY <1>1, <1>2, <1>3, <1>4, <1>5, <1>6, <1>7, NextCases

-----------------------------------------------------------------------------
\* The reports and the marks

LEMMA NextEvents ==
  ASSUME RetentionInv, RetentionNext
  PROVE  EventStep /\ EventsGrow /\ EventTypes'
<1>1. EventTypes /\ RowTypes
  BY TypeGroups DEF RetentionInv
<1>2. EventStep
  <2>1. CASE OutboxStep
    BY <2>1, OutboxEvents
  <2>2. CASE ~OutboxStep
    <3>1. QuietStep
      BY <2>2, RunIsQuiet, JobIsQuiet, SweepIsQuiet, AsideIsQuiet, DyingIsQuiet, NextCases DEF QuietStep
    <3> QED
      BY <3>1 DEF EventStep
  <2> QED
    BY <2>1, <2>2
<1>3. EventsGrow
  BY <1>1, <1>2, EventsDoGrow DEF RetentionInv, QueuedInv
<1> QED
  BY <1>1, <1>2, <1>3, EventTypesKept

LEMMA QueuedIsFinal ==
  ASSUME NEW r \in Run, FinalQueued(r)
  PROVE  HasFinal(r)
BY DEF FinalQueued, EventsOf, Queued, HasFinal

\* A row is marked for a report only by who has seen the report.
MarkedFor(q) == queued[q] /\ required[q]

LEMMA RunMarksForReports ==
  ASSUME RowTypes, ThreadTypes, QueuedInv, NEW r \in Run, RunStep(r), NEW q \in Run
  PROVE  /\ MarkedFor(q)' => HasFinal(q)
         /\ runner'[q] = "mark_sync" => HasFinal(q)
<1> USE DEF MarkedFor, RowTypes, ThreadTypes, QueuedInv
<1>1. CASE RunMarks(r)
  BY <1>1 DEF RunMarks, MarkRow, NextEffective, RunGoes
<1>2. CASE Decide(r)
  BY <1>2, QueuedIsFinal DEF Decide, RunGoes, rows
<1>3. CASE Require(r)
  BY <1>3 DEF Require, RunGoes
<1>4. CASE RunEnforces(r)
  BY <1>4 DEF RunEnforces, Enforce, EnforceFails, Remove, RunGoes, rows
<1>5. CASE ~(RunMarks(r) \/ Decide(r) \/ Require(r) \/ RunEnforces(r))
  BY <1>5 DEF RunStep, StageRun, InsertRow, InsertFails, Advance, Commit, RewriteManifest, Report, RunLosesRow,
              RunGoes, rows
<1> QED
  BY <1>1, <1>2, <1>3, <1>4, <1>5

LEMMA JobMarksForReports ==
  ASSUME RetentionInv, EventTypes', NEW r \in Run, JobStep(r), NEW q \in Run
  PROVE  /\ MarkedFor(q)' => HasFinal(q)
         /\ job'[q] \in {"mark_succeeded", "mark_failed"} => HasFinal(q) \/ HasFinal(q)'
<1>0. RowTypes /\ ThreadTypes /\ QueuedInv /\ EventTypes
  BY TypeGroups DEF RetentionInv
<1> USE <1>0 DEF MarkedFor, RowTypes, ThreadTypes, QueuedInv
<1>1. CASE JobMarks(r)
  BY <1>1 DEF JobMarks, MarkRow, NextEffective, JobGoes
<1>2. CASE SendFinal(r)
  <2>1. UNCHANGED rows
    BY <1>2 DEF SendFinal
  <2>2. ASSUME job'[q] \in {"mark_succeeded", "mark_failed"}, job'[q] # job[q]
        PROVE  HasFinal(q)'
    <3>1. q = r /\ job[r] \in {"handoff", "failing"}
      BY <1>2, <2>2 DEF SendFinal, JobGoes
    <3>2. JobProof(r) \in Final
      <4>1. CASE job[r] = "handoff"
        BY <4>1 DEF RetentionInv, JobInv, JobProof, Final
      <4>2. CASE job[r] = "failing" /\ ~caught[r]
        BY <4>2 DEF RetentionInv, JobInv, JobProof, Final
      <4>3. CASE job[r] = "failing" /\ caught[r]
        BY <1>2, <2>2, <3>1, <4>3 DEF SendFinal, JobGoes
      <4> QED
        BY <3>1, <4>1, <4>2, <4>3
    <3>3. \E s \in {"succeeded", "failed"} : SendUpdate(r, JobProof(r), s)
      BY <1>2, <2>2, <3>1 DEF SendFinal, JobGoes
    <3>4. PICK s \in {"succeeded", "failed"}, e \in Event : Enqueue(e, r, "run_update", JobProof(r), s)
      BY <3>3 DEF SendUpdate
    <3>5. state'[e] = "pending" /\ about'[e] = r /\ proof'[e] = JobProof(r)
      BY <3>4 DEF Enqueue, EventTypes
    <3> QED
      BY <3>1, <3>2, <3>5 DEF HasFinal
  <2> QED
    BY <2>1, <2>2 DEF rows
<1>3. CASE JobEnforces(r) \/ JobRaises(r)
  <2>1. UNCHANGED <<queued, required>>
    BY <1>3 DEF JobEnforces, JobRaises, Enforce, EnforceFails, Remove, rows
  <2>2. job'[q] \in {"mark_succeeded", "mark_failed"} => job'[q] = job[q]
    BY <1>3 DEF JobEnforces, JobRaises, JobGoes
  <2> QED
    BY <2>1, <2>2
<1>4. CASE ~(JobMarks(r) \/ SendFinal(r) \/ JobEnforces(r) \/ JobRaises(r))
  BY <1>4 DEF JobStep, Claim, ReportProgress, WaitEnds, HandoffStale, JobSuppresses, SuppressEnds, JobGoes,
              threads, rows
<1> QED
  BY <1>1, <1>2, <1>3, <1>4

LEMMA SweepMarksForReports ==
  ASSUME RetentionInv, NEW s \in Sweeper, SweepStep(s)
  PROVE  /\ \A q \in Run : MarkedFor(q)' => HasFinal(q)
         /\ \A t \in Sweeper : phase'[t] = "mark_sync" => HasFinal(at'[t])
<1>0. RowTypes /\ SyncTypes /\ ProcessTypes /\ QueuedInv
  BY TypeGroups DEF RetentionInv
<1> USE <1>0 DEF MarkedFor, RowTypes, SyncTypes, QueuedInv
<1>1. at[s] \in Run
  BY DEF ProcessTypes
<1>2. CASE SweepMark(s)
  BY <1>1, <1>2 DEF SweepMark, MarkRow, NextEffective, Go, sweeps
<1>3. CASE SweepLook(s) \/ SweepRecheck(s)
  <2>1. phase'[s] = "mark_sync" => HasFinal(at[s])
    BY <1>1, <1>3, QueuedIsFinal DEF SweepLook, SweepRecheck, Go
  <2>2. UNCHANGED <<rows, sweeps>> /\ \A t \in Sweeper : t # s => phase'[t] = phase[t]
    BY <1>3 DEF SweepLook, SweepRecheck, Go
  <2> QED
    BY <2>1, <2>2 DEF rows, sweeps
<1>4. CASE SweepEnforce(s)
  BY <1>4 DEF SweepEnforce, Enforce, EnforceFails, Remove, Go, rows, sweeps
<1>5. CASE SweepNext(s)
  <2>1. UNCHANGED rows /\ phase'[s] # "mark_sync"
    BY <1>5 DEF SweepNext, Go
  <2>2. \A t \in Sweeper : t # s => phase'[t] = phase[t] /\ at'[t] = at[t]
    BY <1>5 DEF SweepNext, Go, ProcessTypes
  <2> QED
    BY <2>1, <2>2 DEF rows
<1>6. CASE SweepStart(s) \/ SweepRequeue(s) \/ SweepLosesRow(s) \/ SweepDone(s)
  BY <1>6 DEF SweepStart, SweepRequeue, SweepLosesRow, SweepDone, Go, rows, sweeps
<1> QED
  BY <1>2, <1>3, <1>4, <1>5, <1>6 DEF SweepStep

LEMMA OutboxDoesNotMark ==
  ASSUME SyncTypes, OutboxStep
  PROVE  \A t \in Sweeper : phase'[t] = "mark_sync" => phase[t] = "mark_sync"
<1> USE DEF SyncTypes, Go
<1>1. ASSUME NEW s \in Syncer, Deliver(s)
      PROVE  \A t \in Sweeper : phase'[t] = "mark_sync" => phase[t] = "mark_sync"
  BY <1>1 DEF Deliver, SyncStep, BeginSync, PickBatch, Drained, Answer, MarkReceipt, Marked, SuppressOne,
              Suppressed, MarkFails
<1>2. ASSUME NEW s \in Syncer, Misdeliver(s)
      PROVE  \A t \in Sweeper : phase'[t] = "mark_sync" => phase[t] = "mark_sync"
  BY <1>2 DEF Misdeliver, SyncFault, LoseAnswer, RefuseBatch, RetireEvent, RefuseClaim
<1>3. CASE (\E s \in Syncer : AgeEvents(s)) \/ PruneEvents \/ Reconnect
  BY <1>3 DEF AgeEvents, Expire, PruneEvents, PruneQueue, Reconnect, ChangeConnection
<1> QED
  BY <1>1, <1>2, <1>3 DEF OutboxStep

\* After the step, whoever is marked or about to mark has a report.
MarksStand ==
  /\ \A q \in Run : /\ MarkedFor(q)' => HasFinal(q)'
                    /\ runner'[q] = "mark_sync" => HasFinal(q)'
                    /\ job'[q] \in {"mark_succeeded", "mark_failed"} => HasFinal(q)'
  /\ \A t \in Sweeper : phase'[t] = "mark_sync" => \E q \in Run : q = at'[t] /\ HasFinal(q)'

LEMMA QueuedKept ==
  ASSUME RetentionInv, RetentionNext
  PROVE  QueuedInv'
<1>0. EventTypes /\ SyncTypes /\ RowTypes /\ ThreadTypes /\ ProcessTypes /\ QueuedInv /\ EffectiveType
  BY TypeGroups DEF RetentionInv, EffectiveType, RowTypes
<1>1. EventsGrow /\ EventTypes' /\ StatusStays
  BY NextEvents, StatusKept
<1>2. \A q \in Run : HasFinal(q) => HasFinal(q)'
  BY <1>0, <1>1, FinalStays
<1>3. \A e \in Event : proof'[e] \in Final => status'[about'[e]] \in Final
  BY <1>1 DEF EventsGrow, StatusStays, EventTypes
<1>4. MarksStand => QueuedInv'
  BY <1>3 DEF MarksStand, QueuedInv, MarkedFor, HasFinal
<1>5. \A t \in Sweeper : at[t] \in Run
  BY <1>0 DEF ProcessTypes
<1>6. ASSUME NEW r \in Run, RunStep(r)
      PROVE  MarksStand
  <2>1. UNCHANGED <<job, phase, at>>
    BY <1>0, <1>6, RunFrame DEF sweeps
  <2> QED
    BY <1>0, <1>2, <1>5, <1>6, <2>1, RunMarksForReports DEF MarksStand, QueuedInv
<1>7. ASSUME NEW r \in Run, JobStep(r)
      PROVE  MarksStand
  <2>1. UNCHANGED <<runner, phase, at>>
    BY <1>7, JobFrame DEF sweeps
  <2> QED
    BY <1>0, <1>1, <1>2, <1>5, <1>7, <2>1, JobMarksForReports DEF MarksStand, QueuedInv
<1>8. ASSUME NEW s \in Sweeper, SweepStep(s)
      PROVE  MarksStand
  <2>1. UNCHANGED <<runner, job>>
    BY <1>0, <1>8, SweepFrame DEF threads
  <2>2. ProcessTypes'
    BY <1>0, <1>8, SweepProcessTypes
  <2>3. \A t \in Sweeper : at'[t] \in Run
    BY <2>2 DEF ProcessTypes
  <2> QED
    BY <1>0, <1>2, <1>8, <2>1, <2>3, SweepMarksForReports DEF MarksStand, QueuedInv
<1>9. ASSUME NEW r \in Run, AsideStep(r)
      PROVE  MarksStand
  <2>1. UNCHANGED <<runner, job, phase, at, queued, required>>
    BY <1>9, AsideFrame DEF threads, sweeps
  <2> QED
    BY <1>0, <1>2, <1>5, <2>1 DEF MarksStand, QueuedInv, MarkedFor
<1>10. ASSUME OutboxStep
       PROVE  MarksStand
  <2>1. UNCHANGED <<runner, job, at, queued, required>>
    BY <1>10, OutboxFrame DEF threads, sweeps, rows
  <2> QED
    BY <1>0, <1>2, <1>5, <1>10, <2>1, OutboxDoesNotMark DEF MarksStand, QueuedInv, MarkedFor
<1>11. ASSUME Dying
       PROVE  MarksStand
  BY <1>0, <1>2, <1>11, DyingFrame, DyingDies DEF MarksStand, QueuedInv, MarkedFor, Die
<1>12. ASSUME Restart
       PROVE  MarksStand
  <2>1. UNCHANGED <<runner, job, at, queued, required>>
    BY <1>12 DEF Restart, threads, sweeps, rows
  <2>2. \A t \in Sweeper : phase'[t] = "mark_sync" => phase[t] = "mark_sync"
    BY <1>0, <1>12 DEF Restart, Go, SyncTypes
  <2> QED
    BY <1>0, <1>2, <1>5, <2>1, <2>2 DEF MarksStand, QueuedInv, MarkedFor
<1> QED
  BY <1>4, <1>6, <1>7, <1>8, <1>9, <1>10, <1>11, <1>12, NextCases

-----------------------------------------------------------------------------
\* The exchanges

\* Only threads in sync_once touch an exchange.
LEMMA ExchangeUntouched ==
  ASSUME EventTypes, SyncTypes, ExchangeInv, EventsGrow, QuietStep,
         confirmed \subseteq confirmed',
         \A s \in Sweeper : /\ phase'[s] \in Exchanging => phase'[s] = phase[s] /\ batch'[s] = batch[s]
                            /\ taken'[s] \subseteq taken[s]
                            /\ doomed'[s] \subseteq doomed[s],
         \A r \in Run : \A e \in condemned'[r] : e \in Event /\ state[e] # "none"
  PROVE  ExchangeInv'
<1>1. \A e \in Event : state'[e] = "sent" => state[e] = "sent"
  BY QuietSettlesNothing
<1>2. \A e \in Event : state[e] # "none" => state'[e] # "none"
  BY DEF EventsGrow
<1>3. Main \in Sweeper
  BY DEF Sweeper
<1>4. phase'[Main] \notin Exchanging /\ \A s, t \in Sweeper : phase'[s] \in Exchanging /\ phase'[t] \in Exchanging => s = t
  BY <1>3 DEF ExchangeInv
<1>5. ASSUME NEW s \in Sweeper, phase'[s] \in {"asked", "marking"}, NEW e \in batch'[s]
      PROVE  state'[e] \notin {"none", "sent"}
  <2>1. phase'[s] = phase[s] /\ batch'[s] = batch[s]
    BY <1>5 DEF Exchanging
  <2>2. e \in Event /\ state[e] \notin {"none", "sent"}
    BY <1>5, <2>1 DEF ExchangeInv, SyncTypes
  <2> QED
    BY <1>1, <1>2, <2>2
<1>6. \A s \in Sweeper : \A e \in doomed'[s] : state'[e] # "none"
  BY <1>2 DEF ExchangeInv, SyncTypes
<1> QED
  BY <1>1, <1>2, <1>4, <1>5, <1>6 DEF ExchangeInv

LEMMA SweepLeavesExchanges ==
  ASSUME SyncTypes, NEW s \in Sweeper, SweepStep(s)
  PROVE  \A t \in Sweeper : phase'[t] \in Exchanging => phase'[t] = phase[t]
<1>1. CASE SweepStart(s) \/ SweepNext(s) \/ SweepLook(s)
  BY <1>1 DEF SweepStart, SweepNext, SweepLook, SweepRest, Go, SyncTypes, Exchanging
<1>2. CASE SweepRequeue(s) \/ SweepRecheck(s) \/ SweepMark(s)
  BY <1>2 DEF SweepRequeue, SweepRecheck, SweepMark, SweepRest, Go, SyncTypes, Exchanging
<1>3. CASE SweepEnforce(s) \/ SweepLosesRow(s) \/ SweepDone(s)
  BY <1>3 DEF SweepEnforce, SweepLosesRow, SweepDone, SweepRest, Go, SyncTypes, Exchanging
<1> QED
  BY <1>1, <1>2, <1>3 DEF SweepStep

LEMMA DeliveryKeepsExchanges ==
  ASSUME EventTypes, SyncTypes, ExchangeInv, NEW s \in Syncer, Deliver(s)
  PROVE  ExchangeInv'
<1>1. s \in Sweeper /\ s # Main /\ Main \in Sweeper
  BY OutboxAssumption DEF Sweeper
<1>2. UNCHANGED condemned
  BY DEF Deliver, Unswept, threads
<1> USE <1>1, <1>2 DEF EventTypes, SyncTypes, Go, Exchanging
<1>3. CASE BeginSync(s)
  BY <1>3 DEF BeginSync, ExchangeInv, events, exchange
<1>4. CASE PickBatch(s)
  BY <1>4 DEF PickBatch, ExchangeInv, Waiting, events
<1>5. CASE Drained(s)
  BY <1>5 DEF Drained, Forget, ExchangeInv, events
<1>11. CASE MarkFails(s)
  <2>1. UNCHANGED <<state, confirmed>> /\ Go(s, "idle") /\ Forget(s)
    BY <1>11 DEF MarkFails, events
  <2> QED
    BY <2>1 DEF Forget, ExchangeInv
<1>6. CASE Answer(s)
  BY <1>6 DEF Answer, ExchangeInv, events
<1>7. CASE MarkReceipt(s)
  <2>1. PICK e \in batch[s], to \in {"pending", "rejected", "sent"} :
          /\ to = "sent" => e \in taken[s]
          /\ Mark(e, to)
          /\ batch' = [batch EXCEPT ![s] = @ \ {e}]
          /\ taken' = [taken EXCEPT ![s] = @ \ {e}]
    BY <1>7 DEF MarkReceipt
  <2>2. e \in Event /\ (to = "sent" => e \in confirmed)
    BY <2>1 DEF ExchangeInv
  <2>3. UNCHANGED <<confirmed, phase, doomed>>
    BY <1>7 DEF MarkReceipt
  <2>4. phase[s] = "marking"
    BY <1>7 DEF MarkReceipt
  <2>5. \A d \in Event : state'[d] = IF d = e THEN to ELSE state[d]
    BY <2>1, <2>2 DEF Mark
  <2>6. ASSUME NEW t \in Sweeper, phase[t] \in {"asked", "marking"}, NEW d \in batch'[t]
        PROVE  state'[d] \notin {"none", "sent"}
    <3>1. t = s
      BY <2>4, <2>6 DEF ExchangeInv
    <3>2. d \in batch[s] /\ d # e
      BY <2>1, <2>6, <3>1
    <3> QED
      BY <2>4, <2>5, <3>2 DEF ExchangeInv
  <2>7. \A t \in Sweeper : taken'[t] \subseteq taken[t]
    BY <2>1
  <2>8. \A d \in Event : state[d] # "none" => state'[d] # "none"
    BY <2>5
  <2>9. \A d \in Event : state'[d] = "sent" => d \in confirmed
    BY <2>2, <2>5 DEF ExchangeInv
  <2>10. \A r \in Run : \A d \in condemned'[r] : state'[d] # "none"
    <3>1. \A d : state[d] # "none" => state'[d] # "none"
      BY <2>1, <2>2 DEF Mark
    <3> QED
      BY <3>1 DEF ExchangeInv
  <2> QED
    BY <2>3, <2>6, <2>7, <2>8, <2>9, <2>10 DEF ExchangeInv
<1>8. CASE Marked(s)
  BY <1>8 DEF Marked, Forget, ExchangeInv, events, exchange
<1>9. CASE SuppressOne(s)
  BY <1>9 DEF SuppressOne, Mark, ExchangeInv
<1>10. CASE Suppressed(s)
  BY <1>10 DEF Suppressed, ExchangeInv, events, exchange
<1> QED
  BY <1>3, <1>4, <1>5, <1>6, <1>7, <1>8, <1>9, <1>10, <1>11 DEF Deliver, SyncStep

LEMMA FaultsKeepExchanges ==
  ASSUME EventTypes, SyncTypes, ExchangeInv, NEW s \in Syncer, Misdeliver(s)
  PROVE  ExchangeInv'
<1>1. s \in Sweeper /\ s # Main /\ Main \in Sweeper
  BY OutboxAssumption DEF Sweeper
<1>2. UNCHANGED condemned
  BY DEF Misdeliver, Unswept, threads
<1> USE <1>1, <1>2 DEF EventTypes, SyncTypes, Go, Exchanging
<1>3. CASE LoseAnswer(s)
  BY <1>3 DEF LoseAnswer, Forget, ExchangeInv, events
<1>4. CASE RefuseBatch(s)
  BY <1>4 DEF RefuseBatch, ExchangeInv, events
<1>5. CASE RetireEvent(s)
  BY <1>5 DEF RetireEvent, Mark, ExchangeInv
<1>6. CASE RefuseClaim(s)
  BY <1>6 DEF RefuseClaim, ReportsOf, Waiting, ExchangeInv, events
<1> QED
  BY <1>3, <1>4, <1>5, <1>6 DEF Misdeliver, SyncFault

LEMMA ExchangeKept ==
  ASSUME RetentionInv, RetentionNext
  PROVE  ExchangeInv'
<1>0. EventTypes /\ SyncTypes /\ RowTypes /\ ThreadTypes /\ ExchangeInv /\ EffectiveType /\ EventsGrow
  BY TypeGroups, NextEvents DEF RetentionInv, EffectiveType, RowTypes
<1>c. \A r \in Run : \A e \in condemned[r] : e \in Event /\ state[e] # "none"
  BY <1>0 DEF ThreadTypes, ExchangeInv
<1>1. ASSUME NEW r \in Run, RunStep(r)
      PROVE  ExchangeInv'
  <2>1. UNCHANGED <<confirmed, phase, exchange, condemned>> /\ QuietStep
    BY <1>0, <1>1, RunFrame, RunIsQuiet
  <2> QED
    BY <1>0, <1>c, <2>1, ExchangeUntouched DEF exchange
<1>2. ASSUME NEW r \in Run, JobStep(r)
      PROVE  ExchangeInv'
  <2>1. UNCHANGED <<confirmed, phase, exchange>> /\ QuietStep
    BY <1>2, JobFrame, JobIsQuiet
  <2>2. \A q \in Run : \A e \in condemned'[q] : e \in Event /\ state[e] # "none"
    <3>1. \A q \in Run : condemned'[q] \subseteq condemned[q] \cup {e \in Event : state[e] = "pending"}
      <4> USE <1>0 DEF ThreadTypes
      <4>1. CASE HandoffStale(r)
        BY <4>1 DEF HandoffStale, ReportsOf, Waiting
      <4>2. CASE JobSuppresses(r) \/ SuppressEnds(r)
        BY <4>2 DEF JobSuppresses, SuppressEnds
      <4>3. CASE ~(HandoffStale(r) \/ JobSuppresses(r) \/ SuppressEnds(r))
        BY <1>2, <4>3 DEF JobStep, Claim, ReportProgress, WaitEnds, SendFinal, JobMarks, JobEnforces, JobRaises,
                          JobGoes, threads
      <4> QED
        BY <4>1, <4>2, <4>3
    <3> QED
      BY <1>c, <3>1
  <2> QED
    BY <1>0, <2>1, <2>2, ExchangeUntouched DEF exchange
<1>3. ASSUME NEW s \in Sweeper, SweepStep(s)
      PROVE  ExchangeInv'
  <2>1. UNCHANGED <<confirmed, exchange, condemned>> /\ QuietStep
    BY <1>0, <1>3, SweepFrame, SweepIsQuiet DEF threads
  <2> QED
    BY <1>0, <1>3, <1>c, <2>1, SweepLeavesExchanges, ExchangeUntouched DEF exchange
<1>4. ASSUME NEW r \in Run, AsideStep(r)
      PROVE  ExchangeInv'
  <2>1. UNCHANGED <<confirmed, phase, exchange, condemned>> /\ QuietStep
    BY <1>4, AsideFrame, AsideIsQuiet DEF threads
  <2> QED
    BY <1>0, <1>c, <2>1, ExchangeUntouched DEF exchange
<1>5. CASE OutboxStep
  <2>1. CASE \E s \in Syncer : Deliver(s) \/ Misdeliver(s)
    BY <1>0, <2>1, DeliveryKeepsExchanges, FaultsKeepExchanges
  <2>2. CASE (\E s \in Syncer : AgeEvents(s)) \/ PruneEvents \/ Reconnect
    <3>1. UNCHANGED <<confirmed, phase, exchange, condemned>>
      BY <2>2 DEF AgeEvents, Expire, PruneEvents, PruneQueue, Reconnect, ChangeConnection, Unswept, threads
    <3>2. QuietStep
      <4>1. CASE \E s \in Syncer : AgeEvents(s)
        <5>1. PICK old \in SUBSET Expirable(Linked) : Delete(old)
          BY <4>1 DEF AgeEvents, Expire
        <5>2. old \in SUBSET Event /\ \A e \in old : state[e] # "none"
          BY DEF Expirable, Queued
        <5> QED
          BY <5>1, <5>2 DEF QuietStep
      <4>2. CASE PruneEvents
        <5>1. PICK es \in SUBSET Queued : Delete(es)
          BY <4>2 DEF PruneEvents, PruneQueue
        <5>2. es \in SUBSET Event /\ \A e \in es : state[e] # "none"
          BY DEF Queued
        <5> QED
          BY <5>1, <5>2 DEF QuietStep
      <4>3. CASE Reconnect
        BY <4>3 DEF Reconnect, ChangeConnection, QuietStep
      <4> QED
        BY <2>2, <4>1, <4>2, <4>3
    <3> QED
      BY <1>0, <1>c, <3>1, <3>2, ExchangeUntouched DEF exchange
  <2> QED
    BY <1>5, <2>1, <2>2 DEF OutboxStep
<1>6. CASE Dying
  <2>1. QuietStep /\ UNCHANGED confirmed
    BY <1>6, DyingIsQuiet, DyingFrame
  <2>2. /\ \A s \in Sweeper : phase'[s] = "idle" /\ taken'[s] = {} /\ doomed'[s] = {}
        /\ \A r \in Run : condemned'[r] = {}
    BY <1>6, DyingDies DEF Die
  <2> QED
    BY <1>0, <2>1, <2>2, ExchangeUntouched DEF Exchanging
<1>7. CASE Restart
  <2>1. QuietStep /\ UNCHANGED <<confirmed, exchange, condemned>>
    BY <1>7 DEF QuietStep, Restart, threads
  <2>2. \A s \in Sweeper : phase'[s] \in Exchanging => phase'[s] = phase[s]
    BY <1>0, <1>7 DEF Restart, Go, SyncTypes, Exchanging
  <2> QED
    BY <1>0, <1>c, <2>1, <2>2, ExchangeUntouched DEF exchange
<1> QED
  BY <1>1, <1>2, <1>3, <1>4, <1>5, <1>6, <1>7, NextCases

-----------------------------------------------------------------------------
\* The directories

\* What an enforcement, a failed one, a pruning and a crash in one do to the files.
LEMMA RemovalsKeepSight ==
  ASSUME RowTypes, ProcessTypes, NoLeakedDirectory, NEW r \in Run, Row(r), UNCHANGED status,
         \A q \in Run : q # r => files'[q] = files[q] /\ runDir'[q] = runDir[q] /\ pruned'[q] = pruned[q],
         \/ files'[r] = FALSE
         \/ files'[r] = (files[r] /\ ~runDir[r])
         \/ files'[r] = files[r] /\ runDir'[r] = runDir[r] /\ pruned'[r] = pruned[r]
  PROVE  NoLeakedDirectory'
BY DEF NoLeakedDirectory, Row, RowTypes, ProcessTypes

LEMMA EnforceKeepsSight ==
  ASSUME RowTypes, ProcessTypes, NoLeakedDirectory, NEW r \in Run, Enforce(r) \/ EnforceFails(r)
  PROVE  NoLeakedDirectory'
<1>1. CASE UNCHANGED <<rows, files>>
  BY <1>1 DEF NoLeakedDirectory, Row, rows
<1>2. CASE Remove(r) /\ Enforce(r)
  <2>1. Row(r)
    BY <1>2 DEF Enforce
  <2>2. files'[r] = (files[r] /\ ~runDir[r])
    BY <1>2 DEF Remove, ProcessTypes
  <2>3. UNCHANGED <<status, pruned>>
    BY <1>2 DEF Remove
  <2>4. \A q \in Run : q # r => files'[q] = files[q] /\ runDir'[q] = runDir[q]
    BY <1>2 DEF Remove, ProcessTypes, RowTypes
  <2> QED
    BY <2>1, <2>2, <2>3, <2>4, RemovalsKeepSight
<1>3. CASE EnforceFails(r)
  <2>1. Row(r) /\ UNCHANGED rows
    BY <1>3 DEF EnforceFails, Removable, Due
  <2>2. files'[r] = FALSE \/ files'[r] = files[r]
    BY <1>3 DEF EnforceFails, RmtreeFails, ProcessTypes
  <2>3. \A q \in Run : q # r => files'[q] = files[q]
    BY <1>3 DEF EnforceFails, RmtreeFails, ProcessTypes
  <2> QED
    BY <2>1, <2>2, <2>3, RemovalsKeepSight DEF rows
<1> QED
  BY <1>1, <1>2, <1>3 DEF Enforce

LEMMA RunKeepsSight ==
  ASSUME RowTypes, ThreadTypes, ProcessTypes, RunnerInv, NoLeakedDirectory, NEW r \in Run, RunStep(r)
  PROVE  NoLeakedDirectory'
<1>1. CASE StageRun(r)
  BY <1>1 DEF StageRun, RunnerInv, NoLeakedDirectory, Row, ProcessTypes
<1>2. CASE InsertRow(r)
  BY <1>2 DEF InsertRow, RunnerInv, NoLeakedDirectory, Row, RowTypes
<1>3. CASE InsertFails(r)
  BY <1>3 DEF InsertFails, NoLeakedDirectory, Row, ProcessTypes, rows
<1>4. CASE Commit(r)
  BY <1>4 DEF Commit, RunnerInv, NoLeakedDirectory, Row, RowTypes, Final
<1>5. CASE RunEnforces(r)
  BY <1>5, EnforceKeepsSight DEF RunEnforces
<1>6. CASE Advance(r) \/ RewriteManifest(r) \/ Report(r) \/ Decide(r) \/ RunMarks(r) \/ Require(r) \/ RunLosesRow(r)
  <2>1. UNCHANGED <<status, pruned, runDir, files>>
    BY <1>6 DEF Advance, RewriteManifest, Report, Decide, RunMarks, MarkRow, NextEffective, Require, RunLosesRow, rows
  <2> QED
    BY <2>1 DEF NoLeakedDirectory, Row
<1> QED
  BY <1>1, <1>2, <1>3, <1>4, <1>5, <1>6 DEF RunStep

LEMMA SightKept ==
  ASSUME RetentionInv, RetentionNext
  PROVE  NoLeakedDirectory'
<1>0. RowTypes /\ ThreadTypes /\ ProcessTypes /\ RunnerInv /\ NoLeakedDirectory
  BY TypeGroups DEF RetentionInv
<1>1. ASSUME NEW r \in Run, RunStep(r)
      PROVE  NoLeakedDirectory'
  BY <1>0, <1>1, RunKeepsSight
<1>2. ASSUME NEW r \in Run, JobStep(r)
      PROVE  NoLeakedDirectory'
  <2>1. CASE Enforce(r) \/ EnforceFails(r)
    BY <1>0, <2>1, EnforceKeepsSight
  <2>2. CASE ~(Enforce(r) \/ EnforceFails(r))
    <3>1. UNCHANGED <<status, pruned, runDir, files>>
      BY <1>2, <2>2 DEF JobStep, Claim, ReportProgress, WaitEnds, HandoffStale, JobSuppresses, SuppressEnds,
                        SendFinal, JobMarks, MarkRow, NextEffective, JobEnforces, JobRaises, rows
    <3> QED
      BY <1>0, <3>1 DEF NoLeakedDirectory, Row
  <2> QED
    BY <2>1, <2>2
<1>3. ASSUME NEW s \in Sweeper, SweepStep(s)
      PROVE  NoLeakedDirectory'
  <2>1. CASE SweepEnforce(s)
    <3>1. at[s] \in Run
      BY <1>0 DEF ProcessTypes
    <3> QED
      BY <1>0, <2>1, <3>1, EnforceKeepsSight DEF SweepEnforce
  <2>2. CASE ~SweepEnforce(s)
    <3>1. UNCHANGED <<status, pruned, runDir, files>>
      BY <1>3, <2>2 DEF SweepStep, SweepStart, SweepNext, SweepLook, SweepRequeue, SweepRecheck, SweepMark, MarkRow, NextEffective,
                        SweepLosesRow, SweepDone, rows
    <3> QED
      BY <1>0, <3>1 DEF NoLeakedDirectory, Row
  <2> QED
    BY <2>1, <2>2
<1>4. ASSUME NEW r \in Run, AsideStep(r)
      PROVE  NoLeakedDirectory'
  <2>1. CASE SchedulerEnforces(r)
    <3>1. CASE Enforce(r) \/ EnforceFails(r)
      BY <1>0, <3>1, EnforceKeepsSight
    <3>2. CASE UNCHANGED <<rows, files>>
      BY <1>0, <3>2 DEF NoLeakedDirectory, Row, rows
    <3> QED
      BY <2>1, <3>1, <3>2 DEF SchedulerEnforces
  <2>2. CASE Renew(r) \/ LeaseExpires(r)
    BY <1>0, <2>2 DEF Renew, LeaseExpires, NoLeakedDirectory, Row
  <2>3. CASE Acknowledge(r)
    <3>1. Row(r) /\ UNCHANGED <<status, pruned>>
      BY <2>3 DEF Acknowledge, Remove
    <3>2. CASE Remove(r)
      <4>1. files'[r] = (files[r] /\ ~runDir[r])
        BY <1>0, <3>2 DEF Remove, ProcessTypes
      <4>2. \A q \in Run : q # r => files'[q] = files[q] /\ runDir'[q] = runDir[q]
        BY <1>0, <3>2 DEF Remove, ProcessTypes, RowTypes
      <4> QED
        BY <1>0, <3>1, <4>1, <4>2, RemovalsKeepSight
    <3>3. CASE UNCHANGED runDir /\ (RmtreeFails(r) \/ UNCHANGED files)
      <4>1. files'[r] = FALSE \/ files'[r] = files[r]
        BY <1>0, <3>3 DEF RmtreeFails, ProcessTypes
      <4>2. \A q \in Run : q # r => files'[q] = files[q]
        BY <1>0, <3>3 DEF RmtreeFails, ProcessTypes
      <4> QED
        BY <1>0, <3>1, <3>3, <4>1, <4>2, RemovalsKeepSight
    <3> QED
      BY <2>3, <3>2, <3>3 DEF Acknowledge
  <2>4. CASE PruneRow(r)
    <3>1. Row(r) /\ UNCHANGED <<status, runDir>>
      BY <2>4 DEF PruneRow
    <3>2. files'[r] = (files[r] /\ ~runDir[r])
      BY <1>0, <2>4 DEF PruneRow, ProcessTypes
    <3>3. \A q \in Run : q # r => files'[q] = files[q] /\ pruned'[q] = pruned[q]
      BY <1>0, <2>4 DEF PruneRow, ProcessTypes, RowTypes
    <3> QED
      BY <1>0, <3>1, <3>2, <3>3, RemovalsKeepSight
  <2>5. CASE PruneOrphan(r)
    BY <1>0, <2>5 DEF PruneOrphan, NoLeakedDirectory, Row, ProcessTypes, rows
  <2> QED
    BY <1>4, <2>1, <2>2, <2>3, <2>4, <2>5 DEF AsideStep
<1>5. CASE OutboxStep
  BY <1>0, <1>5, OutboxFrame DEF NoLeakedDirectory, Row, rows
<1>6. CASE Dying
  <2>1. UNCHANGED <<status, pruned, runDir>>
    BY <1>6, DyingFrame
  <2>2. \A q \in Run : files'[q] => files[q]
    BY <1>0, <1>6 DEF Dying, Crash, Fault, CrashRemoving, CrashAcknowledging, CrashPruning, HalfRemoved, ProcessTypes
  <2> QED
    BY <1>0, <2>1, <2>2 DEF NoLeakedDirectory, Row
<1>7. CASE Restart
  BY <1>0, <1>7 DEF Restart, NoLeakedDirectory, Row, rows
<1> QED
  BY <1>1, <1>2, <1>3, <1>4, <1>5, <1>6, <1>7, NextCases

-----------------------------------------------------------------------------
\* The invariant

LEMMA TypesKept ==
  ASSUME RetentionInv, RetentionNext
  PROVE  RetentionTypeOK'
<1>0. EventTypes /\ SyncTypes /\ RowTypes /\ ThreadTypes /\ ProcessTypes /\ JobInv /\ EffectiveType
  BY TypeGroups DEF RetentionInv, EffectiveType, RowTypes
<1>1. EventTypes'
  BY NextEvents
<1>2. SUFFICES SyncTypes' /\ RowTypes' /\ ThreadTypes' /\ ProcessTypes'
  BY <1>1, TypeGroupsNext
<1>3. CASE \E r \in Run : RunStep(r)
  BY <1>0, <1>3, RunFrame, RunRowTypes, RunThreadTypes, RunProcessTypes, UnchangedTypes
<1>4. CASE \E r \in Run : JobStep(r)
  <2>1. PICK r \in Run : JobStep(r)
    BY <1>4
  <2>2. superseded' \subseteq Run
    BY <1>0, <2>1 DEF JobStep, Claim, ReportProgress, WaitEnds, HandoffStale, JobSuppresses, SuppressEnds, SendFinal,
                      JobMarks, JobEnforces, JobRaises, Rest, SyncTypes
  <2>3. UNCHANGED <<phase, exchange, confirmed, connected>>
    BY <2>1, JobFrame
  <2>4. SyncTypes'
    BY <1>0, <2>2, <2>3 DEF SyncTypes, exchange
  <2> QED
    BY <1>0, <2>1, <2>4, JobRowTypes, JobThreadTypes, JobProcessTypes
<1>5. CASE \E s \in Sweeper : SweepStep(s)
  BY <1>0, <1>5, SweepFrame, SweepSyncTypes, SweepRowTypes, SweepProcessTypes, UnchangedTypes
<1>6. CASE \E r \in Run : AsideStep(r)
  BY <1>0, <1>6, AsideFrame, AsideTypes, UnchangedTypes
<1>7. CASE OutboxStep
  BY <1>0, <1>7, OutboxTypes, OutboxFrame, UnchangedTypes
<1>8. CASE Dying
  BY <1>0, <1>8, DyingTypes
<1>9. CASE Restart
  BY <1>0, <1>9, RestartTypes
<1> QED
  BY <1>3, <1>4, <1>5, <1>6, <1>7, <1>8, <1>9, NextCases

LEMMA InvInitially == RetentionInit => RetentionInv
<1> SUFFICES ASSUME RetentionInit
             PROVE  RetentionInv
  OBVIOUS
<1>1. RetentionTypeOK
  BY RetentionAssumption DEF RetentionInit, OutboxInit, RetentionTypeOK, OutboxTypeOK, RunnerAt, JobAt, Keeps
<1>2. RunnerInv /\ JobInv /\ QueuedInv /\ ExchangeInv /\ NoLeakedDirectory
  BY DEF RetentionInit, OutboxInit, RunnerInv, JobInv, QueuedInv, ExchangeInv, NoLeakedDirectory, Exchanging, Final,
         Sweeper
<1> QED
  BY <1>1, <1>2 DEF RetentionInv

LEMMA InvKept == RetentionInv /\ [RetentionNext]_retentionVars => RetentionInv'
<1> SUFFICES ASSUME RetentionInv, [RetentionNext]_retentionVars
             PROVE  RetentionInv'
  OBVIOUS
<1>1. CASE RetentionNext
  BY <1>1, TypesKept, RunnerKept, JobKept, QueuedKept, ExchangeKept, SightKept DEF RetentionInv
<1>2. CASE UNCHANGED retentionVars
  <2> USE <1>2 DEF retentionVars, outbox, events, exchange, rows, threads, sweeps, RetentionInv
  <2>1. RetentionTypeOK'
    BY DEF RetentionTypeOK, OutboxTypeOK
  <2>2. RunnerInv' /\ JobInv'
    BY DEF RunnerInv, JobInv
  <2>3. QueuedInv' /\ ExchangeInv'
    BY DEF QueuedInv, HasFinal, ExchangeInv
  <2>4. NoLeakedDirectory'
    BY DEF NoLeakedDirectory, Row
  <2> QED
    BY <2>1, <2>2, <2>3, <2>4
<1> QED
  BY <1>1, <1>2

LEMMA InvHolds == RetentionSpec => []RetentionInv
BY InvInitially, InvKept, PTL DEF RetentionSpec

\* The rows of runs and events, and the threads, are of their types.
THEOREM RetentionTypeCorrect == RetentionSpec => []RetentionTypeOK
<1>1. RetentionInv => RetentionTypeOK
  BY DEF RetentionInv
<1> QED
  BY <1>1, InvHolds, PTL

\* A row that is marked for a report has it in the queue: the run's thread, its job
\* and the sweeps mark only after they have queued or seen one (server.py:8003).
THEOREM MarksHaveReports == RetentionSpec => []ReportIsDurable
<1>1. RetentionInv => ReportIsDurable
  BY DEF RetentionInv, QueuedInv, HasFinal, ReportIsDurable
<1> QED
  BY <1>1, InvHolds, PTL

\* No crash, failing rmtree or pruning leaves files that no row names (run.py:940).
THEOREM NothingLeaks == RetentionSpec => []NoLeakedDirectory
<1>1. RetentionInv => NoLeakedDirectory
  BY DEF RetentionInv
<1> QED
  BY <1>1, InvHolds, PTL

-----------------------------------------------------------------------------
\* What is removed

Earned(r) ==
  /\ files[r] /\ ~files'[r] =>
       \/ status[r] = "none"
       \/ status[r] \in Final /\ ~Unsent(r)
  /\ runDir[r] /\ ~runDir'[r] =>
       /\ Decision(r) = "remove"
       /\ acked'[r] \/ lease[r] = "expired"
       /\ required[r] => Reported(r)

LEMMA DueIsEarned ==
  ASSUME RetentionInv, NEW r \in Run, Due(r)
  PROVE  /\ status[r] \in Final /\ ~Unsent(r) /\ Decision(r) = "remove"
         /\ required[r] => Reported(r)
<1>1. ~Unsent(r) /\ Decision(r) = "remove" /\ queued[r]
  BY DEF Due
<1>2. status[r] \in Final
  <2>1. effective[r] # "none" => status[r] \in Final
    BY DEF RetentionInv, JobInv
  <2>2. DecisionStatus(r) \in Final
    BY <1>1 DEF Decision, Disposition
  <2> QED
    BY <2>1, <2>2 DEF DecisionStatus
<1>3. ASSUME required[r]
      PROVE  Reported(r)
  <2>1. PICK e \in Event : state[e] # "none" /\ about[e] = r /\ proof[e] \in Final
    BY <1>1, <1>3 DEF RetentionInv, QueuedInv, HasFinal
  <2>2. CASE state[e] = "gone"
    BY <2>1, <2>2 DEF Reported
  <2>3. CASE state[e] # "gone"
    <3>1. e \in EventsOf(r)
      BY <2>1, <2>3 DEF EventsOf, Queued, Final
    <3>2. state[e] = "sent"
      BY <1>1, <3>1 DEF Unsent
    <3>3. e \in confirmed
      BY <3>2 DEF RetentionInv, ExchangeInv
    <3> QED
      BY <2>1, <3>2, <3>3 DEF Reported
  <2> QED
    BY <2>2, <2>3
<1> QED
  BY <1>1, <1>2, <1>3

LEMMA EnforceIsEarned ==
  ASSUME RetentionInv, NEW r \in Run, Enforce(r) \/ EnforceFails(r), NEW q \in Run
  PROVE  Earned(q)
<1>0. RowTypes /\ ProcessTypes
  BY TypeGroups DEF RetentionInv
<1>1. CASE UNCHANGED <<rows, files>>
  BY <1>1 DEF Earned, rows
<1>2. CASE Removable(r) /\ Remove(r) /\ UNCHANGED acked
  <2>1. q # r => files'[q] = files[q] /\ runDir'[q] = runDir[q]
    BY <1>0, <1>2 DEF Remove, RowTypes, ProcessTypes
  <2>2. acked'[r] \/ lease[r] = "expired"
    BY <1>2 DEF Removable
  <2> QED
    BY <1>2, <2>1, <2>2, DueIsEarned DEF Removable, Earned
<1>3. CASE EnforceFails(r)
  <2>1. UNCHANGED runDir /\ Due(r)
    BY <1>3 DEF EnforceFails, Removable, rows
  <2>2. q # r => files'[q] = files[q]
    BY <1>0, <1>3 DEF EnforceFails, RmtreeFails, ProcessTypes
  <2> QED
    BY <2>1, <2>2, DueIsEarned DEF Earned
<1> QED
  BY <1>1, <1>2, <1>3 DEF Enforce

LEMMA KeptIsEarned ==
  ASSUME NEW q \in Run, files[q] => files'[q], UNCHANGED runDir
  PROVE  Earned(q)
BY DEF Earned

LEMMA NextIsEarned ==
  ASSUME RetentionInv, RetentionNext, NEW q \in Run
  PROVE  Earned(q)
<1>0. RowTypes /\ ThreadTypes /\ ProcessTypes
  BY TypeGroups DEF RetentionInv
<1>1. ASSUME NEW r \in Run, RunStep(r)
      PROVE  Earned(q)
  <2>1. CASE StageRun(r)
    BY <1>0, <2>1 DEF StageRun, ProcessTypes, Earned
  <2>2. CASE InsertRow(r)
    BY <1>0, <2>2 DEF InsertRow, RowTypes, Earned
  <2>3. CASE InsertFails(r)
    <3>1. status[r] = "none"
      BY <2>3 DEF InsertFails, RetentionInv, RunnerInv
    <3>2. UNCHANGED runDir /\ (q # r => files'[q] = files[q])
      BY <1>0, <2>3 DEF InsertFails, ProcessTypes, rows
    <3> QED
      BY <3>1, <3>2 DEF Earned
  <2>4. CASE RunEnforces(r)
    BY <2>4, EnforceIsEarned DEF RunEnforces
  <2>5. CASE ~(StageRun(r) \/ InsertRow(r) \/ InsertFails(r) \/ RunEnforces(r))
    <3>1. UNCHANGED <<files, runDir>>
      BY <1>1, <2>5 DEF RunStep, Advance, Commit, RewriteManifest, Report, Decide, RunMarks, MarkRow, NextEffective, Require, RunLosesRow,
                        rows
    <3> QED
      BY <3>1 DEF Earned
  <2> QED
    BY <2>1, <2>2, <2>3, <2>4, <2>5
<1>2. ASSUME NEW r \in Run, JobStep(r)
      PROVE  Earned(q)
  <2>1. CASE Enforce(r) \/ EnforceFails(r)
    BY <2>1, EnforceIsEarned
  <2>2. CASE ~(Enforce(r) \/ EnforceFails(r))
    <3>1. UNCHANGED <<files, runDir>>
      BY <1>2, <2>2 DEF JobStep, Claim, ReportProgress, WaitEnds, HandoffStale, JobSuppresses, SuppressEnds,
                        SendFinal, JobMarks, MarkRow, NextEffective, JobEnforces, JobRaises, rows
    <3> QED
      BY <3>1 DEF Earned
  <2> QED
    BY <2>1, <2>2
<1>3. ASSUME NEW s \in Sweeper, SweepStep(s)
      PROVE  Earned(q)
  <2>1. CASE SweepEnforce(s)
    <3>1. at[s] \in Run
      BY <1>0 DEF ProcessTypes
    <3> QED
      BY <2>1, <3>1, EnforceIsEarned DEF SweepEnforce
  <2>2. CASE ~SweepEnforce(s)
    <3>1. UNCHANGED <<files, runDir>>
      BY <1>3, <2>2 DEF SweepStep, SweepStart, SweepNext, SweepLook, SweepRequeue, SweepRecheck, SweepMark, MarkRow, NextEffective,
                        SweepLosesRow, SweepDone, rows
    <3> QED
      BY <3>1 DEF Earned
  <2> QED
    BY <2>1, <2>2
<1>4. ASSUME NEW r \in Run, AsideStep(r)
      PROVE  Earned(q)
  <2>1. CASE SchedulerEnforces(r)
    <3>1. CASE Enforce(r) \/ EnforceFails(r)
      BY <3>1, EnforceIsEarned
    <3>2. CASE UNCHANGED <<rows, files>>
      BY <3>2 DEF Earned, rows
    <3> QED
      BY <2>1, <3>1, <3>2 DEF SchedulerEnforces
  <2>2. CASE Renew(r) \/ LeaseExpires(r)
    BY <2>2 DEF Renew, LeaseExpires, Earned
  <2>3. CASE Acknowledge(r)
    <3>1. CASE Due(r)
      <4>1. acked'[r]
        BY <1>0, <2>3 DEF Acknowledge, RowTypes
      <4>2. q # r => files'[q] = files[q] /\ runDir'[q] = runDir[q]
        BY <1>0, <2>3 DEF Acknowledge, Remove, RmtreeFails, RowTypes, ProcessTypes
      <4> QED
        BY <3>1, <4>1, <4>2, DueIsEarned DEF Earned
    <3>2. CASE ~Due(r)
      BY <2>3, <3>2 DEF Acknowledge, Earned
    <3> QED
      BY <3>1, <3>2
  <2>4. CASE PruneRow(r)
    <3>1. UNCHANGED runDir /\ status[r] \in Final /\ ~Unsent(r) /\ (q # r => files'[q] = files[q])
      BY <1>0, <2>4 DEF PruneRow, ProcessTypes
    <3> QED
      BY <3>1 DEF Earned
  <2>5. CASE PruneOrphan(r)
    <3>1. status[r] = "none"
      BY <2>5 DEF PruneOrphan, RetentionInv, NoLeakedDirectory
    <3>2. UNCHANGED runDir /\ (q # r => files'[q] = files[q])
      BY <1>0, <2>5 DEF PruneOrphan, ProcessTypes, rows
    <3> QED
      BY <3>1, <3>2 DEF Earned
  <2> QED
    BY <1>4, <2>1, <2>2, <2>3, <2>4, <2>5 DEF AsideStep
<1>5. CASE OutboxStep
  BY <1>5, OutboxFrame DEF Earned, rows
<1>6. CASE Dying
  <2>1. UNCHANGED runDir
    BY <1>6, DyingFrame
  <2>2. CASE Crash
    BY <2>1, <2>2 DEF Crash, Earned
  <2>3. ASSUME NEW r \in Run, Fault(r)
        PROVE  Earned(q)
    <3>1. status[r] \in Final /\ ~Unsent(r)
      BY <2>3, DueIsEarned DEF Fault, CrashRemoving, Removable, CrashAcknowledging, CrashPruning
    <3>2. q # r => files'[q] = files[q]
      BY <1>0, <2>3 DEF Fault, CrashRemoving, CrashAcknowledging, CrashPruning, HalfRemoved, ProcessTypes
    <3> QED
      BY <2>1, <3>1, <3>2 DEF Earned
  <2> QED
    BY <1>6, <2>2, <2>3 DEF Dying
<1>7. CASE Restart
  BY <1>7 DEF Restart, Earned, rows
<1> QED
  BY <1>1, <1>2, <1>3, <1>4, <1>5, <1>6, <1>7, NextCases

\* Files go only after the run has ended with nothing unsent; retention takes them
\* when the policy says so, the client has them or its lease is over, and the server
\* has the outcome, which is what _enforce_run_retention_locked checks and what the
\* reports in the queue make it mean.
THEOREM RemovalsAreEarned == RetentionSpec => RemovalIsEarned
<1>1. RetentionInv /\ [RetentionNext]_retentionVars => [\A r \in Run : Earned(r)]_retentionVars
  BY NextIsEarned
<1>2. RetentionSpec => [][\A r \in Run : Earned(r)]_retentionVars
  BY <1>1, InvHolds, PTL DEF RetentionSpec
<1> QED
  BY <1>2 DEF RemovalIsEarned, Earned

-----------------------------------------------------------------------------
\* What is kept

Retained(r) == Row(r) /\ Decision(r) = "retain"

\* A mark of a row that is kept for its failure leaves it so: who marks without
\* an outcome keeps the recorded one, and who marks a success has none recorded.
LEMMA MarkRetains ==
  ASSUME RowTypes, NEW r \in Run, NEW sync, NEW eff \in {"none", "failed", "succeeded"},
         NEW q \in Run, Retained(q), MarkRow(r, sync, eff),
         eff = "succeeded" => effective[r] = "none" /\ status[r] = "succeeded"
  PROVE  Decision(q)' = "retain"
<1>1. UNCHANGED <<status, keep>> /\ (q # r => effective'[q] = effective[q])
      /\ effective'[r] = NextEffective(r, eff)
  BY DEF MarkRow, RowTypes
<1>2. CASE q # r
  BY <1>1, <1>2 DEF Retained, Decision, DecisionStatus
<1>3. CASE q = r /\ eff = "none"
  BY <1>1, <1>3 DEF NextEffective, Retained, Decision, DecisionStatus
<1>4. CASE q = r /\ eff = "succeeded"
  BY <1>1, <1>4 DEF NextEffective, Retained, Decision, DecisionStatus
<1>5. CASE q = r /\ eff = "failed"
  <2>1. DecisionStatus(q)' = "failed"
    BY <1>1, <1>5 DEF NextEffective, DecisionStatus
  <2>2. keep[q] \in {"always", "on_failure"}
    BY DEF Retained, Decision, Disposition, RowTypes, Keeps
  <2> QED
    BY <1>1, <2>1, <2>2 DEF Decision, Disposition, Final
<1> QED
  BY <1>2, <1>3, <1>4, <1>5

LEMMA RetainedStep ==
  ASSUME RetentionInv, RetentionNext, NEW q \in Run, Retained(q)
  PROVE  Decision(q)' = "retain"
<1>0. RowTypes /\ ThreadTypes /\ ProcessTypes /\ EffectiveType /\ StatusStays
  BY TypeGroups, StatusKept DEF RetentionInv, EffectiveType, RowTypes
<1>1. status[q] \in Final
  BY DEF Retained, Decision, Disposition, DecisionStatus, RetentionInv, JobInv
<1>2. ASSUME UNCHANGED effective, keep'[q] = keep[q]
      PROVE  Decision(q)' = "retain"
  BY <1>0, <1>1, <1>2 DEF StatusStays, Retained, Decision, DecisionStatus
<1>3. ASSUME NEW r \in Run, RunStep(r)
      PROVE  Decision(q)' = "retain"
  <2>1. UNCHANGED effective
    BY <1>0, <1>3, RunFrame
  <2>2. keep'[q] = keep[q]
    <3>1. CASE StageRun(r)
      <4>1. q # r
        BY <1>1, <3>1 DEF StageRun, RetentionInv, RunnerInv, Final
      <4> QED
        BY <1>0, <3>1, <4>1 DEF StageRun, RowTypes
    <3>2. CASE ~StageRun(r)
      BY <1>3, <3>2 DEF RunStep, InsertRow, InsertFails, Advance, Commit, RewriteManifest, Report, Decide,
                        RunMarks, MarkRow, Require, RunEnforces, Enforce, EnforceFails, Remove, RunLosesRow, rows
    <3> QED
      BY <3>1, <3>2
  <2> QED
    BY <1>2, <2>1, <2>2
<1>4. ASSUME NEW r \in Run, JobStep(r)
      PROVE  Decision(q)' = "retain"
  <2>1. CASE JobMarks(r)
    <3>1. job[r] = "mark_succeeded" => effective[r] = "none" /\ status[r] = "succeeded"
      BY DEF RetentionInv, JobInv
    <3> QED
      BY <1>0, <2>1, <3>1, MarkRetains DEF JobMarks
  <2>2. CASE ~JobMarks(r)
    <3>1. UNCHANGED effective
      BY <1>4, <2>2 DEF JobStep, Claim, ReportProgress, WaitEnds, HandoffStale, JobSuppresses, SuppressEnds,
                        SendFinal, JobEnforces, Enforce, Remove, JobRaises, EnforceFails, rows
    <3> QED
      BY <1>2, <1>4, <3>1, JobFrame
  <2> QED
    BY <2>1, <2>2
<1>5. CASE \E r \in Run : AsideStep(r)
  BY <1>2, <1>5, AsideFrame
<1>6. CASE \E s \in Sweeper : SweepStep(s)
  BY <1>0, <1>2, <1>6, SweepFrame
<1>7. CASE OutboxStep
  BY <1>2, <1>7, OutboxFrame DEF rows
<1>8. CASE Dying
  BY <1>2, <1>8, DyingFrame
<1>9. CASE Restart
  BY <1>2, <1>9 DEF Restart, rows
<1> QED
  BY <1>3, <1>4, <1>5, <1>6, <1>7, <1>8, <1>9, NextCases

\* What has been decided to be kept is kept: a recorded failure survives every later
\* mark ("preserves any previously recorded override", run.py:755), a job that marks
\* a success has recorded no failure, and only a decision to remove clears run_dir.
THEOREM KeepingStands == RetentionSpec => RetainedForGood
<1>1. RetentionInv /\ [RetentionNext]_retentionVars
        => [\A r \in Run : Row(r) /\ Decision(r) = "retain" =>
              /\ Decision(r)' = "retain"
              /\ runDir[r] => runDir'[r]]_retentionVars
  <2> SUFFICES ASSUME RetentionInv, RetentionNext, NEW r \in Run, Retained(r)
               PROVE  Decision(r)' = "retain" /\ (runDir[r] => runDir'[r])
    BY DEF Retained
  <2>1. runDir'[r] \in BOOLEAN
    BY TypesKept DEF RetentionTypeOK
  <2> QED
    BY <2>1, RetainedStep, NextIsEarned DEF Earned, Retained
<1> QED
  BY <1>1, InvHolds, PTL DEF RetentionSpec, RetainedForGood
=============================================================================
