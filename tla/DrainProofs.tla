----------------------------- MODULE DrainProofs ----------------------------
(***************************************************************************)
(* The other half of the lease accounting.  DaemonProofs.tla shows that     *)
(* every thread with work in hand has its lease; this module shows that      *)
(* every lease has a thread that will still complete it, and every open      *)
(* lineage one that will seal it, so that an undecided drain is waited for   *)
(* (the safety core of DrainDecides).  Then come the conditions under which  *)
(* the sentences of the code that the findings refute do hold.               *)
(***************************************************************************)
EXTENDS DaemonProofs

(* Leases have holders: the converse of Held. *)

InCall == {"exchange", "accept", "start", "give_up", "prove", "fail", "close"}

\* The lineage a lease is a record of.
LineageFor(x) == IF x[1] \in {"run", "commit"} THEN LineageOf(x[2]) ELSE x

\* One record for each lease, in the lineage of the thread that holds it.
Book ==
  /\ \A rec \in works : rec.id \in LeaseIds /\ rec.lineage = LineageFor(rec.id)
  /\ \A a, b \in works : a.id = b.id => a = b
  /\ openLineages \subseteq LeaseIds

\* A job given up on keeps its claim until the caller's finally clause.
ClaimHeld(j) ==
  \/ job[j] \in JobHolds \cup {"unproven"}
  \/ job[j] = "unretained" /\ \E s \in Caller : sync[s].at = "give_up" /\ j \in inbox[s]

Born(x) == Live(x) \/ x \in openLineages

SyncBook(s)  == Born(SyncLease(s)) => sync[s].at \in InCall
ClaimBook(j) == Born(ClaimLease(j)) => ClaimHeld(j)
MutationBook(m) == Born(MutationLease(m)) => mutation[m] = "admitted"

\* A user's run is the root of its lineage, a job's run lives in its claim's.
RunBook(r) ==
  /\ Live(RunLease(r)) => run[r].at \notin RunAtRest
  /\ Live(CommitLease(r)) => run[r].at \in {"committing", "committed"}
  /\ CommitLease(r) \notin openLineages
  /\ RunLease(r) \in openLineages <=> r \in UserRun /\ run[r].at \notin RunAtRest

Holders ==
  /\ \A s \in Caller : SyncBook(s)
  /\ \A j \in Job : ClaimBook(j)
  /\ \A r \in Run : RunBook(r)
  /\ \A m \in Mutation : MutationBook(m)

\* A job is in one caller's hands, and a caller works on one job at a time.
InboxBook ==
  /\ \A s, c \in Caller : s # c => inbox[s] \cap inbox[c] = {}
  /\ \A s \in Caller : \A j \in inbox[s] : job[j] \in {"received", "admitted", "unretained"}
  /\ \A s \in Caller : sync[s].at = "accept" => \A j \in inbox[s] : job[j] = "received"
  /\ \A s \in Caller : \A i, j \in inbox[s] : i # j => job[i] = "received" \/ job[j] = "received"

\* The coordinator of the drain that stands has still to mark its boundary, or
\* has not started.
PendingAt ==
  {"requested", "unstarted", "credentials", "absent", "erring", "ready", "exchange", "prove",
  "fail"}

CoordinatorBook ==
  /\ \A d \in DrainId : sync[d].at # "idle" => d <= revision
  /\ \A d \in DrainId : drain = d => ~Polling(d)
  /\ boundary = "pending" => drain \in DrainId /\ sync[drain].at \in PendingAt

BookInv == Book /\ Holders /\ InboxBook /\ CoordinatorBook

LEMMA LeaseFacts ==
  /\ \A s \in Caller : SyncLease(s) \in LeaseIds /\ LineageFor(SyncLease(s)) = SyncLease(s)
  /\ \A j \in Job : ClaimLease(j) \in LeaseIds /\ LineageFor(ClaimLease(j)) = ClaimLease(j)
  /\ \A m \in Mutation : /\ MutationLease(m) \in LeaseIds
                         /\ LineageFor(MutationLease(m)) = MutationLease(m)
  /\ \A r \in Run : /\ RunLease(r) \in LeaseIds /\ CommitLease(r) \in LeaseIds
                    /\ LineageFor(RunLease(r)) = LineageOf(r)
                    /\ LineageFor(CommitLease(r)) = LineageOf(r)
                    /\ LineageOf(r) \in LeaseIds
  /\ \A r \in UserRun : r \in Run /\ LineageOf(r) = RunLease(r)
  /\ \A j \in Job : j \in Run /\ LineageOf(j) = ClaimLease(j) /\ j \notin UserRun
<1>1. \A r \in UserRun : r \in Run /\ LineageOf(r) = RunLease(r)
  BY NamesDiffer DEF Run, LineageOf
<1>2. \A j \in Job : j \in Run /\ LineageOf(j) = ClaimLease(j) /\ j \notin UserRun
  BY NamesDiffer DEF Run, LineageOf
<1>3. \A r \in Run : /\ RunLease(r) \in LeaseIds /\ CommitLease(r) \in LeaseIds
                    /\ LineageFor(RunLease(r)) = LineageOf(r)
                    /\ LineageFor(CommitLease(r)) = LineageOf(r)
                    /\ LineageOf(r) \in LeaseIds
  BY DEF LeaseIds, LineageFor, LineageOf, RunLease, CommitLease, Run
<1> QED
  BY <1>1, <1>2, <1>3 DEF LeaseIds, LineageFor, SyncLease, ClaimLease, MutationLease

\* What a controller method adds to the table, and to the book.
LEMMA ReserveBook ==
  ASSUME Book, NEW w \in LeaseIds, NEW k, NEW phase, NEW l \in LeaseIds, l = LineageFor(w),
         Reserve(w, k, l, phase)
  PROVE  /\ Book'
         /\ \A x : Live(x)' => Live(x) \/ x = w
         /\ openLineages' = openLineages \cup {l}
         /\ \A x : IsPoll(x)' => IsPoll(x) \/ (x = w /\ k = "sync_poll")
<1> DEFINE new == [id |-> w, kind |-> k, lineage |-> l, phase |-> phase]
<1>1. works' = works \cup {new} /\ openLineages' = openLineages \cup {l}
      /\ \A a \in works : a.id # w
  BY DEF Reserve, Live
<1>2. new.id = w /\ new.kind = k /\ new.lineage = l
  OBVIOUS
<1> HIDE DEF new
<1>3. /\ \A x : Live(x)' => Live(x) \/ x = w
      /\ \A x : IsPoll(x)' => IsPoll(x) \/ (x = w /\ k = "sync_poll")
  BY <1>1, <1>2 DEF Live, IsPoll
<1>4. \A a, b \in works' : a.id = b.id => a = b
  BY <1>1, <1>2 DEF Book
<1>5. \A rec \in works' : rec.id \in LeaseIds /\ rec.lineage = LineageFor(rec.id)
  BY <1>1, <1>2 DEF Book
<1>6. LeaseIds' = LeaseIds /\ \A x : LineageFor(x)' = LineageFor(x)
  BY DEF LeaseIds, LineageFor
<1>7. Book'
  BY <1>1, <1>4, <1>5, <1>6 DEF Book
<1> QED
  BY <1>1, <1>3, <1>7

LEMMA ActivateBook ==
  ASSUME Book, TypeOK, NEW w, Activate(w)
  PROVE  /\ Book' /\ UNCHANGED openLineages
         /\ \A x : Live(x)' => Live(x)
         /\ \A x : IsPoll(x)' => IsPoll(x)
<1>1. PICK r \in works : works' = (works \ {r}) \cup {[r EXCEPT !.phase = "active"]}
  BY DEF Activate
<1>2. r \in WorkRecord
  BY DEF TypeOK
<1> DEFINE new == [r EXCEPT !.phase = "active"]
<1>3. new.id = r.id /\ new.kind = r.kind /\ new.lineage = r.lineage
  BY <1>2 DEF WorkRecord
<1>4. works' = (works \ {r}) \cup {new} /\ UNCHANGED openLineages
  BY <1>1 DEF Activate
<1> HIDE DEF new
<1>5. \A a, b \in works' : a.id = b.id => a = b
  BY <1>3, <1>4 DEF Book
<1>6. \A rec \in works' : rec.id \in LeaseIds /\ rec.lineage = LineageFor(rec.id)
  BY <1>3, <1>4 DEF Book
<1> QED
  BY <1>3, <1>4, <1>5, <1>6 DEF Live, IsPoll, Book

LEMMA CompleteBook ==
  ASSUME Book, NEW w, NEW seal \in BOOLEAN, Complete(w, seal)
  PROVE  /\ Book'
         /\ \A x : Live(x)' => Live(x) /\ x # w
         /\ openLineages' = IF seal THEN openLineages \ {LineageFor(w)} ELSE openLineages
         /\ \A x : IsPoll(x)' => IsPoll(x)
<1>1. PICK r \in works : r.id = w /\ works' = works \ {r} /\ SealAndDrop(r.lineage, seal)
  BY DEF Complete
<1>2. openLineages' = IF seal THEN openLineages \ {LineageFor(w)} ELSE openLineages
  BY <1>1 DEF SealAndDrop, Book
<1>3. \A x : Live(x)' => Live(x) /\ x # w
  BY <1>1 DEF Live, Book
<1>4. \A x : IsPoll(x)' => IsPoll(x)
  BY <1>1 DEF IsPoll
<1>5. Book'
  BY <1>1, <1>2 DEF Book
<1> QED
  BY <1>2, <1>3, <1>4, <1>5

-----------------------------------------------------------------------------
(* What a step leaves alone in the book. *)

Unborn(x) == (Live(x)' => Live(x)) /\ (x \in openLineages' => x \in openLineages)
Same(x)   == Unborn(x) /\ (x \in openLineages => x \in openLineages')

LEMMA ControlSame ==
  ASSUME UNCHANGED <<works, openLineages>>
  PROVE  \A x : Same(x)
  BY DEF Same, Unborn, Live

LEMMA RunBookKeeps ==
  ASSUME NEW r \in Run, RunBook(r), run'[r] = run[r], Same(RunLease(r)), Same(CommitLease(r))
  PROVE  RunBook(r)'
  BY DEF RunBook, Same, Unborn

LEMMA SyncBooksKeep ==
  ASSUME Holders, UNCHANGED sync, \A s \in Caller : Same(SyncLease(s))
  PROVE  \A s \in Caller : SyncBook(s)'
  BY DEF Holders, SyncBook, Born, Same, Unborn

LEMMA MutationBooksKeep ==
  ASSUME Holders, UNCHANGED mutation, \A m \in Mutation : Same(MutationLease(m))
  PROVE  \A m \in Mutation : MutationBook(m)'
  BY DEF Holders, MutationBook, Born, Same, Unborn

LEMMA ClaimBookKeeps ==
  ASSUME Holders, NEW j \in Job, Same(ClaimLease(j)), job'[j] = job[j],
         \A s \in Caller : sync[s].at = "give_up" /\ j \in inbox[s] =>
                              sync'[s].at = "give_up" /\ j \in inbox'[s]
  PROVE  ClaimBook(j)'
  BY DEF Holders, ClaimBook, ClaimHeld, Born, Same, Unborn

\* A run's step moves the leases of that run only.
LEMMA RunAlone ==
  ASSUME Holders, NEW r \in Run, UNCHANGED <<mutation, sync, inbox, job>>,
         \A q \in Run : q # r => run'[q] = run[q],
         \A x : x \notin {RunLease(r), CommitLease(r)} => Same(x),
         RunBook(r)'
  PROVE  Holders'
<1>1. \A s \in Caller : SyncBook(s)'
  BY SyncBooksKeep, LeasesDiffer
<1>2. \A m \in Mutation : MutationBook(m)'
  BY MutationBooksKeep, LeasesDiffer
<1>3. \A j \in Job : ClaimBook(j)'
  BY ClaimBookKeeps, LeasesDiffer
<1>4. ASSUME NEW q \in Run, q # r
      PROVE  RunBook(q)'
  <2>1. {RunLease(q), CommitLease(q)} \cap {RunLease(r), CommitLease(r)} = {}
    BY <1>4 DEF RunLease, CommitLease
  <2> QED
    BY <1>4, <2>1, RunBookKeeps DEF Holders
<1> QED
  BY <1>1, <1>2, <1>3, <1>4 DEF Holders

\* A job's step moves its claim and the lease of its run only.
LEMMA JobAlone ==
  ASSUME Holders, NEW j \in Job, UNCHANGED <<mutation, sync, inbox>>,
         \A i \in Job : i # j => job'[i] = job[i],
         \A q \in Run : q # j => run'[q] = run[q],
         \A x : x \notin {ClaimLease(j), RunLease(j)} => Same(x),
         ClaimBook(j)', RunBook(j)'
  PROVE  Holders'
<1>1. \A s \in Caller : SyncBook(s)'
  BY SyncBooksKeep, LeasesDiffer
<1>2. \A m \in Mutation : MutationBook(m)'
  BY MutationBooksKeep, LeasesDiffer
<1>3. ASSUME NEW i \in Job, i # j
      PROVE  ClaimBook(i)'
  <2>1. ClaimLease(i) \notin {ClaimLease(j), RunLease(j)}
    BY <1>3, LeasesDiffer
  <2> QED
    BY <1>3, <2>1, ClaimBookKeeps
<1>4. ASSUME NEW q \in Run, q # j
      PROVE  RunBook(q)'
  <2>1. {RunLease(q), CommitLease(q)} \cap {ClaimLease(j), RunLease(j)} = {}
    BY <1>4 DEF RunLease, CommitLease, ClaimLease
  <2> QED
    BY <1>4, <2>1, RunBookKeeps DEF Holders
<1> QED
  BY <1>1, <1>2, <1>3, <1>4 DEF Holders

\* A caller's step that neither takes nor gives up a job.
LEMMA CallerAlone ==
  ASSUME Holders, NEW s \in Caller, UNCHANGED <<mutation, inbox, job, run>>,
         \A c \in Caller : c # s => sync'[c] = sync[c],
         sync[s].at # "give_up",
         \A x : x # SyncLease(s) => Same(x),
         SyncBook(s)'
  PROVE  Holders'
<1>1. ASSUME NEW c \in Caller, c # s
      PROVE  SyncBook(c)'
  <2>1. SyncLease(c) # SyncLease(s)
    BY <1>1, LeasesDiffer
  <2> QED
    BY <1>1, <2>1 DEF Holders, SyncBook, Born, Same, Unborn
<1>2. \A m \in Mutation : MutationBook(m)'
  BY MutationBooksKeep, LeasesDiffer
<1>3. \A j \in Job : ClaimBook(j)'
  BY ClaimBookKeeps, LeasesDiffer
<1>4. \A q \in Run : RunBook(q)'
  BY RunBookKeeps, LeasesDiffer DEF Holders
<1> QED
  BY <1>1, <1>2, <1>3, <1>4 DEF Holders

-----------------------------------------------------------------------------
(* Runs and jobs keep the book. *)

LEMMA RunStepBook ==
  ASSUME Book, Holders, DaemonTypeOK, NEW r \in Run,
         RunStep(r) \/ (r \in UserRun /\ StartUserRun(r))
  PROVE  Book' /\ Holders'
<1> USE DEF Same, Unborn
<1>1. UNCHANGED <<mutation, sync, inbox, job>>
  BY DEF RunStep, StartUserRun, CreateRunFails, CreateRun, PrepareRunFails, StartingWriteFails,
         StartRunThread, RunThreadFails, WorkerEnds, WorkerBreaks, BeginCommit, CommitRefused,
         CommitRow, CommitSkipped,
         CommitRaises, EndCommit, RunEscapes, ReleaseRun
<1>2. RunBook(r) /\ RunLease(r) # CommitLease(r)
  BY LeasesDiffer DEF Holders
<1>3. \A q \in Run : q # r => run'[q] = run[q]
  BY DEF RunStep, StartUserRun, CreateRunFails, CreateRun, PrepareRunFails, StartingWriteFails,
         StartRunThread, RunThreadFails, WorkerEnds, WorkerBreaks, BeginCommit, CommitRefused,
         CommitRow, CommitSkipped,
         CommitRaises, EndCommit, RunEscapes, ReleaseRun, AfterFailedCommit, RunGoto, DaemonTypeOK
<1>4. CASE r \in UserRun /\ StartUserRun(r)
  <2>1. Reserve(RunLease(r), "local_run", RunLease(r), "active")
    BY <1>4 DEF StartUserRun, ReserveRoot
  <2>2. /\ Book' /\ openLineages' = openLineages \cup {RunLease(r)}
        /\ \A x : Live(x)' => Live(x) \/ x = RunLease(r)
    BY <1>4, <2>1, LeaseFacts, ReserveBook
  <2>3. run[r].at = "none" /\ run'[r].at = "leased"
    BY <1>4 DEF StartUserRun, RunGoto, RunIsAt, DaemonTypeOK
  <2>4. RunBook(r)'
    BY <1>2, <1>4, <2>2, <2>3 DEF RunBook, RunAtRest
  <2>5. \A x : x # RunLease(r) => Same(x)
    BY <2>2
  <2> QED
    BY <1>1, <1>3, <2>2, <2>4, <2>5, RunAlone
<1>5. CASE CreateRunFails(r) \/ RunThreadFails(r) \/ ReleaseRun(r)
  <2>1. Complete(RunLease(r), r \in UserRun)
    BY <1>5 DEF CreateRunFails, RunThreadFails, ReleaseRun
  <2>2. /\ Book'
        /\ openLineages' = IF r \in UserRun THEN openLineages \ {LineageFor(RunLease(r))}
                                            ELSE openLineages
        /\ \A x : Live(x)' => Live(x) /\ x # RunLease(r)
    <3>1. (r \in UserRun) \in BOOLEAN
      OBVIOUS
    <3> QED
      BY <2>1, <3>1, CompleteBook
  <2>3. run[r].at \in {"leased", "bound", "release"} /\ run'[r].at \in RunAtRest
    BY <1>5 DEF CreateRunFails, RunThreadFails, ReleaseRun, RunGoto, RunIsAt, DaemonTypeOK,
                RunAtRest
  <2>4. r \in UserRun => LineageFor(RunLease(r)) = RunLease(r)
    BY LeaseFacts
  <2>5. RunBook(r)'
    BY <1>2, <2>2, <2>3, <2>4 DEF RunBook
  <2>6. \A x : x # RunLease(r) => Same(x)
    BY <2>2, <2>4
  <2> QED
    BY <1>1, <1>3, <2>2, <2>5, <2>6, RunAlone
<1>6. CASE CommitRaises(r) \/ EndCommit(r)
  <2>1. Complete(CommitLease(r), FALSE)
    BY <1>6 DEF CommitRaises, EndCommit
  <2>2. /\ Book' /\ openLineages' = openLineages
        /\ \A x : Live(x)' => Live(x) /\ x # CommitLease(r)
    BY <2>1, CompleteBook
  <2>3. run[r].at \notin RunAtRest /\ run'[r].at \notin RunAtRest
    <3>1. run[r].at \in {"committing", "committed"}
      BY <1>6 DEF CommitRaises, EndCommit, RunIsAt
    <3>2. \/ run' = [run EXCEPT ![r].at = "commit", ![r].retried = TRUE]
          \/ run' = [run EXCEPT ![r].at = "escaping"]
          \/ run' = [run EXCEPT ![r].at = "release"]
      BY <1>6 DEF CommitRaises, EndCommit, AfterFailedCommit, RunGoto
    <3> QED
      BY <3>1, <3>2 DEF DaemonTypeOK, RunAtRest
  <2>4. RunBook(r)'
    BY <1>2, <2>2, <2>3 DEF RunBook
  <2>5. \A x : x # CommitLease(r) => Same(x)
    BY <2>2
  <2> QED
    BY <1>1, <1>3, <2>2, <2>4, <2>5, RunAlone
<1>7. CASE BeginCommit(r)
  <2>1. /\ Reserve(CommitLease(r), "terminal_commit", LineageOf(r), "active")
        /\ LineageOf(r) \in openLineages
    BY <1>7 DEF BeginCommit, ReserveDescendant
  <2>2. /\ Book' /\ openLineages' = openLineages
        /\ \A x : Live(x)' => Live(x) \/ x = CommitLease(r)
    BY <2>1, LeaseFacts, ReserveBook
  <2>3. run[r].at = "commit" /\ run'[r].at = "committing"
    BY <1>7 DEF BeginCommit, RunGoto, RunIsAt, DaemonTypeOK
  <2>4. RunBook(r)'
    BY <1>2, <2>2, <2>3 DEF RunBook, RunAtRest
  <2>5. \A x : x # CommitLease(r) => Same(x)
    BY <2>2
  <2> QED
    BY <1>1, <1>3, <2>2, <2>4, <2>5, RunAlone
<1>8. CASE \/ CreateRun(r) \/ PrepareRunFails(r) \/ StartingWriteFails(r) \/ StartRunThread(r)
           \/ WorkerEnds(r) \/ WorkerBreaks(r) \/ CommitRow(r) \/ CommitSkipped(r)
           \/ CommitRefused(r) \/ RunEscapes(r)
  <2>1. UNCHANGED <<works, openLineages>>
    BY <1>8 DEF CreateRun, PrepareRunFails, StartingWriteFails, StartRunThread, WorkerEnds,
                WorkerBreaks, CommitRow, CommitSkipped,
                CommitRefused, RunEscapes, RejectDescendant, RecordUnknownWork, vars, ledger
  <2>2. /\ run[r].at \notin RunAtRest /\ run'[r].at \notin RunAtRest
        /\ run[r].at \in {"committing", "committed"} => run'[r].at \in {"committing", "committed"}
    BY <1>8 DEF CreateRun, PrepareRunFails, StartingWriteFails, StartRunThread, WorkerEnds,
                WorkerBreaks, CommitRow, CommitSkipped,
                CommitRefused, RunEscapes, AfterFailedCommit, RunIsAt, RunGoto, RunAtRest,
                DaemonTypeOK
  <2>3. \A x : Same(x)
    BY <2>1, ControlSame
  <2>4. RunBook(r)'
    BY <1>2, <2>2, <2>3 DEF RunBook
  <2>5. Book'
    BY <2>1 DEF Book
  <2> QED
    BY <1>1, <1>3, <2>3, <2>4, <2>5, RunAlone
<1> QED
  BY <1>4, <1>5, <1>6, <1>7, <1>8 DEF RunStep

LEMMA JobStepBook ==
  ASSUME Book, Holders, Held, DaemonTypeOK, NEW j \in Job, JobStep(j) \/ StopWaiting(j)
  PROVE  Book' /\ Holders'
<1> USE DEF Same, Unborn
<1>1. UNCHANGED <<mutation, sync, inbox>>
  BY DEF JobStep, StopWaiting, PrepareJobFails, StartJobRun, JobRunStarted, JobRunRaised,
         SeeTerminalRow, HandOff, HandOffEscapes, CloseClaim
<1>2. RunBook(j) /\ ClaimBook(j) /\ j \in Run /\ j \notin UserRun
  BY LeaseFacts DEF Holders
<1>3. \A i \in Job : i # j => job'[i] = job[i]
  BY DEF JobStep, StopWaiting, PrepareJobFails, StartJobRun, JobRunStarted, JobRunRaised,
         SeeTerminalRow, HandOff, HandOffEscapes, CloseClaim, JobGoto, DaemonTypeOK
<1>4. CASE StartJobRun(j)
  <2>1. /\ Reserve(RunLease(j), "local_run", ClaimLease(j), "active")
        /\ ClaimLease(j) \in openLineages
    BY <1>4 DEF StartJobRun, ReserveDescendant
  <2>2. /\ Book' /\ openLineages' = openLineages
        /\ \A x : Live(x)' => Live(x) \/ x = RunLease(j)
    BY <1>2, <2>1, LeaseFacts, ReserveBook
  <2>3. run'[j].at = "leased" /\ job'[j] = "starting"
    BY <1>2, <1>4 DEF StartJobRun, RunGoto, JobGoto, DaemonTypeOK
  <2>4. \A q \in Run : q # j => run'[q] = run[q]
    BY <1>4 DEF StartJobRun, RunGoto, DaemonTypeOK
  <2>5. run[j].at \in RunAtRest
    BY <1>2, <2>1 DEF Reserve, Held, RunsHold
  <2>6. RunBook(j)'
    <3>1. ~Live(CommitLease(j)) /\ CommitLease(j) # RunLease(j)
      BY <1>2, <2>5, LeasesDiffer DEF RunBook, RunAtRest
    <3> QED
      BY <1>2, <2>2, <2>3, <3>1 DEF RunBook, RunAtRest
  <2>7. ClaimBook(j)'
    BY <2>3 DEF ClaimBook, ClaimHeld, JobHolds
  <2>8. \A x : x # RunLease(j) => Same(x)
    BY <2>2
  <2> QED
    BY <1>1, <1>3, <2>2, <2>4, <2>6, <2>7, <2>8, JobAlone
<1>5. CASE CloseClaim(j)
  <2>1. Complete(ClaimLease(j), TRUE) /\ UNCHANGED run
    BY <1>5 DEF CloseClaim
  <2>2. /\ Book' /\ openLineages' = openLineages \ {ClaimLease(j)}
        /\ \A x : Live(x)' => Live(x) /\ x # ClaimLease(j)
    BY <2>1, LeaseFacts, CompleteBook
  <2>3. ClaimBook(j)'
    BY <2>2 DEF ClaimBook, Born
  <2>4. \A x : x # ClaimLease(j) => Same(x)
    BY <2>2
  <2>5. RunBook(j)'
    BY <1>2, <2>1, <2>4, LeasesDiffer, RunBookKeeps
  <2> QED
    BY <1>1, <1>3, <2>1, <2>2, <2>3, <2>4, <2>5, JobAlone
<1>6. CASE \/ PrepareJobFails(j) \/ JobRunStarted(j) \/ JobRunRaised(j) \/ SeeTerminalRow(j)
           \/ HandOff(j) \/ HandOffEscapes(j) \/ StopWaiting(j)
  <2>1. UNCHANGED <<works, openLineages, run>>
    BY <1>6 DEF PrepareJobFails, JobRunStarted, JobRunRaised, SeeTerminalRow, HandOff,
                HandOffEscapes, StopWaiting, RecordUnknownWork, vars, ledger
  <2>2. job'[j] \in JobHolds \cup {"unproven"}
    BY <1>6 DEF PrepareJobFails, JobRunStarted, JobRunRaised, SeeTerminalRow, HandOff,
                HandOffEscapes, StopWaiting, JobGoto, JobHolds, DaemonTypeOK
  <2>3. \A x : Same(x)
    BY <2>1, ControlSame
  <2>4. RunBook(j)'
    BY <1>2, <2>1, <2>3, RunBookKeeps
  <2>5. ClaimBook(j)' /\ Book'
    BY <2>1, <2>2 DEF ClaimBook, ClaimHeld, Book
  <2> QED
    BY <1>1, <1>3, <2>1, <2>3, <2>4, <2>5, JobAlone
<1> QED
  BY <1>4, <1>5, <1>6 DEF JobStep

-----------------------------------------------------------------------------
(* Sync calls and the supervisor keep the book. *)

LEMMA BeginSyncBook ==
  ASSUME Book, Holders, DaemonTypeOK, NEW s \in Caller, BeginSync(s)
  PROVE  Book' /\ Holders'
<1> USE DEF Same, Unborn
<1>1. /\ UNCHANGED <<mutation, inbox, job, run>>
      /\ \A c \in Caller : c # s => sync'[c] = sync[c]
      /\ sync[s].at \in {"idle", "ready"} /\ sync'[s].at = "exchange"
  BY DEF BeginSync, At, Call, DaemonTypeOK
<1>2. PICK k : Reserve(SyncLease(s), k, SyncLease(s), "active")
  BY DEF BeginSync, BeginPoll, BeginFlush, ReserveRoot
<1>3. /\ Book' /\ openLineages' = openLineages \cup {SyncLease(s)}
      /\ \A x : Live(x)' => Live(x) \/ x = SyncLease(s)
  BY <1>2, LeaseFacts, ReserveBook
<1>4. SyncBook(s)'
  BY <1>1 DEF SyncBook, InCall
<1>5. \A x : x # SyncLease(s) => Same(x)
  BY <1>3
<1> QED
  BY <1>1, <1>3, <1>4, <1>5, CallerAlone

LEMMA QuietSyncBook ==
  ASSUME Book, Holders, DaemonTypeOK, NEW s \in Caller,
         \/ ExchangeFails(s) \/ FlushSucceeds(s) \/ ProveBoundary(s) \/ FailBoundary(s)
         \/ CloseSync(s) \/ AllAccepted(s)
  PROVE  Book' /\ Holders'
<1> USE DEF Same, Unborn
<1>1. UNCHANGED <<mutation, inbox, job, run>>
  BY DEF ExchangeFails, FlushSucceeds, ProveBoundary, FailBoundary, CloseSync, AllAccepted
<1>2. /\ \A c \in Caller : c # s => sync'[c] = sync[c]
      /\ sync[s].at # "give_up"
  BY DEF ExchangeFails, FlushSucceeds, ProveBoundary, FailBoundary, CloseSync, AllAccepted,
         Goto, At, DaemonTypeOK
<1>3. CASE CloseSync(s)
  <2>1. Complete(SyncLease(s), TRUE)
    BY <1>3 DEF CloseSync
  <2>2. /\ Book' /\ openLineages' = openLineages \ {SyncLease(s)}
        /\ \A x : Live(x)' => Live(x) /\ x # SyncLease(s)
    BY <2>1, LeaseFacts, CompleteBook
  <2>3. SyncBook(s)'
    BY <2>2 DEF SyncBook, Born
  <2>4. \A x : x # SyncLease(s) => Same(x)
    BY <2>2
  <2> QED
    BY <1>1, <1>2, <2>2, <2>3, <2>4, CallerAlone
<1>4. CASE ~CloseSync(s)
  <2>1. UNCHANGED <<works, openLineages>>
    BY <1>4 DEF ExchangeFails, FlushSucceeds, ProveBoundary, FailBoundary, AllAccepted, MarkProven,
           MarkBoundary, MarkFailedIfDraining, MarkFailed, vars, ledger
  <2>2. sync'[s].at \in InCall
    <3>1. CASE ExchangeFails(s)
      BY <3>1 DEF ExchangeFails, Call, DaemonTypeOK, InCall
    <3>2. CASE FlushSucceeds(s) \/ ProveBoundary(s) \/ FailBoundary(s) \/ AllAccepted(s)
      BY <3>2 DEF FlushSucceeds, ProveBoundary, FailBoundary, AllAccepted, Goto, Call, DaemonTypeOK,
                  InCall
    <3> QED
      BY <1>4, <3>1, <3>2
  <2>3. SyncBook(s)' /\ Book'
    BY <2>1, <2>2 DEF SyncBook, Book
  <2> QED
    BY <1>1, <1>2, <2>1, <2>3, ControlSame, CallerAlone
<1> QED
  BY <1>3, <1>4

\* Jobs come in: none of them has a claim yet.
LEMMA ReceiveBook ==
  ASSUME Book, Holders, DaemonTypeOK, NEW s \in Caller,
         \/ \E jobs \in SUBSET Job : ReceiveJobs(s, jobs) \/ DropJobs(s, jobs)
         \/ \E j \in Job : RefuseJob(s, j)
  PROVE  Book' /\ Holders'
<1>1. UNCHANGED <<works, openLineages, mutation, run>>
  BY DEF ReceiveJobs, DropJobs, RefuseJob, RecordUnknownWork, vars, ledger
<1>2. \A x : Same(x)
  BY <1>1, ControlSame
<1>3. /\ \A c \in Caller : c # s => sync'[c] = sync[c] /\ inbox'[c] = inbox[c]
      /\ sync[s].at = "exchange" /\ sync'[s].at \in InCall
  BY DEF ReceiveJobs, DropJobs, RefuseJob, Call, At, DaemonTypeOK, InCall
<1>4. \A c \in Caller : SyncBook(c)'
  BY <1>1, <1>3 DEF Holders, SyncBook, Born, Live
<1>5. ASSUME NEW i \in Job
      PROVE  ClaimBook(i)'
  <2>1. job'[i] = job[i] \/ job[i] = "offered"
    <3>1. ASSUME NEW jobs, ReceiveJobs(s, jobs) \/ DropJobs(s, jobs)
          PROVE  job'[i] = job[i] \/ job[i] = "offered"
      BY <3>1 DEF ReceiveJobs, DropJobs
    <3>2. ASSUME NEW j \in Job, RefuseJob(s, j)
          PROVE  job'[i] = job[i] \/ job[i] = "offered"
      BY <3>2 DEF RefuseJob, JobGoto, DaemonTypeOK
    <3> QED
      BY <3>1, <3>2
  <2>2. CASE job'[i] = job[i]
    BY <1>2, <1>3, <2>2, ClaimBookKeeps
  <2>3. CASE job[i] = "offered"
    BY <1>1, <2>3 DEF Holders, ClaimBook, ClaimHeld, JobHolds, Born, Live
  <2> QED
    BY <2>1, <2>2, <2>3
<1>6. \A m \in Mutation : MutationBook(m)'
  BY <1>1, <1>2, MutationBooksKeep
<1>7. \A r \in Run : RunBook(r)'
  BY <1>1, <1>2, RunBookKeeps DEF Holders
<1>8. Book'
  BY <1>1 DEF Book
<1> QED
  BY <1>4, <1>5, <1>6, <1>7, <1>8 DEF Holders

\* Jobs are accepted one by one; the one given up on goes with its claim, and
\* the ones left behind have none.
LEMMA AcceptBook ==
  ASSUME Book, Holders, InboxBook, TypeOK, DaemonTypeOK, NEW s \in Caller, NEW j \in Job,
         AdmitJob(s, j) \/ StartJobThread(s, j) \/ JobThreadFails(s, j) \/ GiveUpJob(s, j)
  PROVE  Book' /\ Holders'
<1> USE DEF Same, Unborn
<1>1. UNCHANGED <<mutation, run>>
  BY DEF AdmitJob, StartJobThread, JobThreadFails, GiveUpJob
<1>2. /\ \A c \in Caller : c # s => sync'[c] = sync[c] /\ inbox'[c] = inbox[c]
      /\ sync'[s].at \in InCall /\ j \in inbox[s]
  <2>1. CASE AdmitJob(s, j) \/ JobThreadFails(s, j)
    BY <2>1 DEF AdmitJob, JobThreadFails, Goto, DaemonTypeOK, InCall
  <2>2. CASE StartJobThread(s, j)
    BY <2>2 DEF StartJobThread, Goto, DaemonTypeOK, InCall
  <2>3. CASE GiveUpJob(s, j)
    BY <2>3 DEF GiveUpJob, Call, DaemonTypeOK, InCall
  <2> QED
    BY <2>1, <2>2, <2>3
<1>3. /\ Book' /\ ClaimBook(j)'
      /\ \A x : x # ClaimLease(j) => Same(x)
  <2>1. CASE AdmitJob(s, j)
    <3>1. Reserve(ClaimLease(j), "remote_claim", ClaimLease(j), "queued") /\ job'[j] = "admitted"
      BY <2>1 DEF AdmitJob, AdmitRemoteClaim, JobGoto, DaemonTypeOK
    <3>2. /\ Book' /\ openLineages' = openLineages \cup {ClaimLease(j)}
          /\ \A x : Live(x)' => Live(x) \/ x = ClaimLease(j)
      BY <3>1, LeaseFacts, ReserveBook
    <3> QED
      BY <3>1, <3>2 DEF ClaimBook, ClaimHeld, JobHolds
  <2>2. CASE StartJobThread(s, j)
    <3>1. Activate(ClaimLease(j)) /\ job'[j] = "running"
      BY <2>2 DEF StartJobThread, JobGoto, DaemonTypeOK
    <3> QED
      BY <3>1, ActivateBook DEF ClaimBook, ClaimHeld, JobHolds
  <2>3. CASE JobThreadFails(s, j)
    <3>1. UNCHANGED <<works, openLineages>>
      BY <2>3 DEF JobThreadFails, RecordUnknownWork, ledger
    <3>2. job'[j] = "unretained" /\ sync'[s].at = "give_up" /\ j \in inbox'[s]
      BY <2>3 DEF JobThreadFails, JobGoto, Goto, DaemonTypeOK
    <3> QED
      BY <3>1, <3>2, ControlSame DEF ClaimBook, ClaimHeld, Book
  <2>4. CASE GiveUpJob(s, j)
    <3>1. Complete(ClaimLease(j), TRUE)
      BY <2>4 DEF GiveUpJob
    <3>2. /\ Book' /\ openLineages' = openLineages \ {ClaimLease(j)}
          /\ \A x : Live(x)' => Live(x) /\ x # ClaimLease(j)
      BY <3>1, LeaseFacts, CompleteBook
    <3> QED
      BY <3>2 DEF ClaimBook, Born
  <2> QED
    BY <2>1, <2>2, <2>3, <2>4
<1>4. \A c \in Caller : SyncBook(c)'
  BY <1>2, <1>3, LeasesDiffer DEF Holders, SyncBook, Born
<1>5. ASSUME NEW i \in Job, i # j
      PROVE  ClaimBook(i)'
  <2>1. Same(ClaimLease(i))
    BY <1>3, <1>5, LeasesDiffer
  <2>2. CASE i \notin inbox[s]
    <3>1. job'[i] = job[i]
      BY <1>5, <2>2 DEF AdmitJob, StartJobThread, JobThreadFails, GiveUpJob, JobGoto, DaemonTypeOK
    <3> QED
      BY <1>2, <2>1, <2>2, <3>1, ClaimBookKeeps
  <2>3. CASE i \in inbox[s] /\ job[i] = "received"
    BY <2>1, <2>3 DEF Holders, ClaimBook, ClaimHeld, JobHolds, Born
  <2>4. CASE i \in inbox[s] /\ job[i] # "received"
    <3>1. job[j] = "received" /\ sync[s].at # "accept"
      BY <1>2, <1>5, <2>4 DEF InboxBook
    <3> QED
      BY <3>1 DEF AdmitJob, StartJobThread, JobThreadFails, GiveUpJob, At
  <2> QED
    BY <2>2, <2>3, <2>4
<1>6. \A m \in Mutation : MutationBook(m)'
  BY <1>1, <1>3, LeasesDiffer, MutationBooksKeep
<1>7. \A r \in Run : RunBook(r)'
  BY <1>1, <1>3, LeasesDiffer, RunBookKeeps DEF Holders
<1> QED
  BY <1>3, <1>4, <1>5, <1>6, <1>7 DEF Holders

\* A step of the supervisor or a coordinator that is no sync call.
LEMMA AsideBook ==
  ASSUME Book, Holders, UNCHANGED <<works, mutation, inbox, job, run>>,
         openLineages' \subseteq openLineages,
         \A l \in openLineages : l \notin openLineages' => l \in SyncLeases,
         \A c \in Caller : sync'[c] = sync[c] \/ sync[c].at \notin InCall
  PROVE  Book' /\ Holders'
<1> USE DEF Same, Unborn
<1>1. Book'
  BY DEF Book
<1>2. \A x : x \notin SyncLeases => Same(x)
  BY DEF Live
<1>3. \A c \in Caller : SyncBook(c)'
  BY DEF Holders, SyncBook, Born, Live
<1>4. \A j \in Job : ClaimBook(j)'
  BY <1>2, LeasesDiffer, ClaimBookKeeps DEF SyncLeases, InCall
<1>5. \A m \in Mutation : MutationBook(m)'
  BY <1>2, LeasesDiffer, MutationBooksKeep DEF SyncLeases
<1>6. \A r \in Run : RunBook(r)'
  BY <1>2, LeasesDiffer, RunBookKeeps DEF SyncLeases, Holders
<1> QED
  BY <1>1, <1>3, <1>4, <1>5, <1>6 DEF Holders

LEMMA SupervisorBook ==
  ASSUME Book, Holders, Held, DaemonTypeOK, SupervisorStep \/ ControllerStep
  PROVE  Book' /\ Holders'
<1> USE DEF Same, Unborn
<1>1. CASE (SupervisorStep /\ UNCHANGED mutation) \/ ControllerStep
  <2>1. UNCHANGED <<works, mutation, inbox, job, run>>
    BY <1>1 DEF SupervisorStep, RequestLifecycleDrain, ReplayLifecycleDrain, CancelLifecycleDrain,
                BeginMutation, RequestDrain, CancelDrain, threads, vars, ledger, DaemonTypeOK,
                ControllerStep, BindExitCallback, ExitSignalled, ExitFailed
  <2>2. /\ openLineages' \subseteq openLineages
        /\ \A l \in openLineages : l \notin openLineages' => l \in drainLineages
    BY <1>1 DEF SupervisorStep, RequestLifecycleDrain, ReplayLifecycleDrain, CancelLifecycleDrain,
                BeginMutation, RequestDrain, CancelDrain, threads, vars, ledger, DaemonTypeOK,
                ControllerStep, BindExitCallback, ExitSignalled, ExitFailed
  <2>3. UNCHANGED sync \/ \E d : SeekCoordinator(d)
    BY <1>1 DEF SupervisorStep, RequestLifecycleDrain, ReplayLifecycleDrain, CancelLifecycleDrain,
                BeginMutation, threads, DaemonTypeOK, ControllerStep
  <2>4. \A c \in Caller : sync'[c] = sync[c] \/ sync[c].at \notin InCall
    BY <2>3 DEF SeekCoordinator, DaemonTypeOK, InCall
  <2> QED
    BY <2>1, <2>2, <2>4, AsideBook DEF Held, SyncLineagesApart
<1>2. ASSUME NEW m \in Mutation, BeginMutation(m)
      PROVE  Book' /\ Holders'
  <2>1. /\ Reserve(MutationLease(m), "local_run", MutationLease(m), "active")
        /\ UNCHANGED <<sync, inbox, job, run>>
    BY <1>2 DEF BeginMutation, ReserveRoot
  <2>2. /\ Book' /\ openLineages' = openLineages \cup {MutationLease(m)}
        /\ \A x : Live(x)' => Live(x) \/ x = MutationLease(m)
    BY <2>1, LeaseFacts, ReserveBook
  <2>3. /\ mutation'[m] = "admitted"
        /\ \A n \in Mutation : n # m => mutation'[n] = mutation[n]
    BY <1>2 DEF BeginMutation, DaemonTypeOK
  <2>4. \A n \in Mutation : MutationBook(n)'
    BY <2>2, <2>3, LeasesDiffer DEF Holders, MutationBook, Born
  <2>5. \A x : x # MutationLease(m) => Same(x)
    BY <2>2
  <2>6. \A c \in Caller : SyncBook(c)'
    BY <2>1, <2>5, LeasesDiffer, SyncBooksKeep
  <2>7. \A j \in Job : ClaimBook(j)'
    BY <2>1, <2>5, LeasesDiffer, ClaimBookKeeps
  <2>8. \A r \in Run : RunBook(r)'
    BY <2>1, <2>5, LeasesDiffer, RunBookKeeps DEF Holders
  <2> QED
    BY <2>2, <2>4, <2>6, <2>7, <2>8 DEF Holders
<1> QED
  BY <1>1, <1>2 DEF SupervisorStep, RequestLifecycleDrain, ReplayLifecycleDrain,
                    CancelLifecycleDrain, threads

LEMMA EndMutationBook ==
  ASSUME Book, Holders, DaemonTypeOK, NEW m \in Mutation, EndMutation(m)
  PROVE  Book' /\ Holders'
<1> USE DEF Same, Unborn
<1>1. Complete(MutationLease(m), TRUE) /\ UNCHANGED <<inbox, job, run>>
  BY DEF EndMutation
<1>s. \A c \in Caller : sync'[c].at = sync[c].at
  BY MutationLeavesSync DEF DaemonTypeOK, SyncRecord
<1>2. /\ Book' /\ openLineages' = openLineages \ {MutationLease(m)}
      /\ \A x : Live(x)' => Live(x) /\ x # MutationLease(m)
  BY <1>1, LeaseFacts, CompleteBook
<1>3. \A n \in Mutation : n # m => mutation'[n] = mutation[n]
  BY DEF EndMutation, DaemonTypeOK
<1>4. \A n \in Mutation : MutationBook(n)'
  BY <1>2, <1>3 DEF Holders, MutationBook, Born
<1>5. \A x : x # MutationLease(m) => Same(x)
  BY <1>2
<1>6. \A c \in Caller : SyncBook(c)'
  BY <1>s, <1>5, LeasesDiffer DEF Holders, SyncBook, Born
<1>7. \A j \in Job : ClaimBook(j)'
  BY <1>1, <1>s, <1>5, LeasesDiffer, ClaimBookKeeps
<1>8. \A r \in Run : RunBook(r)'
  BY <1>1, <1>5, LeasesDiffer, RunBookKeeps DEF Holders
<1> QED
  BY <1>2, <1>4, <1>6, <1>7, <1>8 DEF Holders

LEMMA CoordinatorStepBook ==
  ASSUME Book, Holders, DaemonTypeOK, NEW d \in DrainId, CoordinatorStep(d), ~BeginSync(d)
  PROVE  Book' /\ Holders'
<1>1. UNCHANGED <<works, openLineages, mutation, inbox, job, run>>
  BY DEF CoordinatorStep, StartCoordinator, CoordinatorStartFails, ReadCredentials, ReportAbsent,
         ReportError, MarkNotRequired, MarkBoundary,
         MarkFailedIfDraining, MarkFailed, vars, ledger
<1>2. \A c \in Caller : sync'[c] = sync[c] \/ sync[c].at \notin InCall
  BY DEF CoordinatorStep, StartCoordinator, CoordinatorStartFails, ReadCredentials, ReportAbsent,
         ReportError, At, Goto, DaemonTypeOK, InCall
<1> QED
  BY <1>1, <1>2, AsideBook

LEMMA HoldersStep ==
  ASSUME Book, Holders, InboxBook, Held, TypeOK, DaemonTypeOK, DaemonNext
  PROVE  Book' /\ Holders'
<1>1. CASE SupervisorStep \/ ControllerStep
  BY <1>1, SupervisorBook
<1>2. CASE \E m \in Mutation : EndMutation(m)
  BY <1>2, EndMutationBook
<1>3. ASSUME NEW s \in Caller, SyncStep(s)
      PROVE  Book' /\ Holders'
  BY <1>3, QuietSyncBook, ReceiveBook, AcceptBook DEF SyncStep
<1>4. ASSUME NEW s \in Caller, BeginSync(s)
      PROVE  Book' /\ Holders'
  BY <1>4, BeginSyncBook
<1>5. ASSUME NEW d \in DrainId, CoordinatorStep(d)
      PROVE  Book' /\ Holders'
  <2>1. d \in Caller
    BY DEF Caller
  <2> QED
    BY <1>5, <2>1, CoordinatorStepBook, BeginSyncBook DEF CoordinatorStep
<1>6. CASE \E j \in Job : JobStep(j) \/ StopWaiting(j)
  BY <1>6, JobStepBook
<1>7. CASE (\E r \in Run : RunStep(r)) \/ (\E r \in UserRun : StartUserRun(r))
  BY <1>7, LeaseFacts, RunStepBook
<1>8. Syncer \subseteq Caller
  BY DEF Caller
<1>9. CASE CloseStore
  <2>1. UNCHANGED <<works, openLineages, mutation, sync, inbox, job, run>>
    BY <1>9 DEF CloseStore, vars, ledger
  <2> QED
    BY <2>1, AsideBook
<1> QED
  BY <1>1, <1>2, <1>3, <1>4, <1>5, <1>6, <1>7, <1>8, <1>9 DEF DaemonNext

-----------------------------------------------------------------------------
(* A job in hand is in one caller's hands. *)

\* A step that moves no job in a caller's hands.
LEMMA InboxKeeps ==
  ASSUME InboxBook, UNCHANGED inbox,
         \A s \in Caller : sync'[s].at = "accept" => sync[s].at = "accept",
         \A s \in Caller : \A j \in inbox[s] : job'[j] = job[j]
  PROVE  InboxBook'
<1> QED
  BY DEF InboxBook

LEMMA InboxSyncStep ==
  ASSUME InboxBook, CallersHold, DaemonTypeOK, NEW s \in Caller, SyncStep(s)
  PROVE  InboxBook'
<1>0. /\ \A c \in Caller : c # s => sync'[c] = sync[c] /\ inbox'[c] = inbox[c]
      /\ \A j \in Job : job[j] = "offered" => \A c \in Caller : j \notin inbox[c]
      /\ \A c \in Caller : inbox[c] \subseteq Job
  <2>1. \A c \in Caller : c # s => sync'[c] = sync[c] /\ inbox'[c] = inbox[c]
    <3>1. UNCHANGED sync \/ \E v : sync' = [sync EXCEPT ![s] = v]
      BY DEF SyncStep, ExchangeFails, FlushSucceeds, ProveBoundary, FailBoundary, CloseSync,
             ReceiveJobs, DropJobs, AdmitJob, StartJobThread, GiveUpJob, AllAccepted,
             RefuseJob, JobThreadFails, Goto
    <3>2. UNCHANGED inbox \/ \E v : inbox' = [inbox EXCEPT ![s] = v]
      BY DEF SyncStep, ExchangeFails, FlushSucceeds, ProveBoundary, FailBoundary, CloseSync,
             ReceiveJobs, DropJobs, AdmitJob, StartJobThread, GiveUpJob, AllAccepted,
             RefuseJob, JobThreadFails
    <3> QED
      BY <3>1, <3>2 DEF DaemonTypeOK
  <2> QED
    BY <2>1 DEF InboxBook, DaemonTypeOK
<1>1. CASE \/ ExchangeFails(s) \/ FlushSucceeds(s) \/ ProveBoundary(s) \/ FailBoundary(s)
           \/ CloseSync(s) \/ AllAccepted(s)
  <2>1. UNCHANGED <<inbox, job>>
    BY <1>1 DEF ExchangeFails, FlushSucceeds, ProveBoundary, FailBoundary, CloseSync, AllAccepted
  <2>2. sync'[s].at # "accept"
    <3>1. CASE ExchangeFails(s)
      BY <3>1 DEF ExchangeFails, Call, DaemonTypeOK
    <3>2. CASE FlushSucceeds(s) \/ ProveBoundary(s) \/ FailBoundary(s) \/ AllAccepted(s)
      BY <3>2 DEF FlushSucceeds, ProveBoundary, FailBoundary, AllAccepted, Goto, Call, DaemonTypeOK
    <3>3. CASE CloseSync(s)
      BY <3>3 DEF CloseSync, AfterClose, Call, DaemonTypeOK
    <3> QED
      BY <1>1, <3>1, <3>2, <3>3
  <2> QED
    BY <1>0, <2>1, <2>2, InboxKeeps
<1>2. ASSUME NEW jobs \in SUBSET Job, ReceiveJobs(s, jobs)
      PROVE  InboxBook'
  <2>1. /\ inbox'[s] = jobs
        /\ \A j \in Job : job'[j] = IF j \in jobs THEN "received" ELSE job[j]
        /\ \A j \in jobs : job[j] = "offered"
    BY <1>2 DEF ReceiveJobs, DaemonTypeOK
  <2>2. \A c \in Caller : c # s => /\ inbox'[c] = inbox[c] /\ inbox[c] \cap jobs = {}
                                   /\ \A j \in inbox[c] : job'[j] = job[j]
    BY <1>0, <2>1
  <2>3. \A j \in inbox'[s] : job'[j] = "received"
    BY <2>1
  <2> QED
    BY <1>0, <2>1, <2>2, <2>3 DEF InboxBook
<1>3. ASSUME NEW jobs \in SUBSET Job, DropJobs(s, jobs)
      PROVE  InboxBook'
  <2>1. /\ UNCHANGED inbox /\ sync'[s].at = "close"
        /\ \A j \in Job : job[j] # "offered" => job'[j] = job[j]
    BY <1>3 DEF DropJobs, Call, DaemonTypeOK
  <2> QED
    BY <1>0, <2>1, InboxKeeps
<1>4. ASSUME NEW j \in Job, RefuseJob(s, j)
      PROVE  InboxBook'
  <2>1. /\ UNCHANGED <<inbox, sync>>
        /\ \A i \in Job : job[i] # "offered" => job'[i] = job[i]
    BY <1>4 DEF RefuseJob, JobGoto, DaemonTypeOK
  <2> QED
    BY <1>0, <2>1, InboxKeeps
<1>5. ASSUME NEW j \in Job, AdmitJob(s, j) \/ JobThreadFails(s, j)
      PROVE  InboxBook'
  <2>1. /\ UNCHANGED inbox /\ j \in inbox[s]
        /\ sync'[s].at # "accept"
        /\ job'[j] \in {"admitted", "unretained"}
        /\ \A i \in Job : i # j => job'[i] = job[i]
    BY <1>5 DEF AdmitJob, JobThreadFails, Goto, JobGoto, DaemonTypeOK
  <2>2. \A i \in inbox[s] : i # j => job[i] = "received"
    BY <1>5, <2>1 DEF AdmitJob, JobThreadFails, At, InboxBook
  <2>3. \A c \in Caller : c # s => \A i \in inbox[c] : i # j
    BY <2>1 DEF InboxBook
  <2> QED
    BY <1>0, <2>1, <2>2, <2>3 DEF InboxBook
<1>6. ASSUME NEW j \in Job, StartJobThread(s, j)
      PROVE  InboxBook'
  <2>1. /\ inbox'[s] = inbox[s] \ {j} /\ j \in inbox[s] /\ job[j] = "admitted"
        /\ \A i \in Job : i # j => job'[i] = job[i]
    BY <1>6 DEF StartJobThread, JobGoto, DaemonTypeOK
  <2>2. \A i \in inbox[s] : i # j => job[i] = "received"
    BY <2>1 DEF InboxBook
  <2>3. \A c \in Caller : c # s => \A i \in inbox[c] : i # j
    BY <2>1 DEF InboxBook
  <2> QED
    BY <1>0, <2>1, <2>2, <2>3 DEF InboxBook
<1>7. ASSUME NEW j \in Job, GiveUpJob(s, j)
      PROVE  InboxBook'
  <2>1. /\ inbox'[s] = {}
        /\ \A i \in Job : i \notin inbox[s] => job'[i] = job[i]
        /\ sync'[s].at = "close"
    BY <1>7 DEF GiveUpJob, Call, DaemonTypeOK
  <2>2. \A c \in Caller : c # s => \A i \in inbox[c] : job'[i] = job[i]
    BY <1>0, <2>1 DEF InboxBook
  <2> QED
    BY <1>0, <2>1, <2>2 DEF InboxBook
<1> QED
  BY <1>1, <1>2, <1>3, <1>4, <1>5, <1>6, <1>7 DEF SyncStep

LEMMA InboxStep ==
  ASSUME InboxBook, CallersHold, DaemonTypeOK, DaemonNext
  PROVE  InboxBook'
<1>1. ASSUME NEW s \in Caller, SyncStep(s)
      PROVE  InboxBook'
  BY <1>1, InboxSyncStep
<1>2. ASSUME NEW s \in Caller, BeginSync(s)
      PROVE  InboxBook'
  BY <1>2, InboxKeeps DEF BeginSync, Call, DaemonTypeOK
<1>3. ASSUME NEW d \in DrainId, CoordinatorStep(d)
      PROVE  InboxBook'
  <2>1. d \in Caller
    BY DEF Caller
  <2>2. CASE CoordinatorStep(d) /\ ~BeginSync(d)
    BY <2>2, InboxKeeps DEF CoordinatorStep, StartCoordinator, CoordinatorStartFails,
       ReadCredentials, ReportAbsent, ReportError, Goto, DaemonTypeOK
  <2> QED
    BY <1>2, <1>3, <2>1, <2>2
<1>4. ASSUME NEW j \in Job, JobStep(j) \/ StopWaiting(j)
      PROVE  InboxBook'
  <2>1. /\ UNCHANGED <<sync, inbox>>
        /\ job[j] \notin {"received", "admitted", "unretained"}
        /\ \A i \in Job : i # j => job'[i] = job[i]
    BY <1>4 DEF JobStep, StopWaiting, PrepareJobFails, StartJobRun, JobRunStarted, JobRunRaised,
                SeeTerminalRow, HandOff, HandOffEscapes, CloseClaim, JobGoto, DaemonTypeOK
  <2>2. \A s \in Caller : \A i \in inbox[s] : i \in Job /\ i # j
    BY <2>1 DEF InboxBook, DaemonTypeOK
  <2> QED
    BY <2>1, <2>2, InboxKeeps
<1>5. CASE UNCHANGED <<inbox, job>> /\ (UNCHANGED sync \/ \E d : SeekCoordinator(d))
  BY <1>5, InboxKeeps DEF SeekCoordinator, DaemonTypeOK
<1>6. ASSUME NEW r, RunStep(r) \/ StartUserRun(r)
      PROVE  UNCHANGED <<inbox, job, sync>>
  BY <1>6 DEF RunStep, StartUserRun, CreateRunFails, CreateRun, PrepareRunFails,
              StartingWriteFails, StartRunThread, RunThreadFails, WorkerEnds, WorkerBreaks,
              BeginCommit,
              CommitRefused, CommitRow, CommitSkipped, CommitRaises, EndCommit, RunEscapes,
              ReleaseRun
<1>7. SupervisorStep \/ ControllerStep \/ CloseStore =>
        UNCHANGED <<inbox, job>> /\ (UNCHANGED sync \/ \E d : SeekCoordinator(d))
  BY DEF SupervisorStep, ControllerStep, RequestLifecycleDrain, ReplayLifecycleDrain,
         CancelLifecycleDrain, BeginMutation, CloseStore, threads
<1>9. ASSUME NEW m \in Mutation, EndMutation(m)
      PROVE  InboxBook'
  <2>1. \A c \in Caller : sync'[c].at = sync[c].at
    BY <1>9, MutationLeavesSync DEF DaemonTypeOK, SyncRecord
  <2> QED
    BY <1>9, <2>1, InboxKeeps DEF EndMutation
<1>8. Syncer \subseteq Caller
  BY DEF Caller
<1> QED
  BY <1>1, <1>2, <1>3, <1>4, <1>5, <1>6, <1>7, <1>8, <1>9 DEF DaemonNext

-----------------------------------------------------------------------------
(* The coordinator of the drain that stands. *)

\* A step outside the coordinators: the drain stands, no poll begins.
LEMMA CoordinatorKeeps ==
  ASSUME CoordinatorBook, UNCHANGED <<drain, revision, boundary>>,
         \A x : IsPoll(x)' => IsPoll(x),
         \A d \in DrainId : sync'[d].at = sync[d].at
  PROVE  CoordinatorBook'
  BY DEF CoordinatorBook, Polling

LEMMA ReservePoll ==
  ASSUME NEW w, NEW k, NEW l, NEW phase, Reserve(w, k, l, phase)
  PROVE  /\ UNCHANGED <<drain, revision, boundary>>
         /\ \A x : IsPoll(x)' => IsPoll(x) \/ (x = w /\ k = "sync_poll")
<1> DEFINE new == [id |-> w, kind |-> k, lineage |-> l, phase |-> phase]
<1>1. works' = works \cup {new} /\ UNCHANGED <<drain, revision, boundary>>
  BY DEF Reserve, control
<1>2. new.id = w /\ new.kind = k
  OBVIOUS
<1> HIDE DEF new
<1> QED
  BY <1>1, <1>2 DEF IsPoll

LEMMA CompletePoll ==
  ASSUME NEW w, NEW seal, Complete(w, seal)
  PROVE  /\ UNCHANGED <<drain, revision, boundary>>
         /\ \A x : IsPoll(x)' => IsPoll(x)
  BY DEF Complete, IsPoll, control

LEMMA CoordinatorOfWork ==
  ASSUME CoordinatorBook, DaemonTypeOK,
         \/ \E j \in Job : JobStep(j) \/ StopWaiting(j)
         \/ \E r \in Run : RunStep(r) \/ StartUserRun(r)
         \/ \E m \in Mutation : BeginMutation(m) \/ EndMutation(m)
  PROVE  CoordinatorBook'
<1>1. ASSUME NEW j \in Job, JobStep(j) \/ StopWaiting(j)
      PROVE  CoordinatorBook'
  <2>1. CASE StartJobRun(j)
    BY <2>1, ReservePoll, CoordinatorKeeps DEF StartJobRun, ReserveDescendant
  <2>2. CASE CloseClaim(j)
    BY <2>2, CompletePoll, CoordinatorKeeps DEF CloseClaim
  <2>3. CASE \/ PrepareJobFails(j) \/ JobRunStarted(j) \/ JobRunRaised(j) \/ SeeTerminalRow(j)
             \/ HandOff(j) \/ HandOffEscapes(j) \/ StopWaiting(j)
    <3>1. UNCHANGED <<works, drain, revision, boundary, sync>>
      BY <2>3 DEF PrepareJobFails, JobRunStarted, JobRunRaised, SeeTerminalRow, HandOff,
                  HandOffEscapes, StopWaiting, RecordUnknownWork, vars, ledger, control
    <3> QED
      BY <3>1, CoordinatorKeeps DEF IsPoll
  <2> QED
    BY <1>1, <2>1, <2>2, <2>3 DEF JobStep
<1>2. ASSUME NEW r \in Run, RunStep(r) \/ StartUserRun(r)
      PROVE  CoordinatorBook'
  <2>1. CASE StartUserRun(r)
    BY <2>1, ReservePoll, CoordinatorKeeps DEF StartUserRun, ReserveRoot
  <2>2. CASE BeginCommit(r)
    BY <2>2, ReservePoll, CoordinatorKeeps DEF BeginCommit, ReserveDescendant
  <2>3. CASE CreateRunFails(r) \/ RunThreadFails(r) \/ ReleaseRun(r) \/ CommitRaises(r) \/ EndCommit(r)
    BY <2>3, CompletePoll, CoordinatorKeeps DEF CreateRunFails, RunThreadFails, ReleaseRun,
       CommitRaises, EndCommit
  <2>4. CASE \/ CreateRun(r) \/ PrepareRunFails(r) \/ StartingWriteFails(r) \/ StartRunThread(r)
             \/ WorkerEnds(r) \/ WorkerBreaks(r) \/ CommitRow(r) \/ CommitSkipped(r)
           \/ CommitRefused(r) \/ RunEscapes(r)
    <3>1. UNCHANGED <<works, drain, revision, boundary, sync>>
      BY <2>4 DEF CreateRun, PrepareRunFails, StartingWriteFails, StartRunThread, WorkerEnds,
                  WorkerBreaks, CommitRow, CommitSkipped,
                  CommitRefused, RunEscapes, RejectDescendant, RecordUnknownWork, vars, ledger,
                  control
    <3> QED
      BY <3>1, CoordinatorKeeps DEF IsPoll
  <2> QED
    BY <1>2, <2>1, <2>2, <2>3, <2>4 DEF RunStep
<1>3. ASSUME NEW m \in Mutation, BeginMutation(m) \/ EndMutation(m)
      PROVE  CoordinatorBook'
  <2>1. CASE BeginMutation(m)
    BY <2>1, ReservePoll, CoordinatorKeeps DEF BeginMutation, ReserveRoot
  <2>2. CASE EndMutation(m)
    <3>1. \A d \in DrainId : sync'[d].at = sync[d].at
      BY <2>2, MutationLeavesSync DEF DaemonTypeOK, SyncRecord, Caller
    <3> QED
      BY <2>2, <3>1, CompletePoll, CoordinatorKeeps DEF EndMutation
  <2> QED
    BY <1>3, <2>1, <2>2
<1> QED
  BY <1>1, <1>2, <1>3

LEMMA CoordinatorOfControl ==
  ASSUME CoordinatorBook, Holders, TypeOK, GateInv, DaemonTypeOK,
         \/ \E e \in 1..MaxRevision : RequestLifecycleDrain(e)
         \/ ReplayLifecycleDrain
         \/ \E d, e \in 1..MaxRevision : CancelLifecycleDrain(d, e)
         \/ ControllerStep
  PROVE  CoordinatorBook'
<1>0. DrainId \subseteq Caller /\ revision \in 1..MaxRevision /\ MaxRevision \in Nat
  BY LifecycleAssumption DEF Caller, TypeOK
<1>1. ASSUME NEW e \in 1..MaxRevision, RequestLifecycleDrain(e)
      PROVE  CoordinatorBook'
  <2>1. PICK n \in DrainId : n = revision + 1
    BY <1>0, <1>1 DEF RequestLifecycleDrain, RequestDrain, DrainId
  <2>2. /\ UNCHANGED works /\ revision' = n /\ drain' = n /\ SeekCoordinator(n)
    BY <1>1, <2>1 DEF RequestLifecycleDrain, RequestDrain, ledger
  <2>3. sync[n].at = "idle" /\ n \in Caller
    BY <1>0, <2>1 DEF CoordinatorBook, DrainId
  <2>4. sync' = [sync EXCEPT ![n].at = "requested"]
    BY <2>2, <2>3 DEF SeekCoordinator
  <2>5. ~Polling(n)
    BY <2>3 DEF Holders, SyncBook, Born, Live, IsPoll, Polling, InCall
  <2>6. \A d \in DrainId : sync'[d].at # "idle" => d <= n
    BY <1>0, <2>1, <2>4 DEF CoordinatorBook, DaemonTypeOK, DrainId
  <2>7. sync'[n].at \in PendingAt
    BY <2>3, <2>4 DEF DaemonTypeOK, PendingAt
  <2>8. ~Polling(n)'
    BY <2>2, <2>5 DEF Polling, IsPoll
  <2> QED
    BY <2>2, <2>6, <2>7, <2>8 DEF CoordinatorBook
<1>2. CASE ReplayLifecycleDrain
  <2>1. /\ drain # NoDrain /\ SeekCoordinator(drain)
        /\ UNCHANGED <<works, drain, revision, boundary>>
    BY <1>2 DEF ReplayLifecycleDrain, vars, ledger, control
  <2>2. drain = revision
    BY <2>1 DEF GateInv
  <2>3. \A d \in DrainId : sync'[d].at # "idle" => d <= revision
    BY <1>0, <2>1, <2>2 DEF CoordinatorBook, SeekCoordinator, DaemonTypeOK, DrainId
  <2>4. boundary = "pending" => drain \in DrainId /\ sync'[drain].at \in PendingAt
    BY <1>0, <2>1 DEF CoordinatorBook, SeekCoordinator, DaemonTypeOK, PendingAt
  <2> QED
    BY <2>1, <2>3, <2>4 DEF CoordinatorBook, Polling, IsPoll
<1>3. ASSUME NEW d \in 1..MaxRevision, NEW e \in 1..MaxRevision, CancelLifecycleDrain(d, e)
      PROVE  CoordinatorBook'
  <2>1. /\ UNCHANGED <<works, sync>> /\ drain' = NoDrain /\ boundary' = "not_required"
        /\ revision' = revision + 1
    BY <1>3 DEF CancelLifecycleDrain, CancelDrain, threads
  <2>2. NoDrain \notin DrainId
    BY DEF NoDrain, DrainId
  <2> QED
    BY <1>0, <2>1, <2>2 DEF CoordinatorBook, DrainId
<1>4. CASE ControllerStep
  <2>1. UNCHANGED <<works, drain, revision, boundary, sync>>
    BY <1>4 DEF ControllerStep, BindExitCallback, ExitSignalled, ExitFailed, threads, ledger,
                control
  <2> QED
    BY <2>1, CoordinatorKeeps DEF IsPoll
<1> QED
  BY <1>1, <1>2, <1>3, <1>4

\* A sync call marks the boundary before it ends, and only a flush can be the
\* coordinator's of the drain that stands.
LEMMA CoordinatorOfSync ==
  ASSUME CoordinatorBook, CallersHold, Book, TypeOK, DaemonTypeOK, NEW s \in Caller, SyncStep(s)
  PROVE  CoordinatorBook'
<1>1. /\ UNCHANGED <<drain, revision>>
      /\ boundary' = "pending" => boundary = "pending"
      /\ \A x : IsPoll(x)' => IsPoll(x)
  <2>1. CASE ExchangeFails(s) \/ FlushSucceeds(s) \/ AllAccepted(s)
    BY <2>1 DEF ExchangeFails, FlushSucceeds, AllAccepted, vars, ledger, control, IsPoll
  <2>2. CASE ProveBoundary(s) \/ FailBoundary(s)
    BY <2>2 DEF ProveBoundary, FailBoundary, MarkProven, MarkBoundary, MarkFailedIfDraining,
                MarkFailed, vars, ledger, control, IsPoll
  <2>3. CASE CloseSync(s)
    BY <2>3, CompletePoll DEF CloseSync
  <2>4. ASSUME NEW jobs, ReceiveJobs(s, jobs) \/ DropJobs(s, jobs)
        PROVE  <1>1!1 /\ <1>1!2 /\ <1>1!3
    BY <2>4 DEF ReceiveJobs, DropJobs, vars, ledger, control, IsPoll
  <2>5. ASSUME NEW j \in Job, RefuseJob(s, j) \/ JobThreadFails(s, j)
        PROVE  <1>1!1 /\ <1>1!2 /\ <1>1!3
    BY <2>5 DEF RefuseJob, JobThreadFails, RecordUnknownWork, ledger, control, IsPoll
  <2>6. ASSUME NEW j \in Job, AdmitJob(s, j)
        PROVE  <1>1!1 /\ <1>1!2 /\ <1>1!3
    BY <2>6, ReservePoll DEF AdmitJob, AdmitRemoteClaim
  <2>7. ASSUME NEW j \in Job, StartJobThread(s, j)
        PROVE  <1>1!1 /\ <1>1!2 /\ <1>1!3
    BY <2>7, ActivateBook DEF StartJobThread, Activate, control
  <2>8. ASSUME NEW j \in Job, GiveUpJob(s, j)
        PROVE  <1>1!1 /\ <1>1!2 /\ <1>1!3
    BY <2>8, CompletePoll DEF GiveUpJob
  <2> QED
    BY <2>1, <2>2, <2>3, <2>4, <2>5, <2>6, <2>7, <2>8 DEF SyncStep
<1>2. sync[s].at # "idle" /\ \A c \in Caller : c # s => sync'[c] = sync[c]
  <2>1. UNCHANGED sync \/ \E v : sync' = [sync EXCEPT ![s] = v]
    BY DEF SyncStep, ExchangeFails, FlushSucceeds, ProveBoundary, FailBoundary, CloseSync,
           ReceiveJobs, DropJobs, AdmitJob, StartJobThread, GiveUpJob, AllAccepted,
           RefuseJob, JobThreadFails, Goto
  <2>2. sync[s].at # "idle"
    BY DEF SyncStep, ExchangeFails, FlushSucceeds, ProveBoundary, FailBoundary, CloseSync,
           ReceiveJobs, DropJobs, AdmitJob, StartJobThread, GiveUpJob, AllAccepted,
           RefuseJob, JobThreadFails, At
  <2> QED
    BY <2>1, <2>2 DEF DaemonTypeOK
<1>3. ASSUME boundary' = "pending"
      PROVE  drain' \in DrainId /\ sync'[drain'].at \in PendingAt
  <2>1. drain \in DrainId /\ drain \in Caller /\ sync[drain].at \in PendingAt /\ ~Polling(drain)
    BY <1>1, <1>3 DEF CoordinatorBook, Caller
  <2>2. drain # NoDrain
    BY <2>1 DEF DrainId, NoDrain
  <2>3. CASE drain # s
    BY <1>1, <1>2, <2>1, <2>3
  <2>4. CASE drain = s
    <3>1. ~ProveBoundary(s) /\ ~FailBoundary(s)
      BY <1>1, <1>3, <2>2 DEF ProveBoundary, FailBoundary, MarkProven, MarkBoundary,
                              MarkFailedIfDraining, MarkFailed
    <3>2. sync[s].at \in {"exchange", "prove", "fail"}
      BY <2>1, <2>4 DEF SyncStep, ExchangeFails, FlushSucceeds, ProveBoundary, FailBoundary,
                        CloseSync,
             ReceiveJobs, DropJobs, AdmitJob, StartJobThread, GiveUpJob, AllAccepted,
             RefuseJob, JobThreadFails, At, PendingAt
    <3>3. ExchangeFails(s) \/ FlushSucceeds(s)
      BY <2>1, <2>4, <3>1, <3>2 DEF SyncStep, CloseSync,
             ReceiveJobs, DropJobs, AdmitJob, StartJobThread, GiveUpJob, AllAccepted,
             RefuseJob, JobThreadFails, At
    <3>4. CASE ExchangeFails(s)
      BY <1>1, <2>1, <2>4, <3>4 DEF ExchangeFails, Call, DaemonTypeOK, PendingAt
    <3>5. CASE FlushSucceeds(s)
      BY <1>1, <2>1, <2>4, <3>5 DEF FlushSucceeds, Call, DaemonTypeOK, PendingAt
    <3> QED
      BY <3>3, <3>4, <3>5
  <2> QED
    BY <2>3, <2>4
<1>4. DrainId \subseteq Caller
  BY DEF Caller
<1>5. \A d \in DrainId : sync'[d].at # "idle" => d <= revision'
  BY <1>1, <1>2, <1>4 DEF CoordinatorBook
<1> QED
  BY <1>1, <1>3, <1>5 DEF CoordinatorBook, Polling

LEMMA CoordinatorOfDrain ==
  ASSUME CoordinatorBook, GateInv, TypeOK, DaemonTypeOK, NEW d \in DrainId,
         CoordinatorStep(d), ~BeginSync(d)
  PROVE  CoordinatorBook'
<1>1. /\ UNCHANGED <<drain, revision, works>>
      /\ boundary' = "pending" => boundary = "pending"
  BY DEF CoordinatorStep, StartCoordinator, CoordinatorStartFails, ReadCredentials, ReportAbsent,
         ReportError, MarkNotRequired, MarkBoundary,
         MarkFailedIfDraining, MarkFailed, vars, ledger, control
<1>2. d \in Caller /\ sync[d].at # "idle" /\ \A c \in Caller : c # d => sync'[c] = sync[c]
  BY DEF CoordinatorStep, StartCoordinator, CoordinatorStartFails, ReadCredentials, ReportAbsent,
         ReportError, At, Goto, Caller, DaemonTypeOK
<1>3. ASSUME boundary' = "pending"
      PROVE  drain \in DrainId /\ sync'[drain].at \in PendingAt
  <2>1. drain \in DrainId /\ drain \in Caller /\ sync[drain].at \in PendingAt /\ drain # NoDrain
    BY <1>1, <1>3 DEF CoordinatorBook, Caller, DrainId, NoDrain
  <2>2. StartCoordinator(d) \/ CoordinatorStartFails(d) \/ ReadCredentials(d)
    BY <1>1, <1>3, <2>1 DEF CoordinatorStep, ReportAbsent, ReportError, MarkNotRequired,
                            MarkBoundary, MarkFailedIfDraining, MarkFailed
  <2>3. sync'[d].at \in PendingAt
    BY <1>2, <2>2 DEF StartCoordinator, CoordinatorStartFails, ReadCredentials, Goto, DaemonTypeOK,
                      PendingAt
  <2> QED
    BY <1>2, <2>1, <2>3
<1>4. \A c \in DrainId : sync'[c].at # "idle" => c <= revision'
  BY <1>1, <1>2 DEF CoordinatorBook, Caller
<1> QED
  BY <1>1, <1>3, <1>4 DEF CoordinatorBook, Polling, IsPoll

LEMMA CoordinatorOfBegin ==
  ASSUME CoordinatorBook, GateInv, TypeOK, DaemonTypeOK, NEW s \in Caller, BeginSync(s)
  PROVE  CoordinatorBook'
<1>1. PICK k : /\ Reserve(SyncLease(s), k, SyncLease(s), "active")
               /\ ~admissionOpen => k = "sync_flush"
  BY DEF BeginSync, BeginPoll, BeginFlush, ReserveRoot
<1>2. /\ UNCHANGED <<drain, revision, boundary>>
      /\ \A x : IsPoll(x)' => IsPoll(x) \/ (x = SyncLease(s) /\ admissionOpen)
  BY <1>1, ReservePoll
<1>3. /\ \A c \in Caller : c # s => sync'[c] = sync[c]
      /\ sync'[s].at = "exchange"
      /\ s \in DrainId => sync[s].at = "ready"
  BY NamesDiffer DEF BeginSync, At, Call, DaemonTypeOK
<1>4. admissionOpen => drain \notin DrainId
  BY DEF GateInv, DrainId, NoDrain
<1>5. DrainId \subseteq Caller
  BY DEF Caller
<1>6. \A d \in DrainId : sync'[d].at # "idle" => d <= revision
  BY <1>3, <1>5 DEF CoordinatorBook
<1>7. \A d \in DrainId : drain = d => ~Polling(d)'
  BY <1>2, <1>4 DEF CoordinatorBook, Polling
<1>8. boundary = "pending" => drain \in DrainId /\ sync'[drain].at \in PendingAt
  BY <1>3, <1>5 DEF CoordinatorBook, PendingAt
<1> QED
  BY <1>2, <1>6, <1>7, <1>8 DEF CoordinatorBook

LEMMA CoordinatorStepKeeps ==
  ASSUME CoordinatorBook, Book, Holders, CallersHold, GateInv, TypeOK, DaemonTypeOK, DaemonNext
  PROVE  CoordinatorBook'
<1>1. Syncer \subseteq Caller /\ DrainId \subseteq Caller /\ UserRun \subseteq Run
  BY DEF Caller, Run
<1>2. CASE CloseStore
  BY <1>2, CoordinatorKeeps DEF CloseStore, vars, ledger, control, IsPoll
<1> QED
  BY <1>1, <1>2, CoordinatorOfWork, CoordinatorOfControl, CoordinatorOfSync, CoordinatorOfDrain,
     CoordinatorOfBegin DEF DaemonNext, SupervisorStep

-----------------------------------------------------------------------------

LEMMA BookInvInit == DaemonInit => BookInv
<1> SUFFICES ASSUME DaemonInit PROVE BookInv
  OBVIOUS
<1>1. works = {} /\ openLineages = {} /\ drain \notin DrainId /\ boundary = "not_required"
  BY DEF DaemonInit, Init, NoDrain, DrainId
<1>2. \A s \in Caller : sync[s].at = "idle" /\ inbox[s] = {}
  BY DEF DaemonInit, Idle, Call
<1>3. \A r \in Run : run[r].at = "none"
  BY DEF DaemonInit
<1>4. Book /\ Holders
  BY <1>1, <1>3 DEF Book, Holders, SyncBook, ClaimBook, MutationBook, RunBook, Born, Live, RunAtRest
<1>5. InboxBook
  BY <1>2 DEF InboxBook
<1>6. CoordinatorBook
  BY <1>1, <1>2 DEF CoordinatorBook, Caller
<1> QED
  BY <1>4, <1>5, <1>6 DEF BookInv

LEMMA BookInvStep == DaemonInv /\ BookInv /\ [DaemonNext]_daemonVars => BookInv'
<1>1. ASSUME DaemonInv, BookInv, DaemonNext
      PROVE  BookInv'
  BY <1>1, HoldersStep, InboxStep, CoordinatorStepKeeps DEF BookInv, DaemonInv, IInv, Held
<1>2. ASSUME BookInv, UNCHANGED daemonVars
      PROVE  BookInv'
  <2>1. UNCHANGED <<works, openLineages, drain, revision, boundary>>
        /\ UNCHANGED <<mutation, sync, inbox, job, run>>
    BY <1>2 DEF daemonVars, vars, ledger, control, threads
  <2> QED
    BY <1>2, <2>1 DEF BookInv, Book, Holders, SyncBook, ClaimBook, ClaimHeld, MutationBook, RunBook,
       Born, Live, IsPoll, Polling, InboxBook, CoordinatorBook
<1> QED
  BY <1>1, <1>2

LEMMA BookInvariance == DaemonSpec => [](DaemonInv /\ BookInv)
<1>1. DaemonInit => DaemonInv /\ BookInv
  BY DaemonInvInit, BookInvInit
<1>2. DaemonInv /\ BookInv /\ [DaemonNext]_daemonVars => DaemonInv' /\ BookInv'
  BY DaemonInvStep, BookInvStep
<1> QED
  BY <1>1, <1>2, PTL DEF DaemonSpec

\* Whatever an undecided drain waits for is in the hands of a thread: no lease
\* and no open lineage outlives its holder, and a pending boundary has its
\* coordinator.  With NoMissedCommit, which commits the rest.
THEOREM UndecidedWaits == DaemonSpec => []UndecidedDrainWaits
<1>1. DaemonInv /\ BookInv => UndecidedDrainWaits
  <2> SUFFICES ASSUME DaemonInv, BookInv, drain # NoDrain, ~stopping, exitCallback,
                      boundary \notin {"failed", "outcome_unknown"}, ~unknownWork, ~outcomeUnknown,
                      \A s \in Caller : sync[s].at \in {"idle", "unstarted"}, ~Unattended(drain),
                      \A j \in Job : job[j] \notin JobHolds,
                      \A r \in Run : run[r].at \in RunAtRest,
                      \A m \in Mutation : mutation[m] # "admitted"
               PROVE  FALSE
    BY DEF UndecidedDrainWaits, JobHolds, RunAtRest
  <2>1. \A j \in Job : ~ClaimHeld(j)
    BY DEF ClaimHeld, DaemonInv, JobsCounted, GivenUp
  <2>2. \A x \in LeaseIds : ~Live(x) /\ x \notin openLineages
    BY <2>1 DEF BookInv, Holders, SyncBook, ClaimBook, RunBook, MutationBook, Born, InCall,
                LeaseIds,
                RunAtRest
  <2>3. works = {} /\ openLineages = {}
    BY <2>2 DEF BookInv, Book, Live
  <2>4. boundary # "pending"
    BY DEF BookInv, CoordinatorBook, PendingAt, Caller, Unattended, At
  <2>5. boundary \in {"not_required", "proven"}
    BY <2>4 DEF DaemonInv, IInv, TypeOK, Boundaries
  <2> QED
    BY <2>3, <2>5 DEF DaemonInv, IInv, NoMissedCommit, CommitEnabled, Blocked
<1> QED
  BY <1>1, BookInvariance, PTL

-----------------------------------------------------------------------------
(* What the disagreements with the code's comments depend on. *)

\* The steps that touch a run or its row, and those that touch a job.
LEMMA RunRowCases ==
  ASSUME DaemonNext
  PROVE  \/ UNCHANGED <<run, row>>
         \/ \E j \in Job : StartJobRun(j)
         \/ \E r \in Run : RunStep(r) \/ (r \in UserRun /\ StartUserRun(r))
<1>1. ASSUME NEW j \in Job, JobStep(j) \/ StopWaiting(j), ~StartJobRun(j)
      PROVE  UNCHANGED <<run, row>>
  BY <1>1 DEF JobStep, StopWaiting, PrepareJobFails, JobRunStarted, JobRunRaised,
              SeeTerminalRow, HandOff, HandOffEscapes, CloseClaim
<1>2. ASSUME NEW s, SyncStep(s) \/ BeginSync(s) \/ CoordinatorStep(s)
      PROVE  UNCHANGED <<run, row>>
  BY <1>2 DEF SyncStep, CoordinatorStep, ExchangeFails, FlushSucceeds, ProveBoundary, FailBoundary,
              CloseSync, ReceiveJobs, DropJobs, AdmitJob, StartJobThread, GiveUpJob, AllAccepted,
              RefuseJob, JobThreadFails, BeginSync, StartCoordinator, CoordinatorStartFails,
              ReadCredentials, ReportAbsent, ReportError
<1>3. SupervisorStep \/ ControllerStep \/ CloseStore \/ (\E m \in Mutation : EndMutation(m))
        => UNCHANGED <<run, row>>
  BY DEF SupervisorStep, ControllerStep, RequestLifecycleDrain, ReplayLifecycleDrain,
         CancelLifecycleDrain, BeginMutation, EndMutation, CloseStore, threads
<1>4. UserRun \subseteq Run
  BY DEF Run
<1> QED
  BY <1>1, <1>2, <1>3, <1>4 DEF DaemonNext

LEMMA JobCases ==
  ASSUME DaemonNext
  PROVE  \/ UNCHANGED job
         \/ \E s \in Caller : SyncStep(s)
         \/ \E j \in Job : JobStep(j) \/ StopWaiting(j)
<1>1. ASSUME NEW r, RunStep(r) \/ StartUserRun(r)
      PROVE  UNCHANGED job
  BY <1>1 DEF RunStep, StartUserRun, CreateRunFails, CreateRun, PrepareRunFails,
              StartingWriteFails, StartRunThread, RunThreadFails, WorkerEnds, WorkerBreaks,
              BeginCommit,
              CommitRefused, CommitRow, CommitSkipped, CommitRaises, EndCommit, RunEscapes,
              ReleaseRun
<1>2. SupervisorStep \/ ControllerStep \/ CloseStore \/ (\E m \in Mutation : EndMutation(m))
        => UNCHANGED job
  BY DEF SupervisorStep, ControllerStep, RequestLifecycleDrain, ReplayLifecycleDrain,
         CancelLifecycleDrain, BeginMutation, EndMutation, CloseStore, threads
<1>3. \A s : BeginSync(s) \/ CoordinatorStep(s) => UNCHANGED job
  BY DEF CoordinatorStep, BeginSync, StartCoordinator, CoordinatorStartFails, ReadCredentials,
         ReportAbsent, ReportError
<1> QED
  BY <1>1, <1>2, <1>3 DEF DaemonNext


\* Without a shutdown the threads never meet a closed store.
LEMMA StoreStaysOpen ==
  ASSUME "shutdown" \notin Fault
  PROVE  DaemonSpec => [](~closed)
<1>1. DaemonInit => ~closed
  BY DEF DaemonInit
<1>2. ~closed /\ [DaemonNext]_daemonVars => ~closed'
  BY ClosedStays DEF CloseStore, daemonVars, threads
<1> QED
  BY <1>1, <1>2, PTL DEF DaemonSpec

\* A connection was rewritten under an exchange.
Rewritten == \E s \in Caller : sync[s].stale

\* A job is let go of by an exchange that a fault breaks, or by the caller that
\* gives up on the job before it in the list.
LEMMA JobDropped ==
  ASSUME DaemonTypeOK, JobsCounted, Fault \cap {"network", "store"} = {}, ~closed, ~Rewritten,
         DaemonNext, NEW j \in Job, job'[j] = "dropped", job[j] # "dropped"
  PROVE  unknownWork /\ \E s \in Caller : inbox[s] # {}
<1>1. ASSUME NEW i \in Job, JobStep(i) \/ StopWaiting(i)
      PROVE  FALSE
  BY <1>1 DEF JobStep, StopWaiting, PrepareJobFails, StartJobRun, JobRunStarted, JobRunRaised,
              SeeTerminalRow, HandOff, HandOffEscapes, CloseClaim, JobGoto, DaemonTypeOK
<1>2. PICK s \in Caller : SyncStep(s)
  BY <1>1, JobCases
<1>3. \E i \in Job : GiveUpJob(s, i)
  <2>1. ~sync[s].stale
    BY DEF Rewritten
  <2>2. ASSUME NEW jobs, ReceiveJobs(s, jobs) \/ DropJobs(s, jobs)
        PROVE  FALSE
    BY <2>1, <2>2 DEF ReceiveJobs, DropJobs, StoreRaises
  <2> QED
    BY <1>2, <2>2 DEF SyncStep, ExchangeFails, FlushSucceeds, ProveBoundary, FailBoundary,
                      CloseSync,
                RefuseJob, AdmitJob, StartJobThread, JobThreadFails, AllAccepted, JobGoto,
                DaemonTypeOK
<1> QED
  BY <1>3 DEF GiveUpJob, JobsCounted, GivenUp

\* The runs have come to rest in the very state the stop commits in.
LEMMA StopsRest ==
  ASSUME IInv', Held', stopping'
  PROVE  \A r \in Run : run'[r].at \in RunAtRest
<1>1. \A rec \in works' : rec.id \in SyncLeases
  BY DEF IInv, StoppingInv, LineagesAccounted, Held, SyncLineagesApart
<1>2. \A a : ~Live(RunLease(a))'
  BY <1>1, LeasesDiffer DEF Live, SyncLeases
<1> QED
  BY <1>2 DEF Held, RunsHold

\* A job that is let go of is counted, and no stop commits over it.
DroppedCounted ==
  /\ \A j \in Job : job[j] = "dropped" => unknownWork
  /\ StopFailsClosed

\* "Stop must fail closed" (accept_server_job) holds as long as no exchange is
\* cut between the server's assignment and the accept loop.  Four things cut
\* one: the network, a store that raises, a shutdown, and a client that rewrites
\* the connection under the exchange.  Nothing else loses a job unseen.
THEOREM ClosedWithoutLoss ==
  ASSUME Fault \cap {"network", "store", "shutdown"} = {}
  PROVE  DaemonSpec /\ []~Rewritten => []StopFailsClosed
<1>1. DaemonInit => DroppedCounted
  BY DEF DaemonInit, Init, DroppedCounted, StopFailsClosed
<1>2. DaemonInv /\ ~closed /\ ~Rewritten /\ DroppedCounted /\ [DaemonNext]_daemonVars
        => DroppedCounted'
  <2>1. ASSUME DaemonInv, ~closed, ~Rewritten, DroppedCounted, DaemonNext
        PROVE  DroppedCounted'
    <3> USE <2>1 DEF DaemonInv
    <3>1. [Next]_vars
      BY DaemonStepCases
    <3>2. (unknownWork => unknownWork') /\ (stopping' /\ ~stopping => CommitEnabled')
      BY <3>1, StepFacts
    <3>3. \A j \in Job : job'[j] = "dropped" => unknownWork'
      BY <3>2, JobDropped DEF DroppedCounted
    <3>4. StopFailsClosed'
      <4>1. CASE stopping
        BY <4>1, StopRests, JobDropped DEF DroppedCounted, StopFailsClosed
      <4>2. CASE ~stopping
        BY <3>2, <3>3, <4>2 DEF StopFailsClosed, CommitEnabled, Blocked
      <4> QED
        BY <4>1, <4>2
    <3> QED
      BY <3>3, <3>4 DEF DroppedCounted
  <2>2. ASSUME DroppedCounted, UNCHANGED daemonVars
        PROVE  DroppedCounted'
    BY <2>2 DEF daemonVars, vars, doubt, commit, threads, DroppedCounted, StopFailsClosed
  <2> QED
    BY <2>1, <2>2
<1>3. DroppedCounted => StopFailsClosed
  BY DEF DroppedCounted
<1>4. DaemonSpec => [](~closed)
  BY StoreStaysOpen
<1> QED
  BY <1>1, <1>2, <1>3, <1>4, DaemonInvariance, PTL DEF DaemonSpec

-----------------------------------------------------------------------------

\* A row that is not terminal is in the hands of its run, or counted.
LiveRow(r) ==
  row[r] = "live" =>
    /\ run[r].at \notin {"none", "leased", "refused"}
    /\ run[r].at \in {"release", "over", "stranded"} => unknownWork

LiveRowsHeld ==
  /\ \A r \in Run : LiveRow(r)
  /\ \A j \in Job : job[j] \in {"offered", "received", "admitted", "running"} => run[j].at = "none"
  /\ IdleRunsAreTerminal

LEMMA LiveRowStep ==
  ASSUME DaemonTypeOK, RunsCounted, Fault \cap {"thread", "store"} = {}, ~closed,
         unknownWork => unknownWork', NEW r \in Run, LiveRow(r),
         RunStep(r) \/ (r \in UserRun /\ StartUserRun(r))
  PROVE  /\ LiveRow(r)'
         /\ run[r].at = "none" => r \in UserRun
         /\ \A q \in Run : q # r => run'[q] = run[q] /\ row'[q] = row[q]
         /\ row'[r] = "live" => row[r] = "live" \/ run[r].at \notin RunAtRest
<1>1. \A q \in Run : q # r => run'[q] = run[q] /\ row'[q] = row[q]
  BY DEF RunStep, StartUserRun, CreateRunFails, CreateRun, PrepareRunFails,
         StartingWriteFails, StartRunThread, RunThreadFails, WorkerEnds, WorkerBreaks, BeginCommit,
         CommitRefused, CommitRow, CommitSkipped, CommitRaises, EndCommit, RunEscapes, ReleaseRun,
         AfterFailedCommit, RunGoto, DaemonTypeOK
<1>2. /\ run[r].at = "none" => r \in UserRun
      /\ row'[r] = "live" => row[r] = "live" \/ run[r].at \notin RunAtRest
  BY DEF RunStep, StartUserRun, CreateRunFails, CreateRun, PrepareRunFails,
         StartingWriteFails, StartRunThread, RunThreadFails, WorkerEnds, WorkerBreaks, BeginCommit,
         CommitRefused, CommitRow, CommitSkipped, CommitRaises, EndCommit, RunEscapes, ReleaseRun,
         RunIsAt, RunAtRest
<1>3. LiveRow(r)'
  <2>1. CASE StartUserRun(r) \/ CreateRunFails(r)
    BY <2>1 DEF StartUserRun, CreateRunFails, RunIsAt, LiveRow
  <2>2. CASE \/ CreateRun(r) \/ PrepareRunFails(r) \/ StartRunThread(r) \/ WorkerEnds(r)
             \/ WorkerBreaks(r) \/ BeginCommit(r) \/ StartingWriteFails(r)
    <3>1. run'[r].at \in {"bound", "commit", "worker", "escaping", "committing", "leaked"}
      BY <2>2 DEF CreateRun, PrepareRunFails, StartRunThread, WorkerEnds, WorkerBreaks, BeginCommit,
                  StartingWriteFails, RunGoto, DaemonTypeOK
    <3> QED
      BY <3>1 DEF LiveRow
  <2>3. CASE CommitRefused(r)
    <3>1. run'[r].at \in {"commit", "escaping", "release"}
      BY <2>3 DEF CommitRefused, AfterFailedCommit, RunGoto, DaemonTypeOK
    <3>2. unknownWork'
      BY <2>3 DEF CommitRefused, RejectDescendant, RecordUnknownWork
    <3> QED
      BY <3>1, <3>2 DEF LiveRow
  <2>4. CASE CommitRow(r)
    BY <2>4 DEF CommitRow, LiveRow, DaemonTypeOK
  <2>5. CASE EndCommit(r)
    BY <2>5 DEF EndCommit, LiveRow, RunsCounted, RunCounted, RunIsAt
  <2>6. CASE RunEscapes(r)
    <3>1. run'[r].at = "release" /\ unknownWork'
      BY <2>6 DEF RunEscapes, RecordUnknownWork, RunGoto, DaemonTypeOK
    <3> QED
      BY <3>1 DEF LiveRow
  <2>7. CASE ReleaseRun(r)
    <3>1. /\ run[r].at = "release" /\ run'[r].at \in {"over", "stranded"} /\ row' = row
      BY <2>7 DEF ReleaseRun, RunIsAt, RunGoto, DaemonTypeOK
    <3> QED
      BY <3>1 DEF LiveRow
  <2>8. CASE CommitRaises(r)
    <3>1. row'[r] = "terminal"
      BY <2>8 DEF CommitRaises, RunIsAt, RunsCounted, RunCounted
    <3> QED
      BY <3>1 DEF LiveRow
  <2> QED
    BY <2>1, <2>2, <2>3, <2>4, <2>5, <2>6, <2>7, <2>8
       DEF RunStep, RunThreadFails, CommitSkipped
<1> QED
  BY <1>1, <1>2, <1>3

\* A run that has not begun belongs to a job that has not started it.
LEMMA JobBeforeRun ==
  ASSUME DaemonTypeOK, InboxBook, DaemonNext, NEW j \in Job,
         job'[j] \in {"offered", "received", "admitted", "running"}
  PROVE  /\ job[j] \in {"offered", "received", "admitted", "running"}
         /\ ~StartJobRun(j)
<1>1. ~StartJobRun(j)
  BY DEF StartJobRun, JobGoto, DaemonTypeOK
<1>2. ASSUME NEW i \in Job, JobStep(i) \/ StopWaiting(i)
      PROVE  job'[j] = job[j]
  BY <1>2 DEF JobStep, StopWaiting, PrepareJobFails, StartJobRun, JobRunStarted, JobRunRaised,
              SeeTerminalRow, HandOff, HandOffEscapes, CloseClaim, JobGoto, DaemonTypeOK
<1>3. ASSUME NEW s \in Caller, SyncStep(s)
      PROVE  job[j] \in {"offered", "received", "admitted", "running"}
  <2>1. ASSUME NEW jobs, ReceiveJobs(s, jobs) \/ DropJobs(s, jobs)
        PROVE  job'[j] = job[j] \/ job[j] = "offered"
    BY <2>1 DEF ReceiveJobs, DropJobs
  <2>2. ASSUME NEW i \in Job,
               \/ RefuseJob(s, i) \/ AdmitJob(s, i) \/ StartJobThread(s, i) \/ JobThreadFails(s, i)
               \/ GiveUpJob(s, i)
        PROVE  job'[j] = job[j] \/ job[j] \in {"offered", "received", "admitted", "running"}
    <3>1. CASE RefuseJob(s, i) \/ JobThreadFails(s, i) \/ GiveUpJob(s, i)
      BY <3>1 DEF RefuseJob, JobThreadFails, GiveUpJob, JobGoto, DaemonTypeOK
    <3>2. CASE StartJobThread(s, i)
      BY <3>2 DEF StartJobThread, JobGoto, DaemonTypeOK
    <3>3. CASE AdmitJob(s, i)
      <4>1. job[i] = "received"
        BY <3>3 DEF AdmitJob, At, InboxBook
      <4> QED
        BY <3>3, <4>1 DEF AdmitJob, JobGoto, DaemonTypeOK
    <3> QED
      BY <2>2, <3>1, <3>2, <3>3
  <2>3. CASE UNCHANGED job
    BY <2>3
  <2> QED
    BY <1>3, <2>1, <2>2, <2>3 DEF SyncStep, ExchangeFails, FlushSucceeds, ProveBoundary,
                                  FailBoundary,
       CloseSync, AllAccepted
<1> QED
  BY <1>1, <1>2, <1>3, JobCases

\* "Not safe to classify as idle" (_execute_run_with_lifecycle) holds as long
\* as threads start and the store writes and is not shut down: no other path
\* leaves a row that is not terminal without a lease or a doubt.
THEOREM IdleOverTerminalRows ==
  ASSUME Fault \cap {"thread", "store", "shutdown"} = {}
  PROVE  DaemonSpec => []IdleRunsAreTerminal
<1>1. DaemonInit => LiveRowsHeld
  BY DEF DaemonInit, Init, LiveRowsHeld, LiveRow, IdleRunsAreTerminal, Run
<1>2. DaemonInv /\ BookInv /\ ~closed /\ LiveRowsHeld /\ [DaemonNext]_daemonVars
        => LiveRowsHeld'
  <2>1. ASSUME DaemonInv, BookInv, ~closed, LiveRowsHeld, DaemonNext
        PROVE  LiveRowsHeld'
    <3> USE <2>1 DEF DaemonInv
    <3>1. [Next]_vars
      BY DaemonStepCases
    <3>2. (unknownWork => unknownWork') /\ (stopping' /\ ~stopping => CommitEnabled')
          /\ IInv' /\ Held'
      BY <3>1, StepFacts, IInvStep, HeldStep DEF IInv
    <3>3. ASSUME NEW j \in Job, StartJobRun(j)
          PROVE  /\ \A r \in Run : LiveRow(r)'
                 /\ \A q \in Run : q # j => run'[q] = run[q]
                 /\ UNCHANGED row
      <4>1. /\ run' = [run EXCEPT ![j].at = "leased"] /\ row' = row /\ job[j] = "running"
            /\ run[j].at = "none" /\ j \in Run
        BY <3>3, LeaseFacts DEF StartJobRun, RunGoto, LiveRowsHeld
      <4>2. row[j] # "live" /\ \A q \in Run : q # j => run'[q] = run[q]
        BY <4>1 DEF LiveRowsHeld, LiveRow, DaemonTypeOK
      <4> QED
        BY <3>2, <4>1, <4>2 DEF LiveRowsHeld, LiveRow
    <3>4. ASSUME NEW r \in Run, RunStep(r) \/ (r \in UserRun /\ StartUserRun(r))
          PROVE  /\ \A q \in Run : LiveRow(q)'
                 /\ run[r].at = "none" => r \in UserRun
                 /\ \A q \in Run : q # r => run'[q] = run[q]
                 /\ \A q \in Run : row'[q] = "live" => row[q] = "live" \/ run[q].at \notin RunAtRest
      <4>1. LiveRow(r)
        BY DEF LiveRowsHeld
      <4>2. /\ LiveRow(r)'
            /\ run[r].at = "none" => r \in UserRun
            /\ \A q \in Run : q # r => run'[q] = run[q] /\ row'[q] = row[q]
            /\ row'[r] = "live" => row[r] = "live" \/ run[r].at \notin RunAtRest
        BY <3>2, <3>4, <4>1, LiveRowStep
      <4> QED
        BY <3>2, <4>2 DEF LiveRowsHeld, LiveRow
    <3>5. \A r \in Run : LiveRow(r)'
      <4>1. CASE UNCHANGED <<run, row>>
        BY <3>2, <4>1 DEF LiveRowsHeld, LiveRow
      <4> QED
        BY <3>3, <3>4, <4>1, RunRowCases
    <3>6. ASSUME NEW j \in Job, job'[j] \in {"offered", "received", "admitted", "running"}
          PROVE  run'[j].at = "none"
      <4>1. run[j].at = "none" /\ ~StartJobRun(j) /\ j \in Run /\ j \notin UserRun
        BY <3>6, JobBeforeRun, LeaseFacts DEF LiveRowsHeld, BookInv
      <4>2. run'[j] = run[j]
        <5>1. ASSUME NEW i \in Job, StartJobRun(i)
              PROVE  run'[j] = run[j]
          BY <3>3, <4>1, <5>1
        <5>2. ASSUME NEW r \in Run, RunStep(r) \/ (r \in UserRun /\ StartUserRun(r))
              PROVE  run'[j] = run[j]
          BY <3>4, <4>1, <5>2
        <5> QED
          BY <5>1, <5>2, RunRowCases
      <4> QED
        BY <4>1, <4>2
    <3>7. IdleRunsAreTerminal'
      <4>1. CASE stopping
        <5>1. \A r \in Run : run[r].at \in RunAtRest /\ row[r] # "live"
          BY <4>1, StopRests DEF LiveRowsHeld, IdleRunsAreTerminal
        <5>2. \A r \in Run : row'[r] # "live"
          BY <3>3, <3>4, <5>1, RunRowCases
        <5> QED
          BY <5>2 DEF IdleRunsAreTerminal
      <4>2. ASSUME ~stopping, stopping'
            PROVE  \A r \in Run : row'[r] # "live"
        <5>1. ~unknownWork'
          BY <3>2, <4>2 DEF CommitEnabled, Blocked
        <5>2. \A r \in Run : run'[r].at \in RunAtRest
          BY <3>2, <4>2, StopsRest
        <5> QED
          BY <3>5, <5>1, <5>2 DEF LiveRow, RunAtRest
      <4> QED
        BY <4>1, <4>2 DEF IdleRunsAreTerminal
    <3> QED
      BY <3>5, <3>6, <3>7 DEF LiveRowsHeld
  <2>2. ASSUME LiveRowsHeld, UNCHANGED daemonVars
        PROVE  LiveRowsHeld'
    BY <2>2 DEF daemonVars, vars, doubt, commit, threads, LiveRowsHeld, LiveRow, IdleRunsAreTerminal
  <2> QED
    BY <2>1, <2>2
<1>3. LiveRowsHeld => IdleRunsAreTerminal
  BY DEF LiveRowsHeld
<1>4. DaemonSpec => [](~closed)
  BY StoreStaysOpen
<1> QED
  BY <1>1, <1>2, <1>3, <1>4, BookInvariance, PTL DEF DaemonSpec

-----------------------------------------------------------------------------

\* A user's run is the root of its own lineage, which nobody else seals: its
\* terminal commit is never refused.
UserRunsPersist == \A r \in UserRun : RunIsAt(r, "over") => row[r] = "terminal"

UserRow(r) ==
  /\ run[r].at # "escaping"
  /\ run[r].at \in {"committed", "release", "over"} => row[r] = "terminal"

\* "Persist the final run state" (_execute_run) holds of every run a local
\* client starts, through any drain and any stop, as long as the store is there
\* and writes, and _execute_run gets past its files: only the claim of a job can
\* be closed under its run.
THEOREM UserRunsAreWritten ==
  ASSUME Fault \cap {"store", "files", "shutdown"} = {}
  PROVE  DaemonSpec => []UserRunsPersist
<1> DEFINE Written == \A r \in UserRun : UserRow(r)
<1>1. DaemonInit => Written
  BY DEF DaemonInit, UserRow, Run
<1>2. DaemonInv /\ BookInv /\ ~closed /\ Written /\ [DaemonNext]_daemonVars => Written'
  <2>1. ASSUME DaemonInv, BookInv, ~closed, Written, DaemonNext, NEW r \in UserRun
        PROVE  UserRow(r)'
    <3>0. DaemonTypeOK
      BY <2>1 DEF DaemonInv
    <3>1. UserRow(r) /\ r \in Run /\ r \notin Job /\ LineageOf(r) = RunLease(r)
      BY <2>1, NamesDiffer, LeaseFacts
    <3>2. ~CommitRefused(r)
      BY <2>1, <3>1 DEF CommitRefused, RejectDescendant, BookInv, Holders, RunBook, RunIsAt,
                        RunAtRest
    <3>3. ASSUME NEW q \in Run, RunStep(q) \/ StartUserRun(q), q # r
          PROVE  run'[r] = run[r] /\ row'[r] = row[r]
      BY <3>0, <3>1, <3>3 DEF RunStep, StartUserRun, CreateRunFails, CreateRun, PrepareRunFails,
         StartingWriteFails, StartRunThread, RunThreadFails, WorkerEnds, WorkerBreaks, BeginCommit,
         CommitRefused, CommitRow, CommitSkipped, CommitRaises, EndCommit, RunEscapes, ReleaseRun,
         AfterFailedCommit, RunGoto, DaemonTypeOK
    <3>4. ASSUME NEW j \in Job, StartJobRun(j)
          PROVE  run'[r] = run[r] /\ row'[r] = row[r]
      BY <2>1, <3>1, <3>4 DEF StartJobRun, RunGoto, DaemonInv, DaemonTypeOK
    <3>5. ASSUME RunStep(r) \/ StartUserRun(r)
          PROVE  UserRow(r)'
      <4> USE DEF DaemonInv, DaemonTypeOK
      <4>1. CASE \/ StartUserRun(r) \/ CreateRunFails(r) \/ CreateRun(r) \/ PrepareRunFails(r)
                 \/ StartRunThread(r) \/ RunThreadFails(r) \/ WorkerEnds(r) \/ BeginCommit(r)
        <5>1. run'[r].at \in {"leased", "refused", "bound", "commit", "worker", "stranded",
                              "committing"}
          BY <2>1, <3>1, <4>1 DEF StartUserRun, CreateRunFails, CreateRun, PrepareRunFails,
                      StartRunThread, RunThreadFails, WorkerEnds, BeginCommit, RunGoto
        <5> QED
          BY <5>1 DEF UserRow
      <4>2. CASE CommitRow(r)
        BY <2>1, <3>1, <4>2 DEF CommitRow, RunGoto, UserRow
      <4>3. CASE EndCommit(r)
        BY <2>1, <3>1, <4>3 DEF EndCommit, RunGoto, RunIsAt, UserRow
      <4>4. CASE ReleaseRun(r)
        <5>1. /\ run[r].at = "release" /\ run'[r].at \in {"over", "stranded"} /\ row' = row
          BY <2>1, <3>1, <4>4 DEF ReleaseRun, RunIsAt, RunGoto
        <5> QED
          BY <3>1, <5>1 DEF UserRow
      <4>5. CASE RunEscapes(r)
        BY <3>1, <4>5 DEF RunEscapes, RunIsAt, UserRow
      <4>6. CASE StartingWriteFails(r) \/ WorkerBreaks(r) \/ CommitSkipped(r)
        BY <2>1, <4>6 DEF StartingWriteFails, WorkerBreaks, CommitSkipped, StoreRaises
      <4>7. CASE CommitRaises(r)
        BY <4>7 DEF CommitRaises
      <4> QED
        BY <3>2, <3>5, <4>1, <4>2, <4>3, <4>4, <4>5, <4>6, <4>7 DEF RunStep
    <3> QED
      BY <2>1, <3>1, <3>3, <3>4, <3>5, RunRowCases DEF UserRow
  <2>2. ASSUME Written, UNCHANGED daemonVars
        PROVE  Written'
    BY <2>2 DEF daemonVars, threads, UserRow
  <2> QED
    BY <2>1, <2>2
<1>3. Written => UserRunsPersist
  BY DEF UserRow, UserRunsPersist, RunIsAt
<1>4. DaemonSpec => [](~closed)
  BY StoreStaysOpen
<1> HIDE DEF Written
<1> QED
  BY <1>1, <1>2, <1>3, <1>4, BookInvariance, PTL DEF DaemonSpec

-----------------------------------------------------------------------------

LEMMA WorkLeavesBoundary ==
  ASSUME DaemonTypeOK,
         \/ \E j \in Job : JobStep(j) \/ StopWaiting(j)
         \/ \E r \in Run : RunStep(r) \/ StartUserRun(r)
         \/ \E m \in Mutation : BeginMutation(m) \/ EndMutation(m)
  PROVE  UNCHANGED <<drain, boundary>> /\ \A c \in Caller : sync'[c].at = sync[c].at
<1>1. ASSUME NEW j \in Job, JobStep(j) \/ StopWaiting(j)
      PROVE  UNCHANGED <<drain, boundary, sync>>
  <2>1. CASE StartJobRun(j)
    BY <2>1, ReservePoll DEF StartJobRun, ReserveDescendant
  <2>2. CASE ~StartJobRun(j)
    BY <1>1, <2>2, CompletePoll DEF JobStep, PrepareJobFails, JobRunStarted, JobRunRaised,
       SeeTerminalRow, HandOff, HandOffEscapes, StopWaiting, CloseClaim, RecordUnknownWork, vars,
       control
  <2> QED
    BY <2>1, <2>2
<1>2. ASSUME NEW r \in Run, RunStep(r) \/ StartUserRun(r)
      PROVE  UNCHANGED <<drain, boundary, sync>>
  <2>1. CASE StartUserRun(r)
    BY <2>1, ReservePoll DEF StartUserRun, ReserveRoot
  <2>2. CASE BeginCommit(r)
    BY <2>2, ReservePoll DEF BeginCommit, ReserveDescendant
  <2>3. CASE CreateRunFails(r) \/ RunThreadFails(r) \/ ReleaseRun(r) \/ CommitRaises(r) \/ EndCommit(r)
    BY <2>3, CompletePoll DEF CreateRunFails, RunThreadFails, ReleaseRun, CommitRaises, EndCommit
  <2>4. CASE \/ CreateRun(r) \/ PrepareRunFails(r) \/ StartingWriteFails(r) \/ StartRunThread(r)
             \/ WorkerEnds(r) \/ WorkerBreaks(r) \/ CommitRow(r) \/ CommitSkipped(r)
           \/ CommitRefused(r) \/ RunEscapes(r)
    BY <2>4 DEF CreateRun, PrepareRunFails, StartingWriteFails, StartRunThread, WorkerEnds,
                WorkerBreaks, CommitRow, CommitSkipped,
                CommitRefused, RunEscapes, RejectDescendant, RecordUnknownWork, vars, control
  <2> QED
    BY <1>2, <2>1, <2>2, <2>3, <2>4 DEF RunStep
<1>3. ASSUME NEW m \in Mutation, BeginMutation(m)
      PROVE  UNCHANGED <<drain, boundary, sync>>
  BY <1>3, ReservePoll DEF BeginMutation, ReserveRoot
<1>4. ASSUME NEW m \in Mutation, EndMutation(m)
      PROVE  UNCHANGED <<drain, boundary>> /\ \A c \in Caller : sync'[c].at = sync[c].at
  <2>1. UNCHANGED <<drain, boundary>>
    BY <1>4, CompletePoll DEF EndMutation
  <2> QED
    BY <1>4, <2>1, MutationLeavesSync DEF DaemonTypeOK, SyncRecord
<1> QED
  BY <1>1, <1>2, <1>3, <1>4

\* A sync call never marks the boundary "not required", and looks for no
\* credentials.
LEMMA SyncLeavesBoundary ==
  ASSUME DaemonTypeOK, NEW s \in Caller, SyncStep(s) \/ BeginSync(s)
  PROVE  /\ drain' = drain
         /\ boundary' = boundary \/ boundary' # "not_required"
         /\ \A c \in Caller : sync'[c].at = sync[c].at \/ sync'[c].at # "absent"
<1> USE DEF DaemonTypeOK, Goto, Call
<1>1. CASE BeginSync(s)
  BY <1>1, ReservePoll DEF BeginSync, BeginPoll, BeginFlush, ReserveRoot
<1>2. CASE CloseSync(s)
  BY <1>2, CompletePoll DEF CloseSync, AfterClose
<1>3. CASE ProveBoundary(s) \/ FailBoundary(s)
  BY <1>3 DEF ProveBoundary, FailBoundary, MarkProven, MarkBoundary, MarkFailedIfDraining,
              MarkFailed, vars, control
<1>4. CASE \E j \in Job : AdmitJob(s, j) \/ StartJobThread(s, j)
  <2>1. Goto(s, "start") \/ Goto(s, "accept")
    BY <1>4 DEF AdmitJob, StartJobThread
  <2>2. UNCHANGED <<drain, boundary>>
    <3>1. ASSUME NEW j, AdmitJob(s, j)
          PROVE  UNCHANGED <<drain, boundary>>
      BY <3>1, ReservePoll DEF AdmitJob, AdmitRemoteClaim
    <3>2. ASSUME NEW j, StartJobThread(s, j)
          PROVE  UNCHANGED <<drain, boundary>>
      BY <3>2 DEF StartJobThread, Activate, control
    <3> QED
      BY <1>4, <3>1, <3>2
  <2> QED
    BY <2>1, <2>2
<1>5. CASE \E j \in Job : GiveUpJob(s, j)
  <2>1. PICK j \in Job : GiveUpJob(s, j)
    BY <1>5
  <2>2. UNCHANGED <<drain, boundary>>
    BY <2>1, CompletePoll DEF GiveUpJob
  <2> QED
    BY <2>1, <2>2 DEF GiveUpJob
<1>6. CASE \E j \in Job : RefuseJob(s, j) \/ JobThreadFails(s, j)
  BY <1>6 DEF RefuseJob, JobThreadFails, RecordUnknownWork, control
<1>7. CASE \/ ExchangeFails(s) \/ FlushSucceeds(s) \/ AllAccepted(s)
           \/ \E jobs \in SUBSET Job : ReceiveJobs(s, jobs) \/ DropJobs(s, jobs)
  BY <1>7 DEF ExchangeFails, FlushSucceeds, AllAccepted, ReceiveJobs, DropJobs, vars, control
<1> QED
  BY <1>1, <1>2, <1>3, <1>4, <1>5, <1>6, <1>7 DEF SyncStep

\* A boundary is "not required" only where there is no connection.
Unconnected ==
  connected => /\ \A d \in DrainId : sync[d].at # "absent"
               /\ drain # NoDrain => boundary # "not_required"

\* "Or prove no central lease exists" (_establish_lifecycle_claim_boundary)
\* holds as long as the connection does not change: the credentials it reads
\* before the lock are then the ones that count.
THEOREM NoLeaseIfConnectionStands ==
  DaemonSpec /\ [][FALSE]_connected => []NoCentralLease
<1>1. DaemonInit => Unconnected
  BY DEF DaemonInit, Init, Unconnected, Idle, Call, Caller
<1>2. DaemonInv /\ Unconnected /\ [DaemonNext]_daemonVars /\ [FALSE]_connected => Unconnected'
  <2>1. ASSUME DaemonInv, Unconnected, DaemonNext, connected' = connected, connected
        PROVE  /\ \A d \in DrainId : sync'[d].at # "absent"
               /\ drain' # NoDrain => boundary' # "not_required"
    <3> USE DEF DaemonInv, DaemonTypeOK, Unconnected
    <3>1. DrainId \subseteq Caller
      BY DEF Caller
    <3>2. CASE \/ \E j \in Job : JobStep(j) \/ StopWaiting(j)
               \/ \E r \in Run : RunStep(r) \/ StartUserRun(r)
               \/ \E m \in Mutation : BeginMutation(m) \/ EndMutation(m)
      BY <2>1, <3>1, <3>2, WorkLeavesBoundary
    <3>3. CASE SupervisorStep /\ ~(\E m \in Mutation : BeginMutation(m))
      <4>1. ASSUME NEW e \in 1..MaxRevision, RequestLifecycleDrain(e)
            PROVE  boundary' = "pending" /\ SeekCoordinator(drain')
        BY <4>1 DEF RequestLifecycleDrain, RequestDrain
      <4>2. ReplayLifecycleDrain => UNCHANGED <<drain, boundary>> /\ SeekCoordinator(drain)
        BY DEF ReplayLifecycleDrain, vars, control
      <4>3. ASSUME NEW d, NEW e, CancelLifecycleDrain(d, e)
            PROVE  drain' = NoDrain /\ UNCHANGED sync
        BY <4>3 DEF CancelLifecycleDrain, CancelDrain, threads
      <4>4. ASSUME NEW n, SeekCoordinator(n), NEW d \in DrainId
            PROVE  sync'[d].at # "absent"
        BY <2>1, <3>1, <4>4 DEF SeekCoordinator
      <4> QED
        BY <2>1, <3>3, <4>1, <4>2, <4>3, <4>4 DEF SupervisorStep
    <3>4. CASE ControllerStep
      <4>1. UNCHANGED <<sync, drain, boundary>>
        BY <3>4 DEF ControllerStep, BindExitCallback, ExitSignalled, ExitFailed, threads, control
      <4> QED
        BY <2>1, <4>1
    <3>5. ASSUME NEW s \in Caller, SyncStep(s) \/ BeginSync(s)
          PROVE  /\ \A d \in DrainId : sync'[d].at # "absent"
                 /\ drain' # NoDrain => boundary' # "not_required"
      BY <2>1, <3>1, <3>5, SyncLeavesBoundary
    <3>6. ASSUME NEW d \in DrainId, CoordinatorStep(d), ~BeginSync(d)
          PROVE  /\ \A c \in DrainId : sync'[c].at # "absent"
                 /\ drain' # NoDrain => boundary' # "not_required"
      <4>1. ~ReportAbsent(d)
        BY <2>1 DEF ReportAbsent, At
      <4>2. CASE StartCoordinator(d) \/ CoordinatorStartFails(d) \/ ReadCredentials(d)
        BY <2>1, <3>1, <4>2 DEF StartCoordinator, CoordinatorStartFails, ReadCredentials, Goto,
                                vars,
                                control
      <4>3. CASE ReportError(d)
        BY <2>1, <3>1, <4>3 DEF ReportError, Goto, MarkFailedIfDraining, MarkFailed, vars, control
      <4> QED
        BY <3>6, <4>1, <4>2, <4>3 DEF CoordinatorStep
    <3>7. Syncer \subseteq Caller /\ UserRun \subseteq Run
      BY DEF Caller, Run
    <3>8. CASE CloseStore
      BY <2>1, <3>8 DEF CloseStore, vars, control
    <3> QED
      BY <2>1, <3>1, <3>2, <3>3, <3>4, <3>5, <3>6, <3>7, <3>8
         DEF DaemonNext, SupervisorStep
  <2>2. ASSUME Unconnected, UNCHANGED daemonVars
        PROVE  Unconnected'
    BY <2>2 DEF daemonVars, vars, control, threads, Unconnected
  <2> QED
    BY <2>1, <2>2 DEF Unconnected
<1>3. DaemonInv /\ Unconnected => NoCentralLease
  BY DEF Unconnected, NoCentralLease, DaemonInv, IInv, GateInv
<1> QED
  BY <1>1, <1>2, <1>3, DaemonInvariance, PTL DEF DaemonSpec

\* The whole daemon, whatever its threads do, keeps the when-idle stop's
\* promise to its supervisor.
THEOREM DaemonKeepsPromise == DaemonSpec => PromiseSpec
  BY DaemonUsesController, ImplementsPromise, PTL
=============================================================================
