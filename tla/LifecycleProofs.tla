-------------------------- MODULE LifecycleProofs --------------------------
(* Proofs about Lifecycle, for every Work, Lineage and MaxRevision. *)
EXTENDS Lifecycle, TLAPS

\* The gate, the drain and the exit thread move together.
GateInv ==
  /\ admissionOpen <=> drain = NoDrain
  /\ drain # NoDrain => drain = revision
  /\ stopping => drain # NoDrain
  /\ stopping <=> exit # "none"

\* A drain lineage is a live table entry and holds descendant work only.
DrainWorkInv ==
  /\ drainLineages \subseteq lineages
  /\ \A r \in works : r.lineage \in drainLineages => r.kind \in DescendantKinds

\* After the commit the table holds nothing but drain lineages.
StoppingInv == stopping => lineages \subseteq drainLineages

\* The inductive invariant.  StoppingRunsOnlyFlushes and NoMissedCommit alone
\* are not inductive: a claim must be known to find no poll while stopping,
\* and an empty work table must be known to mean an empty lineage table.
IInv ==
  /\ TypeOK
  /\ GateInv
  /\ LineagesAccounted
  /\ DrainWorkInv
  /\ StoppingInv
  /\ NoMissedCommit

LEMMA InitIInv == Init => IInv
<1> SUFFICES ASSUME Init PROVE IInv
  OBVIOUS
<1> USE DEF Init, NoDrain
<1>1. TypeOK
  <2>1. revision \in 1..MaxRevision
    BY LifecycleAssumption
  <2> QED
    BY <2>1 DEF TypeOK, Boundaries
<1>2. GateInv /\ StoppingInv /\ NoMissedCommit
  BY DEF GateInv, StoppingInv, NoMissedCommit, CommitEnabled
<1>3. LineagesAccounted /\ DrainWorkInv
  BY DEF LineagesAccounted, DrainWorkInv, lineages
<1> QED
  BY <1>1, <1>2, <1>3 DEF IInv

\* Type correctness is kept by every step.
LEMMA TypeStep == TypeOK /\ [Next]_vars => TypeOK'
<1> SUFFICES ASSUME TypeOK, [Next]_vars PROVE TypeOK'
  OBVIOUS
<1> USE DEF TypeOK, ledger, control, doubt, commit, NoDrain, Boundaries
<1>a. CASE WorkStep
  <2>1. ASSUME NEW w \in Work, NEW k \in RootKinds \cup DescendantKinds,
               NEW l \in Lineage, NEW phase \in Phases, Reserve(w, k, l, phase)
        PROVE  /\ works' \subseteq WorkRecord
               /\ openLineages' \subseteq Lineage
               /\ UNCHANGED <<sealedLineages, control, doubt, commit, boundary, exitCallback>>
    BY <2>1 DEF Reserve, WorkRecord
  <2>2. ASSUME NEW w \in Work, NEW k \in RootKinds, NEW l \in Lineage, NEW phase \in Phases,
               ReserveRoot(w, k, l, phase)
        PROVE  TypeOK'
    BY <2>1, <2>2 DEF ReserveRoot
  <2>3. ASSUME NEW w \in Work, NEW k \in DescendantKinds, NEW l \in Lineage,
               NEW phase \in Phases, ReserveDescendant(w, k, l, phase)
        PROVE  TypeOK'
    BY <2>1, <2>3 DEF ReserveDescendant
  <2>4. ASSUME NEW w \in Work, NEW l \in Lineage, BeginPoll(w, l)
        PROVE  TypeOK'
    BY <2>2, <2>4 DEF BeginPoll, RootKinds, Phases
  <2>5. ASSUME NEW w \in Work, NEW l \in Lineage, BeginFlush(w, l)
        PROVE  TypeOK'
    BY <2>1, <2>5 DEF BeginFlush, DescendantKinds, Phases
  <2>6. ASSUME NEW w \in Work, NEW l \in Lineage, NEW p \in Work, AdmitRemoteClaim(p, w, l)
        PROVE  TypeOK'
    BY <2>1, <2>6 DEF AdmitRemoteClaim, RootKinds, Phases
  <2>7. ASSUME NEW w \in Work, Activate(w)
        PROVE  TypeOK'
    <3>1. works' \subseteq WorkRecord
      BY <2>7 DEF Activate, WorkRecord, Phases
    <3> QED
      BY <2>7, <3>1 DEF Activate
  <2>8. ASSUME NEW w \in Work, NEW seal \in BOOLEAN, Complete(w, seal)
        PROVE  TypeOK'
    BY <2>8 DEF Complete, SealAndDrop, MaybeCommitStop, WorkRecord
  <2> QED
    BY <1>a, <2>2, <2>3, <2>4, <2>5, <2>6, <2>7, <2>8 DEF WorkStep
<1>b. CASE RejectStep
  BY <1>b DEF RejectStep, RejectDescendant, RejectRemoteClaim, SealUnknownLineage, RecordUnknownWork
<1>c. CASE ControlStep
  <2>1. ASSUME NEW l \in Lineage, SealLineage(l) PROVE TypeOK'
    BY <2>1 DEF SealLineage, SealAndDrop, MaybeCommitStop, WorkRecord
  <2>2. CASE MarkNotRequired \/ MarkProven
    BY <2>2 DEF MarkNotRequired, MarkProven, MarkBoundary, MaybeCommitStop
  <2>3. ASSUME NEW unknown \in BOOLEAN, MarkFailed(unknown) PROVE TypeOK'
    BY <2>3 DEF MarkFailed
  <2>4. ASSUME NEW e \in 1..MaxRevision, RequestDrain(e) PROVE TypeOK'
    <3>1. revision + 1 \in 1..MaxRevision
      BY <2>4, LifecycleAssumption DEF RequestDrain
    <3> QED
      BY <2>4, <3>1 DEF RequestDrain
  <2>5. ASSUME NEW d \in 1..MaxRevision, NEW e \in 1..MaxRevision, CancelDrain(d, e)
        PROVE  TypeOK'
    <3>1. revision + 1 \in 1..MaxRevision
      BY <2>5, LifecycleAssumption DEF CancelDrain, CancelFence
    <3> QED
      BY <2>5, <3>1 DEF CancelDrain, CancelFence
  <2>6. CASE BindExitCallback
    BY <2>6 DEF BindExitCallback, MaybeCommitStop
  <2>7. CASE ExitSignalled \/ ExitFailed
    BY <2>7 DEF ExitSignalled, ExitFailed
  <2> QED
    BY <1>c, <2>1, <2>2, <2>3, <2>4, <2>5, <2>6, <2>7 DEF ControlStep
<1>d. CASE UNCHANGED vars
  BY <1>d DEF vars
<1> QED
  BY <1>a, <1>b, <1>c, <1>d DEF Next

\* Type correctness of the controller, for any callers.
THEOREM TypeCorrect == Spec => []TypeOK
<1>1. Init => TypeOK
  BY InitIInv DEF IInv
<1> QED
  BY <1>1, TypeStep, PTL DEF Spec

-----------------------------------------------------------------------------
(* The inductive invariant. *)

\* With every record in the table and every sealed lineage busy, no blocker
\* means an empty work table and an empty lineage table.
LEMMA CommitEmpties ==
  LineagesAccounted /\ CommitEnabled => works = {} /\ lineages = {}
  BY DEF LineagesAccounted, CommitEnabled, Blocked, Busy, lineages

\* What a method that ends with _maybe_commit_stop_locked owes: the rest of
\* the invariant, and that it adds no lineage to a stopping daemon.
LEMMA MaybeCommitKeeps ==
  ASSUME TypeOK, TypeOK', LineagesAccounted', MaybeCommitStop,
         stopping => lineages' \subseteq drainLineages'
  PROVE  /\ StoppingInv'
         /\ NoMissedCommit'
         /\ stopping => stopping'
         /\ (stopping' /\ ~stopping) => CommitEnabled'
         /\ (stopping <=> exit # "none") => (stopping' <=> exit' # "none")
<1>1. CASE ~stopping /\ CommitEnabled'
  <2>1. (LineagesAccounted /\ CommitEnabled => works = {} /\ lineages = {})'
    BY CommitEmpties, PTL
  <2> QED
    BY <1>1, <2>1 DEF MaybeCommitStop, StoppingInv, NoMissedCommit
<1>2. CASE ~(~stopping /\ CommitEnabled')
  BY <1>2 DEF MaybeCommitStop, StoppingInv, NoMissedCommit, commit, TypeOK
<1> QED
  BY <1>1, <1>2

\* A reservation in a new lineage l, or in an open one, by a daemon that is
\* not stopping or that is only flushing.
LEMMA ReserveKeeps ==
  ASSUME IInv, TypeOK',
         NEW w \in Work, NEW k \in RootKinds \cup DescendantKinds,
         NEW l \in Lineage, NEW phase \in Phases,
         Reserve(w, k, l, phase),
         l \notin sealedLineages,
         drainLineages \subseteq drainLineages',
         drainLineages' \subseteq drainLineages \cup {l},
         l \in drainLineages' => l \in drainLineages \/ ~Busy(l),
         l \in drainLineages' => k \in DescendantKinds,
         stopping => l \in drainLineages'
  PROVE  IInv'
<1> USE DEF IInv, Reserve
<1>1. GateInv'
  BY DEF GateInv, control, commit
<1>2. LineagesAccounted'
  BY DEF LineagesAccounted, lineages, Busy
<1>3. DrainWorkInv'
  BY DEF DrainWorkInv, lineages, Busy
<1>4. StoppingInv'
  BY DEF StoppingInv, lineages, commit
<1>5. NoMissedCommit'
  <2>1. works' # {}
    OBVIOUS
  <2> QED
    BY <2>1 DEF NoMissedCommit, CommitEnabled, Blocked
<1> QED
  BY <1>1, <1>2, <1>3, <1>4, <1>5

\* A step that only adds to what is in doubt.
LEMMA RecordUnknownKeeps ==
  ASSUME IInv, TypeOK', RecordUnknownWork
  PROVE  IInv'
<1> USE DEF IInv, RecordUnknownWork, ledger, control, commit
<1>1. GateInv' /\ StoppingInv'
  BY DEF GateInv, StoppingInv, lineages
<1>2. LineagesAccounted' /\ DrainWorkInv'
  BY DEF LineagesAccounted, DrainWorkInv, lineages, Busy
<1>3. NoMissedCommit'
  BY DEF NoMissedCommit, CommitEnabled, Blocked
<1> QED
  BY <1>1, <1>2, <1>3

\* Sealing and dropping after the records of lineage l have shrunk by some
\* records of l (completion) or by none (an explicit seal).
LEMMA SealAndDropKeeps ==
  ASSUME LineagesAccounted, DrainWorkInv,
         NEW l, NEW seal \in BOOLEAN, l \in lineages,
         works' \subseteq works,
         \A r \in works : r.lineage # l => r \in works',
         SealAndDrop(l, seal)
  PROVE  /\ LineagesAccounted'
         /\ DrainWorkInv'
         /\ lineages' \subseteq lineages
         /\ drainLineages' = drainLineages \cap lineages'
<1> USE DEF SealAndDrop, lineages
<1>1. lineages' \subseteq lineages /\ drainLineages' = drainLineages \cap lineages'
  OBVIOUS
<1>2. LineagesAccounted'
  BY DEF LineagesAccounted, Busy
<1>3. DrainWorkInv'
  BY <1>1 DEF DrainWorkInv
<1> QED
  BY <1>1, <1>2, <1>3

LEMMA WorkStepKeeps ==
  ASSUME IInv, TypeOK', WorkStep
  PROVE  IInv'
<1> USE DEF IInv
<1>1. ASSUME NEW w \in Work, NEW k \in RootKinds, NEW l \in Lineage, NEW phase \in Phases,
             ReserveRoot(w, k, l, phase)
      PROVE  IInv'
  <2>1. ~stopping /\ l \notin lineages /\ l \notin drainLineages
    BY <1>1 DEF ReserveRoot, GateInv, DrainWorkInv
  <2> QED
    BY <1>1, <2>1, ReserveKeeps DEF ReserveRoot, lineages
<1>2. ASSUME NEW w \in Work, NEW k \in DescendantKinds, NEW l \in Lineage,
             NEW phase \in Phases, ReserveDescendant(w, k, l, phase)
      PROVE  IInv'
  <2>1. l \notin sealedLineages /\ (stopping => l \in drainLineages)
    BY <1>2 DEF ReserveDescendant, LineagesAccounted, StoppingInv, lineages
  <2> QED
    BY <1>2, <2>1, ReserveKeeps DEF ReserveDescendant
<1>3. ASSUME NEW w \in Work, NEW l \in Lineage, BeginPoll(w, l)
      PROVE  IInv'
  BY <1>1, <1>3 DEF BeginPoll, RootKinds, Phases
<1>4. ASSUME NEW w \in Work, NEW l \in Lineage, BeginFlush(w, l)
      PROVE  IInv'
  <2>1. ~Busy(l)
    BY <1>4 DEF BeginFlush, LineagesAccounted, Busy
  <2> QED
    BY <1>4, <2>1, ReserveKeeps DEF BeginFlush, DescendantKinds, Phases, lineages
<1>5. ASSUME NEW w \in Work, NEW l \in Lineage, NEW p \in Work, AdmitRemoteClaim(p, w, l)
      PROVE  IInv'
  <2>1. ~stopping
    BY <1>5 DEF AdmitRemoteClaim, IsPoll, StoppingInv, LineagesAccounted, DrainWorkInv,
               DescendantKinds
  <2>2. l \notin drainLineages
    BY <1>5 DEF AdmitRemoteClaim, DrainWorkInv
  <2> QED
    BY <1>5, <2>1, <2>2, ReserveKeeps DEF AdmitRemoteClaim, RootKinds, Phases, lineages
<1>6. ASSUME NEW w \in Work, Activate(w)
      PROVE  IInv'
  <2> USE <1>6 DEF Activate
  <2>1. PICK r \in works : /\ r.id = w
                           /\ works' = (works \ {r}) \cup {[r EXCEPT !.phase = "active"]}
    OBVIOUS
  <2>2. \A s \in works' : \E q \in works : q.lineage = s.lineage /\ q.kind = s.kind
    BY <2>1 DEF TypeOK, WorkRecord
  <2>3. \A q \in works : \E s \in works' : s.lineage = q.lineage
    BY <2>1 DEF TypeOK, WorkRecord
  <2>4. GateInv' /\ StoppingInv'
    BY DEF GateInv, StoppingInv, control, commit, lineages
  <2>5. LineagesAccounted'
    BY <2>2, <2>3 DEF LineagesAccounted, lineages, Busy
  <2>6. DrainWorkInv'
    BY <2>2 DEF DrainWorkInv, lineages
  <2>7. NoMissedCommit'
    BY <2>1 DEF NoMissedCommit, CommitEnabled, Blocked
  <2> QED
    BY <2>4, <2>5, <2>6, <2>7
<1>7. ASSUME NEW w \in Work, NEW seal \in BOOLEAN, Complete(w, seal)
      PROVE  IInv'
  <2>1. PICK r \in works : works' = works \ {r} /\ SealAndDrop(r.lineage, seal)
    BY <1>7 DEF Complete
  <2>2. r.lineage \in lineages
    BY <2>1 DEF LineagesAccounted
  <2>3. LineagesAccounted' /\ DrainWorkInv'
        /\ lineages' \subseteq lineages /\ drainLineages' = drainLineages \cap lineages'
    BY <2>1, <2>2, SealAndDropKeeps
  <2>4. stopping => lineages' \subseteq drainLineages'
    BY <2>3 DEF StoppingInv
  <2>5. MaybeCommitStop /\ UNCHANGED <<control, boundary, exitCallback>>
    BY <1>7 DEF Complete
  <2>6. StoppingInv' /\ NoMissedCommit' /\ GateInv'
    BY <2>3, <2>4, <2>5, MaybeCommitKeeps DEF GateInv, control, CommitEnabled
  <2> QED
    BY <2>3, <2>6
<1> QED
  BY <1>1, <1>2, <1>3, <1>4, <1>5, <1>6, <1>7 DEF WorkStep

LEMMA RejectStepKeeps ==
  ASSUME IInv, TypeOK', RejectStep
  PROVE  IInv'
  BY RecordUnknownKeeps
     DEF RejectStep, RejectDescendant, RejectRemoteClaim, SealUnknownLineage

\* Marks, callback binding and the exit thread leave the table alone.
LEMMA LedgerUnchangedKeeps ==
  ASSUME LineagesAccounted, DrainWorkInv, UNCHANGED ledger
  PROVE  LineagesAccounted' /\ DrainWorkInv' /\ lineages' = lineages
  BY DEF ledger, LineagesAccounted, DrainWorkInv, lineages, Busy

LEMMA ControlStepKeeps ==
  ASSUME IInv, TypeOK', ControlStep
  PROVE  IInv'
<1> USE DEF IInv
<1>1. ASSUME NEW l \in Lineage, SealLineage(l)
      PROVE  IInv'
  <2>1. /\ l \in lineages /\ works' = works /\ SealAndDrop(l, TRUE) /\ MaybeCommitStop
        /\ UNCHANGED <<control, boundary, exitCallback>>
    BY <1>1 DEF SealLineage
  <2>2. LineagesAccounted' /\ DrainWorkInv'
        /\ lineages' \subseteq lineages /\ drainLineages' = drainLineages \cap lineages'
    BY <2>1, SealAndDropKeeps
  <2>3. stopping => lineages' \subseteq drainLineages'
    BY <2>2 DEF StoppingInv
  <2>4. StoppingInv' /\ NoMissedCommit' /\ GateInv'
    BY <2>1, <2>2, <2>3, MaybeCommitKeeps DEF GateInv, control, CommitEnabled
  <2> QED
    BY <2>2, <2>4
<1>2. ASSUME UNCHANGED <<ledger, control>>, MaybeCommitStop
      PROVE  IInv'
  <2>1. LineagesAccounted' /\ DrainWorkInv' /\ lineages' = lineages
    BY <1>2, LedgerUnchangedKeeps
  <2>2. stopping => lineages' \subseteq drainLineages'
    BY <1>2, <2>1 DEF StoppingInv, ledger
  <2>3. StoppingInv' /\ NoMissedCommit' /\ GateInv'
    BY <1>2, <2>1, <2>2, MaybeCommitKeeps DEF GateInv, control, CommitEnabled
  <2> QED
    BY <2>1, <2>3
<1>3. CASE MarkNotRequired \/ MarkProven \/ BindExitCallback
  BY <1>2, <1>3 DEF MarkNotRequired, MarkProven, MarkBoundary, BindExitCallback
<1>4. ASSUME NEW unknown \in BOOLEAN, MarkFailed(unknown)
      PROVE  IInv'
  <2>1. UNCHANGED <<ledger, control, commit>> /\ ~CommitEnabled'
    BY <1>4 DEF MarkFailed, CommitEnabled
  <2>2. LineagesAccounted' /\ DrainWorkInv' /\ lineages' = lineages
    BY <2>1, LedgerUnchangedKeeps
  <2> QED
    BY <2>1, <2>2 DEF GateInv, StoppingInv, NoMissedCommit, control, commit, ledger
<1>5. ASSUME NEW e \in 1..MaxRevision, RequestDrain(e)
      PROVE  IInv'
  <2>1. UNCHANGED <<ledger, commit>> /\ ~CommitEnabled'
    BY <1>5 DEF RequestDrain, CommitEnabled
  <2>2. LineagesAccounted' /\ DrainWorkInv' /\ lineages' = lineages
    BY <2>1, LedgerUnchangedKeeps
  <2>3. ~admissionOpen' /\ drain' # NoDrain /\ drain' = revision'
    <3>1. revision \in Nat
      BY LifecycleAssumption DEF TypeOK
    <3> QED
      BY <1>5, <3>1 DEF RequestDrain, NoDrain
  <2> QED
    BY <2>1, <2>2, <2>3 DEF GateInv, StoppingInv, NoMissedCommit, commit, ledger
<1>6. ASSUME NEW d \in 1..MaxRevision, NEW e \in 1..MaxRevision, CancelDrain(d, e)
      PROVE  IInv'
  <2> USE <1>6 DEF CancelDrain, CancelFence
  <2>1. GateInv'
    BY DEF GateInv, commit
  <2>2. LineagesAccounted'
    BY DEF LineagesAccounted, Busy, lineages
  <2>3. DrainWorkInv'
    BY DEF DrainWorkInv, lineages
  <2>4. StoppingInv' /\ NoMissedCommit'
    BY DEF StoppingInv, NoMissedCommit, CommitEnabled, commit
  <2> QED
    BY <2>1, <2>2, <2>3, <2>4
<1>7. CASE ExitSignalled \/ ExitFailed
  <2>1. UNCHANGED <<ledger, control>>
    BY <1>7 DEF ExitSignalled, ExitFailed
  <2>2. LineagesAccounted' /\ DrainWorkInv' /\ lineages' = lineages
    BY <2>1, LedgerUnchangedKeeps
  <2>3. GateInv' /\ StoppingInv'
    BY <1>7, <2>1, <2>2 DEF ExitSignalled, ExitFailed, GateInv, StoppingInv, control, ledger
  <2>4. NoMissedCommit'
    BY <1>7, <2>3 DEF ExitSignalled, ExitFailed, GateInv, NoMissedCommit, CommitEnabled, Blocked
  <2> QED
    BY <2>2, <2>3, <2>4
<1> QED
  BY <1>1, <1>3, <1>4, <1>5, <1>6, <1>7 DEF ControlStep

LEMMA IInvStep == IInv /\ [Next]_vars => IInv'
<1> SUFFICES ASSUME IInv, [Next]_vars PROVE IInv'
  OBVIOUS
<1>1. TypeOK'
  BY TypeStep DEF IInv
<1>2. CASE UNCHANGED vars
  <2>1. LineagesAccounted' /\ DrainWorkInv' /\ lineages' = lineages
    BY <1>2, LedgerUnchangedKeeps DEF vars, IInv
  <2>2. GateInv' /\ StoppingInv'
    BY <1>2 DEF vars, IInv, GateInv, StoppingInv, lineages, ledger, control, commit
  <2>3. NoMissedCommit'
    BY <1>2 DEF vars, IInv, NoMissedCommit, CommitEnabled, Blocked, Busy, ledger, control,
                doubt, commit
  <2> QED
    BY <1>1, <2>1, <2>2, <2>3 DEF IInv
<1> QED
  BY <1>1, <1>2, WorkStepKeeps, RejectStepKeeps, ControlStepKeeps DEF Next

LEMMA Invariance == Spec => []IInv
  BY InitIInv, IInvStep, PTL DEF Spec

\* A committed stop leaves nothing running but drain flushes, whatever the
\* callers do: no run, no claim and no claim-capable poll.
THEOREM StopIsClean == Spec => []StoppingRunsOnlyFlushes
<1>1. IInv => StoppingRunsOnlyFlushes
  BY DEF IInv, StoppingInv, StoppingRunsOnlyFlushes, LineagesAccounted, DrainWorkInv
<1> QED
  BY <1>1, Invariance, PTL

\* A drain that waits for nothing has committed: no method forgets to look.
THEOREM NoLostWakeup == Spec => []NoMissedCommit
<1>1. IInv => NoMissedCommit
  BY DEF IInv
<1> QED
  BY <1>1, Invariance, PTL

\* The lineage table never keeps a settled lineage and never misses a live one.
THEOREM TableIsExact == Spec => []LineagesAccounted
<1>1. IInv => LineagesAccounted
  BY DEF IInv
<1> QED
  BY <1>1, Invariance, PTL

-----------------------------------------------------------------------------
(* Action properties. *)

\* The only steps that commit look at every blocker, doubt included, and no
\* step clears a doubt.
LEMMA StepFacts ==
  ASSUME IInv, [Next]_vars
  PROVE  /\ (stopping' /\ ~stopping) => CommitEnabled'
         /\ unknownWork => unknownWork'
         /\ outcomeUnknown => outcomeUnknown'
         /\ stopping => UNCHANGED control
<1> USE DEF doubt, commit
<1>1. CASE WorkStep
  BY <1>1 DEF WorkStep, ReserveRoot, ReserveDescendant, BeginPoll, BeginFlush, AdmitRemoteClaim,
              Reserve, Activate, Complete, MaybeCommitStop
<1>2. CASE RejectStep
  BY <1>2 DEF RejectStep, RejectDescendant, RejectRemoteClaim, SealUnknownLineage,
              RecordUnknownWork
<1>3. CASE ControlStep
  <2>1. ASSUME NEW l \in Lineage, SealLineage(l)
        PROVE  UNCHANGED <<control, doubt>> /\ MaybeCommitStop
    BY <2>1 DEF SealLineage
  <2>2. CASE MarkNotRequired \/ MarkProven \/ BindExitCallback
    BY <2>2 DEF MarkNotRequired, MarkProven, MarkBoundary, BindExitCallback, MaybeCommitStop,
                ledger
  <2>3. ASSUME NEW unknown \in BOOLEAN, MarkFailed(unknown)
        PROVE  /\ UNCHANGED <<control, stopping, unknownWork>>
               /\ outcomeUnknown => outcomeUnknown'
    BY <2>3 DEF MarkFailed
  <2>4. ASSUME NEW e \in 1..MaxRevision, RequestDrain(e)
        PROVE  UNCHANGED <<doubt, stopping>> /\ ~stopping
    BY <2>4 DEF RequestDrain, IInv, GateInv
  <2>5. ASSUME NEW d \in 1..MaxRevision, NEW e \in 1..MaxRevision, CancelDrain(d, e)
        PROVE  UNCHANGED <<doubt, stopping>> /\ ~stopping
    BY <2>5 DEF CancelDrain, CancelFence
  <2>6. CASE ExitSignalled
    BY <2>6 DEF ExitSignalled
  <2>7. CASE ExitFailed
    BY <2>7 DEF ExitFailed
  <2> QED
    BY <1>3, <2>1, <2>2, <2>3, <2>4, <2>5, <2>6, <2>7 DEF ControlStep, MaybeCommitStop
<1>4. CASE UNCHANGED vars
  BY <1>4 DEF vars
<1> QED
  BY <1>1, <1>2, <1>3, <1>4 DEF Next

\* Lost track of work is never forgotten: no sequence of cancels, drains and
\* boundary marks commits the stop afterwards.
THEOREM DoubtBlocksForEver == Spec => DoubtNeverCommits
<1>1. IInv /\ [Next]_vars => [(unknownWork \/ outcomeUnknown) => ~(stopping' /\ ~stopping)]_vars
  BY StepFacts DEF CommitEnabled, Blocked
<1> QED
  BY <1>1, Invariance, PTL DEF Spec, DoubtNeverCommits

\* A committed stop is out of the supervisor's hands.
THEOREM CommitStands == Spec => CommitIsFinal
<1>1. IInv /\ [Next]_vars => [stopping => ~admissionOpen' /\ UNCHANGED control]_vars
  BY StepFacts DEF IInv, GateInv, control
<1> QED
  BY <1>1, Invariance, PTL DEF Spec, CommitIsFinal

-----------------------------------------------------------------------------
(* The controller implements WhenIdleStop. *)

Gate == IF stopping THEN "stopping" ELSE IF drain # NoDrain THEN "closed" ELSE "open"
Poisoned == unknownWork \/ outcomeUnknown
Owed == lineages \ drainLineages

\* A method that ends with _maybe_commit_stop_locked and leaves the gate's
\* inputs alone either keeps the gate or commits a closed, settled daemon.
LEMMA MaybeCommitMaps ==
  ASSUME IInv, IInv', MaybeCommitStop, UNCHANGED <<control, doubt>>
  PROVE  /\ Poisoned' = Poisoned
         /\ \/ Gate' = Gate
            \/ /\ Gate = "closed" /\ Gate' = "stopping" /\ ~Poisoned
               /\ Owed' = {} /\ drainLineages' = {}
<1>1. Poisoned' = Poisoned
  BY DEF Poisoned, doubt
<1>2. CASE ~stopping /\ CommitEnabled'
  <2>1. (LineagesAccounted /\ CommitEnabled => works = {} /\ lineages = {})'
    BY CommitEmpties, PTL
  <2>2. Owed' = {} /\ drainLineages' = {}
    BY <1>2, <2>1 DEF IInv, DrainWorkInv, Owed
  <2> QED
    BY <1>1, <1>2, <2>2 DEF Gate, Poisoned, MaybeCommitStop, CommitEnabled, Blocked, control
<1>3. CASE ~(~stopping /\ CommitEnabled')
  BY <1>1, <1>3 DEF Gate, MaybeCommitStop, control, commit
<1> QED
  BY <1>2, <1>3

\* Sealing and dropping removes at most the lineage in question.
LEMMA SealAndDropMaps ==
  ASSUME DrainWorkInv, NEW l \in lineages, NEW seal \in BOOLEAN, SealAndDrop(l, seal)
  PROVE  \/ Owed' = Owed /\ drainLineages' = drainLineages
         \/ Owed' = Owed \ {l} /\ drainLineages' = drainLineages \ {l}
<1>1. lineages' = lineages \/ lineages' = lineages \ {l}
  BY DEF SealAndDrop, lineages
<1>2. drainLineages' = drainLineages \cap lineages'
  BY DEF SealAndDrop
<1> QED
  BY <1>1, <1>2 DEF DrainWorkInv, Owed

\* Settling lineage l, with or without the commit.
LEMMA SettleMaps ==
  ASSUME IInv, IInv', NEW l \in lineages, NEW seal \in BOOLEAN,
         SealAndDrop(l, seal), MaybeCommitStop, UNCHANGED <<control, doubt>>
  PROVE  [Promise!Next]_(Promise!vars)
<1>1. /\ Poisoned' = Poisoned
      /\ \/ Gate' = Gate
         \/ /\ Gate = "closed" /\ Gate' = "stopping" /\ ~Poisoned
            /\ Owed' = {} /\ drainLineages' = {}
  BY MaybeCommitMaps
<1>2. l \in Lineage /\ l \in Owed \cup drainLineages
  BY DEF IInv, TypeOK, lineages, Owed
<1>3. CASE Owed' = Owed /\ drainLineages' = drainLineages
  <2>1. CASE Gate' = Gate
    BY <1>1, <1>3, <2>1 DEF Promise!vars, Gate, Poisoned, Owed
  <2>2. CASE Gate' # Gate
    <3>1. Promise!CommitIdle
      BY <1>1, <1>3, <2>2 DEF Promise!CommitIdle, Promise!Commit, Gate, Poisoned, Owed
    <3> QED
      BY <3>1 DEF Promise!Next
  <2> QED
    BY <2>1, <2>2
<1>4. CASE Owed' = Owed \ {l} /\ drainLineages' = drainLineages \ {l}
  <2>1. Promise!Settle(l)
    BY <1>1, <1>2, <1>4 DEF Promise!Settle, Promise!Commit, Gate, Poisoned, Owed
  <2> QED
    BY <1>2, <2>1 DEF Promise!Next
<1> QED
  BY <1>3, <1>4, SealAndDropMaps DEF IInv

LEMMA WorkStepMaps ==
  ASSUME IInv, IInv', WorkStep
  PROVE  [Promise!Next]_(Promise!vars)
<1> USE DEF Promise!vars
<1>d. drainLineages \subseteq lineages
  BY DEF IInv, DrainWorkInv
<1>1. ASSUME NEW w \in Work, NEW k, NEW l \in Lineage, NEW phase, ReserveRoot(w, k, l, phase)
      PROVE  [Promise!Next]_(Promise!vars)
  <2>1. /\ l \notin lineages /\ lineages' = lineages \cup {l}
        /\ drainLineages' = drainLineages
        /\ Gate = "open" /\ Gate' = Gate /\ Poisoned' = Poisoned
    BY <1>1 DEF ReserveRoot, Reserve, lineages, Gate, Poisoned, control, doubt, commit, IInv,
                GateInv
  <2>2. Promise!Admit(l)
    BY <1>d, <2>1 DEF Promise!Admit, Gate, Poisoned
  <2> QED
    BY <2>2 DEF Promise!Next
<1>2. ASSUME NEW w \in Work, NEW k, NEW l \in Lineage, NEW phase,
             ReserveDescendant(w, k, l, phase)
      PROVE  [Promise!Next]_(Promise!vars)
  BY <1>2 DEF ReserveDescendant, Reserve, lineages, control, doubt, commit
<1>3. ASSUME NEW w \in Work, NEW l \in Lineage, BeginPoll(w, l)
      PROVE  [Promise!Next]_(Promise!vars)
  BY <1>1, <1>3 DEF BeginPoll
<1>4. ASSUME NEW w \in Work, NEW l \in Lineage, BeginFlush(w, l)
      PROVE  [Promise!Next]_(Promise!vars)
  <2>1. /\ l \notin lineages /\ lineages' = lineages \cup {l}
        /\ drainLineages' = drainLineages \cup {l}
        /\ Gate # "open" /\ Gate' = Gate /\ Poisoned' = Poisoned
    BY <1>4 DEF BeginFlush, Reserve, lineages, Gate, Poisoned, control, doubt, commit
  <2>2. Promise!Flush(l)
    BY <1>d, <2>1 DEF Promise!Flush, Gate, Poisoned
  <2> QED
    BY <2>2 DEF Promise!Next
<1>5. ASSUME NEW p \in Work, NEW w \in Work, NEW l \in Lineage, AdmitRemoteClaim(p, w, l)
      PROVE  [Promise!Next]_(Promise!vars)
  <2>1. PICK r \in works : r.kind = "sync_poll"
    BY <1>5 DEF AdmitRemoteClaim, IsPoll
  <2>2. r.lineage \in Owed
    BY <2>1 DEF IInv, LineagesAccounted, DrainWorkInv, DescendantKinds, Owed
  <2>3. ~stopping
    BY <2>2 DEF IInv, StoppingInv, Owed
  <2>4. /\ l \notin lineages /\ lineages' = lineages \cup {l}
        /\ drainLineages' = drainLineages
        /\ Gate' = Gate /\ Poisoned' = Poisoned
    BY <1>5 DEF AdmitRemoteClaim, Reserve, lineages, Gate, Poisoned, control, doubt, commit
  <2>5. Promise!HandOver(l)
    BY <1>d, <2>2, <2>3, <2>4 DEF Promise!HandOver, Gate, Poisoned, Owed
  <2> QED
    BY <2>5 DEF Promise!Next
<1>6. ASSUME NEW w \in Work, Activate(w)
      PROVE  [Promise!Next]_(Promise!vars)
  BY <1>6 DEF Activate, lineages, control, doubt, commit
<1>7. ASSUME NEW w \in Work, NEW seal \in BOOLEAN, Complete(w, seal)
      PROVE  [Promise!Next]_(Promise!vars)
  <2>1. PICK r \in works : SealAndDrop(r.lineage, seal)
    BY <1>7 DEF Complete
  <2>2. r.lineage \in lineages
    BY <2>1 DEF IInv, LineagesAccounted
  <2>3. MaybeCommitStop /\ UNCHANGED <<control, doubt>>
    BY <1>7 DEF Complete
  <2> QED
    BY <2>1, <2>2, <2>3, SettleMaps
<1> QED
  BY <1>1, <1>2, <1>3, <1>4, <1>5, <1>6, <1>7 DEF WorkStep

LEMMA RecordUnknownMaps ==
  ASSUME RecordUnknownWork
  PROVE  Promise!Next
<1>1. /\ Poisoned' = TRUE /\ Gate' = Gate
      /\ lineages' = lineages /\ drainLineages' = drainLineages
  BY DEF RecordUnknownWork, Poisoned, Gate, lineages, ledger, control, commit
<1>2. Promise!Poison
  BY <1>1 DEF Promise!Poison, Poisoned, Gate
<1> QED
  BY <1>2 DEF Promise!Next

\* A cancelled drain leaves the work that was owed and drops idle flushes.
LEMMA CancelMaps ==
  ASSUME IInv, NEW d, NEW e, CancelDrain(d, e)
  PROVE  Promise!Cancel
<1>1. lineages \ drainLineages = lineages' \ drainLineages'
  BY DEF CancelDrain, lineages
<1>2. drainLineages' \in SUBSET drainLineages
  BY DEF CancelDrain
<1>3. Gate = "closed" /\ Gate' = "open" /\ Poisoned' = Poisoned
  BY DEF CancelDrain, CancelFence, Gate, Poisoned, doubt, commit
<1> QED
  BY <1>1, <1>2, <1>3 DEF Promise!Cancel, Gate, Poisoned

LEMMA ControlStepMaps ==
  ASSUME IInv, IInv', ControlStep
  PROVE  [Promise!Next]_(Promise!vars)
<1> USE DEF Promise!vars
<1>1. ASSUME NEW l \in Lineage, SealLineage(l)
      PROVE  [Promise!Next]_(Promise!vars)
  BY <1>1, SettleMaps DEF SealLineage
<1>2. CASE MarkNotRequired \/ MarkProven \/ BindExitCallback
  <2>1. UNCHANGED <<ledger, control, doubt>> /\ MaybeCommitStop
    BY <1>2 DEF MarkNotRequired, MarkProven, MarkBoundary, BindExitCallback
  <2>2. /\ Poisoned' = Poisoned
        /\ \/ Gate' = Gate
           \/ /\ Gate = "closed" /\ Gate' = "stopping" /\ ~Poisoned
              /\ Owed' = {} /\ drainLineages' = {}
    BY <2>1, MaybeCommitMaps
  <2>3. lineages' = lineages /\ drainLineages' = drainLineages
    BY <2>1 DEF ledger, lineages
  <2>4. CASE Gate' = Gate
    BY <2>2, <2>3, <2>4 DEF Gate, Poisoned
  <2>5. CASE Gate' # Gate
    <3>1. Promise!CommitIdle
      BY <2>2, <2>3, <2>5 DEF Promise!CommitIdle, Promise!Commit, Gate, Poisoned, Owed
    <3> QED
      BY <3>1 DEF Promise!Next
  <2> QED
    BY <2>4, <2>5
<1>3. ASSUME NEW unknown \in BOOLEAN, MarkFailed(unknown)
      PROVE  [Promise!Next]_(Promise!vars)
  <2>1. /\ Gate' = Gate /\ unknownWork' = unknownWork
        /\ lineages' = lineages /\ drainLineages' = drainLineages
    BY <1>3 DEF MarkFailed, Gate, lineages, ledger, control, commit
  <2>2. CASE unknown
    <3>1. Poisoned' = TRUE
      BY <1>3, <2>2 DEF MarkFailed, Poisoned
    <3>2. Promise!Poison
      BY <2>1, <3>1 DEF Promise!Poison, Gate, Poisoned
    <3> QED
      BY <3>2 DEF Promise!Next
  <2>3. CASE ~unknown
    <3>1. outcomeUnknown' = outcomeUnknown
      BY <1>3, <2>3, Zenon DEF MarkFailed, IInv, TypeOK
    <3> QED
      BY <2>1, <3>1 DEF Gate
  <2> QED
    BY <2>2, <2>3
<1>4. ASSUME NEW e \in 1..MaxRevision, RequestDrain(e)
      PROVE  [Promise!Next]_(Promise!vars)
  <2>1. drain' # NoDrain
    <3>1. revision \in Nat
      BY LifecycleAssumption DEF IInv, TypeOK
    <3> QED
      BY <1>4, <3>1 DEF RequestDrain, NoDrain
  <2>2. /\ Gate = "open" /\ Gate' = "closed" /\ Poisoned' = Poisoned
        /\ lineages' = lineages /\ drainLineages' = drainLineages
    BY <1>4, <2>1 DEF RequestDrain, Gate, Poisoned, lineages, ledger, doubt, commit, IInv, GateInv
  <2>3. Promise!Drain
    BY <2>2 DEF Promise!Drain, Gate, Poisoned
  <2> QED
    BY <2>3 DEF Promise!Next
<1>5. ASSUME NEW d \in 1..MaxRevision, NEW e \in 1..MaxRevision, CancelDrain(d, e)
      PROVE  [Promise!Next]_(Promise!vars)
  BY <1>5, CancelMaps DEF Promise!Next
<1>6. CASE ExitSignalled
  BY <1>6 DEF ExitSignalled, ledger, control, doubt, lineages
<1>7. CASE ExitFailed
  <2>1. stopping /\ drain # NoDrain
    BY <1>7 DEF ExitFailed, IInv, GateInv
  <2>2. /\ Gate = "stopping" /\ Gate' = "closed" /\ Poisoned' = TRUE
        /\ lineages' = lineages /\ drainLineages' = drainLineages
    BY <1>7, <2>1 DEF ExitFailed, Gate, Poisoned, lineages, ledger, control
  <2>3. Promise!Rollback
    BY <2>2 DEF Promise!Rollback, Gate, Poisoned
  <2> QED
    BY <2>3 DEF Promise!Next
<1> QED
  BY <1>1, <1>2, <1>3, <1>4, <1>5, <1>6, <1>7 DEF ControlStep

\* The controller, driven by any callers in any order, implements the
\* when-idle stop: what it admits, forgets, commits and rolls back is what
\* WhenIdleStop allows, its lineages being the work owed and the flushes.
THEOREM ImplementsPromise == Spec => PromiseSpec
<1>1. Init => Promise!Init
  BY DEF Init, Promise!Init, lineages, NoDrain
<1>2. IInv /\ IInv' /\ [Next]_vars => [Promise!Next]_(Promise!vars)
  <2> SUFFICES ASSUME IInv, IInv', [Next]_vars
               PROVE  [Promise!Next]_(Promise!vars)
    OBVIOUS
  <2>1. CASE RejectStep
    <3>1. RecordUnknownWork
      BY <2>1 DEF RejectStep, RejectDescendant, RejectRemoteClaim, SealUnknownLineage
    <3> QED
      BY <3>1, RecordUnknownMaps
  <2>2. CASE UNCHANGED vars
    BY <2>2 DEF vars, ledger, control, doubt, commit, lineages, Promise!vars
  <2> QED
    BY <2>1, <2>2, WorkStepMaps, ControlStepMaps DEF Next
<1> QED
  BY <1>1, <1>2, Invariance, PTL DEF Spec, PromiseSpec, Promise!Spec
=============================================================================
