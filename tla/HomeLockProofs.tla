--------------------------- MODULE HomeLockProofs ---------------------------
(***************************************************************************)
(* Theorems about HomeLock, for any number of processes and generations.     *)
(***************************************************************************)
EXTENDS HomeLock, TLAPS

-----------------------------------------------------------------------------
\* The inductive invariant

\* Who has begun to acquire and not yet released holds the system's lock.
LockIsHeld == \A p \in Process : at[p] # "down" <=> holder = p

\* A daemon past its acquisition has a generation.
Numbered == \A p \in Process : at[p] \notin {"down", "locked"} => generation # 0

EndpointIsOwn == \A p \in Process : at[p] = "serving" => endpoint = p

\* A daemon that releases has closed its store; a "stopped" that names the last
\* generation was written by its daemon; before the first there was none.
StopsAreSettled ==
  /\ \A p \in Process : at[p] \in {"releasing", "torn_stop", "unlocking"} => settled
  /\ recorded = "stopped" /\ recordedGen = generation => settled
  /\ generation = 0 => settled

HomeInv == HomeTypeOK /\ LockIsHeld /\ Numbered /\ EndpointIsOwn /\ StopsAreSettled

HomeAction(p) == Acquiring(p) \/ Serving(p) \/ Releasing(p) \/ Crash(p)

LEMMA HomeInvInit == HomeInit => HomeInv
BY HomeAssumption DEF HomeInit, HomeInv, HomeTypeOK, LockIsHeld, Numbered, EndpointIsOwn, StopsAreSettled

\* The lock file never runs ahead of the identity file.
LEMMA PreviousIsIdentity == HomeTypeOK => Previous = identity /\ Previous \in Nat
BY HomeAssumption DEF HomeTypeOK, Previous

LEMMA HomeTypeKept ==
  ASSUME HomeTypeOK, Numbered, NEW p \in Process, HomeAction(p)
  PROVE  HomeTypeOK'
<1> USE HomeAssumption DEF HomeTypeOK, Numbered, homeFiles, homeVars, Given, Move, Locked, Owning, StoreOpen
<1>1. CASE Lock(p)
  BY <1>1 DEF Lock
<1>2. CASE Refuse(p)
  BY <1>2 DEF Refuse
<1>3. CASE AdvanceIdentity(p)
  <2>1. identity + 1 \in 0..MaxGeneration /\ recordedGen \in 0..(identity + 1)
    BY <1>3, PreviousIsIdentity DEF AdvanceIdentity
  <2>2. identity' = identity + 1 /\ generation' = identity + 1
    BY <1>3, PreviousIsIdentity DEF AdvanceIdentity
  <2>3. at' \in [Process -> {"down"} \cup Locked]
    BY <1>3 DEF AdvanceIdentity
  <2> QED
    BY <1>3, <2>1, <2>2, <2>3 DEF AdvanceIdentity
<1>4. CASE TearRunning(p)
  BY <1>4 DEF TearRunning, Tear
<1>5. CASE RecordRunning(p)
  BY <1>5 DEF RecordRunning
<1>6. CASE AcquireFails(p)
  BY <1>6 DEF AcquireFails
<1>7. CASE OpenStore(p)
  BY <1>7 DEF OpenStore
<1>8. CASE OpenFails(p)
  BY <1>8 DEF OpenFails
<1>9. CASE BuildFails(p)
  BY <1>9 DEF BuildFails
<1>10. CASE Publish(p)
  BY <1>10 DEF Publish
<1>11. CASE PublishFails(p)
  BY <1>11 DEF PublishFails
<1>12. CASE ClearEndpoint(p)
  BY <1>12 DEF ClearEndpoint
<1>13. CASE CloseStore(p)
  BY <1>13 DEF CloseStore
<1>14. CASE TearStopped(p)
  BY <1>14 DEF TearStopped, Tear
<1>15. CASE RecordStopped(p)
  BY <1>15 DEF RecordStopped
<1>16. CASE RecordFails(p)
  BY <1>16 DEF RecordFails
<1>17. CASE Unlock(p)
  BY <1>17 DEF Unlock
<1>18. CASE Crash(p)
  BY <1>18 DEF Crash
<1> QED
  BY <1>1, <1>2, <1>3, <1>4, <1>5, <1>6, <1>7, <1>8, <1>9, <1>10, <1>11, <1>12, <1>13, <1>14, <1>15, <1>16, <1>17, <1>18 DEF HomeAction, Acquiring, Serving, Releasing

LEMMA LockKept ==
  ASSUME HomeTypeOK, LockIsHeld, NEW p \in Process, HomeAction(p)
  PROVE  LockIsHeld'
<1> USE HomeAssumption DEF HomeTypeOK, LockIsHeld, homeFiles, homeVars, Given, Move
<1>1. CASE Lock(p)
  BY <1>1 DEF Lock
<1>2. CASE Refuse(p)
  BY <1>2 DEF Refuse
<1>3. CASE AdvanceIdentity(p)
  BY <1>3, PreviousIsIdentity DEF AdvanceIdentity
<1>4. CASE TearRunning(p)
  BY <1>4 DEF TearRunning, Tear
<1>5. CASE RecordRunning(p)
  BY <1>5 DEF RecordRunning
<1>6. CASE AcquireFails(p)
  BY <1>6 DEF AcquireFails
<1>7. CASE OpenStore(p)
  BY <1>7 DEF OpenStore
<1>8. CASE OpenFails(p)
  BY <1>8 DEF OpenFails
<1>9. CASE BuildFails(p)
  BY <1>9 DEF BuildFails
<1>10. CASE Publish(p)
  BY <1>10 DEF Publish
<1>11. CASE PublishFails(p)
  BY <1>11 DEF PublishFails
<1>12. CASE ClearEndpoint(p)
  BY <1>12 DEF ClearEndpoint
<1>13. CASE CloseStore(p)
  BY <1>13 DEF CloseStore
<1>14. CASE TearStopped(p)
  BY <1>14 DEF TearStopped, Tear
<1>15. CASE RecordStopped(p)
  BY <1>15 DEF RecordStopped
<1>16. CASE RecordFails(p)
  BY <1>16 DEF RecordFails
<1>17. CASE Unlock(p)
  BY <1>17 DEF Unlock
<1>18. CASE Crash(p)
  BY <1>18 DEF Crash
<1> QED
  BY <1>1, <1>2, <1>3, <1>4, <1>5, <1>6, <1>7, <1>8, <1>9, <1>10, <1>11, <1>12, <1>13, <1>14, <1>15, <1>16, <1>17, <1>18 DEF HomeAction, Acquiring, Serving, Releasing

LEMMA NumberedKept ==
  ASSUME HomeTypeOK, LockIsHeld, Numbered, NEW p \in Process, HomeAction(p)
  PROVE  Numbered'
<1> USE HomeAssumption DEF HomeTypeOK, LockIsHeld, Numbered, homeFiles, homeVars, Given, Move
<1>1. CASE Lock(p)
  BY <1>1 DEF Lock
<1>2. CASE Refuse(p)
  BY <1>2 DEF Refuse
<1>3. CASE AdvanceIdentity(p)
  BY <1>3, PreviousIsIdentity DEF AdvanceIdentity
<1>4. CASE TearRunning(p)
  BY <1>4 DEF TearRunning, Tear
<1>5. CASE RecordRunning(p)
  BY <1>5 DEF RecordRunning
<1>6. CASE AcquireFails(p)
  BY <1>6 DEF AcquireFails
<1>7. CASE OpenStore(p)
  BY <1>7 DEF OpenStore
<1>8. CASE OpenFails(p)
  BY <1>8 DEF OpenFails
<1>9. CASE BuildFails(p)
  BY <1>9 DEF BuildFails
<1>10. CASE Publish(p)
  BY <1>10 DEF Publish
<1>11. CASE PublishFails(p)
  BY <1>11 DEF PublishFails
<1>12. CASE ClearEndpoint(p)
  BY <1>12 DEF ClearEndpoint
<1>13. CASE CloseStore(p)
  BY <1>13 DEF CloseStore
<1>14. CASE TearStopped(p)
  BY <1>14 DEF TearStopped, Tear
<1>15. CASE RecordStopped(p)
  BY <1>15 DEF RecordStopped
<1>16. CASE RecordFails(p)
  BY <1>16 DEF RecordFails
<1>17. CASE Unlock(p)
  BY <1>17 DEF Unlock
<1>18. CASE Crash(p)
  BY <1>18 DEF Crash
<1> QED
  BY <1>1, <1>2, <1>3, <1>4, <1>5, <1>6, <1>7, <1>8, <1>9, <1>10, <1>11, <1>12, <1>13, <1>14, <1>15, <1>16, <1>17, <1>18 DEF HomeAction, Acquiring, Serving, Releasing

LEMMA EndpointKept ==
  ASSUME HomeTypeOK, LockIsHeld, EndpointIsOwn, NEW p \in Process, HomeAction(p)
  PROVE  EndpointIsOwn'
<1> USE HomeAssumption DEF HomeTypeOK, LockIsHeld, EndpointIsOwn, homeFiles, homeVars, Given, Move
<1>1. CASE Lock(p)
  BY <1>1 DEF Lock
<1>2. CASE Refuse(p)
  BY <1>2 DEF Refuse
<1>3. CASE AdvanceIdentity(p)
  BY <1>3, PreviousIsIdentity DEF AdvanceIdentity
<1>4. CASE TearRunning(p)
  BY <1>4 DEF TearRunning, Tear
<1>5. CASE RecordRunning(p)
  BY <1>5 DEF RecordRunning
<1>6. CASE AcquireFails(p)
  BY <1>6 DEF AcquireFails
<1>7. CASE OpenStore(p)
  BY <1>7 DEF OpenStore
<1>8. CASE OpenFails(p)
  BY <1>8 DEF OpenFails
<1>9. CASE BuildFails(p)
  BY <1>9 DEF BuildFails
<1>10. CASE Publish(p)
  BY <1>10 DEF Publish
<1>11. CASE PublishFails(p)
  BY <1>11 DEF PublishFails
<1>12. CASE ClearEndpoint(p)
  BY <1>12 DEF ClearEndpoint
<1>13. CASE CloseStore(p)
  BY <1>13 DEF CloseStore
<1>14. CASE TearStopped(p)
  BY <1>14 DEF TearStopped, Tear
<1>15. CASE RecordStopped(p)
  BY <1>15 DEF RecordStopped
<1>16. CASE RecordFails(p)
  BY <1>16 DEF RecordFails
<1>17. CASE Unlock(p)
  BY <1>17 DEF Unlock
<1>18. CASE Crash(p)
  BY <1>18 DEF Crash
<1> QED
  BY <1>1, <1>2, <1>3, <1>4, <1>5, <1>6, <1>7, <1>8, <1>9, <1>10, <1>11, <1>12, <1>13, <1>14, <1>15, <1>16, <1>17, <1>18 DEF HomeAction, Acquiring, Serving, Releasing

LEMMA SettledKept ==
  ASSUME HomeTypeOK, LockIsHeld, StopsAreSettled, NEW p \in Process, HomeAction(p)
  PROVE  StopsAreSettled'
<1> USE HomeAssumption DEF HomeTypeOK, LockIsHeld, StopsAreSettled, homeFiles, homeVars, Given, Move
<1>1. CASE Lock(p)
  BY <1>1 DEF Lock
<1>2. CASE Refuse(p)
  BY <1>2 DEF Refuse
<1>3. CASE AdvanceIdentity(p)
  BY <1>3, PreviousIsIdentity DEF AdvanceIdentity
<1>4. CASE TearRunning(p)
  BY <1>4 DEF TearRunning, Tear
<1>5. CASE RecordRunning(p)
  BY <1>5 DEF RecordRunning
<1>6. CASE AcquireFails(p)
  BY <1>6 DEF AcquireFails
<1>7. CASE OpenStore(p)
  BY <1>7 DEF OpenStore
<1>8. CASE OpenFails(p)
  BY <1>8 DEF OpenFails
<1>9. CASE BuildFails(p)
  BY <1>9 DEF BuildFails
<1>10. CASE Publish(p)
  BY <1>10 DEF Publish
<1>11. CASE PublishFails(p)
  BY <1>11 DEF PublishFails
<1>12. CASE ClearEndpoint(p)
  BY <1>12 DEF ClearEndpoint
<1>13. CASE CloseStore(p)
  BY <1>13 DEF CloseStore
<1>14. CASE TearStopped(p)
  BY <1>14 DEF TearStopped, Tear
<1>15. CASE RecordStopped(p)
  BY <1>15 DEF RecordStopped
<1>16. CASE RecordFails(p)
  BY <1>16 DEF RecordFails
<1>17. CASE Unlock(p)
  BY <1>17 DEF Unlock
<1>18. CASE Crash(p)
  BY <1>18 DEF Crash
<1> QED
  BY <1>1, <1>2, <1>3, <1>4, <1>5, <1>6, <1>7, <1>8, <1>9, <1>10, <1>11, <1>12, <1>13, <1>14, <1>15, <1>16, <1>17, <1>18 DEF HomeAction, Acquiring, Serving, Releasing

LEMMA HomeInvStep == HomeInv /\ [HomeNext]_homeVars => HomeInv'
<1> SUFFICES ASSUME HomeInv, [HomeNext]_homeVars PROVE HomeInv'
  OBVIOUS
<1>1. ASSUME NEW p \in Process, HomeAction(p) PROVE HomeInv'
  BY <1>1, HomeTypeKept, LockKept, NumberedKept, EndpointKept, SettledKept DEF HomeInv
<1>2. CASE UNCHANGED homeVars
  BY <1>2 DEF HomeInv, HomeTypeOK, LockIsHeld, Numbered, EndpointIsOwn, StopsAreSettled, homeVars, homeFiles
<1> QED
  BY <1>1, <1>2 DEF HomeNext, HomeAction

LEMMA HomeInvInvariant == HomeSpec => []HomeInv
BY HomeInvInit, HomeInvStep, PTL DEF HomeSpec

-----------------------------------------------------------------------------

LEMMA InvExcludes == HomeInv => HomeIsExclusive
BY DEF HomeInv, LockIsHeld, EndpointIsOwn, HomeIsExclusive, Locked, Owning, StoreOpen, HomeTypeOK

LEMMA InvNotices == HomeInv => StaleNoticed
BY DEF HomeInv, HomeTypeOK, StopsAreSettled, StaleNoticed, StaleTakeover, CleanStop, Previous

\* What GenerationsIncrease says of one step
Increases ==
  \A p \in Process : at[p] = "locked" /\ at'[p] = "numbered" => generation' > generation

LEMMA StepIncreases == HomeInv /\ [HomeNext]_homeVars => [Increases]_homeVars
<1> SUFFICES ASSUME HomeInv, NEW p \in Process, HomeAction(p) PROVE Increases
  BY DEF HomeNext, HomeAction, homeVars
<1>1. CASE AdvanceIdentity(p)
  BY <1>1, PreviousIsIdentity DEF AdvanceIdentity, Increases, HomeInv, HomeTypeOK
<1>2. CASE ~AdvanceIdentity(p)
  <2>1. \A q \in Process : at[q] = "locked" => at'[q] # "numbered"
    BY <1>2 DEF HomeAction, Acquiring, Serving, Releasing, Lock, Refuse, TearRunning, RecordRunning,
       AcquireFails, OpenStore, OpenFails, BuildFails, Publish, PublishFails, ClearEndpoint, CloseStore,
       TearStopped, RecordStopped, RecordFails, Unlock, Crash, Move, homeVars, HomeInv, HomeTypeOK
  <2> QED
    BY <2>1 DEF Increases
<1> QED
  BY <1>1, <1>2

\* Type correctness of the home's files and of the processes on it.
THEOREM HomeTypeCorrect == HomeSpec => []HomeTypeOK
BY HomeInvInvariant, PTL DEF HomeInv

\* However many processes contend for a home and die, one at a time has it, and
\* the endpoint of a daemon that serves is its own.
THEOREM OneOwner == HomeSpec => []HomeIsExclusive
BY HomeInvInvariant, InvExcludes, PTL

\* A takeover that is not called stale follows a daemon that closed its store.
THEOREM TakeoversNoticed == HomeSpec => []StaleNoticed
BY HomeInvInvariant, InvNotices, PTL

\* No generation is handed out twice.
THEOREM GenerationsGrow == HomeSpec => GenerationsIncrease
<1>1. HomeSpec => [][Increases]_homeVars
  BY HomeInvInvariant, StepIncreases, PTL DEF HomeSpec
<1> QED
  BY <1>1, PTL DEF GenerationsIncrease, Increases
=============================================================================
