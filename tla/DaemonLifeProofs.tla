-------------------------- MODULE DaemonLifeProofs --------------------------
(***************************************************************************)
(* Theorems about DaemonLife, for any number of processes, generations,      *)
(* connections, threads and requests: what HomeLock promises holds in the    *)
(* composition, and so does what keeps the heartbeats apart.                  *)
(***************************************************************************)
EXTENDS DaemonLife, HomeLockProofs

-----------------------------------------------------------------------------
\* The home

LEMMA LifeStepsHome == [LifeNext]_lifeVars => [HomeNext]_homeVars
<1> SUFFICES ASSUME [LifeNext]_lifeVars PROVE [HomeNext]_homeVars
  OBVIOUS
<1>1. ASSUME NEW p \in Process, Outside(p) PROVE HomeNext
  BY <1>1 DEF Outside, HomeNext, Serving, Releasing
<1>2. ASSUME NEW p \in Process, LifeOpenStore(p) PROVE HomeNext
  BY <1>2 DEF LifeOpenStore, HomeNext, Serving
<1>3. ASSUME NEW p \in Process, LifeServe(p) PROVE HomeNext
  BY <1>3 DEF LifeServe, HomeNext, Serving
<1>4. ASSUME NEW p \in Process, LifeClose(p) PROVE HomeNext
  BY <1>4 DEF LifeClose, HomeNext, Serving
<1>5. ASSUME NEW p \in Process, LifeEnd(p) PROVE HomeNext
  BY <1>5 DEF LifeEnd, HomeNext, Releasing
<1>6. ASSUME NEW p \in Process, LifeRestore(p) \/ LifeHalt(p) PROVE UNCHANGED homeVars
  BY <1>6 DEF LifeRestore, LifeHalt
<1>7. ASSUME NEW k \in Request, LifeRequest(k) PROVE UNCHANGED homeVars
  BY <1>7 DEF LifeRequest
<1>8. CASE LifeBackground
  BY <1>8 DEF LifeBackground
<1>9. CASE UNCHANGED lifeVars
  BY <1>9 DEF lifeVars
<1> QED
  BY <1>1, <1>2, <1>3, <1>4, <1>5, <1>6, <1>7, <1>8, <1>9 DEF LifeNext

\* The daemons use their home as HomeLock says, so all that holds of it holds here.
THEOREM LifeUsesHome == LifeSpec => HomeSpec
BY LifeStepsHome, PTL DEF LifeSpec, LifeInit, HomeSpec

-----------------------------------------------------------------------------
\* The heartbeat service

Working == {"ensure", "joining", "replace", "replacing", "stop", "stopping", "disconnect"}

RegistryInv ==
  /\ threads \in [Conn -> Thread \cup {Nothing}]
  /\ alive \subseteq Conn \X Thread
  /\ calling \subseteq alive
  /\ stopped \subseteq alive
  /\ OneLoop

CallersInv ==
  /\ caller \in [Caller -> Stages]
  /\ arg \in [Caller -> Conn \cup {Nothing}]
  /\ \A k \in Caller : caller[k] \in Working => arg[k] \in Conn

StoreInv == open \in BOOLEAN /\ quitting \in BOOLEAN /\ current \in Conn \cup {Nothing}

HeartInv == RegistryInv /\ CallersInv /\ StoreInv

\* A connection whose registered thread is dead has no thread, by OneLoop, so
\* the one that is started is its only one.
LEMMA StartKeeps ==
  ASSUME RegistryInv, NEW c \in Conn, ~Lives(c), StartLoop(c)
  PROVE  RegistryInv'
<1> DEFINE free == {i \in Thread : <<c, i>> \notin alive}
           new == CHOOSE i \in free : TRUE
<1>1. /\ free # {}
      /\ threads' = [threads EXCEPT ![c] = new]
      /\ alive' = alive \cup {<<c, new>>}
      /\ calling' = calling /\ stopped' = stopped
  BY DEF StartLoop
<1>2. new \in Thread
  BY <1>1
<1>3. \A i \in Thread : <<c, i>> \notin alive
  <2> SUFFICES ASSUME NEW i \in Thread, <<c, i>> \in alive PROVE FALSE
    OBVIOUS
  <2>1. threads[c] = i
    BY DEF RegistryInv, OneLoop
  <2> QED
    BY <2>1 DEF Lives, Registered
<1> HIDE DEF free, new
<1>4. threads' \in [Conn -> Thread \cup {Nothing}] /\ alive' \subseteq Conn \X Thread
  BY <1>1, <1>2 DEF RegistryInv
<1>5. ASSUME NEW l \in alive' PROVE threads'[l[1]] = l[2]
  <2>1. CASE l = <<c, new>>
    BY <1>1, <2>1 DEF RegistryInv
  <2>2. CASE l \in alive
    <3>1. l[1] \in Conn /\ l[2] \in Thread /\ l = <<l[1], l[2]>> /\ threads[l[1]] = l[2]
      BY <2>2 DEF RegistryInv, OneLoop
    <3>2. l[1] # c
      BY <3>1, <2>2, <1>3
    <3> QED
      BY <1>1, <3>1, <3>2 DEF RegistryInv
  <2> QED
    BY <1>1, <2>1, <2>2
<1> QED
  BY <1>1, <1>4, <1>5 DEF RegistryInv, OneLoop

LEMMA UnregisterKeeps ==
  ASSUME RegistryInv, NEW cs, Unregister(cs)
  PROVE  /\ threads' \in [Conn -> Thread \cup {Nothing}]
         /\ \A l \in alive : threads'[l[1]] = l[2]
<1>1. threads' \in [Conn -> Thread \cup {Nothing}]
  BY DEF RegistryInv, Unregister
<1>2. ASSUME NEW l \in alive PROVE threads'[l[1]] = l[2]
  <2>1. l[1] \in Conn /\ l = <<l[1], l[2]>> /\ threads[l[1]] = l[2]
    BY DEF RegistryInv, OneLoop
  <2>2. Lives(l[1])
    BY <2>1 DEF Lives, Registered
  <2> QED
    BY <2>1, <2>2 DEF Unregister
<1> QED
  BY <1>1, <1>2

LEMMA SetStopsKeeps ==
  ASSUME RegistryInv, NEW cs, SetStops(cs)
  PROVE  stopped' \subseteq alive
BY DEF RegistryInv, SetStops, Lives

LEMMA EndKeeps ==
  ASSUME RegistryInv, NEW l, End(l)
  PROVE  RegistryInv'
BY DEF RegistryInv, OneLoop, End

\* Steps that leave the threads alone
LEMMA LoopVarsKept == RegistryInv /\ UNCHANGED loopVars => RegistryInv'
BY DEF RegistryInv, OneLoop, loopVars

LEMMA ToKeeps ==
  ASSUME CallersInv, NEW k \in Caller, NEW stage \in Stages, NEW c \in Conn \cup {Nothing},
         stage \in Working => c \in Conn, To(k, stage, c)
  PROVE  CallersInv'
<1>1. /\ caller' \in [Caller -> Stages]
      /\ arg' \in [Caller -> Conn \cup {Nothing}]
  BY DEF CallersInv, To
<1>2. ASSUME NEW j \in Caller, caller'[j] \in Working PROVE arg'[j] \in Conn
  <2>1. CASE j = k
    BY <2>1, <1>2 DEF CallersInv, To
  <2>2. CASE j # k
    BY <2>2, <1>2 DEF CallersInv, To
  <2> QED
    BY <2>1, <2>2
<1> QED
  BY <1>1, <1>2 DEF CallersInv

\* Steps of a caller at its connection
LEMMA EnsureKeeps ==
  ASSUME HeartInv, NEW k \in Caller, EnsureSteps(k)
  PROVE  HeartInv'
<1> USE DEF HeartInv
<1>1. Nothing \in Conn \cup {Nothing} /\ {"idle", "joining"} \subseteq Stages /\ "idle" \notin Working
  BY DEF Stages, Holding, Working
<1>2. arg[k] \in Conn /\ StoreInv'
  BY DEF EnsureSteps, KeepLoop, RestartLoop, ReviveLoop, JoinEnds, CallersInv, Working, StoreInv
<1>3. CASE KeepLoop(k)
  BY <1>1, <1>2, <1>3, ToKeeps, LoopVarsKept DEF KeepLoop
<1>4. CASE RestartLoop(k)
  <2>1. CallersInv'
    BY <1>1, <1>2, <1>4, ToKeeps DEF RestartLoop
  <2>2. stopped' \subseteq alive
    BY <1>4, SetStopsKeeps DEF RestartLoop
  <2> QED
    BY <2>1, <2>2, <1>2, <1>4 DEF RestartLoop, RegistryInv, OneLoop
<1>5. CASE ReviveLoop(k)
  BY <1>1, <1>2, <1>5, ToKeeps, StartKeeps DEF ReviveLoop
<1>6. CASE JoinEnds(k)
  <2>1. CallersInv'
    BY <1>1, <1>6, ToKeeps DEF JoinEnds
  <2>2. CASE Lives(arg[k])
    BY <2>1, <2>2, <1>2, <1>6, LoopVarsKept DEF JoinEnds
  <2>3. CASE ~Lives(arg[k])
    BY <2>1, <2>3, <1>2, <1>6, StartKeeps DEF JoinEnds
  <2> QED
    BY <2>2, <2>3
<1> QED
  BY <1>3, <1>4, <1>5, <1>6 DEF EnsureSteps

LEMMA RequestKeeps ==
  ASSUME HeartInv, NEW k \in Caller, RequestSteps(k)
  PROVE  HeartInv'
<1> USE DEF HeartInv
<1>1. /\ Nothing \in Conn \cup {Nothing} /\ "idle" \in Stages /\ "idle" \notin Working
      /\ {"replacing", "joining", "stopping", "disconnect"} \subseteq Stages
  BY DEF Stages, Holding, Working
<1>2. arg[k] \in Conn
  BY DEF RequestSteps, Replace, ReplaceEnds, Stop, StopEnds, Disconnect, CallersInv, Working
<1>3. CASE Replace(k)
  <2>1. CallersInv'
    BY <1>1, <1>2, <1>3, ToKeeps DEF Replace
  <2>2. stopped' \subseteq alive
    BY <1>3, SetStopsKeeps DEF Replace
  <2> QED
    BY <2>1, <2>2, <1>3 DEF Replace, RegistryInv, OneLoop, StoreInv
<1>4. CASE ReplaceEnds(k)
  <2>1. CallersInv'
    BY <1>1, <1>2, <1>4, ToKeeps DEF ReplaceEnds
  <2>2. stopped' \subseteq alive
    BY <1>4, SetStopsKeeps DEF ReplaceEnds, RegistryInv
  <2>3. /\ threads' \in [Conn -> Thread \cup {Nothing}]
        /\ \A l \in alive : threads'[l[1]] = l[2]
    BY <1>4, UnregisterKeeps DEF ReplaceEnds
  <2> QED
    BY <2>1, <2>2, <2>3, <1>4 DEF ReplaceEnds, RegistryInv, OneLoop, StoreInv
<1>5. CASE Stop(k)
  <2>1. CallersInv'
    BY <1>1, <1>2, <1>5, ToKeeps DEF Stop
  <2>2. stopped' \subseteq alive
    BY <1>5, SetStopsKeeps DEF Stop
  <2> QED
    BY <2>1, <2>2, <1>5 DEF Stop, RegistryInv, OneLoop, StoreInv
<1>6. CASE StopEnds(k)
  <2>1. CallersInv'
    BY <1>1, <1>2, <1>6, ToKeeps DEF StopEnds
  <2>2. /\ threads' \in [Conn -> Thread \cup {Nothing}]
        /\ \A l \in alive : threads'[l[1]] = l[2]
    BY <1>6, UnregisterKeeps DEF StopEnds
  <2> QED
    BY <2>1, <2>2, <1>6 DEF StopEnds, RegistryInv, OneLoop, StoreInv
<1>7. CASE Disconnect(k)
  <2>1. CallersInv'
    BY <1>1, <1>7, ToKeeps DEF Disconnect
  <2>2. RegistryInv'
    BY <1>7, LoopVarsKept DEF Disconnect
  <2> QED
    BY <2>1, <2>2, <1>7 DEF Disconnect, StoreInv
<1> QED
  BY <1>3, <1>4, <1>5, <1>6, <1>7 DEF RequestSteps

\* What begins
LEMMA BeginKeeps ==
  ASSUME HeartInv, NEW k \in Caller, Begins(k)
  PROVE  HeartInv'
<1> USE DEF HeartInv
<1>1. {"ensure", "replace", "stop"} \subseteq Stages
  BY DEF Stages
<1>2. CASE BeginEnsure(k)
  <2>1. current \in Conn
    BY <1>2 DEF BeginEnsure, StoreInv
  <2>2. CallersInv'
    BY <2>1, <1>1, <1>2, ToKeeps DEF BeginEnsure
  <2> QED
    BY <2>2, <1>2, LoopVarsKept DEF BeginEnsure, StoreInv
<1>3. ASSUME NEW c \in Conn, Connect(k, c) PROVE HeartInv'
  <2>1. CallersInv'
    BY <1>1, <1>3, ToKeeps DEF Connect
  <2> QED
    BY <2>1, <1>3, LoopVarsKept DEF Connect, StoreInv
<1>4. CASE BeginStop(k)
  <2>1. current \in Conn
    BY <1>4 DEF BeginStop, StoreInv
  <2>2. CallersInv'
    BY <2>1, <1>1, <1>4, ToKeeps DEF BeginStop
  <2> QED
    BY <2>2, <1>4, LoopVarsKept DEF BeginStop, StoreInv
<1> QED
  BY <1>2, <1>3, <1>4 DEF Begins

LEMMA HaltKeeps ==
  ASSUME HeartInv, BeginHalt \/ HaltSteps
  PROVE  HeartInv'
<1> USE DEF HeartInv
<1>1. /\ Nothing \in Conn \cup {Nothing} /\ {"idle", "halt", "halting"} \subseteq Stages
      /\ {"idle", "halt", "halting"} \cap Working = {} /\ Main \in Caller
  BY DEF Stages, Holding, Working, Caller
<1>2. CASE BeginHalt
  <2>1. CallersInv'
    BY <1>1, <1>2, ToKeeps DEF BeginHalt
  <2> QED
    BY <2>1, <1>2, LoopVarsKept DEF BeginHalt, StoreInv
<1>3. CASE Halt
  <2>1. CallersInv'
    BY <1>1, <1>3, ToKeeps DEF Halt
  <2>2. stopped' \subseteq alive
    BY <1>3, SetStopsKeeps DEF Halt
  <2> QED
    BY <2>1, <2>2, <1>3 DEF Halt, RegistryInv, OneLoop, StoreInv
<1>4. CASE HaltEnds
  <2>1. CallersInv'
    BY <1>1, <1>4, ToKeeps DEF HaltEnds
  <2>2. /\ threads' \in [Conn -> Thread \cup {Nothing}]
        /\ \A l \in alive : threads'[l[1]] = l[2]
    BY <1>4, UnregisterKeeps DEF HaltEnds
  <2> QED
    BY <2>1, <2>2, <1>4 DEF HaltEnds, RegistryInv, OneLoop, StoreInv
<1> QED
  BY <1>2, <1>3, <1>4 DEF HaltSteps

LEMMA LoopKeeps ==
  ASSUME HeartInv, NEW l \in Conn \X Thread, LoopSteps(l)
  PROVE  HeartInv'
<1> USE DEF HeartInv
<1>1. CASE LoopStops(l) \/ LoopClosed(l)
  <2>1. End(l)
    BY <1>1 DEF LoopStops, LoopClosed
  <2> QED
    BY <2>1, EndKeeps DEF End, CallersInv, StoreInv
<1>2. CASE LoopCalls(l)
  BY <1>2 DEF LoopCalls, RegistryInv, OneLoop, CallersInv, StoreInv
<1>3. CASE LoopReturns(l)
  BY <1>3 DEF LoopReturns, RegistryInv, OneLoop, CallersInv, StoreInv
<1>4. CASE LoopRecords(l)
  <2>1. l[1] \in Conn
    OBVIOUS
  <2> QED
    BY <2>1, <1>4, LoopVarsKept DEF LoopRecords, CallersInv, StoreInv
<1> QED
  BY <1>1, <1>2, <1>3, <1>4 DEF LoopSteps, LoopEnds

LEMMA RestoreKeeps ==
  ASSUME HeartInv, Restore
  PROVE  HeartInv'
<1> USE DEF HeartInv
<1>1. Main \in Caller /\ Watchdog \in Caller /\ Main # Watchdog /\ {"idle", "ensure"} \subseteq Stages
  BY HeartbeatAssumption DEF Caller, Stages
<1>2. RegistryInv' /\ StoreInv'
  BY LoopVarsKept DEF Restore, StoreInv
<1>3. caller' \in [Caller -> Stages] /\ arg' \in [Caller -> Conn \cup {Nothing}]
  BY <1>1 DEF Restore, CallersInv, StoreInv
<1>4. ASSUME NEW k \in Caller, caller'[k] \in Working PROVE arg'[k] \in Conn
  <2>1. CASE k = Main
    BY <1>1, <1>4, <2>1 DEF Restore, CallersInv, StoreInv, Working
  <2>2. CASE k = Watchdog
    BY <1>1, <1>4, <2>2 DEF Restore, CallersInv, Working
  <2>3. CASE k # Main /\ k # Watchdog
    BY <1>1, <1>4, <2>3 DEF Restore, CallersInv
  <2> QED
    BY <2>1, <2>2, <2>3
<1> QED
  BY <1>2, <1>3, <1>4 DEF CallersInv

\* A new service
LEMMA FreshKeeps ==
  ASSUME HeartInv, Fresh, UNCHANGED current, open' \in BOOLEAN
  PROVE  HeartInv'
<1>1. RegistryInv'
  BY DEF Fresh, RegistryInv, OneLoop
<1>2. CallersInv'
  BY DEF Fresh, CallersInv, Stages, Working
<1>3. StoreInv'
  BY DEF Fresh, StoreInv, HeartInv
<1> QED
  BY <1>1, <1>2, <1>3 DEF HeartInv

LEMMA HeartInvInit == HeartbeatInit => HeartInv
<1> SUFFICES ASSUME HeartbeatInit PROVE HeartInv
  OBVIOUS
<1>1. RegistryInv
  BY DEF HeartbeatInit, RegistryInv, OneLoop
<1>2. CallersInv
  BY DEF HeartbeatInit, CallersInv, Stages, Working
<1> QED
  BY <1>1, <1>2 DEF HeartInv, HeartbeatInit, StoreInv

LEMMA HeartVarsKept == HeartInv /\ UNCHANGED heartbeatVars => HeartInv'
BY DEF HeartInv, RegistryInv, OneLoop, CallersInv, StoreInv, heartbeatVars

LEMMA HeartInvStep == HeartInv /\ [LifeNext]_lifeVars => HeartInv'
<1> SUFFICES ASSUME HeartInv, [LifeNext]_lifeVars PROVE HeartInv'
  OBVIOUS
<1>1. ASSUME NEW p \in Process, Outside(p) \/ LifeServe(p) PROVE HeartInv'
  BY <1>1, HeartVarsKept DEF Outside, LifeServe, Other
<1>2. ASSUME NEW p \in Process, LifeOpenStore(p) PROVE HeartInv'
  BY <1>2, FreshKeeps DEF LifeOpenStore
<1>3. ASSUME NEW p \in Process, LifeRestore(p) PROVE HeartInv'
  BY <1>3, RestoreKeeps DEF LifeRestore
<1>4. ASSUME NEW p \in Process, LifeHalt(p) PROVE HeartInv'
  BY <1>4, HaltKeeps DEF LifeHalt
<1>5. ASSUME NEW p \in Process, LifeClose(p) PROVE HeartInv'
  BY <1>5 DEF LifeClose, HeartInv, RegistryInv, OneLoop, CallersInv, StoreInv, loopVars
<1>6. ASSUME NEW p \in Process, LifeEnd(p) PROVE HeartInv'
  <2>1. CASE server = p
    BY <1>6, <2>1, FreshKeeps DEF LifeEnd, ThreadsDie
  <2>2. CASE server # p
    BY <1>6, <2>2, HeartVarsKept DEF LifeEnd, ThreadsDie, Other
  <2> QED
    BY <2>1, <2>2
<1>7. ASSUME NEW k \in Request, LifeRequest(k) PROVE HeartInv'
  BY <1>7, BeginKeeps DEF LifeRequest, Caller
<1>8. CASE LifeBackground
  <2>1. ASSUME NEW k \in Caller, CallerSteps(k) PROVE HeartInv'
    BY <2>1, EnsureKeeps, RequestKeeps DEF CallerSteps
  <2>2. ASSUME NEW l \in Conn \X Thread, LoopSteps(l) PROVE HeartInv'
    BY <2>2, LoopKeeps
  <2>3. CASE HaltSteps
    BY <2>3, HaltKeeps
  <2>4. CASE BeginEnsure(Watchdog)
    BY <2>4, BeginKeeps DEF Begins, Caller
  <2> QED
    BY <1>8, <2>1, <2>2, <2>3, <2>4 DEF LifeBackground, Background
<1>9. CASE UNCHANGED lifeVars
  BY <1>9, HeartVarsKept DEF lifeVars
<1> QED
  BY <1>1, <1>2, <1>3, <1>4, <1>5, <1>6, <1>7, <1>8, <1>9 DEF LifeNext

-----------------------------------------------------------------------------
\* The store and the lock

ServerInv ==
  /\ server \in Process \cup {Nobody}
  /\ open => server \in Process /\ at[server] \in StoreOpen

LifeInv == HomeInv /\ HeartInv /\ ServerInv

LEMMA ServerInvStep == LifeInv /\ [LifeNext]_lifeVars => ServerInv'
<1> SUFFICES ASSUME LifeInv, [LifeNext]_lifeVars PROVE ServerInv'
  OBVIOUS
<1> USE HomeAssumption DEF LifeInv, HomeInv, HomeTypeOK, ServerInv, StoreOpen
<1>1. ASSUME NEW p \in Process, Outside(p) PROVE ServerInv'
  <2>1. /\ server' = server /\ open' = open
        /\ \A q \in Process : at[q] \in StoreOpen => at'[q] = at[q]
    BY <1>1 DEF Outside, Other, heartbeatVars, Acquiring, Lock, Refuse, AdvanceIdentity, TearRunning,
       RecordRunning, AcquireFails, OpenFails, TearStopped, RecordStopped, RecordFails, Move, homeVars
  <2> QED
    BY <2>1
<1>2. ASSUME NEW p \in Process, LifeOpenStore(p) PROVE ServerInv'
  BY <1>2 DEF LifeOpenStore, OpenStore, Move
<1>3. ASSUME NEW p \in Process, LifeRestore(p) PROVE ServerInv'
  BY <1>3 DEF LifeRestore, Restore, homeVars
<1>4. ASSUME NEW p \in Process, LifeHalt(p) PROVE ServerInv'
  BY <1>4 DEF LifeHalt, BeginHalt, homeVars
<1>5. ASSUME NEW p \in Process, LifeServe(p) PROVE ServerInv'
  <2>1. /\ server' = server /\ open' = open
        /\ \A q \in Process : at[q] \in StoreOpen => at'[q] \in StoreOpen
    BY <1>5 DEF LifeServe, Other, heartbeatVars, Publish, PublishFails, ClearEndpoint, Move
  <2> QED
    BY <2>1
<1>6. ASSUME NEW p \in Process, LifeClose(p) PROVE ServerInv'
  BY <1>6 DEF LifeClose
<1>7. ASSUME NEW p \in Process, LifeEnd(p) PROVE ServerInv'
  <2>1. CASE server = p
    BY <1>7, <2>1 DEF LifeEnd, ThreadsDie
  <2>2. CASE server # p
    <3>1. server' = server /\ open' = open
      BY <1>7, <2>2 DEF LifeEnd, ThreadsDie, Other, heartbeatVars
    <3>2. \A q \in Process \ {p} : at'[q] = at[q]
      BY <1>7 DEF LifeEnd, Unlock, Crash, Move
    <3> QED
      BY <2>2, <3>1, <3>2
  <2> QED
    BY <2>1, <2>2
<1>8. ASSUME NEW k \in Request, LifeRequest(k) PROVE ServerInv'
  BY <1>8 DEF LifeRequest, Begins, BeginEnsure, Connect, BeginStop, homeVars
<1>9. CASE LifeBackground
  <2>1. open' = open
    BY <1>9 DEF LifeBackground, Background, CallerSteps, EnsureSteps, RequestSteps, KeepLoop, RestartLoop,
       ReviveLoop, JoinEnds, Replace, ReplaceEnds, Stop, StopEnds, Disconnect, LoopSteps, LoopEnds,
       LoopCalls, LoopStops, LoopReturns, LoopClosed, LoopRecords, End, HaltSteps, Halt, HaltEnds, BeginEnsure
  <2> QED
    BY <2>1, <1>9 DEF LifeBackground, homeVars
<1>10. CASE UNCHANGED lifeVars
  BY <1>10 DEF lifeVars, homeVars, heartbeatVars
<1> QED
  BY <1>1, <1>2, <1>3, <1>4, <1>5, <1>6, <1>7, <1>8, <1>9, <1>10 DEF LifeNext

LEMMA LifeInvariant == LifeSpec => []LifeInv
<1>1. LifeInit => LifeInv
  BY HomeInvInit, HeartInvInit DEF LifeInit, LifeInv, ServerInv, HeartbeatInit
<1>2. LifeInv /\ [LifeNext]_lifeVars => LifeInv'
  <2> SUFFICES ASSUME LifeInv, [LifeNext]_lifeVars PROVE LifeInv'
    OBVIOUS
  <2>1. HomeInv'
    BY LifeStepsHome, HomeInvStep DEF LifeInv
  <2>2. HeartInv'
    BY HeartInvStep DEF LifeInv
  <2> QED
    BY <2>1, <2>2, ServerInvStep DEF LifeInv
<1> QED
  BY <1>1, <1>2, PTL DEF LifeSpec

-----------------------------------------------------------------------------
\* Type correctness of the home, the service and what connects them.
THEOREM LifeTypeCorrect == LifeSpec => []LifeTypeOK
<1>1. LifeInv => LifeTypeOK
  BY DEF LifeInv, LifeTypeOK, HomeInv, HeartbeatTypeOK, HeartInv, RegistryInv, CallersInv, StoreInv, ServerInv
<1> QED
  BY <1>1, LifeInvariant, PTL

\* No connection has two heartbeat threads, for any interleaving of requests,
\* watchdog and shutdown and however long the calls to the server last.
THEOREM NoSecondLoop == LifeSpec => []OneLoop
<1>1. LifeInv => OneLoop
  BY DEF LifeInv, HeartInv, RegistryInv
<1> QED
  BY <1>1, LifeInvariant, PTL

\* A store is open only in the process that holds the lock on its home.
THEOREM StoreIsLocked == LifeSpec => []StoreUnderLock
<1>1. LifeInv => StoreUnderLock
  BY HomeAssumption DEF LifeInv, ServerInv, HomeInv, LockIsHeld, StoreUnderLock, StoreOpen
<1> QED
  BY <1>1, LifeInvariant, PTL
=============================================================================
