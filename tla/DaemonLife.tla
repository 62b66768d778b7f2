----------------------------- MODULE DaemonLife -----------------------------
(***************************************************************************)
(* The processes that serve a home one after the other, each with its store  *)
(* and its heartbeat service: serve() in server.py over HomeLock and         *)
(* Heartbeat.  Threads of a daemon may outlast its store, and its lock; they *)
(* die with its process.                                                     *)
(***************************************************************************)
EXTENDS HomeLock, Heartbeat

VARIABLE server   \* the process that the store and the service belong to

lifeVars == <<homeVars, heartbeatVars, server>>

LifeTypeOK ==
  /\ HomeTypeOK
  /\ HeartbeatTypeOK
  /\ server \in Process \cup {Nobody}

LifeInit == HomeInit /\ HeartbeatInit /\ server = Nobody

Other == UNCHANGED <<heartbeatVars, server>>

\* Before the store is open and after it is closed
Outside(p) ==
  /\ \/ Acquiring(p) \/ OpenFails(p) \/ TearStopped(p) \/ RecordStopped(p) \/ RecordFails(p)
  /\ Other

LifeOpenStore(p) ==
  /\ OpenStore(p)
  /\ open' = TRUE
  /\ server' = p
  /\ Fresh
  /\ UNCHANGED current

\* The constructor of the runtime restores the heartbeat, and may fail before that
\* or after.
LifeRestore(p) ==
  /\ at[p] = "opened"
  /\ Restore
  /\ UNCHANGED <<homeVars, server>>

LifeServe(p) ==
  /\ \/ (Publish(p) \/ PublishFails(p)) /\ caller[Watchdog] # "off"
     \/ ClearEndpoint(p)
  /\ caller[Main] = "idle"
  /\ Other

LifeHalt(p) ==
  /\ at[p] = "stopping"
  /\ BeginHalt
  /\ UNCHANGED <<homeVars, server>>

BrokenLifeClose(p) ==   \* leaves the store open
  /\ BuildFails(p) \/ CloseStore(p)
  /\ caller[Main] = "idle"
  /\ Other

\* What shutdown raises is swallowed, so the heartbeats may not have been halted.
LifeClose(p) ==
  /\ BuildFails(p) \/ CloseStore(p)
  /\ caller[Main] = "idle"
  /\ open' = FALSE
  /\ UNCHANGED <<quitting, current, loopVars, caller, arg, server>>

\* The process ends, and its threads with it: by itself soon after serve has
\* returned, which is not told apart from the return.  Its store is closed since
\* LifeClose, so what is left of the service in between could only end.
ThreadsDie(p) ==
  IF server = p
  THEN open' = FALSE /\ server' = Nobody /\ Fresh /\ UNCHANGED current
  ELSE Other

LifeEnd(p) == (Unlock(p) \/ Crash(p)) /\ ThreadsDie(p)

\* Requests come while the app serves.
LifeRequest(k) ==
  /\ server # Nobody /\ at[server] = "serving"
  /\ Begins(k)
  /\ UNCHANGED <<homeVars, server>>

LifeBackground == Background /\ UNCHANGED <<homeVars, server>>

LifeNext ==
  \/ \E p \in Process :
       \/ Outside(p) \/ LifeOpenStore(p) \/ LifeRestore(p) \/ LifeServe(p) \/ LifeHalt(p)
       \/ LifeClose(p) \/ LifeEnd(p)
  \/ \E k \in Request : LifeRequest(k)
  \/ LifeBackground

LifeSpec == LifeInit /\ [][LifeNext]_lifeVars

\* Calls to the server, joins and waits have time-outs, and the watchdog is a
\* thread; nobody has to send a request, and a daemon need not stop.
FairLifeSpec ==
  /\ LifeSpec
  /\ \A k \in Caller : WF_lifeVars(CallerSteps(k) /\ UNCHANGED <<homeVars, server>>)
  /\ \A l \in Conn \X Thread : WF_lifeVars(LoopEnds(l) /\ UNCHANGED <<homeVars, server>>)
  /\ WF_lifeVars(BeginEnsure(Watchdog) /\ UNCHANGED <<homeVars, server>>)

-----------------------------------------------------------------------------
\* Properties

\* Whoever has the store open holds the lock on its home: the heartbeats, runs and
\* requests of two daemons never work on one store.
StoreUnderLock ==
  open => server # Nobody /\ holder = server /\ at[server] \in StoreOpen
=============================================================================
