----------------------------- MODULE Heartbeat -----------------------------
(***************************************************************************)
(* The heartbeat service of one daemon (heartbeat_service.py): one thread    *)
(* per server connection, started, replaced and stopped by requests, revived *)
(* by a watchdog.  Threads are joined with a time-out, a call to the server  *)
(* may outlast it, and the store may be closed under all of them.            *)
(***************************************************************************)
EXTENDS Naturals

CONSTANTS
  Conn,      \* server connections, rows of the store
  Thread,    \* heartbeat threads of a connection that may live at a time
  Request,   \* requests that connect, disconnect or look at the connection
  Watchdog,  \* the watchdog's thread
  Main,      \* the thread that builds and shuts down the runtime
  Nothing    \* no connection, no thread

Caller == Request \cup {Watchdog, Main}

ASSUME HeartbeatAssumption ==
  /\ Nothing \notin Conn \cup Thread
  /\ Watchdog # Main /\ Watchdog \notin Request /\ Main \notin Request

VARIABLES
  open,      \* the store is open
  quitting,  \* _watchdog_stop
  current,   \* the connection the store says is current
  threads,   \* _threads, with the events of _stops: what is registered
  alive,     \* the threads that have not ended, with their connections
  calling,   \* those of them inside sync_once
  stopped,   \* those of them whose stop event is set
  caller,    \* where each caller is
  arg        \* the connection it works on

heartbeatVars == <<open, quitting, current, threads, alive, calling, stopped, caller, arg>>
loopVars == <<threads, alive, calling, stopped>>

\* Stages that hold _lifecycle_lock
Holding == {"joining", "replacing", "stopping", "halting"}
Stages == {"off", "idle", "ensure", "replace", "stop", "disconnect", "halt"} \cup Holding

HeartbeatTypeOK ==
  /\ open \in BOOLEAN
  /\ quitting \in BOOLEAN
  /\ current \in Conn \cup {Nothing}
  /\ threads \in [Conn -> Thread \cup {Nothing}]
  /\ alive \subseteq Conn \X Thread
  /\ calling \subseteq alive
  /\ stopped \subseteq alive
  /\ caller \in [Caller -> Stages]
  /\ arg \in [Caller -> Conn \cup {Nothing}]

Fresh ==
  /\ quitting' = FALSE
  /\ threads' = [c \in Conn |-> Nothing]
  /\ alive' = {}
  /\ calling' = {}
  /\ stopped' = {}
  /\ caller' = [k \in Caller |-> IF k = Watchdog THEN "off" ELSE "idle"]
  /\ arg' = [k \in Caller |-> Nothing]

HeartbeatInit ==
  /\ open = FALSE
  /\ quitting = FALSE
  /\ current = Nothing
  /\ threads = [c \in Conn |-> Nothing]
  /\ alive = {}
  /\ calling = {}
  /\ stopped = {}
  /\ caller = [k \in Caller |-> IF k = Watchdog THEN "off" ELSE "idle"]
  /\ arg = [k \in Caller |-> Nothing]

\* The registered thread of c
Registered(c) == <<c, threads[c]>>
Lives(c) == Registered(c) \in alive
LockFree == \A k \in Caller : caller[k] \notin Holding
To(k, stage, c) == caller' = [caller EXCEPT ![k] = stage] /\ arg' = [arg EXCEPT ![k] = c]

\* A thread that has ended can be told from a new one by nobody.
StartLoop(c) ==
  LET free == {i \in Thread : <<c, i>> \notin alive}
      new == CHOOSE i \in free : TRUE
  IN  /\ free # {}
      /\ threads' = [threads EXCEPT ![c] = new]
      /\ alive' = alive \cup {<<c, new>>}
      /\ UNCHANGED <<calling, stopped>>

\* Threads that are dead are taken out of the registry.
Unregister(cs) ==
  threads' = [c \in Conn |-> IF c \in cs /\ ~Lives(c) THEN Nothing ELSE threads[c]]

SetStops(cs) == stopped' = stopped \cup {Registered(c) : c \in {d \in cs : Lives(d)}}

-----------------------------------------------------------------------------
\* ensure_server_heartbeat, by requests and by the watchdog; restore_server_heartbeat

Restore ==
  /\ open
  /\ caller[Watchdog] = "off"
  /\ caller' = [caller EXCEPT ![Watchdog] = "idle",
                              ![Main] = IF current = Nothing THEN "idle" ELSE "ensure"]
  /\ arg' = [arg EXCEPT ![Main] = current]
  /\ UNCHANGED <<open, quitting, current, loopVars>>

\* It has looked at _watchdog_stop and read the current connection.
BeginEnsure(k) ==
  /\ open /\ ~quitting
  /\ caller[k] = "idle"
  /\ current # Nothing
  /\ To(k, "ensure", current)
  /\ UNCHANGED <<open, quitting, current, loopVars>>

\* A thread that ticks is left alone.
KeepLoop(k) ==
  /\ caller[k] = "ensure"
  /\ LockFree
  /\ Lives(arg[k])
  /\ To(k, "idle", Nothing)
  /\ UNCHANGED <<open, quitting, current, loopVars>>

\* A thread that has not ticked for long is in a call: it is told to stop.
RestartLoop(k) ==
  /\ caller[k] = "ensure"
  /\ LockFree
  /\ Registered(arg[k]) \in calling
  /\ SetStops({arg[k]})
  /\ To(k, "joining", arg[k])
  /\ UNCHANGED <<open, quitting, current, threads, alive, calling>>

BrokenReviveLoop(k) ==   \* takes a thread that is registered for one that lives
  /\ caller[k] = "ensure"
  /\ LockFree
  /\ To(k, "idle", Nothing)
  /\ IF threads[arg[k]] = Nothing THEN StartLoop(arg[k])
     ELSE UNCHANGED loopVars
  /\ UNCHANGED <<open, quitting, current>>

ReviveLoop(k) ==
  /\ caller[k] = "ensure"
  /\ LockFree
  /\ ~Lives(arg[k])
  /\ To(k, "idle", Nothing)
  /\ StartLoop(arg[k])
  /\ UNCHANGED <<open, quitting, current>>

BrokenJoinEnds(k) ==     \* replaces the thread it has not seen end
  /\ caller[k] = "joining"
  /\ StartLoop(arg[k])
  /\ To(k, "idle", Nothing)
  /\ UNCHANGED <<open, quitting, current>>

\* The join has timed out and nothing is started, or the thread has ended.
JoinEnds(k) ==
  /\ caller[k] = "joining"
  /\ IF Lives(arg[k]) THEN UNCHANGED loopVars
     ELSE StartLoop(arg[k])
  /\ To(k, "idle", Nothing)
  /\ UNCHANGED <<open, quitting, current>>

-----------------------------------------------------------------------------
\* connect_server and start_server_heartbeat

Connect(k, c) ==
  /\ k \in Request
  /\ open
  /\ caller[k] = "idle"
  /\ current' = c
  /\ To(k, "replace", c)
  /\ UNCHANGED <<open, quitting, loopVars>>

Replace(k) ==
  /\ caller[k] = "replace"
  /\ LockFree
  /\ SetStops(Conn \ {arg[k]})
  /\ To(k, "replacing", arg[k])
  /\ UNCHANGED <<open, quitting, current, threads, alive, calling>>

\* The joins of the others are over.  The connection's own thread is replaced, too:
\* it may have an older token.
ReplaceEnds(k) ==
  LET c == arg[k] IN
  /\ caller[k] = "replacing"
  /\ Unregister(Conn \ {c})
  /\ IF Lives(c) THEN SetStops({c}) ELSE UNCHANGED stopped
  /\ To(k, "joining", c)
  /\ UNCHANGED <<open, quitting, current, alive, calling>>

-----------------------------------------------------------------------------
\* disconnect_server and stop_server_heartbeat

BeginStop(k) ==
  /\ k \in Request
  /\ open
  /\ caller[k] = "idle"
  /\ current # Nothing
  /\ To(k, "stop", current)
  /\ UNCHANGED <<open, quitting, current, loopVars>>

Stop(k) ==
  /\ caller[k] = "stop"
  /\ LockFree
  /\ SetStops({arg[k]})
  /\ To(k, "stopping", arg[k])
  /\ UNCHANGED <<open, quitting, current, threads, alive, calling>>

StopEnds(k) ==
  /\ caller[k] = "stopping"
  /\ Unregister({arg[k]})
  /\ To(k, "disconnect", arg[k])
  /\ UNCHANGED <<open, quitting, current, alive, calling, stopped>>

\* The server has been told, or could not be.  The row of another connection may
\* become the current one.
Disconnect(k) ==
  /\ caller[k] = "disconnect"
  /\ \/ UNCHANGED current
     \/ /\ open /\ current = arg[k]
        /\ current' \in (Conn \ {arg[k]}) \cup {Nothing}
  /\ To(k, "idle", Nothing)
  /\ UNCHANGED <<open, quitting, loopVars>>

-----------------------------------------------------------------------------
\* shutdown

BeginHalt ==
  /\ caller[Main] = "idle"
  /\ ~quitting
  /\ quitting' = TRUE
  /\ To(Main, "halt", Nothing)
  /\ UNCHANGED <<open, current, loopVars>>

Halt ==
  /\ caller[Main] = "halt"
  /\ LockFree
  /\ SetStops(Conn)
  /\ To(Main, "halting", Nothing)
  /\ UNCHANGED <<open, quitting, current, threads, alive, calling>>

HaltEnds ==
  /\ caller[Main] = "halting"
  /\ Unregister(Conn)
  /\ To(Main, "idle", Nothing)
  /\ UNCHANGED <<open, quitting, current, alive, calling, stopped>>

-----------------------------------------------------------------------------
\* _server_heartbeat_loop

End(l) ==
  /\ alive' = alive \ {l}
  /\ calling' = calling \ {l}
  /\ stopped' = stopped \ {l}
  /\ UNCHANGED <<open, quitting, current, threads, caller, arg>>

LoopCalls(l) ==
  /\ open
  /\ l \in alive \ (calling \cup stopped)
  /\ calling' = calling \cup {l}
  /\ UNCHANGED <<open, quitting, current, threads, alive, stopped, caller, arg>>

LoopStops(l) ==
  /\ l \in stopped \ calling
  /\ End(l)

\* A heartbeat, or its failure, is written to the row of its connection, which is
\* the newest then; it becomes the current one unless it is of another machine.
LoopRecords(l) ==
  /\ open
  /\ l \in calling
  /\ l[1] # current
  /\ current' = l[1]
  /\ UNCHANGED <<open, quitting, loopVars, caller, arg>>

LoopReturns(l) ==
  /\ l \in calling
  /\ calling' = calling \ {l}
  /\ UNCHANGED <<open, quitting, current, threads, alive, stopped, caller, arg>>

BrokenLoopClosed(l) ==   \* retries whatever has gone wrong
  /\ ~open
  /\ l \in calling
  /\ calling' = calling \ {l}
  /\ UNCHANGED <<open, quitting, current, threads, alive, stopped, caller, arg>>

\* What it reads from the store says "store is closed".
LoopClosed(l) ==
  /\ ~open
  /\ l \in alive
  /\ End(l)

-----------------------------------------------------------------------------
EnsureSteps(k) == KeepLoop(k) \/ RestartLoop(k) \/ ReviveLoop(k) \/ JoinEnds(k)
RequestSteps(k) ==
  Replace(k) \/ ReplaceEnds(k) \/ Stop(k) \/ StopEnds(k) \/ Disconnect(k)
CallerSteps(k) == EnsureSteps(k) \/ RequestSteps(k)
HaltSteps == Halt \/ HaltEnds
LoopEnds(l) == LoopStops(l) \/ LoopReturns(l) \/ LoopClosed(l)
LoopSteps(l) == LoopCalls(l) \/ LoopRecords(l) \/ LoopEnds(l)
Begins(k) == BeginEnsure(k) \/ (\E c \in Conn : Connect(k, c)) \/ BeginStop(k)

\* What runs by itself; what begins a request, restores or halts is up to others.
Background ==
  \/ \E k \in Caller : CallerSteps(k)
  \/ \E l \in Conn \X Thread : LoopSteps(l)
  \/ HaltSteps
  \/ BeginEnsure(Watchdog)

-----------------------------------------------------------------------------
\* Properties

\* A thread that lives is the one registered for its connection, so no connection
\* has two, whichever time-outs the joins meet.
OneLoop == \A l \in alive : threads[l[1]] = l[2]

Settled(c) == open /\ ~quitting /\ current = c /\ caller[Watchdog] # "off"
             /\ \A k \in Request : caller[k] \in {"idle", "ensure"}

\* While the store is open, the service has not been shut down and a connection
\* stays current, that connection is never left for good without a thread that goes on.
HeartbeatRecovers ==
  \A c \in Conn : <>[]Settled(c) => []<>(Registered(c) \in alive \ stopped)

\* No thread outlives the store for good.
LoopsEnd == <>[](~open) => <>[](alive = {})
=============================================================================
