----------------------------- MODULE DockerPool -----------------------------
(***************************************************************************)
(* DockerPool of src/spl/daemon/docker_pool.py with the runs that lease its  *)
(* warm containers through DockerBackend (runtime_backend.py).  What the     *)
(* code does under the pool's condition is one step; waiting on it, starting *)
(* a container, running a worker and destroying a quarantined container      *)
(* happen outside.  A container is named by its generation: each start has a *)
(* fresh one, and docker's name and immutable id carry it.                   *)
(***************************************************************************)
EXTENDS Naturals, FiniteSets

CONSTANTS
  Use,        \* calls of ensure_container, each by a run or a prewarm of its own
  Key,        \* pool keys: image, runtime configuration and network
  KeyOf,      \* the key each call asks for
  PoolSize,   \* pool_size
  Free        \* the lease id of a container that is not in use

ASSUME PoolAssumption ==
  /\ PoolSize \in Nat \ {0}
  /\ KeyOf \in [Use -> Key]
  /\ Free \notin Use

VARIABLES
  containers,      \* _containers: at most one record for each key
  starting,        \* _starting
  nextGeneration,  \* _next_container_generation
  closed,          \* _closed
  pc,              \* where each call and the run that made it are
  generation,      \* container_generation of the record a call holds
  closer,          \* the thread in shutdown()
  docker,          \* generations docker has a container of
  orphans,         \* generations given up on: docker may still have them
  workers          \* <<use, generation>>: worker processes inside containers

pool     == <<containers, starting, nextGeneration, closed>>
machine  == <<docker, orphans, workers>>
poolVars == <<pool, pc, generation, closer, machine>>

\* lease is the lease_id, unique to the call that took it; Free when not in_use.
Container == [key : Key, generation : Nat, lease : Use \cup {Free}]

PcAt == {"idle", "ready", "waiting", "starting", "started", "start_failed", "leased",
         "validated", "executing", "timed_out", "retired", "ended", "failed", "done"}

PoolTypeOK ==
  /\ containers \subseteq Container
  /\ starting \subseteq Key
  /\ nextGeneration \in Nat \ {0}
  /\ closed \in BOOLEAN
  /\ pc \in [Use -> PcAt]
  /\ generation \in [Use -> Nat]
  /\ closer \in {"none", "waiting", "ready", "done"}
  /\ docker \subseteq Nat
  /\ orphans \subseteq Nat
  /\ workers \subseteq Use \X Nat

PoolInit ==
  /\ containers = {}
  /\ starting = {}
  /\ nextGeneration = 1
  /\ closed = FALSE
  /\ pc = [u \in Use |-> "idle"]
  /\ generation = [u \in Use |-> 0]
  /\ closer = "none"
  /\ docker = {}
  /\ orphans = {}
  /\ workers = {}

Generations(cs) == {c.generation : c \in cs}
Idle(cs) == {c \in cs : c.lease = Free}
Of(cs, u) == {c \in cs : c.key = KeyOf[u]}

\* remove_container, _kill_and_remove_container, _quarantine_owned_target: the
\* pool asks once, and the container goes only if docker answers and does as it
\* is told.  What ran in a container that is gone is gone too.
Remove(gs) ==
  \E lost \in SUBSET gs :
    /\ docker' = docker \ (gs \ lost)
    /\ orphans' = orphans \cup lost
    /\ workers' = {w \in workers : w[2] \notin gs \ lost}

\* Condition.notify_all, with the caller's own next place.
WakeAndGoto(u, at) ==
  /\ pc' = [v \in Use |-> IF v = u THEN at ELSE IF pc[v] = "waiting" THEN "ready" ELSE pc[v]]
  /\ closer' = IF closer = "waiting" THEN "ready" ELSE closer

Goto(u, at) ==
  /\ pc' = [pc EXCEPT ![u] = at]
  /\ UNCHANGED closer

-----------------------------------------------------------------------------
(* ensure_container. *)

Begin(u) ==
  /\ pc[u] = "idle"
  /\ Goto(u, "ready")
  /\ UNCHANGED <<pool, generation, machine>>

RefuseClosed(u) ==
  /\ pc[u] = "ready"
  /\ closed
  /\ Goto(u, "failed")
  /\ UNCHANGED <<pool, generation, machine>>

\* Every pass of the loop first evicts the containers idle for too long, which
\* may be any of the idle ones.  Nobody is notified.
Expired == SUBSET Idle(containers)

WaitForLease(u) ==
  /\ pc[u] = "ready" /\ ~closed
  /\ \E expired \in Expired :
       /\ \E c \in Of(containers, u) : c.lease # Free
       /\ containers' = containers \ expired
       /\ Remove(Generations(expired))
  /\ Goto(u, "waiting")
  /\ UNCHANGED <<starting, nextGeneration, closed, generation>>

BrokenLeased(c, id) ==        \* the lease id is the pool's key, not an id of its own
  [key |-> c.key, generation |-> c.generation, lease |-> c.key]

Leased(c, id) == [key |-> c.key, generation |-> c.generation, lease |-> id]

LeaseWarm(u) ==
  /\ pc[u] = "ready" /\ ~closed
  /\ \E expired \in Expired : \E c \in Of(containers \ expired, u) :
       /\ c.lease = Free
       /\ containers' = (containers \ (expired \cup {c})) \cup {Leased(c, u)}
       /\ generation' = [generation EXCEPT ![u] = c.generation]
       /\ Remove(Generations(expired))
  /\ Goto(u, "leased")
  /\ UNCHANGED <<starting, nextGeneration, closed>>

\* No container of the key is kept: there is none, or it has expired, or
\* docker does not report it as running.
WaitForStart(u) ==
  /\ pc[u] = "ready" /\ ~closed
  /\ KeyOf[u] \in starting
  /\ \E dropped \in Expired :
       /\ Of(containers, u) \subseteq dropped
       /\ containers' = containers \ dropped
       /\ Remove(Generations(dropped))
  /\ Goto(u, "waiting")
  /\ UNCHANGED <<starting, nextGeneration, closed, generation>>

\* evict_excess_locked(reserve=n): one idle container after the other, the
\* least recently used first, until n more fit.
Evictions(cs, n) ==
  {e \in SUBSET Idle(cs) :
     \/ e = {} /\ Cardinality(cs) + n <= PoolSize
     \/ e # {} /\ Cardinality(cs \ e) + n = PoolSize
     \/ e = Idle(cs) /\ Cardinality(cs \ e) + n > PoolSize}

\* The containers a pass keeps when it gets to the capacity check.
MakeRoom(u, kept) ==
  \E dropped \in Expired :
    /\ Of(containers, u) \subseteq dropped
    /\ \E excess \in Evictions(containers \ dropped, Cardinality(starting) + 1) :
         kept = containers \ (dropped \cup excess)

BrokenFits(cs) == Cardinality(cs) < PoolSize      \* forgets the starts under way

Fits(cs) == Cardinality(cs) + Cardinality(starting) < PoolSize

WaitForRoom(u) ==
  /\ pc[u] = "ready" /\ ~closed
  /\ KeyOf[u] \notin starting
  /\ \E kept \in SUBSET containers :
       /\ MakeRoom(u, kept)
       /\ ~Fits(kept)
       /\ containers' = kept
       /\ Remove(Generations(containers \ kept))
  /\ Goto(u, "waiting")
  /\ UNCHANGED <<starting, nextGeneration, closed, generation>>

BrokenReserveStart(u) ==      \* a start under way is no reason to wait
  /\ pc[u] = "ready" /\ ~closed
  /\ \E kept \in SUBSET containers :
       /\ MakeRoom(u, kept)
       /\ BrokenFits(kept)
       /\ containers' = kept
       /\ Remove(Generations(containers \ kept))
  /\ starting' = starting \cup {KeyOf[u]}
  /\ generation' = [generation EXCEPT ![u] = nextGeneration]
  /\ nextGeneration' = nextGeneration + 1
  /\ Goto(u, "starting")
  /\ UNCHANGED closed

ReserveStart(u) ==
  /\ pc[u] = "ready" /\ ~closed
  /\ KeyOf[u] \notin starting
  /\ \E kept \in SUBSET containers :
       /\ MakeRoom(u, kept)
       /\ Fits(kept)
       /\ containers' = kept
       /\ Remove(Generations(containers \ kept))
  /\ starting' = starting \cup {KeyOf[u]}
  /\ generation' = [generation EXCEPT ![u] = nextGeneration]
  /\ nextGeneration' = nextGeneration + 1
  /\ Goto(u, "starting")
  /\ UNCHANGED closed

-----------------------------------------------------------------------------
(* start_container, outside the condition, and what follows it. *)

DockerRun(u) ==
  /\ pc[u] = "starting"
  /\ docker' = docker \cup {generation[u]}
  /\ Goto(u, "started")
  /\ UNCHANGED <<pool, generation, orphans, workers>>

\* The start fails or exceeds its time: what there is of it is quarantined.
DockerRunFails(u) ==
  /\ pc[u] = "starting"
  /\ \E left \in SUBSET {generation[u]} :
       /\ docker' = docker \cup left
       /\ orphans' = orphans \cup left
  /\ Goto(u, "start_failed")
  /\ UNCHANGED <<pool, generation, workers>>

BrokenAbandonStart(u) ==      \* a failed start notifies nobody
  /\ pc[u] = "start_failed"
  /\ starting' = starting \ {KeyOf[u]}
  /\ Goto(u, "failed")
  /\ UNCHANGED <<containers, nextGeneration, closed, generation, machine>>

AbandonStart(u) ==
  /\ pc[u] = "start_failed"
  /\ starting' = starting \ {KeyOf[u]}
  /\ WakeAndGoto(u, "failed")
  /\ UNCHANGED <<containers, nextGeneration, closed, generation, machine>>

BrokenDiscardStart(u) ==      \* the container started for a closed pool is left running
  /\ pc[u] = "started"
  /\ closed
  /\ starting' = starting \ {KeyOf[u]}
  /\ WakeAndGoto(u, "failed")
  /\ UNCHANGED <<containers, nextGeneration, closed, generation, machine>>

\* The pool was shut down meanwhile: shutdown() is waiting for this start.
DiscardStart(u) ==
  /\ pc[u] = "started"
  /\ closed
  /\ starting' = starting \ {KeyOf[u]}
  /\ Remove({generation[u]})
  /\ WakeAndGoto(u, "failed")
  /\ UNCHANGED <<containers, nextGeneration, closed, generation>>

\* The branch for a container that appeared under the key while this one was
\* starting is left out: StartsAlone shows that it is never taken.
Adopt(u) ==
  /\ pc[u] = "started"
  /\ ~closed
  /\ starting' = starting \ {KeyOf[u]}
  /\ \E excess \in Evictions(containers, 1) :
       /\ containers' = (containers \ excess) \cup
            {[key |-> KeyOf[u], generation |-> generation[u], lease |-> u]}
       /\ Remove(Generations(excess))
  /\ WakeAndGoto(u, "leased")
  /\ UNCHANGED <<nextGeneration, closed, generation>>

-----------------------------------------------------------------------------
(* The lease in use: use_container, exec_worker_command, the worker. *)

\* _matching_lease_locked: key, generation and lease id are the ones held.
Matching(u) ==
  {c \in containers : c.key = KeyOf[u] /\ c.generation = generation[u] /\ c.lease = u}

Validate(u) ==
  /\ pc[u] = "leased"
  /\ Goto(u, IF Matching(u) # {} THEN "validated" ELSE "failed")
  /\ UNCHANGED <<pool, generation, machine>>

\* docker exec, later and without the pool: the container may be gone by now.
ExecWorker(u) ==
  /\ pc[u] = "validated"
  /\ workers' = workers \cup ({u} \X ({generation[u]} \cap docker))
  /\ Goto(u, "executing")
  /\ UNCHANGED <<pool, generation, docker, orphans>>

\* The docker client ends when the worker in the container does.
WorkerEnds(u) ==
  /\ pc[u] = "executing"
  /\ workers' = workers \ ({u} \X {generation[u]})
  /\ Goto(u, "ended")
  /\ UNCHANGED <<pool, generation, docker, orphans>>

\* The docker client is killed; the worker in the container is not.
WorkerTimesOut(u) ==
  /\ pc[u] = "executing"
  /\ Goto(u, "timed_out")
  /\ UNCHANGED <<pool, generation, machine>>

BrokenRelease(u) ==           \* the next caller is not told
  /\ pc[u] \in {"leased", "validated", "ended"}
  /\ containers' = (containers \ Matching(u)) \cup {Leased(c, Free) : c \in Matching(u)}
  /\ Goto(u, "done")
  /\ UNCHANGED <<starting, nextGeneration, closed, generation, machine>>

\* release_container: a prewarm's, a run's that failed before its worker or
\* that ended.  A stale lease is left alone.
Release(u) ==
  /\ pc[u] \in {"leased", "validated", "ended"}
  /\ containers' = (containers \ Matching(u)) \cup {Leased(c, Free) : c \in Matching(u)}
  /\ IF Matching(u) # {} THEN WakeAndGoto(u, "done") ELSE Goto(u, "done")
  /\ UNCHANGED <<starting, nextGeneration, closed, generation, machine>>

BrokenRetire(u) ==            \* the lease is given back before the container is destroyed
  /\ pc[u] = "timed_out"
  /\ containers' = (containers \ Matching(u)) \cup {Leased(c, Free) : c \in Matching(u)}
  /\ IF Matching(u) # {} THEN WakeAndGoto(u, "retired") ELSE Goto(u, "ended")
  /\ UNCHANGED <<starting, nextGeneration, closed, generation, machine>>

\* quarantine_container: the lease is retired first ...
Retire(u) ==
  /\ pc[u] = "timed_out"
  /\ containers' = containers \ Matching(u)
  /\ IF Matching(u) # {} THEN WakeAndGoto(u, "retired") ELSE Goto(u, "ended")
  /\ UNCHANGED <<starting, nextGeneration, closed, generation, machine>>

\* ... and the container is destroyed outside the condition, if docker can.
Destroy(u) ==
  /\ pc[u] = "retired"
  /\ Remove({generation[u]})
  /\ Goto(u, "ended")
  /\ UNCHANGED <<pool, generation>>

-----------------------------------------------------------------------------
(* shutdown. *)

BrokenFinishShutdown ==       \* does not wait for the starts
  /\ containers' = {}
  /\ Remove(Generations(containers))
  /\ closer' = "done"

FinishShutdown ==
  /\ starting = {}
  /\ containers' = {}
  /\ Remove(Generations(containers))
  /\ closer' = "done"

AwaitStarts ==
  /\ starting # {}
  /\ closer' = "waiting"
  /\ UNCHANGED <<containers, machine>>

BrokenShutdown ==             \* the callers that wait are not told
  /\ closer \in {"none", "ready"}
  /\ closed' = TRUE
  /\ FinishShutdown \/ AwaitStarts
  /\ UNCHANGED <<pc, starting, nextGeneration, generation>>

Shutdown ==
  /\ closer \in {"none", "ready"}
  /\ closed' = TRUE
  /\ FinishShutdown \/ AwaitStarts
  /\ pc' = [v \in Use |-> IF pc[v] = "waiting" THEN "ready" ELSE pc[v]]
  /\ UNCHANGED <<starting, nextGeneration, generation>>

-----------------------------------------------------------------------------

Ensure(u) ==
  \/ RefuseClosed(u) \/ WaitForLease(u) \/ LeaseWarm(u) \/ WaitForStart(u)
  \/ WaitForRoom(u) \/ ReserveStart(u)

StartStep(u) ==
  DockerRun(u) \/ DockerRunFails(u) \/ AbandonStart(u) \/ DiscardStart(u) \/ Adopt(u)

RunStep(u) ==
  \/ Validate(u) \/ ExecWorker(u) \/ WorkerEnds(u) \/ WorkerTimesOut(u)
  \/ Release(u) \/ Retire(u) \/ Destroy(u)

PoolNext == Shutdown \/ \E u \in Use : Begin(u) \/ Ensure(u) \/ StartStep(u) \/ RunStep(u)

PoolSpec == PoolInit /\ [][PoolNext]_poolVars

\* A call's thread runs once begun: docker's commands have timeouts, and a
\* worker ends or exceeds its own.  Nothing is assumed of calls not begun.
PoolFairness ==
  /\ \A u \in Use : WF_poolVars(Ensure(u) \/ StartStep(u) \/ RunStep(u))
  /\ WF_poolVars(closer = "ready" /\ Shutdown)

FairPoolSpec == PoolSpec /\ PoolFairness

-----------------------------------------------------------------------------
(* Properties. *)

\* The containers the pool has and the ones that are being started outside the
\* condition never exceed pool_size together (ensure_container).
WithinCapacity == Cardinality(containers) + Cardinality(starting) <= PoolSize

\* No two workers are ever inside one container, not even the one of a run
\* that timed out and has given up its lease (release_container and
\* quarantine_container against a lease taken over by the next run).
OneWorkerPerContainer == \A v, w \in workers : v[2] = w[2] => v = w

\* While a call starts a container no other of its key is pooled or starting:
\* the generation-changed branch of ensure_container is dead.
InStart(u) == pc[u] \in {"starting", "started", "start_failed"}

StartsAlone ==
  \A u \in Use : InStart(u) =>
    /\ KeyOf[u] \in starting
    /\ Of(containers, u) = {}
    /\ \A v \in Use : InStart(v) /\ KeyOf[v] = KeyOf[u] => v = u

\* Docker has no container the pool does not answer for: it is pooled, being
\* started, being destroyed, or has been given up on after one attempt
\* (DiscardStart, quarantine_container, evictions, shutdown).
NothingForgotten ==
  docker \subseteq Generations(containers) \cup orphans \cup
                   {generation[u] : u \in {v \in Use : InStart(v) \/ pc[v] = "retired"}}

\* Nobody waits without somebody who will notify: a start under way, or a
\* holder that has still to release or retire its lease.
WaitersHaveAWaker ==
  (closer = "waiting" \/ \E u \in Use : pc[u] = "waiting") =>
     \E v \in Use : \/ InStart(v)
                    \/ /\ Matching(v) # {} /\ closer # "waiting"
                       /\ pc[v] \in {"leased", "validated", "executing", "timed_out", "ended"}

\* What the pool promises its users, whatever their calls, their time-outs, docker
\* and the shutdown do: containers are leased one user at a time, for their key,
\* with nobody inside (ensure_container, release_container, quarantine_container).
Warm ==
  INSTANCE WarmLeases WITH
    User     <- Use,
    next     <- nextGeneration,
    starting <- {<<u, generation[u]>> : u \in {v \in Use : InStart(v)}},
    idle     <- {<<c.key, c.generation>> : c \in Idle(containers)},
    leased   <- {<<c.lease, c.generation>> : c \in {d \in containers : d.lease # Free}},
    inside   <- workers,
    gate     <- IF closer = "done" THEN "closed" ELSE IF closed THEN "closing" ELSE "open"

WarmContainersKept == Warm!LeaseSpec

\* A pool that has been shut down stays empty, whatever was starting or leased
\* when it was.
ClosedPoolIsEmpty == closer = "done" => containers = {} /\ starting = {}

\* Every call of ensure_container returns or raises, and its run gets to its
\* end, even if the shutdown comes first.
CallsEnd == \A u \in Use : pc[u] = "ready" ~> pc[u] \in {"failed", "done"}

\* A shutdown that waits for starts gets to its end.
ShutdownEnds == closed ~> closer = "done"
=============================================================================
