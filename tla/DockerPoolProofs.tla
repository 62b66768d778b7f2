-------------------------- MODULE DockerPoolProofs --------------------------
(* Proofs about DockerPool, for every Use, Key, KeyOf and PoolSize. *)
EXTENDS DockerPool, FiniteSetTheorems, TLAPS

-----------------------------------------------------------------------------
(* What the shared helpers do. *)

LEMMA GotoFacts ==
  ASSUME PoolTypeOK, NEW u \in Use, NEW at \in PcAt, Goto(u, at)
  PROVE  /\ pc' \in [Use -> PcAt]
         /\ pc'[u] = at
         /\ \A v \in Use : v # u => pc'[v] = pc[v]
         /\ closer' = closer
  BY DEF PoolTypeOK, Goto

LEMMA WakeFacts ==
  ASSUME PoolTypeOK, NEW u \in Use, NEW at \in PcAt, WakeAndGoto(u, at)
  PROVE  /\ pc' \in [Use -> PcAt]
         /\ pc'[u] = at
         /\ \A v \in Use : v # u => \/ (pc'[v] = pc[v] /\ pc[v] # "waiting")
                                    \/ (pc'[v] = "ready" /\ pc[v] = "waiting")
         /\ closer' \in {"none", "waiting", "ready", "done"}
         /\ closer' # "waiting"
         /\ closer' = closer \/ (closer = "waiting" /\ closer' = "ready")
<1>1. "ready" \in PcAt
  BY DEF PcAt
<1> QED
  BY <1>1 DEF PoolTypeOK, WakeAndGoto

LEMMA RemoveFacts ==
  ASSUME PoolTypeOK, NEW gs \in SUBSET Nat, Remove(gs)
  PROVE  /\ docker' \subseteq docker
         /\ docker \subseteq docker' \cup gs
         /\ orphans \subseteq orphans'
         /\ orphans' \subseteq Nat
         /\ gs \cap docker' \subseteq orphans'
         /\ workers' \subseteq workers
  BY DEF PoolTypeOK, Remove

LEMMA GenerationsAreNats ==
  ASSUME PoolTypeOK, NEW cs \in SUBSET containers
  PROVE  Generations(cs) \in SUBSET Nat
  BY DEF PoolTypeOK, Generations, Container

LEMMA LeasedFacts ==
  ASSUME NEW c \in Container, NEW id \in Use \cup {Free}
  PROVE  /\ Leased(c, id) \in Container
         /\ Leased(c, id).key = c.key
         /\ Leased(c, id).generation = c.generation
         /\ Leased(c, id).lease = id
  BY DEF Leased, Container

-----------------------------------------------------------------------------
(* Every pass of ensure_container keeps the leased containers and drops some *)
(* idle ones; the passes that end in a wait do nothing else.                 *)

Drops(kept) ==
  /\ kept \in SUBSET containers
  /\ containers \ kept \subseteq Idle(containers)
  /\ Remove(Generations(containers \ kept))

Waits(u) == WaitForLease(u) \/ WaitForStart(u) \/ WaitForRoom(u)

LEMMA WaitFacts ==
  ASSUME PoolTypeOK, NEW u \in Use, Waits(u)
  PROVE  /\ pc[u] = "ready" /\ ~closed /\ Goto(u, "waiting")
         /\ Drops(containers')
         /\ UNCHANGED <<starting, nextGeneration, closed, generation>>
<1>1. ASSUME NEW d \in Expired
      PROVE  containers \ (containers \ d) = d /\ d \subseteq Idle(containers)
  BY <1>1 DEF Expired, Idle
<1>2. CASE WaitForLease(u)
  BY <1>1, <1>2 DEF WaitForLease, Drops
<1>3. CASE WaitForStart(u)
  BY <1>1, <1>3 DEF WaitForStart, Drops
<1>4. CASE WaitForRoom(u)
  <2>1. PICK kept \in SUBSET containers :
           /\ MakeRoom(u, kept)
           /\ containers' = kept
           /\ Remove(Generations(containers \ kept))
    BY <1>4 DEF WaitForRoom
  <2>2. containers \ kept \subseteq Idle(containers)
    BY <2>1 DEF MakeRoom, Expired, Evictions, Idle
  <2> QED
    BY <1>4, <2>1, <2>2 DEF WaitForRoom, Drops
<1> QED
  BY <1>2, <1>3, <1>4 DEF Waits

LEMMA ReserveFacts ==
  ASSUME PoolTypeOK, NEW u \in Use, ReserveStart(u)
  PROVE  /\ pc[u] = "ready" /\ ~closed /\ Goto(u, "starting")
         /\ Drops(containers')
         /\ Of(containers', u) = {}
         /\ Fits(containers')
         /\ KeyOf[u] \notin starting /\ starting' = starting \cup {KeyOf[u]}
         /\ generation' = [generation EXCEPT ![u] = nextGeneration]
         /\ nextGeneration' = nextGeneration + 1
         /\ UNCHANGED closed
<1>1. PICK kept \in SUBSET containers :
         /\ MakeRoom(u, kept)
         /\ Fits(kept)
         /\ containers' = kept
         /\ Remove(Generations(containers \ kept))
  BY DEF ReserveStart
<1>2. containers \ kept \subseteq Idle(containers) /\ Of(kept, u) = {}
  BY <1>1 DEF MakeRoom, Expired, Evictions, Idle, Of
<1> QED
  BY <1>1, <1>2 DEF ReserveStart, Drops, Fits

\* A warm container taken: the pool drops some idle ones and leases another.
LEMMA WarmFacts ==
  ASSUME PoolTypeOK, NEW u \in Use, LeaseWarm(u)
  PROVE  \E c \in containers, kept \in SUBSET containers :
           /\ c.lease = Free /\ c.key = KeyOf[u] /\ c \in kept
           /\ containers \ kept \subseteq Idle(containers)
           /\ Remove(Generations(containers \ kept))
           /\ containers' = (kept \ {c}) \cup {Leased(c, u)}
           /\ generation' = [generation EXCEPT ![u] = c.generation]
<1>1. PICK d \in Expired : \E c \in Of(containers \ d, u) :
         /\ c.lease = Free
         /\ containers' = (containers \ (d \cup {c})) \cup {Leased(c, u)}
         /\ generation' = [generation EXCEPT ![u] = c.generation]
         /\ Remove(Generations(d))
  BY DEF LeaseWarm
<1>2. PICK c \in Of(containers \ d, u) :
         /\ c.lease = Free
         /\ containers' = (containers \ (d \cup {c})) \cup {Leased(c, u)}
         /\ generation' = [generation EXCEPT ![u] = c.generation]
         /\ Remove(Generations(d))
  BY <1>1
<1>3. containers \ (containers \ d) = d /\ d \subseteq Idle(containers)
  BY DEF Expired, Idle
<1>4. containers' = ((containers \ d) \ {c}) \cup {Leased(c, u)}
  BY <1>2
<1> QED
  BY <1>2, <1>3, <1>4 DEF Of

\* A start adopted into a pool that has room for it evicts nothing more than
\* idle containers.
LEMMA AdoptFacts ==
  ASSUME PoolTypeOK, NEW u \in Use, Adopt(u)
  PROVE  \E kept \in SUBSET containers :
           /\ containers \ kept \subseteq Idle(containers)
           /\ Remove(Generations(containers \ kept))
           /\ containers' = kept \cup
                {[key |-> KeyOf[u], generation |-> generation[u], lease |-> u]}
<1>1. PICK e \in Evictions(containers, 1) :
         /\ containers' = (containers \ e) \cup
              {[key |-> KeyOf[u], generation |-> generation[u], lease |-> u]}
         /\ Remove(Generations(e))
  BY DEF Adopt
<1>2. containers \ (containers \ e) = e /\ e \subseteq Idle(containers)
  BY DEF Evictions, Idle
<1> QED
  BY <1>1, <1>2

-----------------------------------------------------------------------------
(* Type correctness. *)

LEMMA TypeStep == PoolTypeOK /\ [PoolNext]_poolVars => PoolTypeOK'
<1> SUFFICES ASSUME PoolTypeOK, [PoolNext]_poolVars PROVE PoolTypeOK'
  OBVIOUS
<1> DEFINE PoolOK(cs, st, ng, cl) ==
             cs \subseteq Container /\ st \subseteq Key /\ ng \in Nat \ {0} /\ cl \in BOOLEAN
           PcOK == pc' \in [Use -> PcAt] /\ closer' \in {"none", "waiting", "ready", "done"}
           MachineOK == docker' \subseteq Nat /\ orphans' \subseteq Nat /\ workers' \subseteq Use \X Nat
<1>1. /\ PoolOK(containers, starting, nextGeneration, closed)
      /\ generation \in [Use -> Nat]
      /\ docker \subseteq Nat /\ orphans \subseteq Nat /\ workers \subseteq Use \X Nat
      /\ pc \in [Use -> PcAt] /\ closer \in {"none", "waiting", "ready", "done"}
  BY DEF PoolTypeOK
<1>2. ASSUME PoolOK(containers', starting', nextGeneration', closed'), generation' \in [Use -> Nat],
             PcOK, MachineOK
      PROVE  PoolTypeOK'
  BY <1>2 DEF PoolTypeOK
<1>g. ASSUME NEW u \in Use, NEW at \in PcAt, Goto(u, at) \/ WakeAndGoto(u, at)
      PROVE  PcOK
  BY <1>1, <1>g, GotoFacts, WakeFacts
<1>r. ASSUME NEW gs \in SUBSET Nat, Remove(gs)
      PROVE  MachineOK
  BY <1>1, <1>r, RemoveFacts
<1>m. UNCHANGED machine => MachineOK
  BY <1>1 DEF machine
<1>p. UNCHANGED pool => PoolOK(containers', starting', nextGeneration', closed')
  BY <1>1 DEF pool
<1>d. ASSUME NEW kept, kept \in SUBSET containers, Remove(Generations(containers \ kept))
      PROVE  MachineOK
  <2>1. Generations(containers \ kept) \in SUBSET Nat
    BY GenerationsAreNats
  <2> QED
    BY <1>d, <1>r, <2>1
<1> HIDE DEF PcOK, MachineOK
<1>3. ASSUME NEW u \in Use, Begin(u) \/ RefuseClosed(u) \/ Validate(u) \/ WorkerTimesOut(u)
      PROVE  PoolTypeOK'
  <2>1. UNCHANGED <<pool, generation, machine>>
    BY <1>3 DEF Begin, RefuseClosed, Validate, WorkerTimesOut
  <2>2. PcOK
    BY <1>3, <1>g DEF Begin, RefuseClosed, Validate, WorkerTimesOut, PcAt
  <2> QED
    BY <1>1, <1>2, <1>m, <1>p, <2>1, <2>2
<1>4. ASSUME NEW u \in Use, Waits(u)
      PROVE  PoolTypeOK'
  <2>1. PcOK
    BY <1>4, <1>g, WaitFacts DEF PcAt
  <2>2. MachineOK /\ PoolOK(containers', starting', nextGeneration', closed')
    BY <1>1, <1>4, <1>d, WaitFacts DEF Drops
  <2> QED
    BY <1>1, <1>2, <1>4, <2>1, <2>2, WaitFacts
<1>5. ASSUME NEW u \in Use, LeaseWarm(u)
      PROVE  PoolTypeOK'
  <2>1. PICK c \in containers, kept \in SUBSET containers :
           /\ Remove(Generations(containers \ kept))
           /\ containers' = (kept \ {c}) \cup {Leased(c, u)}
           /\ generation' = [generation EXCEPT ![u] = c.generation]
    BY <1>5, WarmFacts
  <2>2. Leased(c, u) \in Container
    BY <1>1, LeasedFacts
  <2>3. c.generation \in Nat
    BY <1>1 DEF Container
  <2>4. PcOK
    BY <1>5, <1>g DEF LeaseWarm, PcAt
  <2>5. UNCHANGED <<starting, nextGeneration, closed>>
    BY <1>5 DEF LeaseWarm
  <2> QED
    BY <1>1, <1>2, <1>d, <2>1, <2>2, <2>3, <2>4, <2>5
<1>6. ASSUME NEW u \in Use, ReserveStart(u)
      PROVE  PoolTypeOK'
  <2>1. PcOK
    BY <1>6, <1>g, ReserveFacts DEF PcAt
  <2>2. MachineOK /\ containers' \subseteq Container
    BY <1>1, <1>6, <1>d, ReserveFacts DEF Drops
  <2>3. starting' \subseteq Key /\ generation' \in [Use -> Nat] /\ nextGeneration' \in Nat \ {0}
    BY <1>1, <1>6, ReserveFacts, PoolAssumption
  <2>4. UNCHANGED closed
    BY <1>6, ReserveFacts
  <2> QED
    BY <1>1, <1>2, <2>1, <2>2, <2>3, <2>4
<1>7. ASSUME NEW u \in Use, DockerRun(u) \/ DockerRunFails(u)
      PROVE  PoolTypeOK'
  <2>1. PcOK
    BY <1>7, <1>g DEF DockerRun, DockerRunFails, PcAt
  <2>2. MachineOK
    BY <1>1, <1>7 DEF DockerRun, DockerRunFails, MachineOK
  <2>3. UNCHANGED <<pool, generation>>
    BY <1>7 DEF DockerRun, DockerRunFails
  <2> QED
    BY <1>1, <1>2, <1>p, <2>1, <2>2, <2>3
<1>8. ASSUME NEW u \in Use, AbandonStart(u) \/ DiscardStart(u)
      PROVE  PoolTypeOK'
  <2>1. PcOK
    BY <1>8, <1>g DEF AbandonStart, DiscardStart, PcAt
  <2>2. MachineOK
    BY <1>1, <1>8, <1>m, <1>r DEF AbandonStart, DiscardStart
  <2>3. UNCHANGED <<containers, nextGeneration, closed, generation>> /\ starting' \subseteq starting
    BY <1>8 DEF AbandonStart, DiscardStart
  <2> QED
    BY <1>1, <1>2, <2>1, <2>2, <2>3
<1>9. ASSUME NEW u \in Use, Adopt(u)
      PROVE  PoolTypeOK'
  <2>1. PICK kept \in SUBSET containers :
           /\ Remove(Generations(containers \ kept))
           /\ containers' = kept \cup
                {[key |-> KeyOf[u], generation |-> generation[u], lease |-> u]}
    BY <1>9, AdoptFacts
  <2>2. containers' \subseteq Container
    BY <1>1, <2>1, PoolAssumption DEF Container
  <2>3. PcOK
    BY <1>9, <1>g DEF Adopt, PcAt
  <2>4. UNCHANGED <<nextGeneration, closed, generation>> /\ starting' \subseteq starting
    BY <1>9 DEF Adopt
  <2> QED
    BY <1>1, <1>2, <1>d, <2>1, <2>2, <2>3, <2>4
<1>10. ASSUME NEW u \in Use, ExecWorker(u) \/ WorkerEnds(u)
       PROVE  PoolTypeOK'
  <2>1. PcOK
    BY <1>10, <1>g DEF ExecWorker, WorkerEnds, PcAt
  <2>2. MachineOK
    BY <1>1, <1>10 DEF ExecWorker, WorkerEnds, MachineOK
  <2>3. UNCHANGED <<pool, generation>>
    BY <1>10 DEF ExecWorker, WorkerEnds
  <2> QED
    BY <1>1, <1>2, <1>p, <2>1, <2>2, <2>3
<1>11. ASSUME NEW u \in Use, Release(u) \/ Retire(u)
       PROVE  PoolTypeOK'
  <2>1. PcOK
    BY <1>11, <1>g DEF Release, Retire, PcAt
  <2>2. \A c \in Matching(u) : Leased(c, Free) \in Container
    BY <1>1, LeasedFacts DEF Matching
  <2>3. containers' \subseteq Container
    BY <1>1, <1>11, <2>2 DEF Release, Retire
  <2>4. UNCHANGED <<starting, nextGeneration, closed, generation, machine>>
    BY <1>11 DEF Release, Retire
  <2> QED
    BY <1>1, <1>2, <1>m, <2>1, <2>3, <2>4
<1>12. ASSUME NEW u \in Use, Destroy(u)
       PROVE  PoolTypeOK'
  <2>1. PcOK
    BY <1>12, <1>g DEF Destroy, PcAt
  <2>2. MachineOK
    BY <1>1, <1>12, <1>r DEF Destroy
  <2> QED
    BY <1>1, <1>2, <1>12, <1>p, <2>1, <2>2 DEF Destroy
<1>13. CASE Shutdown
  <2>1. PcOK
    BY <1>1, <1>13 DEF Shutdown, FinishShutdown, AwaitStarts, PcOK, PcAt
  <2>2. MachineOK /\ containers' \subseteq containers
    <3>1. CASE FinishShutdown
      <4>1. Generations(containers) \in SUBSET Nat
        BY GenerationsAreNats
      <4> QED
        BY <1>r, <3>1, <4>1 DEF FinishShutdown
    <3>2. CASE AwaitStarts
      BY <1>m, <3>2 DEF AwaitStarts
    <3> QED
      BY <1>13, <3>1, <3>2 DEF Shutdown
  <2> QED
    BY <1>1, <1>2, <1>13, <2>1, <2>2 DEF Shutdown
<1>14. CASE UNCHANGED poolVars
  BY <1>14 DEF poolVars, pool, machine, PoolTypeOK
<1> QED
  BY <1>3, <1>4, <1>5, <1>6, <1>7, <1>8, <1>9, <1>10, <1>11, <1>12, <1>13, <1>14
     DEF PoolNext, Ensure, StartStep, RunStep, Waits

LEMMA InitTypeOK == PoolInit => PoolTypeOK
<1> SUFFICES ASSUME PoolInit PROVE PoolTypeOK
  OBVIOUS
<1>1. pc \in [Use -> PcAt] /\ generation \in [Use -> Nat]
  BY DEF PoolInit, PcAt
<1>2. containers \subseteq Container /\ starting \subseteq Key /\ nextGeneration \in Nat \ {0}
  BY DEF PoolInit
<1>3. closed \in BOOLEAN /\ closer \in {"none", "waiting", "ready", "done"}
  BY DEF PoolInit
<1>4. docker \subseteq Nat /\ orphans \subseteq Nat /\ workers \subseteq Use \X Nat
  BY DEF PoolInit
<1> QED
  BY <1>1, <1>2, <1>3, <1>4 DEF PoolTypeOK

\* Type correctness of the pool, for any calls.
THEOREM PoolTypeCorrect == PoolSpec => []PoolTypeOK
<1>1. PoolInit => PoolTypeOK
  BY InitTypeOK
<1> QED
  BY <1>1, TypeStep, PTL DEF PoolSpec

-----------------------------------------------------------------------------
(* The tables: who is under which key. *)

Holding == {"leased", "validated", "executing", "timed_out", "ended"}

KeysUnique == \A c, d \in containers : c.key = d.key => c = d

StartsKnown == \A k \in starting : \E u \in Use : InStart(u) /\ KeyOf[u] = k

LeasesHeld ==
  \A c \in containers : c.lease # Free =>
    /\ c.key = KeyOf[c.lease]
    /\ c.generation = generation[c.lease]
    /\ pc[c.lease] \in Holding

Tables == KeysUnique /\ StartsAlone /\ StartsKnown /\ LeasesHeld

\* Steps that only take containers away, start nothing and give up no lease.
LEMMA TablesKept ==
  ASSUME PoolTypeOK, Tables,
         containers' \subseteq containers,
         UNCHANGED <<starting, generation>>,
         \A v \in Use : InStart(v)' <=> InStart(v),
         \A v \in Use : pc[v] \in Holding /\ pc'[v] \notin Holding =>
                          \A c \in containers' : c.lease # v
  PROVE  Tables'
<1>1. \A c \in containers : c.lease # Free => c.lease \in Use
  BY DEF PoolTypeOK, Container
<1>2. LeasesHeld'
  BY <1>1 DEF Tables, LeasesHeld
<1>3. KeysUnique'
  BY DEF Tables, KeysUnique
<1>4. StartsAlone'
  BY DEF Tables, StartsAlone, Of
<1>5. StartsKnown'
  BY DEF Tables, StartsKnown
<1> QED
  BY <1>2, <1>3, <1>4, <1>5 DEF Tables

\* A step of u alone that neither starts nor ends a start or a lease.
LEMMA TablesKeptBy ==
  ASSUME PoolTypeOK, Tables, NEW u \in Use,
         containers' \subseteq containers,
         UNCHANGED <<starting, generation>>,
         \A v \in Use : v # u => pc'[v] = pc[v] \/ (pc[v] = "waiting" /\ pc'[v] = "ready"),
         InStart(u)' <=> InStart(u),
         pc[u] \in Holding /\ pc'[u] \notin Holding => \A c \in containers' : c.lease # u
  PROVE  Tables'
<1>1. \A v \in Use : InStart(v)' <=> InStart(v)
  BY DEF InStart
<1>2. \A v \in Use : pc[v] \in Holding /\ pc'[v] \notin Holding =>
                       \A c \in containers' : c.lease # v
  BY DEF Holding
<1> QED
  BY <1>1, <1>2, TablesKept

LEMMA TablesStep == PoolTypeOK /\ Tables /\ [PoolNext]_poolVars => Tables'
<1> SUFFICES ASSUME PoolTypeOK, Tables, [PoolNext]_poolVars PROVE Tables'
  OBVIOUS
<1>u. \A c \in containers : c.lease # Free => c.lease \in Use
  BY DEF PoolTypeOK, Container
<1>f. \A c \in containers, u \in Use : c.lease = u => c.lease # Free
  BY PoolAssumption
<1>m. \A c \in containers, u \in Use : c.lease = u => c \in Matching(u)
  BY <1>f DEF Tables, LeasesHeld, Matching
<1>1. ASSUME NEW u \in Use,
             \/ Begin(u) \/ RefuseClosed(u) \/ DockerRun(u) \/ DockerRunFails(u)
             \/ ExecWorker(u) \/ WorkerEnds(u) \/ WorkerTimesOut(u) \/ Destroy(u)
      PROVE  Tables'
  <2>1. UNCHANGED <<pool, generation>>
    BY <1>1 DEF Begin, RefuseClosed, DockerRun, DockerRunFails, ExecWorker, WorkerEnds,
                WorkerTimesOut, Destroy
  <2>2. /\ \A v \in Use : v # u => pc'[v] = pc[v]
        /\ InStart(u)' <=> InStart(u)
        /\ pc[u] \in Holding => pc'[u] \in Holding
    BY <1>1, GotoFacts DEF Begin, RefuseClosed, DockerRun, DockerRunFails, ExecWorker, WorkerEnds,
                WorkerTimesOut, Destroy, InStart, Holding, PcAt
  <2> QED
    BY <2>1, <2>2, TablesKeptBy DEF pool
<1>2. ASSUME NEW u \in Use, Validate(u)
      PROVE  Tables'
  <2>1. UNCHANGED <<pool, generation>>
    BY <1>2 DEF Validate
  <2>2. /\ \A v \in Use : v # u => pc'[v] = pc[v]
        /\ InStart(u)' <=> InStart(u)
        /\ Matching(u) = {} \/ pc'[u] \in Holding
    BY <1>2, GotoFacts DEF Validate, InStart, Holding, PcAt
  <2> QED
    BY <1>m, <2>1, <2>2, TablesKeptBy DEF pool
<1>3. ASSUME NEW u \in Use, Waits(u)
      PROVE  Tables'
  <2>1. /\ pc[u] = "ready" /\ pc'[u] = "waiting"
        /\ \A v \in Use : v # u => pc'[v] = pc[v]
        /\ containers' \subseteq containers /\ UNCHANGED <<starting, generation>>
    BY <1>3, WaitFacts, GotoFacts DEF Drops, PcAt
  <2>2. InStart(u)' <=> InStart(u)
    BY <2>1 DEF InStart
  <2> QED
    BY <2>1, <2>2, TablesKeptBy DEF Holding
<1>4. ASSUME NEW u \in Use, LeaseWarm(u)
      PROVE  Tables'
  <2>1. PICK c \in containers, kept \in SUBSET containers :
           /\ c.lease = Free /\ c.key = KeyOf[u] /\ c \in kept
           /\ containers' = (kept \ {c}) \cup {Leased(c, u)}
           /\ generation' = [generation EXCEPT ![u] = c.generation]
    BY <1>4, WarmFacts
  <2>2. /\ pc[u] = "ready" /\ pc'[u] = "leased" /\ UNCHANGED starting
        /\ \A v \in Use : v # u => pc'[v] = pc[v]
    BY <1>4, GotoFacts DEF LeaseWarm, PcAt
  <2>3. /\ Leased(c, u).key = c.key /\ Leased(c, u).lease = u
        /\ Leased(c, u).generation = c.generation
    BY DEF Leased
  <2>4. generation'[u] = c.generation /\ \A v \in Use : v # u => generation'[v] = generation[v]
    BY <2>1 DEF PoolTypeOK
  <2>5. \A d \in containers : d.lease # u
    BY <1>f, <2>2 DEF Tables, LeasesHeld, Holding
  <2>6. KeysUnique'
    BY <2>1, <2>3 DEF Tables, KeysUnique
  <2>7. \A v \in Use : InStart(v)' <=> InStart(v)
    BY <2>2 DEF InStart
  <2>8. StartsAlone' /\ StartsKnown'
    BY <2>1, <2>2, <2>3, <2>7 DEF Tables, StartsAlone, StartsKnown, Of
  <2>9. LeasesHeld'
    BY <1>u, <2>1, <2>2, <2>3, <2>4, <2>5 DEF Tables, LeasesHeld, Holding
  <2> QED
    BY <2>6, <2>8, <2>9 DEF Tables
<1>5. ASSUME NEW u \in Use, ReserveStart(u)
      PROVE  Tables'
  <2>1. /\ containers' \subseteq containers /\ Of(containers', u) = {}
        /\ KeyOf[u] \notin starting /\ starting' = starting \cup {KeyOf[u]}
        /\ pc[u] = "ready" /\ pc'[u] = "starting"
        /\ \A v \in Use : v # u => pc'[v] = pc[v]
        /\ \A v \in Use : v # u => generation'[v] = generation[v]
    BY <1>5, ReserveFacts, GotoFacts DEF Drops, PcAt, PoolTypeOK
  <2>2. \A d \in containers : d.lease # u
    BY <1>f, <2>1 DEF Tables, LeasesHeld, Holding
  <2>3. LeasesHeld'
    BY <1>u, <2>1, <2>2 DEF Tables, LeasesHeld
  <2>4. KeysUnique'
    BY <2>1 DEF Tables, KeysUnique
  <2>5. InStart(u)' /\ \A v \in Use : v # u => (InStart(v)' <=> InStart(v))
    BY <2>1 DEF InStart
  <2>6. StartsAlone' /\ StartsKnown'
    BY <2>1, <2>5 DEF Tables, StartsAlone, StartsKnown, Of
  <2> QED
    BY <2>3, <2>4, <2>6 DEF Tables
<1>6. ASSUME NEW u \in Use, AbandonStart(u) \/ DiscardStart(u)
      PROVE  Tables'
  <2>1. /\ UNCHANGED <<containers, generation>> /\ starting' = starting \ {KeyOf[u]}
        /\ InStart(u) /\ pc'[u] = "failed"
        /\ \A v \in Use : v # u => pc'[v] = pc[v] \/ (pc[v] = "waiting" /\ pc'[v] = "ready")
    BY <1>6, WakeFacts DEF AbandonStart, DiscardStart, InStart, PcAt
  <2>2. ~InStart(u)' /\ \A v \in Use : v # u => (InStart(v)' <=> InStart(v))
    BY <2>1 DEF InStart
  <2>3. LeasesHeld'
    BY <1>u, <2>1 DEF Tables, LeasesHeld, InStart, Holding
  <2>4. StartsAlone' /\ StartsKnown'
    BY <2>1, <2>2 DEF Tables, StartsAlone, StartsKnown, Of
  <2> QED
    BY <2>1, <2>3, <2>4 DEF Tables, KeysUnique
<1>7. ASSUME NEW u \in Use, Adopt(u)
      PROVE  Tables'
  <2> DEFINE new == [key |-> KeyOf[u], generation |-> generation[u], lease |-> u]
  <2>1. PICK kept \in SUBSET containers : containers' = kept \cup {new}
    BY <1>7, AdoptFacts
  <2>2. new.key = KeyOf[u] /\ new.generation = generation[u] /\ new.lease = u
    OBVIOUS
  <2> HIDE DEF new
  <2>3. /\ UNCHANGED generation /\ starting' = starting \ {KeyOf[u]}
        /\ InStart(u) /\ pc'[u] = "leased"
        /\ \A v \in Use : v # u => pc'[v] = pc[v] \/ (pc[v] = "waiting" /\ pc'[v] = "ready")
    BY <1>7, WakeFacts DEF Adopt, InStart, PcAt
  <2>4. ~InStart(u)' /\ \A v \in Use : v # u => (InStart(v)' <=> InStart(v))
    BY <2>3 DEF InStart
  <2>5. KeysUnique'
    BY <2>1, <2>2, <2>3 DEF Tables, KeysUnique, StartsAlone, Of
  <2>6. LeasesHeld'
    BY <1>u, <2>1, <2>2, <2>3 DEF Tables, LeasesHeld, InStart, Holding
  <2>7. StartsAlone' /\ StartsKnown'
    BY <2>1, <2>2, <2>3, <2>4 DEF Tables, StartsAlone, StartsKnown, Of
  <2> QED
    BY <2>5, <2>6, <2>7 DEF Tables
<1>8. ASSUME NEW u \in Use, Release(u)
      PROVE  Tables'
  <2>1. /\ UNCHANGED <<starting, generation>>
        /\ pc[u] \in Holding /\ pc'[u] = "done"
        /\ \A v \in Use : v # u => pc'[v] = pc[v] \/ (pc[v] = "waiting" /\ pc'[v] = "ready")
    BY <1>8, GotoFacts, WakeFacts DEF Release, PcAt, Holding
  <2>2. containers' = (containers \ Matching(u)) \cup {Leased(c, Free) : c \in Matching(u)}
    BY <1>8 DEF Release
  <2>3. \A c \in Matching(u) : /\ c \in containers
                               /\ Leased(c, Free).key = c.key
                               /\ Leased(c, Free).lease = Free
    BY DEF Matching, Leased
  <2>4. \A v \in Use : InStart(v)' <=> InStart(v)
    BY <2>1 DEF InStart, Holding
  <2>5. \A c \in containers' : \/ c \in containers /\ c.lease # u
                               \/ \E d \in Matching(u) : c = Leased(d, Free)
    BY <1>m, <2>2
  <2>6. KeysUnique'
    BY <2>2, <2>3 DEF Tables, KeysUnique
  <2>7. LeasesHeld'
    BY <1>u, <2>1, <2>3, <2>5 DEF Tables, LeasesHeld, Holding
  <2>8. StartsAlone' /\ StartsKnown'
    BY <2>1, <2>3, <2>4, <2>5 DEF Tables, StartsAlone, StartsKnown, Of
  <2> QED
    BY <2>6, <2>7, <2>8 DEF Tables
<1>9. ASSUME NEW u \in Use, Retire(u)
      PROVE  Tables'
  <2>1. /\ UNCHANGED <<starting, generation>> /\ containers' = containers \ Matching(u)
        /\ pc[u] = "timed_out" /\ pc'[u] \in {"retired", "ended"}
        /\ \A v \in Use : v # u => pc'[v] = pc[v] \/ (pc[v] = "waiting" /\ pc'[v] = "ready")
    BY <1>9, GotoFacts, WakeFacts DEF Retire, PcAt
  <2>2. InStart(u)' <=> InStart(u)
    BY <2>1 DEF InStart
  <2>3. \A c \in containers' : c.lease # u
    BY <1>m, <2>1
  <2> QED
    BY <2>1, <2>2, <2>3, TablesKeptBy
<1>10. CASE Shutdown
  <2>1. /\ UNCHANGED <<starting, generation>> /\ containers' \subseteq containers
        /\ \A v \in Use : pc'[v] = pc[v] \/ (pc[v] = "waiting" /\ pc'[v] = "ready")
    BY <1>10 DEF Shutdown, FinishShutdown, AwaitStarts
  <2>2. \A v \in Use : InStart(v)' <=> InStart(v)
    BY <2>1 DEF InStart
  <2> QED
    BY <2>1, <2>2, TablesKept DEF Holding
<1>11. CASE UNCHANGED poolVars
  BY <1>11, TablesKept DEF poolVars, pool, InStart
<1> QED
  BY <1>1, <1>2, <1>3, <1>4, <1>5, <1>6, <1>7, <1>8, <1>9, <1>10, <1>11
     DEF PoolNext, Ensure, StartStep, RunStep, Waits

-----------------------------------------------------------------------------
(* Capacity. *)

Room == IsFiniteSet(containers) /\ IsFiniteSet(starting) /\ WithinCapacity

LEMMA FewerContainers ==
  ASSUME Room, NEW kept \in SUBSET containers
  PROVE  /\ IsFiniteSet(kept)
         /\ Cardinality(kept) \in Nat /\ Cardinality(containers) \in Nat
         /\ Cardinality(starting) \in Nat
         /\ Cardinality(kept) <= Cardinality(containers)
         /\ Cardinality(kept) + Cardinality(starting) <= PoolSize
<1>1. /\ IsFiniteSet(kept) /\ Cardinality(kept) <= Cardinality(containers)
  BY FS_Subset DEF Room
<1>2. /\ Cardinality(kept) \in Nat /\ Cardinality(containers) \in Nat
      /\ Cardinality(starting) \in Nat
  BY <1>1, FS_CardinalityType DEF Room
<1> QED
  BY <1>1, <1>2, PoolAssumption DEF Room, WithinCapacity

LEMMA RoomKept ==
  ASSUME Room, containers' \in SUBSET containers, UNCHANGED starting
  PROVE  Room'
  BY FewerContainers DEF Room, WithinCapacity

\* One record of a kept table replaced.
LEMMA Replaced ==
  ASSUME Room, NEW kept \in SUBSET containers, NEW c \in kept, NEW d
  PROVE  LET cs == (kept \ {c}) \cup {d}
         IN  IsFiniteSet(cs) /\ Cardinality(cs) + Cardinality(starting) <= PoolSize
<1>1. /\ IsFiniteSet(kept) /\ Cardinality(kept) \in Nat /\ Cardinality(starting) \in Nat
      /\ Cardinality(kept) + Cardinality(starting) <= PoolSize
  BY FewerContainers
<1>2. IsFiniteSet(kept \ {c}) /\ Cardinality(kept \ {c}) = Cardinality(kept) - 1
  BY <1>1, FS_RemoveElement
<1>3. /\ IsFiniteSet((kept \ {c}) \cup {d})
      /\ Cardinality((kept \ {c}) \cup {d}) \in {Cardinality(kept) - 1, (Cardinality(kept) - 1) + 1}
  BY <1>2, FS_AddElement
<1> QED
  BY <1>1, <1>3, PoolAssumption

LEMMA RoomStep == PoolTypeOK /\ Tables /\ Room /\ [PoolNext]_poolVars => Room'
<1> SUFFICES ASSUME PoolTypeOK, Tables, Room, [PoolNext]_poolVars PROVE Room'
  OBVIOUS
<1>1. ASSUME NEW u \in Use,
             \/ Begin(u) \/ RefuseClosed(u) \/ DockerRun(u) \/ DockerRunFails(u) \/ Validate(u)
             \/ ExecWorker(u) \/ WorkerEnds(u) \/ WorkerTimesOut(u) \/ Retire(u) \/ Destroy(u)
      PROVE  Room'
  BY <1>1, RoomKept DEF Begin, RefuseClosed, DockerRun, DockerRunFails, Validate, ExecWorker,
                        WorkerEnds, WorkerTimesOut, Retire, Destroy, pool
<1>2. ASSUME NEW u \in Use, Waits(u) PROVE Room'
  BY <1>2, RoomKept, WaitFacts DEF Drops
<1>3. ASSUME NEW u \in Use, LeaseWarm(u) PROVE Room'
  <2>1. UNCHANGED starting
    BY <1>3 DEF LeaseWarm
  <2>2. PICK c \in containers, kept \in SUBSET containers :
           c \in kept /\ containers' = (kept \ {c}) \cup {Leased(c, u)}
    BY <1>3, WarmFacts
  <2>3. IsFiniteSet(containers') /\ Cardinality(containers') + Cardinality(starting) <= PoolSize
    BY <2>2, Replaced
  <2> QED
    BY <2>1, <2>3 DEF Room, WithinCapacity
<1>4. ASSUME NEW u \in Use, ReserveStart(u) PROVE Room'
  <2>1. /\ containers' \in SUBSET containers /\ Fits(containers')
        /\ KeyOf[u] \notin starting /\ starting' = starting \cup {KeyOf[u]}
    BY <1>4, ReserveFacts DEF Drops
  <2>2. /\ IsFiniteSet(containers') /\ Cardinality(containers') \in Nat
        /\ Cardinality(starting) \in Nat
    BY <2>1, FewerContainers
  <2>3. IsFiniteSet(starting') /\ Cardinality(starting') = Cardinality(starting) + 1
    BY <2>1, FS_AddElement DEF Room
  <2>4. Cardinality(containers') + Cardinality(starting) < PoolSize
    BY <2>1 DEF Fits
  <2>5. Cardinality(containers') + Cardinality(starting') <= PoolSize
    BY <2>2, <2>3, <2>4, PoolAssumption
  <2> QED
    BY <2>2, <2>3, <2>5 DEF Room, WithinCapacity
<1>5. ASSUME NEW u \in Use, AbandonStart(u) \/ DiscardStart(u) PROVE Room'
  <2>1. UNCHANGED containers /\ starting' = starting \ {KeyOf[u]} /\ InStart(u)
    BY <1>5 DEF AbandonStart, DiscardStart, InStart
  <2>2. IsFiniteSet(starting') /\ Cardinality(starting') = Cardinality(starting) - 1
    BY <2>1, FS_RemoveElement DEF Room, Tables, StartsAlone
  <2>3. Cardinality(containers) \in Nat /\ Cardinality(starting) \in Nat
    BY FewerContainers
  <2> QED
    BY <2>1, <2>2, <2>3, PoolAssumption DEF Room, WithinCapacity
<1>6. ASSUME NEW u \in Use, Adopt(u) PROVE Room'
  <2>1. PICK kept \in SUBSET containers :
           containers' = kept \cup
             {[key |-> KeyOf[u], generation |-> generation[u], lease |-> u]}
    BY <1>6, AdoptFacts
  <2>2. starting' = starting \ {KeyOf[u]} /\ KeyOf[u] \in starting
    BY <1>6 DEF Adopt, InStart, Tables, StartsAlone
  <2>3. /\ IsFiniteSet(kept) /\ Cardinality(kept) \in Nat /\ Cardinality(starting) \in Nat
        /\ Cardinality(kept) + Cardinality(starting) <= PoolSize
    BY FewerContainers
  <2>4. /\ IsFiniteSet(containers')
        /\ Cardinality(containers') \in {Cardinality(kept), Cardinality(kept) + 1}
    BY <2>1, <2>3, FS_AddElement
  <2>5. IsFiniteSet(starting') /\ Cardinality(starting') = Cardinality(starting) - 1
    BY <2>2, FS_RemoveElement DEF Room
  <2>6. Cardinality(containers') + Cardinality(starting') <= PoolSize
    BY <2>3, <2>4, <2>5, PoolAssumption
  <2> QED
    BY <2>4, <2>5, <2>6 DEF Room, WithinCapacity
<1>7. ASSUME NEW u \in Use, Release(u) PROVE Room'
  <2>1. /\ UNCHANGED starting
        /\ containers' = (containers \ Matching(u)) \cup {Leased(c, Free) : c \in Matching(u)}
    BY <1>7 DEF Release
  <2>2. CASE Matching(u) = {}
    BY <2>1, <2>2, RoomKept
  <2>3. CASE Matching(u) # {}
    <3>1. PICK c \in Matching(u) : TRUE
      BY <2>3
    <3>2. Matching(u) = {c} /\ c \in containers
      BY <3>1 DEF Matching, Tables, KeysUnique
    <3>3. containers' = (containers \ {c}) \cup {Leased(c, Free)}
      BY <2>1, <3>2
    <3> QED
      BY <2>1, <3>2, <3>3, Replaced DEF Room, WithinCapacity
  <2> QED
    BY <2>2, <2>3
<1>8. CASE Shutdown
  BY <1>8, RoomKept DEF Shutdown, FinishShutdown, AwaitStarts
<1>9. CASE UNCHANGED poolVars
  BY <1>9, RoomKept DEF poolVars, pool
<1> QED
  BY <1>1, <1>2, <1>3, <1>4, <1>5, <1>6, <1>7, <1>8, <1>9
     DEF PoolNext, Ensure, StartStep, RunStep, Waits

-----------------------------------------------------------------------------
(* Generations: a container belongs to one call at a time, also after its    *)
(* lease has been given up while a worker is still inside.                   *)

Claims(u) ==
  \/ InStart(u)
  \/ pc[u] \in {"leased", "validated", "executing", "timed_out"}
  \/ \E w \in workers : w[1] = u

Fresh ==
  /\ \A c \in containers : c.generation < nextGeneration
  /\ \A u \in Use : generation[u] < nextGeneration

GenerationsUnique == \A c, d \in containers : c.generation = d.generation => c = d

ClaimsApart ==
  /\ \A u, v \in Use : Claims(u) /\ Claims(v) /\ generation[u] = generation[v] => u = v
  /\ \A u \in Use, c \in containers :
       Claims(u) /\ c.generation = generation[u] => c.lease = u /\ c.key = KeyOf[u]

AtWork == {"executing", "timed_out"}
Gone   == {"retired", "ended", "done"}

WorkersKnown ==
  \A w \in workers :
    /\ w[2] = generation[w[1]]
    /\ \/ pc[w[1]] \in AtWork
       \/ pc[w[1]] \in Gone /\ \A c \in containers : c.generation # w[2]

Apart == Fresh /\ GenerationsUnique /\ ClaimsApart /\ WorkersKnown

\* Steps that take containers and workers away and let nobody claim anything.
LEMMA ApartKept ==
  ASSUME PoolTypeOK, Apart,
         containers' \subseteq containers, workers' \subseteq workers,
         UNCHANGED <<nextGeneration, generation>>,
         \A v \in Use : Claims(v)' => Claims(v),
         \A w \in workers' : /\ pc[w[1]] \in AtWork => pc'[w[1]] \in AtWork
                             /\ pc[w[1]] \in Gone => pc'[w[1]] \in Gone
  PROVE  Apart'
<1>1. Fresh' /\ GenerationsUnique'
  BY DEF Apart, Fresh, GenerationsUnique
<1>2. ClaimsApart'
  BY DEF Apart, ClaimsApart
<1>3. WorkersKnown'
  BY DEF Apart, WorkersKnown
<1> QED
  BY <1>1, <1>2, <1>3 DEF Apart

\* The same for a step of u that leaves the workers of u as they are known.
LEMMA ApartKeptBy ==
  ASSUME PoolTypeOK, Apart, NEW u \in Use,
         containers' \subseteq containers, workers' \subseteq workers,
         UNCHANGED <<nextGeneration, generation>>,
         \A v \in Use : v # u => pc'[v] = pc[v] \/ (pc[v] = "waiting" /\ pc'[v] = "ready"),
         InStart(u)' => InStart(u),
         pc'[u] \in {"leased", "validated", "executing", "timed_out"} =>
            pc[u] \in {"leased", "validated", "executing", "timed_out"},
         (\A w \in workers' : w[1] # u) \/ pc[u] \notin AtWork \/ pc'[u] \in AtWork,
         (\A w \in workers' : w[1] # u) \/ pc[u] \notin Gone \/ pc'[u] \in Gone
  PROVE  Apart'
<1>1. \A v \in Use : v # u => (InStart(v)' <=> InStart(v))
  BY DEF InStart
<1>2. \A v \in Use : Claims(v)' => Claims(v)
  BY <1>1 DEF Claims
<1>3. \A w \in workers' : w[1] \in Use
  BY DEF PoolTypeOK
<1>4. \A w \in workers' : /\ pc[w[1]] \in AtWork => pc'[w[1]] \in AtWork
                          /\ pc[w[1]] \in Gone => pc'[w[1]] \in Gone
  BY <1>3 DEF AtWork, Gone
<1> QED
  BY <1>2, <1>4, ApartKept

LEMMA ApartStep == PoolTypeOK /\ Tables /\ Apart /\ [PoolNext]_poolVars => Apart'
<1> SUFFICES ASSUME PoolTypeOK, Tables, Apart, [PoolNext]_poolVars PROVE Apart'
  OBVIOUS
<1>w. \A w \in workers : w[1] \in Use /\ w[2] \in Nat /\ w = <<w[1], w[2]>>
  BY DEF PoolTypeOK
<1>f. \A u \in Use : u # Free
  BY PoolAssumption
<1>k. \A u \in Use : pc[u] \notin AtWork \cup Gone => \A w \in workers : w[1] # u
  BY DEF Apart, WorkersKnown
<1>r. ASSUME NEW gs, gs \in SUBSET Nat, Remove(gs) PROVE workers' \subseteq workers
  BY <1>r, RemoveFacts
<1>d. ASSUME NEW kept, kept \in SUBSET containers, Remove(Generations(containers \ kept))
      PROVE  workers' \subseteq workers
  <2>1. Generations(containers \ kept) \in SUBSET Nat
    BY GenerationsAreNats
  <2> QED
    BY <1>d, <1>r, <2>1
<1>1. ASSUME NEW u \in Use,
             \/ Begin(u) \/ RefuseClosed(u) \/ DockerRun(u) \/ DockerRunFails(u)
             \/ Validate(u) \/ WorkerTimesOut(u)
      PROVE  Apart'
  <2>1. /\ UNCHANGED <<containers, nextGeneration, generation, workers>>
        /\ \A v \in Use : v # u => pc'[v] = pc[v]
    BY <1>1, GotoFacts DEF Begin, RefuseClosed, DockerRun, DockerRunFails, Validate,
                           WorkerTimesOut, pool, machine, PcAt
  <2>2. /\ InStart(u)' => InStart(u)
        /\ pc'[u] \in {"leased", "validated", "executing", "timed_out"} =>
              pc[u] \in {"leased", "validated", "executing", "timed_out"}
        /\ pc[u] \notin AtWork \/ pc'[u] \in AtWork
        /\ pc[u] \notin Gone \/ pc'[u] \in Gone
    BY <1>1, GotoFacts DEF Begin, RefuseClosed, DockerRun, DockerRunFails, Validate,
                           WorkerTimesOut, InStart, AtWork, Gone, PcAt
  <2> QED
    BY <2>1, <2>2, ApartKeptBy
<1>2. ASSUME NEW u \in Use, Waits(u)
      PROVE  Apart'
  <2>1. /\ pc[u] = "ready" /\ pc'[u] = "waiting"
        /\ \A v \in Use : v # u => pc'[v] = pc[v]
        /\ containers' \subseteq containers /\ UNCHANGED <<nextGeneration, generation>>
        /\ workers' \subseteq workers
    BY <1>2, <1>d, WaitFacts, GotoFacts DEF Drops, PcAt
  <2>2. InStart(u)' => InStart(u)
    BY <2>1 DEF InStart
  <2> QED
    BY <2>1, <2>2, ApartKeptBy DEF AtWork, Gone
<1>3. ASSUME NEW u \in Use, AbandonStart(u) \/ DiscardStart(u)
      PROVE  Apart'
  <2>1. /\ UNCHANGED <<containers, nextGeneration, generation>> /\ workers' \subseteq workers
        /\ pc[u] \in {"start_failed", "started"} /\ pc'[u] = "failed"
        /\ \A v \in Use : v # u => pc'[v] = pc[v] \/ (pc[v] = "waiting" /\ pc'[v] = "ready")
    <3>1. {generation[u]} \in SUBSET Nat
      BY DEF PoolTypeOK
    <3>2. workers' \subseteq workers
      BY <1>3, <1>r, <3>1 DEF AbandonStart, DiscardStart, machine
    <3> QED
      BY <1>3, <3>2, WakeFacts DEF AbandonStart, DiscardStart, PcAt
  <2>2. InStart(u)' => InStart(u)
    BY <2>1 DEF InStart
  <2> QED
    BY <2>1, <2>2, ApartKeptBy DEF AtWork, Gone
<1>4. ASSUME NEW u \in Use, WorkerEnds(u)
      PROVE  Apart'
  <2>1. /\ UNCHANGED <<containers, nextGeneration, generation>>
        /\ workers' = workers \ ({u} \X {generation[u]})
        /\ pc[u] = "executing" /\ pc'[u] = "ended"
        /\ \A v \in Use : v # u => pc'[v] = pc[v]
    BY <1>4, GotoFacts DEF WorkerEnds, pool, PcAt
  <2>2. \A w \in workers' : w[1] # u
    BY <1>w, <2>1 DEF Apart, WorkersKnown
  <2>3. InStart(u)' => InStart(u)
    BY <2>1 DEF InStart
  <2>4. workers' \subseteq workers
    BY <2>1
  <2> QED
    BY <2>1, <2>2, <2>3, <2>4, ApartKeptBy
<1>5. ASSUME NEW u \in Use, Destroy(u)
      PROVE  Apart'
  <2>1. /\ UNCHANGED <<containers, nextGeneration, generation>> /\ workers' \subseteq workers
        /\ pc[u] = "retired" /\ pc'[u] = "ended"
        /\ \A v \in Use : v # u => pc'[v] = pc[v]
    <3>1. {generation[u]} \in SUBSET Nat
      BY DEF PoolTypeOK
    <3> QED
      BY <1>5, <1>r, <3>1, GotoFacts DEF Destroy, pool, PcAt
  <2>2. InStart(u)' => InStart(u)
    BY <2>1 DEF InStart
  <2> QED
    BY <2>1, <2>2, ApartKeptBy DEF AtWork, Gone
<1>6. ASSUME NEW u \in Use, Retire(u)
      PROVE  Apart'
  <2>1. /\ UNCHANGED <<nextGeneration, generation, workers>>
        /\ containers' = containers \ Matching(u)
        /\ pc[u] = "timed_out" /\ pc'[u] \in {"retired", "ended"}
        /\ \A v \in Use : v # u => pc'[v] = pc[v] \/ (pc[v] = "waiting" /\ pc'[v] = "ready")
    BY <1>6, GotoFacts, WakeFacts DEF Retire, PcAt, machine
  <2>2. Claims(u)
    BY <2>1 DEF Claims
  <2>3. \A c \in containers' : c.generation # generation[u]
    BY <2>1, <2>2 DEF Apart, ClaimsApart, Matching
  <2>4. \A v \in Use : Claims(v)' => Claims(v)
    BY <2>1, <2>2 DEF Claims, InStart
  <2>5. WorkersKnown'
    BY <1>w, <2>1, <2>3 DEF Apart, WorkersKnown, AtWork, Gone
  <2>6. Fresh' /\ GenerationsUnique' /\ ClaimsApart'
    BY <2>1, <2>4 DEF Apart, Fresh, GenerationsUnique, ClaimsApart
  <2> QED
    BY <2>5, <2>6 DEF Apart
<1>7. ASSUME NEW u \in Use, ExecWorker(u)
      PROVE  Apart'
  <2>1. /\ UNCHANGED <<containers, nextGeneration, generation>>
        /\ workers' = workers \cup ({u} \X ({generation[u]} \cap docker))
        /\ pc[u] = "validated" /\ pc'[u] = "executing"
        /\ \A v \in Use : v # u => pc'[v] = pc[v]
    BY <1>7, GotoFacts DEF ExecWorker, pool, PcAt
  <2>2. \A w \in workers' : w \in workers \/ (w[1] = u /\ w[2] = generation[u])
    BY <2>1
  <2>3. \A v \in Use : Claims(v)' => Claims(v)
    BY <2>1, <2>2 DEF Claims, InStart
  <2>4. WorkersKnown'
    BY <1>w, <2>1, <2>2 DEF Apart, WorkersKnown, AtWork, Gone
  <2>5. Fresh' /\ GenerationsUnique' /\ ClaimsApart'
    BY <2>1, <2>3 DEF Apart, Fresh, GenerationsUnique, ClaimsApart
  <2> QED
    BY <2>4, <2>5 DEF Apart
<1>8. ASSUME NEW u \in Use, LeaseWarm(u)
      PROVE  Apart'
  <2>1. PICK c \in containers, kept \in SUBSET containers :
           /\ c.lease = Free /\ c.key = KeyOf[u] /\ c \in kept
           /\ Remove(Generations(containers \ kept))
           /\ containers' = (kept \ {c}) \cup {Leased(c, u)}
           /\ generation' = [generation EXCEPT ![u] = c.generation]
    BY <1>8, WarmFacts
  <2>2. /\ pc[u] = "ready" /\ pc'[u] = "leased" /\ UNCHANGED nextGeneration
        /\ \A v \in Use : v # u => pc'[v] = pc[v]
        /\ workers' \subseteq workers
    BY <1>8, <1>d, <2>1, GotoFacts DEF LeaseWarm, PcAt
  <2>3. /\ Leased(c, u).key = c.key /\ Leased(c, u).lease = u
        /\ Leased(c, u).generation = c.generation
    BY DEF Leased
  <2>4. generation'[u] = c.generation /\ \A v \in Use : v # u => generation'[v] = generation[v]
    BY <2>1 DEF PoolTypeOK
  <2>5. \A d \in containers' : (d \in containers /\ d # c) \/ d = Leased(c, u)
    BY <2>1
  <2>6. \A w \in workers' : w[1] # u
    BY <1>k, <2>2 DEF AtWork, Gone
  <2>7. \A v \in Use : Claims(v)' => Claims(v) \/ v = u
    BY <2>2 DEF Claims, InStart
  <2>8. \A v \in Use : Claims(v) => c.generation # generation[v]
    BY <1>f, <2>1 DEF Apart, ClaimsApart
  <2>9. GenerationsUnique'
    BY <2>3, <2>5 DEF Apart, GenerationsUnique
  <2>10. Fresh'
    BY <2>2, <2>3, <2>4, <2>5 DEF Apart, Fresh
  <2>11. ClaimsApart'
    <3>1. \A v, x \in Use : Claims(v)' /\ Claims(x)' /\ generation'[v] = generation'[x] => v = x
      BY <2>4, <2>7, <2>8 DEF Apart, ClaimsApart
    <3>2. \A v \in Use, d \in containers' :
            Claims(v)' /\ d.generation = generation'[v] => d.lease = v /\ d.key = KeyOf[v]
      BY <2>1, <2>3, <2>4, <2>5, <2>7, <2>8 DEF Apart, ClaimsApart, GenerationsUnique
    <3> QED
      BY <3>1, <3>2 DEF ClaimsApart
  <2>12. WorkersKnown'
    BY <1>w, <2>2, <2>3, <2>4, <2>5, <2>6 DEF Apart, WorkersKnown, AtWork, Gone
  <2> QED
    BY <2>9, <2>10, <2>11, <2>12 DEF Apart
<1>9. ASSUME NEW u \in Use, ReserveStart(u)
      PROVE  Apart'
  <2>1. /\ containers' \subseteq containers /\ workers' \subseteq workers
        /\ pc[u] = "ready" /\ pc'[u] = "starting" /\ nextGeneration' = nextGeneration + 1
        /\ \A v \in Use : v # u => pc'[v] = pc[v]
        /\ generation'[u] = nextGeneration
        /\ \A v \in Use : v # u => generation'[v] = generation[v]
    BY <1>9, <1>d, ReserveFacts, GotoFacts DEF Drops, PcAt, PoolTypeOK
  <2>2. /\ nextGeneration \in Nat /\ generation \in [Use -> Nat]
        /\ \A c \in containers : c.generation \in Nat
    BY DEF PoolTypeOK, Container
  <2>3. /\ \A c \in containers : c.generation < nextGeneration
        /\ \A v \in Use : generation[v] < nextGeneration
    BY DEF Apart, Fresh
  <2>4. Fresh'
    BY <2>1, <2>2, <2>3 DEF Fresh
  <2>5. /\ \A c \in containers : c.generation # generation'[u]
        /\ \A v \in Use : v # u => generation'[v] # generation'[u]
    BY <2>1, <2>2, <2>3
  <2>6. \A v \in Use : Claims(v)' => Claims(v) \/ v = u
    BY <2>1 DEF Claims, InStart
  <2>7. GenerationsUnique' /\ ClaimsApart'
    BY <2>1, <2>5, <2>6 DEF Apart, GenerationsUnique, ClaimsApart
  <2>8. \A w \in workers' : w[1] # u
    BY <1>k, <2>1 DEF AtWork, Gone
  <2>9. WorkersKnown'
    BY <1>w, <2>1, <2>8 DEF Apart, WorkersKnown
  <2> QED
    BY <2>4, <2>7, <2>9 DEF Apart
<1>10. ASSUME NEW u \in Use, Adopt(u)
       PROVE  Apart'
  <2> DEFINE new == [key |-> KeyOf[u], generation |-> generation[u], lease |-> u]
  <2>1. PICK kept \in SUBSET containers :
           /\ Remove(Generations(containers \ kept))
           /\ containers' = kept \cup {new}
    BY <1>10, AdoptFacts
  <2>2. new.key = KeyOf[u] /\ new.generation = generation[u] /\ new.lease = u
    OBVIOUS
  <2> HIDE DEF new
  <2>3. /\ UNCHANGED <<nextGeneration, generation>> /\ workers' \subseteq workers
        /\ InStart(u) /\ pc[u] = "started" /\ pc'[u] = "leased"
        /\ \A v \in Use : v # u => pc'[v] = pc[v] \/ (pc[v] = "waiting" /\ pc'[v] = "ready")
    BY <1>10, <1>d, <2>1, WakeFacts DEF Adopt, InStart, PcAt
  <2>4. Claims(u)
    BY <2>3 DEF Claims
  <2>5. \A d \in containers : d.generation # generation[u]
    <3>1. \A d \in containers : d.lease # u
      BY <1>f, <2>3 DEF Tables, LeasesHeld, Holding
    <3> QED
      BY <2>4, <3>1 DEF Apart, ClaimsApart
  <2>6. \A v \in Use : Claims(v)' => Claims(v)
    BY <2>3, <2>4 DEF Claims, InStart
  <2>7. Fresh' /\ GenerationsUnique'
    BY <2>1, <2>2, <2>3, <2>5 DEF Apart, Fresh, GenerationsUnique
  <2>8. ClaimsApart'
    BY <2>1, <2>2, <2>3, <2>4, <2>6 DEF Apart, ClaimsApart
  <2>9. \A w \in workers' : w[1] # u
    BY <1>k, <2>3 DEF AtWork, Gone
  <2>10. \A w \in workers' : w[2] # generation[u]
    <3>1. \A w \in workers' : Claims(w[1])
      BY <1>w, <2>3 DEF Claims
    <3> QED
      BY <1>w, <2>3, <2>4, <2>9, <3>1 DEF Apart, ClaimsApart, WorkersKnown
  <2>11. WorkersKnown'
    BY <1>w, <2>1, <2>2, <2>3, <2>9, <2>10 DEF Apart, WorkersKnown, AtWork, Gone
  <2> QED
    BY <2>7, <2>8, <2>11 DEF Apart
<1>11. ASSUME NEW u \in Use, Release(u)
       PROVE  Apart'
  <2>1. /\ UNCHANGED <<nextGeneration, generation, workers>>
        /\ pc[u] \in {"leased", "validated", "ended"} /\ pc'[u] = "done"
        /\ \A v \in Use : v # u => pc'[v] = pc[v] \/ (pc[v] = "waiting" /\ pc'[v] = "ready")
    BY <1>11, GotoFacts, WakeFacts DEF Release, PcAt, machine
  <2>2. containers' = (containers \ Matching(u)) \cup {Leased(c, Free) : c \in Matching(u)}
    BY <1>11 DEF Release
  <2>3. \A c \in Matching(u) : /\ c \in containers /\ c.lease = u /\ c.generation = generation[u]
                               /\ Leased(c, Free).key = c.key
                               /\ Leased(c, Free).generation = c.generation
                               /\ Leased(c, Free).lease = Free
    BY DEF Matching, Leased
  <2>4. \A d \in containers' : \/ d \in containers /\ d \notin Matching(u)
                               \/ \E c \in Matching(u) : d = Leased(c, Free)
    BY <2>2
  <2>5. \A v \in Use : Claims(v)' => Claims(v)
    BY <2>1 DEF Claims, InStart
  <2>6. Fresh' /\ GenerationsUnique'
    BY <2>1, <2>3, <2>4 DEF Apart, Fresh, GenerationsUnique
  <2>7. Matching(u) # {} => ~Claims(u)'
    <3> SUFFICES ASSUME Matching(u) # {} PROVE ~Claims(u)'
      OBVIOUS
    <3>1. \A w \in workers : w[1] # u
      BY <1>w, <2>1, <2>3 DEF Apart, WorkersKnown, AtWork, Gone
    <3> QED
      BY <2>1, <3>1 DEF Claims, InStart
  <2>8. ClaimsApart'
    <3>1. \A v, x \in Use : Claims(v)' /\ Claims(x)' /\ generation'[v] = generation'[x] => v = x
      BY <2>1, <2>5 DEF Apart, ClaimsApart
    <3>2. ASSUME NEW v \in Use, NEW d \in containers', Claims(v)', d.generation = generation'[v]
          PROVE  d.lease = v /\ d.key = KeyOf[v]
      <4>1. CASE d \in containers
        BY <2>1, <2>5, <3>2, <4>1 DEF Apart, ClaimsApart
      <4>2. CASE \E c \in Matching(u) : d = Leased(c, Free)
        <5>1. PICK c \in Matching(u) : d = Leased(c, Free)
          BY <4>2
        <5>2. c.lease = v
          BY <2>1, <2>3, <2>5, <3>2, <5>1 DEF Apart, ClaimsApart
        <5> QED
          BY <2>3, <2>7, <3>2, <5>1, <5>2
      <4> QED
        BY <2>4, <4>1, <4>2
    <3> QED
      BY <3>1, <3>2 DEF ClaimsApart
  <2>9. WorkersKnown'
    <3>1. \A w \in workers : w[1] = u => pc[u] = "ended" /\ \A c \in containers : c.generation # w[2]
      BY <2>1 DEF Apart, WorkersKnown, AtWork, Gone
    <3>2. \A w \in workers : (\A c \in containers : c.generation # w[2]) =>
                                \A d \in containers' : d.generation # w[2]
      BY <2>3, <2>4
    <3> QED
      BY <1>w, <2>1, <3>1, <3>2 DEF Apart, WorkersKnown, AtWork, Gone
  <2> QED
    BY <2>6, <2>8, <2>9 DEF Apart
<1>12. CASE Shutdown
  <2>1. /\ UNCHANGED <<nextGeneration, generation>> /\ containers' \subseteq containers
        /\ \A v \in Use : pc'[v] = pc[v] \/ (pc[v] = "waiting" /\ pc'[v] = "ready")
    BY <1>12 DEF Shutdown, FinishShutdown, AwaitStarts
  <2>2. workers' \subseteq workers
    <3>1. Generations(containers) \in SUBSET Nat
      BY GenerationsAreNats
    <3> QED
      BY <1>12, <1>r, <3>1 DEF Shutdown, FinishShutdown, AwaitStarts, machine
  <2>3. \A v \in Use : Claims(v)' => Claims(v)
    BY <2>1, <2>2 DEF Claims, InStart
  <2> QED
    BY <1>w, <2>1, <2>2, <2>3, ApartKept DEF AtWork, Gone
<1>13. CASE UNCHANGED poolVars
  BY <1>13, ApartKept DEF poolVars, pool, machine, Claims, InStart
<1> QED
  BY <1>1, <1>2, <1>3, <1>4, <1>5, <1>6, <1>7, <1>8, <1>9, <1>10, <1>11, <1>12, <1>13
     DEF PoolNext, Ensure, StartStep, RunStep, Waits

LEMMA OneWorkerMeans == PoolTypeOK /\ Apart => OneWorkerPerContainer
<1> SUFFICES ASSUME PoolTypeOK, Apart, NEW v \in workers, NEW w \in workers, v[2] = w[2]
             PROVE  v = w
  BY DEF OneWorkerPerContainer
<1>1. v[1] \in Use /\ w[1] \in Use /\ v = <<v[1], v[2]>> /\ w = <<w[1], w[2]>>
  BY DEF PoolTypeOK
<1>2. Claims(v[1]) /\ Claims(w[1])
  BY <1>1 DEF Claims
<1>3. generation[v[1]] = generation[w[1]]
  BY DEF Apart, WorkersKnown
<1> QED
  BY <1>1, <1>2, <1>3 DEF Apart, ClaimsApart

-----------------------------------------------------------------------------
(* Who answers for a container of docker's. *)

Answers(u) == InStart(u) \/ pc[u] = "retired"

Answered(g) ==
  \/ \E c \in containers : c.generation = g
  \/ g \in orphans
  \/ \E u \in Use : Answers(u) /\ generation[u] = g

Failing == {"starting", "start_failed"}

\* A start that fails has left nothing but what the pool has given up on.
Forgotten ==
  /\ \A g \in docker : Answered(g) /\ g < nextGeneration
  /\ \A u \in Use : pc[u] \in Failing /\ generation[u] \in docker => generation[u] \in orphans

LEMMA ForgottenMeans == Forgotten => NothingForgotten
<1> SUFFICES ASSUME Forgotten, NEW g \in docker
             PROVE  g \in Generations(containers) \cup orphans \cup
                          {generation[u] : u \in {v \in Use : InStart(v) \/ pc[v] = "retired"}}
  BY DEF NothingForgotten
<1>1. CASE \E c \in containers : c.generation = g
  BY <1>1 DEF Generations
<1>2. CASE g \in orphans
  BY <1>2
<1>3. CASE \E u \in Use : Answers(u) /\ generation[u] = g
  BY <1>3 DEF Answers
<1> QED
  BY <1>1, <1>2, <1>3 DEF Forgotten, Answered

\* A container whose record or whose call goes is gone, or docker was told.
Dealt(g) == g \notin docker' \/ g \in orphans' \/ \E d \in containers' : d.generation = g

LEMMA ForgottenKept ==
  ASSUME PoolTypeOK, Forgotten, docker' \subseteq docker, orphans \subseteq orphans',
         nextGeneration' \in Nat, nextGeneration <= nextGeneration',
         \A c \in containers : \/ Dealt(c.generation)
                               \/ \E u \in Use : Answers(u)' /\ generation'[u] = c.generation,
         \A u \in Use : Answers(u) =>
           Dealt(generation[u]) \/ (Answers(u)' /\ generation'[u] = generation[u]),
         \A u \in Use : pc'[u] \in Failing => \/ generation'[u] \notin docker'
                                              \/ pc[u] \in Failing /\ generation'[u] = generation[u]
  PROVE  Forgotten'
<1>1. ASSUME NEW g \in docker' PROVE Answered(g)'
  BY <1>1 DEF Forgotten, Answered, Dealt
<1>2. ASSUME NEW g \in docker' PROVE g < nextGeneration'
  BY <1>2 DEF Forgotten, PoolTypeOK
<1>3. ASSUME NEW u \in Use, pc'[u] \in Failing, generation'[u] \in docker'
      PROVE  generation'[u] \in orphans'
  BY <1>3 DEF Forgotten
<1> QED
  BY <1>1, <1>2, <1>3 DEF Forgotten

\* What is removed is dealt with.
LEMMA RemovedAreDealtWith ==
  ASSUME PoolTypeOK, NEW kept \in SUBSET containers, Remove(Generations(containers \ kept))
  PROVE  /\ docker' \subseteq docker /\ orphans \subseteq orphans'
         /\ \A c \in containers : c \in kept \/ Dealt(c.generation)
<1>1. Generations(containers \ kept) \in SUBSET Nat
  BY GenerationsAreNats
<1>2. \A c \in containers \ kept : c.generation \in Generations(containers \ kept)
  BY DEF Generations
<1> QED
  BY <1>1, <1>2, RemoveFacts DEF Dealt

LEMMA ForgottenStep == PoolTypeOK /\ Apart /\ Forgotten /\ [PoolNext]_poolVars => Forgotten'
<1> SUFFICES ASSUME PoolTypeOK, Apart, Forgotten, [PoolNext]_poolVars PROVE Forgotten'
  OBVIOUS
<1>n. nextGeneration \in Nat
  BY DEF PoolTypeOK
<1>1. ASSUME NEW u \in Use,
             \/ Begin(u) \/ RefuseClosed(u) \/ Validate(u) \/ ExecWorker(u) \/ WorkerEnds(u)
             \/ WorkerTimesOut(u)
      PROVE  Forgotten'
  <2>1. UNCHANGED <<containers, nextGeneration, generation, docker, orphans>>
    BY <1>1 DEF Begin, RefuseClosed, Validate, ExecWorker, WorkerEnds, WorkerTimesOut, pool, machine
  <2>2. /\ pc[u] \notin Failing /\ ~Answers(u) /\ pc'[u] \notin Failing
        /\ \A v \in Use : v # u => pc'[v] = pc[v]
    BY <1>1, GotoFacts DEF Begin, RefuseClosed, Validate, ExecWorker, WorkerEnds, WorkerTimesOut,
                           Failing, Answers, InStart, PcAt
  <2>3. \A v \in Use : Answers(v) => Answers(v)'
    BY <2>2 DEF Answers, InStart
  <2> QED
    BY <1>n, <2>1, <2>2, <2>3, ForgottenKept DEF Dealt
<1>2. ASSUME NEW u \in Use, Waits(u)
      PROVE  Forgotten'
  <2>1. /\ pc[u] = "ready" /\ pc'[u] = "waiting" /\ \A v \in Use : v # u => pc'[v] = pc[v]
        /\ UNCHANGED <<nextGeneration, generation>>
        /\ containers' \in SUBSET containers /\ Remove(Generations(containers \ containers'))
    BY <1>2, WaitFacts, GotoFacts DEF Drops, PcAt
  <2>2. \A v \in Use : Answers(v) => Answers(v)'
    BY <2>1 DEF Answers, InStart
  <2>3. /\ docker' \subseteq docker /\ orphans \subseteq orphans'
        /\ \A c \in containers : c \in containers' \/ Dealt(c.generation)
    BY <2>1, RemovedAreDealtWith
  <2>4. \A c \in containers : Dealt(c.generation)
    BY <2>3 DEF Dealt
  <2> QED
    BY <1>n, <2>1, <2>2, <2>3, <2>4, ForgottenKept DEF Failing
<1>3. ASSUME NEW u \in Use, LeaseWarm(u)
      PROVE  Forgotten'
  <2>1. PICK c \in containers, kept \in SUBSET containers :
           /\ c \in kept
           /\ Remove(Generations(containers \ kept))
           /\ containers' = (kept \ {c}) \cup {Leased(c, u)}
           /\ generation' = [generation EXCEPT ![u] = c.generation]
    BY <1>3, WarmFacts
  <2>2. /\ pc[u] = "ready" /\ pc'[u] = "leased" /\ UNCHANGED nextGeneration
        /\ \A v \in Use : v # u => pc'[v] = pc[v]
    BY <1>3, GotoFacts DEF LeaseWarm, PcAt
  <2>3. \A v \in Use : v # u => generation'[v] = generation[v]
    BY <2>1 DEF PoolTypeOK
  <2>4. \A v \in Use : Answers(v) => v # u /\ Answers(v)'
    BY <2>2 DEF Answers, InStart
  <2>5. /\ docker' \subseteq docker /\ orphans \subseteq orphans'
        /\ \A d \in containers : d \in kept \/ Dealt(d.generation)
    BY <2>1, RemovedAreDealtWith
  <2>6. Leased(c, u).generation = c.generation
    BY DEF Leased
  <2>7. \A d \in containers : Dealt(d.generation)
    BY <2>1, <2>5, <2>6 DEF Dealt
  <2>8. \A v \in Use : pc'[v] \in Failing => pc[v] \in Failing /\ generation'[v] = generation[v]
    BY <2>2, <2>3 DEF Failing
  <2> QED
    BY <1>n, <2>2, <2>3, <2>4, <2>5, <2>7, <2>8, ForgottenKept
<1>4. ASSUME NEW u \in Use, ReserveStart(u)
      PROVE  Forgotten'
  <2>1. /\ pc[u] = "ready" /\ pc'[u] = "starting" /\ \A v \in Use : v # u => pc'[v] = pc[v]
        /\ nextGeneration' = nextGeneration + 1
        /\ generation'[u] = nextGeneration
        /\ \A v \in Use : v # u => generation'[v] = generation[v]
        /\ containers' \in SUBSET containers /\ Remove(Generations(containers \ containers'))
    BY <1>4, ReserveFacts, GotoFacts DEF Drops, PcAt, PoolTypeOK
  <2>2. \A v \in Use : Answers(v) => v # u /\ Answers(v)'
    BY <2>1 DEF Answers, InStart
  <2>3. /\ docker' \subseteq docker /\ orphans \subseteq orphans'
        /\ \A c \in containers : c \in containers' \/ Dealt(c.generation)
    BY <2>1, RemovedAreDealtWith
  <2>4. \A c \in containers : Dealt(c.generation)
    BY <2>3 DEF Dealt
  <2>5. generation'[u] \notin docker'
    <3>1. \A g \in docker : g \in Nat /\ g < nextGeneration
      BY DEF Forgotten, PoolTypeOK
    <3> QED
      BY <1>n, <2>1, <2>3, <3>1
  <2>6. nextGeneration' \in Nat /\ nextGeneration <= nextGeneration'
    BY <1>n, <2>1
  <2> QED
    BY <2>1, <2>2, <2>3, <2>4, <2>5, <2>6, ForgottenKept
<1>5. ASSUME NEW u \in Use, DockerRun(u) \/ DockerRunFails(u)
      PROVE  Forgotten'
  <2>1. /\ UNCHANGED <<containers, nextGeneration, generation>> /\ pc[u] = "starting"
        /\ \A v \in Use : v # u => pc'[v] = pc[v]
        /\ pc'[u] \in {"started", "start_failed"}
        /\ orphans \subseteq orphans'
        /\ \A g \in docker' : g \in docker \/ g = generation[u]
        /\ pc'[u] = "start_failed" => \A g \in docker' : g \in docker \/ g \in orphans'
    BY <1>5, GotoFacts DEF DockerRun, DockerRunFails, pool, PcAt
  <2>2. Answers(u)' /\ Claims(u) /\ \A v \in Use : Answers(v) => Answers(v)'
    BY <2>1 DEF Answers, Claims, InStart
  <2>3. generation[u] < nextGeneration
    BY DEF Apart, Fresh
  <2>4. ASSUME NEW g \in docker' PROVE Answered(g)' /\ g < nextGeneration'
    BY <2>1, <2>2, <2>3, <2>4 DEF Forgotten, Answered
  <2>5. ASSUME NEW v \in Use, pc'[v] \in Failing, generation'[v] \in docker'
        PROVE  generation'[v] \in orphans'
    <3>1. CASE v = u
      BY <2>1, <2>5, <3>1 DEF Failing, Forgotten
    <3>2. CASE v # u
      <4>1. Claims(v)
        BY <2>1, <2>5, <3>2 DEF Failing, Claims, InStart
      <4>2. generation[v] # generation[u]
        BY <2>2, <3>2, <4>1 DEF Apart, ClaimsApart
      <4> QED
        BY <2>1, <2>5, <3>2, <4>2 DEF Forgotten
    <3> QED
      BY <3>1, <3>2
  <2> QED
    BY <2>4, <2>5 DEF Forgotten
<1>6. ASSUME NEW u \in Use, AbandonStart(u) \/ DiscardStart(u) \/ Destroy(u)
      PROVE  Forgotten'
  <2>1. /\ UNCHANGED <<containers, nextGeneration, generation>>
        /\ pc[u] \in {"start_failed", "started", "retired"} /\ pc'[u] \in {"failed", "ended"}
        /\ \A v \in Use : v # u => pc'[v] = pc[v] \/ (pc[v] = "waiting" /\ pc'[v] = "ready")
    BY <1>6, GotoFacts, WakeFacts DEF AbandonStart, DiscardStart, Destroy, pool, PcAt
  <2>2. /\ docker' \subseteq docker /\ orphans \subseteq orphans' /\ Dealt(generation[u])
    <3>1. {generation[u]} \in SUBSET Nat
      BY DEF PoolTypeOK
    <3>2. CASE AbandonStart(u)
      BY <3>2 DEF AbandonStart, machine, Dealt, Forgotten, Failing
    <3>3. CASE DiscardStart(u) \/ Destroy(u)
      BY <3>1, <3>3, RemoveFacts DEF DiscardStart, Destroy, Dealt
    <3> QED
      BY <1>6, <3>2, <3>3
  <2>3. \A v \in Use : Answers(v) => v = u \/ Answers(v)'
    BY <2>1 DEF Answers, InStart
  <2>4. \A v \in Use : pc'[v] \in Failing => pc[v] \in Failing
    BY <2>1 DEF Failing
  <2> QED
    BY <1>n, <2>1, <2>2, <2>3, <2>4, ForgottenKept DEF Dealt
<1>7. ASSUME NEW u \in Use, Adopt(u)
      PROVE  Forgotten'
  <2> DEFINE new == [key |-> KeyOf[u], generation |-> generation[u], lease |-> u]
  <2>1. PICK kept \in SUBSET containers :
           /\ Remove(Generations(containers \ kept))
           /\ containers' = kept \cup {new}
    BY <1>7, AdoptFacts
  <2>2. new.generation = generation[u]
    OBVIOUS
  <2> HIDE DEF new
  <2>3. /\ UNCHANGED <<nextGeneration, generation>> /\ pc'[u] = "leased"
        /\ \A v \in Use : v # u => pc'[v] = pc[v] \/ (pc[v] = "waiting" /\ pc'[v] = "ready")
    BY <1>7, WakeFacts DEF Adopt, PcAt
  <2>4. /\ docker' \subseteq docker /\ orphans \subseteq orphans'
        /\ \A d \in containers : d \in kept \/ Dealt(d.generation)
    BY <2>1, RemovedAreDealtWith
  <2>5. Dealt(generation[u]) /\ \A d \in containers : Dealt(d.generation)
    BY <2>1, <2>2, <2>4 DEF Dealt
  <2>6. /\ \A v \in Use : Answers(v) => v = u \/ Answers(v)'
        /\ \A v \in Use : pc'[v] \in Failing => pc[v] \in Failing
    BY <2>3 DEF Answers, InStart, Failing
  <2> QED
    BY <1>n, <2>3, <2>4, <2>5, <2>6, ForgottenKept
<1>8. ASSUME NEW u \in Use, Release(u) \/ Retire(u)
      PROVE  Forgotten'
  <2>1. /\ UNCHANGED <<nextGeneration, generation, docker, orphans>>
        /\ pc[u] \in {"leased", "validated", "ended", "timed_out"}
        /\ pc'[u] \in {"done", "retired", "ended"}
        /\ \A v \in Use : v # u => pc'[v] = pc[v] \/ (pc[v] = "waiting" /\ pc'[v] = "ready")
    BY <1>8, GotoFacts, WakeFacts DEF Release, Retire, machine, PcAt
  <2>2. /\ \A v \in Use : Answers(v) => Answers(v)'
        /\ \A v \in Use : pc'[v] \in Failing => pc[v] \in Failing
    BY <2>1 DEF Answers, InStart, Failing
  <2>3. \A c \in Matching(u) : c.generation = generation[u] /\ Leased(c, Free).generation = c.generation
    BY DEF Matching, Leased
  <2>4. \A c \in containers : \/ Dealt(c.generation)
                              \/ pc'[u] = "retired" /\ generation'[u] = c.generation
    <3>1. CASE Release(u)
      <4>1. containers' = (containers \ Matching(u)) \cup {Leased(c, Free) : c \in Matching(u)}
        BY <3>1 DEF Release
      <4> QED
        BY <2>3, <4>1 DEF Dealt
    <3>2. CASE Retire(u)
      <4>1. containers' = containers \ Matching(u) /\ (Matching(u) # {} => pc'[u] = "retired")
        BY <3>2, WakeFacts DEF Retire, PcAt
      <4> QED
        BY <2>1, <2>3, <4>1 DEF Dealt
    <3> QED
      BY <1>8, <3>1, <3>2
  <2>5. pc'[u] = "retired" => Answers(u)'
    BY DEF Answers
  <2> QED
    BY <1>n, <2>1, <2>2, <2>4, <2>5, ForgottenKept
<1>9. CASE Shutdown
  <2>1. /\ UNCHANGED <<nextGeneration, generation>> /\ containers' \in SUBSET containers
        /\ \A v \in Use : pc'[v] = pc[v] \/ (pc[v] = "waiting" /\ pc'[v] = "ready")
    BY <1>9 DEF Shutdown, FinishShutdown, AwaitStarts
  <2>2. /\ docker' \subseteq docker /\ orphans \subseteq orphans'
        /\ \A c \in containers : Dealt(c.generation)
    <3>1. CASE FinishShutdown
      <4>1. containers \ {} = containers /\ {} \in SUBSET containers
        OBVIOUS
      <4>2. Remove(Generations(containers \ {}))
        BY <3>1, <4>1 DEF FinishShutdown
      <4> QED
        BY <4>1, <4>2, RemovedAreDealtWith
    <3>2. CASE AwaitStarts
      BY <3>2 DEF AwaitStarts, machine, Dealt
    <3> QED
      BY <1>9, <3>1, <3>2 DEF Shutdown
  <2>3. /\ \A v \in Use : Answers(v) => Answers(v)'
        /\ \A v \in Use : pc'[v] \in Failing => pc[v] \in Failing
    BY <2>1 DEF Answers, InStart, Failing
  <2> QED
    BY <1>n, <2>1, <2>2, <2>3, ForgottenKept
<1>10. CASE UNCHANGED poolVars
  BY <1>10 DEF poolVars, pool, machine, Forgotten, Answered, Answers, InStart
<1> QED
  BY <1>1, <1>2, <1>3, <1>4, <1>5, <1>6, <1>7, <1>8, <1>9, <1>10
     DEF PoolNext, Ensure, StartStep, RunStep, Waits

-----------------------------------------------------------------------------
(* Shutdown. *)

Closing ==
  /\ closer # "none" => closed
  /\ closed => \A u \in Use : pc[u] # "waiting"
  /\ ClosedPoolIsEmpty

LEMMA ClosingKept ==
  ASSUME Closing, UNCHANGED closed, closer' # "none" => closer # "none",
         closer' = "done" => closer = "done",
         closer = "done" => containers' = {} /\ starting' = {},
         closed => \A u \in Use : pc'[u] # "waiting"
  PROVE  Closing'
  BY DEF Closing, ClosedPoolIsEmpty

LEMMA ClosingStep == PoolTypeOK /\ Closing /\ [PoolNext]_poolVars => Closing'
<1> SUFFICES ASSUME PoolTypeOK, Closing, [PoolNext]_poolVars PROVE Closing'
  OBVIOUS
<1>c. /\ closer = "done" => containers = {} /\ starting = {} /\ closed
      /\ closed => \A u \in Use : pc[u] # "waiting"
  BY DEF Closing, ClosedPoolIsEmpty
<1>1. ASSUME NEW u \in Use,
             \/ Begin(u) \/ RefuseClosed(u) \/ DockerRun(u) \/ DockerRunFails(u) \/ Validate(u)
             \/ ExecWorker(u) \/ WorkerEnds(u) \/ WorkerTimesOut(u) \/ Destroy(u)
      PROVE  Closing'
  <2>1. UNCHANGED <<containers, starting, closed>>
    BY <1>1 DEF Begin, RefuseClosed, DockerRun, DockerRunFails, Validate, ExecWorker, WorkerEnds,
                WorkerTimesOut, Destroy, pool
  <2>2. /\ closer' = closer /\ pc'[u] # "waiting"
        /\ \A v \in Use : v # u => pc'[v] = pc[v]
    BY <1>1, GotoFacts DEF Begin, RefuseClosed, DockerRun, DockerRunFails, Validate, ExecWorker,
                           WorkerEnds, WorkerTimesOut, Destroy, PcAt
  <2> QED
    BY <1>c, <2>1, <2>2, ClosingKept
<1>2. ASSUME NEW u \in Use, Waits(u) \/ LeaseWarm(u) \/ ReserveStart(u)
      PROVE  Closing'
  <2>1. ~closed /\ UNCHANGED closed
    BY <1>2, WaitFacts, ReserveFacts DEF LeaseWarm
  <2>2. closer' = closer
    BY <1>2, WaitFacts, ReserveFacts DEF LeaseWarm, Goto
  <2> QED
    BY <1>c, <2>1, <2>2, ClosingKept
<1>3. ASSUME NEW u \in Use, AbandonStart(u) \/ DiscardStart(u)
      PROVE  Closing'
  <2>1. /\ UNCHANGED <<containers, closed>> /\ starting' = starting \ {KeyOf[u]}
        /\ pc'[u] = "failed"
        /\ \A v \in Use : v # u => pc'[v] = pc[v] \/ (pc[v] = "waiting" /\ pc'[v] = "ready")
        /\ closer' = closer \/ (closer = "waiting" /\ closer' = "ready")
    BY <1>3, WakeFacts DEF AbandonStart, DiscardStart, PcAt
  <2> QED
    BY <1>c, <2>1, ClosingKept
<1>4. ASSUME NEW u \in Use, Adopt(u)
      PROVE  Closing'
  <2>1. /\ ~closed /\ UNCHANGED closed
        /\ closer' = closer \/ (closer = "waiting" /\ closer' = "ready")
    BY <1>4, WakeFacts DEF Adopt, PcAt
  <2> QED
    BY <1>c, <2>1, ClosingKept
<1>5. ASSUME NEW u \in Use, Release(u) \/ Retire(u)
      PROVE  Closing'
  <2>1. /\ UNCHANGED <<starting, closed>> /\ pc'[u] # "waiting"
        /\ \A v \in Use : v # u => pc'[v] = pc[v] \/ (pc[v] = "waiting" /\ pc'[v] = "ready")
        /\ closer' = closer \/ (closer = "waiting" /\ closer' = "ready")
    BY <1>5, GotoFacts, WakeFacts DEF Release, Retire, PcAt
  <2>2. containers = {} => containers' = {}
    BY <1>5 DEF Release, Retire, Matching
  <2> QED
    BY <1>c, <2>1, <2>2, ClosingKept
<1>6. CASE Shutdown
  <2>1. /\ closed' /\ \A v \in Use : pc'[v] # "waiting"
    BY <1>6 DEF Shutdown
  <2>2. closer' = "done" => containers' = {} /\ starting' = {}
    BY <1>6 DEF Shutdown, FinishShutdown, AwaitStarts
  <2> QED
    BY <2>1, <2>2 DEF Closing, ClosedPoolIsEmpty
<1>7. CASE UNCHANGED poolVars
  BY <1>c, <1>7, ClosingKept DEF poolVars, pool
<1> QED
  BY <1>1, <1>2, <1>3, <1>4, <1>5, <1>6, <1>7
     DEF PoolNext, Ensure, StartStep, RunStep, Waits

-----------------------------------------------------------------------------
(* Waiting. *)

Holds(u) == Matching(u) # {} /\ pc[u] \in Holding

LEMMA WaitersMeans ==
  WaitersHaveAWaker <=>
    ((closer = "waiting" \/ \E u \in Use : pc[u] = "waiting") =>
        \E v \in Use : InStart(v) \/ (Holds(v) /\ closer # "waiting"))
  BY DEF WaitersHaveAWaker, Holds, Holding

\* Nobody waits after a notify_all, and none is needed.
LEMMA NobodyWaits ==
  ASSUME closer' # "waiting", \A u \in Use : pc'[u] # "waiting"
  PROVE  WaitersHaveAWaker'
  BY DEF WaitersHaveAWaker

LEMMA WakerFound ==
  ASSUME \E v \in Use : InStart(v)' \/ (Holds(v)' /\ closer' # "waiting")
  PROVE  WaitersHaveAWaker'
  BY DEF WaitersHaveAWaker, Holds, Holding

\* Steps that make nobody wait and end no start and no lease.
LEMMA WakerKept ==
  ASSUME WaitersHaveAWaker, UNCHANGED closer,
         \A v \in Use : pc'[v] = "waiting" => pc[v] = "waiting",
         \A v \in Use : InStart(v) => InStart(v)',
         \A v \in Use : Holds(v) => Holds(v)'
  PROVE  WaitersHaveAWaker'
<1>1. (closer' = "waiting" \/ \E u \in Use : pc'[u] = "waiting") =>
         \E v \in Use : InStart(v)' \/ (Holds(v)' /\ closer' # "waiting")
  BY WaitersMeans
<1> QED
  BY <1>1, WakerFound, NobodyWaits

\* A pass that waits for room has found every kept container leased, and at
\* least one of them or a start.
LEMMA FullPool ==
  ASSUME PoolTypeOK, Room, NEW u \in Use, WaitForRoom(u)
  PROVE  starting # {} \/ \E c \in containers' : c.lease # Free
<1>1. PICK kept \in SUBSET containers :
        MakeRoom(u, kept) /\ ~Fits(kept) /\ containers' = kept
  BY DEF WaitForRoom
<1>2. SUFFICES ASSUME starting = {} PROVE \E c \in kept : c.lease # Free
  BY <1>1
<1>3. Cardinality(starting) = 0
  BY <1>2, FS_EmptySet
<1>4. IsFiniteSet(kept) /\ Cardinality(kept) \in Nat
  BY FewerContainers
<1>5. Cardinality(kept) >= PoolSize
  BY <1>1, <1>3, <1>4, PoolAssumption DEF Fits
<1>6. kept # {}
  BY <1>4, <1>5, FS_EmptySet, PoolAssumption
<1>7. PICK d \in Expired : \E e \in Evictions(containers \ d, Cardinality(starting) + 1) :
                              kept = containers \ (d \cup e)
  BY <1>1 DEF MakeRoom
<1>8. PICK e \in Evictions(containers \ d, 1) : kept = (containers \ d) \ e
  BY <1>3, <1>7
<1>9. e = Idle(containers \ d)
  <2>1. CASE e = {} /\ Cardinality(containers \ d) + 1 <= PoolSize
    BY <1>4, <1>5, <1>8, <2>1, PoolAssumption
  <2>2. CASE e # {} /\ Cardinality((containers \ d) \ e) + 1 = PoolSize
    BY <1>4, <1>5, <1>8, <2>2, PoolAssumption
  <2> QED
    BY <2>1, <2>2 DEF Evictions
<1>10. \A c \in kept : c.lease # Free
  BY <1>8, <1>9 DEF Idle
<1> QED
  BY <1>6, <1>10

LEMMA WakerStep ==
  PoolTypeOK /\ Tables /\ Room /\ Closing /\ WaitersHaveAWaker /\ [PoolNext]_poolVars
     => WaitersHaveAWaker'
<1> SUFFICES ASSUME PoolTypeOK, Tables, Room, Closing, WaitersHaveAWaker, [PoolNext]_poolVars
             PROVE  WaitersHaveAWaker'
  OBVIOUS
<1>f. \A v \in Use : v # Free
  BY PoolAssumption
<1>h. \A c \in containers : c.lease # Free => c.lease \in Use /\ c \in Matching(c.lease)
  BY DEF PoolTypeOK, Container, Tables, LeasesHeld, Matching
<1>1. ASSUME NEW u \in Use,
             \/ Begin(u) \/ RefuseClosed(u) \/ DockerRun(u) \/ DockerRunFails(u) \/ Validate(u)
             \/ ExecWorker(u) \/ WorkerEnds(u) \/ WorkerTimesOut(u) \/ Destroy(u)
      PROVE  WaitersHaveAWaker'
  <2>1. UNCHANGED <<containers, generation>>
    BY <1>1 DEF Begin, RefuseClosed, DockerRun, DockerRunFails, Validate, ExecWorker, WorkerEnds,
                WorkerTimesOut, Destroy, pool
  <2>2. /\ closer' = closer /\ pc'[u] # "waiting"
        /\ \A v \in Use : v # u => pc'[v] = pc[v]
        /\ InStart(u) => InStart(u)'
        /\ pc[u] \in Holding /\ Matching(u) # {} => pc'[u] \in Holding
    BY <1>1, GotoFacts DEF Begin, RefuseClosed, DockerRun, DockerRunFails, Validate, ExecWorker,
                           WorkerEnds, WorkerTimesOut, Destroy, InStart, Holding, PcAt
  <2>3. \A v \in Use : InStart(v) => InStart(v)'
    BY <2>2 DEF InStart
  <2>4. \A v \in Use : Matching(v)' = Matching(v)
    BY <2>1 DEF Matching
  <2>5. \A v \in Use : Holds(v) => Holds(v)'
    BY <2>2, <2>4 DEF Holds
  <2> QED
    BY <2>2, <2>3, <2>5, WakerKept
<1>2. ASSUME NEW u \in Use, LeaseWarm(u)
      PROVE  WaitersHaveAWaker'
  <2>1. PICK c \in containers, kept \in SUBSET containers :
           /\ c.lease = Free
           /\ containers \ kept \subseteq Idle(containers)
           /\ containers' = (kept \ {c}) \cup {Leased(c, u)}
           /\ generation' = [generation EXCEPT ![u] = c.generation]
    BY <1>2, WarmFacts
  <2>2. /\ pc[u] = "ready" /\ pc'[u] = "leased" /\ closer' = closer
        /\ \A v \in Use : v # u => pc'[v] = pc[v]
    BY <1>2, GotoFacts DEF LeaseWarm, PcAt
  <2>3. \A v \in Use : v # u => generation'[v] = generation[v]
    BY <2>1 DEF PoolTypeOK
  <2>4. \A d \in containers : d.lease # Free => d \in containers'
    BY <2>1 DEF Idle
  <2>5. \A v \in Use : v # u => Matching(v) \subseteq Matching(v)'
    BY <1>f, <2>3, <2>4 DEF Matching
  <2>6. \A v \in Use : Holds(v) => v # u /\ Holds(v)'
    BY <2>2, <2>5 DEF Holds, Holding
  <2>7. \A v \in Use : InStart(v) => InStart(v)'
    BY <2>2 DEF InStart
  <2> QED
    BY <2>2, <2>6, <2>7, WakerKept
<1>3. ASSUME NEW u \in Use, ReserveStart(u)
      PROVE  WaitersHaveAWaker'
  <2>1. InStart(u)' /\ closer' = closer
    BY <1>3, ReserveFacts, GotoFacts DEF InStart, PcAt
  <2>2. closer' # "waiting"
    BY <1>3, <2>1, ReserveFacts DEF Closing
  <2>3. \E v \in Use : InStart(v)' \/ (Holds(v)' /\ closer' # "waiting")
    BY <2>1
  <2> QED
    BY <2>3, WakerFound
<1>4. ASSUME NEW u \in Use, Waits(u)
      PROVE  WaitersHaveAWaker'
  <2>1. /\ pc[u] = "ready" /\ ~closed /\ closer' = closer
        /\ \A v \in Use : v # u => pc'[v] = pc[v]
        /\ containers' \in SUBSET containers /\ containers \ containers' \subseteq Idle(containers)
        /\ UNCHANGED <<starting, generation>>
    BY <1>4, WaitFacts, GotoFacts DEF Drops, PcAt
  <2>2. closer' # "waiting"
    BY <2>1 DEF Closing
  <2>3. starting # {} \/ \E c \in containers' : c.lease # Free
    <3>1. CASE WaitForLease(u)
      BY <2>1, <3>1 DEF WaitForLease, Of, Idle
    <3>2. CASE WaitForStart(u)
      BY <3>2 DEF WaitForStart
    <3>3. CASE WaitForRoom(u)
      BY <3>3, FullPool
    <3> QED
      BY <1>4, <3>1, <3>2, <3>3 DEF Waits
  <2>4. \E v \in Use : InStart(v)' \/ (Holds(v)' /\ closer' # "waiting")
    <3>1. CASE starting # {}
      <4>1. PICK v \in Use : InStart(v)
        BY <3>1 DEF Tables, StartsKnown
      <4>2. InStart(v)'
        BY <2>1, <4>1 DEF InStart
      <4> QED
        BY <4>2
    <3>2. CASE \E c \in containers' : c.lease # Free
      <4>1. PICK c \in containers' : c.lease # Free
        BY <3>2
      <4>2. c.lease \in Use /\ c \in Matching(c.lease) /\ pc[c.lease] \in Holding
        BY <1>h, <2>1, <4>1 DEF Tables, LeasesHeld
      <4>3. Holds(c.lease)'
        BY <2>1, <4>1, <4>2 DEF Holds, Matching, Holding
      <4> QED
        BY <2>2, <4>2, <4>3
    <3> QED
      BY <2>3, <3>1, <3>2
  <2> QED
    BY <2>4, WakerFound
<1>5. ASSUME NEW u \in Use, AbandonStart(u) \/ DiscardStart(u) \/ Adopt(u)
      PROVE  WaitersHaveAWaker'
  <2>1. closer' # "waiting" /\ \A v \in Use : pc'[v] # "waiting"
    BY <1>5, WakeFacts DEF AbandonStart, DiscardStart, Adopt, PcAt
  <2> QED
    BY <2>1, NobodyWaits
<1>6. ASSUME NEW u \in Use, Release(u) \/ Retire(u)
      PROVE  WaitersHaveAWaker'
  <2>1. CASE Matching(u) # {}
    <3>1. closer' # "waiting" /\ \A v \in Use : pc'[v] # "waiting"
      BY <1>6, <2>1, WakeFacts DEF Release, Retire, PcAt
    <3> QED
      BY <3>1, NobodyWaits
  <2>2. CASE Matching(u) = {}
    <3>1. UNCHANGED <<containers, generation>>
      BY <1>6, <2>2 DEF Release, Retire
    <3>2. /\ closer' = closer /\ pc'[u] # "waiting" /\ ~InStart(u)
          /\ \A v \in Use : v # u => pc'[v] = pc[v]
      BY <1>6, <2>2, GotoFacts DEF Release, Retire, PcAt, InStart
    <3>3. \A v \in Use : Matching(v)' = Matching(v)
      BY <3>1 DEF Matching
    <3>4. \A v \in Use : Holds(v) => Holds(v)'
      BY <2>2, <3>2, <3>3 DEF Holds
    <3>5. \A v \in Use : InStart(v) => InStart(v)'
      BY <3>2 DEF InStart
    <3> QED
      BY <3>2, <3>4, <3>5, WakerKept
  <2> QED
    BY <2>1, <2>2
<1>7. CASE Shutdown
  <2>1. /\ \A v \in Use : pc'[v] # "waiting"
        /\ \A v \in Use : pc'[v] = pc[v] \/ (pc[v] = "waiting" /\ pc'[v] = "ready")
    BY <1>7 DEF Shutdown
  <2>2. CASE FinishShutdown
    BY <2>1, <2>2, NobodyWaits DEF FinishShutdown
  <2>3. CASE AwaitStarts
    <3>1. PICK v \in Use : InStart(v)
      BY <2>3 DEF AwaitStarts, Tables, StartsKnown
    <3>2. InStart(v)'
      BY <2>1, <3>1 DEF InStart
    <3>3. \E x \in Use : InStart(x)' \/ (Holds(x)' /\ closer' # "waiting")
      BY <3>2
    <3> QED
      BY <3>3, WakerFound
  <2> QED
    BY <1>7, <2>2, <2>3 DEF Shutdown
<1>8. CASE UNCHANGED poolVars
  BY <1>8 DEF poolVars, pool, WaitersHaveAWaker, InStart, Matching
<1> QED
  BY <1>1, <1>2, <1>3, <1>4, <1>5, <1>6, <1>7, <1>8
     DEF PoolNext, Ensure, StartStep, RunStep, Waits

-----------------------------------------------------------------------------
(* The inductive invariant, and what it gives. *)

PoolInv ==
  PoolTypeOK /\ Tables /\ Room /\ Apart /\ Forgotten /\ Closing /\ WaitersHaveAWaker

LEMMA InitInv == PoolInit => PoolInv
<1> SUFFICES ASSUME PoolInit PROVE PoolInv
  OBVIOUS
<1>1. PoolTypeOK
  BY InitTypeOK
<1>2. \A u \in Use : pc[u] = "idle" /\ generation[u] = 0
  BY DEF PoolInit
<1>3. Tables
  BY <1>2 DEF PoolInit, Tables, KeysUnique, StartsAlone, StartsKnown, LeasesHeld, InStart
<1>4. Room
  BY FS_EmptySet, PoolAssumption DEF PoolInit, Room, WithinCapacity
<1>5. Apart
  <2>1. \A u \in Use : ~Claims(u)
    BY <1>2 DEF PoolInit, Claims, InStart
  <2>2. Fresh
    BY <1>2 DEF PoolInit, Fresh
  <2> QED
    BY <2>1, <2>2 DEF PoolInit, Apart, GenerationsUnique, ClaimsApart, WorkersKnown
<1>6. Forgotten
  BY DEF PoolInit, Forgotten
<1>7. Closing
  BY <1>2 DEF PoolInit, Closing, ClosedPoolIsEmpty
<1>8. WaitersHaveAWaker
  BY <1>2 DEF PoolInit, WaitersHaveAWaker
<1> QED
  BY <1>1, <1>3, <1>4, <1>5, <1>6, <1>7, <1>8 DEF PoolInv

LEMMA InvStep == PoolInv /\ [PoolNext]_poolVars => PoolInv'
  BY TypeStep, TablesStep, RoomStep, ApartStep, ForgottenStep, ClosingStep, WakerStep DEF PoolInv

LEMMA Invariance == PoolSpec => []PoolInv
  BY InitInv, InvStep, PTL DEF PoolSpec

\* The pool keeps to pool_size, with the starts under way outside its
\* condition counted (ensure_container).
THEOREM CapacityKept == PoolSpec => []WithinCapacity
<1>1. PoolInv => WithinCapacity
  BY DEF PoolInv, Room
<1> QED
  BY <1>1, Invariance, PTL

\* Two workers are never inside one container, also when one of them has
\* outlived the lease of its run (quarantine_container).
THEOREM WorkersIsolated == PoolSpec => []OneWorkerPerContainer
<1>1. PoolInv => OneWorkerPerContainer
  BY OneWorkerMeans DEF PoolInv
<1> QED
  BY <1>1, Invariance, PTL

\* A start has its key to itself until it is adopted, abandoned or discarded
\* (_starting in ensure_container).
THEOREM StartsKeepToThemselves == PoolSpec => []StartsAlone
<1>1. PoolInv => StartsAlone
  BY DEF PoolInv, Tables
<1> QED
  BY <1>1, Invariance, PTL

\* What docker has, the pool or one of its calls answers for, or the pool has
\* given up on it (remove_container, shutdown, quarantine_container).
THEOREM NoContainerForgotten == PoolSpec => []NothingForgotten
<1>1. PoolInv => NothingForgotten
  BY ForgottenMeans DEF PoolInv
<1> QED
  BY <1>1, Invariance, PTL

\* No call and no shutdown waits on the condition with nobody left to notify
\* it (ensure_container, shutdown).
THEOREM NoLostWakeup == PoolSpec => []WaitersHaveAWaker
<1>1. PoolInv => WaitersHaveAWaker
  BY DEF PoolInv
<1> QED
  BY <1>1, Invariance, PTL

\* Nothing is pooled or started behind a shutdown's back (the second look at
\* _closed after start_container).
THEOREM ShutDownForGood == PoolSpec => []ClosedPoolIsEmpty
<1>1. PoolInv => ClosedPoolIsEmpty
  BY DEF PoolInv, Closing
<1> QED
  BY <1>1, Invariance, PTL

-----------------------------------------------------------------------------
(* The leases that stand, the containers that are gone for good and the      *)
(* generations of starts: what the refinement below needs besides PoolInv.   *)

AtLease == {"leased", "validated", "executing", "timed_out"}

\* Only a shutdown takes a container from the run that leases it.
LeasesStand == \A u \in Use : pc[u] \in AtLease => Matching(u) # {} \/ closer = "done"

RetiredGone == \A u \in Use : pc[u] = "retired" => \A c \in containers : c.generation # generation[u]

StartsFresh == \A u, v \in Use : InStart(u) /\ generation[v] = generation[u] => v = u

Standing == LeasesStand /\ RetiredGone /\ StartsFresh

LEMMA StandingKept ==
  ASSUME PoolTypeOK, Standing, UNCHANGED generation,
         \A c \in containers' : \E d \in containers : d.generation = c.generation,
         \A v \in Use : InStart(v)' => InStart(v),
         \A v \in Use : pc'[v] = "retired" => pc[v] = "retired",
         \A v \in Use : pc'[v] \in AtLease =>
                          pc[v] \in AtLease /\ (Matching(v) # {} => Matching(v)' # {}),
         closer = "done" => closer' = "done"
  PROVE  Standing'
<1>1. LeasesStand'
  BY DEF Standing, LeasesStand
<1>2. RetiredGone'
  BY DEF Standing, RetiredGone
<1>3. StartsFresh'
  BY DEF Standing, StartsFresh
<1> QED
  BY <1>1, <1>2, <1>3 DEF Standing

\* A pool that keeps its leased containers keeps every lease.
LEMMA LeasesKept ==
  ASSUME NEW v \in Use, generation'[v] = generation[v],
         \A c \in containers : c.lease = v => c \in containers'
  PROVE  Matching(v) # {} => Matching(v)' # {}
  BY DEF Matching

LEMMA StandingStep == PoolInv /\ Standing /\ [PoolNext]_poolVars => Standing'
<1> SUFFICES ASSUME PoolInv, Standing, [PoolNext]_poolVars PROVE Standing'
  OBVIOUS
<1>t. PoolTypeOK /\ Tables /\ Apart /\ Closing
  BY DEF PoolInv
<1>f. \A u \in Use : u # Free
  BY PoolAssumption
<1>1. ASSUME NEW u \in Use,
             \/ Begin(u) \/ RefuseClosed(u) \/ DockerRun(u) \/ DockerRunFails(u) \/ Validate(u)
             \/ ExecWorker(u) \/ WorkerEnds(u) \/ WorkerTimesOut(u) \/ Destroy(u)
      PROVE  Standing'
  <2>1. UNCHANGED <<containers, generation>>
    BY <1>1 DEF Begin, RefuseClosed, DockerRun, DockerRunFails, Validate, ExecWorker, WorkerEnds,
                WorkerTimesOut, Destroy, pool
  <2>2. /\ closer' = closer /\ pc'[u] # "retired"
        /\ \A v \in Use : v # u => pc'[v] = pc[v]
        /\ InStart(u)' => InStart(u)
        /\ pc'[u] \in AtLease => pc[u] \in AtLease
    BY <1>1, <1>t, GotoFacts DEF Begin, RefuseClosed, DockerRun, DockerRunFails, Validate, ExecWorker,
                           WorkerEnds, WorkerTimesOut, Destroy, InStart, AtLease, PcAt
  <2>3. \A v \in Use : Matching(v)' = Matching(v)
    BY <2>1 DEF Matching
  <2>4. \A v \in Use : InStart(v)' => InStart(v)
    BY <2>2 DEF InStart
  <2> QED
    BY <1>t, <2>1, <2>2, <2>3, <2>4, StandingKept
<1>2. ASSUME NEW u \in Use, Waits(u)
      PROVE  Standing'
  <2>1. /\ pc'[u] = "waiting" /\ closer' = closer
        /\ \A v \in Use : v # u => pc'[v] = pc[v]
        /\ containers' \in SUBSET containers /\ containers \ containers' \subseteq Idle(containers)
        /\ UNCHANGED generation
    BY <1>2, <1>t, WaitFacts, GotoFacts DEF Drops, PcAt
  <2>2. \A v \in Use : Matching(v) # {} => Matching(v)' # {}
    BY <1>f, <2>1, LeasesKept DEF Idle
  <2>3. \A v \in Use : InStart(v)' => InStart(v)
    BY <2>1 DEF InStart
  <2> QED
    BY <1>t, <2>1, <2>2, <2>3, StandingKept DEF AtLease
<1>3. ASSUME NEW u \in Use, AbandonStart(u) \/ DiscardStart(u)
      PROVE  Standing'
  <2>1. /\ UNCHANGED <<containers, generation>> /\ pc'[u] = "failed"
        /\ \A v \in Use : v # u => pc'[v] = pc[v] \/ (pc[v] = "waiting" /\ pc'[v] = "ready")
        /\ closer' = closer \/ (closer = "waiting" /\ closer' = "ready")
    BY <1>3, <1>t, WakeFacts DEF AbandonStart, DiscardStart, PcAt
  <2>2. \A v \in Use : Matching(v)' = Matching(v)
    BY <2>1 DEF Matching
  <2>3. \A v \in Use : InStart(v)' => InStart(v)
    BY <2>1 DEF InStart
  <2>4. \A v \in Use : pc'[v] \in AtLease => pc[v] \in AtLease
    BY <2>1 DEF AtLease
  <2> QED
    BY <1>t, <2>1, <2>2, <2>3, <2>4, StandingKept
<1>4. ASSUME NEW u \in Use, LeaseWarm(u)
      PROVE  Standing'
  <2>1. PICK c \in containers, kept \in SUBSET containers :
           /\ c.lease = Free /\ c.key = KeyOf[u] /\ c \in kept
           /\ containers \ kept \subseteq Idle(containers)
           /\ containers' = (kept \ {c}) \cup {Leased(c, u)}
           /\ generation' = [generation EXCEPT ![u] = c.generation]
    BY <1>4, <1>t, WarmFacts
  <2>2. /\ pc[u] = "ready" /\ pc'[u] = "leased" /\ closer' = closer
        /\ \A v \in Use : v # u => pc'[v] = pc[v]
    BY <1>4, <1>t, GotoFacts DEF LeaseWarm, PcAt
  <2>3. /\ Leased(c, u).key = c.key /\ Leased(c, u).lease = u
        /\ Leased(c, u).generation = c.generation
    BY DEF Leased
  <2>4. generation'[u] = c.generation /\ \A v \in Use : v # u => generation'[v] = generation[v]
    BY <1>t, <2>1 DEF PoolTypeOK
  <2>5. \A d \in containers : d.lease # Free => d \in containers'
    BY <2>1 DEF Idle
  <2>6. LeasesStand'
    <3>1. Matching(u)' # {}
      BY <2>1, <2>3, <2>4 DEF Matching
    <3>2. \A v \in Use : v # u /\ Matching(v) # {} => Matching(v)' # {}
      BY <1>f, <2>4, <2>5, LeasesKept
    <3> QED
      BY <2>2, <3>1, <3>2 DEF Standing, LeasesStand
  <2>7. RetiredGone'
    <3>1. \A d \in containers' : \E x \in containers : x.generation = d.generation
      BY <2>1, <2>3
    <3> QED
      BY <2>2, <2>4, <3>1 DEF Standing, RetiredGone
  <2>8. StartsFresh'
    <3>1. \A v \in Use : InStart(v) => c.generation # generation[v]
      BY <1>f, <1>t, <2>1 DEF Apart, ClaimsApart, Claims
    <3>2. \A v \in Use : InStart(v)' => InStart(v) /\ v # u
      BY <2>2 DEF InStart
    <3> QED
      BY <2>4, <3>1, <3>2 DEF Standing, StartsFresh
  <2> QED
    BY <2>6, <2>7, <2>8 DEF Standing
<1>5. ASSUME NEW u \in Use, ReserveStart(u)
      PROVE  Standing'
  <2>1. /\ containers' \in SUBSET containers /\ containers \ containers' \subseteq Idle(containers)
        /\ pc[u] = "ready" /\ pc'[u] = "starting" /\ closer' = closer
        /\ \A v \in Use : v # u => pc'[v] = pc[v]
        /\ generation'[u] = nextGeneration
        /\ \A v \in Use : v # u => generation'[v] = generation[v]
    BY <1>5, <1>t, ReserveFacts, GotoFacts DEF Drops, PcAt, PoolTypeOK
  <2>2. nextGeneration \in Nat /\ \A v \in Use : generation[v] \in Nat /\ generation[v] < nextGeneration
    BY <1>t DEF PoolTypeOK, Apart, Fresh
  <2>3. \A v \in Use : generation[v] # nextGeneration
    BY <2>2
  <2>4. LeasesStand'
    <3>1. \A v \in Use : v # u /\ Matching(v) # {} => Matching(v)' # {}
      BY <1>f, <2>1, LeasesKept DEF Idle
    <3> QED
      BY <2>1, <3>1 DEF Standing, LeasesStand, AtLease
  <2>5. RetiredGone'
    BY <2>1 DEF Standing, RetiredGone
  <2>6. StartsFresh'
    BY <2>1, <2>3 DEF Standing, StartsFresh, InStart
  <2> QED
    BY <2>4, <2>5, <2>6 DEF Standing
<1>6. ASSUME NEW u \in Use, Adopt(u)
      PROVE  Standing'
  <2> DEFINE new == [key |-> KeyOf[u], generation |-> generation[u], lease |-> u]
  <2>1. PICK kept \in SUBSET containers :
           /\ containers \ kept \subseteq Idle(containers)
           /\ containers' = kept \cup {new}
    BY <1>6, <1>t, AdoptFacts
  <2>2. new.key = KeyOf[u] /\ new.generation = generation[u] /\ new.lease = u
    OBVIOUS
  <2> HIDE DEF new
  <2>3. /\ UNCHANGED generation /\ pc[u] = "started" /\ pc'[u] = "leased"
        /\ \A v \in Use : v # u => pc'[v] = pc[v] \/ (pc[v] = "waiting" /\ pc'[v] = "ready")
        /\ closer' = closer \/ (closer = "waiting" /\ closer' = "ready")
    BY <1>6, <1>t, WakeFacts DEF Adopt, PcAt
  <2>4. LeasesStand'
    <3>1. Matching(u)' # {}
      BY <2>1, <2>2, <2>3 DEF Matching
    <3>2. \A v \in Use : v # u /\ Matching(v) # {} => Matching(v)' # {}
      BY <1>f, <2>1, <2>3, LeasesKept DEF Idle
    <3> QED
      BY <2>3, <3>1, <3>2 DEF Standing, LeasesStand, AtLease
  <2>5. RetiredGone'
    <3>1. \A v \in Use : pc[v] = "retired" => generation[v] # generation[u]
      BY <2>3 DEF Standing, StartsFresh, InStart
    <3>2. \A v \in Use : pc'[v] = "retired" => pc[v] = "retired"
      BY <2>3
    <3> QED
      BY <2>1, <2>2, <2>3, <3>1, <3>2 DEF Standing, RetiredGone
  <2>6. StartsFresh'
    BY <2>3 DEF Standing, StartsFresh, InStart
  <2> QED
    BY <2>4, <2>5, <2>6 DEF Standing
<1>7. ASSUME NEW u \in Use, Release(u) \/ Retire(u)
      PROVE  Standing'
  <2>1. /\ UNCHANGED generation /\ pc'[u] \in {"done", "retired", "ended"}
        /\ pc'[u] = "retired" => pc[u] = "timed_out" /\ Retire(u)
        /\ \A v \in Use : v # u => pc'[v] = pc[v] \/ (pc[v] = "waiting" /\ pc'[v] = "ready")
        /\ closer' = closer \/ (closer = "waiting" /\ closer' = "ready")
    BY <1>7, <1>t, GotoFacts, WakeFacts DEF Release, Retire, PcAt
  <2>2. \A c \in containers : c.lease # u => c \in containers'
    BY <1>7 DEF Release, Retire, Matching
  <2>3. \A c \in containers' : \E d \in containers : d.generation = c.generation
    BY <1>7 DEF Release, Retire, Matching, Leased
  <2>4. LeasesStand'
    <3>1. \A v \in Use : v # u /\ Matching(v) # {} => Matching(v)' # {}
      BY <2>1, <2>2, LeasesKept
    <3> QED
      BY <2>1, <3>1 DEF Standing, LeasesStand, AtLease
  <2>5. RetiredGone'
    <3>1. ASSUME pc'[u] = "retired" PROVE \A c \in containers' : c.generation # generation[u]
      <4>1. Claims(u)
        BY <2>1, <3>1 DEF Claims
      <4>2. containers' = containers \ Matching(u)
        BY <2>1, <3>1 DEF Retire
      <4> QED
        BY <1>t, <4>1, <4>2 DEF Apart, ClaimsApart, Matching
    <3>2. \A v \in Use : v # u /\ pc'[v] = "retired" => pc[v] = "retired"
      BY <2>1
    <3> QED
      BY <2>1, <2>3, <3>1, <3>2 DEF Standing, RetiredGone
  <2>6. StartsFresh'
    BY <2>1 DEF Standing, StartsFresh, InStart
  <2> QED
    BY <2>4, <2>5, <2>6 DEF Standing
<1>8. CASE Shutdown
  <2>1. /\ UNCHANGED generation /\ containers' \subseteq containers /\ closer # "done"
        /\ closer' = "done" \/ containers' = containers
        /\ \A v \in Use : pc'[v] = pc[v] \/ (pc[v] = "waiting" /\ pc'[v] = "ready")
    BY <1>8 DEF Shutdown, FinishShutdown, AwaitStarts
  <2>2. LeasesStand'
    BY <2>1 DEF Standing, LeasesStand, Matching, AtLease
  <2>3. RetiredGone' /\ StartsFresh'
    BY <2>1 DEF Standing, RetiredGone, StartsFresh, InStart
  <2> QED
    BY <2>2, <2>3 DEF Standing
<1>9. CASE UNCHANGED poolVars
  <2>1. UNCHANGED <<containers, generation, pc, closer>>
    BY <1>9 DEF poolVars, pool
  <2> QED
    BY <2>1 DEF Standing, LeasesStand, RetiredGone, StartsFresh, InStart, Matching
<1> QED
  BY <1>1, <1>2, <1>3, <1>4, <1>5, <1>6, <1>7, <1>8, <1>9
     DEF PoolNext, Ensure, StartStep, RunStep, Waits

-----------------------------------------------------------------------------
(* The pool keeps the promise of WarmLeases: every step of it maps to a step *)
(* on leases, or changes nothing they tell apart.                            *)

Underway == {<<u, generation[u]>> : u \in {v \in Use : InStart(v)}}
IdleOnes == {<<c.key, c.generation>> : c \in Idle(containers)}
LeasesOut == {<<c.lease, c.generation>> : c \in {d \in containers : d.lease # Free}}
Gate == IF closer = "done" THEN "closed" ELSE IF closed THEN "closing" ELSE "open"

NothingMapped ==
  /\ nextGeneration' = nextGeneration /\ Underway' = Underway /\ IdleOnes' = IdleOnes
  /\ LeasesOut' = LeasesOut /\ workers' = workers /\ Gate' = Gate

LEMMA StutterMaps ==
  ASSUME NothingMapped
  PROVE  UNCHANGED Warm!leaseVars
  BY DEF NothingMapped, Warm!leaseVars, Underway, IdleOnes, LeasesOut, Gate

\* Who is where.
LEMMA MappedMembers ==
  ASSUME PoolTypeOK
  PROVE  /\ \A g : \A u \in Use : <<u, g>> \in Underway <=> InStart(u) /\ generation[u] = g
         /\ \A g : \A u \in Use : <<u, g>> \in LeasesOut <=>
                                 \E c \in containers : c.lease = u /\ c.generation = g
         /\ \A k, g : <<k, g>> \in IdleOnes <=>
                         \E c \in containers : c.lease = Free /\ c.key = k /\ c.generation = g
<1>1. \A u \in Use : u # Free
  BY PoolAssumption
<1> QED
  BY <1>1 DEF Underway, LeasesOut, IdleOnes, Idle

LEMMA UnderwayKept ==
  ASSUME \A v \in Use : InStart(v)' <=> InStart(v),
         \A v \in Use : InStart(v) => generation'[v] = generation[v]
  PROVE  Underway' = Underway
  BY DEF Underway

\* The start of u, and no other, is settled.
LEMMA UnderwaySettled ==
  ASSUME NEW u \in Use, InStart(u), ~InStart(u)', UNCHANGED generation,
         \A v \in Use : v # u => (InStart(v)' <=> InStart(v)),
         StartsFresh
  PROVE  /\ <<u, generation[u]>> \in Underway
         /\ Underway' = Underway \ {<<u, generation[u]>>}
<1>1. \A v \in Use : InStart(v) /\ <<v, generation[v]>> # <<u, generation[u]>> <=> InStart(v) /\ v # u
  BY DEF StartsFresh
<1> QED
  BY <1>1 DEF Underway

\* Nobody is inside an idle container, one that is being started, or one that
\* a run leases and has not entered.
LEMMA IdleAreEmpty ==
  ASSUME PoolInv, NEW c \in Idle(containers)
  PROVE  \A w \in workers : w[2] # c.generation
<1> SUFFICES ASSUME NEW w \in workers, w[2] = c.generation PROVE FALSE
  OBVIOUS
<1>1. w[1] \in Use /\ Claims(w[1])
  BY DEF PoolInv, PoolTypeOK, Claims
<1>2. generation[w[1]] = c.generation /\ c \in containers /\ c.lease = Free
  BY DEF PoolInv, Apart, WorkersKnown, Idle
<1> QED
  BY <1>1, <1>2, PoolAssumption DEF PoolInv, Apart, ClaimsApart

LEMMA OutsidersFindItEmpty ==
  ASSUME PoolInv, NEW u \in Use, Claims(u), pc[u] \notin AtWork \cup Gone
  PROVE  \A w \in workers : w[2] # generation[u]
<1> SUFFICES ASSUME NEW w \in workers, w[2] = generation[u] PROVE FALSE
  OBVIOUS
<1>1. w[1] \in Use /\ Claims(w[1])
  BY DEF PoolInv, PoolTypeOK, Claims
<1>2. generation[w[1]] = generation[u] /\ pc[w[1]] \in AtWork \cup Gone
  BY DEF PoolInv, Apart, WorkersKnown
<1> QED
  BY <1>1, <1>2 DEF PoolInv, Apart, ClaimsApart

\* Evictions take nobody's worker.
LEMMA EvictionsTakeNobody ==
  ASSUME PoolInv, NEW kept \in SUBSET containers, containers \ kept \subseteq Idle(containers),
         Remove(Generations(containers \ kept))
  PROVE  workers' = workers
<1>1. \A w \in workers : w[2] \notin Generations(containers \ kept)
  BY IdleAreEmpty DEF Generations
<1> QED
  BY <1>1 DEF Remove

\* ... and no lease.
LEMMA EvictionsMap ==
  ASSUME NEW kept \in SUBSET containers, containers \ kept \subseteq Idle(containers),
         containers' = kept
  PROVE  LeasesOut' = LeasesOut /\ IdleOnes' \subseteq IdleOnes
<1>1. \A c \in containers : c.lease # Free => c \in kept
  BY DEF Idle
<1>2. LeasesOut' = LeasesOut
  BY <1>1 DEF LeasesOut
<1>3. IdleOnes' \subseteq IdleOnes
  BY DEF IdleOnes, Idle
<1> QED
  BY <1>2, <1>3

\* Every generation a call holds or a container has is one that was issued.
LEMMA Issued ==
  ASSUME PoolInv
  PROVE  /\ \A u \in Use : generation[u] \in 0 .. (nextGeneration - 1)
         /\ \A c \in containers : c.generation \in 0 .. (nextGeneration - 1)
<1>1. nextGeneration \in Nat /\ \A u \in Use : generation[u] \in Nat
  BY DEF PoolInv, PoolTypeOK
<1>2. \A c \in containers : c.generation \in Nat
  BY DEF PoolInv, PoolTypeOK, Container
<1> QED
  BY <1>1, <1>2 DEF PoolInv, Apart, Fresh

\* What the pool does not say stays: an open pool is not closed.
LEMMA OpenGate ==
  ASSUME PoolInv, ~closed
  PROVE  Gate = "open"
  BY DEF PoolInv, Closing, Gate

LEMMA GateKept ==
  ASSUME PoolInv, UNCHANGED closed, closer' = closer \/ (closer = "waiting" /\ closer' = "ready")
  PROVE  Gate' = Gate
  BY DEF Gate

\* Steps of a call that touch neither the table nor a worker.
LEMMA QuietMaps ==
  ASSUME PoolInv, NEW u \in Use,
         Begin(u) \/ RefuseClosed(u) \/ DockerRun(u) \/ DockerRunFails(u) \/ Validate(u)
           \/ WorkerTimesOut(u)
  PROVE  UNCHANGED Warm!leaseVars
<1>1. /\ UNCHANGED <<containers, nextGeneration, closed, generation, workers>>
      /\ closer' = closer /\ \A v \in Use : v # u => pc'[v] = pc[v]
      /\ InStart(u)' <=> InStart(u)
  BY GotoFacts DEF PoolInv, Begin, RefuseClosed, DockerRun, DockerRunFails, Validate,
                   WorkerTimesOut, pool, machine, InStart, PcAt
<1>2. \A v \in Use : InStart(v)' <=> InStart(v)
  BY <1>1 DEF InStart
<1>3. Underway' = Underway
  BY <1>1, <1>2, UnderwayKept
<1>4. IdleOnes' = IdleOnes /\ LeasesOut' = LeasesOut /\ Gate' = Gate
  BY <1>1 DEF IdleOnes, LeasesOut, Idle, Gate
<1> QED
  BY <1>1, <1>3, <1>4, StutterMaps DEF NothingMapped

LEMMA WaitMaps ==
  ASSUME PoolInv, NEW u \in Use, Waits(u)
  PROVE  Warm!EvictIdle
<1>1. /\ pc[u] = "ready" /\ pc'[u] = "waiting" /\ closer' = closer
      /\ \A v \in Use : v # u => pc'[v] = pc[v]
      /\ Drops(containers')
      /\ UNCHANGED <<nextGeneration, closed, generation>>
  BY WaitFacts, GotoFacts DEF PoolInv, PcAt
<1>2. \A v \in Use : InStart(v)' <=> InStart(v)
  BY <1>1 DEF InStart
<1>3. Underway' = Underway
  BY <1>1, <1>2, UnderwayKept
<1>4. workers' = workers
  BY <1>1, EvictionsTakeNobody DEF Drops
<1>5. LeasesOut' = LeasesOut /\ IdleOnes' \subseteq IdleOnes
  BY <1>1, EvictionsMap DEF Drops
<1>6. Gate' = Gate
  BY <1>1, GateKept
<1> QED
  BY <1>1, <1>3, <1>4, <1>5, <1>6
     DEF Warm!EvictIdle, Warm!Evict, Underway, IdleOnes, LeasesOut, Gate

LEMMA ReserveMaps ==
  ASSUME PoolInv, NEW u \in Use, ReserveStart(u)
  PROVE  Warm!Start(u)
<1>1. /\ pc[u] = "ready" /\ ~closed /\ pc'[u] = "starting" /\ closer' = closer
      /\ \A v \in Use : v # u => pc'[v] = pc[v]
      /\ Drops(containers')
      /\ generation'[u] = nextGeneration
      /\ \A v \in Use : v # u => generation'[v] = generation[v]
      /\ nextGeneration' = nextGeneration + 1
      /\ UNCHANGED closed
  BY ReserveFacts, GotoFacts DEF PoolInv, PoolTypeOK, PcAt
<1>2. InStart(u)' /\ ~InStart(u) /\ \A v \in Use : v # u => (InStart(v)' <=> InStart(v))
  BY <1>1 DEF InStart
<1>3. Underway' = Underway \cup {<<u, nextGeneration>>}
  BY <1>1, <1>2 DEF Underway
<1>4. workers' = workers
  BY <1>1, EvictionsTakeNobody DEF Drops
<1>5. LeasesOut' = LeasesOut /\ IdleOnes' \subseteq IdleOnes
  BY <1>1, EvictionsMap DEF Drops
<1>6. Gate = "open" /\ Gate' = Gate
  BY <1>1, GateKept, OpenGate
<1> QED
  BY <1>1, <1>3, <1>4, <1>5, <1>6
     DEF Warm!Start, Warm!Evict, Underway, IdleOnes, LeasesOut, Gate

LEMMA AbandonMaps ==
  ASSUME PoolInv, Standing, NEW u \in Use, AbandonStart(u) \/ DiscardStart(u)
  PROVE  Warm!Abandon(u, generation[u])
<1>1. /\ UNCHANGED <<containers, nextGeneration, closed, generation>>
      /\ pc[u] \in {"start_failed", "started"} /\ pc'[u] = "failed"
      /\ \A v \in Use : v # u => pc'[v] = pc[v] \/ (pc[v] = "waiting" /\ pc'[v] = "ready")
      /\ closer' = closer \/ (closer = "waiting" /\ closer' = "ready")
  BY WakeFacts DEF PoolInv, AbandonStart, DiscardStart, PcAt
<1>2. InStart(u) /\ ~InStart(u)' /\ \A v \in Use : v # u => (InStart(v)' <=> InStart(v))
  BY <1>1 DEF InStart
<1>3. /\ <<u, generation[u]>> \in Underway
      /\ Underway' = Underway \ {<<u, generation[u]>>}
  BY <1>1, <1>2, UnderwaySettled DEF Standing
<1>4. workers' = workers
  <2>1. \A w \in workers : w[2] # generation[u]
    BY <1>1, <1>2, OutsidersFindItEmpty DEF Claims, AtWork, Gone
  <2> QED
    BY <2>1 DEF AbandonStart, DiscardStart, machine, Remove
<1>5. IdleOnes' = IdleOnes /\ LeasesOut' = LeasesOut
  BY <1>1 DEF IdleOnes, LeasesOut, Idle
<1>6. Gate' = Gate
  BY <1>1, GateKept
<1> QED
  BY <1>1, <1>3, <1>4, <1>5, <1>6
     DEF Warm!Abandon, Underway, IdleOnes, LeasesOut, Gate

LEMMA AdoptMaps ==
  ASSUME PoolInv, Standing, NEW u \in Use, Adopt(u)
  PROVE  Warm!Adopt(u, generation[u])
<1> DEFINE new == [key |-> KeyOf[u], generation |-> generation[u], lease |-> u]
<1>f. u # Free
  BY PoolAssumption
<1>1. PICK kept \in SUBSET containers :
         /\ containers \ kept \subseteq Idle(containers)
         /\ Remove(Generations(containers \ kept))
         /\ containers' = kept \cup {new}
  BY AdoptFacts DEF PoolInv
<1>2. new.key = KeyOf[u] /\ new.generation = generation[u] /\ new.lease = u
  OBVIOUS
<1> HIDE DEF new
<1>3. /\ ~closed /\ UNCHANGED <<nextGeneration, closed, generation>>
      /\ pc[u] = "started" /\ pc'[u] = "leased"
      /\ \A v \in Use : v # u => pc'[v] = pc[v] \/ (pc[v] = "waiting" /\ pc'[v] = "ready")
      /\ closer' = closer \/ (closer = "waiting" /\ closer' = "ready")
  BY WakeFacts DEF PoolInv, Adopt, PcAt
<1>4. InStart(u) /\ ~InStart(u)' /\ \A v \in Use : v # u => (InStart(v)' <=> InStart(v))
  BY <1>3 DEF InStart
<1>5. /\ <<u, generation[u]>> \in Underway
      /\ Underway' = Underway \ {<<u, generation[u]>>}
  BY <1>3, <1>4, UnderwaySettled DEF Standing
<1>6. workers' = workers /\ \A w \in workers : w[2] # generation[u]
  BY <1>1, <1>3, <1>4, EvictionsTakeNobody, OutsidersFindItEmpty DEF Claims, AtWork, Gone
<1>7. LeasesOut' = LeasesOut \cup {<<u, generation[u]>>}
  <2>1. \A c \in containers : c.lease # Free => c \in kept
    BY <1>1 DEF Idle
  <2>2. {d \in containers' : d.lease # Free} = {d \in containers : d.lease # Free} \cup {new}
    BY <1>1, <1>2, <1>f, <2>1
  <2> QED
    BY <1>2, <2>2 DEF LeasesOut
<1>8. IdleOnes' \subseteq IdleOnes
  BY <1>1, <1>2, <1>f DEF IdleOnes, Idle
<1>9. Gate = "open" /\ Gate' = Gate
  BY <1>3, GateKept, OpenGate
<1> QED
  BY <1>3, <1>5, <1>6, <1>7, <1>8, <1>9
     DEF Warm!Adopt, Warm!Evict, Warm!Empty, Underway, IdleOnes, LeasesOut, Gate

LEMMA LeaseMaps ==
  ASSUME PoolInv, NEW u \in Use, LeaseWarm(u)
  PROVE  \E g \in 0 .. (nextGeneration - 1) : Warm!Lease(u, g)
<1>f. u # Free
  BY PoolAssumption
<1>1. PICK c \in containers, kept \in SUBSET containers :
         /\ c.lease = Free /\ c.key = KeyOf[u] /\ c \in kept
         /\ containers \ kept \subseteq Idle(containers)
         /\ Remove(Generations(containers \ kept))
         /\ containers' = (kept \ {c}) \cup {Leased(c, u)}
         /\ generation' = [generation EXCEPT ![u] = c.generation]
  BY WarmFacts DEF PoolInv
<1>2. /\ Leased(c, u).key = c.key /\ Leased(c, u).lease = u
      /\ Leased(c, u).generation = c.generation
  BY DEF Leased
<1>3. /\ pc[u] = "ready" /\ pc'[u] = "leased" /\ ~closed /\ closer' = closer
      /\ UNCHANGED <<nextGeneration, closed>>
      /\ \A v \in Use : v # u => pc'[v] = pc[v]
      /\ \A v \in Use : v # u => generation'[v] = generation[v]
  BY <1>1, GotoFacts DEF PoolInv, PoolTypeOK, LeaseWarm, PcAt
<1>4. /\ \A v \in Use : InStart(v)' <=> InStart(v)
      /\ \A v \in Use : InStart(v) => generation'[v] = generation[v]
  BY <1>3 DEF InStart
<1>5. Underway' = Underway
  BY <1>4, UnderwayKept
<1>6. c \in Idle(containers)
  BY <1>1 DEF Idle
<1>7. workers' = workers /\ \A w \in workers : w[2] # c.generation
  BY <1>1, <1>6, EvictionsTakeNobody, IdleAreEmpty
<1>8. LeasesOut' = LeasesOut \cup {<<u, c.generation>>}
  <2>1. \A d \in containers : d.lease # Free => d \in kept \ {c}
    BY <1>1 DEF Idle
  <2>2. {d \in containers' : d.lease # Free} =
           {d \in containers : d.lease # Free} \cup {Leased(c, u)}
    BY <1>1, <1>2, <1>f, <2>1
  <2> QED
    BY <1>2, <2>2 DEF LeasesOut
<1>9. <<KeyOf[u], c.generation>> \in IdleOnes /\ IdleOnes' \subseteq IdleOnes
  BY <1>1, <1>2, <1>6, <1>f DEF IdleOnes, Idle
<1>10. <<KeyOf[u], c.generation>> \notin IdleOnes'
  <2>1. \A d \in containers' : d.lease = Free => d \in containers /\ d # c
    BY <1>1, <1>2, <1>f
  <2>2. \A d \in containers' : d.lease = Free => d.generation # c.generation
    BY <2>1 DEF PoolInv, Apart, GenerationsUnique
  <2> QED
    BY <2>2 DEF IdleOnes, Idle
<1>11. Gate = "open" /\ Gate' = Gate
  BY <1>3, GateKept, OpenGate
<1>12. Warm!Lease(u, c.generation)
  BY <1>3, <1>5, <1>7, <1>8, <1>9, <1>10, <1>11
     DEF Warm!Lease, Warm!Evict, Warm!Empty, Underway, IdleOnes, LeasesOut, Gate
<1> QED
  BY <1>12, Issued

\* What a step of a call changes but the workers, when it changes only those.
LEMMA WorkerOnly ==
  ASSUME PoolInv, NEW u \in Use, UNCHANGED <<pool, generation>>, NEW at \in PcAt, Goto(u, at),
         ~InStart(u), at \notin {"starting", "started", "start_failed"}
  PROVE  /\ nextGeneration' = nextGeneration /\ Underway' = Underway /\ IdleOnes' = IdleOnes
         /\ LeasesOut' = LeasesOut /\ Gate' = Gate
<1>1. /\ UNCHANGED <<containers, nextGeneration, closed, generation>> /\ closer' = closer
      /\ pc'[u] = at /\ \A v \in Use : v # u => pc'[v] = pc[v]
  BY GotoFacts DEF PoolInv, pool
<1>2. \A v \in Use : InStart(v)' <=> InStart(v)
  BY <1>1 DEF InStart
<1>3. Underway' = Underway
  BY <1>1, <1>2, UnderwayKept
<1> QED
  BY <1>1, <1>3 DEF IdleOnes, LeasesOut, Idle, Gate

LEMMA ExecMaps ==
  ASSUME PoolInv, Standing, NEW u \in Use, ExecWorker(u)
  PROVE  Warm!Enter(u, generation[u]) \/ UNCHANGED Warm!leaseVars
<1>1. /\ nextGeneration' = nextGeneration /\ Underway' = Underway /\ IdleOnes' = IdleOnes
      /\ LeasesOut' = LeasesOut /\ Gate' = Gate
  BY WorkerOnly DEF ExecWorker, InStart, PcAt
<1>2. CASE generation[u] \notin docker
  <2>1. workers' = workers
    BY <1>2 DEF ExecWorker
  <2> QED
    BY <1>1, <2>1, StutterMaps DEF NothingMapped
<1>3. CASE generation[u] \in docker
  <2>1. workers' = workers \cup {<<u, generation[u]>>}
    BY <1>3 DEF ExecWorker
  <2>2. \A w \in workers : w[2] # generation[u]
    BY OutsidersFindItEmpty DEF ExecWorker, Claims, AtWork, Gone
  <2>3. <<u, generation[u]>> \in LeasesOut \/ Gate = "closed"
    <3>1. Matching(u) # {} \/ closer = "done"
      BY DEF Standing, LeasesStand, ExecWorker, AtLease
    <3>2. Matching(u) # {} => <<u, generation[u]>> \in LeasesOut
      BY MappedMembers DEF PoolInv, Matching
    <3> QED
      BY <3>1, <3>2 DEF Gate
  <2> QED
    BY <1>1, <2>1, <2>2, <2>3 DEF Warm!Enter, Warm!Empty, Underway, IdleOnes, LeasesOut, Gate
<1> QED
  BY <1>2, <1>3

LEMMA WorkerEndsMaps ==
  ASSUME PoolInv, NEW u \in Use, WorkerEnds(u)
  PROVE  Warm!Leave(u, generation[u]) \/ UNCHANGED Warm!leaseVars
<1>1. /\ nextGeneration' = nextGeneration /\ Underway' = Underway /\ IdleOnes' = IdleOnes
      /\ LeasesOut' = LeasesOut /\ Gate' = Gate
  BY WorkerOnly DEF WorkerEnds, InStart, PcAt
<1>2. workers' = workers \ {<<u, generation[u]>>}
  BY DEF WorkerEnds
<1>3. CASE <<u, generation[u]>> \in workers
  BY <1>1, <1>2, <1>3 DEF Warm!Leave, Underway, IdleOnes, LeasesOut, Gate
<1>4. CASE <<u, generation[u]>> \notin workers
  BY <1>1, <1>2, <1>4, StutterMaps DEF NothingMapped
<1> QED
  BY <1>3, <1>4

LEMMA DestroyMaps ==
  ASSUME PoolInv, Standing, NEW u \in Use, Destroy(u)
  PROVE  Warm!Destroy(generation[u]) \/ UNCHANGED Warm!leaseVars
<1>1. /\ nextGeneration' = nextGeneration /\ Underway' = Underway /\ IdleOnes' = IdleOnes
      /\ LeasesOut' = LeasesOut /\ Gate' = Gate
  BY WorkerOnly DEF Destroy, InStart, PcAt
<1>2. PICK lost \in SUBSET {generation[u]} :
        workers' = {w \in workers : w[2] \notin {generation[u]} \ lost}
  BY DEF Destroy, Remove
<1>3. CASE lost = {}
  <2>1. workers' = {w \in workers : w[2] # generation[u]}
    BY <1>2, <1>3
  <2>2. /\ \A l \in Underway \cup LeasesOut : l[2] # generation[u]
        /\ \A c \in IdleOnes : c[2] # generation[u]
    <3>1. pc[u] = "retired" /\ ~InStart(u)
      BY DEF Destroy, InStart
    <3>2. \A c \in containers : c.generation # generation[u]
      BY <3>1 DEF Standing, RetiredGone
    <3>3. \A v \in Use : InStart(v) => generation[v] # generation[u]
      BY <3>1 DEF Standing, StartsFresh
    <3> QED
      BY <3>2, <3>3 DEF Underway, LeasesOut, IdleOnes, Idle
  <2> QED
    BY <1>1, <2>1, <2>2 DEF Warm!Destroy, Warm!Retired, Underway, IdleOnes, LeasesOut, Gate
<1>4. CASE lost = {generation[u]}
  <2>1. workers' = workers
    BY <1>2, <1>4
  <2> QED
    BY <1>1, <2>1, StutterMaps DEF NothingMapped
<1> QED
  BY <1>3, <1>4

\* A lease that matches is one container, and the only one of its generation.
LEMMA MatchingIsOne ==
  ASSUME PoolInv, NEW u \in Use, NEW c \in Matching(u)
  PROVE  /\ Matching(u) = {c}
         /\ c \in containers /\ c.lease = u /\ c.key = KeyOf[u] /\ c.generation = generation[u]
         /\ {d \in containers : d.lease # Free /\ d # c} =
               {d \in containers : d.lease # Free /\ <<d.lease, d.generation>> # <<u, generation[u]>>}
<1>1. /\ c \in containers /\ c.lease = u /\ c.key = KeyOf[u] /\ c.generation = generation[u]
      /\ \A d \in Matching(u) : d = c
  BY DEF PoolInv, Tables, KeysUnique, Matching
<1>2. \A d \in containers : d.generation = generation[u] => d = c
  BY <1>1 DEF PoolInv, Apart, GenerationsUnique
<1> QED
  BY <1>1, <1>2

\* A lease that ends, whether its container comes back or not.
LEMMA LeaseEnds ==
  ASSUME PoolInv, NEW u \in Use, Release(u) \/ Retire(u), NEW c \in Matching(u)
  PROVE  /\ UNCHANGED <<nextGeneration, workers>> /\ Underway' = Underway /\ Gate' = Gate
         /\ <<u, generation[u]>> \in LeasesOut
         /\ LeasesOut' = LeasesOut \ {<<u, generation[u]>>}
<1>1. /\ UNCHANGED <<nextGeneration, closed, generation, workers>>
      /\ ~InStart(u) /\ ~InStart(u)'
      /\ \A v \in Use : v # u => pc'[v] = pc[v] \/ (pc[v] = "waiting" /\ pc'[v] = "ready")
      /\ closer' = closer \/ (closer = "waiting" /\ closer' = "ready")
  BY GotoFacts, WakeFacts DEF PoolInv, Release, Retire, InStart, PcAt, machine
<1>2. \A v \in Use : InStart(v)' <=> InStart(v)
  BY <1>1 DEF InStart
<1>3. Underway' = Underway
  BY <1>1, <1>2, UnderwayKept
<1>4. Gate' = Gate
  BY <1>1, GateKept
<1>5. {d \in containers' : d.lease # Free} = {d \in containers : d.lease # Free /\ d # c}
  <2>1. Leased(c, Free).lease = Free
    BY DEF Leased
  <2> QED
    BY <2>1, MatchingIsOne DEF Release, Retire
<1>6. LeasesOut' = LeasesOut \ {<<u, generation[u]>>}
  BY <1>5, MatchingIsOne DEF LeasesOut
<1>7. <<u, generation[u]>> \in LeasesOut
  BY MatchingIsOne, PoolAssumption DEF LeasesOut
<1> QED
  BY <1>1, <1>3, <1>4, <1>6, <1>7

\* A lease that was lost to a shutdown ends without a trace.
LEMMA StaleLeaseMaps ==
  ASSUME PoolInv, NEW u \in Use, Release(u) \/ Retire(u), Matching(u) = {}
  PROVE  UNCHANGED Warm!leaseVars
<1>1. UNCHANGED <<pool, generation, workers>>
  BY DEF Release, Retire, pool, machine
<1>2. ~InStart(u) /\ (Goto(u, "done") \/ Goto(u, "ended"))
  BY DEF Release, Retire, InStart
<1>3. /\ nextGeneration' = nextGeneration /\ Underway' = Underway /\ IdleOnes' = IdleOnes
      /\ LeasesOut' = LeasesOut /\ Gate' = Gate
  BY <1>1, <1>2, WorkerOnly DEF PcAt
<1> QED
  BY <1>1, <1>3, StutterMaps DEF NothingMapped

LEMMA ReleaseMaps ==
  ASSUME PoolInv, NEW u \in Use, Release(u), NEW c \in Matching(u)
  PROVE  Warm!GiveBack(u, generation[u])
<1>1. /\ UNCHANGED <<nextGeneration, workers>> /\ Underway' = Underway /\ Gate' = Gate
      /\ <<u, generation[u]>> \in LeasesOut
      /\ LeasesOut' = LeasesOut \ {<<u, generation[u]>>}
  BY LeaseEnds
<1>2. IdleOnes' = IdleOnes \cup {<<KeyOf[u], generation[u]>>}
  <2>1. /\ Leased(c, Free).key = c.key /\ Leased(c, Free).lease = Free
        /\ Leased(c, Free).generation = c.generation
    BY DEF Leased
  <2>2. containers' = (containers \ {c}) \cup {Leased(c, Free)} /\ c.lease # Free
    BY MatchingIsOne, PoolAssumption DEF Release
  <2>3. Idle(containers)' = Idle(containers) \cup {Leased(c, Free)}
    BY <2>1, <2>2 DEF Idle
  <2> QED
    BY <2>1, <2>3, MatchingIsOne DEF IdleOnes
<1>3. \A w \in workers : w[2] # generation[u]
  <2> SUFFICES ASSUME NEW w \in workers, w[2] = generation[u] PROVE FALSE
    OBVIOUS
  <2>1. w[1] \in Use /\ Claims(w[1])
    BY DEF PoolInv, PoolTypeOK, Claims
  <2>2. generation[w[1]] = c.generation /\ c.lease = u /\ c \in containers
    BY MatchingIsOne DEF PoolInv, Apart, WorkersKnown
  <2>3. w[1] = u
    BY <2>1, <2>2 DEF PoolInv, Apart, ClaimsApart
  <2> QED
    BY <2>2, <2>3, MatchingIsOne DEF PoolInv, Apart, WorkersKnown, Release, AtWork
<1> QED
  BY <1>1, <1>2, <1>3 DEF Warm!GiveBack, Warm!Empty, Underway, IdleOnes, LeasesOut, Gate

LEMMA RetireMaps ==
  ASSUME PoolInv, NEW u \in Use, Retire(u), NEW c \in Matching(u)
  PROVE  Warm!Retire(u, generation[u])
<1>1. /\ UNCHANGED <<nextGeneration, workers>> /\ Underway' = Underway /\ Gate' = Gate
      /\ <<u, generation[u]>> \in LeasesOut
      /\ LeasesOut' = LeasesOut \ {<<u, generation[u]>>}
  BY LeaseEnds
<1>2. Idle(containers)' = Idle(containers)
  BY MatchingIsOne, PoolAssumption DEF Retire, Idle
<1>3. IdleOnes' = IdleOnes
  BY <1>2 DEF IdleOnes
<1> QED
  BY <1>1, <1>3 DEF Warm!Retire, Underway, IdleOnes, LeasesOut, Gate

LEMMA ShutdownMaps ==
  ASSUME PoolInv, Shutdown
  PROVE  Warm!Close \/ Warm!Shut \/ UNCHANGED Warm!leaseVars
<1>1. /\ UNCHANGED <<starting, nextGeneration, generation>> /\ closed'
      /\ closer # "done"
      /\ \A v \in Use : pc'[v] = pc[v] \/ (pc[v] = "waiting" /\ pc'[v] = "ready")
  BY DEF Shutdown
<1>2. \A v \in Use : InStart(v)' <=> InStart(v)
  BY <1>1 DEF InStart
<1>3. Underway' = Underway
  BY <1>1, <1>2, UnderwayKept
<1>4. CASE FinishShutdown
  <2>1. Underway = {}
    BY <1>4 DEF FinishShutdown, Underway, PoolInv, Tables, StartsAlone
  <2>2. IdleOnes' = {} /\ LeasesOut' = {}
    BY <1>4 DEF FinishShutdown, IdleOnes, LeasesOut, Idle
  <2>3. workers' \subseteq workers
    BY <1>4 DEF FinishShutdown, Remove
  <2>4. Gate # "closed" /\ Gate' = "closed"
    BY <1>1, <1>4 DEF FinishShutdown, Gate
  <2> QED
    BY <1>1, <1>3, <2>1, <2>2, <2>3, <2>4 DEF Warm!Shut, Underway, IdleOnes, LeasesOut, Gate
<1>5. CASE AwaitStarts
  <2>1. UNCHANGED <<containers, workers>> /\ closer' = "waiting"
    BY <1>5 DEF AwaitStarts, machine
  <2>2. IdleOnes' = IdleOnes /\ LeasesOut' = LeasesOut
    BY <2>1 DEF IdleOnes, LeasesOut, Idle
  <2>3. Gate' = "closing" /\ Gate \in {"open", "closing"}
    BY <1>1, <2>1 DEF Gate
  <2>4. CASE Gate = "open"
    BY <1>1, <1>3, <2>1, <2>2, <2>3, <2>4 DEF Warm!Close, Underway, IdleOnes, LeasesOut, Gate
  <2>5. CASE Gate = "closing"
    BY <1>1, <1>3, <2>1, <2>2, <2>3, <2>5, StutterMaps DEF NothingMapped
  <2> QED
    BY <2>3, <2>4, <2>5
<1> QED
  BY <1>4, <1>5 DEF Shutdown

\* What a user does with a container is a step of WarmLeases.
LEMMA UserSteps ==
  ASSUME PoolInv, NEW u \in Use,
         \/ Warm!Abandon(u, generation[u]) \/ Warm!Adopt(u, generation[u])
         \/ Warm!Enter(u, generation[u]) \/ Warm!Leave(u, generation[u])
         \/ Warm!GiveBack(u, generation[u]) \/ Warm!Retire(u, generation[u])
         \/ Warm!Destroy(generation[u])
  PROVE  Warm!Next
<1>1. PICK g \in 0 .. (nextGeneration - 1) : g = generation[u]
  BY Issued
<1>2. CASE Warm!Abandon(u, generation[u])
  <2>1. Warm!Abandon(u, g)
    BY <1>1, <1>2 DEF Warm!Abandon
  <2> QED
    BY <2>1 DEF Warm!Next
<1>3. CASE Warm!Adopt(u, generation[u])
  <2>1. Warm!Adopt(u, g)
    BY <1>1, <1>3 DEF Warm!Adopt, Warm!Empty, Warm!Evict
  <2> QED
    BY <2>1 DEF Warm!Next
<1>4. CASE Warm!Enter(u, generation[u])
  <2>1. Warm!Enter(u, g)
    BY <1>1, <1>4 DEF Warm!Enter, Warm!Empty
  <2> QED
    BY <2>1 DEF Warm!Next
<1>5. CASE Warm!Leave(u, generation[u])
  <2>1. Warm!Leave(u, g)
    BY <1>1, <1>5 DEF Warm!Leave
  <2> QED
    BY <2>1 DEF Warm!Next
<1>6. CASE Warm!GiveBack(u, generation[u])
  <2>1. Warm!GiveBack(u, g)
    BY <1>1, <1>6 DEF Warm!GiveBack, Warm!Empty
  <2> QED
    BY <2>1 DEF Warm!Next
<1>7. CASE Warm!Retire(u, generation[u])
  <2>1. Warm!Retire(u, g)
    BY <1>1, <1>7 DEF Warm!Retire
  <2> QED
    BY <2>1 DEF Warm!Next
<1>8. CASE Warm!Destroy(generation[u])
  <2>1. Warm!Destroy(g)
    BY <1>1, <1>8 DEF Warm!Destroy, Warm!Retired
  <2> QED
    BY <2>1 DEF Warm!Next
<1> QED
  BY <1>2, <1>3, <1>4, <1>5, <1>6, <1>7, <1>8

LEMMA StepMaps ==
  PoolInv /\ Standing /\ [PoolNext]_poolVars => [Warm!Next]_(Warm!leaseVars)
<1> SUFFICES ASSUME PoolInv, Standing, [PoolNext]_poolVars
             PROVE  Warm!Next \/ UNCHANGED Warm!leaseVars
  OBVIOUS
<1>1. ASSUME NEW u \in Use,
             Begin(u) \/ RefuseClosed(u) \/ DockerRun(u) \/ DockerRunFails(u) \/ Validate(u)
               \/ WorkerTimesOut(u)
      PROVE  UNCHANGED Warm!leaseVars
  BY <1>1, QuietMaps
<1>2. ASSUME NEW u \in Use, Waits(u)
      PROVE  Warm!Next
  BY <1>2, WaitMaps DEF Warm!Next
<1>3. ASSUME NEW u \in Use, LeaseWarm(u) \/ ReserveStart(u)
      PROVE  Warm!Next
  BY <1>3, LeaseMaps, ReserveMaps DEF Warm!Next
<1>4. ASSUME NEW u \in Use, AbandonStart(u) \/ DiscardStart(u) \/ Adopt(u)
      PROVE  Warm!Next
  <2>1. Warm!Abandon(u, generation[u]) \/ Warm!Adopt(u, generation[u])
    BY <1>4, AbandonMaps, AdoptMaps
  <2> QED
    BY <2>1, UserSteps
<1>5. ASSUME NEW u \in Use, ExecWorker(u) \/ WorkerEnds(u) \/ Destroy(u)
      PROVE  Warm!Next \/ UNCHANGED Warm!leaseVars
  <2>1. \/ Warm!Enter(u, generation[u]) \/ Warm!Leave(u, generation[u])
        \/ Warm!Destroy(generation[u]) \/ UNCHANGED Warm!leaseVars
    BY <1>5, ExecMaps, WorkerEndsMaps, DestroyMaps
  <2> QED
    BY <2>1, UserSteps
<1>6. ASSUME NEW u \in Use, Release(u) \/ Retire(u)
      PROVE  Warm!Next \/ UNCHANGED Warm!leaseVars
  <2>1. CASE Matching(u) = {}
    BY <1>6, <2>1, StaleLeaseMaps
  <2>2. CASE Matching(u) # {}
    <3>1. PICK c \in Matching(u) : TRUE
      BY <2>2
    <3>2. Warm!GiveBack(u, generation[u]) \/ Warm!Retire(u, generation[u])
      BY <1>6, <3>1, ReleaseMaps, RetireMaps
    <3> QED
      BY <3>2, UserSteps
  <2> QED
    BY <2>1, <2>2
<1>7. CASE Shutdown
  BY <1>7, ShutdownMaps DEF Warm!Next
<1>8. CASE UNCHANGED poolVars
  <2>1. UNCHANGED <<containers, nextGeneration, closed, pc, generation, closer, workers>>
    BY <1>8 DEF poolVars, pool, machine
  <2>2. NothingMapped
    BY <2>1 DEF NothingMapped, Underway, IdleOnes, LeasesOut, Gate, Idle, InStart
  <2> QED
    BY <2>2, StutterMaps
<1> QED
  BY <1>1, <1>2, <1>3, <1>4, <1>5, <1>6, <1>7, <1>8
     DEF PoolNext, Ensure, StartStep, RunStep, Waits

\* The pool keeps WarmLeases, for any calls, keys and pool size: each container
\* is leased to one run at a time, for its key and with nobody inside, and one
\* that may have somebody inside never comes back (ensure_container,
\* release_container, quarantine_container, shutdown).
THEOREM PoolKeepsLeases == PoolSpec => WarmContainersKept
<1>1. PoolInit => Warm!Init
  <2> SUFFICES ASSUME PoolInit PROVE Warm!Init
    OBVIOUS
  <2>1. \A u \in Use : ~InStart(u)
    BY DEF PoolInit, InStart
  <2> QED
    BY <2>1 DEF PoolInit, Warm!Init, Idle
<1>2. PoolInit => Standing
  <2> SUFFICES ASSUME PoolInit PROVE Standing
    OBVIOUS
  <2>1. \A u \in Use : pc[u] = "idle"
    BY DEF PoolInit
  <2> QED
    BY <2>1 DEF Standing, LeasesStand, RetiredGone, StartsFresh, InStart, AtLease
<1>3. PoolSpec => []Standing
  BY <1>2, Invariance, StandingStep, PTL DEF PoolSpec
<1> QED
  BY <1>1, <1>3, Invariance, StepMaps, PTL DEF PoolSpec, WarmContainersKept, Warm!LeaseSpec
=============================================================================
