------------------------------ MODULE WarmLeases ------------------------------
(***************************************************************************)
(* What the pool of warm containers promises the runs that use them, without *)
(* the condition its callers wait on, its capacity, or docker's answers.  A  *)
(* container is started for one user, is idle or out on one lease at a time, *)
(* and is leased for its own key only, to a user who finds nobody inside.    *)
(* It comes back empty or not at all: one that may still have somebody       *)
(* inside is retired and never leased again.                                 *)
(***************************************************************************)
EXTENDS Naturals

CONSTANTS User, KeyOf      \* the key of the containers each user needs

VARIABLES
  next,       \* the generation of the next container to be started
  starting,   \* <<user, generation>>: starts without an outcome
  idle,       \* <<key, generation>>: containers for the next user to come
  leased,     \* <<user, generation>>: leases
  inside,     \* <<user, generation>>: workers in containers
  gate        \* "open" | "closing" | "closed"

leaseVars == <<next, starting, idle, leased, inside, gate>>

Init ==
  /\ next = 1
  /\ starting = {}
  /\ idle = {}
  /\ leased = {}
  /\ inside = {}
  /\ gate = "open"

Empty(g) == \A w \in inside : w[2] # g

Retired(g) ==
  /\ \A l \in starting \cup leased : l[2] # g
  /\ \A c \in idle : c[2] # g

\* Idle containers may be evicted at any time, and to make room for others.
Evict(kept) == kept \subseteq idle

Start(u) ==
  /\ gate = "open"
  /\ next' = next + 1
  /\ starting' = starting \cup {<<u, next>>}
  /\ Evict(idle')
  /\ UNCHANGED <<leased, inside, gate>>

Abandon(u, g) ==
  /\ <<u, g>> \in starting
  /\ starting' = starting \ {<<u, g>>}
  /\ UNCHANGED <<next, idle, leased, inside, gate>>

\* The container is up, and its user is the first to lease it.
Adopt(u, g) ==
  /\ gate = "open"
  /\ <<u, g>> \in starting
  /\ Empty(g)
  /\ starting' = starting \ {<<u, g>>}
  /\ leased' = leased \cup {<<u, g>>}
  /\ Evict(idle')
  /\ UNCHANGED <<next, inside, gate>>

Lease(u, g) ==
  /\ gate = "open"
  /\ <<KeyOf[u], g>> \in idle
  /\ Empty(g)
  /\ Evict(idle') /\ <<KeyOf[u], g>> \notin idle'
  /\ leased' = leased \cup {<<u, g>>}
  /\ UNCHANGED <<next, starting, inside, gate>>

\* A worker enters under a live lease, or when there are no leases any more:
\* a shutdown does not tell the users whose containers it takes.
Enter(u, g) ==
  /\ <<u, g>> \in leased \/ gate = "closed"
  /\ Empty(g)
  /\ inside' = inside \cup {<<u, g>>}
  /\ UNCHANGED <<next, starting, idle, leased, gate>>

Leave(u, g) ==
  /\ <<u, g>> \in inside
  /\ inside' = inside \ {<<u, g>>}
  /\ UNCHANGED <<next, starting, idle, leased, gate>>

GiveBack(u, g) ==
  /\ <<u, g>> \in leased
  /\ Empty(g)
  /\ leased' = leased \ {<<u, g>>}
  /\ idle' = idle \cup {<<KeyOf[u], g>>}
  /\ UNCHANGED <<next, starting, inside, gate>>

\* The user does not know what is going on inside.
Retire(u, g) ==
  /\ <<u, g>> \in leased
  /\ leased' = leased \ {<<u, g>>}
  /\ UNCHANGED <<next, starting, idle, inside, gate>>

\* A retired container goes, with whoever is inside.
Destroy(g) ==
  /\ Retired(g)
  /\ inside' = {w \in inside : w[2] # g}
  /\ UNCHANGED <<next, starting, idle, leased, gate>>

EvictIdle ==
  /\ Evict(idle')
  /\ UNCHANGED <<next, starting, leased, inside, gate>>

Close ==
  /\ gate = "open"
  /\ gate' = "closing"
  /\ UNCHANGED <<next, starting, idle, leased, inside>>

\* The end takes every container, and every worker in one that goes.
Shut ==
  /\ gate # "closed"
  /\ starting = {}
  /\ idle' = {}
  /\ leased' = {}
  /\ inside' \subseteq inside
  /\ gate' = "closed"
  /\ UNCHANGED <<next, starting>>

Next ==
  \/ EvictIdle \/ Close \/ Shut
  \/ \E u \in User :
       \/ Start(u)
       \/ \E g \in 0 .. (next - 1) :
            \/ Abandon(u, g) \/ Adopt(u, g) \/ Lease(u, g) \/ Enter(u, g)
            \/ Leave(u, g) \/ GiveBack(u, g) \/ Retire(u, g) \/ Destroy(g)

LeaseSpec == Init /\ [][Next]_leaseVars
=============================================================================
