---------------------------- MODULE WhenIdleStop ----------------------------
(***************************************************************************)
(* What the daemon promises its supervisor about a "when idle" stop,       *)
(* without leases, polls or boundaries: a stop commits only behind a       *)
(* closed gate, when nothing admitted is still owed and nothing has been   *)
(* lost, and after the commit only flushes may run.                        *)
(*                                                                         *)
(* Lifecycle.tla implements this specification.                            *)
(***************************************************************************)
CONSTANT Lineage      \* completion lineages: one per admitted unit of work

VARIABLES
  owed,       \* lineages admitted through the open gate and not yet settled
  flushing,   \* lineages of flushes started behind the gate
  gate,       \* "open" | "closed" (drain scheduled) | "stopping" (committed)
  poisoned    \* some work can no longer be accounted for

vars == <<owed, flushing, gate, poisoned>>

TypeOK ==
  /\ owed \subseteq Lineage
  /\ flushing \subseteq Lineage
  /\ gate \in {"open", "closed", "stopping"}
  /\ poisoned \in BOOLEAN

Init ==
  /\ owed = {}
  /\ flushing = {}
  /\ gate = "open"
  /\ poisoned = FALSE

\* Root work is admitted through the open gate only.
Admit(l) ==
  /\ gate = "open"
  /\ l \notin owed \cup flushing
  /\ owed' = owed \cup {l}
  /\ UNCHANGED <<flushing, gate, poisoned>>

\* Work already owed may hand over to a lineage of its own before the stop
\* commits: a poll admitted before the drain returns a job.  A flush never.
HandOver(l) ==
  /\ gate # "stopping"
  /\ owed # {}
  /\ l \notin owed \cup flushing
  /\ owed' = owed \cup {l}
  /\ UNCHANGED <<flushing, gate, poisoned>>

\* Behind the gate only a flush may start; nothing it does is claimable.
Flush(l) ==
  /\ gate # "open"
  /\ l \notin owed \cup flushing
  /\ flushing' = flushing \cup {l}
  /\ UNCHANGED <<owed, gate, poisoned>>

\* The stop commits when nothing is left, and nothing has been lost.
Commit ==
  /\ gate = "closed"
  /\ owed' = {}
  /\ flushing' = {}
  /\ ~poisoned
  /\ gate' = "stopping"

\* The last settlement and the commit are one atomic step.
Settle(l) ==
  /\ l \in owed \cup flushing
  /\ owed' = owed \ {l}
  /\ flushing' = flushing \ {l}
  /\ Commit \/ UNCHANGED gate
  /\ UNCHANGED poisoned

CommitIdle ==
  /\ Commit
  /\ UNCHANGED <<owed, flushing, poisoned>>

Drain ==
  /\ gate = "open"
  /\ gate' = "closed"
  /\ UNCHANGED <<owed, flushing, poisoned>>

\* Cancelling may settle flushes that were only there for the drain.
Cancel ==
  /\ gate = "closed"
  /\ gate' = "open"
  /\ flushing' \in SUBSET flushing
  /\ UNCHANGED <<owed, poisoned>>

Poison ==
  /\ poisoned' = TRUE
  /\ UNCHANGED <<owed, flushing, gate>>

\* The exit trigger failed: the daemon is still there and says so for ever.
Rollback ==
  /\ gate = "stopping"
  /\ gate' = "closed"
  /\ poisoned' = TRUE
  /\ UNCHANGED <<owed, flushing>>

Next ==
  \/ \E l \in Lineage : Admit(l) \/ HandOver(l) \/ Flush(l) \/ Settle(l)
  \/ CommitIdle \/ Drain \/ Cancel \/ Poison \/ Rollback

Spec == Init /\ [][Next]_vars
=============================================================================
