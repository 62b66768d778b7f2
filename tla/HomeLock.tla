------------------------------ MODULE HomeLock ------------------------------
(***************************************************************************)
(* The advisory lock of a daemon home and the generations it hands out       *)
(* (home_lock.py), along the life of serve() in server.py: acquire, open the *)
(* store, build the app, publish the endpoint, and all of it back.  A         *)
(* process may die between any two writes.                                   *)
(***************************************************************************)
EXTENDS Naturals

CONSTANTS
  Process,       \* processes that run serve() on the home, again and again
  Nobody,        \* no process
  MaxGeneration  \* bound on the generations that are handed out

ASSUME HomeAssumption == Nobody \notin Process /\ MaxGeneration \in Nat

VARIABLES
  at,          \* where each process is in serve()
  holder,      \* the process that holds the operating system's lock on daemon.lock
  recorded,    \* "state" in daemon.lock, or "torn": empty, or no JSON
  recordedGen, \* "generation" in daemon.lock, or 0
  identity,    \* "generation" in the identity file, or 0 before there is one
  endpoint,    \* the process whose endpoint file lies in the home
  generation,  \* the generation given last; it is the holder's, once it has one
  settled      \* history: the daemon of that generation is done with its store

homeFiles == <<recorded, recordedGen, identity, endpoint>>
homeVars == <<at, holder, homeFiles, generation, settled>>

StoreOpen == {"opened", "serving", "stopping"}
Owning == {"owner", "releasing", "torn_stop", "unlocking"} \cup StoreOpen
Locked == {"locked", "numbered", "torn_run"} \cup Owning

HomeTypeOK ==
  /\ at \in [Process -> {"down"} \cup Locked]
  /\ holder \in Process \cup {Nobody}
  /\ recorded \in {"torn", "running", "stopped"}
  /\ identity \in 0..MaxGeneration
  /\ recordedGen \in 0..identity
  /\ recorded = "torn" <=> recordedGen = 0
  /\ endpoint \in Process \cup {Nobody}
  /\ generation = identity
  /\ settled \in BOOLEAN

HomeInit ==
  /\ at = [p \in Process |-> "down"]
  /\ holder = Nobody
  /\ recorded = "torn"
  /\ recordedGen = 0
  /\ identity = 0
  /\ endpoint = Nobody
  /\ generation = 0
  /\ settled = TRUE

Move(p, from, to) == at[p] = from /\ at' = [at EXCEPT ![p] = to]
Tear == recorded' = "torn" /\ recordedGen' = 0
Given == <<generation, settled>>

-----------------------------------------------------------------------------
\* DaemonHomeLock.acquire

\* Nobody but the holder of the lock listens on an endpoint of this home, so the
\* second probe, under the lock, finds nothing.
Lock(p) ==
  /\ Move(p, "down", "locked")
  /\ holder = Nobody
  /\ holder' = p
  /\ UNCHANGED <<homeFiles, Given>>

BrokenRefuse(p) ==            \* cleans up the endpoint of a daemon that does not answer
  /\ at[p] = "down"
  /\ holder # Nobody
  /\ endpoint' = Nobody
  /\ UNCHANGED <<at, holder, recorded, recordedGen, identity, Given>>

\* The owner's endpoint answers, or the retries are used up.
Refuse(p) ==
  /\ at[p] = "down"
  /\ holder # Nobody
  /\ UNCHANGED homeVars

\* previous_generation and clean_previous_stop
Previous == IF recordedGen > identity THEN recordedGen ELSE identity

BrokenCleanStop == recorded = "stopped"   \* whose stop it was is not looked at

CleanStop == recorded = "stopped" /\ recordedGen = Previous

\* stale_takeover, which is logged and reported
StaleTakeover == endpoint # Nobody \/ (Previous # 0 /\ ~CleanStop)

BrokenAdvanceIdentity(p) ==   \* the new generation is kept in the lock file only
  /\ Move(p, "locked", "numbered")
  /\ Previous < MaxGeneration
  /\ generation' = Previous + 1
  /\ settled' = FALSE
  /\ UNCHANGED <<holder, homeFiles>>

\* The identity file is replaced as a whole.
AdvanceIdentity(p) ==
  /\ Move(p, "locked", "numbered")
  /\ Previous < MaxGeneration
  /\ identity' = Previous + 1
  /\ generation' = Previous + 1
  /\ settled' = FALSE
  /\ UNCHANGED <<holder, recorded, recordedGen, endpoint>>

\* _write_state("running"): truncate, then write
TearRunning(p) ==
  /\ Move(p, "numbered", "torn_run")
  /\ Tear
  /\ UNCHANGED <<holder, identity, endpoint, Given>>

RecordRunning(p) ==
  /\ Move(p, "torn_run", "owner")
  /\ recorded' = "running"
  /\ recordedGen' = generation
  /\ UNCHANGED <<holder, identity, endpoint, Given>>

\* A read, a write or the fsync after it fails: the lock is given back as it is.
AcquireFails(p) ==
  /\ \E from \in {"locked", "numbered", "torn_run", "owner"} : Move(p, from, "down")
  /\ holder' = Nobody
  /\ UNCHANGED <<homeFiles, Given>>

-----------------------------------------------------------------------------
\* serve

OpenStore(p) ==
  /\ Move(p, "owner", "opened")
  /\ UNCHANGED <<holder, homeFiles, Given>>

\* Whatever the constructor had opened is left to the process, and nobody has it.
OpenFails(p) ==
  /\ Move(p, "owner", "releasing")
  /\ settled' = TRUE
  /\ UNCHANGED <<holder, homeFiles, generation>>

\* Without an app there is no runtime to shut down: the store is closed.
BuildFails(p) ==
  /\ Move(p, "opened", "releasing")
  /\ settled' = TRUE
  /\ UNCHANGED <<holder, homeFiles, generation>>

\* The app is built and its endpoint written.
Publish(p) ==
  /\ Move(p, "opened", "serving")
  /\ endpoint' = p
  /\ UNCHANGED <<holder, recorded, recordedGen, identity, Given>>

PublishFails(p) ==
  /\ Move(p, "opened", "stopping")
  /\ UNCHANGED <<holder, homeFiles, Given>>

\* clear_daemon_endpoint, of its own endpoint only; the file may not be unlinked.
ClearEndpoint(p) ==
  /\ Move(p, "serving", "stopping")
  /\ endpoint' \in {endpoint, IF endpoint = p THEN Nobody ELSE endpoint}
  /\ UNCHANGED <<holder, recorded, recordedGen, identity, Given>>

\* runtime.shutdown() has returned, or raised.
CloseStore(p) ==
  /\ Move(p, "stopping", "releasing")
  /\ settled' = TRUE
  /\ UNCHANGED <<holder, homeFiles, generation>>

-----------------------------------------------------------------------------
\* DaemonHomeLock.release

TearStopped(p) ==
  /\ Move(p, "releasing", "torn_stop")
  /\ Tear
  /\ UNCHANGED <<holder, identity, endpoint, Given>>

RecordStopped(p) ==
  /\ Move(p, "torn_stop", "unlocking")
  /\ recorded' = "stopped"
  /\ recordedGen' = generation
  /\ UNCHANGED <<holder, identity, endpoint, Given>>

RecordFails(p) ==
  /\ \E from \in {"releasing", "torn_stop"} : Move(p, from, "unlocking")
  /\ UNCHANGED <<holder, homeFiles, Given>>

Unlock(p) ==
  /\ Move(p, "unlocking", "down")
  /\ holder' = Nobody
  /\ UNCHANGED <<homeFiles, Given>>

\* The operating system gives the lock of a dead process back.
Crash(p) ==
  /\ at[p] # "down"
  /\ at' = [at EXCEPT ![p] = "down"]
  /\ holder' = IF holder = p THEN Nobody ELSE holder
  /\ UNCHANGED <<homeFiles, Given>>

-----------------------------------------------------------------------------
Acquiring(p) ==
  \/ Lock(p) \/ Refuse(p) \/ AdvanceIdentity(p) \/ TearRunning(p) \/ RecordRunning(p)
  \/ AcquireFails(p)

Serving(p) ==
  \/ OpenStore(p) \/ OpenFails(p) \/ BuildFails(p) \/ Publish(p) \/ PublishFails(p)
  \/ ClearEndpoint(p) \/ CloseStore(p)

Releasing(p) == TearStopped(p) \/ RecordStopped(p) \/ RecordFails(p) \/ Unlock(p)

HomeNext == \E p \in Process : Acquiring(p) \/ Serving(p) \/ Releasing(p) \/ Crash(p)

HomeSpec == HomeInit /\ [][HomeNext]_homeVars

-----------------------------------------------------------------------------
\* Properties

\* One process at a time is between acquire and release, and while it serves the
\* endpoint file is its own: no contender, dying or refused, takes it away.
HomeIsExclusive ==
  \A p \in Process :
    /\ at[p] \in Locked => holder = p
    /\ at[p] = "serving" => endpoint = p

\* A generation is larger than all that were handed out before, whatever crash or
\* failed write came between the identity file and the lock file.
GenerationsIncrease ==
  [][\A p \in Process : at[p] = "locked" /\ at'[p] = "numbered" =>
       generation' > generation]_homeVars

\* A takeover that is not called stale follows a daemon that is done with its store,
\* or it is the first.
StaleNoticed == \A p \in Process : at[p] = "locked" /\ ~StaleTakeover => settled
=============================================================================
