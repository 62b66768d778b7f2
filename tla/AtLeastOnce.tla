---------------------------- MODULE AtLeastOnce ----------------------------
(***************************************************************************)
(* What the outbox of the daemon promises of a report.  Once queued it is    *)
(* owed to the central server until it is settled, which needs the server's  *)
(* word for it, or dropped in the open: refused, expired or pruned.  Only    *)
(* owed reports are offered, in one exchange at a time; a report may be      *)
(* offered again and again, but one that is settled is never owed again.     *)
(***************************************************************************)
CONSTANT Event

VARIABLES
  standing,   \* what becomes of each report
  underway,   \* the reports of the exchange that has no outcome yet
  taken       \* the reports the server has confirmed

deliveryVars == <<standing, underway, taken>>

Init ==
  /\ standing = [e \in Event |-> "none"]
  /\ underway = {}
  /\ taken = {}

Queue(e) ==
  /\ standing[e] = "none"
  /\ standing' = [standing EXCEPT ![e] = "owed"]
  /\ UNCHANGED <<underway, taken>>

Offer(es) ==
  /\ underway = {}
  /\ \A e \in es : standing[e] = "owed"
  /\ underway' = es
  /\ UNCHANGED <<standing, taken>>

\* The server confirms some of them, or the exchange fails.
Take ==
  /\ \E es \in SUBSET underway : taken' = taken \cup es
  /\ underway' \in {underway, {}}
  /\ UNCHANGED standing

Resolve(e) ==
  /\ e \in underway
  /\ standing[e] # "settled"
  /\ \E s \in {"owed", "settled", "dropped"} :
       /\ s = "settled" => e \in taken
       /\ standing' = [standing EXCEPT ![e] = s]
  /\ underway' \in {underway \ {e}, {}}
  /\ UNCHANGED taken

\* Also what was settled may be dropped, with its run or when it is old.
Drop(es) ==
  /\ \A e \in es : standing[e] # "none"
  /\ standing' = [e \in Event |-> IF e \in es THEN "dropped" ELSE standing[e]]
  /\ underway' \in {underway, {}}
  /\ UNCHANGED taken

Next ==
  \/ \E e \in Event : Queue(e) \/ Resolve(e)
  \/ \E es \in SUBSET Event : Offer(es) \/ Drop(es)
  \/ Take

DeliverySpec == Init /\ [][Next]_deliveryVars
=============================================================================
