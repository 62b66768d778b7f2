---------------------------- MODULE MCDaemonWork ----------------------------
(* Small instances of DaemonWork. *)
EXTENDS DaemonWork

AllFaults == {"network", "store", "thread", "handoff", "files", "shutdown"}
=============================================================================
