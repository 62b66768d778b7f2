---------------------------- MODULE MCDockerPool ----------------------------
(* A small instance of DockerPool: two calls ask for one key and the third   *)
(* for a key of its own, on a pool with room for one.                        *)
EXTENDS DockerPool, TLC

CONSTANTS u1, u2, u3, k1, k2

ThreeUses == {u1, u2, u3}
TwoKeys == (u1 :> k1) @@ (u2 :> k1) @@ (u3 :> k2)
=============================================================================
