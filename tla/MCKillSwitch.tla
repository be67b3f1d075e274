---------------------------- MODULE MCKillSwitch ----------------------------
(* Small instances of KillSwitch: an API server and an operator's CLI on   *)
(* one host, a worker on another host.                                     *)
EXTENDS KillSwitch

MCNodeOf == [p \in Proc |-> IF p = "worker" THEN "host2" ELSE "host1"]

(* aegis --backend file forces the flag file; the others ask for Redis.    *)
MCMixed == [p \in Proc |-> IF p = "cli" THEN "file" ELSE "redis"]

(* Every instance asks for Redis: what FleetHalted is about.               *)
MCAllRedis == [p \in Proc |-> "redis"]
=============================================================================
