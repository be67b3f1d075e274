----------------------------- MODULE KillSwitch -----------------------------
(***************************************************************************)
(* The emergency stop of the AI engine (killswitch/switch.py, gate.py).    *)
(*                                                                         *)
(* An instance of class KillSwitch lives in a process: the API server      *)
(* keeps one for its whole life, every call of the aegis CLI builds one.   *)
(* It picks its backend once, when it is built: the Redis key, seen by the *)
(* whole fleet, or the flag file of its node.  Operators trip and release  *)
(* the switch through any instance; a gated tool call reads the switch of  *)
(* its own process and then runs its body.                                 *)
(*                                                                         *)
(* Redis may become unreachable, an operation may time out (and then may   *)
(* or may not have been applied), a file operation may fail, and processes *)
(* start and stop at any time.  MaxFaults bounds the number of failures.   *)
(***************************************************************************)
EXTENDS Naturals

CONSTANTS Proc,       \* processes that may hold a KillSwitch instance
          Node,       \* hosts, each with its own flag file
          NodeOf,     \* the host a process runs on
          Requested,  \* config.backend of each process
          MaxFaults,  \* bound on failures of Redis and of the file system
          NoNode      \* stands for "no host"

ASSUME NodeAssumption == /\ NodeOf \in [Proc -> Node]
                         /\ NoNode \notin Node
ASSUME RequestedAssumption == Requested \in [Proc -> {"redis", "file"}]
ASSUME FaultsAssumption == MaxFaults \in Nat

VARIABLES
  redisUp,    \* Redis answers
  redisKey,   \* config.state_key exists in Redis
  flagFile,   \* config.file_backend_path exists on the host
  backend,    \* self.backend of the process's instance, "none" without one
  cmd,        \* the operator command in progress in the process
  call,       \* the gated tool call of the process
  faults,     \* failures so far
  ack,        \* history: what the operator was last told, and through whom
  force,      \* history: a trip reached Redis and no release began since
  mark,       \* history: the value of faults when that trip was stored
  grace,      \* history: calls that had passed their check at that moment
  clear,      \* history: releases in progress that met no failure and no trip
  cleared     \* history: host of the last release, if it met none

stores   == <<redisUp, redisKey, flagFile, faults>>
history  == <<ack, force, mark, grace, clear, cleared>>
vars     == <<stores, backend, cmd, call, history>>

NoAck == [op |-> "none"]
Acks  == {NoAck} \union [op : {"trip", "release"}, by : Proc]

TypeOK ==
  /\ redisUp \in BOOLEAN /\ redisKey \in BOOLEAN
  /\ flagFile \in [Node -> BOOLEAN]
  /\ backend \in [Proc -> {"none", "redis", "file"}]
  /\ cmd \in [Proc -> {"idle", "fallback", "unlink"}]
  /\ call \in [Proc -> {"idle", "passed"}]
  /\ faults \in Nat /\ mark \in Nat
  /\ ack \in Acks
  /\ force \in BOOLEAN
  /\ grace \in SUBSET Proc /\ clear \in SUBSET Proc
  /\ cleared \in Node \union {NoNode}

Init ==
  /\ redisUp = TRUE /\ redisKey = FALSE
  /\ flagFile = [n \in Node |-> FALSE]
  /\ backend = [p \in Proc |-> "none"]
  /\ cmd = [p \in Proc |-> "idle"]
  /\ call = [p \in Proc |-> "idle"]
  /\ faults = 0 /\ mark = 0
  /\ ack = NoAck /\ force = FALSE
  /\ grace = {} /\ clear = {} /\ cleared = NoNode

-----------------------------------------------------------------------------
(* One operation on Redis is answered in time, lost, or applied although   *)
(* the client saw a timeout (socket_timeout is 50 ms).                     *)

Redis(outcome) ==
  \/ outcome = "ok" /\ redisUp /\ UNCHANGED faults
  \/ outcome = "lost" /\ ~redisUp /\ UNCHANGED faults
  \/ outcome \in {"lost", "late"} /\ redisUp /\ faults < MaxFaults /\ faults' = faults + 1

(* OSError is caught by every caller of the flag file.                     *)
File(outcome) ==
  \/ outcome = "ok" /\ UNCHANGED faults
  \/ outcome = "lost" /\ faults < MaxFaults /\ faults' = faults + 1

Running(p) == backend[p] # "none"

(* What a read of the switch returns when the backend answers.             *)
Observes(p) == IF backend[p] = "redis" THEN redisKey ELSE flagFile[NodeOf[p]]

(* Faulty variants of definitions below, which the properties must reject: *)
(* a call that is not over after its body, a gate that does not read, a    *)
(* failed write that truncates the flag, a release that trusts Redis.      *)
FaultyCallBody(p) ==
  /\ call[p] = "passed"
  /\ call' = [call EXCEPT ![p] = "over"]
  /\ UNCHANGED <<stores, backend, cmd, history>>

FaultyReadsInactive(p) == Running(p) /\ UNCHANGED faults

FaultyTripFile(p) ==
  /\ backend[p] = "file" /\ cmd[p] = "idle"
  /\ \E outcome \in {"ok", "lost"} :
       File(outcome) /\ flagFile' = [flagFile EXCEPT ![NodeOf[p]] = outcome = "ok"]
  /\ UNCHANGED <<redisUp, redisKey, backend, cmd, call, history>>

FaultyReleaseFile(p) ==
  /\ cmd[p] = "unlink" /\ backend[p] = "redis"
  /\ cmd' = [cmd EXCEPT ![p] = "idle"]
  /\ cleared' = IF p \in clear THEN NodeOf[p] ELSE cleared
  /\ UNCHANGED <<stores, backend, call, ack, force, mark, grace, clear>>

(* _initialize_backend: the only place where the backend is chosen.        *)
Start(p) ==
  /\ ~Running(p)
  /\ \/ /\ Requested[p] = "file"
        /\ backend' = [backend EXCEPT ![p] = "file"]
        /\ UNCHANGED faults
     \/ /\ Requested[p] = "redis"
        /\ \E outcome \in {"ok", "lost", "late"} :
             /\ Redis(outcome)
             /\ backend' = [backend EXCEPT ![p] =
                              IF outcome = "ok" THEN "redis" ELSE "file"]
  /\ UNCHANGED <<redisUp, redisKey, flagFile, cmd, call, history>>

(* The process ends, or crashes between two steps of a command.            *)
Exit(p) ==
  /\ Running(p)
  /\ backend' = [backend EXCEPT ![p] = "none"]
  /\ cmd' = [cmd EXCEPT ![p] = "idle"]
  /\ call' = [call EXCEPT ![p] = "idle"]
  /\ grace' = grace \ {p}
  /\ clear' = clear \ {p}
  /\ ack' = IF ack # NoAck /\ ack.by = p THEN NoAck ELSE ack
  /\ UNCHANGED <<stores, force, mark, cleared>>

-----------------------------------------------------------------------------
(* trip: SET in Redis; when that raises, the flag file is written instead. *)

TripRedis(p) ==
  /\ backend[p] = "redis" /\ cmd[p] = "idle"
  /\ \E outcome \in {"ok", "lost", "late"} :
       /\ Redis(outcome)
       /\ redisKey' = (redisKey \/ outcome # "lost")
       /\ IF outcome = "ok"
          THEN /\ ack' = [op |-> "trip", by |-> p]
               /\ force' = TRUE /\ mark' = faults
               /\ grace' = {q \in Proc : call[q] = "passed"}
               /\ UNCHANGED cmd
          ELSE /\ cmd' = [cmd EXCEPT ![p] = "fallback"]
               /\ ack' = NoAck
               /\ UNCHANGED <<force, mark, grace>>
  /\ clear' = {} /\ cleared' = NoNode
  /\ UNCHANGED <<redisUp, flagFile, backend, call>>

(* _write_file_state, on the fallback path and on a file backend.          *)
TripFile(p) ==
  /\ \/ backend[p] = "redis" /\ cmd[p] = "fallback"
     \/ backend[p] = "file" /\ cmd[p] = "idle"
  /\ \E outcome \in {"ok", "lost"} :
       /\ File(outcome)
       /\ flagFile' = [flagFile EXCEPT ![NodeOf[p]] = @ \/ outcome = "ok"]
  /\ cmd' = [cmd EXCEPT ![p] = "idle"]
  /\ ack' = [op |-> "trip", by |-> p]
  /\ clear' = {} /\ cleared' = NoNode
  /\ UNCHANGED <<redisUp, redisKey, backend, call, force, mark, grace>>

(* release, first part: DEL on a Redis backend, its failure only logged.   *)
ReleaseRedis(p) ==
  /\ Running(p) /\ cmd[p] = "idle"
  /\ \/ /\ backend[p] = "redis"
        /\ \E outcome \in {"ok", "lost", "late"} :
             /\ Redis(outcome)
             /\ redisKey' = (redisKey /\ outcome = "lost")
             /\ clear' = IF outcome = "ok" THEN clear \union {p} ELSE clear \ {p}
     \/ /\ backend[p] = "file"
        /\ UNCHANGED <<redisKey, faults, clear>>
  /\ cmd' = [cmd EXCEPT ![p] = "unlink"]
  /\ ack' = NoAck /\ force' = FALSE
  /\ UNCHANGED <<redisUp, flagFile, backend, call, mark, grace, cleared>>

(* release, second part: the flag file is removed whatever the backend.    *)
ReleaseFile(p) ==
  /\ cmd[p] = "unlink"
  /\ \E outcome \in {"ok", "lost"} :
       /\ File(outcome)
       /\ flagFile' = [flagFile EXCEPT ![NodeOf[p]] = @ /\ outcome = "lost"]
       /\ cleared' = IF outcome = "ok" /\ p \in clear THEN NodeOf[p] ELSE cleared
  /\ cmd' = [cmd EXCEPT ![p] = "idle"]
  /\ ack' = [op |-> "release", by |-> p]
  /\ clear' = clear \ {p}
  /\ UNCHANGED <<redisUp, redisKey, backend, call, force, mark, grace>>

-----------------------------------------------------------------------------
(* The gate: _check reads the switch, then the wrapped function runs.      *)

(* is_active: a read that raises counts as "not tripped".                  *)
ReadsInactive(p) ==
  \/ backend[p] = "file" /\ ~Observes(p) /\ UNCHANGED faults
  \/ backend[p] = "redis" /\ \E outcome \in {"ok", "lost", "late"} :
                               Redis(outcome) /\ (outcome = "ok" => ~Observes(p))

CallCheck(p) ==
  /\ Running(p) /\ call[p] = "idle"
  /\ ReadsInactive(p)
  /\ call' = [call EXCEPT ![p] = "passed"]
  /\ UNCHANGED <<redisUp, redisKey, flagFile, backend, cmd, history>>

CallBody(p) ==
  /\ call[p] = "passed"
  /\ call' = [call EXCEPT ![p] = "idle"]
  /\ grace' = grace \ {p}
  /\ UNCHANGED <<stores, backend, cmd, ack, force, mark, clear, cleared>>

-----------------------------------------------------------------------------
RedisDown ==
  /\ redisUp /\ faults < MaxFaults
  /\ redisUp' = FALSE /\ faults' = faults + 1
  /\ UNCHANGED <<redisKey, flagFile, backend, cmd, call, history>>

RedisBack ==
  /\ ~redisUp /\ redisUp' = TRUE
  /\ UNCHANGED <<redisKey, flagFile, faults, backend, cmd, call, history>>

ProcNext(p) ==
  \/ Start(p) \/ Exit(p)
  \/ TripRedis(p) \/ TripFile(p)
  \/ ReleaseRedis(p) \/ ReleaseFile(p)
  \/ CallCheck(p) \/ CallBody(p)

Next == (\E p \in Proc : ProcNext(p)) \/ RedisDown \/ RedisBack

Spec == Init /\ [][Next]_vars
-----------------------------------------------------------------------------
(* Safety.                                                                 *)

(* Once a trip is stored in Redis, and until the next release or failure,  *)
(* the only bodies a Redis-backed process may still run belong to calls    *)
(* that had passed their check before the trip: check and body are two     *)
(* steps (gate.py:90-99), so those overrun, and no call that is checked    *)
(* later does, on any host.                                                *)
TripStopsCalls ==
  (force /\ faults = mark) =>
    \A p \in Proc : (backend[p] = "redis" /\ call[p] = "passed") => p \in grace

(* A release through Redis that met no failure and no concurrent trip      *)
(* leaves no instance halted that reads Redis or the flag file of that     *)
(* host, whenever it was built: a flag left by an earlier fallback does    *)
(* not resurrect the switch (switch.py:245-251).                           *)
ReleaseClears ==
  cleared # NoNode =>
    \A p \in Proc : (Running(p) /\ (backend[p] = "redis" \/ NodeOf[p] = cleared))
                       => ~Observes(p)

(* A halted instance stays halted until a release takes a step, whatever   *)
(* fails, restarts or trips again in the meantime.                         *)
Releasing == \E q \in Proc : cmd[q] # cmd'[q] /\ "unlink" \in {cmd[q], cmd'[q]}
StaysHalted ==
  [][\A p \in Proc : (Running(p) /\ Observes(p) /\ Running(p)')
                        => Observes(p)' \/ Releasing]_vars

-----------------------------------------------------------------------------
(* What the documentation says and the code does not do.                   *)

(* switch.py:190, "describing the post-trip state": the switch that        *)
(* reported active=True is tripped when read.                              *)
TripAcknowledged == ack.op = "trip" => Observes(ack.by)

(* switch.py:235, "describing the post-release state": the switch that     *)
(* reported active=False is not tripped when read.                         *)
ReleaseAcknowledged == ack.op = "release" => ~Observes(ack.by)

(* cli/panic.py:99, "immediately block every MCP tool call across the      *)
(* fleet": with Redis up and nothing failing since the trip was stored,    *)
(* every instance configured for Redis is halted.                          *)
FleetHalted ==
  (force /\ redisUp /\ faults = mark) =>
    \A p \in Proc : (Running(p) /\ Requested[p] = "redis") => Observes(p)
=============================================================================
