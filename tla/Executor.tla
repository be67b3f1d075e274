------------------------------ MODULE Executor ------------------------------
(***************************************************************************)
(* The executor (executor/executor.py) and its audit log (audit.py).       *)
(*                                                                         *)
(* POST /execute is a plain function: every call runs in a thread of the   *)
(* server's pool, and all of them share one Executor and one AuditLogger.  *)
(* A call passes the gates on its own request, builds a KillSwitch and     *)
(* reads it, runs the wrapper's command, and then asks the logger for a    *)
(* line.  The logger remembers the (investigation, action) pairs it wrote  *)
(* and skips the line of a pair it remembers.                              *)
(*                                                                         *)
(* Operators trip and release the switch, Redis and the disk may fail and  *)
(* the server may be killed; MaxFaults bounds those failures.  A line is   *)
(* written whole or not at all.                                            *)
(***************************************************************************)
EXTENDS Naturals, Sequences, FiniteSets

CONSTANTS
  Call,       \* calls of the executor
  Request,    \* what a call may carry (records, see RequestAssumption)
  NoKey,      \* the key of a request without investigation id
  Enabled,    \* config.enabled
  TwoFloor,   \* config.require_two_approvals_for_execute
  MaxFaults   \* bound on failures

ASSUME RequestAssumption ==
  \A r \in Request : /\ r.execute \in BOOLEAN     \* decision.tier is EXECUTE
                     /\ r.approved \in BOOLEAN /\ r.required \in Nat
                     /\ Len(r.approvers) \in Nat
                     /\ r.verb \in BOOLEAN        \* the verb gate accepts it
                     /\ r.dry \in BOOLEAN         \* effective_dry_run
ASSUME ConfigAssumption ==
  Enabled \in BOOLEAN /\ TwoFloor \in BOOLEAN /\ MaxFaults \in Nat
ASSUME CallAssumption == "none" \notin Call

VARIABLES
  redisUp, tripped, flag,  \* the switch: its Redis key and this host's flag
  pc,       \* where the thread of the call is
  req,      \* the request of the call
  backend,  \* the backend of the KillSwitch the call built
  outcome,  \* result.outcome, "none" before there is one
  audited,  \* result.audit_id: the call whose line it names, or "none"
  seen,     \* AuditLogger._seen: key -> the call whose line was written
  log,      \* the lines of the audit file
  ran,      \* history: calls whose command was started
  faults,   \* failures so far
  force,    \* history: a trip reached Redis and no release happened since
  mark,     \* history: the value of faults at that trip
  grace     \* history: calls that trip came too late for

switch == <<redisUp, tripped, flag>>
audit == <<seen, log>>
history == <<force, mark, grace>>
vars == <<switch, pc, req, backend, outcome, audited, audit, ran, faults, history>>

Outcome == {"refused", "failed", "executed"}
Key == {r.key : r \in Request}
Line == [call : Call, key : Key, outcome : Outcome, dry : BOOLEAN]

TypeOK ==
  /\ redisUp \in BOOLEAN /\ tripped \in BOOLEAN /\ flag \in BOOLEAN
  /\ pc \in [Call -> {"new", "connect", "probe", "run", "record", "write",
                      "note", "done", "killed"}]
  /\ DOMAIN req = Call
  /\ \A c \in Call : pc[c] # "new" => req[c] \in Request
  /\ backend \in [Call -> {"none", "redis", "file"}]
  /\ outcome \in [Call -> Outcome \union {"none"}]
  /\ audited \in [Call -> Call \union {"none"}]
  /\ DOMAIN seen \subseteq Key /\ \A k \in DOMAIN seen : seen[k] \in Call
  /\ log \in Seq(Line)
  /\ ran \subseteq Call
  /\ faults \in 0 .. MaxFaults
  /\ force \in BOOLEAN /\ mark \in 0 .. MaxFaults /\ grace \subseteq Call

Init ==
  /\ redisUp = TRUE /\ tripped = FALSE /\ flag = FALSE
  /\ pc = [c \in Call |-> "new"]
  /\ req = [c \in Call |-> "none"]
  /\ backend = [c \in Call |-> "none"]
  /\ outcome = [c \in Call |-> "none"]
  /\ audited = [c \in Call |-> "none"]
  /\ seen = <<>> /\ log = <<>>
  /\ ran = {} /\ faults = 0
  /\ force = FALSE /\ mark = 0 /\ grace = {}

Goto(c, l) == pc' = [pc EXCEPT ![c] = l]
Decide(c, o) == outcome' = [outcome EXCEPT ![c] = o]
Fail == faults < MaxFaults /\ faults' = faults + 1

-----------------------------------------------------------------------------
(* Faulty variants of the actions below, which the properties must reject: *)
(* a probe that looks at the flag file only, a timeout reported as a       *)
(* refusal, a key noted before its line is written, a key noted without    *)
(* its line.                                                               *)
FaultyInactive(c) == backend[c] # "none" /\ ~flag /\ UNCHANGED faults

FaultyRun(c) ==
  /\ pc[c] = "run" /\ Goto(c, "record")
  /\ Decide(c, "refused") /\ ran' = ran \union {c}
  /\ UNCHANGED <<switch, req, backend, audited, audit, faults, history>>

EagerRecord(c) ==
  /\ pc[c] = "record"
  /\ IF req[c].key \in DOMAIN seen
     THEN /\ Goto(c, "done") /\ audited' = [audited EXCEPT ![c] = seen[req[c].key]]
          /\ UNCHANGED seen
     ELSE /\ Goto(c, "write") /\ UNCHANGED audited
          /\ seen' = [k \in DOMAIN seen \union {req[c].key} |->
                        IF k = req[c].key THEN c ELSE seen[k]]
  /\ UNCHANGED <<switch, req, backend, outcome, log, ran, faults, history>>

FaultyNote(c) ==
  /\ pc[c] = "note" /\ Goto(c, "done")
  /\ seen' = [k \in DOMAIN seen \union {req[c].key} |-> TRUE]
  /\ UNCHANGED <<switch, req, backend, outcome, audited, log, ran, faults, history>>

(* Gates 1 to 4.  The approvers are counted, not told apart.               *)
Cleared(r) ==
  /\ Enabled
  /\ r.execute
  /\ r.approved
  /\ Len(r.approvers) >= r.required
  /\ TwoFloor => Len(r.approvers) >= 2
  /\ r.verb

Gates(c) ==
  /\ pc[c] = "new"
  /\ \E r \in Request :
       /\ req' = [req EXCEPT ![c] = r]
       /\ IF Cleared(r)
          THEN Goto(c, "connect") /\ UNCHANGED outcome
          ELSE Goto(c, "record") /\ Decide(c, "refused")
  /\ UNCHANGED <<switch, backend, audited, audit, ran, faults, history>>

(* Gate 5: _default_killswitch_check builds a KillSwitch, which pings Redis *)
(* and falls back to this host's flag file,                                *)
Connect(c) ==
  /\ pc[c] = "connect"
  /\ \/ redisUp /\ backend' = [backend EXCEPT ![c] = "redis"] /\ UNCHANGED faults
     \/ ~redisUp /\ backend' = [backend EXCEPT ![c] = "file"] /\ UNCHANGED faults
     \/ redisUp /\ backend' = [backend EXCEPT ![c] = "file"] /\ Fail
  /\ Goto(c, "probe")
  /\ UNCHANGED <<switch, req, outcome, audited, audit, ran, history>>

(* and reads its status: an error of Redis reads as inactive inside        *)
(* status(), an error of the file system is raised and reads as active.    *)
Active(c) ==
  \/ backend[c] = "redis" /\ redisUp /\ tripped /\ UNCHANGED faults
  \/ backend[c] = "file" /\ flag /\ UNCHANGED faults
  \/ backend[c] = "file" /\ Fail

Inactive(c) ==
  \/ backend[c] = "redis" /\ redisUp /\ ~tripped /\ UNCHANGED faults
  \/ backend[c] = "redis" /\ ~redisUp /\ UNCHANGED faults
  \/ backend[c] = "redis" /\ redisUp /\ Fail
  \/ backend[c] = "file" /\ ~flag /\ UNCHANGED faults

Probe(c) ==
  /\ pc[c] = "probe"
  /\ \/ Active(c) /\ Goto(c, "record") /\ Decide(c, "refused")
     \/ Inactive(c) /\ Goto(c, "run") /\ UNCHANGED outcome
  /\ UNCHANGED <<switch, req, backend, audited, audit, ran, history>>

(* wrapper.execute: it refuses arguments it cannot build; a dry run only   *)
(* plans; a command may be missing, fail, or outlive its timeout.          *)
Run(c) ==
  /\ pc[c] = "run"
  /\ \/ Decide(c, "refused") /\ UNCHANGED ran
     \/ Decide(c, "failed") /\ UNCHANGED ran
     \/ req[c].dry /\ Decide(c, "executed") /\ UNCHANGED ran
     \/ /\ ~req[c].dry
        /\ \E o \in {"executed", "failed"} : Decide(c, o)
        /\ ran' = ran \union {c}
  /\ Goto(c, "record")
  /\ UNCHANGED <<switch, req, backend, audited, audit, faults, history>>

-----------------------------------------------------------------------------
(* AuditLogger.record: look the key up, write the line, note the key.      *)

Record(c) ==
  /\ pc[c] = "record"
  /\ IF req[c].key \in DOMAIN seen
     THEN Goto(c, "done") /\ audited' = [audited EXCEPT ![c] = seen[req[c].key]]
     ELSE Goto(c, "write") /\ UNCHANGED audited
  /\ UNCHANGED <<switch, req, backend, outcome, audit, ran, faults, history>>

Write(c) ==
  /\ pc[c] = "write"
  /\ log' = Append(log, [call |-> c, key |-> req[c].key,
                         outcome |-> outcome[c], dry |-> req[c].dry])
  /\ Goto(c, "note")
  /\ UNCHANGED <<switch, req, backend, outcome, audited, seen, ran, faults, history>>

(* The write raises: the caller is told "refused".                         *)
WriteRaises(c) ==
  /\ pc[c] = "write"
  /\ Fail
  /\ Decide(c, "refused")
  /\ Goto(c, "done")
  /\ UNCHANGED <<switch, req, backend, audited, audit, ran, history>>

Note(c) ==
  /\ pc[c] = "note"
  /\ seen' = IF req[c].key = NoKey THEN seen
             ELSE [k \in DOMAIN seen \union {req[c].key} |->
                     IF k = req[c].key THEN c ELSE seen[k]]
  /\ audited' = [audited EXCEPT ![c] = c]
  /\ Goto(c, "done")
  /\ UNCHANGED <<switch, req, backend, outcome, log, ran, faults, history>>

(* The server is killed and started again: the threads and _seen are gone. *)
Restart ==
  /\ Fail
  /\ pc' = [c \in Call |-> IF pc[c] \in {"new", "done"} THEN pc[c] ELSE "killed"]
  /\ seen' = <<>>
  /\ UNCHANGED <<switch, req, backend, outcome, audited, log, ran, history>>

-----------------------------------------------------------------------------
(* The switch, as KillSwitch.tla details it, seen from one server.         *)

Trip ==
  /\ ~tripped \/ ~flag
  /\ IF redisUp
     THEN /\ tripped' = TRUE
          /\ force' = TRUE /\ mark' = faults
          /\ grace' = {c \in Call : \/ pc[c] = "run"
                                    \/ pc[c] = "probe" /\ backend[c] = "file"}
          /\ UNCHANGED flag
     ELSE flag' = TRUE /\ UNCHANGED <<tripped, history>>
  /\ UNCHANGED <<redisUp, pc, req, backend, outcome, audited, audit, ran, faults>>

Release ==
  /\ tripped' = (tripped /\ ~redisUp)
  /\ flag' = FALSE
  /\ force' = FALSE
  /\ UNCHANGED <<redisUp, pc, req, backend, outcome, audited, audit, ran, faults,
                 mark, grace>>

RedisDown ==
  /\ redisUp /\ redisUp' = FALSE /\ Fail
  /\ UNCHANGED <<tripped, flag, pc, req, backend, outcome, audited, audit, ran, history>>

RedisBack ==
  /\ ~redisUp /\ redisUp' = TRUE
  /\ UNCHANGED <<tripped, flag, pc, req, backend, outcome, audited, audit, ran,
                 faults, history>>

Execute(c) ==
  \/ Gates(c) \/ Connect(c) \/ Probe(c) \/ Run(c)
  \/ Record(c) \/ Write(c) \/ WriteRaises(c) \/ Note(c)

Next ==
  \/ \E c \in Call : Execute(c)
  \/ Restart \/ Trip \/ Release \/ RedisDown \/ RedisBack

Spec == Init /\ [][Next]_vars
-----------------------------------------------------------------------------
(* Safety.                                                                 *)

Lines == {log[i] : i \in DOMAIN log}
Finished(c) == pc[c] = "done"

(* The audit file tells what happened: a line that says "refused" belongs  *)
(* to a command that never started, and one that says "executed" without   *)
(* dry_run to one that did.                                                *)
LinesTruthful ==
  \A l \in Lines : /\ l.outcome = "refused" => l.call \notin ran
                   /\ l.outcome = "executed" /\ ~l.dry => l.call \in ran

(* An answer names a line that is in the file and is about the same        *)
(* investigation and action, whoever wrote it and whatever was restarted   *)
(* since; an answer that names none was told "refused" by a write that     *)
(* raised.                                                                 *)
AnswerTraceable ==
  \A c \in Call : Finished(c) =>
    IF audited[c] \in Call
    THEN \E l \in Lines : l.call = audited[c] /\ l.key = req[c].key
    ELSE outcome[c] = "refused"

(* Once a trip is stored in Redis, and until the next release or failure,  *)
(* only calls that had read the switch before it, or had already fallen    *)
(* back to the flag file, still reach their command (executor.py:239-263). *)
TripStopsCommands ==
  (force /\ faults = mark) => \A c \in Call : pc[c] = "run" => c \in grace

-----------------------------------------------------------------------------
(* What the documentation says and the code does not do.                   *)

(* executor/README.md:57, "If an audit write fails, the execution is       *)
(* refused. We never run an unaudited command."                            *)
RefusedNeverRan == \A c \in Call : Finished(c) /\ outcome[c] = "refused" => c \notin ran

(* audit.py:3, "Every executor invocation produces ONE line": without any  *)
(* failure a command that ran has its own line.                            *)
EveryRunHasALine ==
  faults = 0 => \A c \in ran : Finished(c) => \E l \in Lines : l.call = c

(* audit.py:116, "Idempotent per (investigation_id, action)": one process  *)
(* writes one line per key.                                                *)
OneLinePerKey ==
  faults = 0 =>
    \A i, j \in DOMAIN log : log[i].key = log[j].key /\ log[i].key # NoKey => i = j

(* executor.py:516, "if we cannot confirm the kill switch is clear, we     *)
(* refuse execution": no probe clears a call while the switch is tripped.   *)
FailsClosed == [][\A c \in Call : Probe(c) /\ pc'[c] = "run" => ~tripped]_vars

(* executor/README.md:11, "at least required_approvals distinct approvers  *)
(* (default floor: 2 for EXECUTE)".                                        *)
DistinctApprovers ==
  TwoFloor => \A c \in ran :
    Cardinality({req[c].approvers[i] : i \in DOMAIN req[c].approvers}) >= 2
=============================================================================
