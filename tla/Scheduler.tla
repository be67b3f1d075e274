------------------------------ MODULE Scheduler -----------------------------
(***************************************************************************)
(* The periodic jobs of the AI engine (scheduler/scheduler.py, runner.py,  *)
(* history.py, jobs.py, api.py).                                           *)
(*                                                                         *)
(* A Scheduler keeps a table of jobs and, once started, registers the      *)
(* enabled ones with APScheduler, which calls the wrapped job on every     *)
(* tick; operators pause, resume, replace, remove and run jobs meanwhile.  *)
(* Everything runs on one event loop: a step is what happens between two   *)
(* awaits, and the only await of a run is the job's own body.  Stopping    *)
(* cancels the ticks in progress (APScheduler's AsyncIOExecutor does not   *)
(* wait for them), a run started by hand belongs to its HTTP request.      *)
(***************************************************************************)
EXTENDS Naturals, Sequences

CONSTANTS Job,       \* ids of the jobs
          Override,  \* jobs that SchedulerConfig.jobs leaves enabled
          MaxRuns,   \* bound on the runs started
          MaxAdds,   \* bound on the Job objects given to one id
          Cap        \* max_history

ASSUME JobAssumption == Override \subseteq Job
ASSUME BoundAssumption == MaxRuns \in Nat /\ MaxAdds \in Nat /\ Cap \in Nat \ {0}

VARIABLES
  table,    \* _jobs: the state of the Job object of each id
  version,  \* which Job object that is, counted from 1
  started,  \* _started, _impl is not None
  reg,      \* APScheduler's job store: the Job object wrapped for each id
  paused,   \* registrations without a next run time
  halted,   \* the kill switch handed to the runner is active
  n,        \* runs started
  run,      \* the runs, in the order of started_at
  rows      \* JobHistory._records: the runs of each id, oldest first

schedulerVars == <<table, version, started, reg, paused, halted, n, run, rows>>

Runs == [job : Job, tick : BOOLEAN, ver : Nat, blind : BOOLEAN,
         at : {"body", "cancelled", "gone", "success", "failed", "skipped"}]

SchedulerTypeOK ==
  /\ table \in [Job -> {"absent", "disabled", "enabled"}]
  /\ version \in [Job -> Nat] /\ reg \in [Job -> Nat]
  /\ started \in BOOLEAN /\ halted \in BOOLEAN
  /\ paused \in SUBSET Job
  /\ n \in Nat /\ run \in [1..n -> Runs]
  /\ rows \in [Job -> Seq(1..n)]

(* default_jobs: a job whose dependency is not wired is listed disabled.   *)
Default(deps) ==
  [j \in Job |-> IF j \in deps \cap Override THEN "enabled" ELSE "disabled"]

SchedulerInit ==
  /\ \E deps \in SUBSET Job : table = Default(deps)
  /\ version = [j \in Job |-> 1] /\ reg = [j \in Job |-> 0]
  /\ started = FALSE /\ paused = {} /\ halted = FALSE
  /\ n = 0 /\ run = <<>> /\ rows = [j \in Job |-> <<>>]

-----------------------------------------------------------------------------
(* Faulty variants of the actions below, which the properties must reject. *)
Live == {r \in 1..n : run[r].at \in {"body", "cancelled"}}
Enters(j, tick, v, blind) ==
  Append(run, [job |-> j, tick |-> tick, ver |-> v, blind |-> blind, at |-> "body"])

CarelessExecute(j, tick, v) ==
  /\ n < MaxRuns /\ n' = n + 1
  /\ run' = Enters(j, tick, v, FALSE) /\ UNCHANGED rows

CrowdedTick(j) ==
  /\ started /\ reg[j] # 0 /\ j \notin paused
  /\ n < MaxRuns /\ n' = n + 1 /\ ~halted
  /\ run' = Enters(j, TRUE, reg[j], FALSE)
  /\ UNCHANGED <<table, version, started, reg, paused, halted, rows>>

LazyRemove(j) ==
  /\ table' = [table EXCEPT ![j] = "absent"]
  /\ UNCHANGED <<version, started, reg, paused, halted, n, run, rows>>

StickyStop ==
  /\ started /\ started' = FALSE
  /\ reg' = [j \in Job |-> 0] /\ paused' = {}
  /\ UNCHANGED <<table, version, halted, n, run, rows>>

FullRecord(j, r) == rows' = [rows EXCEPT ![j] =
  IF Len(@) < Cap THEN Append(@, r) ELSE @]

PartialStart ==
  /\ ~started /\ started' = TRUE
  /\ reg' = [j \in {i \in Job : table[i] = "enabled"} |-> version[j]]
  /\ UNCHANGED <<table, version, paused, halted, n, run, rows>>

RudeReturn(r) ==
  /\ run[r].at = "body"
  /\ \E out \in {"success", "failed"} : run' = [run EXCEPT ![r].at = out]
  /\ IF run'[r].at = "failed" /\ run[r].tick
       THEN UNCHANGED rows ELSE rows' = [rows EXCEPT ![run[r].job] = Append(@, r)]
  /\ UNCHANGED <<table, version, started, reg, paused, halted, n>>

-----------------------------------------------------------------------------
(* JobHistory.record: the ring of the job drops its oldest row when full.  *)
RecordRun(j, r) == rows' = [rows EXCEPT ![j] =
  LET s == Append(@, r) IN IF Len(s) > Cap THEN Tail(s) ELSE s]

(* JobRunner._execute up to its await: the kill switch is read first, and  *)
(* a read that raises lets the run proceed.                                *)
Execute(j, tick, v) ==
  /\ n < MaxRuns /\ n' = n + 1
  /\ \/ /\ halted
        /\ run' = Append(run, [job |-> j, tick |-> tick, ver |-> v,
                               blind |-> FALSE, at |-> "skipped"])
        /\ RecordRun(j, n')
     \/ /\ \E raises \in BOOLEAN :
             (~halted \/ raises) /\ run' = Enters(j, tick, v, raises)
        /\ UNCHANGED rows

(* The body returns or raises: either way the runner writes a row.         *)
Return(r) ==
  /\ run[r].at = "body"
  /\ \E out \in {"success", "failed"} : run' = [run EXCEPT ![r].at = out]
  /\ RecordRun(run[r].job, r)
  /\ UNCHANGED <<table, version, started, reg, paused, halted, n>>

(* CancelledError reaches the body; "except Exception" does not catch it.  *)
Cancelled(r) ==
  /\ run[r].at = "cancelled"
  /\ run' = [run EXCEPT ![r].at = "gone"]
  /\ UNCHANGED <<table, version, started, reg, paused, halted, n, rows>>

(* The request of a run started by hand is cancelled (its client left).    *)
Disconnect(r) ==
  /\ run[r].at = "body" /\ ~run[r].tick
  /\ run' = [run EXCEPT ![r].at = "cancelled"]
  /\ UNCHANGED <<table, version, started, reg, paused, halted, n, rows>>

-----------------------------------------------------------------------------
(* What list_jobs shows: the next run and the last run of a job.           *)
NextRun(j) == reg[j] # 0 /\ j \notin paused
LastRun(j) == rows[j][Len(rows[j])]

(* APScheduler fires a registration that is not paused, unless a run of    *)
(* this id that it started itself is still going on (max_instances=1).     *)
Tick(j) ==
  /\ started /\ NextRun(j)
  /\ \A r \in 1..n : ~(run[r].job = j /\ run[r].tick /\ run[r].at = "body")
  /\ Execute(j, TRUE, reg[j])
  /\ UNCHANGED <<table, version, started, reg, paused, halted>>

(* run_now, POST /jobs/{id}/run: any job of the table, enabled or not.     *)
RunNow(j) ==
  /\ table[j] # "absent"
  /\ Execute(j, FALSE, version[j])
  /\ UNCHANGED <<table, version, started, reg, paused, halted>>

Start ==
  /\ ~started /\ started' = TRUE
  /\ reg' = [j \in Job |-> IF table[j] = "enabled" THEN version[j] ELSE 0]
  /\ UNCHANGED <<table, version, paused, halted, n, run, rows>>

Stop ==
  /\ started /\ started' = FALSE
  /\ reg' = [j \in Job |-> 0] /\ paused' = {}
  /\ run' = [r \in 1..n |-> IF run[r].at = "body" /\ run[r].tick
                            THEN [run[r] EXCEPT !.at = "cancelled"] ELSE run[r]]
  /\ UNCHANGED <<table, version, halted, n, rows>>

(* add_job: the configuration can only disable; a started scheduler        *)
(* registers an enabled job at once, replacing what it had under this id.  *)
AddJob(j, wants) ==
  LET on == wants /\ j \in Override IN
  /\ version[j] < MaxAdds
  /\ table' = [table EXCEPT ![j] = IF on THEN "enabled" ELSE "disabled"]
  /\ version' = [version EXCEPT ![j] = @ + 1]
  /\ reg' = IF started /\ on THEN [reg EXCEPT ![j] = version'[j]] ELSE reg
  /\ paused' = IF started /\ on THEN paused \ {j} ELSE paused
  /\ UNCHANGED <<started, halted, n, run, rows>>

RemoveJob(j) ==
  /\ table' = [table EXCEPT ![j] = "absent"]
  /\ reg' = [reg EXCEPT ![j] = 0] /\ paused' = paused \ {j}
  /\ UNCHANGED <<version, started, halted, n, run, rows>>

(* POST pause and resume: 404 for a job not in the table, and False when   *)
(* APScheduler is not running or does not know the id.                     *)
Pause(j) ==
  /\ table[j] # "absent" /\ reg[j] # 0
  /\ paused' = paused \union {j}
  /\ UNCHANGED <<table, version, started, reg, halted, n, run, rows>>

Resume(j) ==
  /\ table[j] # "absent" /\ reg[j] # 0
  /\ paused' = paused \ {j}
  /\ UNCHANGED <<table, version, started, reg, halted, n, run, rows>>

SwitchChanges ==
  /\ halted' = ~halted
  /\ UNCHANGED <<table, version, started, reg, paused, n, run, rows>>

SchedulerNext ==
  \/ Start \/ Stop \/ SwitchChanges
  \/ \E j \in Job : \/ Tick(j) \/ RunNow(j) \/ RemoveJob(j) \/ Pause(j) \/ Resume(j)
                    \/ \E wants \in BOOLEAN : AddJob(j, wants)
  \/ \E r \in 1..n : Return(r) \/ Cancelled(r) \/ Disconnect(r)

SchedulerSpec == SchedulerInit /\ [][SchedulerNext]_schedulerVars

-----------------------------------------------------------------------------
(* Two ticks of one job never run at the same time, across pauses,         *)
(* replacements, removals and re-additions of the job; only a run that     *)
(* Stop cancelled may linger (scheduler.py:239, max_instances=1).          *)
OneTickPerJob ==
  \A r, q \in Live : r # q /\ run[r].job = run[q].job /\ run[r].tick /\ run[q].tick
                       => "cancelled" \in {run[r].at, run[q].at}

(* What ticks is in the table, and it is the current Job object of its id  *)
(* unless that one is disabled: removing and replacing reach APScheduler.  *)
TicksTheTable ==
  \A j \in Job : reg[j] # 0 =>
    /\ started /\ table[j] # "absent"
    /\ table[j] = "enabled" => reg[j] = version[j]

(* A body runs only if the switch was clear or unreadable when its run     *)
(* began, be it a tick or a run by hand (runner.py:98).                    *)
NoBodyUnderSwitch ==
  [][\A r \in 1..n' : r > n /\ halted /\ run'[r].at = "body" => run'[r].blind]_schedulerVars

(* No tick of a stopped scheduler goes on uncancelled, so that a restart   *)
(* cannot overlap it for longer than the body takes to give up.            *)
StoppedIsQuiet ==
  ~started => \A r \in Live : run[r].tick => run[r].at = "cancelled"

(* Every run that ended, other than by cancellation, has a row, or newer   *)
(* rows of its job pushed it out of a full ring (history.py:68).           *)
EndedRuns(j) == {r \in 1..n : run[r].job = j /\ run[r].at \in {"success", "failed", "skipped"}}
InRing(j) == {rows[j][i] : i \in DOMAIN rows[j]}
EveryRunRecorded ==
  \A j \in Job :
    /\ InRing(j) \subseteq EndedRuns(j)
    /\ \A i, k \in DOMAIN rows[j] : i # k => rows[j][i] # rows[j][k]
    /\ InRing(j) # EndedRuns(j) => Len(rows[j]) = Cap

(* The row that last_run shows is that of the run that ended last, however *)
(* runs started by hand and ticks overlap (history.py:97).                 *)
LastRowIsNewest ==
  [][\A j \in Job : EndedRuns(j)' # EndedRuns(j) => LastRun(j)' \in EndedRuns(j)' \ EndedRuns(j)]_schedulerVars

(* Ticks follow the table, runs that end are recorded, nothing starts      *)
(* under the switch, whatever operators and cancellations come between.    *)
SchedulerSound ==
  /\ [](SchedulerTypeOK /\ OneTickPerJob /\ TicksTheTable /\ StoppedIsQuiet /\ EveryRunRecorded)
  /\ NoBodyUnderSwitch /\ LastRowIsNewest

-----------------------------------------------------------------------------
(* Not checked by a run, for the code does not keep them.                  *)
(* jobs.py:41, "Disabled jobs are not registered with APScheduler", and    *)
(* jobs.py:255, the stub of a disabled job "never actually runs".  Neither *)
(* holds: replacing a live job by a disabled one leaves the old one firing *)
(* and run_now runs disabled jobs.                                         *)
DisabledNotRegistered == \A j \in Job : table[j] = "disabled" => reg[j] = 0
DisabledNeverRuns == [][\A j \in Job : n' > n /\ run'[n'].job = j => table[j] = "enabled"]_schedulerVars
=============================================================================
