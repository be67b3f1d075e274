------------------------------ MODULE Publisher -----------------------------
(***************************************************************************)
(* Publishing the vault with git (src/apps/ai-engine/wiki/publisher.py) as *)
(* the background jobs of the API run it (routers/wiki.py): stage and      *)
(* commit in one thread, push in another, then a line in a log that lies   *)
(* in the vault itself.                                                    *)
(*                                                                         *)
(* Jobs may overlap, with each other and with an operator who edits the    *)
(* vault or rolls the last commit back.  The thread of a job stages, takes *)
(* the index and HEAD for the new commit, and sets HEAD to it, with        *)
(* nothing held between: git's lock is for each write of the index.  Git   *)
(* and the remote are outside: every call may fail, the remote takes only  *)
(* what extends it.                                                        *)
(***************************************************************************)
EXTENDS Integers, Sequences, FiniteSets, SequencesExt

CONSTANTS
  Job,          \* the jobs started
  AutoPush,     \* auto_push
  MaxCommits,   \* nothing is staged once this many are made
  MaxRollbacks

ASSUME PublisherAssumption ==
  AutoPush \in BOOLEAN /\ MaxCommits \in Nat /\ MaxRollbacks \in Nat

VARIABLES
  dirty,      \* how the working tree differs from HEAD: clean, log, pages
  head,       \* the commits of the branch, by number
  made,       \* commits made so far
  remote,     \* the commits of the remote branch
  undone,     \* commits rolled back
  lost,       \* commits a job took off the branch when it set HEAD (ghost)
  tracking,   \* an upstream is set
  job,        \* _JOBS: status; where its publish stands; its result; the branch its
              \* commit is made on and what was written since its tree was taken
  log         \* publish-log.jsonl: the results written, in order

publishVars == <<dirty, head, made, remote, undone, lost, tracking, job, log>>

NoJob == [status |-> "none", at |-> "none", commit |-> 0, pushed |-> FALSE, errors |-> FALSE,
          base |-> <<>>, since |-> "clean"]

(* A repository just initialised, or one that has a commit, pushed or not. *)
PublishInit ==
  /\ dirty = "pages" /\ made \in {0, 1} /\ head = [k \in 1..made |-> k] /\ remote \in {<<>>, head}
  /\ tracking = (remote # <<>>) /\ undone = {} /\ lost = {}
  /\ job = [j \in Job |-> NoJob] /\ log = <<>>

(* POST /publish registers the job; a background task starts it. *)
Post(j) ==
  /\ job[j].status = "none" /\ job' = [job EXCEPT ![j].status = "pending"]
  /\ UNCHANGED <<dirty, head, made, remote, undone, lost, tracking, log>>

(* Variant: a status of its own. *)
OtherStart(j) ==
  /\ job[j].status = "pending"
  /\ job' = [job EXCEPT ![j].status = "started", ![j].at = "staging"]
  /\ UNCHANGED <<dirty, head, made, remote, undone, lost, tracking, log>>

Start(j) ==
  /\ job[j].status = "pending"
  /\ job' = [job EXCEPT ![j].status = "running", ![j].at = "staging"]
  /\ UNCHANGED <<dirty, head, made, remote, undone, lost, tracking, log>>

(* The two sync jobs construct their syncs without an ingester: they raise *)
(* at once, and the job is failed.  So does a publish without GitPython.   *)
FailAtOnce(j) ==
  /\ job[j].status = "pending" /\ job' = [job EXCEPT ![j].status = "failed"]
  /\ UNCHANGED <<dirty, head, made, remote, undone, lost, tracking, log>>

(* git add by one of the jobs: the index is one, so the tree that another  *)
(* has yet to take has all that was written by now.                        *)
Added(jobs) ==
  [k \in Job |-> IF jobs[k].at = "staged" THEN [jobs[k] EXCEPT !.since = "clean"] ELSE jobs[k]]

(* A page or a line of the log is written beside the trees taken. *)
Touched(jobs, what) ==
  [k \in Job |-> IF jobs[k].at \in {"staged", "committing"} /\ jobs[k].since # "pages"
                 THEN [jobs[k] EXCEPT !.since = what] ELSE jobs[k]]

(* open_repo, add or commit raises: the error is in the result. *)
StageFails(j) ==
  /\ job[j].at \in {"staging", "staged", "committing"}
  /\ job' = [job EXCEPT ![j] = [@ EXCEPT !.at = "logging", !.errors = TRUE, !.base = <<>>, !.since = "clean"]]
  /\ UNCHANGED <<dirty, head, made, remote, undone, lost, tracking, log>>

(* Nothing staged, or the count of what is staged fails. *)
NothingToCommit(j) ==
  /\ job[j].at = "staging"
  /\ job' = Added([job EXCEPT ![j].at = "logging"])
  /\ UNCHANGED <<dirty, head, made, remote, undone, lost, tracking, log>>

(* git add, and the count of what differs from HEAD. *)
Stage(j) ==
  /\ job[j].at = "staging" /\ dirty # "clean" /\ made < MaxCommits
  /\ job' = Added([job EXCEPT ![j].at = "staged"])
  /\ UNCHANGED <<dirty, head, made, remote, undone, lost, tracking, log>>

(* index.commit: the tree of the index, and HEAD for the parent. *)
TakeHead(j) ==
  /\ job[j].at = "staged"
  /\ job' = [job EXCEPT ![j].at = "committing", ![j].base = head]
  /\ UNCHANGED <<dirty, head, made, remote, undone, lost, tracking, log>>

(* HEAD is set to a commit on `branch`, wherever it has gone since; what   *)
(* it no longer has is lost.                                               *)
SetHead(j, branch) ==
  /\ job[j].at = "committing"
  /\ made' = made + 1 /\ head' = Append(branch, made + 1) /\ dirty' = job[j].since
  /\ lost' = lost \union (Range(head) \ Range(job[j].base))
  /\ job' = [job EXCEPT ![j] = [@ EXCEPT !.at = IF AutoPush THEN "pushing" ELSE "logging",
                                         !.commit = made + 1, !.base = <<>>, !.since = "clean"]]
  /\ UNCHANGED <<remote, undone, tracking, log>>

(* Variant: the last commit is amended. *)
Amend(j) == SetHead(j, IF job[j].base = <<>> THEN <<>> ELSE Front(job[j].base))

Commit(j) == SetHead(j, job[j].base)

(* Variant: pushed is set before the answer is looked at. *)
HopefulPush(j) ==
  /\ job[j].at = "pushing"
  /\ job' = [job EXCEPT ![j].at = "logging", ![j].pushed = TRUE, ![j].errors = ~IsPrefix(remote, head)]
  /\ remote' = IF IsPrefix(remote, head) THEN head ELSE remote
  /\ tracking' = TRUE
  /\ UNCHANGED <<dirty, head, made, undone, lost, log>>

(* HEAD, whatever it is by now, to the remote branch, which takes it if it *)
(* extends what it has; a rejection is an error in the result.             *)
Push(j) ==
  /\ job[j].at = "pushing"
  /\ LET taken == IsPrefix(remote, head)
     IN /\ job' = [job EXCEPT ![j].at = "logging", ![j].pushed = taken, ![j].errors = ~taken]
        /\ remote' = IF taken THEN head ELSE remote
        /\ tracking' = (tracking \/ taken)
  /\ UNCHANGED <<dirty, head, made, undone, lost, log>>

(* No origin, or a push that raises. *)
NoPush(j, error) ==
  /\ job[j].at = "pushing"
  /\ job' = [job EXCEPT ![j].at = "logging", ![j].errors = error]
  /\ UNCHANGED <<dirty, head, made, remote, undone, lost, tracking, log>>

(* Variant: the job is left open when the result has errors.               *)
OpenFinish(j, written) ==
  /\ job[j].at = "logging" /\ log' = Append(log, job[j])
  /\ job' = [job EXCEPT ![j].at = "done", ![j].status = IF job[j].errors THEN "running" ELSE "succeeded"]
  /\ dirty' = IF dirty = "clean" THEN "log" ELSE dirty
  /\ UNCHANGED <<head, made, remote, undone, lost, tracking>>

(* The line in the log, which makes the tree dirty again, or nothing if    *)
(* that fails; the job has succeeded, errors in its result or not.         *)
Finish(j, written) ==
  /\ job[j].at = "logging"
  /\ LET ended == [job EXCEPT ![j].at = "done", ![j].status = "succeeded"] IN
     IF written
     THEN /\ log' = Append(log, job[j]) /\ dirty' = IF dirty = "clean" THEN "log" ELSE dirty
          /\ job' = Touched(ended, "log")
     ELSE job' = ended /\ UNCHANGED <<log, dirty>>
  /\ UNCHANGED <<head, made, remote, undone, lost, tracking>>

(* rollback_last_commit: reset --soft HEAD~1, pushed or not. *)
Rollback ==
  /\ Cardinality(undone) < MaxRollbacks /\ Len(head) > 1
  /\ undone' = undone \union {Last(head)} /\ head' = Front(head) /\ dirty' = "pages"
  /\ UNCHANGED <<made, remote, lost, tracking, job, log>>

(* Pages are written while jobs run. *)
Write ==
  /\ dirty' = "pages" /\ job' = Touched(job, "pages")
  /\ UNCHANGED <<head, made, remote, undone, lost, tracking, log>>

JobStep(j) ==
  \/ Start(j) \/ FailAtOnce(j) \/ StageFails(j) \/ NothingToCommit(j)
  \/ Stage(j) \/ TakeHead(j) \/ Commit(j) \/ Push(j)
  \/ \E e \in BOOLEAN : NoPush(j, e) \/ Finish(j, e)

PublishNext == (\E j \in Job : Post(j) \/ JobStep(j)) \/ Rollback \/ Write

PublisherSpec == PublishInit /\ [][PublishNext]_publishVars

(* Variant: the lengths of the two are compared. *)
Shorter == IF tracking THEN Len(head) - Len(remote) ELSE -1

(* status: the commits of the branch its upstream does not have; unknown   *)
(* without an upstream.                                                    *)
Unpushed == IF tracking THEN Cardinality(Range(head) \ Range(remote)) ELSE -1

(***************************************************************************)
(* Properties                                                              *)
(***************************************************************************)

(* Every state variable holds what the code keeps in it; no commit number  *)
(* is on a branch twice.                                                   *)
PublishTypeOK ==
  /\ \A j \in Job : job[j].status \in {"none", "pending", "running", "succeeded", "failed"}
  /\ head \in Seq(1..made) /\ remote \in Seq(1..made)
  /\ undone \subseteq 1..made /\ lost \subseteq 1..made
  /\ IsInjective(head) /\ IsInjective(remote)

(* A result that says pushed is about a commit the remote has, now and     *)
(* from then on, unless between the two threads the operator rolled it     *)
(* back or another job set HEAD past it.                                   *)
PushedIsThere ==
  \A j \in Job : job[j].pushed => job[j].commit \in Range(remote) \union undone \union lost

(* The branch goes its own way from the remote's only after a commit the   *)
(* remote has was rolled back, or lost to a job that had taken HEAD before *)
(* it; until then every later push extends it.                             *)
BehindUntilRollback ==
  IsPrefix(remote, head) \/ (undone \union lost) \intersect Range(remote) # {}

(* A job that was posted comes to an end, whatever git does. *)
JobEnds == \A j \in Job : job[j].status = "pending" ~> job[j].status \in {"succeeded", "failed"}

(* A commit that a job reported as succeeded and the remote does not have  *)
(* shows in status: the count is never 0 then.                             *)
OwedShows ==
  (\E j \in Job : job[j].status = "succeeded" /\ job[j].commit \in Range(head) \ Range(remote))
    => Unpushed # 0

(* Jobs, status and log tell the truth about branch and remote.            *)
PublishSound == PublishTypeOK /\ PushedIsThere /\ BehindUntilRollback /\ OwedShows

(* What does not hold (see the README): a job that succeeded with a commit *)
(* left it on the remote; a publish with nothing edited since the last     *)
(* makes no commit; a commit stays on the branch unless it is rolled back  *)
(* (two overlapping jobs: the later one's HEAD is set without a look).     *)
SucceededIsPushed ==
  \A j \in Job : (job[j].status = "succeeded" /\ job[j].commit \notin undone \union {0})
                   => job[j].commit \in Range(remote)
CommitsStay ==
  \A j \in Job : job[j].commit \in Range(head) \union undone \union {0}
Idempotent == [][made' # made => dirty = "pages"]_publishVars
=============================================================================
