---------------------------- MODULE ResynthQueue ----------------------------
(***************************************************************************)
(* The file queue between the invalidation engine and the scheduler        *)
(* (invalidation/engine.py:409-429, invalidation/resynth_queue.py).        *)
(*                                                                         *)
(* The engine appends slugs to the live file.  A drain renames it to a     *)
(* processing file of its own, reads and de-duplicates the lines, awaits   *)
(* resynth_func for each slug and then unlinks the file.  The engine and   *)
(* the drains are coroutines of one event loop, so a step is what runs     *)
(* between two awaits; several drains overlap when the job is started by   *)
(* hand during a tick.  The process may crash anywhere.                    *)
(*                                                                         *)
(* A file is the set of its lines: de-duplication makes their number and   *)
(* order immaterial to what is attempted.                                  *)
(***************************************************************************)
EXTENDS Naturals

CONSTANTS Slug,        \* pages of the vault
          Drainer,     \* drains that may be running at once
          NoSlug,      \* "awaiting no slug"
          MaxCrashes   \* bound on crashes of the process

ASSUME SlugAssumption == NoSlug \notin Slug
ASSUME CrashAssumption == MaxCrashes \in Nat

VARIABLES
  live,      \* lines of resynth-queue.txt
  rotated,   \* lines of the drain's processing file, {} when unlinked
  todo,      \* unique_slugs not attempted yet
  current,   \* the slug whose resynth_func is awaited
  orphans,   \* lines of processing files left behind by crashes
  tried,     \* history: slugs attempted since they were last appended
  handed,    \* history: slugs ever appended
  crashes    \* crashes so far

vars == <<live, rotated, todo, current, orphans, tried, handed, crashes>>

TypeOK ==
  /\ live \in SUBSET Slug
  /\ rotated \in [Drainer -> SUBSET Slug]
  /\ todo \in [Drainer -> SUBSET Slug]
  /\ current \in [Drainer -> Slug \union {NoSlug}]
  /\ orphans \in SUBSET Slug /\ tried \in SUBSET Slug /\ handed \in SUBSET Slug
  /\ crashes \in Nat

Init ==
  /\ live = {} /\ orphans = {} /\ tried = {} /\ handed = {} /\ crashes = 0
  /\ rotated = [d \in Drainer |-> {}]
  /\ todo = [d \in Drainer |-> {}]
  /\ current = [d \in Drainer |-> NoSlug]

Owed == live \union UNION {todo[d] : d \in Drainer}

-----------------------------------------------------------------------------
(* Faulty variants of the actions below, which the properties must reject: *)
(* the live file emptied when the drain is done, the processing file gone  *)
(* before the attempts, a failed slug tried again at once, a drain that    *)
(* keeps no slug apart.                                                    *)
FaultyUnlink(d) ==
  /\ rotated[d] # {}
  /\ rotated' = [rotated EXCEPT ![d] = {}]
  /\ UNCHANGED <<live, todo, current, orphans, tried, handed, crashes>>

EmptyingUnlink(d) ==
  /\ rotated[d] # {} /\ todo[d] = {} /\ current[d] = NoSlug
  /\ rotated' = [rotated EXCEPT ![d] = {}] /\ live' = {}
  /\ UNCHANGED <<todo, current, orphans, tried, handed, crashes>>

RetryingEnd(d) ==
  /\ current[d] # NoSlug
  /\ current' = [current EXCEPT ![d] = NoSlug]
  /\ todo' = [todo EXCEPT ![d] = @ \union {current[d]}]
  /\ UNCHANGED <<live, rotated, orphans, tried, handed, crashes>>

FaultyEnd(d) ==
  /\ current[d] # NoSlug
  /\ current' = [current EXCEPT ![d] = todo[d]]
  /\ UNCHANGED <<live, rotated, todo, orphans, tried, handed, crashes>>

(* _enqueue_resynth: append-only, nothing is written for an empty list.    *)
Enqueue(S) ==
  /\ S # {}
  /\ live' = live \union S
  /\ tried' = tried \ S
  /\ handed' = handed \union S
  /\ UNCHANGED <<rotated, todo, current, orphans, crashes>>

(* rotate_queue and the reading of the rotated file: no await in between.  *)
Rotate(d) ==
  /\ rotated[d] = {} /\ live # {}
  /\ rotated' = [rotated EXCEPT ![d] = live]
  /\ todo' = [todo EXCEPT ![d] = live]
  /\ live' = {}
  /\ UNCHANGED <<current, orphans, tried, handed, crashes>>

(* The loop of drain_resynth_queue calls resynth_func and awaits it.       *)
Take(d) ==
  /\ current[d] = NoSlug
  /\ \E g \in todo[d] :
       /\ current' = [current EXCEPT ![d] = g]
       /\ todo' = [todo EXCEPT ![d] = @ \ {g}]
       /\ tried' = tried \union {g}
  /\ UNCHANGED <<live, rotated, orphans, handed, crashes>>

(* It returns or raises; the exception is counted and the loop goes on.    *)
End(d) ==
  /\ current[d] # NoSlug
  /\ current' = [current EXCEPT ![d] = NoSlug]
  /\ UNCHANGED <<live, rotated, todo, orphans, tried, handed, crashes>>

(* Only after every slug was attempted is the processing file removed.     *)
Unlink(d) ==
  /\ rotated[d] # {} /\ todo[d] = {} /\ current[d] = NoSlug
  /\ rotated' = [rotated EXCEPT ![d] = {}]
  /\ UNCHANGED <<live, todo, current, orphans, tried, handed, crashes>>

(* The process dies and restarts: files survive, coroutines do not, and    *)
(* nothing reads a processing file that is already there.                  *)
Crash ==
  /\ crashes < MaxCrashes
  /\ crashes' = crashes + 1
  /\ orphans' = orphans \union UNION {rotated[d] : d \in Drainer}
  /\ rotated' = [d \in Drainer |-> {}]
  /\ todo' = [d \in Drainer |-> {}]
  /\ current' = [d \in Drainer |-> NoSlug]
  /\ UNCHANGED <<live, tried, handed>>

Continue(d) == Take(d) \/ End(d) \/ Unlink(d)

Drain(d) == Rotate(d) \/ Continue(d)

Next == \/ \E S \in SUBSET Slug : Enqueue(S)
        \/ \E d \in Drainer : Drain(d)
        \/ Crash

Spec == Init /\ [][Next]_vars

(* A drain that was started is a coroutine the loop resumes until it ends, *)
(* given that each resynth_func returns or raises.  Nothing makes a drain  *)
(* start: default_jobs (scheduler/jobs.py:196-248) registers no such job.  *)
FairSpec == Spec /\ \A d \in Drainer : WF_vars(Continue(d))

-----------------------------------------------------------------------------
(* A processing file holds whatever its drain has still to attempt, so     *)
(* that a file on disk covers it until the attempt (resynth_queue.py:102). *)
FilesCoverWork ==
  \A d \in Drainer :
    /\ todo[d] \subseteq rotated[d]
    /\ current[d] # NoSlug => current[d] \in rotated[d] \ todo[d]

(* What a drain works on is on disk, and no drain works on anything else.  *)
WorkOnDisk == TypeOK /\ FilesCoverWork

(* A slug that was handed over and not attempted since is in the live      *)
(* file, in a running drain or in a processing file a crash left behind:   *)
(* no step, overlapping drains included, drops it without a trace.         *)
Traceable == handed \subseteq tried \union Owed \union orphans

(* The queue implements its promise until the process crashes: rotation,   *)
(* overlapping drains and appends during a drain lose nothing that was     *)
(* handed over, and nothing is attempted that is not owed.                 *)
Served == tried \ Owed
Promise == INSTANCE ResynthSpec WITH owed <- Owed, served <- Served
KeepsPromise ==
  /\ Promise!Init
  /\ [][crashes' = 0 => (Promise!Next \/ UNCHANGED <<Owed, Served>>)]_vars

(* Every slug a drain read from its file is eventually attempted, whatever *)
(* became of the ones before it, or a crash left it in a processing file   *)
(* nobody reads (resynth_queue.py:125-138).                                *)
EventuallyTried ==
  \A d \in Drainer, g \in Slug : g \in todo[d] ~> g \in tried \union orphans

-----------------------------------------------------------------------------
(* drain_resynth_queue (resynth_queue.py:95), "Idempotent and crash-safe": *)
(* the promise is kept through crashes as well.  The code does not do so.  *)
CrashSafe == Promise!Spec
=============================================================================
