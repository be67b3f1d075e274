---------------------------- MODULE Invalidation ----------------------------
(***************************************************************************)
(* The invalidation engine (invalidation/engine.py) between a consumer's   *)
(* stream and the resynthesis queue.                                       *)
(*                                                                         *)
(* consume_with_batching collects events for a window and fans the batch   *)
(* out; handle_event looks the dependents up in the index, marks each page *)
(* file pending_revalidation and appends the slugs to the queue file.  The *)
(* drain of the queue (ResynthQueue) rewrites pages.  Engine and drain are *)
(* coroutines of one loop: a fan-out has no suspension, so the drain never *)
(* runs inside it.  The operator's editor and a crash may come anywhere.   *)
(*                                                                         *)
(* An event is its artifact: the engine looks at no value.  Of a page's    *)
(* last_updated only the comparison with _last_seen matters.               *)
(***************************************************************************)
EXTENDS Naturals, FiniteSets

CONSTANTS
  Artifact, Slug, Drainer, NoSlug,
  NoArtifact,  \* "no event is handled"
  FanoutCap,   \* fanout_cap
  Deps0,       \* config_dependencies of the pages at the start
  Rewrites,    \* dependency sets a resynthesis may write
  MaxChanges,  \* bound: changes after the first observation
  MaxEdits,    \* bound: edits and deletions by the operator
  MaxFaults,   \* bound: failing page writes and failing resyntheses
  MaxCrashes   \* bound: crashes

ASSUME SlugAssumption == Slug \subseteq Nat /\ NoSlug \notin Slug
ASSUME ArtifactAssumption == NoArtifact \notin Artifact
ASSUME DepsAssumption ==
  /\ Deps0 \in [Slug -> SUBSET Artifact] /\ Rewrites \subseteq SUBSET Artifact
ASSUME CapAssumption == FanoutCap \in Nat \ {0}
ASSUME BoundAssumption ==
  {MaxChanges, MaxEdits, MaxFaults, MaxCrashes} \subseteq Nat

VARIABLES
  inbox,     \* artifacts whose event the stream has still to yield
  alive,     \* the stream's generator was not finalised
  pc,        \* where consume_with_batching is
  batch,     \* batch, keyed by artifact
  cur,       \* the event handle_event works on
  marks,     \* its affected slugs not marked yet
  index,     \* DependencyIndex._index
  seen,      \* last_updated on disk against _last_seen
  exists,    \* page files
  pending,   \* pages whose freshness is pending_revalidation
  deps,      \* config_dependencies written in the pages
  reads,     \* what the running resynthesis of a drain will make current
  stale,     \* history: per page, artifacts with an event since it was rewritten
  lost,      \* history: per page, artifacts whose event was dropped unhinted
  human,     \* history: edited by the operator since the engine looked
  raced,     \* history: the page was edited between load and write
  failed,    \* history: pages whose last resynthesis raised
  changes, edits, faults,                                  \* counters
  live, rotated, todo, current, orphans, tried, handed, crashes  \* the queue

Queue == INSTANCE ResynthQueue
queue == <<live, rotated, todo, current, orphans, tried, handed, crashes>>
engine == <<alive, pc, batch, cur, marks, index>>
pages == <<exists, pending, deps>>
notes == <<stale, lost, human, raced, failed>>
counts == <<changes, edits, faults>>
vars == <<inbox, engine, seen, pages, reads, notes, counts, queue>>

TypeOK ==
  /\ inbox \in SUBSET Artifact /\ batch \in SUBSET Artifact
  /\ alive \in BOOLEAN /\ raced \in BOOLEAN
  /\ pc \in {"first", "wait", "fanout", "mark", "write", "returned", "raised"}
  /\ cur \in Artifact \union {NoArtifact}
  /\ index \in [Artifact -> SUBSET Slug]
  /\ seen \in [Slug -> {"unknown", "same", "newer"}]
  /\ marks \subseteq Slug /\ exists \subseteq Slug /\ pending \subseteq Slug
  /\ human \subseteq Slug /\ failed \subseteq Slug
  /\ deps \in [Slug -> SUBSET Artifact]
  /\ stale \in [Slug -> SUBSET Artifact] /\ lost \in [Slug -> SUBSET Artifact]
  /\ reads \in [Drainer -> SUBSET Artifact]
  /\ changes \in Nat /\ edits \in Nat /\ faults \in Nat
  /\ Queue!TypeOK

(* DependencyIndex.from_vault: what the files of the vault say.            *)
FromVault(files, d) == [a \in Artifact |-> {s \in files : a \in d[s]}]

(* A started process: an empty index of what was seen, and a stream that   *)
(* yields every artifact once (the consumer's first observations).         *)
Started ==
  /\ inbox' = Artifact /\ alive' = TRUE /\ pc' = "first"
  /\ batch' = {} /\ cur' = NoArtifact /\ marks' = {}
  /\ seen' = [s \in Slug |-> "unknown"]
  /\ index' = FromVault(exists, deps)

Init ==
  /\ inbox = Artifact /\ alive = TRUE /\ pc = "first"
  /\ batch = {} /\ cur = NoArtifact /\ marks = {}
  /\ exists = Slug /\ pending = {} /\ deps = Deps0
  /\ index = FromVault(Slug, Deps0)
  /\ seen = [s \in Slug |-> "unknown"]
  /\ reads = [d \in Drainer |-> {}]
  /\ stale = [s \in Slug |-> {}] /\ lost = [s \in Slug |-> {}]
  /\ human = {} /\ raced = FALSE /\ failed = {}
  /\ changes = 0 /\ edits = 0 /\ faults = 0
  /\ Queue!Init

(* handle_event fans an event out to the first FanoutCap dependents in     *)
(* sorted order.  The index is built once, so this is settled beforehand.  *)
Affected(a) ==
  {s \in index[a] : Cardinality({t \in index[a] : t < s}) < FanoutCap}

(* The artifacts whose event the engine holds.                             *)
Held == batch \union ({cur} \ {NoArtifact})

(* Events of the artifacts in A are dropped before the slugs of their      *)
(* pages are in the queue file, except those of the pages in S.            *)
Drop(A, S) ==
  lost' = [s \in Slug |-> IF s \in S THEN lost[s]
                          ELSE lost[s] \union {a \in A : s \in Affected(a)}]

-----------------------------------------------------------------------------
(* The consumer has an event to yield.                                     *)
Change(a) ==
  /\ changes < MaxChanges /\ changes' = changes + 1
  /\ inbox' = inbox \union {a}
  /\ UNCHANGED <<engine, seen, pages, reads, notes, edits, faults, queue>>

(* consume_with_batching: the first event opens a window, the next join    *)
(* it.  After each the deadline is looked at before the next wait.  From   *)
(* now on the pages that depend on the artifact are stale: a resynthesis   *)
(* that is running may have read the old value.                            *)
Take(a) ==
  /\ pc \in {"first", "wait"} /\ a \in inbox /\ alive
  /\ inbox' = inbox \ {a}
  /\ batch' = batch \union {a}
  /\ pc' \in {"wait", "fanout"}
  /\ stale' = [s \in Slug |-> IF s \in Affected(a) THEN stale[s] \union {a}
                              ELSE stale[s]]
  /\ lost' = [s \in Slug |-> IF s \in Affected(a) THEN lost[s] \ {a}
                             ELSE lost[s]]
  /\ reads' = [d \in Drainer |-> IF current[d] \in Affected(a)
                                 THEN reads[d] \ {a} ELSE reads[d]]
  /\ UNCHANGED <<alive, cur, marks, index, seen, pages, human, raced, failed,
                 counts, queue>>

(* The window elapses inside wait_for, which cancels __anext__: the        *)
(* generator of the stream is finalised.  The batch is fanned out.         *)
Quiet ==
  /\ pc = "wait"
  /\ pc' = "fanout" /\ alive' = FALSE
  /\ UNCHANGED <<inbox, batch, cur, marks, index, seen, pages, reads, notes,
                 counts, queue>>

(* The stream raises (watcher_exhausted): the exception leaves             *)
(* consume_with_batching with the batch it had collected.                  *)
StreamRaises ==
  /\ pc \in {"first", "wait"} /\ alive
  /\ pc' = "raised"
  /\ batch' = {} /\ alive' = FALSE
  /\ Drop(batch, {})
  /\ UNCHANGED <<inbox, cur, marks, index, seen, pages, reads, stale, human,
                 raced, failed, counts, queue>>

(* A faulty end that does not flush the batch of the last window.          *)
UnflushedEnd ==
  /\ pc = "fanout" /\ (batch = {} \/ ~alive)
  /\ pc' = IF alive THEN "first" ELSE "returned"
  /\ UNCHANGED <<inbox, alive, batch, cur, marks, index, seen, pages, reads,
                 notes, counts, queue>>

(* The batch is done; a finalised generator ends the iteration.            *)
FannedOut ==
  /\ pc = "fanout" /\ batch = {}
  /\ pc' = IF alive THEN "first" ELSE "returned"
  /\ UNCHANGED <<inbox, alive, batch, cur, marks, index, seen, pages, reads,
                 notes, counts, queue>>

-----------------------------------------------------------------------------
(* handle_event looks the dependents up.                                   *)
Handle(a) ==
  /\ pc = "fanout" /\ a \in batch
  /\ batch' = batch \ {a} /\ cur' = a
  /\ marks' = Affected(a)
  /\ pc' = "mark"
  /\ UNCHANGED <<inbox, alive, index, seen, pages, reads, notes, counts, queue>>

NextMark(s) == pc = "mark" /\ s \in marks /\ \A t \in marks : s <= t

(* _mark_pending: no page file, or a newer last_updated than last seen.    *)
Missing(s) ==
  /\ NextMark(s) /\ s \notin exists
  /\ marks' = marks \ {s}
  /\ UNCHANGED <<inbox, alive, pc, batch, cur, index, seen, pages, reads,
                 notes, counts, queue>>

FaultyConflict(s) ==
  /\ NextMark(s) /\ s \in exists /\ seen[s] = "newer"
  /\ seen' = [seen EXCEPT ![s] = "conflict"]
  /\ marks' = marks \ {s} /\ human' = human \ {s}
  /\ UNCHANGED <<inbox, alive, pc, batch, cur, index, pages, reads, stale,
                 lost, raced, failed, counts, queue>>

Conflict(s) ==
  /\ NextMark(s) /\ s \in exists /\ seen[s] = "newer"
  /\ seen' = [seen EXCEPT ![s] = "same"]
  /\ marks' = marks \ {s} /\ human' = human \ {s}
  /\ UNCHANGED <<inbox, alive, pc, batch, cur, index, pages, reads, stale,
                 lost, raced, failed, counts, queue>>

(* Otherwise the page is loaded, and then written over as a whole: what    *)
(* the operator saved in between is gone, a deleted page is back.          *)
Load(s) ==
  /\ NextMark(s) /\ s \in exists /\ seen[s] # "newer"
  /\ pc' = "write" /\ raced' = FALSE
  /\ UNCHANGED <<inbox, alive, batch, cur, marks, index, seen, pages, reads,
                 stale, lost, human, failed, counts, queue>>

Loaded(s) == pc = "write" /\ s \in marks /\ \A t \in marks : s <= t

Write(s) ==
  /\ Loaded(s)
  /\ pc' = "mark" /\ marks' = marks \ {s}
  /\ exists' = exists \union {s} /\ pending' = pending \union {s}
  /\ seen' = [seen EXCEPT ![s] = "same"]
  /\ human' = human \ {s}
  /\ raced' = FALSE
  /\ UNCHANGED <<inbox, alive, batch, cur, index, deps, reads, stale, lost,
                 failed, counts, queue>>

(* The load or the write raises: _fanout_batch logs it and takes the next  *)
(* event; the pages left, the queue and the audit log are skipped.         *)
Raises(stays) ==
  /\ \E s \in Slug : NextMark(s) \/ Loaded(s)
  /\ faults < MaxFaults /\ faults' = faults + 1
  /\ pc' = "fanout" /\ batch' = stays
  /\ marks' = {} /\ cur' = NoArtifact /\ raced' = FALSE
  /\ Drop({cur}, {})
  /\ UNCHANGED <<inbox, alive, index, seen, pages, reads, stale, human,
                 failed, changes, edits, queue>>

(* Faulty variants of the actions here, which the properties must reject:  *)
(* a failure that ends the whole fan-out, a conflict that is not resolved, *)
(* a hint that skips the pages under resynthesis, one that opens the queue *)
(* file for writing instead of appending.                                  *)
EndingRaises == Raises({})

FaultyHint(S) ==
  /\ pc = "mark" /\ marks = {}
  /\ pc' = "fanout" /\ cur' = NoArtifact
  /\ live' = S /\ tried' = tried \ S /\ handed' = handed \union S
  /\ UNCHANGED <<inbox, alive, batch, marks, index, seen, pages, reads, notes,
                 counts, rotated, todo, current, orphans, crashes>>

SkippingHint ==
  FaultyHint((live \union Affected(cur)) \ {current[d] : d \in Drainer})

OverwritingHint == FaultyHint(Affected(cur))

HandleRaises == Raises(batch)

Append(S) == IF S = {} THEN UNCHANGED queue ELSE Queue!Enqueue(S)

(* All pages done: the slugs are appended to the queue file.               *)
Hint ==
  /\ pc = "mark" /\ marks = {}
  /\ pc' = "fanout" /\ cur' = NoArtifact
  /\ Append(Affected(cur))
  /\ UNCHANGED <<inbox, alive, batch, marks, index, seen, pages, reads, notes,
                 counts>>

(* The append raises with some of the lines written: as in HandleRaises,   *)
(* but the pages are marked.                                               *)
HintRaises ==
  /\ pc = "mark" /\ marks = {}
  /\ faults < MaxFaults /\ faults' = faults + 1
  /\ pc' = "fanout" /\ cur' = NoArtifact
  /\ \E S \in SUBSET Affected(cur) : Append(S) /\ Drop({cur}, S)
  /\ UNCHANGED <<inbox, alive, batch, marks, index, seen, pages, reads, stale,
                 human, raced, failed, changes, edits>>

Engine == \/ \E a \in Artifact : Take(a) \/ Handle(a)
          \/ \E s \in Slug : Missing(s) \/ Conflict(s) \/ Load(s) \/ Write(s)
          \/ FannedOut \/ Hint

-----------------------------------------------------------------------------
(* The drain runs while the engine awaits its stream.                      *)
Awaiting == pc \in {"first", "wait", "returned", "raised"}

StartDrain(d) ==
  /\ Awaiting
  /\ Queue!Rotate(d)
  /\ UNCHANGED <<inbox, engine, seen, pages, reads, notes, counts>>

EndDrain(d) ==
  /\ Awaiting
  /\ Queue!Unlink(d)
  /\ UNCHANGED <<inbox, engine, seen, pages, reads, notes, counts>>

(* resynth_func starts from the infrastructure as it is now.               *)
Resynth(d) ==
  /\ Awaiting
  /\ Queue!Take(d)
  /\ reads' = [reads EXCEPT ![d] = stale[current'[d]]]
  /\ failed' = failed \ {current'[d]}
  /\ UNCHANGED <<inbox, engine, seen, pages, stale, lost, human, raced, counts>>

(* It rewrites the page: freshness current, last_updated now, and the      *)
(* dependencies it found.  The index is not told.                          *)
Resynthesized(d) ==
  LET s == current[d]
  IN /\ Awaiting
     /\ Queue!End(d)
     /\ stale' = [stale EXCEPT ![s] = @ \ reads[d]]
     /\ lost' = [lost EXCEPT ![s] = @ \ reads[d]]
     /\ pending' = pending \ {s} /\ exists' = exists \union {s}
     /\ seen' = [seen EXCEPT ![s] = IF @ = "unknown" THEN @ ELSE "newer"]
     /\ \E D \in {deps[s]} \union Rewrites : deps' = [deps EXCEPT ![s] = D]
     /\ reads' = [reads EXCEPT ![d] = {}]
     /\ UNCHANGED <<inbox, engine, human, raced, failed,
                    counts>>

ResynthRaises(d) ==
  /\ Awaiting
  /\ faults < MaxFaults /\ faults' = faults + 1
  /\ Queue!End(d)
  /\ failed' = failed \union {current[d]}
  /\ reads' = [reads EXCEPT ![d] = {}]
  /\ UNCHANGED <<inbox, engine, seen, pages, stale, lost, human, raced, changes,
                 edits>>

ContinueDrain(d) == Resynth(d) \/ Resynthesized(d) \/ EndDrain(d)

Drain(d) == StartDrain(d) \/ ContinueDrain(d)

-----------------------------------------------------------------------------
(* The operator saves a page, with or without a new last_updated, or       *)
(* deletes it.                                                             *)
Edit(s) ==
  /\ edits < MaxEdits /\ edits' = edits + 1
  /\ s \in exists
  /\ seen' \in {seen, [seen EXCEPT ![s] = IF @ = "unknown" THEN @ ELSE "newer"]}
  /\ human' = human \union {s}
  /\ raced' = (raced \/ Loaded(s))
  /\ UNCHANGED <<inbox, engine, pages, reads, stale, lost, failed, changes,
                 faults, queue>>

Delete(s) ==
  /\ edits < MaxEdits /\ edits' = edits + 1
  /\ s \in exists
  /\ exists' = exists \ {s}
  /\ UNCHANGED <<inbox, engine, seen, pending, deps, reads, notes, changes,
                 faults, queue>>

(* The process dies and is started again: the files are what is left.      *)
Crash ==
  /\ Queue!Crash
  /\ Started
  /\ reads' = [d \in Drainer |-> {}]
  /\ raced' = FALSE
  /\ Drop(Held, {})
  /\ UNCHANGED <<pages, stale, human, failed, counts>>

Next == \/ \E a \in Artifact : Change(a)
        \/ Engine \/ Quiet \/ StreamRaises \/ HandleRaises \/ HintRaises
        \/ \E d \in Drainer : Drain(d) \/ ResynthRaises(d)
        \/ \E s \in Slug : Edit(s) \/ Delete(s)
        \/ Crash

Spec == Init /\ [][Next]_vars

(* The loop resumes the engine and a drain that was started, and a window  *)
(* ends.  Nothing makes a drain start.                                     *)
Fairness == /\ WF_vars(Engine) /\ WF_vars(Quiet)
            /\ \A d \in Drainer : WF_vars(ContinueDrain(d))

FairSpec == Spec /\ Fairness

-----------------------------------------------------------------------------
(* The pages the events it holds will hint.                                *)
Coming == UNION {Affected(a) : a \in Held}

Dropped == {s \in Slug : lost[s] # {}}

(* A page that depends on an artifact whose event the engine took from the *)
(* stream stays accounted for until a resynthesis that started after that  *)
(* event rewrites it: it is to be hinted, in the queue or in a file a      *)
(* crash left, such a resynthesis runs or raised, or that very event was   *)
(* dropped by an exception or a crash.  What raises for one event loses    *)
(* no other event of its batch, and overlapping drains settle no event     *)
(* they have not read (engine.py:163-280 with resynth_queue.py:125-138).   *)
Reread ==
  \A s \in Slug : \A a \in stale[s] :
    \/ s \in Queue!Owed \union orphans \union failed
    \/ a \in Held /\ s \in Affected(a)
    \/ a \in lost[s]
    \/ \E d \in Drainer : current[d] = s /\ a \in reads[d]

(* A page that shows pending_revalidation has its resynthesis owed or      *)
(* running, or about to be hinted by an event the engine holds; otherwise  *)
(* it raised, a crash left it in a file, or an event for the page was      *)
(* dropped: no failing write, append or resynthesis leaves another page    *)
(* marked with nothing to come (engine.py:276-280, _mark_pending).         *)
PendingOwed ==
  pending \subseteq Queue!Owed \union {current[d] : d \in Drainer} \union Coming
                   \union orphans \union failed \union Dropped

(* The engine and the drain use the file queue the way its specification   *)
(* says, so what is shown of the queue holds here.                         *)
UsesQueue == Queue!Spec

(* What the engine took from the stream does not stay with it, nor with a  *)
(* drain that was started: a page with events gets to where it was         *)
(* rewritten since or has a line in the live file, save what an exception  *)
(* or a crash left behind.                                                 *)
Unsettled(s) ==
  IF s \in live \union orphans \union failed THEN {} ELSE stale[s] \ lost[s]

EventsSettle == \A s \in Slug : Unsettled(s) # {} ~> Unsettled(s) = {}

-----------------------------------------------------------------------------
(* consume_with_batching (engine.py:168-169): when the deadline elapses    *)
(* "the next event opens a fresh window", so an event is heard as long as  *)
(* the stream itself did not raise.                                        *)
EventsHeard ==
  \A a \in Artifact : a \in inbox ~> (a \notin inbox \/ pc = "raised")

(* consume_with_batching (engine.py:172-173): "Stream termination flushes  *)
(* the in-flight batch before returning".                                  *)
BatchFlushed == [][StreamRaises => batch = {}]_vars

(* _mark_pending (engine.py:302-305): the operator wins when a page is     *)
(* edited mid-burst.                                                       *)
OperatorWins == [][\A s \in Slug : Write(s) => ~raced]_vars

(* __init__ (engine.py:127-130): a newer last_updated on disk means that   *)
(* "a concurrent edit happened" by a human between the engine's writes.    *)
ConflictMeansHuman == [][\A s \in Slug : Conflict(s) => s \in human]_vars

(* dependency_index.py:4-6: the index is "Updated incrementally whenever   *)
(* the synthesizer writes a page".                                         *)
IndexCurrent ==
  \A a \in Artifact : \A s \in exists : a \in deps[s] => s \in index[a]
=============================================================================
