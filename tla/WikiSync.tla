------------------------------ MODULE WikiSync ------------------------------
(***************************************************************************)
(* The two syncs that feed the wiki                                        *)
(* (src/apps/ai-engine/wiki/confluence_sync.py, signoz_sync.py): list what *)
(* the server has, ingest it one by one, compare with the ids kept from    *)
(* the run before, keep the ids of this run.                               *)
(*                                                                         *)
(* A Confluence sync is for one space, but all of them share the tracking  *)
(* file and the sidecar of the vault.                                      *)
(* Runs of a sync may overlap: they give way at every request and at every *)
(* ingest.  The server is outside: its content changes between the pages   *)
(* of a listing, its answers may be lost, late or errors.  Every step may  *)
(* be the last before a crash; the files stay.                             *)
(***************************************************************************)
EXTENDS Naturals, Sequences, FiniteSets, SequencesExt

CONSTANTS
  Syncer,       \* runs of a sync that may overlap
  PageCount,    \* Confluence's pages are 1..PageCount, listed in this order
  SpaceOf,      \* the space a page belongs to (space_key)
  PerRequest,   \* how many a listing's page holds (limit)
  Batch,        \* what SigNoz may answer: sequences of alerts
  MaxChanges, MaxRuns, MaxCrashes

MaxRetries == 3
SyncPage == 1..PageCount
(* An alert: its id (0: none), when it was updated, what its state says,   *)
(* whether it has an end.                                                  *)
Alert == [id : Nat, stamp : {"none", "unreadable", "recent", "old"},
          state : {"firing", "resolved"}, ends : BOOLEAN]

ASSUME SyncAssumption ==
  /\ PageCount \in Nat /\ PerRequest \in Nat \ {0} /\ DOMAIN SpaceOf = SyncPage
  /\ \A b \in Batch : b \in Seq(Alert)
  /\ MaxChanges \in Nat /\ MaxRuns \in Nat /\ MaxCrashes \in Nat

VARIABLES
  upstream,   \* the pages Confluence has
  absent,     \* the pages it did not have at some time (ghost)
  synced,     \* confluence-synced.json
  archived,   \* confluence-archived.json
  ownFlagged, \* pages that a sync of their own space flagged (ghost)
  sync,       \* per run: where the Confluence sync stands
  tracked,    \* signoz-synced.json
  pull,       \* per run: where the SigNoz sync stands
  entered,    \* how often each incident was ingested (ghost)
  unclear,    \* runs overlapped, crashed or had one id twice (ghost)
  changes, runs, crashes

confluenceVars == <<upstream, absent, synced, archived, ownFlagged, sync>>
signozVars == <<tracked, pull, entered, unclear>>
syncVars == <<confluenceVars, signozVars, changes, runs, crashes>>

Resting == [at |-> "idle", space |-> "none", next |-> 1, attempt |-> 0, seen |-> {}, left |-> {}]
Quiet == [at |-> "idle", attempt |-> 0, left |-> <<>>, known |-> {}, new |-> {}]

SyncInit ==
  /\ upstream \in SUBSET SyncPage /\ absent = SyncPage \ upstream
  /\ synced = {} /\ archived = {} /\ ownFlagged = {}
  /\ sync = [r \in Syncer |-> Resting]
  /\ tracked = {} /\ pull = [r \in Syncer |-> Quiet]
  /\ entered = [i \in UNION {{b[k].id : k \in 1..Len(b)} : b \in Batch} |-> 0]
  /\ unclear = FALSE
  /\ changes = 0 /\ runs = 0 /\ crashes = 0

(***************************************************************************)
(* Confluence                                                              *)
(***************************************************************************)

(* People add and delete pages. *)
Change(p) ==
  /\ changes < MaxChanges /\ changes' = changes + 1
  /\ upstream' = (upstream \ {p}) \union ({p} \ upstream)
  /\ absent' = absent \union ({p} \intersect upstream)
  /\ UNCHANGED <<synced, archived, ownFlagged, sync, signozVars, runs, crashes>>

(* The pages of the space a run is for. *)
Inside(run) == {p \in SyncPage : SpaceOf[p] = run.space}

(* sync of a space begins with the first request of fetch_all_pages. *)
Fetch(r, space) ==
  /\ sync[r].at = "idle" /\ runs < MaxRuns /\ runs' = runs + 1
  /\ sync' = [sync EXCEPT ![r] = [Resting EXCEPT !.at = "fetching", !.space = space, !.attempt = 1]]
  /\ UNCHANGED <<upstream, absent, synced, archived, ownFlagged, signozVars, changes, crashes>>

(* Variant: what was listed before an error is taken for the whole space.  *)
PartialRefused(r) ==
  /\ sync[r].at = "fetching"
  /\ sync' = [sync EXCEPT ![r].at = "ingesting", ![r].left = sync[r].seen]
  /\ UNCHANGED <<upstream, absent, synced, archived, ownFlagged, signozVars, changes, runs, crashes>>

(* 401, 403 or another status that is not retried: the sync logs and ends. *)
Refused(r) ==
  /\ sync[r].at = "fetching"
  /\ sync' = [sync EXCEPT ![r] = Resting]
  /\ UNCHANGED <<upstream, absent, synced, archived, ownFlagged, signozVars, changes, runs, crashes>>

Again(run) == [run EXCEPT !.attempt = @ + 1]

(* Variant: an attempt too many. *)
OnceMore(r) ==
  /\ sync[r].at = "fetching"
  /\ sync' = [sync EXCEPT ![r] = IF @.attempt <= MaxRetries THEN Again(@) ELSE Resting]
  /\ UNCHANGED <<upstream, absent, synced, archived, ownFlagged, signozVars, changes, runs, crashes>>

(* A transport error, 429 or 5xx: again after a pause, or raised at last.  *)
Unanswered(r) ==
  /\ sync[r].at = "fetching"
  /\ sync' = [sync EXCEPT ![r] = IF @.attempt < MaxRetries THEN Again(@) ELSE Resting]
  /\ UNCHANGED <<upstream, absent, synced, archived, ownFlagged, signozVars, changes, runs, crashes>>

(* A page of the listing, and the link to the next one if there is more.   *)
Listed(r) ==
  /\ sync[r].at = "fetching"
  /\ LET to == sync[r].next + PerRequest
         listed == upstream \intersect Inside(sync[r])
         seen == sync[r].seen \union {p \in listed : sync[r].next <= p /\ p < to}
     IN sync' = [sync EXCEPT ![r] =
          IF \E p \in listed : p >= to
          THEN [@ EXCEPT !.next = to, !.attempt = 1, !.seen = seen]
          ELSE [@ EXCEPT !.at = "ingesting", !.attempt = 0, !.seen = seen, !.left = seen]]
  /\ UNCHANGED <<upstream, absent, synced, archived, ownFlagged, signozVars, changes, runs, crashes>>

(* One page is ingested, or not: the id counts as current all the same.    *)
IngestPage(r) ==
  /\ sync[r].at = "ingesting" /\ sync[r].left # {}
  /\ \E p \in sync[r].left : sync' = [sync EXCEPT ![r].left = @ \ {p}]
  /\ UNCHANGED <<upstream, absent, synced, archived, ownFlagged, signozVars, changes, runs, crashes>>

(* A run ends; if it is by a crash, every run does. *)
EndRun(r, cut) ==
  IF cut = "none"
  THEN sync' = [sync EXCEPT ![r] = Resting] /\ UNCHANGED <<signozVars, crashes>>
  ELSE /\ crashes' = crashes + 1
       /\ sync' = [q \in Syncer |-> Resting] /\ pull' = [q \in Syncer |-> Quiet]
       /\ unclear' = TRUE /\ UNCHANGED <<tracked, entered>>

(* Variant: the ids are kept before the deleted ones are marked. *)
SaveFirst(r, cut) ==
  /\ sync[r].at = "ingesting" /\ sync[r].left = {} /\ cut # "torn"
  /\ synced' = sync[r].seen
  /\ archived' = IF cut = "none" THEN archived \union (synced \ sync[r].seen) ELSE archived
  /\ UNCHANGED ownFlagged
  /\ EndRun(r, cut) /\ UNCHANGED <<upstream, absent, changes, runs>>

(* Variant: the sidecar is written anew. *)
FreshSidecar(r, cut) ==
  /\ sync[r].at = "ingesting" /\ sync[r].left = {} /\ cut = "none"
  /\ archived' = synced \ sync[r].seen /\ synced' = sync[r].seen /\ UNCHANGED ownFlagged
  /\ EndRun(r, cut) /\ UNCHANGED <<upstream, absent, changes, runs>>

(* The deleted ones are marked in the sidecar (read, added to, written     *)
(* over), then the ids are kept (a temporary file, renamed).  What counts  *)
(* as deleted is every id of the tracking file that this run has not seen, *)
(* the space's or another's.  A crash cuts the sidecar off, or comes       *)
(* between the two.                                                        *)
Conclude(r, cut) ==
  /\ sync[r].at = "ingesting" /\ sync[r].left = {}
  /\ LET deleted == synced \ sync[r].seen
     IN /\ cut = "torn" => deleted # {}
        /\ archived' = IF cut = "torn" THEN {} ELSE archived \union deleted
        /\ ownFlagged' = ownFlagged \union (deleted \intersect Inside(sync[r]))
  /\ synced' = IF cut = "none" THEN sync[r].seen ELSE synced
  /\ EndRun(r, cut) /\ UNCHANGED <<upstream, absent, changes, runs>>

(***************************************************************************)
(* SigNoz                                                                  *)
(***************************************************************************)

(* fetch_alerts keeps what it cannot date. *)
InWindow(a) == a.stamp # "old"
(* fetch_resolved_incidents: by the state, or by an end. *)
IsResolved(a) == a.state = "resolved" \/ a.ends
(* What a filter keeps of a list stays in its order.                       *)
Enumerations(kept) ==
  {at \in [1..Cardinality(kept) -> kept] : \A i, j \in DOMAIN at : i < j => at[i] < at[j]}

Ask(r) ==
  /\ pull[r].at = "idle" /\ runs < MaxRuns /\ runs' = runs + 1
  /\ pull' = [pull EXCEPT ![r] = [Quiet EXCEPT !.at = "fetching", !.attempt = 1]]
  /\ unclear' = (unclear \/ \E q \in Syncer : pull[q].at # "idle")
  /\ UNCHANGED <<confluenceVars, tracked, entered, changes, crashes>>

NoAnswer(r) ==
  /\ pull[r].at = "fetching"
  /\ pull' = [pull EXCEPT ![r] = IF @.attempt < MaxRetries THEN Again(@) ELSE Quiet]
  /\ UNCHANGED <<confluenceVars, tracked, entered, unclear, changes, runs, crashes>>

NotAllowed(r) ==
  /\ pull[r].at = "fetching" /\ pull' = [pull EXCEPT ![r] = Quiet]
  /\ UNCHANGED <<confluenceVars, tracked, entered, unclear, changes, runs, crashes>>

(* The list arrives; each resolved incident's rule is asked for, with what *)
(* goes wrong there left out; the ids ingested before are read.            *)
Alerts(r, b) ==
  /\ pull[r].at = "fetching"
  /\ \E at \in Enumerations({k \in 1..Len(b) : InWindow(b[k]) /\ IsResolved(b[k])}) :
     LET ids == [k \in DOMAIN at |-> b[at[k]].id]
     IN /\ pull' = [pull EXCEPT ![r] = [Quiet EXCEPT !.at = "ingesting", !.left = ids,
                                                     !.known = tracked, !.new = tracked]]
        /\ unclear' = (unclear \/ ~IsInjective(ids))
  /\ UNCHANGED <<confluenceVars, tracked, entered, changes, runs, crashes>>

Passed(r) == pull' = [pull EXCEPT ![r].left = Tail(@)]

(* Without an id: an error; known before: nothing. *)
PassOver(r) ==
  /\ pull[r].at = "ingesting" /\ pull[r].left # <<>>
  /\ Head(pull[r].left) \in {0} \union pull[r].known
  /\ Passed(r)
  /\ UNCHANGED <<confluenceVars, tracked, entered, unclear, changes, runs, crashes>>

(* Variant: marked whether the ingest goes well or not. *)
EagerIncident(r, ok) ==
  /\ pull[r].at = "ingesting" /\ pull[r].left # <<>>
  /\ LET i == Head(pull[r].left) IN
     /\ i \notin {0} \union pull[r].known
     /\ pull' = [pull EXCEPT ![r].left = Tail(@), ![r].new = @ \union {i}]
     /\ entered' = IF ok THEN [entered EXCEPT ![i] = @ + 1] ELSE entered
  /\ UNCHANGED <<confluenceVars, tracked, unclear, changes, runs, crashes>>

(* Ingested and noted, or an error. *)
IngestIncident(r, ok) ==
  /\ pull[r].at = "ingesting" /\ pull[r].left # <<>>
  /\ LET i == Head(pull[r].left) IN
     /\ i \notin {0} \union pull[r].known
     /\ IF ok THEN /\ pull' = [pull EXCEPT ![r].left = Tail(@), ![r].new = @ \union {i}]
                   /\ entered' = [entered EXCEPT ![i] = @ + 1]
        ELSE Passed(r) /\ UNCHANGED entered
  /\ UNCHANGED <<confluenceVars, tracked, unclear, changes, runs, crashes>>

(* Variant: only the ids of this run are kept. *)
RunOnly(r) == pull[r].new \ pull[r].known

(* The ids known when the list arrived and those ingested since. *)
Kept(r) == pull[r].new

SaveTracked(r) ==
  /\ pull[r].at = "ingesting" /\ pull[r].left = <<>>
  /\ tracked' = Kept(r) /\ pull' = [pull EXCEPT ![r] = Quiet]
  /\ UNCHANGED <<confluenceVars, entered, unclear, changes, runs, crashes>>

(* The process ends and starts anew; a run that was under way is gone.     *)
CrashSync ==
  /\ crashes < MaxCrashes /\ crashes' = crashes + 1
  /\ sync' = [r \in Syncer |-> Resting] /\ pull' = [r \in Syncer |-> Quiet]
  /\ unclear' = TRUE
  /\ UNCHANGED <<upstream, absent, synced, archived, ownFlagged, tracked, entered, changes, runs>>

ConfluenceStep(r) ==
  \/ \E p \in SyncPage : Fetch(r, SpaceOf[p])
  \/ Refused(r) \/ Unanswered(r) \/ Listed(r) \/ IngestPage(r)
  \/ \E cut \in {"none", "between", "torn"} :
       (cut = "none" \/ crashes < MaxCrashes) /\ Conclude(r, cut)
SignozStep(r) ==
  \/ Ask(r) \/ NoAnswer(r) \/ NotAllowed(r) \/ PassOver(r) \/ SaveTracked(r)
  \/ \E b \in Batch : Alerts(r, b)
  \/ \E ok \in BOOLEAN : IngestIncident(r, ok)

ConfluenceNext == (\E p \in SyncPage : Change(p)) \/ (\E r \in Syncer : ConfluenceStep(r)) \/ CrashSync
SignozNext == (\E r \in Syncer : SignozStep(r)) \/ CrashSync

SyncSpec == SyncInit /\ [][ConfluenceNext \/ SignozNext]_syncVars

(***************************************************************************)
(* Properties                                                              *)
(***************************************************************************)

(* Every state variable holds what the code keeps in it. *)
SyncTypeOK ==
  /\ upstream \subseteq SyncPage /\ synced \subseteq SyncPage
  /\ archived \subseteq SyncPage /\ ownFlagged \subseteq SyncPage
  /\ \A r \in Syncer :
       /\ sync[r].at \in {"idle", "fetching", "ingesting"} /\ sync[r].attempt \in 0..MaxRetries
       /\ sync[r].left \subseteq sync[r].seen /\ sync[r].seen \subseteq Inside(sync[r])
       /\ pull[r].at \in {"idle", "fetching", "ingesting"} /\ pull[r].attempt \in 0..MaxRetries
       /\ pull[r].known \subseteq pull[r].new
  /\ tracked \subseteq DOMAIN entered

(* No page is flagged by a sync of its own space that was upstream all the *)
(* time: a listing that broke off is not taken for the space (sync returns *)
(* before the comparison), and pages that come and go between two requests *)
(* hide no other.  A sync of another space does flag it: FlaggedWasAbsent. *)
ArchivedWasAbsent == ownFlagged \subseteq absent

(* An id leaves the tracking file only once the sidecar has it, overlaps   *)
(* and crashes between the two files included: no deletion upstream is     *)
(* forgotten.  A crash inside the write of the sidecar forgets them all    *)
(* (_mark_archived writes in place, unlike _save_synced_ids).              *)
LeavesIntoArchive ==
  [][\A p \in synced \ synced' : p \in archived']_syncVars

(* What the sidecar has it keeps (setdefault), except across such a crash. *)
ArchiveGrows == [][crashes' = crashes => archived \subseteq archived']_syncVars

(* An incident in the tracking file has been ingested: one that failed is  *)
(* tried again by the next sync.                                           *)
TrackedWasEntered == \A i \in tracked : entered[i] > 0

(* An incident is ingested twice only when syncs overlapped, one crashed   *)
(* before it kept its ids, or a list named it twice.                       *)
EnteredOnce == unclear \/ \A i \in DOMAIN entered : entered[i] <= 1

(* The files of both syncs tell what the servers had, crashes and overlaps *)
(* included.                                                               *)
SyncSound ==
  /\ [](SyncTypeOK /\ ArchivedWasAbsent /\ TrackedWasEntered /\ EnteredOnce)
  /\ LeavesIntoArchive /\ ArchiveGrows

(* What does not hold (see the README): a page that is upstream again is   *)
(* no longer flagged; no page is flagged that was upstream all the time,   *)
(* whatever spaces are synced into the vault; incidents are ingested once  *)
(* whatever happens.                                                       *)
BackIsCurrent == \A r \in Syncer : archived \intersect upstream = {} \/ sync[r].at # "idle"
FlaggedWasAbsent == archived \subseteq absent
AlwaysOnce == \A i \in DOMAIN entered : entered[i] <= 1
=============================================================================
