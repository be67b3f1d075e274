----------------------------- MODULE Reconciler -----------------------------
(***************************************************************************)
(* The cross-source reconciler (reconciliation/reconciler.py) over its     *)
(* sources (sources.py): find_docs ranks what every source knows of a      *)
(* topic, compare also holds the documents against each other, by their    *)
(* version numbers and through the LLM router.  The sources are read       *)
(* twice, once to search and once to date each match, and people edit the  *)
(* files between the two.                                                  *)
(***************************************************************************)
EXTENDS DocScores, Sequences, FiniteSets, SequencesExt

CONSTANTS
  Library,    \* the sources, in the order of their registration
  Kind,       \* of each source: its name, "obsidian", "github_wiki", "confluence" ...
  Holding,    \* of each source: the ids of its documents, in listing order
  SmallDocs,  \* the contents a document may have
  StartShelf, \* the contents the sources may start with
  PairLimits, \* llm_pair_limit
  MaxEdits    \* how often a document changes during a call

Source == ToSet(Library)

(* A date that is not there; one that does not parse is NoAge.             *)
Absent == -2

(* A document: the date of its file, the dates it states, in the order     *)
(* they are looked at, the versions it cites, and whether it mentions the  *)
(* topic; there, not there, or not to be read.                             *)
Doc == [saved : Nat, stamps : Seq(Nat \union {Absent, NoAge}), versions : SUBSET Int, title : Int,
        mentions : BOOLEAN, state : {"plain", "gone", "denied"}]

ASSUME LibraryAssumption ==
  /\ Library # <<>> /\ Library \in Seq(Source)
  /\ \A s \in Source : Holding[s] \in Seq(ToSet(Holding[s]))
  /\ PairLimits \subseteq Int /\ MaxEdits \in Nat
ASSUME ShelfAssumption ==
  /\ SmallDocs \subseteq Doc
  /\ \A start \in StartShelf :
       DOMAIN start = Source /\ \A s \in Source : start[s] \in [ToSet(Holding[s]) -> Doc]

VARIABLES
  shelf,  \* of each source and id: the document, "gone" when there is none
  space,  \* the same of the Confluence space itself, which load_from_sync copies
  edits,  \* how many changes have happened
  stirred,\* the documents that changed during the call
  recon   \* the call

reconVars == <<shelf, space, edits, stirred, recon>>

Copied(s) == Kind[s] = "confluence"
Slots == UNION {{s} \X ToSet(Holding[s]) : s \in Source}

(* A place in the order of the search: a source and a position in its      *)
(* listing.                                                                *)
Spot == UNION {{r} \X DOMAIN Holding[Library[r]] : r \in DOMAIN Library}
SourceOf(m) == Library[m[1]]
IdOf(m) == Holding[Library[m[1]]][m[2]]
FoundBefore(m, n) == m[1] < n[1] \/ (m[1] = n[1] /\ m[2] < n[2])
Shelved(m) == shelf[SourceOf(m)][IdOf(m)]

(* A call: the sources it may ask, the one it is at, the documents they    *)
(* returned, as they were then, the freshness of each, the ranking, and    *)
(* the comparison: the pairs, those sent to the router, the findings.      *)
NoDocs == [m \in {} |-> 0]
Resting == [at |-> "idle", kind |-> "find", allowed |-> {}, next |-> 1, docs |-> NoDocs,
            scores |-> NoDocs, refs |-> <<>>, limit |-> 1, router |-> FALSE, pairs |-> {}, asked |-> {},
            diffs |-> {}, semantic |-> {}, reported |-> {}, available |-> TRUE, notes |-> {}]
Matches(c) == DOMAIN c.docs

(* Variant: the limit is taken as it comes.                                *)
RawStart(start, limit, router) ==
  /\ shelf = start /\ space = start
  /\ edits = 0 /\ stirred = {}
  /\ recon = [Resting EXCEPT !.limit = limit, !.router = router]
ReconStart(start, limit, router) ==
  /\ shelf = start /\ space = start
  /\ edits = 0 /\ stirred = {}
  /\ recon = [Resting EXCEPT !.limit = IF limit > 1 THEN limit ELSE 1, !.router = router]
ReconInit == \E start \in StartShelf, limit \in PairLimits, router \in BOOLEAN : ReconStart(start, limit, router)

(***************************************************************************)
(* The sources.                                                            *)
(***************************************************************************)

(* A file that is gone or not UTF-8 is passed over; one that may not be    *)
(* read raises.                                                            *)
Raises(doc) == doc.state = "denied"
Fetched(doc) == doc.state = "plain"

(* The date of a document: an Obsidian page has the first of its           *)
(* frontmatter dates that parses, else its file's; a GitHub wiki page its  *)
(* file's; a Confluence page or a pin the first date present, if it        *)
(* parses.                                                                 *)
First(stamps, passed) ==
  LET left == {k \in DOMAIN stamps : stamps[k] \notin passed}
  IN  IF left = {} THEN NoAge ELSE stamps[CHOOSE k \in left : \A j \in left : k <= j]
LastModified(kind, doc) ==
  CASE kind = "github_wiki" -> doc.saved
    [] kind = "obsidian" -> First(Append(doc.stamps, doc.saved), {Absent, NoAge})
    [] OTHER -> First(doc.stamps, {Absent})

(* search of a source: every document whose text mentions the topic.       *)
Hits(r) == {m \in Spot : m[1] = r /\ Fetched(Shelved(m)) /\ Shelved(m).mentions}

(* score_freshness fetches the document a second time.                     *)
ScoreNow(m) ==
  IF Fetched(Shelved(m)) THEN Freshness(LastModified(Kind[SourceOf(m)], Shelved(m))) ELSE 0

(* Someone edits a file, or a page of the space.                           *)
Edit(s, id, doc) ==
  /\ edits < MaxEdits /\ edits' = edits + 1
  /\ ~Copied(s) /\ doc # shelf[s][id]
  /\ shelf' = [shelf EXCEPT ![s][id] = doc]
  /\ stirred' = stirred \union {<<s, id>>}
  /\ UNCHANGED <<space, recon>>

EditSpace(s, id, doc) ==
  /\ edits < MaxEdits /\ edits' = edits + 1
  /\ Copied(s) /\ doc # space[s][id] /\ doc.state \in {"plain", "gone"}
  /\ space' = [space EXCEPT ![s][id] = doc]
  /\ UNCHANGED <<shelf, stirred, recon>>

(* load_from_sync: the pages of the space replace their copies; a page     *)
(* that is gone keeps its copy.                                            *)
Refreshed(mine, theirs) == [id \in DOMAIN mine |-> IF theirs[id].state = "gone" THEN mine[id] ELSE theirs[id]]
LoadFromSync(s) ==
  /\ Copied(s) /\ recon.at = "idle"
  /\ shelf' = [shelf EXCEPT ![s] = Refreshed(@, space[s])]
  /\ UNCHANGED <<space, edits, stirred, recon>>

(***************************************************************************)
(* A call.                                                                 *)
(***************************************************************************)

Kinds == {Kind[s] : s \in Source}

(* find_docs, restricted to some sources (to none: to all), and            *)
(* reconcile_docs, which asks them all.                                    *)
FindDocs(names) ==
  /\ recon.at = "idle"
  /\ recon' = [recon EXCEPT !.at = "search", !.allowed = IF names = {} THEN Kinds ELSE names]
  /\ stirred' = {} /\ UNCHANGED <<shelf, space, edits>>
ReconcileDocs ==
  /\ recon.at = "idle"
  /\ recon' = [recon EXCEPT !.at = "search", !.kind = "compare", !.allowed = Kinds]
  /\ stirred' = {} /\ UNCHANGED <<shelf, space, edits>>

(* What a source returned is kept as it was found.                         *)
AsFound(c, found) ==
  [m \in Matches(c) \union found |-> IF m \in Matches(c) THEN c.docs[m] ELSE Shelved(m)]

(* Variant: the first source that fails ends the search.                   *)
AfterSearchStops(c, raised) ==
  IF raised THEN [c EXCEPT !.next = Len(Library) + 1]
  ELSE [c EXCEPT !.next = @ + 1,
                 !.docs = AsFound(c, IF Kind[Library[c.next]] \in c.allowed THEN Hits(c.next) ELSE {})]

(* _collect_matches: a source that raises is passed over with all it had.  *)
AfterSearch(c, raised) ==
  [c EXCEPT !.next = @ + 1,
            !.docs = AsFound(c, IF Kind[Library[c.next]] \in c.allowed /\ ~raised THEN Hits(c.next) ELSE {})]

Search ==
  /\ recon.at = "search" /\ recon.next <= Len(Library)
  /\ LET s == Library[recon.next]
     IN  recon' = AfterSearch(recon, Kind[s] \in recon.allowed /\ \E id \in ToSet(Holding[s]) : Raises(shelf[s][id]))
  /\ UNCHANGED <<shelf, space, edits, stirred>>

Searched == recon.at = "search" /\ recon.next > Len(Library)

(* The matches are dated in the order they were found.  One that cannot be *)
(* read any more fails the whole call.                                     *)
Undated(c) == Matches(c) \ DOMAIN c.scores
Score ==
  /\ Searched
  /\ \E m \in Undated(recon) :
       /\ \A n \in Undated(recon) : ~FoundBefore(n, m)
       /\ recon' = IF Raises(Shelved(m)) THEN [recon EXCEPT !.at = "failed"]
                   ELSE [recon EXCEPT !.scores = [n \in DOMAIN @ \union {m} |-> IF n = m THEN ScoreNow(m) ELSE @[n]]]
  /\ UNCHANGED <<shelf, space, edits, stirred>>

(* Variant: the ranking ignores the freshness.                             *)
BeforeByTitle(c, m, n) ==
  \/ c.docs[m].title < c.docs[n].title
  \/ c.docs[m].title = c.docs[n].title /\ FoundBefore(m, n)

(* The matches, freshest first, ties by title, then in search order.       *)
Before(c, m, n) ==
  \/ c.scores[m] > c.scores[n]
  \/ c.scores[m] = c.scores[n] /\ c.docs[m].title < c.docs[n].title
  \/ c.scores[m] = c.scores[n] /\ c.docs[m].title = c.docs[n].title /\ FoundBefore(m, n)
Orders(c) ==
  {r \in [1..Cardinality(Matches(c)) -> Matches(c)] :
     /\ \A i, j \in DOMAIN r : i < j => Before(c, r[i], r[j])
     /\ \A m \in Matches(c) : \E i \in DOMAIN r : r[i] = m}

(* Two documents are the same when their source's name and id are.         *)
GlobalId(m) == <<Kind[SourceOf(m)], IdOf(m)>>
Two(p) == {GlobalId(p[1]), GlobalId(p[2])}
Sooner(p, q) == FoundBefore(p[1], q[1]) \/ (p[1] = q[1] /\ FoundBefore(p[2], q[2]))
Pairings(c) == {p \in Matches(c) \X Matches(c) : FoundBefore(p[1], p[2])}

(* Variant: two documents are held against each other once per mention.    *)
AllPairs(c) == {p \in Pairings(c) : GlobalId(p[1]) # GlobalId(p[2])}

(* _unique_pairs: of the pairs of the same two documents the first.        *)
UniquePairs(c) ==
  {p \in Pairings(c) : /\ GlobalId(p[1]) # GlobalId(p[2])
                      /\ \A q \in Pairings(c) : Two(q) = Two(p) => ~Sooner(q, p)}

(* The two cite versions, and each cites some that the other does not.     *)
Disagree(a, b) ==
  /\ a.versions # {} /\ b.versions # {}
  /\ a.versions \ b.versions # {} /\ b.versions \ a.versions # {}
Diffs(c, pairs) ==
  {[pair |-> p, by |-> "versions", severity |-> "warning"] :
     p \in {q \in pairs : Disagree(c.docs[q[1]], c.docs[q[2]])}}

(* The ranking; then the string diff of every pair, and the semantic pass  *)
(* if there is a router.                                                   *)
Compared(c) ==
  LET pairs == UniquePairs(c)
      diffs == Diffs(c, pairs)
      base == [c EXCEPT !.pairs = pairs, !.diffs = diffs]
  IN  IF c.router THEN [base EXCEPT !.at = "ask"]
      ELSE [base EXCEPT !.at = "done", !.available = FALSE, !.notes = {"no_router"}, !.reported = diffs]

RankMatches ==
  /\ Searched /\ Undated(recon) = {}
  /\ \E order \in Orders(recon) :
       LET ranked == [recon EXCEPT !.refs = order]
       IN  recon' = IF recon.kind = "find" THEN [ranked EXCEPT !.at = "done"] ELSE Compared(ranked)
  /\ UNCHANGED <<shelf, space, edits, stirred>>

(* The first llm_pair_limit pairs are sent, in the order of the matches.   *)
MoreToAsk(c) == c.asked # c.pairs /\ Cardinality(c.asked) < c.limit
NextPair(c, p) == p \in c.pairs \ c.asked /\ \A q \in c.pairs \ c.asked : ~Sooner(q, p)

(* Variant: a router failure leaves out what the router had found.         *)
ReportWithoutSemantic(c) ==
  [c EXCEPT !.at = "done", !.reported = IF c.notes = {} THEN c.diffs \union c.semantic ELSE c.diffs]

Report(c) == [c EXCEPT !.at = "done", !.reported = c.diffs \union c.semantic]

(* A severity the schema does not know becomes a warning.                  *)
Known(severity) == IF severity \in {"critical", "warning", "info"} THEN severity ELSE "warning"

(* The router answers with contradictions, or text that is no JSON array.  *)
RouterAnswers(items) ==
  /\ recon.at = "ask" /\ MoreToAsk(recon)
  /\ \E p \in recon.pairs :
       /\ NextPair(recon, p)
       /\ recon' = [recon EXCEPT !.asked = @ \union {p},
                     !.semantic = @ \union {[pair |-> p, by |-> "router", severity |-> Known(i)] : i \in items}]
  /\ UNCHANGED <<shelf, space, edits, stirred>>

(* Variant: an error of the router leaves no note.                         *)
AfterFailureSilent(c, p, how) ==
  Report([c EXCEPT !.asked = @ \union {p}, !.available = how # "unavailable",
                   !.notes = IF how = "unavailable" THEN @ \union {how} ELSE @])

(* Variant: only an unavailable router is expected.                        *)
AfterFailureRaises(c, p, how) ==
  IF how = "error" THEN [c EXCEPT !.at = "failed"]
  ELSE Report([c EXCEPT !.asked = @ \union {p}, !.available = FALSE, !.notes = @ \union {how}])

(* Variant: the pair is tried again.                                       *)
AfterFailureRetries(c, p, how) == [c EXCEPT !.available = how # "unavailable", !.notes = {how}]

(* It is unavailable, or fails otherwise: no further pair is asked.        *)
AfterFailure(c, p, how) ==
  Report([c EXCEPT !.asked = @ \union {p}, !.available = how # "unavailable", !.notes = @ \union {how}])
RouterFails(how) ==
  /\ recon.at = "ask" /\ MoreToAsk(recon)
  /\ \E p \in recon.pairs : NextPair(recon, p) /\ recon' = AfterFailure(recon, p, how)
  /\ UNCHANGED <<shelf, space, edits, stirred>>

Close ==
  /\ recon.at = "ask" /\ ~MoreToAsk(recon)
  /\ recon' = Report(recon)
  /\ UNCHANGED <<shelf, space, edits, stirred>>

Proceeds == Search \/ Score \/ RankMatches \/ Close
Answered == (\E items \in {{}, {"critical", "severe"}} : RouterAnswers(items))
              \/ \E how \in {"unavailable", "error"} : RouterFails(how)

ReconNext ==
  \/ \E s \in Source : \E id \in ToSet(Holding[s]), doc \in SmallDocs : Edit(s, id, doc) \/ EditSpace(s, id, doc)
  \/ \E s \in Source : LoadFromSync(s)
  \/ \E names \in SUBSET Kinds : FindDocs(names)
  \/ ReconcileDocs
  \/ Proceeds \/ Answered
ReconSpec == ReconInit /\ [][ReconNext]_reconVars

(***************************************************************************)
(* What is promised.                                                       *)
(***************************************************************************)

Ended == recon.at = "done"

(* The types of the variables.                                             *)
ReconTypeOK ==
  /\ \A s \in Source : shelf[s] \in [ToSet(Holding[s]) -> Doc] /\ space[s] \in [ToSet(Holding[s]) -> Doc]
  /\ edits \in 0 .. MaxEdits /\ stirred \subseteq Slots
  /\ recon.at \in {"idle", "search", "ask", "done", "failed"}
  /\ Matches(recon) \subseteq Spot /\ DOMAIN recon.scores \subseteq Matches(recon)
  /\ recon.limit >= 1 /\ recon.asked \subseteq recon.pairs

(* A failing source hides nothing but its own: every document that speaks  *)
(* of the topic, was left alone during the call and lies in a source that  *)
(* the call may ask and that could be read throughout is in the ranking    *)
(* (reconciler.py:210, _collect_matches).                                  *)
NoneHidden ==
  Ended =>
    \A m \in Spot :
      (/\ Kind[SourceOf(m)] \in recon.allowed /\ Fetched(Shelved(m)) /\ Shelved(m).mentions
       /\ \A id \in ToSet(Holding[SourceOf(m)]) :
            <<SourceOf(m), id>> \notin stirred /\ ~Raises(shelf[SourceOf(m)][id]))
      => m \in ToSet(recon.refs)

(* The ranking lists each match once and never puts a document before one  *)
(* that was dated fresher in this same call (reconciler.py:146).           *)
RankedFreshestFirst ==
  (Ended \/ recon.at = "ask") =>
    /\ ToSet(recon.refs) = Matches(recon) /\ IsInjective(recon.refs)
    /\ \A j, k \in DOMAIN recon.refs : j < k => recon.scores[recon.refs[j]] >= recon.scores[recon.refs[k]]

(* A call fails only when a match changed between the search and its       *)
(* dating: a router or a source that fails does not fail it                *)
(* (reconciler.py:13, "Router failure ... is handled gracefully").         *)
FailsOnlyWhenStirred == recon.at = "failed" => stirred # {}

(* No two documents are sent to the router twice, and no more pairs than   *)
(* the effective limit (reconciler.py:18).                                 *)
AskedOncePerPair ==
  /\ Cardinality(recon.asked) <= recon.limit
  /\ \A p, q \in recon.asked : Two(p) = Two(q) => p = q

(* A report without a note is complete: every pair within the limit was    *)
(* answered by the router (reconciler.py:195-203).                         *)
SilenceIsComplete ==
  (Ended /\ recon.kind = "compare" /\ recon.notes = {}) =>
    /\ recon.available
    /\ Cardinality(recon.asked) =
         IF recon.limit < Cardinality(recon.pairs) THEN recon.limit ELSE Cardinality(recon.pairs)

(* Whatever the router does in the end, the report holds every finding of  *)
(* the string diff and every one the router had made before (the           *)
(* docstring: "the string-level findings are still returned").             *)
FindingsKept ==
  (Ended /\ recon.kind = "compare") =>
    recon.diffs \union recon.semantic \subseteq recon.reported

(* A call ends, given that the router answers or fails.                    *)
CallEnds == (recon.at = "search") ~> (recon.at \in {"done", "failed"})

(* Failures of sources and router show in the report and hide nothing else *)
(* of it, and a call comes to an end.                                      *)
ReconcileRight ==
  ReconTypeOK /\ NoneHidden /\ RankedFreshestFirst /\ FailsOnlyWhenStirred /\ AskedOncePerPair
    /\ SilenceIsComplete /\ FindingsKept
ReconcileSound == []ReconcileRight /\ CallEnds

(* "Sends the top pair(s)" (reconciler.py:11): the best ranked document is *)
(* in the first pair.  Not so: the pairs come in search order.             *)
TopPairFirst ==
  recon.at = "ask" =>
    \A p \in recon.pairs : (\A q \in recon.pairs : ~Sooner(q, p)) => recon.refs[1] \in {p[1], p[2]}

(* Every two matches are held against each other.  Not so: two vaults have *)
(* one name, and their files of one path are taken for the same.           *)
EveryTwoCompared ==
  (Ended /\ recon.kind = "compare") => recon.pairs = Pairings(recon)

(* A search finds only pages that exist.  Not so: load_from_sync keeps the *)
(* copy of a page that is gone.                                            *)
OnlyWhatExists ==
  [][\A s \in Source : LoadFromSync(s) => \A id \in DOMAIN shelf'[s] : Fetched(shelf'[s][id]) => Fetched(space[s][id])]_reconVars
=============================================================================
