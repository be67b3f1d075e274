------------------------------ MODULE DocTools ------------------------------
(***************************************************************************)
(* Two of the documentation tools (mcp/tools/read): detect_stale_docs,     *)
(* which sweeps one source, and check_doc_links, which probes the external *)
(* links of one document and heeds the hosts' robots.txt.                  *)
(***************************************************************************)
EXTENDS DocScores, Sequences, FiniteSets, SequencesExt

CONSTANTS
  Sweeps,     \* what is swept: [docs |-> a sequence, threshold |-> days]
  LinkLists,  \* the external links of a document, in order, without repetition
  Disallows   \* of each robots.txt there may be, the paths it disallows

(* A document: its age, and how many old years, dead systems and tell-tale *)
(* phrases it has.                                                         *)
Document == [age : Nat \union {NoAge}, years : Nat, dead : Nat, phrases : Nat]

ASSUME SweepsAssumption ==
  \A w \in Sweeps : w.docs \in Seq(Document) /\ w.threshold \in Int
ASSUME LinksAssumption == \A ls \in LinkLists : ls \in Seq(ToSet(ls))
ASSUME DisallowsAssumption ==
  /\ "none" \in DOMAIN Disallows /\ Disallows["none"] = {}
  /\ "unknown" \notin DOMAIN Disallows

VARIABLES
  sweep,  \* the sweep: its documents, its threshold, what it reports
  check   \* the link check

toolVars == <<sweep, check>>

Link == UNION {ToSet(ls) : ls \in LinkLists}
Host == {l.host : l \in Link}

(* The client follows redirects (docs_link_check.py:114): a request leads  *)
(* through any addresses of the world outside.                             *)
Routes == SUBSET {l \in Link : l.form = "plain"}

(* A check: the links, whether robots.txt is heeded, what it knows of each *)
(* host's, and what became of each link; the requests it made itself and   *)
(* those redirects led it to, for the properties.                          *)
ToolsStart(w, ls, heed) ==
  /\ sweep = [docs |-> w.docs, threshold |-> w.threshold, ended |-> FALSE, reported |-> <<>>]
  /\ check = [links |-> ls, heed |-> heed, at |-> "probe", robots |-> [h \in Host |-> "unknown"],
              results |-> <<>>, asked |-> [h \in Host |-> 0], visited |-> {}, followed |-> {}]
ToolsInit == \E w \in Sweeps, ls \in LinkLists, heed \in BOOLEAN : ToolsStart(w, ls, heed)

(***************************************************************************)
(* detect_stale_docs.                                                      *)
(***************************************************************************)

(* Variant: past a year the score decides alone.                           *)
TripsByScore(doc, threshold) ==
  IF doc.age > 365 THEN IsStale(doc) ELSE doc.age # NoAge /\ doc.age >= threshold

(* Old enough, or stale by score.                                          *)
Trips(doc, threshold) == (doc.age # NoAge /\ doc.age >= threshold) \/ IsStale(doc)

(* The tripping documents, the stalest first, equals in listing order.     *)
Tripping == {k \in DOMAIN sweep.docs : Trips(sweep.docs[k], sweep.threshold)}
Stalest(down, j, k) ==
  LET Score(m) == Scored(sweep.docs[m], sweep.docs[m] \in down)
  IN  Score(j) > Score(k) \/ (Score(j) = Score(k) /\ j < k)
Rankings(down) ==
  {r \in [1..Cardinality(Tripping) -> Tripping] :
     /\ \A i, j \in DOMAIN r : i < j => Stalest(down, r[i], r[j])
     /\ \A k \in Tripping : \E i \in DOMAIN r : r[i] = k}
Sweep ==
  /\ ~sweep.ended
  /\ \E down \in SUBSET ToSet(sweep.docs) :
       \E ranked \in Rankings(down) :
         sweep' = [sweep EXCEPT !.ended = TRUE, !.reported = ranked]
  /\ UNCHANGED check

(***************************************************************************)
(* check_doc_links.                                                        *)
(***************************************************************************)

Current == check.links[Len(check.results) + 1]
Probing == check.at = "probe" /\ Len(check.results) < Len(check.links)
Judged(status) == [check EXCEPT !.results = Append(@, status)]

(* A link without scheme or host is broken as it stands; one that does not *)
(* parse at all raises out of the tool.                                    *)
Malformed ==
  /\ Probing /\ Current.form = "malformed"
  /\ check' = Judged("broken") /\ UNCHANGED sweep
Unparseable ==
  /\ Probing /\ Current.form = "unparseable"
  /\ check' = [check EXCEPT !.at = "failed"] /\ UNCHANGED sweep

WantsRobots == check.heed /\ check.robots[Current.host] = "unknown"

(* Variant: a missing robots.txt is not remembered.                        *)
RememberedIfRules(c, host, rules) == IF rules = "none" THEN c ELSE [c EXCEPT !.robots[host] = rules]

(* The robots.txt of the host, or what a redirect gives in its place: its  *)
(* rules, or "none", which allows all, when it is missing or cannot be     *)
(* fetched.                                                                *)
Remembered(c, host, rules) == [c EXCEPT !.robots[host] = rules]
FetchRobots(rules, route) ==
  /\ Probing /\ Current.form = "plain" /\ WantsRobots
  /\ check' = [Remembered(check, Current.host, rules) EXCEPT !.asked[Current.host] = @ + 1,
                 !.followed = @ \union route]
  /\ UNCHANGED sweep

(* Variant: only the link that fetched the rules is held against them.     *)
AllowedOnce(c, link) ==
  (c.heed /\ \A k \in DOMAIN c.results : c.links[k].host # link.host)
    => link.path \notin Disallows[c.robots[link.host]]
Allowed(c, link) == c.heed => link.path \notin Disallows[c.robots[link.host]]

SkipLink ==
  /\ Probing /\ Current.form = "plain" /\ ~WantsRobots /\ ~Allowed(check, Current)
  /\ check' = Judged("skipped_robots") /\ UNCHANGED sweep

(* Variant: a timeout is not caught.                                       *)
VerdictRaises(head, get) ==
  LET last == IF head = "405" THEN get ELSE head
  IN  CASE last = "2xx" -> "ok" [] last = "timeout" -> "raised" [] OTHER -> "broken"

(* HEAD, and GET where HEAD is not implemented; the last answer counts,    *)
(* that at the end of the redirects ("2xx": 200 to 399).                   *)
Verdict(head, get) ==
  LET last == IF head = "405" THEN get ELSE head
  IN  CASE last = "2xx" -> "ok" [] last = "timeout" -> "timeout" [] OTHER -> "broken"
Probe(head, get, route) ==
  /\ Probing /\ Current.form = "plain" /\ ~WantsRobots /\ Allowed(check, Current)
  /\ LET verdict == Verdict(head, get)
         seen == [check EXCEPT !.visited = @ \union {Current}, !.followed = @ \union route]
     IN  check' = IF verdict = "raised" THEN [seen EXCEPT !.at = "failed"]
                  ELSE [seen EXCEPT !.results = Append(@, verdict)]
  /\ UNCHANGED sweep

FinishLinks ==
  /\ check.at = "probe" /\ Len(check.results) = Len(check.links)
  /\ check' = [check EXCEPT !.at = "done"] /\ UNCHANGED sweep

Responses == {"2xx", "4xx", "405", "timeout", "refused"}
LinksNext ==
  \/ Malformed \/ Unparseable \/ SkipLink \/ FinishLinks
  \/ \E rules \in DOMAIN Disallows, route \in Routes : FetchRobots(rules, route)
  \/ \E head, get \in Responses, route \in Routes : Probe(head, get, route)

ToolsSpec == ToolsInit /\ [][Sweep \/ LinksNext]_toolVars

(***************************************************************************)
(* What is promised.                                                       *)
(***************************************************************************)

Reported(k) == k \in ToSet(sweep.reported)
AsSuspicious(a, b) == a.years >= b.years /\ a.dead >= b.dead /\ a.phrases >= b.phrases

(* What is older and no less suspicious than a reported document is        *)
(* reported as well (docs_staleness.py:59, drift.py).                      *)
WorseAlsoReported ==
  \A j, k \in DOMAIN sweep.docs :
    LET a == sweep.docs[j]
        b == sweep.docs[k]
    IN  (Reported(k) /\ b.age # NoAge /\ a.age >= b.age /\ AsSuspicious(a, b)) => Reported(j)

(* Suspicious words alone report nothing: a document younger than 458 days *)
(* is reported for its age only (drift.py:10-13, "capped weight").         *)
WordsAloneReportNothing ==
  \A k \in DOMAIN sweep.docs :
    Reported(k) => sweep.docs[k].age >= (IF sweep.threshold < 458 THEN sweep.threshold ELSE 458)

(* The sweep and the search judge age alike: of two dated documents with   *)
(* the same signals, the one the sweep puts first is not ranked fresher by *)
(* find_docs, unless a single day lies between them, which the rounding of *)
(* the score may hide (drift.py:85, :148, sources.py:48).                  *)
SweepAgreesWithSearch ==
  \A j, k \in DOMAIN sweep.reported :
    LET a == sweep.docs[sweep.reported[j]]
        b == sweep.docs[sweep.reported[k]]
    IN  (j < k /\ AsSuspicious(a, b) /\ AsSuspicious(b, a) /\ a.age # NoAge /\ b.age # NoAge)
          => Freshness(a.age) <= Freshness(b.age) \/ b.age = a.age + 1

(* No link of the document is requested that its own host's robots.txt     *)
(* disallows, whichever of the host's links fetched it                     *)
(* (docs_link_check.py:174); of what a redirect leads to nothing is said   *)
(* (RedirectsHonourRobots is not so).                                      *)
DisallowedNeverVisited ==
  check.heed =>
    \A l \in check.visited : l.path \notin Disallows[check.robots[l.host]]

(* A host is asked for its robots.txt once in a check, even if it has none *)
(* (docs_link_check.py:180).                                               *)
RobotsAskedOnce == \A h \in Host : check.asked[h] <= 1

(* Every link gets a verdict unless one of them cannot be parsed: no       *)
(* answer and no silence of a host ends the check (docs_link_check.py:141).*)
EveryLinkJudged ==
  /\ check.at = "failed" => \E k \in DOMAIN check.links : check.links[k].form = "unparseable"
  /\ check.at = "done" => Len(check.results) = Len(check.links)

(* The sweep reports by age and signals alike, the link check asks every   *)
(* linked host and judges every link.                                      *)
DocToolsSound ==
  WorseAlsoReported /\ WordsAloneReportNothing /\ SweepAgreesWithSearch /\ DisallowedNeverVisited
    /\ RobotsAskedOnce /\ EveryLinkJudged

(* "The other signals can push a recent-but-suspicious doc over the        *)
(* threshold" (drift.py:128).  Not so: they add 0.155 at most.             *)
SuspiciousIsReported ==
  sweep.ended =>
    \A k \in DOMAIN sweep.docs :
      (sweep.docs[k].years >= 2 /\ sweep.docs[k].dead >= 2 /\ sweep.docs[k].phrases >= 2) => Reported(k)

(* The sweep never puts the fresher of two first.  Not so: of two ages a   *)
(* day apart both scores may round to the same thousandth.                 *)
SweepAgreesToTheDay ==
  \A j, k \in DOMAIN sweep.reported :
    LET a == sweep.docs[sweep.reported[j]]
        b == sweep.docs[sweep.reported[k]]
    IN  (j < k /\ AsSuspicious(a, b) /\ AsSuspicious(b, a) /\ a.age # NoAge /\ b.age # NoAge)
          => Freshness(a.age) <= Freshness(b.age)

(* "Link-check HEAD probes honour robots.txt" (reconciliation/README.md:44)*)
(* wherever they lead.  Not so: a redirect is followed to a path its host  *)
(* disallows, or to a host never asked for its rules                       *)
(* (docs_link_check.py:112-116).                                           *)
RedirectsHonourRobots ==
  check.heed =>
    \A l \in check.followed :
      check.robots[l.host] # "unknown" /\ l.path \notin Disallows[check.robots[l.host]]

(* A link that cannot be parsed costs its own verdict only.  Not so: the   *)
(* tool raises and the verdicts of the others are lost.                    *)
OneBadLink == check.at # "failed"
=============================================================================
