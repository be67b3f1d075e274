------------------------------ MODULE WikiLint ------------------------------
(***************************************************************************)
(* What the wiki computes over its pages: how stale they are and which are *)
(* orphans (src/apps/ai-engine/wiki/staleness.py), which pairs are put to  *)
(* the model as possible contradictions (contradiction.py), and which      *)
(* pages answer a question (routers/wiki.py).                              *)
(*                                                                         *)
(* A page is a record of what these look at.  Names are compared without   *)
(* case, a keyword is the set of texts that contain it.  One step takes a  *)
(* list of pages to a report.                                              *)
(***************************************************************************)
EXTENDS Integers, Sequences, FiniteSets, Functions

CONSTANTS
  LintInputs,  \* lists of pages
  Keyword,     \* the words of a question
  TopCount,    \* max_pages, and the control tower's limit
  Exempt       \* frontmatter.index_page's pages, by name

Undated == -1
(* DEFAULT_RULES: days until stale, days until archived. *)
Rule == [confluence |-> <<90, 180>>, github_docs |-> <<60, 180>>, runbook |-> <<120, 365>>,
         incident |-> <<365, 730>>, manual |-> <<30, 180>>]

(* A page: its names, what sorts it, its days since the last update, its   *)
(* tags and links, and the words of a question and the parts of it a topic *)
(* is met in.                                                              *)
LintPage ==
  [slug : STRING, title : STRING, type : STRING, source : STRING, age : Nat \union {Undated},
   flagged : BOOLEAN, tags : SUBSET STRING, links : SUBSET STRING, title_words : SUBSET Keyword,
   slug_words : SUBSET Keyword, tag_words : SUBSET Keyword, hits : SUBSET {"title", "slug", "body"}]

ASSUME LintAssumption ==
  LintInputs \subseteq Seq(LintPage) /\ IsFiniteSet(Keyword) /\ TopCount \in Nat

VARIABLES lintPages, lintReport
lintVars == <<lintPages, lintReport>>

NoReport == [labels |-> <<>>, orphans |-> {}, asked |-> <<>>, top |-> <<>>, snippets |-> <<>>]
LintInit == lintPages \in LintInputs /\ lintReport = NoReport

(***************************************************************************)
(* Staleness                                                               *)
(***************************************************************************)

(* _rule_for: the source type, else the page's type, else manual. *)
RuleFor(p) ==
  LET key == IF p.source # "" THEN p.source ELSE p.type
  IN IF key \in DOMAIN Rule THEN Rule[key] ELSE Rule["manual"]

(* Variant: a page at the archive threshold falls between the two tests.   *)
GapLabel(p) ==
  IF p.flagged THEN "archived"
  ELSE IF p.age = Undated THEN "needs_review"
  ELSE IF p.age > RuleFor(p)[2] THEN "archived"
  ELSE IF p.age \in RuleFor(p)[1]..(RuleFor(p)[2] - 1) THEN "stale"
  ELSE "current"

(* lint_page: an explicit archived stands, then the thresholds. *)
Label(p) ==
  IF p.flagged THEN "archived"
  ELSE IF p.age = Undated THEN "needs_review"
  ELSE IF p.age >= RuleFor(p)[2] THEN "archived"
  ELSE IF p.age >= RuleFor(p)[1] THEN "stale"
  ELSE "current"

Labels(pages) == [k \in 1..Len(pages) |-> Label(pages[k])]

(* Every name a [[wikilink]] of some page names, its own included. *)
LinkedNames(pages) == UNION {pages[k].links : k \in 1..Len(pages)}

(* Variant: links by title are not looked at. *)
SlugOrphans(pages) ==
  {k \in 1..Len(pages) : pages[k].slug \notin LinkedNames(pages) \union Exempt}

(* find_orphans: the positions of the pages no name of which is linked. *)
Orphans(pages) ==
  {k \in 1..Len(pages) : /\ {pages[k].slug, pages[k].title} \intersect LinkedNames(pages) = {}
                         /\ pages[k].slug \notin Exempt}

(***************************************************************************)
(* Contradictions                                                          *)
(***************************************************************************)

(* _page_tags: tags, links, and the type as a coarse bucket. *)
Topics(p) == p.tags \union p.links \union {p.type}

(* The pages of one cluster, by position. *)
Cluster(pages, key) == {k \in 1..Len(pages) : key \in Topics(pages[k])}

(* Variant: a cluster of two is too small to look at. *)
BigPairs(pages, key) ==
  {{pages[i].slug, pages[j].slug} :
     i, j \in IF Cardinality(Cluster(pages, key)) > 2 THEN Cluster(pages, key) ELSE {}}

(* _unique_pairs: the pairs of names in a cluster; two pages of one name   *)
(* are none.                                                               *)
UniquePairs(pages, key) ==
  {{pages[i].slug, pages[j].slug} : i, j \in Cluster(pages, key)}

AllTopics(pages) == UNION {Topics(pages[k]) : k \in 1..Len(pages)}

(* scan_vault: how often each pair is put to the model, once per cluster.  *)
AskedPairs(pages) ==
  LET pairs == {q \in UNION {UniquePairs(pages, key) : key \in AllTopics(pages)} : Cardinality(q) = 2}
  IN [q \in pairs |-> Cardinality({key \in AllTopics(pages) : q \in UniquePairs(pages, key)})]

(***************************************************************************)
(* Questions                                                               *)
(***************************************************************************)

(* _relevance_score *)
Relevance(p) ==
  5 * Cardinality(p.title_words) + 3 * Cardinality(p.slug_words) + 3 * Cardinality(p.tag_words)

(* Variant: ties are broken by the later page. *)
LaterSooner(score, i, j) == score[i] > score[j] \/ (score[i] = score[j] /\ i > j)

(* sorted(reverse=True) keeps the order of equal ones. *)
Sooner(score, i, j) == score[i] > score[j] \/ (score[i] = score[j] /\ i < j)

(* The positions `of`, best first, as lists; there is one. *)
Rankings(of, score) ==
  {r \in [1..Cardinality(of) -> of] :
     /\ \A m, n \in DOMAIN r : m < n => Sooner(score, r[m], r[n])
     /\ \A k \in of : \E m \in DOMAIN r : r[m] = k}

Cut(r) == [m \in {n \in DOMAIN r : n <= TopCount} |-> r[m]]

(* The first max_pages, whatever their score. *)
Scores(pages) == [k \in 1..Len(pages) |-> Relevance(pages[k])]
Top(pages) == {Cut(r) : r \in Rankings(1..Len(pages), Scores(pages))}

(* The control tower's search for one topic, in title, slug and body. *)
TopicScore(p) ==
  (IF "title" \in p.hits THEN 3 ELSE 0) + (IF "slug" \in p.hits THEN 2 ELSE 0)
    + (IF "body" \in p.hits THEN 1 ELSE 0)
TopicScores(pages) == [k \in 1..Len(pages) |-> TopicScore(pages[k])]

(* Variant: the first pages that hit are taken, then ranked. *)
FirstHits(pages) ==
  LET hit == {k \in 1..Len(pages) : TopicScore(pages[k]) > 0}
  IN {k \in hit : Cardinality({j \in hit : j < k}) < TopCount}

(* WikiAdapter.query: pages without a hit are left out, then ranked, then  *)
(* cut.                                                                    *)
Hitting(pages) == {k \in 1..Len(pages) : TopicScore(pages[k]) > 0}
Snippets(pages) == {Cut(r) : r \in Rankings(Hitting(pages), TopicScores(pages))}

Lint ==
  /\ lintReport = NoReport
  /\ \E top \in Top(lintPages), snippets \in Snippets(lintPages) :
       lintReport' = [labels |-> Labels(lintPages), orphans |-> Orphans(lintPages),
                      asked |-> AskedPairs(lintPages), top |-> top, snippets |-> snippets]
  /\ UNCHANGED lintPages
LintSpec == LintInit /\ [][Lint]_lintVars

(***************************************************************************)
(* Properties, of a finished report                                        *)
(***************************************************************************)
Reported == lintReport # NoReport
Positions == 1..Len(lintPages)

(* Of two dated pages under one rule the older one's label is never the    *)
(* fresher one, also at exactly a threshold (lint_page).                   *)
Rank(l) == CASE l = "current" -> 0 [] l = "stale" -> 1 [] l = "archived" -> 2 [] OTHER -> 3
AgeOnlyWorsens ==
  Reported => \A i, j \in Positions :
    LET p == lintPages[i]  q == lintPages[j] IN
      (RuleFor(p) = RuleFor(q) /\ ~p.flagged /\ Undated < p.age /\ p.age <= q.age)
        => Rank(lintReport.labels[i]) <= Rank(lintReport.labels[j])

(* An orphan is a page no other page links to, by its name or its title,   *)
(* and every page that no page at all links to is one unless it is an      *)
(* index (find_orphans).                                                   *)
LinksTo(p, q) == {q.slug, q.title} \intersect p.links # {}
OrphansStandAlone ==
  Reported => \A i \in Positions :
    LET p == lintPages[i] IN
      /\ i \in lintReport.orphans => \A j \in Positions \ {i} : ~LinksTo(lintPages[j], p)
      /\ (p.slug \notin Exempt /\ \A j \in Positions : ~LinksTo(lintPages[j], p))
           => i \in lintReport.orphans

(* Two pages of different names are put to the model exactly when they     *)
(* share a tag, a link or their type, whatever other pages share their     *)
(* names; never a page with itself (scan_vault).                           *)
RelatedAreAsked ==
  Reported => DOMAIN lintReport.asked =
    {q \in {{lintPages[i].slug, lintPages[j].slug} : i, j \in Positions} :
       Cardinality(q) = 2 /\ \E i, j \in Positions :
         q = {lintPages[i].slug, lintPages[j].slug} /\ Topics(lintPages[i]) \intersect Topics(lintPages[j]) # {}}

Limited(n) == IF TopCount < n THEN TopCount ELSE n

(* The pages a question is answered from are the best there are: as many   *)
(* as max_pages allows, none left out scores more than one taken, the      *)
(* first of equals are taken, the best comes first (query).                *)
TopIsBest ==
  Reported =>
    /\ DOMAIN lintReport.top = 1..Limited(Len(lintPages))
    /\ \A i \in Range(lintReport.top), j \in Positions \ Range(lintReport.top) :
         Relevance(lintPages[j]) < Relevance(lintPages[i])
           \/ (Relevance(lintPages[j]) = Relevance(lintPages[i]) /\ i < j)
    /\ \A m, n \in DOMAIN lintReport.top :
         m < n => Relevance(lintPages[lintReport.top[m]]) >= Relevance(lintPages[lintReport.top[n]])

(* The control tower is given every page with a hit, up to its limit, and  *)
(* no other, and none it is not given beats one it is (WikiAdapter.query). *)
SnippetsAreBest ==
  Reported =>
    /\ DOMAIN lintReport.snippets = 1..Limited(Cardinality({i \in Positions : lintPages[i].hits # {}}))
    /\ \A i \in Range(lintReport.snippets) :
         /\ lintPages[i].hits # {}
         /\ \A j \in Positions \ Range(lintReport.snippets) :
              TopicScore(lintPages[j]) <= TopicScore(lintPages[i])

(* The report and the answers agree with the definition of each.           *)
LintExact == AgeOnlyWorsens /\ OrphansStandAlone /\ RelatedAreAsked /\ TopIsBest /\ SnippetsAreBest

(* What does not hold (see the README): a pair is asked about once; a page *)
(* only its own body links to is an orphan.                                *)
AskedOnce == Reported => \A q \in DOMAIN lintReport.asked : lintReport.asked[q] = 1
SelfLinksDoNotCount ==
  Reported => \A i \in Positions :
    (lintPages[i].slug \notin Exempt /\ \A j \in Positions \ {i} : ~LinksTo(lintPages[j], lintPages[i]))
      => i \in lintReport.orphans
=============================================================================
