------------------------------- MODULE MCWiki -------------------------------
(***************************************************************************)
(* Small instances of the wiki: the engine, the syncs, the publisher, and  *)
(* what it computes over its pages.  They share no state here: a behaviour *)
(* is one of one of them, the others rest.                                 *)
(***************************************************************************)
EXTENDS WikiEngine, WikiSync, Publisher, WikiLint

CONSTANTS s1, s2, oom, index, g1, g2, l1, l2
VARIABLE part

vars == <<part, wikiVars, syncVars, publishVars, lintVars>>

Human(type, deps, fresh) == [type |-> type, sources |-> {s1}, deps |-> deps, scope |-> FALSE, fresh |-> fresh]
SmallHuman == {NoFile, Human("none", TRUE, "pending_revalidation"), Human("broken", FALSE, "current")}

SomeAlert(id, stamp, state, ends) == [id |-> id, stamp |-> stamp, state |-> state, ends |-> ends]
A(id) == SomeAlert(id, "recent", "resolved", FALSE)
SmallBatch ==
  {<<A(1)>>, <<A(1), SomeAlert(2, "none", "firing", TRUE)>>, <<A(2), A(0), A(2)>>,
   <<SomeAlert(1, "old", "resolved", TRUE), SomeAlert(2, "unreadable", "firing", FALSE)>>}

P(slug, type, source, age, flagged, tags, links) ==
  [slug |-> slug, title |-> IF slug = "a" THEN "A" ELSE slug, type |-> type, source |-> source,
   age |-> age, flagged |-> flagged, tags |-> tags, links |-> links,
   title_words |-> tags, slug_words |-> links \intersect {"A"},
   tag_words |-> IF flagged THEN {"t", "u"} ELSE {},
   hits |-> (IF tags # {} THEN {"title"} ELSE {}) \union (IF links # {} THEN {"body"} ELSE {})
              \union (IF type = "incident" THEN {"slug"} ELSE {})]
SmallSpaces == [p \in SyncPage |-> IF p = PageCount THEN "B" ELSE "A"]

First == {P("a", "concept", src, age, f, {"t"}, ls) :
            src \in {"", "confluence"}, age \in {29, 30, 180}, f \in BOOLEAN, ls \in {{}, {"a"}, {"b"}}}
Second == {P(n, t, "confluence", age, FALSE, ts, ls) :
             n \in {"a", "b"}, t \in {"concept", "incident"}, age \in {89, 179, 180, 181}, ts \in {{}, {"t"}}, ls \in {{}, {"A"}}}
Third == {P("c", "runbook", "", -1, FALSE, {"t", "u"}, {"c"}), P("c", "incident", "", 365, FALSE, {}, {"b"})}
SmallPages ==
  {<<>>} \union {<<p, q, r>> : p \in First, q \in Second, r \in Third}

Init ==
  /\ part \in {"engine", "confluence", "signoz", "publisher", "lint"}
  /\ WikiInit /\ SyncInit /\ PublishInit /\ LintInit
  /\ IF part = "confluence" THEN PageCount \in upstream ELSE upstream = {}
  /\ part # "publisher" => made = 0
  /\ part # "lint" => lintPages = <<>>

EngineStep(B) == part = "engine" /\ B /\ UNCHANGED <<part, syncVars, publishVars, lintVars>>
SyncStep(p, B) == part = p /\ B /\ UNCHANGED <<part, wikiVars, publishVars, lintVars>>
PublisherStep(B) == part = "publisher" /\ B /\ UNCHANGED <<part, wikiVars, syncVars, lintVars>>
LintStep(B) == part = "lint" /\ B /\ UNCHANGED <<part, wikiVars, syncVars, publishVars>>

(* Confluence's last page is a space of its own, and stays there.          *)
OtherSpaceStays == PageCount \in upstream'

(* Each call has a source of its own; an edit or an archive run, and a     *)
(* crash in or after the second; the overview is written beside one call.  *)
OwnSource == s2 \notin call'[g1].source /\ s1 \notin call'[g2].source
FewTroubles == edits' + archives' <= 1 /\ losses' <= archives'
                 /\ (overview'.writing => call'[g2].at = "idle")

Next ==
  \/ EngineStep(WikiNext /\ OwnSource /\ FewTroubles)
  \/ SyncStep("confluence", ConfluenceNext /\ OtherSpaceStays)
  \/ SyncStep("signoz", SignozNext)
  \/ PublisherStep(PublishNext)
  \/ LintStep(Lint)

(* The model answers or fails, and the threads of a publish come back.     *)
Spec ==
  /\ Init /\ [][Next]_vars
  /\ \A c \in Ingest : WF_vars(EngineStep(Answer(c)))
  /\ \A j \in Job : WF_vars(PublisherStep(JobStep(j)))

(* An ingest that was begun and a publish job that was posted both end.    *)
WorkEnds == IngestEnds /\ JobEnds

=============================================================================
