----------------------------- MODULE WikiEngine -----------------------------
(***************************************************************************)
(* The wiki engine (src/apps/ai-engine/wiki/engine.py, synthesizer.py and  *)
(* staleness.py's archiving): each source is put to the model, which skips *)
(* it, merges it into a page or writes a new page; the overview is written *)
(* anew under a human preamble; old pages move to _archive.                *)
(*                                                                         *)
(* Calls run on one event loop and give way only while the model answers,  *)
(* so between the load of the vault and the save there are two answers in  *)
(* which other calls, and people at their editors, work on the same files. *)
(* A file is what its frontmatter says; bodies are left out.  The model    *)
(* (the LLM) is outside and answers anything.                              *)
(***************************************************************************)
EXTENDS Naturals, FiniteSets

CONSTANTS
  WSource,       \* sources
  Slug,          \* page names
  Overview,      \* the one the overview page is kept under in memory
  Ingest,        \* calls of ingest
  WrittenType,   \* the types the model gives a page it writes
  HumanFile,     \* what people write
  MaxEdits, MaxArchives, MaxLosses, \* bounds on people, archive runs, crashes
  MaxBlocks      \* how often the overview is written anew over its own text

Types == {"entity", "concept", "incident", "runbook"}
(* _PAGE_TYPE_DIRS, the directories load_vault reads, in order.            *)
Shelves == <<"entities", "concepts", "incidents", "runbooks">>
Dirs == {Shelves[i] : i \in DOMAIN Shelves} \union {"entitys", "_archive"}
Freshness == {"current", "archived", "needs_review", "pending_revalidation"}

(* type: also "none" and "other", for a frontmatter that names no type or  *)
(* an unknown one, and "broken" for one that does not parse.               *)
File == [type : Types \union {"none", "other", "broken"}, sources : SUBSET WSource,
         deps : BOOLEAN, scope : BOOLEAN, fresh : Freshness]
NoFile == [type |-> "absent", sources |-> {}, deps |-> FALSE, scope |-> FALSE, fresh |-> "current"]

ASSUME WikiAssumption ==
  /\ Overview \in Slug /\ WrittenType \subseteq Types /\ HumanFile \subseteq File \union {NoFile}
  /\ MaxEdits \in Nat /\ MaxArchives \in Nat /\ MaxLosses \in Nat /\ MaxBlocks \in Nat

VARIABLES
  vault,      \* the files, by directory and name
  memory,     \* _pages_by_slug: pages, or NoFile
  call,       \* per ingest: where it stands
  overview,   \* overview.md: what a person last wrote above its marker (version), whether it
              \* has the marker, the frontmatter blocks above it; and the rewrite in flight
  edits, archives, losses

wikiVars == <<vault, memory, call, overview, edits, archives, losses>>

Idle == [at |-> "idle", source |-> {}, target |-> NoFile, slug |-> Overview, type |-> "none"]

WikiInit ==
  /\ vault = [d \in Dirs |-> [s \in Slug |-> NoFile]]
  /\ memory = [s \in Slug |-> NoFile]
  /\ call = [c \in Ingest |-> Idle]
  /\ overview = [version |-> 0, marker |-> FALSE, blocks |-> 0, writing |-> FALSE, kept |-> 0, keptBlocks |-> 0]
  /\ edits = 0 /\ archives = 0 /\ losses = 0

(* "s" is stripped from the directory's name: "entities" gives "entitie",  *)
(* which is no type.                                                       *)
Inferred(d) ==
  CASE d = "runbooks" -> "runbook" [] d = "incidents" -> "incident"
    [] d = "entitys" -> "entity" [] OTHER -> "concept"

(* Variant: the type is taken as it stands. *)
RawParsed(d, f) == f

(* WikiPage.from_file, when the frontmatter parses. *)
Parsed(d, f) ==
  [f EXCEPT !.type = IF @ = "none" THEN Inferred(d) ELSE IF @ = "other" THEN "concept" ELSE @]

Readable(d, s) == vault[d][s].type \notin {"absent", "broken"}

(* load_vault: of two pages of one name the later shelf's is remembered.   *)
Loaded ==
  [s \in Slug |->
     LET on == {i \in DOMAIN Shelves : Readable(Shelves[i], s)}
     IN IF on = {} THEN NoFile
        ELSE LET last == CHOOSE i \in on : \A j \in on : j <= i
             IN Parsed(Shelves[last], vault[Shelves[last]][s])]

(* The directory save writes to: the type with an "s". *)
Home(t) ==
  CASE t = "entity" -> "entitys" [] t = "concept" -> "concepts"
    [] t = "incident" -> "incidents" [] t = "runbook" -> "runbooks"

(* ingest of one source: load the vault, then ask for a decision. *)
Begin(c, source) ==
  /\ call[c].at = "idle"
  /\ memory' = Loaded
  /\ call' = [call EXCEPT ![c] = [Idle EXCEPT !.at = "deciding", !.source = {source}]]
  /\ UNCHANGED <<vault, overview, edits, archives, losses>>

(* The model's answer moves a call on (_call). *)
Answered(c, next) == [call[c] EXCEPT !.at = next]

(* The model says skip, or nothing that parses as a decision. *)
Skip(c) ==
  /\ call[c].at = "deciding"
  /\ call' = [call EXCEPT ![c] = Answered(c, "skipped")]
  /\ UNCHANGED <<vault, memory, overview, edits, archives, losses>>

(* Create (asked for no page), or update of a page that is not in memory,  *)
(* which falls back to it; a decision without a type takes the source's    *)
(* default.                                                                *)
Create(c, asked, type) ==
  /\ call[c].at = "deciding"
  /\ \A s \in asked : memory[s] = NoFile
  /\ call' = [call EXCEPT ![c] = [Answered(c, "creating") EXCEPT !.type = type]]
  /\ UNCHANGED <<vault, memory, overview, edits, archives, losses>>

(* Update of a page in memory, as the last load or save of any call left   *)
(* it there.                                                               *)
Target(c, slug) ==
  /\ call[c].at = "deciding" /\ memory[slug] # NoFile
  /\ call' = [call EXCEPT ![c] = [Answered(c, "merging") EXCEPT !.target = memory[slug], !.slug = slug]]
  /\ UNCHANGED <<vault, memory, overview, edits, archives, losses>>

(* What to_markdown writes of a page the synthesizer built: no dependency, *)
(* no scope, current, whatever the frontmatter of the answer says.         *)
Fresh(type, sources) ==
  [type |-> type, sources |-> sources, deps |-> FALSE, scope |-> FALSE, fresh |-> "current"]

(* Variant: the sources of the answer replace those of the page. *)
AnswerOnly(c, given) == given \union call[c].source

(* merge_into_page: the page's sources as it was read, the answer's, and   *)
(* the one merged.                                                         *)
MergedSources(c, given) == call[c].target.sources \union given \union call[c].source

(* The page comes back under the slug, type and sources the answer gives,  *)
(* those asked for only where it gives none.                               *)
Save(c, slug, page) ==
  /\ vault' = [vault EXCEPT ![Home(page.type)][slug] = page]
  /\ memory' = [memory EXCEPT ![slug] = page]
  /\ call' = [call EXCEPT ![c] = Answered(c, "saved")]
  /\ UNCHANGED <<overview, edits, archives, losses>>

SaveNew(c, slug, type, given) ==
  call[c].at = "creating" /\ Save(c, slug, Fresh(type, given))

SaveMerged(c, slug, type, given) ==
  call[c].at = "merging" /\ Save(c, slug, Fresh(type, MergedSources(c, given)))

(* Variant: the model is asked again from the start. *)
AskAgain(c) ==
  /\ call[c].at \in {"creating", "merging"}
  /\ call' = [call EXCEPT ![c] = [Idle EXCEPT !.at = "deciding", !.source = call[c].source]]
  /\ UNCHANGED <<vault, memory, overview, edits, archives, losses>>

(* The answer's frontmatter does not parse: the call raises. *)
Garble(c) ==
  /\ call[c].at \in {"creating", "merging"}
  /\ call' = [call EXCEPT ![c] = Answered(c, "failed")]
  /\ UNCHANGED <<vault, memory, overview, edits, archives, losses>>

(* A model call raises. *)
Fail(c) ==
  /\ call[c].at \in {"deciding", "creating", "merging"}
  /\ call' = [call EXCEPT ![c].at = "failed"]
  /\ UNCHANGED <<vault, memory, overview, edits, archives, losses>>

Answer(c) ==
  \/ Skip(c) \/ Garble(c) \/ Fail(c)
  \/ \E asked \in {{}} \union {{s} : s \in Slug}, t \in WrittenType : Create(c, asked, t)
  \/ \E s \in Slug : Target(c, s)
  \/ \E s \in Slug, t \in WrittenType :
       (\E g \in {{}, call[c].source} : SaveNew(c, s, t, g)) \/ SaveMerged(c, s, t, {})

(* update_overview: load, read what is above the marker, ask.  All of it   *)
(* is the preamble, the frontmatter of the last rewrite included.          *)
ReadOverview ==
  /\ ~overview.writing /\ overview.blocks < MaxBlocks
  /\ memory' = Loaded
  /\ overview' = [overview EXCEPT !.writing = TRUE,
                    !.kept = IF overview.marker THEN overview.version ELSE 0,
                    !.keptBlocks = IF overview.marker THEN overview.blocks ELSE 0]
  /\ UNCHANGED <<vault, call, edits, archives, losses>>

(* Variant: what is kept is what is below the marker. *)
LowerHalf ==
  /\ overview.writing
  /\ overview' = [overview EXCEPT !.writing = FALSE, !.marker = TRUE, !.version = 0, !.blocks = 1]
  /\ memory' = [memory EXCEPT ![Overview] = Fresh("concept", {})]
  /\ UNCHANGED <<vault, call, edits, archives, losses>>

(* The answer is written below the preamble that was read, and a           *)
(* frontmatter (to_markdown) above it.                                     *)
WriteOverview ==
  /\ overview.writing
  /\ overview' = [overview EXCEPT !.writing = FALSE, !.marker = TRUE,
                    !.version = overview.kept, !.blocks = overview.keptBlocks + 1]
  /\ memory' = [memory EXCEPT ![Overview] = Fresh("concept", {})]
  /\ UNCHANGED <<vault, call, edits, archives, losses>>

DropOverview ==
  /\ overview.writing /\ overview' = [overview EXCEPT !.writing = FALSE]
  /\ UNCHANGED <<vault, memory, call, edits, archives, losses>>

(* The file a slug stands for in auto_archive: the first one the walk of   *)
(* the vault meets, in whatever order it walks.                            *)
Stem(s) == {d \in Dirs \ {"_archive"} : vault[d][s] # NoFile}

(* Variant: the file is removed, then written to the archive. *)
UnlinkFirst(moved, half, from) ==
  [d \in Dirs |-> [s \in Slug |->
     IF s \in moved \union half /\ d = from[s] THEN NoFile
     ELSE IF s \in moved /\ d = "_archive" THEN [vault[from[s]][s] EXCEPT !.fresh = "archived"]
     ELSE vault[d][s]]]

(* Written to the archive, then removed; `half` is what a crash left in    *)
(* between.                                                                *)
Moved(moved, half, from) ==
  [d \in Dirs |-> [s \in Slug |->
     IF s \in moved /\ d = from[s] THEN NoFile
     ELSE IF s \in moved \union half /\ d = "_archive"
       THEN [vault[from[s]][s] EXCEPT !.fresh = "archived"]
     ELSE vault[d][s]]]

Restart ==
  /\ memory' = [s \in Slug |-> NoFile]
  /\ call' = [c \in Ingest |-> IF call[c].at \in {"deciding", "creating", "merging"}
                               THEN [call[c] EXCEPT !.at = "failed"] ELSE call[c]]
  /\ overview' = [overview EXCEPT !.writing = FALSE]
  /\ losses' = losses + 1

(* auto_archive of a report: the slugs the linter found past their         *)
(* threshold, whatever has become of them since.  A slug without a file is *)
(* skipped.                                                                *)
AutoArchive(report) ==
  /\ archives < MaxArchives /\ archives' = archives + 1
  /\ \E from \in [Slug -> Dirs \ {"_archive"}] :
       /\ \A s \in Slug : Stem(s) # {} => from[s] \in Stem(s)
       /\ \A s \in Slug : Stem(s) = {} => from[s] = "entities"
       /\ LET found == {s \in report : Stem(s) # {}} IN
          \/ /\ vault' = Moved(found, {}, from)
             /\ UNCHANGED <<memory, call, overview, losses>>
          \/ /\ losses < MaxLosses /\ Restart
             /\ \E half \in found : vault' = Moved(found \ {half}, {half}, from)
  /\ UNCHANGED edits

(* The process ends between two steps. *)
Lose ==
  /\ losses < MaxLosses /\ Restart
  /\ UNCHANGED <<vault, edits, archives>>

(* People at their editors. *)
Edit(d, s, f) ==
  /\ edits < MaxEdits /\ edits' = edits + 1
  /\ d # "_archive" /\ vault' = [vault EXCEPT ![d][s] = f]
  /\ UNCHANGED <<memory, call, overview, archives, losses>>

(* The person leaves the frontmatter where it is, or takes it out. *)
EditOverview(marker, clean) ==
  /\ edits < MaxEdits /\ edits' = edits + 1
  /\ overview' = [overview EXCEPT !.version = edits + 1, !.marker = marker,
                    !.blocks = IF clean THEN 0 ELSE @]
  /\ UNCHANGED <<vault, memory, call, archives, losses>>

WikiNext ==
  \/ \E c \in Ingest, s \in WSource : Begin(c, s)
  \/ \E c \in Ingest : Answer(c)
  \/ ReadOverview \/ WriteOverview \/ DropOverview
  \/ \E report \in SUBSET Slug \ {{}} : AutoArchive(report)
  \/ Lose
  \/ \E d \in {"entities", "incidents"}, s \in Slug, f \in HumanFile : Edit(d, s, f)
  \/ \E m, clean \in BOOLEAN : EditOverview(m, clean)

WikiSpec == WikiInit /\ [][WikiNext]_wikiVars

(***************************************************************************)
(* Properties                                                              *)
(***************************************************************************)

(* Every state variable holds what the code keeps in it. *)
WikiTypeOK ==
  /\ vault \in [Dirs -> [Slug -> File \union {NoFile}]]
  /\ memory \in [Slug -> File \union {NoFile}]
  /\ \A s \in Slug : memory[s].type \in Types \union {"absent"}
  /\ \A c \in Ingest :
       /\ call[c].at \in {"idle", "deciding", "creating", "merging", "saved", "skipped", "failed"}
       /\ call[c].at = "merging" => call[c].target.type \in Types
  /\ overview.version \in 0..MaxEdits /\ overview.kept \in 0..MaxEdits
  /\ overview.blocks \in 0..MaxBlocks /\ overview.keptBlocks \in 0..MaxBlocks

(* What a merge saves names every source of the page it was given and the  *)
(* one merged, whatever the model answers and under whatever name and type *)
(* it comes back (merge_into_page).  What other calls added to the file in *)
(* the meantime is another matter: see SourcesSurvive.                     *)
MergeKeeps ==
  [][\A c \in Ingest : (call[c].at = "merging" /\ call'[c].at = "saved") =>
       \E d \in Dirs, s \in Slug :
         /\ vault'[d][s].type # "absent" /\ vault'[d][s] = memory'[s]
         /\ call[c].target.sources \union call[c].source \subseteq vault'[d][s].sources]_wikiVars

(* A page stays in the vault or in the archive through everything the      *)
(* engine and the archiving do, a crash halfway included; only people      *)
(* remove one.                                                             *)
Holds(v, s) == \E d \in Dirs : v[d][s] # NoFile
NothingVanishes ==
  [][edits' = edits => \A s \in Slug : Holds(vault, s) => Holds(vault', s)]_wikiVars

(* What a person wrote above the overview's marker stays there: a rewrite  *)
(* begun with the marker in place puts the same text back, unless it       *)
(* changed while the model was asked (update_overview).  It is not all     *)
(* that stands there afterwards: see OneFrontmatter.                       *)
PreambleKept ==
  [][(overview.writing /\ ~overview'.writing /\ overview.marker /\ overview.kept = overview.version
        /\ losses' = losses) => overview'.version = overview.version]_wikiVars

(* An ingest that has begun ends, if the model's answers or errors arrive. *)
IngestEnds ==
  \A c \in Ingest : call[c].at \in {"deciding", "creating", "merging"}
    ~> call[c].at \in {"saved", "skipped", "failed"}

(* A merge, an archive run and a rewrite of the overview keep what they    *)
(* were given, with calls, editors and a crash between their steps.        *)
WikiSound == []WikiTypeOK /\ MergeKeeps /\ NothingVanishes /\ PreambleKept

(* What does not hold (see the README): no source that a file names goes   *)
(* missing by an ingest; a page that was saved is found by the next load;  *)
(* one name is one file; a page's dependencies last through a merge; an    *)
(* archived page stays away; what is above the overview's marker is human  *)
(* prose (and at most the page's one frontmatter).                         *)
SourcesSurvive ==
  [][edits' = edits =>
       \A s \in Slug, x \in WSource : (\E d \in Dirs : x \in vault[d][s].sources)
                                        => \E d \in Dirs : x \in vault'[d][s].sources]_wikiVars
SavedIsFound == \A s \in Slug : vault["entitys"][s] = NoFile
OneFileEach == \A s \in Slug : Cardinality(Stem(s)) <= 1
DependenciesLast ==
  [][edits' = edits => \A d \in Dirs, s \in Slug :
       (vault[d][s].deps /\ vault'[d][s] # NoFile) => vault'[d][s].deps]_wikiVars
StaysArchived ==
  [][\A s \in Slug : (Stem(s) = {} /\ vault["_archive"][s] # NoFile /\ edits' = edits) => Stem(s)' = {}]_wikiVars
OneFrontmatter == overview.blocks <= 1
=============================================================================
