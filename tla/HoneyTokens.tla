----------------------------- MODULE HoneyTokens ----------------------------
(***************************************************************************)
(* The honey tokens (honeytokens): the registry (a SQLite file), the       *)
(* seeder that plants tokens in the vault's files, and the scanner shared  *)
(* by threads, with the Aho-Corasick automaton it builds from the registry.*)
(* A token is its marker, a sequence of characters.  The registry and the  *)
(* vault outlive the process.                                              *)
(***************************************************************************)
EXTENDS Integers, Sequences, FiniteSets, SequencesExt

CONSTANTS Marker,    \* markers the generator draws from
          Texts,     \* texts that are scanned
          Thread, File,
          Count      \* tokens made by one seeding

NoAutomaton == {}
Nobody == "nobody"
Char == UNION {ToSet(w) : w \in Marker \union Texts}

ASSUME HoneyAssumption ==
  /\ Marker \union Texts \subseteq Seq(Char) /\ <<>> \notin Marker
  /\ Count \in Nat \ {0} /\ IsFiniteSet(File) /\ File # {} /\ Nobody \notin Thread

VARIABLES
  registry,   \* rows: the registered markers
  location,   \* seeded_locations of each marker
  vault,      \* the markers planted in each file
  automaton,  \* the patterns of the scanner's automaton
  meta,       \* _marker_to_meta
  lock,       \* the thread that builds, under the scanner's lock
  scans,      \* the threads' scans
  seeder,     \* the seeding in progress
  changed     \* the registry changed since the scanner was invalidated

honeyVars == <<registry, location, vault, automaton, meta, lock, scans, seeder, changed>>
scanVars == <<automaton, meta, lock, scans>>
Hit == [marker : Marker, offset : Nat, known : BOOLEAN]
NoScan == [at |-> "idle"]
NoSeed == [at |-> "idle"]

HoneyTypeOK ==
  /\ registry \subseteq Marker /\ automaton \subseteq Marker /\ meta \subseteq Marker
  /\ location \in [Marker -> SUBSET File] /\ vault \in [File -> SUBSET Marker]
  /\ lock \in Thread \union {Nobody} /\ changed \in BOOLEAN
  /\ \A t \in Thread : scans[t].at \in {"idle", "ensure", "build", "check", "run", "match", "done", "raised"}
  /\ seeder.at \in {"idle", "create", "write", "note"}
  /\ lock \in Thread => scans[lock].at = "build"

HoneyInit ==
  /\ registry = {} /\ location = [m \in Marker |-> {}] /\ vault = [f \in File |-> {}]
  /\ automaton = NoAutomaton /\ meta = {} /\ lock = Nobody /\ changed = FALSE
  /\ scans = [t \in Thread |-> NoScan] /\ seeder = NoSeed

-----------------------------------------------------------------------------
(* Faulty variants: failure links that all lead to the root, a build that  *)
(* keeps the lock, an invalidation that does not wait for it, a seeder     *)
(* that does not look for the sentinel, a location noted for every file.   *)
RootFail(P) == [u \in UNION {{SubSeq(p, 1, n) : n \in 0..Len(p)} : p \in P} |-> <<>>]
StuckBuild(t) ==
  /\ scans[t].at = "build"
  /\ automaton' = scans[t].markers /\ meta' = scans[t].markers
  /\ scans' = [scans EXCEPT ![t] = [at |-> "check", text |-> scans[t].text]]
  /\ UNCHANGED <<registry, location, vault, lock, seeder, changed>>
HastyInvalidate ==
  /\ automaton' = NoAutomaton /\ meta' = {} /\ changed' = FALSE
  /\ UNCHANGED <<registry, location, vault, lock, scans, seeder>>
BlindWrite ==
  LET f == seeder.files[1] IN
  /\ seeder.at = "write" /\ seeder.files # <<>>
  /\ vault' = [vault EXCEPT ![f] = seeder.place[f]]
  /\ seeder' = [seeder EXCEPT !.at = "note"]
  /\ UNCHANGED <<registry, location, scanVars, changed>>
EagerNote(m) ==
  location' = [k \in Marker |-> IF k \in registry THEN location[k] \union File ELSE location[k]]

-----------------------------------------------------------------------------
(* _PurePythonAhoCorasick: a node of the trie is the prefix it stands for. *)
Node(P) == UNION {{SubSeq(p, 1, n) : n \in 0..Len(p)} : p \in P}

(* The loop of both methods: from s up the failure links, all of them of   *)
(* nodes in S, to one that goes on with c; the root if there is none.      *)
Advance(P, S, fail, s, c) ==
  LET climb[x \in S] == IF x = <<>> \/ Append(x, c) \in Node(P) THEN x ELSE climb[fail[x]]
  IN IF Append(climb[s], c) \in Node(P) THEN Append(climb[s], c) ELSE <<>>

(* The failure links, those of shorter nodes first.                        *)
Fail(P) ==
  LET fail[u \in Node(P)] ==
        IF Len(u) <= 1 THEN <<>>
        ELSE Advance(P, {s \in Node(P) : Len(s) < Len(u)}, fail, fail[Front(u)], Last(u))
  IN fail

(* find_all: the node after one more character, and the patterns that end  *)
(* there, the node's own and those of its chain of failure links.          *)
Goto(P, u, c) == Advance(P, Node(P), Fail(P), u, c)
Out(P, u) ==
  LET out[s \in Node(P)] ==
        IF s = <<>> THEN {} ELSE ({s} \intersect P) \union out[Fail(P)[s]]
  IN out[u]

-----------------------------------------------------------------------------
(* create, delete: rows come and go.                                       *)
Insert(m) == registry' = registry \union {m} /\ changed' = TRUE
Delete(m) ==
  /\ m \in registry
  /\ registry' = registry \ {m} /\ changed' = TRUE
  /\ location' = [location EXCEPT ![m] = {}]
  /\ UNCHANGED <<vault, scanVars, seeder>>

(* A fresh marker: random, never drawn before.                             *)
Fresh == Marker \ (registry \union UNION {vault[f] : f \in File})
Register ==
  /\ \E m \in Fresh : Insert(m)
  /\ UNCHANGED <<location, vault, scanVars, seeder>>

Invalidate ==
  /\ lock = Nobody
  /\ automaton' = NoAutomaton /\ meta' = {} /\ changed' = FALSE
  /\ UNCHANGED <<registry, location, vault, lock, scans, seeder>>

-----------------------------------------------------------------------------
Scan(t, text) ==
  /\ scans[t].at \in {"idle", "done", "raised"}
  /\ scans' = [scans EXCEPT ![t] = [at |-> "ensure", text |-> text]]
  /\ UNCHANGED <<registry, location, vault, automaton, meta, lock, seeder, changed>>

(* _ensure: an automaton is used as it is; else the lock is taken and the  *)
(* registry read, unless another thread has built one meanwhile.           *)
Ensure(t) ==
  /\ scans[t].at = "ensure"
  /\ IF automaton # NoAutomaton
     THEN scans' = [scans EXCEPT ![t].at = "check"] /\ UNCHANGED lock
     ELSE /\ lock = Nobody /\ lock' = t
          /\ scans' = [scans EXCEPT ![t] = [at |-> "build", text |-> scans[t].text,
                                            markers |-> registry]]
  /\ UNCHANGED <<registry, location, vault, automaton, meta, seeder, changed>>

(* _build: the metadata of the markers still there, then the automaton; no *)
(* markers, no automaton.                                                  *)
Build(t) ==
  /\ scans[t].at = "build"
  /\ automaton' = scans[t].markers /\ meta' = scans[t].markers \intersect registry
  /\ lock' = Nobody
  /\ scans' = [scans EXCEPT ![t] = [at |-> "check", text |-> scans[t].text]]
  /\ UNCHANGED <<registry, location, vault, seeder, changed>>

(* scan looks at the automaton, and then once more to run it.              *)
Check(t) ==
  /\ scans[t].at = "check"
  /\ scans' = [scans EXCEPT ![t] =
                 IF automaton = NoAutomaton
                 THEN [at |-> "done", text |-> @.text, patterns |-> {}, hits |-> {}]
                 ELSE [at |-> "run", text |-> @.text]]
  /\ UNCHANGED <<registry, location, vault, automaton, meta, lock, seeder, changed>>
Run(t) ==
  /\ scans[t].at = "run"
  /\ scans' = [scans EXCEPT ![t] =
                 IF automaton = NoAutomaton THEN [at |-> "raised", text |-> @.text]
                 ELSE [at |-> "match", text |-> @.text, patterns |-> automaton,
                       node |-> <<>>, pos |-> 0, hits |-> {}]]
  /\ UNCHANGED <<registry, location, vault, automaton, meta, lock, seeder, changed>>

(* One character; a hit takes its metadata from what is cached by then.    *)
Match(t) ==
  LET s == scans[t]
      node == Goto(s.patterns, s.node, s.text[s.pos + 1])
      found == {[marker |-> m, offset |-> s.pos + 1 - Len(m), known |-> m \in meta] :
                  m \in Out(s.patterns, node)}
  IN
  /\ s.at = "match" /\ s.pos < Len(s.text)
  /\ scans' = [scans EXCEPT ![t].node = node, ![t].pos = s.pos + 1, ![t].hits = @ \union found]
  /\ UNCHANGED <<registry, location, vault, automaton, meta, lock, seeder, changed>>
Finish(t) ==
  /\ scans[t].at = "match" /\ scans[t].pos = Len(scans[t].text)
  /\ scans' = [scans EXCEPT ![t] = [at |-> "done", text |-> @.text, patterns |-> @.patterns,
                                    hits |-> @.hits]]
  /\ UNCHANGED <<registry, location, vault, automaton, meta, lock, seeder, changed>>

-----------------------------------------------------------------------------
(* seed_vault: tokens are made one by one, dealt round-robin to the files  *)
(* in a random order, and written file by file.                            *)
SeedCreate ==
  /\ seeder.at \in {"idle", "create"}
  /\ \E m \in Fresh :
       /\ Insert(m)
       /\ LET tokens == IF seeder.at = "idle" THEN <<m>> ELSE Append(seeder.tokens, m) IN
          IF Len(tokens) < Count THEN seeder' = [at |-> "create", tokens |-> tokens]
          ELSE \E order \in SetToSeqs(File) :
                 seeder' = [at |-> "write", files |-> order,
                            place |-> [f \in File |->
                              {tokens[i] : i \in {i \in 1..Count :
                                 order[((i - 1) % Len(order)) + 1] = f}}]]
  /\ UNCHANGED <<location, vault, scanVars>>

(* A file that carries the sentinel, or was dealt nothing, is passed over. *)
SeedSkip ==
  /\ seeder.at = "write" /\ seeder.files # <<>>
  /\ vault[Head(seeder.files)] # {} \/ seeder.place[Head(seeder.files)] = {}
  /\ seeder' = [seeder EXCEPT !.files = Tail(@)]
  /\ UNCHANGED <<registry, location, vault, scanVars, changed>>
SeedWrite ==
  LET f == seeder.files[1] IN
  /\ seeder.at = "write" /\ seeder.files # <<>>
  /\ vault[f] = {} /\ seeder.place[f] # {}
  /\ vault' = [vault EXCEPT ![f] = seeder.place[f]]
  /\ seeder' = [seeder EXCEPT !.at = "note"]
  /\ UNCHANGED <<registry, location, scanVars, changed>>

(* add_seeded_location for the tokens of the file, for rows still there.   *)
LocationNoted(f) ==
  location' = [m \in Marker |-> IF m \in seeder.place[f] \intersect registry
                                THEN location[m] \union {f} ELSE location[m]]
SeedNote ==
  /\ seeder.at = "note"
  /\ LocationNoted(Head(seeder.files))
  /\ seeder' = [seeder EXCEPT !.at = "write", !.files = Tail(@)]
  /\ UNCHANGED <<registry, vault, scanVars, changed>>
SeedEnd ==
  /\ seeder.at = "write" /\ seeder.files = <<>>
  /\ seeder' = NoSeed
  /\ UNCHANGED <<registry, location, vault, scanVars, changed>>

(* The process ends: the registry and the vault stay.                      *)
Crash ==
  /\ automaton' = NoAutomaton /\ meta' = {} /\ lock' = Nobody /\ changed' = FALSE
  /\ scans' = [t \in Thread |-> NoScan] /\ seeder' = NoSeed
  /\ UNCHANGED <<registry, location, vault>>

HoneyNext ==
  \/ \E m \in Marker : Delete(m)
  \/ Register \/ Invalidate
  \/ \E t \in Thread :
       \/ \E text \in Texts : Scan(t, text)
       \/ Ensure(t) \/ Build(t) \/ Check(t) \/ Run(t) \/ Match(t) \/ Finish(t)
  \/ SeedCreate \/ SeedSkip \/ SeedWrite \/ SeedNote \/ SeedEnd
  \/ Crash

HoneySpec == HoneyInit /\ [][HoneyNext]_honeyVars

-----------------------------------------------------------------------------
Occurrences(P, text) ==
  {w \in P \X (0..Len(text)) :
     w[2] + Len(w[1]) <= Len(text) /\ SubSeq(text, w[2] + 1, w[2] + Len(w[1])) = w[1]}

(* A scan that ends finds every occurrence, overlapping ones included, of  *)
(* the markers its automaton was built from, and nothing else.             *)
HitsExact ==
  \A t \in Thread : scans[t].at = "done" =>
    {<<h.marker, h.offset>> : h \in scans[t].hits} = Occurrences(scans[t].patterns, scans[t].text)

(* Since the last invalidation nothing was registered or deleted: then the *)
(* automaton, and one being built, are of the whole registry.              *)
AutomatonFresh ==
  ~changed =>
    /\ automaton \in {NoAutomaton, registry}
    /\ \A t \in Thread : scans[t].at = "build" => scans[t].markers = registry

(* A file is seeded once: no later run adds to it or replaces its block    *)
(* (seeder.py on being idempotent).                                        *)
SeededOnce == [][\A f \in File : vault[f] # {} => vault'[f] = vault[f]]_honeyVars

(* A location is noted only for a file that does carry the marker, across  *)
(* crashes too.                                                            *)
LocationsTrue == \A m \in Marker : \A f \in location[m] : m \in vault[f]

(* The automaton, the registry and the files agree as far as the threads,  *)
(* the seeder and its crashes let them.                                    *)
HoneySound == [](HoneyTypeOK /\ AutomatonFresh /\ LocationsTrue) /\ SeededOnce

(* scanner.py says it is safe to share across threads.  Not so: scan looks *)
(* at the automaton twice, and an invalidation in between makes it raise.  *)
NeverRaises == \A t \in Thread : scans[t].at # "raised"

(* scanner.py says callers can register tokens without a manual refresh.   *)
(* Not so once an automaton is there: create does not invalidate it.       *)
NewTokensSeen == seeder.at = "idle" => automaton \in {NoAutomaton, registry}
=============================================================================
