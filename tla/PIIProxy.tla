------------------------------ MODULE PIIProxy ------------------------------
(***************************************************************************)
(* The redacting proxy (proxy): AnthropicProxy with its PlaceholderMapper  *)
(* and PIIDetector.  A text is a sequence of items: a value the detector   *)
(* recognises, plain words, or a placeholder <<category, n>>.  Callers run *)
(* in threads of their own; each step below holds the mapper's lock once.  *)
(***************************************************************************)
EXTENDS Integers, Sequences, FiniteSets, SequencesExt

CONSTANTS Caller,
          Value, Plain,   \* values worth hiding, and other words
          Torn,           \* a piece of a placeholder that was cut in two
          CategoryOf,     \* the category the detector gives a value
          Requests,       \* what callers send: sequences of parts
          Invented,       \* placeholders Claude may write of its own accord
          Preserve,       \* preserve_mapping
          Ttl, MaxNow,    \* mapping_ttl_seconds; bound on the clock
          MaxScopes,      \* bound on the requests
          MaxDeltas,      \* bound on the deltas of a stream
          NoScope

Category == {CategoryOf[v] : v \in Value}
Placeholder == Category \X (Nat \ {0})
Item == Value \union {Plain, Torn} \union Placeholder
Part == [text : Seq(Item), block : BOOLEAN]  \* block: one the proxy looks into

ASSUME ProxyAssumption ==
  /\ Plain \notin Value /\ Torn \notin Value /\ Torn \notin Placeholder /\ DOMAIN CategoryOf = Value
  /\ \A v \in Value : v \notin Placeholder  \* no pattern matches a placeholder
  /\ Requests \subseteq Seq(Part) /\ Invented \subseteq Placeholder /\ Preserve \in BOOLEAN
  /\ Ttl \in Nat /\ MaxNow \in Nat /\ MaxScopes \in Nat /\ MaxDeltas \in Nat

VARIABLES
  now,
  scopes,   \* PlaceholderMapper._scopes by scope id
  used,     \* scope ids handed out
  req,      \* the callers' requests
  stray     \* scopes of streams whose iterator never ran

proxyVars == <<now, scopes, used, req, stray>>

Scope == [born : Nat, reverse : SUBSET (Value \X Placeholder)]
Idle == [at |-> "idle"]
Request == [at : {"redacting", "asked", "streaming", "returned", "raised"}, stream : BOOLEAN,
            asked : Requests, sent : Seq(Part), scope : 1..MaxScopes, got : Seq(Seq(Item)),
            echo : Seq(Nat \X Nat), live : BOOLEAN]

ProxyTypeOK ==
  /\ now \in 0..MaxNow /\ used \in 0..MaxScopes
  /\ scopes \in [1..MaxScopes -> Scope \union {NoScope}]
  /\ req \in [Caller -> {Idle} \union Request]
  /\ stray \subseteq 1..used
  /\ \A s \in 1..MaxScopes : scopes[s] # NoScope => s <= used

ProxyInit ==
  /\ now = 0 /\ used = 0 /\ stray = {}
  /\ scopes = [s \in 1..MaxScopes |-> NoScope]
  /\ req = [c \in Caller |-> Idle]

-----------------------------------------------------------------------------
(* Faulty variants: a numbering that forgets the category's count, or      *)
(* starts at zero, a request sent raw when its scope expired, a scope kept *)
(* after its request, an answer restored by whichever scope knows.         *)
SameNumber(reverse, v) == <<CategoryOf[v], 1>>
ZeroNumber(reverse, v) ==
  <<CategoryOf[v], Cardinality({p \in reverse : p[2][1] = CategoryOf[v]})>>
StaleRedact(c) ==
  LET r == req[c]  part == r.asked[Len(r.sent) + 1] IN
  /\ r.at = "redacting" /\ Len(r.sent) < Len(r.asked)
  /\ ~(scopes[r.scope] # NoScope /\ scopes[r.scope].born >= now - Ttl)
  /\ req' = [req EXCEPT ![c].sent = Append(@, part)]
  /\ UNCHANGED <<now, scopes, used, stray>>
KeptScope(c) == scopes
NewestRestore(s, text) ==
  [i \in 1..Len(text) |->
     IF \E j \in 1..MaxScopes : scopes[j] # NoScope /\ \E p \in scopes[j].reverse : p[2] = text[i]
     THEN CHOOSE v \in Value : \E j \in 1..MaxScopes :
            scopes[j] # NoScope /\ <<v, text[i]>> \in scopes[j].reverse
     ELSE text[i]]

-----------------------------------------------------------------------------
(* _get: a scope that is there and not older than its time to live.        *)
Lives(s) == scopes[s] # NoScope /\ scopes[s].born >= now - Ttl

(* placeholder_for: the next number of the category.                       *)
Numbered(reverse, v) ==
  <<CategoryOf[v], 1 + Cardinality({p \in reverse : p[2][1] = CategoryOf[v]})>>
Noted(reverse, v) ==
  IF \E p \in reverse : p[1] = v THEN reverse
  ELSE reverse \union {<<v, Numbered(reverse, v)>>}

(* Each value of a text notes its placeholder, from left to right.         *)
NotedAll(reverse, text) ==
  FoldLeft(LAMBDA acc, i : IF i \in Value THEN Noted(acc, i) ELSE acc, reverse, text)
PlaceholderOf(reverse, v) == (CHOOSE p \in reverse : p[1] = v)[2]
Redacted(reverse, text) ==
  [i \in 1..Len(text) |-> IF text[i] \in Value THEN PlaceholderOf(reverse, text[i]) ELSE text[i]]

(* restore: known placeholders give way to their values, others stay.      *)
Restored(s, text) ==
  IF ~Lives(s) THEN text
  ELSE LET reverse == scopes[s].reverse IN
       [i \in 1..Len(text) |->
          IF \E p \in reverse : p[2] = text[i]
          THEN (CHOOSE p \in reverse : p[2] = text[i])[1] ELSE text[i]]

HasValue(text) == \E i \in 1..Len(text) : text[i] \in Value

(* The finally clause of _invoke.                                          *)
Dropped(c) ==
  IF req[c].stream \/ Preserve THEN scopes ELSE [scopes EXCEPT ![req[c].scope] = NoScope]
Strays(c) == IF req[c].stream THEN stray \union {req[c].scope} ELSE stray

-----------------------------------------------------------------------------
FreshScope(c) == used + 1
(* create: a new scope for the request.                                    *)
Create(c, r, stream) ==
  /\ req[c].at \in {"idle", "returned", "raised"} /\ used < MaxScopes
  /\ used' = used + 1
  /\ scopes' = [scopes EXCEPT ![FreshScope(c)] = [born |-> now, reverse |-> {}]]
  /\ req' = [req EXCEPT ![c] = [at |-> "redacting", stream |-> stream, asked |-> r, sent |-> <<>>,
                                scope |-> FreshScope(c), got |-> <<>>, echo |-> <<>>, live |-> TRUE]]
  /\ UNCHANGED <<now, stray>>

(* One text: detected and rewritten; other blocks go as they are.          *)
Redact(c) ==
  LET r == req[c]  s == r.scope  part == r.asked[Len(r.sent) + 1] IN
  /\ r.at = "redacting" /\ Len(r.sent) < Len(r.asked)
  /\ IF part.block /\ HasValue(part.text)
     THEN /\ Lives(s)
          /\ LET reverse == NotedAll(scopes[s].reverse, part.text) IN
             /\ scopes' = [scopes EXCEPT ![s].reverse = reverse]
             /\ req' = [req EXCEPT ![c].sent =
                          Append(@, [part EXCEPT !.text = Redacted(reverse, part.text)])]
     ELSE req' = [req EXCEPT ![c].sent = Append(@, part)] /\ UNCHANGED scopes
  /\ UNCHANGED <<now, used, stray>>

(* The scope expired in between: redact raises, nothing is sent.           *)
RedactRaises(c) ==
  LET r == req[c] IN
  /\ r.at = "redacting" /\ Len(r.sent) < Len(r.asked) /\ ~Lives(r.scope)
  /\ LET part == r.asked[Len(r.sent) + 1] IN part.block /\ HasValue(part.text)
  /\ req' = [req EXCEPT ![c].at = "raised", ![c].sent = <<>>]
  /\ scopes' = [scopes EXCEPT ![r.scope] = NoScope]
  /\ UNCHANGED <<now, used, stray>>

(* The SDK call: the request is on the wire.                               *)
Send(c) ==
  /\ req[c].at = "redacting" /\ Len(req[c].sent) = Len(req[c].asked)
  /\ req' = [req EXCEPT ![c].at = IF req[c].stream THEN "streaming" ELSE "asked"]
  /\ UNCHANGED <<now, scopes, used, stray>>

(* It raises, at once or, without a stream, later.                         *)
SendRaises(c) ==
  /\ \/ req[c].at = "redacting" /\ Len(req[c].sent) = Len(req[c].asked)
     \/ req[c].at = "asked"
  /\ req' = [req EXCEPT ![c].at = "raised"]
  /\ scopes' = Dropped(c) /\ stray' = Strays(c)
  /\ UNCHANGED <<now, used>>

(* Claude says a text again that it was sent (the k-th), or a placeholder  *)
(* of its own; what the caller is given starts at its from-th item.        *)
Says(c, k, text) ==
  \/ k \in 1..Len(req[c].sent) /\ text = req[c].sent[k].text
  \/ k = 0 /\ \E p \in Invented : text = <<p>>
Given(c, k, from, text) ==
  [req[c] EXCEPT !.got = Append(@, Restored(req[c].scope, text)),
                 !.echo = Append(@, <<k, from>>), !.live = @ /\ Lives(req[c].scope)]
Spoken(c) == {<<p>> : p \in Invented} \union {p.text : p \in Range(req[c].sent)}

(* A whole answer: restored, and the scope dropped.                        *)
Respond(c) ==
  /\ req[c].at = "asked"
  /\ \E k \in 0..Len(req[c].sent), text \in Spoken(c) :
       /\ Says(c, k, text)
       /\ req' = [req EXCEPT ![c] = [Given(c, k, 1, text) EXCEPT !.at = "returned"]]
  /\ scopes' = Dropped(c)
  /\ UNCHANGED <<now, used, stray>>

(* A delta of a stream: a run of the items, of which the first and the     *)
(* last may be cut, where a placeholder leaves a piece nobody knows.       *)
Delta(text, from, to, cut) ==
  [i \in 1..(to - from + 1) |->
     IF from + i - 1 \in cut /\ text[from + i - 1] \in Placeholder THEN Torn
     ELSE text[from + i - 1]]

(* An event of a stream: each delta is restored on its own.                *)
Event(c) ==
  /\ req[c].at = "streaming" /\ Len(req[c].got) < MaxDeltas
  /\ \E k \in 0..Len(req[c].sent), text \in Spoken(c) :
       /\ Says(c, k, text)
       /\ \E from, to \in 1..Len(text) : \E cut \in SUBSET {from, to} :
            from <= to /\ req' = [req EXCEPT ![c] = Given(c, k, from, Delta(text, from, to, cut))]
  /\ UNCHANGED <<now, scopes, used, stray>>

(* The iterator ends, or is closed, or the stream raises, once it has run. *)
EndStream(c) ==
  /\ req[c].at = "streaming"
  /\ req' = [req EXCEPT ![c].at = "returned"]
  /\ scopes' = IF Preserve THEN scopes ELSE [scopes EXCEPT ![req[c].scope] = NoScope]
  /\ UNCHANGED <<now, used, stray>>

(* The caller lets the iterator go before its first event.                 *)
Abandon(c) ==
  /\ req[c].at = "streaming" /\ req[c].got = <<>>
  /\ req' = [req EXCEPT ![c].at = "returned"]
  /\ stray' = stray \union {req[c].scope}
  /\ UNCHANGED <<now, scopes, used>>

Sweep ==
  /\ scopes' = [s \in 1..MaxScopes |-> IF Lives(s) THEN scopes[s] ELSE NoScope]
  /\ scopes' # scopes
  /\ UNCHANGED <<now, used, req, stray>>

Tick == now < MaxNow /\ now' = now + 1 /\ UNCHANGED <<scopes, used, req, stray>>

ProxyNext ==
  \/ \E c \in Caller :
       \/ \E r \in Requests, stream \in BOOLEAN : Create(c, r, stream)
       \/ Redact(c) \/ RedactRaises(c) \/ Send(c) \/ SendRaises(c)
       \/ Respond(c) \/ Event(c) \/ EndStream(c) \/ Abandon(c)
  \/ Sweep \/ Tick

ProxySpec == ProxyInit /\ [][ProxyNext]_proxyVars

-----------------------------------------------------------------------------
Busy(c) == req[c].at \in {"redacting", "asked", "streaming"}

(* A request that is on the wire carries no value of a text block, however *)
(* its scope fared while it was being redacted (proxy._redact_request).    *)
NothingOnTheWire ==
  \A c \in Caller : req[c].at \in {"asked", "streaming", "returned"} =>
    \A k \in 1..Len(req[c].sent) : req[c].sent[k].block => ~HasValue(req[c].sent[k].text)

(* A caller is given back values of its own request only, whatever the     *)
(* other threads' placeholders are called (mapper.py on isolated scopes).  *)
OwnValues ==
  \A c \in Caller : req[c].at # "idle" =>
    \A g \in Range(req[c].got) : \A i \in 1..Len(g) :
      g[i] \in Value => \E p \in Range(req[c].asked) : g[i] \in Range(p.text)

(* A whole answer repeats the text; a delta repeats it from an item on, up *)
(* to the placeholders at its ends that may be cut.                        *)
Repeats(given, text, from, stream) ==
  /\ stream \/ given = text
  /\ \A i \in 1..Len(given) :
       \/ given[i] = text[from + i - 1]
       \/ given[i] = Torn /\ stream /\ i \in {1, Len(given)}
Echoed(r) ==
  \A i \in 1..Len(r.got) :
    r.echo[i][1] # 0 => Repeats(r.got[i], r.asked[r.echo[i][1]].text, r.echo[i][2], r.stream)

(* What Claude repeats comes back as the caller wrote it, in a stream too  *)
(* where the delta holds the whole placeholder, if the scope was alive and *)
(* the request held no placeholder of its own (proxy.py).                  *)
EchoRestored ==
  \A c \in Caller : req[c].at # "idle" /\ req[c].live
      /\ (\A p \in Range(req[c].asked) : \A x \in Range(p.text) : x \notin Placeholder)
    => Echoed(req[c])

(* Without preserve_mapping the mapper forgets: a scope is held for a      *)
(* request in progress or for a stream whose iterator never ran.           *)
ScopesLetGo ==
  ~Preserve => \A s \in 1..MaxScopes : scopes[s] # NoScope =>
    s \in stray \/ \E c \in Caller : Busy(c) /\ req[c].scope = s

(* Nothing goes out raw and nothing comes back from another request.       *)
ProxySound == ProxyTypeOK /\ NothingOnTheWire /\ OwnValues /\ EchoRestored /\ ScopesLetGo

(* proxy.py says a scope is dropped at the end unless preserve_mapping is  *)
(* set.  Not so for the strays, which nobody sweeps.                       *)
AlwaysDropped == ~Preserve => \A s \in stray : scopes[s] = NoScope

(* proxy.py:9-11 says that each chunk of a stream is restored, so callers  *)
(* never see placeholders.  Not so for one that two deltas share.          *)
NoPlaceholderSeen ==
  \A c \in Caller : req[c].at # "idle" /\ req[c].live =>
    \A i \in 1..Len(req[c].got) : req[c].echo[i][1] # 0 => Torn \notin Range(req[c].got[i])

(* Restoring gives back the caller's words.  Not so when the request holds *)
(* a text that looks like a placeholder the mapper gives out.              *)
EchoExact == \A c \in Caller : req[c].at # "idle" /\ req[c].live => Echoed(req[c])
=============================================================================
