------------------------------ MODULE ChangeFeed -----------------------------
(***************************************************************************)
(* What a consumer of state changes amounts to for the engine that reads   *)
(* it (state_subscription/consumers/k8s.py): however many threads watch,   *)
(* one line of changes, each from what was known of its artifact before,   *)
(* heard in the order they were noticed.  What finds no room in the line   *)
(* is lost; an error ends it.                                              *)
(***************************************************************************)
EXTENDS Naturals, Sequences

CONSTANTS Artifact, Val,
          Unset,    \* nothing is known of an artifact
          NoValue,  \* None: what an event tells of an artifact not known before
          Room    \* how many may wait without loss

VARIABLES known,  \* the value last noticed of each artifact
          way,    \* changes and signals that are neither heard nor lost
          heard,  \* the value last heard of each artifact
          lost,   \* artifacts of which a change was lost
          open    \* the engine listens

feedVars == <<known, way, heard, lost, open>>

Old(v) == IF v = Unset THEN NoValue ELSE v
Change(a, v) == [kind |-> "event", art |-> a, old |-> Old(known[a]), new |-> v]
Signal == {[kind |-> "error"], [kind |-> "end"]}

Init ==
  /\ known = [a \in Artifact |-> Unset] /\ heard = known
  /\ way = <<>> /\ lost = {} /\ open = TRUE

(* Only a value other than the one known is noticed.                       *)
Notice(a, v) ==
  /\ v # known[a]
  /\ known' = [known EXCEPT ![a] = v]
  /\ way' = Append(way, Change(a, v))
  /\ UNCHANGED <<heard, lost, open>>

(* A source gives up, or ends once nobody listens.                         *)
Tell(signal) ==
  /\ open => signal.kind = "error"
  /\ way' = Append(way, signal)
  /\ UNCHANGED <<known, heard, lost, open>>

Hear ==
  /\ open /\ way # <<>> /\ way' = Tail(way)
  /\ \/ /\ Head(way).kind = "event"
        /\ heard' = [heard EXCEPT ![Head(way).art] = Head(way).new]
        /\ UNCHANGED open
     \/ Head(way).kind = "error" /\ open' = FALSE /\ UNCHANGED heard
  /\ UNCHANGED <<known, lost>>

(* The first that finds no room goes; those behind it may still arrive.    *)
Lose ==
  /\ Len(way) > Room
  /\ way' = [i \in 1 .. Len(way) - 1 |-> way[IF i <= Room THEN i ELSE i + 1]]
  /\ lost' = lost \union {a \in Artifact : way[Room + 1].kind = "event" /\ way[Room + 1].art = a}
  /\ UNCHANGED <<known, heard, open>>

Leave == open /\ open' = FALSE /\ UNCHANGED <<known, way, heard, lost>>

Next ==
  \/ \E a \in Artifact, v \in Val : Notice(a, v)
  \/ \E signal \in Signal : Tell(signal)
  \/ Hear \/ Lose \/ Leave

Spec == Init /\ [][Next]_feedVars
=============================================================================
