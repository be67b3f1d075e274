----------------------------- MODULE K8sConsumer -----------------------------
(***************************************************************************)
(* The Kubernetes state-subscription consumer                              *)
(* (state_subscription/consumers/k8s.py).                                  *)
(*                                                                         *)
(* stream() starts one daemon thread per (kind, namespace).  A thread      *)
(* watches the API server, compares every object with _last_values and     *)
(* hands changes to the event loop with call_soon_threadsafe; the loop     *)
(* runs the callbacks in order (pending) and puts them into a bounded      *)
(* asyncio.Queue, which stream() reads.  Threads, callbacks and the reader *)
(* interleave; watches break and are retried; the stream may be cancelled  *)
(* at any moment.                                                          *)
(*                                                                         *)
(* An artifact is one tracked field of one object.  Its log is the         *)
(* sequence of values it took in the cluster, Gone when it was deleted; a  *)
(* new watch starts with the objects that exist.                           *)
(***************************************************************************)
EXTENDS Naturals, Sequences, FiniteSets, FiniteSetsExt, SequencesExt

CONSTANTS Watcher,     \* threads, one per (kind, namespace)
          Artifact,    \* tracked fields
          Owner,       \* the thread that watches an artifact
          Val,         \* values of a field; None may be one of them
          NoValue,     \* None
          Gone,        \* "the object was deleted"
          Unset,       \* _UNSET: absent from _last_values
          QueueMax,    \* queue_maxsize
          MaxRetries,  \* max_retries
          MaxLog,      \* bound: changes of an artifact
          MaxFails,    \* bound: broken watches
          MaxReturns   \* bound: watches the server ends normally

ASSUME OwnerAssumption == Artifact # {} /\ Owner \in [Artifact -> Watcher]
ASSUME ValueAssumption == Gone \notin Val /\ Unset \notin Val /\ Gone # Unset
ASSUME BoundAssumption ==
  /\ QueueMax \in Nat \ {0} /\ MaxRetries \in Nat
  /\ MaxLog \in Nat /\ MaxFails \in Nat /\ MaxReturns \in Nat

VARIABLES
  log,      \* values of each artifact in the cluster
  cursor,   \* how much of the log the current watch has delivered
  last,     \* _last_values
  pc,       \* where a thread is in _watch_loop
  cur,      \* the artifact a thread in "emit" compares
  retries,  \* its consecutive failures
  stop,     \* _stop_event
  pending,  \* callbacks given to call_soon_threadsafe
  queue,    \* the bounded asyncio.Queue
  stream,   \* "open", "raised" or "closed"
  got,      \* the value last yielded to the invalidation engine
  drops,    \* history: "lost" when the artifact's newest event was dropped
  fails,    \* broken watches so far
  returns   \* watches ended by the server so far

cluster == <<log>>
thread == <<cursor, last, pc, cur, retries>>
reader == <<stop, queue, stream, got, drops>>
counts == <<fails, returns>>
vars == <<log, cursor, last, pc, cur, retries, stop, pending, queue, stream,
          got, drops, fails, returns>>

Event == [kind : {"event"}, art : Artifact, old : Val \union {NoValue}, new : Val]
Error == [kind |-> "error"]   \* _STREAM_ERROR
End == [kind |-> "end"]       \* _STREAM_END
Item == Event \union {Error, End}

TypeOK ==
  /\ log \in [Artifact -> Seq(Val \union {Gone})]
  /\ cursor \in [Artifact -> Nat]
  /\ last \in [Artifact -> Val \union {Unset}]
  /\ pc \in [Watcher -> {"loop", "watch", "emit", "sleep", "gaveup", "ended"}]
  /\ cur \in [Watcher -> Artifact]
  /\ retries \in [Watcher -> 0 .. MaxRetries]
  /\ stop \in BOOLEAN
  /\ pending \in Seq(Item) /\ queue \in Seq(Item) /\ Len(queue) =< QueueMax
  /\ stream \in {"open", "raised", "closed"}
  /\ got \in [Artifact -> Val \union {Unset}]
  /\ drops \in [Artifact -> {"none", "lost", "healed"}]
  /\ fails \in Nat /\ returns \in Nat

(* stream() is called when the cluster already holds the objects.          *)
Init ==
  /\ \E v \in [Artifact -> Val] : log = [a \in Artifact |-> <<v[a]>>]
  /\ cursor = [a \in Artifact |-> 0]
  /\ last = [a \in Artifact |-> Unset] /\ got = last
  /\ pc = [w \in Watcher |-> "loop"]
  /\ cur \in {[w \in Watcher |-> a] : a \in {CHOOSE a \in Artifact : TRUE}}
  /\ retries = [w \in Watcher |-> 0]
  /\ stop = FALSE /\ stream = "open"
  /\ pending = <<>> /\ queue = <<>>
  /\ drops = [a \in Artifact |-> "none"]
  /\ fails = 0 /\ returns = 0

-----------------------------------------------------------------------------
(* The cluster: a field changes, its object is deleted or comes back.      *)
Write(a) ==
  /\ Len(log[a]) < MaxLog
  /\ \E v \in (Val \union {Gone}) \ {Last(log[a])} :
       log' = [log EXCEPT ![a] = Append(@, v)]
  /\ UNCHANGED <<thread, reader, pending, counts>>

(* The i-th watch event of a: DELETED carries the object as it last was.   *)
Carried(a, i) == IF log[a][i] = Gone THEN log[a][i - 1] ELSE log[a][i]

-----------------------------------------------------------------------------
(* A first observation tells None as the old value.                        *)
Old(v) == IF v = Unset THEN NoValue ELSE v

(* A thread's _watch_loop.                                                 *)
Goto(w, l) == pc' = [pc EXCEPT ![w] = l]
Enqueue(item) == pending' = Append(pending, item)
Leave(w) == Goto(w, "ended") /\ Enqueue(End)

(* Faulty variants of the actions below, which the properties must reject: *)
(* a reconnect that forgets its baseline, one that lists nothing, a        *)
(* baseline that is not moved, a thread that ends with its watch, a queue  *)
(* without a bound, and one that counts itself full too early.             *)
ForgettingConnect(w) ==
  /\ pc[w] = "loop" /\ ~stop /\ Goto(w, "watch")
  /\ cursor' = [a \in Artifact |-> IF Owner[a] # w THEN cursor[a] ELSE Len(log[a]) - 1]
  /\ last' = [a \in Artifact |-> IF Owner[a] # w THEN last[a] ELSE Unset]
  /\ UNCHANGED <<log, cur, retries, reader, pending, counts>>

BlindConnect(w) ==
  /\ pc[w] = "loop" /\ ~stop /\ Goto(w, "watch")
  /\ cursor' = [a \in Artifact |-> IF Owner[a] # w THEN cursor[a] ELSE Len(log[a])]
  /\ UNCHANGED <<log, last, cur, retries, reader, pending, counts>>

FaultyEmit(w) ==
  LET a == cur[w]
      v == Carried(a, cursor[a] + 1)
  IN /\ pc[w] = "emit" /\ Goto(w, "watch")
     /\ cursor' = [cursor EXCEPT ![a] = @ + 1]
     /\ Enqueue([kind |-> "event", art |-> a, old |-> Old(last[a]), new |-> v])
     /\ UNCHANGED <<log, last, cur, retries, reader, counts>>

FaultyReturns(w) ==
  /\ pc[w] = "watch" /\ returns < MaxReturns
  /\ returns' = returns + 1
  /\ Leave(w)
  /\ UNCHANGED <<log, cursor, last, cur, retries, reader, fails>>

FaultyPut ==
  /\ pending # <<>>
  /\ pending' = Tail(pending) /\ queue' = Append(queue, Head(pending))
  /\ UNCHANGED <<cluster, thread, stop, stream, got, drops, counts>>

EarlyPut ==
  /\ pending # <<>>
  /\ pending' = Tail(pending)
  /\ LET item == Head(pending)
         full == Len(queue) + 1 >= QueueMax
     IN /\ queue' = IF full THEN queue ELSE Append(queue, item)
        /\ drops' = [a \in Artifact |->
             IF item.kind = "event" /\ item.art = a /\ full THEN "lost" ELSE drops[a]]
  /\ UNCHANGED <<cluster, thread, stop, stream, got, counts>>

(* _run_watch_once: the new watch lists what exists, then follows it.      *)
Connect(w) ==
  /\ pc[w] = "loop" /\ ~stop
  /\ Goto(w, "watch")
  /\ cursor' = [a \in Artifact |->
                  IF Owner[a] # w THEN cursor[a]
                  ELSE IF Last(log[a]) = Gone THEN Len(log[a])
                  ELSE Len(log[a]) - 1]
  /\ UNCHANGED <<log, last, cur, retries, reader, pending, counts>>

(* The watch yields an object; the stop event is looked at first.          *)
Tick(w) ==
  /\ pc[w] = "watch"
  /\ \E a \in Artifact :
       /\ Owner[a] = w /\ cursor[a] < Len(log[a])
       /\ cur' = [cur EXCEPT ![w] = a]
  /\ IF stop THEN Leave(w) ELSE Goto(w, "emit") /\ UNCHANGED pending
  /\ UNCHANGED <<log, cursor, last, retries, reader, counts>>

(* _emit_changes_for_object: the baseline is moved, then the event handed  *)
(* to the loop; an unchanged value is passed over.                         *)
Emit(w) ==
  LET a == cur[w]
      v == Carried(a, cursor[a] + 1)
  IN /\ pc[w] = "emit"
     /\ Goto(w, "watch")
     /\ cursor' = [cursor EXCEPT ![a] = @ + 1]
     /\ last' = [last EXCEPT ![a] = v]
     /\ IF last[a] = v
        THEN UNCHANGED pending
        ELSE Enqueue([kind |-> "event", art |-> a, old |-> Old(last[a]), new |-> v])
     /\ UNCHANGED <<log, cur, retries, reader, counts>>

(* The server ends the watch: the retry count starts over.                 *)
Returns(w) ==
  /\ pc[w] = "watch" /\ returns < MaxReturns
  /\ returns' = returns + 1
  /\ retries' = [retries EXCEPT ![w] = 0]
  /\ Goto(w, "loop")
  /\ UNCHANGED <<log, cursor, last, cur, reader, pending, fails>>

(* The watch raises: stop, give up with _STREAM_ERROR, or back off.        *)
Fails(w) ==
  /\ pc[w] = "watch" /\ fails < MaxFails
  /\ fails' = fails + 1
  /\ \/ stop /\ Leave(w) /\ UNCHANGED retries
     \/ /\ ~stop /\ retries[w] = MaxRetries
        /\ Goto(w, "gaveup") /\ Enqueue(Error) /\ UNCHANGED retries
     \/ /\ ~stop /\ retries[w] < MaxRetries
        /\ Goto(w, "sleep") /\ retries' = [retries EXCEPT ![w] = @ + 1]
        /\ UNCHANGED pending
  /\ UNCHANGED <<log, cursor, last, cur, reader, returns>>

(* The backoff elapses, or the stop event cuts it short.                   *)
Wake(w) ==
  /\ pc[w] = "sleep" /\ ~stop
  /\ Goto(w, "loop")
  /\ UNCHANGED <<log, cursor, last, cur, retries, reader, pending, counts>>

Stopped(w) ==
  /\ pc[w] \in {"loop", "sleep"} /\ stop
  /\ Leave(w)
  /\ UNCHANGED <<log, cursor, last, cur, retries, reader, counts>>

Thread(w) == Connect(w) \/ Tick(w) \/ Emit(w) \/ Wake(w) \/ Stopped(w)

-----------------------------------------------------------------------------
(* _put runs on the loop: a full queue drops the item, sentinels included. *)
Put ==
  /\ pending # <<>>
  /\ pending' = Tail(pending)
  /\ LET item == Head(pending)
         full == Len(queue) = QueueMax
     IN /\ queue' = IF full THEN queue ELSE Append(queue, item)
        /\ drops' = [a \in Artifact |->
             IF item.kind # "event" \/ item.art # a THEN drops[a]
             ELSE IF full THEN "lost"
             ELSE IF drops[a] = "lost" THEN "healed" ELSE drops[a]]
  /\ UNCHANGED <<cluster, thread, stop, stream, got, counts>>

(* stream() takes an item: an event is yielded, an error is raised and the *)
(* finally clause stops the threads.  End is never taken (EndUnread).      *)
Get ==
  /\ stream = "open" /\ queue # <<>>
  /\ queue' = Tail(queue)
  /\ LET item == Head(queue)
     IN \/ /\ item.kind = "event"
           /\ got' = [got EXCEPT ![item.art] = item.new]
           /\ UNCHANGED <<stop, stream>>
        \/ /\ item.kind = "error"
           /\ stream' = "raised" /\ stop' = TRUE
           /\ UNCHANGED got
  /\ UNCHANGED <<cluster, thread, pending, drops, counts>>

(* The reader's task is cancelled.                                         *)
Close ==
  /\ stream = "open"
  /\ stream' = "closed" /\ stop' = TRUE
  /\ UNCHANGED <<cluster, thread, pending, queue, got, drops, counts>>

Next == \/ \E a \in Artifact : Write(a)
        \/ \E w \in Watcher : Thread(w) \/ Returns(w) \/ Fails(w)
        \/ Put \/ Get \/ Close

Spec == Init /\ [][Next]_vars

(* Threads are scheduled and an open watch delivers what changed, the loop *)
(* runs its callbacks and the engine reads on; nothing has to break.       *)
Fairness == /\ \A w \in Watcher : WF_vars(Thread(w))
            /\ WF_vars(Put) /\ WF_vars(Get)

FairSpec == Spec /\ Fairness

-----------------------------------------------------------------------------
Sent == queue \o pending
EventsOf(a) == {i \in DOMAIN Sent : Sent[i].kind = "event" /\ Sent[i].art = a}

(* Once the engine has read all that is on its way, v is what it heard.    *)
WillHear(a, v) ==
  \/ EventsOf(a) = {} /\ got[a] = v
  \/ \E i \in EventsOf(a) : Sent[i].new = v /\ \A j \in EventsOf(a) : j =< i

(* The baseline a thread compares against is the newest event that is      *)
(* delivered or on its way, unless that event was dropped by a full queue: *)
(* otherwise a change could be passed over as already reported.            *)
Accounted == \A a \in Artifact : drops[a] # "lost" => WillHear(a, last[a])

(* The events of an artifact are read as one chain: while nothing of it    *)
(* was dropped, the first starts from None and each later one from the     *)
(* value the previous one ended with, and none tells the value that was    *)
(* heard already, reconnects included (_emit_changes_for_object).          *)
Chained ==
  [][\A a \in Artifact :
       LET e == Head(queue)
       IN (Get /\ e.kind = "event" /\ e.art = a /\ drops[a] = "none")
            => e.old = Old(got[a]) /\ e.new # got[a]]_vars

(* Threads, callbacks and queue together are one line of changes in which  *)
(* only what finds the queue full is lost (_watch_loop, _emit_changes_for_ *)
(* object and stream against ChangeFeed).                                  *)
Feed == INSTANCE ChangeFeed WITH
  known <- last, way <- Sent, heard <- got, open <- (stream = "open"), Room <- QueueMax,
  lost <- {a \in Artifact : drops[a] # "none"}

(* What the engine hears are the changes that were noticed, in order, each *)
(* joined to the one before it.                                            *)
HeardInOrder == Feed!Spec /\ Chained

(* _STREAM_END is only sent after the stream was left, so the branch that  *)
(* waits for the last thread (k8s.py:266-271) never runs.                  *)
EndUnread ==
  stream = "open" => \A i \in DOMAIN Sent : Sent[i].kind # "end"

(* What is handed over is accounted for, and no end is taken for the end   *)
(* of the stream.                                                          *)
HandoverSound == TypeOK /\ Accounted /\ EndUnread

(* When changes cease, the engine has heard the current value of every     *)
(* field that still exists, unless a full queue dropped it or the stream   *)
(* was left.  A drop is not repaired by a reconnect.                       *)
Converges ==
  <>[](\A a \in Artifact :
         (stream = "open" /\ drops[a] # "lost" /\ Last(log[a]) # Gone
            /\ pc[Owner[a]] # "gaveup")
           => got[a] = Last(log[a]))

-----------------------------------------------------------------------------
(* __init__ (k8s.py:108-110): "A slow downstream invalidation engine will  *)
(* eventually block the watcher threads".                                  *)
NothingDropped == \A a \in Artifact : drops[a] = "none"

(* _watch_loop (k8s.py:319-321): after max_retries the thread pushes       *)
(* _STREAM_ERROR "so the async caller can re-raise".                       *)
ExhaustedRaises == \A w \in Watcher : pc[w] = "gaveup" ~> stream # "open"

(* StateChangeEvent (state_subscription/models.py:31-32): new_value "is    *)
(* None when the artifact was deleted", so a deletion the watch delivered  *)
(* leaves the engine with another value than before.                       *)
DeletionReported ==
  \A a \in Artifact :
    (/\ Last(log[a]) = Gone /\ cursor[a] = Len(log[a])
     /\ EventsOf(a) = {} /\ drops[a] = "none") => got[a] = NoValue

(* StateChangeEvent.is_change (state_subscription/models.py:59-66): a      *)
(* consumer should emit no event whose new value is the old one.  The      *)
(* first event of a field whose value is None does so.                     *)
OnlyChanges ==
  \A i \in DOMAIN Sent : Sent[i].kind = "event" => Sent[i].old # Sent[i].new
=============================================================================
