-------------------------- MODULE K8sConsumerProofs --------------------------
(* Proofs about K8sConsumer, for any set of threads and artifacts, any     *)
(* queue size, and any number of changes, broken watches and retries.      *)
EXTENDS K8sConsumer, SequenceTheorems, TLAPS

(* What the cluster shows of a field begins with a value and is never gone *)
(* twice in a row; a watch is never ahead of it, and a thread that         *)
(* compares has a delivery of its own in hand.                             *)
WatchInv ==
  /\ \A a \in Artifact :
       /\ Len(log[a]) > 0 /\ log[a][1] # Gone /\ cursor[a] =< Len(log[a])
       /\ \A i \in 2 .. Len(log[a]) : log[a][i] = Gone => log[a][i - 1] # Gone
  /\ \A w \in Watcher : pc[w] = "emit" =>
       Owner[cur[w]] = w /\ cursor[cur[w]] < Len(log[cur[w]])

(* The threads are told to stop when the stream was left, not before.      *)
StopInv == stop <=> stream # "open"

(* Accounted also holds of an artifact that lost an event, as soon as the  *)
(* loop has another one of it to put: this is what heals it.               *)
AccountInv ==
  \A a \in Artifact :
    (drops[a] # "lost" \/ \E i \in EventsOf(a) : i > Len(queue)) => WillHear(a, last[a])

(* While nothing of an artifact was dropped its events form a chain that   *)
(* starts at what the engine heard last.                                   *)
Follows(e, v) == e.old = Old(v) /\ e.new # v

ChainInv ==
  \A a \in Artifact : drops[a] = "none" =>
    /\ \A i \in EventsOf(a) : (\A j \in EventsOf(a) : i =< j) => Follows(Sent[i], got[a])
    /\ \A i, j \in EventsOf(a) :
         (i < j /\ \A k \in EventsOf(a) : k =< i \/ j =< k) => Follows(Sent[j], Sent[i].new)

IInv == TypeOK /\ WatchInv /\ StopInv /\ EndUnread /\ AccountInv /\ ChainInv
-----------------------------------------------------------------------------
(* What is on its way, as one sequence, and what the steps do to it.       *)
LEMMA SentType ==
  ASSUME TypeOK
  PROVE  /\ Sent \in Seq(Item) /\ DOMAIN Sent = 1 .. Len(Sent)
         /\ Len(queue) \in Nat /\ Len(pending) \in Nat
         /\ Len(Sent) = Len(queue) + Len(pending)
         /\ \A i \in 1 .. Len(queue) : Sent[i] = queue[i]
         /\ \A i \in 1 .. Len(pending) : Sent[Len(queue) + i] = pending[i]
         /\ \A a : EventsOf(a) \subseteq 1 .. Len(Sent)
<1>1. queue \in Seq(Item) /\ pending \in Seq(Item)
  BY DEF TypeOK
<1>2. /\ Sent \in Seq(Item) /\ Len(Sent) = Len(queue) + Len(pending)
      /\ \A i \in 1 .. Len(queue) + Len(pending) :
           Sent[i] = IF i <= Len(queue) THEN queue[i] ELSE pending[i - Len(queue)]
  BY <1>1, ConcatProperties DEF Sent
<1>3. Len(queue) \in Nat /\ Len(pending) \in Nat /\ DOMAIN Sent = 1 .. Len(Sent)
  BY <1>1, <1>2, LenProperties
<1>4. \A i \in 1 .. Len(pending) : Sent[Len(queue) + i] = pending[i]
  BY <1>2, <1>3
<1>5. \A a : EventsOf(a) \subseteq 1 .. Len(Sent)
  BY <1>3 DEF EventsOf
<1> QED
  BY <1>2, <1>3, <1>4, <1>5

(* A thread that hands an item over appends it.                            *)
LEMMA SendEffect ==
  ASSUME TypeOK, NEW e \in Item, Enqueue(e), queue' = queue
  PROVE  /\ pending' \in Seq(Item)
         /\ Len(Sent') = Len(Sent) + 1 /\ DOMAIN Sent' = 1 .. Len(Sent) + 1
         /\ \A i \in 1 .. Len(Sent) : Sent'[i] = Sent[i]
         /\ Sent'[Len(Sent) + 1] = e
         /\ \A a, i : i \in EventsOf(a)' <=>
              \/ i \in EventsOf(a)
              \/ i = Len(Sent) + 1 /\ e.kind = "event" /\ e.art = a
<1>1. queue \in Seq(Item) /\ pending \in Seq(Item)
  BY DEF TypeOK
<1>2. Sent \in Seq(Item) /\ Len(Sent) \in Nat /\ DOMAIN Sent = 1 .. Len(Sent)
  BY SentType, LenProperties
<1>3. pending' \in Seq(Item)
  BY <1>1, AppendProperties DEF Enqueue
<1>4. Sent' = Append(Sent, e)
  <2>1. <<e>> \in Seq(Item)
    OBVIOUS
  <2>2. pending' = pending \o <<e>>
    BY <1>1, AppendIsConcat DEF Enqueue
  <2>3. queue \o pending' = (queue \o pending) \o <<e>>
    BY <1>1, <2>1, <2>2, ConcatAssociative
  <2> QED
    BY <1>2, <2>3, AppendIsConcat DEF Sent
<1>5. /\ Len(Sent') = Len(Sent) + 1 /\ Sent' \in Seq(Item)
      /\ \A i \in 1 .. Len(Sent) : Sent'[i] = Sent[i]
      /\ Sent'[Len(Sent) + 1] = e
  BY <1>2, <1>4, AppendProperties
<1>6. DOMAIN Sent' = 1 .. Len(Sent) + 1
  BY <1>5, LenProperties
<1>7. ASSUME NEW a, NEW i
      PROVE  i \in EventsOf(a)' <=>
              \/ i \in EventsOf(a)
              \/ i = Len(Sent) + 1 /\ e.kind = "event" /\ e.art = a
  BY <1>2, <1>5, <1>6 DEF EventsOf
<1> QED
  BY <1>3, <1>5, <1>6, <1>7

(* A callback that finds room moves its item without a change of order.    *)
LEMMA PutEffect ==
  ASSUME TypeOK, Put, Len(queue) # QueueMax
  PROVE  /\ queue' \in Seq(Item) /\ pending' \in Seq(Item)
         /\ Len(queue') = Len(queue) + 1 /\ Sent' = Sent
<1>1. queue \in Seq(Item) /\ pending \in Seq(Item) /\ pending # <<>>
  BY DEF TypeOK, Put
<1>2. queue' = Append(queue, Head(pending)) /\ pending' = Tail(pending)
  BY DEF Put
<1>3. /\ Head(pending) \in Item /\ Tail(pending) \in Seq(Item)
      /\ Len(Tail(pending)) = Len(pending) - 1
      /\ \A i \in 1 .. Len(Tail(pending)) : Tail(pending)[i] = pending[i + 1]
  BY <1>1, HeadTailProperties
<1>4. /\ queue' \in Seq(Item) /\ Len(queue') = Len(queue) + 1
      /\ \A i \in 1 .. Len(queue) : queue'[i] = queue[i]
      /\ queue'[Len(queue) + 1] = Head(pending)
  BY <1>1, <1>2, <1>3, AppendProperties
<1>5. /\ Sent' \in Seq(Item) /\ Len(Sent') = Len(queue') + Len(pending')
      /\ \A i \in 1 .. Len(queue') + Len(pending') :
           Sent'[i] = IF i <= Len(queue') THEN queue'[i] ELSE pending'[i - Len(queue')]
  BY <1>2, <1>3, <1>4, ConcatProperties DEF Sent
<1>6. /\ Len(queue) \in Nat /\ Len(pending) \in Nat /\ Sent \in Seq(Item)
      /\ Len(Sent) = Len(queue) + Len(pending)
      /\ \A i \in 1 .. Len(queue) : Sent[i] = queue[i]
      /\ \A i \in 1 .. Len(pending) : Sent[Len(queue) + i] = pending[i]
  BY SentType
<1>7. Len(Sent') = Len(Sent)
  BY <1>2, <1>3, <1>4, <1>5, <1>6
<1>8. ASSUME NEW i \in 1 .. Len(Sent')
      PROVE  Sent'[i] = Sent[i]
  <2>1. CASE i =< Len(queue)
    BY <1>2, <1>3, <1>4, <1>5, <1>6, <2>1
  <2>2. CASE i = Len(queue) + 1
    <3>1. Sent'[i] = Head(pending)
      BY <1>2, <1>3, <1>4, <1>5, <1>6, <2>2
    <3>2. Len(pending) >= 1 /\ Head(pending) = pending[1]
      BY <1>1, EmptySeq
    <3> QED
      BY <1>6, <2>2, <3>1, <3>2
  <2>3. CASE i > Len(queue) + 1
    <3> DEFINE j == i - Len(queue) - 1
    <3>1. j \in 1 .. Len(Tail(pending)) /\ j + 1 \in 1 .. Len(pending)
      BY <1>2, <1>3, <1>4, <1>5, <1>6, <2>3
    <3>2. Sent'[i] = Tail(pending)[j]
      <4>1. /\ i \in 1 .. Len(queue') + Len(pending') /\ ~(i <= Len(queue'))
            /\ i - Len(queue') = j
        BY <1>4, <1>5, <1>6, <2>3
      <4>2. Sent'[i] = pending'[i - Len(queue')]
        BY <1>5, <4>1
      <4> QED
        BY <1>2, <4>1, <4>2
    <3>3. Sent[i] = pending[j + 1]
      <4>1. i = Len(queue) + (j + 1)
        BY <1>6, <2>3
      <4> QED
        BY <1>6, <3>1, <4>1
    <3> QED
      BY <1>3, <3>1, <3>2, <3>3
  <2> QED
    BY <1>6, <1>7, <2>1, <2>2, <2>3
<1> QED
  BY <1>2, <1>3, <1>4, <1>5, <1>6, <1>7, <1>8, SeqEqual
(* A callback that finds the queue full drops its item.                    *)
LEMMA DropEffect ==
  ASSUME TypeOK, Put, Len(queue) = QueueMax
  PROVE  /\ queue' = queue /\ pending' \in Seq(Item)
         /\ Len(Sent') = Len(Sent) - 1 /\ DOMAIN Sent' = 1 .. Len(Sent) - 1
         /\ \A i \in 1 .. Len(Sent) - 1 :
              Sent'[i] = IF i =< Len(queue) THEN Sent[i] ELSE Sent[i + 1]
         /\ \A a, i : i \in EventsOf(a)' <=>
              \/ i \in EventsOf(a) /\ i =< Len(queue)
              \/ i \in 1 .. Len(Sent) /\ i + 1 \in EventsOf(a) /\ i > Len(queue)
<1>1. queue \in Seq(Item) /\ pending \in Seq(Item) /\ pending # <<>>
  BY DEF TypeOK, Put
<1>2. queue' = queue /\ pending' = Tail(pending)
  BY DEF Put
<1>3. /\ Tail(pending) \in Seq(Item) /\ Len(Tail(pending)) = Len(pending) - 1
      /\ \A i \in 1 .. Len(Tail(pending)) : Tail(pending)[i] = pending[i + 1]
  BY <1>1, HeadTailProperties
<1>4. /\ Sent' \in Seq(Item) /\ Len(Sent') = Len(queue) + (Len(pending) - 1)
      /\ \A i \in 1 .. Len(queue) + (Len(pending) - 1) :
           Sent'[i] = IF i <= Len(queue) THEN queue[i] ELSE Tail(pending)[i - Len(queue)]
  BY <1>1, <1>2, <1>3, ConcatProperties DEF Sent
<1>5. /\ Len(queue) \in Nat /\ Len(pending) \in Nat /\ Sent \in Seq(Item)
      /\ Len(Sent) = Len(queue) + Len(pending) /\ DOMAIN Sent = 1 .. Len(Sent)
      /\ \A i \in 1 .. Len(queue) : Sent[i] = queue[i]
      /\ \A i \in 1 .. Len(pending) : Sent[Len(queue) + i] = pending[i]
  BY SentType
<1>6. Len(pending) > 0 /\ Len(Sent') = Len(Sent) - 1 /\ DOMAIN Sent' = 1 .. Len(Sent) - 1
  BY <1>1, <1>4, <1>5, EmptySeq, LenProperties
<1>7. ASSUME NEW i \in 1 .. Len(Sent) - 1
      PROVE  Sent'[i] = IF i =< Len(queue) THEN Sent[i] ELSE Sent[i + 1]
  <2>1. CASE i =< Len(queue)
    BY <1>4, <1>5, <2>1
  <2>2. CASE i > Len(queue)
    <3> DEFINE j == i - Len(queue)
    <3>1. j \in 1 .. Len(pending) - 1 /\ j + 1 \in 1 .. Len(pending) /\ i + 1 = Len(queue) + (j + 1)
      BY <1>5, <2>2
    <3>2. Sent'[i] = Tail(pending)[j]
      BY <1>4, <1>5, <2>2
    <3>3. Sent[i + 1] = pending[j + 1] /\ Tail(pending)[j] = pending[j + 1]
      BY SMTT(20), <1>3, <1>5, <3>1
    <3> QED
      BY <1>5, <2>2, <3>2, <3>3
  <2> QED
    BY <1>5, <2>1, <2>2
<1>8. ASSUME NEW a, NEW i
      PROVE  i \in EventsOf(a)' <=>
              \/ i \in EventsOf(a) /\ i =< Len(queue)
              \/ i \in 1 .. Len(Sent) /\ i + 1 \in EventsOf(a) /\ i > Len(queue)
  BY SMTT(20), <1>5, <1>6, <1>7 DEF EventsOf
<1> QED
  BY <1>2, <1>3, <1>6, <1>7, <1>8

(* The reader takes the first item.                                        *)
LEMMA GetEffect ==
  ASSUME TypeOK, Get
  PROVE  /\ queue' \in Seq(Item) /\ pending' = pending
         /\ Len(queue') = Len(queue) - 1 /\ Head(queue) = Sent[1]
         /\ Len(Sent) > 0 /\ Head(queue) \in Item
         /\ Len(Sent') = Len(Sent) - 1 /\ DOMAIN Sent' = 1 .. Len(Sent) - 1
         /\ \A i \in 1 .. Len(Sent) - 1 : Sent'[i] = Sent[i + 1]
         /\ \A a, i : i \in EventsOf(a)' <=> i \in 1 .. Len(Sent) /\ i + 1 \in EventsOf(a)
<1>1. queue \in Seq(Item) /\ pending \in Seq(Item) /\ queue # <<>>
  BY DEF TypeOK, Get
<1>2. queue' = Tail(queue) /\ pending' = pending
  BY DEF Get, thread, cluster, counts
<1>3. /\ Tail(queue) \in Seq(Item) /\ Len(Tail(queue)) = Len(queue) - 1
      /\ Head(queue) \in Item
      /\ \A i \in 1 .. Len(Tail(queue)) : Tail(queue)[i] = queue[i + 1]
  BY <1>1, HeadTailProperties
<1>4. /\ Sent' \in Seq(Item) /\ Len(Sent') = (Len(queue) - 1) + Len(pending)
      /\ \A i \in 1 .. (Len(queue) - 1) + Len(pending) :
           Sent'[i] = IF i <= Len(queue) - 1 THEN Tail(queue)[i] ELSE pending[i - (Len(queue) - 1)]
  BY <1>1, <1>2, <1>3, ConcatProperties DEF Sent
<1>5. /\ Len(queue) \in Nat /\ Len(pending) \in Nat /\ Sent \in Seq(Item)
      /\ Len(Sent) = Len(queue) + Len(pending) /\ DOMAIN Sent = 1 .. Len(Sent)
      /\ \A i \in 1 .. Len(queue) : Sent[i] = queue[i]
      /\ \A i \in 1 .. Len(pending) : Sent[Len(queue) + i] = pending[i]
  BY SentType
<1>6. Len(queue) > 0 /\ Len(Sent') = Len(Sent) - 1 /\ DOMAIN Sent' = 1 .. Len(Sent) - 1
  BY <1>1, <1>4, <1>5, EmptySeq, LenProperties
<1>7. Head(queue) = Sent[1]
  BY <1>1, <1>5, <1>6
<1>8. ASSUME NEW i \in 1 .. Len(Sent) - 1
      PROVE  Sent'[i] = Sent[i + 1]
  <2>1. CASE i =< Len(queue) - 1
    BY <1>3, <1>4, <1>5, <2>1
  <2>2. CASE i > Len(queue) - 1
    <3> DEFINE j == i - (Len(queue) - 1)
    <3>1. j \in 1 .. Len(pending) /\ i + 1 = Len(queue) + j
      BY <1>5, <2>2
    <3>2. Sent'[i] = pending[j]
      BY <1>4, <1>5, <2>2
    <3> QED
      BY <1>5, <3>1, <3>2
  <2> QED
    BY <1>5, <2>1, <2>2
<1>9. ASSUME NEW a, NEW i
      PROVE  i \in EventsOf(a)' <=> i \in 1 .. Len(Sent) /\ i + 1 \in EventsOf(a)
  BY <1>5, <1>6, <1>8 DEF EventsOf
<1> QED
  BY <1>2, <1>3, <1>5, <1>6, <1>7, <1>8, <1>9
-----------------------------------------------------------------------------
(* What a watch delivers is a value, also of an object that was deleted.   *)
LEMMA CarriedValue ==
  ASSUME TypeOK, WatchInv, NEW a \in Artifact, cursor[a] < Len(log[a])
  PROVE  Carried(a, cursor[a] + 1) \in Val
<1> DEFINE i == cursor[a] + 1
<1>1. /\ log[a] \in Seq(Val \union {Gone}) /\ cursor[a] \in Nat /\ Len(log[a]) \in Nat
      /\ i \in 1 .. Len(log[a])
  BY LenProperties DEF TypeOK
<1>2. \A k \in 1 .. Len(log[a]) : log[a][k] \in Val \union {Gone}
  BY <1>1, ElementOfSeq
<1>3. CASE log[a][i] = Gone
  <2>1. i \in 2 .. Len(log[a]) /\ i - 1 \in 1 .. Len(log[a])
    BY <1>1, <1>3 DEF WatchInv
  <2>2. log[a][i - 1] # Gone
    BY <1>3, <2>1 DEF WatchInv
  <2> QED
    BY <1>2, <1>3, <2>1, <2>2 DEF Carried
<1>4. CASE log[a][i] # Gone
  BY <1>1, <1>2, <1>4 DEF Carried
<1> QED
  BY <1>3, <1>4

(* What a step does to the way from a thread to the reader: it leaves it   *)
(* alone, or a thread hands over a change or a sentinel, or the loop or    *)
(* the reader takes an item.                                               *)
way == <<pending, queue, got, drops, last>>

Quiet ==
  /\ UNCHANGED way
  /\ \/ UNCHANGED <<stream, stop>>
     \/ stream = "open" /\ stream' # "open" /\ stop'

SendsMark == \E e \in {Error, End} :
  /\ Enqueue(e) /\ (e = End => stop)
  /\ UNCHANGED <<queue, got, drops, last, stream, stop>>

SendsEvent == \E a \in Artifact, v \in Val :
  /\ Enqueue([kind |-> "event", art |-> a, old |-> Old(last[a]), new |-> v]) /\ v # last[a]
  /\ last' = [last EXCEPT ![a] = v]
  /\ UNCHANGED <<queue, got, drops, stream, stop>>

LEMMA WaySteps ==
  ASSUME TypeOK, WatchInv, [Next]_vars
  PROVE  Quiet \/ SendsMark \/ SendsEvent \/ Put \/ Get
<1> USE DEF reader, counts, cluster, thread, way
<1>1. ASSUME NEW a \in Artifact, Write(a)
      PROVE  Quiet
  BY <1>1 DEF Write, Quiet
<1>2. ASSUME NEW w \in Watcher, Connect(w) \/ Wake(w) \/ Returns(w)
      PROVE  Quiet
  BY <1>2 DEF Connect, Wake, Returns, Quiet
<1>3. ASSUME NEW w \in Watcher, Tick(w)
      PROVE  Quiet \/ SendsMark
  BY <1>3 DEF Tick, Leave, Quiet, SendsMark
<1>4. ASSUME NEW w \in Watcher, Emit(w)
      PROVE  Quiet \/ SendsEvent
  <2> DEFINE a == cur[w]
             v == Carried(a, cursor[a] + 1)
  <2>1. a \in Artifact /\ cursor[a] < Len(log[a])
    BY <1>4 DEF Emit, TypeOK, WatchInv
  <2>2. v \in Val
    BY <2>1, CarriedValue
  <2>3. last' = [last EXCEPT ![a] = v] /\ UNCHANGED <<queue, got, drops, stream, stop>>
    BY <1>4 DEF Emit
  <2>4. CASE last[a] = v
    BY <1>4, <2>3, <2>4 DEF Emit, Quiet, TypeOK
  <2>5. CASE last[a] # v
    <3>1. Enqueue([kind |-> "event", art |-> a, old |-> Old(last[a]), new |-> v])
      BY <1>4, <2>5 DEF Emit
    <3> QED
      BY <2>1, <2>2, <2>3, <2>5, <3>1 DEF SendsEvent
  <2> QED
    BY <2>4, <2>5
<1>5. ASSUME NEW w \in Watcher, Stopped(w)
      PROVE  SendsMark
  BY <1>5 DEF Stopped, Leave, SendsMark
<1>6. ASSUME NEW w \in Watcher, Fails(w)
      PROVE  Quiet \/ SendsMark
  <2>1. UNCHANGED <<queue, got, drops, last, stream, stop>>
    BY <1>6 DEF Fails
  <2>2. CASE stop /\ Leave(w)
    BY <2>1, <2>2 DEF Leave, SendsMark
  <2>3. CASE Enqueue(Error)
    BY <2>1, <2>3 DEF SendsMark, Error, End
  <2>4. CASE UNCHANGED pending
    BY <2>1, <2>4 DEF Quiet
  <2> QED
    BY <1>6, <2>2, <2>3, <2>4 DEF Fails
<1>7. CASE Close
  BY <1>7 DEF Close, Quiet
<1>8. CASE UNCHANGED vars
  BY <1>8 DEF vars, Quiet
<1> QED
  BY <1>1, <1>2, <1>3, <1>4, <1>5, <1>6, <1>7, <1>8 DEF Next, Thread

-----------------------------------------------------------------------------
(* The inductive invariant, part by part.                                  *)
LEMMA InitIInv == Init => IInv
<1> SUFFICES ASSUME Init PROVE IInv
  OBVIOUS
<1> USE DEF Init
<1>1. PICK v \in [Artifact -> Val] : log = [a \in Artifact |-> <<v[a]>>]
  OBVIOUS
<1>2. PICK a0 \in Artifact : cur = [w \in Watcher |-> a0]
  BY OwnerAssumption
<1>3. \A a \in Artifact : log[a] = <<v[a]>> /\ log[a] \in Seq(Val \union {Gone})
  BY <1>1
<1>4. TypeOK
  <2>1. log \in [Artifact -> Seq(Val \union {Gone})]
    BY <1>1, <1>3
  <2>2. retries \in [Watcher -> 0 .. MaxRetries]
    BY BoundAssumption
  <2>3. /\ pending \in Seq(Item) /\ queue \in Seq(Item) /\ Len(queue) =< QueueMax
    BY BoundAssumption
  <2>4. /\ last \in [Artifact -> Val \union {Unset}] /\ got \in [Artifact -> Val \union {Unset}]
        /\ cur \in [Watcher -> Artifact]
    BY <1>2
  <2> QED
    BY <2>1, <2>2, <2>3, <2>4 DEF TypeOK
<1>5. WatchInv
  BY <1>3, ValueAssumption DEF WatchInv
<1>6. Sent = <<>>
  BY DEF Sent
<1>7. \A a : EventsOf(a) = {}
  BY <1>6 DEF EventsOf
<1>8. StopInv /\ EndUnread
  BY <1>6 DEF StopInv, EndUnread
<1>9. AccountInv /\ ChainInv
  BY <1>7 DEF AccountInv, ChainInv, WillHear
<1> QED
  BY <1>4, <1>5, <1>8, <1>9 DEF IInv

LEMMA TypeStep ==
  ASSUME TypeOK, WatchInv, [Next]_vars
  PROVE  TypeOK'
<1> USE DEF reader, counts, cluster, thread, Goto
<1>1. ASSUME NEW a \in Artifact, Write(a)
      PROVE  TypeOK'
  <2>1. PICK v \in Val \union {Gone} : log' = [log EXCEPT ![a] = Append(@, v)]
    BY <1>1 DEF Write
  <2>2. Append(log[a], v) \in Seq(Val \union {Gone})
    BY AppendProperties DEF TypeOK
  <2> QED
    BY <1>1, <2>1, <2>2 DEF Write, TypeOK
<1>2. ASSUME NEW e \in Item, Enqueue(e), queue' = queue
      PROVE  pending' \in Seq(Item)
  BY <1>2, SendEffect
<1>3. ASSUME NEW w \in Watcher, Connect(w)
      PROVE  TypeOK'
  <2>1. \A a \in Artifact : log[a] \in Seq(Val \union {Gone}) /\ Len(log[a]) \in Nat /\ Len(log[a]) > 0
    BY LenProperties DEF TypeOK, WatchInv
  <2>2. cursor' \in [Artifact -> Nat]
    BY <1>3, <2>1 DEF Connect, TypeOK
  <2> QED
    BY <1>3, <2>2 DEF Connect, TypeOK
<1>4. ASSUME NEW w \in Watcher, Tick(w)
      PROVE  TypeOK'
  BY <1>2, <1>4 DEF Tick, Leave, TypeOK, Item
<1>5. ASSUME NEW w \in Watcher, Emit(w)
      PROVE  TypeOK'
  <2> DEFINE a == cur[w]
             v == Carried(a, cursor[a] + 1)
             e == [kind |-> "event", art |-> a, old |-> Old(last[a]), new |-> v]
  <2>1. a \in Artifact /\ cursor[a] < Len(log[a])
    BY <1>5 DEF Emit, TypeOK, WatchInv
  <2>2. v \in Val
    BY <2>1, CarriedValue
  <2>3. e \in Item
    BY <2>1, <2>2 DEF TypeOK, Item, Event, Old
  <2>4. pending' \in Seq(Item)
    <3>1. queue' = queue /\ (pending' = pending \/ Enqueue(e))
      BY <1>5 DEF Emit
    <3> QED
      BY <1>2, <2>3, <3>1 DEF TypeOK
  <2>5. last' \in [Artifact -> Val \union {Unset}]
    BY <1>5, <2>1, <2>2 DEF Emit, TypeOK
  <2>6. cursor' \in [Artifact -> Nat]
    BY <1>5, <2>1 DEF Emit, TypeOK
  <2> QED
    BY <1>5, <2>4, <2>5, <2>6 DEF Emit, TypeOK
<1>6. ASSUME NEW w \in Watcher, Returns(w) \/ Wake(w)
      PROVE  TypeOK'
  <2>1. 0 \in 0 .. MaxRetries
    BY BoundAssumption
  <2>2. CASE Returns(w)
    <3>1. retries' \in [Watcher -> 0 .. MaxRetries]
      BY <2>1, <2>2 DEF Returns, TypeOK
    <3> QED
      BY <2>2, <3>1 DEF Returns, TypeOK
  <2>3. CASE Wake(w)
    BY <2>3 DEF Wake, TypeOK
  <2> QED
    BY <1>6, <2>2, <2>3
<1>7. ASSUME NEW w \in Watcher, Stopped(w)
      PROVE  TypeOK'
  BY <1>2, <1>7 DEF Stopped, Leave, TypeOK, Item
<1>8. ASSUME NEW w \in Watcher, Fails(w)
      PROVE  TypeOK'
  <2>1. retries' \in [Watcher -> 0 .. MaxRetries]
    BY <1>8, BoundAssumption DEF Fails, TypeOK
  <2>2. pending' \in Seq(Item)
    BY <1>2, <1>8 DEF Fails, Leave, TypeOK, Item
  <2>3. pc' \in [Watcher -> {"loop", "watch", "emit", "sleep", "gaveup", "ended"}]
    BY <1>8 DEF Fails, Leave, TypeOK
  <2> QED
    BY <1>8, <2>1, <2>2, <2>3 DEF Fails, TypeOK
<1>9. CASE Put
  <2>1. queue' \in Seq(Item) /\ pending' \in Seq(Item) /\ Len(queue') =< QueueMax
    <3>1. Len(queue) \in Nat
      BY SentType
    <3>2. CASE Len(queue) = QueueMax
      BY <1>9, <3>2, DropEffect, BoundAssumption DEF TypeOK
    <3>3. CASE Len(queue) # QueueMax
      BY <1>9, <3>1, <3>3, PutEffect, BoundAssumption DEF TypeOK
    <3> QED
      BY <3>2, <3>3
  <2>2. drops' \in [Artifact -> {"none", "lost", "healed"}]
    BY <1>9 DEF Put, TypeOK
  <2> QED
    BY <1>9, <2>1, <2>2 DEF Put, TypeOK
<1>10. CASE Get
  <2>1. /\ queue' \in Seq(Item) /\ Len(queue') = Len(queue) - 1 /\ Head(queue) \in Item
        /\ Len(queue) \in Nat
    BY <1>10, GetEffect, SentType
  <2>2. Len(queue') =< QueueMax
    BY <2>1, BoundAssumption DEF TypeOK
  <2>3. got' \in [Artifact -> Val \union {Unset}]
    <3>1. CASE Head(queue).kind = "event"
      <4>1. Head(queue) \in Event
        BY <2>1, <3>1 DEF Item, Error, End
      <4> QED
        BY <1>10, <4>1 DEF Get, Event, TypeOK
    <3> QED
      BY <1>10, <3>1 DEF Get, TypeOK
  <2> QED
    BY <1>10, <2>1, <2>2, <2>3 DEF Get, TypeOK
<1>11. CASE Close
  BY <1>11 DEF Close, TypeOK
<1>12. CASE UNCHANGED vars
  BY <1>12 DEF vars, TypeOK
<1> QED
  BY <1>1, <1>3, <1>4, <1>5, <1>6, <1>7, <1>8, <1>9, <1>10, <1>11, <1>12 DEF Next, Thread
LEMMA WatchStep ==
  ASSUME TypeOK, WatchInv, [Next]_vars
  PROVE  WatchInv'
<1> USE DEF reader, counts, cluster, thread, Goto
<1>0. \A a \in Artifact : log[a] \in Seq(Val \union {Gone}) /\ Len(log[a]) \in Nat /\ cursor[a] \in Nat
  BY LenProperties DEF TypeOK
<1>1. ASSUME NEW a \in Artifact, Write(a)
      PROVE  WatchInv'
  <2>1. PICK v \in (Val \union {Gone}) \ {Last(log[a])} : log' = [log EXCEPT ![a] = Append(@, v)]
    BY <1>1 DEF Write
  <2> DEFINE n == Len(log[a])
  <2>2. /\ log'[a] = Append(log[a], v) /\ Len(log'[a]) = n + 1 /\ log'[a][n + 1] = v
        /\ \A i \in 1 .. n : log'[a][i] = log[a][i]
    BY <1>0, <2>1, AppendProperties DEF TypeOK
  <2>3. n > 0 /\ v # log[a][n]
    BY <2>1 DEF WatchInv, Last
  <2>4. ASSUME NEW i \in 2 .. Len(log'[a]), log'[a][i] = Gone
        PROVE  log'[a][i - 1] # Gone
    <3>1. CASE i = n + 1
      <4>1. log'[a][i - 1] = log[a][n] /\ v = Gone
        BY <1>0, <2>2, <2>3, <2>4, <3>1
      <4> QED
        BY <2>3, <4>1
    <3>2. CASE i # n + 1
      <4>1. i \in 2 .. n /\ i \in 1 .. n /\ i - 1 \in 1 .. n
        BY <1>0, <2>2, <3>2
      <4>2. log'[a][i] = log[a][i] /\ log'[a][i - 1] = log[a][i - 1]
        BY <2>2, <4>1
      <4> QED
        BY <2>4, <4>1, <4>2 DEF WatchInv
    <3> QED
      BY <3>1, <3>2
  <2>5. UNCHANGED <<cursor, cur, pc>> /\ \A b \in Artifact \ {a} : log'[b] = log[b]
    BY <1>1, <2>1 DEF Write, TypeOK
  <2>6. log'[a][1] # Gone /\ cursor'[a] =< Len(log'[a])
    BY <1>0, <2>2, <2>3, <2>5 DEF WatchInv
  <2>7. \A b \in Artifact : Len(log[b]) =< Len(log'[b])
    BY <1>0, <2>2, <2>5
  <2>8. \A w \in Watcher : pc'[w] = "emit" =>
          Owner[cur'[w]] = w /\ cursor'[cur'[w]] < Len(log'[cur'[w]])
    <3> SUFFICES ASSUME NEW w \in Watcher, pc[w] = "emit"
                 PROVE  Owner[cur[w]] = w /\ cursor[cur[w]] < Len(log'[cur[w]])
      BY <2>5
    <3>1. cur[w] \in Artifact /\ Len(log'[cur[w]]) \in Nat
      BY <1>0, <2>2, <2>5 DEF TypeOK
    <3> QED
      BY <1>0, <2>7, <3>1 DEF WatchInv
  <2>9. ASSUME NEW b \in Artifact
        PROVE  /\ Len(log'[b]) > 0 /\ log'[b][1] # Gone /\ cursor'[b] =< Len(log'[b])
               /\ \A i \in 2 .. Len(log'[b]) : log'[b][i] = Gone => log'[b][i - 1] # Gone
    <3>1. CASE b = a
      <4>1. Len(log'[a]) > 0
        BY <1>0, <2>2, <2>3
      <4> QED
        BY <2>4, <2>6, <3>1, <4>1
    <3>2. CASE b # a
      BY <2>5, <3>2 DEF WatchInv
    <3> QED
      BY <3>1, <3>2
  <2> QED
    BY <2>8, <2>9 DEF WatchInv
<1>2. ASSUME NEW w \in Watcher, Connect(w)
      PROVE  WatchInv'
  <2>1. /\ cursor' \in [Artifact -> Nat] /\ pc' = [pc EXCEPT ![w] = "watch"] /\ UNCHANGED <<log, cur>>
        /\ \A a \in Artifact : cursor'[a] =< Len(log[a]) /\ (Owner[a] # w => cursor'[a] = cursor[a])
    BY <1>0, <1>2 DEF Connect, WatchInv, TypeOK
  <2>2. \A u \in Watcher : pc'[u] = "emit" => u # w /\ pc[u] = "emit" /\ cur[u] \in Artifact
    BY <2>1 DEF TypeOK
  <2> QED
    BY <2>1, <2>2 DEF WatchInv
<1>3. ASSUME NEW w \in Watcher, Tick(w)
      PROVE  WatchInv'
  <2>1. PICK a \in Artifact : Owner[a] = w /\ cursor[a] < Len(log[a]) /\ cur' = [cur EXCEPT ![w] = a]
    BY <1>3 DEF Tick
  <2>2. UNCHANGED <<log, cursor>> /\ \A u \in Watcher \ {w} : pc'[u] = pc[u]
    BY <1>3 DEF Tick, Leave, TypeOK
  <2> QED
    BY <2>1, <2>2 DEF WatchInv, TypeOK
<1>4. ASSUME NEW w \in Watcher, Emit(w)
      PROVE  WatchInv'
  <2> DEFINE a == cur[w]
  <2>1. /\ a \in Artifact /\ Owner[a] = w /\ cursor[a] < Len(log[a])
        /\ cursor' = [cursor EXCEPT ![a] = @ + 1] /\ pc' = [pc EXCEPT ![w] = "watch"]
        /\ UNCHANGED <<log, cur>>
    BY <1>4 DEF Emit, TypeOK, WatchInv
  <2>2. \A b \in Artifact : cursor'[b] =< Len(log[b]) /\ (b # a => cursor'[b] = cursor[b])
    BY <1>0, <2>1 DEF WatchInv, TypeOK
  <2>3. \A u \in Watcher : pc'[u] = "emit" => u # w /\ pc[u] = "emit" /\ cur[u] \in Artifact
    BY <2>1 DEF TypeOK
  <2>4. \A u \in Watcher : pc'[u] = "emit" =>
          Owner[cur[u]] = u /\ cursor'[cur[u]] < Len(log[cur[u]])
    BY <2>1, <2>2, <2>3 DEF WatchInv
  <2> QED
    BY <2>1, <2>2, <2>4 DEF WatchInv
<1>5. ASSUME NEW w \in Watcher, Returns(w) \/ Fails(w) \/ Wake(w) \/ Stopped(w)
      PROVE  WatchInv'
  <2>1. UNCHANGED <<log, cursor, cur>>
    BY <1>5 DEF Returns, Fails, Wake, Stopped
  <2>2. \A u \in Watcher : pc'[u] = "emit" => pc[u] = "emit"
    BY <1>5 DEF Returns, Fails, Wake, Stopped, Leave, TypeOK
  <2> QED
    BY <2>1, <2>2 DEF WatchInv
<1>6. CASE Put \/ Get \/ Close \/ UNCHANGED vars
  <2>1. UNCHANGED <<log, cursor, cur, pc>>
    BY <1>6 DEF Put, Get, Close, vars
  <2> QED
    BY <2>1 DEF WatchInv
<1> QED
  BY <1>1, <1>2, <1>3, <1>4, <1>5, <1>6 DEF Next, Thread

LEMMA StopStep ==
  ASSUME TypeOK, StopInv, Quiet \/ SendsMark \/ SendsEvent \/ Put \/ Get
  PROVE  StopInv'
BY DEF TypeOK, StopInv, Quiet, SendsMark, SendsEvent, Put, Get

LEMMA EndSent ==
  ASSUME TypeOK, EndUnread, NEW e \in Item, Enqueue(e), UNCHANGED <<queue, stream>>,
         stream = "open" => e.kind # "end"
  PROVE  EndUnread'
<1>1. Len(Sent') = Len(Sent) + 1 /\ Sent'[Len(Sent) + 1] = e /\ \A i \in 1 .. Len(Sent) : Sent'[i] = Sent[i]
  BY SendEffect
<1>2. Len(Sent) \in Nat
  BY SentType
<1> QED
  BY <1>1, <1>2 DEF EndUnread

LEMMA EndStep ==
  ASSUME TypeOK, StopInv, EndUnread, Quiet \/ SendsMark \/ SendsEvent \/ Put \/ Get
  PROVE  EndUnread'
<1>1. CASE Quiet
  <2>1. Sent' = Sent
    BY <1>1 DEF Quiet, way, Sent
  <2> QED
    BY <1>1, <2>1 DEF Quiet, EndUnread
<1>2. CASE SendsMark
  <2>1. PICK e \in {Error, End} : Enqueue(e) /\ (e = End => stop) /\ UNCHANGED <<queue, stream>>
    BY <1>2 DEF SendsMark
  <2>2. e \in Item /\ (stream = "open" => e.kind # "end")
    BY <2>1 DEF Item, StopInv, Error, End
  <2> QED
    BY <2>1, <2>2, EndSent
<1>3. CASE SendsEvent
  <2>1. PICK e \in Event : Enqueue(e) /\ UNCHANGED <<queue, stream>>
    BY <1>3 DEF SendsEvent, Event, TypeOK, Old
  <2>2. e \in Item /\ e.kind # "end"
    BY DEF Item, Event
  <2> QED
    BY <2>1, <2>2, EndSent
<1>4. CASE Put
  <2>1. stream' = stream
    BY <1>4 DEF Put
  <2>2. CASE Len(queue) # QueueMax
    BY <1>4, <2>1, <2>2, PutEffect DEF EndUnread
  <2>3. CASE Len(queue) = QueueMax
    <3>1. /\ DOMAIN Sent' = 1 .. Len(Sent) - 1 /\ DOMAIN Sent = 1 .. Len(Sent)
          /\ Len(Sent) \in Nat /\ Len(queue) \in Nat
          /\ \A i \in 1 .. Len(Sent) - 1 :
               Sent'[i] = IF i =< Len(queue) THEN Sent[i] ELSE Sent[i + 1]
      BY <1>4, <2>3, DropEffect, SentType
    <3> QED
      BY SMTT(20), <2>1, <3>1 DEF EndUnread
  <2> QED
    BY <2>2, <2>3
<1>5. CASE Get
  <2>1. /\ DOMAIN Sent' = 1 .. Len(Sent) - 1 /\ DOMAIN Sent = 1 .. Len(Sent)
        /\ Len(Sent) \in Nat /\ \A i \in 1 .. Len(Sent) - 1 : Sent'[i] = Sent[i + 1]
    BY <1>5, GetEffect, SentType
  <2>2. stream = "open"
    BY <1>5 DEF Get
  <2> QED
    BY <2>1, <2>2 DEF EndUnread
<1> QED
  BY <1>1, <1>2, <1>3, <1>4, <1>5
(* How the accounting of one artifact survives a step that keeps its       *)
(* events, gives them an additional newest one, or takes an older one.     *)
LEMMA AccountStep ==
  ASSUME TypeOK, AccountInv, Quiet \/ SendsMark \/ SendsEvent \/ Put \/ Get
  PROVE  AccountInv'
<1> SUFFICES ASSUME NEW a \in Artifact,
                    drops'[a] # "lost" \/ \E i \in EventsOf(a)' : i > Len(queue')
             PROVE  WillHear(a, last[a])'
  BY DEF AccountInv
<1>0. /\ Len(Sent) \in Nat /\ Len(queue) \in Nat /\ \A b : EventsOf(b) \subseteq 1 .. Len(Sent)
  BY SentType, LenProperties
<1>1. CASE Quiet
  <2>1. Sent' = Sent /\ UNCHANGED <<queue, got, drops, last>>
    BY <1>1 DEF Quiet, way, Sent
  <2>2. EventsOf(a)' = EventsOf(a)
    BY <2>1 DEF EventsOf
  <2> QED
    BY <2>1, <2>2 DEF AccountInv, WillHear
<1>2. CASE SendsMark
  <2>1. PICK e \in {Error, End} : Enqueue(e) /\ UNCHANGED <<queue, got, drops, last>>
    BY <1>2 DEF SendsMark
  <2>2. e \in Item /\ e.kind # "event"
    BY <2>1 DEF Item, Error, End
  <2>3. EventsOf(a)' = EventsOf(a) /\ \A i \in 1 .. Len(Sent) : Sent'[i] = Sent[i]
    <3>1. Enqueue(e) /\ queue' = queue
      BY <2>1
    <3>2. \A i : i \in EventsOf(a)' <=>
            i \in EventsOf(a) \/ (i = Len(Sent) + 1 /\ e.kind = "event" /\ e.art = a)
      BY <2>2, <3>1, SendEffect
    <3>3. \A i \in 1 .. Len(Sent) : Sent'[i] = Sent[i]
      BY <2>2, <3>1, SendEffect
    <3> QED
      BY <2>2, <3>2, <3>3
  <2>4. WillHear(a, last[a])
    BY <2>1, <2>3 DEF AccountInv
  <2> QED
    BY <1>0, <2>1, <2>3, <2>4 DEF WillHear
<1>3. CASE SendsEvent
  <2>1. PICK b \in Artifact, v \in Val :
          /\ Enqueue([kind |-> "event", art |-> b, old |-> Old(last[b]), new |-> v])
          /\ last' = [last EXCEPT ![b] = v] /\ UNCHANGED <<queue, got, drops>>
    BY <1>3 DEF SendsEvent
  <2> DEFINE e == [kind |-> "event", art |-> b, old |-> Old(last[b]), new |-> v]
             n == Len(Sent) + 1
  <2>2. e \in Item /\ e.kind = "event" /\ e.art = b /\ e.new = v
    BY DEF Item, Event, TypeOK, Old
  <2> HIDE DEF e
  <2>3. /\ \A i : i \in EventsOf(a)' <=>
             i \in EventsOf(a) \/ (i = Len(Sent) + 1 /\ e.kind = "event" /\ e.art = a)
        /\ Sent'[n] = e /\ \A i \in 1 .. Len(Sent) : Sent'[i] = Sent[i]
    <3>1. Enqueue(e) /\ queue' = queue
      BY <2>1 DEF e
    <3>2. \A i : i \in EventsOf(a)' <=>
            i \in EventsOf(a) \/ (i = Len(Sent) + 1 /\ e.kind = "event" /\ e.art = a)
      BY <2>2, <3>1, SendEffect
    <3>3. Sent'[n] = e /\ \A i \in 1 .. Len(Sent) : Sent'[i] = Sent[i]
      BY <2>2, <3>1, SendEffect
    <3> QED
      BY <3>2, <3>3
  <2>4. CASE a = b
    <3>1. n \in EventsOf(a)' /\ Sent'[n].new = v /\ last'[a] = v
      BY <2>1, <2>2, <2>3, <2>4 DEF TypeOK
    <3>2. \A j \in EventsOf(a)' : j =< n
      BY <1>0, <2>2, <2>3
    <3> QED
      BY <3>1, <3>2 DEF WillHear
  <2>5. CASE a # b
    <3>0. last'[a] = last[a]
      BY <2>1, <2>5 DEF TypeOK
    <3>1. EventsOf(a)' = EventsOf(a)
      BY <2>2, <2>3, <2>5
    <3>2. WillHear(a, last[a])
      BY <2>1, <3>1 DEF AccountInv
    <3> QED
      BY <1>0, <2>1, <2>3, <3>0, <3>1, <3>2 DEF WillHear
  <2> QED
    BY <2>4, <2>5
<1>4. CASE Put /\ Len(queue) # QueueMax
  <2>1. Sent' = Sent /\ Len(queue') = Len(queue) + 1
    BY <1>4, PutEffect
  <2>2. UNCHANGED <<got, last>>
    BY <1>4 DEF Put, thread
  <2>3. EventsOf(a)' = EventsOf(a)
    BY <2>1 DEF EventsOf
  <2>4. WillHear(a, last[a])
    <3>1. CASE drops[a] = "lost" /\ drops'[a] # "lost"
      <4>1. Head(pending).kind = "event" /\ Head(pending).art = a /\ pending # <<>>
        BY <1>4, <3>1 DEF Put
      <4>2. pending \in Seq(Item) /\ Len(pending) > 0 /\ Head(pending) = pending[1]
        BY <4>1, EmptySeq DEF TypeOK
      <4>3. Sent[Len(queue) + 1] = Head(pending) /\ Len(queue) + 1 \in DOMAIN Sent
        BY <4>2, SentType
      <4>4. Len(queue) + 1 \in EventsOf(a)
        BY <4>1, <4>3 DEF EventsOf
      <4> QED
        BY <1>0, <4>4 DEF AccountInv
    <3>2. CASE drops[a] # "lost"
      BY <3>2 DEF AccountInv
    <3>3. CASE drops'[a] = "lost"
      BY <1>0, <2>1, <2>3, <3>3 DEF AccountInv
    <3> QED
      BY <3>1, <3>2, <3>3
  <2> QED
    BY <2>1, <2>2, <2>3, <2>4 DEF WillHear
<1>5. CASE Put /\ Len(queue) = QueueMax
  <2> DEFINE n == Len(queue)
  <2>1. /\ queue' = queue
        /\ \A i \in 1 .. Len(Sent) - 1 : Sent'[i] = IF i =< n THEN Sent[i] ELSE Sent[i + 1]
        /\ \A i : i \in EventsOf(a)' <=>
             \/ i \in EventsOf(a) /\ i =< n
             \/ i \in 1 .. Len(Sent) /\ i + 1 \in EventsOf(a) /\ i > n
    BY <1>5, DropEffect
  <2>2. UNCHANGED <<got, last>>
    BY <1>5 DEF Put, thread
  <2>3. Len(pending) > 0 /\ Sent[n + 1] = Head(pending) /\ n + 1 \in DOMAIN Sent
        /\ Len(Sent) > n
    <3>1. pending \in Seq(Item) /\ pending # <<>>
      BY <1>5 DEF Put, TypeOK
    <3>2. Len(pending) > 0 /\ Head(pending) = pending[1]
      BY <3>1, EmptySeq
    <3> QED
      BY <3>2, SentType
  <2>4. CASE n + 1 \in EventsOf(a)
    <3>1. drops'[a] = "lost"
      BY <1>5, <2>3, <2>4 DEF Put, EventsOf
    <3>2. PICK i \in EventsOf(a)' : i > n
      BY <2>1, <3>1
    <3>3. i + 1 \in EventsOf(a) /\ i + 1 > n + 1 /\ i \in 1 .. Len(Sent)
      BY <1>0, <2>1, <3>2
    <3>4. PICK k \in EventsOf(a) : Sent[k].new = last[a] /\ \A j \in EventsOf(a) : j =< k
      BY <1>0, <3>3 DEF AccountInv, WillHear
    <3>5. k - 1 \in EventsOf(a)' /\ Sent'[k - 1] = Sent[k]
      <4>1. k \in 1 .. Len(Sent) /\ k > n + 1
        BY <1>0, <3>3, <3>4
      <4>2. k - 1 \in 1 .. Len(Sent) - 1 /\ k - 1 > n /\ (k - 1) + 1 = k
        BY <1>0, <4>1
      <4> QED
        BY <1>0, <2>1, <4>2
    <3>6. \A j \in EventsOf(a)' : j =< k - 1
      BY <1>0, <2>1, <3>3, <3>4
    <3> QED
      BY <2>2, <3>4, <3>5, <3>6 DEF WillHear
  <2>5. CASE n + 1 \notin EventsOf(a)
    <3>1. drops'[a] = drops[a]
      BY <1>5, <2>3, <2>5 DEF Put, EventsOf, TypeOK
    <3>2. WillHear(a, last[a])
      <4>1. CASE drops[a] # "lost"
        BY <4>1 DEF AccountInv
      <4>2. CASE \E i \in EventsOf(a)' : i > n
        <5>1. PICK i \in EventsOf(a)' : i > n
          BY <4>2
        <5>2. i + 1 \in EventsOf(a) /\ i + 1 > n
          BY <1>0, <2>1, <5>1
        <5> QED
          BY <5>2 DEF AccountInv
      <4> QED
        BY <2>1, <3>1, <4>1, <4>2
    <3>3. CASE EventsOf(a) = {}
      BY <2>1, <2>2, <3>2, <3>3 DEF WillHear
    <3>4. ASSUME NEW k \in EventsOf(a), Sent[k].new = last[a], \A j \in EventsOf(a) : j =< k
          PROVE  WillHear(a, last[a])'
      <4> DEFINE m == IF k =< n THEN k ELSE k - 1
      <4>1. m \in EventsOf(a)' /\ Sent'[m] = Sent[k]
        <5>1. k \in 1 .. Len(Sent) /\ k # n + 1
          BY <1>0, <2>5
        <5>2. CASE k =< n
          <6>1. k \in 1 .. Len(Sent) - 1 /\ m = k
            BY <1>0, <2>3, <5>1, <5>2
          <6> QED
            BY <2>1, <5>2, <6>1
        <5>3. CASE k > n
          <6>1. m \in 1 .. Len(Sent) - 1 /\ m > n /\ m + 1 = k
            BY <1>0, <5>1, <5>3
          <6> QED
            BY <1>0, <2>1, <6>1
        <5> QED
          BY <1>0, <5>1, <5>2, <5>3
      <4>2. \A j \in EventsOf(a)' : j =< m
        BY <1>0, <2>1, <2>5, <3>4
      <4> HIDE DEF m
      <4> QED
        BY <2>2, <3>4, <4>1, <4>2 DEF WillHear
    <3> QED
      BY <3>2, <3>3, <3>4 DEF WillHear
  <2> QED
    BY <2>4, <2>5
<1>6. CASE Get
  <2>1. /\ Len(queue') = Len(queue) - 1 /\ Head(queue) = Sent[1] /\ Len(Sent) > 0
        /\ \A i \in 1 .. Len(Sent) - 1 : Sent'[i] = Sent[i + 1]
        /\ \A i : i \in EventsOf(a)' <=> i \in 1 .. Len(Sent) /\ i + 1 \in EventsOf(a)
    BY <1>6, GetEffect
  <2>2. UNCHANGED <<last, drops>>
    BY <1>6 DEF Get, thread
  <2>3. WillHear(a, last[a])
    <3>1. CASE drops[a] # "lost"
      BY <3>1 DEF AccountInv
    <3>2. CASE \E i \in EventsOf(a)' : i > Len(queue')
      <4>1. PICK i \in EventsOf(a)' : i > Len(queue')
        BY <3>2
      <4>2. i + 1 \in EventsOf(a) /\ i + 1 > Len(queue)
        BY <1>0, <2>1, <4>1
      <4> QED
        BY <4>2 DEF AccountInv
    <3> QED
      BY <2>2, <3>1, <3>2
  <2>4. 1 \in EventsOf(a) <=> Head(queue).kind = "event" /\ Head(queue).art = a
    BY <2>1, SentType DEF EventsOf
  <2>5. got'[a] = IF 1 \in EventsOf(a) THEN Sent[1].new ELSE got[a]
    BY <1>6, <2>1, <2>4 DEF Get, TypeOK
  <2>6. CASE EventsOf(a) = {}
    BY <2>1, <2>2, <2>3, <2>5, <2>6 DEF WillHear
  <2>7. ASSUME NEW k \in EventsOf(a), Sent[k].new = last[a], \A j \in EventsOf(a) : j =< k
        PROVE  WillHear(a, last[a])'
    <3>1. CASE k = 1
      <4>1. EventsOf(a)' = {}
        BY <1>0, <2>1, <2>7, <3>1
      <4> QED
        BY <2>2, <2>5, <2>7, <3>1, <4>1 DEF WillHear
    <3>2. CASE k # 1
      <4>1. k - 1 \in EventsOf(a)' /\ Sent'[k - 1] = Sent[k] /\ \A j \in EventsOf(a)' : j =< k - 1
        BY <1>0, <2>1, <2>7, <3>2
      <4> QED
        BY <2>2, <2>7, <4>1 DEF WillHear
    <3> QED
      BY <3>1, <3>2
  <2> QED
    BY <2>3, <2>6, <2>7 DEF WillHear
<1> QED
  BY <1>1, <1>2, <1>3, <1>4, <1>5, <1>6
(* The chain of one artifact: it grows at its end with what the thread     *)
(* compared, and what the reader takes from its beginning is what it heard *)
(* last.                                                                   *)
LEMMA ChainStep ==
  ASSUME TypeOK, AccountInv, ChainInv, Quiet \/ SendsMark \/ SendsEvent \/ Put \/ Get
  PROVE  ChainInv'
<1> SUFFICES ASSUME NEW a \in Artifact, drops'[a] = "none"
             PROVE  /\ \A i \in EventsOf(a)' :
                         (\A j \in EventsOf(a)' : i =< j) => Follows(Sent'[i], got'[a])
                    /\ \A i, j \in EventsOf(a)' :
                         (i < j /\ \A k \in EventsOf(a)' : k =< i \/ j =< k)
                           => Follows(Sent'[j], Sent'[i].new)
  BY DEF ChainInv
<1>0. /\ Len(Sent) \in Nat /\ Len(queue) \in Nat /\ EventsOf(a) \subseteq 1 .. Len(Sent)
  BY SentType, LenProperties
<1>1. drops[a] = "none"
  BY DEF Quiet, way, SendsMark, SendsEvent, Put, Get, TypeOK
<1>2. /\ \A i \in EventsOf(a) : (\A j \in EventsOf(a) : i =< j) => Follows(Sent[i], got[a])
      /\ \A i, j \in EventsOf(a) :
           (i < j /\ \A k \in EventsOf(a) : k =< i \/ j =< k) => Follows(Sent[j], Sent[i].new)
      /\ WillHear(a, last[a])
  BY <1>1 DEF ChainInv, AccountInv
<1>3. ASSUME EventsOf(a)' = EventsOf(a), \A i \in 1 .. Len(Sent) : Sent'[i] = Sent[i],
             got'[a] = got[a]
      PROVE  /\ \A i \in EventsOf(a)' :
                  (\A j \in EventsOf(a)' : i =< j) => Follows(Sent'[i], got'[a])
             /\ \A i, j \in EventsOf(a)' :
                  (i < j /\ \A k \in EventsOf(a)' : k =< i \/ j =< k)
                    => Follows(Sent'[j], Sent'[i].new)
  <2>1. \A i \in EventsOf(a) : Sent'[i] = Sent[i]
    BY <1>0, <1>3
  <2> QED
    BY <1>2, <1>3, <2>1
<1>4. CASE Quiet
  <2>1. Sent' = Sent /\ got' = got
    BY <1>4 DEF Quiet, way, Sent
  <2>2. EventsOf(a)' = EventsOf(a)
    BY <2>1 DEF EventsOf
  <2> QED
    BY <1>3, <2>1, <2>2
<1>5. CASE SendsMark
  <2>1. PICK e \in {Error, End} : Enqueue(e) /\ UNCHANGED <<queue, got>>
    BY <1>5 DEF SendsMark
  <2>2. e \in Item /\ e.kind # "event" /\ queue' = queue /\ got' = got
    BY <2>1 DEF Item, Error, End
  <2>3. \A i : i \in EventsOf(a)' <=>
          i \in EventsOf(a) \/ (i = Len(Sent) + 1 /\ e.kind = "event" /\ e.art = a)
    BY <2>1, <2>2, SendEffect
  <2>4. \A i \in 1 .. Len(Sent) : Sent'[i] = Sent[i]
    BY <2>1, <2>2, SendEffect
  <2>5. EventsOf(a)' = EventsOf(a)
    BY <2>2, <2>3
  <2> QED
    BY <1>3, <2>2, <2>4, <2>5
<1>6. CASE SendsEvent
  <2>1. PICK b \in Artifact, v \in Val :
          /\ Enqueue([kind |-> "event", art |-> b, old |-> Old(last[b]), new |-> v])
          /\ v # last[b] /\ UNCHANGED <<queue, got>>
    BY <1>6 DEF SendsEvent
  <2> DEFINE e == [kind |-> "event", art |-> b, old |-> Old(last[b]), new |-> v]
             n == Len(Sent) + 1
  <2>2. e \in Item /\ e.kind = "event" /\ e.art = b /\ e.new = v /\ e.old = Old(last[b])
    BY DEF Item, Event, TypeOK, Old
  <2> HIDE DEF e
  <2>3. Enqueue(e) /\ queue' = queue /\ got' = got
    BY <2>1 DEF e
  <2>4. \A i : i \in EventsOf(a)' <=>
          i \in EventsOf(a) \/ (i = Len(Sent) + 1 /\ e.kind = "event" /\ e.art = a)
    BY <2>2, <2>3, SendEffect
  <2>5. Sent'[n] = e /\ \A i \in 1 .. Len(Sent) : Sent'[i] = Sent[i]
    BY <2>2, <2>3, SendEffect
  <2>6. CASE a # b
    <3>1. EventsOf(a)' = EventsOf(a)
      BY <2>2, <2>4, <2>6
    <3> QED
      BY <1>3, <2>3, <2>5, <3>1
  <2>7. CASE a = b
    <3>1. EventsOf(a)' = EventsOf(a) \union {n}
      BY <2>2, <2>4, <2>7
    <3>2. \A i \in EventsOf(a) : Sent'[i] = Sent[i] /\ i < n
      BY <1>0, <2>5
    <3>3. Follows(Sent'[n], last[a])
      BY <2>1, <2>2, <2>5, <2>7 DEF Follows
    <3>5. ASSUME NEW i \in EventsOf(a)', \A j \in EventsOf(a)' : i =< j
          PROVE  Follows(Sent'[i], got'[a])
      <4>1. CASE i \in EventsOf(a)
        BY <1>2, <2>3, <3>1, <3>2, <3>5, <4>1
      <4>2. CASE i = n
        <5>1. EventsOf(a) = {}
          BY <1>0, <3>1, <3>2, <3>5, <4>2
        <5> QED
          BY <1>2, <2>3, <3>3, <4>2, <5>1 DEF WillHear
      <4> QED
        BY <3>1, <4>1, <4>2
    <3>6. ASSUME NEW i \in EventsOf(a)', NEW j \in EventsOf(a)', i < j,
                 \A k \in EventsOf(a)' : k =< i \/ j =< k
          PROVE  Follows(Sent'[j], Sent'[i].new)
      <4>1. i \in EventsOf(a)
        BY <1>0, <3>1, <3>2, <3>6
      <4>2. CASE j \in EventsOf(a)
        BY <1>2, <3>1, <3>2, <3>6, <4>1, <4>2
      <4>3. CASE j = n
        <5>1. PICK k \in EventsOf(a) : Sent[k].new = last[a] /\ \A l \in EventsOf(a) : l =< k
          BY <1>2, <4>1 DEF WillHear
        <5>2. k = i
          BY <1>0, <3>1, <3>2, <3>6, <4>1, <4>3, <5>1
        <5> QED
          BY <3>2, <3>3, <4>1, <4>3, <5>1, <5>2
      <4> QED
        BY <3>1, <4>2, <4>3
    <3> QED
      BY <3>5, <3>6
  <2> QED
    BY <2>6, <2>7
<1>7. CASE Put /\ Len(queue) # QueueMax
  <2>1. Sent' = Sent /\ got' = got
    BY <1>7, PutEffect DEF Put
  <2>2. EventsOf(a)' = EventsOf(a)
    BY <2>1 DEF EventsOf
  <2> QED
    BY <1>3, <2>1, <2>2
<1>8. CASE Put /\ Len(queue) = QueueMax
  <2> DEFINE n == Len(queue)
             u(i) == IF i =< n THEN i ELSE i + 1
  <2>1. /\ \A i \in 1 .. Len(Sent) - 1 : Sent'[i] = IF i =< n THEN Sent[i] ELSE Sent[i + 1]
        /\ \A i : i \in EventsOf(a)' <=>
             \/ i \in EventsOf(a) /\ i =< n
             \/ i \in 1 .. Len(Sent) /\ i + 1 \in EventsOf(a) /\ i > n
    BY <1>8, DropEffect
  <2>2. Len(pending) > 0 /\ Sent[n + 1] = Head(pending) /\ n + 1 \in DOMAIN Sent /\ Len(Sent) > n
    <3>1. pending \in Seq(Item) /\ pending # <<>>
      BY <1>8 DEF Put, TypeOK
    <3>2. Len(pending) > 0 /\ Head(pending) = pending[1]
      BY <3>1, EmptySeq
    <3> QED
      BY <3>2, SentType
  <2>3. n + 1 \notin EventsOf(a) /\ got' = got
    BY <1>8, <2>2 DEF Put, EventsOf, TypeOK
  <2>4. ASSUME NEW i \in EventsOf(a)'
        PROVE  i \in Nat /\ u(i) \in EventsOf(a) /\ Sent'[i] = Sent[u(i)]
    BY SMTT(20), <1>0, <2>1, <2>2
  <2>5. ASSUME NEW k \in EventsOf(a)
        PROVE  \E i \in EventsOf(a)' : u(i) = k
    <3>1. CASE k =< n
      BY <1>0, <2>1, <3>1
    <3>2. CASE k > n
      <4>1. k - 1 \in 1 .. Len(Sent) /\ (k - 1) + 1 = k /\ k - 1 > n
        BY <1>0, <2>3, <3>2
      <4> QED
        BY <2>1, <4>1
    <3> QED
      BY <1>0, <3>1, <3>2
  <2>6. \A i, j \in Nat : (i < j <=> u(i) < u(j)) /\ (i =< j <=> u(i) =< u(j))
    BY <1>0
  <2> HIDE DEF u
  <2>8. ASSUME NEW i \in EventsOf(a)', \A j \in EventsOf(a)' : i =< j
        PROVE  Follows(Sent'[i], got'[a])
    <3>1. \A k \in EventsOf(a) : u(i) =< k
      BY <2>4, <2>5, <2>6, <2>8
    <3> QED
      BY <1>2, <2>3, <2>4, <3>1
  <2>9. ASSUME NEW i \in EventsOf(a)', NEW j \in EventsOf(a)', i < j,
               \A k \in EventsOf(a)' : k =< i \/ j =< k
        PROVE  Follows(Sent'[j], Sent'[i].new)
    <3>1. u(i) < u(j) /\ \A k \in EventsOf(a) : k =< u(i) \/ u(j) =< k
      BY <2>4, <2>5, <2>6, <2>9
    <3> QED
      BY <1>2, <2>4, <3>1
  <2> QED
    BY <2>8, <2>9
<1>9. CASE Get
  <2>1. /\ Head(queue) = Sent[1] /\ Len(Sent) > 0
        /\ \A i \in 1 .. Len(Sent) - 1 : Sent'[i] = Sent[i + 1]
        /\ \A i : i \in EventsOf(a)' <=> i \in 1 .. Len(Sent) /\ i + 1 \in EventsOf(a)
    BY <1>9, GetEffect
  <2>2. 1 \in EventsOf(a) <=> Head(queue).kind = "event" /\ Head(queue).art = a
    BY <2>1, SentType DEF EventsOf
  <2>3. got'[a] = IF 1 \in EventsOf(a) THEN Sent[1].new ELSE got[a]
    BY <1>9, <2>1, <2>2 DEF Get, TypeOK
  <2>4. ASSUME NEW i \in EventsOf(a)'
        PROVE  i \in Nat /\ i > 0 /\ i + 1 \in EventsOf(a) /\ Sent'[i] = Sent[i + 1]
    BY <1>0, <2>1
  <2>5. ASSUME NEW k \in EventsOf(a), k # 1
        PROVE  k - 1 \in EventsOf(a)'
    <3>1. k - 1 \in 1 .. Len(Sent) /\ (k - 1) + 1 = k
      BY <1>0, <2>5
    <3> QED
      BY <2>1, <3>1
  <2>7. ASSUME NEW i \in EventsOf(a)', \A j \in EventsOf(a)' : i =< j
        PROVE  Follows(Sent'[i], got'[a])
    <3>1. \A k \in EventsOf(a) : k = 1 \/ i + 1 =< k
      BY <1>0, <2>4, <2>5, <2>7
    <3>2. CASE 1 \in EventsOf(a)
      <4>1. 1 < i + 1 /\ i + 1 \in EventsOf(a) /\ \A k \in EventsOf(a) : k =< 1 \/ i + 1 =< k
        BY <1>0, <2>4, <3>1
      <4> QED
        BY <1>2, <2>3, <2>4, <3>2, <4>1
    <3>3. CASE 1 \notin EventsOf(a)
      BY <1>2, <2>3, <2>4, <3>1, <3>3
    <3> QED
      BY <3>2, <3>3
  <2>8. ASSUME NEW i \in EventsOf(a)', NEW j \in EventsOf(a)', i < j,
               \A k \in EventsOf(a)' : k =< i \/ j =< k
        PROVE  Follows(Sent'[j], Sent'[i].new)
    <3>1. i + 1 < j + 1 /\ i + 1 \in EventsOf(a) /\ j + 1 \in EventsOf(a)
      BY <2>4, <2>8
    <3>2. \A k \in EventsOf(a) : k =< i + 1 \/ j + 1 =< k
      BY <1>0, <2>4, <2>5, <2>8
    <3> QED
      BY <1>2, <2>4, <3>1, <3>2
  <2> QED
    BY <2>7, <2>8
<1> QED
  BY <1>4, <1>5, <1>6, <1>7, <1>8, <1>9

LEMMA NextIInv == IInv /\ [Next]_vars => IInv'
<1> SUFFICES ASSUME IInv, [Next]_vars PROVE IInv'
  OBVIOUS
<1>1. TypeOK /\ WatchInv /\ StopInv /\ EndUnread /\ AccountInv /\ ChainInv
  BY DEF IInv
<1>2. Quiet \/ SendsMark \/ SendsEvent \/ Put \/ Get
  BY <1>1, WaySteps
<1>3. TypeOK' /\ WatchInv'
  BY <1>1, TypeStep, WatchStep
<1>4. StopInv' /\ EndUnread'
  BY <1>1, <1>2, StopStep, EndStep
<1>5. AccountInv' /\ ChainInv'
  BY <1>1, <1>2, AccountStep, ChainStep
<1> QED
  BY <1>3, <1>4, <1>5 DEF IInv

THEOREM Inductive == Spec => []IInv
<1>1. Init => IInv
  BY InitIInv
<1>2. IInv /\ [Next]_vars => IInv'
  BY NextIInv
<1> QED
  BY <1>1, <1>2, PTL DEF Spec

-----------------------------------------------------------------------------
(* The baseline a thread compares against is what the engine will have     *)
(* heard, unless a full queue dropped the newest change, and no end of a   *)
(* thread is taken for the end of the stream: for any interleaving of the  *)
(* threads, the callbacks and the reader (k8s.py, _watch_loop to stream).  *)
THEOREM HandoverSoundThm == Spec => []HandoverSound
<1>1. IInv => HandoverSound
  BY DEF IInv, HandoverSound, AccountInv, Accounted
<1> QED
  BY <1>1, Inductive, PTL

(* While nothing of an artifact was dropped, the reader hears its changes  *)
(* as one chain without repetitions, over reconnects and retries too       *)
(* (_emit_changes_for_object, StateChangeEvent.is_change).                 *)
THEOREM ChainedThm == Spec => Chained
<1>1. ASSUME IInv, NEW a \in Artifact, Get,
             Head(queue).kind = "event", Head(queue).art = a, drops[a] = "none"
      PROVE  Head(queue).old = Old(got[a]) /\ Head(queue).new # got[a]
  <2>1. /\ Head(queue) = Sent[1] /\ 1 \in DOMAIN Sent
        /\ EventsOf(a) \subseteq 1 .. Len(Sent) /\ Len(Sent) \in Nat
    BY <1>1, GetEffect, SentType, LenProperties DEF IInv
  <2>2. 1 \in EventsOf(a) /\ \A j \in EventsOf(a) : 1 =< j
    BY <1>1, <2>1 DEF EventsOf
  <2> QED
    BY <1>1, <2>1, <2>2 DEF IInv, ChainInv, Follows
<1>2. IInv /\ [Next]_vars =>
        [\A a \in Artifact :
           LET e == Head(queue)
           IN (Get /\ e.kind = "event" /\ e.art = a /\ drops[a] = "none")
                => e.old = Old(got[a]) /\ e.new # got[a]]_vars
  BY <1>1
<1> QED
  BY <1>2, Inductive, PTL DEF Spec, Chained

-----------------------------------------------------------------------------
(* The consumer as one line of changes.  The effects of sending and taking *)
(* on what is on its way, as one sequence.                                 *)
LEMMA SendAppends ==
  ASSUME TypeOK, NEW e \in Item, Enqueue(e), queue' = queue
  PROVE  Sent' = Append(Sent, e)
<1>1. queue \in Seq(Item) /\ pending \in Seq(Item)
  BY DEF TypeOK
<1>2. Sent \in Seq(Item) /\ Sent' \in Seq(Item) /\ Append(Sent, e) \in Seq(Item)
  BY <1>1, SendEffect, ConcatProperties, AppendProperties DEF Sent
<1>3. /\ Len(Sent') = Len(Sent) + 1 /\ Sent'[Len(Sent) + 1] = e
      /\ \A i \in 1 .. Len(Sent) : Sent'[i] = Sent[i]
  BY SendEffect
<1>4. /\ Len(Append(Sent, e)) = Len(Sent) + 1 /\ Append(Sent, e)[Len(Sent) + 1] = e
      /\ \A i \in 1 .. Len(Sent) : Append(Sent, e)[i] = Sent[i]
  BY <1>2, AppendProperties
<1>5. Len(Sent) \in Nat
  BY <1>2, LenProperties
<1>6. \A i \in 1 .. Len(Sent) + 1 : Sent'[i] = Append(Sent, e)[i]
  BY <1>3, <1>4, <1>5
<1> QED
  BY <1>2, <1>3, <1>4, <1>6, SeqEqual

LEMMA GetTakes ==
  ASSUME TypeOK, Get
  PROVE  Sent' = Tail(Sent) /\ Sent # <<>> /\ Head(Sent) = Head(queue)
<1>1. queue \in Seq(Item) /\ pending \in Seq(Item) /\ queue' \in Seq(Item) /\ pending' \in Seq(Item)
  BY GetEffect DEF TypeOK
<1>2. Sent \in Seq(Item) /\ Sent' \in Seq(Item)
  BY <1>1, ConcatProperties DEF Sent
<1>3. /\ Len(Sent') = Len(Sent) - 1 /\ Len(Sent) > 0 /\ Head(queue) = Sent[1]
      /\ \A i \in 1 .. Len(Sent) - 1 : Sent'[i] = Sent[i + 1]
  BY GetEffect
<1>4. Sent # <<>>
  BY <1>2, <1>3, EmptySeq
<1>5. /\ Tail(Sent) \in Seq(Item) /\ Len(Tail(Sent)) = Len(Sent) - 1 /\ Head(Sent) = Sent[1]
      /\ \A i \in 1 .. Len(Tail(Sent)) : Tail(Sent)[i] = Sent[i + 1]
  BY <1>2, <1>4, HeadTailProperties
<1> QED
  BY <1>2, <1>3, <1>4, <1>5, SeqEqual

LEMMA FirstPending ==
  ASSUME TypeOK, pending # <<>>
  PROVE  Len(Sent) > Len(queue) /\ Sent[Len(queue) + 1] = Head(pending)
<1>1. pending \in Seq(Item) /\ Len(pending) \in Nat /\ Len(queue) \in Nat
  BY SentType DEF TypeOK
<1>2. Len(pending) > 0 /\ Head(pending) = pending[1]
  BY <1>1, EmptySeq, HeadTailProperties
<1> QED
  BY <1>1, <1>2, SentType

(* What each kind of step is of the line.                                  *)
LEMMA FeedInit == Init => Feed!Init
<1> SUFFICES ASSUME Init PROVE Feed!Init
  OBVIOUS
<1>1. queue = <<>> /\ pending = <<>> /\ stream = "open" /\ last = [a \in Artifact |-> Unset] /\ got = last
      /\ drops = [a \in Artifact |-> "none"]
  BY DEF Init
<1>2. Sent = <<>>
  BY <1>1 DEF Sent
<1>3. {a \in Artifact : drops[a] # "none"} = {}
  BY <1>1
<1> QED
  BY <1>1, <1>2, <1>3 DEF Feed!Init

LEMMA FeedStep == IInv /\ [Next]_vars => [Feed!Next]_(Feed!feedVars)
<1> SUFFICES ASSUME IInv, [Next]_vars PROVE [Feed!Next]_(Feed!feedVars)
  OBVIOUS
<1>0. TypeOK /\ WatchInv /\ StopInv /\ EndUnread
  BY DEF IInv
<1>1. CASE Quiet
  <2>1. Sent' = Sent /\ last' = last /\ got' = got /\ drops' = drops
    BY <1>1 DEF Quiet, way, Sent
  <2>2. CASE stream' = stream
    BY <2>1, <2>2 DEF Feed!feedVars
  <2>3. CASE stream' # stream
    <3>1. stream = "open" /\ stream' # "open"
      BY <1>1, <2>3 DEF Quiet
    <3> QED
      BY <2>1, <3>1 DEF Feed!Next, Feed!Leave
  <2> QED
    BY <2>2, <2>3
<1>2. CASE SendsMark
  <2>1. PICK e \in {Error, End} : Enqueue(e) /\ (e = End => stop) /\ UNCHANGED <<queue, got, drops, last, stream>>
    BY <1>2 DEF SendsMark
  <2>2. e \in Item /\ e \in Feed!Signal /\ (stream = "open" => e.kind = "error")
    BY <1>0, <2>1 DEF Item, Feed!Signal, Error, End, StopInv
  <2>3. Sent' = Append(Sent, e)
    BY <1>0, <2>1, <2>2, SendAppends
  <2> QED
    BY <2>1, <2>2, <2>3 DEF Feed!Next, Feed!Tell
<1>3. CASE SendsEvent
  <2>1. PICK a \in Artifact, v \in Val :
          /\ Enqueue([kind |-> "event", art |-> a, old |-> Old(last[a]), new |-> v]) /\ v # last[a]
          /\ last' = [last EXCEPT ![a] = v] /\ UNCHANGED <<queue, got, drops, stream>>
    BY <1>3 DEF SendsEvent
  <2>2. [kind |-> "event", art |-> a, old |-> Old(last[a]), new |-> v] \in Item
    BY <1>0 DEF TypeOK, Item, Event, Old
  <2>3. Sent' = Append(Sent, [kind |-> "event", art |-> a, old |-> Old(last[a]), new |-> v])
    BY <1>0, <2>1, <2>2, SendAppends
  <2>4. Feed!Notice(a, v)
    BY <2>1, <2>3 DEF Feed!Notice, Feed!Change, Feed!Old, Old
  <2> QED
    BY <2>1, <2>4 DEF Feed!Next
<1>4. CASE Put /\ Len(queue) # QueueMax
  <2>1. Sent' = Sent
    BY <1>0, <1>4, PutEffect
  <2>2. last' = last /\ got' = got /\ stream' = stream
    BY <1>4 DEF Put, thread
  <2>3. {a \in Artifact : drops'[a] # "none"} = {a \in Artifact : drops[a] # "none"}
    <3>1. \A a \in Artifact : drops'[a] # "none" <=> drops[a] # "none"
      BY <1>4 DEF Put
    <3> QED
      BY <3>1
  <2> QED
    BY <2>1, <2>2, <2>3 DEF Feed!feedVars
<1>5. CASE Put /\ Len(queue) = QueueMax
  <2>1. /\ Len(Sent) \in Nat /\ Len(queue) \in Nat /\ QueueMax \in Nat
        /\ Len(Sent') = Len(Sent) - 1
        /\ \A i \in 1 .. Len(Sent) - 1 : Sent'[i] = IF i =< Len(queue) THEN Sent[i] ELSE Sent[i + 1]
    BY <1>0, <1>5, DropEffect, SentType, LenProperties, BoundAssumption
  <2>2. pending # <<>> /\ Len(Sent) > QueueMax /\ Sent[QueueMax + 1] = Head(pending)
    BY <1>0, <1>5, FirstPending DEF Put
  <2>3. Sent' = [i \in 1 .. Len(Sent) - 1 |-> Sent[IF i <= QueueMax THEN i ELSE i + 1]]
    <3>1. Sent' \in Seq(Item)
      BY <1>0, <1>5, DropEffect, ConcatProperties DEF Sent, TypeOK
    <3>2. Sent' = [i \in 1 .. Len(Sent') |-> Sent'[i]]
      BY <3>1, LenProperties
    <3>3. \A i \in 1 .. Len(Sent) - 1 : Sent'[i] = Sent[IF i <= QueueMax THEN i ELSE i + 1]
      BY <1>5, <2>1
    <3> QED
      BY <2>1, <3>2, <3>3
  <2>4. {a \in Artifact : drops'[a] # "none"}
          = {a \in Artifact : drops[a] # "none"}
            \union {a \in Artifact : Sent[QueueMax + 1].kind = "event" /\ Sent[QueueMax + 1].art = a}
    <3>1. \A a \in Artifact : drops'[a] # "none" <=>
            drops[a] # "none" \/ (Head(pending).kind = "event" /\ Head(pending).art = a)
      BY <1>5 DEF Put
    <3> QED
      BY <2>2, <3>1
  <2>5. last' = last /\ got' = got /\ stream' = stream
    BY <1>5 DEF Put, thread
  <2>6. Feed!Lose
    BY <2>2, <2>3, <2>4, <2>5 DEF Feed!Lose
  <2> QED
    BY <2>6 DEF Feed!Next
<1>6. CASE Get
  <2>1. Sent' = Tail(Sent) /\ Sent # <<>> /\ Head(Sent) = Head(queue)
    BY <1>0, <1>6, GetTakes
  <2>2. stream = "open" /\ last' = last /\ drops' = drops
    BY <1>6 DEF Get, thread
  <2>3. Feed!Hear
    BY <1>6, <2>1, <2>2 DEF Get, Feed!Hear
  <2> QED
    BY <2>3 DEF Feed!Next
<1>7. Quiet \/ SendsMark \/ SendsEvent \/ Put \/ Get
  BY <1>0, WaySteps
<1> QED
  BY <1>1, <1>2, <1>3, <1>4, <1>5, <1>6, <1>7

(* Every step of the threads, the callbacks and the reader is a step of    *)
(* one line of changes in which only what finds the queue full is lost, or *)
(* changes nothing of it; and what is heard of an artifact is a chain.     *)
THEOREM HeardInOrderThm == Spec => HeardInOrder
<1>1. Spec => Feed!Spec
  <2>1. Init => Feed!Init
    BY FeedInit
  <2>2. IInv /\ [Next]_vars => [Feed!Next]_(Feed!feedVars)
    BY FeedStep
  <2> QED
    BY <2>1, <2>2, Inductive, PTL DEF Spec, Feed!Spec
<1> QED
  BY <1>1, ChainedThm DEF HeardInOrder
=============================================================================
