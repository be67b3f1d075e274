-------------------------- MODULE InvalidationProofs --------------------------
(* Proofs about Invalidation, for any vault, any number of overlapping     *)
(* drains and any number of changes, edits, failures and crashes.          *)
EXTENDS Invalidation, TLAPS

(* handle_event works on one event of the stream at a time.                *)
CurInv == IF pc \in {"mark", "write"} THEN cur \in Artifact ELSE cur = NoArtifact

(* The inductive invariant: the types, the file of a drain that covers its *)
(* work (a drain without a file has none), and Reread.                     *)
IInv == TypeOK /\ CurInv /\ Queue!FilesCoverWork /\ Reread

LEMMA InitIInv == Init => IInv
<1> SUFFICES ASSUME Init PROVE IInv
  OBVIOUS
<1> USE DEF Init, Queue!Init
<1>1. TypeOK
  BY DepsAssumption, BoundAssumption DEF TypeOK, Queue!TypeOK, FromVault
<1>2. CurInv /\ Queue!FilesCoverWork /\ Reread
  BY DEF CurInv, Queue!FilesCoverWork, Reread
<1> QED
  BY <1>1, <1>2 DEF IInv

-----------------------------------------------------------------------------
(* Every step is a step of the queue or leaves it alone.                   *)
LEMMA AffectedSlugs == ASSUME TypeOK, cur \in Artifact PROVE Affected(cur) \in SUBSET Slug
BY DEF TypeOK, Affected

LEMMA QueueStep ==
  ASSUME TypeOK, CurInv, [Next]_vars
  PROVE  [Queue!Next]_(Queue!vars)
<1> SUFFICES Queue!Next \/ UNCHANGED queue
  BY DEF Queue!vars, queue
<1>1. CASE \E a \in Artifact : Change(a) \/ Take(a) \/ Handle(a)
  BY <1>1 DEF Change, Take, Handle
<1>2. CASE \E s \in Slug : Missing(s) \/ Conflict(s) \/ Load(s) \/ Write(s)
  BY <1>2 DEF Missing, Conflict, Load, Write
<1>3. CASE FannedOut \/ Quiet \/ StreamRaises \/ HandleRaises
  BY <1>3 DEF FannedOut, Quiet, StreamRaises, HandleRaises, Raises
<1>4. CASE Hint \/ HintRaises
  <2>1. Affected(cur) \in SUBSET Slug
    BY <1>4, AffectedSlugs DEF Hint, HintRaises, CurInv
  <2>2. PICK S \in SUBSET Affected(cur) : Append(S)
    BY <1>4 DEF Hint, HintRaises
  <2>3. UNCHANGED queue \/ Queue!Enqueue(S)
    BY <2>2 DEF Append
  <2> QED
    BY <2>1, <2>3 DEF Queue!Next
<1>5. CASE \E d \in Drainer : Drain(d) \/ ResynthRaises(d)
  BY <1>5 DEF Drain, StartDrain, ContinueDrain, EndDrain, Resynth, Resynthesized,
              ResynthRaises, Queue!Next, Queue!Drain, Queue!Continue
<1>6. CASE \E s \in Slug : Edit(s) \/ Delete(s)
  BY <1>6 DEF Edit, Delete
<1>7. CASE Crash
  BY <1>7 DEF Crash, Queue!Next
<1>8. CASE UNCHANGED vars
  BY <1>8 DEF vars
<1> QED
  BY <1>1, <1>2, <1>3, <1>4, <1>5, <1>6, <1>7, <1>8 DEF Next, Engine

(* What ActingProofs shows of a step of the queue, where the queue   *)
(* is a part of the engine.                                                *)
LEMMA QueueInvariants ==
  ASSUME Queue!TypeOK, Queue!FilesCoverWork, [Queue!Next]_(Queue!vars)
  PROVE  Queue!TypeOK' /\ Queue!FilesCoverWork'
<1> USE SlugAssumption DEF Queue!TypeOK, Queue!FilesCoverWork
<1>1. ASSUME NEW S \in SUBSET Slug, Queue!Enqueue(S)
      PROVE  Queue!TypeOK' /\ Queue!FilesCoverWork'
  BY <1>1 DEF Queue!Enqueue
<1>2. ASSUME NEW d \in Drainer, Queue!Rotate(d)
      PROVE  Queue!TypeOK' /\ Queue!FilesCoverWork'
  BY <1>2 DEF Queue!Rotate
<1>3. ASSUME NEW d \in Drainer, Queue!Take(d)
      PROVE  Queue!TypeOK' /\ Queue!FilesCoverWork'
  <2>1. PICK g \in todo[d] : /\ current' = [current EXCEPT ![d] = g]
                             /\ todo' = [todo EXCEPT ![d] = @ \ {g}]
                             /\ tried' = tried \union {g}
    BY <1>3 DEF Queue!Take
  <2>2. Queue!TypeOK'
    BY <1>3, <2>1 DEF Queue!Take
  <2>3. Queue!FilesCoverWork'
    BY <1>3, <2>1 DEF Queue!Take
  <2> QED
    BY <2>2, <2>3
<1>4. ASSUME NEW d \in Drainer, Queue!End(d)
      PROVE  Queue!TypeOK' /\ Queue!FilesCoverWork'
  BY <1>4 DEF Queue!End
<1>5. ASSUME NEW d \in Drainer, Queue!Unlink(d)
      PROVE  Queue!TypeOK' /\ Queue!FilesCoverWork'
  BY <1>5 DEF Queue!Unlink
<1>6. CASE Queue!Crash
  <2>1. UNION {rotated[d] : d \in Drainer} \subseteq Slug
    OBVIOUS
  <2>2. /\ rotated' = [d \in Drainer |-> {}] /\ todo' = [d \in Drainer |-> {}]
        /\ current' = [d \in Drainer |-> NoSlug]
    BY <1>6 DEF Queue!Crash
  <2>3. orphans' \subseteq Slug
    BY <1>6, <2>1 DEF Queue!Crash
  <2>4. crashes' \in Nat /\ UNCHANGED <<live, tried, handed>>
    BY <1>6 DEF Queue!Crash
  <2>5. Queue!TypeOK'
    BY <2>2, <2>3, <2>4
  <2>6. Queue!FilesCoverWork'
    BY <2>2
  <2> QED
    BY <2>5, <2>6
<1>7. CASE UNCHANGED Queue!vars
  BY <1>7 DEF Queue!vars
<1>8. Queue!Next \/ UNCHANGED Queue!vars
  OBVIOUS
<1> QED
  BY <1>1, <1>2, <1>3, <1>4, <1>5, <1>6, <1>7, <1>8, Zenon
     DEF Queue!Next, Queue!Drain, Queue!Continue

-----------------------------------------------------------------------------
(* What is dropped is an artifact's event.                                 *)
LEMMA DropTyped ==
  ASSUME TypeOK, NEW A, A \subseteq Artifact, NEW S, Drop(A, S)
  PROVE  lost' \in [Slug -> SUBSET Artifact]
<1>1. lost \in [Slug -> SUBSET Artifact]
  BY DEF TypeOK
<1>2. \A s \in Slug : {a \in A : s \in Affected(a)} \subseteq Artifact
  OBVIOUS
<1> QED
  BY <1>1, <1>2 DEF Drop

(* The types, given those of the queue.                                    *)
LEMMA TypeStep ==
  ASSUME TypeOK, CurInv, Queue!TypeOK', [Next]_vars
  PROVE  TypeOK' /\ CurInv'
<1> USE DEF TypeOK, CurInv, engine, pages, notes, counts, queue
<1>1. ASSUME NEW a \in Artifact, Change(a) \/ Take(a) \/ Handle(a)
      PROVE  TypeOK' /\ CurInv'
  <2>1. Affected(a) \in SUBSET Slug
    BY DEF Affected
  <2> QED
    BY <1>1, <2>1 DEF Change, Take, Handle
<1>2. ASSUME NEW s \in Slug, Missing(s) \/ Conflict(s)
      PROVE  TypeOK' /\ CurInv'
  BY <1>2 DEF Missing, Conflict
<1>3. ASSUME NEW s \in Slug, Load(s) \/ Write(s)
      PROVE  TypeOK' /\ CurInv'
  BY <1>3 DEF Load, Write, NextMark, Loaded
<1>4. CASE FannedOut \/ Quiet
  BY <1>4 DEF FannedOut, Quiet
<1>5. CASE StreamRaises
  <2>1. lost' \in [Slug -> SUBSET Artifact]
    BY <1>5, DropTyped DEF StreamRaises
  <2> QED
    BY <1>5, <2>1 DEF StreamRaises
<1>6. CASE HandleRaises
  <2>1. faults' \in Nat /\ UNCHANGED <<changes, edits>>
    BY <1>6 DEF HandleRaises, Raises
  <2>2. pc' = "fanout" /\ marks' = {} /\ cur' = NoArtifact /\ raced' = FALSE
    BY <1>6 DEF HandleRaises, Raises
  <2>3. UNCHANGED <<inbox, alive, batch, index, seen, exists, pending, deps,
                    reads, stale, human, failed>>
    BY <1>6 DEF HandleRaises, Raises
  <2>4. cur \in Artifact /\ Drop({cur}, {})
    BY <1>6 DEF HandleRaises, Raises, NextMark, Loaded
  <2>5. lost' \in [Slug -> SUBSET Artifact]
    BY <2>4, DropTyped
  <2> QED
    BY <2>1, <2>2, <2>3, <2>5
<1>7. CASE Hint \/ HintRaises
  <2>1. cur \in Artifact
    BY <1>7 DEF Hint, HintRaises
  <2>2. lost' \in [Slug -> SUBSET Artifact]
    BY <1>7, <2>1, DropTyped DEF Hint, HintRaises
  <2>3. faults' \in Nat
    BY <1>7 DEF Hint, HintRaises
  <2> QED
    BY <1>7, <2>2, <2>3 DEF Hint, HintRaises
<1>8. ASSUME NEW d \in Drainer, StartDrain(d) \/ EndDrain(d)
      PROVE  TypeOK' /\ CurInv'
  BY <1>8 DEF StartDrain, EndDrain
<1>9. ASSUME NEW d \in Drainer, Resynth(d)
      PROVE  TypeOK' /\ CurInv'
  <2>1. PICK g \in todo[d] : current' = [current EXCEPT ![d] = g]
    BY <1>9 DEF Resynth, Queue!Take
  <2>2. g \in Slug /\ current'[d] = g
    BY <2>1 DEF Queue!TypeOK
  <2> QED
    BY <1>9, <2>2 DEF Resynth
<1>10. ASSUME NEW d \in Drainer, Resynthesized(d)
      PROVE  TypeOK' /\ CurInv'
  <2>1. current[d] \in Slug
    BY <1>10 DEF Resynthesized, Queue!End, Queue!TypeOK
  <2> QED
    BY <1>10, <2>1, DepsAssumption DEF Resynthesized
<1>11. ASSUME NEW d \in Drainer, ResynthRaises(d)
      PROVE  TypeOK' /\ CurInv'
  <2>1. current[d] \in Slug
    BY <1>11 DEF ResynthRaises, Queue!End, Queue!TypeOK
  <2> QED
    BY <1>11, <2>1 DEF ResynthRaises
<1>12. ASSUME NEW s \in Slug, Edit(s)
      PROVE  TypeOK' /\ CurInv'
  <2>1. raced' \in BOOLEAN
    BY <1>12, Zenon DEF Edit
  <2>2. seen' \in [Slug -> {"unknown", "same", "newer"}]
    BY <1>12 DEF Edit
  <2>3. edits' \in Nat /\ UNCHANGED <<changes, faults>>
    BY <1>12 DEF Edit
  <2>4. human' \subseteq Slug
    BY <1>12 DEF Edit
  <2>5. UNCHANGED <<inbox, alive, pc, batch, cur, marks, index, exists, pending,
                    deps, reads, stale, lost, failed>>
    BY <1>12, Zenon DEF Edit
  <2> QED
    BY <2>1, <2>2, <2>3, <2>4, <2>5
<1>13. ASSUME NEW s \in Slug, Delete(s)
      PROVE  TypeOK' /\ CurInv'
  BY <1>13 DEF Delete
<1>14. CASE Crash
  <2>1. Held \subseteq Artifact
    BY DEF Held
  <2>2. lost' \in [Slug -> SUBSET Artifact]
    BY <1>14, <2>1, DropTyped DEF Crash
  <2> QED
    BY <1>14, <2>2 DEF Crash, Started, FromVault
<1>15. CASE UNCHANGED vars
  BY <1>15 DEF vars
<1> QED
  BY <1>1, <1>2, <1>3, <1>4, <1>5, <1>6, <1>7, <1>8,
     <1>9, <1>10, <1>11, <1>12, <1>13, <1>14, <1>15
     DEF Next, Engine, Drain, ContinueDrain

-----------------------------------------------------------------------------
(* A drain that takes or unlinks its file keeps what is owed.              *)
LEMMA RotationKeeps ==
  ASSUME TypeOK, Queue!FilesCoverWork, NEW d \in Drainer,
         StartDrain(d) \/ EndDrain(d)
  PROVE  Queue!Owed \subseteq Queue!Owed'
<1>1. CASE Queue!Rotate(d)
  <2>1. todo[d] = {}
    BY <1>1 DEF Queue!Rotate, Queue!FilesCoverWork
  <2> QED
    BY <1>1, <2>1 DEF Queue!Rotate, Queue!Owed, TypeOK, Queue!TypeOK
<1>2. CASE Queue!Unlink(d)
  BY <1>2 DEF Queue!Unlink, Queue!Owed
<1> QED
  BY <1>1, <1>2 DEF StartDrain, EndDrain

(* Reread, action by action: only an event that is taken adds to stale,    *)
(* and the engine holds it until the hint or a drop; only a resynthesis    *)
(* takes away, and a drain drops a slug from its work only by starting one.*)
LEMMA RereadStep ==
  ASSUME IInv, TypeOK', [Next]_vars
  PROVE  Reread'
<1> USE SlugAssumption DEF IInv, queue, engine, pages, notes, counts
<1>1. ASSUME UNCHANGED <<queue, stale, lost, failed, reads, index>>, Held \subseteq Held'
      PROVE  Reread'
  <2>1. Queue!Owed' = Queue!Owed
    BY <1>1 DEF Queue!Owed
  <2>2. UNCHANGED <<stale, lost, failed, reads, current, orphans>>
    BY <1>1
  <2>3. \A a : Affected(a)' = Affected(a)
    BY <1>1 DEF Affected
  <2> QED
    BY <1>1, <2>1, <2>2, <2>3 DEF Reread
<1>2. CASE Hint \/ HintRaises
  <2>1. PICK S \in SUBSET Affected(cur) :
          /\ Append(S)
          /\ \A s \in Slug : s \in Affected(cur) => s \in S \/ cur \in lost'[s]
    BY <1>2 DEF Hint, HintRaises, Drop
  <2>2. UNCHANGED <<current, orphans, todo>> /\ live' = live \union S
    BY <2>1 DEF Append, Queue!Enqueue
  <2>3. Queue!Owed' = Queue!Owed \union S
    BY <2>2 DEF Queue!Owed
  <2>4. UNCHANGED <<stale, reads, failed, batch, index>>
    BY <1>2 DEF Hint, HintRaises
  <2>5. \A s \in Slug : lost[s] \subseteq lost'[s]
    BY <1>2 DEF Hint, HintRaises, Drop, TypeOK
  <2>6. \A a : Affected(a)' = Affected(a)
    BY <2>4 DEF Affected
  <2>7. ASSUME NEW s \in Slug, NEW a \in Held, s \in Affected(a)
        PROVE  \/ a \in Held' /\ s \in Affected(a)'
               \/ s \in Queue!Owed' \/ a \in lost'[s]
    BY <2>1, <2>3, <2>4, <2>6, <2>7 DEF Held
  <2> QED
    BY <2>2, <2>3, <2>4, <2>5, <2>7 DEF Reread
<1>3. ASSUME NEW d \in Drainer, StartDrain(d) \/ EndDrain(d)
      PROVE  Reread'
  <2>1. UNCHANGED <<stale, lost, failed, reads, current, orphans, batch, cur, index>>
    BY <1>3 DEF StartDrain, EndDrain, Queue!Rotate, Queue!Unlink
  <2>2. Queue!Owed \subseteq Queue!Owed'
    BY <1>3, RotationKeeps
  <2>3. Held' = Held /\ \A a : Affected(a)' = Affected(a)
    BY <2>1 DEF Held, Affected
  <2> QED
    BY <2>1, <2>2, <2>3 DEF Reread
<1>4. ASSUME NEW d \in Drainer, Resynth(d)
      PROVE  Reread'
  <2>1. PICK g \in todo[d] : /\ current' = [current EXCEPT ![d] = g]
                             /\ todo' = [todo EXCEPT ![d] = @ \ {g}]
    BY <1>4 DEF Resynth, Queue!Take
  <2>2. g \in Slug /\ current'[d] = g /\ current[d] = NoSlug
    BY <1>4, <2>1 DEF Resynth, Queue!Take, TypeOK, Queue!TypeOK
  <2>3. Queue!Owed \subseteq Queue!Owed' \union {g}
    BY <1>4, <2>1 DEF Resynth, Queue!Take, Queue!Owed, TypeOK, Queue!TypeOK
  <2>4. /\ reads' = [reads EXCEPT ![d] = stale[g]]
        /\ failed' = failed \ {g}
        /\ UNCHANGED <<stale, lost, orphans, batch, cur, index>>
    BY <1>4, <2>2 DEF Resynth, Queue!Take
  <2>6. Held' = Held /\ \A a : Affected(a)' = Affected(a)
    BY <2>4 DEF Held, Affected
  <2>5. ASSUME NEW s \in Slug, NEW a \in stale'[s]
        PROVE  \/ s \in Queue!Owed' \union orphans' \union failed'
               \/ a \in Held' /\ s \in Affected(a)'
               \/ a \in lost'[s]
               \/ \E e \in Drainer : current'[e] = s /\ a \in reads'[e]
    <3>1. CASE s = g
      BY <2>2, <2>4, <2>5, <3>1 DEF TypeOK
    <3>2. CASE s # g /\ s \in Queue!Owed \union orphans \union failed
      BY <2>3, <2>4, <3>2
    <3>5. CASE (a \in Held /\ s \in Affected(a)) \/ a \in lost[s]
      BY <2>4, <2>6, <3>5
    <3>3. ASSUME NEW e \in Drainer, current[e] = s, a \in reads[e]
          PROVE  current'[e] = s /\ a \in reads'[e]
      <4>1. e # d
        BY <2>2, <3>3
      <4> QED
        BY <2>1, <2>4, <3>3, <4>1 DEF TypeOK, Queue!TypeOK
    <3>4. a \in stale[s]
      BY <2>4, <2>5
    <3> QED
      BY <3>1, <3>2, <3>3, <3>4, <3>5 DEF Reread
  <2> QED
    BY <2>5 DEF Reread
<1>5. ASSUME NEW d \in Drainer, Resynthesized(d)
      PROVE  Reread'
  <2>1. /\ stale' = [stale EXCEPT ![current[d]] = @ \ reads[d]]
        /\ reads' = [reads EXCEPT ![d] = {}]
        /\ current' = [current EXCEPT ![d] = NoSlug]
        /\ lost' = [lost EXCEPT ![current[d]] = @ \ reads[d]]
        /\ UNCHANGED <<failed, live, todo, orphans, batch, cur, index>>
    BY <1>5 DEF Resynthesized, Queue!End
  <2>4. Held' = Held /\ \A a : Affected(a)' = Affected(a)
    BY <2>1 DEF Held, Affected
  <2>2. Queue!Owed' = Queue!Owed
    BY <2>1 DEF Queue!Owed
  <2>3. ASSUME NEW s \in Slug, NEW a \in stale'[s]
        PROVE  \/ s \in Queue!Owed \union orphans \union failed
               \/ a \in Held /\ s \in Affected(a)
               \/ a \in lost'[s]
               \/ \E e \in Drainer : current'[e] = s /\ a \in reads'[e]
    <3>1. a \in stale[s] /\ (s = current[d] => a \notin reads[d])
      BY <2>1, <2>3 DEF TypeOK
    <3>3. a \in lost[s] => a \in lost'[s]
      BY <2>1, <3>1 DEF TypeOK
    <3>2. ASSUME NEW e \in Drainer, current[e] = s, a \in reads[e]
          PROVE  current'[e] = s /\ a \in reads'[e]
      <4>1. e # d
        BY <3>1, <3>2
      <4> QED
        BY <2>1, <3>2, <4>1 DEF TypeOK, Queue!TypeOK
    <3> QED
      BY <3>1, <3>2, <3>3 DEF Reread
  <2> QED
    BY <2>1, <2>2, <2>3, <2>4 DEF Reread
<1>6. ASSUME NEW d \in Drainer, ResynthRaises(d)
      PROVE  Reread'
  <2>1. /\ failed' = failed \union {current[d]}
        /\ reads' = [reads EXCEPT ![d] = {}]
        /\ current' = [current EXCEPT ![d] = NoSlug]
        /\ UNCHANGED <<stale, lost, live, todo, orphans, batch, cur, index>>
    BY <1>6 DEF ResynthRaises, Queue!End
  <2>4. Held' = Held /\ \A a : Affected(a)' = Affected(a)
    BY <2>1 DEF Held, Affected
  <2>2. Queue!Owed' = Queue!Owed
    BY <2>1 DEF Queue!Owed
  <2>3. ASSUME NEW s \in Slug, NEW a \in stale[s]
        PROVE  \/ s \in Queue!Owed \union orphans \union failed'
               \/ a \in Held /\ s \in Affected(a)
               \/ a \in lost[s]
               \/ \E e \in Drainer : current'[e] = s /\ a \in reads'[e]
    <3>1. CASE s = current[d]
      BY <2>1, <3>1
    <3>2. CASE s # current[d]
      <4>1. ASSUME NEW e \in Drainer, current[e] = s, a \in reads[e]
            PROVE  current'[e] = s /\ a \in reads'[e]
        BY <2>1, <3>2, <4>1 DEF TypeOK, Queue!TypeOK
      <4> QED
        BY <2>1, <4>1 DEF Reread
    <3> QED
      BY <3>1, <3>2
  <2> QED
    BY <2>1, <2>2, <2>3, <2>4 DEF Reread
<1>7. CASE Crash
  <2>1. /\ orphans' = orphans \union UNION {rotated[d] : d \in Drainer}
        /\ UNCHANGED <<live, stale, failed>>
    BY <1>7 DEF Crash, Queue!Crash
  <2>2. Queue!Owed \subseteq live \union UNION {rotated[d] : d \in Drainer}
    BY DEF Queue!Owed, Queue!FilesCoverWork
  <2>3. live \subseteq Queue!Owed'
    BY <2>1 DEF Queue!Owed
  <2>4. \A s \in Slug : \A d \in Drainer : current[d] = s => s \in orphans'
    BY <2>1 DEF Queue!FilesCoverWork
  <2>5. \A s \in Slug : lost[s] \subseteq lost'[s]
    BY <1>7 DEF Crash, Drop, TypeOK
  <2>6. \A s \in Slug, a \in Held : s \in Affected(a) => a \in lost'[s]
    BY <1>7 DEF Crash, Drop
  <2> QED
    BY <2>1, <2>2, <2>3, <2>4, <2>5, <2>6 DEF Reread
<1>8. ASSUME NEW b \in Artifact, Take(b)
      PROVE  Reread'
  <2>1. /\ UNCHANGED <<queue, failed, index, cur>> /\ batch' = batch \union {b}
        /\ stale' = [s \in Slug |-> IF s \in Affected(b) THEN stale[s] \union {b}
                                    ELSE stale[s]]
        /\ lost' = [s \in Slug |-> IF s \in Affected(b) THEN lost[s] \ {b}
                                   ELSE lost[s]]
        /\ reads' = [d \in Drainer |-> IF current[d] \in Affected(b)
                                       THEN reads[d] \ {b} ELSE reads[d]]
    BY <1>8 DEF Take
  <2>2. Queue!Owed' = Queue!Owed
    BY <2>1 DEF Queue!Owed
  <2>3. Held \subseteq Held' /\ b \in Held'
    BY <2>1 DEF Held
  <2>4. \A a : Affected(a)' = Affected(a)
    BY <2>1 DEF Affected
  <2>5. ASSUME NEW s \in Slug, NEW a \in stale'[s], ~(a = b /\ s \in Affected(b))
        PROVE  \/ s \in Queue!Owed \union orphans \union failed
               \/ a \in Held /\ s \in Affected(a)
               \/ a \in lost'[s]
               \/ \E d \in Drainer : current[d] = s /\ a \in reads'[d]
    <3>1. a \in stale[s]
      BY <2>1, <2>5
    <3>2. a \in lost[s] => a \in lost'[s]
      BY <2>1, <2>5
    <3>3. \A d \in Drainer : current[d] = s /\ a \in reads[d] => a \in reads'[d]
      BY <2>1, <2>5
    <3> QED
      BY <3>1, <3>2, <3>3 DEF Reread
  <2> QED
    BY <2>1, <2>2, <2>3, <2>4, <2>5 DEF Reread
<1>9. CASE StreamRaises \/ HandleRaises
  <2>1. UNCHANGED <<queue, stale, failed, reads, index>>
    BY <1>9 DEF StreamRaises, HandleRaises, Raises
  <2>2. Queue!Owed' = Queue!Owed /\ \A a : Affected(a)' = Affected(a)
    BY <2>1 DEF Queue!Owed, Affected
  <2>3. \A s \in Slug : lost[s] \subseteq lost'[s]
    BY <1>9 DEF StreamRaises, HandleRaises, Raises, Drop, TypeOK
  <2>4. \A s \in Slug, a \in Held :
          s \in Affected(a) => a \in Held' \/ a \in lost'[s]
    BY <1>9 DEF StreamRaises, HandleRaises, Raises, Drop, Held
  <2>5. /\ stale' = stale /\ failed' = failed /\ orphans' = orphans /\ reads' = reads
        /\ current' = current
    BY <2>1 DEF queue
  <2>6. ASSUME NEW s \in Slug, NEW a \in stale'[s]
        PROVE  \/ s \in Queue!Owed' \union orphans' \union failed'
               \/ a \in Held' /\ s \in Affected(a)'
               \/ a \in lost'[s]
               \/ \E d \in Drainer : current'[d] = s /\ a \in reads'[d]
    <3>1. \/ s \in Queue!Owed \union orphans \union failed
          \/ a \in Held /\ s \in Affected(a)
          \/ a \in lost[s]
          \/ \E d \in Drainer : current[d] = s /\ a \in reads[d]
      BY <2>5, <2>6 DEF Reread
    <3> QED
      BY <2>2, <2>3, <2>4, <2>5, <3>1
  <2> QED
    BY <2>6 DEF Reread
<1>10. ASSUME NEW a \in Artifact, Handle(a)
       PROVE  Reread'
  <2>1. cur = NoArtifact
    BY <1>10 DEF Handle, CurInv
  <2>2. Held \subseteq Held'
    BY <1>10, <2>1, ArtifactAssumption DEF Handle, Held
  <2> QED
    BY <1>1, <1>10, <2>2 DEF Handle
<1>11. CASE \/ \E a \in Artifact : Change(a)
            \/ \E s \in Slug : Missing(s) \/ Conflict(s) \/ Load(s) \/ Write(s)
  <2>1. UNCHANGED <<queue, stale, lost, failed, reads, index, batch, cur>>
    BY <1>11 DEF Change, Missing, Conflict, Load, Write
  <2> QED
    BY <1>1, <2>1 DEF Held
<1>12. CASE FannedOut \/ Quiet \/ UNCHANGED vars \/ \E s \in Slug : Edit(s) \/ Delete(s)
  <2>1. UNCHANGED <<queue, stale, lost, failed, reads, index, batch, cur>>
    BY <1>12 DEF FannedOut, Quiet, Edit, Delete, vars
  <2> QED
    BY <1>1, <2>1 DEF Held
<1> QED
  BY <1>2, <1>3, <1>4, <1>5, <1>6, <1>7, <1>8, <1>9, <1>10, <1>11, <1>12
     DEF Next, Engine, Drain, ContinueDrain

LEMMA StepIInv == IInv /\ [Next]_vars => IInv'
<1> SUFFICES ASSUME IInv, [Next]_vars
             PROVE  IInv'
  OBVIOUS
<1>1. Queue!TypeOK' /\ Queue!FilesCoverWork'
  BY QueueStep, QueueInvariants DEF IInv, TypeOK
<1>2. TypeOK' /\ CurInv'
  BY <1>1, TypeStep DEF IInv
<1>3. Reread'
  BY <1>2, RereadStep
<1> QED
  BY <1>1, <1>2, <1>3 DEF IInv

LEMMA Inductive == Spec => []IInv
BY InitIInv, StepIInv, PTL DEF Spec

-----------------------------------------------------------------------------
(* While handle_event works on an event, the pages it has still to mark are*)
(* among those it will hint.                                               *)
MarkInv == cur # NoArtifact => marks \subseteq Affected(cur)

LEMMA MarkStep ==
  ASSUME IInv, MarkInv, [Next]_vars
  PROVE  MarkInv'
<1> USE DEF MarkInv, Affected, engine, pages, notes, counts
<1>1. ASSUME NEW a \in Artifact, Change(a) \/ Take(a) \/ Handle(a)
      PROVE  MarkInv'
  BY <1>1 DEF Change, Take, Handle
<1>2. ASSUME NEW s \in Slug, Missing(s) \/ Conflict(s) \/ Load(s) \/ Write(s)
      PROVE  MarkInv'
  BY <1>2 DEF Missing, Conflict, Load, Write
<1>3. CASE FannedOut \/ Quiet \/ StreamRaises \/ HandleRaises \/ Hint \/ HintRaises
  BY <1>3 DEF FannedOut, Quiet, StreamRaises, HandleRaises, Raises, Hint, HintRaises
<1>4. CASE \/ \E d \in Drainer : Drain(d) \/ ResynthRaises(d)
           \/ \E s \in Slug : Edit(s) \/ Delete(s)
           \/ UNCHANGED vars
  <2>1. UNCHANGED <<cur, marks, index>>
    BY <1>4 DEF Drain, StartDrain, ContinueDrain, EndDrain, Resynth, Resynthesized,
                ResynthRaises, Edit, Delete, vars
  <2> QED
    BY <2>1
<1>5. CASE Crash
  BY <1>5 DEF Crash, Started
<1> QED
  BY <1>1, <1>2, <1>3, <1>4, <1>5 DEF Next, Engine

(* PendingOwed: a page is marked on behalf of an event that will hint it,  *)
(* and only a resynthesis that ends takes the mark away again.             *)
LEMMA PendingStep ==
  ASSUME IInv, MarkInv, PendingOwed, TypeOK', [Next]_vars
  PROVE  PendingOwed'
<1> DEFINE running == {current[d] : d \in Drainer}
           left == orphans \union failed \union Dropped
           accounted == Queue!Owed \union running \union Coming \union left
<1> SUFFICES pending' \subseteq accounted'
  BY Zenon DEF PendingOwed
<1>0. pending \subseteq accounted
  BY Zenon DEF PendingOwed
<1> USE DEF queue, engine, pages, notes, counts
<1>1. ASSUME UNCHANGED <<queue, index, failed>>, pending' \subseteq pending,
             Coming \union Dropped \subseteq Coming' \union Dropped'
      PROVE  pending' \subseteq accounted'
  <2>1. Queue!Owed' = Queue!Owed /\ running' = running
    BY <1>1 DEF Queue!Owed
  <2>2. UNCHANGED <<orphans, failed>>
    BY <1>1
  <2> QED
    BY <1>0, <1>1, <2>1, <2>2
<1>2. ASSUME NEW a \in Artifact, Change(a) \/ Take(a)
      PROVE  pending' \subseteq accounted'
  <2>1. UNCHANGED <<queue, index, failed, pending, cur>> /\ batch \subseteq batch'
    BY <1>2 DEF Change, Take
  <2>2. Coming \subseteq Coming'
    BY <2>1 DEF Coming, Held, Affected
  <2>3. ASSUME NEW s \in Dropped
        PROVE  s \in Coming' \union Dropped'
    <3>1. CASE Change(a)
      BY <2>3, <3>1 DEF Change, Dropped
    <3>2. CASE Take(a) /\ s \in Affected(a)
      <4>1. a \in Held' /\ Affected(a)' = Affected(a)
        BY <3>2 DEF Take, Held, Affected
      <4> QED
        BY <3>2, <4>1 DEF Coming
    <3>3. CASE Take(a) /\ s \notin Affected(a)
      BY <2>3, <3>3 DEF Take, Dropped
    <3> QED
      BY <1>2, <3>1, <3>2, <3>3
  <2> QED
    BY <1>1, <2>1, <2>2, <2>3
<1>3. CASE \/ \E s \in Slug : Missing(s) \/ Conflict(s) \/ Load(s) \/ Edit(s) \/ Delete(s)
           \/ FannedOut \/ Quiet \/ UNCHANGED vars
  <2>1. UNCHANGED <<queue, index, failed, pending, lost, cur, batch>>
    BY <1>3 DEF Missing, Conflict, Load, Edit, Delete, FannedOut, Quiet, vars
  <2>2. Coming' = Coming /\ Dropped' = Dropped
    BY <2>1 DEF Coming, Held, Affected, Dropped
  <2> QED
    BY <1>1, <2>1, <2>2
<1>4. ASSUME NEW a \in Artifact, Handle(a)
      PROVE  pending' \subseteq accounted'
  <2>1. UNCHANGED <<queue, index, failed, pending, lost>>
    BY <1>4 DEF Handle
  <2>2. cur = NoArtifact
    BY <1>4 DEF Handle, IInv, CurInv
  <2>3. Held \subseteq Held'
    BY <1>4, <2>2, ArtifactAssumption DEF Handle, Held
  <2>4. Coming \subseteq Coming' /\ Dropped' = Dropped
    BY <2>1, <2>3 DEF Coming, Affected, Dropped
  <2> QED
    BY <1>1, <2>1, <2>4
<1>5. ASSUME NEW s \in Slug, Write(s)
      PROVE  pending' \subseteq accounted'
  <2>1. UNCHANGED <<queue, index, failed, lost, cur, batch>> /\ pending' = pending \union {s}
    BY <1>5 DEF Write
  <2>2. cur \in Artifact /\ s \in Affected(cur)
    BY <1>5, ArtifactAssumption DEF Write, Loaded, MarkInv, IInv, CurInv
  <2>3. s \in Coming
    BY <2>2, ArtifactAssumption DEF Coming, Held
  <2>4. Queue!Owed' = Queue!Owed /\ running' = running
    BY <2>1 DEF Queue!Owed
  <2>5. Coming' = Coming /\ Dropped' = Dropped
    BY <2>1 DEF Coming, Held, Affected, Dropped
  <2>6. UNCHANGED <<orphans, failed>>
    BY <2>1
  <2> QED
    BY <1>0, <2>1, <2>3, <2>4, <2>5, <2>6
<1>6. CASE StreamRaises \/ HandleRaises
  <2>1. UNCHANGED <<queue, index, failed, pending>>
    BY <1>6 DEF StreamRaises, HandleRaises, Raises
  <2>2. \A s \in Slug : lost[s] \subseteq lost'[s]
    BY <1>6 DEF StreamRaises, HandleRaises, Raises, Drop, IInv, TypeOK
  <2>3. \A s \in Slug, a \in Held :
          s \in Affected(a) => a \in Held' \/ a \in lost'[s]
    BY <1>6 DEF StreamRaises, HandleRaises, Raises, Drop, Held
  <2>4. \A a \in Held : Affected(a) \subseteq Slug /\ Affected(a)' = Affected(a)
    BY <2>1 DEF Affected, Held, IInv, TypeOK
  <2>5. Coming \union Dropped \subseteq Coming' \union Dropped'
    BY <2>2, <2>3, <2>4 DEF Coming, Dropped
  <2> QED
    BY <1>1, <2>1, <2>5
<1>7. CASE Hint \/ HintRaises
  <2>1. PICK S \in SUBSET Affected(cur) :
          /\ Append(S)
          /\ \A s \in Slug : s \in Affected(cur) => s \in S \/ cur \in lost'[s]
    BY <1>7 DEF Hint, HintRaises, Drop
  <2>2. UNCHANGED <<current, orphans, todo>> /\ live' = live \union S
    BY <2>1 DEF Append, Queue!Enqueue
  <2>3. Queue!Owed' = Queue!Owed \union S /\ running' = running
    BY <2>2 DEF Queue!Owed
  <2>4. UNCHANGED <<pending, failed, batch, index>>
    BY <1>7 DEF Hint, HintRaises
  <2>5. \A s \in Slug : lost[s] \subseteq lost'[s]
    BY <1>7 DEF Hint, HintRaises, Drop, IInv, TypeOK
  <2>6. \A a \in Held : Affected(a) \subseteq Slug /\ Affected(a)' = Affected(a)
    BY <2>4 DEF Affected, Held, IInv, TypeOK
  <2>7. ASSUME NEW a \in Held, NEW s \in Affected(a)
        PROVE  s \in Coming' \union S \union Dropped'
    <3>1. CASE a = cur
      BY <2>1, <2>6, <3>1 DEF Dropped
    <3>2. CASE a # cur
      <4>1. a \in Held'
        BY <2>4, <3>2 DEF Held
      <4> QED
        BY <2>6, <4>1 DEF Coming
    <3> QED
      BY <3>1, <3>2
  <2>8. Coming \subseteq Coming' \union S \union Dropped'
    BY <2>7 DEF Coming
  <2>9. Dropped \subseteq Dropped'
    BY <2>5 DEF Dropped
  <2> QED
    BY <1>0, <2>2, <2>3, <2>4, <2>8, <2>9
<1>8. ASSUME NEW d \in Drainer, StartDrain(d) \/ EndDrain(d)
      PROVE  pending' \subseteq accounted'
  <2>1. UNCHANGED <<current, orphans, failed, lost, batch, cur, index, pending>>
    BY <1>8 DEF StartDrain, EndDrain, Queue!Rotate, Queue!Unlink
  <2>2. Queue!Owed \subseteq Queue!Owed'
    BY <1>8, RotationKeeps DEF IInv
  <2>3. Coming' = Coming /\ Dropped' = Dropped /\ running' = running
    BY <2>1 DEF Coming, Held, Affected, Dropped
  <2> QED
    BY <1>0, <2>1, <2>2, <2>3
<1>9. ASSUME NEW d \in Drainer, Resynth(d)
      PROVE  pending' \subseteq accounted'
  <2>1. PICK g \in todo[d] : /\ current' = [current EXCEPT ![d] = g]
                             /\ todo' = [todo EXCEPT ![d] = @ \ {g}]
    BY <1>9 DEF Resynth, Queue!Take
  <2>2. /\ UNCHANGED <<orphans, lost, batch, cur, index, pending, live>>
        /\ current[d] = NoSlug /\ failed' = failed \ {current'[d]}
    BY <1>9 DEF Resynth, Queue!Take
  <2>3. Queue!Owed \subseteq Queue!Owed' \union {g}
    BY <2>1, <2>2 DEF Queue!Owed, IInv, TypeOK, Queue!TypeOK
  <2>4. running \subseteq running' \union {NoSlug} /\ g \in running' /\ current'[d] = g
    BY <2>1, <2>2 DEF IInv, TypeOK, Queue!TypeOK
  <2>5. Coming' = Coming /\ Dropped' = Dropped
    BY <2>2 DEF Coming, Held, Affected, Dropped
  <2>6. NoSlug \notin pending
    BY SlugAssumption DEF IInv, TypeOK
  <2> QED
    BY <1>0, <2>2, <2>3, <2>4, <2>5, <2>6
<1>10. ASSUME NEW d \in Drainer, Resynthesized(d) \/ ResynthRaises(d)
       PROVE  pending' \subseteq accounted'
  <2>1. /\ current' = [current EXCEPT ![d] = NoSlug]
        /\ UNCHANGED <<live, todo, orphans, batch, cur, index>>
    BY <1>10 DEF Resynthesized, ResynthRaises, Queue!End
  <2>2. Queue!Owed' = Queue!Owed
    BY <2>1 DEF Queue!Owed
  <2>3. running \subseteq running' \union {current[d]}
    BY <2>1 DEF IInv, TypeOK, Queue!TypeOK
  <2>4. Coming' = Coming
    BY <2>1 DEF Coming, Held, Affected
  <2>5. /\ pending' \subseteq pending
        /\ current[d] \in pending' => current[d] \in failed'
        /\ failed \subseteq failed'
    BY <1>10 DEF Resynthesized, ResynthRaises
  <2>6. Dropped \subseteq Dropped' \union {current[d]}
    BY <1>10 DEF Resynthesized, ResynthRaises, Dropped, IInv, TypeOK
  <2> QED
    BY <1>0, <2>1, <2>2, <2>3, <2>4, <2>5, <2>6
<1>11. CASE Crash
  <2>1. /\ orphans' = orphans \union UNION {rotated[d] : d \in Drainer}
        /\ UNCHANGED <<live, failed, pending>>
    BY <1>11 DEF Crash, Queue!Crash
  <2>2. Queue!Owed \subseteq Queue!Owed' \union orphans'
    BY <2>1 DEF Queue!Owed, Queue!FilesCoverWork, IInv
  <2>3. running \subseteq orphans' \union {NoSlug}
    BY <2>1 DEF Queue!FilesCoverWork, IInv
  <2>4. Dropped \subseteq Dropped'
    BY <1>11 DEF Crash, Drop, Dropped, IInv, TypeOK
  <2>5. \A a \in Held : Affected(a) \subseteq Slug
    BY DEF Affected, Held, IInv, TypeOK
  <2>6. Coming \subseteq Dropped'
    BY <1>11, <2>5 DEF Crash, Drop, Dropped, Coming
  <2>7. NoSlug \notin pending
    BY SlugAssumption DEF IInv, TypeOK
  <2> QED
    BY <1>0, <2>1, <2>2, <2>3, <2>4, <2>6, <2>7
<1> QED
  BY <1>2, <1>3, <1>4, <1>5, <1>6, <1>7, <1>8, <1>9, <1>10, <1>11
     DEF Next, Engine, Drain, ContinueDrain

-----------------------------------------------------------------------------
(* The variables of the engine, the vault and the queue keep their types.  *)
THEOREM TypeCorrect == Spec => []TypeOK
<1>1. IInv => TypeOK
  BY DEF IInv
<1> QED
  BY Inductive, <1>1, PTL

(* A page with an event stays accounted for until a resynthesis that began *)
(* after the event rewrites it: it is to be hinted, owed or under such a   *)
(* resynthesis, or an exception or a crash hit that page or that event     *)
(* (consume_with_batching, handle_event, drain_resynth_queue).             *)
THEOREM RereadThm == Spec => []Reread
<1>1. IInv => Reread
  BY DEF IInv
<1> QED
  BY Inductive, <1>1, PTL

(* Engine, drains, operator and crashes together use the queue the way its *)
(* own specification says: every theorem about ResynthQueue holds here.    *)
THEOREM UsesQueueThm == Spec => UsesQueue
<1>1. Init => Queue!Init
  BY DEF Init
<1>2. IInv /\ [Next]_vars => [Queue!Next]_(Queue!vars)
  BY QueueStep DEF IInv
<1> QED
  BY <1>1, <1>2, Inductive, PTL DEF Spec, UsesQueue, Queue!Spec

(* A page that shows pending_revalidation has its resynthesis owed,        *)
(* running or about to be hinted, or an exception or a crash took it       *)
(* (handle_event, _mark_pending, drain_resynth_queue).                     *)
THEOREM PendingOwedThm == Spec => []PendingOwed
<1>1. Init => MarkInv /\ PendingOwed
  BY DEF Init, MarkInv, PendingOwed
<1>2. IInv /\ IInv' /\ MarkInv /\ PendingOwed /\ [Next]_vars => MarkInv' /\ PendingOwed'
  BY MarkStep, PendingStep DEF IInv
<1> QED
  BY <1>1, <1>2, Inductive, PTL DEF Spec
=============================================================================
