----------------------------- MODULE ActingProofs ----------------------------
(* Proofs about what decides to act: the scheduler, the queue its job       *)
(* drains, and the tool server with the investigations that use it; for     *)
(* any sets of jobs, tools, investigations and operators and any bounds.    *)
EXTENDS Scheduler, Agent, ResynthQueue, SequenceTheorems, TLAPS

(* The ring of JobHistory, the audit log and the history of the tracker:   *)
(* an element is added at the end, and the oldest one goes when it is full.*)
Ringed(s, e, cap) == IF Len(Append(s, e)) > cap THEN Tail(Append(s, e)) ELSE Append(s, e)

LEMMA Ring ==
  ASSUME NEW S, NEW s \in Seq(S), NEW e \in S, NEW cap \in Nat \ {0}, Len(s) =< cap
  PROVE  /\ Ringed(s, e, cap) \in Seq(S) /\ Len(s) \in Nat
         /\ Len(Ringed(s, e, cap)) = IF Len(s) = cap THEN cap ELSE Len(s) + 1
         /\ Ringed(s, e, cap)[Len(Ringed(s, e, cap))] = e
         /\ \A k \in 1..Len(Ringed(s, e, cap)) - 1 :
              Ringed(s, e, cap)[k] = s[IF Len(s) = cap THEN k + 1 ELSE k]
<1> DEFINE u == Append(s, e)
           t == Ringed(s, e, cap)
<1> SUFFICES /\ t \in Seq(S) /\ Len(s) \in Nat
             /\ Len(t) = IF Len(s) = cap THEN cap ELSE Len(s) + 1
             /\ t[Len(t)] = e
             /\ \A k \in 1..Len(t) - 1 : t[k] = s[IF Len(s) = cap THEN k + 1 ELSE k]
  OBVIOUS
<1>1. Len(s) \in Nat
  BY LenProperties
<1>2. /\ u \in Seq(S) /\ u # <<>> /\ Len(u) = Len(s) + 1 /\ u[Len(s) + 1] = e
      /\ \A i \in 1..Len(s) : u[i] = s[i]
  BY AppendProperties
<1>3. t = IF Len(u) > cap THEN Tail(u) ELSE u
  BY DEF Ringed
<1> HIDE DEF u, t
<1>4. /\ Tail(u) \in Seq(S) /\ Len(Tail(u)) = Len(s)
      /\ \A i \in 1..Len(s) : Tail(u)[i] = u[i + 1]
  BY <1>1, <1>2, HeadTailProperties
<1>5. CASE Len(s) = cap
  <2>1. t = Tail(u)
    BY <1>1, <1>2, <1>3, <1>5
  <2>2. \A k \in 1..Len(s) - 1 : k + 1 \in 1..Len(s) /\ k \in 1..Len(s)
    BY <1>1
  <2>3. Tail(u)[Len(s)] = e
    BY <1>1, <1>2, <1>4, <1>5
  <2> QED
    BY <1>1, <1>2, <1>4, <1>5, <2>1, <2>2, <2>3
<1>6. CASE Len(s) # cap
  <2>1. t = u
    BY <1>1, <1>2, <1>3, <1>6
  <2> QED
    BY <1>1, <1>2, <1>6, <2>1
<1> QED
  BY <1>1, <1>5, <1>6

-----------------------------------------------------------------------------
(* The scheduler: the inductive invariant adds to the parts of its promise *)
(* that no ring is longer than its capacity.                               *)
RingsFit == \A j \in Job : Len(rows[j]) =< Cap

SchedulerInv ==
  /\ SchedulerTypeOK /\ OneTickPerJob /\ TicksTheTable /\ StoppedIsQuiet
  /\ EveryRunRecorded /\ RingsFit

LEMMA SchedulerInitInv == SchedulerInit => SchedulerInv
<1> SUFFICES ASSUME SchedulerInit PROVE SchedulerInv
  OBVIOUS
<1>1. /\ n = 0 /\ run = <<>> /\ started = FALSE /\ halted = FALSE /\ paused = {}
      /\ \A j \in Job : rows[j] = <<>> /\ reg[j] = 0
  BY DEF SchedulerInit
<1>2. 1..n = {}
  BY <1>1
<1>3. SchedulerTypeOK
  <2>1. table \in [Job -> {"absent", "disabled", "enabled"}]
    BY DEF SchedulerInit, Default
  <2>2. version \in [Job -> Nat] /\ reg \in [Job -> Nat]
    BY DEF SchedulerInit
  <2>3. run \in [1..n -> Runs]
    <3>1. <<>> \in Seq(Runs) /\ Len(<<>>) = 0
      OBVIOUS
    <3>2. <<>> \in [1..Len(<<>>) -> Runs]
      BY <3>1, LenProperties
    <3> QED
      BY <1>1, <3>1, <3>2
  <2>4. rows \in [Job -> Seq(1..n)]
    <3>1. rows = [j \in Job |-> <<>>]
      BY DEF SchedulerInit
    <3>2. <<>> \in Seq(1..n)
      OBVIOUS
    <3> QED
      BY <3>1, <3>2
  <2> QED
    BY <1>1, <2>1, <2>2, <2>3, <2>4 DEF SchedulerTypeOK
<1>4. OneTickPerJob /\ TicksTheTable /\ StoppedIsQuiet
  BY <1>1, <1>2 DEF OneTickPerJob, TicksTheTable, StoppedIsQuiet, Live
<1>5. \A j \in Job : DOMAIN rows[j] = {} /\ Len(rows[j]) = 0
  <2>1. <<>> \in Seq(Nat) /\ Len(<<>>) = 0
    OBVIOUS
  <2>2. DOMAIN <<>> = 1..0
    BY <2>1, LenProperties
  <2>3. 1..0 = {}
    OBVIOUS
  <2> QED
    BY <1>1, <2>1, <2>2, <2>3
<1>6. EveryRunRecorded /\ RingsFit
  <2>1. \A j \in Job : EndedRuns(j) = {} /\ InRing(j) = {}
    BY <1>2, <1>5 DEF EndedRuns, InRing
  <2>2. RingsFit
    <3>1. 0 =< Cap
      BY BoundAssumption
    <3> QED
      BY <1>5, <3>1 DEF RingsFit
  <2> QED
    BY <1>5, <2>1, <2>2 DEF EveryRunRecorded
<1> QED
  BY <1>3, <1>4, <1>6 DEF SchedulerInv

(* The run that _execute begins comes after all others.                    *)
LEMMA RunAppended ==
  ASSUME SchedulerTypeOK, NEW e \in Runs, n' = n + 1, run' = Append(run, e)
  PROVE  /\ run' \in [1..n' -> Runs] /\ run'[n'] = e
         /\ \A r \in 1..n : run'[r] = run[r]
<1>1. run \in Seq(Runs) /\ n \in Nat
  BY SeqDef DEF SchedulerTypeOK
<1>2. Len(run) = n
  <2>1. DOMAIN run = 1..Len(run) /\ DOMAIN run = 1..n /\ Len(run) \in Nat
    BY <1>1, LenProperties DEF SchedulerTypeOK
  <2>2. ~(n < Len(run)) /\ ~(Len(run) < n)
    <3>1. \A k \in Nat : k \in 1..Len(run) <=> k \in 1..n
      BY <2>1
    <3> QED
      BY <1>1, <2>1, <3>1
  <2>3. n \in Nat /\ Len(run) \in Nat
    BY <1>1, <2>1
  <2> QED
    BY <2>2, <2>3
<1>3. /\ run' \in Seq(Runs) /\ Len(run') = n + 1 /\ run'[n + 1] = e
      /\ \A r \in 1..n : run'[r] = run[r]
  BY <1>1, <1>2, AppendProperties
<1> QED
  BY <1>3, LenProperties

(* A row is added to the ring of its job only.                             *)
LEMMA RowAdded ==
  ASSUME SchedulerTypeOK, RingsFit, NEW j \in Job, NEW r \in 1..n', n =< n', n' \in Nat,
         RecordRun(j, r)
  PROVE  /\ rows' \in [Job -> Seq(1..n')]
         /\ \A i \in Job : i # j => rows'[i] = rows[i]
         /\ Len(rows'[j]) = IF Len(rows[j]) = Cap THEN Cap ELSE Len(rows[j]) + 1
         /\ rows'[j][Len(rows'[j])] = r
         /\ \A k \in 1..Len(rows'[j]) - 1 :
              rows'[j][k] = rows[j][IF Len(rows[j]) = Cap THEN k + 1 ELSE k]
<1>1. Len(rows[j]) =< Cap /\ \A i \in Job : rows[i] \in Seq(1..n')
  <2>1. 1..n \subseteq 1..n'
    BY DEF SchedulerTypeOK
  <2> QED
    BY <2>1, SeqMonotonic DEF SchedulerTypeOK, RingsFit
<1>2. /\ rows'[j] = Ringed(rows[j], r, Cap) /\ rows' = [rows EXCEPT ![j] = rows'[j]]
      /\ \A i \in Job : i # j => rows'[i] = rows[i]
  BY DEF RecordRun, SchedulerTypeOK, Ringed
<1>3. /\ rows'[j] \in Seq(1..n')
      /\ Len(rows'[j]) = IF Len(rows[j]) = Cap THEN Cap ELSE Len(rows[j]) + 1
      /\ rows'[j][Len(rows'[j])] = r
      /\ \A k \in 1..Len(rows'[j]) - 1 :
           rows'[j][k] = rows[j][IF Len(rows[j]) = Cap THEN k + 1 ELSE k]
  <2> DEFINE s == rows[j]
             u == Ringed(s, r, Cap)
             T == 1..n'
  <2>1. s \in Seq(T) /\ Len(s) =< Cap /\ Cap \in Nat \ {0} /\ r \in T
    BY <1>1, BoundAssumption
  <2> HIDE DEF s, T
  <2>2. /\ u \in Seq(T) /\ Len(u) = IF Len(s) = Cap THEN Cap ELSE Len(s) + 1
        /\ u[Len(u)] = r
    BY <2>1, Ring
  <2>3. \A k \in 1..Len(u) - 1 : u[k] = s[IF Len(s) = Cap THEN k + 1 ELSE k]
    BY <2>1, Ring
  <2>4. rows'[j] = u
    BY <1>2 DEF s
  <2> HIDE DEF u
  <2> QED
    BY <2>2, <2>3, <2>4 DEF s, T
<1>4. rows' \in [Job -> Seq(1..n')]
  BY <1>1, <1>2, <1>3 DEF SchedulerTypeOK
<1> QED
  BY <1>2, <1>3, <1>4

-----------------------------------------------------------------------------
(* A run begins, on a tick or by hand.                                     *)
LEMMA Began ==
  ASSUME SchedulerInv, NEW j \in Job, NEW tick \in BOOLEAN, NEW v \in Nat, Execute(j, tick, v)
  PROVE  /\ n' = n + 1 /\ n' \in Nat /\ run' \in [1..n' -> Runs]
         /\ \A r \in 1..n : run'[r] = run[r]
         /\ run'[n'].job = j /\ run'[n'].tick = tick /\ run'[n'].at \in {"body", "skipped"}
         /\ run'[n'].at = "skipped" => RecordRun(j, n')
         /\ run'[n'].at = "body" => UNCHANGED rows /\ (halted => run'[n'].blind)
<1>1. SchedulerTypeOK /\ n \in Nat /\ n' = n + 1
  BY DEF SchedulerInv, SchedulerTypeOK, Execute
<1>2. CASE halted /\ RecordRun(j, n')
           /\ run' = Append(run, [job |-> j, tick |-> tick, ver |-> v,
                                  blind |-> FALSE, at |-> "skipped"])
  <2> DEFINE e == [job |-> j, tick |-> tick, ver |-> v, blind |-> FALSE, at |-> "skipped"]
  <2>1. e \in Runs /\ run' = Append(run, e)
    BY <1>2 DEF Runs
  <2>2. run' \in [1..n' -> Runs] /\ run'[n'] = e /\ \A r \in 1..n : run'[r] = run[r]
    BY <1>1, <2>1, RunAppended
  <2>3. run'[n'].job = j /\ run'[n'].tick = tick /\ run'[n'].at = "skipped"
    BY <2>2
  <2>4. n' \in Nat /\ run'[n'].at \in {"body", "skipped"} /\ run'[n'].at # "body"
    BY <1>1, <2>3
  <2>5. RecordRun(j, n')
    BY <1>2
  <2>6. run' \in [1..n' -> Runs] /\ \A r \in 1..n : run'[r] = run[r]
    BY <2>2
  <2> HIDE DEF e
  <2> QED
    BY <1>1, <2>3, <2>4, <2>5, <2>6
<1>3. ASSUME UNCHANGED rows, NEW raises \in BOOLEAN, ~halted \/ raises,
             run' = Enters(j, tick, v, raises)
      PROVE  /\ run' \in [1..n' -> Runs] /\ \A r \in 1..n : run'[r] = run[r]
             /\ run'[n'].job = j /\ run'[n'].tick = tick /\ run'[n'].at = "body"
             /\ halted => run'[n'].blind
  <2> DEFINE e == [job |-> j, tick |-> tick, ver |-> v, blind |-> raises, at |-> "body"]
  <2>1. e \in Runs /\ run' = Append(run, e)
    BY <1>3 DEF Runs, Enters
  <2>2. run' \in [1..n' -> Runs] /\ run'[n'] = e /\ \A r \in 1..n : run'[r] = run[r]
    BY <1>1, <2>1, RunAppended
  <2> QED
    BY <1>3, <2>2
<1> QED
  BY <1>1, <1>2, <1>3 DEF Execute

(* A run that ends gets its row, and it is the newest of its job.          *)
LEMMA RowOfRun ==
  ASSUME SchedulerInv, NEW j \in Job, NEW r \in 1..n', n =< n', n' \in Nat, RecordRun(j, r),
         EndedRuns(j)' = EndedRuns(j) \union {r}, r \notin EndedRuns(j),
         \A i \in Job : i # j => EndedRuns(i)' = EndedRuns(i)
  PROVE  /\ EveryRunRecorded' /\ RingsFit' /\ rows' \in [Job -> Seq(1..n')]
         /\ \A i \in Job : EndedRuns(i)' # EndedRuns(i)
              => LastRun(i)' \in EndedRuns(i)' \ EndedRuns(i)
<1> DEFINE full == Len(rows[j]) = Cap
           m == Len(rows[j])
<1>0. SchedulerTypeOK /\ RingsFit /\ EveryRunRecorded
  BY DEF SchedulerInv
<1>1. /\ rows' \in [Job -> Seq(1..n')]
      /\ \A i \in Job : i # j => rows'[i] = rows[i]
      /\ Len(rows'[j]) = IF full THEN Cap ELSE m + 1
      /\ rows'[j][Len(rows'[j])] = r
      /\ \A k \in 1..Len(rows'[j]) - 1 : rows'[j][k] = rows[j][IF full THEN k + 1 ELSE k]
  BY <1>0, RowAdded
<1>2. /\ m \in Nat /\ m =< Cap /\ Cap \in Nat /\ Cap > 0
      /\ DOMAIN rows[j] = 1..m /\ DOMAIN rows'[j] = 1..Len(rows'[j])
      /\ Len(rows'[j]) \in Nat
  BY <1>0, <1>1, LenProperties, BoundAssumption DEF SchedulerTypeOK, RingsFit
<1>3. Len(rows'[j]) > 0 /\ Len(rows'[j]) =< Cap
  BY <1>1, <1>2
<1>4. /\ \A k \in 1..m : rows[j][k] \in EndedRuns(j)
      /\ \A i, k \in 1..m : i # k => rows[j][i] # rows[j][k]
      /\ InRing(j) # EndedRuns(j) => m = Cap
  BY <1>0, <1>2 DEF EveryRunRecorded, InRing
<1>5. \A k \in 1..Len(rows'[j]) - 1 :
        (IF full THEN k + 1 ELSE k) \in 1..m
  BY <1>1, <1>2
<1>6. \A k \in 1..Len(rows'[j]) : rows'[j][k] \in EndedRuns(j)'
  <2> SUFFICES ASSUME NEW k \in 1..Len(rows'[j]) PROVE rows'[j][k] \in EndedRuns(j)'
    OBVIOUS
  <2>1. CASE k = Len(rows'[j])
    BY <1>1, <2>1
  <2>2. CASE k # Len(rows'[j])
    <3>1. k \in 1..Len(rows'[j]) - 1
      BY <1>2, <2>2
    <3> QED
      BY <1>1, <1>4, <1>5, <3>1
  <2> QED
    BY <2>1, <2>2
<1>7. \A i, k \in 1..Len(rows'[j]) : i # k => rows'[j][i] # rows'[j][k]
  <2> SUFFICES ASSUME NEW i \in 1..Len(rows'[j]), NEW k \in 1..Len(rows'[j]), i < k
               PROVE  rows'[j][i] # rows'[j][k]
    BY <1>2
  <2>1. i \in 1..Len(rows'[j]) - 1
    BY <1>2
  <2>2. rows'[j][i] \in EndedRuns(j)
    BY <1>1, <1>4, <1>5, <2>1
  <2>3. CASE k = Len(rows'[j])
    BY <1>1, <2>2, <2>3
  <2>4. CASE k # Len(rows'[j])
    <3>1. k \in 1..Len(rows'[j]) - 1
      BY <1>2, <2>4
    <3> DEFINE p == IF full THEN i + 1 ELSE i
               q == IF full THEN k + 1 ELSE k
    <3>2. p # q /\ p \in 1..m /\ q \in 1..m
      BY <1>2, <1>5, <2>1, <3>1
    <3>3. rows'[j][i] = rows[j][p] /\ rows'[j][k] = rows[j][q]
      BY <1>1, <2>1, <3>1
    <3> QED
      BY <1>4, <3>2, <3>3
  <2> QED
    BY <2>3, <2>4
<1>8. InRing(j)' # EndedRuns(j)' => Len(rows'[j]) = Cap
  <2> SUFFICES ASSUME ~full PROVE InRing(j)' = EndedRuns(j)'
    BY <1>1
  <2>1. InRing(j) = EndedRuns(j)
    BY <1>4
  <2>2. \A x \in EndedRuns(j) : \E k \in 1..m : rows[j][k] = x
    BY <1>2, <2>1 DEF InRing
  <2>3. Len(rows'[j]) = m + 1 /\ \A k \in 1..m : rows'[j][k] = rows[j][k]
    BY <1>1, <1>2
  <2>4. \A x \in EndedRuns(j)' : \E k \in 1..Len(rows'[j]) : rows'[j][k] = x
    <3>1. m + 1 \in 1..Len(rows'[j]) /\ rows'[j][m + 1] = r
      BY <1>1, <1>2, <2>3
    <3>2. \A k \in 1..m : k \in 1..Len(rows'[j])
      BY <1>2, <2>3
    <3> QED
      BY <2>2, <2>3, <3>1, <3>2
  <2> QED
    BY <1>2, <1>6, <2>4 DEF InRing
<1>9. InRing(j)' \subseteq EndedRuns(j)'
  BY <1>2, <1>6 DEF InRing
<1>10. \A i \in Job : i # j => InRing(i)' = InRing(i)
  BY <1>1 DEF InRing
<1>11. EveryRunRecorded'
  <2> SUFFICES ASSUME NEW i \in Job
               PROVE  /\ InRing(i)' \subseteq EndedRuns(i)'
                      /\ \A a, b \in DOMAIN rows'[i] : a # b => rows'[i][a] # rows'[i][b]
                      /\ InRing(i)' # EndedRuns(i)' => Len(rows'[i]) = Cap
    BY DEF EveryRunRecorded
  <2>1. CASE i = j
    BY <1>2, <1>7, <1>8, <1>9, <2>1
  <2>2. CASE i # j
    BY <1>0, <1>1, <1>10, <2>2 DEF EveryRunRecorded
  <2> QED
    BY <2>1, <2>2
<1>12. RingsFit'
  BY <1>0, <1>1, <1>3 DEF RingsFit
<1>13. LastRun(j)' = r
  BY <1>1 DEF LastRun
<1> QED
  BY <1>1, <1>11, <1>12, <1>13
LEMMA SchedulerStep ==
  ASSUME SchedulerInv, [SchedulerNext]_schedulerVars
  PROVE  /\ SchedulerInv'
         /\ \A r \in 1..n' : r > n /\ halted /\ run'[r].at = "body" => run'[r].blind
         /\ \A j \in Job : EndedRuns(j)' # EndedRuns(j)
              => LastRun(j)' \in EndedRuns(j)' \ EndedRuns(j)
<1> DEFINE Promised ==
      /\ SchedulerInv'
      /\ \A r \in 1..n' : r > n /\ halted /\ run'[r].at = "body" => run'[r].blind
      /\ \A j \in Job : EndedRuns(j)' # EndedRuns(j)
           => LastRun(j)' \in EndedRuns(j)' \ EndedRuns(j)
<1> SUFFICES Promised
  OBVIOUS
<1>0. /\ SchedulerTypeOK /\ OneTickPerJob /\ TicksTheTable /\ StoppedIsQuiet
      /\ EveryRunRecorded /\ RingsFit /\ n \in Nat
      /\ \A r \in 1..n : run[r] \in Runs
  BY DEF SchedulerInv, SchedulerTypeOK
(* A step that begins or ends no run.                                      *)
<1>1. ASSUME UNCHANGED <<n, rows>>, SchedulerTypeOK',
             \A r \in 1..n : /\ run'[r].job = run[r].job /\ run'[r].tick = run[r].tick
                             /\ \/ run'[r].at = run[r].at
                                \/ run[r].at = "body" /\ run'[r].at = "cancelled"
                                \/ run[r].at = "cancelled" /\ run'[r].at = "gone",
             TicksTheTable',
             ~started' => \/ ~started
                          \/ \A r \in 1..n : run'[r].tick => run'[r].at # "body"
      PROVE  Promised
  <2>1. \A j \in Job : EndedRuns(j)' = EndedRuns(j)
    BY <1>1 DEF EndedRuns
  <2>2. \A j \in Job : InRing(j)' = InRing(j)
    BY <1>1 DEF InRing
  <2>3. EveryRunRecorded' /\ RingsFit'
    BY <1>0, <1>1, <2>1, <2>2 DEF EveryRunRecorded, RingsFit
  <2>4. Live' \subseteq Live
    BY <1>1 DEF Live
  <2>5. OneTickPerJob'
    <3> SUFFICES ASSUME NEW r \in Live', NEW q \in Live', r # q, run'[r].job = run'[q].job,
                        run'[r].tick, run'[q].tick
                 PROVE  "cancelled" \in {run'[r].at, run'[q].at}
      BY DEF OneTickPerJob
    <3>1. r \in Live /\ q \in Live /\ r \in 1..n /\ q \in 1..n
      BY <2>4 DEF Live
    <3>2. "cancelled" \in {run[r].at, run[q].at}
      BY <1>0, <1>1, <3>1 DEF OneTickPerJob
    <3> QED
      BY <1>1, <3>1, <3>2 DEF Live
  <2>6. StoppedIsQuiet'
    <3> SUFFICES ASSUME ~started', NEW r \in Live', run'[r].tick
                 PROVE  run'[r].at = "cancelled"
      BY DEF StoppedIsQuiet
    <3>1. r \in Live /\ r \in 1..n /\ run'[r].at \in {"body", "cancelled"}
      BY <1>1, <2>4 DEF Live
    <3> QED
      BY <1>0, <1>1, <3>1 DEF StoppedIsQuiet
  <2>7. \A r \in 1..n' : ~(r > n)
    BY <1>0, <1>1
  <2> QED
    BY <1>1, <2>1, <2>3, <2>5, <2>6, <2>7 DEF SchedulerInv
<1>2. ASSUME NEW j \in Job, NEW tick \in BOOLEAN, NEW v \in Nat, Execute(j, tick, v),
             UNCHANGED <<table, version, started, reg, paused, halted>>,
             tick => started /\ \A r \in 1..n :
                       ~(run[r].job = j /\ run[r].tick /\ run[r].at = "body")
      PROVE  Promised
  <2>1. /\ n' = n + 1 /\ n' \in Nat /\ run' \in [1..n' -> Runs] /\ n' \in 1..n'
        /\ \A r \in 1..n : run'[r] = run[r]
        /\ run'[n'].job = j /\ run'[n'].tick = tick /\ run'[n'].at \in {"body", "skipped"}
        /\ run'[n'].at = "skipped" => RecordRun(j, n')
        /\ run'[n'].at = "body" => UNCHANGED rows /\ (halted => run'[n'].blind)
    BY <1>0, <1>2, Began
  <2>2. 1..n' = 1..n \union {n'} /\ n' \notin 1..n
    BY <1>0, <2>1
  <2>3. TicksTheTable'
    BY <1>0, <1>2 DEF TicksTheTable
  <2>4. Live' \subseteq Live \union {n'} /\ \A r \in Live : run'[r] = run[r]
    BY <2>1, <2>2 DEF Live
  <2>5. OneTickPerJob'
    <3> SUFFICES ASSUME NEW r \in Live', NEW q \in Live', r # q, run'[r].job = run'[q].job,
                        run'[r].tick, run'[q].tick, r # n'
                 PROVE  "cancelled" \in {run'[r].at, run'[q].at}
      BY DEF OneTickPerJob
    <3>1. r \in Live /\ r \in 1..n /\ run'[r] = run[r]
      BY <2>4 DEF Live
    <3>2. CASE q = n'
      <4>1. run[r].job = j /\ run[r].tick /\ tick
        BY <2>1, <3>1, <3>2
      <4>2. run[r].at # "body" /\ run[r].at \in {"body", "cancelled"}
        BY <1>2, <3>1, <4>1 DEF Live
      <4> QED
        BY <3>1, <4>2
    <3>3. CASE q # n'
      BY <1>0, <2>4, <3>1, <3>3 DEF OneTickPerJob
    <3> QED
      BY <3>2, <3>3
  <2>6. StoppedIsQuiet'
    <3> SUFFICES ASSUME ~started', NEW r \in Live', run'[r].tick
                 PROVE  run'[r].at = "cancelled"
      BY DEF StoppedIsQuiet
    <3>1. r # n'
      BY <1>2, <2>1
    <3> QED
      BY <1>0, <1>2, <2>4, <3>1 DEF StoppedIsQuiet
  <2>7. \A r \in 1..n' : r > n /\ halted /\ run'[r].at = "body" => run'[r].blind
    <3>1. \A r \in 1..n : ~(r > n)
      BY <1>0
    <3> QED
      BY <2>1, <2>2, <3>1
  <2>8. /\ EveryRunRecorded' /\ RingsFit' /\ rows' \in [Job -> Seq(1..n')]
        /\ \A i \in Job : EndedRuns(i)' # EndedRuns(i)
             => LastRun(i)' \in EndedRuns(i)' \ EndedRuns(i)
    <3>1. CASE run'[n'].at = "skipped"
      <4>1. EndedRuns(j)' = EndedRuns(j) \union {n'}
        BY <2>1, <2>2, <3>1 DEF EndedRuns
      <4>2. n' \notin EndedRuns(j)
        BY <1>0, <2>1 DEF EndedRuns
      <4>3. \A i \in Job : i # j => EndedRuns(i)' = EndedRuns(i)
        BY <2>1, <2>2 DEF EndedRuns
      <4>4. n =< n' /\ RecordRun(j, n')
        BY <1>0, <2>1, <3>1
      <4> QED
        BY <2>1, <4>1, <4>2, <4>3, <4>4, RowOfRun
    <3>2. CASE run'[n'].at = "body"
      <4>1. \A i \in Job : EndedRuns(i)' = EndedRuns(i)
        BY <2>1, <2>2, <3>2 DEF EndedRuns
      <4>2. UNCHANGED rows /\ \A i \in Job : InRing(i)' = InRing(i)
        BY <2>1, <3>2 DEF InRing
      <4>3. EveryRunRecorded' /\ RingsFit'
        BY <1>0, <4>1, <4>2 DEF EveryRunRecorded, RingsFit
      <4>4. rows' \in [Job -> Seq(1..n')]
        <5>1. 1..n \subseteq 1..n'
          BY <1>0, <2>1
        <5>2. \A i \in Job : rows[i] \in Seq(1..n')
          BY <1>0, <5>1, SeqMonotonic DEF SchedulerTypeOK
        <5> QED
          BY <1>0, <4>2, <5>2 DEF SchedulerTypeOK
      <4> QED
        BY <4>1, <4>3, <4>4
    <3> QED
      BY <2>1, <3>1, <3>2
  <2>9. SchedulerTypeOK'
    BY <1>0, <1>2, <2>1, <2>8 DEF SchedulerTypeOK
  <2> QED
    BY <2>3, <2>5, <2>6, <2>7, <2>8, <2>9 DEF SchedulerInv
<1>3. ASSUME NEW r \in 1..n, Return(r)
      PROVE  Promised
  <2>0. PICK j \in Job : j = run[r].job
    BY <1>0 DEF Runs
  <2>1. PICK out \in {"success", "failed"} : run' = [run EXCEPT ![r].at = out]
    BY <1>3 DEF Return
  <2>2. /\ run[r].at = "body" /\ RecordRun(j, r)
        /\ UNCHANGED <<table, version, started, reg, paused, halted, n>>
    BY <1>3, <2>0 DEF Return
  <2>3. /\ run' \in [1..n -> Runs] /\ run'[r] = [run[r] EXCEPT !.at = out]
        /\ \A q \in 1..n : q # r => run'[q] = run[q]
    BY <1>0, <2>1 DEF SchedulerTypeOK, Runs
  <2>4. run'[r].at = out /\ run'[r].job = j /\ run'[r].tick = run[r].tick
    BY <1>0, <2>0, <2>3 DEF Runs
  <2>5. Live' \subseteq Live \ {r} /\ \A q \in Live' : run'[q] = run[q]
    BY <2>1, <2>2, <2>3, <2>4 DEF Live
  <2>6. TicksTheTable' /\ OneTickPerJob' /\ StoppedIsQuiet'
    <3>1. TicksTheTable'
      BY <1>0, <2>2 DEF TicksTheTable
    <3>2. OneTickPerJob'
      BY <1>0, <2>5 DEF OneTickPerJob
    <3>3. StoppedIsQuiet'
      BY <1>0, <2>2, <2>5 DEF StoppedIsQuiet
    <3> QED
      BY <3>1, <3>2, <3>3
  <2>7. /\ EndedRuns(j)' = EndedRuns(j) \union {r} /\ r \notin EndedRuns(j)
        /\ \A i \in Job : i # j => EndedRuns(i)' = EndedRuns(i)
    <3>1. EndedRuns(j)' = EndedRuns(j) \union {r}
      BY <2>1, <2>2, <2>3, <2>4 DEF EndedRuns
    <3>2. r \notin EndedRuns(j)
      BY <2>2 DEF EndedRuns
    <3>3. ASSUME NEW i \in Job, i # j
          PROVE  EndedRuns(i)' = EndedRuns(i)
      BY <2>0, <2>2, <2>3, <2>4, <3>3 DEF EndedRuns
    <3> QED
      BY <3>1, <3>2, <3>3
  <2>8. /\ EveryRunRecorded' /\ RingsFit' /\ rows' \in [Job -> Seq(1..n')]
        /\ \A i \in Job : EndedRuns(i)' # EndedRuns(i)
             => LastRun(i)' \in EndedRuns(i)' \ EndedRuns(i)
    <3>1. r \in 1..n' /\ n =< n' /\ n' \in Nat
      BY <1>0, <2>2
    <3> QED
      BY <2>2, <2>7, <3>1, RowOfRun
  <2>9. SchedulerTypeOK'
    BY <1>0, <2>2, <2>3, <2>8 DEF SchedulerTypeOK
  <2>10. \A q \in 1..n' : ~(q > n)
    BY <1>0, <2>2
  <2> QED
    BY <2>6, <2>8, <2>9, <2>10 DEF SchedulerInv
<1>4. ASSUME NEW r \in 1..n, Cancelled(r) \/ Disconnect(r)
      PROVE  Promised
  <2>1. PICK out \in {"cancelled", "gone"} :
          /\ run' = [run EXCEPT ![r].at = out]
          /\ \/ run[r].at = "body" /\ out = "cancelled"
             \/ run[r].at = "cancelled" /\ out = "gone"
    BY <1>4 DEF Cancelled, Disconnect
  <2>2. UNCHANGED <<table, version, started, reg, paused, halted, n, rows>>
    BY <1>4 DEF Cancelled, Disconnect
  <2>3. /\ run' \in [1..n -> Runs] /\ run'[r].at = out
        /\ run'[r].job = run[r].job /\ run'[r].tick = run[r].tick
        /\ \A q \in 1..n : q # r => run'[q] = run[q]
    BY <1>0, <2>1 DEF SchedulerTypeOK, Runs
  <2>4. SchedulerTypeOK' /\ TicksTheTable'
    BY <1>0, <2>2, <2>3 DEF SchedulerTypeOK, TicksTheTable
  <2>5. \A q \in 1..n : /\ run'[q].job = run[q].job /\ run'[q].tick = run[q].tick
                        /\ \/ run'[q].at = run[q].at
                           \/ run[q].at = "body" /\ run'[q].at = "cancelled"
                           \/ run[q].at = "cancelled" /\ run'[q].at = "gone"
    BY <2>1, <2>3
  <2> QED
    BY <1>1, <2>2, <2>4, <2>5
<1>5. CASE Stop
  <2>1. /\ run' = [r \in 1..n |-> IF run[r].at = "body" /\ run[r].tick
                                  THEN [run[r] EXCEPT !.at = "cancelled"] ELSE run[r]]
        /\ reg' = [j \in Job |-> 0] /\ paused' = {} /\ started' = FALSE
        /\ UNCHANGED <<table, version, halted, n, rows>>
    BY <1>5 DEF Stop
  <2>2. \A r \in 1..n : /\ run'[r] \in Runs
                        /\ run'[r].job = run[r].job /\ run'[r].tick = run[r].tick
                        /\ \/ run'[r].at = run[r].at /\ ~(run[r].at = "body" /\ run[r].tick)
                           \/ run[r].at = "body" /\ run'[r].at = "cancelled"
    BY <1>0, <2>1 DEF Runs
  <2>3. SchedulerTypeOK'
    BY <1>0, <2>1, <2>2 DEF SchedulerTypeOK
  <2>4. TicksTheTable'
    BY <2>1 DEF TicksTheTable
  <2>5. \A r \in 1..n : run'[r].tick => run'[r].at # "body"
    BY <2>2
  <2> QED
    BY <1>1, <2>1, <2>2, <2>3, <2>4, <2>5
<1>6. ASSUME UNCHANGED <<n, run, rows>>, SchedulerTypeOK', TicksTheTable',
             started' = started \/ started'
      PROVE  Promised
  BY <1>1, <1>6
<1>7. CASE Start
  <2>1. SchedulerTypeOK' /\ TicksTheTable'
    BY <1>0, <1>7 DEF Start, SchedulerTypeOK, TicksTheTable
  <2> QED
    BY <1>6, <1>7, <2>1 DEF Start
<1>8. ASSUME NEW j \in Job, NEW wants \in BOOLEAN, AddJob(j, wants)
      PROVE  Promised
  <2> DEFINE on == wants /\ j \in Override
  <2>1. /\ table' = [table EXCEPT ![j] = IF on THEN "enabled" ELSE "disabled"]
        /\ version' = [version EXCEPT ![j] = @ + 1]
        /\ reg' = IF started /\ on THEN [reg EXCEPT ![j] = version'[j]] ELSE reg
        /\ paused' = IF started /\ on THEN paused \ {j} ELSE paused
        /\ UNCHANGED <<started, halted, n, run, rows>>
    BY <1>8 DEF AddJob
  <2>2. version' \in [Job -> Nat] /\ version'[j] \in Nat
        /\ \A i \in Job : i # j => version'[i] = version[i]
    BY <1>0, <2>1 DEF SchedulerTypeOK
  <2>3. SchedulerTypeOK'
    BY <1>0, <2>1, <2>2 DEF SchedulerTypeOK
  <2>4. TicksTheTable'
    BY <1>0, <2>1, <2>2 DEF SchedulerTypeOK, TicksTheTable
  <2> QED
    BY <1>6, <2>1, <2>3, <2>4
<1>9. ASSUME NEW j \in Job, RemoveJob(j) \/ Pause(j) \/ Resume(j)
      PROVE  Promised
  <2>1. SchedulerTypeOK' /\ TicksTheTable'
    <3>1. CASE RemoveJob(j)
      BY <1>0, <3>1 DEF RemoveJob, SchedulerTypeOK, TicksTheTable
    <3>2. CASE Pause(j) \/ Resume(j)
      BY <1>0, <3>2 DEF Pause, Resume, SchedulerTypeOK, TicksTheTable
    <3> QED
      BY <1>9, <3>1, <3>2
  <2>2. UNCHANGED <<started, n, run, rows>>
    BY <1>9 DEF RemoveJob, Pause, Resume
  <2> QED
    BY <1>6, <2>1, <2>2
<1>10. CASE SwitchChanges \/ UNCHANGED schedulerVars
  <2>1. UNCHANGED <<table, version, started, reg, paused, n, run, rows>> /\ halted' \in BOOLEAN
    BY <1>0, <1>10 DEF SwitchChanges, schedulerVars, SchedulerTypeOK
  <2>2. SchedulerTypeOK' /\ TicksTheTable'
    BY <1>0, <2>1 DEF SchedulerTypeOK, TicksTheTable
  <2> QED
    BY <1>6, <2>1, <2>2
<1>11. ASSUME NEW j \in Job, Tick(j)
      PROVE  Promised
  <2>1. reg[j] \in Nat
    BY <1>0 DEF SchedulerTypeOK
  <2> QED
    BY <1>2, <1>11, <2>1 DEF Tick
<1>12. ASSUME NEW j \in Job, RunNow(j)
      PROVE  Promised
  <2>1. version[j] \in Nat
    BY <1>0 DEF SchedulerTypeOK
  <2> QED
    BY <1>2, <1>12, <2>1 DEF RunNow
<1> HIDE DEF Promised
<1> QED
  BY <1>3, <1>4, <1>5, <1>7, <1>8, <1>9, <1>10, <1>11, <1>12 DEF SchedulerNext

(* Ticks follow the table, two ticks of a job never overlap but for one    *)
(* that was cancelled, every run that ended has its row, the newest shown, *)
(* and nothing starts under a readable switch (scheduler.py, runner.py,    *)
(* history.py): for any jobs, operators and cancellations.                 *)
THEOREM SchedulerSoundThm == SchedulerSpec => SchedulerSound
<1>1. SchedulerInit => SchedulerInv
  BY SchedulerInitInv
<1>2. SchedulerInv /\ [SchedulerNext]_schedulerVars => SchedulerInv'
  BY SchedulerStep
<1>3. SchedulerInv => SchedulerTypeOK /\ OneTickPerJob /\ TicksTheTable
                        /\ StoppedIsQuiet /\ EveryRunRecorded
  BY DEF SchedulerInv
<1>4. SchedulerInv /\ [SchedulerNext]_schedulerVars =>
        /\ [\A r \in 1..n' : r > n /\ halted /\ run'[r].at = "body"
              => run'[r].blind]_schedulerVars
        /\ [\A j \in Job : EndedRuns(j)' # EndedRuns(j)
              => LastRun(j)' \in EndedRuns(j)' \ EndedRuns(j)]_schedulerVars
  BY SchedulerStep
<1> QED
  BY <1>1, <1>2, <1>3, <1>4, PTL
     DEF SchedulerSpec, SchedulerSound, NoBodyUnderSwitch, LastRowIsNewest
-----------------------------------------------------------------------------
(* The tool server: what runs is served, what is served is not blocked and *)
(* keeps its scope, and the log has every line or is full.                 *)
ServerInv ==
  /\ ServerTypeOK /\ OneRunPerGrant
  /\ Running \subseteq tools /\ (~built => tools = {})
  /\ \A t \in tools : t \notin BlockedNames /\ (t \notin Legacy => manifest[t] \in {"read", "write"})
  /\ Len(audit) = IF logged < MaxAudit THEN logged ELSE MaxAudit

LEMMA ServerInitInv == ServerInit => ServerInv
<1> SUFFICES ASSUME ServerInit PROVE ServerInv
  OBVIOUS
<1>1. audit = <<>> /\ audit \in Seq(Line) /\ Len(audit) = 0 /\ logged = 0 /\ 0 =< MaxAudit /\ 0 < MaxAudit
  BY AuditAssumption DEF ServerInit
<1>2. ServerTypeOK
  <2>1. manifest \in [Scoped -> {"none", "read", "write", "blocked"}] /\ built \in BOOLEAN
    BY DEF ServerInit
  <2>2. tools \in SUBSET Tool
    BY DEF ServerInit
  <2>3. pending \in [Key -> {"none", "queued", "granted"}]
    BY DEF ServerInit
  <2>4. grants \in [Key -> Nat] /\ spent \in [Key -> Nat]
    BY DEF ServerInit
  <2>5. calls \in [Caller -> CallType]
    BY DEF ServerInit, CallType
  <2>6. Len(audit) =< MaxAudit /\ logged \in Nat
    BY <1>1
  <2> QED
    BY <1>1, <2>1, <2>2, <2>3, <2>4, <2>5, <2>6 DEF ServerTypeOK
<1>3. Running = {} /\ tools = {}
  BY DEF ServerInit, Running, NoCall
<1>4. OneRunPerGrant
  BY DEF ServerInit, OneRunPerGrant
<1> QED
  BY <1>1, <1>2, <1>3, <1>4 DEF ServerInv

(* A line is recorded.                                                     *)
LEMMA LineAdded ==
  ASSUME ServerInv, NEW line \in Line, Audit(line)
  PROVE  /\ audit' \in Seq(Line) /\ Len(audit') =< MaxAudit /\ logged' \in Nat
         /\ Len(audit') = IF logged' < MaxAudit THEN logged' ELSE MaxAudit
         /\ Len(audit') = IF logged < MaxAudit THEN logged + 1 ELSE MaxAudit
         /\ audit'[Len(audit')] = line
         /\ \A i \in 1..Len(audit') - 1 : audit'[i] = audit[i + Len(audit) + 1 - Len(audit')]
<1> DEFINE u == Ringed(audit, line, MaxAudit)
<1>1. audit \in Seq(Line) /\ Len(audit) =< MaxAudit /\ MaxAudit \in Nat \ {0} /\ logged \in Nat
      /\ Len(audit) = IF logged < MaxAudit THEN logged ELSE MaxAudit
  BY AuditAssumption DEF ServerInv, ServerTypeOK
<1>2. audit' = u /\ logged' = logged + 1
  BY DEF Audit, Ringed
<1>3. /\ u \in Seq(Line) /\ Len(audit) \in Nat
      /\ Len(u) = IF Len(audit) = MaxAudit THEN MaxAudit ELSE Len(audit) + 1
      /\ u[Len(u)] = line
      /\ \A k \in 1..Len(u) - 1 : u[k] = audit[IF Len(audit) = MaxAudit THEN k + 1 ELSE k]
  <2>1. audit \in Seq(Line) /\ Len(audit) =< MaxAudit /\ MaxAudit \in Nat \ {0} /\ line \in Line
    BY <1>1
  <2> QED
    BY ONLY <2>1, Ring
<1> HIDE DEF u
<1>4. \A i \in 1..Len(u) - 1 :
        (IF Len(audit) = MaxAudit THEN i + 1 ELSE i) = i + Len(audit) + 1 - Len(u)
  BY <1>1, <1>3
<1>5. \A i \in 1..Len(u) - 1 : u[i] = audit[i + Len(audit) + 1 - Len(u)]
  BY <1>3, <1>4
<1>6. /\ Len(u) = IF logged + 1 < MaxAudit THEN logged + 1 ELSE MaxAudit
      /\ Len(u) = IF logged < MaxAudit THEN logged + 1 ELSE MaxAudit
      /\ Len(u) =< MaxAudit
  BY <1>1, <1>3
<1> QED
  BY <1>1, <1>2, <1>3, <1>5, <1>6

(* What AnswersAudited says of one step.                                   *)
Audited ==
  \A c \in Caller :
    calls[c].at # "answered" /\ calls'[c].at = "answered" /\ calls'[c].out # "unknown"
    => /\ Len(audit') = IF logged < MaxAudit THEN logged + 1 ELSE MaxAudit
       /\ audit'[Len(audit')].says = Says(calls'[c].out)
       /\ \A i \in 1..(Len(audit') - 1) : audit'[i] = audit[i + Len(audit) + 1 - Len(audit')]

(* A step that changes the state of one caller.                            *)
LEMMA CallMoved ==
  ASSUME ServerInv, NEW c \in Caller, NEW x \in CallType, calls' = [calls EXCEPT ![c] = x]
  PROVE  /\ calls' \in [Caller -> CallType] /\ calls'[c] = x
         /\ \A d \in Caller : d # c => calls'[d] = calls[d]
         /\ \A t \in Running' : t \in Running \/ (x.at = "handler" /\ t = x.tool)
<1>1. calls \in [Caller -> CallType]
  BY DEF ServerInv, ServerTypeOK
<1>2. /\ calls' \in [Caller -> CallType] /\ calls'[c] = x
      /\ \A d \in Caller : d # c => calls'[d] = calls[d]
  BY <1>1
<1> QED
  BY <1>2 DEF Running

LEMMA AskStep ==
  ASSUME ServerInv, NEW c \in Caller, NEW inv \in Investigation, NEW t \in Tool, Ask(c, inv, t)
  PROVE  ServerInv' /\ Audited
<1> DEFINE k == <<inv, t>>
<1>0. /\ ServerTypeOK /\ OneRunPerGrant /\ built /\ calls[c].at = "idle" /\ k \in Key
      /\ UNCHANGED <<manifest, built, tools, grants>>
  BY DEF ServerInv, Ask, Key
<1>1. ASSUME t \in tools, calls' = [calls EXCEPT ![c] = [at |-> "handler", inv |-> inv, tool |-> t]]
      PROVE  /\ calls' \in [Caller -> CallType] /\ Running' \subseteq tools
             /\ \A d \in Caller : ~(calls[d].at # "answered" /\ calls'[d].at = "answered")
  <2> DEFINE x == [at |-> "handler", inv |-> inv, tool |-> t]
  <2>1. x \in CallType /\ x.at = "handler" /\ x.tool = t
    BY DEF CallType
  <2> HIDE DEF x
  <2>2. calls' = [calls EXCEPT ![c] = x]
    BY <1>1 DEF x
  <2>3. /\ calls' \in [Caller -> CallType] /\ calls'[c] = x
        /\ \A d \in Caller : d # c => calls'[d] = calls[d]
        /\ \A s \in Running' : s \in Running \/ (x.at = "handler" /\ s = x.tool)
    BY <2>1, <2>2, CallMoved
  <2> QED
    BY <1>1, <2>1, <2>3 DEF ServerInv
<1>2. ASSUME NEW out \in {"unknown", "queued"},
             calls' = [calls EXCEPT ![c] = [at |-> "answered", out |-> out]]
      PROVE  /\ calls' \in [Caller -> CallType] /\ Running' \subseteq tools
             /\ \A d \in Caller : calls[d].at # "answered" /\ calls'[d].at = "answered"
                                    => calls'[d].out = out
  <2> DEFINE x == [at |-> "answered", out |-> out]
  <2>1. x \in CallType /\ x.at = "answered" /\ x.out = out
    BY DEF CallType
  <2> HIDE DEF x
  <2>2. calls' = [calls EXCEPT ![c] = x]
    BY <1>2 DEF x
  <2>3. /\ calls' \in [Caller -> CallType] /\ calls'[c] = x
        /\ \A d \in Caller : d # c => calls'[d] = calls[d]
        /\ \A s \in Running' : s \in Running \/ (x.at = "handler" /\ s = x.tool)
    BY <2>1, <2>2, CallMoved
  <2> QED
    BY <2>1, <2>3 DEF ServerInv
<1>3. CASE /\ t \notin tools /\ UNCHANGED <<pending, audit, logged, spent>>
           /\ calls' = [calls EXCEPT ![c] = [at |-> "answered", out |-> "unknown"]]
  BY <1>0, <1>2, <1>3 DEF ServerInv, ServerTypeOK, OneRunPerGrant, Audited
<1>4. CASE /\ t \in tools /\ UNCHANGED <<pending, audit, logged, spent>>
           /\ calls' = [calls EXCEPT ![c] = [at |-> "handler", inv |-> inv, tool |-> t]]
  BY <1>0, <1>1, <1>4 DEF ServerInv, ServerTypeOK, OneRunPerGrant, Audited
<1>5. CASE /\ t \in tools /\ pending[k] = "granted" /\ Consume(k) /\ UNCHANGED <<audit, logged>>
           /\ calls' = [calls EXCEPT ![c] = [at |-> "handler", inv |-> inv, tool |-> t]]
  <2>1. /\ pending' \in [Key -> {"none", "queued", "granted"}] /\ spent' \in [Key -> Nat]
        /\ OneRunPerGrant'
    <3> HIDE DEF k
    <3>1. /\ pending' = [pending EXCEPT ![k] = "none"] /\ spent' = [spent EXCEPT ![k] = @ + 1]
          /\ pending \in [Key -> {"none", "queued", "granted"}] /\ spent \in [Key -> Nat]
          /\ grants \in [Key -> Nat] /\ pending[k] = "granted" /\ grants' = grants
      BY <1>0, <1>5 DEF Consume, ServerTypeOK
    <3>2. /\ pending' \in [Key -> {"none", "queued", "granted"}] /\ pending'[k] = "none"
          /\ \A q \in Key : q # k => pending'[q] = pending[q]
      BY <1>0, <3>1
    <3>3. /\ spent[k] \in Nat /\ spent' \in [Key -> Nat] /\ spent'[k] = spent[k] + 1
          /\ \A q \in Key : q # k => spent'[q] = spent[q]
      BY <1>0, <3>1
    <3>4. grants[k] = spent[k] + 1
      BY <1>0, <3>1 DEF OneRunPerGrant
    <3>5. OneRunPerGrant'
      <4> SUFFICES ASSUME NEW q \in Key
                   PROVE  grants[q] = spent'[q] + (IF pending'[q] = "granted" THEN 1 ELSE 0)
        BY <3>1 DEF OneRunPerGrant
      <4>1. CASE q = k
        BY <3>2, <3>3, <3>4, <4>1
      <4>2. CASE q # k
        BY <1>0, <3>2, <3>3, <4>2 DEF OneRunPerGrant
      <4> QED
        BY <4>1, <4>2
    <3> QED
      BY <3>2, <3>3, <3>5
  <2> QED
    BY <1>0, <1>1, <1>5, <2>1 DEF ServerInv, ServerTypeOK, Audited
<1>6. CASE /\ t \in tools /\ pending[k] # "granted" /\ Audit([tool |-> t, says |-> "denied"])
           /\ calls' = [calls EXCEPT ![c] = [at |-> "answered", out |-> "queued"]]
           /\ pending' = [pending EXCEPT ![k] = "queued"] /\ UNCHANGED spent
  <2> DEFINE line == [tool |-> t, says |-> "denied"]
  <2>1. line \in Line /\ line.says = "denied" /\ Audit(line)
    BY <1>6 DEF Line
  <2> HIDE DEF line
  <2>2. /\ pending' \in [Key -> {"none", "queued", "granted"}] /\ OneRunPerGrant'
    BY <1>0, <1>6 DEF ServerTypeOK, OneRunPerGrant
  <2>3. /\ audit' \in Seq(Line) /\ Len(audit') =< MaxAudit /\ logged' \in Nat
        /\ Len(audit') = IF logged' < MaxAudit THEN logged' ELSE MaxAudit
        /\ Len(audit') = IF logged < MaxAudit THEN logged + 1 ELSE MaxAudit
        /\ audit'[Len(audit')] = line
        /\ \A i \in 1..Len(audit') - 1 : audit'[i] = audit[i + Len(audit) + 1 - Len(audit')]
    BY <2>1, LineAdded
  <2>4. Audited
    BY <1>2, <1>6, <2>1, <2>3 DEF Audited, Says
  <2> QED
    BY <1>0, <1>2, <1>6, <2>2, <2>3, <2>4 DEF ServerInv, ServerTypeOK
<1> QED
  BY <1>3, <1>4, <1>5, <1>6 DEF Ask

LEMMA HandledStep ==
  ASSUME ServerInv, NEW c \in Caller, Handled(c)
  PROVE  ServerInv' /\ Audited
<1>0. /\ ServerTypeOK /\ OneRunPerGrant /\ calls[c].at = "handler" /\ calls[c] \in CallType
      /\ UNCHANGED <<manifest, built, tools, pending, grants, spent>>
  BY DEF ServerInv, ServerTypeOK, Handled
<1>1. PICK out \in {"result", "raised"} :
        /\ calls' = [calls EXCEPT ![c] = [at |-> "answered", out |-> out]]
        /\ Audit([tool |-> calls[c].tool, says |-> IF out = "result" THEN "success" ELSE "error"])
  BY DEF Handled, Outcomes
<1> DEFINE x == [at |-> "answered", out |-> out]
           line == [tool |-> calls[c].tool, says |-> IF out = "result" THEN "success" ELSE "error"]
<1>2. x \in CallType /\ x.at = "answered" /\ x.out = out
  BY DEF CallType
<1>3. line \in Line /\ line.says = Says(out) /\ Audit(line)
  <2>1. calls[c].tool \in Tool
    BY <1>0 DEF CallType, NoCall
  <2> QED
    BY <1>1, <2>1 DEF Line, Says
<1>4. calls' = [calls EXCEPT ![c] = x]
  BY <1>1
<1> HIDE DEF x, line
<1>5. /\ calls' \in [Caller -> CallType] /\ calls'[c] = x
      /\ \A d \in Caller : d # c => calls'[d] = calls[d]
      /\ \A s \in Running' : s \in Running \/ (x.at = "handler" /\ s = x.tool)
  BY <1>2, <1>4, CallMoved
<1>6. /\ audit' \in Seq(Line) /\ Len(audit') =< MaxAudit /\ logged' \in Nat
      /\ Len(audit') = IF logged' < MaxAudit THEN logged' ELSE MaxAudit
      /\ Len(audit') = IF logged < MaxAudit THEN logged + 1 ELSE MaxAudit
      /\ audit'[Len(audit')] = line
      /\ \A i \in 1..Len(audit') - 1 : audit'[i] = audit[i + Len(audit) + 1 - Len(audit')]
  BY <1>3, LineAdded
<1>7. Audited
  BY <1>2, <1>3, <1>5, <1>6 DEF Audited
<1>8. ServerTypeOK' /\ OneRunPerGrant'
  BY <1>0, <1>5, <1>6 DEF ServerTypeOK, OneRunPerGrant
<1>9. Running' \subseteq tools
  BY <1>2, <1>5 DEF ServerInv
<1> QED
  BY <1>0, <1>6, <1>7, <1>8, <1>9 DEF ServerInv

LEMMA OperatorStep ==
  ASSUME ServerInv, \/ \E t \in Scoped, s \in {"read", "write", "blocked"} : Register(t, s)
                    \/ Build \/ \E k \in Key : Grant(k)
  PROVE  ServerInv' /\ Audited
<1>0. ServerTypeOK /\ OneRunPerGrant /\ UNCHANGED <<calls, audit, logged>>
  BY DEF ServerInv, Register, Build, Grant
<1>1. Audited /\ Running' = Running
  BY <1>0 DEF Audited, Running
<1>2. ASSUME NEW t \in Scoped, NEW s \in {"read", "write", "blocked"}, Register(t, s)
      PROVE  ServerInv'
  <2>1. /\ manifest' \in [Scoped -> {"none", "read", "write", "blocked"}]
        /\ \A u \in Scoped : manifest[u] \in {"read", "write"} => manifest'[u] = manifest[u]
    BY <1>0, <1>2 DEF Register, Registered, ServerTypeOK
  <2>2. \A u \in tools : u \in Legacy \/ u \in Scoped
    BY <1>0 DEF ServerTypeOK, Tool
  <2> QED
    BY <1>0, <1>1, <1>2, <2>1, <2>2 DEF Register, ServerInv, ServerTypeOK, OneRunPerGrant
<1>3. CASE Build
  <2>1. /\ tools = {} /\ Running = {} /\ built' = TRUE
        /\ tools' = (Legacy \ BlockedNames) \union Loaded
        /\ UNCHANGED <<manifest, pending, grants, spent>>
    BY <1>3 DEF Build, ServerInv
  <2>2. tools' \subseteq Tool
    BY <2>1 DEF Loaded, Tool
  <2>3. \A t \in tools' : t \notin BlockedNames /\ (t \notin Legacy => manifest[t] \in {"read", "write"})
    BY <2>1 DEF Loaded
  <2> QED
    BY <1>0, <1>1, <2>1, <2>2, <2>3 DEF ServerInv, ServerTypeOK, OneRunPerGrant
<1>4. ASSUME NEW k \in Key, Grant(k)
      PROVE  ServerInv'
  <2>1. /\ pending' \in [Key -> {"none", "queued", "granted"}] /\ grants' \in [Key -> Nat]
        /\ OneRunPerGrant'
    BY <1>0, <1>4 DEF Grant, ServerTypeOK, OneRunPerGrant
  <2> QED
    BY <1>0, <1>1, <1>4, <2>1 DEF Grant, ServerInv, ServerTypeOK
<1> QED
  BY <1>1, <1>2, <1>3, <1>4-----------------------------------------------------------------------------
(* The investigations: what a run counts is its own unless another run of  *)
(* its incident began in the meantime, so a run that was alone has the     *)
(* tracker's record of its incident to itself.                             *)
AloneCounted ==
  \A a \in InProgress : agent[a].alone =>
    /\ agent[a].incident \in tracked /\ count[agent[a].incident] = agent[a].made
    /\ \A b \in InProgress : b # a => agent[b].incident # agent[a].incident

AgentsInv == ServerInv /\ AgentTypeOK /\ EveryUseAnswered /\ UsageIsOwn /\ AloneCounted

LEMMA AgentsInitInv == AgentsInit => AgentsInv
<1> SUFFICES ASSUME AgentsInit PROVE AgentsInv
  OBVIOUS
<1>1. /\ \A a \in Caller : agent[a] = Idle /\ agent[a].at = "idle"
      /\ tracked = {} /\ history = <<>> /\ agent \in [Caller -> {Idle}]
      /\ count \in [Incident -> Nat]
  BY DEF AgentsInit, Idle
<1>2. ServerInv
  BY ServerInitInv DEF AgentsInit
<1>3. history \in Seq(Record) /\ Len(history) = 0 /\ 0 =< MaxHistory
  BY <1>1, HistoryAssumption
<1>4. InProgress = {}
  BY <1>1 DEF InProgress
<1>5. AgentTypeOK
  BY <1>1, <1>2, <1>3 DEF AgentTypeOK, ServerInv
<1> QED
  BY <1>1, <1>2, <1>4, <1>5 DEF AgentsInv, EveryUseAnswered, UsageIsOwn, AloneCounted

(* The kind of state an investigation is in shows in its field at.         *)
LEMMA AgentKinds ==
  ASSUME AgentTypeOK, NEW a \in Caller
  PROVE  /\ a \in InProgress <=> agent[a] \in Busy
         /\ agent[a].at \in {"completed", "failed"} <=> agent[a] \in Over
         /\ agent[a].at = "idle" <=> agent[a] = Idle
<1>1. agent[a] \in {Idle} \union Busy \union Over
  BY DEF AgentTypeOK
<1> QED
  BY <1>1 DEF InProgress, Idle, Busy, Over

(* An investigation goes on: an answer that asks for tools, a phase, a     *)
(* tool's result.                                                          *)
LEMMA StillBusy ==
  ASSUME AgentsInv, ServerInv', NEW a \in InProgress, NEW x \in Busy,
         agent' = [agent EXCEPT ![a] = x], tracked' = tracked, history' = history,
         x.incident = agent[a].incident, x.alone = agent[a].alone,
         \/ count' = Counted(x.incident) /\ x.made = agent[a].made + 1
         \/ count' = count /\ x.made = agent[a].made,
         x.at = "claude" => Len(x.results) = Len(x.uses),
         x.at = "tools" => Len(x.results) < Len(x.uses)
  PROVE  AgentsInv'
<1> DEFINE i == agent[a].incident
<1>1. /\ AgentTypeOK /\ EveryUseAnswered /\ UsageIsOwn /\ AloneCounted /\ a \in Caller
      /\ agent \in [Caller -> {Idle} \union Busy \union Over] /\ count \in [Incident -> Nat]
  BY DEF AgentsInv, AgentTypeOK, InProgress
<1>2. agent[a] \in Busy /\ i \in Incident /\ agent[a].made \in Nat
  BY <1>1, AgentKinds DEF Busy
<1>3. /\ agent' \in [Caller -> {Idle} \union Busy \union Over] /\ agent'[a] = x
      /\ \A b \in Caller : b # a => agent'[b] = agent[b]
  BY <1>1
<1>4. InProgress' = InProgress
  BY <1>1, <1>3 DEF InProgress, Busy
<1>5. \A b \in InProgress : agent'[b].incident = agent[b].incident /\ agent'[b].alone = agent[b].alone
  BY <1>3 DEF InProgress
<1>6. /\ count' \in [Incident -> Nat]
      /\ \A j \in Incident : j # i => count'[j] = count[j]
      /\ i \in tracked => \/ count'[i] = count[i] + 1 /\ x.made = agent[a].made + 1
                          \/ count'[i] = count[i] /\ x.made = agent[a].made
  BY <1>1, <1>2 DEF Counted
<1>7. AgentTypeOK'
  BY <1>1, <1>3, <1>6 DEF AgentTypeOK, ServerInv
<1>8. EveryUseAnswered'
  BY <1>1, <1>3, <1>4 DEF EveryUseAnswered, InProgress
<1>9. UsageIsOwn'
  <2>1. \A b \in Caller : agent'[b].at \in {"completed", "failed"} /\ agent'[b].alone
                            => /\ agent'[b].kept = agent'[b].made
                               /\ agent'[b].at = "completed" => agent'[b].usage = agent'[b].made
    BY <1>1, <1>3 DEF UsageIsOwn, Busy
  <2>2. tracked' \subseteq {agent'[b].incident : b \in InProgress'}
    BY <1>1, <1>4, <1>5 DEF UsageIsOwn
  <2> QED
    BY <2>1, <2>2 DEF UsageIsOwn
<1>10. AloneCounted'
  <2> SUFFICES ASSUME NEW b \in InProgress, agent[b].alone
               PROVE  /\ agent[b].incident \in tracked
                      /\ count'[agent[b].incident] = agent'[b].made
                      /\ \A d \in InProgress : d # b => agent[d].incident # agent[b].incident
    BY <1>4, <1>5 DEF AloneCounted
  <2>1. /\ agent[b].incident \in tracked /\ count[agent[b].incident] = agent[b].made
        /\ \A d \in InProgress : d # b => agent[d].incident # agent[b].incident
    BY <1>1 DEF AloneCounted
  <2>2. agent[b].incident \in Incident
    BY <1>1, AgentKinds DEF InProgress, Busy
  <2>3. CASE b = a
    BY <1>2, <1>3, <1>6, <2>1, <2>3
  <2>4. CASE b # a
    BY <1>3, <1>6, <2>1, <2>2, <2>4 DEF InProgress
  <2> QED
    BY <2>1, <2>3, <2>4
<1> QED
  BY <1>7, <1>8, <1>9, <1>10 DEF AgentsInv

(* It ends: its record leaves the active ones for the history.             *)
LEMMA RunOver ==
  ASSUME AgentsInv, UNCHANGED serverVars, NEW a \in InProgress, NEW how \in {"completed", "failed"},
         NEW made \in Nat, NEW cnt, FinishTracking(a, how, made, cnt),
         \/ cnt = Counted(agent[a].incident) /\ made = agent[a].made + 1
         \/ cnt = count /\ made = agent[a].made
  PROVE  AgentsInv'
<1> DEFINE i == agent[a].incident
           use == IF i \in tracked THEN cnt[i] ELSE NoRecord
           x == Ended(a, how, made, use)
<1>1. /\ AgentTypeOK /\ UsageIsOwn /\ EveryUseAnswered /\ AloneCounted /\ ServerInv /\ a \in Caller
      /\ agent \in [Caller -> {Idle} \union Busy \union Over] /\ count \in [Incident -> Nat]
      /\ history \in Seq(Record) /\ Len(history) =< MaxHistory
  BY DEF AgentsInv, AgentTypeOK, InProgress
<1>2. agent[a] \in Busy /\ i \in Incident /\ agent[a].made \in Nat /\ agent[a].alone \in BOOLEAN
  BY <1>1, AgentKinds DEF Busy
<1>3. /\ cnt \in [Incident -> Nat]
      /\ \A j \in Incident : j # i => cnt[j] = count[j]
      /\ i \in tracked => \/ cnt[i] = count[i] + 1 /\ made = agent[a].made + 1
                          \/ cnt[i] = count[i] /\ made = agent[a].made
  <2>1. CASE cnt = Counted(i) /\ i \in tracked /\ made = agent[a].made + 1
    BY <1>1, <1>2, <2>1 DEF Counted
  <2>2. CASE cnt = count /\ (i \in tracked => made = agent[a].made)
    BY <1>1, <1>2, <2>2
  <2> QED
    BY <2>1, <2>2 DEF Counted
<1>4. /\ x \in Over /\ x.alone = agent[a].alone /\ x.kept = use /\ x.made = made /\ x.at = how
      /\ x.usage = IF how = "completed" THEN use ELSE 0
  BY <1>2, <1>3 DEF Ended, Over
<1>5. /\ tracked' = tracked \ {i} /\ count' = cnt /\ agent' = [agent EXCEPT ![a] = x]
      /\ history' = IF i \in tracked THEN Remembered([incident |-> i, calls |-> cnt[i]]) ELSE history
  BY DEF FinishTracking
<1> HIDE DEF x
<1>6. /\ agent' \in [Caller -> {Idle} \union Busy \union Over] /\ agent'[a] = x
      /\ \A b \in Caller : b # a => agent'[b] = agent[b]
  BY <1>1, <1>4, <1>5
<1>7. InProgress' = InProgress \ {a}
  BY <1>4, <1>6 DEF InProgress
<1>8. history' \in Seq(Record) /\ Len(history') =< MaxHistory
  <2> DEFINE r == [incident |-> i, calls |-> cnt[i]]
  <2>1. r \in Record
    BY <1>2, <1>3 DEF Record
  <2> HIDE DEF r
  <2>2. MaxHistory \in Nat \ {0}
    BY HistoryAssumption
  <2>3. /\ Ringed(history, r, MaxHistory) \in Seq(Record) /\ Len(history) \in Nat
        /\ Len(Ringed(history, r, MaxHistory)) = IF Len(history) = MaxHistory THEN MaxHistory
                                                 ELSE Len(history) + 1
    BY <1>1, <2>1, <2>2, Ring
  <2>4. Remembered(r) = Ringed(history, r, MaxHistory)
    BY DEF Remembered, Ringed
  <2>5. history' = Ringed(history, r, MaxHistory) \/ history' = history
    BY <1>5, <2>4 DEF r
  <2> QED
    BY <1>1, <2>2, <2>3, <2>5
<1>9. ServerInv'
  BY <1>1 DEF serverVars, ServerInv, ServerTypeOK, OneRunPerGrant, Running
<1>10. AgentTypeOK'
  BY <1>1, <1>3, <1>5, <1>6, <1>8, <1>9 DEF AgentTypeOK, ServerInv
<1>11. EveryUseAnswered'
  BY <1>1, <1>6, <1>7 DEF EveryUseAnswered, InProgress
<1>12. UsageIsOwn'
  <2>1. agent[a].alone => use = made
    BY <1>1, <1>2, <1>3 DEF AloneCounted
  <2> HIDE DEF use
  <2>2. \A b \in Caller : agent'[b].at \in {"completed", "failed"} /\ agent'[b].alone
                            => /\ agent'[b].kept = agent'[b].made
                               /\ agent'[b].at = "completed" => agent'[b].usage = agent'[b].made
    BY <1>1, <1>4, <1>6, <2>1 DEF UsageIsOwn
  <2>3. \A j \in tracked' : \E b \in InProgress' : j = agent'[b].incident
    <3> SUFFICES ASSUME NEW j \in tracked, j # i
                 PROVE  \E b \in InProgress' : j = agent'[b].incident
      BY <1>5
    <3>1. PICK b \in InProgress : j = agent[b].incident
      BY <1>1 DEF UsageIsOwn
    <3> QED
      BY <1>6, <1>7, <3>1 DEF InProgress
  <2> QED
    BY <2>2, <2>3 DEF UsageIsOwn
<1>13. AloneCounted'
  <2> SUFFICES ASSUME NEW b \in InProgress, b # a, agent[b].alone
               PROVE  /\ agent[b].incident \in tracked' /\ count'[agent[b].incident] = agent[b].made
                      /\ \A d \in InProgress : d # b => agent[d].incident # agent[b].incident
    BY <1>6, <1>7 DEF AloneCounted, InProgress
  <2>1. /\ agent[b].incident \in tracked /\ count[agent[b].incident] = agent[b].made
        /\ \A d \in InProgress : d # b => agent[d].incident # agent[b].incident
    BY <1>1 DEF AloneCounted
  <2>2. agent[b].incident \in Incident
    BY <1>1, AgentKinds DEF InProgress, Busy
  <2> QED
    BY <1>3, <1>5, <2>1, <2>2
<1> QED
  BY <1>9, <1>10, <1>11, <1>12, <1>13 DEF AgentsInv
(* A run begins: the runs of the same incident are no longer alone.        *)
LEMMA BeginStep ==
  ASSUME AgentsInv, NEW a \in Caller, NEW i \in Incident, Begin(a, i)
  PROVE  AgentsInv'
<1> DEFINE others == {b \in InProgress : agent[b].incident = i}
           x == [at |-> "claude", incident |-> i, phase |-> 1, uses |-> <<>>,
                 results |-> <<>>, made |-> 0, alone |-> others = {}]
<1>1. /\ AgentTypeOK /\ UsageIsOwn /\ EveryUseAnswered /\ AloneCounted /\ ServerInv
      /\ agent \in [Caller -> {Idle} \union Busy \union Over] /\ count \in [Incident -> Nat]
  BY DEF AgentsInv, AgentTypeOK
<1>2. /\ agent' = [b \in Caller |->
                     IF b = a THEN x
                     ELSE IF b \in others THEN [agent[b] EXCEPT !.alone = FALSE] ELSE agent[b]]
      /\ agent[a].at = "idle" /\ tracked' = tracked \union {i} /\ count' = [count EXCEPT ![i] = 0]
      /\ UNCHANGED <<serverVars, history>>
  BY DEF Begin, StartTracking
<1>3. x \in Busy /\ x.at = "claude" /\ x.incident = i /\ x.made = 0 /\ (x.alone => others = {})
      /\ Len(x.results) = Len(x.uses)
  <2>1. <<>> \in Seq(Tool) /\ <<>> \in Seq({"unknown", "queued", "result", "raised"})
    OBVIOUS
  <2>2. 1 \in 1..Phases /\ 0 \in Nat /\ (others = {}) \in BOOLEAN
    BY PhaseAssumption
  <2> QED
    BY <2>1, <2>2 DEF Busy
<1>4. ASSUME NEW b \in others
      PROVE  LET y == [agent[b] EXCEPT !.alone = FALSE]
             IN /\ y \in Busy /\ y.at = agent[b].at /\ y.incident = i /\ ~y.alone
                /\ y.uses = agent[b].uses /\ y.results = agent[b].results
  <2>1. agent[b] \in Busy
    BY <1>1, AgentKinds DEF InProgress
  <2> QED
    BY <2>1 DEF Busy
<1> HIDE DEF x
<1>5. /\ agent' \in [Caller -> {Idle} \union Busy \union Over] /\ agent'[a] = x
      /\ \A b \in Caller : b # a /\ b \notin others => agent'[b] = agent[b]
      /\ \A b \in others : b # a => /\ agent'[b].at = agent[b].at /\ agent'[b].incident = i
                                    /\ ~agent'[b].alone /\ agent'[b].uses = agent[b].uses
                                    /\ agent'[b].results = agent[b].results
  <2> HIDE DEF others
  <2>1. agent'[a] = x /\ \A b \in Caller : b # a /\ b \notin others => agent'[b] = agent[b]
    BY <1>2
  <2>2. \A b \in others : b \in Caller /\ (b # a => agent'[b] = [agent[b] EXCEPT !.alone = FALSE])
    BY <1>2 DEF others, InProgress
  <2>3. \A b \in others : b # a => /\ agent'[b] \in Busy
                                   /\ agent'[b].at = agent[b].at /\ agent'[b].incident = i
                                   /\ ~agent'[b].alone /\ agent'[b].uses = agent[b].uses
                                   /\ agent'[b].results = agent[b].results
    BY <1>4, <2>2
  <2>4. \A b \in Caller : agent'[b] \in {Idle} \union Busy \union Over
    BY <1>1, <1>3, <2>1, <2>3
  <2>5. agent' = [b \in Caller |-> agent'[b]]
    BY <1>2
  <2> QED
    BY <2>1, <2>3, <2>4, <2>5
<1>6. InProgress' = InProgress \union {a} /\ a \notin InProgress
  BY <1>2, <1>3, <1>5 DEF InProgress
<1>7. \A b \in InProgress : agent'[b].incident = agent[b].incident
  BY <1>5, <1>6 DEF InProgress
<1>8. count' \in [Incident -> Nat] /\ count'[i] = 0
      /\ \A j \in Incident : j # i => count'[j] = count[j]
  BY <1>1, <1>2
<1>9. ServerInv'
  BY <1>1, <1>2 DEF serverVars, ServerInv, ServerTypeOK, OneRunPerGrant, Running
<1>10. AgentTypeOK'
  BY <1>1, <1>2, <1>5, <1>8, <1>9 DEF AgentTypeOK, ServerInv
<1>11. EveryUseAnswered'
  BY <1>1, <1>3, <1>5, <1>6 DEF EveryUseAnswered, InProgress
<1>12. UsageIsOwn'
  <2>1. \A b \in Caller : agent'[b].at \in {"completed", "failed"} /\ agent'[b].alone
                            => /\ agent'[b].kept = agent'[b].made
                               /\ agent'[b].at = "completed" => agent'[b].usage = agent'[b].made
    BY <1>1, <1>3, <1>5 DEF UsageIsOwn
  <2>2. \A j \in tracked' : \E b \in InProgress' : j = agent'[b].incident
    <3> SUFFICES ASSUME NEW j \in tracked
                 PROVE  \E b \in InProgress' : j = agent'[b].incident
      BY <1>2, <1>3, <1>5, <1>6
    <3>1. PICK b \in InProgress : j = agent[b].incident
      BY <1>1 DEF UsageIsOwn
    <3> QED
      BY <1>6, <1>7, <3>1
  <2> QED
    BY <2>1, <2>2 DEF UsageIsOwn
<1>13. AloneCounted'
  <2>1. ASSUME NEW b \in InProgress, agent'[b].alone
        PROVE  /\ b \notin others /\ agent'[b] = agent[b] /\ agent[b].incident # i
               /\ agent[b].incident \in Incident
    <3>1. b \notin others /\ b # a /\ b \in Caller
      BY <1>5, <1>6, <2>1 DEF InProgress
    <3>2. agent[b] \in Busy
      BY <1>1, <3>1, AgentKinds
    <3> QED
      BY <1>5, <3>1, <3>2 DEF Busy
  <2>2. ASSUME NEW b \in InProgress', agent'[b].alone
        PROVE  /\ agent'[b].incident \in tracked' /\ count'[agent'[b].incident] = agent'[b].made
               /\ \A d \in InProgress' : d # b => agent'[d].incident # agent'[b].incident
    <3>1. CASE b = a
      BY <1>2, <1>3, <1>5, <1>6, <1>7, <1>8, <2>2, <3>1
    <3>2. CASE b \in InProgress
      <4>1. /\ agent'[b] = agent[b] /\ agent[b].incident # i /\ agent[b].incident \in Incident
        BY <2>1, <2>2, <3>2
      <4>2. /\ agent[b].incident \in tracked /\ count[agent[b].incident] = agent[b].made
            /\ \A d \in InProgress : d # b => agent[d].incident # agent[b].incident
        BY <1>1, <2>2, <3>2, <4>1 DEF AloneCounted
      <4> QED
        BY <1>2, <1>3, <1>5, <1>6, <1>7, <1>8, <4>1, <4>2
    <3> QED
      BY <1>6, <2>2, <3>1, <3>2
  <2> QED
    BY <2>2 DEF AloneCounted
<1> QED
  BY <1>9, <1>10, <1>11, <1>12, <1>13 DEF AgentsInv

LEMMA AnswerStep ==
  ASSUME AgentsInv, NEW a \in Caller, AsksForTools(a) \/ NextPhase(a)
  PROVE  AgentsInv'
<1>1. /\ a \in InProgress /\ UNCHANGED <<serverVars, tracked, history>>
      /\ count' = Counted(agent[a].incident) /\ AgentTypeOK /\ ServerInv
  BY DEF AsksForTools, NextPhase, InProgress, AgentsInv
<1>2. agent[a] \in Busy
  BY <1>1, AgentKinds
<1>3. ServerInv'
  BY <1>1 DEF serverVars, ServerInv, ServerTypeOK, OneRunPerGrant, Running
<1>4. <<>> \in Seq(Tool) /\ <<>> \in Seq({"unknown", "queued", "result", "raised"})
  OBVIOUS
<1>5. agent[a].made + 1 \in Nat
  BY <1>2 DEF Busy
<1>6. CASE AsksForTools(a)
  <2>1. PICK uses \in {<<t>> : t \in Tool} \union (Tool \X Tool) :
          agent' = [agent EXCEPT ![a].at = "tools", ![a].made = @ + 1,
                                 ![a].uses = uses, ![a].results = <<>>]
    BY <1>6 DEF AsksForTools
  <2> DEFINE x == [agent[a] EXCEPT !.at = "tools", !.made = @ + 1, !.uses = uses, !.results = <<>>]
  <2>2. agent' = [agent EXCEPT ![a] = x]
    BY <2>1
  <2>3. uses \in Seq(Tool) /\ 0 < Len(uses)
    <3>1. \A t \in Tool : \A s : s = <<t>> => s \in Seq(Tool) /\ 0 < Len(s)
      OBVIOUS
    <3>2. \A t, u \in Tool : \A s : s = <<t, u>> => s \in Seq(Tool) /\ 0 < Len(s)
      OBVIOUS
    <3>3. (\E t \in Tool : uses = <<t>>) \/ (\E t, u \in Tool : uses = <<t, u>>)
      BY <2>1
    <3> QED
      BY <3>1, <3>2, <3>3
  <2>4. /\ x \in Busy /\ x.at = "tools" /\ x.made = agent[a].made + 1
        /\ x.incident = agent[a].incident /\ x.alone = agent[a].alone
        /\ x.uses = uses /\ x.results = <<>>
    BY <1>2, <1>4, <1>5, <2>3 DEF Busy
  <2> HIDE DEF x
  <2>5. Len(x.results) < Len(x.uses)
    BY <2>3, <2>4
  <2> QED
    BY <1>1, <1>3, <2>2, <2>4, <2>5, StillBusy
<1>7. CASE NextPhase(a)
  <2> DEFINE x == [agent[a] EXCEPT !.phase = @ + 1, !.made = @ + 1, !.uses = <<>>, !.results = <<>>]
  <2>1. agent' = [agent EXCEPT ![a] = x] /\ agent[a].phase < Phases /\ agent[a].at = "claude"
    BY <1>7 DEF NextPhase
  <2>2. agent[a].phase + 1 \in 1..Phases
    BY <1>2, <2>1, PhaseAssumption DEF Busy
  <2>3. /\ x \in Busy /\ x.at = "claude" /\ x.made = agent[a].made + 1
        /\ x.incident = agent[a].incident /\ x.alone = agent[a].alone
        /\ x.uses = <<>> /\ x.results = <<>>
    BY <1>2, <1>4, <1>5, <2>1, <2>2 DEF Busy
  <2> HIDE DEF x
  <2> QED
    BY <1>1, <1>3, <2>1, <2>3, StillBusy
<1> QED
  BY <1>6, <1>7

LEMMA OverStep ==
  ASSUME AgentsInv, NEW a \in Caller, Complete(a) \/ ApiError(a)
  PROVE  AgentsInv'
<1>1. a \in InProgress /\ UNCHANGED serverVars /\ AgentTypeOK
  BY DEF Complete, ApiError, InProgress, AgentsInv
<1>2. agent[a].made \in Nat /\ agent[a].made + 1 \in Nat
  BY <1>1, AgentKinds DEF Busy
<1>3. CASE Complete(a)
  <2> DEFINE cnt == Counted(agent[a].incident)
             made == agent[a].made + 1
  <2>1. FinishTracking(a, "completed", made, cnt)
    BY <1>3 DEF Complete
  <2> QED
    BY <1>1, <1>2, <2>1, RunOver
<1>4. CASE ApiError(a)
  <2>1. FinishTracking(a, "failed", agent[a].made, count)
    BY <1>4 DEF ApiError
  <2> QED
    BY <1>1, <1>2, <2>1, RunOver
<1> QED
  BY <1>3, <1>4

(* The tool server moves and no investigation does.                        *)
LEMMA ServerMoves ==
  ASSUME AgentsInv, ServerInv', UNCHANGED ownVars
  PROVE  AgentsInv'
<1>1. UNCHANGED <<agent, count, tracked, history>> /\ AgentTypeOK /\ EveryUseAnswered
      /\ UsageIsOwn /\ AloneCounted
  BY DEF AgentsInv, ownVars
<1>2. InProgress' = InProgress
  BY <1>1 DEF InProgress
<1>3. AgentTypeOK' /\ EveryUseAnswered'
  BY <1>1, <1>2 DEF AgentTypeOK, ServerInv, EveryUseAnswered
<1>4. UsageIsOwn' /\ AloneCounted'
  BY <1>1, <1>2 DEF UsageIsOwn, AloneCounted
<1> QED
  BY <1>3, <1>4 DEF AgentsInv

LEMMA CollectStep ==
  ASSUME AgentsInv, NEW a \in Caller, Collect(a)
  PROVE  AgentsInv' /\ Audited
<1> DEFINE results == Append(agent[a].results, calls[a].out)
           at == IF Len(results) = Len(agent[a].uses) THEN "claude" ELSE "tools"
           x == [agent[a] EXCEPT !.results = results, !.at = at]
<1>1. /\ agent[a].at = "tools" /\ calls[a].at = "answered"
      /\ agent' = [agent EXCEPT ![a] = x] /\ calls' = [calls EXCEPT ![a] = NoCall]
      /\ UNCHANGED <<manifest, built, tools, pending, audit, logged, grants, spent,
                     count, tracked, history>>
  BY DEF Collect
<1>2. a \in InProgress /\ AgentTypeOK /\ ServerInv /\ EveryUseAnswered
  BY <1>1 DEF InProgress, AgentsInv
<1>3. agent[a] \in Busy /\ Len(agent[a].results) < Len(agent[a].uses)
  BY <1>1, <1>2, AgentKinds DEF EveryUseAnswered
<1>4. calls[a].out \in {"unknown", "queued", "result", "raised"}
  BY <1>1, <1>2 DEF ServerInv, ServerTypeOK, CallType, NoCall
<1>5. /\ results \in Seq({"unknown", "queued", "result", "raised"})
      /\ Len(results) = Len(agent[a].results) + 1 /\ Len(results) \in Nat /\ Len(agent[a].uses) \in Nat
      /\ Len(agent[a].results) \in Nat
  BY <1>3, <1>4, LenProperties DEF Busy
<1> HIDE DEF results
<1>6. /\ x \in Busy /\ x.at = at /\ x.made = agent[a].made
      /\ x.incident = agent[a].incident /\ x.alone = agent[a].alone
      /\ x.uses = agent[a].uses /\ x.results = results
  BY <1>3, <1>5 DEF Busy
<1> HIDE DEF x
<1>7. /\ x.at = "claude" => Len(x.results) = Len(x.uses)
      /\ x.at = "tools" => Len(x.results) < Len(x.uses)
  BY <1>3, <1>5, <1>6
<1>8. NoCall \in CallType /\ NoCall.at = "idle"
  BY DEF NoCall, CallType
<1>9. /\ calls' \in [Caller -> CallType] /\ calls'[a] = NoCall
      /\ \A d \in Caller : d # a => calls'[d] = calls[d]
      /\ \A t \in Running' : t \in Running \/ (NoCall.at = "handler" /\ t = NoCall.tool)
  BY <1>1, <1>2, <1>8, CallMoved
<1>10. ServerInv'
  BY <1>1, <1>2, <1>8, <1>9 DEF ServerInv, ServerTypeOK, OneRunPerGrant
<1>11. Audited
  BY <1>8, <1>9 DEF Audited
<1> QED
  BY <1>1, <1>2, <1>6, <1>7, <1>10, <1>11, StillBusy

LEMMA AgentsStep ==
  AgentsInv /\ [AgentsNext]_agentVars => AgentsInv' /\ (Audited \/ UNCHANGED serverVars)
<1> SUFFICES ASSUME AgentsInv, [AgentsNext]_agentVars
             PROVE  AgentsInv' /\ (Audited \/ UNCHANGED serverVars)
  OBVIOUS
<1>1. ServerInv
  BY DEF AgentsInv
<1>2. ASSUME UNCHANGED ownVars,
             \/ \E t \in Scoped, s \in {"read", "write", "blocked"} : Register(t, s)
             \/ Build \/ \E k \in Key : Grant(k)
      PROVE  AgentsInv' /\ Audited
  BY <1>1, <1>2, OperatorStep, ServerMoves
<1>3. ASSUME NEW a \in Caller,
             (\E i \in Incident : Begin(a, i)) \/ AsksForTools(a) \/ NextPhase(a)
               \/ Complete(a) \/ ApiError(a)
      PROVE  AgentsInv' /\ UNCHANGED serverVars
  <2>1. UNCHANGED serverVars
    <3>1. (\E i \in Incident : Begin(a, i)) => UNCHANGED serverVars
      BY DEF Begin
    <3>2. AsksForTools(a) \/ NextPhase(a) => UNCHANGED serverVars
      BY DEF AsksForTools, NextPhase
    <3>3. Complete(a) \/ ApiError(a) => UNCHANGED serverVars
      BY DEF Complete, ApiError
    <3> QED
      BY <1>3, <3>1, <3>2, <3>3
  <2> QED
    BY <1>3, <2>1, BeginStep, AnswerStep, OverStep
<1>4. ASSUME NEW a \in Caller, CallTool(a)
      PROVE  AgentsInv' /\ Audited
  <2> DEFINE t == agent[a].uses[Len(agent[a].results) + 1]
  <2>1. /\ a \in InProgress /\ AgentTypeOK /\ EveryUseAnswered /\ agent[a].at = "tools"
        /\ Ask(a, NoId, t) /\ UNCHANGED ownVars
    BY <1>4 DEF CallTool, InProgress, AgentsInv
  <2>2. agent[a] \in Busy /\ Len(agent[a].results) < Len(agent[a].uses)
    BY <2>1, AgentKinds DEF EveryUseAnswered
  <2>3. /\ agent[a].uses \in Seq(Tool) /\ Len(agent[a].results) \in Nat /\ Len(agent[a].uses) \in Nat
    BY <2>2, LenProperties DEF Busy
  <2>4. Len(agent[a].results) + 1 \in 1..Len(agent[a].uses)
    BY <2>2, <2>3
  <2>5. t \in Tool
    BY <2>3, <2>4, ElementOfSeq
  <2>6. NoId \in Investigation
    BY ToolAssumption
  <2> HIDE DEF t
  <2> QED
    BY <1>1, <2>1, <2>5, <2>6, AskStep, ServerMoves
<1>5. ASSUME NEW a \in Caller, Handled(a), UNCHANGED ownVars
      PROVE  AgentsInv' /\ Audited
  BY <1>1, <1>5, HandledStep, ServerMoves
<1>6. CASE UNCHANGED agentVars
  <2>1. UNCHANGED serverVars /\ UNCHANGED ownVars
    BY <1>6 DEF agentVars
  <2>2. ServerInv'
    BY <1>1, <2>1 DEF serverVars, ServerInv, ServerTypeOK, OneRunPerGrant, Running
  <2> QED
    BY <2>1, <2>2, ServerMoves
<1> QED
  BY <1>2, <1>3, <1>4, <1>5, <1>6, CollectStep DEF AgentsNext

(* No blocked tool is served or running, a tool that needs approval runs   *)
(* once for each grant, every tool call of Claude's answer has its result  *)
(* before Claude is asked again, usage is counted for the run it belongs   *)
(* to, and no answer is heard that the audit log does not show             *)
(* (server.py, orchestrator.py, token_tracker.py): for any tools, grants   *)
(* and investigations.                                                     *)
THEOREM ToolUseSoundThm == AgentsSpec => ToolUseSound
<1>1. AgentsInit => AgentsInv
  BY AgentsInitInv
<1>2. AgentsInv /\ [AgentsNext]_agentVars => AgentsInv'
  BY AgentsStep
<1>3. AgentsInv => AgentTypeOK /\ BlockedNeverServed /\ OneRunPerGrant
                     /\ EveryUseAnswered /\ UsageIsOwn
  <2> SUFFICES ASSUME AgentsInv PROVE BlockedNeverServed
    BY DEF AgentsInv, ServerInv
  <2> QED
    BY DEF AgentsInv, ServerInv, BlockedNeverServed
<1>4. AgentsInv /\ [AgentsNext]_agentVars =>
        [\A c \in Caller :
           calls[c].at # "answered" /\ calls'[c].at = "answered" /\ calls'[c].out # "unknown"
           => LET size == Len(audit') IN
              /\ size = IF logged < MaxAudit THEN logged + 1 ELSE MaxAudit
              /\ audit'[size].says = Says(calls'[c].out)
              /\ \A i \in 1..(size - 1) : audit'[i] = audit[i + Len(audit) + 1 - size]]_serverVars
  BY AgentsStep DEF Audited
<1> QED
  BY <1>1, <1>2, <1>3, <1>4, PTL DEF AgentsSpec, ToolUseSound, AnswersAudited
-----------------------------------------------------------------------------
(* The queue the scheduler's job drains.                                   *)
LEMMA QueueTypeStep == TypeOK /\ [Next]_vars => TypeOK'
<1> SUFFICES ASSUME TypeOK, [Next]_vars
             PROVE  TypeOK'
  OBVIOUS
<1> USE DEF TypeOK
<1>1. ASSUME NEW S \in SUBSET Slug, Enqueue(S)
      PROVE  TypeOK'
  BY <1>1 DEF Enqueue
<1>2. ASSUME NEW d \in Drainer, Rotate(d)
      PROVE  TypeOK'
  BY <1>2 DEF Rotate
<1>3. ASSUME NEW d \in Drainer, Take(d)
      PROVE  TypeOK'
  BY <1>3 DEF Take
<1>4. ASSUME NEW d \in Drainer, End(d)
      PROVE  TypeOK'
  BY <1>4 DEF End
<1>5. ASSUME NEW d \in Drainer, Unlink(d)
      PROVE  TypeOK'
  BY <1>5 DEF Unlink
<1>6. CASE Crash
  BY <1>6 DEF Crash
<1>7. CASE UNCHANGED vars
  BY <1>7 DEF vars
<1> QED
  BY <1>1, <1>2, <1>3, <1>4, <1>5, <1>6, <1>7 DEF Next, Drain, Continue

(* The resynthesis queue's variables keep their types.                     *)
THEOREM QueueTypeCorrect == Spec => []TypeOK
<1>1. Init => TypeOK
  BY DEF Init, TypeOK
<1> QED
  BY <1>1, QueueTypeStep, PTL DEF Spec

-----------------------------------------------------------------------------
(* The inductive invariant: a running drain's file covers its work, and    *)
(* what was handed over can be traced.                                     *)
QueueInv == TypeOK /\ FilesCoverWork /\ Traceable

LEMMA QueueInvInit == Init => QueueInv
BY SlugAssumption DEF Init, QueueInv, TypeOK, FilesCoverWork, Traceable, Owed

LEMMA StepIInv == QueueInv /\ TypeOK' /\ [Next]_vars => QueueInv'
<1> SUFFICES ASSUME TypeOK, FilesCoverWork, Traceable, TypeOK', [Next]_vars
             PROVE  FilesCoverWork' /\ Traceable'
  BY DEF QueueInv
<1> USE SlugAssumption DEF TypeOK
<1>1. ASSUME NEW S \in SUBSET Slug, Enqueue(S)
      PROVE  FilesCoverWork' /\ Traceable'
  <2>1. FilesCoverWork'
    BY <1>1 DEF Enqueue, FilesCoverWork
  <2>2. Owed' = Owed \union S
    BY <1>1 DEF Enqueue, Owed
  <2>3. Traceable'
    BY <1>1, <2>2 DEF Enqueue, Traceable
  <2> QED
    BY <2>1, <2>3
<1>2. ASSUME NEW d \in Drainer, Rotate(d)
      PROVE  FilesCoverWork' /\ Traceable'
  <2>1. FilesCoverWork'
    BY <1>2 DEF Rotate, FilesCoverWork
  <2>2. Owed \subseteq Owed'
    <3>1. todo[d] = {}
      BY <1>2 DEF Rotate, FilesCoverWork
    <3> QED
      BY <1>2, <3>1 DEF Rotate, Owed
  <2>3. Traceable'
    BY <1>2, <2>2 DEF Rotate, Traceable
  <2> QED
    BY <2>1, <2>3
<1>3. ASSUME NEW d \in Drainer, Take(d)
      PROVE  FilesCoverWork' /\ Traceable'
  <2>1. PICK g \in todo[d] : /\ current' = [current EXCEPT ![d] = g]
                             /\ todo' = [todo EXCEPT ![d] = @ \ {g}]
                             /\ tried' = tried \union {g}
    BY <1>3 DEF Take
  <2>2. FilesCoverWork'
    BY <1>3, <2>1 DEF Take, FilesCoverWork
  <2>3. Owed \subseteq Owed' \union {g}
    BY <1>3, <2>1 DEF Take, Owed
  <2>4. Traceable'
    BY <1>3, <2>1, <2>3 DEF Take, Traceable
  <2> QED
    BY <2>2, <2>4
<1>4. ASSUME NEW d \in Drainer, End(d)
      PROVE  FilesCoverWork' /\ Traceable'
  BY <1>4 DEF End, FilesCoverWork, Traceable, Owed
<1>5. ASSUME NEW d \in Drainer, Unlink(d)
      PROVE  FilesCoverWork' /\ Traceable'
  BY <1>5 DEF Unlink, FilesCoverWork, Traceable, Owed
<1>6. CASE Crash
  <2>1. FilesCoverWork'
    BY <1>6 DEF Crash, FilesCoverWork
  <2>2. Owed \subseteq live \union UNION {rotated[d] : d \in Drainer}
    BY DEF Owed, FilesCoverWork
  <2>3. live \subseteq Owed'
    BY <1>6 DEF Crash, Owed
  <2>4. orphans' = orphans \union UNION {rotated[d] : d \in Drainer}
    BY <1>6 DEF Crash
  <2>5. Owed \union orphans \subseteq Owed' \union orphans'
    BY <2>2, <2>3, <2>4
  <2>6. Traceable'
    BY <1>6, <2>5 DEF Crash, Traceable
  <2> QED
    BY <2>1, <2>6
<1>7. CASE UNCHANGED vars
  BY <1>7 DEF vars, FilesCoverWork, Traceable, Owed
<1> QED
  BY <1>1, <1>2, <1>3, <1>4, <1>5, <1>6, <1>7 DEF Next, Drain, Continue

LEMMA QueueInductive == Spec => []QueueInv
<1>1. QueueInv /\ TypeOK' /\ [Next]_vars => QueueInv'
  BY StepIInv
<1> QED
  BY QueueInvInit, QueueTypeCorrect, <1>1, PTL DEF Spec

(* A drain's processing file stays on disk while it has work to attempt.   *)
THEOREM WorkOnDiskThm == Spec => []WorkOnDisk
<1>1. QueueInv => WorkOnDisk
  BY DEF QueueInv, WorkOnDisk
<1> QED
  BY QueueInductive, <1>1, PTL

(* No step, crashes included, drops a slug that was handed over without    *)
(* leaving it in a file.                                                   *)
THEOREM TraceableThm == Spec => []Traceable
<1>1. QueueInv => Traceable
  BY DEF QueueInv
<1> QED
  BY QueueInductive, <1>1, PTL

-----------------------------------------------------------------------------
(* Until a crash, every step of the queue is a step of its abstract        *)
(* promise or changes nothing the promise sees.                            *)
THEOREM KeepsPromiseThm == Spec => KeepsPromise
<1>1. Init => Promise!Init
  BY DEF Init, Promise!Init, Owed, Served
<1>2. QueueInv /\ TypeOK' /\ [Next]_vars
        => [crashes' = 0 => (Promise!Next \/ UNCHANGED <<Owed, Served>>)]_vars
  <2> SUFFICES ASSUME QueueInv, TypeOK', [Next]_vars, crashes' = 0
               PROVE  Promise!Next \/ UNCHANGED <<Owed, Served>>
    OBVIOUS
  <2> USE SlugAssumption DEF QueueInv, TypeOK
  <2>1. ASSUME NEW S \in SUBSET Slug, Enqueue(S)
        PROVE  Promise!Next \/ UNCHANGED <<Owed, Served>>
    <3>1. Owed' = Owed \union S
      BY <2>1 DEF Enqueue, Owed
    <3>2. Served' = Served \ S
      BY <2>1, <3>1 DEF Enqueue, Served
    <3>3. Promise!HandOver(S)
      BY <3>1, <3>2 DEF Promise!HandOver
    <3> QED
      BY <3>3 DEF Promise!Next
  <2>2. ASSUME NEW d \in Drainer, Rotate(d)
        PROVE  UNCHANGED <<Owed, Served>>
    <3>1. todo[d] = {}
      BY <2>2 DEF Rotate, FilesCoverWork
    <3>2. Owed' = Owed
      BY <2>2, <3>1 DEF Rotate, Owed
    <3> QED
      BY <2>2, <3>2 DEF Rotate, Served
  <2>3. ASSUME NEW d \in Drainer, Take(d)
        PROVE  Promise!Next \/ UNCHANGED <<Owed, Served>>
    <3>1. PICK g \in todo[d] : /\ todo' = [todo EXCEPT ![d] = @ \ {g}]
                               /\ tried' = tried \union {g}
      BY <2>3 DEF Take
    <3>2. g \in Owed /\ g \in Slug
      BY <3>1 DEF Owed
    <3>3. /\ Owed' \subseteq Owed
          /\ Owed \subseteq Owed' \union {g}
      BY <2>3, <3>1 DEF Take, Owed
    <3>4. CASE g \in Owed'
      <4>1. Owed' = Owed
        BY <3>3, <3>4
      <4>2. Served' = Served
        BY <3>1, <3>2, <4>1 DEF Served
      <4> QED
        BY <4>1, <4>2
    <3>5. CASE g \notin Owed'
      <4>1. Owed' = Owed \ {g}
        BY <3>3, <3>5
      <4>2. Served' = Served \union {g}
        BY <3>1, <4>1 DEF Served
      <4>3. Promise!Attempt(g)
        BY <3>2, <4>1, <4>2 DEF Promise!Attempt
      <4> QED
        BY <3>2, <4>3 DEF Promise!Next
    <3> QED
      BY <3>4, <3>5
  <2>4. ASSUME NEW d \in Drainer, End(d)
        PROVE  UNCHANGED <<Owed, Served>>
    BY <2>4 DEF End, Owed, Served
  <2>5. ASSUME NEW d \in Drainer, Unlink(d)
        PROVE  UNCHANGED <<Owed, Served>>
    BY <2>5 DEF Unlink, Owed, Served
  <2>6. ~Crash
    <3> SUFFICES ASSUME Crash PROVE FALSE
      OBVIOUS
    <3> QED
      BY DEF Crash
  <2>7. CASE UNCHANGED vars
    BY <2>7 DEF vars, Owed, Served
  <2> QED
    BY <2>1, <2>2, <2>3, <2>4, <2>5, <2>6, <2>7 DEF Next, Drain, Continue
<1> QED
  BY <1>1, <1>2, QueueInductive, QueueTypeCorrect, PTL DEF Spec, KeepsPromise
=============================================================================
