----------------------------- MODULE TowerProofs ----------------------------
(* Proofs about KillSwitch, for every fleet, every placement of processes  *)
(* on hosts and any number of failures; about ControlTower, for every      *)
(* number of investigations, every engine and every amount of material;    *)
(* about Connector, for every server and every limit; about DocTools, for  *)
(* every library and every web; and about Reconciler, for all sources and  *)
(* whatever people edit during a call.                                     *)
EXTENDS KillSwitch, ControlTower, Connector, DocTools, Reconciler, SequenceTheorems, FiniteSetTheorems, TLAPS

(* A trip in force is in the Redis key, nothing failed at the moment it    *)
(* was stored, and later failures are counted.                             *)
ForceInv ==
  force => /\ redisKey
           /\ mark =< faults
           /\ (faults = mark => redisUp)

(* A release that met no trip has left the key absent.                     *)
ClearInv == \A p \in clear : ~redisKey

ClearedInv == cleared # NoNode => (~redisKey /\ ~flagFile[cleared])

(* Only a running process has a call that passed its check.                *)
CallInv == \A p \in Proc : call[p] = "passed" => Running(p)

IInv == /\ TypeOK /\ ForceInv /\ ClearInv /\ ClearedInv /\ CallInv
        /\ TripStopsCalls

-----------------------------------------------------------------------------
LEMMA TypeInit == Init => TypeOK
<1> USE NodeAssumption DEF NodeAssumption
<1> SUFFICES ASSUME Init PROVE TypeOK
  OBVIOUS
<1> USE DEF Init
<1>1. redisUp \in BOOLEAN /\ redisKey \in BOOLEAN /\ force \in BOOLEAN
  BY Zenon
<1> QED
  BY <1>1 DEF TypeOK, Acks, NoAck

(* The state variables keep their types (class KillSwitch and its callers).*)
THEOREM TypeCorrect == Spec => []TypeOK
<1> USE NodeAssumption, RequestedAssumption, FaultsAssumption
    DEF NodeAssumption, RequestedAssumption, FaultsAssumption
<1>1. TypeOK /\ [Next]_vars => TypeOK'
  <2> SUFFICES ASSUME TypeOK, [Next]_vars PROVE TypeOK'
    OBVIOUS
  <2> USE DEF TypeOK, stores, history, Acks, NoAck
  <2>1. ASSUME NEW p \in Proc, Start(p) PROVE TypeOK'
    BY <2>1 DEF Start, Redis
  <2>2. ASSUME NEW p \in Proc, Exit(p) PROVE TypeOK'
    BY <2>2 DEF Exit
  <2>3. ASSUME NEW p \in Proc, TripRedis(p) PROVE TypeOK'
    <3>1. redisKey' \in BOOLEAN /\ force' \in BOOLEAN
      BY <2>3, Zenon DEF TripRedis
    <3> QED
      BY <2>3, <3>1 DEF TripRedis, Redis
  <2>4. ASSUME NEW p \in Proc, TripFile(p) PROVE TypeOK'
    BY <2>4 DEF TripFile, File
  <2>5. ASSUME NEW p \in Proc, ReleaseRedis(p) PROVE TypeOK'
    <3>1. redisKey' \in BOOLEAN /\ force' \in BOOLEAN
      BY <2>5, Zenon DEF ReleaseRedis
    <3> QED
      BY <2>5, <3>1 DEF ReleaseRedis, Redis
  <2>6. ASSUME NEW p \in Proc, ReleaseFile(p) PROVE TypeOK'
    BY <2>6 DEF ReleaseFile, File
  <2>7. ASSUME NEW p \in Proc, CallCheck(p) PROVE TypeOK'
    BY <2>7 DEF CallCheck, ReadsInactive, Redis
  <2>8. ASSUME NEW p \in Proc, CallBody(p) PROVE TypeOK'
    BY <2>8 DEF CallBody
  <2>9. ASSUME RedisDown \/ RedisBack PROVE TypeOK'
    <3>1. redisUp' \in BOOLEAN
      BY <2>9, Zenon DEF RedisDown, RedisBack
    <3> QED
      BY <2>9, <3>1 DEF RedisDown, RedisBack
  <2>10. CASE UNCHANGED vars
    BY <2>10 DEF vars
  <2> QED
    BY <2>1, <2>2, <2>3, <2>4, <2>5, <2>6, <2>7, <2>8, <2>9, <2>10 DEF Next, ProcNext
<1> QED
  BY <1>1, TypeInit, PTL DEF Spec

-----------------------------------------------------------------------------
(* The invariant is inductive: the part that speaks of the trip in force.  *)
TripInv == ForceInv /\ CallInv /\ TripStopsCalls

LEMMA TripStep == IInv /\ TypeOK' /\ [Next]_vars => TripInv'
<1> USE NodeAssumption, RequestedAssumption, FaultsAssumption
    DEF NodeAssumption, RequestedAssumption, FaultsAssumption
<1> SUFFICES ASSUME IInv, TypeOK', [Next]_vars
             PROVE  TripInv'
  OBVIOUS
<1> USE DEF IInv, TypeOK, TripInv, ForceInv, CallInv, TripStopsCalls, stores, history, Running
<1>1. ASSUME NEW p \in Proc, Start(p) PROVE TripInv'
  BY <1>1 DEF Start, Redis
<1>2. ASSUME NEW p \in Proc, Exit(p) PROVE TripInv'
  BY <1>2 DEF Exit
<1>3. ASSUME NEW p \in Proc, TripRedis(p) PROVE TripInv'
  <2>1. PICK heard \in {"ok", "lost", "late"} :
          /\ Redis(heard)
          /\ redisKey' = (redisKey \/ heard # "lost")
          /\ IF heard = "ok"
             THEN /\ force' = TRUE /\ mark' = faults
                  /\ grace' = {q \in Proc : call[q] = "passed"}
             ELSE UNCHANGED <<force, mark, grace>>
    BY <1>3, Zenon DEF TripRedis
  <2>2. UNCHANGED <<redisUp, backend, call>>
    BY <1>3, Zenon DEF TripRedis
  <2>3. CASE heard = "ok"
    <3>1. redisKey' /\ redisUp' /\ mark' = faults /\ UNCHANGED faults
      BY <2>1, <2>2, <2>3, Zenon DEF Redis
    <3>2. grace' = {q \in Proc : call[q] = "passed"}
      BY <2>1, <2>3, Zenon
    <3> QED
      BY <2>2, <3>1, <3>2
  <2>4. CASE heard # "ok"
    <3>1. UNCHANGED <<force, mark, grace>>
      BY <2>1, <2>4, Zenon
    <3>2. redisKey => redisKey'
      BY <2>1, Zenon
    <3> QED
      BY <2>1, <2>2, <2>4, <3>1, <3>2 DEF Redis
  <2> QED
    BY <2>3, <2>4
<1>4. ASSUME NEW p \in Proc, TripFile(p) PROVE TripInv'
  BY <1>4 DEF TripFile, File
<1>5. ASSUME NEW p \in Proc, ReleaseRedis(p) PROVE TripInv'
  BY <1>5 DEF ReleaseRedis
<1>6. ASSUME NEW p \in Proc, ReleaseFile(p) PROVE TripInv'
  BY <1>6 DEF ReleaseFile, File
<1>7. ASSUME NEW p \in Proc, CallCheck(p) PROVE TripInv'
  BY <1>7 DEF CallCheck, ReadsInactive, Redis, Observes
<1>8. ASSUME NEW p \in Proc, CallBody(p) PROVE TripInv'
  BY <1>8 DEF CallBody
<1>9. ASSUME RedisDown \/ RedisBack PROVE TripInv'
  BY <1>9 DEF RedisDown, RedisBack
<1>10. CASE UNCHANGED vars
  BY <1>10 DEF vars
<1> QED
  BY <1>1, <1>2, <1>3, <1>4, <1>5, <1>6, <1>7, <1>8, <1>9, <1>10 DEF Next, ProcNext

(* The part that speaks of releases.                                       *)
LEMMA ReleaseStep == IInv /\ TypeOK' /\ [Next]_vars => ClearInv' /\ ClearedInv'
<1> USE NodeAssumption DEF NodeAssumption
<1> SUFFICES ASSUME IInv, TypeOK', [Next]_vars
             PROVE  ClearInv' /\ ClearedInv'
  OBVIOUS
<1> USE DEF IInv, TypeOK, ClearInv, ClearedInv, stores, history
<1>1. ASSUME NEW p \in Proc, Start(p) PROVE ClearInv' /\ ClearedInv'
  BY <1>1 DEF Start
<1>2. ASSUME NEW p \in Proc, Exit(p) PROVE ClearInv' /\ ClearedInv'
  BY <1>2 DEF Exit
<1>3. ASSUME NEW p \in Proc, TripRedis(p) PROVE ClearInv' /\ ClearedInv'
  BY <1>3 DEF TripRedis
<1>4. ASSUME NEW p \in Proc, TripFile(p) PROVE ClearInv' /\ ClearedInv'
  BY <1>4 DEF TripFile
<1>5. ASSUME NEW p \in Proc, ReleaseRedis(p) PROVE ClearInv' /\ ClearedInv'
  BY <1>5 DEF ReleaseRedis
<1>6. ASSUME NEW p \in Proc, ReleaseFile(p) PROVE ClearInv' /\ ClearedInv'
  BY <1>6 DEF ReleaseFile
<1>7. ASSUME NEW p \in Proc, CallCheck(p) PROVE ClearInv' /\ ClearedInv'
  BY <1>7 DEF CallCheck
<1>8. ASSUME NEW p \in Proc, CallBody(p) PROVE ClearInv' /\ ClearedInv'
  BY <1>8 DEF CallBody
<1>9. ASSUME RedisDown \/ RedisBack PROVE ClearInv' /\ ClearedInv'
  BY <1>9 DEF RedisDown, RedisBack
<1>10. CASE UNCHANGED vars
  BY <1>10 DEF vars
<1> QED
  BY <1>1, <1>2, <1>3, <1>4, <1>5, <1>6, <1>7, <1>8, <1>9, <1>10 DEF Next, ProcNext

LEMMA Inductive == Spec => []IInv
<1>1. Init => IInv
  <2> SUFFICES ASSUME Init PROVE IInv
    OBVIOUS
  <2>1. ~force /\ ~redisKey /\ clear = {} /\ cleared = NoNode
    BY Zenon DEF Init
  <2> QED
    BY <2>1, TypeInit DEF IInv, ForceInv, ClearInv, ClearedInv, CallInv, TripStopsCalls, Init
<1>2. IInv /\ TypeOK' /\ [Next]_vars => IInv'
  BY TripStep, ReleaseStep DEF IInv, TripInv
<1> QED
  BY <1>1, <1>2, TypeCorrect, PTL DEF Spec

(* Check and body of a gated call are two steps, yet only the calls that   *)
(* passed their check before a trip may overrun it: gate.py:83-116 with    *)
(* switch.py:155-226.                                                      *)
THEOREM TripStopsCallsThm == Spec => []TripStopsCalls
<1>1. IInv => TripStopsCalls
  BY DEF IInv
<1> QED
  BY <1>1, Inductive, PTL

(* A clean release clears every instance that reads the stores it cleared: *)
(* switch.py:228-255.                                                      *)
THEOREM ReleaseClearsThm == Spec => []ReleaseClears
<1>1. IInv => ReleaseClears
  BY DEF IInv, TypeOK, ClearedInv, ReleaseClears, Observes
<1> QED
  BY <1>1, Inductive, PTL

(* A halted instance is only reopened by a step of a release.              *)
THEOREM StaysHaltedThm == Spec => StaysHalted
<1> USE NodeAssumption DEF NodeAssumption
<1>1. TypeOK /\ [Next]_vars =>
        [\A p \in Proc : (Running(p) /\ Observes(p) /\ Running(p)')
                            => Observes(p)' \/ Releasing]_vars
  <2> SUFFICES ASSUME TypeOK, [Next]_vars, NEW p \in Proc,
                      Running(p), Observes(p), Running(p)', ~Releasing
               PROVE  Observes(p)' \/ UNCHANGED vars
    OBVIOUS
  <2> USE DEF TypeOK, stores, history, Observes, Running
  <2>1. ASSUME NEW q \in Proc, Start(q) PROVE Observes(p)'
    BY <2>1 DEF Start
  <2>2. ASSUME NEW q \in Proc, Exit(q) PROVE Observes(p)'
    BY <2>2 DEF Exit
  <2>3. ASSUME NEW q \in Proc, TripRedis(q) PROVE Observes(p)'
    BY <2>3 DEF TripRedis
  <2>4. ASSUME NEW q \in Proc, TripFile(q) PROVE Observes(p)'
    BY <2>4 DEF TripFile
  <2>5. ASSUME NEW q \in Proc, ReleaseRedis(q) PROVE FALSE
    BY <2>5 DEF ReleaseRedis, Releasing
  <2>6. ASSUME NEW q \in Proc, ReleaseFile(q) PROVE FALSE
    BY <2>6 DEF ReleaseFile, Releasing
  <2>7. ASSUME NEW q \in Proc, CallCheck(q) \/ CallBody(q) PROVE Observes(p)'
    BY <2>7 DEF CallCheck, CallBody
  <2>8. ASSUME RedisDown \/ RedisBack PROVE Observes(p)'
    BY <2>8 DEF RedisDown, RedisBack
  <2> QED
    BY <2>1, <2>2, <2>3, <2>4, <2>5, <2>6, <2>7, <2>8 DEF Next, ProcNext
<1> QED
  BY <1>1, TypeCorrect, PTL DEF Spec, StaysHalted

-----------------------------------------------------------------------------
(* The trimming: what k cuts leave of a context.                           *)
WasCut(rows, found, k) == rows[Cuts[k].section] < found[Cuts[k].section]
MayCut(found, k) ==
  found[Cuts[k].section] > CutTo(Cuts[k].section, found[Cuts[k].section])
AfterCuts(state, found, k) ==
  /\ state.rows \in [Section -> Nat]
  /\ \A s \in Section : state.rows[s] <= found[s] /\ (found[s] > 0 => state.rows[s] > 0)
  /\ \A s \in Section : (\A j \in 1..k : Cuts[j].section # s) => state.rows[s] = found[s]
  /\ \A j \in 1..k : WasCut(state.rows, found, j) =>
       \A l \in 1..(j - 1) : MayCut(found, l) => WasCut(state.rows, found, l)
  /\ state.over <= 0 \/ \A j \in 1..k : MayCut(found, j) => WasCut(state.rows, found, j)

LEMMA SectionsAre ==
  /\ Section = {"wiki", "metrics", "logs", "traces", "history", "patterns"}
  /\ Len(Cuts) = 5
  /\ \A k \in 1..5 : Cuts[k].section \in Section \ {"patterns"}
  /\ \A j, k \in 1..5 : Cuts[j].section = Cuts[k].section => j = k
<1>1. DOMAIN Sections = 1..6 /\ 1..6 = {1, 2, 3, 4, 5, 6}
  BY DEF Sections
<1>2. Section = {Sections[k] : k \in 1..6}
  BY <1>1 DEF Section, ToSet
<1>3. Section = {"wiki", "metrics", "logs", "traces", "history", "patterns"}
  BY <1>1, <1>2 DEF Sections
<1>4. 1..5 = {1, 2, 3, 4, 5}
  OBVIOUS
<1> QED
  BY <1>3, <1>4 DEF Cuts

LEMMA CutToIs ==
  ASSUME NEW s \in Section, NEW n \in Nat
  PROVE  /\ CutTo(s, n) \in Nat
         /\ n > 0 => CutTo(s, n) > 0 /\ CutTo(s, n) <= n
         /\ n = 0 => ~(n > CutTo(s, n))
<1>1. n \div 2 \in Nat /\ n \div 2 <= n
  BY SMT
<1> QED
  BY <1>1 DEF CutTo, Half

LEMMA CutStep ==
  ASSUME NEW found \in [Section -> Nat], NEW k \in 1..5, NEW state, AfterCuts(state, found, k - 1)
  PROVE  AfterCuts(Cut(state, Cuts[k]), found, k)
<1> DEFINE s == Cuts[k].section
           after == Cut(state, Cuts[k])
<1> SUFFICES AfterCuts(after, found, k)
  OBVIOUS
<1>1. s \in Section /\ \A j \in 1..5 : Cuts[j].section \in Section /\ (Cuts[j].section = s => j = k)
  BY SectionsAre
<1>2. state.rows \in [Section -> Nat] /\ state.rows[s] = found[s] /\ found[s] \in Nat
  BY <1>1 DEF AfterCuts
<1>3. 1..k = (1..(k - 1)) \union {k} /\ k \notin 1..(k - 1) /\ 1..(k - 1) \subseteq 1..5
  OBVIOUS
<1>4. ~WasCut(state.rows, found, k)
  BY <1>2 DEF WasCut
<1>5. CASE state.over <= 0
  <2>1. after = state
    BY <1>5 DEF Cut
  <2> HIDE DEF after
  <2>2. \A t \in Section : (\A j \in 1..k : Cuts[j].section # t) => state.rows[t] = found[t]
    BY <1>3 DEF AfterCuts
  <2>3. \A j \in 1..k : WasCut(state.rows, found, j) =>
          \A l \in 1..(j - 1) : MayCut(found, l) => WasCut(state.rows, found, l)
    BY <1>3, <1>4 DEF AfterCuts
  <2> QED
    BY <1>5, <2>1, <2>2, <2>3 DEF AfterCuts
<1>6. CASE ~(state.over <= 0) /\ found[s] = 0
  <2>1. after = state
    BY <1>2, <1>6 DEF Cut
  <2> HIDE DEF after
  <2>2. ~MayCut(found, k)
    BY <1>1, <1>6, CutToIs DEF MayCut
  <2>3. \A j \in 1..k : MayCut(found, j) => WasCut(state.rows, found, j)
    BY <1>3, <1>6, <2>2 DEF AfterCuts
  <2>4. \A t \in Section : (\A j \in 1..k : Cuts[j].section # t) => state.rows[t] = found[t]
    BY <1>3 DEF AfterCuts
  <2>5. \A j \in 1..k : WasCut(state.rows, found, j) =>
          \A l \in 1..(j - 1) : MayCut(found, l) => WasCut(state.rows, found, l)
    BY <1>3, <1>4 DEF AfterCuts
  <2> QED
    BY <2>1, <2>3, <2>4, <2>5 DEF AfterCuts
<1>7. CASE ~(state.over <= 0) /\ found[s] # 0
  <2>1. after.rows = [state.rows EXCEPT ![s] = CutTo(s, found[s])]
    BY <1>2, <1>7 DEF Cut
  <2>2. CutTo(s, found[s]) \in Nat /\ CutTo(s, found[s]) <= found[s] /\ CutTo(s, found[s]) > 0
    <3>1. found[s] > 0
      BY <1>2, <1>7
    <3>2. s \in Section /\ found[s] \in Nat
      BY <1>1, <1>2
    <3> HIDE DEF s
    <3> QED
      BY <3>1, <3>2, CutToIs
  <2> HIDE DEF after
  <2>3. after.rows \in [Section -> Nat] /\ after.rows[s] = CutTo(s, found[s])
        /\ \A t \in Section : t # s => after.rows[t] = state.rows[t]
    BY <1>1, <1>2, <2>1, <2>2
  <2>4. \A t \in Section : after.rows[t] <= found[t] /\ (found[t] > 0 => after.rows[t] > 0)
    <3> SUFFICES ASSUME NEW t \in Section
                 PROVE after.rows[t] <= found[t] /\ (found[t] > 0 => after.rows[t] > 0)
      OBVIOUS
    <3>1. CASE t = s
      BY <1>2, <2>2, <2>3, <3>1
    <3>2. CASE t # s
      BY <2>3, <3>2 DEF AfterCuts
    <3> QED
      BY <3>1, <3>2
  <2>5. \A t \in Section : (\A j \in 1..k : Cuts[j].section # t) => after.rows[t] = found[t]
    BY <1>3, <2>3 DEF AfterCuts
  <2>6. \A j \in 1..(k - 1) : WasCut(after.rows, found, j) <=> WasCut(state.rows, found, j)
    <3> SUFFICES ASSUME NEW j \in 1..(k - 1)
                 PROVE WasCut(after.rows, found, j) <=> WasCut(state.rows, found, j)
      OBVIOUS
    <3>1. Cuts[j].section \in Section /\ Cuts[j].section # s
      BY <1>1, <1>3
    <3> QED
      BY <2>3, <3>1 DEF WasCut
  <2>7. MayCut(found, k) => WasCut(after.rows, found, k)
    BY <2>3 DEF MayCut, WasCut
  <2>8. \A j \in 1..k : MayCut(found, j) => WasCut(after.rows, found, j)
    BY <1>3, <1>7, <2>6, <2>7 DEF AfterCuts
  <2>9. \A j \in 1..k : \A l \in 1..(j - 1) : l \in 1..k
    OBVIOUS
  <2> QED
    BY <2>3, <2>4, <2>5, <2>8, <2>9 DEF AfterCuts
<1> QED
  BY <1>2, <1>5, <1>6, <1>7

(* What is left of a context: all sections, the early ones cut first.      *)
LEMMA TrimmedIs ==
  ASSUME NEW found \in [Section -> Nat], NEW mode
  PROVE  /\ Trimmed(found, mode) \in [Section -> Nat]
         /\ \A s \in Section : /\ Trimmed(found, mode)[s] <= found[s]
                               /\ found[s] > 0 => Trimmed(found, mode)[s] > 0
         /\ Trimmed(found, mode)["patterns"] = found["patterns"]
         /\ \A k \in 1..5 : WasCut(Trimmed(found, mode), found, k) =>
              \A j \in 1..(k - 1) : MayCut(found, j) => WasCut(Trimmed(found, mode), found, j)
<1> DEFINE start == [rows |-> found, over |-> Overflow(found, mode)]
           logs == Cut(start, Cuts[1])
           traces == Cut(logs, Cuts[2])
           past == Cut(traces, Cuts[3])
           metrics == Cut(past, Cuts[4])
           last == Cut(metrics, Cuts[5])
<1>1. Trimmed(found, mode) = last.rows
  BY DEF Trimmed
<1>2. AfterCuts(start, found, 0)
  <2>1. start.rows = found /\ 1..0 = {}
    OBVIOUS
  <2> HIDE DEF start
  <2> QED
    BY <2>1 DEF AfterCuts
<1> HIDE DEF start
<1>3. AfterCuts(logs, found, 1)
  BY <1>2, CutStep, 1 - 1 = 0, 1 \in 1..5
<1> HIDE DEF logs
<1>4. AfterCuts(traces, found, 2)
  BY <1>3, CutStep, 2 - 1 = 1, 2 \in 1..5
<1> HIDE DEF traces
<1>5. AfterCuts(past, found, 3)
  BY <1>4, CutStep, 3 - 1 = 2, 3 \in 1..5
<1> HIDE DEF past
<1>6. AfterCuts(metrics, found, 4)
  BY <1>5, CutStep, 4 - 1 = 3, 4 \in 1..5
<1> HIDE DEF metrics
<1>7. AfterCuts(last, found, 5)
  BY <1>6, CutStep, 5 - 1 = 4, 5 \in 1..5
<1> HIDE DEF last
<1>8. "patterns" \in Section /\ \A j \in 1..5 : Cuts[j].section # "patterns"
  BY SectionsAre
<1> QED
  BY <1>1, <1>7, <1>8 DEF AfterCuts

-----------------------------------------------------------------------------
(* The inductive invariant: what a running investigation holds, depending  *)
(* on how far it came, and what the register says of those that ended.     *)
Untouched(c) ==
  /\ c.tries = 0 /\ c.answers = 0 /\ c.reminders = 0
  /\ c.answer = "none" /\ c.warnings = {} /\ c.rows = c.found
Counted(c) ==
  /\ c.tries <= ModeSpec(c.mode).calls /\ c.tries <= Configured[c.mode]
  /\ c.answers = c.reminders + (IF c.answer \notin {"none", "prose"} THEN 1 ELSE 0)
  /\ c.tries = c.answers + Cardinality(c.warnings)
  /\ "call_failed" \in c.warnings => c.answer \in {"none", "prose"}
Trimming(c) ==
  /\ \A s \in Section : c.rows[s] <= c.found[s] /\ (c.found[s] > 0 => c.rows[s] > 0)
  /\ c.rows["patterns"] = c.found["patterns"]
  /\ (\E k \in 1..5 : WasCut(c.rows, c.found, k)) => Overflow(c.found, c.mode) > 0
  /\ \A k \in 1..5 : WasCut(c.rows, c.found, k) =>
       \A j \in 1..(k - 1) : MayCut(c.found, j) => WasCut(c.rows, c.found, j)
OnCourse(c) ==
  /\ c.at \in {"idle", "gather"} => Untouched(c)
  /\ c.at = "ask" => Counted(c) /\ Trimming(c)

Honest(e) ==
  /\ e.mode = "halted" => e.answers = 0 /\ e.action = "none"
  /\ e.mode # "halted" =>
       /\ e.answers <= ModeSpec(e.mode).calls
       /\ ("unparsed" \in e.warnings) = (e.answer \in {"none", "prose"})
       /\ ("held" \in e.warnings) = (e.action = "held")
       /\ "call_failed" \in e.warnings => "unparsed" \in e.warnings
RegisterInv ==
  /\ \A j, k \in 1..Len(register) : register[j].id = register[k].id => j = k
  /\ \A i \in Investigation :
       inv[i].at = "done" <=> \E k \in 1..Len(register) : register[k].id = i
  /\ \A k \in 1..Len(register) : Honest(register[k])
  /\ ApprovalIsTheEngines

TowerInv ==
  TowerTypeOK /\ (\A i \in Investigation : OnCourse(inv[i])) /\ RegisterInv

LEMMA CallsAre ==
  ASSUME NEW mode \in Mode
  PROVE  /\ ModeSpec(mode).calls \in Nat /\ ModeSpec(mode).sections \in Seq(Section)
         /\ Ceiling(mode) \in Nat /\ Configured[mode] \in Nat
         /\ Ceiling(mode) <= ModeSpec(mode).calls /\ Ceiling(mode) <= Configured[mode]
<1>1. <<"wiki">> \in Seq(Section) /\ <<"wiki", "metrics", "logs", "history">> \in Seq(Section)
      /\ Sections \in Seq(Section)
  BY SectionsAre DEF Sections
<1>2. ModeSpec(mode).calls \in Nat /\ ModeSpec(mode).sections \in Seq(Section)
  <2>1. CASE mode = "eco"
    <3>1. ModeSpec(mode) = [sections |-> <<"wiki">>, calls |-> 1]
      BY <2>1 DEF ModeSpec
    <3> QED
      BY <1>1, <3>1
  <2>2. CASE mode = "standard"
    <3>1. ModeSpec(mode) = [sections |-> <<"wiki", "metrics", "logs", "history">>, calls |-> 2]
      BY <2>2 DEF ModeSpec
    <3> QED
      BY <1>1, <3>1
  <2>3. CASE mode = "deep"
    <3>1. ModeSpec(mode) = [sections |-> Sections, calls |-> 3]
      BY <2>3 DEF ModeSpec
    <3> QED
      BY <1>1, <3>1
  <2> QED
    BY <2>1, <2>2, <2>3 DEF Mode
<1>3. Configured[mode] \in Nat
  BY TowerAssumption DEF TowerAssumption
<1> QED
  BY <1>2, <1>3 DEF Ceiling

LEMMA IdleIs == Idle \in Call /\ Idle.at = "idle" /\ Untouched(Idle)
<1>1. Nothing \in [Section -> Nat]
  BY DEF Nothing
<1>2. <<>> \in Seq(Section)
  OBVIOUS
<1> QED
  BY <1>1, <1>2 DEF Idle, Call, Untouched, Mode

LEMMA TowerInitInv == TowerInit => TowerInv
<1> SUFFICES ASSUME TowerInit PROVE TowerInv
  OBVIOUS
<1>1. \A i \in Investigation : inv[i] = Idle
  BY DEF TowerInit
<1>2. inv \in [Investigation -> Call] /\ register \in Seq(Entry) /\ Len(register) = 0
  BY IdleIs DEF TowerInit
<1>3. TowerTypeOK
  BY <1>2 DEF TowerInit, TowerTypeOK, Engine
<1>4. \A i \in Investigation : OnCourse(inv[i]) /\ inv[i].at # "done"
  BY <1>1, IdleIs DEF OnCourse
<1>5. 1..Len(register) = {}
  BY <1>2
<1>6. RegisterInv
  BY <1>4, <1>5 DEF RegisterInv, ApprovalIsTheEngines
<1> QED
  BY <1>3, <1>4, <1>6 DEF TowerInv

(* An investigation goes on, and the register stays.                       *)
LEMMA GoesOn ==
  ASSUME TowerInv, NEW i \in Investigation, NEW c \in Call, OnCourse(c),
         inv[i].at # "done", c.at # "done", inv' = [inv EXCEPT ![i] = c],
         UNCHANGED <<switch, register, wired, judged>>
  PROVE  TowerInv'
<1>1. TowerTypeOK'
  BY DEF TowerInv, TowerTypeOK
<1>2. inv'[i] = c /\ \A j \in Investigation : j # i => inv'[j] = inv[j]
  BY DEF TowerInv, TowerTypeOK
<1>3. \A j \in Investigation : OnCourse(inv'[j]) /\ (inv'[j].at = "done" <=> inv[j].at = "done")
  BY <1>2 DEF TowerInv
<1>4. RegisterInv'
  BY <1>3 DEF TowerInv, RegisterInv, ApprovalIsTheEngines
<1> QED
  BY <1>1, <1>3, <1>4 DEF TowerInv

(* An investigation ends with a record of its own.                         *)
LEMMA EndsOnRecord ==
  ASSUME TowerInv, NEW i \in Investigation, NEW c \in Call, c.at = "done", inv[i].at # "done",
         NEW e \in Entry, e.id = i, Honest(e), inv' = [inv EXCEPT ![i] = c],
         register' = Append(register, e), UNCHANGED <<switch, wired>>,
         NEW v \in Engine \union {"unasked"}, judged' = [judged EXCEPT ![i] = v],
         e.action = "approved" => wired /\ v = "approves"
  PROVE  TowerInv'
<1>1. register \in Seq(Entry) /\ judged \in [Investigation -> Engine \union {"unasked"}]
      /\ inv \in [Investigation -> Call]
  BY DEF TowerInv, TowerTypeOK
<1> DEFINE n == Len(register)
<1>2. /\ n \in Nat /\ register' \in Seq(Entry) /\ Len(register') = n + 1 /\ register'[n + 1] = e
      /\ \A k \in 1..n : register'[k] = register[k]
  BY <1>1, LenProperties, AppendProperties
<1> HIDE DEF n
<1>3. 1..Len(register') = (1..n) \union {n + 1} /\ n + 1 \notin 1..n /\ 1..n = 1..Len(register)
  BY <1>2 DEF n
<1>4. TowerTypeOK'
  BY <1>1, <1>2 DEF TowerInv, TowerTypeOK
<1>5. inv'[i] = c /\ \A j \in Investigation : j # i => inv'[j] = inv[j]
  BY <1>1
<1>6. \A k \in 1..n : register[k].id # i /\ register[k].id \in Investigation
  <2> SUFFICES ASSUME NEW k \in 1..n PROVE register[k].id # i /\ register[k].id \in Investigation
    OBVIOUS
  <2>1. register[k] \in Entry
    BY <1>1, <1>3, ElementOfSeq
  <2>2. register[k].id \in Investigation
    BY <2>1 DEF Entry
  <2>3. register[k].id # i
    BY <1>3 DEF TowerInv, RegisterInv
  <2> QED
    BY <2>2, <2>3
<1>7. \A j, k \in 1..Len(register') : register'[j].id = register'[k].id => j = k
  <2> SUFFICES ASSUME NEW j \in 1..Len(register'), NEW k \in 1..Len(register'),
                      register'[j].id = register'[k].id
               PROVE  j = k
    OBVIOUS
  <2>1. CASE j \in 1..n /\ k \in 1..n
    BY <1>2, <1>3, <2>1 DEF TowerInv, RegisterInv
  <2>2. CASE ~(j \in 1..n /\ k \in 1..n)
    BY <1>2, <1>3, <1>6, <2>2
  <2> QED
    BY <2>1, <2>2
<1>8. ASSUME NEW j \in Investigation
      PROVE  inv'[j].at = "done" <=> \E k \in 1..Len(register') : register'[k].id = j
  <2>1. CASE j = i
    BY <1>2, <1>3, <1>5, <2>1
  <2>2. CASE j # i
    <3>1. (\E k \in 1..Len(register') : register'[k].id = j)
            <=> \E k \in 1..Len(register) : register[k].id = j
      BY <1>2, <1>3, <2>2
    <3> QED
      BY <1>5, <2>2, <3>1 DEF TowerInv, RegisterInv
  <2> QED
    BY <2>1, <2>2
<1>9. \A k \in 1..Len(register') : Honest(register'[k])
  BY <1>2, <1>3 DEF TowerInv, RegisterInv
<1>10. ApprovalIsTheEngines'
  <2> SUFFICES ASSUME NEW k \in 1..Len(register'), register'[k].action = "approved"
               PROVE  wired' /\ judged'[register'[k].id] = "approves"
    BY DEF ApprovalIsTheEngines
  <2>1. CASE k = n + 1
    BY <1>1, <1>2, <2>1
  <2>2. CASE k \in 1..n
    <3>1. wired /\ judged[register[k].id] = "approves"
      BY <1>2, <1>3, <2>2 DEF TowerInv, RegisterInv, ApprovalIsTheEngines
    <3> QED
      BY <1>1, <1>2, <1>6, <2>2, <3>1
  <2> QED
    BY <1>3, <2>1, <2>2
<1>11. \A j \in Investigation : OnCourse(inv'[j])
  BY <1>5 DEF TowerInv, OnCourse
<1> QED
  BY <1>4, <1>7, <1>8, <1>9, <1>10, <1>11 DEF TowerInv, RegisterInv

-----------------------------------------------------------------------------
LEMMA GatherStep ==
  ASSUME TowerInv, NEW i \in Investigation, Gather(i)
  PROVE  TowerInv'
<1> DEFINE s == Head(inv[i].left)
<1>1. inv[i] \in Call /\ OnCourse(inv[i]) /\ inv[i].at = "gather" /\ inv[i].left # <<>>
  BY DEF TowerInv, TowerTypeOK, Gather
<1>2. inv[i].left \in Seq(Section) /\ inv[i].rows \in [Section -> Nat]
      /\ inv[i].found \in [Section -> Nat]
  BY <1>1 DEF Call
<1>3. s \in Section /\ Tail(inv[i].left) \in Seq(Section)
  BY <1>1, <1>2, HeadTailProperties
<1> HIDE DEF s
<1>4. PICK n \in {Kept(s, f) : f \in Found[s]} \union {0} :
        inv' = [inv EXCEPT ![i].left = Tail(@), ![i].rows[s] = n, ![i].found[s] = n]
  BY DEF Gather, s
<1>5. n \in Nat
  BY <1>3, TowerAssumption DEF Kept, Limit, TowerAssumption
<1> DEFINE c == [inv[i] EXCEPT !.left = Tail(@), !.rows[s] = n, !.found[s] = n]
<1>6. inv' = [inv EXCEPT ![i] = c]
  BY <1>4 DEF TowerInv, TowerTypeOK
<1>7. c.left = Tail(inv[i].left) /\ c.rows = [inv[i].rows EXCEPT ![s] = n]
      /\ c.found = [inv[i].found EXCEPT ![s] = n]
      /\ c.at = "gather" /\ c.mode = inv[i].mode /\ c.tries = inv[i].tries
      /\ c.answers = inv[i].answers /\ c.reminders = inv[i].reminders
      /\ c.answer = inv[i].answer /\ c.warnings = inv[i].warnings
  BY <1>1 DEF Call
<1>8. c \in Call
  <2>1. /\ [inv[i].rows EXCEPT ![s] = n] \in [Section -> Nat]
        /\ [inv[i].found EXCEPT ![s] = n] \in [Section -> Nat]
    BY <1>2, <1>5
  <2> QED
    BY <1>1, <1>3, <2>1 DEF Call
<1>9. OnCourse(c)
  BY <1>1, <1>7 DEF OnCourse, Untouched
<1> HIDE DEF c
<1> QED
  BY <1>1, <1>6, <1>7, <1>8, <1>9, GoesOn DEF Gather

LEMMA ComposeStep ==
  ASSUME TowerInv, NEW i \in Investigation, Compose(i)
  PROVE  TowerInv'
<1> DEFINE found == inv[i].found
           mode == inv[i].mode
           left == IF Overflow(found, mode) > 0 THEN Trimmed(found, mode) ELSE found
           c == [inv[i] EXCEPT !.at = "ask", !.rows = left]
<1>1. inv[i] \in Call /\ Untouched(inv[i]) /\ inv[i].at = "gather"
  BY DEF TowerInv, TowerTypeOK, Compose, OnCourse
<1>2. found \in [Section -> Nat] /\ mode \in Mode /\ inv[i].rows = found
  BY <1>1 DEF Call, Untouched
<1>3. inv' = [inv EXCEPT ![i] = c]
  BY <1>2 DEF Compose, TowerInv, TowerTypeOK
<1>4. /\ left \in [Section -> Nat]
      /\ \A s \in Section : left[s] <= found[s] /\ (found[s] > 0 => left[s] > 0)
      /\ left["patterns"] = found["patterns"]
      /\ (\E k \in 1..5 : WasCut(left, found, k)) => Overflow(found, mode) > 0
      /\ \A k \in 1..5 : WasCut(left, found, k) =>
           \A j \in 1..(k - 1) : MayCut(found, j) => WasCut(left, found, j)
  <2>1. CASE Overflow(found, mode) > 0
    <3>1. left = Trimmed(found, mode)
      BY <2>1
    <3> HIDE DEF left, found, mode
    <3> QED
      BY <1>2, <2>1, <3>1, TrimmedIs
  <2>2. CASE ~(Overflow(found, mode) > 0)
    <3>1. left = found
      BY <2>2
    <3> HIDE DEF left, found, mode
    <3>2. \A k \in 1..5 : ~WasCut(found, found, k)
      BY <1>2, SectionsAre DEF WasCut
    <3> QED
      BY <1>2, <3>1, <3>2
  <2> QED
    BY <2>1, <2>2
<1>5. c \in Call /\ c.at = "ask" /\ c.mode = mode /\ c.found = found /\ c.rows = left
      /\ c.tries = 0 /\ c.answers = 0 /\ c.reminders = 0 /\ c.answer = "none" /\ c.warnings = {}
  <2> HIDE DEF left
  <2> QED
    BY <1>1, <1>4 DEF Call, Untouched
<1> HIDE DEF c, left, found
<1>6. Trimming(c)
  BY <1>4, <1>5 DEF Trimming
<1>7. Counted(c)
  <2>1. Cardinality({}) = 0
    BY FS_EmptySet
  <2> QED
    BY <1>2, <1>5, <2>1, CallsAre DEF Counted
<1>8. OnCourse(c)
  BY <1>5, <1>6, <1>7 DEF OnCourse
<1> QED
  BY <1>1, <1>3, <1>5, <1>8, GoesOn DEF Compose

LEMMA AskStep ==
  ASSUME TowerInv, NEW i \in Investigation, NEW answer \in Answer, Ask(i, answer)
  PROVE  TowerInv'
<1> DEFINE old == inv[i]
           c == [old EXCEPT !.tries = @ + 1,
                   !.answers = IF answer = "raises" THEN @ ELSE @ + 1,
                   !.answer = IF answer = "raises" THEN @ ELSE answer,
                   !.reminders = IF answer = "prose" THEN @ + 1 ELSE @,
                   !.warnings = IF answer = "raises" THEN @ \union {"call_failed"} ELSE @]
<1>1. old \in Call /\ Counted(old) /\ Trimming(old) /\ old.at = "ask"
  BY DEF TowerInv, TowerTypeOK, Ask, OnCourse
<1>2. /\ old.mode \in Mode /\ old.tries \in Nat /\ old.answers \in Nat /\ old.reminders \in Nat
      /\ old.warnings \subseteq {"call_failed"} /\ "call_failed" \notin old.warnings
      /\ old.answer \in {"none", "prose"}
  BY <1>1 DEF Ask, Call
<1> DEFINE ceiling == Ceiling(old.mode)
           calls == ModeSpec(old.mode).calls
           configured == Configured[old.mode]
<1>2a. old.tries < ceiling
  BY DEF Ask
<1>3. inv' = [inv EXCEPT ![i] = c]
  BY DEF Ask, TowerInv, TowerTypeOK
<1> HIDE DEF ceiling, calls, configured, old
<1>4. /\ c.at = "ask" /\ c.mode = old.mode /\ c.rows = old.rows /\ c.found = old.found
      /\ c.tries = old.tries + 1
      /\ c.answers = (IF answer = "raises" THEN old.answers ELSE old.answers + 1)
      /\ c.answer = (IF answer = "raises" THEN old.answer ELSE answer)
      /\ c.reminders = (IF answer = "prose" THEN old.reminders + 1 ELSE old.reminders)
      /\ c.warnings = (IF answer = "raises" THEN old.warnings \union {"call_failed"} ELSE old.warnings)
  BY <1>1 DEF Call
<1>5. c \in Call
  <2>1. /\ old.tries + 1 \in Nat
        /\ (IF answer = "raises" THEN old.answers ELSE old.answers + 1) \in Nat
        /\ (IF answer = "prose" THEN old.reminders + 1 ELSE old.reminders) \in Nat
    BY <1>2
  <2>2. /\ (IF answer = "raises" THEN old.answer ELSE answer) \in {"none"} \union Answer
        /\ (IF answer = "raises" THEN old.warnings \union {"call_failed"} ELSE old.warnings)
             \in SUBSET {"call_failed"}
    BY <1>1, <1>2 DEF Call
  <2> QED
    BY <1>1, <2>1, <2>2 DEF Call
<1> HIDE DEF c
<1>6. old.warnings = {} /\ Cardinality({}) = 0 /\ Cardinality({"call_failed"}) = 1
      /\ {} \union {"call_failed"} = {"call_failed"}
  BY <1>2, FS_EmptySet, FS_Singleton
<1>7. ceiling \in Nat /\ calls \in Nat /\ configured \in Nat
      /\ ceiling <= calls /\ ceiling <= configured
  BY <1>2, CallsAre DEF ceiling, calls, configured
<1>8. old.answers = old.reminders /\ old.tries = old.answers
  BY <1>1, <1>2, <1>6 DEF Counted
<1>9. c.tries <= ModeSpec(c.mode).calls /\ c.tries <= Configured[c.mode]
  <2>1. c.tries <= calls /\ c.tries <= configured
    BY <1>2, <1>2a, <1>4, <1>7
  <2> QED
    BY <1>4, <2>1 DEF calls, configured
<1>10. Counted(c)
  <2>1. CASE answer = "raises"
    BY <1>2, <1>4, <1>6, <1>8, <1>9, <2>1 DEF Counted
  <2>2. CASE answer = "prose"
    BY <1>2, <1>4, <1>6, <1>8, <1>9, <2>2 DEF Counted
  <2>3. CASE answer \notin {"raises", "prose"}
    <3>1. answer \notin {"none", "prose"}
      BY <2>3 DEF Answer
    <3> QED
      BY <1>2, <1>4, <1>6, <1>8, <1>9, <2>3, <3>1 DEF Counted
  <2> QED
    BY <2>1, <2>2, <2>3
<1>11. Trimming(c)
  BY <1>1, <1>4 DEF Trimming
<1>12. OnCourse(c)
  BY <1>4, <1>10, <1>11 DEF OnCourse
<1>13. inv[i].at # "done" /\ c.at # "done"
  BY <1>1, <1>4 DEF old
<1> QED
  BY <1>3, <1>5, <1>12, <1>13, GoesOn DEF Ask, old

LEMMA InvestigateStep ==
  ASSUME TowerInv, NEW i \in Investigation, NEW mode \in Mode, Investigate(i, mode)
  PROVE  TowerInv'
<1>1. inv[i] \in Call /\ Untouched(inv[i]) /\ inv[i].at = "idle"
  BY DEF TowerInv, TowerTypeOK, Investigate, OnCourse
<1>2. CASE switch = "on"
  <2> DEFINE c == [inv[i] EXCEPT !.at = "done"]
             e == Record(i, "halted")
  <2>1. inv' = [inv EXCEPT ![i] = c] /\ register' = Append(register, e)
    BY <1>2 DEF Investigate, TowerInv, TowerTypeOK
  <2>2. c \in Call /\ c.at = "done"
    BY <1>1 DEF Call
  <2>3. e \in Entry /\ e.id = i /\ Honest(e) /\ e.action = "none"
    BY DEF Record, Entry, Honest
  <2>4. judged[i] \in Engine \union {"unasked"} /\ judged' = [judged EXCEPT ![i] = judged[i]]
    BY DEF Investigate, TowerInv, TowerTypeOK
  <2> HIDE DEF c, e
  <2> QED
    BY <1>1, <2>1, <2>2, <2>3, <2>4, EndsOnRecord DEF Investigate
<1>3. CASE switch # "on"
  <2> DEFINE c == [inv[i] EXCEPT !.at = "gather", !.mode = mode, !.left = ModeSpec(mode).sections]
  <2>1. inv' = [inv EXCEPT ![i] = c] /\ UNCHANGED register
    BY <1>3 DEF Investigate, TowerInv, TowerTypeOK
  <2>2. ModeSpec(mode).sections \in Seq(Section)
    BY CallsAre
  <2>3. c \in Call /\ c.at = "gather" /\ Untouched(c)
    BY <1>1, <2>2 DEF Call, Untouched
  <2> HIDE DEF c
  <2>4. OnCourse(c)
    BY <2>3 DEF OnCourse
  <2> QED
    BY <1>1, <2>1, <2>3, <2>4, GoesOn DEF Investigate
<1> QED
  BY <1>2, <1>3

LEMMA ConcludeStep ==
  ASSUME TowerInv, NEW i \in Investigation, NEW engine \in Engine,
         NEW trace \in TraceId \union {Untraced}, Conclude(i, engine, trace)
  PROVE  TowerInv'
<1> DEFINE old == inv[i]
           action == Proposed(old.answer, engine)
           warnings == old.warnings \union (IF Parsed(i) THEN {} ELSE {"unparsed"})
                         \union (IF action = "held" THEN {"held"} ELSE {})
           e == [Record(i, old.mode) EXCEPT !.trace = trace, !.answers = old.answers,
                   !.answer = old.answer, !.action = action, !.warnings = warnings]
           c == [Idle EXCEPT !.at = "done"]
           v == IF old.answer = "action" /\ wired THEN engine ELSE judged[i]
<1>1. old \in Call /\ Counted(old) /\ old.at = "ask"
  BY DEF TowerInv, TowerTypeOK, Conclude, Asked, OnCourse
<1>2. /\ old.mode \in Mode /\ old.tries \in Nat /\ old.answers \in Nat /\ old.reminders \in Nat
      /\ old.warnings \subseteq {"call_failed"} /\ old.answer \in {"none"} \union Answer
  BY <1>1 DEF Call
<1>3. inv' = [inv EXCEPT ![i] = c] /\ register' = Append(register, e)
      /\ judged' = [judged EXCEPT ![i] = v] /\ UNCHANGED <<switch, wired>>
  BY DEF Conclude, TowerInv, TowerTypeOK
<1>4. v \in Engine \union {"unasked"}
  BY DEF TowerInv, TowerTypeOK
<1>5. c \in Call /\ c.at = "done"
  BY IdleIs DEF Call
<1>6. action \in {"none", "held", "approved"}
      /\ (action = "approved" => wired /\ v = "approves")
  BY DEF Proposed
<1>7. warnings \in SUBSET {"call_failed", "unparsed", "held"}
      /\ ("unparsed" \in warnings <=> ~Parsed(i))
      /\ ("held" \in warnings <=> action = "held")
      /\ ("call_failed" \in warnings <=> "call_failed" \in old.warnings)
  BY <1>2
<1> HIDE DEF action, warnings, c, v, old
<1>8. /\ e.id = i /\ e.mode = old.mode /\ e.trace = trace /\ e.answers = old.answers
      /\ e.action = action /\ e.answer = old.answer /\ e.warnings = warnings
  BY DEF Record
<1>9. e \in Entry
  BY <1>2, <1>6, <1>7 DEF Record, Entry
<1> HIDE DEF e
<1>10. Cardinality(old.warnings) \in Nat
  <2>1. old.warnings = {} \/ old.warnings = {"call_failed"}
    BY <1>2
  <2>2. Cardinality({}) = 0 /\ Cardinality({"call_failed"}) = 1
    BY FS_EmptySet, FS_Singleton
  <2> QED
    BY <2>1, <2>2
<1>11. old.answers <= ModeSpec(old.mode).calls
  BY <1>1, <1>2, <1>10, CallsAre DEF Counted
<1>12. Parsed(i) <=> old.answer \notin {"none", "prose"}
  BY DEF Parsed, old
<1>13. "call_failed" \in warnings => "unparsed" \in warnings
  BY <1>1, <1>7, <1>12 DEF Counted
<1>14. old.mode # "halted"
  BY <1>2 DEF Mode
<1>15. Honest(e)
  BY <1>7, <1>8, <1>11, <1>12, <1>13, <1>14 DEF Honest
<1> QED
  BY <1>1, <1>3, <1>4, <1>5, <1>6, <1>8, <1>9, <1>15, EndsOnRecord DEF old

LEMMA TowerStep == TowerInv /\ [TowerNext]_towerVars => TowerInv'
<1> SUFFICES ASSUME TowerInv, [TowerNext]_towerVars PROVE TowerInv'
  OBVIOUS
<1>1. CASE UNCHANGED <<inv, register, wired, judged>> /\ switch' \in {"on", "off", "unreadable"}
  BY <1>1 DEF TowerInv, TowerTypeOK, RegisterInv, ApprovalIsTheEngines
<1>2. ASSUME NEW s \in {"on", "off", "unreadable"}, Flip(s) PROVE TowerInv'
  BY <1>1, <1>2 DEF Flip
<1>3. ASSUME NEW i \in Investigation, Raise(i) PROVE TowerInv'
  <2> DEFINE c == [Idle EXCEPT !.at = "lost"]
  <2>1. c \in Call /\ c.at = "lost"
    BY IdleIs DEF Call
  <2>2. inv' = [inv EXCEPT ![i] = c] /\ inv[i].at = "ask"
    BY <1>3 DEF Raise, Asked
  <2> HIDE DEF c
  <2>3. OnCourse(c)
    BY <2>1 DEF OnCourse
  <2> QED
    BY <1>3, <2>1, <2>2, <2>3, GoesOn DEF Raise
<1>4. CASE UNCHANGED towerVars
  BY <1>1, <1>4 DEF towerVars, TowerInv, TowerTypeOK
<1> QED
  BY <1>2, <1>3, <1>4, InvestigateStep, GatherStep, ComposeStep, AskStep, ConcludeStep
     DEF TowerNext, Proceed

(* One record of each id, found under it.                                  *)
LEMMA RecordsFound == TowerInv => RecordsWhole
<1> SUFFICES ASSUME TowerInv PROVE RecordsWhole
  OBVIOUS
<1>1. \A k \in 1..Len(register) : register[k] \in Entry
  BY ElementOfSeq DEF TowerInv, TowerTypeOK
<1>2. Len(register) \in Nat
  BY LenProperties DEF TowerInv, TowerTypeOK
<1>3. ASSUME NEW k \in 1..Len(register) PROVE Lookup(register[k].id) = k
  <2>1. {j \in 1..Len(register) : register[j].id = register[k].id} = {k}
    BY DEF TowerInv, RegisterInv
  <2>2. Min({k}) = k
    BY DEF Min
  <2> QED
    BY <2>1, <2>2 DEF Lookup
<1>4. ASSUME NEW i \in Investigation PROVE inv[i].at = "done" <=> Lookup(i) # 0
  <2>1. CASE inv[i].at = "done"
    <3>1. PICK k \in 1..Len(register) : register[k].id = i
      BY <2>1 DEF TowerInv, RegisterInv
    <3> QED
      BY <1>2, <1>3, <2>1, <3>1
  <2>2. CASE inv[i].at # "done"
    <3>1. {k \in 1..Len(register) : register[k].id = i} = {}
      BY <2>2 DEF TowerInv, RegisterInv
    <3>2. {k \in 1..Len(register) : register[k].trace # Untraced /\ register[k].trace = i} = {}
      BY <1>1, TowerAssumption DEF Entry, TowerAssumption
    <3> QED
      BY <2>2, <3>1, <3>2 DEF Lookup
  <2> QED
    BY <2>1, <2>2
<1>5. \A k \in 1..Len(register) : register[k].id \in Investigation
  BY <1>1 DEF Entry
<1> QED
  BY <1>3, <1>4, <1>5 DEF RecordsWhole, TowerInv, RegisterInv, Honest

LEMMA TowerInvSound == TowerInv => InvestigationSound
<1> SUFFICES ASSUME TowerInv PROVE InvestigationSound
  OBVIOUS
<1>1. AskedWithinReason
  <2>1. ASSUME NEW i \in Investigation, inv[i].at = "ask"
        PROVE  /\ inv[i].tries <= ModeSpec(inv[i].mode).calls
               /\ inv[i].tries <= Configured[inv[i].mode]
               /\ inv[i].answers = inv[i].reminders + (IF Parsed(i) THEN 1 ELSE 0)
               /\ inv[i].tries = inv[i].answers + Cardinality(inv[i].warnings)
    BY <2>1 DEF TowerInv, OnCourse, Counted, Parsed
  <2>2. \A k \in 1..Len(register) : register[k].mode # "halted" =>
          register[k].answers <= ModeSpec(register[k].mode).calls
    BY DEF TowerInv, RegisterInv, Honest
  <2> QED
    BY <2>1, <2>2 DEF AskedWithinReason
<1>2. ShortfallsWarned
  BY DEF TowerInv, RegisterInv, Honest, ShortfallsWarned
<1>3. TrimKeepsSome
  <2>1. \A i \in Investigation : inv[i].at = "ask" => Trimming(inv[i])
    BY DEF TowerInv, OnCourse
  <2> QED
    BY <2>1, SectionsAre DEF TrimKeepsSome, Trimming, WasCut, MayCut
<1> QED
  BY <1>1, <1>2, <1>3, RecordsFound DEF InvestigationSound, TowerInv, RegisterInv

(* control_tower/: an investigation that does not raise leaves one record  *)
(* that can be found, tells its shortfalls and proposes nothing the        *)
(* guardrails did not approve.                                             *)
THEOREM InvestigationSoundThm == TowerSpec => []InvestigationSound
<1>1. TowerInit => TowerInv
  BY TowerInitInv
<1>2. TowerInv /\ [TowerNext]_towerVars => TowerInv'
  BY TowerStep
<1>3. TowerInv => InvestigationSound
  BY TowerInvSound
<1> QED
  BY <1>1, <1>2, <1>3, PTL DEF TowerSpec

-----------------------------------------------------------------------------
(* The search: the safety part of SearchSound.                             *)
SearchRight == ConnectorTypeOK /\ RowsOnce /\ AskedInOrder

(* What a collection of rows looks like, before and after it is cut.       *)
Place == (1..Len(Page)) \X Nat
RowsFrom(rows) ==
  /\ \A j \in 1..Len(rows) : rows[j] \in Served
  /\ \A j, k \in 1..Len(rows) : j < k => Precedes(rows[j], rows[k])
Closed(rows) ==
  \A j \in 1..Len(rows), r \in Served :
    Precedes(r, rows[j]) => \E i \in 1..Len(rows) : rows[i] = r
CompleteTo(rows, p) ==
  /\ \A j \in 1..Len(rows) : rows[j][1] <= p
  /\ \A r \in Served : r[1] <= p => \E j \in 1..Len(rows) : rows[j] = r

(* While the search runs it has exactly the rows of the pages before the   *)
(* one it asks for, and fewer than wanted; the attempts of the request are *)
(* the times its page was asked for.                                       *)
Searching ==
  outcome = "running" =>
    /\ Len(got) < wanted
    /\ CompleteTo(got, page - 1)
    /\ sent[page] = attempt
ConnectorInv == SearchRight /\ attempt <= RetryAttempts /\ Searching

LEMMA PageFacts ==
  /\ Len(Page) \in Nat \ {0}
  /\ \A p \in 1..Len(Page) : Page[p] \in Seq(BOOLEAN) /\ Readable(p) \subseteq 1..Len(Page[p])
<1> QED
  BY ConnectorAssumption DEF ConnectorAssumption, Readable

LEMMA ServedAre ==
  ASSUME NEW r
  PROVE  r \in Served <=> r \in Place /\ r[2] \in Readable(r[1])
<1> DEFINE All == (1..Len(Page)) \X UNION {Readable(p) : p \in 1..Len(Page)}
<1>1. \A p \in 1..Len(Page) : Readable(p) \subseteq Nat
  BY PageFacts
<1>2. Served = {x \in All : x[2] \in Readable(x[1])}
  BY DEF Served
<1> HIDE DEF Served
<1> QED
  BY <1>1, <1>2 DEF Place

LEMMA ListingIs ==
  ASSUME NEW p \in 1..Len(Page), NEW at \in Listings(p)
  PROVE  /\ Rows(p, at) \in Seq(Place)
         /\ \A j \in 1..Len(Rows(p, at)) :
              Rows(p, at)[j] \in Place /\ Rows(p, at)[j][1] = p /\ Rows(p, at)[j][2] \in Readable(p)
         /\ \A j, k \in 1..Len(Rows(p, at)) : j < k => Rows(p, at)[j][2] < Rows(p, at)[k][2]
         /\ \A k \in Readable(p) : \E j \in 1..Len(Rows(p, at)) : Rows(p, at)[j] = <<p, k>>
<1> DEFINE n == Cardinality(Readable(p))
<1>1. IsFiniteSet(Readable(p))
  <2>1. Len(Page[p]) \in Nat /\ 1 \in Int
    BY PageFacts
  <2>2. IsFiniteSet(1..Len(Page[p]))
    BY <2>1, FS_Interval
  <2> QED
    BY <2>2, PageFacts, FS_Subset
<1>2. n \in Nat
  BY <1>1, FS_CardinalityType
<1>3. Readable(p) \subseteq Nat
  BY PageFacts
<1>4. /\ at \in [1..n -> Readable(p)]
      /\ \A i, j \in 1..n : i < j => at[i] < at[j]
      /\ \A k \in Readable(p) : \E i \in 1..n : at[i] = k
  BY DEF Listings
<1> HIDE DEF n
<1>5. Rows(p, at) = [k \in 1..n |-> <<p, at[k]>>]
  BY <1>4 DEF Rows
<1>6. Rows(p, at) \in Seq(Place) /\ Len(Rows(p, at)) = n
  BY <1>2, <1>3, <1>4, <1>5 DEF Place
<1> QED
  BY <1>2, <1>3, <1>4, <1>5, <1>6 DEF Place

(* The rows of a page after the complete rows of the pages before it.      *)
LEMMA JoinedIs ==
  ASSUME NEW p \in 1..Len(Page), NEW rows \in Seq(Place), NEW at \in Listings(p),
         RowsFrom(rows), CompleteTo(rows, p - 1)
  PROVE  LET all == rows \o Rows(p, at)
         IN  all \in Seq(Place) /\ RowsFrom(all) /\ Closed(all) /\ CompleteTo(all, p)
<1> DEFINE new == Rows(p, at)
           all == rows \o new
<1>1. new \in Seq(Place)
  BY ListingIs
<1>2. /\ all \in Seq(Place) /\ Len(all) = Len(rows) + Len(new)
      /\ Len(rows) \in Nat /\ Len(new) \in Nat
      /\ \A j \in 1..Len(rows) : all[j] = rows[j]
      /\ \A j \in (Len(rows) + 1)..Len(all) : all[j] = new[j - Len(rows)]
  BY <1>1, ConcatProperties
<1>3. /\ \A j \in 1..Len(new) : new[j] \in Place /\ new[j][1] = p /\ new[j][2] \in Readable(p)
      /\ \A j, k \in 1..Len(new) : j < k => new[j][2] < new[k][2]
      /\ \A k \in Readable(p) : \E j \in 1..Len(new) : new[j] = <<p, k>>
  BY ListingIs
<1> HIDE DEF new, all
<1>6. \A j \in 1..Len(all) : j \in 1..Len(rows) \/ j - Len(rows) \in 1..Len(new)
  BY <1>2
<1>7. \A j \in 1..Len(all) :
        \/ j \in 1..Len(rows) /\ all[j] = rows[j] /\ all[j][1] <= p - 1
        \/ /\ j \in (Len(rows) + 1)..Len(all) /\ j - Len(rows) \in 1..Len(new)
           /\ all[j] = new[j - Len(rows)] /\ all[j][1] = p
  BY <1>2, <1>3, <1>6 DEF CompleteTo
<1>8. \A j \in 1..Len(all) : all[j] \in Served
  <2> SUFFICES ASSUME NEW j \in 1..Len(all) PROVE all[j] \in Served
    OBVIOUS
  <2>1. CASE j \in 1..Len(rows)
    BY <2>1, <1>2 DEF RowsFrom
  <2>2. CASE j \notin 1..Len(rows)
    <3>1. /\ all[j] = new[j - Len(rows)] /\ j - Len(rows) \in 1..Len(new)
      BY <2>2, <1>7
    <3>2. all[j] \in Place /\ all[j][1] = p /\ all[j][2] \in Readable(p)
      BY <3>1, <1>3
    <3> QED
      BY <3>2, ServedAre
  <2> QED
    BY <2>1, <2>2
<1>9. \A j, k \in 1..Len(all) : j < k => Precedes(all[j], all[k])
  <2> SUFFICES ASSUME NEW j \in 1..Len(all), NEW k \in 1..Len(all), j < k
               PROVE  Precedes(all[j], all[k])
    OBVIOUS
  <2>1. CASE k \in 1..Len(rows)
    <3>1. j \in 1..Len(rows)
      BY <2>1, <1>2
    <3> QED
      BY <3>1, <2>1, <1>2 DEF RowsFrom
  <2>2. CASE k \notin 1..Len(rows) /\ j \in 1..Len(rows)
    <3>1. all[k][1] = p
      BY <2>2, <1>7
    <3>2. all[j][1] <= p - 1 /\ all[j] = rows[j] /\ rows[j] \in Place
      BY <2>2, <1>2 DEF CompleteTo
    <3>3. all[j][1] \in Int /\ p \in Int
      BY <3>2 DEF Place
    <3> QED
      BY <3>1, <3>2, <3>3 DEF Precedes
  <2>3. CASE k \notin 1..Len(rows) /\ j \notin 1..Len(rows)
    <3>1. all[k][1] = p /\ all[k] = new[k - Len(rows)] /\ k - Len(rows) \in 1..Len(new)
      BY <2>3, <1>7
    <3>2. all[j][1] = p /\ all[j] = new[j - Len(rows)] /\ j - Len(rows) \in 1..Len(new)
      BY <2>3, <1>7
    <3>3. j - Len(rows) < k - Len(rows)
      BY <1>2
    <3> QED
      BY <3>1, <3>2, <3>3, <1>3 DEF Precedes
  <2> QED
    BY <2>1, <2>2, <2>3
<1>10. CompleteTo(all, p)
  <2>1. \A j \in 1..Len(all) : all[j][1] <= p
    <3> SUFFICES ASSUME NEW j \in 1..Len(all) PROVE all[j][1] <= p
      OBVIOUS
    <3>1. all[j] \in Place
      BY <1>2
    <3>2. all[j][1] \in Int /\ p \in Int
      BY <3>1 DEF Place
    <3> QED
      BY <3>2, <1>7
  <2>2. ASSUME NEW r \in Served, r[1] <= p
        PROVE  \E j \in 1..Len(all) : all[j] = r
    <3>1. r \in Place /\ r[2] \in Readable(r[1])
      BY <2>2, ServedAre
    <3>2. r[1] \in Int /\ r = <<r[1], r[2]>>
      BY <3>1 DEF Place
    <3>3. CASE r[1] <= p - 1
      <4>1. PICK j \in 1..Len(rows) : rows[j] = r
        BY <3>3, <2>2 DEF CompleteTo
      <4> QED
        BY <4>1, <1>2
    <3>4. CASE r[1] = p
      <4>1. PICK j \in 1..Len(new) : new[j] = <<p, r[2]>>
        BY <3>4, <3>1, <1>3
      <4>2. /\ j + Len(rows) \in (Len(rows) + 1)..Len(all) /\ j + Len(rows) \in 1..Len(all)
            /\ (j + Len(rows)) - Len(rows) = j
        BY <1>2
      <4>3. all[j + Len(rows)] = new[j]
        BY <4>2, <1>2
      <4> QED
        BY <4>1, <4>2, <4>3, <3>2, <3>4
    <3> QED
      BY <3>2, <3>3, <3>4, <2>2
  <2> QED
    BY <2>1, <2>2 DEF CompleteTo
<1>11. Closed(all)
  <2> SUFFICES ASSUME NEW j \in 1..Len(all), NEW r \in Served, Precedes(r, all[j])
               PROVE  \E i \in 1..Len(all) : all[i] = r
    BY DEF Closed
  <2>1. r \in Place /\ all[j] \in Place
    BY <1>2, ServedAre
  <2>2. r[1] \in Int /\ all[j][1] \in Int /\ p \in Int
    BY <2>1 DEF Place
  <2>3. all[j][1] <= p
    BY <1>10 DEF CompleteTo
  <2>4. r[1] <= p
    BY <2>2, <2>3 DEF Precedes
  <2> QED
    BY <2>4, <1>10 DEF CompleteTo
<1>12. RowsFrom(all)
  BY <1>8, <1>9 DEF RowsFrom
<1> QED
  BY <1>2, <1>10, <1>11, <1>12 DEF new, all

(* What is cut off a collection does not open it.                          *)
LEMMA FirstOfIs ==
  ASSUME NEW all \in Seq(Place), RowsFrom(all), Closed(all), wanted \in Nat \ {0}
  PROVE  /\ FirstOf(all) \in Seq(Place) /\ Len(FirstOf(all)) <= wanted
         /\ RowsFrom(FirstOf(all)) /\ Closed(FirstOf(all))
         /\ Len(FirstOf(all)) < wanted => FirstOf(all) = all
         /\ Len(all) <= wanted => FirstOf(all) = all
<1> DEFINE n == IF Len(all) < wanted THEN Len(all) ELSE wanted
           cut == FirstOf(all)
<1>1. n \in 0..Len(all) /\ n <= wanted /\ n \in Nat
  OBVIOUS
<1>2. cut = SubSeq(all, 1, n)
  BY DEF FirstOf
<1>3. cut \in Seq(Place) /\ Len(cut) = n /\ \A j \in 1..n : cut[j] = all[j]
  BY <1>1, <1>2, SubSeqProperties
<1>4. n = Len(all) => cut = all
  BY <1>1, <1>3, SeqEqual
<1>5. \A j \in 1..n : j \in 1..Len(all)
  BY <1>1
<1>6. Len(cut) <= wanted /\ (Len(cut) < wanted => cut = all) /\ (Len(all) <= wanted => cut = all)
  BY <1>1, <1>3, <1>4
<1> HIDE DEF n, cut
<1>7. RowsFrom(cut)
  BY <1>3, <1>5 DEF RowsFrom
<1>8. Closed(cut)
  <2> SUFFICES ASSUME NEW j \in 1..Len(cut), NEW r \in Served, Precedes(r, cut[j])
               PROVE  \E i \in 1..Len(cut) : cut[i] = r
    BY DEF Closed
  <2>1. j \in 1..Len(all) /\ cut[j] = all[j]
    BY <1>3, <1>5
  <2>2. PICK i \in 1..Len(all) : all[i] = r
    BY <2>1 DEF Closed
  <2>3. all[i] \in Place /\ all[j] \in Place
    BY <2>1
  <2>4. CASE i < j
    BY <2>4, <2>2, <1>3, <1>1
  <2>5. CASE j <= i
    <3>1. all[i] = all[j] \/ Precedes(all[j], all[i])
      BY <2>5, <2>1 DEF RowsFrom
    <3>2. /\ r[1] \in Int /\ r[2] \in Int /\ all[j][1] \in Int /\ all[j][2] \in Int
          /\ all[i] = r /\ cut[j] = all[j]
      <4>1. \A p \in Place : p[1] \in Int /\ p[2] \in Int
        BY DEF Place
      <4> QED
        BY <2>1, <2>2, <2>3, <4>1
    <3>3. FALSE
      BY <3>1, <3>2 DEF Precedes
    <3> QED
      BY <3>3
  <2> QED
    BY <2>4, <2>5
<1> QED
  BY <1>3, <1>6, <1>7, <1>8 DEF cut

LEMMA SearchInit == ConnectorInit => ConnectorInv
<1> USE ConnectorAssumption DEF ConnectorAssumption
<1> SUFFICES ASSUME ConnectorInit PROVE ConnectorInv
  OBVIOUS
<1> USE DEF ConnectorInit
<1>1. ConnectorTypeOK
  BY DEF ConnectorTypeOK
<1>2. RowsOnce
  BY DEF RowsOnce
<1>3. AskedInOrder
  BY DEF AskedInOrder, RetryAttempts
<1>4. CompleteTo(got, page - 1)
  <2>1. ASSUME NEW r \in Served PROVE ~(r[1] <= 0)
    BY <2>1, ServedAre DEF Place
  <2> QED
    BY <2>1 DEF CompleteTo
<1> QED
  BY <1>1, <1>2, <1>3, <1>4 DEF ConnectorInv, SearchRight, Searching, RetryAttempts

(* A step that leaves the rows alone.                                      *)
LEMMA RequestStep ==
  ASSUME ConnectorInv,
         Request \/ (\E status \in {"transport", "status"} : Transient(status)) \/ Permanent
  PROVE  ConnectorInv'
<1> USE ConnectorAssumption DEF ConnectorAssumption, RetryAttempts
<1>1. /\ UNCHANGED <<got, wanted, page>> /\ outcome = "running"
      /\ outcome' \in {"running", "transport", "status", "error"}
  BY DEF Request, Transient, Permanent
<1>2. ConnectorTypeOK /\ RowsOnce /\ AskedInOrder /\ Searching /\ attempt <= 3
  BY DEF ConnectorInv, SearchRight
<1>3. ConnectorTypeOK'
  BY SMTT(20), <1>1, <1>2 DEF ConnectorTypeOK, Request, Transient, Permanent
<1>4. RowsOnce'
  BY <1>1, <1>2 DEF RowsOnce
<1>5. sent[page] = attempt
  BY <1>1, <1>2 DEF Searching
<1>6. AskedInOrder' /\ attempt' <= 3 /\ (outcome' = "running" => sent'[page] = attempt')
  <2>1. /\ page \in 1..Len(Page) /\ attempt \in 0..3 /\ sent \in [1..Len(Page) -> Nat]
        /\ \A p \in 1..Len(Page) : sent[p] <= 3 /\ (sent[p] > 0 => p <= page)
    BY <1>2 DEF ConnectorTypeOK, AskedInOrder
  <2>2. \/ /\ attempt < 3 /\ attempt' = attempt + 1 /\ outcome' = "running"
           /\ sent' = [sent EXCEPT ![page] = @ + 1]
        \/ attempt' = attempt /\ sent' = sent /\ (outcome' = "error" \/ attempt = 3)
    <3>1. CASE Request
      BY <3>1, <1>1 DEF Request
    <3>2. ASSUME NEW status \in {"transport", "status"}, Transient(status)
          PROVE  \/ /\ attempt < 3 /\ attempt' = attempt + 1 /\ outcome' = "running"
                    /\ sent' = [sent EXCEPT ![page] = @ + 1]
                 \/ attempt' = attempt /\ sent' = sent /\ attempt = 3
      BY <3>2, <1>1, <2>1 DEF Transient
    <3>3. CASE Permanent
      BY <3>3 DEF Permanent
    <3> QED
      BY <3>1, <3>2, <3>3
  <2>3. CASE /\ attempt < 3 /\ attempt' = attempt + 1 /\ outcome' = "running"
             /\ sent' = [sent EXCEPT ![page] = @ + 1]
    BY <1>1, <1>5, <2>1, <2>3 DEF AskedInOrder
  <2>4. CASE attempt' = attempt /\ sent' = sent /\ (outcome' = "error" \/ attempt = 3)
    BY <1>1, <1>5, <2>1, <2>4 DEF AskedInOrder
  <2> QED
    BY <2>2, <2>3, <2>4
<1>7. Searching'
  BY <1>1, <1>2, <1>6 DEF Searching, CompleteTo
<1> QED
  BY <1>3, <1>4, <1>6, <1>7 DEF ConnectorInv, SearchRight

LEMMA ArriveStep == ConnectorInv /\ Arrive => ConnectorInv'
<1> USE ConnectorAssumption DEF ConnectorAssumption, RetryAttempts
<1> SUFFICES ASSUME ConnectorInv, Arrive PROVE ConnectorInv'
  OBVIOUS
<1>1. ConnectorTypeOK /\ RowsOnce /\ AskedInOrder /\ Searching /\ outcome = "running"
  BY DEF ConnectorInv, SearchRight, Arrive
<1>2. /\ page \in 1..Len(Page) /\ wanted \in Nat \ {0} /\ got \in Seq(Place)
      /\ RowsFrom(got) /\ CompleteTo(got, page - 1) /\ Len(got) < wanted
  <2>1. wanted \in Nat \ {0} /\ page \in 1..Len(Page) /\ got \in Seq(Place)
    BY <1>1 DEF ConnectorTypeOK, Place
  <2>2. RowsFrom(got)
    BY <1>1 DEF RowsOnce, RowsFrom
  <2>3. CompleteTo(got, page - 1) /\ Len(got) < wanted
    BY <1>1 DEF Searching
  <2> QED
    BY <2>1, <2>2, <2>3
<1>3. PICK at \in Listings(page) : got' = FirstOf(got \o Rows(page, at))
  BY DEF Arrive
<1> DEFINE all == got \o Rows(page, at)
<1>4. all \in Seq(Place) /\ RowsFrom(all) /\ Closed(all) /\ CompleteTo(all, page)
  BY <1>2, JoinedIs
<1>5. got' = FirstOf(all)
  BY <1>3
<1> HIDE DEF all
<1>6. /\ got' \in Seq(Place) /\ Len(got') <= wanted /\ RowsFrom(got') /\ Closed(got')
      /\ Len(got') < wanted => got' = all
      /\ Len(all) <= wanted => got' = all
  BY <1>2, <1>4, <1>5, FirstOfIs
<1>7. /\ UNCHANGED <<wanted, sent>> /\ attempt' = 0
      /\ IF Page[page] = <<>> \/ page = Len(Page) \/ Len(got') >= wanted
         THEN outcome' = "returned" /\ page' = page
         ELSE page' = page + 1 /\ outcome' = "running"
  BY <1>1 DEF Arrive
<1>8. ConnectorTypeOK'
  BY <1>1, <1>2, <1>6, <1>7 DEF ConnectorTypeOK, Place
<1>9. outcome' = "returned" /\ Len(got') < wanted' =>
        \A r \in Served :
          (\E i \in 1..Len(got') : got'[i] = r) \/ (Page[page'] = <<>> /\ r[1] > page')
  <2> SUFFICES ASSUME outcome' = "returned", Len(got') < wanted, NEW r \in Served
               PROVE  (\E i \in 1..Len(got') : got'[i] = r) \/ (Page[page'] = <<>> /\ r[1] > page')
    BY <1>7
  <2>1. got' = all /\ page' = page /\ (Page[page] = <<>> \/ page = Len(Page))
    BY <1>2, <1>6, <1>7
  <2>2. r \in Place
    BY ServedAre
  <2>3. r[1] \in 1..Len(Page)
    BY <2>2 DEF Place
  <2>4. CASE r[1] <= page
    BY <2>1, <2>4, <1>4 DEF CompleteTo
  <2>5. CASE r[1] > page
    BY <1>2, <2>1, <2>3, <2>5
  <2> QED
    BY <1>2, <2>3, <2>4, <2>5
<1>10. RowsOnce'
  BY <1>6, <1>7, <1>9 DEF RowsOnce, RowsFrom, Closed
<1>11. AskedInOrder'
  BY <1>1, <1>2, <1>7 DEF AskedInOrder, ConnectorTypeOK
<1>12. Searching'
  <2> SUFFICES ASSUME outcome' = "running" PROVE Searching'
    BY DEF Searching
  <2>1. /\ page' = page + 1 /\ page' \in 1..Len(Page) /\ Page[page] # <<>> /\ Len(got') < wanted
        /\ got' = all /\ page' - 1 = page
    BY <1>2, <1>6, <1>7
  <2>2. sent[page + 1] = 0
    <3>1. sent[page + 1] \in Nat /\ (sent[page + 1] > 0 => page + 1 <= page)
      BY <1>1, <2>1 DEF AskedInOrder, ConnectorTypeOK
    <3> QED
      BY <3>1, <1>2
  <2> QED
    BY <2>1, <2>2, <1>4, <1>7 DEF Searching, CompleteTo
<1> QED
  BY <1>7, <1>8, <1>10, <1>11, <1>12 DEF ConnectorInv, SearchRight

(* log_fetcher.py with client.py: whatever the server loses, repeats or    *)
(* fails, a search has the first readable rows in their order, each once,  *)
(* up to the first page that comes empty, and asks for no page beyond      *)
(* those nor oftener than a retry allows.                                  *)
THEOREM SearchRightThm == ConnectorSpec => []SearchRight
<1>1. ConnectorInit => ConnectorInv
  BY SearchInit
<1>2. ConnectorInv /\ [ConnectorNext]_connectorVars => ConnectorInv'
  <2> SUFFICES ASSUME ConnectorInv, [ConnectorNext]_connectorVars PROVE ConnectorInv'
    OBVIOUS
  <2>1. CASE UNCHANGED connectorVars
    BY <2>1 DEF connectorVars, ConnectorInv, SearchRight, ConnectorTypeOK, RowsOnce,
                AskedInOrder, Searching, CompleteTo
  <2>2. CASE Arrive
    BY <2>2, ArriveStep
  <2>3. CASE ConnectorNext /\ ~Arrive
    BY <2>3, RequestStep DEF ConnectorNext
  <2> QED
    BY <2>1, <2>2, <2>3
<1>3. ConnectorInv => SearchRight
  BY DEF ConnectorInv
<1> QED
  BY <1>1, <1>2, <1>3, PTL DEF ConnectorSpec

-----------------------------------------------------------------------------
(* The documentation tools.                                                *)

(* Ages: the scores grow with the age and the signals, freshness falls.    *)
LEMMA StalenessGrows ==
  ASSUME NEW a \in Document, NEW b \in Document
  PROVE  /\ Staleness(a) \in Nat
         /\ (b.age # NoAge /\ a.age >= b.age /\ AsSuspicious(a, b)) => Staleness(b) <= Staleness(a)
         /\ a.age < 458 => Staleness(a) < 364635
<1> USE DEF Document, NoAge, Staleness, AgePart, Capped, AsSuspicious
<1>1. Staleness(a) \in Nat
  OBVIOUS
<1>2. (b.age # NoAge /\ a.age >= b.age /\ AsSuspicious(a, b)) => Staleness(b) <= Staleness(a)
  OBVIOUS
<1>3. a.age < 458 => Staleness(a) < 364635
  OBVIOUS
<1> QED
  BY <1>1, <1>2, <1>3

LEMMA ScoredIs ==
  ASSUME NEW a \in Document, NEW b \in Document, NEW d \in BOOLEAN,
         Staleness(b) <= Staleness(a)
  PROVE  Scored(a, d) \in Int /\ Scored(b, d) \in Int /\ Scored(b, d) <= Scored(a, d)
<1>1. Staleness(a) \in Int /\ Staleness(b) \in Int
  BY StalenessGrows
<1> DEFINE x == Staleness(a)
           y == Staleness(b)
<1> HIDE DEF x, y
<1>2. x \in Int /\ y \in Int /\ y <= x
  BY <1>1 DEF x, y
<1>3. /\ (2000 * y + Whole - 1) \div (2 * Whole) <= (2000 * x + Whole - 1) \div (2 * Whole)
      /\ (2000 * x + Whole - 1) \div (2 * Whole) \in Int
      /\ (2000 * y + Whole - 1) \div (2 * Whole) \in Int
  BY <1>2 DEF Whole
<1>4. /\ (2 * (1000 * y) + Whole) \div (2 * Whole) <= (2 * (1000 * x) + Whole) \div (2 * Whole)
      /\ (2 * (1000 * x) + Whole) \div (2 * Whole) \in Int
      /\ (2 * (1000 * y) + Whole) \div (2 * Whole) \in Int
  BY <1>2 DEF Whole
<1> QED
  BY <1>3, <1>4 DEF Scored, Rounded, x, y

LEMMA StaleIs ==
  ASSUME NEW a \in Document
  PROVE  IsStale(a) <=> Staleness(a) >= 364635
<1> DEFINE x == Staleness(a)
<1>1. x \in Int
  BY StalenessGrows
<1> HIDE DEF x
<1>2. 2 * ((2 * (1000 * x) + Whole) \div (2 * Whole)) >= 1000 <=> x >= 364635
  BY <1>1 DEF Whole
<1> QED
  BY <1>2 DEF IsStale, Scored, Rounded, x

LEMMA FreshnessFalls ==
  ASSUME NEW a \in Nat, NEW b \in Nat, a >= b
  PROVE  Freshness(a) <= Freshness(b)
<1> DEFINE F(n) == IF n = 0 THEN 1000 ELSE IF n <= 180 THEN 1000 - (2 * (500 * n) + 180) \div 360
                   ELSE IF n <= 365 THEN 500 - (2 * (400 * (n - 180)) + 185) \div 370
                   ELSE IF n <= 729 THEN 100 - (2 * (100 * (n - 365)) + 365) \div 730
                   ELSE 0
<1>1. ASSUME NEW n \in Nat PROVE Freshness(n) = F(n)
  <2>1. n # NoAge /\ (n = 0 \/ n \in 1..180 \/ n \in 181..365 \/ n \in 366..729 \/ n > 729)
    BY DEF NoAge
  <2>2. CASE n = 0
    BY <2>1, <2>2 DEF Freshness
  <2>3. CASE n \in 1..180
    BY <2>1, <2>3 DEF Freshness, Rounded
  <2>4. CASE n \in 181..365
    BY <2>1, <2>4 DEF Freshness, Rounded
  <2>5. CASE n \in 366..729
    BY <2>1, <2>5 DEF Freshness, Rounded
  <2>6. CASE n > 729
    BY <2>1, <2>6 DEF Freshness
  <2> QED
    BY <2>1, <2>2, <2>3, <2>4, <2>5, <2>6
<1>2. F(a) <= F(b)
  OBVIOUS
<1> QED
  BY <1>1, <1>2

(* Two days make a difference of a thousandth at least, ties included.     *)
LEMMA DaysCount ==
  ASSUME NEW a \in Document, NEW b \in Document, NEW d \in BOOLEAN, NEW e \in BOOLEAN,
         AsSuspicious(a, b), AsSuspicious(b, a), a.age \in Nat, b.age \in Nat,
         a.age + 2 <= b.age, a.age < 729
  PROVE  Scored(a, d) < Scored(b, e)
<1> DEFINE x == Staleness(a)
           y == Staleness(b)
<1>1. x \in Int /\ y \in Int /\ x + 1100 <= y
  BY DEF Document, NoAge, Staleness, AgePart, Capped, AsSuspicious
<1> HIDE DEF x, y
<1>2. (2 * (1000 * x) + Whole) \div (2 * Whole) < (2000 * y + Whole - 1) \div (2 * Whole)
  BY <1>1 DEF Whole
<1>3. (2000 * x + Whole - 1) \div (2 * Whole) <= (2 * (1000 * x) + Whole) \div (2 * Whole)
  BY <1>1 DEF Whole
<1>4. (2000 * y + Whole - 1) \div (2 * Whole) <= (2 * (1000 * y) + Whole) \div (2 * Whole)
  BY <1>1 DEF Whole
<1> QED
  BY <1>1, <1>2, <1>3, <1>4 DEF Scored, Rounded, x, y, Whole

LEMMA FreshnessIs ==
  ASSUME NEW n \in Nat
  PROVE  Freshness(n) \in Int /\ Freshness(n) >= 0 /\ (n >= 729 => Freshness(n) = 0)
<1>1. n # NoAge /\ (n = 0 \/ n \in 1..180 \/ n \in 181..365 \/ n \in 366..729 \/ n > 729)
  BY DEF NoAge
<1>2. CASE n = 0
  BY <1>1, <1>2 DEF Freshness
<1>3. CASE n \in 1..180
  BY <1>1, <1>3 DEF Freshness, Rounded
<1>4. CASE n \in 181..365
  BY <1>1, <1>4 DEF Freshness, Rounded
<1>5. CASE n \in 366..729
  BY <1>1, <1>5 DEF Freshness, Rounded
<1>6. CASE n > 729
  BY <1>1, <1>6 DEF Freshness
<1> QED
  BY <1>1, <1>2, <1>3, <1>4, <1>5, <1>6

(* Sequences and their indices.                                            *)
LEMMA Indices ==
  ASSUME NEW S, NEW s \in Seq(S)
  PROVE  /\ Len(s) \in Nat /\ DOMAIN s = 1..Len(s) /\ IsFiniteSet(DOMAIN s)
         /\ \A i \in 1..Len(s) : s[i] \in S
<1>1. Len(s) \in Nat /\ DOMAIN s = 1..Len(s) /\ \A i \in 1..Len(s) : s[i] \in S
  OBVIOUS
<1>2. \A n \in Nat : IsFiniteSet(1..n)
  BY FS_Interval
<1> QED
  BY <1>1, <1>2

LEMMA Sequenced ==
  ASSUME NEW S, NEW n \in Nat, NEW f \in [1..n -> S]
  PROVE  f \in Seq(S) /\ Len(f) = n
OBVIOUS

LEMMA ScoreIsInt == ASSUME NEW a \in Document, NEW down PROVE Scored(a, a \in down) \in Int
<1>1. Staleness(a) \in Int /\ Staleness(a) <= Staleness(a)
  BY StalenessGrows
<1> DEFINE d == a \in down
<1>2. d \in BOOLEAN
  OBVIOUS
<1> HIDE DEF d
<1>3. Scored(a, d) \in Int
  BY <1>1, <1>2, ScoredIs
<1> QED
  BY <1>3 DEF d

-----------------------------------------------------------------------------
(* The sweep: what it reports is what trips, in the order of the scores as *)
(* their ties fell.                                                        *)
NotAhead(w, down, j, k) ==
  Scored(w.docs[j], w.docs[j] \in down) >= Scored(w.docs[k], w.docs[k] \in down)
InOrder(w) ==
  \E down \in SUBSET ToSet(w.docs) :
    /\ \A i \in 1..Len(w.reported) :
         w.reported[i] \in DOMAIN w.docs /\ Trips(w.docs[w.reported[i]], w.threshold)
    /\ \A i, j \in 1..Len(w.reported) : i < j => NotAhead(w, down, w.reported[i], w.reported[j])
    /\ \A k \in DOMAIN w.docs :
         Trips(w.docs[k], w.threshold) => \E i \in 1..Len(w.reported) : w.reported[i] = k
SweepRun == [docs : Seq(Document), threshold : Int, ended : BOOLEAN, reported : Seq(Nat)]
SweepInv == sweep \in SweepRun /\ (sweep.reported = <<>> \/ InOrder(sweep))

LEMMA SweepStep == SweepInv /\ Sweep => SweepInv'
<1> SUFFICES ASSUME SweepInv, Sweep PROVE SweepInv'
  OBVIOUS
<1>1. sweep \in SweepRun /\ sweep.docs \in Seq(Document)
  BY DEF SweepInv, SweepRun
<1>0. PICK down \in SUBSET ToSet(sweep.docs) : \E ranked \in Rankings(down) :
        sweep' = [sweep EXCEPT !.ended = TRUE, !.reported = ranked]
  BY Zenon DEF Sweep
<1>2. PICK ranked \in Rankings(down) : sweep' = [sweep EXCEPT !.ended = TRUE, !.reported = ranked]
  BY <1>0
<1> DEFINE n == Cardinality(Tripping)
<1>3. DOMAIN sweep.docs = 1..Len(sweep.docs) /\ Len(sweep.docs) \in Nat /\ IsFiniteSet(DOMAIN sweep.docs)
  BY <1>1, Indices
<1>4. n \in Nat /\ Tripping \subseteq Nat
  <2>1. Tripping \subseteq DOMAIN sweep.docs
    BY DEF Tripping
  <2>2. IsFiniteSet(Tripping)
    BY <1>3, <2>1, FS_Subset
  <2>3. n \in Nat
    BY <2>2, FS_CardinalityType
  <2> QED
    BY <2>1, <2>3, <1>3
<1>5. /\ ranked \in [1..n -> Tripping]
      /\ \A i, j \in 1..n : i < j => Stalest(down, ranked[i], ranked[j])
      /\ \A k \in Tripping : \E i \in 1..n : ranked[i] = k
  BY <1>2 DEF Rankings
<1> HIDE DEF n
<1>6. ranked \in Seq(Nat) /\ Len(ranked) = n
  <2>1. ranked \in [1..n -> Nat]
    BY <1>4, <1>5
  <2> QED
    BY <1>4, <2>1, Sequenced
<1>7. /\ sweep'.docs = sweep.docs /\ sweep'.threshold = sweep.threshold /\ sweep'.reported = ranked
      /\ sweep' \in SweepRun
  BY <1>1, <1>2, <1>6 DEF SweepRun
<1>8. \A i \in 1..n : ranked[i] \in DOMAIN sweep.docs /\ Trips(sweep.docs[ranked[i]], sweep.threshold)
  BY <1>5 DEF Tripping
<1>9. \A i, j \in 1..n : i < j => NotAhead(sweep, down, ranked[i], ranked[j])
  <2> SUFFICES ASSUME NEW i \in 1..n, NEW j \in 1..n, i < j
               PROVE  NotAhead(sweep, down, ranked[i], ranked[j])
    OBVIOUS
  <2>1. sweep.docs[ranked[i]] \in Document /\ sweep.docs[ranked[j]] \in Document
    BY <1>1, <1>8
  <2> DEFINE a == sweep.docs[ranked[i]]
             b == sweep.docs[ranked[j]]
  <2>2. Scored(a, a \in down) \in Int /\ Scored(b, b \in down) \in Int
    BY <2>1, ScoreIsInt
  <2>3. \/ Scored(a, a \in down) > Scored(b, b \in down)
        \/ Scored(a, a \in down) = Scored(b, b \in down)
    BY <1>5, Zenon DEF Stalest
  <2> HIDE DEF a, b
  <2>4. Scored(a, a \in down) >= Scored(b, b \in down)
    BY <2>2, <2>3
  <2> QED
    BY <2>4 DEF NotAhead, a, b
<1>10. \A k \in DOMAIN sweep.docs :
         Trips(sweep.docs[k], sweep.threshold) => \E i \in 1..n : ranked[i] = k
  BY <1>5 DEF Tripping
<1>11. InOrder(sweep')
  BY ZenonT(30), <1>2, <1>6, <1>7, <1>8, <1>9, <1>10 DEF InOrder, NotAhead
<1> QED
  BY <1>7, <1>11 DEF SweepInv

LEMMA SweepSound == SweepInv => WorseAlsoReported /\ WordsAloneReportNothing /\ SweepAgreesWithSearch
<1> SUFFICES ASSUME SweepInv
             PROVE  WorseAlsoReported /\ WordsAloneReportNothing /\ SweepAgreesWithSearch
  OBVIOUS
<1>1. sweep.docs \in Seq(Document) /\ sweep.reported \in Seq(Nat) /\ sweep.threshold \in Int
  BY DEF SweepInv, SweepRun
<1>2. \A k \in DOMAIN sweep.docs : sweep.docs[k] \in Document
  BY <1>1
<1>3. CASE sweep.reported = <<>>
  BY <1>3 DEF WorseAlsoReported, WordsAloneReportNothing, SweepAgreesWithSearch, Reported, ToSet
<1>4. CASE InOrder(sweep)
  <2>1. PICK down \in SUBSET ToSet(sweep.docs) :
          /\ \A i \in 1..Len(sweep.reported) :
               sweep.reported[i] \in DOMAIN sweep.docs /\ Trips(sweep.docs[sweep.reported[i]], sweep.threshold)
          /\ \A i, j \in 1..Len(sweep.reported) :
               i < j => NotAhead(sweep, down, sweep.reported[i], sweep.reported[j])
          /\ \A k \in DOMAIN sweep.docs :
               Trips(sweep.docs[k], sweep.threshold) => \E i \in 1..Len(sweep.reported) : sweep.reported[i] = k
    BY <1>4 DEF InOrder
  <2>2. \A k \in DOMAIN sweep.docs : Reported(k) <=> Trips(sweep.docs[k], sweep.threshold)
    <3>1. DOMAIN sweep.reported = 1..Len(sweep.reported)
      BY <1>1, Indices
    <3>2. \A k : Reported(k) <=> \E i \in 1..Len(sweep.reported) : sweep.reported[i] = k
      BY <3>1 DEF Reported, ToSet
    <3> QED
      BY <2>1, <3>2
  <2>3. WorseAlsoReported
    <3> SUFFICES ASSUME NEW j \in DOMAIN sweep.docs, NEW k \in DOMAIN sweep.docs, Reported(k),
                        sweep.docs[k].age # NoAge, sweep.docs[j].age >= sweep.docs[k].age,
                        AsSuspicious(sweep.docs[j], sweep.docs[k])
                 PROVE  Reported(j)
      BY DEF WorseAlsoReported
    <3> DEFINE a == sweep.docs[j]
               b == sweep.docs[k]
    <3>1. a \in Document /\ b \in Document /\ Trips(b, sweep.threshold)
      BY <1>2, <2>2
    <3>2. Staleness(b) <= Staleness(a) /\ Staleness(a) \in Int /\ Staleness(b) \in Int
      BY <3>1, StalenessGrows
    <3>3. a.age \in Int /\ b.age \in Nat /\ a.age # NoAge
      BY <3>1 DEF Document, NoAge
    <3>4. IsStale(b) => IsStale(a)
      BY <3>1, <3>2, StaleIs
    <3>5. Trips(a, sweep.threshold)
      BY <1>1, <3>1, <3>3, <3>4 DEF Trips
    <3> QED
      BY <3>5, <2>2
  <2>4. WordsAloneReportNothing
    <3> SUFFICES ASSUME NEW k \in DOMAIN sweep.docs, Reported(k)
                 PROVE  sweep.docs[k].age >= (IF sweep.threshold < 458 THEN sweep.threshold ELSE 458)
      BY DEF WordsAloneReportNothing
    <3> DEFINE a == sweep.docs[k]
    <3>1. a \in Document /\ Trips(a, sweep.threshold) /\ a.age \in Int
      BY <1>2, <2>2 DEF Document, NoAge
    <3>2. IsStale(a) => a.age >= 458
      BY <3>1, StaleIs, StalenessGrows
    <3> QED
      BY <1>1, <3>1, <3>2 DEF Trips
  <2>5. SweepAgreesWithSearch
    <3> SUFFICES ASSUME NEW j \in DOMAIN sweep.reported, NEW k \in DOMAIN sweep.reported, j < k,
                        AsSuspicious(sweep.docs[sweep.reported[j]], sweep.docs[sweep.reported[k]]),
                        AsSuspicious(sweep.docs[sweep.reported[k]], sweep.docs[sweep.reported[j]]),
                        sweep.docs[sweep.reported[j]].age # NoAge,
                        sweep.docs[sweep.reported[k]].age # NoAge
                 PROVE  \/ Freshness(sweep.docs[sweep.reported[j]].age) <= Freshness(sweep.docs[sweep.reported[k]].age)
                        \/ sweep.docs[sweep.reported[k]].age = sweep.docs[sweep.reported[j]].age + 1
      BY DEF SweepAgreesWithSearch
    <3> DEFINE a == sweep.docs[sweep.reported[j]]
               b == sweep.docs[sweep.reported[k]]
    <3>0. j \in 1..Len(sweep.reported) /\ k \in 1..Len(sweep.reported)
      BY <1>1, Indices
    <3>1. a \in Document /\ b \in Document
      BY <1>2, <2>1, <3>0
    <3>2. a.age \in Nat /\ b.age \in Nat
      BY <3>1 DEF Document, NoAge
    <3>3. Scored(a, a \in down) >= Scored(b, b \in down)
      BY <2>1, <3>0, Zenon DEF NotAhead
    <3>4. CASE a.age >= b.age
      BY <3>2, <3>4, FreshnessFalls
    <3>5. CASE a.age + 2 <= b.age /\ a.age < 729
      <4> DEFINE d == a \in down
                 e == b \in down
      <4>0. d \in BOOLEAN /\ e \in BOOLEAN /\ AsSuspicious(a, b) /\ AsSuspicious(b, a)
        OBVIOUS
      <4>3. Scored(a, d) >= Scored(b, e)
        BY <3>3
      <4>2. Scored(a, d) \in Int /\ Scored(b, e) \in Int
        BY <3>1, ScoreIsInt
      <4> HIDE DEF a, b, d, e
      <4>1. Scored(a, d) < Scored(b, e)
        BY <3>1, <3>2, <3>5, <4>0, DaysCount
      <4> QED
        BY <4>1, <4>2, <4>3
    <3>6. CASE a.age >= 729
      BY <3>2, <3>6, FreshnessIs
    <3>7. a.age >= b.age \/ b.age = a.age + 1 \/ (a.age + 2 <= b.age /\ a.age < 729) \/ a.age >= 729
      <4> HIDE DEF a, b
      <4> QED
        BY <3>2
    <3> QED
      BY ZenonT(30), <3>4, <3>5, <3>6, <3>7
  <2> QED
    BY <2>3, <2>4, <2>5
<1> QED
  BY <1>3, <1>4 DEF SweepInv

-----------------------------------------------------------------------------
(* The link check: a host is asked once, since its answer is remembered,   *)
(* and what was visited was allowed by what is remembered.                 *)
Rules == DOMAIN Disallows \union {"unknown"}
LinkRun ==
  [links : LinkLists, heed : BOOLEAN, at : {"probe", "done", "failed"}, robots : [Host -> Rules],
   results : Seq({"ok", "broken", "timeout", "skipped_robots"}), asked : [Host -> Nat], visited : SUBSET Link,
   followed : SUBSET Link]
LinksInv ==
  /\ check \in LinkRun
  /\ \A h \in Host : check.asked[h] <= 1 /\ (check.robots[h] = "unknown" => check.asked[h] = 0)
  /\ check.heed => \A l \in check.visited :
       check.robots[l.host] # "unknown" /\ l.path \notin Disallows[check.robots[l.host]]
  /\ Len(check.results) <= Len(check.links)
  /\ EveryLinkJudged

LEMMA LinksStep == LinksInv /\ LinksNext => LinksInv'
<1> SUFFICES ASSUME LinksInv, LinksNext PROVE LinksInv'
  OBVIOUS
<1>1. check \in LinkRun
  BY DEF LinksInv
<1>2. /\ check.links \in Seq(ToSet(check.links)) /\ ToSet(check.links) \subseteq Link
      /\ \A l \in Link : l.host \in Host
  BY <1>1, LinksAssumption DEF LinkRun, Link, Host
<1>3. check.results \in Seq({"ok", "broken", "timeout", "skipped_robots"})
  BY <1>1 DEF LinkRun
<1>4. Probing => /\ Len(check.results) + 1 \in DOMAIN check.links
                 /\ Current = check.links[Len(check.results) + 1]
                 /\ Current \in Link /\ Current.host \in Host
                 /\ Len(check.results) + 1 <= Len(check.links)
  BY <1>2, <1>3 DEF Probing, Current
<1>5. ASSUME Probing, check' \in LinkRun, check'.links = check.links, check'.heed = check.heed,
             check'.at = check.at, check'.robots = check.robots, check'.asked = check.asked,
             Len(check'.results) = Len(check.results) + 1,
             check.heed => \A l \in check'.visited :
               check.robots[l.host] # "unknown" /\ l.path \notin Disallows[check.robots[l.host]]
      PROVE  LinksInv'
  <2>1. EveryLinkJudged'
    BY <1>5 DEF EveryLinkJudged, Probing
  <2> QED
    BY <2>1, <1>4, <1>5 DEF LinksInv
<1>6. ASSUME Probing, NEW status \in {"ok", "broken", "timeout", "skipped_robots"}, NEW seen \in LinkRun,
             seen.results = check.results
      PROVE  LET next == [seen EXCEPT !.results = Append(@, status)]
             IN  /\ next \in LinkRun /\ next.links = seen.links /\ next.heed = seen.heed
                 /\ next.at = seen.at /\ next.robots = seen.robots /\ next.asked = seen.asked
                 /\ next.visited = seen.visited /\ Len(next.results) = Len(check.results) + 1
  <2> DEFINE longer == Append(seen.results, status)
  <2>1. /\ longer \in Seq({"ok", "broken", "timeout", "skipped_robots"})
        /\ Len(longer) = Len(check.results) + 1
    BY <1>3, <1>6
  <2> HIDE DEF longer
  <2>2. LET next == [seen EXCEPT !.results = longer]
        IN  /\ next \in LinkRun /\ next.links = seen.links /\ next.heed = seen.heed
            /\ next.at = seen.at /\ next.robots = seen.robots /\ next.asked = seen.asked
            /\ next.visited = seen.visited /\ next.results = longer
    BY <1>6, <2>1 DEF LinkRun
  <2> QED
    BY <2>1, <2>2 DEF longer
<1>7. CASE Malformed
  <2>1. Probing /\ check' = [check EXCEPT !.results = Append(@, "broken")]
    BY <1>7 DEF Malformed, Judged
  <2> QED
    BY <2>1, <1>1, <1>5, <1>6 DEF LinksInv
<1>8. CASE Unparseable
  <2>1. /\ Probing /\ Current.form = "unparseable" /\ check' \in LinkRun
        /\ check'.links = check.links /\ check'.heed = check.heed /\ check'.at = "failed"
        /\ check'.robots = check.robots /\ check'.asked = check.asked
        /\ check'.visited = check.visited /\ check'.results = check.results
    BY <1>1, <1>8 DEF Unparseable, LinkRun
  <2>2. EveryLinkJudged'
    BY <2>1, <1>4 DEF EveryLinkJudged
  <2> QED
    BY <2>1, <2>2 DEF LinksInv
<1>9. CASE SkipLink
  <2>1. Probing /\ check' = [check EXCEPT !.results = Append(@, "skipped_robots")]
    BY <1>9 DEF SkipLink, Judged
  <2> QED
    BY <2>1, <1>1, <1>5, <1>6 DEF LinksInv
<1>10. CASE FinishLinks
  <2>1. /\ Len(check.results) = Len(check.links) /\ check' \in LinkRun
        /\ check'.links = check.links /\ check'.heed = check.heed /\ check'.at = "done"
        /\ check'.robots = check.robots /\ check'.asked = check.asked
        /\ check'.visited = check.visited /\ check'.results = check.results
    BY <1>1, <1>10 DEF FinishLinks, LinkRun
  <2> QED
    BY <2>1 DEF LinksInv, EveryLinkJudged
<1>11. ASSUME NEW rules \in DOMAIN Disallows, NEW route \in Routes, FetchRobots(rules, route)
       PROVE  LinksInv'
  <2> DEFINE h == Current.host
  <2>1. Probing /\ h \in Host /\ check.heed /\ check.robots[h] = "unknown"
    BY <1>4, <1>11 DEF FetchRobots, WantsRobots
  <2> DEFINE known == [check EXCEPT !.robots[h] = rules]
  <2>5. check' = [known EXCEPT !.asked[h] = @ + 1, !.followed = @ \union route]
    BY <1>11 DEF FetchRobots, Remembered
  <2>7. route \subseteq Link
    BY DEF Routes
  <2> HIDE DEF h
  <2>6. /\ known \in LinkRun
        /\ known.links = check.links /\ known.heed = check.heed /\ known.at = check.at
        /\ known.robots = [check.robots EXCEPT ![h] = rules] /\ known.asked = check.asked
        /\ known.visited = check.visited /\ known.results = check.results
        /\ known.followed = check.followed
    BY <1>1, <2>1 DEF LinkRun, Rules
  <2> HIDE DEF known
  <2>2. /\ check' \in LinkRun
        /\ check'.links = check.links /\ check'.heed = check.heed /\ check'.at = check.at
        /\ check'.robots = [check.robots EXCEPT ![h] = rules]
        /\ check'.asked = [check.asked EXCEPT ![h] = @ + 1]
        /\ check'.visited = check.visited /\ check'.results = check.results
    <3> DEFINE more == [check.asked EXCEPT ![h] = @ + 1]
    <3>1. more \in [Host -> Nat]
      BY <1>1, <2>1 DEF LinkRun
    <3> DEFINE led == check.followed \union route
    <3>4. led \subseteq Link
      BY <1>1, <2>7 DEF LinkRun
    <3>2. check' = [known EXCEPT !.asked = more, !.followed = led]
      BY <2>5, <2>6
    <3> HIDE DEF more, led
    <3>3. /\ check' \in LinkRun
          /\ check'.links = known.links /\ check'.heed = known.heed /\ check'.at = known.at
          /\ check'.robots = known.robots /\ check'.asked = more
          /\ check'.visited = known.visited /\ check'.results = known.results
      BY <2>6, <3>1, <3>2, <3>4 DEF LinkRun
    <3> QED
      BY <2>6, <3>3 DEF more
  <2>3. \A g \in Host : check'.asked[g] <= 1 /\ (check'.robots[g] = "unknown" => check'.asked[g] = 0)
    BY <1>1, <2>1, <2>2, DisallowsAssumption DEF LinksInv, LinkRun
  <2>4. \A l \in check'.visited :
          check'.robots[l.host] # "unknown" /\ l.path \notin Disallows[check'.robots[l.host]]
    <3> SUFFICES ASSUME NEW l \in check.visited
                 PROVE  check'.robots[l.host] # "unknown" /\ l.path \notin Disallows[check'.robots[l.host]]
      BY <2>2
    <3>1. l \in Link /\ l.host \in Host
      BY <1>1, <1>2 DEF LinkRun
    <3>2. check.robots[l.host] # "unknown" /\ l.path \notin Disallows[check.robots[l.host]]
      BY <2>1 DEF LinksInv
    <3> QED
      BY <1>1, <2>1, <2>2, <3>1, <3>2 DEF LinkRun
  <2> QED
    BY <2>2, <2>3, <2>4 DEF LinksInv, EveryLinkJudged
<1>12. ASSUME NEW head \in Responses, NEW get \in Responses, NEW route \in Routes,
              Probe(head, get, route)
       PROVE  LinksInv'
  <2>1. Verdict(head, get) \in {"ok", "timeout", "broken"}
    BY DEF Verdict
  <2> DEFINE seen == [check EXCEPT !.visited = @ \union {Current}, !.followed = @ \union route]
  <2>2. /\ Probing /\ ~WantsRobots /\ Allowed(check, Current)
        /\ check' = [seen EXCEPT !.results = Append(@, Verdict(head, get))]
    <3>1. Verdict(head, get) # "raised"
      BY <2>1
    <3> QED
      BY <1>12, <3>1, Zenon DEF Probe
  <2>3. /\ seen \in LinkRun /\ seen.links = check.links /\ seen.heed = check.heed
        /\ seen.at = check.at /\ seen.robots = check.robots /\ seen.asked = check.asked
        /\ seen.visited = check.visited \union {Current} /\ seen.results = check.results
    <3>1. check.followed \union route \subseteq Link
      BY <1>1 DEF LinkRun, Routes
    <3> QED
      BY <1>1, <1>4, <2>2, <3>1 DEF LinkRun
  <2> HIDE DEF seen
  <2>4. check.heed => \A l \in check.visited \union {Current} :
          check.robots[l.host] # "unknown" /\ l.path \notin Disallows[check.robots[l.host]]
    BY <2>2 DEF LinksInv, WantsRobots, Allowed
  <2>5. /\ check' \in LinkRun /\ check'.links = check.links /\ check'.heed = check.heed
        /\ check'.at = check.at /\ check'.robots = check.robots /\ check'.asked = check.asked
        /\ check'.visited = check.visited \union {Current}
        /\ Len(check'.results) = Len(check.results) + 1
    BY <2>1, <2>2, <2>3, <1>6
  <2> QED
    BY <2>2, <2>4, <2>5, <1>5
<1> QED
  BY <1>7, <1>8, <1>9, <1>10, <1>11, <1>12 DEF LinksNext

LEMMA ToolsInitInv == ToolsInit => SweepInv /\ LinksInv
<1> SUFFICES ASSUME NEW w \in Sweeps, NEW ls \in LinkLists, NEW heed \in BOOLEAN, ToolsStart(w, ls, heed)
             PROVE  SweepInv /\ LinksInv
  BY DEF ToolsInit
<1>1. w.docs \in Seq(Document) /\ w.threshold \in Int
  BY SweepsAssumption
<1>2. SweepInv
  BY <1>1 DEF ToolsStart, SweepInv, SweepRun
<1>3. check \in LinkRun /\ check.links \in Seq(ToSet(check.links))
  BY LinksAssumption DEF ToolsStart, LinkRun, Rules
<1>4. LinksInv
  BY <1>3 DEF ToolsStart, LinksInv, EveryLinkJudged
<1> QED
  BY <1>2, <1>4

(* docs_staleness.py with drift.py, docs_link_check.py: the sweep reports  *)
(* whatever is as old and as suspicious as what it reports, in the order   *)
(* the search would rank it, and the link check judges every link and      *)
(* itself requests none that the link's host disallows.                    *)
THEOREM DocToolsSoundThm == ToolsSpec => []DocToolsSound
<1>1. ToolsInit => SweepInv /\ LinksInv
  BY ToolsInitInv
<1>2. SweepInv /\ LinksInv /\ [Sweep \/ LinksNext]_toolVars => (SweepInv /\ LinksInv)'
  <2> SUFFICES ASSUME SweepInv, LinksInv, [Sweep \/ LinksNext]_toolVars
               PROVE  SweepInv' /\ LinksInv'
    OBVIOUS
  <2>1. check' = check => LinksInv'
    BY DEF LinksInv, EveryLinkJudged
  <2>2. sweep' = sweep => SweepInv'
    BY DEF SweepInv, InOrder, NotAhead
  <2>3. CASE Sweep
    BY <2>1, <2>3, SweepStep DEF Sweep
  <2>4. CASE LinksNext
    <3>1. sweep' = sweep
      BY <2>4 DEF LinksNext, Malformed, Unparseable, SkipLink, FinishLinks, FetchRobots, Probe
    <3> QED
      BY <3>1, <2>2, <2>4, LinksStep
  <2>5. CASE UNCHANGED toolVars
    BY <2>1, <2>2, <2>5 DEF toolVars
  <2> QED
    BY <2>3, <2>4, <2>5
<1>3. SweepInv /\ LinksInv => DocToolsSound
  <2>1. LinksInv => DisallowedNeverVisited /\ RobotsAskedOnce /\ EveryLinkJudged
    BY DEF LinksInv, DisallowedNeverVisited, RobotsAskedOnce
  <2> QED
    BY <2>1, SweepSound DEF DocToolsSound
<1> QED
  BY <1>1, <1>2, <1>3, PTL DEF ToolsSpec

-----------------------------------------------------------------------------
(* The dates.  A set of positions has a first one.                         *)
LEMMA LeastNat ==
  ASSUME NEW T, T \subseteq Nat, T # {}
  PROVE  \E n \in T : \A j \in T : n <= j
<1>1. PICK n \in T : \A j \in T : ~(<<j, n>> \in OpToRel(<, Nat))
  BY NatLessThanWellFounded, WFMin
<1>2. \A j \in T : ~(j < n)
  BY <1>1 DEF OpToRel
<1> QED
  BY <1>2

LEMMA DateIs ==
  ASSUME NEW doc \in Doc, NEW kind
  PROVE  LastModified(kind, doc) \in Nat \union {NoAge}
<1> DEFINE Date == Nat \union {Absent, NoAge}
<1>1. doc.stamps \in Seq(Date) /\ doc.saved \in Nat
  BY DEF Doc
<1>2. ASSUME NEW stamps \in Seq(Date), NEW passed, Absent \in passed
      PROVE  First(stamps, passed) \in Nat \union {NoAge}
  <2> DEFINE left == {k \in DOMAIN stamps : stamps[k] \notin passed}
  <2>1. CASE left = {}
    BY <2>1 DEF First
  <2>2. CASE left # {}
    <3> DEFINE k == CHOOSE k \in left : \A j \in left : k <= j
    <3>1. left \subseteq Nat
      BY <1>2
    <3>2. k \in left
      BY <2>2, <3>1, LeastNat
    <3>3. First(stamps, passed) = stamps[k]
      BY <2>2 DEF First
    <3>4. stamps[k] \in Date /\ stamps[k] # Absent
      BY <1>2, <3>2
    <3> QED
      BY <3>3, <3>4
  <2> QED
    BY <2>1, <2>2
<1>3. Append(doc.stamps, doc.saved) \in Seq(Date)
  BY <1>1
<1> QED
  BY <1>1, <1>2, <1>3 DEF LastModified

LEMMA ScoreIs ==
  ASSUME NEW m, Shelved(m) \in Doc
  PROVE  ScoreNow(m) \in Int
<1> DEFINE age == LastModified(Kind[SourceOf(m)], Shelved(m))
<1>1. age \in Nat \union {NoAge}
  BY DateIs
<1> HIDE DEF age
<1>2. Freshness(age) \in Int
  <2>1. Freshness(NoAge) \in Int
    BY DEF Freshness, NoAge
  <2> QED
    BY <1>1, <2>1, FreshnessIs
<1> QED
  BY <1>2 DEF ScoreNow, age

-----------------------------------------------------------------------------
(* The places of a search, in their order.                                 *)
LEMMA SpotIs ==
  ASSUME NEW m \in Spot
  PROVE  /\ m[1] \in 1..Len(Library) /\ m[1] \in Nat /\ m[2] \in Nat /\ m = <<m[1], m[2]>>
         /\ SourceOf(m) \in Source /\ IdOf(m) \in ToSet(Holding[SourceOf(m)])
<1>1. PICK r \in DOMAIN Library : m \in {r} \X DOMAIN Holding[Library[r]]
  BY DEF Spot
<1>2. m = <<m[1], m[2]>> /\ m[1] = r /\ m[2] \in DOMAIN Holding[Library[r]]
  BY <1>1
<1>3. r \in 1..Len(Library) /\ Len(Library) \in Nat /\ Library[r] \in Source
  BY <1>1, LibraryAssumption, Indices
<1>4. Holding[Library[r]] \in Seq(ToSet(Holding[Library[r]]))
  BY <1>3, LibraryAssumption
<1>5. m[2] \in Nat
  BY <1>2, <1>4
<1>6. IdOf(m) \in ToSet(Holding[SourceOf(m)])
  BY <1>2 DEF IdOf, SourceOf, ToSet
<1> QED
  BY <1>2, <1>3, <1>5, <1>6 DEF SourceOf

LEMMA SpotsFinite == IsFiniteSet(Spot)
<1> DEFINE Rack(r) == {r} \X DOMAIN Holding[Library[r]]
           Racks == {Rack(r) : r \in DOMAIN Library}
<1>1. DOMAIN Library = 1..Len(Library) /\ IsFiniteSet(DOMAIN Library)
  BY LibraryAssumption, Indices
<1>2. IsFiniteSet(Racks)
  <2> DEFINE f == [r \in DOMAIN Library |-> Rack(r)]
  <2>1. f \in Surjection(DOMAIN Library, Racks)
    BY DEF Surjection
  <2> QED
    BY <1>1, <2>1, FS_Surjection
<1>3. ASSUME NEW r \in DOMAIN Library PROVE IsFiniteSet(Rack(r))
  <2>1. Library[r] \in Source
    BY LibraryAssumption
  <2>2. IsFiniteSet(DOMAIN Holding[Library[r]])
    BY <2>1, LibraryAssumption, Indices
  <2> QED
    BY <2>2, FS_Singleton, FS_Product
<1>4. Spot = UNION Racks
  BY DEF Spot
<1> QED
  BY <1>2, <1>3, <1>4, FS_UNION

LEMMA OneFirst ==
  ASSUME NEW m \in Spot, NEW n \in Spot
  PROVE  /\ m = n \/ FoundBefore(m, n) \/ FoundBefore(n, m)
         /\ ~FoundBefore(m, m)
<1>1. /\ m[1] \in Nat /\ m[2] \in Nat /\ m = <<m[1], m[2]>>
      /\ n[1] \in Nat /\ n[2] \in Nat /\ n = <<n[1], n[2]>>
  BY SpotIs
<1> QED
  BY <1>1 DEF FoundBefore

LEMMA PairsDiffer ==
  ASSUME NEW c, Matches(c) \subseteq Spot, NEW p \in UniquePairs(c), NEW q \in UniquePairs(c), Two(p) = Two(q)
  PROVE  p = q
<1>1. /\ p \in Pairings(c) /\ q \in Pairings(c) /\ ~Sooner(q, p) /\ ~Sooner(p, q)
  BY DEF UniquePairs
<1>2. /\ p = <<p[1], p[2]>> /\ p[1] \in Spot /\ p[2] \in Spot
      /\ q = <<q[1], q[2]>> /\ q[1] \in Spot /\ q[2] \in Spot
  BY <1>1 DEF Pairings
<1>3. p[1] = q[1]
  BY <1>1, <1>2, OneFirst DEF Sooner
<1>4. p[2] = q[2]
  BY <1>1, <1>2, <1>3, OneFirst DEF Sooner
<1> QED
  BY <1>2, <1>3, <1>4

-----------------------------------------------------------------------------
(* The invariant: the types of the shelves; of a call, what its record     *)
(* holds at each place; and what it has found, as long as nobody stirred   *)
(* it.                                                                     *)
Finding == [pair : Spot \X Spot, by : {"versions", "router"}, severity : {"critical", "warning", "info"}]
DocMap == UNION {[S -> Doc] : S \in SUBSET Spot}
ScoreMap == UNION {[S -> Int] : S \in SUBSET Spot}
CallRec ==
  [at : {"idle", "search", "ask", "done", "failed"}, kind : {"find", "compare"}, allowed : SUBSET Kinds,
   next : Nat \ {0}, docs : DocMap, scores : ScoreMap, refs : Seq(Spot), limit : Nat \ {0},
   router : BOOLEAN, pairs : SUBSET (Spot \X Spot), asked : SUBSET (Spot \X Spot), diffs : SUBSET Finding, semantic : SUBSET Finding,
   reported : SUBSET Finding, available : BOOLEAN, notes : SUBSET {"no_router", "unavailable", "error"}]
ShelfInv ==
  /\ DOMAIN shelf = Source /\ DOMAIN space = Source
  /\ \A s \in Source : shelf[s] \in [ToSet(Holding[s]) -> Doc] /\ space[s] \in [ToSet(Holding[s]) -> Doc]
  /\ edits \in 0..MaxEdits /\ stirred \subseteq Slots

Ordered(c) ==
  /\ ToSet(c.refs) = Matches(c) /\ IsInjective(c.refs)
  /\ \A j, k \in DOMAIN c.refs : j < k => c.scores[c.refs[j]] >= c.scores[c.refs[k]]
AskInv ==
  /\ recon \in CallRec
  /\ DOMAIN recon.scores \subseteq Matches(recon)
  /\ recon.at = "idle" => Matches(recon) = {} /\ recon.next = 1
  /\ recon.at \in {"idle", "search"} => recon.pairs = {} /\ recon.asked = {} /\ recon.semantic = {}
  /\ recon.at \in {"ask", "done"} => recon.next > Len(Library) /\ Ordered(recon)
  /\ recon.at \in {"idle", "search", "ask"} => recon.notes = {} /\ recon.available
  /\ recon.at = "ask" => recon.kind = "compare"
  /\ recon.asked \subseteq recon.pairs /\ recon.pairs \subseteq UniquePairs(recon)
  /\ Cardinality(recon.asked) <= recon.limit
  /\ SilenceIsComplete /\ FindingsKept

Slot(m) == <<SourceOf(m), IdOf(m)>>
Undisturbed(s) == \A id \in ToSet(Holding[s]) : <<s, id>> \notin stirred /\ ~Raises(shelf[s][id])
SeenInv ==
  recon.at # "idle" =>
    /\ \A m \in Matches(recon) :
         Fetched(recon.docs[m]) /\ (recon.docs[m] = Shelved(m) \/ Slot(m) \in stirred)
    /\ \A m \in Spot :
         (m[1] < recon.next /\ Kind[SourceOf(m)] \in recon.allowed /\ Undisturbed(SourceOf(m))
            /\ Fetched(Shelved(m)) /\ Shelved(m).mentions) => m \in Matches(recon)
    /\ recon.at = "failed" => stirred # {}
ReconInv == ShelfInv /\ AskInv /\ SeenInv

LEMMA CallFields ==
  ASSUME recon \in CallRec
  PROVE  /\ Matches(recon) \subseteq Spot /\ recon.docs \in [Matches(recon) -> Doc]
         /\ DOMAIN recon.scores \subseteq Spot /\ recon.scores \in [DOMAIN recon.scores -> Int]
         /\ IsFiniteSet(recon.pairs) /\ IsFiniteSet(recon.asked)
         /\ Cardinality(recon.pairs) \in Nat /\ Cardinality(recon.asked) \in Nat
<1>1. /\ recon.docs \in DocMap /\ recon.scores \in ScoreMap
      /\ recon.pairs \subseteq Spot \X Spot /\ recon.asked \subseteq Spot \X Spot
  BY DEF CallRec
<1>2. IsFiniteSet(Spot \X Spot)
  BY SpotsFinite, FS_Product
<1>3. IsFiniteSet(recon.pairs) /\ IsFiniteSet(recon.asked)
  BY <1>1, <1>2, FS_Subset
<1> QED
  BY <1>1, <1>3, FS_CardinalityType DEF Matches, DocMap, ScoreMap

LEMMA ShelvedIs ==
  ASSUME ShelfInv, NEW m \in Spot
  PROVE  Shelved(m) \in Doc
BY SpotIs DEF ShelfInv, Shelved

(* The invariant has what is promised.                                     *)
LEMMA ReconRight == ReconInv => ReconcileRight
<1> SUFFICES ASSUME ReconInv PROVE ReconcileRight
  OBVIOUS
<1> USE DEF ReconInv
<1>1. recon \in CallRec
  BY DEF AskInv
<1>2. ReconTypeOK
  BY <1>1, CallFields DEF ReconTypeOK, ShelfInv, AskInv, CallRec
<1>3. NoneHidden
  <2> SUFFICES ASSUME recon.at = "done", NEW m \in Spot, Kind[SourceOf(m)] \in recon.allowed,
                      Fetched(Shelved(m)), Shelved(m).mentions, Undisturbed(SourceOf(m))
               PROVE  m \in ToSet(recon.refs)
    BY DEF NoneHidden, Ended, Undisturbed
  <2>1. recon.next > Len(Library) /\ ToSet(recon.refs) = Matches(recon)
    BY DEF AskInv, Ordered
  <2>2. m[1] \in 1..Len(Library) /\ recon.next \in Nat /\ Len(Library) \in Nat
    BY <1>1, SpotIs, LibraryAssumption, Indices DEF CallRec
  <2>3. m[1] < recon.next
    BY <2>1, <2>2
  <2> QED
    BY <2>1, <2>3 DEF SeenInv
<1>4. RankedFreshestFirst
  BY DEF RankedFreshestFirst, AskInv, Ordered, Ended
<1>5. FailsOnlyWhenStirred
  BY DEF FailsOnlyWhenStirred, SeenInv
<1>6. AskedOncePerPair
  <2>1. \A p, q \in recon.asked : Two(p) = Two(q) => p = q
    BY <1>1, CallFields, PairsDiffer DEF AskInv
  <2> QED
    BY <2>1 DEF AskedOncePerPair, AskInv
<1> QED
  BY <1>2, <1>3, <1>4, <1>5, <1>6 DEF ReconcileRight, AskInv

(* At the start.                                                           *)
LEMMA ReconInitInv == ReconInit => ReconInv
<1> SUFFICES ASSUME NEW start \in StartShelf, NEW limit \in PairLimits, NEW router \in BOOLEAN,
                    ReconStart(start, limit, router)
             PROVE  ReconInv
  BY DEF ReconInit
<1> DEFINE most == IF limit > 1 THEN limit ELSE 1
<1>0. most \in Nat \ {0}
  BY LibraryAssumption
<1> HIDE DEF most
<1>1. ShelfInv
  BY LibraryAssumption, ShelfAssumption DEF ReconStart, ShelfInv
<1>2. recon = [Resting EXCEPT !.limit = most, !.router = router]
  BY DEF ReconStart, most
<1>3. NoDocs \in [{} -> Doc] /\ NoDocs \in [{} -> Int] /\ DOMAIN NoDocs = {}
  BY DEF NoDocs
<1>4. /\ recon.at = "idle" /\ recon.kind = "find" /\ recon.allowed = {} /\ recon.next = 1
      /\ recon.docs = NoDocs /\ recon.scores = NoDocs /\ recon.refs = <<>> /\ recon.limit = most
      /\ recon.pairs = {} /\ recon.asked = {} /\ recon.diffs = {} /\ recon.semantic = {}
      /\ recon.notes = {} /\ recon.available
  BY <1>2, Zenon DEF Resting
<1>5. recon \in CallRec
  <2>1. NoDocs \in DocMap /\ NoDocs \in ScoreMap
    BY <1>3 DEF DocMap, ScoreMap
  <2>2. recon = [at |-> "idle", kind |-> "find", allowed |-> {}, next |-> 1, docs |-> NoDocs,
                 scores |-> NoDocs, refs |-> <<>>, limit |-> most, router |-> router, pairs |-> {}, asked |-> {},
                 diffs |-> {}, semantic |-> {}, reported |-> {}, available |-> TRUE, notes |-> {}]
    BY <1>2 DEF Resting
  <2> QED
    BY <1>0, <2>1, <2>2 DEF CallRec
<1>6. Cardinality(recon.asked) <= recon.limit
  BY <1>0, <1>4, FS_EmptySet
<1>7. AskInv
  BY <1>3, <1>4, <1>5, <1>6 DEF AskInv, Matches, SilenceIsComplete, FindingsKept, Ended
<1> QED
  BY <1>1, <1>4, <1>7 DEF ReconInv, SeenInv

-----------------------------------------------------------------------------
(* People edit: what they touch is stirred.                                *)
LEMMA SameCall == AskInv /\ recon' = recon => AskInv'
BY DEF AskInv, SilenceIsComplete, FindingsKept, Ended

LEMMA EditStep ==
  ASSUME ReconInv, NEW s \in Source, NEW id \in ToSet(Holding[s]), NEW doc \in SmallDocs,
         Edit(s, id, doc) \/ EditSpace(s, id, doc)
  PROVE  ReconInv'
<1> USE DEF ReconInv
<1>0. recon' = recon /\ doc \in Doc /\ <<s, id>> \in Slots /\ recon \in CallRec
  BY ShelfAssumption DEF Edit, EditSpace, Slots, AskInv
<1>1. ShelfInv'
  <2>1. edits' \in 0..MaxEdits /\ stirred' \subseteq Slots
    <3>1. edits < MaxEdits /\ edits' = edits + 1 /\ stirred' \subseteq stirred \union {<<s, id>>}
      BY DEF Edit, EditSpace
    <3>2. edits \in 0..MaxEdits /\ MaxEdits \in Nat /\ stirred \subseteq Slots
      BY LibraryAssumption DEF ShelfInv
    <3>3. edits' \in 0..MaxEdits
      BY <3>1, <3>2
    <3> QED
      BY <1>0, <3>1, <3>2, <3>3
  <2>2. ASSUME NEW f, DOMAIN f = Source, \A t \in Source : f[t] \in [ToSet(Holding[t]) -> Doc]
        PROVE  LET g == [f EXCEPT ![s][id] = doc]
               IN  DOMAIN g = Source /\ \A t \in Source : g[t] \in [ToSet(Holding[t]) -> Doc]
    <3> DEFINE one == [f[s] EXCEPT ![id] = doc]
    <3>1. one \in [ToSet(Holding[s]) -> Doc]
      BY <1>0, <2>2
    <3> HIDE DEF one
    <3>2. LET g == [f EXCEPT ![s] = one]
          IN  DOMAIN g = Source /\ \A t \in Source : g[t] \in [ToSet(Holding[t]) -> Doc]
      BY <2>2, <3>1
    <3> QED
      BY <3>2 DEF one
  <2> QED
    BY <2>1, <2>2 DEF Edit, EditSpace, ShelfInv
<1>2. AskInv'
  BY <1>0, SameCall
<1>3. CASE EditSpace(s, id, doc)
  <2>1. shelf' = shelf /\ stirred' = stirred
    BY <1>3 DEF EditSpace
  <2> QED
    BY <1>0, <1>1, <1>2, <2>1 DEF SeenInv, Undisturbed, Shelved
<1>4. CASE Edit(s, id, doc)
  <2>1. shelf' = [shelf EXCEPT ![s][id] = doc] /\ stirred' = stirred \union {<<s, id>>}
    BY <1>4 DEF Edit
  <2>2. \A m \in Spot : Slot(m) # <<s, id>> => Shelved(m)' = Shelved(m)
    BY <2>1, SpotIs DEF ShelfInv, Shelved, Slot
  <2>3. \A t \in Source : t # s => shelf'[t] = shelf[t]
    BY <2>1 DEF ShelfInv
  <2>4. ASSUME recon.at # "idle", NEW m \in Matches(recon)
        PROVE  Fetched(recon.docs[m]) /\ (recon.docs[m] = Shelved(m)' \/ Slot(m) \in stirred')
    <3>1. m \in Spot
      BY <1>0, CallFields
    <3> QED
      BY <2>1, <2>2, <2>4, <3>1 DEF SeenInv
  <2>5. ASSUME recon.at # "idle", NEW m \in Spot,
               m[1] < recon.next, Kind[SourceOf(m)] \in recon.allowed, Undisturbed(SourceOf(m))',
               Fetched(Shelved(m)'), Shelved(m)'.mentions
        PROVE  m \in Matches(recon)
    <3>1. SourceOf(m) # s
      BY <2>1, <2>5 DEF Undisturbed
    <3>2. shelf'[SourceOf(m)] = shelf[SourceOf(m)] /\ Shelved(m)' = Shelved(m)
      BY <2>3, <3>1, SpotIs DEF Shelved
    <3>3. Undisturbed(SourceOf(m))
      BY <2>1, <2>5, <3>2 DEF Undisturbed
    <3> QED
      BY <2>5, <3>2, <3>3 DEF SeenInv
  <2>6. SeenInv'
    BY <1>0, <2>1, <2>4, <2>5 DEF SeenInv
  <2> QED
    BY <1>1, <1>2, <2>6
<1> QED
  BY <1>3, <1>4

LEMMA LoadStep ==
  ASSUME ReconInv, NEW s \in Source, LoadFromSync(s)
  PROVE  ReconInv'
<1> USE DEF ReconInv
<1>0. recon' = recon /\ recon.at = "idle" /\ shelf' = [shelf EXCEPT ![s] = Refreshed(shelf[s], space[s])]
      /\ space' = space /\ edits' = edits /\ stirred' = stirred
  BY DEF LoadFromSync
<1>1. Refreshed(shelf[s], space[s]) \in [ToSet(Holding[s]) -> Doc]
  BY DEF ShelfInv, Refreshed
<1>2. ShelfInv'
  BY <1>0, <1>1 DEF ShelfInv
<1> QED
  BY <1>0, <1>2, SameCall DEF SeenInv

-----------------------------------------------------------------------------
(* A call begins, and asks one source after the other.                     *)
LEMMA BeginStep ==
  ASSUME ReconInv, ReconcileDocs \/ \E names \in SUBSET Kinds : FindDocs(names)
  PROVE  ReconInv'
<1> USE DEF ReconInv
<1>0. recon \in CallRec /\ recon.at = "idle" /\ stirred' = {} /\ shelf' = shelf /\ space' = space /\ edits' = edits
  BY DEF AskInv, ReconcileDocs, FindDocs
<1>1. PICK kind \in {"find", "compare"}, allowed \in SUBSET Kinds :
        recon' = [recon EXCEPT !.at = "search", !.kind = kind, !.allowed = allowed]
  <2>1. CASE ReconcileDocs
    BY <1>0, <2>1 DEF ReconcileDocs
  <2>2. ASSUME NEW names \in SUBSET Kinds, FindDocs(names)
        PROVE  \E kind \in {"find", "compare"}, allowed \in SUBSET Kinds :
                 recon' = [recon EXCEPT !.at = "search", !.kind = kind, !.allowed = allowed]
    <3> DEFINE allowed == IF names = {} THEN Kinds ELSE names
    <3>1. allowed \in SUBSET Kinds
      OBVIOUS
    <3>2. recon' = [recon EXCEPT !.at = "search", !.allowed = allowed]
      BY <2>2 DEF FindDocs
    <3> HIDE DEF allowed
    <3>3. recon' = [recon EXCEPT !.at = "search", !.kind = recon.kind, !.allowed = allowed]
      BY <1>0, <3>2 DEF CallRec
    <3>4. recon.kind \in {"find", "compare"}
      BY <1>0 DEF CallRec
    <3> QED
      BY <3>1, <3>3, <3>4
  <2> QED
    BY <2>1, <2>2
<1>2. /\ recon' \in CallRec /\ recon'.at = "search" /\ recon'.next = recon.next /\ recon'.docs = recon.docs
      /\ recon'.scores = recon.scores /\ recon'.limit = recon.limit /\ recon'.pairs = recon.pairs
      /\ recon'.asked = recon.asked /\ recon'.semantic = recon.semantic /\ recon'.notes = recon.notes
      /\ recon'.available = recon.available
  BY <1>0, <1>1 DEF CallRec
<1>3. ShelfInv'
  BY <1>0 DEF ShelfInv
<1>4. AskInv'
  BY <1>0, <1>2 DEF AskInv, Matches, SilenceIsComplete, FindingsKept, Ended
<1>5. SeenInv'
  <2>1. Matches(recon') = {} /\ recon'.next = 1
    BY <1>0, <1>2 DEF AskInv, Matches
  <2>2. \A m \in Spot : ~(m[1] < recon'.next)
    BY <2>1, SpotIs
  <2> QED
    BY <1>2, <2>1, <2>2 DEF SeenInv
<1> QED
  BY <1>3, <1>4, <1>5

LEMMA SearchStep == ReconInv /\ Search => ReconInv'
<1> SUFFICES ASSUME ReconInv, Search PROVE ReconInv'
  OBVIOUS
<1> USE DEF ReconInv
<1> DEFINE r == recon.next
           s == Library[r]
           raised == Kind[s] \in recon.allowed /\ \E id \in ToSet(Holding[s]) : Raises(shelf[s][id])
           found == IF Kind[s] \in recon.allowed /\ ~raised THEN Hits(r) ELSE {}
<1>0. /\ recon \in CallRec /\ recon.at = "search" /\ r <= Len(Library) /\ r \in Nat
      /\ shelf' = shelf /\ space' = space /\ edits' = edits /\ stirred' = stirred
      /\ recon' = [recon EXCEPT !.next = r + 1, !.docs = AsFound(recon, found)]
  BY DEF AskInv, Search, AfterSearch, CallRec
<1>1. found \subseteq Spot /\ \A m \in found : m[1] = r /\ Fetched(Shelved(m))
  BY DEF Hits
<1>2. Matches(recon) \subseteq Spot /\ recon.docs \in [Matches(recon) -> Doc]
  BY <1>0, CallFields
<1>3. ASSUME NEW m \in Spot, SourceOf(m) = s, m[1] = r, Kind[s] \in recon.allowed, Undisturbed(s),
             Fetched(Shelved(m)), Shelved(m).mentions
      PROVE  m \in found
  BY <1>3 DEF Undisturbed, Hits
<1> HIDE DEF found, raised
<1>4. /\ AsFound(recon, found) \in DocMap
      /\ DOMAIN AsFound(recon, found) = Matches(recon) \union found
      /\ \A m \in Matches(recon) : AsFound(recon, found)[m] = recon.docs[m]
      /\ \A m \in found \ Matches(recon) : AsFound(recon, found)[m] = Shelved(m)
  <2>1. \A m \in found : Shelved(m) \in Doc
    BY <1>1, ShelvedIs
  <2>2. AsFound(recon, found) \in [Matches(recon) \union found -> Doc]
    BY <1>2, <2>1 DEF AsFound
  <2>3. Matches(recon) \union found \in SUBSET Spot
    BY <1>1, <1>2
  <2> QED
    BY <2>2, <2>3 DEF AsFound, DocMap
<1>5. /\ recon' \in CallRec /\ recon'.at = "search" /\ recon'.next = r + 1 /\ recon'.docs = AsFound(recon, found)
      /\ recon'.scores = recon.scores /\ recon'.limit = recon.limit /\ recon'.pairs = recon.pairs
      /\ recon'.asked = recon.asked /\ recon'.semantic = recon.semantic /\ recon'.notes = recon.notes
      /\ recon'.available = recon.available /\ recon'.allowed = recon.allowed
  <2> DEFINE kept == AsFound(recon, found)
             n == r + 1
  <2>1. kept \in DocMap /\ n \in Nat \ {0} /\ recon' = [recon EXCEPT !.next = n, !.docs = kept]
    BY <1>0, <1>4
  <2> HIDE DEF kept, n
  <2>2. /\ recon' \in CallRec /\ recon'.at = "search" /\ recon'.next = n /\ recon'.docs = kept
        /\ recon'.scores = recon.scores /\ recon'.limit = recon.limit /\ recon'.pairs = recon.pairs
        /\ recon'.asked = recon.asked /\ recon'.semantic = recon.semantic /\ recon'.notes = recon.notes
        /\ recon'.available = recon.available /\ recon'.allowed = recon.allowed
    <3>1. recon \in CallRec /\ recon.at = "search"
      BY <1>0
    <3>2. recon' \in CallRec
      BY <2>1, <3>1 DEF CallRec
    <3>3. /\ recon'.at = "search" /\ recon'.next = n /\ recon'.docs = kept
          /\ recon'.scores = recon.scores /\ recon'.limit = recon.limit /\ recon'.pairs = recon.pairs
      BY <2>1, <3>1 DEF CallRec
    <3>4. /\ recon'.asked = recon.asked /\ recon'.semantic = recon.semantic /\ recon'.notes = recon.notes
          /\ recon'.available = recon.available /\ recon'.allowed = recon.allowed
      BY <2>1, <3>1 DEF CallRec
    <3> QED
      BY <3>2, <3>3, <3>4
  <2> QED
    BY <2>2 DEF kept, n
<1>6. Matches(recon') = Matches(recon) \union found
  BY <1>4, <1>5 DEF Matches
<1>7. ShelfInv'
  BY <1>0 DEF ShelfInv
<1>8. AskInv'
  BY <1>0, <1>5, <1>6 DEF AskInv, SilenceIsComplete, FindingsKept, Ended
<1>9. \A m \in Spot : Shelved(m)' = Shelved(m) /\ (Undisturbed(SourceOf(m))' <=> Undisturbed(SourceOf(m)))
  BY <1>0 DEF Shelved, Undisturbed
<1>10. ASSUME NEW m \in Matches(recon')
       PROVE  Fetched(recon'.docs[m]) /\ (recon'.docs[m] = Shelved(m)' \/ Slot(m) \in stirred')
  <2>1. CASE m \in Matches(recon)
    BY <1>0, <1>2, <1>4, <1>5, <1>9, <2>1 DEF SeenInv
  <2>2. CASE m \in found \ Matches(recon)
    BY <1>1, <1>4, <1>5, <1>9, <2>2
  <2> QED
    BY <1>6, <2>1, <2>2
<1>11. ASSUME NEW m \in Spot, m[1] < recon'.next, Kind[SourceOf(m)] \in recon'.allowed,
              Undisturbed(SourceOf(m))', Fetched(Shelved(m)'), Shelved(m)'.mentions
       PROVE  m \in Matches(recon')
  <2>1. m[1] \in Nat
    BY SpotIs
  <2>2. CASE m[1] < r
    BY <1>0, <1>5, <1>6, <1>9, <1>11, <2>2 DEF SeenInv
  <2>3. CASE m[1] = r
    <3>1. SourceOf(m) = s
      BY <2>3 DEF SourceOf
    <3> QED
      BY <1>3, <1>5, <1>6, <1>9, <1>11, <2>3, <3>1
  <2> QED
    BY <1>0, <1>5, <1>11, <2>1, <2>2, <2>3
<1>12. SeenInv'
  BY <1>5, <1>10, <1>11 DEF SeenInv
<1> QED
  BY <1>7, <1>8, <1>12

-----------------------------------------------------------------------------
(* The matches are dated: one that cannot be read any more was stirred.    *)
LEMMA ScoreStep == ReconInv /\ Score => ReconInv'
<1> SUFFICES ASSUME ReconInv, NEW m \in Undated(recon),
                    recon.at = "search",
                    recon' = IF Raises(Shelved(m)) THEN [recon EXCEPT !.at = "failed"]
                             ELSE [recon EXCEPT !.scores = [n \in DOMAIN @ \union {m} |-> IF n = m THEN ScoreNow(m) ELSE @[n]]],
                    UNCHANGED <<shelf, space, edits, stirred>>
             PROVE  ReconInv'
  BY Zenon DEF Score, Searched
<1> USE DEF ReconInv
<1>0. recon \in CallRec /\ m \in Matches(recon) /\ m \in Spot
  BY CallFields DEF AskInv, Undated
<1>1. ShelfInv'
  BY DEF ShelfInv
<1>2. \A n \in Spot : Shelved(n)' = Shelved(n) /\ (Undisturbed(SourceOf(n))' <=> Undisturbed(SourceOf(n)))
  BY DEF Shelved, Undisturbed
<1>3. CASE Raises(Shelved(m))
  <2>1. /\ recon' \in CallRec /\ recon'.at = "failed" /\ recon'.next = recon.next /\ recon'.docs = recon.docs
        /\ recon'.scores = recon.scores /\ recon'.limit = recon.limit /\ recon'.pairs = recon.pairs
        /\ recon'.asked = recon.asked /\ recon'.semantic = recon.semantic /\ recon'.allowed = recon.allowed
    BY <1>0, <1>3 DEF CallRec
  <2>2. stirred # {}
    <3>1. Fetched(recon.docs[m]) /\ (recon.docs[m] = Shelved(m) \/ Slot(m) \in stirred)
      BY <1>0 DEF SeenInv
    <3> QED
      BY <1>3, <3>1 DEF Fetched, Raises
  <2>3. AskInv'
    BY <2>1 DEF AskInv, Matches, SilenceIsComplete, FindingsKept, Ended
  <2>4. Matches(recon') = Matches(recon)
    BY <2>1 DEF Matches
  <2>5. Matches(recon) \subseteq Spot
    BY <1>0, CallFields
  <2>6. SeenInv'
    BY <1>2, <2>1, <2>2, <2>4, <2>5 DEF SeenInv
  <2> QED
    BY <1>1, <2>3, <2>6
<1>4. CASE ~Raises(Shelved(m))
  <2> DEFINE scores == [n \in DOMAIN recon.scores \union {m} |-> IF n = m THEN ScoreNow(m) ELSE recon.scores[n]]
  <2>1. scores \in ScoreMap /\ DOMAIN scores = DOMAIN recon.scores \union {m}
    <3>1. ScoreNow(m) \in Int
      BY <1>0, ScoreIs, ShelvedIs
    <3>2. DOMAIN recon.scores \subseteq Spot /\ recon.scores \in [DOMAIN recon.scores -> Int]
      BY <1>0, CallFields
    <3>3. scores \in [DOMAIN recon.scores \union {m} -> Int]
      BY <3>1, <3>2
    <3>4. DOMAIN recon.scores \union {m} \in SUBSET Spot
      BY <1>0, <3>2
    <3> QED
      BY <3>3, <3>4 DEF ScoreMap
  <2>2. recon' = [recon EXCEPT !.scores = scores]
    BY <1>4
  <2> HIDE DEF scores
  <2>3. /\ recon' \in CallRec /\ recon'.at = "search" /\ recon'.next = recon.next /\ recon'.docs = recon.docs
        /\ recon'.scores = scores /\ recon'.limit = recon.limit /\ recon'.pairs = recon.pairs
        /\ recon'.asked = recon.asked /\ recon'.semantic = recon.semantic /\ recon'.notes = recon.notes
        /\ recon'.available = recon.available /\ recon'.allowed = recon.allowed
    BY <1>0, <2>1, <2>2 DEF CallRec
  <2>4. Matches(recon') = Matches(recon)
    BY <2>3 DEF Matches
  <2>5. AskInv'
    BY <1>0, <2>1, <2>3, <2>4 DEF AskInv, SilenceIsComplete, FindingsKept, Ended
  <2>6. Matches(recon) \subseteq Spot
    BY <1>0, CallFields
  <2>7. SeenInv'
    BY <1>2, <2>3, <2>4, <2>6 DEF SeenInv
  <2> QED
    BY <1>1, <2>5, <2>7
<1> QED
  BY <1>3, <1>4

(* What a step from one place of the call to a later one leaves alone.     *)
LEMMA LaterStep ==
  ASSUME ReconInv, AskInv', recon.at # "idle", recon'.at # "failed", recon'.at # "idle",
         recon'.docs = recon.docs, recon'.next = recon.next, recon'.allowed = recon.allowed,
         UNCHANGED <<shelf, space, edits, stirred>>
  PROVE  ReconInv'
<1> USE DEF ReconInv
<1>1. Matches(recon') = Matches(recon) /\ Matches(recon) \subseteq Spot
  BY CallFields DEF Matches, AskInv
<1>2. \A n \in Spot : Shelved(n)' = Shelved(n) /\ (Undisturbed(SourceOf(n))' <=> Undisturbed(SourceOf(n)))
  BY DEF Shelved, Undisturbed
<1>3. ShelfInv'
  BY DEF ShelfInv
<1>4. SeenInv'
  BY <1>1, <1>2 DEF SeenInv
<1> QED
  BY <1>3, <1>4

-----------------------------------------------------------------------------
(* The ranking.                                                            *)
LEMMA OrdersAre ==
  ASSUME recon \in CallRec, DOMAIN recon.scores = Matches(recon), NEW order \in Orders(recon)
  PROVE  /\ order \in Seq(Spot) /\ ToSet(order) = Matches(recon) /\ IsInjective(order)
         /\ \A j, k \in DOMAIN order : j < k => recon.scores[order[j]] >= recon.scores[order[k]]
<1> DEFINE n == Cardinality(Matches(recon))
<1>1. Matches(recon) \subseteq Spot /\ n \in Nat
  BY CallFields, SpotsFinite, FS_Subset, FS_CardinalityType
<1>2. /\ order \in [1..n -> Matches(recon)]
      /\ \A i, j \in 1..n : i < j => Before(recon, order[i], order[j])
      /\ \A m \in Matches(recon) : \E i \in 1..n : order[i] = m
  BY DEF Orders
<1> HIDE DEF n
<1>3. order \in Seq(Spot) /\ DOMAIN order = 1..n
  BY <1>1, <1>2, Sequenced
<1>4. ToSet(order) = Matches(recon)
  BY <1>2 DEF ToSet
<1>5. \A m \in Matches(recon) : recon.scores[m] \in Int /\ recon.docs[m].title \in Int /\ m \in Spot
  BY <1>1, CallFields DEF Doc
<1>6. ASSUME NEW i \in 1..n, NEW j \in 1..n, i < j
      PROVE  recon.scores[order[i]] >= recon.scores[order[j]] /\ order[i] # order[j]
  <2>1. order[i] \in Matches(recon) /\ order[j] \in Matches(recon) /\ Before(recon, order[i], order[j])
    BY <1>2, <1>6
  <2> DEFINE a == order[i]
             b == order[j]
  <2>2. a \in Matches(recon) /\ b \in Matches(recon) /\ Before(recon, a, b)
    BY <2>1
  <2> HIDE DEF a, b
  <2>3. recon.scores[a] >= recon.scores[b]
    BY <1>5, <2>2 DEF Before
  <2>4. a # b
    BY <1>5, <2>2, OneFirst DEF Before
  <2> QED
    BY <2>3, <2>4 DEF a, b
<1>7. IsInjective(order)
  <2>1. \A i, j \in 1..n : i < j \/ j < i \/ i = j
    BY <1>1
  <2> QED
    BY <1>3, <1>6, <2>1 DEF IsInjective
<1> QED
  BY <1>3, <1>4, <1>6, <1>7

LEMMA RankStep == ReconInv /\ RankMatches => ReconInv'
<1> SUFFICES ASSUME ReconInv, RankMatches PROVE ReconInv'
  OBVIOUS
<1> USE DEF ReconInv
<1>0. /\ recon \in CallRec /\ recon.at = "search" /\ recon.next > Len(Library)
      /\ UNCHANGED <<shelf, space, edits, stirred>>
      /\ DOMAIN recon.scores = Matches(recon)
  BY DEF AskInv, RankMatches, Searched, Undated
<1>1. PICK order \in Orders(recon) :
        LET ranked == [recon EXCEPT !.refs = order]
        IN  recon' = IF recon.kind = "find" THEN [ranked EXCEPT !.at = "done"] ELSE Compared(ranked)
  BY Zenon DEF RankMatches
<1>2. /\ order \in Seq(Spot) /\ ToSet(order) = Matches(recon) /\ IsInjective(order)
      /\ \A j, k \in DOMAIN order : j < k => recon.scores[order[j]] >= recon.scores[order[k]]
  BY <1>0, OrdersAre
<1> DEFINE ranked == [recon EXCEPT !.refs = order]
<1>3. /\ ranked \in CallRec /\ ranked.at = recon.at /\ ranked.next = recon.next /\ ranked.docs = recon.docs
      /\ ranked.scores = recon.scores /\ ranked.refs = order /\ ranked.limit = recon.limit
      /\ ranked.pairs = recon.pairs /\ ranked.asked = recon.asked /\ ranked.semantic = recon.semantic
      /\ ranked.notes = recon.notes /\ ranked.available = recon.available /\ ranked.allowed = recon.allowed
      /\ ranked.kind = recon.kind /\ ranked.router = recon.router /\ ranked.diffs = recon.diffs
  BY <1>0, <1>2 DEF CallRec
<1>4. recon' = IF recon.kind = "find" THEN [ranked EXCEPT !.at = "done"] ELSE Compared(ranked)
  BY <1>1
<1> HIDE DEF ranked
<1>5. recon.pairs = {} /\ recon.asked = {} /\ recon.semantic = {} /\ recon.notes = {} /\ recon.available
  BY <1>0 DEF AskInv
<1>6. CASE recon.kind = "find"
  <2>1. /\ recon' \in CallRec /\ recon'.at = "done" /\ recon'.next = recon.next /\ recon'.docs = recon.docs
        /\ recon'.scores = recon.scores /\ recon'.refs = order /\ recon'.limit = recon.limit
        /\ recon'.pairs = {} /\ recon'.asked = {} /\ recon'.allowed = recon.allowed /\ recon'.kind = "find"
    BY <1>3, <1>4, <1>5, <1>6 DEF CallRec
  <2>2. Ordered(recon')
    BY <1>2, <2>1 DEF Ordered, Matches
  <2>3. AskInv'
    BY <1>0, <1>5, <2>1, <2>2 DEF AskInv, Matches, SilenceIsComplete, FindingsKept, Ended
  <2> QED
    BY <1>0, <2>1, <2>3, LaterStep
<1>7. CASE recon.kind # "find"
  <2> DEFINE pairs == UniquePairs(ranked)
             diffs == Diffs(ranked, pairs)
  <2>1. pairs \subseteq Spot \X Spot /\ diffs \in SUBSET Finding /\ Matches(ranked) = Matches(recon)
    <3>1. Matches(ranked) = Matches(recon) /\ Matches(recon) \subseteq Spot
      BY <1>0, <1>3, CallFields DEF Matches
    <3>2. pairs \subseteq Spot \X Spot
      BY <3>1 DEF UniquePairs, Pairings
    <3>3. \A p \in pairs : [pair |-> p, by |-> "versions", severity |-> "warning"] \in Finding
      BY <3>2 DEF Finding
    <3> HIDE DEF pairs
    <3>4. Diffs(ranked, pairs) \subseteq Finding
      BY <3>3 DEF Diffs
    <3> QED
      BY <3>1, <3>2, <3>4
  <2>2. recon' = IF ranked.router THEN [ranked EXCEPT !.pairs = pairs, !.diffs = diffs, !.at = "ask"]
                 ELSE [ranked EXCEPT !.pairs = pairs, !.diffs = diffs, !.at = "done", !.available = FALSE,
                                     !.notes = {"no_router"}, !.reported = diffs]
    BY <1>4, <1>7, Zenon DEF Compared
  <2> HIDE DEF pairs, diffs
  <2>3. recon.kind = "compare"
    BY <1>0, <1>7 DEF CallRec
  <2>4. ASSUME recon'.docs = recon.docs, recon'.scores = recon.scores, recon'.refs = order, recon'.pairs = pairs
        PROVE  Ordered(recon') /\ recon'.pairs \subseteq UniquePairs(recon') /\ Matches(recon') = Matches(recon)
    BY <1>2, <1>3, <2>4 DEF Ordered, Matches, UniquePairs, Pairings, pairs
  <2>5. CASE ranked.router
    <3>1. /\ recon' \in CallRec /\ recon'.at = "ask" /\ recon'.next = recon.next /\ recon'.docs = recon.docs
          /\ recon'.scores = recon.scores /\ recon'.refs = order /\ recon'.limit = recon.limit
          /\ recon'.pairs = pairs /\ recon'.asked = {} /\ recon'.allowed = recon.allowed /\ recon'.kind = "compare"
          /\ recon'.notes = {} /\ recon'.available
      BY <1>3, <1>5, <2>1, <2>2, <2>3, <2>5 DEF CallRec
    <3>2. AskInv'
      BY <1>0, <1>5, <2>4, <3>1 DEF AskInv, SilenceIsComplete, FindingsKept, Ended
    <3> QED
      BY <1>0, <3>1, <3>2, LaterStep
  <2>6. CASE ~ranked.router
    <3>1. /\ recon' \in CallRec /\ recon'.at = "done" /\ recon'.next = recon.next /\ recon'.docs = recon.docs
          /\ recon'.scores = recon.scores /\ recon'.refs = order /\ recon'.limit = recon.limit
          /\ recon'.pairs = pairs /\ recon'.asked = {} /\ recon'.allowed = recon.allowed /\ recon'.kind = "compare"
          /\ recon'.notes = {"no_router"} /\ recon'.semantic = {} /\ recon'.reported = diffs /\ recon'.diffs = diffs
      BY <1>3, <1>5, <2>1, <2>2, <2>3, <2>6 DEF CallRec
    <3>2. AskInv'
      BY <1>0, <1>5, <2>4, <3>1 DEF AskInv, SilenceIsComplete, FindingsKept, Ended
    <3> QED
      BY <1>0, <3>1, <3>2, LaterStep
  <2> QED
    BY <2>5, <2>6
<1> QED
  BY <1>6, <1>7

-----------------------------------------------------------------------------
(* The router is asked pair by pair, until it fails or all were asked.     *)
LEMMA AskedMore ==
  ASSUME ReconInv, MoreToAsk(recon), NEW p \in recon.pairs, NextPair(recon, p)
  PROVE  /\ recon.asked \union {p} \subseteq recon.pairs
         /\ Cardinality(recon.asked \union {p}) <= recon.limit
<1>1. recon \in CallRec /\ recon.asked \subseteq recon.pairs
  BY DEF ReconInv, AskInv
<1>2. IsFiniteSet(recon.asked) /\ Cardinality(recon.asked) \in Nat /\ p \notin recon.asked
  BY <1>1, CallFields DEF NextPair
<1>3. Cardinality(recon.asked \union {p}) = Cardinality(recon.asked) + 1
  BY <1>2, FS_AddElement
<1>4. Cardinality(recon.asked) < recon.limit /\ recon.limit \in Nat
  BY <1>1 DEF MoreToAsk, CallRec
<1> QED
  BY <1>1, <1>2, <1>3, <1>4

LEMMA AnswerStep ==
  ASSUME ReconInv, NEW items \in {{}, {"critical", "severe"}}, RouterAnswers(items)
  PROVE  ReconInv'
<1> USE DEF ReconInv
<1>0. recon \in CallRec /\ recon.at = "ask" /\ MoreToAsk(recon) /\ UNCHANGED <<shelf, space, edits, stirred>>
  BY DEF AskInv, RouterAnswers
<1>1. PICK p \in recon.pairs :
        /\ NextPair(recon, p)
        /\ recon' = [recon EXCEPT !.asked = @ \union {p},
                      !.semantic = @ \union {[pair |-> p, by |-> "router", severity |-> Known(i)] : i \in items}]
  BY DEF RouterAnswers
<1> DEFINE asked == recon.asked \union {p}
           semantic == recon.semantic \union {[pair |-> p, by |-> "router", severity |-> Known(i)] : i \in items}
<1>2. asked \subseteq recon.pairs /\ Cardinality(asked) <= recon.limit
  BY <1>0, <1>1, AskedMore
<1>3. recon.pairs \subseteq Spot \X Spot /\ recon.semantic \subseteq Finding
  BY <1>0 DEF CallRec
<1>4. semantic \subseteq Finding
  <2>1. \A i \in items : [pair |-> p, by |-> "router", severity |-> Known(i)] \in Finding
    BY <1>3 DEF Finding, Known
  <2> QED
    BY <1>3, <2>1
<1>5. recon' = [recon EXCEPT !.asked = asked, !.semantic = semantic]
  BY <1>1
<1> HIDE DEF asked, semantic
<1>6. /\ recon' \in CallRec /\ recon'.at = "ask" /\ recon'.next = recon.next /\ recon'.docs = recon.docs
      /\ recon'.scores = recon.scores /\ recon'.refs = recon.refs /\ recon'.limit = recon.limit
      /\ recon'.pairs = recon.pairs /\ recon'.asked = asked /\ recon'.allowed = recon.allowed
      /\ recon'.notes = recon.notes /\ recon'.available = recon.available /\ recon'.kind = recon.kind
  BY <1>0, <1>2, <1>3, <1>4, <1>5 DEF CallRec
<1>7. Ordered(recon') /\ UniquePairs(recon') = UniquePairs(recon) /\ Matches(recon') = Matches(recon)
  BY <1>0, <1>6 DEF AskInv, Ordered, Matches, UniquePairs, Pairings
<1>8. AskInv'
  BY <1>0, <1>2, <1>6, <1>7 DEF AskInv, SilenceIsComplete, FindingsKept, Ended
<1> QED
  BY <1>0, <1>6, <1>8, LaterStep

(* A report, of a call in which so many pairs were asked.                  *)
LEMMA ReportStep ==
  ASSUME ReconInv, recon.at = "ask", UNCHANGED <<shelf, space, edits, stirred>>,
         NEW c \in CallRec, recon' = Report(c),
         c.next = recon.next, c.docs = recon.docs, c.scores = recon.scores, c.refs = recon.refs,
         c.limit = recon.limit, c.pairs = recon.pairs, c.allowed = recon.allowed, c.kind = recon.kind,
         c.asked \subseteq c.pairs, Cardinality(c.asked) <= c.limit,
         c.notes # {} \/ (c.available /\ ~MoreToAsk(c))
  PROVE  ReconInv'
<1> USE DEF ReconInv
<1>1. /\ recon' \in CallRec /\ recon'.at = "done" /\ recon'.next = recon.next /\ recon'.docs = recon.docs
      /\ recon'.scores = recon.scores /\ recon'.refs = recon.refs /\ recon'.limit = recon.limit
      /\ recon'.pairs = recon.pairs /\ recon'.asked = c.asked /\ recon'.allowed = recon.allowed
      /\ recon'.notes = c.notes /\ recon'.available = c.available /\ recon'.kind = recon.kind
      /\ recon'.diffs = c.diffs /\ recon'.semantic = c.semantic /\ recon'.reported = c.diffs \union c.semantic
  BY DEF Report, CallRec
<1>2. Ordered(recon') /\ UniquePairs(recon') = UniquePairs(recon) /\ Matches(recon') = Matches(recon)
  BY <1>1 DEF AskInv, Ordered, Matches, UniquePairs, Pairings
<1>3. c.notes = {} =>
        c.available /\ Cardinality(c.asked) =
          (IF c.limit < Cardinality(c.pairs) THEN c.limit ELSE Cardinality(c.pairs))
  <2>1. /\ recon \in CallRec /\ IsFiniteSet(recon.pairs) /\ Cardinality(recon.pairs) \in Nat
    BY CallFields DEF AskInv
  <2>2. /\ Cardinality(c.asked) \in Nat /\ Cardinality(c.asked) <= Cardinality(c.pairs)
        /\ IsFiniteSet(c.asked)
    BY <2>1, FS_Subset, FS_CardinalityType
  <2>3. c.limit \in Nat
    BY DEF CallRec
  <2> QED
    BY <2>1, <2>2, <2>3 DEF MoreToAsk
<1>4. AskInv'
  BY <1>1, <1>2, <1>3 DEF AskInv, SilenceIsComplete, FindingsKept, Ended
<1> QED
  BY <1>1, <1>4, LaterStep

LEMMA FailureStep ==
  ASSUME ReconInv, NEW how \in {"unavailable", "error"}, RouterFails(how)
  PROVE  ReconInv'
<1> USE DEF ReconInv
<1>0. recon \in CallRec /\ recon.at = "ask" /\ MoreToAsk(recon) /\ UNCHANGED <<shelf, space, edits, stirred>>
  BY DEF AskInv, RouterFails
<1>1. PICK p \in recon.pairs : NextPair(recon, p) /\ recon' = AfterFailure(recon, p, how)
  BY DEF RouterFails
<1> DEFINE asked == recon.asked \union {p}
           open == how # "unavailable"
           notes == recon.notes \union {how}
           c == [recon EXCEPT !.asked = asked, !.available = open, !.notes = notes]
<1>2. asked \subseteq recon.pairs /\ Cardinality(asked) <= recon.limit
  BY <1>0, <1>1, AskedMore
<1>3. recon' = Report(c)
  BY <1>1 DEF AfterFailure
<1>4. recon.pairs \subseteq Spot \X Spot /\ notes \subseteq {"no_router", "unavailable", "error"} /\ open \in BOOLEAN /\ notes # {}
  BY <1>0 DEF CallRec
<1> HIDE DEF asked, notes, open
<1>5. /\ c \in CallRec /\ c.next = recon.next /\ c.docs = recon.docs /\ c.scores = recon.scores
      /\ c.refs = recon.refs /\ c.limit = recon.limit /\ c.pairs = recon.pairs /\ c.allowed = recon.allowed
      /\ c.kind = recon.kind /\ c.asked = asked /\ c.notes = notes
  BY <1>0, <1>2, <1>4 DEF CallRec
<1> HIDE DEF c
<1> QED
  BY <1>0, <1>2, <1>3, <1>4, <1>5, ReportStep

LEMMA CloseStep == ReconInv /\ Close => ReconInv'
<1> SUFFICES ASSUME ReconInv, Close PROVE ReconInv'
  OBVIOUS
<1>1. /\ recon \in CallRec /\ recon.at = "ask" /\ ~MoreToAsk(recon) /\ recon' = Report(recon)
      /\ UNCHANGED <<shelf, space, edits, stirred>> /\ recon.available
      /\ recon.asked \subseteq recon.pairs /\ Cardinality(recon.asked) <= recon.limit
  BY DEF ReconInv, AskInv, Close
<1> QED
  BY <1>1, ReportStep

(* reconciler.py with sources.py: failures of sources and router hide      *)
(* nothing but their own, whatever people edit meanwhile.                  *)
THEOREM ReconcileRightThm == ReconSpec => []ReconcileRight
<1>1. ReconInit => ReconInv
  BY ReconInitInv
<1>2. ReconInv /\ [ReconNext]_reconVars => ReconInv'
  <2> SUFFICES ASSUME ReconInv, [ReconNext]_reconVars PROVE ReconInv'
    OBVIOUS
  <2>1. ASSUME NEW s \in Source, NEW id \in ToSet(Holding[s]), NEW doc \in SmallDocs,
               Edit(s, id, doc) \/ EditSpace(s, id, doc)
        PROVE  ReconInv'
    BY <2>1, EditStep
  <2>2. ASSUME NEW s \in Source, LoadFromSync(s) PROVE ReconInv'
    BY <2>2, LoadStep
  <2>3. CASE ReconcileDocs \/ \E names \in SUBSET Kinds : FindDocs(names)
    BY <2>3, BeginStep
  <2>4. CASE Proceeds
    BY <2>4, SearchStep, ScoreStep, RankStep, CloseStep DEF Proceeds
  <2>5. CASE Answered
    BY <2>5, AnswerStep, FailureStep DEF Answered
  <2>6. CASE UNCHANGED reconVars
    BY <2>6, SameCall DEF reconVars, ReconInv, ShelfInv, SeenInv, Undisturbed, Shelved
  <2> QED
    BY <2>1, <2>2, <2>3, <2>4, <2>5, <2>6 DEF ReconNext
<1>3. ReconInv => ReconcileRight
  BY ReconRight
<1> QED
  BY <1>1, <1>2, <1>3, PTL DEF ReconSpec
=============================================================================
