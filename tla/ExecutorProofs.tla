--------------------------- MODULE ExecutorProofs ---------------------------
(* Proofs about Executor, for any number of calls, any requests and any    *)
(* number of failures.                                                     *)
EXTENDS Executor, TLAPS

(* A command has not started before its call is at Run, and a call at the  *)
(* logger has an outcome that agrees with its command.                     *)
CommandInv ==
  \A c \in Call :
    /\ pc[c] \in {"new", "connect", "probe", "run"} => c \notin ran
    /\ pc[c] \in {"record", "write"} =>
         /\ outcome[c] \in Outcome
         /\ outcome[c] = "refused" => c \notin ran
         /\ outcome[c] = "executed" /\ ~req[c].dry => c \in ran

(* The call of a line is past its command.                                 *)
LineInv == \A l \in Lines : pc[l.call] \in {"note", "done", "killed"}

(* Every key and every answer is backed by a line about the same key.      *)
HasLine(caller, key) == \E l \in Lines : l.call = caller /\ l.key = key

TraceInv ==
  /\ \A k \in DOMAIN seen : HasLine(seen[k], k)
  /\ \A c \in Call :
       /\ pc[c] = "new" => audited[c] = "none"
       /\ pc[c] = "note" => HasLine(c, req[c].key)
       /\ audited[c] \in Call => HasLine(audited[c], req[c].key)
       /\ pc[c] = "done" /\ audited[c] \notin Call => outcome[c] = "refused"

(* A trip in force is in Redis, and what has yet to read the switch and    *)
(* will not look there came too early for it.                              *)
TripInv ==
  force => /\ mark =< faults
           /\ faults = mark =>
                /\ redisUp /\ tripped
                /\ \A c \in Call : \/ pc[c] = "run"
                                   \/ pc[c] = "probe" /\ backend[c] = "file"
                                   => c \in grace

IInv == TypeOK /\ CommandInv /\ LineInv /\ LinesTruthful /\ TraceInv /\ TripInv

-----------------------------------------------------------------------------
(* The lines after an append, whatever the log.                            *)
LEMMA LinesAppend ==
  ASSUME log \in Seq(Line), NEW x \in Line, log' = Append(log, x)
  PROVE  /\ log' \in Seq(Line)
         /\ Lines' = Lines \union {x}
<1>1. DOMAIN log = 1 .. Len(log) /\ DOMAIN log' = 1 .. (Len(log) + 1) /\ Len(log) \in Nat
  OBVIOUS
<1>2. log'[Len(log) + 1] = x /\ \A i \in 1 .. Len(log) : log'[i] = log[i]
  OBVIOUS
<1>3. Lines' \subseteq Lines \union {x}
  BY <1>1, <1>2 DEF Lines
<1>4. Lines \union {x} \subseteq Lines'
  BY <1>1, <1>2 DEF Lines
<1> QED
  BY <1>3, <1>4

LEMMA LinesTyped == ASSUME TypeOK PROVE \A l \in Lines : l \in Line /\ l.call \in Call
<1>1. ASSUME NEW i \in DOMAIN log PROVE log[i] \in Line
  BY DEF TypeOK
<1>2. \A l \in Line : l.call \in Call
  BY DEF Line
<1> QED
  BY <1>1, <1>2 DEF Lines

LEMMA LinesSame == ASSUME log' = log PROVE Lines' = Lines
BY DEF Lines

LEMMA InitIInv == Init => IInv
<1> SUFFICES ASSUME Init PROVE IInv
  OBVIOUS
<1>1. redisUp \in BOOLEAN /\ tripped \in BOOLEAN /\ flag \in BOOLEAN
      /\ force \in BOOLEAN /\ ~force
  BY Zenon DEF Init
<1>2. Lines = {} /\ DOMAIN seen = {}
  BY DEF Init, Lines
<1>3. TypeOK
  <2>1. faults \in 0 .. MaxFaults /\ mark \in 0 .. MaxFaults
    BY ConfigAssumption DEF Init, ConfigAssumption
  <2>2. log \in Seq(Line)
    BY DEF Init
  <2>3. \A c \in Call : pc[c] = "new"
    BY DEF Init
  <2>4. ran = {} /\ grace = {}
    BY DEF Init
  <2>5. /\ pc = [c \in Call |-> "new"] /\ DOMAIN req = Call
        /\ backend = [c \in Call |-> "none"]
        /\ outcome = [c \in Call |-> "none"]
        /\ audited = [c \in Call |-> "none"]
    BY DEF Init
  <2>6. /\ pc \in [Call -> {"new", "connect", "probe", "run", "record", "write",
                          "note", "done", "killed"}]
        /\ backend \in [Call -> {"none", "redis", "file"}]
        /\ outcome \in [Call -> Outcome \union {"none"}]
        /\ audited \in [Call -> Call \union {"none"}]
    BY <2>5
  <2>7. ran \subseteq Call /\ grace \subseteq Call
    BY <2>4
  <2>8. DOMAIN seen \subseteq Key /\ \A k \in DOMAIN seen : seen[k] \in Call
    BY <1>2
  <2>9. \A c \in Call : pc[c] # "new" => req[c] \in Request
    BY <2>3
  <2> QED
    BY <1>1, <2>1, <2>2, <2>5, <2>6, <2>7, <2>8, <2>9, Zenon DEF TypeOK
<1>4. CommandInv /\ TripInv
  BY <1>1 DEF Init, CommandInv, TripInv
<1>5. LineInv /\ LinesTruthful /\ TraceInv
  BY <1>2, CallAssumption DEF Init, LineInv, LinesTruthful, TraceInv, CallAssumption
<1> QED
  BY <1>3, <1>4, <1>5 DEF IInv

(* The variables keep their types.                                         *)
LEMMA TypeStep == IInv /\ [Next]_vars => TypeOK'
<1> SUFFICES ASSUME TypeOK, CommandInv, [Next]_vars PROVE TypeOK'
  BY DEF IInv
<1> USE ConfigAssumption DEF TypeOK, ConfigAssumption, Outcome, switch, audit, history
<1>1. ASSUME NEW c \in Call, Gates(c) PROVE TypeOK'
  BY <1>1 DEF Gates, Goto, Decide
<1>2. ASSUME NEW c \in Call, Connect(c) PROVE TypeOK'
  BY <1>2 DEF Connect, Goto, Fail
<1>3. ASSUME NEW c \in Call, Probe(c) PROVE TypeOK'
  BY <1>3 DEF Probe, Active, Inactive, Goto, Decide, Fail
<1>4. ASSUME NEW c \in Call, Run(c) PROVE TypeOK'
  BY <1>4 DEF Run, Goto, Decide
<1>5. ASSUME NEW c \in Call, Record(c) PROVE TypeOK'
  BY <1>5 DEF Record, Goto
<1>6. ASSUME NEW c \in Call, Write(c) PROVE TypeOK'
  <2>1. req[c] \in Request /\ outcome[c] \in Outcome /\ req[c].dry \in BOOLEAN
    BY <1>6, RequestAssumption DEF Write, CommandInv, RequestAssumption
  <2>2. [call |-> c, key |-> req[c].key, outcome |-> outcome[c], dry |-> req[c].dry] \in Line
    BY <2>1 DEF Line, Key
  <2>3. log' \in Seq(Line)
    BY <1>6, <2>2, LinesAppend DEF Write
  <2> QED
    BY <1>6, <2>3 DEF Write, Goto
<1>7. ASSUME NEW c \in Call, WriteRaises(c) PROVE TypeOK'
  BY <1>7 DEF WriteRaises, Goto, Decide, Fail
<1>8. ASSUME NEW c \in Call, Note(c) PROVE TypeOK'
  <2>1. req[c].key \in Key
    BY <1>8 DEF Note, Key
  <2>2. DOMAIN seen' \subseteq Key /\ \A k \in DOMAIN seen' : seen'[k] \in Call
    BY <1>8, <2>1 DEF Note
  <2> QED
    BY <1>8, <2>2 DEF Note, Goto
<1>9. CASE Restart
  BY <1>9 DEF Restart, Fail
<1>10. CASE Trip
  <2>1. redisUp' \in BOOLEAN /\ tripped' \in BOOLEAN /\ flag' \in BOOLEAN /\ force' \in BOOLEAN
    BY <1>10, Zenon DEF Trip
  <2> QED
    BY <1>10, <2>1 DEF Trip
<1>11. CASE Release
  <2>1. redisUp' \in BOOLEAN /\ tripped' \in BOOLEAN /\ flag' \in BOOLEAN /\ force' \in BOOLEAN
    BY <1>11, Zenon DEF Release
  <2> QED
    BY <1>11, <2>1 DEF Release
<1>12. CASE RedisDown
  <2>1. redisUp' \in BOOLEAN /\ tripped' \in BOOLEAN /\ flag' \in BOOLEAN /\ force' \in BOOLEAN
    BY <1>12, Zenon DEF RedisDown
  <2> QED
    BY <1>12, <2>1 DEF RedisDown, Fail
<1>13. CASE RedisBack
  <2>1. redisUp' \in BOOLEAN /\ tripped' \in BOOLEAN /\ flag' \in BOOLEAN /\ force' \in BOOLEAN
    BY <1>13, Zenon DEF RedisBack
  <2> QED
    BY <1>13, <2>1 DEF RedisBack
<1>14. CASE UNCHANGED vars
  BY <1>14 DEF vars
<1> QED
  BY <1>1, <1>2, <1>3, <1>4, <1>5, <1>6, <1>7, <1>8, <1>9, <1>10, <1>11, <1>12, <1>13, <1>14 DEF Next, Execute

LEMMA CommandStep == IInv /\ TypeOK' /\ [Next]_vars => CommandInv'
<1> SUFFICES ASSUME TypeOK, CommandInv, TypeOK', [Next]_vars PROVE CommandInv'
  BY DEF IInv
<1> USE DEF TypeOK, CommandInv, switch, audit, history
<1>1. ASSUME NEW c \in Call, Gates(c) PROVE CommandInv'
  BY <1>1 DEF Gates, Goto, Decide
<1>2. ASSUME NEW c \in Call, Connect(c) PROVE CommandInv'
  BY <1>2 DEF Connect, Goto, Fail
<1>3. ASSUME NEW c \in Call, Probe(c) PROVE CommandInv'
  BY <1>3 DEF Probe, Active, Inactive, Goto, Decide, Fail
<1>4. ASSUME NEW c \in Call, Run(c) PROVE CommandInv'
  BY <1>4 DEF Run, Goto, Decide
<1>5. ASSUME NEW c \in Call, Record(c) PROVE CommandInv'
  BY <1>5 DEF Record, Goto
<1>6. ASSUME NEW c \in Call, Write(c) PROVE CommandInv'
  BY <1>6 DEF Write, Goto
<1>7. ASSUME NEW c \in Call, WriteRaises(c) PROVE CommandInv'
  BY <1>7 DEF WriteRaises, Goto, Decide, Fail
<1>8. ASSUME NEW c \in Call, Note(c) PROVE CommandInv'
  BY <1>8 DEF Note, Goto
<1>9. CASE Restart
  BY <1>9 DEF Restart, Fail
<1>10. CASE Trip
  BY <1>10 DEF Trip
<1>11. CASE Release
  BY <1>11 DEF Release
<1>12. CASE RedisDown
  BY <1>12 DEF RedisDown, Fail
<1>13. CASE RedisBack
  BY <1>13 DEF RedisBack
<1>14. CASE UNCHANGED vars
  BY <1>14 DEF vars
<1> QED
  BY <1>1, <1>2, <1>3, <1>4, <1>5, <1>6, <1>7, <1>8, <1>9, <1>10, <1>11, <1>12, <1>13, <1>14 DEF Next, Execute

LEMMA LineStep ==
  IInv /\ TypeOK' /\ [Next]_vars => LineInv' /\ LinesTruthful'
<1> SUFFICES ASSUME TypeOK, CommandInv, LineInv, LinesTruthful, TypeOK', [Next]_vars
             PROVE  LineInv' /\ LinesTruthful'
  BY DEF IInv
<1>0. \A l \in Lines : l.call \in Call
  BY LinesTyped
<1> USE DEF TypeOK, CommandInv, LineInv, LinesTruthful, switch, audit, history
<1>1. ASSUME NEW c \in Call, Gates(c) PROVE LineInv' /\ LinesTruthful'
  BY <1>1, <1>0, LinesSame DEF Gates, Goto, Decide
<1>2. ASSUME NEW c \in Call, Connect(c) PROVE LineInv' /\ LinesTruthful'
  BY <1>2, <1>0, LinesSame DEF Connect, Goto, Fail
<1>3. ASSUME NEW c \in Call, Probe(c) PROVE LineInv' /\ LinesTruthful'
  BY <1>3, <1>0, LinesSame DEF Probe, Active, Inactive, Goto, Decide, Fail
<1>4. ASSUME NEW c \in Call, Run(c) PROVE LineInv' /\ LinesTruthful'
  BY <1>4, <1>0, LinesSame DEF Run, Goto, Decide
<1>5. ASSUME NEW c \in Call, Record(c) PROVE LineInv' /\ LinesTruthful'
  BY <1>5, <1>0, LinesSame DEF Record, Goto
<1>6. ASSUME NEW c \in Call, Write(c) PROVE LineInv' /\ LinesTruthful'
  <2> DEFINE x == [call |-> c, key |-> req[c].key,
                   outcome |-> outcome[c], dry |-> req[c].dry]
  <2>1. x \in Line
    BY <1>6, RequestAssumption DEF Write, RequestAssumption, Line, Key
  <2>2. Lines' = Lines \union {x}
    BY <1>6, <2>1, LinesAppend DEF Write
  <2>3. x.call = c /\ x.outcome = outcome[c] /\ x.dry = req[c].dry
    OBVIOUS
  <2> HIDE DEF x
  <2> QED
    BY <1>6, <1>0, <2>2, <2>3 DEF Write, Goto
<1>7. ASSUME NEW c \in Call, WriteRaises(c) PROVE LineInv' /\ LinesTruthful'
  BY <1>7, <1>0, LinesSame DEF WriteRaises, Goto, Decide, Fail
<1>8. ASSUME NEW c \in Call, Note(c) PROVE LineInv' /\ LinesTruthful'
  BY <1>8, <1>0, LinesSame DEF Note, Goto
<1>9. CASE Restart
  BY <1>9, <1>0, LinesSame DEF Restart, Fail
<1>10. CASE Trip
  BY <1>10, <1>0, LinesSame DEF Trip
<1>11. CASE Release
  BY <1>11, <1>0, LinesSame DEF Release
<1>12. CASE RedisDown
  BY <1>12, <1>0, LinesSame DEF RedisDown, Fail
<1>13. CASE RedisBack
  BY <1>13, <1>0, LinesSame DEF RedisBack
<1>14. CASE UNCHANGED vars
  BY <1>14, <1>0, LinesSame DEF vars
<1> QED
  BY <1>1, <1>2, <1>3, <1>4, <1>5, <1>6, <1>7, <1>8, <1>9, <1>10, <1>11, <1>12, <1>13, <1>14 DEF Next, Execute

LEMMA TraceStep == IInv /\ TypeOK' /\ [Next]_vars => TraceInv'
<1> SUFFICES ASSUME TypeOK, CommandInv, TraceInv, TypeOK', [Next]_vars PROVE TraceInv'
  BY DEF IInv
<1> USE CallAssumption DEF CallAssumption, TypeOK, TraceInv, HasLine, switch, audit, history
<1>1. ASSUME NEW c \in Call, Gates(c) PROVE TraceInv'
  BY <1>1, LinesSame DEF Gates, Goto, Decide
<1>2. ASSUME NEW c \in Call, Connect(c) PROVE TraceInv'
  BY <1>2, LinesSame DEF Connect, Goto, Fail
<1>3. ASSUME NEW c \in Call, Probe(c) PROVE TraceInv'
  BY <1>3, LinesSame DEF Probe, Active, Inactive, Goto, Decide, Fail
<1>4. ASSUME NEW c \in Call, Run(c) PROVE TraceInv'
  BY <1>4, LinesSame DEF Run, Goto, Decide
<1>5. ASSUME NEW c \in Call, Record(c) PROVE TraceInv'
  BY <1>5, LinesSame DEF Record, Goto
<1>6. ASSUME NEW c \in Call, Write(c) PROVE TraceInv'
  <2> DEFINE x == [call |-> c, key |-> req[c].key,
                   outcome |-> outcome[c], dry |-> req[c].dry]
  <2>1. x \in Line
    BY <1>6, RequestAssumption DEF Write, CommandInv, RequestAssumption, Line, Key
  <2>2. Lines' = Lines \union {x}
    BY <1>6, <2>1, LinesAppend DEF Write
  <2>3. x.call = c /\ x.key = req[c].key
    OBVIOUS
  <2> HIDE DEF x
  <2> QED
    BY <1>6, <2>2, <2>3 DEF Write, Goto
<1>7. ASSUME NEW c \in Call, WriteRaises(c) PROVE TraceInv'
  BY <1>7, LinesSame DEF WriteRaises, Goto, Decide, Fail
<1>8. ASSUME NEW c \in Call, Note(c) PROVE TraceInv'
  <2>1. Lines' = Lines /\ HasLine(c, req[c].key)
    BY <1>8, LinesSame DEF Note
  <2>2. \A k \in DOMAIN seen' : \E l \in Lines' : l.call = seen'[k] /\ l.key = k
    <3>1. CASE req[c].key = NoKey
      BY <1>8, <2>1, <3>1 DEF Note
    <3>2. CASE req[c].key # NoKey
      <4>1. seen' = [k \in DOMAIN seen \union {req[c].key} |->
                       IF k = req[c].key THEN c ELSE seen[k]]
        BY <1>8, <3>2 DEF Note
      <4>2. \A k \in DOMAIN seen : \E l \in Lines' : l.call = seen[k] /\ l.key = k
        BY <2>1
      <4>3. \E l \in Lines' : l.call = c /\ l.key = req[c].key
        BY <2>1
      <4>4. ASSUME NEW k \in DOMAIN seen'
            PROVE  \/ k = req[c].key /\ seen'[k] = c
                   \/ k \in DOMAIN seen /\ seen'[k] = seen[k]
        BY <4>1
      <4>5. ASSUME NEW k \in DOMAIN seen'
            PROVE  \E l \in Lines' : l.call = seen'[k] /\ l.key = k
        <5>1. CASE k = req[c].key /\ seen'[k] = c
          BY <4>3, <5>1, Zenon
        <5>2. CASE k \in DOMAIN seen /\ seen'[k] = seen[k]
          <6>1. PICK l \in Lines' : l.call = seen[k] /\ l.key = k
            BY <4>2, <5>2
          <6> QED
            BY <5>2, <6>1
        <5> QED
          BY <4>4, <5>1, <5>2
      <4> QED
        BY <4>5
    <3> QED
      BY <3>1, <3>2
  <2>3. /\ \A b \in Call \ {c} : pc'[b] = pc[b] /\ audited'[b] = audited[b]
        /\ pc'[c] = "done" /\ audited'[c] = c
        /\ UNCHANGED <<req, outcome>>
    BY <1>8 DEF Note, Goto
  <2>4. ASSUME NEW b \in Call
        PROVE  /\ pc'[b] = "new" => audited'[b] = "none"
               /\ pc'[b] = "note" => \E l \in Lines' : l.call = b /\ l.key = req'[b].key
               /\ audited'[b] \in Call =>
                    \E l \in Lines' : l.call = audited'[b] /\ l.key = req'[b].key
               /\ pc'[b] = "done" /\ audited'[b] \notin Call => outcome'[b] = "refused"
    <3>1. CASE b = c
      BY <2>1, <2>3, <3>1
    <3>2. CASE b # c
      BY <2>1, <2>3, <3>2
    <3> QED
      BY <3>1, <3>2
  <2> QED
    BY <2>2, <2>4, Zenon
<1>9. CASE Restart
  BY <1>9, LinesSame DEF Restart, Fail
<1>10. CASE Trip
  BY <1>10, LinesSame DEF Trip
<1>11. CASE Release
  BY <1>11, LinesSame DEF Release
<1>12. CASE RedisDown
  BY <1>12, LinesSame DEF RedisDown, Fail
<1>13. CASE RedisBack
  BY <1>13, LinesSame DEF RedisBack
<1>14. CASE UNCHANGED vars
  BY <1>14, LinesSame DEF vars
<1> QED
  BY <1>1, <1>2, <1>3, <1>4, <1>5, <1>6, <1>7, <1>8, <1>9, <1>10, <1>11, <1>12, <1>13, <1>14 DEF Next, Execute

LEMMA TripStep == IInv /\ TypeOK' /\ [Next]_vars => TripInv'
<1> SUFFICES ASSUME TypeOK, TripInv, TypeOK', [Next]_vars PROVE TripInv'
  BY DEF IInv
<1> USE ConfigAssumption DEF ConfigAssumption, TypeOK, TripInv, switch, audit, history
<1>1. ASSUME NEW c \in Call, Gates(c) PROVE TripInv'
  BY <1>1 DEF Gates, Goto, Decide
<1>2. ASSUME NEW c \in Call, Connect(c) PROVE TripInv'
  BY <1>2 DEF Connect, Goto, Fail
<1>3. ASSUME NEW c \in Call, Probe(c) PROVE TripInv'
  BY <1>3 DEF Probe, Active, Inactive, Goto, Decide, Fail
<1>4. ASSUME NEW c \in Call, Run(c) PROVE TripInv'
  BY <1>4 DEF Run, Goto, Decide
<1>5. ASSUME NEW c \in Call, Record(c) PROVE TripInv'
  BY <1>5 DEF Record, Goto
<1>6. ASSUME NEW c \in Call, Write(c) PROVE TripInv'
  BY <1>6 DEF Write, Goto
<1>7. ASSUME NEW c \in Call, WriteRaises(c) PROVE TripInv'
  BY <1>7 DEF WriteRaises, Goto, Decide, Fail
<1>8. ASSUME NEW c \in Call, Note(c) PROVE TripInv'
  BY <1>8 DEF Note, Goto
<1>9. CASE Restart
  BY <1>9 DEF Restart, Fail
<1>10. CASE Trip
  <2>1. CASE redisUp
    <3>1. redisUp' /\ tripped' /\ mark' = faults /\ faults' = faults
      BY <1>10, <2>1, Zenon DEF Trip
    <3>2. /\ UNCHANGED <<pc, backend>>
          /\ grace' = {c \in Call : \/ pc[c] = "run"
                                    \/ pc[c] = "probe" /\ backend[c] = "file"}
      BY <1>10, <2>1, Zenon DEF Trip
    <3> QED
      BY <3>1, <3>2
  <2>2. CASE ~redisUp
    BY <1>10, <2>2 DEF Trip
  <2> QED
    BY <2>1, <2>2
<1>11. CASE Release
  BY <1>11 DEF Release
<1>12. CASE RedisDown
  BY <1>12 DEF RedisDown, Fail
<1>13. CASE RedisBack
  BY <1>13 DEF RedisBack
<1>14. CASE UNCHANGED vars
  BY <1>14 DEF vars
<1> QED
  BY <1>1, <1>2, <1>3, <1>4, <1>5, <1>6, <1>7, <1>8, <1>9, <1>10, <1>11, <1>12, <1>13, <1>14 DEF Next, Execute

LEMMA Inductive == Spec => []IInv
<1>1. IInv /\ [Next]_vars => IInv'
  BY TypeStep, CommandStep, LineStep, TraceStep, TripStep DEF IInv
<1> QED
  BY <1>1, InitIInv, PTL DEF Spec

(* The executor's and the logger's variables keep their types.             *)
THEOREM TypeCorrect == Spec => []TypeOK
BY Inductive, PTL DEF IInv

(* What the audit file says of a command is what happened to it, for any   *)
(* interleaving of calls, failing writes and restarts: executor.py:239-341 *)
(* with audit.py:97-179.                                                   *)
THEOREM LinesTruthfulThm == Spec => []LinesTruthful
BY Inductive, PTL DEF IInv

(* An answer that names a line names one that is there and is about the    *)
(* same investigation and action; one that names none was refused.         *)
THEOREM AnswerTraceableThm == Spec => []AnswerTraceable
<1>1. IInv => AnswerTraceable
  BY DEF IInv, TraceInv, HasLine, AnswerTraceable, Finished
<1> QED
  BY <1>1, Inductive, PTL

(* Every call reads the switch after its gates and before its command, so  *)
(* a stored trip is only overrun by calls that had read it, or had turned  *)
(* to the flag file, before: executor.py:239-263, 511-524.                 *)
THEOREM TripStopsCommandsThm == Spec => []TripStopsCommands
<1>1. IInv => TripStopsCommands
  BY DEF IInv, TripInv, TripStopsCommands
<1> QED
  BY <1>1, Inductive, PTL
=============================================================================
