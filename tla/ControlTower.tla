---------------------------- MODULE ControlTower ----------------------------
(***************************************************************************)
(* The control tower (src/apps/ai-engine/control_tower/): one              *)
(* investigation asks the kill switch, gathers a context from the wiki and *)
(* the SigNoz fetchers, trims it to the mode's budget, asks the LLM until  *)
(* it answers in JSON, has the guardrails judge the action the answer      *)
(* proposes, and keeps the record under its id.                            *)
(*                                                                         *)
(* Several investigations run on one event loop; each await is a step.     *)
(* They share the kill switch and the register.  Texts are abstracted: a   *)
(* section of the context is its number of rows, the length of the         *)
(* rendered context the sum of the rows' lengths (Length, in units of 200  *)
(* characters, the unit of the trimming steps).                            *)
(***************************************************************************)
EXTENDS Integers, Sequences, FiniteSets, SequencesExt, Functions

CONSTANTS
  Investigation,  \* the ids (uuid4: never reused)
  TraceId,        \* the OTel traces investigations run in
  Untraced,       \* no OpenTelemetry: no trace id
  Configured,     \* call_ceiling_for: mode -> ceiling of the config
  Budget,         \* context_budget_for: mode -> length the context may have
  Found,          \* section -> the numbers of rows the source may return
  Length          \* section -> length of one row

Mode == {"eco", "standard", "deep"}
Sections == <<"wiki", "metrics", "logs", "traces", "history", "patterns">>
Section == ToSet(Sections)

ASSUME TowerAssumption ==
  /\ Untraced \notin TraceId /\ Investigation \intersect TraceId = {}
  /\ Configured \in [Mode -> Nat] /\ Budget \in [Mode -> Nat]
  /\ Length \in [Section -> Nat] /\ Found \in [Section -> SUBSET Nat]

(* Variant: only the config bounds the calls. *)
ConfigCeiling(mode) == Configured[mode]

(* What a mode gathers, in this order, and how often it may ask. *)
ModeSpec(mode) ==
  [eco |-> [sections |-> <<"wiki">>, calls |-> 1],
   standard |-> [sections |-> <<"wiki", "metrics", "logs", "history">>, calls |-> 2],
   deep |-> [sections |-> Sections, calls |-> 3]][mode]
Ceiling(mode) ==
  IF ModeSpec(mode).calls < Configured[mode] THEN ModeSpec(mode).calls ELSE Configured[mode]

(* Rows kept of what a source returned: log_limit and trace_limit, the     *)
(* wiki's limit and the five alerts; an answer without series still makes  *)
(* one metric row.                                                         *)
Limit(section) == IF section = "logs" THEN 10 ELSE 5
Kept(section, n) ==
  CASE section = "metrics" -> IF n = 0 THEN 1 ELSE n
    [] section = "patterns" -> n
    [] OTHER -> IF n > Limit(section) THEN Limit(section) ELSE n

(***************************************************************************)
(* Trimming: in this order each section is cut and the overflow taken to   *)
(* have shrunk by a fixed amount, until none is left.  The last cut ends   *)
(* it whatever is left.                                                    *)
(***************************************************************************)
(* Variant: half of one row is none. *)
EmptyHalf(n) == n \div 2
Half(n) == IF n \div 2 > 1 THEN n \div 2 ELSE 1
Cuts == <<[section |-> "logs", saves |-> 3], [section |-> "traces", saves |-> 2],
          [section |-> "history", saves |-> 1], [section |-> "metrics", saves |-> 1],
          [section |-> "wiki", saves |-> 0]>>
CutTo(section, n) == IF section = "history" THEN (IF n > 2 THEN 2 ELSE n) ELSE Half(n)
Rendered(rows) == SumFunction([s \in Section |-> rows[s] * Length[s]])
Overflow(rows, mode) == Rendered(rows) - Budget[mode]
Cut(state, c) ==
  IF state.over <= 0 \/ state.rows[c.section] = 0 THEN state
  ELSE [rows |-> [state.rows EXCEPT ![c.section] = CutTo(c.section, @)],
        over |-> state.over - c.saves]
Trimmed(rows, mode) ==
  LET logs == Cut([rows |-> rows, over |-> Overflow(rows, mode)], Cuts[1])
      traces == Cut(logs, Cuts[2])
      history == Cut(traces, Cuts[3])
      metrics == Cut(history, Cuts[4])
  IN  Cut(metrics, Cuts[5]).rows

VARIABLES
  switch,    \* the kill switch as is_active() answers: on, off or it raises
  inv,       \* Investigation -> what the running investigate() holds
  register,  \* _investigations, in insertion order
  wired,     \* is there a guardrails engine?
  judged     \* what the engine said, per investigation (ghost)

towerVars == <<switch, inv, register, wired, judged>>

Nothing == [s \in Section |-> 0]
Idle == [at |-> "idle", mode |-> "eco", left |-> <<>>, rows |-> Nothing, found |-> Nothing,
         tries |-> 0, answers |-> 0, reminders |-> 0,
         answer |-> "none", warnings |-> {}]

TowerInit ==
  /\ switch = "off" /\ inv = [i \in Investigation |-> Idle]
  /\ register = <<>> /\ wired \in BOOLEAN /\ judged = [i \in Investigation |-> "unasked"]

Flip(s) == /\ switch # s /\ switch' = s /\ UNCHANGED <<inv, register, wired, judged>>

Record(i, mode) ==
  [id |-> i, mode |-> mode, trace |-> Untraced, answers |-> 0, action |-> "none",
   answer |-> "none", warnings |-> {}]

(* An active switch refuses the investigation, which leaves a record and   *)
(* nothing else; a switch that cannot be read counts as inactive.          *)
Investigate(i, mode) ==
  /\ inv[i].at = "idle"
  /\ IF switch = "on"
     THEN /\ inv' = [inv EXCEPT ![i].at = "done"]
          /\ register' = Append(register, Record(i, "halted"))
     ELSE /\ inv' = [inv EXCEPT ![i].at = "gather", ![i].mode = mode,
            ![i].left = ModeSpec(mode).sections]
          /\ UNCHANGED register
  /\ UNCHANGED <<switch, wired, judged>>

(* One source answers: its rows, or it raises and counts as empty.  The    *)
(* analyzer only runs on log rows.                                         *)
Gather(i) ==
  /\ inv[i].at = "gather" /\ inv[i].left # <<>>
  /\ LET s == Head(inv[i].left) IN
     \E n \in {Kept(s, f) : f \in Found[s]} \union {0} :
       /\ s = "patterns" /\ inv[i].rows["logs"] = 0 => n = 0
       /\ inv' = [inv EXCEPT ![i].left = Tail(@), ![i].rows[s] = n, ![i].found[s] = n]
  /\ UNCHANGED <<switch, register, wired, judged>>

(* _enforce_budget, then the prompt is composed of what is left. *)
Compose(i) ==
  /\ inv[i].at = "gather" /\ inv[i].left = <<>>
  /\ LET over == Overflow(inv[i].rows, inv[i].mode) > 0 IN
     inv' = [inv EXCEPT ![i].at = "ask",
       ![i].rows = IF over THEN Trimmed(@, inv[i].mode) ELSE @]
  /\ UNCHANGED <<switch, register, wired, judged>>

(* The router answers: with JSON of some content, or with prose, which is  *)
(* answered with a reminder; or it raises, which ends the asking.          *)
Ask(i, answer) ==
  /\ inv[i].at = "ask" /\ inv[i].answer \in {"none", "prose"}
  /\ "call_failed" \notin inv[i].warnings
  /\ inv[i].tries < Ceiling(inv[i].mode)
  /\ inv' = [inv EXCEPT ![i].tries = @ + 1,
       ![i].answers = IF answer = "raises" THEN @ ELSE @ + 1,
       ![i].answer = IF answer = "raises" THEN @ ELSE answer,
       ![i].reminders = IF answer = "prose" THEN @ + 1 ELSE @,
       ![i].warnings = IF answer = "raises" THEN @ \union {"call_failed"} ELSE @]
  /\ UNCHANGED <<switch, register, wired, judged>>

Parsed(i) == inv[i].answer \notin {"none", "prose"}
Asked(i) ==
  /\ inv[i].at = "ask"
  /\ Parsed(i) \/ "call_failed" \in inv[i].warnings \/ inv[i].tries >= Ceiling(inv[i].mode)

(* Variant: the tier instead of the verdict. *)
TierProposed(answer, engine) ==
  IF answer = "action" /\ ~wired THEN "SUGGEST" ELSE "none"

(* Variant: an engine that raises lets the suggestion through. *)
OpenProposed(answer, engine) ==
  IF answer # "action" THEN "none"
  ELSE IF wired /\ engine # "denies" THEN "approved" ELSE "held"

(* The action an answer leads to: malformed, it is none; without an engine *)
(* or when the engine raises it stays an unapproved suggestion.            *)
Proposed(answer, engine) ==
  IF answer # "action" THEN "none"
  ELSE IF wired /\ engine = "approves" THEN "approved" ELSE "held"

(* Variant: the held action is not mentioned. *)
SilentConclude(i, engine, trace) ==
  /\ Asked(i) /\ inv[i].answer # "misfit"
  /\ register' = Append(register,
       [Record(i, inv[i].mode) EXCEPT !.trace = trace, !.answers = inv[i].answers,
         !.answer = inv[i].answer, !.action = Proposed(inv[i].answer, engine),
         !.warnings = inv[i].warnings \union (IF Parsed(i) THEN {} ELSE {"unparsed"})])
  /\ inv' = [inv EXCEPT ![i] = [Idle EXCEPT !.at = "done"]]
  /\ judged' = [judged EXCEPT ![i] = IF inv[i].answer = "action" /\ wired THEN engine ELSE @]
  /\ UNCHANGED <<switch, wired>>

Conclude(i, engine, trace) ==
  /\ Asked(i) /\ inv[i].answer # "misfit"
  /\ LET action == Proposed(inv[i].answer, engine)
         warnings == inv[i].warnings \union (IF Parsed(i) THEN {} ELSE {"unparsed"})
                       \union (IF action = "held" THEN {"held"} ELSE {})
     IN register' = Append(register,
          [Record(i, inv[i].mode) EXCEPT !.trace = trace, !.answers = inv[i].answers,
            !.answer = inv[i].answer, !.action = action, !.warnings = warnings])
  /\ inv' = [inv EXCEPT ![i] = [Idle EXCEPT !.at = "done"]]
  /\ judged' = [judged EXCEPT ![i] = IF inv[i].answer = "action" /\ wired THEN engine ELSE @]
  /\ UNCHANGED <<switch, wired>>

(* Variant: what was found so far is kept. *)
KeptRaise(i) ==
  /\ Asked(i) /\ inv[i].answer = "misfit"
  /\ inv' = [inv EXCEPT ![i] = [Idle EXCEPT !.at = "lost"]]
  /\ register' = Append(register, Record(i, inv[i].mode))
  /\ UNCHANGED <<switch, wired, judged>>

(* An answer whose fields do not convert (a blast radius that is no number,*)
(* a source_ref that is no string) raises out of investigate().            *)
Raise(i) ==
  /\ Asked(i) /\ inv[i].answer = "misfit"
  /\ inv' = [inv EXCEPT ![i] = [Idle EXCEPT !.at = "lost"]]
  /\ UNCHANGED <<switch, register, wired, judged>>

Answer == {"raises", "prose", "plain", "action", "misfit"}
Engine == {"raises", "denies", "approves"}

Proceed(i) ==
  \/ Gather(i)
  \/ Compose(i)
  \/ \E answer \in Answer : Ask(i, answer)
  \/ \E engine \in Engine, trace \in TraceId \union {Untraced} : Conclude(i, engine, trace)
  \/ Raise(i)

TowerNext ==
  \/ \E s \in {"on", "off", "unreadable"} : Flip(s)
  \/ \E i \in Investigation : (\E mode \in Mode : Investigate(i, mode)) \/ Proceed(i)

TowerSpec == TowerInit /\ [][TowerNext]_towerVars

(* lookup: the place of the id's record, or else of the first record of    *)
(* the trace; 0 is None.                                                   *)
Lookup(key) ==
  LET ById == {k \in 1..Len(register) : register[k].id = key}
      ByTrace == {k \in 1..Len(register) : register[k].trace # Untraced /\ register[k].trace = key}
      at == IF ById # {} THEN ById ELSE ByTrace
  IN  IF at = {} THEN 0 ELSE Min(at)
-----------------------------------------------------------------------------
Call ==
  [at : {"idle", "gather", "ask", "done", "lost"}, mode : Mode, left : Seq(Section),
   rows : [Section -> Nat], found : [Section -> Nat], tries : Nat, answers : Nat,
   reminders : Nat, answer : {"none"} \union Answer, warnings : SUBSET {"call_failed"}]
Entry ==
  [id : Investigation, mode : Mode \union {"halted"}, trace : TraceId \union {Untraced},
   answers : Nat, action : {"none", "held", "approved"}, answer : {"none"} \union Answer,
   warnings : SUBSET {"call_failed", "unparsed", "held"}]

TowerTypeOK ==
  /\ switch \in {"on", "off", "unreadable"} /\ wired \in BOOLEAN
  /\ judged \in [Investigation -> Engine \union {"unasked"}]
  /\ inv \in [Investigation -> Call] /\ register \in Seq(Entry)

(* The register holds exactly one record for each investigation that came  *)
(* to an end without raising, and lookup finds it under its id; a halted   *)
(* one used no answer and proposes nothing.                                *)
RecordsWhole ==
  /\ \A i \in Investigation : inv[i].at = "done" <=> Lookup(i) # 0
  /\ \A k \in 1..Len(register) :
       /\ register[k].id \in Investigation /\ Lookup(register[k].id) = k
       /\ register[k].mode = "halted" => register[k].answers = 0 /\ register[k].action = "none"

(* The ceiling of the mode and of the config both hold, every prose answer *)
(* was followed up by one reminder, and JSON is only ever the last answer. *)
AskedWithinReason ==
  /\ \A i \in Investigation : inv[i].at = "ask" =>
       /\ inv[i].tries <= ModeSpec(inv[i].mode).calls /\ inv[i].tries <= Configured[inv[i].mode]
       /\ inv[i].answers = inv[i].reminders + (IF Parsed(i) THEN 1 ELSE 0)
       /\ inv[i].tries = inv[i].answers + Cardinality(inv[i].warnings)
  /\ \A k \in 1..Len(register) : register[k].mode # "halted" =>
       register[k].answers <= ModeSpec(register[k].mode).calls

(* An approval is the engine's: a tower without one, an engine that raises *)
(* or denies, and a malformed suggestion never yield an approved action.   *)
ApprovalIsTheEngines ==
  \A k \in 1..Len(register) : register[k].action = "approved" =>
    wired /\ judged[register[k].id] = "approves"

(* A record that rests on no JSON answer says so, and one whose action was *)
(* held says that; a failed call is never hidden behind an answer.         *)
ShortfallsWarned ==
  \A k \in 1..Len(register) : register[k].mode # "halted" =>
    /\ ("unparsed" \in register[k].warnings) = (register[k].answer \in {"none", "prose"})
    /\ ("held" \in register[k].warnings) = (register[k].action = "held")
    /\ "call_failed" \in register[k].warnings => "unparsed" \in register[k].warnings

(* Trimming happens only to a context over its budget, leaves something of *)
(* every section that had rows, and reaches a section only after those     *)
(* before it in the code's fixed order (LargestFirst is not so); what is   *)
(* not trimmed is as the source gave it.                                   *)
TrimKeepsSome ==
  \A i \in Investigation : inv[i].at = "ask" =>
    LET rows == inv[i].rows
        found == inv[i].found
        CutAt(k) == LET s == Cuts[k].section IN rows[s] < found[s]
        Cuttable(k) == LET s == Cuts[k].section IN found[s] > CutTo(s, found[s])
    IN /\ \A s \in Section : rows[s] <= found[s] /\ (found[s] > 0 => rows[s] > 0)
       /\ rows["patterns"] = found["patterns"]
       /\ (\E k \in 1..Len(Cuts) : CutAt(k)) => Overflow(found, inv[i].mode) > 0
       /\ \A k \in 1..Len(Cuts) : CutAt(k) => \A j \in 1..(k - 1) : Cuttable(j) => CutAt(j)

(* An investigation that comes to an end without raising, whatever source, *)
(* call or engine fails on its way, leaves a whole record that tells its   *)
(* shortfalls and oversteps neither the LLM's nor the engine's bounds; one *)
(* whose answer does not convert raises and leaves none (MalformedIsNone). *)
InvestigationSound ==
  TowerTypeOK /\ RecordsWhole /\ AskedWithinReason /\ ApprovalIsTheEngines /\ ShortfallsWarned
    /\ TrimKeepsSome

-----------------------------------------------------------------------------
(* What the comments say and the code does not do (no run checks these).   *)

(* "Trim context elements to stay under the token budget"                  *)
(* (context_builder.py:406): each section is cut once, and metrics and the *)
(* analyzer's report have no limit of their own.                           *)
BudgetKept ==
  \A i \in Investigation : inv[i].at = "ask" => Overflow(inv[i].rows, inv[i].mode) <= 0

(* "Trim largest contributors first" (context_builder.py:408): the order   *)
(* of the sections is fixed, whatever they contribute.                     *)
LargestFirst ==
  \A i \in Investigation : inv[i].at = "ask" =>
    LET rows == inv[i].rows
        found == inv[i].found
        CutAt(s) == rows[s] < found[s]
    IN  \A j, k \in 1..Len(Cuts) :
          LET s == Cuts[j].section
              t == Cuts[k].section
          IN  CutAt(s) /\ found[t] > CutTo(t, found[t])
                /\ found[t] * Length[t] > found[s] * Length[s] => CutAt(t)

(* A malformed suggestion gives None (action.py:11-12, :67-69): int() of a *)
(* blast radius that is no number (action.py:41) raises instead, out of    *)
(* investigate() (orchestrator.py:289-294), which leaves no record.        *)
MalformedIsNone == \A i \in Investigation : inv[i].at # "lost"

(* The switch is asked once: one thrown during the gathering does not stop *)
(* the calls that follow.                                                  *)
SwitchStopsCalls ==
  [][switch = "on" => \A i \in Investigation : inv'[i].tries <= inv[i].tries]_towerVars
=============================================================================
