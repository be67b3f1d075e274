-------------------------------- MODULE Agent -------------------------------
(***************************************************************************)
(* The investigating agent (agents/orchestrator.py) with its tool server   *)
(* and its token tracker (services/token_tracker.py).                      *)
(*                                                                         *)
(* An investigation runs its phases one after the other.  A phase asks     *)
(* Claude, executes the tool calls of the answer one by one, hands the     *)
(* results back and goes on until Claude answers with text.  Investigations*)
(* share one server and one tracker; execute_tool is called without the    *)
(* investigation's id, so all of them ask under the key of NoId.           *)
(***************************************************************************)
EXTENDS ToolServer

CONSTANTS Incident,    \* incident ids, the tracker's investigation ids
          Phases,      \* number of phases (four in the code)
          MaxTurns,    \* bound on the answers of Claude per investigation
          MaxHistory,  \* TokenTracker.max_history
          NoRecord     \* finish_tracking found no record

ASSUME PhaseAssumption == Phases \in Nat \ {0} /\ MaxTurns \in Nat
ASSUME HistoryAssumption == MaxHistory \in Nat \ {0} /\ NoRecord \notin Nat

VARIABLES
  agent,    \* the investigations
  count,    \* api_calls of the tracker's record of each incident
  tracked,  \* incidents in _active
  history   \* _history: incident and api_calls of finished records

ownVars == <<agent, count, tracked, history>>
agentVars == <<serverVars, ownVars>>

Idle == [at |-> "idle"]
Record == [incident : Incident, calls : Nat]
Busy == [at : {"claude", "tools"}, incident : Incident, phase : 1..Phases,
         uses : Seq(Tool), results : Seq({"unknown", "queued", "result", "raised"}),
         made : Nat, alone : BOOLEAN]
Over == [at : {"completed", "failed"}, incident : Incident, made : Nat, alone : BOOLEAN,
         kept : Nat \union {NoRecord}, usage : Nat \union {NoRecord}]

AgentTypeOK ==
  /\ ServerTypeOK
  /\ agent \in [Caller -> {Idle} \union Busy \union Over]
  /\ count \in [Incident -> Nat] /\ tracked \in SUBSET Incident
  /\ history \in Seq(Record) /\ Len(history) <= MaxHistory

AgentsInit ==
  /\ ServerInit
  /\ agent = [a \in Caller |-> Idle]
  /\ count = [i \in Incident |-> 0] /\ tracked = {} /\ history = <<>>

InProgress == {a \in Caller : agent[a].at \in {"claude", "tools"}}

-----------------------------------------------------------------------------
(* Faulty variants: a tool that raises leaves no result, an API error that *)
(* leaves the record active, a record counted from the one before it, a    *)
(* history without its cap.                                                *)
DroppingCollect(a) ==
  /\ agent[a].at = "tools" /\ calls[a].at = "answered"
  /\ agent' = [agent EXCEPT ![a].at = "claude",
                            ![a].results = IF calls[a].out = "raised" THEN @
                                           ELSE Append(@, calls[a].out)]
  /\ calls' = [calls EXCEPT ![a] = NoCall]
  /\ UNCHANGED <<manifest, built, tools, pending, audit, logged, grants, spent,
                 count, tracked, history>>

(* kept is the record that went to the history.  A completed run reports   *)
(* its usage; _error_result reports zeros whatever was recorded.           *)
Ended(a, how, made, rec) ==
  [at |-> how, incident |-> agent[a].incident, made |-> made,
   alone |-> agent[a].alone, kept |-> rec,
   usage |-> IF how = "completed" THEN rec ELSE 0]
LeakyApiError(a) ==
  /\ agent[a].at = "claude"
  /\ agent' = [agent EXCEPT ![a] = Ended(a, "failed", agent[a].made, NoRecord)]
  /\ UNCHANGED <<serverVars, count, tracked, history>>

ResumedTracking(i) == tracked' = tracked \union {i} /\ UNCHANGED count
UncappedHistory(r) == Append(history, r)

-----------------------------------------------------------------------------
(* start_tracking replaces a record that is active under the same id.      *)
StartTracking(i) ==
  /\ tracked' = tracked \union {i}
  /\ count' = [count EXCEPT ![i] = 0]

(* record_api_call: nothing is counted for an id that is not tracked.      *)
Counted(i) == IF i \in tracked THEN [count EXCEPT ![i] = @ + 1] ELSE count

(* finish_tracking: the record moves to the history, newest last.          *)
Remembered(r) == LET s == Append(history, r)
                 IN IF Len(s) > MaxHistory THEN Tail(s) ELSE s
FinishTracking(a, how, made, cnt) ==
  LET i == agent[a].incident IN
  /\ tracked' = tracked \ {i} /\ count' = cnt
  /\ history' = IF i \in tracked THEN Remembered([incident |-> i, calls |-> cnt[i]])
                ELSE history
  /\ agent' = [agent EXCEPT ![a] =
                 Ended(a, how, made, IF i \in tracked THEN cnt[i] ELSE NoRecord)]

(* investigate: alone tells whether another run has the same incident.     *)
Begin(a, i) ==
  LET others == {b \in InProgress : agent[b].incident = i} IN
  /\ built /\ agent[a].at = "idle"
  /\ agent' = [b \in Caller |->
       IF b = a THEN [at |-> "claude", incident |-> i, phase |-> 1, uses |-> <<>>,
                      results |-> <<>>, made |-> 0, alone |-> others = {}]
       ELSE IF b \in others THEN [agent[b] EXCEPT !.alone = FALSE] ELSE agent[b]]
  /\ StartTracking(i)
  /\ UNCHANGED <<serverVars, history>>

(* messages.create returns an answer that asks for tools, once or twice.   *)
AsksForTools(a) ==
  /\ agent[a].at = "claude" /\ agent[a].made < MaxTurns
  /\ \E uses \in {<<t>> : t \in Tool} \union (Tool \X Tool) :
       agent' = [agent EXCEPT ![a].at = "tools", ![a].made = @ + 1,
                              ![a].uses = uses, ![a].results = <<>>]
  /\ count' = Counted(agent[a].incident)
  /\ UNCHANGED <<serverVars, tracked, history>>

(* It returns text: the next phase, or the result after the last one.      *)
NextPhase(a) ==
  /\ agent[a].at = "claude" /\ agent[a].made < MaxTurns /\ agent[a].phase < Phases
  /\ agent' = [agent EXCEPT ![a].phase = @ + 1, ![a].made = @ + 1,
                            ![a].uses = <<>>, ![a].results = <<>>]
  /\ count' = Counted(agent[a].incident)
  /\ UNCHANGED <<serverVars, tracked, history>>

Complete(a) ==
  /\ agent[a].at = "claude" /\ agent[a].phase = Phases
  /\ FinishTracking(a, "completed", agent[a].made + 1, Counted(agent[a].incident))
  /\ UNCHANGED serverVars

(* messages.create raises: the record is finished, what it says is dropped.*)
ApiError(a) ==
  /\ agent[a].at = "claude"
  /\ FinishTracking(a, "failed", agent[a].made, count)
  /\ UNCHANGED serverVars

(* _execute_tools: one block after the other, through execute_tool.        *)
CallTool(a) ==
  /\ agent[a].at = "tools"
  /\ Ask(a, NoId, agent[a].uses[Len(agent[a].results) + 1])
  /\ UNCHANGED ownVars

(* The answer, or the exception, becomes the tool_result of its block.     *)
Collect(a) ==
  /\ agent[a].at = "tools" /\ calls[a].at = "answered"
  /\ LET results == Append(agent[a].results, calls[a].out) IN
     agent' = [agent EXCEPT
       ![a].results = results,
       ![a].at = IF Len(results) = Len(agent[a].uses) THEN "claude" ELSE "tools"]
  /\ calls' = [calls EXCEPT ![a] = NoCall]
  /\ UNCHANGED <<manifest, built, tools, pending, audit, logged, grants, spent,
                 count, tracked, history>>

AgentsNext ==
  \/ \E t \in Scoped, s \in {"read", "write", "blocked"} : Register(t, s) /\ UNCHANGED ownVars
  \/ Build /\ UNCHANGED ownVars
  \/ \E k \in Key : Grant(k) /\ UNCHANGED ownVars
  \/ \E a \in Caller :
       \/ \E i \in Incident : Begin(a, i)
       \/ AsksForTools(a) \/ NextPhase(a) \/ Complete(a) \/ ApiError(a)
       \/ CallTool(a) \/ Collect(a)
       \/ Handled(a) /\ UNCHANGED ownVars

AgentsSpec == AgentsInit /\ [][AgentsNext]_agentVars

-----------------------------------------------------------------------------
(* When Claude is asked again, every tool call of its last answer has a    *)
(* result, whether the tool was unknown, queued, raised or ran: the        *)
(* Messages API refuses a conversation that misses one.                    *)
EveryUseAnswered ==
  \A a \in InProgress :
    /\ agent[a].at = "claude" => Len(agent[a].results) = Len(agent[a].uses)
    /\ agent[a].at = "tools" => Len(agent[a].results) < Len(agent[a].uses)

(* The record an investigation leaves in the history counts its own API    *)
(* calls, also when it fails, and a completed one reports that many,       *)
(* unless another run of the same incident overlapped it; no record stays  *)
(* active after the last run of its incident, failures included.           *)
UsageIsOwn ==
  /\ \A a \in Caller : agent[a].at \in {"completed", "failed"} /\ agent[a].alone
       => /\ agent[a].kept = agent[a].made
          /\ agent[a].at = "completed" => agent[a].usage = agent[a].made
  /\ tracked \subseteq {agent[a].incident : a \in InProgress}

(* Between the investigations and the shared server and tracker: what runs *)
(* is served and granted, and every call is answered, logged and counted.  *)
ToolUseSound ==
  /\ [](AgentTypeOK /\ BlockedNeverServed /\ OneRunPerGrant /\ EveryUseAnswered /\ UsageIsOwn)
  /\ AnswersAudited

=============================================================================
