----------------------------- MODULE ToolServer -----------------------------
(***************************************************************************)
(* The tools an agent may call (mcp/manifest.py, scoped_tool.py,           *)
(* scope_config.py, server.py).                                            *)
(*                                                                         *)
(* Modules register scoped tools in the manifest when they are imported;   *)
(* MCPServer is built once and from then on serves the legacy catalogues   *)
(* and the scoped tools its configuration loads, without the blocked ones. *)
(* A call of a tool that needs approval is queued under the key            *)
(* "investigation:tool" until an operator grants it, and the next call     *)
(* under that key consumes the grant.  Every call leaves a line in a       *)
(* rolling audit log.  The handlers are mocks that never suspend today; a  *)
(* call may nevertheless wait in its handler here, as it will when they    *)
(* reach their backends.                                                   *)
(***************************************************************************)
EXTENDS Naturals, Sequences

CONSTANTS Legacy,        \* names in the observability, infrastructure, workflow catalogues
          NeedsApproval, \* those with requires_approval
          Scoped,        \* names that modules register in the manifest
          BlockedNames,  \* MCPScopeConfig.blocked_tool_names
          LoadRead, LoadWrite,
          Investigation, \* investigation ids, NoId among them
          NoId,          \* the default ""
          Caller,        \* coroutines that call execute_tool
          MaxAudit       \* _max_audit_entries

ASSUME ToolAssumption == NeedsApproval \subseteq Legacy /\ NoId \in Investigation
ASSUME AuditAssumption == MaxAudit \in Nat \ {0}

Tool == Legacy \union Scoped
Key == Investigation \X Tool
NoCall == [at |-> "idle"]

VARIABLES
  manifest,  \* _all_registered: the scope of each scoped name, "none" before
  built,     \* MCPServer() was called
  tools,     \* self.tools
  pending,   \* _pending_approvals: keys that are queued, keys that are granted
  calls,     \* what each caller is doing
  audit,     \* _audit_log, newest last
  logged,    \* history: lines ever recorded
  grants,    \* history: grants given under each key
  spent      \* history: runs that consumed a grant of the key

serverVars == <<manifest, built, tools, pending, calls, audit, logged, grants, spent>>

CallType == {NoCall} \union [at : {"handler"}, inv : Investigation, tool : Tool]
              \union [at : {"answered"}, out : {"unknown", "queued", "result", "raised"}]
Line == [tool : Tool, says : {"denied", "success", "error"}]

ServerTypeOK ==
  /\ manifest \in [Scoped -> {"none", "read", "write", "blocked"}]
  /\ built \in BOOLEAN /\ tools \in SUBSET Tool
  /\ pending \in [Key -> {"none", "queued", "granted"}]
  /\ calls \in [Caller -> CallType]
  /\ audit \in Seq(Line) /\ Len(audit) <= MaxAudit /\ logged \in Nat
  /\ grants \in [Key -> Nat] /\ spent \in [Key -> Nat]

ServerInit ==
  /\ manifest = [t \in Scoped |-> "none"] /\ built = FALSE /\ tools = {}
  /\ pending = [k \in Key |-> "none"] /\ calls = [c \in Caller |-> NoCall]
  /\ audit = <<>> /\ logged = 0
  /\ grants = [k \in Key |-> 0] /\ spent = [k \in Key |-> 0]

-----------------------------------------------------------------------------
(* Faulty variants of the definitions below: a registration that changes   *)
(* the scope of a tool, a grant that is not consumed, a log that keeps its *)
(* oldest lines, a refusal that leaves no line.                            *)
Rescoped(t, s) == [manifest EXCEPT ![t] = s]
LastingGrant(k) == UNCHANGED pending /\ spent' = [spent EXCEPT ![k] = @ + 1]
OldestLog(line) == /\ audit' = IF Len(audit) < MaxAudit THEN Append(audit, line) ELSE audit
                   /\ logged' = logged + 1
EndlessLog(line) == audit' = Append(audit, line) /\ logged' = logged + 1

-----------------------------------------------------------------------------
(* register: another scope under a known name raises ValueError.           *)
Registered(t, s) ==
  IF manifest[t] \in {"none", s} THEN [manifest EXCEPT ![t] = s] ELSE manifest

Register(t, s) ==
  /\ manifest' = Registered(t, s)
  /\ UNCHANGED <<built, tools, pending, calls, audit, logged, grants, spent>>

(* load_scope, load_all_allowed, both with the blocklist applied again.    *)
Loaded == {t \in Scoped \ BlockedNames :
             \/ manifest[t] = "read" /\ LoadRead
             \/ manifest[t] = "write" /\ LoadWrite}

(* _register_tools, once: later registrations do not reach the server.     *)
Build ==
  /\ ~built /\ built' = TRUE
  /\ tools' = (Legacy \ BlockedNames) \union Loaded
  /\ UNCHANGED <<manifest, pending, calls, audit, logged, grants, spent>>

(* _record_audit keeps the newest lines.                                   *)
Audit(line) ==
  /\ audit' = LET s == Append(audit, line)
              IN IF Len(s) > MaxAudit THEN Tail(s) ELSE s
  /\ logged' = logged + 1

(* _check_approval: the grant is consumed by the call it lets through.     *)
Consume(k) ==
  /\ pending' = [pending EXCEPT ![k] = "none"]
  /\ spent' = [spent EXCEPT ![k] = @ + 1]

(* execute_tool up to the handler.  An unknown tool raises; a call without *)
(* its approval is audited, queued (again) and answered at once.           *)
Ask(c, inv, t) ==
  /\ built /\ calls[c].at = "idle"
  /\ LET k == <<inv, t>>
         enter == calls' = [calls EXCEPT ![c] = [at |-> "handler", inv |-> inv, tool |-> t]]
         answer(out) == calls' = [calls EXCEPT ![c] = [at |-> "answered", out |-> out]]
     IN \/ t \notin tools /\ answer("unknown")
           /\ UNCHANGED <<pending, audit, logged, spent>>
        \/ /\ t \in tools \ NeedsApproval /\ enter
           /\ UNCHANGED <<pending, audit, logged, spent>>
        \/ /\ t \in tools \cap NeedsApproval /\ pending[k] = "granted" /\ enter
           /\ Consume(k) /\ UNCHANGED <<audit, logged>>
        \/ /\ t \in tools \cap NeedsApproval /\ pending[k] # "granted" /\ answer("queued")
           /\ Audit([tool |-> t, says |-> "denied"])
           /\ pending' = [pending EXCEPT ![k] = "queued"]
           /\ UNCHANGED spent
  /\ UNCHANGED <<manifest, built, tools, grants>>

(* _route_tool_execution: the legacy tools have handlers, which answer or  *)
(* raise; a scoped tool has none, and calling it raises.                   *)
Outcomes(t) == IF t \in Legacy THEN {"result", "raised"} ELSE {"raised"}

(* The line is written before the answer reaches the caller.               *)
Handled(c) ==
  /\ calls[c].at = "handler"
  /\ \E out \in Outcomes(calls[c].tool) :
       /\ calls' = [calls EXCEPT ![c] = [at |-> "answered", out |-> out]]
       /\ Audit([tool |-> calls[c].tool,
                 says |-> IF out = "result" THEN "success" ELSE "error"])
  /\ UNCHANGED <<manifest, built, tools, pending, grants, spent>>

(* grant_approval: an operator approves whatever the key holds now.        *)
Grant(k) ==
  /\ pending[k] # "none"
  /\ pending' = [pending EXCEPT ![k] = "granted"]
  /\ grants' = IF pending[k] = "queued" THEN [grants EXCEPT ![k] = @ + 1] ELSE grants
  /\ UNCHANGED <<manifest, built, tools, calls, audit, logged, spent>>

-----------------------------------------------------------------------------
(* No tool on the blocklist is served or running, and no scoped tool that  *)
(* any module registered as blocked, whatever the order of the imports     *)
(* (manifest.py:6).  Legacy tools are kept out by the blocklist only.      *)
Running == {calls[c].tool : c \in {d \in Caller : calls[d].at = "handler"}}
BlockedNeverServed ==
  \A t \in tools \union Running :
    t \notin BlockedNames /\ (t \notin Legacy => manifest[t] # "blocked")

(* However calls, repeated queueing and repeated grants interleave, a tool *)
(* that needs approval runs at most once for each grant given under its    *)
(* key (server.py:651).                                                    *)
OneRunPerGrant ==
  \A k \in Key : grants[k] = spent[k] + (IF pending[k] = "granted" THEN 1 ELSE 0)

(* A caller hears of a refusal, a result or an exception only when a line  *)
(* that says so is the newest of the log, which drops no line before it is *)
(* full and then its oldest (server.py:699).                               *)
Says(out) == CASE out = "queued" -> "denied" [] out = "result" -> "success"
               [] out = "raised" -> "error"
AnswersAudited ==
  [][\A c \in Caller :
       calls[c].at # "answered" /\ calls'[c].at = "answered" /\ calls'[c].out # "unknown"
       => LET n == Len(audit') IN
          /\ n = IF logged < MaxAudit THEN logged + 1 ELSE MaxAudit
          /\ audit'[n].says = Says(calls'[c].out)
          /\ \A i \in 1..(n - 1) : audit'[i] = audit[i + Len(audit) + 1 - n]]_serverVars
=============================================================================
