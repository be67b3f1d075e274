------------------------------- MODULE Router -------------------------------
(***************************************************************************)
(* The LLM router (llm_router): a call is classified, sent to the local    *)
(* backend (Ollama) or to the cloud (Claude), and, when the local daemon   *)
(* is unavailable and the operator allowed it, sent once more to the cloud.*)
(* A prompt is the set of signals the classifier finds in it.  The router  *)
(* keeps no state between calls, so a behaviour is one call.                *)
(***************************************************************************)
EXTENDS Integers, Sequences, FiniteSetsExt

CONSTANTS Prompts,    \* the prompts asked, sets of signals
          Configs,    \* the configurations, LLMRouterConfig
          MaxChunks   \* bound on the chunks of a streamed answer

Weight == [email |-> 3, krn |-> 5, card |-> 4, auth |-> 4, arn |-> 4, host |-> 2,
           pod |-> 2, account |-> 2, ip |-> 2, keyword |-> 3, codename |-> 3,
           markers |-> -2, large |-> 1]
Signal == DOMAIN Weight
Keyword == {"keyword", "codename"}
Backend == {"ollama", "claude"}
Mode == {"auto", "local", "cloud"}
Override == {"unset", "sensitive", "sanitized"}
Config == [sensitive_backend : Backend, sanitized_backend : Backend,
           auto_detect : BOOLEAN, always_local : BOOLEAN,
           sensitive_keywords : SUBSET Keyword, fallback : BOOLEAN]

ASSUME RouterAssumption ==
  Prompts \subseteq SUBSET Signal /\ Configs \subseteq Config /\ MaxChunks \in Nat

VARIABLES config,  \* the router's configuration
          call     \* the caller's call, with the backends it was sent to

routerVars == <<config, call>>

Decision == [backend : Backend,
             override : {"none", "always_local", "explicit_local", "explicit_cloud",
                         "sensitivity_override", "fallback_to_cloud"}]
Call == [at : {"asked", "answered", "raised"}, stream : BOOLEAN, prompt : Prompts,
         mode : Mode, override : Override, decision : Decision,
         sent : Seq(Backend), chunks : Seq(Backend)]
NoCall == [at |-> "idle"]

RouterTypeOK == config \in Configs /\ call \in {NoCall} \union Call

RouterInit == config \in Configs /\ call = NoCall

-----------------------------------------------------------------------------
(* Faulty variants: markers that outweigh two signals, a decision that     *)
(* keeps the backend that failed, a fallback to a backend nobody knows, a  *)
(* piece of whichever backend.                                             *)
LooseScore(p) ==
  MapThenSumSet(LAMBDA s : IF s = "markers" THEN -4 ELSE Weight[s],
                p \ (Keyword \ config.sensitive_keywords))
UntoldFallback ==
  /\ call.at = "asked" /\ call.decision.backend = "ollama" /\ config.fallback
  /\ call' = [call EXCEPT !.sent = Append(@, "claude")]
  /\ UNCHANGED config
NamedFallback ==
  /\ call.at = "asked" /\ call.decision.backend = "ollama" /\ config.fallback
  /\ call' = [call EXCEPT !.decision = [backend |-> "cloud", override |-> "fallback_to_cloud"],
                          !.sent = Append(@, "claude")]
  /\ UNCHANGED config
LateChunk ==
  /\ call.at = "asked" /\ call.stream /\ Len(call.chunks) < MaxChunks
  /\ \E b \in Backend : call' = [call EXCEPT !.chunks = Append(@, b)]
  /\ UNCHANGED config

-----------------------------------------------------------------------------
(* The signals that count: a keyword does only when the config lists it.   *)
Counted(p) == p \ (Keyword \ config.sensitive_keywords)
Score(p) == MapThenSumSet(LAMBDA s : Weight[s], Counted(p))
Level(p) ==
  IF Score(p) >= 4 THEN "sensitive" ELSE IF Score(p) >= 2 THEN "borderline" ELSE "sanitized"
IsSensitive(p) == Level(p) \in {"sensitive", "borderline"}

Decide(p, mode, override) ==
  LET To(b, why) == [backend |-> b, override |-> why] IN
  IF config.always_local THEN To(config.sensitive_backend, "always_local")
  ELSE IF mode = "local" THEN To(config.sensitive_backend, "explicit_local")
  ELSE IF mode = "cloud" THEN To(config.sanitized_backend, "explicit_cloud")
  ELSE IF override # "unset"
    THEN To(IF override = "sensitive" THEN config.sensitive_backend
            ELSE config.sanitized_backend, "sensitivity_override")
  ELSE To(IF config.auto_detect /\ IsSensitive(p) THEN config.sensitive_backend
          ELSE config.sanitized_backend, "none")

(* complete and stream decide, then ask the backend of the decision.       *)
Ask(p, mode, override, stream) ==
  LET d == Decide(p, mode, override) IN
  /\ call' = [at |-> "asked", stream |-> stream, prompt |-> p, mode |-> mode,
              override |-> override, decision |-> d, sent |-> <<d.backend>>,
              chunks |-> <<>>]
  /\ UNCHANGED config

(* A streamed piece is handed to the caller as it comes.                   *)
Chunk ==
  /\ call.at = "asked" /\ call.stream /\ Len(call.chunks) < MaxChunks
  /\ call' = [call EXCEPT !.chunks = Append(@, call.decision.backend)]
  /\ UNCHANGED config

(* The backend's answer, or the end of its stream.                         *)
Answer ==
  /\ call.at = "asked"
  /\ call' = [call EXCEPT !.at = "answered",
                          !.chunks = IF call.stream THEN @ ELSE <<call.decision.backend>>]
  /\ UNCHANGED config

(* OllamaUnavailable (no connection, a lost one, an HTTP error), before or *)
(* in the middle of an answer, without leave to fall back: the caller sees *)
(* the error.                                                              *)
FailLoudly ==
  /\ call.at = "asked" /\ call.decision.backend = "ollama" /\ ~config.fallback
  /\ call' = [call EXCEPT !.at = "raised"]
  /\ UNCHANGED config

(* With leave: the prompt goes to Claude, whose answer follows what was    *)
(* already handed over.                                                    *)
Fallback ==
  /\ call.at = "asked" /\ call.decision.backend = "ollama" /\ config.fallback
  /\ call' = [call EXCEPT !.decision = [backend |-> "claude", override |-> "fallback_to_cloud"],
                          !.sent = Append(@, "claude")]
  /\ UNCHANGED config

(* A time-out, unreadable JSON or an error of the cloud is nobody's to     *)
(* handle here.                                                            *)
OtherError ==
  /\ call.at = "asked"
  /\ call' = [call EXCEPT !.at = "raised"]
  /\ UNCHANGED config

RouterNext ==
  \/ call = NoCall /\ \E p \in Prompts, m \in Mode, o \in Override, s \in BOOLEAN : Ask(p, m, o, s)
  \/ Chunk \/ Answer \/ FailLoudly \/ Fallback \/ OtherError

RouterSpec == RouterInit /\ [][RouterNext]_routerVars

-----------------------------------------------------------------------------
Soft == {"email", "host", "pod", "account", "ip"} \union Keyword
Hard == {"krn", "card", "auth", "arn"}

(* What the weighing never lets through: a hard signal, two soft ones, or  *)
(* one without a marker that says it was sanitized.                        *)
Telling(p) ==
  \/ Counted(p) \cap Hard # {}
  \/ Cardinality(Counted(p) \cap Soft) >= 2
  \/ Counted(p) \cap Soft # {} /\ "markers" \notin p

MustStayLocal ==
  \/ config.always_local \/ call.mode = "local"
  \/ /\ call.mode = "auto"
     /\ \/ call.override = "sensitive"
        \/ call.override = "unset" /\ config.auto_detect /\ Telling(call.prompt)

(* Production data stays on the premises: unless the operator configured   *)
(* the cloud for it or allowed the fallback, a call that must stay local   *)
(* is never sent to Claude, on any path (router.py, sensitivity.py).       *)
StaysLocal ==
  call.at # "idle" /\ MustStayLocal /\ config.sensitive_backend = "ollama" /\ ~config.fallback
    => \A i \in 1..Len(call.sent) : call.sent[i] # "claude"

(* The decision logged and attached to an answer names the backend that    *)
(* gave its last part, and says so when that was a fallback; the fallback  *)
(* is tried once and the local backend is not asked again.                 *)
DecisionTellsAll ==
  call.at = "answered" =>
    /\ call.sent[Len(call.sent)] = call.decision.backend
    /\ call.sent \in {<<"ollama">>, <<"claude">>, <<"ollama", "claude">>}
    /\ (call.decision.override = "fallback_to_cloud") = (Len(call.sent) = 2)
    /\ call.stream \/ call.chunks = <<call.decision.backend>>

(* The pieces of a stream come in the order the backends were asked: no    *)
(* local piece follows a cloud piece (router.stream).                      *)
PiecesInOrder ==
  call.at # "idle" =>
    \A i, j \in 1..Len(call.chunks) :
      i < j /\ call.chunks[i] = "claude" => call.chunks[j] = "claude"

(* A sensitive prompt stays local, and the caller is told who answered.    *)
RoutingSound == RouterTypeOK /\ StaysLocal /\ DecisionTellsAll /\ PiecesInOrder

(* config.py says of always_local that every call goes to the local        *)
(* backend and cross-border transfer is never permitted.  Not so when the  *)
(* fallback is allowed too, or the sensitive backend is the cloud.         *)
AlwaysLocalIsLocal ==
  call.at # "idle" /\ config.always_local
    => \A i \in 1..Len(call.sent) : call.sent[i] # "claude"

(* config.py:52-55 says that a listed keyword forces a prompt to be        *)
(* classified sensitive.  Not so beside a marker of sanitized text, which  *)
(* takes 2 of the keyword's 3.                                             *)
KeywordsForceSensitive ==
  call.at # "idle" /\ call.mode = "auto" /\ call.override = "unset" /\ config.auto_detect
      /\ config.sensitive_backend = "ollama" /\ ~config.always_local /\ ~config.fallback
      /\ Counted(call.prompt) \cap Keyword # {}
    => \A i \in 1..Len(call.sent) : call.sent[i] # "claude"

(* A streamed answer of one backend: not so after a fallback, when half an *)
(* answer of Ollama is followed by a whole one of Claude.                  *)
OneVoice ==
  call.at = "answered" => \A i, j \in 1..Len(call.chunks) : call.chunks[i] = call.chunks[j]
=============================================================================
