-------------------------------- MODULE MCLlm -------------------------------
(***************************************************************************)
(* Small instances of the router, the redacting proxy, its detector and    *)
(* the honey tokens.  The four share no state: a behaviour is one of one   *)
(* of them, the others rest.                                               *)
(***************************************************************************)
EXTENDS Router, PIIProxy, Scans

CONSTANTS v1, v2, v3, HOST, EMAIL, a, b
VARIABLE part

vars == <<part, routerVars, proxyVars, detectorVars, honeyVars>>

(* Up to two signals, or three when one of them is a sanitized marker.     *)
SmallPrompts ==
  {{s, t} : s, t \in Signal} \union {{s, t, "markers"} : s, t \in Signal} \union {{}}
Configured(detect, always, fallback, backend) ==
  [sensitive_backend |-> backend, sanitized_backend |-> "claude", auto_detect |-> detect,
   always_local |-> always, sensitive_keywords |-> {"keyword"}, fallback |-> fallback]
Default == Configured(TRUE, FALSE, FALSE, "ollama")
SmallConfigs ==
  {Default, Configured(TRUE, FALSE, TRUE, "ollama"), Configured(TRUE, TRUE, FALSE, "ollama"),
   Configured(TRUE, TRUE, TRUE, "ollama"), Configured(FALSE, FALSE, FALSE, "ollama"),
   Configured(TRUE, FALSE, FALSE, "claude")}

Categories == [v \in Value |-> IF v = v3 THEN EMAIL ELSE HOST]
SmallInvented == {HOST, EMAIL} \X (1..2)
Text(items) == [text |-> items, block |-> TRUE]
ToolResult(items) == [text |-> items, block |-> FALSE]
SmallRequests ==
  {<<Text(<<v1, Plain>>), Text(<<v2, v1>>)>>, <<Text(<<v2>>), Text(<<v3>>)>>,
   <<ToolResult(<<v1>>), Text(<<v3, <<HOST, 1>>>>)>>}

SmallMarkers == {<<a, b, a>>, <<b, a>>}
SmallTexts == {<<a, b, a, b, a>>, <<b, b>>}

Init ==
  /\ part \in {"router", "proxy", "detector", "honey"}
  /\ RouterInit /\ ProxyInit /\ DetectorInit /\ HoneyInit
  /\ part # "router" => config = Default

Next ==
  \/ part = "router" /\ RouterNext /\ UNCHANGED <<part, proxyVars, detectorVars, honeyVars>>
  \/ part = "proxy" /\ ProxyNext /\ UNCHANGED <<part, routerVars, detectorVars, honeyVars>>
  \/ part = "detector" /\ DetectorNext /\ UNCHANGED <<part, routerVars, proxyVars, honeyVars>>
  \/ part = "honey" /\ HoneyNext /\ UNCHANGED <<part, routerVars, proxyVars, detectorVars>>

Spec == Init /\ [][Next]_vars

=============================================================================
