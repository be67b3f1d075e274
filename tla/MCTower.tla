------------------------------- MODULE MCTower ------------------------------
(***************************************************************************)
(* Small instances of the control tower, the SigNoz connector and the      *)
(* pattern analyzer.  The three share no state: a behaviour is one of one  *)
(* of them, the others rest.                                               *)
(***************************************************************************)
EXTENDS ControlTower, Connector, PatternAnalyzer

CONSTANTS i1, i2, web, db, c, d, x, y, z
VARIABLE part

vars == <<part, towerVars, connectorVars, analyzerVars>>

SmallCeilings == [m \in Mode |-> IF m = "standard" THEN 1 ELSE 3]
(* Standard always fits; deep overflows by a little or by more than the    *)
(* fixed savings of every cut.                                             *)
SmallBudgets == [m \in Mode |-> IF m = "deep" THEN 12 ELSE 30]
SmallFound ==
  [s \in Section |-> IF s = "metrics" THEN {0, 9} ELSE IF s = "patterns" THEN {1}
                     ELSE IF s = "logs" THEN {12} ELSE IF s = "wiki" THEN {2} ELSE {7}]
SmallLengths == [s \in Section |-> 1]

T == TRUE
F == FALSE
SmallPages == <<<<T, F, T>>, <<F>>, <<T, T>>, <<>>, <<T>>>>

Event(at, service, template, severity) ==
  [at |-> at, service |-> service, template |-> template, severity |-> severity]
(* Seconds 0 to 5, a window of one second, a day of one second: bursts     *)
(* need five windows, weeks are seven seconds.                             *)
Spiky(at) == [k \in DOMAIN at |-> Event(at[k], web, x, "error")]
Timed ==
  {Spiky(<<0, 1, 2, 4, 5, 5>>), Spiky(<<0, 1, 2, 3, 4, 4>>), Spiky(<<0, 1, 3, 4, 6>>),
   Spiky(<<0, 1, 2, 3, 4, 5, 6, 7, 8, 9, 10, 10, 10, 11, 11, 11>>),
   Spiky(<<0, 1, 2, 3, 4, 5, 6, 7, 8, 8, 8, 10, 10, 10>>),
   Spiky(<<0, 0, 7, 7, 14, 21, 21>>), Spiky(<<0, 7, 7, 14, 21, 21, 21>>), Spiky(<<0, 21, 7, 14, 14>>)}
Placed == {<<Event(i, p, t, "error"), Event(j, q, u, "info"), Event(k, r, v, "error")>> :
             i \in {1}, j \in {0, 2}, k \in {2, 4}, p \in {web}, q \in {web, db}, r \in {web, db, NoService},
             t \in {x}, u \in {y, z}, v \in {x, y}}
Joined == {<<Event(0, web, x, "info"), Event(1, db, z, "info"), Event(1, web, y, s), Event(2, db, t, s),
             Event(2, web, c, s)>> : s \in {"error", "info"}, t \in {x, y, z, c, d}}
SmallInputs == Timed \union Placed \union Joined \union {<<>>}
SmallOrder == <<c, d, x, y, z>>
SmallSimilar == {<<x, y>>, <<y, x>>, <<y, z>>, <<z, y>>}

AtRest == switch = "off" /\ wired
Init ==
  /\ part \in {"tower", "connector", "analyzer"}
  /\ TowerInit /\ ConnectorInit /\ AnalyzerInit
  /\ part # "tower" => AtRest
  /\ part # "connector" => wanted = 1
  /\ part # "analyzer" => events = <<>>

TowerStep(A) == part = "tower" /\ A /\ UNCHANGED <<part, connectorVars, analyzerVars>>
ConnectorStep(A) == part = "connector" /\ A /\ UNCHANGED <<part, towerVars, analyzerVars>>
AnalyzerStep(A) == part = "analyzer" /\ A /\ UNCHANGED <<part, towerVars, connectorVars>>

(* The second investigation is a triage, there to share the switch, the    *)
(* register and the trace with the first.                                  *)
SecondIsTriage == inv'[i2].mode = "eco"

Next ==
  \/ TowerStep(TowerNext /\ SecondIsTriage)
  \/ ConnectorStep(ConnectorNext)
  \/ AnalyzerStep(Analyze)

Spec == Init /\ [][Next]_vars /\ WF_vars(ConnectorStep(ConnectorNext))
=============================================================================
