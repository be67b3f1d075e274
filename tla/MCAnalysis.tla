----------------------------- MODULE MCAnalysis -----------------------------
(***************************************************************************)
(* Small instances of what computes over documents, costs and logs: the    *)
(* reconciler, the documentation tools, the cost tools and the log         *)
(* analyzer.  They share no state: a behaviour is one of one of them, the  *)
(* others rest.                                                            *)
(***************************************************************************)
EXTENDS Reconciler, DocTools, LogAnalyzer

VARIABLE part

vars == <<part, reconVars, toolVars, costVars, logVars>>

(* Two vaults of one name around a Confluence space.                       *)
SmallLibrary == <<"v1", "c", "v2">>
SmallKind == [v1 |-> "obsidian", c |-> "confluence", v2 |-> "obsidian"]
SmallHolding == [v1 |-> <<"d">>, c |-> <<"d", "e">>, v2 |-> <<"d">>]

D(saved, stamps, versions, title, mentions, state) ==
  [saved |-> saved, stamps |-> stamps, versions |-> versions, title |-> title, mentions |-> mentions, state |-> state]
Gone == D(0, <<Absent, Absent>>, {}, 0, FALSE, "gone")
Denied == D(0, <<Absent, Absent>>, {}, 0, TRUE, "denied")
Fresh == D(0, <<0, Absent>>, {2, 3}, 2, TRUE, "plain")
Old == D(400, <<NoAge, 0>>, {1, 2}, 1, TRUE, "plain")
Mid == D(90, <<Absent, Absent>>, {2}, 2, TRUE, "plain")
Misdated == D(0, <<NoAge, 400>>, {1}, 1, TRUE, "plain")
ThreeDocs == {Gone, Denied, Old}
SmallShelf ==
  {[v1 |-> [d |-> a], c |-> [d |-> b, e |-> e], v2 |-> [d |-> z]] :
     a \in {Misdated, Denied}, b \in {Fresh, Mid}, e \in {Gone, Old}, z \in {Misdated, Fresh}}

Aged == {NoAge, 0, 2, 3, 179, 181, 364, 366, 457, 458, 640, 729, 731}
Signals == {<<0, 0, 0>>, <<1, 0, 0>>, <<0, 1, 0>>, <<2, 3, 2>>}
DocOf(age, signals) == [age |-> age, years |-> signals[1], dead |-> signals[2], phrases |-> signals[3]]
SmallSweeps ==
  {[docs |-> <<DocOf(a, x), DocOf(b, y)>>, threshold |-> t] :
     a \in Aged, b \in Aged, x \in Signals, y \in Signals, t \in {0, 180, 1000}}

L(host, path, form) == [host |-> host, path |-> path, form |-> form]
SmallLinkLists ==
  {<<>>, <<L("h", "a", "plain"), L("h", "b", "plain"), L("g", "a", "plain")>>,
   <<L("", "m", "malformed"), L("h", "b", "plain"), L("", "u", "unparseable"), L("h", "a", "plain")>>}
SmallDisallows == [none |-> {}, all |-> {"a", "b"}, half |-> {"b"}]

R(name, spent) == [name |-> name, cost |-> spent]
SmallAnswers ==
  [aws |-> {<<>>, <<R("ec2", 5), R("s3", 1), R("ec2", 4)>>},
   opencost |-> {<<R("web", 3), R("db", 2)>>},
   kubecost |-> {<<R("web", 6)>>, <<>>}]

(* The seven days and today.                                               *)
SmallStatements ==
  {<<>>, <<1, 1, 100>>, <<1, 1, 1, 1, 1, 1, 1, 1>>, <<0, 1, 0, 1, 0, 1, 0, 100>>, <<100, 100, 1, 0, 1, 0, 1, 0>>}

E(level, service, message) == [level |-> level, service |-> service, message |-> message]
Entries == {E("error", "s", "m"), E("critical", "", "m"), E("error", "t", "n"), E("critical", "s", "o"),
            E("warning", "t", "m"), E("info", "s", "n")}
SmallBatches == UNION {[1 .. k -> Entries] : k \in 0 .. 4}
Words == {"auth", "fail", "error", "500", "timeout", "rate", "slow"}
SmallQuestions == SUBSET Words
SmallRows ==
  {[level |-> l, says |-> s, age |-> a] :
     l \in {"critical", "error", "info", "warning"}, s \in SUBSET {"auth fail", "500", "timeout", "slow", "latency"},
     a \in {"recent", "old"}}

OneShelf == CHOOSE s \in SmallShelf : TRUE
OneSweep == [docs |-> <<>>, threshold |-> 180]

Rest(who) ==
  /\ who # "reconciler" => ReconStart(OneShelf, 1, FALSE)
  /\ who \notin {"sweep", "links"} => ToolsStart(OneSweep, <<>>, FALSE)
  /\ who \notin {"costs", "spenders"} => CostStart(1, "all", "aws")
  /\ who \notin {"logs", "query"} => LogStart(<<>>, {})

Init ==
  \/ part = "reconciler" /\ ReconInit /\ Rest(part)
  \/ part = "sweep" /\ (\E w \in Sweeps : ToolsStart(w, <<>>, FALSE)) /\ Rest(part)
  \/ part = "links" /\ (\E ls \in LinkLists, heed \in BOOLEAN : ToolsStart(OneSweep, ls, heed)) /\ Rest(part)
  \/ part = "costs" /\ (\E b \in {"aws", "opencost"} : CostStart(1, "all", b)) /\ Rest(part)
  \/ part = "spenders" /\ CostInit /\ cost.provider = "aws" /\ Rest(part)
  \/ part = "logs" /\ (\E logs \in Batches : LogStart(logs, {})) /\ Rest(part)
  \/ part = "query" /\ (\E words \in Questions : LogStart(<<>>, words)) /\ Rest(part)

ReconStep(B) == part = "reconciler" /\ B /\ UNCHANGED <<part, toolVars, costVars, logVars>>
ToolStep(p, B) == part = p /\ B /\ UNCHANGED <<part, reconVars, costVars, logVars>>
CostStep(p, B) == part = p /\ B /\ UNCHANGED <<part, reconVars, toolVars, logVars>>
LogStep(p, B) == part = p /\ B /\ UNCHANGED <<part, reconVars, toolVars, costVars>>

Next ==
  \/ ReconStep(ReconNext)
  \/ ToolStep("sweep", Sweep) \/ ToolStep("links", LinksNext)
  \/ CostStep("costs", AnomalyNext) \/ CostStep("spenders", SpendersNext)
  \/ LogStep("logs", Summarize \/ DetectAnomalies) \/ LogStep("query", AskQuery)

(* A call runs to its end, and the router answers or fails.                *)
Spec ==
  /\ Init /\ [][Next]_vars
  /\ WF_vars(ReconStep(Proceeds)) /\ WF_vars(ReconStep(Answered))

=============================================================================
