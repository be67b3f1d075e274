---------------------------- MODULE LogAnalyzer ----------------------------
(***************************************************************************)
(* The log intelligence (agents/analyzer.py behind routers/logs.py): a     *)
(* batch of log entries is summarized and searched for anomalies, and a    *)
(* question becomes a ClickHouse query with an explanation.  An entry      *)
(* without a service is counted as "unknown".  The cost tools, which share *)
(* no state with it, are brought in for what is said of both in the end.   *)
(***************************************************************************)
EXTENDS FinOps, Ordered

CONSTANTS
  Batches,    \* the batches of log entries: [level, service, message]
  TopCount,   \* how many patterns and key events a summary holds (10)
  Repeated,   \* from how many on a repeated warning is reported (5; at 20 it is high)
  Questions,  \* what a question mentions, as a set of words
  Rows        \* the rows of the logs table: [level, says, age]

Entry == [level : STRING, service : STRING, message : STRING]

ASSUME LogAssumption ==
  /\ TopCount \in Nat \ {0} /\ Repeated \in Nat \ {0} /\ Batches \subseteq Seq(Entry)

VARIABLES
  batch,   \* what was posted
  summary, \* of /summarize
  detected,   \* of /anomalies: the set of anomalies
  question    \* of /query: the question and what was made of it

logVars == <<batch, summary, detected, question>>

LogStart(logs, words) ==
  /\ batch = logs
  /\ summary = [ended |-> FALSE, patterns |-> <<>>, events |-> <<>>, alarm |-> FALSE]
  /\ detected = [ended |-> FALSE, anomalies |-> {}]
  /\ question = [ended |-> FALSE, words |-> words, query |-> "", explained |-> ""]
LogInit == \E logs \in Batches, words \in Questions : LogStart(logs, words)

IsError(e) == e.level \in {"error", "critical"}
ServiceOf(e) == IF e.service = "" THEN "unknown" ELSE e.service
Upto(s, n) == SubSeq(s, 1, IF n < Len(s) THEN n ELSE Len(s))

(* Entries are told apart by their positions in the batch: those of errors *)
(* and those of a message.  The first of some with the message of one.     *)
Errors(logs) == {k \in DOMAIN logs : IsError(logs[k])}
Saying(logs, ks, message) == {k \in ks : logs[k].message = message}
Messages(logs, ks) == {logs[k].message : k \in ks}
Firsts(logs, ks) == {k \in ks : \A j \in ks : j < k => logs[j].message # logs[k].message}

(***************************************************************************)
(* summarize_logs.                                                         *)
(***************************************************************************)

(* Variant: the events are cut before they are made unique.                *)
EventsCutFirst(logs) ==
  LET cut == Upto(Picked(logs, Errors(logs)), TopCount) IN Picked(cut, Firsts(cut, DOMAIN cut))

(* The key events: the first error of each message, so many at most.       *)
KeyEvents(logs) == Upto(Picked(logs, Firsts(logs, Errors(logs))), TopCount)

(* The most frequent errors, ties in the order they are first met.         *)
Times(logs, k) == Cardinality(Saying(logs, Errors(logs), logs[k].message))
ByCount(logs) ==
  LET firsts == Firsts(logs, Errors(logs))
  IN  InOrder(firsts, {p \in firsts \X firsts :
        \/ Times(logs, p[1]) > Times(logs, p[2])
        \/ Times(logs, p[1]) = Times(logs, p[2]) /\ p[1] < p[2]})
Patterns(logs) ==
  Upto([i \in DOMAIN ByCount(logs) |-> [message |-> logs[ByCount(logs)[i]].message,
                                       count |-> Times(logs, ByCount(logs)[i])]], TopCount)

(* More than a tenth of all entries are errors.                            *)
Alarm(logs) == 10 * Cardinality(Errors(logs)) > Len(logs)

Summarize ==
  /\ ~summary.ended
  /\ summary' = [ended |-> TRUE, patterns |-> Patterns(batch), events |-> KeyEvents(batch), alarm |-> Alarm(batch)]
  /\ UNCHANGED <<batch, detected, question>>

(***************************************************************************)
(* detect_anomalies.                                                       *)
(***************************************************************************)

Anomaly(type, severity, service, evidence) ==
  [type |-> type, severity |-> severity, service |-> service, evidence |-> Upto(evidence, 5)]

(* The entries of a service, and those of them that are errors.            *)
Services(logs) == {ServiceOf(logs[k]) : k \in DOMAIN logs}
EntriesOf(logs, s) == {k \in DOMAIN logs : ServiceOf(logs[k]) = s}

(* Variant: the failing entries of a service are those of level error.     *)
FailingErrors(logs, s) == {k \in EntriesOf(logs, s) : logs[k].level = "error"}
Failing(logs, s) == EntriesOf(logs, s) \intersect Errors(logs)

(* A service spikes when more than 15 in 100 of its entries are errors,    *)
(* critically above 40.  The evidence is looked up by the service field,   *)
(* which "unknown" never equals.                                           *)
Spiking(logs) ==
  {s \in Services(logs) : 100 * Cardinality(Failing(logs, s)) > 15 * Cardinality(EntriesOf(logs, s))}
Spikes(logs) ==
  {Anomaly("spike",
           IF 10 * Cardinality(Failing(logs, s)) > 4 * Cardinality(EntriesOf(logs, s)) THEN "critical" ELSE "high",
           s, Picked(logs, {k \in Errors(logs) : logs[k].service = s})) : s \in Spiking(logs)}

(* The first entry of a message, whatever its level.                       *)
Sample(logs, message) ==
  logs[CHOOSE k \in DOMAIN logs : logs[k].message = message /\ \A j \in 1 .. k - 1 : logs[j].message # message]
NewError(logs, m) == Anomaly("new_error", "medium", ServiceOf(Sample(logs, m)), <<Sample(logs, m)>>)

(* Variant: every error is new.                                            *)
EveryErrorNew(logs) == {NewError(logs, m) : m \in Messages(logs, Errors(logs))}

(* An error seen once is new.                                              *)
SeenOnce(logs) ==
  {m \in Messages(logs, Errors(logs)) : m # "" /\ Cardinality(Saying(logs, Errors(logs), m)) = 1}
NewErrors(logs) == {NewError(logs, m) : m \in SeenOnce(logs)}

(* A warning repeated so often may escalate.                               *)
Warnings(logs) == {k \in DOMAIN logs : logs[k].level = "warning"}
Escalations(logs) ==
  LET Repeats(m) == Cardinality(Saying(logs, Warnings(logs), m))
  IN  {Anomaly("frequency_change", IF Repeats(m) < 4 * Repeated THEN "medium" ELSE "high",
               ServiceOf(Sample(logs, m)), Picked(logs, Saying(logs, DOMAIN logs, m))) :
         m \in {m \in Messages(logs, Warnings(logs)) : Repeats(m) >= Repeated}}

DetectAnomalies ==
  /\ ~detected.ended
  /\ detected' = [ended |-> TRUE, anomalies |-> Spikes(batch) \union NewErrors(batch) \union Escalations(batch)]
  /\ UNCHANGED <<batch, summary, question>>

(***************************************************************************)
(* suggest_query and the explanation beside it.                            *)
(***************************************************************************)

(* The query for a question, the first rule that fits; the explanation is  *)
(* chosen by rules of its own.                                             *)
Suggested(words) ==
  CASE "auth" \in words /\ words \intersect {"fail", "error"} # {} -> "auth"
    [] OTHER ->
  CASE words \intersect {"500", "internal server error"} # {} -> "500"
    [] OTHER ->
  CASE "timeout" \in words -> "timeout"
    [] OTHER ->
  CASE "error" \in words /\ words \intersect {"count", "frequency", "rate"} # {} -> "count"
    [] OTHER ->
  CASE words \intersect {"slow", "latency"} # {} -> "slow"
    [] OTHER -> "all"

(* Variant: the explanation looks for slowness before timeouts.            *)
ExplainedSlowFirst(words) ==
  CASE "auth" \in words /\ words \intersect {"fail", "error"} # {} -> "auth"
    [] OTHER ->
  CASE words \intersect {"500", "internal server error"} # {} -> "500"
    [] OTHER ->
  CASE words \intersect {"slow", "latency"} # {} -> "slow"
    [] OTHER ->
  CASE "timeout" \in words -> "timeout"
    [] OTHER ->
  CASE "error" \in words /\ words \intersect {"count", "frequency", "rate"} # {} -> "count"
    [] OTHER -> "all"
Explained(words) ==
  CASE "auth" \in words /\ words \intersect {"fail", "error"} # {} -> "auth"
    [] OTHER ->
  CASE words \intersect {"500", "internal server error"} # {} -> "500"
    [] OTHER ->
  CASE "timeout" \in words -> "timeout"
    [] OTHER ->
  CASE "error" \in words /\ words \intersect {"count", "frequency", "rate"} # {} -> "count"
    [] OTHER ->
  CASE words \intersect {"slow", "latency"} # {} -> "slow"
    [] OTHER -> "all"

AskQuery ==
  /\ ~question.ended
  /\ question' = [question EXCEPT !.ended = TRUE, !.query = Suggested(question.words), !.explained = Explained(question.words)]
  /\ UNCHANGED <<batch, summary, detected>>

(* What a query selects.  Levels are strings and compare as strings, and   *)
(* AND binds before OR.                                                    *)
Alphabet == <<"critical", "error", "info", "warning">>
NotBefore(level, other) == \E j \in 1 .. 4 : \E k \in 1 .. j : Alphabet[j] = level /\ Alphabet[k] = other
Recent(row) == row.age = "recent"
Selects(query, row) ==
  CASE query = "auth" -> NotBefore(row.level, "error") /\ "auth fail" \in row.says /\ Recent(row)
    [] query = "500" -> row.level = "error" /\ "500" \in row.says /\ Recent(row)
    [] query = "timeout" -> "timeout" \in row.says /\ Recent(row)
    [] query = "count" -> row.level \in {"error", "critical"} /\ Recent(row)
    [] query = "slow" -> "slow" \in row.says \/ ("latency" \in row.says /\ Recent(row))
    [] OTHER -> Recent(row)

LogNext == Summarize \/ DetectAnomalies \/ AskQuery
LogSpec == LogInit /\ [][LogNext]_logVars

(***************************************************************************)
(* What is promised.                                                       *)
(***************************************************************************)

(* When more than 15 in 100 of all entries are errors, some service is     *)
(* reported for it: the sums per service lose no error (analyzer.py:       *)
(* 287-297).                                                               *)
NoiseHasASource ==
  (detected.ended /\ 100 * Cardinality(Errors(batch)) > 15 * Len(batch)) =>
    \E a \in detected.anomalies : a.type = "spike"

(* The two endpoints agree on what is new: an error reported as new is a   *)
(* pattern of count one, unless the patterns were cut (analyzer.py:178,    *)
(* 329).                                                                   *)
NewMeansCountedOnce ==
  (detected.ended /\ summary.ended /\ Len(summary.patterns) < TopCount) =>
    \A a \in detected.anomalies : a.type = "new_error" =>
      \E k \in DOMAIN summary.patterns :
        summary.patterns[k].count = 1 /\ summary.patterns[k].message = a.evidence[1].message

(* Key events and patterns tell of the same errors while both fit          *)
(* (analyzer.py:175-200).                                                  *)
EventsCoverPatterns ==
  (summary.ended /\ Len(summary.patterns) < TopCount) =>
    Messages(summary.events, DOMAIN summary.events) = Messages(summary.patterns, DOMAIN summary.patterns)

(* The explanation is that of the query beside it (logs.py:101).           *)
ExplanationFits == question.ended => question.query = question.explained

(* Summary, anomalies and explanation agree with the entries they are of.  *)
LogsExact == NoiseHasASource /\ NewMeansCountedOnce /\ EventsCoverPatterns /\ ExplanationFits

(* What is reported of costs and of logs agrees with what was collected.   *)
FiguresExact == CostsExact /\ LogsExact

(* "Specific log entries supporting the detection" (logs.py:87): a spike   *)
(* has evidence.  Not so for the entries without a service.                *)
SpikesHaveEvidence == \A a \in detected.anomalies : a.type = "spike" => a.evidence # <<>>

(* "Which service is impacted" (logs.py:85): a new error is put down to a  *)
(* service that logged it as an error.  Not so when another logged the     *)
(* same message as a warning before.                                       *)
NewErrorAtItsService ==
  \A a \in detected.anomalies : a.type = "new_error" =>
    \E k \in Errors(batch) : batch[k].message = a.evidence[1].message /\ ServiceOf(batch[k]) = a.service

(* "In the requested time window" (logs.py:139): a query selects rows of   *)
(* the window only.  Not so for slow responses: the window is and-ed to    *)
(* the second pattern alone.                                               *)
WindowKept == question.ended => \A row \in Rows : Selects(question.query, row) => Recent(row)

(* "Filtering for error-level logs" (logs.py:114).  Not so: as strings,    *)
(* warning and info are past error and critical is before it.              *)
ErrorLevelsOnly ==
  (question.ended /\ question.explained = "auth") =>
    \A row \in Rows : Selects(question.query, row) => row.level \in {"error", "critical"}
=============================================================================
