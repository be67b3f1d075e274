------------------------------- MODULE FinOps -------------------------------
(***************************************************************************)
(* The cost tools (mcp/tools/read/finops): find_cost_anomalies collects a  *)
(* daily series from one backend, from AWS in one query, from the others   *)
(* one query a day, and flags the days whose z-score reaches the           *)
(* sensitivity; top_spenders asks every backend and ranks what they spend. *)
(* Amounts are whole units, none negative.                                 *)
(***************************************************************************)
EXTENDS Integers, Sequences, FiniteSets, SequencesExt, FiniteSetsExt

CONSTANTS
  Lookback,   \* days of history, one query each
  Amounts,    \* what a day may cost
  Statements, \* the daily amounts AWS may answer with, oldest first
  Halves,     \* the sensitivity, in halves
  Answers,    \* of each backend: the rows it may answer with, "aws" day by day
  Limits      \* top_spenders' limit

Backends == <<"aws", "opencost", "kubecost">>
Row == [name : STRING, cost : Int]

ASSUME CostAssumption ==
  /\ Lookback \in Nat /\ Amounts \subseteq Nat /\ Halves \in Nat \ {0} /\ Limits \subseteq Nat
  /\ Statements \subseteq Seq(Nat)
  /\ \A b \in ToSet(Backends) : Answers[b] \subseteq Seq(Row)

VARIABLES
  cost,   \* the anomaly search: its provider, the day it is at, the series,
          \* what it flags
  spend   \* the ranking: the backends left, what each said, the rows,
          \* and which of them are at the top, by their position

costVars == <<cost, spend>>

CostStart(limit, which, provider) ==
  /\ cost = [provider |-> provider, at |-> "collect", day |-> 1, series |-> <<>>, failed |-> 0,
             status |-> "", flagged |-> {}]
  /\ spend = [limit |-> limit, which |-> which, next |-> 1, rows |-> <<>>, top |-> <<>>,
              status |-> [b \in ToSet(Backends) |-> "not asked"],
              total |-> [b \in ToSet(Backends) |-> 0], ended |-> FALSE]
CostInit ==
  \E limit \in Limits, which \in ToSet(Backends) \union {"all"}, provider \in ToSet(Backends) :
    CostStart(limit, which, provider)

(***************************************************************************)
(* find_cost_anomalies.                                                    *)
(***************************************************************************)

(* AWS is asked once for all the days and today, and answers or does not.  *)
WholeSeries(amounts) ==
  /\ cost.at = "collect" /\ cost.provider = "aws" /\ cost.day = 1
  /\ cost' = [cost EXCEPT !.day = Lookback + 2,
       !.series = [k \in DOMAIN amounts |-> [date |-> k, amount |-> amounts[k]]]]
  /\ UNCHANGED spend
SeriesUnavailable ==
  /\ cost.at = "collect" /\ cost.provider = "aws" /\ cost.day = 1
  /\ cost' = [cost EXCEPT !.day = Lookback + 2, !.failed = 1]
  /\ UNCHANGED spend

(* _per_day_series: a day the backend cannot tell is left out.             *)
Day(amount) ==
  /\ cost.at = "collect" /\ cost.provider # "aws" /\ cost.day <= Lookback
  /\ cost' = [cost EXCEPT !.day = @ + 1, !.series = Append(@, [date |-> cost.day, amount |-> amount])]
  /\ UNCHANGED spend
DayUnavailable ==
  /\ cost.at = "collect" /\ cost.provider # "aws" /\ cost.day <= Lookback
  /\ cost' = [cost EXCEPT !.day = @ + 1, !.failed = @ + 1]
  /\ UNCHANGED spend

(* With n days that sum to s and whose squares sum to q, a day of x has    *)
(* z >= h / 2 when n x - s >= 0 and 4 (n x - s)^2 (n - 1) >= h^2 n (n q -  *)
(* s^2), the sample deviation being what divides.                          *)
SumOf(series) == SumFunction([k \in DOMAIN series |-> series[k].amount])
SquaresOf(series) == SumFunction([k \in DOMAIN series |-> series[k].amount * series[k].amount])

(* Variant: the deviation is the population's.                             *)
FlaggedByPopulation(series) ==
  LET n == Len(series)
      s == SumOf(series)
      spread == n * SquaresOf(series) - s * s
      Over(x) == n * x - s >= 0 /\ 4 * (n * x - s) * (n * x - s) >= Halves * Halves * spread
  IN  IF n < 4 \/ spread = 0 THEN {} ELSE {d \in ToSet(series) : Over(d.amount)}

(* Fewer than four days, or days that cost the same, flag nothing.         *)
Flagged(series) ==
  LET n == Len(series)
      s == SumOf(series)
      spread == n * SquaresOf(series) - s * s
      Over(x) == n * x - s >= 0 /\ 4 * (n * x - s) * (n * x - s) * (n - 1) >= Halves * Halves * n * spread
  IN  IF n < 4 \/ spread = 0 THEN {} ELSE {d \in ToSet(series) : Over(d.amount)}

(* Variant: an outage of one day makes the whole answer unavailable.       *)
StatusOfAll(c) == IF c.failed > 0 THEN "unavailable" ELSE "success"

(* Only a backend that told no day at all is unavailable.                  *)
StatusOf(c) == IF c.series = <<>> /\ c.failed > 0 THEN "unavailable" ELSE "success"
Judge ==
  /\ cost.at = "collect" /\ cost.day > (IF cost.provider = "aws" THEN 1 ELSE Lookback)
  /\ cost' = [cost EXCEPT !.at = "done", !.status = StatusOf(cost),
                          !.flagged = IF StatusOf(cost) = "success" THEN Flagged(cost.series) ELSE {}]
  /\ UNCHANGED spend

(***************************************************************************)
(* top_spenders.                                                           *)
(***************************************************************************)

Asking(b) == spend.next <= 3 /\ Backends[spend.next] = b

Passed(b) ==
  /\ Asking(b) /\ spend.which \notin {b, "all"}
  /\ spend' = [spend EXCEPT !.next = @ + 1] /\ UNCHANGED cost

(* A backend answers with rows: AWS one per service and day, the others    *)
(* one per namespace, and a total of its own.                              *)
Billed(rows) == SumFunction([k \in DOMAIN rows |-> rows[k].cost])
Taken(s, b, rows) ==
  [s EXCEPT !.next = @ + 1, !.status[b] = "success", !.total[b] = Billed(rows),
            !.rows = @ \o [k \in DOMAIN rows |-> [provider |-> b, name |-> rows[k].name, cost |-> rows[k].cost]]]
BackendAnswers(b, rows) ==
  /\ Asking(b) /\ spend.which \in {b, "all"}
  /\ spend' = Taken(spend, b, rows) /\ UNCHANGED cost

(* Variant: a backend that fails ends the fan-out.                         *)
MissedAll(s, b) == [s EXCEPT !.next = 4, !.status[b] = "unavailable"]

(* It is not configured, not reachable, or answers with an error.          *)
Missed(s, b) == [s EXCEPT !.next = @ + 1, !.status[b] = "unavailable"]
BackendFails(b) ==
  /\ Asking(b) /\ spend.which \in {b, "all"}
  /\ spend' = Missed(spend, b) /\ UNCHANGED cost

(* Dearer rows first; equal ones as they came in.                          *)
Dearer(rows, j, k) == rows[j].cost > rows[k].cost \/ (rows[j].cost = rows[k].cost /\ j < k)

(* The positions `of`, dearest first, as lists; there is one.              *)
DearestFirst(rows, of) ==
  {r \in [of -> of] : /\ \A m, n \in of : m < n => Dearer(rows, r[m], r[n])
                      /\ \A k \in of : \E m \in of : r[m] = k}
Shown(rows, limit) == 1 .. (IF limit < Len(rows) THEN limit ELSE Len(rows))

(* Variant: the limit is applied before the rows are ranked.               *)
CutThenRanked(rows, limit) == DearestFirst(rows, Shown(rows, limit))

(* The dearest rows of all backends, up to the limit.                      *)
RankedRows(rows, limit) ==
  {[k \in Shown(rows, limit) |-> r[k]] : r \in DearestFirst(rows, DOMAIN rows)}

GrandTotal == spend.total["aws"] + spend.total["opencost"] + spend.total["kubecost"]
SpendStatus == IF \E b \in ToSet(Backends) : spend.status[b] = "success" THEN "success" ELSE "unavailable"

FinishSpenders ==
  /\ spend.next = 4 /\ ~spend.ended
  /\ \E top \in RankedRows(spend.rows, spend.limit) :
       spend' = [spend EXCEPT !.ended = TRUE, !.top = top]
  /\ UNCHANGED cost

AnomalyNext ==
  \/ SeriesUnavailable \/ DayUnavailable \/ Judge
  \/ \E amounts \in Statements : WholeSeries(amounts)
  \/ \E amount \in Amounts : Day(amount)
SpendersNext ==
  \/ FinishSpenders
  \/ \E b \in ToSet(Backends) : Passed(b) \/ BackendFails(b) \/ \E rows \in Answers[b] : BackendAnswers(b, rows)

CostSpec == CostInit /\ [][AnomalyNext \/ SpendersNext]_costVars

(***************************************************************************)
(* What is promised.                                                       *)
(***************************************************************************)

(* With the default sensitivity of 2 no series of fewer than six days can  *)
(* flag anything, and one of fewer than eleven flags one day at most:      *)
(* (n - 1) / sqrt n is the largest z-score there is, and two days cannot   *)
(* both come near it (anomaly_detect.py:194, which takes four days for     *)
(* enough at line 82).                                                     *)
FewDaysFlagNothing ==
  (cost.at = "done" /\ Halves >= 4) =>
    /\ Len(cost.series) < 6 => cost.flagged = {}
    /\ Len(cost.series) < 11 => \A d, e \in cost.flagged : d = e

(* An outage of some days neither hides the others nor makes the backend   *)
(* unavailable: the series is every day it told, in order                  *)
(* (anomaly_detect.py:156-191); of AWS, whose days come in one answer, all *)
(* of them or none (:117-128).                                             *)
OutagesOnlyLeaveGaps ==
  cost.at = "done" =>
    /\ (cost.status = "unavailable") <=> (cost.series = <<>> /\ cost.failed > 0)
    /\ cost.provider # "aws" => Len(cost.series) + cost.failed = Lookback
    /\ cost.provider = "aws" => cost.failed = 0 \/ cost.series = <<>>
    /\ \A j, k \in DOMAIN cost.series : j < k => cost.series[j].date < cost.series[k].date

(* Every backend that was asked for is asked, whatever the ones before it  *)
(* said, and the ranking is empty only if none of them told a row          *)
(* (top_spenders.py:69-141).                                               *)
NoBackendHidesAnother ==
  spend.ended =>
    /\ \A b \in ToSet(Backends) : (spend.status[b] # "not asked") <=> (spend.which \in {b, "all"})
    /\ (SpendStatus = "unavailable") => spend.rows = <<>>

(* As many rows are ranked as the limit allows, dearest first, and none    *)
(* that was left out cost more than one that is in it (top_spenders.py:    *)
(* 132).                                                                   *)
NothingDearerLeftOut ==
  spend.ended =>
    /\ DOMAIN spend.top = Shown(spend.rows, spend.limit)
    /\ \A k \in DOMAIN spend.top : \A j \in DOMAIN spend.rows :
         spend.rows[j].cost > spend.rows[spend.top[k]].cost =>
           \E m \in DOMAIN spend.top : m < k /\ spend.top[m] = j

(* Days and backends that fail leave gaps and nothing else.                *)
CostsExact == FewDaysFlagNothing /\ OutagesOnlyLeaveGaps /\ NoBackendHidesAnother /\ NothingDearerLeftOut

(* Four days are "enough data points for meaningful z-score"               *)
(* (anomaly_detect.py:90): a day that costs a hundred times the others is  *)
(* flagged.  Not so before the sixth.                                      *)
SpikeIsFlagged ==
  (cost.at = "done" /\ Len(cost.series) >= 4) =>
    \A d \in ToSet(cost.series) :
      (d.amount >= 100 /\ \A e \in ToSet(cost.series) \ {d} : e.amount <= 1) => d \in cost.flagged

(* "A ranked top-N list" of spenders: nobody is in it twice.  Not so: an   *)
(* AWS service has a row a day.                                            *)
SpendersOnce ==
  LET Spender(k) == spend.rows[spend.top[k]]
  IN  spend.ended => \A j, k \in DOMAIN spend.top :
        (Spender(j).provider = Spender(k).provider /\ Spender(j).name = Spender(k).name) => j = k
=============================================================================
