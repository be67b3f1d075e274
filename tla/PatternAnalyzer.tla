-------------------------- MODULE PatternAnalyzer ---------------------------
(***************************************************************************)
(* The pattern analyzer (src/apps/ai-engine/connectors/pattern_analyzer/): *)
(* pure functions of a list of events.  An event has a time (in seconds),  *)
(* a service, a severity and a message template; the regular expressions   *)
(* that make the template and the MinHash estimate behind Similar are      *)
(* abstracted to the templates and a symmetric relation.  Means, deviations*)
(* and z-scores are compared exactly, without the rounding of floats.      *)
(***************************************************************************)
EXTENDS Integers, Sequences, FiniteSets, FiniteSetsExt, SequencesExt, Functions, Ordered

CONSTANTS
  Service, NoService,
  Template, Order,     \* the message templates, and their sequence in string order
  Similar,             \* the pairs whose MinHash similarity reaches the threshold
  Severity,
  Inputs,              \* the lists of events to analyze
  Window, BurstZ, WowZ, CorrWindow, MaxClusters, DaySeconds

LogEvent == [at : Int, service : Service \union {NoService}, template : Template, severity : Severity]

ASSUME AnalyzerAssumption ==
  /\ {Window, BurstZ, WowZ, CorrWindow, MaxClusters, DaySeconds} \subseteq Nat \ {0}
  /\ Inputs \subseteq Seq(LogEvent) /\ NoService \notin Service
  /\ Order \in Seq(Template) /\ \A t \in Template : \E k \in DOMAIN Order : Order[k] = t
  /\ \A pair \in Similar : <<pair[2], pair[1]>> \in Similar

VARIABLES events, result

analyzerVars == <<events, result>>

Total(f, S) == SumFunctionOnSet(f, S)
CountIn(list, P(_)) == Cardinality({k \in DOMAIN list : P(list[k])})

(* (c - mean) / pstdev >= z over the counts of the set of buckets `of`;    *)
(* written without the divisions.                                          *)
Square(n) == n * n
Squares(count, of) == Total([b \in of |-> Square(count[b])], of)
Spread(count, of) ==
  Cardinality(of) * Squares(count, of) - Total(count, of) * Total(count, of)
Excess(c, count, of) == Cardinality(of) * c - Total(count, of)
Above(c, count, of, z) ==
  Excess(c, count, of) >= 0 /\ Square(Excess(c, count, of)) >= z * z * Spread(count, of)
Far(c, count, of, z) == Square(Excess(c, count, of)) >= z * z * Spread(count, of)

(***************************************************************************)
(* burst_detector: tumbling windows from the first event.  Only windows    *)
(* with an event are buckets, so silence does not count.                   *)
(***************************************************************************)
Anchor(list) == Min({list[k].at : k \in DOMAIN list})
Bucket(list, e) == (e.at - Anchor(list)) \div Window
Buckets(list) == {Bucket(list, list[k]) : k \in DOMAIN list}
BucketCount(list) == [b \in Buckets(list) |-> CountIn(list, LAMBDA e : Bucket(list, e) = b)]
(* Variant: windows above the mean by so many events. *)
PlainQualifying(list) ==
  {b \in Buckets(list) : Excess(BucketCount(list)[b], BucketCount(list), Buckets(list)) >= BurstZ}
Qualifying(list) ==
  IF Cardinality(Buckets(list)) < 2 \/ Spread(BucketCount(list), Buckets(list)) = 0 THEN {}
  ELSE {b \in Buckets(list) : Above(BucketCount(list)[b], BucketCount(list), Buckets(list), BurstZ)}
(* Variant: adjacent windows stay apart. *)
NoMerge(bursts, next) == Append(bursts, next)
MergeNext(bursts, next) ==
  IF bursts # <<>> /\ Last(bursts).end = next.start
  THEN Append(Front(bursts), [start |-> Last(bursts).start, end |-> next.end,
                              count |-> Last(bursts).count + next.count])
  ELSE Append(bursts, next)
Bursts(list) ==
  LET marked == Ascending(Qualifying(list))
  IN  FoldLeft(MergeNext, <<>>,
        [k \in DOMAIN marked |->
           [start |-> marked[k], end |-> marked[k] + 1, count |-> BucketCount(list)[marked[k]]]])

(***************************************************************************)
(* week_over_week_anomaly: each week that has events against the earlier   *)
(* weeks that have, once there are two; an even history makes any change   *)
(* an anomaly.                                                             *)
(***************************************************************************)
Week(e) == e.at \div (7 * DaySeconds)
Weeks(list) == {Week(list[k]) : k \in DOMAIN list}
WeekCount(list) == [w \in Weeks(list) |-> CountIn(list, LAMBDA e : Week(e) = w)]
(* Variant: the baseline is every other week. *)
Others(list, w) == Weeks(list) \ {w}
Earlier(list, w) == {v \in Weeks(list) : v < w}
Anomalous(list, w) ==
  LET count == WeekCount(list)
      past == Earlier(list, w)
  IN /\ Cardinality(past) >= 2
     /\ IF Spread(count, past) > 0 THEN Far(count[w], count, past, WowZ)
        ELSE Excess(count[w], count, past) # 0
Anomalies(list) ==
  [w \in {v \in Weeks(list) : Anomalous(list, v)} |->
     IF Excess(WeekCount(list)[w], WeekCount(list), Earlier(list, w)) > 0 THEN "spike" ELSE "drop"]

(***************************************************************************)
(* service_correlation_graph: each event meets every other service still   *)
(* in the rolling window once, and both directions are counted.            *)
(***************************************************************************)
ByTime(list) ==
  LET placed == {k \in DOMAIN list : list[k].service # NoService}
      order == InOrder(placed, {p \in placed \X placed :
                 \/ list[p[1]].at < list[p[2]].at
                 \/ list[p[1]].at = list[p[2]].at /\ p[1] < p[2]})
  IN [k \in DOMAIN order |-> list[order[k]]]
(* Variant: the window is cut by number. *)
LastTwo(sorted, left, k) == Max({left, k - 2})
(* Where the window begins: expired events go off its left.                *)
Evicted(sorted, left, k) ==
  Min({j \in left..k : j = k \/ sorted[k].at - sorted[j].at <= CorrWindow})
Meet(sorted, state, k) ==
  LET left == Evicted(sorted, state.left, k)
      here == sorted[k].service
      others == {sorted[j].service : j \in left..(k - 1)} \ {here}
  IN [left |-> left,
      firing |-> [state.firing EXCEPT ![here] = @ + 1],
      co |-> [p \in Service \X Service |->
                state.co[p] + (IF p[1] = here /\ p[2] \in others THEN 1 ELSE 0)
                            + (IF p[2] = here /\ p[1] \in others THEN 1 ELSE 0)]]
Correlated(list) ==
  FoldLeft(LAMBDA state, k : Meet(ByTime(list), state, k),
           [left |-> 1, firing |-> [s \in Service |-> 0], co |-> [p \in Service \X Service |-> 0]],
           [k \in DOMAIN ByTime(list) |-> k])
(* Edges reach a score of 3/10; scores above one are reported as one. *)
Edge(graph, p) == 10 * graph.co[p] >= 3 * graph.firing[p[1]] /\ graph.co[p] > 0

(***************************************************************************)
(* cluster_messages: groups by template; similar groups joined by union-   *)
(* find, the one with more events as the root; the smallest clusters       *)
(* beyond MaxClusters become one <other>.                                  *)
(***************************************************************************)
Groups(list) == {list[k].template : k \in DOMAIN list}
GroupCount(list) == [t \in Groups(list) |-> CountIn(list, LAMBDA e : e.template = t)]
Rank(t) == CHOOSE k \in DOMAIN Order : Order[k] = t
(* The root that following parents ends in.  The code also shortens the    *)
(* path on its way there, which leaves every root as it is.                *)
Find(parent, t) ==
  LET find[x \in DOMAIN parent] == IF parent[x] = x THEN x ELSE find[parent[x]] IN find[t]
(* Variant: the templates are linked, not their roots. *)
Linked(parent, count, x, y) == [parent EXCEPT ![y] = x]
Union(parent, count, x, y) ==
  LET rx == Find(parent, x)
      ry == Find(parent, y)
  IN IF rx = ry THEN parent
     ELSE IF count[rx] >= count[ry] THEN [parent EXCEPT ![ry] = rx]
     ELSE [parent EXCEPT ![rx] = ry]
PairsInOrder(groups) ==
  LET pairs == {p \in groups \X groups : Rank(p[1]) < Rank(p[2])}
  IN  InOrder(pairs, {q \in pairs \X pairs :
        \/ Rank(q[1][1]) < Rank(q[2][1])
        \/ Rank(q[1][1]) = Rank(q[2][1]) /\ Rank(q[1][2]) < Rank(q[2][2])})
Join(parent, count, p) == IF p \in Similar THEN Union(parent, count, p[1], p[2]) ELSE parent
Parents(list) ==
  FoldLeft(LAMBDA parent, p : Join(parent, GroupCount(list), p),
           [t \in Groups(list) |-> t], PairsInOrder(Groups(list)))
Roots(list) == {Find(Parents(list), t) : t \in Groups(list)}
Cluster(list, root) == {t \in Groups(list) : Find(Parents(list), t) = root}
SeverityOf(list, templates) ==
  [s \in Severity |-> CountIn(list, LAMBDA e : e.template \in templates /\ e.severity = s)]
Sized(list, root) ==
  [root |-> root, templates |-> Cluster(list, root),
   count |-> Total(GroupCount(list), Cluster(list, root)),
   severity |-> SeverityOf(list, Cluster(list, root))]
Ranked(list) ==
  LET order == InOrder(Roots(list), {p \in Roots(list) \X Roots(list) :
                 \/ Sized(list, p[1]).count > Sized(list, p[2]).count
                 \/ Sized(list, p[1]).count = Sized(list, p[2]).count /\ Rank(p[1]) < Rank(p[2])})
  IN  [k \in DOMAIN order |-> Sized(list, order[k])]
(* Variant: what does not fit is cut off. *)
CutClusters(list) == Ranked(list)
Rest(all, tail) ==
  [root |-> "<other>", templates |-> UNION {all[k].templates : k \in tail},
   count |-> Total([k \in tail |-> all[k].count], tail),
   severity |-> [s \in Severity |-> Total([k \in tail |-> all[k].severity[s]], tail)]]
Clusters(list) ==
  LET all == Ranked(list)
  IN IF Len(all) <= MaxClusters THEN all
     ELSE Append(SubSeq(all, 1, MaxClusters - 1), Rest(all, MaxClusters..Len(all)))

AnalyzerInit == events \in Inputs /\ result = <<>>
Analyze ==
  /\ result = <<>>
  /\ result' = [bursts |-> Bursts(events), weeks |-> Anomalies(events),
                graph |-> Correlated(events), clusters |-> Clusters(events)]
  /\ UNCHANGED events
AnalyzerSpec == AnalyzerInit /\ [][Analyze]_analyzerVars
-----------------------------------------------------------------------------
Analyzed == result # <<>>

AnalyzerTypeOK ==
  /\ events \in Inputs
  /\ Analyzed =>
       /\ \A k \in DOMAIN result.bursts : result.bursts[k].start < result.bursts[k].end
       /\ result.weeks \in [DOMAIN result.weeks -> {"spike", "drop"}]
       /\ result.graph.firing \in [Service -> Nat]
       /\ Len(result.clusters) <= MaxClusters

(* The bursts are the maximal runs of qualifying windows, in order and     *)
(* apart, each with the number of events in its span.                      *)
BurstsMaximal ==
  Analyzed =>
    LET bursts == result.bursts
        Span(k) == bursts[k].start..(bursts[k].end - 1)
    IN /\ UNION {Span(k) : k \in DOMAIN bursts} = Qualifying(events)
       /\ \A k \in DOMAIN bursts :
            /\ bursts[k].count = CountIn(events, LAMBDA e : Bucket(events, e) \in Span(k))
            /\ k > 1 => bursts[k - 1].end < bursts[k].start

(* A population z-score among n buckets never exceeds the root of n - 1:   *)
(* no burst is reported before more than z * z windows have events.  With  *)
(* the default threshold of 3 that is ten windows, and the control tower   *)
(* passes at most ten log lines (context_builder.py:158): it sees none.    *)
BurstNeedsCompany ==
  Analyzed /\ result.bursts # <<>> => Cardinality(Buckets(events)) > BurstZ * BurstZ

(* A week's verdict rests on the weeks before it alone: analyzing again    *)
(* when later weeks have come in repeats every verdict.                    *)
VerdictsStand ==
  Analyzed => \A w \in Weeks(events) :
    LET until == Picked(events, {k \in DOMAIN events : Week(events[k]) <= w})
    IN Anomalies(until) = [v \in {u \in DOMAIN result.weeks : u <= w} |-> result.weeks[v]]

(* Whatever the order of the list, the pair counts of the rolling window   *)
(* are the events of one service that find one of the other in the window  *)
(* before them, in both directions together.                               *)
CoExact ==
  LET sorted == ByTime(events)
      Meets(k, x, y) ==
        /\ sorted[k].service = x
        /\ \E j \in 1..(k - 1) :
             sorted[j].service = y /\ sorted[k].at - sorted[j].at <= CorrWindow
      Met(x, y) == Cardinality({k \in DOMAIN sorted : Meets(k, x, y)})
  IN Analyzed => \A p \in Service \X Service : p[1] # p[2] =>
       result.graph.co[p] = Met(p[1], p[2]) + Met(p[2], p[1])

(* Templates reached from one by similar pairs: those in every set that    *)
(* has it and what is similar to its members.                              *)
Closed(S) == \A t \in S, u \in Groups(events) : <<t, u>> \in Similar => u \in S
Reached(t) == {u \in Groups(events) : \A S \in SUBSET Groups(events) : t \in S /\ Closed(S) => u \in S}

(* Clustering loses and invents no event, by count or by severity, through *)
(* the joins and the <other> bucket; a cluster is a connected component of *)
(* similar templates, named for the one with the most events.              *)
ClustersAreComponents ==
  Analyzed =>
    LET clusters == result.clusters
    IN /\ Total([k \in DOMAIN clusters |-> clusters[k].count], DOMAIN clusters) = Len(events)
       /\ \A s \in Severity :
            Total([k \in DOMAIN clusters |-> clusters[k].severity[s]], DOMAIN clusters)
              = CountIn(events, LAMBDA e : e.severity = s)
       /\ \A k \in DOMAIN clusters : clusters[k].root # "<other>" =>
            /\ clusters[k].templates = Reached(clusters[k].root)
            /\ \A t \in clusters[k].templates :
                 GroupCount(events)[t] <= GroupCount(events)[clusters[k].root]
(* The report agrees with the definition of each of its figures.           *)
PatternsExact ==
  AnalyzerTypeOK /\ BurstsMaximal /\ BurstNeedsCompany /\ VerdictsStand /\ CoExact
    /\ ClustersAreComponents

-----------------------------------------------------------------------------
(* What the comments say and the code does not do (no run checks these).   *)

(* "score(A->B) = P(B within window | A fired)" (README.md:18): one event  *)
(* that meets several of A's counts once, and one of A's may meet B twice. *)
ScoreIsProbability ==
  Analyzed => \A p \in Service \X Service : p[1] # p[2] =>
    result.graph.co[p] = CountIn(events, LAMBDA e : e.service = p[1] /\
      \E k \in DOMAIN events :
        events[k].service = p[2] /\ events[k].at - e.at \in (-CorrWindow)..CorrWindow)

(* "compute mean/stdev across all windows" (time_patterns.py:203): the     *)
(* windows without an event are left out of both.                          *)
SilenceCounts ==
  Analyzed /\ events # <<>> => Buckets(events) = 0..Max(Buckets(events))
=============================================================================
