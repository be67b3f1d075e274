------------------------------ MODULE Detector ------------------------------
(***************************************************************************)
(* How the PII detector (proxy/detector.py) resolves overlapping hits, and *)
(* how the mapper then walks the text.  A hit is a half-open interval of   *)
(* positions; what stands in it is of no matter here.                      *)
(***************************************************************************)
EXTENDS Integers, Sequences, SequencesExt, FiniteSetsExt, Ordered

CONSTANTS TextLen,  \* length of the text
          MaxHits   \* bound on the hits in it

ASSUME DetectorAssumption == TextLen \in Nat /\ MaxHits \in Nat

VARIABLES hits,  \* what the patterns matched
          kept   \* what detect returns

detectorVars == <<hits, kept>>

Interval == {i \in (0..TextLen) \X (0..TextLen) : i[1] < i[2]}
Start(h) == h[1]
End(h) == h[2]
Length(h) == h[2] - h[1]
Meets(g, h) == g[1] < h[2] /\ h[1] < g[2]

DetectorTypeOK == hits \subseteq Interval /\ kept \in Seq(Interval)

-----------------------------------------------------------------------------
(* Faulty variants: hits that may share a position, a hit that never gives *)
(* way to a longer one.                                                    *)
LaxMerge(acc, h) ==
  IF acc = <<>> \/ Start(h) >= End(Last(acc)) - 1 THEN Append(acc, h)
  ELSE IF Length(h) > Length(Last(acc)) THEN Append(Front(acc), h) ELSE acc
FirstWins(acc, h) ==
  IF acc = <<>> \/ Start(h) >= End(Last(acc)) THEN Append(acc, h) ELSE acc

-----------------------------------------------------------------------------
(* The sort key: by start, the longest first.                              *)
Before(g, h) == Start(g) < Start(h) \/ (Start(g) = Start(h) /\ Length(g) > Length(h))

(* One turn of the loop of _merge_nonoverlapping: the cursor is the end of *)
(* the last hit kept.                                                      *)
Merge(acc, h) ==
  IF acc = <<>> \/ Start(h) >= End(Last(acc)) THEN Append(acc, h)
  ELSE IF Length(h) > Length(Last(acc)) THEN Append(Front(acc), h) ELSE acc
Sorted(S) == InOrder(S, {p \in S \X S : Before(p[1], p[2])})
MergeAll(S) == FoldLeft(Merge, <<>>, Sorted(S))

DetectorInit == hits = {} /\ kept = <<>>

Detect(S) == hits = {} /\ hits' = S /\ kept' = MergeAll(S)

DetectorNext == \E n \in 1..MaxHits : \E S \in kSubset(n, Interval) : Detect(S)

DetectorSpec == DetectorInit /\ [][DetectorNext]_detectorVars

-----------------------------------------------------------------------------
(* redact needs its detections ascending and disjoint: else it would skip  *)
(* one (mapper.py:113 on its contract with the detector).                  *)
KeptDisjoint == \A i \in 1..Len(kept) - 1 : End(kept[i]) <= Start(kept[i + 1])

(* The longest match wins: of the hits of greatest length the earliest is  *)
(* returned (detect's docstring).                                          *)
LongestKept ==
  \A h \in hits :
    (\A g \in hits : Length(g) < Length(h) \/ (Length(g) = Length(h) /\ Start(g) >= Start(h)))
      => h \in Range(kept)

(* Of overlapping hits redact gets disjoint ones, the longest among them.  *)
HitsResolved == KeptDisjoint /\ LongestKept

(* The docstring of _merge_nonoverlapping says a hit is dropped only for   *)
(* an overlapping one that is kept.  Not so: the hit it lost to may itself *)
(* give way to a longer one further on, and then nothing covers it and it  *)
(* goes over the wire as it is.                                            *)
DroppedMeetsKept == \A h \in hits : \E i \in 1..Len(kept) : Meets(h, kept[i])
=============================================================================
