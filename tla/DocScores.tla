----------------------------- MODULE DocScores -----------------------------
(***************************************************************************)
(* The two ways a document's age is judged (reconciliation/sources.py and  *)
(* drift.py): its freshness, which ranks search results, and its           *)
(* staleness, which the sweep reports.  An age is in days, NoAge when the  *)
(* document carries no readable date.                                      *)
(***************************************************************************)
EXTENDS Integers

NoAge == -1

(* Python's round of a / b, a tie going up.  Freshness never meets one.    *)
Rounded(a, b) == (2 * a + b) \div (2 * b)

(* Variant: the last stretch starts over at a half.                        *)
FreshnessJumps(age) ==
  CASE age = NoAge -> 0
    [] age = 0 -> 1000
    [] age \in 1 .. 180 -> 1000 - Rounded(500 * age, 180)
    [] age \in 181 .. 365 -> 500 - Rounded(400 * (age - 180), 185)
    [] age \in 366 .. 729 -> 500 - Rounded(100 * (age - 365), 365)
    [] OTHER -> 0

(* Freshness in thousandths: full today, half at 180 days, a tenth at a    *)
(* year, nothing from two years on or without a date.                      *)
Freshness(age) ==
  CASE age = NoAge -> 0
    [] age = 0 -> 1000
    [] age \in 1 .. 180 -> 1000 - Rounded(500 * age, 180)
    [] age \in 181 .. 365 -> 500 - Rounded(400 * (age - 180), 185)
    [] age \in 366 .. 729 -> 100 - Rounded(100 * (age - 365), 365)
    [] OTHER -> 0

Capped(n, most) == IF n > most THEN most ELSE n

(* Staleness in units of 1 / 730 000: the age weighs 0.55 and reaches its  *)
(* weight after two years; old years, dead systems and tell-tale phrases   *)
(* count twice at most and are weighted down once more.                    *)
Whole == 730000
AgePart(age) == IF age = NoAge THEN 275 * 730 ELSE 550 * Capped(age, 730)

(* Variant: the signals are not weighted down again.                       *)
StalenessUnweighted(doc) ==
  AgePart(doc.age) + 73 * (1500 * Capped(doc.years, 2) + 2000 * Capped(doc.dead, 2) + 1500 * Capped(doc.phrases, 2))
Staleness(doc) ==
  AgePart(doc.age) + 73 * (225 * Capped(doc.years, 2) + 400 * Capped(doc.dead, 2) + 150 * Capped(doc.phrases, 2))

(* The score is rounded to thousandths.  One old year alone makes a tie    *)
(* when the age is a multiple of 73, which the float takes either way.     *)
Scored(doc, down) ==
  IF down THEN (2000 * Staleness(doc) + Whole - 1) \div (2 * Whole)
  ELSE Rounded(1000 * Staleness(doc), Whole)

(* It is held against 0.5, which no tie can reach.                         *)
IsStale(doc) == 2 * Scored(doc, FALSE) >= 1000
=============================================================================
