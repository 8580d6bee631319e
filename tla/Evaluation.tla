----------------------------- MODULE Evaluation -----------------------------
(***************************************************************************)
(* The evaluation metrics: how spans and places a pipeline predicted are   *)
(* scored against a gold standard.  An annotation is a record of its       *)
(* document, its span and its place, or NoPlace; ratios are pairs          *)
(* <<numerator, denominator>>.                                             *)
(***************************************************************************)
EXTENDS Naturals, FiniteSets, SequencesExt

CONSTANTS
  NoPlace,        \* no place, or no coordinates
  PointOf,        \* the coordinates of each place, or NoPlace
  Km,             \* Km[x][y]: the distance of two points
  UnresolvedKm,   \* the error of a gold span that was not placed
  MaxErrorKm,     \* half the Earth's circumference
  ThresholdKm,    \* the distance that counts as the right place
  Log             \* Log[n]: the compressed error, a growing function

\* "No two points on the surface are further apart" (evaluation.py:270-273).
ASSUME DistanceAssumption ==
  \A x, y \in DOMAIN Km : Km[x][y] <= MaxErrorKm

\* Spans are qualified by their document.
Identity(a) == <<a.document, a.span>>

UniqueSpans(A) == {Identity(a) : a \in A}

ResolvedPairs(A) == {<<Identity(a), a.place>> : a \in {b \in A : b.place # NoPlace}}

\* Gold annotations that give one span two places are refused.
Conflicting(gold) ==
  \E x, y \in ResolvedPairs(gold) : x[1] = y[1] /\ x[2] # y[2]

\* An empty comparison is perfect.
Ratio(numerator, denominator) ==
  IF denominator = 0 THEN <<1, 1>> ELSE <<numerator, denominator>>

Found(gold, predicted) == Cardinality(UniqueSpans(gold) \cap UniqueSpans(predicted))

Precision(gold, predicted) ==
  Ratio(Found(gold, predicted), Cardinality(UniqueSpans(predicted)))

Recall(gold, predicted) ==
  Ratio(Found(gold, predicted), Cardinality(UniqueSpans(gold)))

\* The harmonic mean of the two, as one fraction.
F1(gold, predicted) ==
  LET p == Precision(gold, predicted)
      r == Recall(gold, predicted)
      both == p[1] * r[2] + r[1] * p[2]
  IN  IF both = 0 THEN <<0, 1>> ELSE <<2 * p[1] * r[1], both>>

ResolutionAccuracy(gold, predicted) ==
  Ratio(Cardinality(ResolvedPairs(gold) \cap ResolvedPairs(predicted)),
        Cardinality(ResolvedPairs(gold)))

-----------------------------------------------------------------------------
(***************************************************************************)
(* Distances.                                                              *)
(***************************************************************************)

Point(place) == IF place = NoPlace THEN NoPlace ELSE PointOf[place]

LocatedSpans(A) == {Identity(a) : a \in {b \in A : Point(b.place) # NoPlace}}

\* One entry per span: a document's toponyms have distinct spans.
PointAt(A, identity) ==
  Point((CHOOSE a \in A : Identity(a) = identity /\ Point(a.place) # NoPlace).place)

\* Mutant: gold spans that were not placed are left out.
ErrorsOfPlaced(gold, predicted) ==
  [i \in LocatedSpans(gold) \cap LocatedSpans(predicted) |->
     Km[PointAt(gold, i)][PointAt(predicted, i)]]

\* "So that a pipeline cannot improve its score by resolving less", a gold span
\* that was not placed has the largest error (evaluation.py:326-329).
Errors(gold, predicted) ==
  [i \in LocatedSpans(gold) |->
     IF i \in LocatedSpans(predicted)
       THEN Km[PointAt(gold, i)][PointAt(predicted, i)]
       ELSE UnresolvedKm]

\* The errors, worst first.
ErrorsKm(gold, predicted) ==
  LET errors == Errors(gold, predicted)
      order == SetToSortSeq(DOMAIN errors, LAMBDA i, j : errors[i] >= errors[j])
  IN  [k \in DOMAIN order |-> errors[order[k]]]

AccuracyAtKm(gold, predicted) ==
  LET errors == ErrorsKm(gold, predicted) IN
  Ratio(Cardinality({k \in DOMAIN errors : errors[k] <= ThresholdKm}), Len(errors))

Total(errors) == FoldSeq(LAMBDA error, sum : error + sum, 0, errors)

\* Nothing to compare is no error at all.
Average(numerator, denominator) ==
  IF denominator = 0 THEN <<0, 1>> ELSE <<numerator, denominator>>

MeanErrorKm(gold, predicted) ==
  LET errors == ErrorsKm(gold, predicted) IN Average(Total(errors), Len(errors))

MedianErrorKm(gold, predicted) ==
  LET errors == ErrorsKm(gold, predicted)
      middle == Len(errors) \div 2
  IN  IF errors = <<>> THEN <<0, 1>>
      ELSE IF Len(errors) % 2 = 1 THEN <<errors[middle + 1], 1>>
      ELSE <<errors[middle] + errors[middle + 1], 2>>

\* Capped, compressed and normalised.
AreaUnderErrorCurve(gold, predicted) ==
  LET errors == ErrorsKm(gold, predicted)
      capped == [k \in DOMAIN errors |->
                   Log[IF errors[k] > MaxErrorKm THEN MaxErrorKm ELSE errors[k]]]
  IN  Average(Total(capped), Len(errors) * Log[MaxErrorKm])

-----------------------------------------------------------------------------
(***************************************************************************)
(* What the metrics promise of two predictions for one gold standard.      *)
(***************************************************************************)

AtMost(x, y) == x[1] * y[2] <= y[1] * x[2]

\* The first prediction scores no better than the second.
NoBetter(gold, fewer, more) ==
  /\ AtMost(AccuracyAtKm(gold, fewer), AccuracyAtKm(gold, more))
  /\ AtMost(MeanErrorKm(gold, more), MeanErrorKm(gold, fewer))
  /\ AtMost(MedianErrorKm(gold, more), MedianErrorKm(gold, fewer))
  /\ AtMost(AreaUnderErrorCurve(gold, more), AreaUnderErrorCurve(gold, fewer))
=============================================================================
