--------------------------- MODULE MeterSampling ---------------------------
(***************************************************************************)
(* The points of a session's chart (getMeterPoints in                      *)
(* charging-history/charging-history.repository.ts): the meter values, in  *)
(* the order of time, are put in at most maxPoints buckets, and the first  *)
(* of each bucket is shown.                                                *)
(***************************************************************************)
EXTENDS Integers, Sequences, FiniteSets, FiniteSetsExt

CONSTANTS
  MaxValues,    \* bound on meter values of a session
  Points        \* values of maxPoints asked for: the query admits 10 to 120

VARIABLES
  values,       \* meter values there are
  chart         \* rows of the last chart, with the maxPoints it was asked for

vars == <<values, chart>>

-----------------------------------------------------------------------------

\* The bucket of the i-th of n values.
Bucket(n, points, i) ==
  CASE n <= points -> i - 1
    [] n > points /\ i = 1 -> 0
    [] n > points /\ i = n -> points - 1
    [] OTHER -> 1 + ((i - 2) * (points - 2)) \div Max({n - 2, 1})

\* DISTINCT ON (bucket) ORDER BY bucket, sampled_at.
Sampled(n, points) ==
  {i \in 1 .. n : \A j \in 1 .. i - 1 : Bucket(n, points, j) # Bucket(n, points, i)}

Record ==
  /\ values < MaxValues
  /\ values' = values + 1
  /\ UNCHANGED chart

GetMetrics(points) ==
  /\ chart' = [of |-> values, points |-> points, rows |-> Sampled(values, points)]
  /\ UNCHANGED values

Init == values = 0 /\ chart = [of |-> 0, points |-> 0, rows |-> {}]

Next == Record \/ \E points \in Points : GetMetrics(points)

Spec == Init /\ [][Next]_vars

-----------------------------------------------------------------------------
(* Properties *)

\* Every variable has its type.
TypeOK ==
  /\ values \in 0 .. MaxValues
  /\ chart.rows \subseteq 1 .. MaxValues

\* A chart has no more points than were asked for, all of them if there are not more, and as many
\* as were asked for otherwise; its first and last points are the first and last values of the
\* session (getMeterPoints).
ChartIsFaithful ==
  /\ Cardinality(chart.rows) = Min({chart.of, chart.points})
  /\ chart.of > 0 => {1, chart.of} \subseteq chart.rows
=============================================================================
