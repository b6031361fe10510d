-------------------------- MODULE MCChartMatview --------------------------
(***************************************************************************)
(* Instances of ChartMatview for TLC.                                      *)
(***************************************************************************)
EXTENDS ChartMatview, TLC

OneLayout(s) == "g0"          \* every breakdown has the same columns
Grows(s, v) == v >= 1         \* the data outgrow the cap at the first sync
Fits(s, v) == FALSE           \* .. or never

\* The rows in Redis and those on their way to a reader decide nothing.
Deciding ==
  <<data, widget, mv, scratch, truncated, building, build, sync,
    {c \in Charts : cache[c] # None},
    [k \in Calls |-> [call[k] EXCEPT !.rows = NoRows]]>>

AnyCall == Permutations(Calls)  \* requests are interchangeable
=============================================================================
