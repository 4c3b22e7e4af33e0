---------------------------- MODULE MCColumns -----------------------------
(* Up to eight strings of one width, or some of them shorter, on screens that  *)
(* hold from no column to more columns than there are strings.                 *)
EXTENDS Columns

even(n, w) == [k \in 1..n |-> w]
ragged(n, w, odd) == [k \in 1..n |-> IF k \in odd THEN 0 ELSE w]

MCCalls ==
    {[mode |-> m, list |-> even(n, w), stringwidth |-> w, screenwidth |-> s] :
        m \in {"down", "across"}, n \in 0..8, w \in 0..3, s \in 1..20}
    \cup {[mode |-> m, list |-> ragged(n, 2, odd), stringwidth |-> 2, screenwidth |-> s] :
        m \in {"down", "across"}, n \in {3, 5}, odd \in {{1}, {2, 3}}, s \in {7, 8, 12}}
    \cup {[mode |-> "lines", list |-> even(n, 3), stringwidth |-> n, screenwidth |-> 2] :
        n \in 1..3}
    \cup {[mode |-> "across", list |-> even(3, 0) , stringwidth |-> 0, screenwidth |-> s] : s \in {1, 2, 80}}
=============================================================================
