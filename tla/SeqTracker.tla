----------------------------- MODULE SeqTracker -----------------------------
(***************************************************************************)
(* The out-of-order tolerant cumulative-ack tracker                        *)
(* (alfred/gateway/_seq_tracker.py), a pure value: high is the highest     *)
(* contiguous number observed, seen the numbers beyond it.                 *)
(***************************************************************************)
EXTENDS Integers, FiniteSets, FiniteSetsExt

CONSTANT MaxOOOGap   \* numbers further ahead of high than this are ignored

ASSUME GapAssumption == MaxOOOGap \in Nat \ {0}

NewTracker == [high |-> -1, seen |-> {}]

TrackerType == [high : Nat \cup {-1}, seen : SUBSET Nat]

\* observe: high runs up through the contiguous numbers, which leave seen.
Observe(t, seq) ==
    IF seq > t.high + MaxOOOGap THEN t
    ELSE LET seen == t.seen \cup {seq}
             high == Max({h \in t.high .. t.high + Cardinality(seen) :
                             t.high + 1 .. h \subseteq seen})
         IN  [high |-> high, seen |-> {s \in seen : s > high}]

Observed(t, seq) == seq <= t.high \/ seq \in t.seen
=============================================================================
