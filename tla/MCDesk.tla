------------------------------- MODULE MCDesk -------------------------------
(* A small instance of Desk for TLC. *)
EXTENDS Desk, TLC

CONSTANTS s1, s2, m1

OneMerchant == [s \in Sessions |-> m1]
SessionsAlike == Permutations(Sessions)

\* Bounds: one script run cut short with its entry to write, four entries in all,
\* and nothing after the (only) merchant has cleared the log, which excuses all.
ShortLog ==
    /\ Cardinality(lost) <= 1
    /\ Cardinality(log) + Cardinality(lost) <= 4
    /\ wiped = {}
=============================================================================
