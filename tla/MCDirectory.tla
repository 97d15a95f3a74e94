---------------------------- MODULE MCDirectory ----------------------------
(* Small instances of Directory for TLC. *)
EXTENDS Directory, TLC

CONSTANTS s1, s2, s3, m1, m2, p1, p2

\* Two sessions of one merchant, and one of another.
TwoMerchants == [s \in Sessions |-> IF s = s3 THEN m2 ELSE m1]

\* A row that cannot be used, and two customers.
OneFile == {<<p1, Blank, p2>>}

Alike == Permutations({s1, s2} \cap Sessions)
=============================================================================
