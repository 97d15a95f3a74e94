------------------------------ MODULE MCLedger ------------------------------
(* Small instances of Ledger for TLC. *)
EXTENDS LedgerRefinement, TLC

CONSTANTS s1, s2, s3, m1, m2

\* Everybody logged in as the same merchant: sessions can change places.
OneMerchant == [s \in Sessions |-> m1]
SessionsAlike == Permutations(Sessions)

\* Racing calls can put the books out by any amount: stop at MaxDrift.
CONSTANT MaxDrift
SmallBalances ==
    \A c \in DOMAIN customers :
        customers[c].total_credit \in -MaxDrift..MaxDrift /\
        customers[c].total_paid \in -MaxDrift..MaxDrift

\* Two sessions of one merchant, and one of another.
TwoMerchants == [s \in Sessions |-> IF s = s3 THEN m2 ELSE m1]
ColleaguesAlike == Permutations({s1, s2})
=============================================================================
