---------------------------- MODULE MCReminders ----------------------------
(* Small instances of Reminders for TLC. *)
EXTENDS Reminders, TLC

CONSTANTS c1, c2, s1, m1, m2

\* Every session is the same merchant's.
OneMerchant == [s \in Sessions |-> m1]

\* Two merchants with a customer each; the session is the first one's.
TwoOwners == [c \in Customers |-> IF c = c1 THEN m1 ELSE m2]

Alike == Permutations(Customers) \cup Permutations(Sessions) \cup Permutations(Schedulers)
=============================================================================
