----------------------------- MODULE MCAccounts -----------------------------
(* Small instances of Accounts for TLC. *)
EXTENDS Accounts, TLC

\* Sessions, and what they type, can change places.
Alike == Permutations(Sessions) \cup Permutations(Usernames)
             \cup Permutations(Phones) \cup Permutations(Passwords)
=============================================================================
