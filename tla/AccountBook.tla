---------------------------- MODULE AccountBook ----------------------------
(***************************************************************************)
(* What the merchant accounts promise: no two accounts have one username,  *)
(* and the password of an account changes only in exchange for the key     *)
(* that was last cut for it, which is gone afterwards.                     *)
(***************************************************************************)
EXTENDS Integers, Sequences

CONSTANTS Usernames, Phones, Passwords

VARIABLES
    accounts,   \* the accounts opened so far: username, phone, password, key
    keys        \* how many keys have been cut

bookVars == <<accounts, keys>>

NoKey == 0

BookInit ==
    /\ accounts = <<>>
    /\ keys = 0

Account(name, p, pw, key) ==
    [username |-> name, phone |-> p, password |-> pw, key |-> key]

OpenAccount(name, p, pw) ==
    /\ \A a \in DOMAIN accounts : accounts[a].username # name
    /\ accounts' = Append(accounts, Account(name, p, pw, NoKey))
    /\ UNCHANGED keys

CutKey(a) ==
    /\ keys' = keys + 1
    /\ accounts' = [accounts EXCEPT
                      ![a] = Account(@.username, @.phone, @.password, keys')]

UseKey(a, pw) ==
    /\ accounts[a].key # NoKey
    /\ accounts' = [accounts EXCEPT
                      ![a] = Account(@.username, @.phone, pw, NoKey)]
    /\ UNCHANGED keys

BookNext ==
    \/ \E name \in Usernames, p \in Phones, pw \in Passwords :
          OpenAccount(name, p, pw)
    \/ \E a \in DOMAIN accounts : CutKey(a)
    \/ \E a \in DOMAIN accounts, pw \in Passwords : UseKey(a, pw)

BookSpec == BookInit /\ [][BookNext]_bookVars
=============================================================================
