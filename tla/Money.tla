------------------------------- MODULE Money -------------------------------
(***************************************************************************)
(* The arithmetic of the ledger: an amount is a Python float, a balance is *)
(* the double that MongoDB's $inc makes of it, and both are rounded to 53  *)
(* binary digits after every addition.  One customer, one session, every   *)
(* function run to its end: module Ledger has whole numbers and the        *)
(* interleavings, this one has what the numbers really are.                *)
(*                                                                         *)
(* A double is written <<hi, lo>>, which stands for (hi * 2^28 + lo) units *)
(* of 2^-56 rupees, lo in 0..2^28-1: exact for the doubles from 2^-4 up to *)
(* 4 rupees, and for the sums and differences of them.                     *)
(***************************************************************************)
EXTENDS Integers, Functions

CONSTANTS
    Amounts,    \* doubles a form is given, all above zero
    MaxTxns     \* bound: transaction documents ever created

Limb == 2^28
Zero == <<0, 0>>

VARIABLES
    txns,       \* the customer's transactions: id -> [type, amount]
    nextTxn,    \* the next transaction ObjectId
    customer    \* the totals of the customer document

vars == <<txns, nextTxn, customer>>

TxnTypes == {"credit", "payment"}

-----------------------------------------------------------------------------
(* Doubles *)

\* The exact sum and the exact opposite
Plus(x, y) == LET lo == x[2] + y[2]
              IN  <<x[1] + y[1] + lo \div Limb, lo % Limb>>
Minus(x) == IF x[2] = 0 THEN <<-x[1], 0>> ELSE <<-x[1] - 1, Limb - x[2]>>

\* The distance of the doubles around x >= 0, in units: x has 53 + e binary digits
Ulp(x) == 2^(CHOOSE e \in 0..5 : /\ x[1] < 2^(25 + e)
                                 /\ e > 0 => x[1] >= 2^(24 + e))

\* The nearest double to x >= 0, and of two that are as near the even one
RoundUp(x, ulp, rest) == 2 * rest > ulp \/ (2 * rest = ulp /\ (x[2] \div ulp) % 2 = 1)
RoundNat(x) ==
    LET ulp  == Ulp(x)
        rest == x[2] % ulp
        down == <<x[1], x[2] - rest>>
    IN  IF RoundUp(x, ulp, rest) THEN Plus(down, <<0, ulp>>) ELSE down

Round(x) == IF x[1] >= 0 THEN RoundNat(x) ELSE Minus(RoundNat(Minus(x)))

Positive(x) == x[1] >= 0 /\ x # Zero

-----------------------------------------------------------------------------
(* Operations *)

\* The $inc of a change to the amount of a transaction
Post(type, delta) ==
    customer' =
      [balance |-> Round(Plus(customer.balance,
                              IF type = "credit" THEN delta ELSE Minus(delta))),
       total_credit |-> IF type = "credit" THEN Round(Plus(customer.total_credit, delta))
                                           ELSE customer.total_credit,
       total_paid |-> IF type = "payment" THEN Round(Plus(customer.total_paid, delta))
                                          ELSE customer.total_paid]

AddTransaction(type, amount) ==
    /\ nextTxn <= MaxTxns
    /\ txns' = [t \in DOMAIN txns \cup {nextTxn} |->
                  IF t = nextTxn THEN [type |-> type, amount |-> amount] ELSE txns[t]]
    /\ nextTxn' = nextTxn + 1
    /\ Post(type, amount)

\* The difference of the amounts is a double, rounded before it is posted.
EditTransaction(t, amount) ==
    /\ txns' = [txns EXCEPT ![t].amount = amount]
    /\ Post(txns[t].type, Round(Plus(amount, Minus(txns[t].amount))))
    /\ UNCHANGED nextTxn

DeleteTransaction(t) ==
    /\ txns' = Restrict(txns, DOMAIN txns \ {t})
    /\ Post(txns[t].type, Minus(txns[t].amount))
    /\ UNCHANGED nextTxn

Init ==
    /\ txns = [t \in {} |-> Zero]
    /\ nextTxn = 1
    /\ customer = [balance |-> Zero, total_credit |-> Zero, total_paid |-> Zero]

Next ==
    \/ \E type \in TxnTypes, a \in Amounts : AddTransaction(type, a)
    \/ \E t \in DOMAIN txns, a \in Amounts : EditTransaction(t, a)
    \/ \E t \in DOMAIN txns : DeleteTransaction(t)

Spec == Init /\ [][Next]_vars

-----------------------------------------------------------------------------
(* Properties *)

\* get_defaulters: balance > 0
IsDefaulter == Positive(customer.balance)

\* "Delete a transaction and reverse its effect on customer balance": a customer
\* all of whose transactions have been deleted again owes nothing and is no defaulter.
ReversedLeavesNothing == DOMAIN txns = {} => ~IsDefaulter
=============================================================================
