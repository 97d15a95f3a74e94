--------------------------- MODULE CreditHistory ---------------------------
(***************************************************************************)
(* The life of one customer account as compute_credit_score sees it: the   *)
(* account's transactions in order of date, the day, and the balance,      *)
(* score and risk category stored in the customer document.  One session,  *)
(* each function run to its end (module Ledger has the interleavings); the *)
(* score is computed by the operators of CreditScore.                      *)
(*                                                                         *)
(* A definition whose comment begins with "Mutant" is a plausible slip in  *)
(* the definition after it, and is used by no other definition.            *)
(***************************************************************************)
EXTENDS CreditScore, Sequences, SequencesExt

CONSTANTS
    Amounts,    \* amounts a form is given
    Waits,      \* numbers of days that pass with nothing recorded
    MaxTxns,    \* bound: transactions the account has at one time
    MaxDay      \* bound: the last day

ASSUME HistoryAssumption ==
    /\ Amounts \subseteq Nat \ {0}
    /\ Waits \subseteq Nat \ {0}
    /\ MaxTxns \in Nat /\ MaxDay \in Nat

VARIABLES
    txns,       \* the account's transactions, by date: [type, amount, date]
    today,      \* datetime.utcnow(), in days
    balance,    \* customer document: balance
    score,      \* customer document: credit_score
    category    \* customer document: risk_category

vars == <<txns, today, balance, score, category>>

Txn == [type: {"credit", "payment"}, amount: Amounts, date: 0..MaxDay]

-----------------------------------------------------------------------------
(* compute_credit_score on a list of transactions, sorted by date *)

Credits(ts)  == {i \in DOMAIN ts : ts[i].type = "credit"}
Payments(ts) == {i \in DOMAIN ts : ts[i].type = "payment"}

Total(ts, is) == SumFunctionOnSet([i \in DOMAIN ts |-> ts[i].amount], is)

\* Days since the last payment
DaysSince(ts, now) ==
    IF Payments(ts) = {} THEN 0 ELSE now - ts[Max(Payments(ts))].date

\* Mutant of Overdue: the comparison the wrong way round
OverdueRecent(ts, now) == {i \in Credits(ts) : now - ts[i].date < 30}

\* The credits older than 30 days
Overdue(ts, now) == {i \in Credits(ts) : now - ts[i].date > 30}

ProfileOf(ts, now, bal) ==
    [credits |-> Cardinality(Credits(ts)),
     payments |-> Cardinality(Payments(ts)),
     total_credit |-> Total(ts, Credits(ts)),
     total_paid |-> Total(ts, Payments(ts)),
     overdue |-> Cardinality(Overdue(ts, now)),
     days_since |-> DaysSince(ts, now),
     balance |-> bal]

\* The score the account would be given now
ScoreNow == Score(ProfileOf(txns, today, balance))

\* compute_credit_score stores the score of what has just been written
Rescore ==
    /\ score' = Score(ProfileOf(txns', today', balance'))
    /\ category' = Category(score')

Signed(type, amount) == IF type = "credit" THEN amount ELSE -amount

-----------------------------------------------------------------------------
(* Operations *)

\* add_customer
Init ==
    /\ txns = <<>>
    /\ today = 0
    /\ balance = 0
    /\ score = 100
    /\ category = "Low Risk"

\* Mutant of Record: the list sorted by date descending
RecordFirst(type, amount) ==
    /\ Len(txns) < MaxTxns
    /\ txns' = <<[type |-> type, amount |-> amount, date |-> today]>> \o txns
    /\ balance' = balance + Signed(type, amount)
    /\ UNCHANGED today
    /\ Rescore

\* add_transaction: dated now, so the last of the list
Record(type, amount) ==
    /\ Len(txns) < MaxTxns
    /\ txns' = Append(txns, [type |-> type, amount |-> amount, date |-> today])
    /\ balance' = balance + Signed(type, amount)
    /\ UNCHANGED today
    /\ Rescore

\* edit_transaction: the date stays
Edit(i, amount) ==
    /\ txns' = [txns EXCEPT ![i].amount = amount]
    /\ balance' = balance + Signed(txns[i].type, amount - txns[i].amount)
    /\ UNCHANGED today
    /\ Rescore

\* delete_transaction
Delete(i) ==
    /\ txns' = RemoveAt(txns, i)
    /\ balance' = balance - Signed(txns[i].type, txns[i].amount)
    /\ UNCHANGED today
    /\ Rescore

\* "Recalculate All Credit Scores"
Recalculate ==
    /\ UNCHANGED <<txns, today, balance>>
    /\ Rescore

\* Days go by.  Nothing recomputes the stored score.
Wait(days) ==
    /\ today + days <= MaxDay
    /\ today' = today + days
    /\ UNCHANGED <<txns, balance, score, category>>

Next ==
    \/ \E type \in {"credit", "payment"}, a \in Amounts : Record(type, a)
    \/ \E i \in 1..Len(txns), a \in Amounts : Edit(i, a)
    \/ \E i \in 1..Len(txns) : Delete(i)
    \/ Recalculate
    \/ \E d \in Waits : Wait(d)

Spec == Init /\ [][Next]_vars

-----------------------------------------------------------------------------
(* Properties *)

\* Every variable has its type, and the dates are in order and not in the future.
TypeOK ==
    /\ txns \in Seq(Txn)
    /\ \A i, j \in 1..Len(txns) : i < j => txns[i].date <= txns[j].date
    /\ \A i \in 1..Len(txns) : txns[i].date <= today
    /\ today \in 0..MaxDay
    /\ balance \in Int
    /\ score \in 0..100
    /\ category \in Categories

\* The factors alone stay within the 100 points of the docstring: whatever the
\* history, the clamp at the end of compute_credit_score changes nothing.
FactorsFillTheScale == RawScore(ProfileOf(txns, today, balance)) \in 0..100

\* A customer who has paid back all the credit there is never shown as high
\* risk or as a defaulter, however old the credits and the payments are.
SettledIsNoRisk ==
    balance <= 0 => category \notin {"High Risk", "Defaulter"}

\* The stored score may be behind the calendar, never ahead of it in the
\* customer's disfavour: what time alone does to the score, it lowers.
StoredScoreIsOptimistic == ScoreNow <= score

\* Recording a payment never lowers the score the customer would otherwise have
\* had that day (unless it is the account's first transaction, which ends the
\* 100 points of an empty history).
PaymentNeverLowersScore ==
    [][/\ Len(txns') = Len(txns) + 1
       /\ Last(txns').type = "payment"
       /\ txns # <<>>
       => score' >= ScoreNow]_vars

\* Raising the amount of a recorded credit, or lowering that of a payment, never
\* raises the score.
WorseAmountNeverRaisesScore ==
    [][\A i \in 1..Len(txns) :
          /\ Len(txns') = Len(txns)
          /\ txns'[i] # txns[i]
          /\ Signed(txns[i].type, txns'[i].amount - txns[i].amount) > 0
          => score' <= ScoreNow]_vars
=============================================================================
