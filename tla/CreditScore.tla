---------------------------- MODULE CreditScore ----------------------------
(***************************************************************************)
(* The arithmetic of compute_credit_score (customers.py): six factors      *)
(* added up and clamped to 0..100, and the risk category of a score.       *)
(*                                                                         *)
(* A profile is all the function uses of a customer and of the customer's  *)
(* transactions: how many credits and payments there are, what they total, *)
(* how many credits are older than 30 days, how many days ago the last     *)
(* payment was, and the balance stored in the customer document.           *)
(*                                                                         *)
(* Ratios are compared by cross-multiplication on whole numbers: the       *)
(* rounding of the code's floating-point division is abstracted.           *)
(*                                                                         *)
(* A definition whose comment begins with "Mutant" is a plausible slip in  *)
(* the definition after it, and is used by no other definition.            *)
(***************************************************************************)
EXTENDS Integers

Profile == [credits: Nat, payments: Nat, total_credit: Nat, total_paid: Nat,
            overdue: Nat, days_since: Nat, balance: Int]

\* The profiles a list of transactions can have: amounts are positive, and only
\* a credit can be overdue.
IsProfile(p) ==
    /\ p \in Profile
    /\ p.credits = 0 <=> p.total_credit = 0
    /\ p.payments = 0 <=> p.total_paid = 0
    /\ p.overdue <= p.credits

\* Mutant of RatioPoints: the ratio upside down
RatioPointsUpsideDown(p) ==
    LET paidBack(percent) == 100 * p.total_credit >= percent * p.total_paid
    IN  IF p.total_credit <= 0 \/ paidBack(100) THEN 30
        ELSE IF paidBack(40) THEN 12
        ELSE IF paidBack(10) THEN 3
        ELSE 0

\* Mutant of RatioPoints: 40 points where the scale has room for 30
RatioPointsOf40(p) ==
    IF p.total_credit <= 0 \/ p.total_paid >= p.total_credit THEN 40 ELSE 0

\* Factor 1, payment ratio: how much of the credit has been paid back
RatioPoints(p) ==
    LET paidBack(percent) == 100 * p.total_paid >= percent * p.total_credit
    IN  IF p.total_credit <= 0 \/ paidBack(100) THEN 30
        ELSE IF paidBack(85) THEN 26
        ELSE IF paidBack(70) THEN 22
        ELSE IF paidBack(55) THEN 17
        ELSE IF paidBack(40) THEN 12
        ELSE IF paidBack(25) THEN 7
        ELSE IF paidBack(10) THEN 3
        ELSE 0

\* Factor 2, overdue credits: those older than 30 days
OverduePoints(p) ==
    IF p.overdue = 0 THEN 20
    ELSE IF p.overdue = 1 THEN 14
    ELSE IF p.overdue = 2 THEN 8
    ELSE IF p.overdue = 3 THEN 3
    ELSE 0

\* Mutant of BalancePoints: "settled" tested with >= instead of <=
BalancePointsInverted(p) ==
    IF p.balance >= 0 THEN 20 ELSE IF p.balance <= 500 THEN 18 ELSE 16

\* Factor 3, the outstanding balance
BalancePoints(p) ==
    IF p.balance <= 0 THEN 20
    ELSE IF p.balance <= 500 THEN 18
    ELSE IF p.balance <= 1000 THEN 16
    ELSE IF p.balance <= 3000 THEN 13
    ELSE IF p.balance <= 5000 THEN 10
    ELSE IF p.balance <= 10000 THEN 7
    ELSE IF p.balance <= 25000 THEN 4
    ELSE IF p.balance <= 100000 THEN 2
    ELSE 0

\* Factor 4, how many payments there have been
FrequencyPoints(p) ==
    IF p.payments >= 10 THEN 15
    ELSE IF p.payments >= 7 THEN 12
    ELSE IF p.payments >= 5 THEN 9
    ELSE IF p.payments >= 3 THEN 6
    ELSE IF p.payments >= 1 THEN 3
    ELSE 0

\* Factor 5, days since the last payment
RecencyPoints(p) ==
    IF p.payments = 0 THEN 0
    ELSE IF p.days_since <= 7 THEN 10
    ELSE IF p.days_since <= 15 THEN 8
    ELSE IF p.days_since <= 30 THEN 6
    ELSE IF p.days_since <= 60 THEN 4
    ELSE IF p.days_since <= 90 THEN 2
    ELSE 0

\* Mutant of ConsistencyPoints: more payments than credits count as inconsistent
ConsistencyPointsExact(p) ==
    IF p.credits = 0 \/ p.payments = 0 THEN 0
    ELSE IF p.payments = p.credits THEN 5
    ELSE 0

\* Factor 6, a payment for every credit
ConsistencyPoints(p) ==
    IF p.credits = 0 \/ p.payments = 0 THEN 0
    ELSE IF p.payments >= p.credits THEN 5
    ELSE IF 4 * p.payments >= 3 * p.credits THEN 3
    ELSE IF 2 * p.payments >= p.credits THEN 1
    ELSE 0

\* The sum of the factors, before the clamp
RawScore(p) ==
    RatioPoints(p) + OverduePoints(p) + BalancePoints(p)
        + FrequencyPoints(p) + RecencyPoints(p) + ConsistencyPoints(p)

Clamp(n) == IF n < 0 THEN 0 ELSE IF n > 100 THEN 100 ELSE n

\* The score: 100 without looking further when there is no transaction
Score(p) ==
    IF p.credits = 0 /\ p.payments = 0 THEN 100 ELSE Clamp(RawScore(p))

Categories == {"Excellent", "Low Risk", "Medium Risk", "High Risk", "Defaulter"}

Category(score) ==
    IF score >= 80 THEN "Excellent"
    ELSE IF score >= 65 THEN "Low Risk"
    ELSE IF score >= 50 THEN "Medium Risk"
    ELSE IF score >= 30 THEN "High Risk"
    ELSE "Defaulter"
=============================================================================
