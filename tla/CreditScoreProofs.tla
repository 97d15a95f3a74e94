-------------------------- MODULE CreditScoreProofs --------------------------
(***************************************************************************)
(* What compute_credit_score gives every profile, whatever its numbers,    *)
(* and what that makes of an account over time (module CreditHistory), for *)
(* any amounts, any number of transactions and any calendar.               *)
(***************************************************************************)
EXTENDS CreditHistory, SumTheorems, SequenceTheorems, TLAPS

-----------------------------------------------------------------------------
(* The score of a profile *)

\* The six factors are worth 30 + 20 + 20 + 15 + 10 + 5 points, never less than 0.
LEMMA FactorRanges ==
    ASSUME NEW p \in Profile
    PROVE  /\ RatioPoints(p) \in 0..30
           /\ OverduePoints(p) \in 0..20
           /\ BalancePoints(p) \in 0..20
           /\ FrequencyPoints(p) \in 0..15
           /\ RecencyPoints(p) \in 0..10
           /\ ConsistencyPoints(p) \in 0..5
<1>1. RatioPoints(p) \in 0..30
  BY DEF RatioPoints
<1>2. OverduePoints(p) \in 0..20
  BY DEF OverduePoints
<1>3. BalancePoints(p) \in 0..20
  BY DEF BalancePoints
<1>4. FrequencyPoints(p) \in 0..15
  BY DEF FrequencyPoints
<1>5. RecencyPoints(p) \in 0..10
  BY DEF RecencyPoints
<1>6. ConsistencyPoints(p) \in 0..5
  BY DEF ConsistencyPoints
<1> QED BY <1>1, <1>2, <1>3, <1>4, <1>5, <1>6

\* "FACTORS (total 100 points)": the factors of every profile add up to 0..100,
\* so the clamp at the end of compute_credit_score never changes a score.
THEOREM ClampIsRedundant ==
    ASSUME NEW p \in Profile
    PROVE  RawScore(p) \in 0..100 /\ Clamp(RawScore(p)) = RawScore(p)
BY FactorRanges DEF RawScore, Clamp

\* An account with nothing outstanding whose credits are all paid back scores 50
\* or more, so its category is Medium Risk at worst, whatever its history.
THEOREM SettledScore ==
    ASSUME NEW p \in Profile, p.balance <= 0, p.total_paid >= p.total_credit
    PROVE  /\ Score(p) >= 50
           /\ Category(Score(p)) \notin {"High Risk", "Defaulter"}
<1>1. RatioPoints(p) = 30
  BY DEF RatioPoints, Profile
<1>2. BalancePoints(p) = 20
  BY DEF BalancePoints, Profile
<1>3. RawScore(p) >= 50 /\ RawScore(p) <= 100
  BY <1>1, <1>2, FactorRanges DEF RawScore
<1>4. Score(p) >= 50
  BY <1>3, ClampIsRedundant DEF Score
<1> QED BY <1>4 DEF Category, Score, Clamp

\* A profile no factor of which is less than another's scores no less.
LEMMA FactorsCompare ==
    ASSUME NEW p \in Profile, NEW q \in Profile,
           p.credits = 0 /\ p.payments = 0 <=> q.credits = 0 /\ q.payments = 0,
           RatioPoints(q) >= RatioPoints(p), OverduePoints(q) >= OverduePoints(p),
           BalancePoints(q) >= BalancePoints(p), FrequencyPoints(q) >= FrequencyPoints(p),
           RecencyPoints(q) >= RecencyPoints(p),
           ConsistencyPoints(q) >= ConsistencyPoints(p)
    PROVE  Score(q) >= Score(p)
<1>1. /\ RatioPoints(p) \in 0..30 /\ RatioPoints(q) \in 0..30
      /\ OverduePoints(p) \in 0..20 /\ OverduePoints(q) \in 0..20
      /\ BalancePoints(p) \in 0..20 /\ BalancePoints(q) \in 0..20
      /\ FrequencyPoints(p) \in 0..15 /\ FrequencyPoints(q) \in 0..15
      /\ RecencyPoints(p) \in 0..10 /\ RecencyPoints(q) \in 0..10
      /\ ConsistencyPoints(p) \in 0..5 /\ ConsistencyPoints(q) \in 0..5
  BY FactorRanges
<1>2. /\ RatioPoints(p) \in Int /\ RatioPoints(q) \in Int
      /\ OverduePoints(p) \in Int /\ OverduePoints(q) \in Int
      /\ BalancePoints(p) \in Int /\ BalancePoints(q) \in Int
      /\ FrequencyPoints(p) \in Int /\ FrequencyPoints(q) \in Int
      /\ RecencyPoints(p) \in Int /\ RecencyPoints(q) \in Int
      /\ ConsistencyPoints(p) \in Int /\ ConsistencyPoints(q) \in Int
  BY <1>1
<1>3. RawScore(q) >= RawScore(p)
  BY <1>2 DEF RawScore
<1>4. /\ RawScore(p) \in 0..100 /\ Clamp(RawScore(p)) = RawScore(p)
      /\ RawScore(q) \in 0..100 /\ Clamp(RawScore(q)) = RawScore(q)
  BY ClampIsRedundant
<1> QED BY <1>3, <1>4 DEF Score

\* The profile of p's account after a payment of the given amount, made now
WithPayment(p, amount) ==
    [credits |-> p.credits, payments |-> p.payments + 1,
     total_credit |-> p.total_credit, total_paid |-> p.total_paid + amount,
     overdue |-> p.overdue, days_since |-> 0, balance |-> p.balance - amount]

\* No factor of compute_credit_score is lowered by a payment, so recording a
\* payment on an account that has transactions never lowers its score.
THEOREM PaymentRaisesScore ==
    ASSUME NEW p \in Profile, NEW amount \in Nat, p.credits > 0 \/ p.payments > 0
    PROVE  Score(WithPayment(p, amount)) >= Score(p)
<1> DEFINE q == WithPayment(p, amount)
<1>q. q \in Profile
  BY DEF WithPayment, Profile
<1>t. /\ p.total_credit \in Nat /\ q.total_credit = p.total_credit
      /\ p.total_paid \in Nat /\ q.total_paid = p.total_paid + amount
      /\ p.balance \in Int /\ q.balance = p.balance - amount
      /\ p.payments \in Nat /\ q.payments = p.payments + 1
      /\ p.credits \in Nat /\ q.credits = p.credits
      /\ p.days_since \in Nat /\ q.days_since = 0
      /\ p.overdue \in Nat /\ q.overdue = p.overdue
  BY DEF WithPayment, Profile
<1> HIDE DEF q
<1>1. RatioPoints(q) >= RatioPoints(p)
  BY <1>t DEF RatioPoints
<1>2. OverduePoints(q) = OverduePoints(p)
  BY <1>t DEF OverduePoints
<1>3. BalancePoints(q) >= BalancePoints(p)
  BY <1>t DEF BalancePoints
<1>4. FrequencyPoints(q) >= FrequencyPoints(p)
  BY <1>t DEF FrequencyPoints
<1>5. RecencyPoints(q) >= RecencyPoints(p)
  BY <1>t DEF RecencyPoints
<1>6. ConsistencyPoints(q) >= ConsistencyPoints(p)
  BY <1>t DEF ConsistencyPoints
<1>7. OverduePoints(q) >= OverduePoints(p)
  BY <1>2, FactorRanges
<1>8. q.payments # 0 /\ ~(p.credits = 0 /\ p.payments = 0)
  BY <1>t
<1>9. Score(q) >= Score(p)
  BY <1>q, <1>1, <1>3, <1>4, <1>5, <1>6, <1>7, <1>8, FactorsCompare
<1> QED BY <1>9 DEF q

\* No factor of compute_credit_score is raised by owing more: neither by a higher
\* total of the credits nor by a lower one of the payments, with the balance that
\* goes with it.
LEMMA OwingMoreLowersScore ==
    ASSUME NEW p \in Profile, NEW q \in Profile,
           q.credits = p.credits, q.payments = p.payments, q.overdue = p.overdue,
           q.days_since = p.days_since, q.total_credit >= p.total_credit,
           q.total_paid <= p.total_paid, q.balance >= p.balance
    PROVE  Score(q) <= Score(p)
<1>t. /\ p.total_credit \in Nat /\ q.total_credit \in Nat
      /\ p.total_paid \in Nat /\ q.total_paid \in Nat
      /\ p.balance \in Int /\ q.balance \in Int
  BY DEF Profile
<1>1. RatioPoints(p) >= RatioPoints(q)
  BY <1>t DEF RatioPoints
<1>2. BalancePoints(p) >= BalancePoints(q)
  BY <1>t DEF BalancePoints
<1>3. /\ OverduePoints(p) = OverduePoints(q) /\ FrequencyPoints(p) = FrequencyPoints(q)
      /\ RecencyPoints(p) = RecencyPoints(q) /\ ConsistencyPoints(p) = ConsistencyPoints(q)
  BY DEF OverduePoints, FrequencyPoints, RecencyPoints, ConsistencyPoints
<1>4. /\ OverduePoints(p) \in Int /\ FrequencyPoints(p) \in Int
      /\ RecencyPoints(p) \in Int /\ ConsistencyPoints(p) \in Int
      /\ Score(p) \in Int /\ Score(q) \in Int
  BY FactorRanges, ClampIsRedundant DEF Score
<1>5. Score(p) >= Score(q)
  BY <1>1, <1>2, <1>3, <1>4, FactorsCompare
<1> QED BY <1>4, <1>5

\* Nor does any factor rise as days go by.
LEMMA WaitingLowersScore ==
    ASSUME NEW p \in Profile, NEW q \in Profile,
           q.credits = p.credits, q.payments = p.payments,
           q.total_credit = p.total_credit, q.total_paid = p.total_paid,
           q.balance = p.balance, q.overdue >= p.overdue, q.days_since >= p.days_since
    PROVE  Score(q) <= Score(p)
<1>t. /\ p.overdue \in Nat /\ q.overdue \in Nat
      /\ p.days_since \in Nat /\ q.days_since \in Nat
  BY DEF Profile
<1>1. OverduePoints(p) >= OverduePoints(q)
  BY <1>t DEF OverduePoints
<1>2. RecencyPoints(p) >= RecencyPoints(q)
  BY <1>t DEF RecencyPoints
<1>3. /\ RatioPoints(p) = RatioPoints(q) /\ FrequencyPoints(p) = FrequencyPoints(q)
      /\ BalancePoints(p) = BalancePoints(q) /\ ConsistencyPoints(p) = ConsistencyPoints(q)
  BY DEF RatioPoints, FrequencyPoints, BalancePoints, ConsistencyPoints
<1>4. /\ RatioPoints(p) \in Int /\ FrequencyPoints(p) \in Int
      /\ BalancePoints(p) \in Int /\ ConsistencyPoints(p) \in Int
      /\ Score(p) \in Int /\ Score(q) \in Int
  BY FactorRanges, ClampIsRedundant DEF Score
<1>5. Score(p) >= Score(q)
  BY <1>1, <1>2, <1>3, <1>4, FactorsCompare
<1> QED BY <1>4, <1>5

-----------------------------------------------------------------------------
(* The profile of a list of transactions *)

\* What a list of transactions is: its indices, its fields, its two halves.
LEMMA TxnList ==
    ASSUME NEW ts \in Seq(Txn)
    PROVE  /\ Len(ts) \in Nat /\ DOMAIN ts = 1..Len(ts) /\ IsFiniteSet(DOMAIN ts)
           /\ \A i \in 1..Len(ts) : /\ ts[i].amount \in Nat \ {0} /\ ts[i].date \in Nat
                                    /\ ts[i].amount \in Amounts /\ ts[i].date \in 0..MaxDay
                                    /\ ts[i].type \in {"credit", "payment"}
           /\ Credits(ts) \subseteq 1..Len(ts) /\ IsFiniteSet(Credits(ts))
           /\ Payments(ts) \subseteq 1..Len(ts) /\ IsFiniteSet(Payments(ts))
           /\ Payments(ts) = DOMAIN ts \ Credits(ts)
<1>1. Len(ts) \in Nat /\ DOMAIN ts = 1..Len(ts) /\ \A i \in 1..Len(ts) : ts[i] \in Txn
  OBVIOUS
<1>2. IsFiniteSet(DOMAIN ts)
  BY <1>1, FS_Interval
<1>3. \A i \in 1..Len(ts) : /\ ts[i].amount \in Nat \ {0} /\ ts[i].date \in Nat
                            /\ ts[i].amount \in Amounts /\ ts[i].date \in 0..MaxDay
                            /\ ts[i].type \in {"credit", "payment"}
  <2>1. /\ Amounts \subseteq Nat \ {0} /\ 0..MaxDay \subseteq Nat
    BY HistoryAssumption DEF HistoryAssumption
  <2>2. \A i \in 1..Len(ts) : /\ ts[i].amount \in Amounts /\ ts[i].date \in 0..MaxDay
                              /\ ts[i].type \in {"credit", "payment"}
    BY <1>1 DEF Txn
  <2> QED BY <2>1, <2>2
<1>4. Credits(ts) \subseteq DOMAIN ts /\ Payments(ts) = DOMAIN ts \ Credits(ts)
  BY <1>1, <1>3 DEF Credits, Payments
<1>5. IsFiniteSet(Credits(ts)) /\ IsFiniteSet(Payments(ts))
  BY <1>2, <1>4, FS_Subset
<1> QED BY <1>1, <1>2, <1>3, <1>4, <1>5

\* Of numbers, some but finitely many, there is a largest.
LEMMA LargestNumber ==
    ASSUME NEW I, IsFiniteSet(I), I # {}, \A i \in I : i \in Nat
    PROVE  Max(I) \in I /\ \A i \in I : Max(I) >= i
<1> DEFINE B == {T \in SUBSET I : \E i \in I : T = {j \in I : j >= i}}
<1>1. B \in SUBSET (SUBSET I)
  OBVIOUS
<1>2. B # {}
  <2>1. PICK i : i \in I
    OBVIOUS
  <2>2. {j \in I : j >= i} \in B
    BY <2>1
  <2> QED BY <2>2
<1>3. PICK T \in B : \A U \in B : U \subseteq T => U = T
  <2> HIDE DEF B
  <2> QED BY <1>1, <1>2, Smallest
<1>4. PICK i \in I : T = {j \in I : j >= i}
  OBVIOUS
<1>5. ASSUME NEW k \in I, ~(i >= k)
      PROVE  FALSE
  <2>1. PICK U : U = {j \in I : j >= k}
    OBVIOUS
  <2>2. U \in B
    BY <2>1
  <2>3. i \in Nat /\ k \in Nat /\ k > i
    BY <1>5
  <2>4. i \in T /\ i \notin U
    BY <1>4, <2>1, <2>3
  <2>5. ASSUME NEW j \in U
        PROVE  j \in T
    <3>1. j \in I /\ j >= k /\ j \in Nat
      BY <2>1
    <3> QED BY <1>4, <2>3, <3>1
  <2>6. U = T
    BY <1>3, <2>2, <2>5
  <2> QED BY <2>4, <2>6
<1>6. \E x \in I : \A y \in I : x >= y
  BY <1>5
<1> QED BY <1>6 DEF Max

\* Of indices, some, there is a last one.
LEMMA LastIndex ==
    ASSUME NEW n \in Nat, NEW I \in SUBSET (1..n), I # {}
    PROVE  Max(I) \in I /\ \A i \in I : Max(I) >= i
<1>1. IsFiniteSet(1..n)
  BY FS_Interval
<1>2. IsFiniteSet(I)
  BY <1>1, FS_Subset
<1>3. \A i \in I : i \in Nat
  OBVIOUS
<1> QED BY <1>2, <1>3, LargestNumber

\* A list of transactions dated up to now has a profile.
LEMMA ProfileType ==
    ASSUME NEW ts \in Seq(Txn), NEW now \in Nat, NEW bal \in Int,
           \A i \in 1..Len(ts) : ts[i].date <= now
    PROVE  ProfileOf(ts, now, bal) \in Profile
<1>1. /\ Cardinality(Credits(ts)) \in Nat /\ Cardinality(Payments(ts)) \in Nat
      /\ Cardinality(Overdue(ts, now)) \in Nat
  <2>1. Overdue(ts, now) \subseteq Credits(ts)
    BY DEF Overdue
  <2> QED BY <2>1, TxnList, FS_Subset, FS_CardinalityType
<1>2. ASSUME NEW is \in SUBSET (1..Len(ts))
      PROVE  Total(ts, is) \in Nat
  <2>1. IsFiniteSet(is) /\ \A i \in is : [j \in DOMAIN ts |-> ts[j].amount][i] \in Nat
    BY TxnList, FS_Subset
  <2> QED BY <2>1, SumNat DEF Total
<1>3. DaysSince(ts, now) \in Nat
  <2>1. CASE Payments(ts) # {}
    <3>1. Max(Payments(ts)) \in 1..Len(ts)
      BY <2>1, TxnList, LastIndex
    <3>2. ts[Max(Payments(ts))].date \in Nat /\ ts[Max(Payments(ts))].date <= now
      BY <3>1, TxnList
    <3> QED BY <2>1, <3>2 DEF DaysSince
  <2> QED BY <2>1 DEF DaysSince
<1> QED BY <1>1, <1>2, <1>3, TxnList DEF ProfileOf, Profile

\* What the transactions add up to, payments taken off
Terms(ts) == [i \in DOMAIN ts |-> Signed(ts[i].type, ts[i].amount)]
Net(ts) == SumFunctionOnSet(Terms(ts), DOMAIN ts)

\* What the transactions add up to, payments taken off, is the total of the credits
\* less that of the payments.
LEMMA NetIsDifference ==
    ASSUME NEW ts \in Seq(Txn)
    PROVE  Net(ts) = Total(ts, Credits(ts)) - Total(ts, Payments(ts))
<1> DEFINE f == [i \in DOMAIN ts |-> ts[i].amount]
           g == [i \in DOMAIN ts |-> Signed(ts[i].type, ts[i].amount)]
           C == Credits(ts)
<1>1. /\ IsFiniteSet(DOMAIN ts)
      /\ DOMAIN ts \cap C = Credits(ts) /\ DOMAIN ts \ C = Payments(ts)
  BY TxnList
<1>2. ASSUME NEW i \in DOMAIN ts
      PROVE  f[i] \in Int /\ g[i] = IF i \in C THEN f[i] ELSE -f[i]
  <2>1. ts[i].amount \in Int
    BY TxnList
  <2>2. i \in C <=> ts[i].type = "credit"
    BY DEF Credits
  <2> QED BY <2>1, <2>2 DEF Signed
<1>3. SumFunctionOnSet(g, DOMAIN ts)
        = SumFunctionOnSet(f, DOMAIN ts \cap C) - SumFunctionOnSet(f, DOMAIN ts \ C)
  <2> HIDE DEF f, g, C
  <2> QED BY <1>1, <1>2, SumSigned
<1> QED BY <1>1, <1>3 DEF Net, Terms, Total

-----------------------------------------------------------------------------
(* How the list of transactions changes *)

\* A list with an element removed is the same list with a gap closed.
LEMMA RemovedFromList ==
    ASSUME NEW S, NEW s \in Seq(S), NEW i \in 1..Len(s)
    PROVE  /\ RemoveAt(s, i) \in Seq(S) /\ Len(RemoveAt(s, i)) = Len(s) - 1
           /\ \A j \in 1..(Len(s) - 1) :
                 RemoveAt(s, i)[j] = s[IF j < i THEN j ELSE j + 1]
<1>0. Len(s) \in Nat /\ i \in Nat /\ \A j \in 1..Len(s) : s[j] \in S
  OBVIOUS
<1>1. PICK a : a = SubSeq(s, 1, i - 1)
  OBVIOUS
<1>2. PICK b : b = SubSeq(s, i + 1, Len(s))
  OBVIOUS
<1>3. a \in Seq(S) /\ Len(a) = i - 1 /\ \A j \in 1..(i - 1) : a[j] = s[j]
  <2>1. \A j \in 1..(i - 1) : s[j] \in S
    BY <1>0
  <2>2. /\ SubSeq(s, 1, i - 1) \in Seq(S)
        /\ Len(SubSeq(s, 1, i - 1)) = IF 1 <= i - 1 THEN (i - 1) - 1 + 1 ELSE 0
        /\ \A j \in 1..((i - 1) - 1 + 1) : SubSeq(s, 1, i - 1)[j] = s[1 + j - 1]
    BY <1>0, <2>1, SubSeqProperties
  <2> QED BY <1>0, <1>1, <2>2
<1>4. b \in Seq(S) /\ Len(b) = Len(s) - i /\ \A j \in 1..(Len(s) - i) : b[j] = s[i + j]
  <2>1. \A j \in (i + 1)..Len(s) : s[j] \in S
    BY <1>0
  <2>2. /\ SubSeq(s, i + 1, Len(s)) \in Seq(S)
        /\ Len(SubSeq(s, i + 1, Len(s)))
             = IF i + 1 <= Len(s) THEN Len(s) - (i + 1) + 1 ELSE 0
        /\ \A j \in 1..(Len(s) - (i + 1) + 1) :
              SubSeq(s, i + 1, Len(s))[j] = s[(i + 1) + j - 1]
    BY <1>0, <2>1, SubSeqProperties
  <2> QED BY <1>0, <1>2, <2>2
<1>5. /\ a \o b \in Seq(S) /\ Len(a \o b) = Len(a) + Len(b)
      /\ \A j \in 1..(Len(a) + Len(b)) :
            (a \o b)[j] = IF j <= Len(a) THEN a[j] ELSE b[j - Len(a)]
  BY <1>3, <1>4, ConcatProperties
<1>6. RemoveAt(s, i) = a \o b
  BY <1>1, <1>2 DEF RemoveAt
<1>7. ASSUME NEW j \in 1..(Len(s) - 1)
      PROVE  (a \o b)[j] = s[IF j < i THEN j ELSE j + 1]
  <2>1. CASE j < i
    BY <1>0, <1>3, <1>4, <1>5, <2>1
  <2>2. CASE ~(j < i)
    <3>1. (a \o b)[j] = b[j - (i - 1)]
      BY <1>0, <1>3, <1>4, <1>5, <2>2
    <3>2. b[j - (i - 1)] = s[i + (j - (i - 1))]
      BY <1>0, <1>4, <2>2
    <3> QED BY <1>0, <2>2, <3>1, <3>2
  <2> QED BY <2>1, <2>2
<1>8. a \o b \in Seq(S) /\ Len(a \o b) = Len(s) - 1
  BY <1>0, <1>3, <1>4, <1>5
<1> QED BY <1>6, <1>7, <1>8

\* A list with the amount of an element changed is otherwise the same list.
LEMMA EditedList ==
    ASSUME NEW ts \in Seq(Txn), NEW i \in 1..Len(ts), NEW a \in Amounts,
           NEW us, us = [ts EXCEPT ![i].amount = a]
    PROVE  /\ us \in Seq(Txn) /\ Len(us) = Len(ts)
           /\ us[i].type = ts[i].type /\ us[i].date = ts[i].date /\ us[i].amount = a
           /\ \A j \in 1..Len(ts) : j # i => us[j] = ts[j]
<1>1. ts[i] \in Txn
  OBVIOUS
<1>2. PICK e : e = [type |-> ts[i].type, amount |-> a, date |-> ts[i].date]
  OBVIOUS
<1>3. e \in Txn
  BY <1>1, <1>2 DEF Txn
<1>4. [ts[i] EXCEPT !.amount = a] = e
  BY <1>1, <1>2 DEF Txn
<1>5. us = [ts EXCEPT ![i] = e]
  BY <1>4
<1>6. us \in Seq(Txn) /\ Len(us) = Len(ts) /\ us[i] = e
      /\ \A j \in 1..Len(ts) : j # i => us[j] = ts[j]
  BY <1>3, <1>5, ExceptSeq
<1> QED BY <1>2, <1>6

\* A list with an element at its end
LEMMA AppendedList ==
    ASSUME NEW ts \in Seq(Txn), NEW e \in Txn
    PROVE  /\ Append(ts, e) \in Seq(Txn) /\ Len(Append(ts, e)) = Len(ts) + 1
           /\ Append(ts, e)[Len(ts) + 1] = e
           /\ \A j \in 1..Len(ts) : Append(ts, e)[j] = ts[j]
OBVIOUS

\* The terms of Net are integers, and any of them can be taken out of it first.
LEMMA NetLessATerm ==
    ASSUME NEW ts \in Seq(Txn)
    PROVE  /\ Net(ts) = SumFunctionOnSet(Terms(ts), 1..Len(ts))
           /\ IsFiniteSet(1..Len(ts)) /\ Len(ts) \in Nat
           /\ \A i \in 1..Len(ts) : /\ Terms(ts)[i] = Signed(ts[i].type, ts[i].amount)
                                    /\ Terms(ts)[i] \in Int /\ ts[i].amount \in Int
           /\ \A i \in 1..Len(ts) :
                 /\ Net(ts) = Terms(ts)[i] + SumFunctionOnSet(Terms(ts), (1..Len(ts)) \ {i})
                 /\ IsFiniteSet((1..Len(ts)) \ {i})
                 /\ SumFunctionOnSet(Terms(ts), (1..Len(ts)) \ {i}) \in Int
<1>1. PICK S : S = 1..Len(ts)
  OBVIOUS
<1>2. /\ Len(ts) \in Nat /\ IsFiniteSet(S) /\ Net(ts) = SumFunctionOnSet(Terms(ts), S)
  BY <1>1, TxnList DEF Net
<1>3. ASSUME NEW i \in S
      PROVE  /\ Terms(ts)[i] = Signed(ts[i].type, ts[i].amount)
             /\ Terms(ts)[i] \in Int /\ ts[i].amount \in Int
  BY <1>1, TxnList DEF Terms, Signed
<1>4. ASSUME NEW i \in S
      PROVE  /\ Net(ts) = Terms(ts)[i] + SumFunctionOnSet(Terms(ts), S \ {i})
             /\ IsFiniteSet(S \ {i})
             /\ SumFunctionOnSet(Terms(ts), S \ {i}) \in Int
  <2>1. SumFunctionOnSet(Terms(ts), S)
          = Terms(ts)[i] + SumFunctionOnSet(Terms(ts), S \ {i})
    BY <1>2, <1>3, SumRemove
  <2>2. IsFiniteSet(S \ {i})
    BY <1>2, FS_Subset
  <2>3. SumFunctionOnSet(Terms(ts), S \ {i}) \in Int
    BY <1>3, <2>2, SumInt
  <2> QED BY <1>2, <2>1, <2>2, <2>3
<1> QED BY <1>1, <1>2, <1>3, <1>4

\* Recording a transaction adds its signed amount.
LEMMA NetOfAppended ==
    ASSUME NEW ts \in Seq(Txn), NEW e \in Txn
    PROVE  Net(Append(ts, e)) = Net(ts) + Signed(e.type, e.amount)
<1>1. PICK us : us = Append(ts, e)
  OBVIOUS
<1>2. /\ us \in Seq(Txn) /\ Len(us) = Len(ts) + 1 /\ us[Len(us)] = e
      /\ Len(ts) \in Nat /\ \A j \in 1..Len(ts) : us[j] = ts[j]
  BY <1>1, AppendedList, TxnList
<1>3. (1..Len(us)) \ {Len(us)} = 1..Len(ts) /\ Len(us) \in 1..Len(us)
  BY <1>2
<1>4. /\ Net(us) = Terms(us)[Len(us)]
                     + SumFunctionOnSet(Terms(us), (1..Len(us)) \ {Len(us)})
      /\ SumFunctionOnSet(Terms(us), (1..Len(us)) \ {Len(us)}) \in Int
      /\ Terms(us)[Len(us)] = Signed(us[Len(us)].type, us[Len(us)].amount)
      /\ Terms(us)[Len(us)] \in Int
  BY <1>2, <1>3, NetLessATerm
<1>5. SumFunctionOnSet(Terms(us), 1..Len(ts)) = SumFunctionOnSet(Terms(ts), 1..Len(ts))
  <2>1. ASSUME NEW i \in 1..Len(ts)
        PROVE  Terms(us)[i] = Terms(ts)[i]
    <3>1. us[i] = ts[i] /\ i \in 1..Len(us)
      BY <1>2
    <3>2. Terms(us)[i] = Signed(us[i].type, us[i].amount)
      BY <1>2, <3>1, NetLessATerm
    <3>3. Terms(ts)[i] = Signed(ts[i].type, ts[i].amount)
      BY NetLessATerm
    <3> QED BY <3>1, <3>2, <3>3
  <2>2. IsFiniteSet(1..Len(ts))
    BY NetLessATerm
  <2> QED BY <2>1, <2>2, SumCongruence
<1>6. Net(ts) = SumFunctionOnSet(Terms(ts), 1..Len(ts))
  BY NetLessATerm
<1>7. Net(us) = Terms(us)[Len(us)] + Net(ts) /\ Net(ts) \in Int
  BY <1>3, <1>4, <1>5, <1>6
<1>8. Terms(us)[Len(us)] = Signed(e.type, e.amount) /\ Terms(us)[Len(us)] \in Int
  BY <1>2, <1>4
<1>9. Net(us) = Net(ts) + Signed(e.type, e.amount)
  BY <1>7, <1>8
<1> QED BY <1>1, <1>9

\* Changing an amount adds the signed difference.
LEMMA NetOfEdited ==
    ASSUME NEW ts \in Seq(Txn), NEW us \in Seq(Txn), Len(us) = Len(ts),
           NEW i \in 1..Len(ts), us[i].type = ts[i].type,
           \A j \in 1..Len(ts) : j # i => us[j] = ts[j]
    PROVE  Net(us) = Net(ts) + Signed(ts[i].type, us[i].amount - ts[i].amount)
<1>1. PICK R : R = (1..Len(ts)) \ {i}
  OBVIOUS
<1>3. /\ Net(ts) = Terms(ts)[i] + SumFunctionOnSet(Terms(ts), R)
      /\ SumFunctionOnSet(Terms(ts), R) \in Int /\ IsFiniteSet(R)
      /\ Terms(ts)[i] = Signed(ts[i].type, ts[i].amount) /\ ts[i].amount \in Int
  BY <1>1, NetLessATerm
<1>4. /\ Net(us) = Terms(us)[i] + SumFunctionOnSet(Terms(us), R)
      /\ Terms(us)[i] = Signed(us[i].type, us[i].amount) /\ us[i].amount \in Int
  BY <1>1, NetLessATerm
<1>5. SumFunctionOnSet(Terms(us), R) = SumFunctionOnSet(Terms(ts), R)
  <2>1. ASSUME NEW j \in R
        PROVE  Terms(us)[j] = Terms(ts)[j]
    <3>1. j \in 1..Len(ts) /\ j # i
      BY <1>1
    <3>2. Terms(us)[j] = Signed(us[j].type, us[j].amount)
      BY <3>1, NetLessATerm
    <3>3. Terms(ts)[j] = Signed(ts[j].type, ts[j].amount)
      BY <3>1, NetLessATerm
    <3> QED BY <3>1, <3>2, <3>3
  <2> QED BY <1>3, <2>1, SumCongruence
<1> QED BY <1>3, <1>4, <1>5 DEF Signed

\* Deleting a transaction takes its signed amount off.
LEMMA NetOfRemoved ==
    ASSUME NEW ts \in Seq(Txn), NEW i \in 1..Len(ts)
    PROVE  Net(RemoveAt(ts, i)) = Net(ts) - Signed(ts[i].type, ts[i].amount)
<1>1. PICK us : us = RemoveAt(ts, i)
  OBVIOUS
<1>2. PICK n : n = Len(ts)
  OBVIOUS
<1>3. PICK S : S = 1..(n - 1)
  OBVIOUS
<1>4. PICK D : D = 1..n
  OBVIOUS
<1>5. PICK h : h = [j \in S |-> IF j < i THEN j ELSE j + 1]
  OBVIOUS
<1>6. /\ us \in Seq(Txn) /\ Len(us) = n - 1 /\ n \in Nat /\ i \in D /\ i \in 1..n
      /\ \A j \in S : us[j] = ts[h[j]]
  BY <1>1, <1>2, <1>3, <1>4, <1>5, RemovedFromList, TxnList
<1>7. /\ \A j \in S : h[j] \in D
      /\ \A j, k \in S : h[j] = h[k] => j = k
  BY <1>3, <1>4, <1>5, <1>6
<1>8. {h[j] : j \in S} = D \ {i}
  <2>1. ASSUME NEW k \in D \ {i}
        PROVE  \E j \in S : h[j] = k
    <3>1. CASE k < i
      <4>1. k \in S /\ h[k] = k
        BY <1>3, <1>4, <1>5, <1>6, <2>1, <3>1
      <4> QED BY <4>1
    <3>2. CASE ~(k < i)
      <4>1. k - 1 \in S /\ h[k - 1] = k
        BY <1>3, <1>4, <1>5, <1>6, <2>1, <3>2
      <4> QED BY <4>1
    <3> QED BY <3>1, <3>2
  <2>2. \A j \in S : h[j] \in D \ {i}
    BY <1>3, <1>4, <1>5, <1>6
  <2> QED BY <2>1, <2>2
<1>9. /\ Net(ts) = Terms(ts)[i] + SumFunctionOnSet(Terms(ts), D \ {i})
      /\ SumFunctionOnSet(Terms(ts), D \ {i}) \in Int /\ IsFiniteSet(D)
      /\ \A j \in D : /\ Terms(ts)[j] \in Int
                       /\ Terms(ts)[j] = Signed(ts[j].type, ts[j].amount)
  BY <1>2, <1>4, <1>6, NetLessATerm
<1>10. /\ Net(us) = SumFunctionOnSet(Terms(us), S) /\ IsFiniteSet(S)
       /\ \A j \in S : Terms(us)[j] = Signed(us[j].type, us[j].amount)
  <2>1. S = 1..Len(us)
    BY <1>3, <1>6
  <2> QED BY <1>6, <2>1, NetLessATerm
<1>11. SumFunctionOnSet(Terms(us), S) = SumFunctionOnSet(Terms(ts), {h[j] : j \in S})
  <2>1. ASSUME NEW j \in S
        PROVE  /\ h[j] \in D /\ Terms(ts)[h[j]] \in Int
               /\ Terms(us)[j] = Terms(ts)[h[j]]
    <3>1. h[j] \in D /\ us[j] = ts[h[j]]
      BY <1>6, <1>7
    <3>2. /\ Terms(ts)[h[j]] \in Int
          /\ Terms(ts)[h[j]] = Signed(ts[h[j]].type, ts[h[j]].amount)
      BY <1>9, <3>1
    <3>3. Terms(us)[j] = Signed(us[j].type, us[j].amount)
      BY <1>10
    <3> QED BY <3>1, <3>2, <3>3
  <2>2. IsFiniteSet(S) /\ IsFiniteSet(D)
    BY <1>9, <1>10
  <2> QED BY <1>7, <2>1, <2>2, SumReindex
<1>12. /\ Net(us) = SumFunctionOnSet(Terms(ts), D \ {i})
       /\ Terms(ts)[i] = Signed(ts[i].type, ts[i].amount) /\ Terms(ts)[i] \in Int
  BY <1>6, <1>8, <1>9, <1>10, <1>11
<1>13. Net(us) = Net(ts) - Signed(ts[i].type, ts[i].amount)
  BY <1>9, <1>12
<1> QED BY <1>1, <1>13

-----------------------------------------------------------------------------
(* Types *)

\* The dates of a list are in order, and not after the day that is now.
InOrder(ts, now) ==
    /\ \A i, j \in 1..Len(ts) : i < j => ts[i].date <= ts[j].date
    /\ \A i \in 1..Len(ts) : ts[i].date <= now

\* Recording, editing and deleting keep the dates in order.
LEMMA DatesStayInOrder ==
    ASSUME NEW ts \in Seq(Txn), NEW now \in 0..MaxDay, InOrder(ts, now)
    PROVE  /\ \A e \in Txn : e.date = now => InOrder(Append(ts, e), now)
           /\ \A i \in 1..Len(ts) : InOrder(RemoveAt(ts, i), now)
           /\ \A us \in Seq(Txn) :
                 Len(us) = Len(ts) /\ (\A i \in 1..Len(ts) : us[i].date = ts[i].date)
                    => InOrder(us, now)
<1>0. /\ Len(ts) \in Nat /\ now \in Nat /\ \A i \in 1..Len(ts) : ts[i].date \in Nat
  BY TxnList, HistoryAssumption DEF HistoryAssumption
<1>1. ASSUME NEW e \in Txn, e.date = now
      PROVE  InOrder(Append(ts, e), now)
  <2>1. PICK us : us = Append(ts, e)
    OBVIOUS
  <2>2. /\ Len(us) = Len(ts) + 1 /\ us[Len(ts) + 1].date = now
        /\ \A j \in 1..Len(ts) : us[j].date = ts[j].date
    BY <1>1, <2>1, AppendedList
  <2>3. ASSUME NEW i \in 1..Len(us)
        PROVE  IF i = Len(ts) + 1 THEN us[i].date = now
               ELSE i \in 1..Len(ts) /\ us[i].date = ts[i].date
    BY <1>0, <2>2
  <2>4. InOrder(us, now)
    BY <1>0, <2>2, <2>3 DEF InOrder
  <2> QED BY <2>1, <2>4
<1>2. ASSUME NEW i \in 1..Len(ts)
      PROVE  InOrder(RemoveAt(ts, i), now)
  <2>1. PICK us : us = RemoveAt(ts, i)
    OBVIOUS
  <2>2. /\ Len(us) = Len(ts) - 1
        /\ \A j \in 1..(Len(ts) - 1) : us[j] = ts[IF j < i THEN j ELSE j + 1]
    BY <2>1, RemovedFromList
  <2>3. ASSUME NEW j \in 1..(Len(ts) - 1), NEW k \in 1..(Len(ts) - 1), j < k
        PROVE  us[j].date <= us[k].date
    <3>1. PICK x \in 1..Len(ts) : x = IF j < i THEN j ELSE j + 1
      BY <1>0
    <3>2. PICK y \in 1..Len(ts) : y = IF k < i THEN k ELSE k + 1
      BY <1>0
    <3>3. x < y /\ us[j] = ts[x] /\ us[k] = ts[y]
      BY <1>0, <2>2, <2>3, <3>1, <3>2
    <3> QED BY <3>3 DEF InOrder
  <2>4. ASSUME NEW j \in 1..(Len(ts) - 1)
        PROVE  us[j].date <= now
    <3>1. PICK x \in 1..Len(ts) : x = IF j < i THEN j ELSE j + 1
      BY <1>0
    <3>2. us[j] = ts[x]
      BY <2>2, <3>1
    <3> QED BY <3>2 DEF InOrder
  <2>5. InOrder(us, now)
    BY <2>2, <2>3, <2>4 DEF InOrder
  <2> QED BY <2>1, <2>5
<1>3. ASSUME NEW us \in Seq(Txn), Len(us) = Len(ts),
             \A i \in 1..Len(ts) : us[i].date = ts[i].date
      PROVE  InOrder(us, now)
  BY <1>3 DEF InOrder
<1> QED BY <1>1, <1>2, <1>3

\* The score of a list of transactions is one of 0..100, and has a category.
LEMMA ScoreOfList ==
    ASSUME NEW ts \in Seq(Txn), NEW now \in Nat, NEW bal \in Int, InOrder(ts, now)
    PROVE  /\ ProfileOf(ts, now, bal) \in Profile
           /\ Score(ProfileOf(ts, now, bal)) \in 0..100
           /\ Category(Score(ProfileOf(ts, now, bal))) \in Categories
<1>1. PICK p : p = ProfileOf(ts, now, bal)
  OBVIOUS
<1>2. p \in Profile
  BY <1>1, ProfileType DEF InOrder
<1>3. Score(p) \in 0..100
  <2>1. RawScore(p) \in 0..100 /\ Clamp(RawScore(p)) = RawScore(p)
    BY <1>2, ClampIsRedundant
  <2>2. Score(p) = 100 \/ Score(p) = RawScore(p)
    BY <2>1 DEF Score
  <2> QED BY <2>1, <2>2
<1>4. Category(Score(p)) \in Categories
  BY DEF Category, Categories
<1> QED BY <1>1, <1>2, <1>3, <1>4

\* What the functions of transactions.py make of the list, the balance and the day;
\* all but the passing of days compute the score again.
LEMMA StepTypes ==
    ASSUME TypeOK, Next
    PROVE  /\ txns' \in Seq(Txn) /\ balance' \in Int /\ today' \in 0..MaxDay
           /\ InOrder(txns', today') /\ today <= today'
           /\ Rescore \/ UNCHANGED <<txns, balance, score, category>>
<1>0. /\ txns \in Seq(Txn) /\ balance \in Int /\ today \in 0..MaxDay /\ today \in Nat
      /\ InOrder(txns, today) /\ Len(txns) \in Nat
      /\ \A i \in 1..Len(txns) : /\ txns[i].amount \in Int /\ txns[i].date \in Nat
                                 /\ txns[i].type \in {"credit", "payment"}
      /\ \A a \in Amounts : a \in Nat
  BY TxnList, HistoryAssumption DEF TypeOK, InOrder, HistoryAssumption
<1>1. ASSUME NEW type \in {"credit", "payment"}, NEW a \in Amounts, Record(type, a)
      PROVE  txns' \in Seq(Txn) /\ balance' \in Int /\ InOrder(txns', today)
  <2>1. PICK e : e = [type |-> type, amount |-> a, date |-> today]
    OBVIOUS
  <2>2. e \in Txn /\ e.date = today
    BY <1>0, <2>1 DEF Txn
  <2>3. txns' = Append(txns, e) /\ balance' = balance + Signed(type, a)
    BY <1>1, <2>1 DEF Record
  <2> QED BY <1>0, <2>2, <2>3, AppendedList, DatesStayInOrder DEF Signed
<1>2. ASSUME NEW i \in 1..Len(txns), NEW a \in Amounts, Edit(i, a)
      PROVE  txns' \in Seq(Txn) /\ balance' \in Int /\ InOrder(txns', today)
  <2>1. PICK us : us = [txns EXCEPT ![i].amount = a]
    OBVIOUS
  <2>2. /\ us \in Seq(Txn) /\ Len(us) = Len(txns)
        /\ us[i].date = txns[i].date /\ \A j \in 1..Len(txns) : j # i => us[j] = txns[j]
    <3>1. txns \in Seq(Txn)
      BY <1>0
    <3> QED BY <2>1, <3>1, EditedList
  <2>3. \A j \in 1..Len(txns) : us[j].date = txns[j].date
    BY <2>2
  <2>4. InOrder(us, today)
    BY <1>0, <2>2, <2>3, DatesStayInOrder
  <2>5. balance' \in Int
    BY <1>0, <1>2 DEF Edit, Signed
  <2> QED BY <1>2, <2>1, <2>2, <2>4, <2>5 DEF Edit
<1>3. ASSUME NEW i \in 1..Len(txns), Delete(i)
      PROVE  txns' \in Seq(Txn) /\ balance' \in Int /\ InOrder(txns', today)
  <2>1. RemoveAt(txns, i) \in Seq(Txn) /\ InOrder(RemoveAt(txns, i), today)
    BY <1>0, RemovedFromList, DatesStayInOrder
  <2> QED BY <1>0, <1>3, <2>1 DEF Delete, Signed
<1>4. ASSUME \/ \E type \in {"credit", "payment"}, a \in Amounts : Record(type, a)
             \/ \E i \in 1..Len(txns), a \in Amounts : Edit(i, a)
             \/ \E i \in 1..Len(txns) : Delete(i)
             \/ Recalculate
      PROVE  today' = today /\ Rescore
  BY <1>4 DEF Record, Edit, Delete, Recalculate
<1>5. Recalculate => UNCHANGED <<txns, balance>>
  BY DEF Recalculate
<1>6. ASSUME NEW d \in Waits, Wait(d)
      PROVE  /\ UNCHANGED <<txns, balance, score, category>>
             /\ today' \in 0..MaxDay /\ today <= today' /\ InOrder(txns, today')
  <2>1. d \in Nat /\ today' = today + d /\ today + d <= MaxDay /\ MaxDay \in Nat
    BY <1>6, HistoryAssumption DEF Wait, HistoryAssumption
  <2>2. InOrder(txns, today')
    BY <1>0, <2>1 DEF InOrder
  <2> QED BY <1>0, <1>6, <2>1, <2>2 DEF Wait
<1> QED BY <1>0, <1>1, <1>2, <1>3, <1>4, <1>5, <1>6 DEF Next

\* The account's dates stay in order, and its score one of 0..100.
THEOREM HistoryTypes == Spec => []TypeOK
<1>1. Init => TypeOK
  <2> SUFFICES ASSUME Init
               PROVE  TypeOK
    OBVIOUS
  <2>1. txns \in Seq(Txn) /\ Len(txns) = 0
    BY EmptySeq DEF Init
  <2>2. today \in 0..MaxDay /\ balance \in Int /\ score \in 0..100 /\ category \in Categories
    <3>1. MaxDay \in Nat
      BY HistoryAssumption DEF HistoryAssumption
    <3>2. today = 0 /\ balance = 0 /\ score = 100
      BY Zenon DEF Init
    <3>3. today \in 0..MaxDay
      BY <3>1, <3>2
    <3>4. balance \in Int /\ score \in 0..100
      BY <3>2
    <3>5. category \in Categories
      BY Zenon DEF Init, Categories
    <3> QED BY <3>3, <3>4, <3>5
  <2> QED BY <2>1, <2>2 DEF TypeOK
<1>2. ASSUME TypeOK, [Next]_vars
      PROVE  TypeOK'
  <2>1. CASE UNCHANGED vars
    BY <1>2, <2>1 DEF vars, TypeOK
  <2>2. CASE Next
    <3>1. /\ txns' \in Seq(Txn) /\ balance' \in Int /\ today' \in 0..MaxDay
          /\ InOrder(txns', today')
          /\ Rescore \/ UNCHANGED <<txns, balance, score, category>>
      BY <1>2, <2>2, StepTypes
    <3>2. score' \in 0..100 /\ category' \in Categories
      <4>1. CASE Rescore
        <5>1. today' \in Nat
          BY <3>1, HistoryAssumption DEF HistoryAssumption
        <5> QED BY <3>1, <4>1, <5>1, ScoreOfList DEF Rescore
      <4>2. CASE UNCHANGED <<txns, balance, score, category>>
        BY <1>2, <4>2 DEF TypeOK
      <4> QED BY <3>1, <4>1, <4>2
    <3> QED BY <3>1, <3>2 DEF TypeOK, InOrder
  <2> QED BY <1>2, <2>1, <2>2
<1> QED BY <1>1, <1>2, PTL DEF Spec

\* Whatever the history, the factors stay within the 100 points of the docstring: the
\* clamp at the end of compute_credit_score never changes a score.
THEOREM FactorsAlwaysFillTheScale == Spec => []FactorsFillTheScale
<1>1. ASSUME TypeOK
      PROVE  FactorsFillTheScale
  <2>1. today \in Nat /\ InOrder(txns, today)
    BY <1>1, HistoryAssumption DEF TypeOK, HistoryAssumption, InOrder
  <2>2. ProfileOf(txns, today, balance) \in Profile
    BY <1>1, <2>1, ScoreOfList DEF TypeOK
  <2> QED BY <2>2, ClampIsRedundant DEF FactorsFillTheScale
<1> QED BY <1>1, HistoryTypes, PTL

-----------------------------------------------------------------------------
(* The stored score *)

\* The stored balance is what the transactions add up to; the stored score is the one
\* the transactions and the balance had on some day since the last of them, and the
\* stored category that score's, or the one add_customer gave.
HistoryInv ==
    /\ balance = Net(txns)
    /\ \E day \in 0..today : InOrder(txns, day) /\ score = Score(ProfileOf(txns, day, balance))
    /\ category = Category(score) \/ category = "Low Risk"

\* An account with no transactions
LEMMA EmptyHistory ==
    ASSUME NEW ts \in Seq(Txn), Len(ts) = 0, NEW now, NEW bal
    PROVE  Net(ts) = 0 /\ InOrder(ts, now) /\ Score(ProfileOf(ts, now, bal)) = 100
<1>1. 1..Len(ts) = {}
  OBVIOUS
<1>2. DOMAIN ts = {} /\ Credits(ts) = {} /\ Payments(ts) = {}
  BY <1>1, TxnList
<1>3. Net(ts) = 0
  BY <1>2, SumEmpty DEF Net
<1>4. InOrder(ts, now)
  BY <1>1 DEF InOrder
<1>5. PICK p : p = ProfileOf(ts, now, bal)
  OBVIOUS
<1>6. p.credits = Cardinality(Credits(ts)) /\ p.payments = Cardinality(Payments(ts))
  BY <1>5 DEF ProfileOf
<1>7. p.credits = 0 /\ p.payments = 0
  BY <1>2, <1>6, FS_EmptySet
<1>8. Score(p) = 100
  BY <1>7 DEF Score
<1> QED BY <1>3, <1>4, <1>5, <1>8

\* Every function that changes a transaction adjusts the balance by what that does to
\* their sum, and stores the score of the day.
LEMMA HistoryStep ==
    ASSUME TypeOK, HistoryInv, Next
    PROVE  HistoryInv'
<1>0. /\ txns \in Seq(Txn) /\ balance \in Int /\ today \in Nat /\ balance = Net(txns)
      /\ \A i \in 1..Len(txns) : /\ txns[i].amount \in Int
                                 /\ txns[i].type \in {"credit", "payment"}
      /\ \A a \in Amounts : a \in Nat
      /\ today' \in Nat /\ today <= today' /\ InOrder(txns', today')
  <2>1. txns \in Seq(Txn) /\ balance \in Int /\ today \in Nat /\ \A a \in Amounts : a \in Nat
    BY HistoryAssumption DEF TypeOK, HistoryAssumption
  <2>2. \A i \in 1..Len(txns) : /\ txns[i].amount \in Int
                                /\ txns[i].type \in {"credit", "payment"}
    BY <2>1, TxnList
  <2>3. balance = Net(txns)
    BY Zenon DEF HistoryInv
  <2>4. today' \in 0..MaxDay /\ today <= today' /\ InOrder(txns', today')
    BY StepTypes
  <2>5. today' \in Nat
    BY <2>4, HistoryAssumption DEF HistoryAssumption
  <2> QED BY <2>1, <2>2, <2>3, <2>4, <2>5
<1>1. ASSUME NEW type \in {"credit", "payment"}, NEW a \in Amounts, Record(type, a)
      PROVE  balance' = Net(txns')
  <2>1. PICK e : e = [type |-> type, amount |-> a, date |-> today]
    OBVIOUS
  <2>2. e \in Txn /\ e.type = type /\ e.amount = a
    BY <2>1, HistoryAssumption DEF Txn, TypeOK
  <2>3. txns' = Append(txns, e) /\ balance' = balance + Signed(type, a)
    BY <1>1, <2>1 DEF Record
  <2>4. Net(Append(txns, e)) = Net(txns) + Signed(type, a)
    BY <1>0, <2>2, NetOfAppended
  <2> QED BY <1>0, <2>3, <2>4
<1>2. ASSUME NEW i \in 1..Len(txns), NEW a \in Amounts, Edit(i, a)
      PROVE  balance' = Net(txns')
  <2>1. PICK us : us = [txns EXCEPT ![i].amount = a]
    OBVIOUS
  <2>2. /\ us \in Seq(Txn) /\ Len(us) = Len(txns) /\ us[i].amount = a
        /\ us[i].type = txns[i].type /\ \A j \in 1..Len(txns) : j # i => us[j] = txns[j]
    BY <1>0, <2>1, EditedList
  <2>3. txns' = us /\ balance' = balance + Signed(txns[i].type, a - txns[i].amount)
    BY <1>2, <2>1 DEF Edit
  <2>4. Net(us) = Net(txns) + Signed(txns[i].type, us[i].amount - txns[i].amount)
    BY <1>0, <2>2, NetOfEdited
  <2> QED BY <1>0, <2>2, <2>3, <2>4
<1>3. ASSUME NEW i \in 1..Len(txns), Delete(i)
      PROVE  balance' = Net(txns')
  <2>1. Net(RemoveAt(txns, i)) = Net(txns) - Signed(txns[i].type, txns[i].amount)
    BY <1>0, NetOfRemoved
  <2> QED BY <1>0, <1>3, <2>1 DEF Delete
<1>4. CASE Rescore
  <2>1. balance' = Net(txns')
    <3>1. ASSUME UNCHANGED <<txns, balance>>
          PROVE  balance' = Net(txns')
      BY <1>0, <3>1
    <3> QED BY <1>1, <1>2, <1>3, <3>1 DEF Next, Recalculate, Wait
  <2>2. today' \in 0..today' /\ score' = Score(ProfileOf(txns', today', balance'))
        /\ category' = Category(score')
    BY <1>0, <1>4 DEF Rescore
  <2> QED BY <1>0, <2>1, <2>2 DEF HistoryInv
<1>5. CASE UNCHANGED <<txns, balance, score, category>>
  <2>1. PICK day \in 0..today :
          InOrder(txns, day) /\ score = Score(ProfileOf(txns, day, balance))
    BY DEF HistoryInv
  <2>2. day \in 0..today'
    BY <1>0
  <2>3. /\ txns' = txns /\ balance' = balance /\ score' = score /\ category' = category
    BY <1>5
  <2>4. /\ balance' = Net(txns') /\ InOrder(txns', day)
        /\ score' = Score(ProfileOf(txns', day, balance'))
    BY Zenon, <2>1, <2>3 DEF HistoryInv
  <2>5. category' = Category(score') \/ category' = "Low Risk"
    BY Zenon, <2>3 DEF HistoryInv
  <2>6. \E d \in 0..today' :
          InOrder(txns', d) /\ score' = Score(ProfileOf(txns', d, balance'))
    BY Zenon, <2>2, <2>4
  <2> QED BY Zenon, <2>4, <2>5, <2>6 DEF HistoryInv
<1> QED BY <1>4, <1>5, StepTypes

\* The invariant of the stored score
LEMMA StoredScore == Spec => [](TypeOK /\ HistoryInv)
<1>1. Init => HistoryInv
  <2> SUFFICES ASSUME Init
               PROVE  HistoryInv
    OBVIOUS
  <2>1. txns \in Seq(Txn) /\ Len(txns) = 0
    BY EmptySeq DEF Init
  <2>2. today = 0 /\ balance = 0 /\ score = 100
    BY Zenon DEF Init
  <2>3. category = "Low Risk"
    BY Zenon DEF Init
  <2>4. 0 \in 0..today
    BY <2>2
  <2>5. balance = Net(txns) /\ InOrder(txns, 0) /\ score = Score(ProfileOf(txns, 0, balance))
    BY <2>1, <2>2, EmptyHistory
  <2> QED BY Zenon, <2>3, <2>4, <2>5 DEF HistoryInv
<1>2. ASSUME TypeOK, HistoryInv, [Next]_vars
      PROVE  HistoryInv'
  <2>1. CASE UNCHANGED vars
    BY Zenon, <1>2, <2>1 DEF vars, HistoryInv
  <2> QED BY <1>2, <2>1, HistoryStep
<1> QED BY <1>1, <1>2, HistoryTypes, PTL DEF Spec

\* A customer whose stored balance is nothing or less is never stored as high risk or as
\* a defaulter, whatever the amounts and however old the credits: the balance being what
\* the transactions add up to, the payments cover the credits, and SettledScore applies.
THEOREM SettledIsNeverRisk == Spec => []SettledIsNoRisk
<1>1. ASSUME TypeOK, HistoryInv
      PROVE  SettledIsNoRisk
  <2> SUFFICES ASSUME balance <= 0
               PROVE  category \notin {"High Risk", "Defaulter"}
    BY DEF SettledIsNoRisk
  <2>1. PICK day \in 0..today :
          InOrder(txns, day) /\ score = Score(ProfileOf(txns, day, balance))
    BY <1>1 DEF HistoryInv
  <2>2. PICK p : p = ProfileOf(txns, day, balance)
    OBVIOUS
  <2>3. p \in Profile /\ score = Score(p)
    BY <1>1, <2>1, <2>2, ScoreOfList DEF TypeOK
  <2>4. /\ p.balance = balance /\ p.total_credit = Total(txns, Credits(txns))
        /\ p.total_paid = Total(txns, Payments(txns))
    BY <2>2 DEF ProfileOf
  <2>5. balance = Total(txns, Credits(txns)) - Total(txns, Payments(txns))
    BY <1>1, NetIsDifference DEF TypeOK, HistoryInv
  <2>6. p.balance <= 0 /\ p.total_paid >= p.total_credit
    <3>1. p.total_paid \in Int /\ p.total_credit \in Int
      BY <2>3 DEF Profile
    <3> QED BY <2>4, <2>5, <3>1
  <2>7. Category(score) \notin {"High Risk", "Defaulter"}
    BY <2>3, <2>6, SettledScore
  <2> QED BY Zenon, <1>1, <2>7 DEF HistoryInv
<1> QED BY <1>1, StoredScore, PTL

\* The days that go by age the credits and the last payment, and change nothing else of
\* a profile.
LEMMA AgeingLowersScore ==
    ASSUME NEW ts \in Seq(Txn), NEW day \in Nat, NEW now \in Nat, day <= now,
           NEW bal \in Int, InOrder(ts, day)
    PROVE  Score(ProfileOf(ts, now, bal)) <= Score(ProfileOf(ts, day, bal))
<1>0. /\ Len(ts) \in Nat /\ \A i \in 1..Len(ts) : ts[i].date \in Nat /\ ts[i].date <= day
      /\ Credits(ts) \subseteq 1..Len(ts) /\ IsFiniteSet(Credits(ts))
      /\ Payments(ts) \subseteq 1..Len(ts)
  BY TxnList DEF InOrder
<1>1. InOrder(ts, now)
  BY <1>0 DEF InOrder
<1>2. Cardinality(Overdue(ts, day)) <= Cardinality(Overdue(ts, now))
  <2>1. Overdue(ts, day) \subseteq Overdue(ts, now)
    BY <1>0 DEF Overdue
  <2>2. IsFiniteSet(Overdue(ts, now))
    <3>1. Overdue(ts, now) \in SUBSET Credits(ts)
      BY DEF Overdue
    <3> QED BY <1>0, <3>1, FS_Subset
  <2> QED BY <2>1, <2>2, FS_Subset
<1>3. DaysSince(ts, day) <= DaysSince(ts, now)
  <2>1. CASE Payments(ts) = {}
    BY <2>1 DEF DaysSince
  <2>2. CASE Payments(ts) # {}
    <3>1. Max(Payments(ts)) \in 1..Len(ts)
      BY <1>0, <2>2, LastIndex
    <3>2. ts[Max(Payments(ts))].date \in Nat
      BY <1>0, <3>1
    <3> QED BY <2>2, <3>2 DEF DaysSince
  <2> QED BY <2>1, <2>2
<1>4. PICK p : p = ProfileOf(ts, day, bal)
  OBVIOUS
<1>5. PICK q : q = ProfileOf(ts, now, bal)
  OBVIOUS
<1>6. p \in Profile /\ q \in Profile
  BY <1>1, <1>4, <1>5, ScoreOfList
<1>7. /\ q.credits = p.credits /\ q.payments = p.payments
      /\ q.total_credit = p.total_credit /\ q.total_paid = p.total_paid
      /\ q.balance = p.balance /\ q.overdue >= p.overdue /\ q.days_since >= p.days_since
  <2>1. /\ p.overdue = Cardinality(Overdue(ts, day)) /\ p.days_since = DaysSince(ts, day)
        /\ q.overdue = Cardinality(Overdue(ts, now)) /\ q.days_since = DaysSince(ts, now)
    BY <1>4, <1>5 DEF ProfileOf
  <2>2. /\ q.credits = p.credits /\ q.payments = p.payments
        /\ q.total_credit = p.total_credit /\ q.total_paid = p.total_paid
        /\ q.balance = p.balance
    BY <1>4, <1>5 DEF ProfileOf
  <2>3. p.overdue <= q.overdue /\ p.days_since <= q.days_since
    BY <1>2, <1>3, <2>1
  <2>4. p.overdue \in Int /\ q.overdue \in Int /\ p.days_since \in Int /\ q.days_since \in Int
    BY <1>6 DEF Profile
  <2> QED BY <2>2, <2>3, <2>4
<1>8. Score(q) <= Score(p)
  BY <1>6, <1>7, WaitingLowersScore
<1> QED BY <1>4, <1>5, <1>8

\* A stored score may be out of date, and is then never lower than the one a
\* recalculation would store: time alone can only have lowered what the account's
\* transactions are worth since the day the score is of.
THEOREM StoredScoreStaysOptimistic == Spec => []StoredScoreIsOptimistic
<1>1. ASSUME TypeOK, HistoryInv
      PROVE  StoredScoreIsOptimistic
  <2>1. PICK day \in 0..today :
          InOrder(txns, day) /\ score = Score(ProfileOf(txns, day, balance))
    BY <1>1 DEF HistoryInv
  <2>2. /\ txns \in Seq(Txn) /\ balance \in Int /\ today \in Nat /\ day \in Nat /\ day <= today
    BY <1>1, HistoryAssumption DEF TypeOK, HistoryAssumption
  <2>3. Score(ProfileOf(txns, today, balance)) <= Score(ProfileOf(txns, day, balance))
    BY <2>1, <2>2, AgeingLowersScore
  <2> QED BY <2>1, <2>3 DEF StoredScoreIsOptimistic, ScoreNow
<1> QED BY <1>1, StoredScore, PTL

-----------------------------------------------------------------------------
(* What a step does to the score *)

\* A payment recorded now makes of a profile the one WithPayment describes.
LEMMA ProfileOfPayment ==
    ASSUME NEW ts \in Seq(Txn), NEW now \in Nat, NEW bal \in Int, NEW e \in Txn,
           e.type = "payment", e.date = now, InOrder(ts, now)
    PROVE  ProfileOf(Append(ts, e), now, bal - e.amount)
             = WithPayment(ProfileOf(ts, now, bal), e.amount)
<1>1. PICK us : us = Append(ts, e)
  OBVIOUS
<1>2. PICK n : n = Len(ts)
  OBVIOUS
<1>3. /\ us \in Seq(Txn) /\ n \in Nat /\ Len(us) = n + 1 /\ us[n + 1] = e
      /\ \A j \in 1..n : us[j] = ts[j]
      /\ DOMAIN us = 1..(n + 1) /\ DOMAIN ts = 1..n
  BY <1>1, <1>2, AppendedList, TxnList
<1>4. Credits(us) = Credits(ts)
  BY <1>3 DEF Credits
<1>5. Payments(us) = Payments(ts) \cup {n + 1} /\ n + 1 \notin Payments(ts)
  BY <1>3 DEF Payments
<1>6. Overdue(us, now) = Overdue(ts, now)
  <2>1. \A i \in Credits(ts) : us[i].date = ts[i].date
    BY <1>3 DEF Credits
  <2> QED BY <1>4, <2>1 DEF Overdue
<1>7. DaysSince(us, now) = 0
  <2>1. Payments(us) # {} /\ Payments(us) \in SUBSET (1..(n + 1)) /\ n + 1 \in Nat
    BY <1>3, <1>5 DEF Payments
  <2>2. PICK m : m = Max(Payments(us))
    OBVIOUS
  <2>3. Max(Payments(us)) = n + 1
    <3>1. m \in Payments(us) /\ \A i \in Payments(us) : m >= i
      BY <2>1, <2>2, LastIndex
    <3>2. m \in 1..(n + 1) /\ m >= n + 1
      BY <1>5, <2>1, <3>1
    <3> QED BY <1>3, <2>2, <3>2
  <2>4. us[Max(Payments(us))].date = now
    BY <1>3, <2>3
  <2> QED BY <2>1, <2>4 DEF DaysSince
<1>8. PICK f : f = [i \in DOMAIN ts |-> ts[i].amount]
  OBVIOUS
<1>9. PICK g : g = [i \in DOMAIN us |-> us[i].amount]
  OBVIOUS
<1>10. /\ \A i \in 1..n : f[i] \in Int /\ g[i] = f[i]
       /\ g[n + 1] = e.amount /\ e.amount \in Int
  <2>1. \A i \in 1..(n + 1) : g[i] = us[i].amount /\ us[i].amount \in Int
    BY <1>3, <1>9, TxnList
  <2>2. \A i \in 1..n : f[i] = ts[i].amount
    BY <1>3, <1>8
  <2> QED BY <1>3, <2>1, <2>2
<1>11. /\ Credits(ts) \subseteq 1..n /\ IsFiniteSet(Credits(ts))
       /\ Payments(ts) \subseteq 1..n /\ IsFiniteSet(Payments(ts))
  BY <1>2, TxnList
<1>12. Total(us, Credits(us)) = Total(ts, Credits(ts))
  <2>1. SumFunctionOnSet(g, Credits(ts)) = SumFunctionOnSet(f, Credits(ts))
    BY <1>10, <1>11, SumCongruence
  <2> QED BY <1>4, <1>8, <1>9, <2>1 DEF Total
<1>13. Total(us, Payments(us)) = Total(ts, Payments(ts)) + e.amount
  <2>1. PICK P : P = Payments(us)
    OBVIOUS
  <2>2. IsFiniteSet(P) /\ n + 1 \in P /\ P \ {n + 1} = Payments(ts)
    BY <1>5, <1>11, <2>1, FS_AddElement
  <2>3. \A y \in P : g[y] \in Int
    BY <1>3, <1>5, <1>10, <1>11, <2>1
  <2>4. SumFunctionOnSet(g, P) = g[n + 1] + SumFunctionOnSet(g, P \ {n + 1})
    BY <2>2, <2>3, SumRemove
  <2>5. SumFunctionOnSet(g, Payments(ts)) = SumFunctionOnSet(f, Payments(ts))
    BY <1>10, <1>11, SumCongruence
  <2>6. SumFunctionOnSet(f, Payments(ts)) \in Int
    BY <1>10, <1>11, SumInt
  <2>7. SumFunctionOnSet(g, P) = SumFunctionOnSet(f, Payments(ts)) + e.amount
    <3>1. SumFunctionOnSet(g, P) = e.amount + SumFunctionOnSet(f, Payments(ts))
      BY <1>10, <2>2, <2>4, <2>5
    <3>2. e.amount \in Int
      BY <1>10
    <3> QED BY <2>6, <3>1, <3>2
  <2> QED BY <1>8, <1>9, <2>1, <2>7 DEF Total
<1>14. Cardinality(Payments(us)) = Cardinality(Payments(ts)) + 1
  BY <1>5, <1>11, FS_AddElement
<1>15. ProfileOf(us, now, bal - e.amount) = WithPayment(ProfileOf(ts, now, bal), e.amount)
  BY <1>4, <1>6, <1>7, <1>12, <1>13, <1>14 DEF ProfileOf, WithPayment
<1> QED BY <1>1, <1>15

\* Recording a payment never lowers the score an account with transactions would have
\* that day.
THEOREM PaymentsNeverLowerTheScore == Spec => PaymentNeverLowersScore
<1>1. ASSUME TypeOK, [Next]_vars, Len(txns') = Len(txns) + 1,
             Last(txns').type = "payment", txns # <<>>
      PROVE  score' >= ScoreNow
  <2>0. /\ txns \in Seq(Txn) /\ balance \in Int /\ today \in Nat /\ today \in 0..MaxDay
        /\ InOrder(txns, today) /\ Len(txns) \in Nat
    BY <1>1, HistoryAssumption DEF TypeOK, InOrder, HistoryAssumption
  <2>1. PICK type \in {"credit", "payment"}, a \in Amounts : Record(type, a)
    <3>1. ASSUME UNCHANGED txns
          PROVE  FALSE
      BY <1>1, <2>0, <3>1
    <3>2. ASSUME NEW i \in 1..Len(txns), NEW a \in Amounts, Edit(i, a)
          PROVE  FALSE
      <4>1. Len(txns') = Len(txns)
        BY <2>0, <3>2, EditedList DEF Edit
      <4> QED BY <1>1, <2>0, <4>1
    <3>3. ASSUME NEW i \in 1..Len(txns), Delete(i)
          PROVE  FALSE
      <4>1. Len(txns') = Len(txns) - 1
        BY <2>0, <3>3, RemovedFromList DEF Delete
      <4> QED BY <1>1, <2>0, <4>1
    <3> QED BY <1>1, <3>1, <3>2, <3>3 DEF Next, Recalculate, Wait, vars
  <2>2. PICK e : e = [type |-> type, amount |-> a, date |-> today]
    OBVIOUS
  <2>3. e \in Txn /\ e.type = type /\ e.amount = a /\ e.date = today
    BY <2>0, <2>2 DEF Txn
  <2>4. /\ txns' = Append(txns, e) /\ balance' = balance + Signed(type, a)
        /\ today' = today /\ score' = Score(ProfileOf(txns', today', balance'))
    BY <2>1, <2>2 DEF Record, Rescore
  <2>5. type = "payment"
    <3>1. Last(txns') = e
      BY <2>0, <2>3, <2>4, AppendedList DEF Last
    <3> QED BY <1>1, <2>3, <3>1
  <2>6. a \in Nat /\ balance' = balance - e.amount
    BY <2>0, <2>3, <2>4, <2>5, HistoryAssumption DEF Signed, HistoryAssumption
  <2>7. PICK p : p = ProfileOf(txns, today, balance)
    OBVIOUS
  <2>8. p \in Profile /\ ScoreNow = Score(p)
    BY <2>0, <2>7, ScoreOfList DEF ScoreNow
  <2>9. score' = Score(WithPayment(p, a))
    <3>1. ProfileOf(Append(txns, e), today, balance - e.amount)
            = WithPayment(ProfileOf(txns, today, balance), e.amount)
      BY <2>0, <2>3, <2>5, ProfileOfPayment
    <3>2. score' = Score(ProfileOf(Append(txns, e), today, balance - e.amount))
      BY <2>4, <2>6
    <3> QED BY Zenon, <2>3, <2>7, <3>1, <3>2
  <2>10. p.credits > 0 \/ p.payments > 0
    <3>1. p.credits = Cardinality(Credits(txns)) /\ p.payments = Cardinality(Payments(txns))
      BY <2>7 DEF ProfileOf
    <3>2. /\ IsFiniteSet(Credits(txns)) /\ IsFiniteSet(Payments(txns))
          /\ Payments(txns) = DOMAIN txns \ Credits(txns) /\ DOMAIN txns = 1..Len(txns)
      BY <2>0, TxnList
    <3>3. Len(txns) # 0
      BY <1>1, <2>0
    <3>4. Credits(txns) # {} \/ Payments(txns) # {}
      <4>1. 1 \in 1..Len(txns)
        BY <2>0, <3>3
      <4> QED BY <3>2, <4>1
    <3>5. p.credits # 0 \/ p.payments # 0
      BY <3>1, <3>2, <3>4, FS_EmptySet
    <3>6. p.credits \in Nat /\ p.payments \in Nat
      BY <2>8 DEF Profile
    <3> QED BY <3>5, <3>6
  <2>11. Score(WithPayment(p, a)) >= Score(p)
    BY <2>6, <2>8, <2>10, PaymentRaisesScore
  <2> QED BY <2>8, <2>9, <2>11
<1>2. TypeOK /\ [Next]_vars
        => [Len(txns') = Len(txns) + 1 /\ Last(txns').type = "payment" /\ txns # <<>>
              => score' >= ScoreNow]_vars
  BY <1>1
<1> QED BY <1>2, HistoryTypes, PTL DEF Spec, PaymentNeverLowersScore

\* Changing the amount of one transaction changes by that much the totals it is in.
LEMMA TotalOfEdited ==
    ASSUME NEW ts \in Seq(Txn), NEW us \in Seq(Txn), Len(us) = Len(ts),
           NEW i \in 1..Len(ts), \A j \in 1..Len(ts) : j # i => us[j] = ts[j],
           NEW is \in SUBSET (1..Len(ts))
    PROVE  Total(us, is) = Total(ts, is) + IF i \in is THEN us[i].amount - ts[i].amount ELSE 0
<1>1. PICK f : f = [j \in DOMAIN ts |-> ts[j].amount]
  OBVIOUS
<1>2. PICK g : g = [j \in DOMAIN us |-> us[j].amount]
  OBVIOUS
<1>3. IsFiniteSet(is)
  BY TxnList, FS_Subset
<1>4. \A j \in 1..Len(ts) : /\ f[j] = ts[j].amount /\ ts[j].amount \in Int
                            /\ g[j] = us[j].amount /\ us[j].amount \in Int
  BY <1>1, <1>2, TxnList
<1>5. \A j \in is : /\ f[j] \in Int /\ g[j] \in Int
                    /\ j # i => g[j] = f[j]
  BY <1>4
<1>6. SumFunctionOnSet(g, is)
        = SumFunctionOnSet(f, is) + IF i \in is THEN g[i] - f[i] ELSE 0
  BY <1>3, <1>5, SumChange
<1>7. f[i] = ts[i].amount /\ g[i] = us[i].amount
  BY <1>4
<1> QED BY <1>1, <1>2, <1>6, <1>7 DEF Total

\* A higher amount of a credit, or a lower one of a payment, never makes the score
\* of the same list, on the same day, higher.
LEMMA WorseEditLowersScore ==
    ASSUME NEW ts \in Seq(Txn), NEW us \in Seq(Txn), Len(us) = Len(ts),
           NEW i \in 1..Len(ts), us[i].type = ts[i].type, us[i].date = ts[i].date,
           \A j \in 1..Len(ts) : j # i => us[j] = ts[j],
           NEW now \in 0..MaxDay, InOrder(ts, now), NEW bal \in Int, NEW more \in Int,
           more = Signed(ts[i].type, us[i].amount - ts[i].amount), more > 0
    PROVE  Score(ProfileOf(us, now, bal + more)) <= Score(ProfileOf(ts, now, bal))
<1>0. /\ Len(ts) \in Nat /\ now \in Nat
      /\ \A j \in 1..Len(ts) : us[j].type = ts[j].type /\ us[j].date = ts[j].date
      /\ DOMAIN us = 1..Len(ts) /\ DOMAIN ts = 1..Len(ts)
      /\ Credits(ts) \in SUBSET (1..Len(ts)) /\ Payments(ts) \in SUBSET (1..Len(ts))
      /\ ts[i].amount \in Int /\ us[i].amount \in Int
  <2>1. Len(ts) \in Nat /\ now \in Nat
    BY HistoryAssumption DEF HistoryAssumption
  <2>2. \A j \in 1..Len(ts) : us[j].type = ts[j].type /\ us[j].date = ts[j].date
    OBVIOUS
  <2>3. DOMAIN us = 1..Len(ts) /\ DOMAIN ts = 1..Len(ts)
    OBVIOUS
  <2>4. Credits(ts) \in SUBSET (1..Len(ts)) /\ Payments(ts) \in SUBSET (1..Len(ts))
    BY TxnList
  <2>5. ts[i].amount \in Int
    BY TxnList
  <2>6. i \in 1..Len(us) /\ us[i].amount \in Int
    BY TxnList
  <2> QED BY <2>1, <2>2, <2>3, <2>4, <2>5, <2>6
<1>1. Credits(us) = Credits(ts) /\ Payments(us) = Payments(ts)
  BY <1>0 DEF Credits, Payments
<1>2. Overdue(us, now) = Overdue(ts, now)
  BY <1>0, <1>1 DEF Overdue
<1>3. DaysSince(us, now) = DaysSince(ts, now)
  <2>1. CASE Payments(ts) = {}
    BY <1>1, <2>1 DEF DaysSince
  <2>2. CASE Payments(ts) # {}
    <3>1. Max(Payments(ts)) \in 1..Len(ts)
      BY <1>0, <2>2, LastIndex
    <3>2. us[Max(Payments(ts))].date = ts[Max(Payments(ts))].date
      BY <1>0, <3>1
    <3> QED BY <1>1, <2>2, <3>2 DEF DaysSince
  <2> QED BY <2>1, <2>2
<1>4. InOrder(us, now)
  BY <1>0, DatesStayInOrder
<1>5. PICK p : p = ProfileOf(ts, now, bal)
  OBVIOUS
<1>6. PICK q : q = ProfileOf(us, now, bal + more)
  OBVIOUS
<1>7. p \in Profile /\ q \in Profile
  BY <1>0, <1>4, <1>5, <1>6, ScoreOfList
<1>8. /\ q.credits = p.credits /\ q.payments = p.payments /\ q.overdue = p.overdue
      /\ q.days_since = p.days_since
  BY <1>1, <1>2, <1>3, <1>5, <1>6 DEF ProfileOf
<1>9. q.balance >= p.balance
  BY <1>5, <1>6 DEF ProfileOf
<1>10. /\ p.total_credit = Total(ts, Credits(ts)) /\ q.total_credit = Total(us, Credits(ts))
       /\ p.total_paid = Total(ts, Payments(ts)) /\ q.total_paid = Total(us, Payments(ts))
       /\ p.total_credit \in Int /\ q.total_credit \in Int
       /\ p.total_paid \in Int /\ q.total_paid \in Int
  <2>1. /\ p.total_credit = Total(ts, Credits(ts)) /\ q.total_credit = Total(us, Credits(ts))
        /\ p.total_paid = Total(ts, Payments(ts)) /\ q.total_paid = Total(us, Payments(ts))
    BY <1>1, <1>5, <1>6 DEF ProfileOf
  <2> QED BY <1>7, <2>1 DEF Profile
<1>11. q.total_credit >= p.total_credit /\ q.total_paid <= p.total_paid
  <2>1. /\ Total(us, Credits(ts)) = Total(ts, Credits(ts))
             + IF i \in Credits(ts) THEN us[i].amount - ts[i].amount ELSE 0
        /\ Total(us, Payments(ts)) = Total(ts, Payments(ts))
             + IF i \in Payments(ts) THEN us[i].amount - ts[i].amount ELSE 0
    <3>1. ASSUME NEW is \in SUBSET (1..Len(ts))
          PROVE  Total(us, is)
                   = Total(ts, is) + IF i \in is THEN us[i].amount - ts[i].amount ELSE 0
      BY TotalOfEdited
    <3> QED BY <1>0, <3>1
  <2>2. /\ i \in Credits(ts) => us[i].amount > ts[i].amount
        /\ i \in Payments(ts) => us[i].amount < ts[i].amount
    BY <1>0 DEF Credits, Payments, Signed
  <2>3. /\ q.total_credit = p.total_credit
             + IF i \in Credits(ts) THEN us[i].amount - ts[i].amount ELSE 0
        /\ q.total_paid = p.total_paid
             + IF i \in Payments(ts) THEN us[i].amount - ts[i].amount ELSE 0
    BY <1>10, <2>1
  <2>4. us[i].amount \in Int /\ ts[i].amount \in Int
    BY <1>0
  <2>5. /\ p.total_credit \in Int /\ p.total_paid \in Int
    BY <1>10
  <2> QED BY <2>2, <2>3, <2>4, <2>5
<1>12. Score(q) <= Score(p)
  BY <1>7, <1>8, <1>9, <1>11, OwingMoreLowersScore
<1> QED BY <1>5, <1>6, <1>12

\* Correcting a credit upwards or a payment downwards never raises the score the account
\* would have had that day.
THEOREM WorseAmountsNeverRaiseTheScore == Spec => WorseAmountNeverRaisesScore
<1>1. ASSUME TypeOK, [Next]_vars, NEW i \in 1..Len(txns), Len(txns') = Len(txns),
             txns'[i] # txns[i],
             Signed(txns[i].type, txns'[i].amount - txns[i].amount) > 0
      PROVE  score' <= ScoreNow
  <2>0. /\ txns \in Seq(Txn) /\ balance \in Int /\ today \in 0..MaxDay
        /\ InOrder(txns, today) /\ Len(txns) \in Nat
    BY <1>1, TxnList DEF TypeOK, InOrder
  <2>1. PICK j \in 1..Len(txns), a \in Amounts : Edit(j, a)
    <3>1. ASSUME UNCHANGED txns
          PROVE  FALSE
      BY <1>1, <3>1
    <3>2. ASSUME NEW type \in {"credit", "payment"}, NEW a \in Amounts, Record(type, a)
          PROVE  FALSE
      <4>1. Len(txns') = Len(txns) + 1
        BY <2>0, <3>2 DEF Record
      <4> QED BY <1>1, <2>0, <4>1
    <3>3. ASSUME NEW j \in 1..Len(txns), Delete(j)
          PROVE  FALSE
      <4>1. Len(txns') = Len(txns) - 1
        BY <2>0, <3>3, RemovedFromList DEF Delete
      <4> QED BY <1>1, <2>0, <4>1
    <3> QED BY <1>1, <3>1, <3>2, <3>3 DEF Next, Recalculate, Wait, vars
  <2>2. PICK us : us = [txns EXCEPT ![j].amount = a]
    OBVIOUS
  <2>3. /\ us \in Seq(Txn) /\ Len(us) = Len(txns)
        /\ us[j].type = txns[j].type /\ us[j].date = txns[j].date /\ us[j].amount = a
        /\ \A k \in 1..Len(txns) : k # j => us[k] = txns[k]
    BY <2>0, <2>2, EditedList
  <2>4. /\ txns' = us /\ today' = today
        /\ balance' = balance + Signed(txns[j].type, us[j].amount - txns[j].amount)
        /\ score' = Score(ProfileOf(txns', today', balance'))
    BY <2>1, <2>2, <2>3 DEF Edit, Rescore
  <2>5. j = i
    BY <1>1, <2>3, <2>4
  <2>6. PICK more : more = Signed(txns[i].type, us[i].amount - txns[i].amount)
    OBVIOUS
  <2>7. more > 0 /\ more \in Int
    <3>1. more > 0
      BY <1>1, <2>4, <2>6
    <3>2. us[i].amount \in Int /\ txns[i].amount \in Int
      BY <2>0, <2>3, TxnList
    <3> QED BY <2>6, <3>1, <3>2 DEF Signed
  <2>8. Score(ProfileOf(us, today, balance + more)) <= Score(ProfileOf(txns, today, balance))
    BY <2>0, <2>3, <2>5, <2>6, <2>7, WorseEditLowersScore
  <2> QED BY <2>4, <2>5, <2>6, <2>8 DEF ScoreNow
<1>2. TypeOK /\ [Next]_vars
        => [\A i \in 1..Len(txns) :
              /\ Len(txns') = Len(txns)
              /\ txns'[i] # txns[i]
              /\ Signed(txns[i].type, txns'[i].amount - txns[i].amount) > 0
              => score' <= ScoreNow]_vars
  BY <1>1
<1> QED BY <1>2, HistoryTypes, PTL DEF Spec, WorseAmountNeverRaisesScore
=============================================================================
