---------------------------- MODULE LedgerProofs ----------------------------
(***************************************************************************)
(* Theorems about Ledger, for any sessions, merchants, amounts and bounds.  *)
(***************************************************************************)
EXTENDS Ledger, TLAPS

\* A posted delta is a whole number.
LEMMA DeltaType ==
    ASSUME NEW k \in Call
    PROVE  /\ BalanceDelta(k) \in Int
           /\ CreditDelta(k) \in Int
           /\ PaidDelta(k) \in Int
           /\ BalanceDelta(k) = CreditDelta(k) - PaidDelta(k)
BY DEF Call, CallRecord, TxnTypes, BalanceDelta, CreditDelta, PaidDelta

\* No call in progress is a value of a session's call.
LEMMA IdleType == Idle \in Call
BY DEF Idle, Call, CallRecord, Steps, TxnCalls, TxnTypes

\* A picture of nothing has the type of what a page shows.
LEMMA EmptyPictureType == EmptyPicture \in Picture
BY DEF EmptyPicture, Picture

\* What every transaction adds for a customer is an integer.
LEMMA EntriesType ==
    ASSUME TypeOK, NEW c
    PROVE  Entries(c) \in [TxnIds -> Int]
BY DEF TypeOK, Entries, Entry, Txn

\* A call that returns leaves its session with a call of the right type.
LEMMA ReturnType ==
    ASSUME TypeOK, NEW s \in Sessions, Return(s)
    PROVE  /\ call' \in [Sessions -> Call]
           /\ seen' \in [Sessions -> Picture]
BY IdleType, EmptyPictureType DEF TypeOK, Return

\* A call that goes on to a statement with the locals it needs keeps its type.
LEMMA GotoType ==
    ASSUME TypeOK, NEW s \in Sessions, NEW pc \in Steps \ {"idle", "purge"},
           call[s].pc \notin {"idle", "purge"},
           pc \in {"write", "inc"} => call[s].pc \in {"write", "inc"},
           Goto(s, pc)
    PROVE  call' \in [Sessions -> Call]
<1>1. call[s] \in Call
  BY DEF TypeOK
<1>2. [call[s] EXCEPT !.pc = pc] \in Call
  BY <1>1 DEF Call, CallRecord, Steps
<1> QED BY <1>2 DEF TypeOK, Goto

\* What a posting makes of a customer document
LEMMA PostedType ==
    ASSUME NEW doc \in Customer, NEW k \in Call
    PROVE  /\ Posted(doc, k) \in Customer
           /\ Posted(doc, k).balance - doc.balance = BalanceDelta(k)
           /\ doc.balance = doc.total_credit - doc.total_paid =>
                Posted(doc, k).balance
                    = Posted(doc, k).total_credit - Posted(doc, k).total_paid
<1>1. /\ BalanceDelta(k) \in Int
      /\ CreditDelta(k) \in Int
      /\ PaidDelta(k) \in Int
      /\ BalanceDelta(k) = CreditDelta(k) - PaidDelta(k)
  BY DeltaType
<1>2. /\ doc.balance \in Int
      /\ doc.total_credit \in Int
      /\ doc.total_paid \in Int
      /\ doc.merchant \in Merchants
      /\ doc.scored \in Picture \cup {NewScore}
  BY DEF Customer
<1> QED BY <1>1, <1>2 DEF Posted, Customer

\* The type invariant holds at the start.
LEMMA InitTypeOK == Init => TypeOK
BY LedgerAssumption, IdleType, EmptyPictureType DEF Init, TypeOK, LedgerAssumption

\* A call that begins keeps the type invariant.
LEMMA BeginTypeOK ==
    ASSUME TypeOK, NEW s \in Sessions, Begin(s)
    PROVE  TypeOK'
<1>1. CASE AddCustomer(s)
  <2>1. nextCustomer \in CustomerIds /\ nextCustomer' \in 1..(MaxCustomers + 1)
    BY <1>1, LedgerAssumption DEF AddCustomer, TypeOK, CustomerIds, LedgerAssumption
  <2>2. /\ DOMAIN customers' \subseteq CustomerIds
        /\ customers' \in [DOMAIN customers' -> Customer]
    BY <1>1, <2>1, LedgerAssumption, EmptyPictureType
       DEF AddCustomer, TypeOK, Insert, Customer, LedgerAssumption
  <2> QED BY <1>1, <2>1, <2>2 DEF AddCustomer, TypeOK
<1>2. ASSUME NEW c \in CustomerIds, NEW type \in TxnTypes, NEW a \in Amounts,
             AddTransaction(s, c, type, a)
      PROVE  TypeOK'
  <2>1. nextTxn \in TxnIds /\ nextTxn' \in 1..(MaxTxns + 1)
    BY <1>2, LedgerAssumption DEF AddTransaction, TypeOK, TxnIds, LedgerAssumption
  <2>2. a \in Nat \ {0}
    BY <1>2, LedgerAssumption DEF AddTransaction, LedgerAssumption
  <2>3. [pc |-> "write", kind |-> "add", customer |-> c, txn |-> nextTxn,
         type |-> type, old |-> 0, new |-> a] \in Call
    BY <2>1, <2>2 DEF Call, CallRecord, Steps, TxnCalls, CustomerIds, TxnIds
  <2>4. call' \in [Sessions -> Call]
    BY <1>2, <2>3 DEF AddTransaction, TypeOK
  <2> QED BY <1>2, <2>1, <2>4 DEF AddTransaction, TypeOK
<1>3. ASSUME NEW t \in TxnIds, NEW a \in Amounts, EditTransaction(s, t, a)
      PROVE  TypeOK'
  <2>1. a \in Nat \ {0} /\ txns[t] \in Txn
    BY <1>3, LedgerAssumption
       DEF EditTransaction, FormAmount, LedgerAssumption, TypeOK, Finds
  <2>2. [pc |-> "write", kind |-> "edit", customer |-> txns[t].customer,
         txn |-> t, type |-> txns[t].type, old |-> txns[t].amount,
         new |-> a] \in Call
    BY <2>1 DEF Call, CallRecord, Steps, TxnCalls, Txn, CustomerIds, TxnIds
  <2>3. call' \in [Sessions -> Call]
    BY <1>3, <2>2 DEF EditTransaction, TypeOK
  <2> QED BY <1>3, <2>3 DEF EditTransaction, TypeOK, database
<1>4. ASSUME NEW t \in TxnIds, DeleteTransaction(s, t)
      PROVE  TypeOK'
  <2>1. txns[t] \in Txn
    BY <1>4 DEF DeleteTransaction, TypeOK, Finds
  <2>2. [pc |-> "write", kind |-> "delete", customer |-> txns[t].customer,
         txn |-> t, type |-> txns[t].type, old |-> txns[t].amount,
         new |-> 0] \in Call
    BY <2>1 DEF Call, CallRecord, Steps, TxnCalls, Txn, CustomerIds, TxnIds
  <2>3. call' \in [Sessions -> Call]
    BY <1>4, <2>2 DEF DeleteTransaction, TypeOK
  <2> QED BY <1>4, <2>3 DEF DeleteTransaction, TypeOK, database
<1>5. ASSUME NEW c \in CustomerIds, RecalculateScore(s, c)
      PROVE  TypeOK'
  <2>1. [Idle EXCEPT !.pc = "score_customer", !.kind = "recalc",
                     !.customer = c] \in Call
    BY DEF Idle, Call, CallRecord, Steps, TxnCalls, TxnTypes
  <2>2. call' \in [Sessions -> Call]
    BY <1>5, <2>1 DEF RecalculateScore, TypeOK
  <2> QED BY <1>5, <2>2 DEF RecalculateScore, TypeOK, database
<1>6. ASSUME NEW c \in CustomerIds, DeleteCustomer(s, c)
      PROVE  TypeOK'
  <2>1. [Idle EXCEPT !.pc = "purge", !.kind = "drop", !.customer = c] \in Call
    BY DEF Idle, Call, CallRecord, Steps, TxnCalls, TxnTypes
  <2>2. call' \in [Sessions -> Call]
    BY <1>6, <2>1 DEF DeleteCustomer, TypeOK
  <2>3. /\ DOMAIN customers' \subseteq CustomerIds
        /\ customers' \in [DOMAIN customers' -> Customer]
    BY <1>6 DEF DeleteCustomer, TypeOK, Restrict
  <2> QED BY <1>6, <2>2, <2>3 DEF DeleteCustomer, TypeOK
<1> QED BY <1>1, <1>2, <1>3, <1>4, <1>5, <1>6 DEF Begin

\* A statement of a call in progress keeps the type invariant.
LEMMA AdvanceTypeOK ==
    ASSUME TypeOK, NEW s \in Sessions, Advance(s)
    PROVE  TypeOK'
<1>k. call[s] \in Call /\ seen[s] \in Picture
  BY DEF TypeOK
<1>1. CASE InsertTxn(s)
  <2>1. call' \in [Sessions -> Call]
    BY <1>1, GotoType DEF InsertTxn, Steps
  <2>2. /\ call[s].txn \in TxnIds
        /\ [merchant |-> LoggedInAs[s], customer |-> call[s].customer,
            type |-> call[s].type, amount |-> call[s].new] \in Txn
    BY <1>1, <1>k, LedgerAssumption
       DEF InsertTxn, Call, CallRecord, TxnCalls, Txn, LedgerAssumption
  <2>3. /\ DOMAIN txns' \subseteq TxnIds
        /\ txns' \in [DOMAIN txns' -> Txn]
    BY <1>1, <2>2 DEF InsertTxn, TypeOK, Insert
  <2> QED BY <1>1, <2>1, <2>3 DEF InsertTxn, TypeOK
<1>2. CASE UpdateTxn(s)
  <2>1. call' \in [Sessions -> Call]
    BY <1>2, GotoType DEF UpdateTxn, Steps
  <2>2. call[s].new \in Nat \ {0}
    BY <1>2, <1>k DEF UpdateTxn, Call, CallRecord
  <2>3. /\ DOMAIN txns' \subseteq TxnIds
        /\ txns' \in [DOMAIN txns' -> Txn]
    BY <1>2, <2>2 DEF UpdateTxn, TypeOK, Txn
  <2> QED BY <1>2, <2>1, <2>3 DEF UpdateTxn, TypeOK
<1>3. CASE RemoveTxn(s)
  <2>1. call' \in [Sessions -> Call]
    BY <1>3, GotoType DEF RemoveTxn, Steps
  <2>2. /\ DOMAIN txns' \subseteq TxnIds
        /\ txns' \in [DOMAIN txns' -> Txn]
    BY <1>3 DEF RemoveTxn, TypeOK, Restrict
  <2> QED BY <1>3, <2>1, <2>2 DEF RemoveTxn, TypeOK
<1>4. CASE IncCustomer(s)
  <2>1. call' \in [Sessions -> Call]
    BY <1>4, GotoType DEF IncCustomer, Steps
  <2>2. /\ DOMAIN customers' \subseteq CustomerIds
        /\ customers' \in [DOMAIN customers' -> Customer]
    BY <1>4, <1>k, PostedType DEF IncCustomer, TypeOK
  <2> QED BY <1>4, <2>1, <2>2 DEF IncCustomer, TypeOK
<1>5. CASE ScoreNoCustomer(s)
  BY <1>5, ReturnType DEF ScoreNoCustomer, TypeOK, database
<1>6. CASE ScoreReadBalance(s)
  <2>1. call' \in [Sessions -> Call]
    BY <1>6, GotoType DEF ScoreReadBalance, Steps
  <2>2. customers[call[s].customer].balance \in Int
    BY <1>6 DEF ScoreReadBalance, TypeOK, Customer
  <2>3. seen' \in [Sessions -> Picture]
    BY <1>6, <2>2 DEF ScoreReadBalance, TypeOK, Picture
  <2> QED BY <1>6, <2>1, <2>3 DEF ScoreReadBalance, TypeOK, database
<1>7. CASE ScoreReadTxns(s)
  <2>1. call' \in [Sessions -> Call]
    BY <1>7, GotoType DEF ScoreReadTxns, Steps
  <2>2. seen' \in [Sessions -> Picture]
    BY <1>7, EntriesType DEF ScoreReadTxns, TypeOK, Picture
  <2> QED BY <1>7, <2>1, <2>2 DEF ScoreReadTxns, TypeOK, database
<1>8. CASE ScoreSet(s)
  <2>1. /\ DOMAIN customers' \subseteq CustomerIds
        /\ customers' \in [DOMAIN customers' -> Customer]
    BY <1>8, <1>k DEF ScoreSet, TypeOK, Customer
  <2> QED BY <1>8, <2>1, ReturnType DEF ScoreSet, TypeOK
<1>9. CASE PurgeTxns(s)
  <2>1. /\ DOMAIN txns' \subseteq TxnIds
        /\ txns' \in [DOMAIN txns' -> Txn]
    BY <1>9 DEF PurgeTxns, TypeOK, Restrict
  <2> QED BY <1>9, <2>1, ReturnType DEF PurgeTxns, TypeOK
<1> QED
  BY <1>1, <1>2, <1>3, <1>4, <1>5, <1>6, <1>7, <1>8, <1>9 DEF Advance

\* Whatever interleaves and whatever is cut short, the documents and the
\* threads keep their types, and no transaction is stored without a positive
\* amount and an id of its own.
THEOREM LedgerTypeOK == Spec => []TypeOK
<1>1. ASSUME TypeOK, [Next]_vars
      PROVE  TypeOK'
  <2>1. ASSUME NEW s \in Sessions, Abort(s)
        PROVE  TypeOK'
    BY <1>1, <2>1, ReturnType DEF Abort, TypeOK, database
  <2>2. CASE UNCHANGED vars
    BY <1>1, <2>2 DEF TypeOK, vars
  <2> QED BY <1>1, <2>1, <2>2, BeginTypeOK, AdvanceTypeOK DEF Next
<1> QED BY <1>1, InitTypeOK, PTL DEF Spec

-----------------------------------------------------------------------------
(* The totals of a customer document *)

\* The three totals of every customer document agree at all times: not even a
\* crash or a race sets the balance apart from total_credit - total_paid.
THEOREM BalanceAlwaysCreditLessPaid == Spec => []BalanceIsCreditLessPaid
<1>1. Init => BalanceIsCreditLessPaid
  BY DEF Init, BalanceIsCreditLessPaid
<1>2. ASSUME TypeOK, BalanceIsCreditLessPaid, [Next]_vars
      PROVE  BalanceIsCreditLessPaid'
  <2> USE <1>2 DEF BalanceIsCreditLessPaid
  <2>1. ASSUME NEW s \in Sessions, AddCustomer(s)
        PROVE  BalanceIsCreditLessPaid'
    BY <2>1 DEF AddCustomer, Insert
  <2>2. ASSUME NEW s \in Sessions, NEW c, DeleteCustomer(s, c)
        PROVE  BalanceIsCreditLessPaid'
    BY <2>2 DEF DeleteCustomer, Restrict
  <2>3. ASSUME NEW s \in Sessions, IncCustomer(s)
        PROVE  BalanceIsCreditLessPaid'
    <3>1. call[s] \in Call
      BY DEF TypeOK
    <3>2. \A c \in DOMAIN customers : customers[c] \in Customer
      BY DEF TypeOK
    <3> QED BY <2>3, <3>1, <3>2, PostedType DEF IncCustomer
  <2>4. ASSUME NEW s \in Sessions, ScoreSet(s)
        PROVE  BalanceIsCreditLessPaid'
    BY <2>4 DEF ScoreSet, TypeOK, Customer
  <2>5. CASE UNCHANGED customers
    BY <2>5
  <2> QED
    BY <2>1, <2>2, <2>3, <2>4, <2>5
       DEF Next, Begin, Advance, Abort, AddTransaction, EditTransaction,
           DeleteTransaction, RecalculateScore, InsertTxn, UpdateTxn, RemoveTxn,
           ScoreNoCustomer, ScoreReadBalance, ScoreReadTxns, PurgeTxns,
           database, vars
<1> QED BY <1>1, <1>2, LedgerTypeOK, PTL DEF Spec
=============================================================================
