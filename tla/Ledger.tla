------------------------------- MODULE Ledger -------------------------------
(***************************************************************************)
(* The ledger proper: the MongoDB collections "customers" and              *)
(* "transactions", and the functions of transactions.py and customers.py   *)
(* that change them.  Every merchant session is a thread of the Streamlit  *)
(* server; a function is a series of MongoDB round trips with no           *)
(* transaction and no lock around them, so one action of this module is    *)
(* one round trip (the local computation before it included) and the       *)
(* round trips of different sessions interleave.                           *)
(*                                                                         *)
(* A collection is a function from the ids of the stored documents to the  *)
(* documents: find_one succeeds on the ids in its DOMAIN, and an update or *)
(* delete of any other id matches nothing and changes nothing.  Ids are    *)
(* ObjectIds, never used twice: here numbers given out in order.           *)
(*                                                                         *)
(* Abstracted: amounts are whole numbers of the smallest unit; names,      *)
(* notes, phones and dates are left out; a credit score is represented by  *)
(* the picture of the account it was computed from (module CreditScore has *)
(* the computation itself).                                                *)
(*                                                                         *)
(* A definition whose comment begins with "Mutant" is a plausible slip in  *)
(* the definition after it: no specification uses it, and the properties   *)
(* are there to notice it.                                                 *)
(***************************************************************************)
EXTENDS Integers, FiniteSets, Functions

CONSTANTS
    Sessions,       \* browser sessions logged in as a merchant
    Merchants,      \* registered merchants
    LoggedInAs,     \* LoggedInAs[s] = the merchant of session s (user_id)
    MaxCustomers,   \* bound: customer documents ever created
    MaxTxns,        \* bound: transaction documents ever created
    Amounts         \* amounts a form is given

ASSUME LedgerAssumption ==
    /\ IsFiniteSet(Sessions)
    /\ LoggedInAs \in [Sessions -> Merchants]
    /\ MaxCustomers \in Nat
    /\ MaxTxns \in Nat
    /\ Amounts \subseteq Int

VARIABLES
    \* The database
    customers,      \* collection "customers": id -> document
    txns,           \* collection "transactions": id -> document
    nextCustomer,   \* the next customer ObjectId
    nextTxn,        \* the next transaction ObjectId
    \* The server threads
    call,           \* call[s] = the function session s is running, its locals
    seen            \* seen[s] = what its compute_credit_score has read so far

database == <<customers, txns, nextCustomer, nextTxn>>
vars == <<customers, txns, nextCustomer, nextTxn, call, seen>>

CustomerIds == 1..MaxCustomers
TxnIds == 1..MaxTxns
TxnTypes == {"credit", "payment"}

\* What compute_credit_score looks at: the customer's stored balance and the
\* signed amounts of the customer's transactions.
Picture == [balance: Int, entries: [TxnIds -> Int]]
EmptyPicture == [balance |-> 0, entries |-> [t \in TxnIds |-> 0]]

\* What a new customer document says without any computation: the score of an
\* empty account, 100, but the category "Low Risk", not "Excellent".
NewScore == [balance |-> 0, entries |-> [t \in {} |-> 0]]

\* A customer document; scored = the picture that its score was computed from.
Customer == [merchant: Merchants, balance: Int, total_credit: Int,
             total_paid: Int, scored: Picture \cup {NewScore}]

Txn == [merchant: Merchants, customer: CustomerIds, type: TxnTypes,
        amount: Nat \ {0}]

\* The function a session runs, the next round trip it will make, and the
\* values it holds.  An add has old = 0 and a delete new = 0.
Steps == {"idle", "write", "inc", "score_customer", "score_txns",
          "score_set", "purge"}
TxnCalls == {"add", "edit", "delete"}
CallRecord == [pc: Steps, kind: TxnCalls \cup {"none", "recalc", "drop"},
               customer: CustomerIds \cup {0}, txn: TxnIds \cup {0},
               type: TxnTypes, old: Nat, new: Nat]
Call == {k \in CallRecord :
            /\ k.kind = "none" <=> k.pc = "idle"
            /\ k.kind = "drop" <=> k.pc = "purge"
            /\ k.pc \in {"write", "inc"} => k.kind \in TxnCalls
            /\ k.kind \in TxnCalls => k.customer # 0 /\ k.txn # 0
            /\ IF k.kind \in {"add", "edit"} THEN k.new > 0 ELSE k.new = 0
            /\ k.kind \notin {"edit", "delete"} => k.old = 0}

Idle == [pc |-> "idle", kind |-> "none", customer |-> 0, txn |-> 0,
         type |-> "credit", old |-> 0, new |-> 0]

Busy(s) == call[s].pc # "idle"

-----------------------------------------------------------------------------
(* Collections *)

\* insert_one
Insert(col, id, doc) ==
    [i \in DOMAIN col \cup {id} |-> IF i = id THEN doc ELSE col[i]]

\* Mutant of Finds: the query is by _id alone
FindsAnybodys(col, id, s) == id \in DOMAIN col

\* find_one({"_id": id, "merchant_id": ...}) of session s finds a document
Finds(col, id, s) ==
    /\ id \in DOMAIN col
    /\ col[id].merchant = LoggedInAs[s]

\* The signed amount of transaction t, when it is one of customer c's
Entry(t, c) ==
    IF t \in DOMAIN txns /\ txns[t].customer = c
    THEN IF txns[t].type = "credit" THEN txns[t].amount ELSE -txns[t].amount
    ELSE 0

Entries(c) == [t \in TxnIds |-> Entry(t, c)]

-----------------------------------------------------------------------------
(* The deltas of the $inc that posts call k to the customer document *)

\* Mutants of BalanceDelta: the old amount is not reversed; a payment is posted
\* with the sign of a credit
BalanceDeltaNotReversed(k) == IF k.type = "credit" THEN k.new ELSE -k.new
BalanceDeltaOneSign(k) == k.new - k.old

BalanceDelta(k) == IF k.type = "credit" THEN k.new - k.old ELSE -(k.new - k.old)
CreditDelta(k)  == IF k.type = "credit" THEN k.new - k.old ELSE 0

\* Mutant of PaidDelta: the old amount is not reversed
PaidDeltaNotReversed(k) == IF k.type = "payment" THEN k.new ELSE 0

PaidDelta(k)    == IF k.type = "payment" THEN k.new - k.old ELSE 0

-----------------------------------------------------------------------------
(* Calls: what a merchant starts.  A call whose find_one finds nothing      *)
(* returns "not found" at once and changes nothing.                         *)

\* add_customer's insert_one.  The phone is not modelled here, so neither is
\* the duplicate-phone test before it (module Directory has both).
AddCustomer(s) ==
    /\ call[s].pc = "idle"
    /\ nextCustomer <= MaxCustomers
    /\ customers' = Insert(customers, nextCustomer,
                           [merchant |-> LoggedInAs[s], balance |-> 0,
                            total_credit |-> 0, total_paid |-> 0,
                            scored |-> NewScore])
    /\ nextCustomer' = nextCustomer + 1
    /\ UNCHANGED <<txns, nextTxn, call, seen>>

\* Mutant of AddTransaction: without "if amount <= 0"
AddTransactionAnyAmount(s, c, type, amount) ==
    /\ call[s].pc = "idle"
    /\ nextTxn <= MaxTxns
    /\ Finds(customers, c, s)
    /\ call' = [call EXCEPT ![s] =
                  [pc |-> "write", kind |-> "add", customer |-> c,
                   txn |-> nextTxn, type |-> type, old |-> 0, new |-> amount]]
    /\ nextTxn' = nextTxn + 1
    /\ UNCHANGED <<customers, txns, nextCustomer, seen>>

\* add_transaction up to its find_one
AddTransaction(s, c, type, amount) ==
    /\ call[s].pc = "idle"
    /\ nextTxn <= MaxTxns
    /\ amount > 0
    /\ Finds(customers, c, s)
    /\ call' = [call EXCEPT ![s] =
                  [pc |-> "write", kind |-> "add", customer |-> c,
                   txn |-> nextTxn, type |-> type, old |-> 0, new |-> amount]]
    /\ nextTxn' = nextTxn + 1
    /\ UNCHANGED <<customers, txns, nextCustomer, seen>>

\* What the edit form lets in (min_value=0.01); edit_transaction takes any amount.
FormAmount(amount) == amount > 0

\* The edit form, and edit_transaction up to its find_one
EditTransaction(s, t, amount) ==
    /\ call[s].pc = "idle"
    /\ FormAmount(amount)
    /\ Finds(txns, t, s)
    /\ call' = [call EXCEPT ![s] =
                  [pc |-> "write", kind |-> "edit", customer |-> txns[t].customer,
                   txn |-> t, type |-> txns[t].type, old |-> txns[t].amount,
                   new |-> amount]]
    /\ UNCHANGED <<database, seen>>

\* delete_transaction up to its find_one
DeleteTransaction(s, t) ==
    /\ call[s].pc = "idle"
    /\ Finds(txns, t, s)
    /\ call' = [call EXCEPT ![s] =
                  [pc |-> "write", kind |-> "delete", customer |-> txns[t].customer,
                   txn |-> t, type |-> txns[t].type, old |-> txns[t].amount,
                   new |-> 0]]
    /\ UNCHANGED <<database, seen>>

\* One turn of the loop of "Recalculate All Credit Scores"
RecalculateScore(s, c) ==
    /\ call[s].pc = "idle"
    /\ Finds(customers, c, s)
    /\ call' = [call EXCEPT ![s] = [Idle EXCEPT !.pc = "score_customer",
                                                !.kind = "recalc",
                                                !.customer = c]]
    /\ UNCHANGED <<database, seen>>

\* Mutant of DeleteCustomer: the transactions are left to themselves
DeleteCustomerOnly(s, c) ==
    /\ call[s].pc = "idle"
    /\ Finds(customers, c, s)
    /\ customers' = Restrict(customers, DOMAIN customers \ {c})
    /\ UNCHANGED <<txns, nextCustomer, nextTxn, call, seen>>

\* delete_customer's delete_one on the customer
DeleteCustomer(s, c) ==
    /\ call[s].pc = "idle"
    /\ Finds(customers, c, s)
    /\ customers' = Restrict(customers, DOMAIN customers \ {c})
    /\ call' = [call EXCEPT ![s] = [Idle EXCEPT !.pc = "purge",
                                                !.kind = "drop",
                                                !.customer = c]]
    /\ UNCHANGED <<txns, nextCustomer, nextTxn, seen>>

-----------------------------------------------------------------------------
(* Round trips of a call in progress *)

Goto(s, pc) == call' = [call EXCEPT ![s].pc = pc]

Return(s) ==
    /\ call' = [call EXCEPT ![s] = Idle]
    /\ seen' = [seen EXCEPT ![s] = EmptyPicture]

\* txn_col.insert_one
InsertTxn(s) ==
    /\ call[s].pc = "write" /\ call[s].kind = "add"
    /\ txns' = Insert(txns, call[s].txn,
                      [merchant |-> LoggedInAs[s], customer |-> call[s].customer,
                       type |-> call[s].type, amount |-> call[s].new])
    /\ Goto(s, "inc")
    /\ UNCHANGED <<customers, nextCustomer, nextTxn, seen>>

\* txn_col.update_one: $set amount, by _id
UpdateTxn(s) ==
    /\ call[s].pc = "write" /\ call[s].kind = "edit"
    /\ txns' = [t \in DOMAIN txns |->
                  IF t = call[s].txn THEN [txns[t] EXCEPT !.amount = call[s].new]
                                     ELSE txns[t]]
    /\ Goto(s, "inc")
    /\ UNCHANGED <<customers, nextCustomer, nextTxn, seen>>

\* Mutant of RemoveTxn: the balance effect is not reversed
RemoveTxnOnly(s) ==
    /\ call[s].pc = "write" /\ call[s].kind = "delete"
    /\ txns' = Restrict(txns, DOMAIN txns \ {call[s].txn})
    /\ Return(s)
    /\ UNCHANGED <<customers, nextCustomer, nextTxn>>

\* txn_col.delete_one, by _id
RemoveTxn(s) ==
    /\ call[s].pc = "write" /\ call[s].kind = "delete"
    /\ txns' = Restrict(txns, DOMAIN txns \ {call[s].txn})
    /\ Goto(s, "inc")
    /\ UNCHANGED <<customers, nextCustomer, nextTxn, seen>>

\* Mutant of Posted: total_credit and total_paid are left out of the $inc
PostedBalanceOnly(doc, k) == [doc EXCEPT !.balance = @ + BalanceDelta(k)]

\* The customer document after the $inc of call k: all three totals at once
Posted(doc, k) ==
    [merchant |-> doc.merchant,
     balance |-> doc.balance + BalanceDelta(k),
     total_credit |-> doc.total_credit + CreditDelta(k),
     total_paid |-> doc.total_paid + PaidDelta(k),
     scored |-> doc.scored]

\* Mutant of IncCustomer: the credit score is not computed again
IncCustomerUnscored(s) ==
    /\ call[s].pc = "inc"
    /\ customers' = [c \in DOMAIN customers |->
                       IF c = call[s].customer THEN Posted(customers[c], call[s])
                                               ELSE customers[c]]
    /\ Return(s)
    /\ UNCHANGED <<txns, nextCustomer, nextTxn>>

\* cust_col.update_one, by _id
IncCustomer(s) ==
    /\ call[s].pc = "inc"
    /\ customers' = [c \in DOMAIN customers |->
                       IF c = call[s].customer THEN Posted(customers[c], call[s])
                                               ELSE customers[c]]
    /\ Goto(s, "score_customer")
    /\ UNCHANGED <<txns, nextCustomer, nextTxn, seen>>

\* compute_credit_score, find_one of the customer: gone, so it returns
ScoreNoCustomer(s) ==
    /\ call[s].pc = "score_customer"
    /\ call[s].customer \notin DOMAIN customers
    /\ Return(s)
    /\ UNCHANGED database

\* compute_credit_score, find_one of the customer: the balance it will use
ScoreReadBalance(s) ==
    /\ call[s].pc = "score_customer"
    /\ call[s].customer \in DOMAIN customers
    /\ seen' = [seen EXCEPT ![s].balance = customers[call[s].customer].balance]
    /\ Goto(s, "score_txns")
    /\ UNCHANGED database

\* compute_credit_score, find of the customer's transactions
ScoreReadTxns(s) ==
    /\ call[s].pc = "score_txns"
    /\ seen' = [seen EXCEPT ![s].entries = Entries(call[s].customer)]
    /\ Goto(s, "score_set")
    /\ UNCHANGED database

\* Mutant of ScoreSet: the document read is written back as a whole
ScoreSetWholeDocument(s) ==
    /\ call[s].pc = "score_set"
    /\ customers' = [c \in DOMAIN customers |->
                       IF c = call[s].customer
                       THEN [customers[c] EXCEPT !.balance = seen[s].balance,
                                                 !.scored = seen[s]]
                       ELSE customers[c]]
    /\ Return(s)
    /\ UNCHANGED <<txns, nextCustomer, nextTxn>>

\* compute_credit_score, $set credit_score and risk_category, by _id.  What
\* add_transaction still reads after it changes nothing.
ScoreSet(s) ==
    /\ call[s].pc = "score_set"
    /\ customers' = [c \in DOMAIN customers |->
                       IF c = call[s].customer
                       THEN [customers[c] EXCEPT !.scored = seen[s]]
                       ELSE customers[c]]
    /\ Return(s)
    /\ UNCHANGED <<txns, nextCustomer, nextTxn>>

\* delete_customer's delete_many on the customer's transactions
PurgeTxns(s) ==
    /\ call[s].pc = "purge"
    /\ txns' = Restrict(txns, {t \in DOMAIN txns :
                                 txns[t].customer # call[s].customer})
    /\ Return(s)
    /\ UNCHANGED <<customers, nextCustomer, nextTxn>>

\* A round trip raises (connection lost), or the server process stops: the
\* rest of the call never happens and nothing undoes its first part.
Abort(s) ==
    /\ Busy(s)
    /\ Return(s)
    /\ UNCHANGED database

-----------------------------------------------------------------------------
(* Specifications *)

Init ==
    /\ customers = [c \in {} |-> EmptyPicture]
    /\ txns = [t \in {} |-> EmptyPicture]
    /\ nextCustomer = 1
    /\ nextTxn = 1
    /\ call = [s \in Sessions |-> Idle]
    /\ seen = [s \in Sessions |-> EmptyPicture]

Begin(s) ==
    \/ AddCustomer(s)
    \/ \E c \in CustomerIds, type \in TxnTypes, a \in Amounts :
          AddTransaction(s, c, type, a)
    \/ \E t \in TxnIds, a \in Amounts : EditTransaction(s, t, a)
    \/ \E t \in TxnIds : DeleteTransaction(s, t)
    \/ \E c \in CustomerIds : RecalculateScore(s, c)
    \/ \E c \in CustomerIds : DeleteCustomer(s, c)

Advance(s) ==
    \/ InsertTxn(s)
    \/ UpdateTxn(s)
    \/ RemoveTxn(s)
    \/ IncCustomer(s)
    \/ ScoreNoCustomer(s)
    \/ ScoreReadBalance(s)
    \/ ScoreReadTxns(s)
    \/ ScoreSet(s)
    \/ PurgeTxns(s)

\* The program as it is: any interleaving, any call cut short.
Next == \E s \in Sessions : Begin(s) \/ Advance(s) \/ Abort(s)
Spec == Init /\ [][Next]_vars

\* No call is cut short, but calls still interleave freely.
UncutNext == \E s \in Sessions : Begin(s) \/ Advance(s)
UncutSpec == Init /\ [][UncutNext]_vars

\* Two calls in progress are in each other's way when they are about the same
\* transaction, or one of them deletes the customer the other is about.
Clash(r, s) ==
    \/ call[r].txn = call[s].txn /\ call[r].txn # 0
    \/ /\ call[r].customer = call[s].customer
       /\ call[r].kind = "drop" \/ call[s].kind = "drop"

OneCallPerTxn ==
    \A r, s \in Sessions : r # s /\ Busy(r) /\ Busy(s) => ~Clash(r, s)

OneCallPerAccount ==
    \A r, s \in Sessions :
        r # s /\ Busy(r) /\ Busy(s) => call[r].customer # call[s].customer

\* How the program is meant to be used: nobody works on a transaction that
\* somebody else is changing.  The code does not enforce it.
OrderlyNext == UncutNext /\ OneCallPerTxn'
OrderlySpec == Init /\ [][OrderlyNext]_vars

\* One merchant at a time on each account.
SoloNext == UncutNext /\ OneCallPerAccount'
SoloSpec == Init /\ [][SoloNext]_vars

\* A server thread runs to the end of what it started; merchants need not
\* start anything.
FairSoloSpec == SoloSpec /\ \A s \in Sessions : WF_vars(Advance(s))

-----------------------------------------------------------------------------
(* Properties *)

\* Every variable has its type; a stored transaction has a positive amount and
\* an id that was given out.
TypeOK ==
    /\ DOMAIN customers \subseteq CustomerIds
    /\ customers \in [DOMAIN customers -> Customer]
    /\ DOMAIN txns \subseteq TxnIds
    /\ txns \in [DOMAIN txns -> Txn]
    /\ nextCustomer \in 1..(MaxCustomers + 1)
    /\ nextTxn \in 1..(MaxTxns + 1)
    /\ call \in [Sessions -> Call]
    /\ seen \in [Sessions -> Picture]

\* The three totals of a customer document always agree, whatever interleaves
\* or is cut short: the one $inc posts a change to all of them.
BalanceIsCreditLessPaid ==
    \A c \in DOMAIN customers :
        customers[c].balance = customers[c].total_credit - customers[c].total_paid

\* What customer c owes by the transactions stored
Owed(c) == SumFunction(Entries(c))

\* What the call of session s has changed in customer c's transactions and not
\* yet posted to the customer document
Posting(s, c) ==
    IF call[s].pc = "inc" /\ call[s].customer = c THEN BalanceDelta(call[s]) ELSE 0

Unposted(c) == SumFunction([s \in Sessions |-> Posting(s, c)])

\* How far the books of customer c are out
Drift(c) == customers[c].balance + Unposted(c) - Owed(c)

\* When calls do not clash, the stored balance of every customer is what the
\* stored transactions add up to, but for the changes still to be posted.
BooksBalance == \A c \in DOMAIN customers : Drift(c) = 0

\* Whoever looks at the books when no call is in progress finds the stored
\* balance equal to the sum of the transactions ("recalculate customer
\* balance", "reverse its effect on customer balance").
QuietBooksBalance ==
    (\A s \in Sessions : ~Busy(s)) =>
        \A c \in DOMAIN customers : customers[c].balance = Owed(c)

\* Session s writes to a transaction that is no longer what it read
StaleWrite(s) ==
    /\ call[s].pc = "write" /\ call[s].kind \in {"edit", "delete"}
    /\ call'[s].pc = "inc"
    /\ call[s].txn \in DOMAIN txns => txns[call[s].txn].amount # call[s].old

\* Session s is cut short between writing a transaction and posting it
CutShort(s) == call[s].pc = "inc" /\ call'[s].pc = "idle"

\* In the program as it is, the books of a customer go out of balance in two
\* ways only: a write based on a stale read, and a call cut short between
\* writing the transaction and posting it.
DriftHasACause ==
    [][\A c \in DOMAIN customers :
          c \in DOMAIN customers' /\ Drift(c)' # Drift(c)
             => \E s \in Sessions : StaleWrite(s) \/ CutShort(s)]_vars

\* Transaction t is stored, its customer is not, and no delete_customer is on its
\* way to it.
Stray(t) ==
    /\ t \in DOMAIN txns /\ txns[t].customer \notin DOMAIN customers
    /\ ~\E s \in Sessions : /\ call[s].pc = "purge"
                            /\ call[s].customer = txns[t].customer

\* Session s inserts transaction t for a customer it found and that is gone now
LateInsert(s, t) ==
    /\ call[s].pc = "write" /\ call[s].kind = "add" /\ call[s].txn = t
    /\ call[s].customer \notin DOMAIN customers
    /\ call'[s].pc = "inc"

\* Session s's delete_customer is cut short between its two deletes
PurgeCut(s, t) ==
    /\ call[s].pc = "purge" /\ call[s].customer = txns[t].customer
    /\ call'[s].pc = "idle" /\ UNCHANGED txns

\* In the program as it is, a transaction outlives its customer in two ways only: it
\* was inserted after the deletion of a customer that add_transaction had found,
\* or delete_customer was cut short between its two deletes.
OrphansHaveACause ==
    [][\A t \in TxnIds : ~Stray(t) /\ Stray(t)' =>
          \E s \in Sessions : LateInsert(s, t) \/ PurgeCut(s, t)]_vars

\* What compute_credit_score looks at for customer c, as it is now
Account(c) == [balance |-> customers[c].balance, entries |-> Entries(c)]

\* The stored score of customer c is that of the account as it is now.
ScoreIsCurrentFor(c) ==
    \/ customers[c].scored = Account(c)
    \/ customers[c].scored = NewScore /\ Account(c) = EmptyPicture

\* What compute_credit_score of session s has read is what customer c has now.
ReadIsFresh(s, c) ==
    /\ call[s].pc \in {"score_txns", "score_set"} =>
          seen[s].balance = customers[c].balance
    /\ call[s].pc = "score_set" => seen[s].entries = Entries(c)

\* Session s is going to compute the score of customer c from what is stored now.
WillScore(s, c) ==
    Busy(s) /\ call[s].kind # "drop" /\ call[s].customer = c /\ ReadIsFresh(s, c)

\* The score of customer c is current, or somebody is about to make it so.
ScoreCared(c) == ScoreIsCurrentFor(c) \/ \E s \in Sessions : WillScore(s, c)

\* Session s stores a score of customer c that it computed from a stale reading
LateSet(s, c) ==
    /\ call[s].pc = "score_set" /\ call[s].customer = c /\ ~ReadIsFresh(s, c)
    /\ call'[s].pc = "idle"

\* Session s's call about customer c is cut short
Dropped(s, c) ==
    /\ Busy(s) /\ call[s].customer = c /\ call'[s].pc = "idle"
    /\ UNCHANGED database

\* Session r writes a transaction of customer c, or posts it
Changes(r, c) ==
    call[r].customer = c /\ call[r].pc \in {"write", "inc"} /\ call'[r].pc # "idle"

\* In the program as it is, the score of a customer is left behind its account in
\* two ways only: a call about the customer is cut short, or one stores the score
\* of a reading that has gone stale; and a reading goes stale only by another
\* session's write or $inc on the same customer.
ScoresGoStaleByACause ==
    [][\A c \in DOMAIN customers : c \in DOMAIN customers' =>
          /\ ScoreCared(c) /\ ~ScoreCared(c)' =>
                \E s \in Sessions : LateSet(s, c) \/ Dropped(s, c)
          /\ \A s \in Sessions :
                WillScore(s, c) /\ call'[s] = call[s] /\ ~WillScore(s, c)' =>
                   \E r \in Sessions \ {s} : Changes(r, c)]_vars

\* A session changes and deletes documents of its own merchant only.
OwnDocumentsOnly ==
    [][\A s \in Sessions : call'[s] # call[s] =>
          /\ \A c \in DOMAIN customers :
                customers[c].merchant # LoggedInAs[s] =>
                    c \in DOMAIN customers' /\ customers'[c] = customers[c]
          /\ \A t \in DOMAIN txns :
                txns[t].merchant # LoggedInAs[s] =>
                    t \in DOMAIN txns' /\ txns'[t] = txns[t]]_vars

\* The balance and the score of customer c say what its transactions say.
UpToDate(c) ==
    /\ customers[c].balance = Owed(c)
    /\ ScoreIsCurrentFor(c)

\* With one session at a time on each account, an account whose balance or score
\* has fallen behind its transactions catches up (or is deleted).
AccountsCatchUp ==
    \A c \in CustomerIds :
        (c \in DOMAIN customers /\ ~UpToDate(c))
            ~> (c \in DOMAIN customers => UpToDate(c))
=============================================================================
