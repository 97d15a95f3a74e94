------------------------- MODULE LedgerBalanceProofs -------------------------
(***************************************************************************)
(* Why the stored balances are what the transactions add up to (theorems   *)
(* about Drift), why sessions keep to their own merchant's documents, how  *)
(* transactions come to outlive their customer and scores to be left       *)
(* behind; for any sessions, merchants, amounts and bounds.                *)
(***************************************************************************)
EXTENDS LedgerProofs, LedgerRefinement, SumTheorems

\* The id a session is about to insert, or to change, a transaction under
Adding(s) == call[s].pc = "write" /\ call[s].kind = "add"
Changing(s) == call[s].pc = "write" /\ call[s].kind \in {"edit", "delete"}

\* Every id in use was given out.
IdsGivenOut ==
    /\ \A c \in DOMAIN customers : c < nextCustomer
    /\ \A t \in DOMAIN txns : t < nextTxn /\ txns[t].customer < nextCustomer
    /\ \A s \in Sessions :
          call[s].customer < nextCustomer /\ call[s].txn < nextTxn

\* A customer whose transactions are being purged is gone.
PurgedIsGone ==
    \A s \in Sessions : call[s].kind = "drop" => call[s].customer \notin DOMAIN customers

\* Nobody else knows the id of a transaction that is not inserted yet.
NewIdIsFresh ==
    \A s \in Sessions : Adding(s) =>
        /\ call[s].txn \notin DOMAIN txns
        /\ \A r \in Sessions \ {s} : call[r].txn # call[s].txn

\* What edit_transaction and delete_transaction have read of a transaction that
\* never changes: its customer and its type.
FixedFieldsKnown ==
    \A s \in Sessions : Changing(s) /\ call[s].txn \in DOMAIN txns =>
        /\ txns[call[s].txn].customer = call[s].customer
        /\ txns[call[s].txn].type = call[s].type

IdsInv == IdsGivenOut /\ PurgedIsGone /\ NewIdIsFresh /\ FixedFieldsKnown

-----------------------------------------------------------------------------
(* IdsInv is an invariant of every interleaving, aborts included *)

\* The invariant about ids holds at the start.
LEMMA InitIds == Init => IdsInv
BY DEF Init, IdsInv, IdsGivenOut, PurgedIsGone, NewIdIsFresh, FixedFieldsKnown,
       Adding, Changing, Idle

\* A step in which session s only moves on in its call, or ends it, and which
\* gives no id out and makes nothing of what is stored.
LEMMA IdsKept ==
    ASSUME TypeOK, IdsInv, NEW s \in Sessions,
           \A r \in Sessions \ {s} : call'[r] = call[r],
           \/ call'[s] = Idle
           \/ /\ call'[s].customer = call[s].customer
              /\ call'[s].txn = call[s].txn
              /\ call'[s].kind = call[s].kind
              /\ call'[s].pc # "write",
           UNCHANGED <<nextCustomer, nextTxn>>,
           DOMAIN customers' \subseteq DOMAIN customers,
           DOMAIN txns' \subseteq DOMAIN txns,
           \A t \in DOMAIN txns' : /\ txns'[t].customer = txns[t].customer
                                   /\ txns'[t].type = txns[t].type
    PROVE  IdsInv'
<1>0. /\ Idle.customer = 0 /\ Idle.txn = 0 /\ Idle.kind = "none"
      /\ Idle.pc = "idle" /\ 0 < nextCustomer /\ 0 < nextTxn
  BY LedgerAssumption DEF Idle, TypeOK, LedgerAssumption
<1>1. IdsGivenOut'
  BY <1>0 DEF IdsInv, IdsGivenOut
<1>2. PurgedIsGone'
  BY <1>0 DEF IdsInv, PurgedIsGone
<1>3. NewIdIsFresh'
  <2> SUFFICES ASSUME NEW q \in Sessions, Adding(q)'
               PROVE  /\ call'[q].txn \notin DOMAIN txns'
                      /\ \A r \in Sessions \ {q} : call'[r].txn # call'[q].txn
    BY DEF NewIdIsFresh
  <2>1. q # s
    BY <1>0 DEF Adding
  <2>2. Adding(q) /\ call'[q] = call[q]
    BY <2>1 DEF Adding
  <2>3. call[q].txn # 0
    BY <2>2 DEF Adding, TypeOK, Call, TxnCalls
  <2> QED BY <1>0, <2>1, <2>2, <2>3 DEF IdsInv, NewIdIsFresh
<1>4. FixedFieldsKnown'
  <2> SUFFICES ASSUME NEW q \in Sessions, Changing(q)', call'[q].txn \in DOMAIN txns'
               PROVE  /\ txns'[call'[q].txn].customer = call'[q].customer
                      /\ txns'[call'[q].txn].type = call'[q].type
    BY DEF FixedFieldsKnown
  <2>1. q # s
    BY <1>0 DEF Changing
  <2>2. Changing(q) /\ call'[q] = call[q]
    BY <2>1 DEF Changing
  <2> QED BY <2>2 DEF IdsInv, FixedFieldsKnown
<1> QED BY <1>1, <1>2, <1>3, <1>4 DEF IdsInv

\* A call that begins keeps the invariant about ids.
LEMMA BeginIds ==
    ASSUME TypeOK, IdsInv, NEW s \in Sessions, Begin(s)
    PROVE  IdsInv'
<1> USE DEF IdsInv
<1>0. nextCustomer \in Nat \ {0} /\ nextTxn \in Nat \ {0}
  BY LedgerAssumption DEF TypeOK, LedgerAssumption
<1>i. call[s].pc = "idle" => call[s].kind = "none"
  BY DEF TypeOK, Call
<1>1. CASE AddCustomer(s)
  <2>1. /\ DOMAIN customers' = DOMAIN customers \cup {nextCustomer}
        /\ nextCustomer' = nextCustomer + 1
        /\ UNCHANGED <<txns, nextTxn, call>>
    BY <1>1 DEF AddCustomer, Insert
  <2>2. IdsGivenOut'
    <3>1. \A c \in DOMAIN customers' : c < nextCustomer'
      BY <1>0, <2>1 DEF IdsGivenOut, TypeOK, CustomerIds
    <3>2. \A t \in DOMAIN txns' : t < nextTxn' /\ txns'[t].customer < nextCustomer'
      BY <1>0, <2>1 DEF IdsGivenOut, TypeOK, Txn, CustomerIds
    <3>3. \A r \in Sessions : call'[r].customer < nextCustomer' /\ call'[r].txn < nextTxn'
      BY <1>0, <2>1 DEF IdsGivenOut, TypeOK, Call, CallRecord, CustomerIds
    <3> QED BY <3>1, <3>2, <3>3 DEF IdsGivenOut
  <2>3. PurgedIsGone'
    <3>1. \A r \in Sessions : call[r].customer # nextCustomer
      BY <1>0 DEF IdsGivenOut, TypeOK, Call, CallRecord, CustomerIds
    <3> QED BY <2>1, <3>1 DEF PurgedIsGone
  <2>4. NewIdIsFresh' /\ FixedFieldsKnown'
    BY <2>1 DEF NewIdIsFresh, FixedFieldsKnown, Adding, Changing
  <2> QED BY <2>2, <2>3, <2>4
<1>2. ASSUME NEW c \in CustomerIds, NEW type \in TxnTypes, NEW a \in Amounts,
             AddTransaction(s, c, type, a)
      PROVE  IdsInv'
  <2>1. /\ call' = [call EXCEPT ![s] =
                      [pc |-> "write", kind |-> "add", customer |-> c,
                       txn |-> nextTxn, type |-> type, old |-> 0, new |-> a]]
        /\ nextTxn' = nextTxn + 1
        /\ c \in DOMAIN customers
        /\ UNCHANGED <<customers, txns, nextCustomer>>
    BY <1>2 DEF AddTransaction, Finds
  <2>2. /\ call'[s].pc = "write" /\ call'[s].kind = "add"
        /\ call'[s].customer = c /\ call'[s].txn = nextTxn
        /\ \A r \in Sessions \ {s} : call'[r] = call[r]
    BY <2>1 DEF TypeOK
  <2>3. /\ nextTxn \notin DOMAIN txns
        /\ \A r \in Sessions : call[r].txn # nextTxn
    BY <1>0 DEF IdsGivenOut, TypeOK, TxnIds, Call, CallRecord
  <2>4. IdsGivenOut'
    <3>1. \A t \in DOMAIN txns' : t < nextTxn' /\ txns'[t].customer < nextCustomer'
      BY <1>0, <2>1 DEF IdsGivenOut, TypeOK, TxnIds
    <3>2. \A r \in Sessions : call'[r].customer < nextCustomer' /\ call'[r].txn < nextTxn'
      BY <1>0, <2>1, <2>2 DEF IdsGivenOut, TypeOK, Call, CallRecord, TxnIds
    <3> QED BY <2>1, <3>1, <3>2 DEF IdsGivenOut
  <2>5. PurgedIsGone'
    BY <2>1, <2>2 DEF PurgedIsGone
  <2>6. NewIdIsFresh'
    BY <2>1, <2>2, <2>3 DEF NewIdIsFresh, Adding
  <2>7. FixedFieldsKnown'
    BY <2>1, <2>2, <2>3 DEF FixedFieldsKnown, Changing
  <2> QED BY <2>4, <2>5, <2>6, <2>7
<1>3. ASSUME NEW t \in TxnIds,
             \/ \E a \in Amounts : EditTransaction(s, t, a)
             \/ DeleteTransaction(s, t)
      PROVE  IdsInv'
  <2>1. /\ t \in DOMAIN txns
        /\ UNCHANGED database
        /\ call'[s].kind \in {"edit", "delete"}
        /\ call'[s].customer = txns[t].customer
        /\ call'[s].txn = t
        /\ call'[s].type = txns[t].type
        /\ \A r \in Sessions \ {s} : call'[r] = call[r]
    BY <1>3 DEF EditTransaction, DeleteTransaction, Finds, TypeOK
  <2>2. IdsGivenOut'
    BY <2>1 DEF IdsGivenOut, database
  <2>3. PurgedIsGone'
    BY <2>1 DEF PurgedIsGone, database
  <2>4. NewIdIsFresh'
    BY <2>1 DEF NewIdIsFresh, Adding, database
  <2>5. FixedFieldsKnown'
    BY <2>1 DEF FixedFieldsKnown, Changing, database
  <2> QED BY <2>2, <2>3, <2>4, <2>5
<1>4. ASSUME NEW c \in CustomerIds, RecalculateScore(s, c) \/ DeleteCustomer(s, c)
      PROVE  IdsInv'
  <2>1. /\ c \in DOMAIN customers
        /\ DOMAIN customers' \subseteq DOMAIN customers
        /\ UNCHANGED <<txns, nextCustomer, nextTxn>>
        /\ \A r \in Sessions \ {s} : call'[r] = call[r]
    BY <1>4 DEF RecalculateScore, DeleteCustomer, Finds, Restrict, TypeOK, database
  <2>2. /\ call'[s].customer = c /\ call'[s].txn = 0
        /\ call'[s].pc # "write"
        /\ call'[s].kind = "drop" => c \notin DOMAIN customers'
    <3>1. \A k \in {[Idle EXCEPT !.pc = "score_customer", !.kind = "recalc", !.customer = c],
                    [Idle EXCEPT !.pc = "purge", !.kind = "drop", !.customer = c]} :
             k.customer = c /\ k.txn = 0 /\ k.pc # "write"
      BY DEF Idle
    <3>2. [Idle EXCEPT !.pc = "score_customer", !.kind = "recalc", !.customer = c].kind
             = "recalc"
      BY DEF Idle
    <3> QED BY <1>4, <3>1, <3>2 DEF RecalculateScore, DeleteCustomer, Restrict, TypeOK
  <2>3. IdsGivenOut'
    BY <1>0, <2>1, <2>2 DEF IdsGivenOut
  <2>4. PurgedIsGone'
    BY <2>1, <2>2 DEF PurgedIsGone
  <2>5. NewIdIsFresh'
    <3>1. \A q \in Sessions : Adding(q) => call[q].txn # 0
      BY DEF Adding, TypeOK, Call, TxnCalls
    <3> QED BY <2>1, <2>2, <3>1 DEF NewIdIsFresh, Adding
  <2>6. FixedFieldsKnown'
    BY <2>1, <2>2 DEF FixedFieldsKnown, Changing
  <2> QED BY <2>3, <2>4, <2>5, <2>6
<1> QED BY <1>1, <1>2, <1>3, <1>4 DEF Begin

\* A statement of a call in progress keeps the invariant about ids.
LEMMA AdvanceIds ==
    ASSUME TypeOK, IdsInv, NEW s \in Sessions, Advance(s) \/ Abort(s)
    PROVE  IdsInv'
<1>1. CASE InsertTxn(s)
  <2> DEFINE t == call[s].txn
  <2>1. /\ DOMAIN txns' = DOMAIN txns \cup {t}
        /\ txns'[t].customer = call[s].customer
        /\ \A u \in DOMAIN txns : u # t => txns'[u] = txns[u]
        /\ UNCHANGED <<customers, nextCustomer, nextTxn>>
    BY <1>1 DEF InsertTxn, Insert
  <2>2. /\ call'[s].pc = "inc" /\ call'[s].kind = "add"
        /\ call'[s].customer = call[s].customer /\ call'[s].txn = t
        /\ \A r \in Sessions \ {s} : call'[r] = call[r]
    BY <1>1 DEF InsertTxn, Goto, TypeOK, Call, CallRecord
  <2>3. \A r \in Sessions \ {s} : call[r].txn # t
    BY <1>1 DEF InsertTxn, IdsInv, NewIdIsFresh, Adding
  <2>4. IdsGivenOut'
    BY <2>1, <2>2 DEF IdsInv, IdsGivenOut
  <2>5. PurgedIsGone'
    BY <2>1, <2>2 DEF IdsInv, PurgedIsGone
  <2>6. NewIdIsFresh'
    BY <2>1, <2>2, <2>3 DEF IdsInv, NewIdIsFresh, Adding
  <2>7. FixedFieldsKnown'
    BY <2>1, <2>2, <2>3 DEF IdsInv, FixedFieldsKnown, Changing
  <2> QED BY <2>4, <2>5, <2>6, <2>7 DEF IdsInv
<1>2. CASE UpdateTxn(s)
  <2>1. \A t \in DOMAIN txns' : /\ t \in DOMAIN txns
                                /\ txns'[t].customer = txns[t].customer
                                /\ txns'[t].type = txns[t].type
    BY <1>2 DEF UpdateTxn, TypeOK, Txn
  <2>2. /\ call'[s].pc = "inc" /\ call'[s].kind = call[s].kind
        /\ call'[s].customer = call[s].customer /\ call'[s].txn = call[s].txn
        /\ \A r \in Sessions \ {s} : call'[r] = call[r]
    BY <1>2 DEF UpdateTxn, Goto, TypeOK, Call, CallRecord
  <2> QED BY <1>2, <2>1, <2>2, IdsKept DEF UpdateTxn
<1>3. CASE RemoveTxn(s) \/ PurgeTxns(s)
  <2>1. \A t \in DOMAIN txns' : /\ t \in DOMAIN txns
                                /\ txns'[t].customer = txns[t].customer
                                /\ txns'[t].type = txns[t].type
    BY <1>3 DEF RemoveTxn, PurgeTxns, Restrict
  <2>2. /\ \A r \in Sessions \ {s} : call'[r] = call[r]
        /\ \/ call'[s] = Idle
           \/ /\ call'[s].pc = "inc" /\ call'[s].kind = call[s].kind
              /\ call'[s].customer = call[s].customer
              /\ call'[s].txn = call[s].txn
    BY <1>3 DEF RemoveTxn, PurgeTxns, Return, Goto, TypeOK, Call, CallRecord
  <2> QED BY <1>3, <2>1, <2>2, IdsKept DEF RemoveTxn, PurgeTxns
<1>4. CASE IncCustomer(s) \/ ScoreSet(s)
  <2>1. DOMAIN customers' = DOMAIN customers
    BY <1>4 DEF IncCustomer, ScoreSet
  <2>2. /\ \A r \in Sessions \ {s} : call'[r] = call[r]
        /\ \/ call'[s] = Idle
           \/ /\ call'[s].pc = "score_customer" /\ call'[s].kind = call[s].kind
              /\ call'[s].customer = call[s].customer
              /\ call'[s].txn = call[s].txn
    BY <1>4 DEF IncCustomer, ScoreSet, Return, Goto, TypeOK, Call, CallRecord
  <2> QED BY <1>4, <2>1, <2>2, IdsKept DEF IncCustomer, ScoreSet
<1>5. CASE \/ ScoreNoCustomer(s) \/ ScoreReadBalance(s) \/ ScoreReadTxns(s)
           \/ Abort(s)
  <2>1. /\ \A r \in Sessions \ {s} : call'[r] = call[r]
        /\ \/ call'[s] = Idle
           \/ /\ call'[s].pc # "write" /\ call'[s].kind = call[s].kind
              /\ call'[s].customer = call[s].customer
              /\ call'[s].txn = call[s].txn
    BY <1>5 DEF ScoreNoCustomer, ScoreReadBalance, ScoreReadTxns, Abort, Return,
                Goto, TypeOK, Call, CallRecord
  <2>2. UNCHANGED database
    BY <1>5 DEF ScoreNoCustomer, ScoreReadBalance, ScoreReadTxns, Abort
  <2> QED BY <2>1, <2>2, IdsKept DEF database
<1> QED BY <1>1, <1>2, <1>3, <1>4, <1>5 DEF Advance

\* Ids, and who and what a transaction is about, stay consistent in every interleaving.
LEMMA IdsInvariant == Spec => [](TypeOK /\ IdsInv)
<1>1. ASSUME TypeOK, IdsInv, [Next]_vars
      PROVE  IdsInv'
  <2>1. CASE UNCHANGED vars
    BY <1>1, <2>1 DEF vars, IdsInv, IdsGivenOut, PurgedIsGone, NewIdIsFresh,
                      FixedFieldsKnown, Adding, Changing
  <2> QED BY <1>1, <2>1, BeginIds, AdvanceIds DEF Next
<1> QED BY <1>1, InitIds, LedgerTypeOK, PTL DEF Spec

-----------------------------------------------------------------------------
(* How a step changes what is owed and what is unposted *)

\* What a call has yet to post is an integer.
LEMMA PostingType ==
    ASSUME TypeOK, NEW s \in Sessions, NEW c
    PROVE  Posting(s, c) \in Int
BY DeltaType DEF Posting, TypeOK

\* What the transactions add up to for a customer is an integer.
LEMMA OwedType ==
    ASSUME TypeOK, NEW c
    PROVE  Owed(c) \in Int
<1>1. IsFiniteSet(TxnIds)
  BY FS_Interval, LedgerAssumption DEF TxnIds, LedgerAssumption
<1> QED BY <1>1, EntriesType, SumType DEF Owed

\* When one session moves, Unposted changes by what its own posting does.
LEMMA UnpostedChange ==
    ASSUME TypeOK, TypeOK', NEW s \in Sessions, NEW c,
           \A r \in Sessions \ {s} : call'[r] = call[r]
    PROVE  /\ Unposted(c) \in Int /\ Unposted(c)' \in Int
           /\ Posting(s, c) \in Int /\ Posting(s, c)' \in Int
           /\ Unposted(c)' - Unposted(c) = Posting(s, c)' - Posting(s, c)
<1> DEFINE f == [r \in Sessions |-> Posting(r, c)]
           g == [r \in Sessions |-> Posting(r, c)']
<1>1. f \in [Sessions -> Int] /\ g \in [Sessions -> Int]
  <2>1. \A r \in Sessions : Posting(r, c) \in Int
    BY PostingType
  <2>2. \A r \in Sessions : Posting(r, c)' \in Int
    <3>1. \A r \in Sessions : call'[r] \in Call
      BY DEF TypeOK
    <3> QED BY <3>1, DeltaType DEF Posting
  <2> QED BY <2>1, <2>2
<1>2. \A r \in Sessions \ {s} : f[r] = g[r]
  BY DEF Posting
<1>3. f[s] = Posting(s, c) /\ g[s] = Posting(s, c)'
  OBVIOUS
<1>4. Unposted(c) = SumFunction(f) /\ Unposted(c)' = SumFunction(g)
  BY DEF Unposted
<1>5. IsFiniteSet(Sessions)
  BY LedgerAssumption DEF LedgerAssumption
<1> HIDE DEF f, g
<1> QED BY <1>1, <1>2, <1>3, <1>4, <1>5, SumUpdate, SumType

\* When one transaction changes, Owed changes by what its own entry does.
LEMMA OwedChange ==
    ASSUME TypeOK, TypeOK', NEW t \in TxnIds, NEW c,
           \A u \in TxnIds \ {t} : Entry(u, c)' = Entry(u, c)
    PROVE  /\ Owed(c) \in Int /\ Owed(c)' \in Int
           /\ Entry(t, c) \in Int /\ Entry(t, c)' \in Int
           /\ Owed(c)' - Owed(c) = Entry(t, c)' - Entry(t, c)
<1> DEFINE f == Entries(c)
           g == Entries(c)'
<1>1. f \in [TxnIds -> Int] /\ g \in [TxnIds -> Int]
  <2>1. f \in [TxnIds -> Int]
    BY EntriesType
  <2>2. g \in [TxnIds -> Int]
    BY DEF TypeOK, Entries, Entry, Txn
  <2> QED BY <2>1, <2>2
<1>2. \A u \in TxnIds : f[u] = Entry(u, c) /\ g[u] = Entry(u, c)'
  BY DEF Entries
<1>3. Owed(c) = SumFunction(f) /\ Owed(c)' = SumFunction(g)
  BY DEF Owed
<1>4. IsFiniteSet(TxnIds)
  BY FS_Interval, LedgerAssumption DEF TxnIds, LedgerAssumption
<1> HIDE DEF f, g
<1> QED BY <1>1, <1>2, <1>3, <1>4, SumUpdate, SumType

\* Transactions that stay as they were add up to what they did.
LEMMA OwedSame ==
    ASSUME TypeOK, TypeOK', NEW c, \A u \in TxnIds : Entry(u, c)' = Entry(u, c)
    PROVE  Owed(c)' = Owed(c)
<1>1. Entries(c)' = Entries(c)
  BY DEF Entries
<1> QED BY <1>1 DEF Owed

-----------------------------------------------------------------------------
(* Every step but a stale write and a cut between writing and posting       *)
(* leaves the drift of every account as it was.                             *)

\* A step that touches neither transactions nor balances, of a session that is
\* not between writing and posting, before or after it
LEMMA QuietStepKeepsDrift ==
    ASSUME TypeOK, TypeOK', NEW s \in Sessions, NEW c \in DOMAIN customers,
           \A r \in Sessions \ {s} : call'[r] = call[r],
           call[s].pc # "inc", call'[s].pc # "inc",
           \A u \in TxnIds : Entry(u, c)' = Entry(u, c),
           customers'[c].balance = customers[c].balance
    PROVE  Drift(c)' = Drift(c)
<1>1. Unposted(c)' = Unposted(c)
  <2>1. Posting(s, c) = 0 /\ Posting(s, c)' = 0
    BY DEF Posting
  <2>2. /\ Unposted(c) \in Int /\ Unposted(c)' \in Int
        /\ Unposted(c)' - Unposted(c) = Posting(s, c)' - Posting(s, c)
    BY UnpostedChange
  <2> QED BY <2>1, <2>2
<1>2. Owed(c)' = Owed(c)
  BY OwedSame
<1> QED BY <1>1, <1>2 DEF Drift

\* The write of add_transaction, edit_transaction or delete_transaction
LEMMA WriteKeepsDrift ==
    ASSUME TypeOK, TypeOK', IdsInv, NEW s \in Sessions, NEW c \in DOMAIN customers,
           InsertTxn(s) \/ UpdateTxn(s) \/ RemoveTxn(s),
           ~StaleWrite(s)
    PROVE  Drift(c)' = Drift(c)
<1>0. call[s] \in Call /\ call[s].pc = "write" /\ call[s].txn \in TxnIds
  BY DEF TypeOK, Call, CallRecord, InsertTxn, UpdateTxn, RemoveTxn, TxnCalls
<1> PICK k \in Call, t \in TxnIds : k = call[s] /\ t = call[s].txn
  BY <1>0
<1>1. /\ k.pc = "write" /\ k.kind \in TxnCalls
      /\ k.old \in Nat /\ k.new \in Nat /\ k.type \in TxnTypes
      /\ k.txn = t
  BY DEF Call, CallRecord, InsertTxn, UpdateTxn, RemoveTxn, TxnCalls
<1>2. /\ customers' = customers
      /\ call'[s].pc = "inc"
      /\ call'[s].customer = k.customer /\ call'[s].type = k.type
      /\ call'[s].old = k.old /\ call'[s].new = k.new
      /\ \A r \in Sessions \ {s} : call'[r] = call[r]
  BY DEF InsertTxn, UpdateTxn, RemoveTxn, Goto, TypeOK, Call, CallRecord
<1>d. BalanceDelta(k) \in Int
  BY DeltaType
<1>3. Posting(s, c)' - Posting(s, c) = IF k.customer = c THEN BalanceDelta(k) ELSE 0
  <2>1. Posting(s, c) = 0
    BY <1>1 DEF Posting
  <2>2. BalanceDelta(call'[s]) = BalanceDelta(k)
    BY <1>2 DEF BalanceDelta
  <2>3. Posting(s, c)' = IF k.customer = c THEN BalanceDelta(k) ELSE 0
    BY <1>2, <2>2 DEF Posting
  <2> QED BY <1>d, <2>1, <2>3
<1>4. \A u \in TxnIds \ {t} : Entry(u, c)' = Entry(u, c)
  BY DEF InsertTxn, UpdateTxn, RemoveTxn, Insert, Restrict, Entry
<1>5. Entry(t, c)' - Entry(t, c) = IF k.customer = c THEN BalanceDelta(k) ELSE 0
  <2>1. CASE InsertTxn(s)
    <3>1. t \notin DOMAIN txns
      BY <2>1 DEF InsertTxn, IdsInv, NewIdIsFresh, Adding
    <3>2. k.old = 0 /\ k.new \in Nat
      BY <2>1 DEF InsertTxn, Call, CallRecord
    <3>3. /\ t \in DOMAIN txns' /\ txns'[t].customer = k.customer
          /\ txns'[t].type = k.type /\ txns'[t].amount = k.new
      BY <2>1 DEF InsertTxn, Insert
    <3> QED BY <3>1, <3>2, <3>3 DEF Entry, BalanceDelta
  <2>2. ASSUME UpdateTxn(s) \/ RemoveTxn(s), t \in DOMAIN txns
        PROVE  /\ txns[t].customer = k.customer /\ txns[t].type = k.type
               /\ txns[t].amount = k.old
    <3>1. Changing(s)
      BY <2>2 DEF UpdateTxn, RemoveTxn, Changing
    <3>2. txns[t].customer = k.customer /\ txns[t].type = k.type
      BY <2>2, <3>1 DEF IdsInv, FixedFieldsKnown
    <3>3. txns[t].amount = k.old
      BY <1>2, <2>2, <3>1 DEF StaleWrite, Changing
    <3> QED BY <3>2, <3>3
  <2>3. ASSUME UpdateTxn(s) \/ RemoveTxn(s)
        PROVE  t \in DOMAIN txns
    BY <1>2, <2>3 DEF StaleWrite, UpdateTxn, RemoveTxn
  <2>4. CASE UpdateTxn(s)
    <3>1. /\ DOMAIN txns' = DOMAIN txns
          /\ txns'[t] = [txns[t] EXCEPT !.amount = k.new]
          /\ txns[t] \in Txn
      BY <2>3, <2>4 DEF UpdateTxn, TypeOK
    <3>2. /\ txns'[t].customer = k.customer /\ txns'[t].type = k.type
          /\ txns'[t].amount = k.new
      BY <2>2, <2>3, <2>4, <3>1 DEF Txn
    <3> QED BY <1>1, <2>2, <2>3, <2>4, <3>1, <3>2 DEF Entry, BalanceDelta
  <2>5. CASE RemoveTxn(s)
    <3>1. t \notin DOMAIN txns' /\ k.new = 0
      BY <2>5 DEF RemoveTxn, Restrict, Call
    <3> QED BY <1>1, <2>2, <2>3, <2>5, <3>1 DEF Entry, BalanceDelta
  <2> QED BY <2>1, <2>4, <2>5
<1>6. /\ Owed(c) \in Int /\ Owed(c)' \in Int
      /\ Owed(c)' - Owed(c) = Entry(t, c)' - Entry(t, c)
  BY <1>4, OwedChange
<1>7. /\ Unposted(c) \in Int /\ Unposted(c)' \in Int
      /\ Unposted(c)' - Unposted(c) = Posting(s, c)' - Posting(s, c)
  BY <1>2, UnpostedChange
<1>8. customers[c].balance \in Int /\ customers'[c].balance = customers[c].balance
  BY <1>2 DEF TypeOK, Customer
<1>9. Unposted(c)' - Unposted(c) = Owed(c)' - Owed(c)
  BY <1>3, <1>5, <1>6, <1>7
<1> QED BY <1>6, <1>7, <1>8, <1>9 DEF Drift

\* The $inc
LEMMA IncKeepsDrift ==
    ASSUME TypeOK, TypeOK', NEW s \in Sessions, NEW c \in DOMAIN customers,
           IncCustomer(s)
    PROVE  Drift(c)' = Drift(c)
<1>1. /\ call[s] \in Call /\ call[s].pc = "inc"
      /\ call'[s].pc = "score_customer"
      /\ \A r \in Sessions \ {s} : call'[r] = call[r]
  BY DEF IncCustomer, Goto, TypeOK
<1>2. Posting(s, c) = (IF call[s].customer = c THEN BalanceDelta(call[s]) ELSE 0)
      /\ Posting(s, c)' = 0
  BY <1>1 DEF Posting
<1>3. /\ customers[c].balance \in Int /\ customers'[c].balance \in Int
      /\ BalanceDelta(call[s]) \in Int
      /\ customers'[c].balance - customers[c].balance
            = IF call[s].customer = c THEN BalanceDelta(call[s]) ELSE 0
  <2>1. customers[c] \in Customer /\ customers[c].balance \in Int
    BY DEF TypeOK, Customer
  <2>2. BalanceDelta(call[s]) \in Int
    BY <1>1, DeltaType
  <2>3. CASE call[s].customer = c
    <3>1. customers'[c] = Posted(customers[c], call[s])
      BY <2>3 DEF IncCustomer
    <3>2. Posted(customers[c], call[s]).balance \in Int
      BY <1>1, <2>1, PostedType DEF Customer
    <3> QED BY <1>1, <2>1, <2>2, <2>3, <3>1, <3>2, PostedType
  <2>4. CASE call[s].customer # c
    BY <2>1, <2>2, <2>4 DEF IncCustomer
  <2> QED BY <2>3, <2>4
<1>4. Owed(c)' = Owed(c) /\ Owed(c) \in Int
  <2>1. \A u \in TxnIds : Entry(u, c)' = Entry(u, c)
    BY DEF IncCustomer, Entry
  <2> QED BY <2>1, OwedSame, OwedType
<1>5. /\ Unposted(c) \in Int /\ Unposted(c)' \in Int
      /\ Unposted(c)' - Unposted(c) = Posting(s, c)' - Posting(s, c)
  BY <1>1, UnpostedChange
<1> QED BY <1>2, <1>3, <1>4, <1>5 DEF Drift

\* A step that is neither a stale write nor a cut before posting keeps every drift.
LEMMA StepKeepsDrift ==
    ASSUME TypeOK, TypeOK', IdsInv, NEW s \in Sessions,
           Begin(s) \/ Advance(s) \/ Abort(s),
           NEW c \in DOMAIN customers, c \in DOMAIN customers',
           ~StaleWrite(s), ~CutShort(s)
    PROVE  Drift(c)' = Drift(c)
<1>i. Idle.pc = "idle"
  BY DEF Idle
<1>1. CASE Begin(s)
  <2> DEFINE Quiet == /\ \A r \in Sessions \ {s} : call'[r] = call[r]
                      /\ call[s].pc # "inc" /\ call'[s].pc # "inc"
                      /\ txns' = txns
                      /\ customers'[c].balance = customers[c].balance
  <2>1. Quiet
    <3>1. CASE AddCustomer(s)
      <4>1. c # nextCustomer
        BY DEF IdsInv, IdsGivenOut, TypeOK, CustomerIds
      <4> QED BY <3>1, <4>1 DEF AddCustomer, Insert
    <3>2. ASSUME NEW e, DeleteCustomer(s, e)
          PROVE  Quiet
      <4>1. [Idle EXCEPT !.pc = "purge", !.kind = "drop", !.customer = e].pc = "purge"
        BY DEF Idle
      <4> QED BY <3>2, <4>1 DEF DeleteCustomer, Restrict, TypeOK
    <3>3. ASSUME NEW e, RecalculateScore(s, e)
          PROVE  Quiet
      <4>1. [Idle EXCEPT !.pc = "score_customer", !.kind = "recalc",
                         !.customer = e].pc = "score_customer"
        BY DEF Idle
      <4> QED BY <3>3, <4>1 DEF RecalculateScore, TypeOK, database
    <3>4. ASSUME NEW e, NEW type, NEW a,
                 \/ AddTransaction(s, e, type, a)
                 \/ EditTransaction(s, e, a)
                 \/ DeleteTransaction(s, e)
          PROVE  Quiet
      BY <3>4 DEF AddTransaction, EditTransaction, DeleteTransaction, TypeOK, database
    <3> QED BY <1>1, <3>1, <3>2, <3>3, <3>4 DEF Begin
  <2>2. \A u \in TxnIds : Entry(u, c)' = Entry(u, c)
    BY <2>1 DEF Entry
  <2> QED BY <2>1, <2>2, QuietStepKeepsDrift
<1>2. CASE InsertTxn(s) \/ UpdateTxn(s) \/ RemoveTxn(s)
  BY <1>2, WriteKeepsDrift
<1>3. CASE IncCustomer(s)
  BY <1>3, IncKeepsDrift
<1>4. CASE PurgeTxns(s)
  <2>1. call[s].kind = "drop"
    BY <1>4 DEF PurgeTxns, TypeOK, Call
  <2>2. call[s].customer # c
    BY <2>1 DEF IdsInv, PurgedIsGone
  <2>3. \A u \in TxnIds : Entry(u, c)' = Entry(u, c)
    BY <1>4, <2>2 DEF PurgeTxns, Restrict, Entry
  <2>4. /\ \A r \in Sessions \ {s} : call'[r] = call[r]
        /\ call[s].pc # "inc" /\ call'[s].pc # "inc"
        /\ customers' = customers
    BY <1>4, <1>i DEF PurgeTxns, Return, TypeOK
  <2> QED BY <2>3, <2>4, QuietStepKeepsDrift
<1>5. CASE \/ ScoreNoCustomer(s) \/ ScoreReadBalance(s) \/ ScoreReadTxns(s)
           \/ ScoreSet(s) \/ Abort(s)
  <2>1. /\ \A r \in Sessions \ {s} : call'[r] = call[r]
        /\ call[s].pc # "inc" /\ call'[s].pc # "inc"
        /\ txns' = txns
    BY <1>5, <1>i DEF ScoreNoCustomer, ScoreReadBalance, ScoreReadTxns, ScoreSet,
                      Abort, CutShort, Return, Goto, TypeOK, Call, CallRecord, database
  <2>2. customers'[c].balance = customers[c].balance
    BY <1>5 DEF ScoreNoCustomer, ScoreReadBalance, ScoreReadTxns, ScoreSet,
                Abort, TypeOK, Customer, database
  <2>3. \A u \in TxnIds : Entry(u, c)' = Entry(u, c)
    BY <2>1 DEF Entry
  <2> QED BY <2>1, <2>2, <2>3, QuietStepKeepsDrift
<1> QED BY <1>1, <1>2, <1>3, <1>4, <1>5 DEF Advance

\* In the program as it is, whatever interleaves and whatever is cut short, the
\* books of a customer drift apart from the transactions only in a step that
\* writes over a stale read, or that cuts a call between writing a transaction
\* and posting it.
THEOREM DriftAlwaysHasACause == Spec => DriftHasACause
<1> DEFINE Caused == \A c \in DOMAIN customers :
                        c \in DOMAIN customers' /\ Drift(c)' # Drift(c)
                           => \E s \in Sessions : StaleWrite(s) \/ CutShort(s)
<1>1. ASSUME TypeOK, TypeOK', IdsInv, [Next]_vars
      PROVE  [Caused]_vars
  BY <1>1, StepKeepsDrift DEF Next
<1>2. Spec => [][Caused]_vars
  BY <1>1, IdsInvariant, PTL DEF Spec
<1> QED BY <1>2 DEF DriftHasACause

-----------------------------------------------------------------------------
(* The ledger used in an orderly way *)

\* What edit_transaction and delete_transaction have read is still there.
ReadIsCurrent ==
    \A s \in Sessions : Changing(s) =>
        /\ call[s].txn \in DOMAIN txns
        /\ txns[call[s].txn].amount = call[s].old

\* The customer add_transaction has found is still there.
AddFindsCustomer ==
    \A s \in Sessions : Adding(s) => call[s].customer \in DOMAIN customers

\* A transaction outlives its customer only while delete_customer is between its
\* two deletes.
NoOrphans ==
    \A t \in DOMAIN txns :
        \/ txns[t].customer \in DOMAIN customers
        \/ \E s \in Sessions : /\ call[s].pc = "purge"
                                /\ call[s].customer = txns[t].customer

OrderlyInv == OneCallPerTxn /\ ReadIsCurrent /\ AddFindsCustomer /\ NoOrphans

\* No clash and no cut is one way of using the ledger.
LEMMA OrderlyIsSpec == OrderlySpec => Spec
<1>1. [OrderlyNext]_vars => [Next]_vars
  BY DEF OrderlyNext, UncutNext, Next
<1> QED BY <1>1, PTL DEF OrderlySpec, Spec

\* The orderly invariant holds at the start.
LEMMA InitOrderly == Init => OrderlyInv
BY DEF Init, OrderlyInv, OneCallPerTxn, ReadIsCurrent, AddFindsCustomer, NoOrphans,
       Busy, Adding, Changing, Idle

\* A call that begins without a clash keeps the orderly invariant.
LEMMA OrderlyBegin ==
    ASSUME TypeOK, IdsInv, OrderlyInv, NEW s \in Sessions, Begin(s), OneCallPerTxn'
    PROVE  OrderlyInv'
<1> USE DEF OrderlyInv
<1>i. call[s].pc = "idle" /\ \A r \in Sessions \ {s} : call'[r] = call[r]
  BY DEF Begin, AddCustomer, AddTransaction, EditTransaction, DeleteTransaction,
         RecalculateScore, DeleteCustomer, TypeOK
<1>1. CASE AddCustomer(s)
  <2>1. DOMAIN customers' = DOMAIN customers \cup {nextCustomer} /\ UNCHANGED <<txns, call>>
    BY <1>1 DEF AddCustomer, Insert
  <2> QED BY <2>1 DEF ReadIsCurrent, AddFindsCustomer, NoOrphans, Adding, Changing
<1>2. ASSUME NEW c, NEW type, NEW a, AddTransaction(s, c, type, a)
      PROVE  OrderlyInv'
  <2>1. /\ UNCHANGED <<customers, txns>>
        /\ c \in DOMAIN customers
        /\ call'[s].customer = c /\ call'[s].kind = "add"
    BY <1>2 DEF AddTransaction, Finds, TypeOK
  <2> QED BY <1>i, <2>1 DEF ReadIsCurrent, AddFindsCustomer, NoOrphans, Adding, Changing
<1>3. ASSUME NEW t, NEW a, EditTransaction(s, t, a) \/ DeleteTransaction(s, t)
      PROVE  OrderlyInv'
  <2>1. /\ UNCHANGED <<customers, txns>>
        /\ t \in DOMAIN txns
        /\ call'[s].txn = t /\ call'[s].old = txns[t].amount
        /\ call'[s].kind \in {"edit", "delete"}
    BY <1>3 DEF EditTransaction, DeleteTransaction, Finds, TypeOK, database
  <2> QED BY <1>i, <2>1 DEF ReadIsCurrent, AddFindsCustomer, NoOrphans, Adding, Changing
<1>4. ASSUME NEW c, RecalculateScore(s, c)
      PROVE  OrderlyInv'
  <2>1. [Idle EXCEPT !.pc = "score_customer", !.kind = "recalc",
                     !.customer = c].pc = "score_customer"
    BY DEF Idle
  <2>2. UNCHANGED <<customers, txns>> /\ call'[s].pc = "score_customer"
    BY <1>4, <2>1 DEF RecalculateScore, TypeOK, database
  <2> QED BY <1>i, <2>2 DEF ReadIsCurrent, AddFindsCustomer, NoOrphans, Adding, Changing
<1>5. ASSUME NEW c, DeleteCustomer(s, c)
      PROVE  OrderlyInv'
  <2>1. /\ [Idle EXCEPT !.pc = "purge", !.kind = "drop", !.customer = c].pc = "purge"
        /\ [Idle EXCEPT !.pc = "purge", !.kind = "drop", !.customer = c].kind = "drop"
        /\ [Idle EXCEPT !.pc = "purge", !.kind = "drop", !.customer = c].customer = c
    BY DEF Idle
  <2>2. /\ txns' = txns
        /\ DOMAIN customers' = DOMAIN customers \ {c}
        /\ call'[s].pc = "purge" /\ call'[s].kind = "drop" /\ call'[s].customer = c
    BY <1>5, <2>1 DEF DeleteCustomer, Restrict, TypeOK
  <2>3. AddFindsCustomer'
    <3> SUFFICES ASSUME NEW r \in Sessions, Adding(r)'
                 PROVE  call'[r].customer \in DOMAIN customers'
      BY DEF AddFindsCustomer
    <3>1. r # s /\ Adding(r) /\ call'[r] = call[r]
      BY <1>i, <2>2 DEF Adding
    <3>2. call'[r].customer # c
      BY <2>2, <3>1 DEF OneCallPerTxn, Clash, Busy, Adding
    <3> QED BY <2>2, <3>1, <3>2 DEF AddFindsCustomer
  <2>4. ReadIsCurrent'
    BY <1>i, <2>2 DEF ReadIsCurrent, Changing
  <2>5. NoOrphans'
    BY <1>i, <2>2 DEF NoOrphans
  <2> QED BY <2>3, <2>4, <2>5
<1> QED BY <1>1, <1>2, <1>3, <1>4, <1>5 DEF Begin

\* A statement of a call in progress keeps the orderly invariant.
LEMMA OrderlyAdvance ==
    ASSUME TypeOK, IdsInv, OrderlyInv, NEW s \in Sessions, Advance(s), OneCallPerTxn'
    PROVE  OrderlyInv'
<1> USE DEF OrderlyInv
<1>i. /\ Idle.pc = "idle"
      /\ \A r \in Sessions \ {s} : call'[r] = call[r]
      /\ Busy(s)
  BY DEF Advance, InsertTxn, UpdateTxn, RemoveTxn, IncCustomer, ScoreNoCustomer,
         ScoreReadBalance, ScoreReadTxns, ScoreSet, PurgeTxns, Goto, Return, Idle,
         TypeOK, Busy
<1>c. DOMAIN customers' = DOMAIN customers
  BY DEF Advance, InsertTxn, UpdateTxn, RemoveTxn, IncCustomer, ScoreNoCustomer,
         ScoreReadBalance, ScoreReadTxns, ScoreSet, PurgeTxns, database
<1>p. call'[s].pc # "write"
  BY <1>i DEF Advance, InsertTxn, UpdateTxn, RemoveTxn, IncCustomer, ScoreNoCustomer,
         ScoreReadBalance, ScoreReadTxns, ScoreSet, PurgeTxns, Goto, Return, TypeOK,
         Call, CallRecord
<1>1. AddFindsCustomer'
  BY <1>i, <1>c, <1>p DEF AddFindsCustomer, Adding
<1>2. ReadIsCurrent'
  <2> SUFFICES ASSUME NEW r \in Sessions, Changing(r)'
               PROVE  /\ call'[r].txn \in DOMAIN txns'
                      /\ txns'[call'[r].txn].amount = call'[r].old
    BY DEF ReadIsCurrent
  <2>1. r # s /\ Changing(r) /\ call'[r] = call[r] /\ Busy(r)
    BY <1>i, <1>p DEF Changing, Busy
  <2> DEFINE t == call[r].txn
  <2>2. t \in DOMAIN txns /\ txns[t].amount = call[r].old
        /\ txns[t].customer = call[r].customer /\ t # 0
    BY <2>1 DEF ReadIsCurrent, IdsInv, FixedFieldsKnown, TypeOK, TxnIds
  <2>3. call[s].txn # t
    BY <1>i, <2>1, <2>2 DEF OneCallPerTxn, Clash
  <2>4. call[s].kind = "drop" => call[s].customer # call[r].customer
    BY <1>i, <2>1 DEF OneCallPerTxn, Clash
  <2>5. t \in DOMAIN txns' /\ txns'[t].amount = txns[t].amount
    <3>1. CASE InsertTxn(s)
      BY <2>2, <2>3, <3>1 DEF InsertTxn, Insert
    <3>2. CASE UpdateTxn(s) \/ RemoveTxn(s)
      BY <2>2, <2>3, <3>2 DEF UpdateTxn, RemoveTxn, Restrict
    <3>3. CASE PurgeTxns(s)
      <4>1. call[s].kind = "drop"
        BY <3>3 DEF PurgeTxns, TypeOK, Call
      <4> QED BY <2>2, <2>4, <3>3, <4>1 DEF PurgeTxns, Restrict
    <3>4. CASE UNCHANGED txns
      BY <2>2, <3>4
    <3> QED
      BY <3>1, <3>2, <3>3, <3>4 DEF Advance, IncCustomer, ScoreNoCustomer,
         ScoreReadBalance, ScoreReadTxns, ScoreSet, database
  <2> QED BY <2>1, <2>2, <2>5
<1>3. NoOrphans'
  <2> SUFFICES ASSUME NEW t \in DOMAIN txns', txns'[t].customer \notin DOMAIN customers'
               PROVE  \E r \in Sessions : /\ call'[r].pc = "purge"
                                          /\ call'[r].customer = txns'[t].customer
    BY DEF NoOrphans
  <2>1. t \in DOMAIN txns /\ txns'[t].customer = txns[t].customer
    <3>1. CASE InsertTxn(s)
      <4>1. call[s].customer \in DOMAIN customers
        BY <3>1 DEF InsertTxn, Adding, AddFindsCustomer
      <4> QED BY <1>c, <3>1, <4>1 DEF InsertTxn, Insert
    <3>2. CASE UpdateTxn(s) \/ RemoveTxn(s) \/ PurgeTxns(s)
      BY <3>2 DEF UpdateTxn, RemoveTxn, PurgeTxns, Restrict, TypeOK, Txn
    <3>3. CASE UNCHANGED txns
      BY <3>3
    <3> QED
      BY <3>1, <3>2, <3>3 DEF Advance, IncCustomer, ScoreNoCustomer,
         ScoreReadBalance, ScoreReadTxns, ScoreSet, database
  <2>2. PICK r \in Sessions : call[r].pc = "purge" /\ call[r].customer = txns[t].customer
    BY <1>c, <2>1 DEF NoOrphans
  <2>3. r # s
    <3>1. SUFFICES ASSUME r = s PROVE FALSE
      OBVIOUS
    <3>2. PurgeTxns(s)
      BY <2>2, <3>1 DEF Advance, InsertTxn, UpdateTxn, RemoveTxn, IncCustomer,
         ScoreNoCustomer, ScoreReadBalance, ScoreReadTxns, ScoreSet
    <3> QED BY <2>1, <2>2, <3>1, <3>2 DEF PurgeTxns, Restrict
  <2> QED BY <1>i, <2>1, <2>2, <2>3
<1> QED BY <1>1, <1>2, <1>3

\* Without clashes and cuts, what a call has read is still there when it writes.
LEMMA OrderlyInvariant == OrderlySpec => [](TypeOK /\ IdsInv /\ OrderlyInv)
<1>1. ASSUME TypeOK, IdsInv, OrderlyInv, [OrderlyNext]_vars
      PROVE  OrderlyInv'
  <2>1. CASE UNCHANGED vars
    BY <1>1, <2>1 DEF vars, OrderlyInv, OneCallPerTxn, ReadIsCurrent,
                      AddFindsCustomer, NoOrphans, Clash, Busy, Adding, Changing
  <2> QED BY <1>1, <2>1, OrderlyBegin, OrderlyAdvance DEF OrderlyNext, UncutNext
<1> QED BY <1>1, InitOrderly, IdsInvariant, OrderlyIsSpec, PTL DEF OrderlySpec

\* Used in an orderly way, the ledger's stored balances are what the stored
\* transactions add up to, but for the changes still to be posted.
THEOREM OrderlyBooksBalance == OrderlySpec => []BooksBalance
<1>1. Init => BooksBalance
  BY DEF Init, BooksBalance
<1>2. ASSUME TypeOK, TypeOK', IdsInv, IdsInv', OrderlyInv, BooksBalance,
             [OrderlyNext]_vars
      PROVE  BooksBalance'
  <2>1. CASE UNCHANGED vars
    BY <1>2, <2>1 DEF vars, BooksBalance, Drift, Owed, Unposted, Entries, Entry, Posting
  <2>2. ASSUME NEW s \in Sessions, Begin(s) \/ Advance(s), NEW c \in DOMAIN customers'
        PROVE  Drift(c)' = 0
    <3>1. CASE c \in DOMAIN customers
      <4>1. ~CutShort(s)
        <5>1. CASE call[s].pc = "inc"
          <6>1. IncCustomer(s)
            BY <2>2, <5>1
               DEF Begin, AddCustomer, AddTransaction, EditTransaction,
                   DeleteTransaction, RecalculateScore, DeleteCustomer, Advance,
                   InsertTxn, UpdateTxn, RemoveTxn, ScoreNoCustomer,
                   ScoreReadBalance, ScoreReadTxns, ScoreSet, PurgeTxns
          <6> QED BY <1>2, <6>1 DEF IncCustomer, Goto, CutShort, TypeOK
        <5>2. CASE call[s].pc # "inc"
          BY <5>2 DEF CutShort
        <5> QED BY <5>1, <5>2
      <4>2. ~StaleWrite(s)
        BY <1>2 DEF StaleWrite, OrderlyInv, ReadIsCurrent, Changing
      <4>3. Drift(c)' = Drift(c)
        BY <1>2, <2>2, <3>1, <4>1, <4>2, StepKeepsDrift
      <4> QED BY <1>2, <3>1, <4>3 DEF BooksBalance
    <3>2. CASE c \notin DOMAIN customers
      <4>1. AddCustomer(s) /\ c = nextCustomer
        BY <2>2, <3>2
           DEF Begin, AddCustomer, AddTransaction, EditTransaction,
               DeleteTransaction, RecalculateScore, DeleteCustomer, Advance,
               InsertTxn, UpdateTxn, RemoveTxn, IncCustomer, ScoreNoCustomer,
               ScoreReadBalance, ScoreReadTxns, ScoreSet, PurgeTxns, database,
               Insert, Restrict
      <4>2. /\ customers'[c].balance = 0
            /\ UNCHANGED <<txns, call>>
        BY <4>1 DEF AddCustomer, Insert
      <4>3. /\ \A t \in DOMAIN txns : txns[t].customer # c
            /\ \A r \in Sessions : call[r].customer # c
        BY <1>2, <4>1 DEF IdsInv, IdsGivenOut, TypeOK, CustomerIds, Txn, Call, CallRecord
      <4>4. Owed(c)' = 0
        <5>1. \A t \in TxnIds : Entry(t, c)' = 0
          BY <4>2, <4>3 DEF Entry
        <5>2. Entries(c)' = [t \in TxnIds |-> 0]
          BY <5>1 DEF Entries
        <5>3. SumFunction([t \in TxnIds |-> 0]) = 0
          <6>1. IsFiniteSet(TxnIds)
            BY FS_Interval, LedgerAssumption DEF TxnIds, LedgerAssumption
          <6> QED BY <6>1, SumZero
        <5> QED BY <5>2, <5>3 DEF Owed
      <4>5. Unposted(c)' = 0
        <5>1. \A r \in Sessions : Posting(r, c)' = 0
          BY <4>2, <4>3 DEF Posting
        <5>2. Unposted(c)' = SumFunction([r \in Sessions |-> 0])
          BY <5>1 DEF Unposted
        <5>3. SumFunction([r \in Sessions |-> 0]) = 0
          BY SumZero, LedgerAssumption DEF LedgerAssumption
        <5> QED BY <5>2, <5>3
      <4> QED BY <4>2, <4>4, <4>5 DEF Drift
    <3> QED BY <3>1, <3>2
  <2> QED BY <1>2, <2>1, <2>2 DEF OrderlyNext, UncutNext, BooksBalance
<1> QED BY <1>1, <1>2, OrderlyInvariant, PTL DEF OrderlySpec

\* What the program as it is does not give: in orderly use, whenever no call is in
\* progress every stored balance is exactly the sum of the stored transactions.
THEOREM OrderlyQuietBooksBalance == OrderlySpec => []QuietBooksBalance
<1>1. TypeOK /\ BooksBalance => QuietBooksBalance
  <2> SUFFICES ASSUME TypeOK, BooksBalance, \A s \in Sessions : ~Busy(s),
                      NEW c \in DOMAIN customers
               PROVE  customers[c].balance = Owed(c)
    BY DEF QuietBooksBalance
  <2>1. \A s \in Sessions : Posting(s, c) = 0
    BY DEF Posting, Busy
  <2>2. [s \in Sessions |-> Posting(s, c)] = [s \in Sessions |-> 0]
    BY <2>1
  <2>3. SumFunction([s \in Sessions |-> 0]) = 0
    BY SumZero, LedgerAssumption DEF LedgerAssumption
  <2>4. Unposted(c) = 0
    BY <2>2, <2>3 DEF Unposted
  <2>5. customers[c].balance \in Int /\ Owed(c) \in Int
    BY OwedType DEF TypeOK, Customer
  <2> QED BY <2>4, <2>5 DEF BooksBalance, Drift
<1> QED BY <1>1, OrderlyInvariant, OrderlyBooksBalance, PTL

-----------------------------------------------------------------------------
(* Whose documents are whose *)

\* Function o says whose every customer is, or was: its document, its transactions
\* and the calls about it are all the same merchant's.
OwnedBy(o) ==
    /\ \A c \in DOMAIN customers : customers[c].merchant = o[c]
    /\ \A t \in DOMAIN txns : txns[t].merchant = o[txns[t].customer]
    /\ \A s \in Sessions : call[s].customer # 0 => o[call[s].customer] = LoggedInAs[s]

Owned == \E o : OwnedBy(o)

\* A step in which session s goes on with its call, or ends it, and which neither
\* makes a document nor changes whose it is.
LEMMA OwnedKept ==
    ASSUME NEW o, OwnedBy(o), NEW s \in Sessions,
           \A r \in Sessions \ {s} : call'[r] = call[r],
           call'[s].customer \in {0, call[s].customer},
           \A c \in DOMAIN customers' : /\ c \in DOMAIN customers
                                        /\ customers'[c].merchant = customers[c].merchant,
           \A t \in DOMAIN txns' : /\ t \in DOMAIN txns
                                   /\ txns'[t].customer = txns[t].customer
                                   /\ txns'[t].merchant = txns[t].merchant
    PROVE  OwnedBy(o)'
BY DEF OwnedBy

\* A call that begins is about documents of its session's merchant.
LEMMA BeginOwned ==
    ASSUME TypeOK, IdsInv, NEW o, OwnedBy(o), NEW s \in Sessions, Begin(s)
    PROVE  Owned'
<1>0. /\ nextCustomer \in Nat \ {0}
      /\ \A c \in DOMAIN customers : c \in Nat /\ c < nextCustomer
      /\ \A t \in DOMAIN txns : txns[t].customer \in Nat /\ txns[t].customer < nextCustomer
      /\ \A r \in Sessions : call[r].customer \in Nat /\ call[r].customer < nextCustomer
  BY LedgerAssumption
     DEF TypeOK, LedgerAssumption, IdsInv, IdsGivenOut, CustomerIds, Call, CallRecord, Txn
<1>1. CASE AddCustomer(s)
  <2> DEFINE q == [c \in 0..nextCustomer |-> IF c = nextCustomer THEN LoggedInAs[s] ELSE o[c]]
  <2>1. q[nextCustomer] = LoggedInAs[s] /\ \A c \in Nat : c < nextCustomer => q[c] = o[c]
    BY <1>0
  <2>2. /\ DOMAIN customers' = DOMAIN customers \cup {nextCustomer}
        /\ customers'[nextCustomer].merchant = LoggedInAs[s]
        /\ \A c \in DOMAIN customers : c # nextCustomer => customers'[c] = customers[c]
        /\ UNCHANGED <<txns, call>>
    BY <1>1 DEF AddCustomer, Insert
  <2> HIDE DEF q
  <2>3. \A c \in DOMAIN customers' : customers'[c].merchant = q[c]
    BY <1>0, <2>1, <2>2 DEF OwnedBy
  <2>4. \A t \in DOMAIN txns' : txns'[t].merchant = q[txns'[t].customer]
    BY <1>0, <2>1, <2>2 DEF OwnedBy
  <2>5. \A r \in Sessions : call'[r].customer # 0 => q[call'[r].customer] = LoggedInAs[r]
    BY <1>0, <2>1, <2>2 DEF OwnedBy
  <2> QED BY <2>3, <2>4, <2>5 DEF Owned, OwnedBy
<1>2. ASSUME NEW c \in CustomerIds, NEW type \in TxnTypes, NEW a \in Amounts,
             AddTransaction(s, c, type, a)
      PROVE  Owned'
  <2>1. /\ c \in DOMAIN customers /\ customers[c].merchant = LoggedInAs[s]
        /\ call'[s].customer = c
        /\ \A r \in Sessions \ {s} : call'[r] = call[r]
        /\ UNCHANGED <<customers, txns>>
    BY <1>2 DEF AddTransaction, Finds, TypeOK
  <2>2. OwnedBy(o)'
    BY <2>1 DEF OwnedBy
  <2> QED BY <2>2 DEF Owned
<1>3. ASSUME NEW t \in TxnIds,
             \/ \E a \in Amounts : EditTransaction(s, t, a)
             \/ DeleteTransaction(s, t)
      PROVE  Owned'
  <2>1. /\ t \in DOMAIN txns /\ txns[t].merchant = LoggedInAs[s]
        /\ call'[s].customer = txns[t].customer
        /\ \A r \in Sessions \ {s} : call'[r] = call[r]
        /\ UNCHANGED <<customers, txns>>
    BY <1>3 DEF EditTransaction, DeleteTransaction, Finds, TypeOK, database
  <2>2. OwnedBy(o)'
    BY <2>1 DEF OwnedBy
  <2> QED BY <2>2 DEF Owned
<1>4. ASSUME NEW c \in CustomerIds, RecalculateScore(s, c) \/ DeleteCustomer(s, c)
      PROVE  Owned'
  <2>1. /\ c \in DOMAIN customers /\ customers[c].merchant = LoggedInAs[s]
        /\ \A r \in Sessions \ {s} : call'[r] = call[r]
        /\ \A d \in DOMAIN customers' : d \in DOMAIN customers /\ customers'[d] = customers[d]
        /\ txns' = txns
    BY <1>4 DEF RecalculateScore, DeleteCustomer, Finds, Restrict, TypeOK, database
  <2>2. call'[s].customer = c
    <3>1. \A k \in {[Idle EXCEPT !.pc = "score_customer", !.kind = "recalc", !.customer = c],
                    [Idle EXCEPT !.pc = "purge", !.kind = "drop", !.customer = c]} :
             k.customer = c
      BY DEF Idle
    <3> QED BY <1>4, <3>1 DEF RecalculateScore, DeleteCustomer, TypeOK
  <2>3. OwnedBy(o)'
    BY <2>1, <2>2 DEF OwnedBy
  <2> QED BY <2>3 DEF Owned
<1> QED BY <1>1, <1>2, <1>3, <1>4 DEF Begin

\* A call that goes on keeps documents whose they are.
LEMMA AdvanceOwned ==
    ASSUME TypeOK, IdsInv, NEW o, OwnedBy(o), NEW s \in Sessions, Advance(s) \/ Abort(s)
    PROVE  OwnedBy(o)'
<1>1. /\ \A r \in Sessions \ {s} : call'[r] = call[r]
      /\ call'[s].customer \in {0, call[s].customer}
  BY DEF Advance, Abort, InsertTxn, UpdateTxn, RemoveTxn, IncCustomer, ScoreNoCustomer,
     ScoreReadBalance, ScoreReadTxns, ScoreSet, PurgeTxns, Return, Goto, Idle, TypeOK,
     Call, CallRecord
<1>2. \A c \in DOMAIN customers' : /\ c \in DOMAIN customers
                                   /\ customers'[c].merchant = customers[c].merchant
  BY DEF Advance, Abort, InsertTxn, UpdateTxn, RemoveTxn, IncCustomer, ScoreNoCustomer,
     ScoreReadBalance, ScoreReadTxns, ScoreSet, PurgeTxns, Posted, TypeOK, Customer, database
<1>3. CASE InsertTxn(s)
  <2> DEFINE t == call[s].txn
  <2>1. /\ DOMAIN txns' = DOMAIN txns \cup {t}
        /\ txns'[t].customer = call[s].customer /\ txns'[t].merchant = LoggedInAs[s]
        /\ \A u \in DOMAIN txns : u # t => txns'[u] = txns[u]
    BY <1>3 DEF InsertTxn, Insert
  <2>2. call[s].customer # 0
    BY <1>3 DEF InsertTxn, TypeOK, Call, TxnCalls
  <2> QED BY <1>1, <1>2, <2>1, <2>2 DEF OwnedBy
<1>4. CASE ~InsertTxn(s)
  <2>1. \A t \in DOMAIN txns' : /\ t \in DOMAIN txns
                                /\ txns'[t].customer = txns[t].customer
                                /\ txns'[t].merchant = txns[t].merchant
    BY <1>4 DEF Advance, Abort, UpdateTxn, RemoveTxn, IncCustomer, ScoreNoCustomer,
       ScoreReadBalance, ScoreReadTxns, ScoreSet, PurgeTxns, Restrict, TypeOK, Txn, database
  <2> QED BY <1>1, <1>2, <2>1, OwnedKept
<1> QED BY <1>3, <1>4

\* What a moving call leaves of documents that are not its merchant's: all of them
LEMMA StepSparesOthers ==
    ASSUME TypeOK, IdsInv, NEW o, OwnedBy(o), NEW s \in Sessions,
           Begin(s) \/ Advance(s) \/ Abort(s), call'[s] # call[s]
    PROVE  /\ \A c \in DOMAIN customers :
                 customers[c].merchant # LoggedInAs[s] =>
                     c \in DOMAIN customers' /\ customers'[c] = customers[c]
           /\ \A t \in DOMAIN txns :
                 txns[t].merchant # LoggedInAs[s] =>
                     t \in DOMAIN txns' /\ txns'[t] = txns[t]
<1> DEFINE k == call[s]
<1>0. /\ \A c \in DOMAIN customers : c = k.customer => customers[c].merchant = LoggedInAs[s]
      /\ \A t \in DOMAIN txns :
            txns[t].customer = k.customer => txns[t].merchant = LoggedInAs[s]
  BY DEF OwnedBy, TypeOK, CustomerIds, Txn
<1>1. ASSUME NEW c \in CustomerIds, DeleteCustomer(s, c)
      PROVE  /\ txns' = txns
             /\ \A d \in DOMAIN customers :
                   customers[d].merchant # LoggedInAs[s] =>
                       d \in DOMAIN customers' /\ customers'[d] = customers[d]
  BY <1>1 DEF DeleteCustomer, Finds, Restrict
<1>2. CASE Begin(s)
  <2>1. \/ UNCHANGED <<customers, txns>>
        \/ \E c \in CustomerIds : DeleteCustomer(s, c)
    BY <1>2 DEF Begin, AddCustomer, AddTransaction, EditTransaction, DeleteTransaction,
       RecalculateScore, database
  <2> QED BY <1>1, <2>1
<1>3. CASE InsertTxn(s)
  <2>1. call[s].txn \notin DOMAIN txns
    BY <1>3 DEF InsertTxn, IdsInv, NewIdIsFresh, Adding
  <2> QED BY <1>3, <2>1 DEF InsertTxn, Insert
<1>4. CASE UpdateTxn(s) \/ RemoveTxn(s)
  <2>1. customers' = customers
    BY <1>4 DEF UpdateTxn, RemoveTxn
  <2>2. \A t \in DOMAIN txns : t # k.txn => t \in DOMAIN txns' /\ txns'[t] = txns[t]
    BY <1>4 DEF UpdateTxn, RemoveTxn, Restrict
  <2>3. k.txn \in DOMAIN txns => txns[k.txn].customer = k.customer
    BY <1>4 DEF UpdateTxn, RemoveTxn, IdsInv, FixedFieldsKnown, Changing
  <2> QED BY <1>0, <2>1, <2>2, <2>3
<1>5. CASE IncCustomer(s) \/ ScoreSet(s)
  <2>1. txns' = txns
    BY <1>5 DEF IncCustomer, ScoreSet
  <2>2. \A c \in DOMAIN customers :
           c # k.customer => c \in DOMAIN customers' /\ customers'[c] = customers[c]
    BY <1>5 DEF IncCustomer, ScoreSet
  <2> QED BY <1>0, <2>1, <2>2
<1>6. CASE PurgeTxns(s)
  <2>1. customers' = customers
    BY <1>6 DEF PurgeTxns
  <2>2. \A t \in DOMAIN txns :
           txns[t].customer # k.customer => t \in DOMAIN txns' /\ txns'[t] = txns[t]
    BY <1>6 DEF PurgeTxns, Restrict
  <2> QED BY <1>0, <2>1, <2>2
<1>7. CASE \/ ScoreNoCustomer(s) \/ ScoreReadBalance(s) \/ ScoreReadTxns(s) \/ Abort(s)
  BY <1>7 DEF ScoreNoCustomer, ScoreReadBalance, ScoreReadTxns, Abort, database
<1> QED BY <1>2, <1>3, <1>4, <1>5, <1>6, <1>7 DEF Advance

\* Documents stay of one merchant, with the calls about them, in every interleaving.
LEMMA OwnedInvariant == Spec => []Owned
<1>1. Init => Owned
  <2> SUFFICES ASSUME Init PROVE OwnedBy([c \in CustomerIds |-> 0])
    BY DEF Owned
  <2> QED BY DEF Init, OwnedBy, Idle
<1>2. ASSUME TypeOK, IdsInv, Owned, [Next]_vars
      PROVE  Owned'
  <2>1. PICK o : OwnedBy(o)
    BY <1>2 DEF Owned
  <2>2. CASE UNCHANGED vars
    <3>1. OwnedBy(o)'
      BY <2>1, <2>2 DEF vars, OwnedBy
    <3> QED BY <3>1 DEF Owned
  <2>3. ASSUME NEW s \in Sessions, Advance(s) \/ Abort(s)
        PROVE  Owned'
    <3>1. OwnedBy(o)'
      BY <1>2, <2>1, <2>3, AdvanceOwned
    <3> QED BY <3>1 DEF Owned
  <2> QED BY <1>2, <2>1, <2>2, <2>3, BeginOwned DEF Next
<1> QED BY <1>1, <1>2, IdsInvariant, PTL DEF Spec

\* Sessions change and delete documents of their own merchant only, although most
\* writes go by _id alone, whatever interleaves or is cut short.
THEOREM SessionsKeepToTheirOwn == Spec => OwnDocumentsOnly
<1> DEFINE Sparing == \A s \in Sessions : call'[s] # call[s] =>
                         /\ \A c \in DOMAIN customers :
                               customers[c].merchant # LoggedInAs[s] =>
                                   c \in DOMAIN customers' /\ customers'[c] = customers[c]
                         /\ \A t \in DOMAIN txns :
                               txns[t].merchant # LoggedInAs[s] =>
                                   t \in DOMAIN txns' /\ txns'[t] = txns[t]
<1>1. ASSUME TypeOK, IdsInv, Owned, [Next]_vars
      PROVE  [Sparing]_vars
  <2>1. PICK o : OwnedBy(o)
    BY <1>1 DEF Owned
  <2>2. ASSUME NEW q \in Sessions, Begin(q) \/ Advance(q) \/ Abort(q)
        PROVE  Sparing
    <3>1. \A r \in Sessions \ {q} : call'[r] = call[r]
      BY <1>1, <2>2
         DEF Begin, AddCustomer, AddTransaction, EditTransaction, DeleteTransaction,
             RecalculateScore, DeleteCustomer, Advance, Abort, InsertTxn, UpdateTxn,
             RemoveTxn, IncCustomer, ScoreNoCustomer, ScoreReadBalance, ScoreReadTxns,
             ScoreSet, PurgeTxns, Return, Goto, TypeOK
    <3> QED BY <1>1, <2>1, <2>2, <3>1, StepSparesOthers
  <2> QED BY <1>1, <2>2 DEF Next
<1>2. Spec => [][Sparing]_vars
  BY <1>1, IdsInvariant, OwnedInvariant, PTL DEF Spec
<1> QED BY <1>2 DEF OwnDocumentsOnly

-----------------------------------------------------------------------------
(* How a transaction comes to outlive its customer *)

\* A step of one session leaves the locals of the others alone.
LEMMA OthersWait ==
    ASSUME TypeOK, NEW s \in Sessions, Begin(s) \/ Advance(s) \/ Abort(s),
           NEW r \in Sessions \ {s}
    PROVE  call'[r] = call[r] /\ seen'[r] = seen[r]
BY DEF Begin, AddCustomer, AddTransaction, EditTransaction, DeleteTransaction,
       RecalculateScore, DeleteCustomer, Advance, InsertTxn, UpdateTxn, RemoveTxn,
       IncCustomer, ScoreNoCustomer, ScoreReadBalance, ScoreReadTxns, ScoreSet,
       PurgeTxns, Abort, Return, Goto, TypeOK

\* A transaction that strays was inserted too late, or left there by a deletion
\* cut short.
LEMMA StepStrays ==
    ASSUME TypeOK, IdsInv, NEW s \in Sessions, Begin(s) \/ Advance(s) \/ Abort(s),
           NEW t \in TxnIds, ~Stray(t), Stray(t)'
    PROVE  \E r \in Sessions : LateInsert(r, t) \/ PurgeCut(r, t)
<1>1. CASE t \notin DOMAIN txns
  <2>1. t \in DOMAIN txns' /\ txns'[t].customer \notin DOMAIN customers'
    BY DEF Stray
  <2>2. InsertTxn(s) /\ call[s].txn = t
    BY <1>1, <2>1 DEF Begin, AddCustomer, AddTransaction, EditTransaction,
       DeleteTransaction, RecalculateScore, DeleteCustomer, Advance, InsertTxn, Insert,
       UpdateTxn, RemoveTxn, IncCustomer, ScoreNoCustomer, ScoreReadBalance,
       ScoreReadTxns, ScoreSet, PurgeTxns, Restrict, Abort, database
  <2>3. txns'[t].customer = call[s].customer /\ customers' = customers
    BY <2>2 DEF InsertTxn, Insert
  <2>4. call'[s].pc = "inc"
    BY <2>2 DEF InsertTxn, Goto, TypeOK, Call, CallRecord
  <2>5. LateInsert(s, t)
    BY <2>1, <2>2, <2>3, <2>4 DEF LateInsert, InsertTxn
  <2> QED BY <2>5
<1>2. CASE t \in DOMAIN txns
  <2>1. PICK c \in CustomerIds : c = txns[t].customer
    BY <1>2 DEF TypeOK, Txn
  <2>2. txns'[t].customer = c
    <3>1. CASE InsertTxn(s)
      <4>1. call[s].txn # t
        BY <1>2, <3>1 DEF InsertTxn, IdsInv, NewIdIsFresh, Adding
      <4> QED BY <1>2, <2>1, <3>1, <4>1 DEF InsertTxn, Insert
    <3>2. CASE UpdateTxn(s) \/ RemoveTxn(s) \/ PurgeTxns(s)
      BY <1>2, <2>1, <3>2
         DEF UpdateTxn, RemoveTxn, PurgeTxns, Restrict, Stray, TypeOK, Txn
    <3>3. CASE UNCHANGED txns
      BY <2>1, <3>3
    <3> QED BY <3>1, <3>2, <3>3 DEF Begin, AddCustomer, AddTransaction,
               EditTransaction, DeleteTransaction, RecalculateScore, DeleteCustomer,
               Advance, IncCustomer, ScoreNoCustomer, ScoreReadBalance, ScoreReadTxns,
               ScoreSet, Abort, database
  <2>3. /\ t \in DOMAIN txns' /\ c \notin DOMAIN customers'
        /\ \A r \in Sessions : ~(call'[r].pc = "purge" /\ call'[r].customer = c)
    BY <2>2 DEF Stray
  <2>4. c \notin DOMAIN customers
    <3> SUFFICES ASSUME c \in DOMAIN customers PROVE FALSE
      OBVIOUS
    <3>1. PICK d \in CustomerIds : DeleteCustomer(s, d) /\ d = c
      BY <2>3 DEF Begin, AddCustomer, Insert, AddTransaction, EditTransaction,
         DeleteTransaction, RecalculateScore, DeleteCustomer, Restrict, Advance,
         InsertTxn, UpdateTxn, RemoveTxn, IncCustomer, ScoreNoCustomer,
         ScoreReadBalance, ScoreReadTxns, ScoreSet, PurgeTxns, Abort, database
    <3>2. /\ [Idle EXCEPT !.pc = "purge", !.kind = "drop", !.customer = d].pc = "purge"
          /\ [Idle EXCEPT !.pc = "purge", !.kind = "drop", !.customer = d].customer = d
      BY DEF Idle
    <3> QED BY <2>3, <3>1, <3>2 DEF DeleteCustomer, TypeOK
  <2>5. PICK r \in Sessions : call[r].pc = "purge" /\ call[r].customer = c
    BY <1>2, <2>1, <2>4 DEF Stray
  <2>6. r = s
    BY <2>3, <2>5, OthersWait
  <2>7. ~PurgeTxns(s)
    BY <2>1, <2>3, <2>5, <2>6 DEF PurgeTxns, Restrict
  <2>8. Abort(s)
    BY <2>5, <2>6, <2>7 DEF Begin, AddCustomer, AddTransaction, EditTransaction,
       DeleteTransaction, RecalculateScore, DeleteCustomer, Advance, InsertTxn,
       UpdateTxn, RemoveTxn, IncCustomer, ScoreNoCustomer, ScoreReadBalance,
       ScoreReadTxns, ScoreSet
  <2>9. call'[s].pc = "idle" /\ UNCHANGED txns
    BY <2>8 DEF Abort, Return, Idle, TypeOK, database
  <2> QED BY <2>1, <2>5, <2>6, <2>9 DEF PurgeCut
<1> QED BY <1>1, <1>2

\* In every use of the ledger, with races and cuts, a transaction outlives its customer
\* only by an insertion after the deletion or by a deletion cut short.
THEOREM OrphansAlwaysHaveACause == Spec => OrphansHaveACause
<1> DEFINE HasACause ==
      \A t \in TxnIds : ~Stray(t) /\ Stray(t)' =>
          \E s \in Sessions : LateInsert(s, t) \/ PurgeCut(s, t)
<1>1. TypeOK /\ IdsInv /\ [Next]_vars => [HasACause]_vars
  BY StepStrays DEF Next
<1> QED BY <1>1, IdsInvariant, PTL DEF Spec, OrphansHaveACause

-----------------------------------------------------------------------------
(* How a stored score comes to be left behind *)

\* A call that goes on leaves the transactions of other accounts as they are.
LEMMA AdvanceSparesEntries ==
    ASSUME TypeOK, IdsInv, NEW s \in Sessions, Advance(s), NEW c \in CustomerIds,
           call[s].customer # c, NEW t \in TxnIds
    PROVE  Entry(t, c)' = Entry(t, c)
<1>1. CASE InsertTxn(s)
  <2>1. call[s].txn \notin DOMAIN txns
    BY <1>1 DEF InsertTxn, IdsInv, NewIdIsFresh, Adding
  <2> QED BY <1>1, <2>1 DEF InsertTxn, Insert, Entry
<1>2. CASE UpdateTxn(s)
  <2>1. call[s].txn \in DOMAIN txns => txns[call[s].txn].customer = call[s].customer
    BY <1>2 DEF UpdateTxn, IdsInv, FixedFieldsKnown, Changing
  <2>2. /\ DOMAIN txns' = DOMAIN txns
        /\ \A u \in DOMAIN txns : /\ txns'[u].customer = txns[u].customer
                                  /\ u # call[s].txn => txns'[u] = txns[u]
    BY <1>2 DEF UpdateTxn, TypeOK, Txn
  <2> QED BY <2>1, <2>2 DEF Entry
<1>3. CASE RemoveTxn(s)
  <2>1. call[s].txn \in DOMAIN txns => txns[call[s].txn].customer = call[s].customer
    BY <1>3 DEF RemoveTxn, IdsInv, FixedFieldsKnown, Changing
  <2> QED BY <1>3, <2>1 DEF RemoveTxn, Restrict, Entry
<1>4. CASE PurgeTxns(s)
  BY <1>4 DEF PurgeTxns, Restrict, Entry
<1>5. CASE IncCustomer(s) \/ ScoreNoCustomer(s) \/ ScoreReadBalance(s)
           \/ ScoreReadTxns(s) \/ ScoreSet(s)
  BY <1>5 DEF IncCustomer, ScoreNoCustomer, ScoreReadBalance, ScoreReadTxns, ScoreSet,
     database, Entry
<1> QED BY <1>1, <1>2, <1>3, <1>4, <1>5 DEF Advance

\* A session leaves the accounts alone that it has no call about.
LEMMA StepSparesAccount ==
    ASSUME TypeOK, IdsInv, NEW s \in Sessions, Begin(s) \/ Advance(s) \/ Abort(s),
           NEW c \in DOMAIN customers, c \in DOMAIN customers',
           ~Busy(s) \/ call[s].customer # c
    PROVE  customers'[c] = customers[c] /\ Entries(c)' = Entries(c)
<1>c. c \in CustomerIds
  BY DEF TypeOK
<1>1. CASE Begin(s)
  <2>1. txns' = txns
    BY <1>1 DEF Begin, AddCustomer, AddTransaction, EditTransaction,
       DeleteTransaction, RecalculateScore, DeleteCustomer, database
  <2>2. Entries(c)' = Entries(c)
    BY <2>1 DEF Entries, Entry
  <2>3. customers'[c] = customers[c]
    <3>1. CASE AddCustomer(s)
      <4>1. c # nextCustomer
        BY <1>c, LedgerAssumption
           DEF IdsInv, IdsGivenOut, TypeOK, CustomerIds, LedgerAssumption
      <4> QED BY <3>1, <4>1 DEF AddCustomer, Insert
    <3>2. CASE \E d \in CustomerIds : DeleteCustomer(s, d)
      BY <3>2 DEF DeleteCustomer, Restrict
    <3>3. CASE ~AddCustomer(s) /\ ~\E d \in CustomerIds : DeleteCustomer(s, d)
      BY <1>1, <3>3 DEF Begin, AddTransaction, EditTransaction, DeleteTransaction,
         RecalculateScore, database
    <3> QED BY <3>1, <3>2, <3>3
  <2> QED BY <2>2, <2>3
<1>2. CASE Advance(s)
  <2>1. call[s].customer # c
    BY <1>2 DEF Busy, Advance, InsertTxn, UpdateTxn, RemoveTxn, IncCustomer,
       ScoreNoCustomer, ScoreReadBalance, ScoreReadTxns, ScoreSet, PurgeTxns
  <2>2. \A t \in TxnIds : Entry(t, c)' = Entry(t, c)
    BY <1>c, <1>2, <2>1, AdvanceSparesEntries
  <2>3. customers'[c] = customers[c]
    BY <1>2, <2>1 DEF Advance, InsertTxn, UpdateTxn, RemoveTxn, IncCustomer,
       ScoreNoCustomer, ScoreReadBalance, ScoreReadTxns, ScoreSet, PurgeTxns, database
  <2> QED BY <2>2, <2>3 DEF Entries
<1>3. CASE Abort(s)
  BY <1>3 DEF Abort, database, Entries, Entry
<1> QED BY <1>1, <1>2, <1>3

\* As long as the account stays, whoever is about to score it from a fresh reading and
\* does not move still is.
LEMMA WillScoreKept ==
    ASSUME NEW r \in Sessions, NEW c \in DOMAIN customers, WillScore(r, c),
           call'[r] = call[r], seen'[r] = seen[r],
           customers'[c].balance = customers[c].balance, Entries(c)' = Entries(c)
    PROVE  WillScore(r, c)'
BY DEF WillScore, ReadIsFresh, Busy

\* As long as the account and its score stay, the score stays current.
LEMMA ScoreKept ==
    ASSUME NEW c \in DOMAIN customers, ScoreIsCurrentFor(c),
           customers'[c].scored = customers[c].scored,
           customers'[c].balance = customers[c].balance, Entries(c)' = Entries(c)
    PROVE  ScoreIsCurrentFor(c)'
BY DEF ScoreIsCurrentFor, Account

\* A call about account c that goes on and does not store a stale score, leaves somebody
\* to care for the score if there was anybody.
LEMMA AdvanceCares ==
    ASSUME TypeOK, IdsInv, NEW s \in Sessions, Advance(s), NEW c \in DOMAIN customers,
           c \in DOMAIN customers', call[s].customer = c, ScoreCared(c), ~LateSet(s, c)
    PROVE  ScoreCared(c)'
<1>1. /\ Busy(s) /\ call[s] \in Call /\ seen[s] \in Picture
      /\ call[s].kind # "drop"
  BY DEF IdsInv, PurgedIsGone, TypeOK, Busy, Advance, InsertTxn, UpdateTxn, RemoveTxn,
     IncCustomer, ScoreNoCustomer, ScoreReadBalance, ScoreReadTxns, ScoreSet, PurgeTxns
<1>2. \A r \in Sessions \ {s} : call'[r] = call[r] /\ seen'[r] = seen[r]
  BY OthersWait
<1>3. CASE InsertTxn(s) \/ UpdateTxn(s) \/ RemoveTxn(s) \/ IncCustomer(s)
  <2>1. /\ call'[s].customer = c /\ call'[s].pc \in {"inc", "score_customer"}
        /\ call'[s].kind = call[s].kind
    BY <1>1, <1>3
       DEF InsertTxn, UpdateTxn, RemoveTxn, IncCustomer, Goto, TypeOK, Call, CallRecord
  <2>2. WillScore(s, c)'
    BY <1>1, <2>1 DEF WillScore, ReadIsFresh, Busy
  <2> QED BY <2>2 DEF ScoreCared
<1>4. CASE ScoreReadBalance(s)
  <2>1. /\ call'[s].customer = c /\ call'[s].pc = "score_txns"
        /\ call'[s].kind = call[s].kind
        /\ seen'[s].balance = customers[c].balance /\ customers' = customers
    BY <1>1, <1>4 DEF ScoreReadBalance, Goto, TypeOK, Call, CallRecord, Picture, database
  <2>2. WillScore(s, c)'
    BY <1>1, <2>1 DEF WillScore, ReadIsFresh, Busy
  <2> QED BY <2>2 DEF ScoreCared
<1>5. CASE ScoreReadTxns(s)
  <2>1. /\ call'[s].customer = c /\ call'[s].pc = "score_set"
        /\ call'[s].kind = call[s].kind /\ call[s].pc = "score_txns"
        /\ seen'[s].balance = seen[s].balance /\ seen'[s].entries = Entries(c)
        /\ customers' = customers /\ txns' = txns
    BY <1>1, <1>5 DEF ScoreReadTxns, Goto, TypeOK, Call, CallRecord, Picture, database
  <2>2. Entries(c)' = Entries(c)
    BY <2>1 DEF Entries, Entry
  <2>3. CASE ScoreIsCurrentFor(c)
    BY <2>1, <2>2, <2>3, ScoreKept DEF ScoreCared
  <2>4. CASE \E r \in Sessions \ {s} : WillScore(r, c)
    BY <1>2, <2>1, <2>2, <2>4, WillScoreKept DEF ScoreCared
  <2>5. CASE WillScore(s, c)
    <3>1. seen[s].balance = customers[c].balance
      BY <2>1, <2>5 DEF WillScore, ReadIsFresh
    <3>2. WillScore(s, c)'
      BY <1>1, <2>1, <2>2, <3>1 DEF WillScore, ReadIsFresh, Busy
    <3> QED BY <3>2 DEF ScoreCared
  <2> QED BY <2>3, <2>4, <2>5 DEF ScoreCared
<1>6. CASE ScoreSet(s)
  <2>1. /\ txns' = txns /\ call'[s] = Idle /\ Idle.pc = "idle"
        /\ customers'[c] = [customers[c] EXCEPT !.scored = seen[s]]
        /\ call[s].pc = "score_set"
    BY <1>1, <1>6 DEF ScoreSet, Return, TypeOK, Idle
  <2>2. Entries(c)' = Entries(c)
    BY <2>1 DEF Entries, Entry
  <2>3. ReadIsFresh(s, c)
    BY <2>1 DEF LateSet
  <2>4. seen[s] = [balance |-> customers[c].balance, entries |-> Entries(c)]
    BY <1>1, <2>1, <2>3 DEF ReadIsFresh, Picture
  <2>5. customers'[c].scored = seen[s] /\ customers'[c].balance = customers[c].balance
    BY <2>1 DEF TypeOK, Customer
  <2>6. ScoreIsCurrentFor(c)'
    BY <2>2, <2>4, <2>5 DEF ScoreIsCurrentFor, Account
  <2> QED BY <2>6 DEF ScoreCared
<1>7. CASE ScoreNoCustomer(s)
  BY <1>7 DEF ScoreNoCustomer
<1>8. CASE PurgeTxns(s)
  BY <1>1, <1>8 DEF PurgeTxns, TypeOK, Call
<1> QED BY <1>3, <1>4, <1>5, <1>6, <1>7, <1>8 DEF Advance

\* A score that is no longer cared for was stored from a stale reading, or a call
\* about its customer was cut short.
LEMMA StepLeavesBehind ==
    ASSUME TypeOK, IdsInv, NEW s \in Sessions, Begin(s) \/ Advance(s) \/ Abort(s),
           NEW c \in DOMAIN customers, c \in DOMAIN customers',
           ScoreCared(c), ~ScoreCared(c)'
    PROVE  LateSet(s, c) \/ Dropped(s, c)
<1>1. CASE ~Busy(s) \/ call[s].customer # c
  <2>1. customers'[c] = customers[c] /\ Entries(c)' = Entries(c)
    BY <1>1, StepSparesAccount
  <2>2. ScoreIsCurrentFor(c) => ScoreIsCurrentFor(c)'
    BY <2>1, ScoreKept
  <2>3. ASSUME NEW r \in Sessions, WillScore(r, c)
        PROVE  WillScore(r, c)'
    <3>1. r # s
      BY <1>1, <2>3 DEF WillScore
    <3>2. call'[r] = call[r] /\ seen'[r] = seen[r]
      BY <3>1, OthersWait
    <3> QED BY <2>1, <2>3, <3>2, WillScoreKept
  <2> QED BY <2>2, <2>3 DEF ScoreCared
<1>2. CASE Busy(s) /\ call[s].customer = c
  <2>1. CASE Advance(s)
    BY <1>2, <2>1, AdvanceCares
  <2>2. CASE Abort(s)
    <3>1. call'[s].pc = "idle" /\ UNCHANGED database
      BY <2>2 DEF Abort, Return, Idle, TypeOK
    <3> QED BY <1>2, <3>1 DEF Dropped
  <2>3. CASE Begin(s)
    BY <1>2, <2>3 DEF Busy, Begin, AddCustomer, AddTransaction, EditTransaction,
       DeleteTransaction, RecalculateScore, DeleteCustomer
  <2> QED BY <2>1, <2>2, <2>3
<1> QED BY <1>1, <1>2

\* A fresh reading goes stale only by another session's write or $inc on the account.
LEMMA StepMakesStale ==
    ASSUME TypeOK, IdsInv, NEW r \in Sessions, Begin(r) \/ Advance(r) \/ Abort(r),
           NEW c \in DOMAIN customers, c \in DOMAIN customers', NEW s \in Sessions,
           WillScore(s, c), call'[s] = call[s], ~WillScore(s, c)'
    PROVE  r # s /\ Changes(r, c)
<1>1. r # s
  <2>1. Busy(s)
    BY DEF WillScore
  <2>2. Begin(s) => FALSE
    BY <2>1 DEF Busy, Begin, AddCustomer, AddTransaction, EditTransaction,
       DeleteTransaction, RecalculateScore, DeleteCustomer
  <2>3. Advance(s) \/ Abort(s) => call'[s].pc # call[s].pc
    BY <2>1 DEF Busy, Advance, InsertTxn, UpdateTxn, RemoveTxn, IncCustomer,
       ScoreNoCustomer, ScoreReadBalance, ScoreReadTxns, ScoreSet, PurgeTxns, Abort,
       Return, Goto, Idle, TypeOK, Call, CallRecord
  <2> QED BY <2>2, <2>3
<1>2. seen'[s] = seen[s]
  BY <1>1, OthersWait
<1>3. ~(customers'[c].balance = customers[c].balance /\ Entries(c)' = Entries(c))
  BY <1>2, WillScoreKept
<1>4. Busy(r) /\ call[r].customer = c
  BY <1>3, StepSparesAccount
<1>5. call[r] \in Call /\ call[r].kind # "drop"
  BY <1>4 DEF IdsInv, PurgedIsGone, TypeOK
<1>6. ~Abort(r) /\ ~ScoreNoCustomer(r) /\ ~ScoreReadBalance(r) /\ ~ScoreReadTxns(r)
  BY <1>3 DEF Abort, ScoreNoCustomer, ScoreReadBalance, ScoreReadTxns, database,
     Entries, Entry
<1>7. ~ScoreSet(r)
  <2>1. ScoreSet(r) => /\ customers'[c].balance = customers[c].balance
                       /\ Entries(c)' = Entries(c)
    BY DEF ScoreSet, Entries, Entry, TypeOK, Customer
  <2> QED BY <1>3, <2>1
<1>8. ~PurgeTxns(r) /\ ~Begin(r)
  BY <1>4, <1>5 DEF PurgeTxns, Call, Busy, Begin, AddCustomer, AddTransaction,
     EditTransaction, DeleteTransaction, RecalculateScore, DeleteCustomer
<1>9. CASE InsertTxn(r) \/ UpdateTxn(r) \/ RemoveTxn(r) \/ IncCustomer(r)
  <2>1. call[r].pc \in {"write", "inc"} /\ call'[r].pc # "idle"
    BY <1>5, <1>9 DEF InsertTxn, UpdateTxn, RemoveTxn, IncCustomer, Goto, TypeOK, Call,
       CallRecord
  <2> QED BY <1>1, <1>4, <2>1 DEF Changes
<1> QED BY <1>6, <1>7, <1>8, <1>9 DEF Advance

\* In every use of the ledger, with races and cuts, a stored score is left behind its
\* account only by a call cut short or by a score computed from a stale reading, and a
\* reading goes stale only by another session's change of the same account.
THEOREM ScoresAlwaysGoStaleByACause == Spec => ScoresGoStaleByACause
<1> DEFINE HasACause ==
      \A c \in DOMAIN customers : c \in DOMAIN customers' =>
          /\ ScoreCared(c) /\ ~ScoreCared(c)' =>
                \E s \in Sessions : LateSet(s, c) \/ Dropped(s, c)
          /\ \A s \in Sessions :
                WillScore(s, c) /\ call'[s] = call[s] /\ ~WillScore(s, c)' =>
                   \E r \in Sessions \ {s} : Changes(r, c)
<1>1. TypeOK /\ IdsInv /\ [Next]_vars => [HasACause]_vars
  <2> SUFFICES ASSUME TypeOK, IdsInv, NEW r \in Sessions,
                      Begin(r) \/ Advance(r) \/ Abort(r),
                      NEW c \in DOMAIN customers, c \in DOMAIN customers'
               PROVE  /\ ScoreCared(c) /\ ~ScoreCared(c)' =>
                            \E s \in Sessions : LateSet(s, c) \/ Dropped(s, c)
                      /\ \A s \in Sessions :
                            WillScore(s, c) /\ call'[s] = call[s] /\ ~WillScore(s, c)'
                               => \E q \in Sessions \ {s} : Changes(q, c)
    BY DEF Next
  <2>1. ScoreCared(c) /\ ~ScoreCared(c)' => LateSet(r, c) \/ Dropped(r, c)
    BY StepLeavesBehind
  <2>2. \A s \in Sessions : WillScore(s, c) /\ call'[s] = call[s] /\ ~WillScore(s, c)'
                             => r # s /\ Changes(r, c)
    BY StepMakesStale
  <2> QED BY <2>1, <2>2
<1> QED BY <1>1, IdsInvariant, PTL DEF Spec, ScoresGoStaleByACause

\* One call per account is one way of using the ledger.
LEMMA SoloIsSpec == SoloSpec => Spec
<1>1. [SoloNext]_vars => [Next]_vars
  BY DEF SoloNext, UncutNext, Next
<1> QED BY <1>1, PTL DEF SoloSpec, Spec

-----------------------------------------------------------------------------
(* One session at a time on each account: the balance too *)

\* Whoever has to do with a transaction agrees on the customer it is of.
CustomersAgree ==
    /\ \A s \in Sessions : ~Adding(s) /\ call[s].txn \in DOMAIN txns =>
          txns[call[s].txn].customer = call[s].customer
    /\ \A r, s \in Sessions : call[r].txn # 0 /\ call[r].txn = call[s].txn =>
          call[r].customer = call[s].customer

\* A step in which session s only moves on in its call, or ends it, and which makes
\* nothing of what is stored
LEMMA AgreeKept ==
    ASSUME TypeOK, IdsInv, CustomersAgree, NEW s \in Sessions,
           \A r \in Sessions \ {s} : call'[r] = call[r],
           \/ call'[s].txn = 0
           \/ /\ call'[s].customer = call[s].customer
              /\ call'[s].txn = call[s].txn,
           DOMAIN txns' \subseteq DOMAIN txns,
           \A t \in DOMAIN txns' : txns'[t].customer = txns[t].customer
    PROVE  CustomersAgree'
<1>1. 0 \notin DOMAIN txns
  BY LedgerAssumption DEF TypeOK, TxnIds, LedgerAssumption
<1>2. ASSUME NEW q \in Sessions, ~Adding(q)', call'[q].txn \in DOMAIN txns'
      PROVE  txns'[call'[q].txn].customer = call'[q].customer
  <2>1. call'[q].customer = call[q].customer /\ call'[q].txn = call[q].txn
    BY <1>1, <1>2
  <2>2. ~Adding(q)
    BY <1>2, <2>1 DEF IdsInv, NewIdIsFresh
  <2> QED BY <1>2, <2>1, <2>2 DEF CustomersAgree
<1>3. ASSUME NEW q \in Sessions, NEW r \in Sessions,
             call'[q].txn # 0, call'[q].txn = call'[r].txn
      PROVE  call'[q].customer = call'[r].customer
  <2>1. /\ call'[q].customer = call[q].customer /\ call'[q].txn = call[q].txn
        /\ call'[r].customer = call[r].customer /\ call'[r].txn = call[r].txn
    BY <1>3
  <2> QED BY <1>3, <2>1 DEF CustomersAgree
<1> QED BY <1>2, <1>3 DEF CustomersAgree

\* A call that begins
LEMMA BeginAgrees ==
    ASSUME TypeOK, IdsInv, CustomersAgree, NEW s \in Sessions, Begin(s)
    PROVE  CustomersAgree'
<1>0. nextTxn \in Nat \ {0} /\ nextTxn \notin DOMAIN txns
      /\ \A r \in Sessions : call[r].txn # nextTxn
  BY LedgerAssumption
     DEF TypeOK, LedgerAssumption, IdsInv, IdsGivenOut, TxnIds, Call, CallRecord
<1>1. CASE AddCustomer(s)
  BY <1>1 DEF AddCustomer, CustomersAgree, Adding
<1>2. ASSUME NEW c \in CustomerIds, NEW type \in TxnTypes, NEW a \in Amounts,
             AddTransaction(s, c, type, a)
      PROVE  CustomersAgree'
  <2>1. /\ call'[s].pc = "write" /\ call'[s].kind = "add"
        /\ call'[s].customer = c /\ call'[s].txn = nextTxn
        /\ \A r \in Sessions \ {s} : call'[r] = call[r]
        /\ txns' = txns
    BY <1>2 DEF AddTransaction, TypeOK
  <2> QED BY <1>0, <2>1 DEF CustomersAgree, Adding
<1>3. ASSUME NEW t \in TxnIds, \/ \E a \in Amounts : EditTransaction(s, t, a)
                               \/ DeleteTransaction(s, t)
      PROVE  CustomersAgree'
  <2>1. /\ call'[s].customer = txns[t].customer /\ call'[s].txn = t
        /\ \A r \in Sessions \ {s} : call'[r] = call[r]
        /\ t \in DOMAIN txns /\ txns' = txns
    BY <1>3 DEF EditTransaction, DeleteTransaction, Finds, database, TypeOK
  <2>2. ASSUME NEW r \in Sessions \ {s}, call[r].txn = t
        PROVE  call[r].customer = txns[t].customer
    BY <2>1, <2>2 DEF CustomersAgree, IdsInv, NewIdIsFresh
  <2> QED BY <2>1, <2>2 DEF CustomersAgree, Adding
<1>4. ASSUME NEW c \in CustomerIds, RecalculateScore(s, c) \/ DeleteCustomer(s, c)
      PROVE  CustomersAgree'
  <2>1. /\ [Idle EXCEPT !.pc = "score_customer", !.kind = "recalc", !.customer = c].txn = 0
        /\ [Idle EXCEPT !.pc = "purge", !.kind = "drop", !.customer = c].txn = 0
    BY DEF Idle
  <2>2. /\ call'[s].txn = 0 /\ txns' = txns
        /\ \A r \in Sessions \ {s} : call'[r] = call[r]
    BY <1>4, <2>1 DEF RecalculateScore, DeleteCustomer, database, TypeOK
  <2> QED BY <2>2, AgreeKept
<1> QED BY <1>1, <1>2, <1>3, <1>4 DEF Begin

\* A call that goes on, or is cut short
LEMMA AdvanceAgrees ==
    ASSUME TypeOK, IdsInv, CustomersAgree, NEW s \in Sessions, Advance(s) \/ Abort(s)
    PROVE  CustomersAgree'
<1>1. CASE InsertTxn(s)
  <2>1. PICK t : t = call[s].txn
    OBVIOUS
  <2>2. /\ Adding(s) /\ \A r \in Sessions \ {s} : call[r].txn # t
    BY <1>1, <2>1 DEF InsertTxn, IdsInv, NewIdIsFresh, Adding
  <2>3. /\ DOMAIN txns' = DOMAIN txns \cup {t}
        /\ txns'[t].customer = call[s].customer
        /\ \A u \in DOMAIN txns : u # t => txns'[u] = txns[u]
    BY <1>1, <2>1 DEF InsertTxn, Insert
  <2>4. /\ call'[s].customer = call[s].customer /\ call'[s].txn = t
        /\ \A r \in Sessions \ {s} : call'[r] = call[r]
    BY <1>1, <2>1 DEF InsertTxn, Goto, TypeOK, Call, CallRecord
  <2> QED BY <2>2, <2>3, <2>4 DEF CustomersAgree, Adding
<1>2. CASE (Advance(s) \/ Abort(s)) /\ ~InsertTxn(s)
  <2>1. /\ DOMAIN txns' \subseteq DOMAIN txns
        /\ \A t \in DOMAIN txns' : txns'[t].customer = txns[t].customer
    <3>1. CASE UpdateTxn(s)
      BY <3>1 DEF UpdateTxn, TypeOK, Txn
    <3>2. CASE RemoveTxn(s) \/ PurgeTxns(s)
      BY <3>2 DEF RemoveTxn, PurgeTxns, Restrict
    <3>3. CASE (Advance(s) \/ Abort(s)) /\ ~InsertTxn(s) /\ ~UpdateTxn(s)
               /\ ~RemoveTxn(s) /\ ~PurgeTxns(s)
      BY <3>3 DEF Advance, Abort, IncCustomer, ScoreNoCustomer, ScoreReadBalance,
                  ScoreReadTxns, ScoreSet, database
    <3> QED BY <1>2, <3>1, <3>2, <3>3
  <2>2. Idle.txn = 0
    BY DEF Idle
  <2>3. /\ \A r \in Sessions \ {s} : call'[r] = call[r]
        /\ \/ call'[s].txn = 0
           \/ call'[s].customer = call[s].customer /\ call'[s].txn = call[s].txn
    <3>1. CASE Return(s)
      BY <2>2, <3>1 DEF Return, TypeOK
    <3>2. ASSUME NEW pc, Goto(s, pc)
          PROVE  /\ \A r \in Sessions \ {s} : call'[r] = call[r]
                 /\ call'[s].customer = call[s].customer /\ call'[s].txn = call[s].txn
      BY <3>2 DEF Goto, TypeOK, Call, CallRecord
    <3>3. Return(s) \/ \E pc : Goto(s, pc)
      BY <1>2 DEF Advance, Abort, UpdateTxn, RemoveTxn, IncCustomer, ScoreNoCustomer,
                  ScoreReadBalance, ScoreReadTxns, ScoreSet, PurgeTxns
    <3> QED BY <3>1, <3>2, <3>3
  <2> QED BY <2>1, <2>3, AgreeKept
<1> QED BY <1>1, <1>2

\* In every interleaving, calls about one transaction are about one customer.
LEMMA AgreeInvariant == Spec => [](TypeOK /\ IdsInv /\ CustomersAgree)
<1>1. Init => CustomersAgree
  BY DEF Init, CustomersAgree, Idle
<1>2. ASSUME TypeOK, IdsInv, CustomersAgree, [Next]_vars
      PROVE  CustomersAgree'
  <2>1. CASE UNCHANGED vars
    BY <1>2, <2>1 DEF vars, CustomersAgree, Adding
  <2> QED BY <1>2, <2>1, BeginAgrees, AdvanceAgrees DEF Next
<1> QED BY <1>1, <1>2, IdsInvariant, PTL DEF Spec

\* One call at a time on each account is orderly use: calls about one transaction are
\* about one account, so nothing that is proved of orderly use need be proved again.
THEOREM SoloIsOrderly == SoloSpec => OrderlySpec
<1>1. OneCallPerAccount /\ CustomersAgree => OneCallPerTxn
  BY DEF OneCallPerAccount, CustomersAgree, OneCallPerTxn, Clash
<1>2. (OneCallPerAccount /\ CustomersAgree)' => OneCallPerTxn'
  BY <1>1, PTL
<1>3. CustomersAgree' /\ [SoloNext]_vars => [OrderlyNext]_vars
  BY <1>2 DEF SoloNext, OrderlyNext
<1> QED BY <1>3, SoloIsSpec, AgreeInvariant, PTL DEF SoloSpec, OrderlySpec

\* How many round trips a call at statement pc may still make
RoundTripsLeft(pc) ==
    CASE pc = "write" -> 5
      [] pc = "inc" -> 4
      [] pc = "score_customer" -> 3
      [] pc = "score_txns" -> 2
      [] pc \in {"score_set", "purge"} -> 1
      [] pc = "idle" -> 0

\* A call in progress only ever gets nearer to its end.
NearsItsEnd ==
    \A s \in Sessions : Busy(s) =>
        \/ call'[s] = call[s]
        \/ RoundTripsLeft(call'[s].pc) < RoundTripsLeft(call[s].pc)

\* No function goes round in circles, whatever interleaves or is cut short: a call makes
\* five round trips at most, so a thread that goes on comes to the end of it.
THEOREM CallsNearTheirEnd == Spec => [][NearsItsEnd]_vars
<1>1. ASSUME TypeOK, [Next]_vars
      PROVE  [NearsItsEnd]_vars
  <2>1. ASSUME NEW s \in Sessions, Begin(s) \/ Advance(s) \/ Abort(s)
        PROVE  NearsItsEnd
    <3>1. \A r \in Sessions \ {s} : call'[r] = call[r]
      BY <1>1, <2>1
         DEF Begin, AddCustomer, AddTransaction, EditTransaction, DeleteTransaction,
             RecalculateScore, DeleteCustomer, Advance, Abort, InsertTxn, UpdateTxn,
             RemoveTxn, IncCustomer, ScoreNoCustomer, ScoreReadBalance, ScoreReadTxns,
             ScoreSet, PurgeTxns, Return, Goto, TypeOK
    <3>2. CASE Begin(s)
      <4>1. ~Busy(s)
        BY <3>2 DEF Begin, AddCustomer, AddTransaction, EditTransaction,
           DeleteTransaction, RecalculateScore, DeleteCustomer, Busy
      <4> QED BY <3>1, <4>1 DEF NearsItsEnd
    <3>3. CASE Advance(s) \/ Abort(s)
      <4>1. Idle.pc = "idle"
        BY DEF Idle
      <4>2. CASE Return(s)
        <5>1. call'[s].pc = "idle" /\ call[s].pc \in Steps /\ Busy(s)
          BY <1>1, <3>3, <4>1, <4>2
             DEF Return, TypeOK, Call, CallRecord, Advance, Abort, InsertTxn, UpdateTxn,
                 RemoveTxn, IncCustomer, ScoreNoCustomer, ScoreReadBalance,
                 ScoreReadTxns, ScoreSet, PurgeTxns, Busy
        <5>2. RoundTripsLeft(call'[s].pc) = 0 /\ RoundTripsLeft(call[s].pc) > 0
          BY <5>1 DEF RoundTripsLeft, Steps, Busy
        <5> QED BY <3>1, <5>2 DEF NearsItsEnd
      <4>3. CASE ~Return(s)
        <5>1. \/ call[s].pc = "write" /\ call'[s].pc = "inc"
              \/ call[s].pc = "inc" /\ call'[s].pc = "score_customer"
              \/ call[s].pc = "score_customer" /\ call'[s].pc = "score_txns"
              \/ call[s].pc = "score_txns" /\ call'[s].pc = "score_set"
          BY <1>1, <3>3, <4>3
             DEF Advance, Abort, InsertTxn, UpdateTxn, RemoveTxn, IncCustomer,
                 ScoreNoCustomer, ScoreReadBalance, ScoreReadTxns, ScoreSet, PurgeTxns,
                 Goto, TypeOK, Call, CallRecord
        <5>2. RoundTripsLeft(call'[s].pc) < RoundTripsLeft(call[s].pc)
          BY <5>1 DEF RoundTripsLeft
        <5> QED BY <3>1, <5>2 DEF NearsItsEnd
      <4> QED BY <4>2, <4>3
    <3> QED BY <2>1, <3>2, <3>3
  <2> QED BY <1>1, <2>1 DEF Next
<1> QED BY <1>1, LedgerTypeOK, PTL DEF Spec

-----------------------------------------------------------------------------
(* The ledger used in an orderly way implements the book of LedgerBook *)

\* What the book says of transaction t: the call that has written t and not posted it
\* knows; when there is none, the collection does.
Shape(t) ==
    /\ \A s \in Sessions : Wrote(s, t) =>
          /\ InBook(t) <=> call[s].kind # "add"
          /\ BookEntry(t) = [customer |-> call[s].customer, type |-> call[s].type,
                             amount |-> call[s].old]
    /\ (\A s \in Sessions : ~Wrote(s, t)) =>
          /\ InBook(t) <=> t \in DOMAIN txns /\ txns[t].customer \in DOMAIN customers
          /\ BookEntry(t) = [customer |-> txns[t].customer, type |-> txns[t].type,
                             amount |-> txns[t].amount]

\* Where calls do not clash, at most one of them has written a transaction.
LEMMA BookShape == OneCallPerTxn => \A t \in TxnIds : Shape(t)
<1> SUFFICES ASSUME OneCallPerTxn, NEW t \in TxnIds
             PROVE  Shape(t)
  OBVIOUS
<1>1. ASSUME NEW s \in Sessions, Wrote(s, t)
      PROVE  /\ InBook(t) <=> call[s].kind # "add"
             /\ BookEntry(t) = [customer |-> call[s].customer, type |-> call[s].type,
                                amount |-> call[s].old]
  <2>1. t # 0
    BY DEF TxnIds
  <2>2. \A r \in Sessions : Wrote(r, t) => r = s
    BY <1>1, <2>1 DEF OneCallPerTxn, Clash, Busy, Wrote
  <2>3. (CHOOSE r \in Sessions : Wrote(r, t)) = s
    BY <1>1, <2>2
  <2>4. InBook(t) <=> call[s].kind # "add"
    BY <1>1, <2>2 DEF InBook
  <2>5. BookEntry(t) = [customer |-> call[s].customer, type |-> call[s].type,
                        amount |-> call[s].old]
    BY <1>1, <2>3 DEF BookEntry
  <2> QED BY <2>4, <2>5
<1>2. ASSUME \A s \in Sessions : ~Wrote(s, t)
      PROVE  /\ InBook(t) <=> t \in DOMAIN txns /\ txns[t].customer \in DOMAIN customers
             /\ BookEntry(t) = [customer |-> txns[t].customer, type |-> txns[t].type,
                                amount |-> txns[t].amount]
  BY <1>2 DEF InBook, BookEntry
<1> QED BY <1>1, <1>2 DEF Shape

\* The same a step later
LEMMA BookShapeNext == OneCallPerTxn' => (\A t \in TxnIds : Shape(t))'
BY BookShape, PTL

\* A call that writes a transaction has its customer there, and an amount of the form;
\* once it has written, the transaction is as the call has it, or gone.
WrittenIsThere ==
    \A s \in Sessions : call[s].pc \in {"write", "inc"} =>
        /\ call[s].customer \in DOMAIN customers
        /\ call[s].kind # "delete" => call[s].new \in Amounts
        /\ call[s].pc = "inc" =>
              IF call[s].kind = "delete" THEN call[s].txn \notin DOMAIN txns
              ELSE /\ call[s].txn \in DOMAIN txns
                   /\ txns[call[s].txn].customer = call[s].customer
                   /\ txns[call[s].txn].type = call[s].type
                   /\ txns[call[s].txn].amount = call[s].new

\* A call that begins without a clash
LEMMA BeginWritten ==
    ASSUME TypeOK, OrderlyInv, WrittenIsThere, NEW s \in Sessions, Begin(s), OneCallPerTxn'
    PROVE  WrittenIsThere'
<1>i. call[s].pc = "idle" /\ \A r \in Sessions \ {s} : call'[r] = call[r]
  BY DEF Begin, AddCustomer, AddTransaction, EditTransaction, DeleteTransaction,
         RecalculateScore, DeleteCustomer, TypeOK
<1>t. UNCHANGED txns
  BY DEF Begin, AddCustomer, AddTransaction, EditTransaction, DeleteTransaction,
         RecalculateScore, DeleteCustomer, database
<1>1. ASSUME NEW r \in Sessions \ {s}, call[r].pc \in {"write", "inc"}
      PROVE  call[r].customer \in DOMAIN customers'
  <2>1. call[r].customer \in DOMAIN customers
    BY <1>1 DEF WrittenIsThere
  <2>2. ASSUME NEW c, DeleteCustomer(s, c)
        PROVE  DOMAIN customers' = DOMAIN customers \ {c} /\ call[r].customer # c
    <3>1. /\ [Idle EXCEPT !.pc = "purge", !.kind = "drop", !.customer = c].pc = "purge"
          /\ [Idle EXCEPT !.pc = "purge", !.kind = "drop", !.customer = c].kind = "drop"
          /\ [Idle EXCEPT !.pc = "purge", !.kind = "drop", !.customer = c].customer = c
      BY DEF Idle
    <3>2. /\ DOMAIN customers' = DOMAIN customers \ {c}
          /\ call'[s].pc = "purge" /\ call'[s].kind = "drop" /\ call'[s].customer = c
      BY <2>2, <3>1 DEF DeleteCustomer, Restrict, TypeOK
    <3>3. call'[r] = call[r]
      BY <1>i
    <3> QED BY <1>1, <3>2, <3>3 DEF OneCallPerTxn, Clash, Busy
  <2>3. ASSUME ~\E c \in CustomerIds : DeleteCustomer(s, c)
        PROVE  DOMAIN customers \subseteq DOMAIN customers'
    BY <2>3 DEF Begin, AddCustomer, Insert, AddTransaction, EditTransaction,
                DeleteTransaction, RecalculateScore, database
  <2> QED BY <2>1, <2>2, <2>3
<1>2. ASSUME call'[s].pc \in {"write", "inc"}
      PROVE  /\ call'[s].pc = "write" /\ call'[s].customer \in DOMAIN customers'
             /\ call'[s].kind # "delete" => call'[s].new \in Amounts
  <2>1. ASSUME NEW c, NEW type, NEW a \in Amounts, AddTransaction(s, c, type, a)
        PROVE  /\ call'[s].pc = "write" /\ call'[s].customer \in DOMAIN customers'
               /\ call'[s].kind # "delete" => call'[s].new \in Amounts
    BY <2>1 DEF AddTransaction, Finds, TypeOK
  <2>2. ASSUME NEW t,
               (\E a \in Amounts : EditTransaction(s, t, a)) \/ DeleteTransaction(s, t)
        PROVE  /\ call'[s].pc = "write" /\ call'[s].customer \in DOMAIN customers'
               /\ call'[s].kind # "delete" => call'[s].new \in Amounts
    <3>1. /\ call'[s].pc = "write" /\ UNCHANGED customers /\ t \in DOMAIN txns
          /\ call'[s].customer = txns[t].customer
          /\ call'[s].kind # "delete" => call'[s].new \in Amounts
      BY <2>2 DEF EditTransaction, DeleteTransaction, Finds, TypeOK, database
    <3>2. txns[t].customer \in DOMAIN customers
      <4> SUFFICES ASSUME NEW r \in Sessions, call[r].pc = "purge",
                          call[r].customer = txns[t].customer
                   PROVE  FALSE
        BY <3>1 DEF OrderlyInv, NoOrphans
      <4>1. r # s /\ call'[r] = call[r] /\ call[r].kind = "drop"
        BY <1>i DEF TypeOK, Call
      <4> QED BY <3>1, <4>1 DEF OneCallPerTxn, Clash, Busy
    <3> QED BY <3>1, <3>2
  <2>3. ASSUME NEW c, AddCustomer(s) \/ RecalculateScore(s, c) \/ DeleteCustomer(s, c)
        PROVE  call'[s].pc \notin {"write", "inc"}
    <3>1. /\ [Idle EXCEPT !.pc = "purge", !.kind = "drop", !.customer = c].pc = "purge"
          /\ [Idle EXCEPT !.pc = "score_customer", !.kind = "recalc",
                          !.customer = c].pc = "score_customer"
      BY DEF Idle
    <3> QED BY <1>i, <2>3, <3>1 DEF AddCustomer, RecalculateScore, DeleteCustomer, TypeOK
  <2> QED BY <1>2, <2>1, <2>2, <2>3 DEF Begin
<1> QED BY <1>i, <1>t, <1>1, <1>2 DEF WrittenIsThere

\* A statement of a call in progress
LEMMA AdvanceWritten ==
    ASSUME TypeOK, IdsInv, OrderlyInv, WrittenIsThere, NEW s \in Sessions, Advance(s)
    PROVE  WrittenIsThere'
<1>i. /\ Idle.pc = "idle"
      /\ \A r \in Sessions \ {s} : call'[r] = call[r]
      /\ Busy(s)
  BY DEF Advance, InsertTxn, UpdateTxn, RemoveTxn, IncCustomer, ScoreNoCustomer,
         ScoreReadBalance, ScoreReadTxns, ScoreSet, PurgeTxns, Goto, Return, Idle,
         TypeOK, Busy
<1>c. DOMAIN customers' = DOMAIN customers
  BY DEF Advance, InsertTxn, UpdateTxn, RemoveTxn, IncCustomer, ScoreNoCustomer,
         ScoreReadBalance, ScoreReadTxns, ScoreSet, PurgeTxns, database
<1>1. ASSUME NEW r \in Sessions \ {s}, call[r].pc = "inc"
      PROVE  /\ call[r].txn \in DOMAIN txns' <=> call[r].txn \in DOMAIN txns
             /\ call[r].txn \in DOMAIN txns /\ txns[call[r].txn].customer = call[r].customer
                  => txns'[call[r].txn] = txns[call[r].txn]
  <2>1. PICK t : t = call[r].txn
    OBVIOUS
  <2>2. t # 0
    BY <1>1, <2>1 DEF TypeOK, Call
  <2>3. call[s].txn # t /\ (call[s].kind = "drop" => call[s].customer # call[r].customer)
    BY <1>i, <1>1, <2>1, <2>2 DEF OrderlyInv, OneCallPerTxn, Clash, Busy
  <2>4. CASE InsertTxn(s) \/ UpdateTxn(s) \/ RemoveTxn(s)
    BY <2>1, <2>3, <2>4 DEF InsertTxn, Insert, UpdateTxn, RemoveTxn, Restrict
  <2>5. CASE PurgeTxns(s)
    <3>1. call[s].kind = "drop"
      BY <2>5 DEF PurgeTxns, TypeOK, Call
    <3>2. ASSUME t \in DOMAIN txns
          PROVE  t \in DOMAIN txns'
      <4>1. txns[t].customer = call[r].customer
        BY <1>1, <2>1, <3>2 DEF WrittenIsThere
      <4> QED BY <2>3, <2>5, <3>1, <3>2, <4>1 DEF PurgeTxns, Restrict
    <3>3. \A u \in DOMAIN txns' : u \in DOMAIN txns /\ txns'[u] = txns[u]
      BY <2>5 DEF PurgeTxns, Restrict
    <3> QED BY <2>1, <3>2, <3>3
  <2>6. CASE UNCHANGED txns
    BY <2>6
  <2> QED BY <2>4, <2>5, <2>6 DEF Advance, IncCustomer, ScoreNoCustomer,
         ScoreReadBalance, ScoreReadTxns, ScoreSet, database
<1>2. ASSUME NEW r \in Sessions \ {s}, call[r].pc \in {"write", "inc"}
      PROVE  /\ call[r].customer \in DOMAIN customers'
             /\ call[r].kind # "delete" => call[r].new \in Amounts
             /\ call[r].pc = "inc" =>
                   IF call[r].kind = "delete" THEN call[r].txn \notin DOMAIN txns'
                   ELSE /\ call[r].txn \in DOMAIN txns'
                        /\ txns'[call[r].txn].customer = call[r].customer
                        /\ txns'[call[r].txn].type = call[r].type
                        /\ txns'[call[r].txn].amount = call[r].new
  BY <1>c, <1>1, <1>2 DEF WrittenIsThere
<1>3. ASSUME call'[s].pc \in {"write", "inc"}
      PROVE  /\ call'[s].customer \in DOMAIN customers'
             /\ call'[s].kind # "delete" => call'[s].new \in Amounts
             /\ IF call'[s].kind = "delete" THEN call'[s].txn \notin DOMAIN txns'
                ELSE /\ call'[s].txn \in DOMAIN txns'
                     /\ txns'[call'[s].txn].customer = call'[s].customer
                     /\ txns'[call'[s].txn].type = call'[s].type
                     /\ txns'[call'[s].txn].amount = call'[s].new
  <2>1. InsertTxn(s) \/ UpdateTxn(s) \/ RemoveTxn(s)
    BY <1>i, <1>3 DEF Advance, IncCustomer, ScoreNoCustomer, ScoreReadBalance,
                      ScoreReadTxns, ScoreSet, PurgeTxns, Goto, Return, TypeOK, Call, CallRecord
  <2>2. PICK k : k = call[s]
    OBVIOUS
  <2>3. /\ k \in Call /\ k.pc = "write" /\ k.kind \in TxnCalls
        /\ call'[s].customer = k.customer /\ call'[s].kind = k.kind /\ call'[s].txn = k.txn
        /\ call'[s].type = k.type /\ call'[s].new = k.new
    BY <2>1, <2>2 DEF InsertTxn, UpdateTxn, RemoveTxn, Goto, TypeOK, Call, CallRecord, TxnCalls
  <2>4. k.customer \in DOMAIN customers /\ (k.kind # "delete" => k.new \in Amounts)
    BY <2>2, <2>3 DEF WrittenIsThere
  <2>5. CASE InsertTxn(s)
    <3>1. /\ k.kind = "add" /\ k.txn \in DOMAIN txns' /\ txns'[k.txn].customer = k.customer
          /\ txns'[k.txn].type = k.type /\ txns'[k.txn].amount = k.new
      BY <2>2, <2>5 DEF InsertTxn, Insert
    <3> QED BY <1>c, <2>3, <2>4, <3>1
  <2>6. CASE UpdateTxn(s)
    <3>1. k.kind = "edit" /\ Changing(s)
      BY <2>2, <2>6 DEF UpdateTxn, Changing
    <3>2. k.txn \in DOMAIN txns /\ txns[k.txn].customer = k.customer /\ txns[k.txn].type = k.type
      BY <2>2, <3>1 DEF OrderlyInv, ReadIsCurrent, IdsInv, FixedFieldsKnown
    <3>3. k.txn \in DOMAIN txns' /\ txns'[k.txn] = [txns[k.txn] EXCEPT !.amount = k.new]
          /\ txns[k.txn] \in Txn
      BY <2>2, <2>6, <3>2 DEF UpdateTxn, TypeOK
    <3>4. /\ txns'[k.txn].customer = k.customer
          /\ txns'[k.txn].type = k.type /\ txns'[k.txn].amount = k.new
      BY <3>2, <3>3 DEF Txn
    <3> QED BY <1>c, <2>3, <2>4, <3>1, <3>3, <3>4
  <2>7. CASE RemoveTxn(s)
    <3>1. k.kind = "delete" /\ k.txn \notin DOMAIN txns'
      BY <2>2, <2>7 DEF RemoveTxn, Restrict
    <3> QED BY <1>c, <2>3, <2>4, <3>1
  <2> QED BY <2>1, <2>5, <2>6, <2>7
<1> QED BY <1>i, <1>2, <1>3 DEF WrittenIsThere

\* The invariant of calls that write
LEMMA WrittenInvariant == OrderlySpec => [](TypeOK /\ IdsInv /\ OrderlyInv /\ WrittenIsThere)
<1>1. Init => WrittenIsThere
  BY DEF Init, WrittenIsThere, Idle
<1>2. ASSUME TypeOK, IdsInv, OrderlyInv, WrittenIsThere, [OrderlyNext]_vars
      PROVE  WrittenIsThere'
  <2>1. CASE UNCHANGED vars
    BY <1>2, <2>1 DEF vars, WrittenIsThere
  <2> QED BY <1>2, <2>1, BeginWritten, AdvanceWritten DEF OrderlyNext, UncutNext
<1> QED BY <1>1, <1>2, OrderlyInvariant, PTL DEF OrderlySpec

\* Transaction t is in the book after the step just when it was before, and as it was.
SameEntry(t) ==
    /\ InBook(t)' <=> InBook(t)
    /\ InBook(t) => BookEntry(t)' = BookEntry(t)

\* Transaction t is there, its customer too, after the step just when they were before.
StaysStored(t) ==
    /\ t \in DOMAIN txns' /\ txns'[t].customer \in DOMAIN customers'
         <=> t \in DOMAIN txns /\ txns[t].customer \in DOMAIN customers
    /\ t \in DOMAIN txns /\ t \in DOMAIN txns' => txns'[t] = txns[t]

\* A step that no call about to post t takes, and that leaves t where it is
LEMMA EntryKept ==
    ASSUME OneCallPerTxn, OneCallPerTxn', NEW t \in TxnIds, NEW s \in Sessions,
           \A r \in Sessions \ {s} : call'[r] = call[r],
           ~Wrote(s, t), ~(call'[s].pc = "inc" /\ call'[s].txn = t),
           (\A r \in Sessions : ~Wrote(r, t)) => StaysStored(t)
    PROVE  SameEntry(t)
<1>1. Shape(t) /\ (\A u \in TxnIds : Shape(u))'
  BY BookShape, BookShapeNext
<1>2. \A r \in Sessions : (call'[r].pc = "inc" /\ call'[r].txn = t) <=> Wrote(r, t)
  BY DEF Wrote
<1>3. CASE \A r \in Sessions : ~Wrote(r, t)
  <2>1. StaysStored(t)
    BY <1>3
  <2>2. /\ InBook(t) <=> t \in DOMAIN txns /\ txns[t].customer \in DOMAIN customers
        /\ BookEntry(t) = [customer |-> txns[t].customer, type |-> txns[t].type,
                           amount |-> txns[t].amount]
    BY <1>1, <1>3 DEF Shape
  <2>3. /\ InBook(t)' <=> t \in DOMAIN txns' /\ txns'[t].customer \in DOMAIN customers'
        /\ BookEntry(t)' = [customer |-> txns'[t].customer, type |-> txns'[t].type,
                            amount |-> txns'[t].amount]
    BY <1>1, <1>2, <1>3 DEF Shape, Wrote
  <2> QED BY <2>1, <2>2, <2>3 DEF StaysStored, SameEntry
<1>4. CASE \E r \in Sessions : Wrote(r, t)
  <2>1. PICK r \in Sessions : Wrote(r, t)
    BY <1>4
  <2>2. r # s /\ call'[r] = call[r]
    BY <2>1
  <2>3. /\ InBook(t) <=> call[r].kind # "add"
        /\ BookEntry(t) = [customer |-> call[r].customer, type |-> call[r].type,
                           amount |-> call[r].old]
    BY <1>1, <2>1 DEF Shape
  <2>4. /\ InBook(t)' <=> call'[r].kind # "add"
        /\ BookEntry(t)' = [customer |-> call'[r].customer, type |-> call'[r].type,
                            amount |-> call'[r].old]
    BY <1>1, <1>2, <2>1 DEF Shape, Wrote
  <2> QED BY <2>2, <2>3, <2>4 DEF SameEntry
<1> QED BY <1>3, <1>4

\* Writing a transaction is not yet an entry in the book.
LEMMA WriteKeepsEntry ==
    ASSUME TypeOK, IdsInv, OrderlyInv, WrittenIsThere, OneCallPerTxn', NEW s \in Sessions,
           InsertTxn(s) \/ UpdateTxn(s) \/ RemoveTxn(s), NEW t, t = call[s].txn
    PROVE  SameEntry(t)
<1>1. PICK k : k = call[s]
  OBVIOUS
<1>2. t = k.txn
  BY <1>1
<1>3. /\ k \in Call /\ k.pc = "write" /\ k.kind \in TxnCalls /\ t \in TxnIds /\ t # 0
      /\ call'[s].customer = k.customer /\ call'[s].kind = k.kind /\ call'[s].txn = t
      /\ call'[s].type = k.type /\ call'[s].old = k.old /\ call'[s].pc = "inc"
  BY <1>1, <1>2 DEF InsertTxn, UpdateTxn, RemoveTxn, Goto, TypeOK, Call, CallRecord,
                    TxnCalls, TxnIds
<1>4. /\ InBook(t)' <=> k.kind # "add"
      /\ BookEntry(t)' = [customer |-> k.customer, type |-> k.type, amount |-> k.old]
  <2>1. (\A u \in TxnIds : Shape(u))'
    BY BookShapeNext
  <2> QED BY <1>3, <2>1 DEF Shape, Wrote
<1>5. /\ InBook(t) <=> t \in DOMAIN txns /\ txns[t].customer \in DOMAIN customers
      /\ BookEntry(t) = [customer |-> txns[t].customer, type |-> txns[t].type,
                         amount |-> txns[t].amount]
  <2>1. Shape(t)
    BY <1>3, BookShape DEF OrderlyInv
  <2>2. ASSUME NEW r \in Sessions, Wrote(r, t)
        PROVE  FALSE
    <3>1. r # s /\ Busy(r) /\ Busy(s) /\ call[r].txn = call[s].txn /\ call[r].txn # 0
      BY <1>1, <1>2, <1>3, <2>2 DEF Wrote, Busy
    <3> QED BY <3>1 DEF OrderlyInv, OneCallPerTxn, Clash
  <2> QED BY <2>1, <2>2 DEF Shape
<1>6. CASE InsertTxn(s)
  <2>1. k.kind = "add" /\ t \notin DOMAIN txns
    BY <1>1, <1>2, <1>6 DEF InsertTxn, IdsInv, NewIdIsFresh, Adding
  <2> QED BY <1>4, <1>5, <2>1 DEF SameEntry
<1>7. CASE UpdateTxn(s) \/ RemoveTxn(s)
  <2>1. k.kind # "add" /\ Changing(s)
    BY <1>1, <1>7 DEF UpdateTxn, RemoveTxn, Changing
  <2>2. /\ t \in DOMAIN txns /\ txns[t].customer = k.customer
        /\ txns[t].type = k.type /\ txns[t].amount = k.old
    BY <1>1, <1>2, <2>1 DEF OrderlyInv, ReadIsCurrent, IdsInv, FixedFieldsKnown
  <2>3. k.customer \in DOMAIN customers
    BY <1>1, <1>3 DEF WrittenIsThere
  <2> QED BY <1>4, <1>5, <2>1, <2>2, <2>3 DEF SameEntry
<1> QED BY <1>6, <1>7

\* The posting of a call is its entry in the book: added, amended or struck out.
LEMMA IncEntries ==
    ASSUME TypeOK, OrderlyInv, WrittenIsThere, OneCallPerTxn', NEW s \in Sessions,
           IncCustomer(s), NEW k, k = call[s]
    PROVE  /\ k \in Call /\ k.kind \in TxnCalls /\ k.customer \in DOMAIN customers
           /\ k.txn \in TxnIds /\ (k.kind # "delete" => k.new \in Amounts)
           /\ \A t \in TxnIds \ {k.txn} : SameEntry(t)
           /\ InBook(k.txn) <=> k.kind # "add"
           /\ BookEntry(k.txn) = [customer |-> k.customer, type |-> k.type, amount |-> k.old]
           /\ InBook(k.txn)' <=> k.kind # "delete"
           /\ k.kind # "delete"
                => BookEntry(k.txn)' = [customer |-> k.customer, type |-> k.type,
                                        amount |-> k.new]
<1>1. PICK t : t = k.txn
  OBVIOUS
<1>2. /\ k \in Call /\ k.pc = "inc" /\ k.kind \in TxnCalls /\ t \in TxnIds /\ t # 0
      /\ call'[s].pc = "score_customer" /\ txns' = txns /\ DOMAIN customers' = DOMAIN customers
      /\ \A r \in Sessions \ {s} : call'[r] = call[r]
  BY <1>1 DEF IncCustomer, Goto, TypeOK, Call, CallRecord, TxnCalls, TxnIds
<1>3. /\ k.customer \in DOMAIN customers
      /\ k.kind # "delete" => k.new \in Amounts
      /\ IF k.kind = "delete" THEN t \notin DOMAIN txns
         ELSE /\ t \in DOMAIN txns /\ txns[t].customer = k.customer
              /\ txns[t].type = k.type /\ txns[t].amount = k.new
  BY <1>1, <1>2 DEF WrittenIsThere
<1>4. ASSUME NEW u \in TxnIds \ {t}
      PROVE  SameEntry(u)
  <2>1. ~Wrote(s, u) /\ ~(call'[s].pc = "inc" /\ call'[s].txn = u) /\ StaysStored(u)
    BY <1>1, <1>2, <1>4 DEF Wrote, StaysStored
  <2> QED BY <1>2, <2>1, EntryKept DEF OrderlyInv
<1>5. /\ InBook(t) <=> k.kind # "add"
      /\ BookEntry(t) = [customer |-> k.customer, type |-> k.type, amount |-> k.old]
  <2>1. Shape(t) /\ Wrote(s, t)
    BY <1>1, <1>2, BookShape DEF OrderlyInv, Wrote
  <2> QED BY <2>1 DEF Shape
<1>6. /\ InBook(t)' <=> t \in DOMAIN txns /\ txns[t].customer \in DOMAIN customers
      /\ BookEntry(t)' = [customer |-> txns[t].customer, type |-> txns[t].type,
                          amount |-> txns[t].amount]
  <2>1. (\A u \in TxnIds : Shape(u))'
    BY BookShapeNext
  <2>2. ASSUME NEW r \in Sessions
        PROVE  ~(call'[r].pc = "inc" /\ call'[r].txn = t)
    <3>1. CASE r = s
      BY <1>2, <3>1
    <3>2. CASE r # s
      BY <1>1, <1>2, <3>2 DEF OrderlyInv, OneCallPerTxn, Clash, Busy
    <3> QED BY <3>1, <3>2
  <2> QED BY <1>2, <2>1, <2>2 DEF Shape, Wrote
<1> QED BY <1>1, <1>2, <1>3, <1>4, <1>5, <1>6

\* No other step but the first delete of delete_customer touches the book.
LEMMA QuietEntries ==
    ASSUME TypeOK, IdsInv, OrderlyInv, WrittenIsThere, OneCallPerTxn', NEW s \in Sessions,
           Begin(s) \/ Advance(s), ~IncCustomer(s),
           ~\E c \in CustomerIds : DeleteCustomer(s, c), NEW t \in TxnIds
    PROVE  SameEntry(t)
<1>1. ~Wrote(s, t)
  BY DEF Wrote, Begin, AddCustomer, AddTransaction, EditTransaction, DeleteTransaction,
         RecalculateScore, Advance, InsertTxn, UpdateTxn, RemoveTxn, ScoreNoCustomer,
         ScoreReadBalance, ScoreReadTxns, ScoreSet, PurgeTxns
<1>2. CASE t = call[s].txn /\ (InsertTxn(s) \/ UpdateTxn(s) \/ RemoveTxn(s))
  BY <1>2, WriteKeepsEntry
<1>3. CASE t # call[s].txn /\ (InsertTxn(s) \/ UpdateTxn(s) \/ RemoveTxn(s))
  <2>1. /\ \A r \in Sessions \ {s} : call'[r] = call[r]
        /\ call'[s].txn = call[s].txn /\ customers' = customers
    BY <1>3 DEF InsertTxn, UpdateTxn, RemoveTxn, Goto, TypeOK, Call, CallRecord
  <2>2. t \in DOMAIN txns' <=> t \in DOMAIN txns
    BY <1>3 DEF InsertTxn, Insert, UpdateTxn, RemoveTxn, Restrict
  <2>3. t \in DOMAIN txns => txns'[t] = txns[t]
    BY <1>3 DEF InsertTxn, Insert, UpdateTxn, RemoveTxn, Restrict
  <2>4. StaysStored(t)
    BY <2>1, <2>2, <2>3 DEF StaysStored
  <2> QED BY <1>1, <1>3, <2>1, <2>4, EntryKept DEF OrderlyInv
<1>4. CASE Begin(s) \/ ScoreNoCustomer(s) \/ ScoreReadBalance(s) \/ ScoreReadTxns(s)
           \/ ScoreSet(s)
  <2>1. /\ \A r \in Sessions \ {s} : call'[r] = call[r]
        /\ call'[s].pc # "inc" /\ txns' = txns
    <3>1. ASSUME NEW c \in CustomerIds, RecalculateScore(s, c)
          PROVE  /\ \A r \in Sessions \ {s} : call'[r] = call[r]
                 /\ call'[s].pc # "inc" /\ txns' = txns
      <4>1. [Idle EXCEPT !.pc = "score_customer", !.kind = "recalc",
                         !.customer = c].pc = "score_customer"
        BY DEF Idle
      <4> QED BY <3>1, <4>1 DEF RecalculateScore, TypeOK, database
    <3>2. ASSUME \/ ScoreNoCustomer(s) \/ ScoreReadBalance(s)
                 \/ ScoreReadTxns(s) \/ ScoreSet(s)
          PROVE  /\ \A r \in Sessions \ {s} : call'[r] = call[r]
                 /\ call'[s].pc # "inc" /\ txns' = txns
      <4>1. Idle.pc = "idle"
        BY DEF Idle
      <4> QED BY <3>2, <4>1 DEF ScoreNoCustomer, ScoreReadBalance, ScoreReadTxns,
                                ScoreSet, Return, Goto, TypeOK, Call, CallRecord, database
    <3>3. ASSUME AddCustomer(s)
          PROVE  /\ \A r \in Sessions \ {s} : call'[r] = call[r]
                 /\ call'[s].pc # "inc" /\ txns' = txns
      BY <3>3 DEF AddCustomer
    <3>4. ASSUME NEW e, NEW type, NEW a, \/ AddTransaction(s, e, type, a)
                 \/ EditTransaction(s, e, a) \/ DeleteTransaction(s, e)
          PROVE  /\ \A r \in Sessions \ {s} : call'[r] = call[r]
                 /\ call'[s].pc # "inc" /\ txns' = txns
      BY <3>4 DEF AddTransaction, EditTransaction, DeleteTransaction, TypeOK, database
    <3> QED BY <1>4, <3>1, <3>2, <3>3, <3>4 DEF Begin
  <2>2. \/ DOMAIN customers' = DOMAIN customers
        \/ DOMAIN customers' = DOMAIN customers \cup {nextCustomer}
    BY <1>4 DEF Begin, AddCustomer, Insert, AddTransaction, EditTransaction,
         DeleteTransaction, RecalculateScore, ScoreNoCustomer, ScoreReadBalance,
         ScoreReadTxns, ScoreSet, database
  <2>3. t \in DOMAIN txns => txns[t].customer # nextCustomer
    BY DEF IdsInv, IdsGivenOut, TypeOK, Txn, CustomerIds
  <2>4. StaysStored(t)
    BY <2>1, <2>2, <2>3 DEF StaysStored
  <2> QED BY <1>1, <2>1, <2>4, EntryKept DEF OrderlyInv
<1>5. CASE PurgeTxns(s)
  <2>1. /\ \A r \in Sessions \ {s} : call'[r] = call[r]
        /\ call'[s].pc # "inc" /\ customers' = customers
    BY <1>5 DEF PurgeTxns, Return, Idle, TypeOK
  <2>2. call[s].customer \notin DOMAIN customers
    BY <1>5 DEF PurgeTxns, IdsInv, PurgedIsGone, TypeOK, Call
  <2>3. /\ t \in DOMAIN txns' <=> t \in DOMAIN txns /\ txns[t].customer # call[s].customer
        /\ t \in DOMAIN txns' => txns'[t] = txns[t]
    BY <1>5 DEF PurgeTxns, Restrict
  <2>4. StaysStored(t)
    BY <2>1, <2>2, <2>3 DEF StaysStored
  <2> QED BY <1>1, <2>1, <2>4, EntryKept DEF OrderlyInv
<1> QED BY <1>2, <1>3, <1>4, <1>5 DEF Advance

\* The first delete of delete_customer takes the customer's entries out of the book.
LEMMA DropEntries ==
    ASSUME TypeOK, OrderlyInv, OneCallPerTxn', NEW s \in Sessions,
           NEW c \in CustomerIds, DeleteCustomer(s, c), NEW t \in TxnIds
    PROVE  /\ InBook(t)' <=> InBook(t) /\ BookEntry(t).customer # c
           /\ InBook(t)' => BookEntry(t)' = BookEntry(t)
<1>1. /\ call[s].pc = "idle" /\ \A r \in Sessions \ {s} : call'[r] = call[r]
      /\ call'[s].pc = "purge" /\ call'[s].kind = "drop" /\ call'[s].customer = c
      /\ txns' = txns /\ DOMAIN customers' = DOMAIN customers \ {c}
  <2>1. /\ [Idle EXCEPT !.pc = "purge", !.kind = "drop", !.customer = c].pc = "purge"
        /\ [Idle EXCEPT !.pc = "purge", !.kind = "drop", !.customer = c].kind = "drop"
        /\ [Idle EXCEPT !.pc = "purge", !.kind = "drop", !.customer = c].customer = c
    BY DEF Idle
  <2> QED BY <2>1 DEF DeleteCustomer, Restrict, TypeOK
<1>2. Shape(t) /\ (\A u \in TxnIds : Shape(u))'
  BY BookShape, BookShapeNext DEF OrderlyInv
<1>3. \A r \in Sessions : (call'[r].pc = "inc" /\ call'[r].txn = t) <=> Wrote(r, t)
  BY <1>1 DEF Wrote
<1>4. CASE \A r \in Sessions : ~Wrote(r, t)
  <2>1. /\ InBook(t) <=> t \in DOMAIN txns /\ txns[t].customer \in DOMAIN customers
        /\ BookEntry(t) = [customer |-> txns[t].customer, type |-> txns[t].type,
                           amount |-> txns[t].amount]
    BY <1>2, <1>4 DEF Shape
  <2>2. /\ InBook(t)' <=> t \in DOMAIN txns' /\ txns'[t].customer \in DOMAIN customers'
        /\ BookEntry(t)' = [customer |-> txns'[t].customer, type |-> txns'[t].type,
                            amount |-> txns'[t].amount]
    BY <1>2, <1>3, <1>4 DEF Shape, Wrote
  <2> QED BY <1>1, <2>1, <2>2
<1>5. CASE \E r \in Sessions : Wrote(r, t)
  <2>1. PICK r \in Sessions : Wrote(r, t)
    BY <1>5
  <2>2. r # s /\ call'[r] = call[r] /\ call[r].customer # c
    <3>1. r # s /\ call'[r] = call[r]
      BY <1>1, <2>1 DEF Wrote
    <3> QED BY <1>1, <2>1, <3>1 DEF OneCallPerTxn, Clash, Busy, Wrote
  <2>3. /\ InBook(t) <=> call[r].kind # "add"
        /\ BookEntry(t) = [customer |-> call[r].customer, type |-> call[r].type,
                           amount |-> call[r].old]
    BY <1>2, <2>1 DEF Shape
  <2>4. /\ InBook(t)' <=> call'[r].kind # "add"
        /\ BookEntry(t)' = [customer |-> call'[r].customer, type |-> call'[r].type,
                            amount |-> call'[r].old]
    BY <1>2, <1>3, <2>1 DEF Shape, Wrote
  <2> QED BY <2>2, <2>3, <2>4
<1> QED BY <1>4, <1>5

\* What transaction t, as it is in the book, adds to customer c's total of one type
Held(t, c, type) ==
    IF InBook(t) /\ BookEntry(t).customer = c /\ BookEntry(t).type = type
    THEN BookEntry(t).amount ELSE 0

TotalHeld(c, type) == SumFunction([t \in TxnIds |-> Held(t, c, type)])

\* The stored totals of every customer are those of the book.
BookTotals ==
    \A c \in DOMAIN customers :
        /\ customers[c].total_credit = TotalHeld(c, "credit")
        /\ customers[c].total_paid = TotalHeld(c, "payment")

\* What is in the book is about a customer there is.
LEMMA BookEntries ==
    TypeOK /\ OneCallPerTxn /\ WrittenIsThere =>
        \A t \in TxnIds : InBook(t) =>
            /\ BookEntry(t).customer \in DOMAIN customers
            /\ BookEntry(t).amount \in Int
<1> SUFFICES ASSUME TypeOK, OneCallPerTxn, WrittenIsThere, NEW t \in TxnIds, InBook(t)
             PROVE  BookEntry(t).customer \in DOMAIN customers /\ BookEntry(t).amount \in Int
  OBVIOUS
<1>1. Shape(t)
  BY BookShape
<1>2. CASE \A s \in Sessions : ~Wrote(s, t)
  <2>1. /\ t \in DOMAIN txns /\ txns[t].customer \in DOMAIN customers
        /\ BookEntry(t) = [customer |-> txns[t].customer, type |-> txns[t].type,
                           amount |-> txns[t].amount]
    BY <1>1, <1>2 DEF Shape
  <2>2. txns[t].amount \in Int
    BY <2>1 DEF TypeOK, Txn
  <2> QED BY <2>1, <2>2
<1>3. CASE \E s \in Sessions : Wrote(s, t)
  <2>1. PICK s \in Sessions : Wrote(s, t)
    BY <1>3
  <2>2. BookEntry(t) = [customer |-> call[s].customer, type |-> call[s].type,
                        amount |-> call[s].old]
    BY <1>1, <2>1 DEF Shape
  <2>3. call[s].old \in Int /\ call[s].customer \in DOMAIN customers
    BY <2>1 DEF Wrote, WrittenIsThere, TypeOK, Call, CallRecord
  <2> QED BY <2>2, <2>3
<1> QED BY <1>2, <1>3

\* What is held of a transaction, and of all, is an integer.
LEMMA HeldType ==
    TypeOK /\ OneCallPerTxn /\ WrittenIsThere =>
        \A c, type : /\ \A t \in TxnIds : Held(t, c, type) \in Int
                     /\ TotalHeld(c, type) \in Int
<1> SUFFICES ASSUME TypeOK, OneCallPerTxn, WrittenIsThere, NEW c, NEW type
             PROVE  /\ \A t \in TxnIds : Held(t, c, type) \in Int
                    /\ TotalHeld(c, type) \in Int
  OBVIOUS
<1>1. \A t \in TxnIds : Held(t, c, type) \in Int
  BY BookEntries DEF Held
<1>2. IsFiniteSet(TxnIds)
  BY FS_Interval, LedgerAssumption DEF TxnIds, LedgerAssumption
<1>3. [t \in TxnIds |-> Held(t, c, type)] \in [TxnIds -> Int]
  BY <1>1
<1> QED BY <1>1, <1>2, <1>3, SumType DEF TotalHeld

\* Both facts a step later
LEMMA HeldTypeNext ==
    TypeOK' /\ OneCallPerTxn' /\ WrittenIsThere' =>
        (\A c, type : /\ \A t \in TxnIds : Held(t, c, type) \in Int
                      /\ TotalHeld(c, type) \in Int)'
BY HeldType, PTL

\* A total is the same when what is held of every transaction is.
LEMMA TotalHeldSame ==
    ASSUME NEW c, NEW type, \A t \in TxnIds : Held(t, c, type)' = Held(t, c, type)
    PROVE  TotalHeld(c, type)' = TotalHeld(c, type)
<1>1. [t \in TxnIds |-> Held(t, c, type)'] = [t \in TxnIds |-> Held(t, c, type)]
  OBVIOUS
<1> QED BY <1>1 DEF TotalHeld

\* When one transaction's entry changes, a total changes by what is held of it.
LEMMA TotalHeldChange ==
    ASSUME TypeOK, OneCallPerTxn, WrittenIsThere, TypeOK', OneCallPerTxn', WrittenIsThere',
           NEW c, NEW type, NEW t \in TxnIds,
           \A u \in TxnIds \ {t} : Held(u, c, type)' = Held(u, c, type)
    PROVE  /\ TotalHeld(c, type)' - TotalHeld(c, type)
                = Held(t, c, type)' - Held(t, c, type)
           /\ TotalHeld(c, type) \in Int /\ TotalHeld(c, type)' \in Int
<1>1. PICK f : f = [u \in TxnIds |-> Held(u, c, type)]
  OBVIOUS
<1>2. PICK g : g = [u \in TxnIds |-> Held(u, c, type)']
  OBVIOUS
<1>3. /\ \A u \in TxnIds : Held(u, c, type) \in Int
      /\ TotalHeld(c, type) \in Int
  BY HeldType
<1>4. /\ \A u \in TxnIds : Held(u, c, type)' \in Int
      /\ TotalHeld(c, type)' \in Int
  BY HeldTypeNext
<1>5. f \in [TxnIds -> Int] /\ g \in [TxnIds -> Int]
  BY <1>1, <1>2, <1>3, <1>4
<1>6. \A u \in TxnIds \ {t} : f[u] = g[u]
  BY <1>1, <1>2
<1>7. IsFiniteSet(TxnIds)
  BY FS_Interval, LedgerAssumption DEF TxnIds, LedgerAssumption
<1>8. SumFunction(g) - SumFunction(f) = g[t] - f[t]
  BY <1>5, <1>6, <1>7, SumUpdate
<1>9. TotalHeld(c, type) = SumFunction(f) /\ TotalHeld(c, type)' = SumFunction(g)
  BY <1>1, <1>2 DEF TotalHeld
<1>10. f[t] = Held(t, c, type) /\ g[t] = Held(t, c, type)'
  BY <1>1, <1>2
<1> QED BY <1>3, <1>4, <1>8, <1>9, <1>10

\* An entry that stays the same is held the same.
LEMMA HeldSame ==
    ASSUME NEW t, SameEntry(t), NEW c, NEW type
    PROVE  Held(t, c, type)' = Held(t, c, type)
BY DEF SameEntry, Held

\* The $inc posts to the totals what the entry adds to those of the book.
LEMMA IncTotals ==
    ASSUME TypeOK, TypeOK', OrderlyInv, WrittenIsThere, WrittenIsThere', OneCallPerTxn',
           BookTotals, NEW s \in Sessions, IncCustomer(s)
    PROVE  BookTotals'
<1>1. PICK k : k = call[s]
  OBVIOUS
<1>2. /\ k \in Call /\ k.kind \in TxnCalls /\ k.txn \in TxnIds
      /\ \A t \in TxnIds \ {k.txn} : SameEntry(t)
      /\ InBook(k.txn) <=> k.kind # "add"
      /\ BookEntry(k.txn) = [customer |-> k.customer, type |-> k.type, amount |-> k.old]
      /\ InBook(k.txn)' <=> k.kind # "delete"
      /\ k.kind # "delete"
           => BookEntry(k.txn)' = [customer |-> k.customer, type |-> k.type,
                                   amount |-> k.new]
  BY <1>1, IncEntries
<1>3. /\ k.old \in Int /\ k.new \in Int /\ k.type \in TxnTypes
      /\ k.kind = "add" => k.old = 0
      /\ k.kind = "delete" => k.new = 0
  BY <1>2 DEF Call, CallRecord
<1>4. PICK u : u = k.txn
  OBVIOUS
<1>5. ASSUME NEW c, NEW type \in TxnTypes
      PROVE  TotalHeld(c, type)' = TotalHeld(c, type)
               + IF c = k.customer /\ type = k.type THEN k.new - k.old ELSE 0
  <2>1. Held(u, c, type)
          = IF k.kind # "add" /\ k.customer = c /\ k.type = type THEN k.old ELSE 0
    BY <1>2, <1>4 DEF Held
  <2>2. Held(u, c, type)'
          = IF k.kind # "delete" /\ k.customer = c /\ k.type = type THEN k.new ELSE 0
    <3>1. Held(u, c, type)'
            = IF InBook(u)' /\ BookEntry(u)'.customer = c /\ BookEntry(u)'.type = type
              THEN BookEntry(u)'.amount ELSE 0
      BY DEF Held
    <3> QED BY <1>2, <1>4, <3>1
  <2>3. \A t \in TxnIds \ {u} : Held(t, c, type)' = Held(t, c, type)
    BY <1>2, <1>4, HeldSame
  <2>4. /\ TotalHeld(c, type)' - TotalHeld(c, type) = Held(u, c, type)' - Held(u, c, type)
        /\ TotalHeld(c, type) \in Int /\ TotalHeld(c, type)' \in Int
    BY <1>2, <1>4, <2>3, TotalHeldChange DEF OrderlyInv
  <2>5. Held(u, c, type)' - Held(u, c, type)
          = IF c = k.customer /\ type = k.type THEN k.new - k.old ELSE 0
    BY <1>3, <2>1, <2>2
  <2> QED BY <1>3, <2>4, <2>5
<1>6. ASSUME NEW c \in DOMAIN customers'
      PROVE  /\ customers'[c].total_credit = TotalHeld(c, "credit")'
             /\ customers'[c].total_paid = TotalHeld(c, "payment")'
  <2>1. c \in DOMAIN customers
    BY <1>6 DEF IncCustomer
  <2>2. /\ customers'[c].total_credit
             = customers[c].total_credit + IF c = k.customer THEN CreditDelta(k) ELSE 0
        /\ customers'[c].total_paid
             = customers[c].total_paid + IF c = k.customer THEN PaidDelta(k) ELSE 0
    <3>1. CASE c = k.customer
      <4>1. customers'[c] = Posted(customers[c], k)
        BY <1>1, <2>1, <3>1 DEF IncCustomer
      <4> QED BY <3>1, <4>1 DEF Posted
    <3>2. CASE c # k.customer
      <4>1. customers'[c] = customers[c]
        BY <1>1, <2>1, <3>2 DEF IncCustomer
      <4>2. customers[c].total_credit \in Int /\ customers[c].total_paid \in Int
        BY <2>1 DEF TypeOK, Customer
      <4> QED BY <3>2, <4>1, <4>2
    <3> QED BY <3>1, <3>2
  <2>3. /\ customers[c].total_credit = TotalHeld(c, "credit")
        /\ customers[c].total_paid = TotalHeld(c, "payment")
    BY <2>1 DEF BookTotals
  <2>4. /\ CreditDelta(k) = IF "credit" = k.type THEN k.new - k.old ELSE 0
        /\ PaidDelta(k) = IF "payment" = k.type THEN k.new - k.old ELSE 0
    BY DEF CreditDelta, PaidDelta
  <2>5. /\ TotalHeld(c, "credit")' = TotalHeld(c, "credit")
             + IF c = k.customer /\ "credit" = k.type THEN k.new - k.old ELSE 0
        /\ TotalHeld(c, "payment")' = TotalHeld(c, "payment")
             + IF c = k.customer /\ "payment" = k.type THEN k.new - k.old ELSE 0
    BY <1>5 DEF TxnTypes
  <2> QED BY <2>2, <2>3, <2>4, <2>5
<1> QED BY <1>6 DEF BookTotals

\* A step that adds no customer, deletes none and posts nothing leaves the totals alone.
LEMMA TotalsUntouched ==
    ASSUME TypeOK, NEW s \in Sessions, Begin(s) \/ Advance(s), ~AddCustomer(s),
           ~IncCustomer(s), ~\E c \in CustomerIds : DeleteCustomer(s, c)
    PROVE  /\ DOMAIN customers' = DOMAIN customers
           /\ \A c \in DOMAIN customers :
                 /\ customers'[c].balance = customers[c].balance
                 /\ customers'[c].total_credit = customers[c].total_credit
                 /\ customers'[c].total_paid = customers[c].total_paid
<1>1. CASE Begin(s)
  BY <1>1 DEF Begin, AddTransaction, EditTransaction, DeleteTransaction,
              RecalculateScore, database
<1>2. CASE ScoreSet(s)
  BY <1>2 DEF ScoreSet, TypeOK, Customer
<1>3. CASE Advance(s) /\ ~ScoreSet(s)
  BY <1>3 DEF Advance, InsertTxn, UpdateTxn, RemoveTxn, ScoreNoCustomer,
              ScoreReadBalance, ScoreReadTxns, PurgeTxns, database
<1> QED BY <1>1, <1>2, <1>3

\* Every step keeps the stored totals those of the book.
LEMMA StepTotals ==
    ASSUME TypeOK, TypeOK', IdsInv, OrderlyInv, WrittenIsThere, WrittenIsThere',
           OneCallPerTxn', BookTotals, NEW s \in Sessions, Begin(s) \/ Advance(s)
    PROVE  BookTotals'
<1>1. CASE IncCustomer(s)
  BY <1>1, IncTotals
<1>2. ASSUME NEW d \in CustomerIds, DeleteCustomer(s, d)
      PROVE  BookTotals'
  <2>1. /\ DOMAIN customers' = DOMAIN customers \ {d}
        /\ \A c \in DOMAIN customers' : customers'[c] = customers[c]
    BY <1>2 DEF DeleteCustomer, Restrict
  <2>2. ASSUME NEW c, c # d, NEW type
        PROVE  TotalHeld(c, type)' = TotalHeld(c, type)
    <3>1. ASSUME NEW t \in TxnIds
          PROVE  Held(t, c, type)' = Held(t, c, type)
      <4>1. /\ InBook(t)' <=> InBook(t) /\ BookEntry(t).customer # d
            /\ InBook(t)' => BookEntry(t)' = BookEntry(t)
        BY <1>2, DropEntries
      <4>2. Held(t, c, type)'
              = IF InBook(t)' /\ BookEntry(t)'.customer = c /\ BookEntry(t)'.type = type
                THEN BookEntry(t)'.amount ELSE 0
        BY DEF Held
      <4> QED BY <2>2, <4>1, <4>2 DEF Held
    <3> QED BY <3>1, TotalHeldSame
  <2>3. ASSUME NEW c \in DOMAIN customers'
        PROVE  /\ customers'[c].total_credit = TotalHeld(c, "credit")'
               /\ customers'[c].total_paid = TotalHeld(c, "payment")'
    BY <2>1, <2>2 DEF BookTotals
  <2> QED BY <2>3 DEF BookTotals
<1>3. CASE ~IncCustomer(s) /\ ~\E c \in CustomerIds : DeleteCustomer(s, c)
  <2>1. ASSUME NEW c, NEW type
        PROVE  TotalHeld(c, type)' = TotalHeld(c, type)
    <3>1. \A t \in TxnIds : SameEntry(t)
      BY <1>3, QuietEntries
    <3> QED BY <3>1, HeldSame, TotalHeldSame
  <2>2. CASE AddCustomer(s)
    <3>1. /\ DOMAIN customers' = DOMAIN customers \cup {nextCustomer}
          /\ \A c \in DOMAIN customers : c # nextCustomer /\ customers'[c] = customers[c]
          /\ customers'[nextCustomer].total_credit = 0
          /\ customers'[nextCustomer].total_paid = 0
      <4>1. nextCustomer \notin DOMAIN customers
        BY DEF IdsInv, IdsGivenOut, TypeOK, CustomerIds
      <4> QED BY <2>2, <4>1 DEF AddCustomer, Insert
    <3>2. ASSUME NEW type
          PROVE  TotalHeld(nextCustomer, type) = 0
      <4>1. PICK n : n = nextCustomer
        OBVIOUS
      <4>2. n \notin DOMAIN customers
        BY <3>1, <4>1
      <4>3. \A t \in TxnIds : Held(t, n, type) = 0
        BY <4>2, BookEntries DEF OrderlyInv, Held
      <4>4. PICK f : f = [t \in TxnIds |-> Held(t, n, type)]
        OBVIOUS
      <4>5. f \in [TxnIds -> Int] /\ (\A t \in TxnIds : f[t] = 0) /\ IsFiniteSet(TxnIds)
        BY <4>3, <4>4, FS_Interval, LedgerAssumption DEF TxnIds, LedgerAssumption
      <4> QED BY <4>1, <4>4, <4>5, SumZero DEF TotalHeld
    <3>3. PICK n : n = nextCustomer
      OBVIOUS
    <3>4. TotalHeld(n, "credit") = 0 /\ TotalHeld(n, "payment") = 0
      BY <3>2, <3>3
    <3>5. ASSUME NEW c \in DOMAIN customers'
          PROVE  /\ customers'[c].total_credit = TotalHeld(c, "credit")'
                 /\ customers'[c].total_paid = TotalHeld(c, "payment")'
      <4>1. CASE c = n
        BY <2>1, <3>1, <3>3, <3>4, <4>1
      <4>2. CASE c # n
        BY <2>1, <3>1, <3>3, <4>2 DEF BookTotals
      <4> QED BY <4>1, <4>2
    <3> QED BY <3>5 DEF BookTotals
  <2>3. CASE ~AddCustomer(s)
    <3>1. /\ DOMAIN customers' = DOMAIN customers
          /\ \A c \in DOMAIN customers :
                /\ customers'[c].total_credit = customers[c].total_credit
                /\ customers'[c].total_paid = customers[c].total_paid
      BY <1>3, <2>3, TotalsUntouched
    <3>2. ASSUME NEW c \in DOMAIN customers'
          PROVE  /\ customers'[c].total_credit = TotalHeld(c, "credit")'
                 /\ customers'[c].total_paid = TotalHeld(c, "payment")'
      BY <2>1, <3>1 DEF BookTotals
    <3> QED BY <3>2 DEF BookTotals
  <2> QED BY <2>2, <2>3
<1> QED BY <1>1, <1>2, <1>3

\* LedgerBook's sums are the ledger's.
LEMMA SameSum ==
    ASSUME NEW f
    PROVE  Book!SumFunction(f) = SumFunction(f)
BY DEF SumFunction, SumFunctionOnSet, FoldFunctionOnSet, MapThenFoldSet,
       Book!SumFunction, Book!SumFunctionOnSet, Book!FoldFunctionOnSet, Book!MapThenFoldSet

\* What LedgerBook finds a customer's total to be
LEMMA SameTotal ==
    ASSUME NEW c, NEW type
    PROVE  Book!TotalOf(BookNow, c, type) = TotalHeld(c, type)
<1>1. PICK b : b = BookNow
  OBVIOUS
<1>2. /\ DOMAIN b = {u \in TxnIds : InBook(u)}
      /\ \A t \in DOMAIN b : b[t] = BookEntry(t)
  BY <1>1 DEF BookNow
<1>3. PICK f : f = [t \in TxnIds |->
                      IF t \in DOMAIN b /\ b[t].customer = c /\ b[t].type = type
                      THEN b[t].amount ELSE 0]
  OBVIOUS
<1>4. PICK g : g = [t \in TxnIds |-> Held(t, c, type)]
  OBVIOUS
<1>5. f = g
  <2>1. ASSUME NEW t \in TxnIds
        PROVE  f[t] = g[t]
    BY <1>2, <1>3, <1>4 DEF Held
  <2>2. DOMAIN f = TxnIds /\ DOMAIN g = TxnIds
    BY <1>3, <1>4
  <2> QED BY <1>3, <1>4, <2>1, <2>2
<1>6. Book!TotalOf(b, c, type) = SumFunction(f)
  BY <1>3, SameSum DEF Book!TotalOf, Book!EntryIds, TxnIds
<1> QED BY <1>1, <1>4, <1>5, <1>6 DEF TotalHeld

\* The stored totals are those LedgerBook promises.
TotalsAreTotalled == TotalsNow = [c \in DOMAIN customers |-> Book!TotalsOf(BookNow, c)]

LEMMA TotalsTotalled ==
    TypeOK /\ BookTotals /\ BalanceIsCreditLessPaid => TotalsAreTotalled
<1> SUFFICES ASSUME TypeOK, BookTotals, BalanceIsCreditLessPaid
             PROVE  TotalsAreTotalled
  OBVIOUS
<1>1. ASSUME NEW c \in DOMAIN customers
      PROVE  Book!TotalsOf(BookNow, c)
               = [balance |-> customers[c].balance,
                  total_credit |-> customers[c].total_credit,
                  total_paid |-> customers[c].total_paid]
  <2>1. /\ customers[c].total_credit = Book!TotalOf(BookNow, c, "credit")
        /\ customers[c].total_paid = Book!TotalOf(BookNow, c, "payment")
    BY SameTotal DEF BookTotals
  <2>2. customers[c].balance = customers[c].total_credit - customers[c].total_paid
    BY DEF BalanceIsCreditLessPaid
  <2> QED BY <2>1, <2>2 DEF Book!TotalsOf
<1> QED BY <1>1 DEF TotalsAreTotalled, TotalsNow

\* The same a step later
LEMMA TotalsTotalledNext ==
    TypeOK' /\ BookTotals' /\ BalanceIsCreditLessPaid' => TotalsAreTotalled'
BY TotalsTotalled, PTL

\* Totals that are totalled after a step are those LedgerBook asks of the step.
LEMMA TotalledIsPromised ==
    ASSUME TotalsAreTotalled'
    PROVE  Book!Totalled
BY Zenon DEF TotalsAreTotalled, Book!Totalled

\* A posting is an entry recorded, amended or struck.
LEMMA PostingStepsBook ==
    ASSUME TypeOK, OrderlyInv, WrittenIsThere, OneCallPerTxn', NEW s \in Sessions,
           IncCustomer(s), TotalsAreTotalled'
    PROVE  Book!BookNext
<1>1. PICK k : k = call[s]
  OBVIOUS
<1>2. PICK t : t = k.txn
  OBVIOUS
<1>b. PICK b : b = BookNow
  OBVIOUS
<1>d. PICK d : d = BookNow'
  OBVIOUS
<1>3. /\ k \in Call /\ k.kind \in TxnCalls /\ k.customer \in DOMAIN customers
      /\ t \in TxnIds /\ (k.kind # "delete" => k.new \in Amounts)
      /\ \A u \in TxnIds \ {t} : SameEntry(u)
      /\ InBook(t) <=> k.kind # "add"
      /\ BookEntry(t) = [customer |-> k.customer, type |-> k.type, amount |-> k.old]
      /\ InBook(t)' <=> k.kind # "delete"
      /\ k.kind # "delete"
           => BookEntry(t)' = [customer |-> k.customer, type |-> k.type, amount |-> k.new]
  BY <1>1, <1>2, IncEntries
<1>4. /\ k.customer \in Book!Accounts /\ t \in Book!EntryIds /\ k.type \in {"credit", "payment"}
  BY <1>3 DEF TypeOK, Call, CallRecord, TxnTypes, CustomerIds, TxnIds,
              Book!Accounts, Book!EntryIds
<1>5. Book!Totalled /\ UNCHANGED DOMAIN customers
  BY TotalledIsPromised DEF IncCustomer
<1>6. /\ b = [u \in DOMAIN b |-> b[u]]
      /\ \A u : u \in DOMAIN b <=> u \in TxnIds /\ InBook(u)
      /\ \A u \in DOMAIN b : b[u] = BookEntry(u)
  BY <1>b DEF BookNow
<1>7. /\ d = [u \in DOMAIN d |-> d[u]]
      /\ \A u : u \in DOMAIN d <=> u \in TxnIds /\ InBook(u)'
      /\ \A u \in DOMAIN d : d[u] = BookEntry(u)'
  BY <1>d DEF BookNow
<1>8. /\ \A u : u # t => (u \in DOMAIN d <=> u \in DOMAIN b)
      /\ \A u \in DOMAIN b \ {t} : d[u] = b[u]
  BY <1>3, <1>6, <1>7 DEF SameEntry
<1>9. CASE k.kind = "add"
  <2>1. t \notin DOMAIN b /\ DOMAIN d = DOMAIN b \cup {t}
    BY <1>3, <1>6, <1>7, <1>8, <1>9
  <2>2. d[t] = [customer |-> k.customer, type |-> k.type, amount |-> k.new]
    BY <1>3, <1>7, <1>9, <2>1
  <2>3. d = [u \in DOMAIN b \cup {t} |->
               IF u = t THEN [customer |-> k.customer, type |-> k.type, amount |-> k.new]
               ELSE b[u]]
    BY <1>7, <1>8, <2>1, <2>2
  <2>4. BookNow' = [u \in DOMAIN BookNow \cup {t} |->
                      IF u = t
                      THEN [customer |-> k.customer, type |-> k.type, amount |-> k.new]
                      ELSE BookNow[u]]
    BY Zenon, <1>b, <1>d, <2>3
  <2>5. t \notin DOMAIN BookNow
    BY Zenon, <1>b, <2>1
  <2>6. Book!RecordEntry(t, k.customer, k.type, k.new)
    BY Zenon, <1>3, <1>5, <2>4, <2>5 DEF Book!RecordEntry
  <2>7. k.new \in Amounts
    BY <1>3, <1>9
  <2> QED BY Zenon, <1>4, <2>6, <2>7 DEF Book!BookNext
<1>10. CASE k.kind = "edit"
  <2>1. t \in DOMAIN b /\ DOMAIN d = DOMAIN b
    BY <1>3, <1>6, <1>7, <1>8, <1>10
  <2>2. PICK e : e = [customer |-> k.customer, type |-> k.type, amount |-> k.new]
    OBVIOUS
  <2>3. d[t] = e
    BY <1>3, <1>7, <1>10, <2>1, <2>2
  <2>4. b[t] = [customer |-> k.customer, type |-> k.type, amount |-> k.old]
    BY <1>3, <1>6, <2>1
  <2>5. e = [b[t] EXCEPT !.amount = k.new]
    BY <2>2, <2>4
  <2>6. d = [b EXCEPT ![t] = e]
    BY <1>6, <1>7, <1>8, <2>1, <2>3
  <2>7. d = [b EXCEPT ![t].amount = k.new]
    BY Zenon, <2>5, <2>6
  <2>8. BookNow' = [BookNow EXCEPT ![t].amount = k.new] /\ t \in DOMAIN BookNow
    BY Zenon, <1>b, <1>d, <2>1, <2>7
  <2>9. Book!AmendEntry(t, k.new)
    BY Zenon, <1>5, <2>8 DEF Book!AmendEntry
  <2>10. k.new \in Amounts
    BY <1>3, <1>10
  <2> QED BY Zenon, <1>4, <2>9, <2>10 DEF Book!BookNext
<1>11. CASE k.kind = "delete"
  <2>1. t \in DOMAIN b /\ DOMAIN d = DOMAIN b \ {t}
    BY <1>3, <1>6, <1>7, <1>8, <1>11
  <2>2. d = [u \in DOMAIN b \ {t} |-> b[u]]
    BY <1>7, <1>8, <2>1
  <2>3. /\ BookNow' = [u \in DOMAIN BookNow \ {t} |-> BookNow[u]]
        /\ t \in DOMAIN BookNow
    BY Zenon, <1>b, <1>d, <2>1, <2>2
  <2>4. Book!StrikeEntry(t)
    BY Zenon, <1>5, <2>3 DEF Book!StrikeEntry, Book!Restrict
  <2> QED BY Zenon, <1>4, <2>4 DEF Book!BookNext
<1> QED BY <1>3, <1>9, <1>10, <1>11 DEF TxnCalls

\* The first delete of delete_customer closes the account.
LEMMA DropStepsBook ==
    ASSUME TypeOK, OrderlyInv, OneCallPerTxn', NEW s \in Sessions,
           NEW c \in CustomerIds, DeleteCustomer(s, c), TotalsAreTotalled'
    PROVE  Book!BookNext
<1>1. PICK b : b = BookNow
  OBVIOUS
<1>2. PICK d : d = BookNow'
  OBVIOUS
<1>3. /\ b = [u \in DOMAIN b |-> b[u]]
      /\ \A u : u \in DOMAIN b <=> u \in TxnIds /\ InBook(u)
      /\ \A u \in DOMAIN b : b[u] = BookEntry(u)
  BY <1>1 DEF BookNow
<1>4. /\ d = [u \in DOMAIN d |-> d[u]]
      /\ \A u : u \in DOMAIN d <=> u \in TxnIds /\ InBook(u)'
      /\ \A u \in DOMAIN d : d[u] = BookEntry(u)'
  BY <1>2 DEF BookNow
<1>5. \A t \in TxnIds : /\ InBook(t)' <=> InBook(t) /\ BookEntry(t).customer # c
                        /\ InBook(t)' => BookEntry(t)' = BookEntry(t)
  BY DropEntries
<1>6. PICK D : D = {t \in DOMAIN b : b[t].customer # c}
  OBVIOUS
<1>7. DOMAIN d = D /\ \A u \in D : d[u] = b[u]
  <2>1. ASSUME NEW u
        PROVE  u \in DOMAIN d <=> u \in D
    BY <1>3, <1>4, <1>5, <1>6
  <2>2. ASSUME NEW u \in D
        PROVE  d[u] = b[u]
    BY <1>3, <1>4, <1>5, <1>6, <2>1
  <2>3. DOMAIN d = D
    BY <2>1
  <2> QED BY <2>2, <2>3
<1>8. d = [u \in D |-> b[u]]
  BY <1>4, <1>7
<1>9. BookNow' = [u \in {t \in DOMAIN BookNow : BookNow[t].customer # c} |-> BookNow[u]]
  BY Zenon, <1>1, <1>2, <1>6, <1>8
<1>10. c \in DOMAIN customers /\ (DOMAIN customers)' = DOMAIN customers \ {c}
  BY DEF DeleteCustomer, Finds, Restrict
<1>11. Book!Totalled
  BY TotalledIsPromised
<1>12. Book!CloseAccount(c)
  BY Zenon, <1>9, <1>10, <1>11 DEF Book!CloseAccount, Book!Restrict
<1>13. c \in Book!Accounts
  BY DEF Book!Accounts, CustomerIds
<1> QED BY Zenon, <1>12, <1>13 DEF Book!BookNext

\* No other step changes the book.
LEMMA QuietBook ==
    ASSUME \A t \in TxnIds : SameEntry(t)
    PROVE  BookNow' = BookNow
<1>1. PICK b : b = BookNow
  OBVIOUS
<1>2. PICK d : d = BookNow'
  OBVIOUS
<1>3. /\ b = [u \in DOMAIN b |-> b[u]]
      /\ \A u : u \in DOMAIN b <=> u \in TxnIds /\ InBook(u)
      /\ \A u \in DOMAIN b : b[u] = BookEntry(u)
  BY <1>1 DEF BookNow
<1>4. /\ d = [u \in DOMAIN d |-> d[u]]
      /\ \A u : u \in DOMAIN d <=> u \in TxnIds /\ InBook(u)'
      /\ \A u \in DOMAIN d : d[u] = BookEntry(u)'
  BY <1>2 DEF BookNow
<1>5. DOMAIN d = DOMAIN b /\ \A u \in DOMAIN b : d[u] = b[u]
  BY <1>3, <1>4 DEF SameEntry
<1>6. d = b
  BY <1>3, <1>4, <1>5
<1> QED BY <1>1, <1>2, <1>6

\* Every orderly step is one of LedgerBook, or changes nothing it can see.
LEMMA OrderlyStepsLedgerBook ==
    ASSUME TypeOK, IdsInv, OrderlyInv, WrittenIsThere, OneCallPerTxn', NEW s \in Sessions,
           Begin(s) \/ Advance(s), TotalsAreTotalled'
    PROVE  [Book!BookNext]_Book!bookVars
<1>1. CASE IncCustomer(s)
  BY Zenon, <1>1, PostingStepsBook
<1>2. ASSUME NEW c \in CustomerIds, DeleteCustomer(s, c)
      PROVE  Book!BookNext
  BY Zenon, <1>2, DropStepsBook
<1>3. CASE ~IncCustomer(s) /\ ~\E c \in CustomerIds : DeleteCustomer(s, c)
  <2>1. BookNow' = BookNow
    <3>1. \A t \in TxnIds : SameEntry(t)
      BY <1>3, QuietEntries
    <3> QED BY Zenon, <3>1, QuietBook
  <2>2. CASE AddCustomer(s)
    <3>1. PICK c : c = nextCustomer
      OBVIOUS
    <3>2. /\ c \notin DOMAIN customers
          /\ (DOMAIN customers)' = DOMAIN customers \cup {c}
          /\ c \in Book!Accounts
      BY <2>2, <3>1, LedgerAssumption
         DEF AddCustomer, Insert, IdsInv, IdsGivenOut, TypeOK, CustomerIds, Book!Accounts,
             LedgerAssumption
    <3>3. Book!OpenAccount(c)
      BY Zenon, <2>1, <3>2, TotalledIsPromised DEF Book!OpenAccount
    <3> QED BY Zenon, <3>2, <3>3 DEF Book!BookNext
  <2>3. CASE ~AddCustomer(s)
    <3>1. /\ DOMAIN customers' = DOMAIN customers
          /\ \A c \in DOMAIN customers :
                /\ customers'[c].balance = customers[c].balance
                /\ customers'[c].total_credit = customers[c].total_credit
                /\ customers'[c].total_paid = customers[c].total_paid
      BY <1>3, <2>3, TotalsUntouched
    <3>2. TotalsNow' = TotalsNow
      BY <3>1 DEF TotalsNow
    <3>3. UNCHANGED Book!bookVars
      BY Zenon, <2>1, <3>1, <3>2 DEF Book!bookVars
    <3> QED BY Zenon, <3>3
  <2> QED BY <2>2, <2>3
<1> QED BY Zenon, <1>1, <1>2, <1>3

\* The stored totals are those of the book, at every moment of orderly use.
LEMMA TotalsInvariant ==
    OrderlySpec => [](/\ TypeOK /\ IdsInv /\ OrderlyInv /\ WrittenIsThere
                      /\ BookTotals /\ TotalsAreTotalled)
<1>1. Init => BookTotals
  <2>1. Init => DOMAIN customers = {}
    BY DEF Init
  <2> QED BY <2>1 DEF BookTotals
<1>2. ASSUME TypeOK, TypeOK', IdsInv, OrderlyInv, WrittenIsThere, WrittenIsThere',
             OrderlyInv', BookTotals, [OrderlyNext]_vars
      PROVE  BookTotals'
  <2>1. CASE UNCHANGED vars
    <3>1. UNCHANGED <<customers, txns, call>>
      BY <2>1 DEF vars
    <3>2. \A t \in TxnIds : /\ InBook(t)' <=> InBook(t)
                           /\ BookEntry(t)' = BookEntry(t)
      BY <3>1 DEF InBook, BookEntry, Wrote
    <3>3. ASSUME NEW c, NEW type
          PROVE  TotalHeld(c, type)' = TotalHeld(c, type)
      BY Zenon, <3>2 DEF TotalHeld, Held
    <3> QED BY Zenon, <1>2, <3>1, <3>3 DEF BookTotals
  <2>2. CASE OrderlyNext
    BY <1>2, <2>2, StepTotals DEF OrderlyNext, UncutNext
  <2> QED BY <1>2, <2>1, <2>2
<1>3. OrderlySpec => [](TypeOK /\ IdsInv /\ OrderlyInv /\ WrittenIsThere /\ BookTotals)
  BY <1>1, <1>2, WrittenInvariant, PTL DEF OrderlySpec
<1>4. OrderlySpec => []BalanceIsCreditLessPaid
  BY OrderlyIsSpec, BalanceAlwaysCreditLessPaid, PTL
<1> QED BY <1>3, <1>4, TotalsTotalled, PTL

\* As long as calls do not clash, the ledger is the book it promises to be: every
\* add, edit and delete is one step of the entries and their totals, taken at its
\* $inc, and a customer goes with all its entries at once.
THEOREM LedgerImplementsBook == OrderlySpec => ImplementsBook
<1>1. Init => Book!BookInit
  <2> SUFFICES ASSUME Init
               PROVE  Book!BookInit
    OBVIOUS
  <2>1. DOMAIN customers = {} /\ DOMAIN txns = {}
    BY DEF Init
  <2>2. \A t \in TxnIds : ~InBook(t)
    BY <2>1 DEF Init, InBook, Wrote, Idle
  <2>3. {u \in TxnIds : InBook(u)} = {}
    BY <2>2
  <2>4. BookNow = [t \in {} |-> 0]
    BY <2>3 DEF BookNow
  <2>5. TotalsNow = [c \in {} |-> 0]
    BY <2>1 DEF TotalsNow
  <2> QED BY Zenon, <2>1, <2>4, <2>5 DEF Book!BookInit
<1>2. ASSUME TypeOK, IdsInv, OrderlyInv, WrittenIsThere, OrderlyInv', TotalsAreTotalled',
             [OrderlyNext]_vars
      PROVE  [Book!BookNext]_Book!bookVars
  <2>1. CASE UNCHANGED vars
    <3>1. BookNow' = BookNow
      BY <2>1 DEF BookNow, InBook, BookEntry, Wrote, vars
    <3>2. TotalsNow' = TotalsNow /\ (DOMAIN customers)' = DOMAIN customers
      BY <2>1 DEF TotalsNow, vars
    <3> QED BY Zenon, <3>1, <3>2 DEF Book!bookVars
  <2>2. CASE OrderlyNext
    <3>1. PICK s \in Sessions : Begin(s) \/ Advance(s)
      BY <2>2 DEF OrderlyNext, UncutNext
    <3>2. OneCallPerTxn'
      BY <2>2 DEF OrderlyNext
    <3> QED BY Zenon, <1>2, <3>1, <3>2, OrderlyStepsLedgerBook
  <2> QED BY <1>2, <2>1, <2>2
<1> QED
  BY <1>1, <1>2, TotalsInvariant, PTL DEF OrderlySpec, ImplementsBook, Book!BookSpec
=============================================================================
