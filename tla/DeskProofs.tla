----------------------------- MODULE DeskProofs -----------------------------
(***************************************************************************)
(* Theorems about Desk, for any sessions, merchants, amounts and bounds.   *)
(* What is proved of the ledger in any interleaving, with calls cut short, *)
(* carries over, since the pages use it that way.                          *)
(***************************************************************************)
EXTENDS Desk, LedgerBalanceProofs

-----------------------------------------------------------------------------
(* The pages and the ledger *)

\* A step of a page that is not one of the ledger leaves all of it alone.
LEMMA PageStepLeavesLedger ==
    ASSUME NEW s \in Sessions, PageStep(s)
    PROVE  UNCHANGED vars
BY DEF PageStep, Login, Logout, PortalLogin, PortalLogout, ReadNewBalance, WriteLog,
       SendReceipt, ListCustomer, MakeInvoice, ClearLog

\* The pages use the ledger as it is: every step of theirs is one of the ledger's, or
\* leaves it alone.
LEMMA DeskUsesLedger == DeskSpec => Spec
<1>1. DeskInit => Init
  BY DEF DeskInit
<1>2. [DeskNext]_deskVars => [Next]_vars
  <2>1. CASE UNCHANGED deskVars
    BY <2>1 DEF deskVars
  <2>2. ASSUME NEW s \in Sessions, Work(s) \/ Continue(s) \/ Cut(s)
        PROVE  [Next]_vars
    BY <2>2 DEF Work, Continue, Cut, Next
  <2> QED BY <2>1, <2>2, PageStepLeavesLedger DEF DeskNext
<1> QED BY <1>1, <1>2, PTL DEF DeskSpec, Spec

-----------------------------------------------------------------------------
(* Types *)

\* The types of the pages' variables
PageTypes ==
    /\ user \in [Sessions -> {"nobody", "merchant", "customer"}]
    /\ page \in [Sessions -> Page]
    /\ view \in [Sessions -> View]
    /\ log \subseteq LogEntry
    /\ wiped \subseteq Merchants
    /\ lost \subseteq LogEntry
    /\ due \in [Sessions -> Int]

\* A script run has the type of one.
LEMMA DoingType ==
    ASSUME NEW task \in {"none", "call", "balance", "log", "receipt", "invoice"},
           NEW action \in Actions \cup {"none"}, NEW t \in TxnIds \cup {0},
           NEW c \in CustomerIds \cup {0}
    PROVE  Doing(task, action, t, c) \in Page
BY DEF Doing, Page

\* The log entry of every kind of call
LEMMA ActionOfType ==
    ASSUME NEW k \in Call
    PROVE  ActionOf(k.kind) \in Actions \cup {"none"}
BY DEF ActionOf, Actions

\* What a session has read of a customer has the type of a view.
LEMMA LookType ==
    ASSUME TypeOK, NEW c \in DOMAIN customers
    PROVE  Look(c) \in View
BY DEF TypeOK, Customer, Look, View

\* Nothing read is a view of its own.
LEMMA NoViewType == NoView \in View
BY DEF NoView, View

\* The line of a page that has an action is a log entry.
LEMMA LineType ==
    ASSUME PageTypes, NEW s \in Sessions, page[s].action # "none"
    PROVE  LineOf(s) \in LogEntry
BY LedgerAssumption DEF LedgerAssumption, PageTypes, Page, LineOf, Line, LogEntry

\* A call that begins is the session's only one; an addition of a customer is over
\* at once.
LEMMA BeginCalls ==
    ASSUME TypeOK, NEW s \in Sessions, Begin(s)
    PROVE  /\ call[s].pc = "idle"
           /\ \A r \in Sessions \ {s} : call'[r] = call[r]
           /\ \/ AddCustomer(s) /\ call' = call
              \/ call'[s].kind # "none"
<1>1. call \in [Sessions -> Call]
  BY DEF TypeOK
<1>2. ASSUME NEW c \in CustomerIds, RecalculateScore(s, c)
      PROVE  call'[s].kind # "none"
  <2>1. [Idle EXCEPT !.pc = "score_customer", !.kind = "recalc", !.customer = c].kind
            = "recalc"
    BY Zenon DEF Idle
  <2>2. call'[s] = [Idle EXCEPT !.pc = "score_customer", !.kind = "recalc",
                                !.customer = c]
    BY <1>1, <1>2, Zenon DEF RecalculateScore
  <2> QED BY <2>1, <2>2
<1>3. ASSUME NEW c \in CustomerIds, DeleteCustomer(s, c)
      PROVE  call'[s].kind # "none"
  <2>1. [Idle EXCEPT !.pc = "purge", !.kind = "drop", !.customer = c].kind = "drop"
    BY Zenon DEF Idle
  <2>2. call'[s] = [Idle EXCEPT !.pc = "purge", !.kind = "drop", !.customer = c]
    BY <1>1, <1>3, Zenon DEF DeleteCustomer
  <2> QED BY <2>1, <2>2
<1>4. ASSUME NEW c \in CustomerIds, NEW type \in TxnTypes, NEW a \in Amounts,
             AddTransaction(s, c, type, a)
      PROVE  call'[s].kind # "none"
  BY <1>1, <1>4 DEF AddTransaction
<1>5. ASSUME NEW t \in TxnIds,
             DeleteTransaction(s, t) \/ \E a \in Amounts : EditTransaction(s, t, a)
      PROVE  call'[s].kind # "none"
  BY <1>1, <1>5 DEF DeleteTransaction, EditTransaction
<1>6. call[s].pc = "idle" /\ \A r \in Sessions \ {s} : call'[r] = call[r]
  BY <1>1 DEF Begin, AddCustomer, AddTransaction, EditTransaction,
     DeleteTransaction, RecalculateScore, DeleteCustomer
<1>7. AddCustomer(s) => call' = call
  BY DEF AddCustomer
<1> QED BY <1>2, <1>3, <1>4, <1>5, <1>6, <1>7 DEF Begin

\* A call that begins as an addition is one of add_transaction.
LEMMA BeginAdds ==
    ASSUME TypeOK, NEW s \in Sessions, Begin(s), call'[s].kind = "add"
    PROVE  \E c \in CustomerIds, type \in TxnTypes, a \in Amounts :
              AddTransaction(s, c, type, a)
<1>1. call \in [Sessions -> Call] /\ call[s] \in Call
  BY DEF TypeOK
<1>2. \A c : [Idle EXCEPT !.pc = "score_customer", !.kind = "recalc", !.customer = c].kind
                 = "recalc"
  BY Zenon DEF Idle
<1>3. \A c : [Idle EXCEPT !.pc = "purge", !.kind = "drop", !.customer = c].kind = "drop"
  BY Zenon DEF Idle
<1>4. ASSUME NEW c \in CustomerIds, RecalculateScore(s, c)
      PROVE  FALSE
  <2>1. call'[s] = [Idle EXCEPT !.pc = "score_customer", !.kind = "recalc",
                                !.customer = c]
    BY <1>1, <1>4, Zenon DEF RecalculateScore
  <2> QED BY <1>2, <2>1
<1>5. ASSUME NEW c \in CustomerIds, DeleteCustomer(s, c)
      PROVE  FALSE
  <2>1. call'[s] = [Idle EXCEPT !.pc = "purge", !.kind = "drop", !.customer = c]
    BY <1>1, <1>5, Zenon DEF DeleteCustomer
  <2> QED BY <1>3, <2>1
<1>6. ~(\E t \in TxnIds, a \in Amounts : EditTransaction(s, t, a))
  BY <1>1 DEF EditTransaction
<1>7. ~(\E t \in TxnIds : DeleteTransaction(s, t))
  BY <1>1 DEF DeleteTransaction
<1>8. ~AddCustomer(s)
  BY <1>1 DEF AddCustomer, Call
<1> QED BY <1>4, <1>5, <1>6, <1>7, <1>8 DEF Begin

\* A call that goes on stays what it is about, or ends.
LEMMA AdvanceCalls ==
    ASSUME TypeOK, NEW s \in Sessions, Advance(s)
    PROVE  /\ Busy(s)
           /\ \A r \in Sessions \ {s} : call'[r] = call[r]
           /\ UNCHANGED <<nextCustomer, nextTxn>>
           /\ \/ call'[s] = Idle
              \/ /\ call'[s].kind = call[s].kind /\ call'[s].pc \notin {"idle", "write"}
                 /\ call'[s].txn = call[s].txn /\ call'[s].customer = call[s].customer
<1>1. call \in [Sessions -> Call] /\ call[s] \in Call
  BY DEF TypeOK
<1>2. CASE Return(s)
  BY <1>1, <1>2 DEF Return, Advance, InsertTxn, UpdateTxn, RemoveTxn, IncCustomer,
     ScoreNoCustomer, ScoreReadBalance, ScoreReadTxns, ScoreSet, PurgeTxns, Busy, database
<1>3. ASSUME NEW pc \in Steps \ {"idle", "write"}, Goto(s, pc)
      PROVE  /\ \A r \in Sessions \ {s} : call'[r] = call[r]
             /\ call'[s].kind = call[s].kind /\ call'[s].pc \notin {"idle", "write"}
             /\ call'[s].txn = call[s].txn /\ call'[s].customer = call[s].customer
  BY <1>1, <1>3 DEF Goto, Call, CallRecord
<1>4. Return(s) \/ \E pc \in Steps \ {"idle", "write"} : Goto(s, pc)
  BY DEF Advance, InsertTxn, UpdateTxn, RemoveTxn, IncCustomer, ScoreNoCustomer,
     ScoreReadBalance, ScoreReadTxns, ScoreSet, PurgeTxns, Steps
<1>5. Busy(s) /\ UNCHANGED <<nextCustomer, nextTxn>>
  BY DEF Advance, InsertTxn, UpdateTxn, RemoveTxn, IncCustomer, ScoreNoCustomer,
     ScoreReadBalance, ScoreReadTxns, ScoreSet, PurgeTxns, Busy, database
<1> QED BY <1>2, <1>3, <1>4, <1>5

\* The page of a session fits its call: it is waiting for it, or there is none.
PageFits(s) ==
    /\ Busy(s) <=> page[s].task = "call"
    /\ Busy(s) => /\ page[s].action = ActionOf(call[s].kind)
                  /\ page[s].txn = call[s].txn
                  /\ page[s].customer = call[s].customer
    /\ page[s].task # "none" => user[s] = "merchant"
    /\ page[s].task \in {"balance", "receipt"} => page[s].action = "ADD_TXN"
    /\ page[s].task = "log" => page[s].action # "none"
    /\ page[s].task \in {"none", "invoice"} => page[s].action = "none"

PagesFit == \A s \in Sessions : PageFits(s)

\* Setting the page of one session: the others' fit as before.
LEMMA SetPageFits ==
    ASSUME PageTypes, PagesFit, NEW s \in Sessions, NEW p \in Page, SetPage(s, p),
           \A r \in Sessions \ {s} : call'[r] = call[r] /\ user'[r] = user[r],
           PageFits(s)'
    PROVE  page' \in [Sessions -> Page] /\ PagesFit'
<1>1. page' \in [Sessions -> Page] /\ \A r \in Sessions \ {s} : page'[r] = page[r]
  BY DEF SetPage, PageTypes
<1>2. ASSUME NEW r \in Sessions \ {s}
      PROVE  PageFits(r)'
  BY <1>1, <1>2 DEF PagesFit, PageFits, Busy
<1> QED BY <1>1, <1>2 DEF PagesFit

\* A call that begins has its page wait for it.
LEMMA WorkFits ==
    ASSUME TypeOK, TypeOK', PageTypes, PagesFit, NEW s \in Sessions, Work(s)
    PROVE  PageTypes' /\ PagesFit'
<1>1. call'[s] \in Call /\ page[s] \in Page
  BY DEF TypeOK, PageTypes
<1>a. due' \in [Sessions -> Int] /\ UNCHANGED <<user, view, log, wiped, lost>>
  <2>1. CASE call'[s].kind = "add"
    <3>1. PICK c \in CustomerIds, type \in TxnTypes, a \in Amounts :
                 AddTransaction(s, c, type, a)
      BY <2>1, BeginAdds DEF Work
    <3>2. c \in DOMAIN customers /\ call'[s].customer = c
      BY <3>1 DEF AddTransaction, Finds, TypeOK
    <3>3. customers[c].balance \in Int /\ BalanceDelta(call'[s]) \in Int
      BY <1>1, <3>2, DeltaType DEF TypeOK, Customer
    <3> QED BY <2>1, <3>2, <3>3 DEF Work, PageTypes
  <2> QED BY <2>1 DEF Work, PageTypes
<1>2. CASE AddCustomer(s) /\ call' = call
  <2> DEFINE p == Doing("log", "ADD_CUSTOMER", 0, nextCustomer)
  <2>1. nextCustomer \in CustomerIds
    BY <1>2 DEF AddCustomer, TypeOK, CustomerIds
  <2>2. p \in Page
    BY <2>1, DoingType DEF Actions
  <2>3. call[s].pc = "idle" /\ call[s].kind = "none"
    BY <1>1, <1>2 DEF AddCustomer, Call
  <2>4. SetPage(s, p)
    BY <1>2, <2>3 DEF Work
  <2>5. PageFits(s)'
    BY <1>2, <2>3, <2>4 DEF Work, PageFits, Busy, SetPage, PageTypes, Doing
  <2> HIDE DEF p
  <2> QED BY <1>2, <1>a, <2>2, <2>4, <2>5, SetPageFits DEF PageTypes
<1>3. CASE call'[s].kind # "none"
  <2> DEFINE p == Doing("call", ActionOf(call'[s].kind), call'[s].txn, call'[s].customer)
  <2>1. p \in Page
    BY <1>1, ActionOfType, DoingType DEF Call, CallRecord
  <2>2. SetPage(s, p)
    BY <1>3 DEF Work
  <2>3. /\ p.task = "call" /\ p.action = ActionOf(call'[s].kind)
        /\ p.txn = call'[s].txn /\ p.customer = call'[s].customer
    BY DEF Doing
  <2>4. Busy(s)' /\ page'[s] = p
    BY <1>1, <1>3, <2>2 DEF Busy, Call, SetPage, PageTypes
  <2>5. user' = user /\ user[s] = "merchant"
    BY DEF Work
  <2> HIDE DEF p
  <2>6. PageFits(s)'
    BY <2>3, <2>4, <2>5 DEF PageFits, Busy
  <2>7. \A r \in Sessions \ {s} : call'[r] = call[r] /\ user'[r] = user[r]
    BY <2>5, BeginCalls DEF Work
  <2>8. page' \in [Sessions -> Page] /\ PagesFit'
    BY <2>1, <2>2, <2>6, <2>7, SetPageFits
  <2> QED BY <1>a, <2>8 DEF PageTypes
<1> QED BY <1>2, <1>3, BeginCalls DEF Work

\* A call that goes on keeps its page waiting; one that returns leaves the page with
\* what add, edit and delete still have to do.
LEMMA ContinueFits ==
    ASSUME TypeOK, PageTypes, PagesFit, NEW s \in Sessions, Continue(s)
    PROVE  PageTypes' /\ PagesFit'
<1>1. call \in [Sessions -> Call] /\ call[s] \in Call /\ page[s] \in Page
  BY DEF TypeOK, PageTypes
<1>2. /\ Busy(s)
      /\ \A r \in Sessions \ {s} : call'[r] = call[r]
      /\ \/ call'[s] = Idle
         \/ /\ call'[s].kind = call[s].kind /\ call'[s].pc # "idle"
            /\ call'[s].txn = call[s].txn /\ call'[s].customer = call[s].customer
  BY AdvanceCalls DEF Continue
<1>3. /\ page[s].task = "call" /\ user[s] = "merchant"
      /\ page[s].action = ActionOf(call[s].kind)
      /\ page[s].txn = call[s].txn /\ page[s].customer = call[s].customer
  BY <1>2 DEF PagesFit, PageFits
<1>4. UNCHANGED <<user, view, log, wiped, lost>> /\ due' \in [Sessions -> Int]
  <2>1. BalanceDelta(call[s]) \in Int
    BY <1>1, DeltaType
  <2> QED BY <2>1 DEF Continue, PageTypes
<1>5. CASE call'[s] = Idle
  <2> DEFINE p == Returned(page[s])
  <2>1. SetPage(s, p)
    BY <1>5 DEF Continue, Idle
  <2>2. /\ p \in Page /\ p.task \in {"balance", "log", "none"}
        /\ p.task = "balance" => p.action = "ADD_TXN"
        /\ p.task = "log" => p.action # "none"
        /\ p.task = "none" => p.action = "none"
    <3>1. CASE page[s].action = "ADD_TXN"
      <4>1. p = Doing("balance", "ADD_TXN", page[s].txn, page[s].customer)
        BY <3>1 DEF Returned
      <4> QED BY <1>1, <4>1, DoingType DEF Actions, Page, Doing
    <3>2. CASE page[s].action = "none"
      <4>1. p = NoPage
        BY <3>2 DEF Returned
      <4> QED BY <4>1 DEF NoPage, Doing, Page
    <3>3. CASE page[s].action \notin {"ADD_TXN", "none"}
      <4>1. p = Doing("log", page[s].action, page[s].txn, page[s].customer)
        BY <3>3 DEF Returned
      <4> QED BY <1>1, <3>3, <4>1, DoingType DEF Page, Doing
    <3> QED BY <3>1, <3>2, <3>3
  <2>3. page'[s] = p /\ ~Busy(s)'
    BY <1>5, <2>1 DEF SetPage, PageTypes, Busy, Idle
  <2> HIDE DEF p
  <2>4. PageFits(s)'
    BY <1>3, <1>4, <2>2, <2>3 DEF PageFits, Busy
  <2>5. page' \in [Sessions -> Page] /\ PagesFit'
    BY <1>2, <1>4, <2>1, <2>2, <2>4, SetPageFits
  <2> QED BY <1>4, <2>5 DEF PageTypes
<1>6. CASE call'[s].pc # "idle" /\ call'[s].kind = call[s].kind
           /\ call'[s].txn = call[s].txn /\ call'[s].customer = call[s].customer
  <2>1. call'[s].kind # "none"
    BY <1>1, <1>2, <1>6 DEF Call, Busy
  <2>2. SetPage(s, page[s])
    BY <2>1 DEF Continue
  <2>3. page'[s] = page[s]
    BY <2>2 DEF SetPage, PageTypes
  <2>4. PageFits(s)'
    BY <1>2, <1>3, <1>4, <1>6, <2>3 DEF PageFits, Busy
  <2>5. page' \in [Sessions -> Page] /\ PagesFit'
    BY <1>1, <1>2, <1>4, <2>2, <2>4, SetPageFits
  <2> QED BY <1>4, <2>5 DEF PageTypes
<1> QED BY <1>2, <1>5, <1>6

\* A step of a page keeps the types and the fit: it happens between calls.
LEMMA PageStepFits ==
    ASSUME TypeOK, PageTypes, PagesFit, NEW s \in Sessions, PageStep(s)
    PROVE  PageTypes' /\ PagesFit'
<1>1. page[s] \in Page /\ PageFits(s) /\ call' = call
  BY PageStepLeavesLedger DEF PageTypes, PagesFit, vars
<1>2. NoPage \in Page
  BY DoingType DEF NoPage
<1>3. NoPage.task = "none" /\ NoPage.action = "none"
  BY DEF NoPage, Doing
<1>4. ASSUME EndPage(s), user' = user, page[s].task # "call"
      PROVE  /\ page' \in [Sessions -> Page] /\ PagesFit'
             /\ view' \in [Sessions -> View] /\ due' \in [Sessions -> Int]
  <2>1. PageFits(s)'
    BY <1>1, <1>3, <1>4 DEF EndPage, SetPage, PageTypes, PageFits, Busy
  <2>2. view' \in [Sessions -> View] /\ due' \in [Sessions -> Int]
    BY <1>4, NoViewType DEF EndPage, SetView, PageTypes
  <2> QED BY <1>1, <1>2, <1>4, <2>1, <2>2, SetPageFits DEF EndPage
<1>5. CASE Login(s) \/ Logout(s) \/ PortalLogout(s) \/ \E c \in CustomerIds : PortalLogin(s, c)
  <2>1. page' = page
    BY <1>5 DEF Login, Logout, PortalLogout, PortalLogin
  <2>2. page[s].task = "none"
    BY <1>1, <1>5 DEF Login, Logout, PortalLogout, PortalLogin, PageFits, Page
  <2>3. \A r \in Sessions \ {s} : user'[r] = user[r]
    BY <1>5 DEF Login, Logout, PortalLogout, PortalLogin, PageTypes
  <2>4. PagesFit'
    BY <1>1, <2>1, <2>2, <2>3 DEF PagesFit, PageFits, Busy
  <2>5. user' \in [Sessions -> {"nobody", "merchant", "customer"}]
    BY <1>5 DEF Login, Logout, PortalLogout, PortalLogin, PageTypes
  <2>6. view' \in [Sessions -> View]
    BY <1>5, LookType, NoViewType
       DEF Login, Logout, PortalLogout, PortalLogin, PageTypes, SetView
  <2>7. UNCHANGED <<log, wiped, lost, due>>
    BY <1>5 DEF Login, Logout, PortalLogout, PortalLogin
  <2> QED BY <2>1, <2>4, <2>5, <2>6, <2>7 DEF PageTypes
<1>6. CASE ReadNewBalance(s)
  <2>1. user' = user /\ UNCHANGED <<log, wiped>> /\ page[s].task = "balance"
    BY <1>6 DEF ReadNewBalance
  <2>2. CASE page[s].customer \in DOMAIN customers
    <3> DEFINE p == Doing("log", page[s].action, page[s].txn, page[s].customer)
    <3>1. /\ SetPage(s, p) /\ SetView(s, Look(page[s].customer))
          /\ UNCHANGED <<lost, due>>
      BY <1>6, <2>2 DEF ReadNewBalance
    <3>2. p \in Page /\ p.task = "log" /\ p.action = "ADD_TXN"
      BY <1>1, <2>1, DoingType DEF PageFits, Page, Doing
    <3> HIDE DEF p
    <3>3. PageFits(s)'
      BY <1>1, <2>1, <3>1, <3>2 DEF SetPage, PageTypes, PageFits, Busy
    <3>4. page' \in [Sessions -> Page] /\ PagesFit'
      BY <1>1, <2>1, <3>1, <3>2, <3>3, SetPageFits
    <3>5. view' \in [Sessions -> View]
      BY <2>2, <3>1, LookType DEF SetView, PageTypes
    <3> QED BY <2>1, <3>1, <3>4, <3>5 DEF PageTypes
  <2>3. CASE page[s].customer \notin DOMAIN customers
    <3>1. EndPage(s) /\ lost' = lost \cup {LineOf(s)}
      BY <1>6, <2>3 DEF ReadNewBalance
    <3>2. LineOf(s) \in LogEntry
      BY <1>1, <2>1, LineType DEF PageFits
    <3> QED BY <1>4, <2>1, <3>1, <3>2 DEF PageTypes
  <2> QED BY <2>2, <2>3
<1>7. CASE WriteLog(s)
  <2>1. user' = user /\ UNCHANGED <<wiped, lost>> /\ page[s].task = "log"
    BY <1>7 DEF WriteLog
  <2>2. log' \subseteq LogEntry
    BY <1>1, <1>7, <2>1, LineType DEF WriteLog, PageTypes, PageFits
  <2>3. CASE EndPage(s)
    BY <1>4, <2>1, <2>2, <2>3 DEF PageTypes
  <2>4. CASE page[s].action = "ADD_TXN" /\ SetPage(s, [page[s] EXCEPT !.task = "receipt"])
             /\ UNCHANGED <<view, due>>
    <3> DEFINE p == [page[s] EXCEPT !.task = "receipt"]
    <3>1. p \in Page /\ p.task = "receipt" /\ p.action = "ADD_TXN"
      BY <1>1, <2>4 DEF Page
    <3> HIDE DEF p
    <3>2. SetPage(s, p)
      BY <2>4 DEF p
    <3>3. PageFits(s)'
      BY <1>1, <2>1, <3>1, <3>2 DEF SetPage, PageTypes, PageFits, Busy
    <3>4. page' \in [Sessions -> Page] /\ PagesFit'
      BY <1>1, <2>1, <3>1, <3>2, <3>3, SetPageFits
    <3> QED BY <2>1, <2>2, <2>4, <3>4 DEF PageTypes
  <2> QED BY <1>7, <2>3, <2>4 DEF WriteLog
<1>8. CASE SendReceipt(s) \/ MakeInvoice(s)
  <2>1. /\ EndPage(s) /\ page[s].task # "call"
        /\ user' = user /\ UNCHANGED <<log, wiped, lost>>
    BY <1>8 DEF SendReceipt, MakeInvoice
  <2> QED BY <1>4, <2>1 DEF PageTypes
<1>9. ASSUME NEW c \in CustomerIds, ListCustomer(s, c)
      PROVE  PageTypes' /\ PagesFit'
  <2> DEFINE p == Doing("invoice", "none", 0, c)
  <2>1. /\ SetPage(s, p) /\ SetView(s, Look(c)) /\ c \in DOMAIN customers
        /\ user' = user /\ UNCHANGED <<log, wiped, lost, due>>
        /\ page[s].task = "none" /\ user[s] = "merchant"
    BY <1>9 DEF ListCustomer, Finds
  <2>2. p \in Page /\ p.task = "invoice" /\ p.action = "none"
    BY DoingType DEF Doing
  <2> HIDE DEF p
  <2>3. PageFits(s)'
    BY <1>1, <2>1, <2>2 DEF SetPage, PageTypes, PageFits, Busy
  <2>4. page' \in [Sessions -> Page] /\ PagesFit'
    BY <1>1, <2>1, <2>2, <2>3, SetPageFits
  <2>5. view' \in [Sessions -> View]
    BY <2>1, LookType DEF SetView, PageTypes
  <2> QED BY <2>1, <2>4, <2>5 DEF PageTypes
<1>10. CASE ClearLog(s)
  BY <1>1, <1>10, LedgerAssumption
     DEF ClearLog, PageTypes, PagesFit, PageFits, Busy, LedgerAssumption
<1> QED BY <1>5, <1>6, <1>7, <1>8, <1>9, <1>10 DEF PageStep

\* Cut short, a session has neither a page nor a call.
LEMMA CutCalls ==
    ASSUME TypeOK, NEW s \in Sessions, Cut(s)
    PROVE  /\ UNCHANGED database
           /\ ~Busy(s)'
           /\ \A r \in Sessions \ {s} : call'[r] = call[r]
BY DEF Cut, Abort, Return, Idle, Busy, TypeOK, vars, database

\* A script run cut short leaves a page that fits, and an entry that is one.
LEMMA CutFits ==
    ASSUME TypeOK, PageTypes, PagesFit, NEW s \in Sessions, Cut(s)
    PROVE  PageTypes' /\ PagesFit'
<1>1. NoPage \in Page
  BY DoingType DEF NoPage
<1>2. NoPage.task = "none" /\ NoPage.action = "none"
  BY DEF NoPage, Doing
<1>3. SetPage(s, NoPage) /\ UNCHANGED <<user, log, wiped>>
  BY DEF Cut, EndPage
<1>4. PageFits(s)'
  BY <1>2, <1>3, CutCalls DEF SetPage, PageTypes, PageFits
<1>5. page' \in [Sessions -> Page] /\ PagesFit'
  BY <1>1, <1>3, <1>4, CutCalls, SetPageFits
<1>6. view' \in [Sessions -> View] /\ due' \in [Sessions -> Int]
  BY NoViewType DEF Cut, EndPage, SetView, PageTypes
<1>7. lost' \subseteq LogEntry
  <2>1. Unlogged(s) => LineOf(s) \in LogEntry
    BY LineType DEF Unlogged
  <2> QED BY <2>1 DEF Cut, PageTypes
<1> QED BY <1>3, <1>5, <1>6, <1>7 DEF PageTypes

\* Nobody is logged in at the start, and no page is doing anything.
LEMMA InitFits == DeskInit => PageTypes /\ PagesFit
<1>1. NoPage \in Page /\ NoPage.task = "none" /\ NoPage.action = "none"
  BY DEF NoPage, Doing, Page
<1> QED BY <1>1, NoViewType
    DEF DeskInit, Init, PageTypes, PagesFit, PageFits, Busy, Idle

\* The types and the fit hold throughout.
LEMMA DeskInvariant == DeskSpec => [](PageTypes /\ PagesFit)
<1>1. ASSUME TypeOK, TypeOK', PageTypes /\ PagesFit, [DeskNext]_deskVars
      PROVE  (PageTypes /\ PagesFit)'
  <2>1. CASE UNCHANGED deskVars
    BY <1>1, <2>1 DEF deskVars, vars, pageVars, PageTypes, PagesFit, PageFits, Busy
  <2> QED BY <1>1, <2>1, WorkFits, ContinueFits, CutFits, PageStepFits DEF DeskNext
<1> QED BY <1>1, InitFits, DeskUsesLedger, LedgerTypeOK, PTL DEF DeskSpec

\* The pages' variables always have their types, and a page waits for a call just
\* when its session has one in progress, of the kind the page is to log.
THEOREM DeskTypes == DeskSpec => []DeskTypeOK
<1>1. PageTypes /\ PagesFit => DeskTypeOK
  BY DEF PageTypes, PagesFit, PageFits, DeskTypeOK
<1> QED BY <1>1, DeskInvariant, PTL

-----------------------------------------------------------------------------
(* What a receipt shows *)

\* What the call of session s has still to post to its customer
Unsettled(s) == IF call[s].pc \in {"write", "inc"} THEN BalanceDelta(call[s]) ELSE 0

\* The receipt that session s is on the way to is due the customer's balance, with
\* what its own call has still to post; when the balance is read, that is what is due.
DueFits(s) ==
    page[s].action = "ADD_TXN" =>
       /\ page[s].customer < nextCustomer
       /\ page[s].task \in {"call", "balance"} /\ page[s].customer \in DOMAIN customers =>
             due[s] = customers[page[s].customer].balance + Unsettled(s)
       /\ page[s].task \in {"log", "receipt"} =>
             view[s] = [customer |-> page[s].customer, balance |-> due[s]]

DuesFit == \A s \in Sessions : DueFits(s)

\* What a call has still to post is a number.
LEMMA UnsettledType ==
    ASSUME TypeOK, NEW s \in Sessions
    PROVE  /\ Unsettled(s) \in Int
           /\ \A c : Posting(s, c) \in Int
BY DeltaType DEF Unsettled, Posting, TypeOK

\* A balance changes by what is posted, and by nothing else.
LEMMA BalanceEffect ==
    ASSUME TypeOK, IdsInv, NEW s \in Sessions, Begin(s) \/ Advance(s),
           NEW c \in DOMAIN customers', c < nextCustomer
    PROVE  /\ c \in DOMAIN customers
           /\ customers'[c].balance = customers[c].balance + Posting(s, c)
<1>1. call[s] \in Call /\ \A d \in DOMAIN customers : customers[d].balance \in Int
  BY DEF TypeOK, Customer
<1>2. ASSUME call[s].pc # "inc", c \in DOMAIN customers,
             customers'[c].balance = customers[c].balance
      PROVE  /\ c \in DOMAIN customers
             /\ customers'[c].balance = customers[c].balance + Posting(s, c)
  BY <1>1, <1>2 DEF Posting
<1>3. CASE AddCustomer(s)
  <2>1. c # nextCustomer
    BY DEF TypeOK
  <2>2. call[s].pc # "inc" /\ c \in DOMAIN customers /\ customers'[c] = customers[c]
    BY <1>3, <2>1 DEF AddCustomer, Insert
  <2> QED BY <1>2, <2>2
<1>4. ASSUME NEW d \in CustomerIds, DeleteCustomer(s, d)
      PROVE  call[s].pc # "inc" /\ c \in DOMAIN customers /\ customers'[c] = customers[c]
  BY <1>4 DEF DeleteCustomer, Restrict
<1>5. ASSUME \/ \E d \in CustomerIds, type \in TxnTypes, a \in Amounts :
                   AddTransaction(s, d, type, a)
             \/ \E t \in TxnIds, a \in Amounts : EditTransaction(s, t, a)
             \/ \E t \in TxnIds : DeleteTransaction(s, t)
             \/ \E d \in CustomerIds : RecalculateScore(s, d)
      PROVE  call[s].pc # "inc" /\ customers' = customers
  BY <1>5 DEF AddTransaction, EditTransaction, DeleteTransaction, RecalculateScore, database
<1>6. CASE \/ InsertTxn(s) \/ UpdateTxn(s) \/ RemoveTxn(s) \/ PurgeTxns(s)
           \/ ScoreNoCustomer(s) \/ ScoreReadBalance(s) \/ ScoreReadTxns(s)
  <2>1. call[s].pc # "inc" /\ customers' = customers
    BY <1>6 DEF InsertTxn, UpdateTxn, RemoveTxn, PurgeTxns, ScoreNoCustomer,
       ScoreReadBalance, ScoreReadTxns, database
  <2> QED BY <1>2, <2>1
<1>7. CASE ScoreSet(s)
  <2>1. call[s].pc # "inc" /\ c \in DOMAIN customers
    BY <1>7 DEF ScoreSet
  <2>2. customers'[c].balance = customers[c].balance
    BY <1>7, <2>1 DEF ScoreSet, TypeOK, Customer
  <2> QED BY <1>2, <2>1, <2>2
<1>8. CASE IncCustomer(s)
  <2>1. /\ call[s].pc = "inc" /\ c \in DOMAIN customers
        /\ customers'[c] = IF c = call[s].customer THEN Posted(customers[c], call[s])
                                                   ELSE customers[c]
    BY <1>8 DEF IncCustomer
  <2>2. Posted(customers[c], call[s]).balance = customers[c].balance + BalanceDelta(call[s])
    BY DEF Posted
  <2>3. Posting(s, c) = IF c = call[s].customer THEN BalanceDelta(call[s]) ELSE 0
    BY <2>1 DEF Posting
  <2> QED BY <1>1, <2>1, <2>2, <2>3
<1> QED BY <1>2, <1>3, <1>4, <1>5, <1>6, <1>7, <1>8 DEF Begin, Advance

\* A round trip settles what it posts.
LEMMA AdvanceSettles ==
    ASSUME TypeOK, NEW s \in Sessions, Advance(s)
    PROVE  Unsettled(s) = Unsettled(s)' + Posting(s, call[s].customer)
<1>1. call \in [Sessions -> Call] /\ call[s] \in Call /\ Unsettled(s) \in Int
  BY UnsettledType DEF TypeOK
<1>2. CASE Return(s)
  <2>1. call'[s].pc = "idle"
    BY <1>1, <1>2 DEF Return, Idle
  <2>2. call[s].pc \notin {"write", "inc"}
    <3>1. call[s].pc \in {"write", "inc"} => Goto(s, "inc") \/ Goto(s, "score_customer")
      BY DEF Advance, InsertTxn, UpdateTxn, RemoveTxn, IncCustomer, ScoreNoCustomer,
         ScoreReadBalance, ScoreReadTxns, ScoreSet, PurgeTxns
    <3>2. ~Goto(s, "inc") /\ ~Goto(s, "score_customer")
      BY <1>1, <2>1 DEF Goto, Call, CallRecord
    <3> QED BY <3>1, <3>2
  <2> QED BY <2>1, <2>2 DEF Unsettled, Posting
<1>3. CASE call[s].pc = "write" /\ Goto(s, "inc")
  <2>1. /\ call'[s].pc = "inc" /\ call'[s].type = call[s].type
        /\ call'[s].old = call[s].old /\ call'[s].new = call[s].new
    BY <1>1, <1>3 DEF Goto, Call, CallRecord
  <2>2. BalanceDelta(call'[s]) = BalanceDelta(call[s])
    BY <2>1 DEF BalanceDelta
  <2>3. Posting(s, call[s].customer) = 0
    BY <1>3 DEF Posting
  <2>4. Unsettled(s)' = Unsettled(s)
    BY <1>3, <2>1, <2>2 DEF Unsettled
  <2> QED BY <1>1, <2>3, <2>4
<1>4. CASE call[s].pc # "write" /\ \E pc \in {"score_customer", "score_txns", "score_set"} :
                                      Goto(s, pc)
  <2>1. call'[s].pc \notin {"write", "inc"}
    BY <1>1, <1>4 DEF Goto, Call, CallRecord
  <2>2. Unsettled(s)' = 0
    BY <2>1 DEF Unsettled
  <2>3. Unsettled(s) = Posting(s, call[s].customer)
    BY <1>4 DEF Unsettled, Posting
  <2> QED BY <1>1, <2>2, <2>3
<1>5. \/ Return(s)
      \/ call[s].pc = "write" /\ Goto(s, "inc")
      \/ call[s].pc # "write" /\ \E pc \in {"score_customer", "score_txns", "score_set"} :
                                    Goto(s, pc)
  BY DEF Advance, InsertTxn, UpdateTxn, RemoveTxn, IncCustomer, ScoreNoCustomer,
     ScoreReadBalance, ScoreReadTxns, ScoreSet, PurgeTxns
<1> QED BY <1>2, <1>3, <1>4, <1>5

\* What other sessions do to a customer is due as well.
LEMMA OthersDue ==
    ASSUME TypeOK, TypeOK', IdsInv, PageTypes, NEW s \in Sessions, Begin(s) \/ Advance(s),
           NEW r \in Sessions \ {s}, page'[r] = page[r], view'[r] = view[r],
           call'[r] = call[r],
           due'[r] = IF call[s].pc = "inc" /\ Expects(r, call[s].customer)
                     THEN due[r] + BalanceDelta(call[s]) ELSE due[r],
           DueFits(r)
    PROVE  DueFits(r)'
<1> SUFFICES ASSUME page[r].action = "ADD_TXN"
             PROVE  DueFits(r)'
  BY DEF DueFits
<1>1. /\ page[r].customer < nextCustomer /\ page[r].customer \in Int
      /\ nextCustomer \in Int /\ nextCustomer' \in Int /\ nextCustomer <= nextCustomer'
  <2>1. page[r].customer < nextCustomer
    BY DEF DueFits
  <2>2. page[r] \in Page /\ nextCustomer \in Int /\ nextCustomer' \in Int
    BY DEF PageTypes, TypeOK
  <2>3. nextCustomer <= nextCustomer'
    <3>1. CASE Begin(s)
      <4>1. AddCustomer(s) => nextCustomer' = nextCustomer + 1
        BY DEF AddCustomer
      <4>2. AddCustomer(s) \/ nextCustomer' = nextCustomer
        BY <3>1 DEF Begin, AddTransaction, EditTransaction, DeleteTransaction,
           RecalculateScore, DeleteCustomer, database
      <4> QED BY <2>2, <4>1, <4>2
    <3>2. CASE Advance(s)
      BY <2>2, <3>2, AdvanceCalls
    <3> QED BY <3>1, <3>2
  <2> QED BY <2>1, <2>2, <2>3 DEF Page, CustomerIds
<1>2. Unsettled(r)' = Unsettled(r) /\ Unsettled(r) \in Int
  BY UnsettledType DEF Unsettled
<1>3. ASSUME page[r].task \in {"call", "balance"}, page[r].customer \in DOMAIN customers'
      PROVE  due'[r] = customers'[page[r].customer].balance + Unsettled(r)
  <2>1. PICK c : c = page[r].customer
    OBVIOUS
  <2>2. /\ c \in DOMAIN customers
        /\ customers'[c].balance = customers[c].balance + Posting(s, c)
    BY <1>1, <1>3, <2>1, BalanceEffect
  <2>3. due[r] = customers[c].balance + Unsettled(r)
    BY <1>3, <2>1, <2>2 DEF DueFits
  <2>4. due'[r] = due[r] + Posting(s, c)
    <3>1. due[r] \in Int
      BY DEF PageTypes
    <3>2. Expects(r, c)
      BY <1>3, <2>1 DEF Expects
    <3>3. CASE call[s].pc = "inc" /\ call[s].customer = c
      BY <3>2, <3>3 DEF Posting
    <3>4. CASE ~(call[s].pc = "inc" /\ call[s].customer = c)
      <4>1. ~(call[s].pc = "inc" /\ Expects(r, call[s].customer))
        BY <2>1, <3>4 DEF Expects
      <4> QED BY <3>1, <3>4, <4>1 DEF Posting
    <3> QED BY <3>3, <3>4
  <2>5. customers[c].balance \in Int /\ Posting(s, c) \in Int
    BY <2>2, UnsettledType DEF TypeOK, Customer
  <2> QED BY <1>2, <2>1, <2>2, <2>3, <2>4, <2>5
<1>4. ASSUME page[r].task \in {"log", "receipt"}
      PROVE  view[r] = [customer |-> page[r].customer, balance |-> due'[r]]
  BY <1>4 DEF DueFits, Expects
<1> QED BY <1>1, <1>2, <1>3, <1>4 DEF DueFits

\* A receipt begins with the balance found and the amount added.
LEMMA WorkDue ==
    ASSUME TypeOK, TypeOK', IdsInv, PageTypes, PagesFit, DuesFit, NEW s \in Sessions,
           Work(s)
    PROVE  DuesFit'
<1>1. page \in [Sessions -> Page] /\ call[s].pc = "idle" /\ Begin(s)
  BY BeginCalls DEF Work, PageTypes
<1>2. ASSUME NEW r \in Sessions \ {s}
      PROVE  DueFits(r)'
  <2>1. /\ page'[r] = page[r] /\ view'[r] = view[r] /\ call'[r] = call[r]
        /\ due'[r] = due[r]
    BY <1>1, BeginCalls DEF Work, SetPage, PageTypes
  <2> QED BY <1>1, <2>1, OthersDue DEF DuesFit
<1>3. ASSUME page'[s].action = "ADD_TXN"
      PROVE  DueFits(s)'
  <2>1. /\ call'[s].kind = "add" /\ page'[s].task = "call"
        /\ page'[s].customer = call'[s].customer
    <3>1. \A task, a, t, c : LET p == Doing(task, a, t, c)
                             IN  p.task = task /\ p.action = a /\ p.customer = c
      BY DEF Doing
    <3>2. \A k : ActionOf(k) = "ADD_TXN" => k = "add"
      BY DEF ActionOf
    <3> QED BY <1>1, <1>3, <3>1, <3>2 DEF Work, SetPage
  <2>2. PICK c \in CustomerIds, type \in TxnTypes, a \in Amounts :
               AddTransaction(s, c, type, a)
    BY <1>1, <2>1, BeginAdds
  <2>3. /\ c \in DOMAIN customers /\ UNCHANGED <<customers, nextCustomer>>
        /\ call'[s].customer = c /\ call'[s].pc = "write"
    BY <2>2 DEF AddTransaction, Finds, TypeOK
  <2>4. c < nextCustomer
    BY <2>3 DEF IdsInv, IdsGivenOut
  <2>5. due'[s] = customers[c].balance + BalanceDelta(call'[s])
    BY <2>1, <2>3 DEF Work, PageTypes
  <2>6. Unsettled(s)' = BalanceDelta(call'[s])
    BY <2>3 DEF Unsettled
  <2> QED BY <2>1, <2>3, <2>4, <2>5, <2>6 DEF DueFits
<1> QED BY <1>2, <1>3 DEF DuesFit, DueFits

\* It goes on with what its own call, and others, post.
LEMMA ContinueDue ==
    ASSUME TypeOK, TypeOK', IdsInv, PageTypes, PagesFit, DuesFit, NEW s \in Sessions,
           Continue(s)
    PROVE  DuesFit'
<1>1. page \in [Sessions -> Page] /\ page[s] \in Page /\ Advance(s) /\ PageFits(s)
  BY DEF Continue, PageTypes, PagesFit
<1>2. /\ Busy(s) /\ UNCHANGED nextCustomer
      /\ \A r \in Sessions \ {s} : call'[r] = call[r]
  BY <1>1, AdvanceCalls
<1>3. ASSUME NEW r \in Sessions \ {s}
      PROVE  DueFits(r)'
  <2>1. /\ page'[r] = page[r] /\ view'[r] = view[r] /\ call'[r] = call[r]
        /\ due'[r] = IF call[s].pc = "inc" /\ Expects(r, call[s].customer)
                     THEN due[r] + BalanceDelta(call[s]) ELSE due[r]
    BY <1>1, <1>2 DEF Continue, SetPage, PageTypes
  <2> QED BY <1>1, <2>1, OthersDue DEF DuesFit
<1>4. ASSUME page'[s].action = "ADD_TXN"
      PROVE  DueFits(s)'
  <2>1. \A task, a, t, c : LET p == Doing(task, a, t, c)
                           IN  p.task = task /\ p.action = a /\ p.customer = c
    BY DEF Doing
  <2>2. page'[s] = page[s] \/ page'[s] = Returned(page[s])
    BY <1>1 DEF Continue, SetPage
  <2>3. /\ page[s].action = "ADD_TXN" /\ page'[s].customer = page[s].customer
        /\ page'[s].task \in {"call", "balance"}
    BY <1>1, <1>2, <1>4, <2>1, <2>2 DEF Returned, NoPage, PageFits
  <2>4. page[s].task = "call" /\ page[s].customer = call[s].customer
    BY <1>1, <1>2 DEF PageFits
  <2>5. due'[s] = due[s]
    BY DEF Continue, PageTypes
  <2>6. PICK c : c = page[s].customer
    OBVIOUS
  <2>7. c < nextCustomer
    BY <2>3, <2>6 DEF DuesFit, DueFits
  <2>8. ASSUME c \in DOMAIN customers'
        PROVE  due'[s] = customers'[c].balance + Unsettled(s)'
    <3>1. /\ c \in DOMAIN customers
          /\ customers'[c].balance = customers[c].balance + Posting(s, c)
      BY <1>1, <2>7, <2>8, BalanceEffect
    <3>2. due[s] = customers[c].balance + Unsettled(s)
      BY <2>3, <2>4, <2>6, <3>1 DEF DuesFit, DueFits
    <3>3. Unsettled(s) = Unsettled(s)' + Posting(s, c)
      BY <1>1, <2>4, <2>6, AdvanceSettles
    <3>4. customers[c].balance \in Int /\ Posting(s, c) \in Int /\ Unsettled(s)' \in Int
      BY <3>1, UnsettledType, DeltaType DEF TypeOK, Customer, Unsettled
    <3> QED BY <2>5, <3>1, <3>2, <3>3, <3>4
  <2> QED BY <1>2, <2>3, <2>6, <2>7, <2>8 DEF DueFits
<1> QED BY <1>3, <1>4 DEF DuesFit, DueFits

\* A step of a page shows what is due, or nothing; so does one cut short.
LEMMA PageStepDue ==
    ASSUME TypeOK, PageTypes, PagesFit, DuesFit, NEW s \in Sessions,
           PageStep(s) \/ Cut(s)
    PROVE  DuesFit'
<1>1. page \in [Sessions -> Page] /\ page[s] \in Page /\ PageFits(s) /\ DueFits(s)
  BY DEF PageTypes, PagesFit, DuesFit
<1>2. /\ UNCHANGED database /\ \A r \in Sessions \ {s} : call'[r] = call[r]
      /\ PageStep(s) => call' = call
  BY CutCalls, PageStepLeavesLedger DEF vars, database
<1>3. ASSUME NEW r \in Sessions, page'[r] = page[r], view'[r] = view[r], due'[r] = due[r],
             call'[r] = call[r]
      PROVE  DueFits(r)'
  BY <1>2, <1>3 DEF DuesFit, DueFits, Unsettled, database
<1>4. ASSUME NEW r \in Sessions \ {s}
      PROVE  DueFits(r)'
  <2>1. page'[r] = page[r] /\ view'[r] = view[r] /\ due'[r] = due[r]
    BY DEF PageStep, Login, Logout, PortalLogin, PortalLogout, ReadNewBalance, WriteLog,
       SendReceipt, ListCustomer, MakeInvoice, ClearLog, Cut, EndPage, SetPage, SetView,
       PageTypes
  <2> QED BY <1>2, <1>3, <2>1
<1>5. ASSUME page'[s].action # "ADD_TXN"
      PROVE  DueFits(s)'
  BY <1>5 DEF DueFits
<1>6. \A task, a, t, c : LET p == Doing(task, a, t, c)
                         IN  p.task = task /\ p.action = a /\ p.customer = c
  BY DEF Doing
<1>7. CASE EndPage(s) \/ \E c \in CustomerIds : ListCustomer(s, c)
  <2>1. page'[s].action = "none"
    BY <1>1, <1>6, <1>7 DEF EndPage, ListCustomer, SetPage, NoPage
  <2> QED BY <1>4, <1>5, <2>1 DEF DuesFit
<1>8. CASE Login(s) \/ Logout(s) \/ PortalLogout(s) \/ ClearLog(s)
           \/ \E c \in CustomerIds : PortalLogin(s, c)
  <2>1. page[s].task = "none" /\ page' = page
    BY <1>1, <1>8
       DEF Login, Logout, PortalLogout, ClearLog, PortalLogin, PageFits, Page
  <2>2. page'[s].action = "none"
    BY <1>1, <2>1 DEF PageFits
  <2> QED BY <1>4, <1>5, <2>2 DEF DuesFit
<1>9. CASE ReadNewBalance(s) /\ page[s].customer \in DOMAIN customers
  <2>1. /\ page[s].task = "balance"
        /\ page'[s] = Doing("log", page[s].action, page[s].txn, page[s].customer)
        /\ view'[s] = Look(page[s].customer) /\ due' = due
    BY <1>1, <1>9 DEF ReadNewBalance, SetPage, SetView, PageTypes
  <2>2. /\ page'[s].task = "log" /\ page[s].action = "ADD_TXN"
        /\ page'[s].customer = page[s].customer
    BY <1>1, <1>6, <2>1 DEF PageFits
  <2>3. Unsettled(s) = 0
    BY <1>1, <2>1 DEF PageFits, Busy, Unsettled
  <2>4. due[s] = customers[page[s].customer].balance
    BY <1>1, <1>9, <2>1, <2>2, <2>3 DEF DueFits, TypeOK, Customer
  <2>5. page[s].customer < nextCustomer
    BY <1>1, <2>2 DEF DueFits
  <2>6. DueFits(s)'
    BY <1>2, <2>1, <2>2, <2>4, <2>5 DEF DueFits, Look, database
  <2> QED BY <1>4, <2>6 DEF DuesFit
<1>10. CASE WriteLog(s) /\ page[s].action = "ADD_TXN" /\ UNCHANGED <<view, due>>
            /\ SetPage(s, [page[s] EXCEPT !.task = "receipt"])
  <2>1. /\ page'[s].task = "receipt" /\ page'[s].customer = page[s].customer
        /\ page[s].task = "log"
    BY <1>1, <1>10 DEF WriteLog, SetPage, Page
  <2>2. DueFits(s)'
    BY <1>1, <1>2, <1>10, <2>1 DEF DueFits, database
  <2> QED BY <1>4, <2>2 DEF DuesFit
<1>11. \/ EndPage(s) \/ \E c \in CustomerIds : ListCustomer(s, c)
       \/ Login(s) \/ Logout(s) \/ PortalLogout(s) \/ ClearLog(s)
       \/ \E c \in CustomerIds : PortalLogin(s, c)
       \/ ReadNewBalance(s) /\ page[s].customer \in DOMAIN customers
       \/ WriteLog(s) /\ page[s].action = "ADD_TXN" /\ UNCHANGED <<view, due>>
             /\ SetPage(s, [page[s] EXCEPT !.task = "receipt"])
  BY DEF PageStep, Cut, ReadNewBalance, WriteLog, SendReceipt, MakeInvoice
<1> QED BY <1>7, <1>8, <1>9, <1>10, <1>11

\* What is due is kept up to date throughout.
LEMMA DuesInvariant == DeskSpec => []DuesFit
<1>1. DeskInit => DuesFit
  BY DEF DeskInit, NoPage, Doing, DuesFit, DueFits
<1>2. ASSUME TypeOK, TypeOK', IdsInv, PageTypes, PagesFit, DuesFit, [DeskNext]_deskVars
      PROVE  DuesFit'
  <2>1. CASE UNCHANGED deskVars
    BY <1>2, <2>1 DEF deskVars, vars, pageVars, DuesFit, DueFits, Unsettled
  <2> QED BY <1>2, <2>1, WorkDue, ContinueDue, PageStepDue DEF DeskNext
<1> QED
  BY <1>1, <1>2, DeskInvariant, DeskUsesLedger, IdsInvariant, PTL DEF DeskSpec

\* The balance on a receipt is the one that add_transaction found, with its own amount
\* and with what other calls have posted up to its last find_one, and nothing else.
THEOREM ReceiptsAlwaysAddUp == DeskSpec => []ReceiptAddsUp
<1>1. DuesFit => ReceiptAddsUp
  BY DEF DuesFit, DueFits, ReceiptAddsUp
<1> QED BY <1>1, DuesInvariant, PTL

-----------------------------------------------------------------------------
(* What a step does to the documents *)

\* What appears in the ledger and what goes, in a step of session s, and by which
\* statement; what stays keeps its merchant and its customer.
LEMMA LedgerEffect ==
    ASSUME TypeOK, IdsInv, NEW s \in Sessions, Begin(s) \/ Advance(s)
    PROVE  /\ \A t \in DOMAIN txns :
                 \/ /\ t \in DOMAIN txns'
                    /\ txns'[t].merchant = txns[t].merchant
                    /\ txns'[t].customer = txns[t].customer
                 \/ RemoveTxn(s) /\ t = call[s].txn
                 \/ PurgeTxns(s) /\ txns[t].customer = call[s].customer
           /\ \A t \in DOMAIN txns' :
                 \/ t \in DOMAIN txns
                 \/ /\ InsertTxn(s) /\ t = call[s].txn
                    /\ txns'[t].merchant = LoggedInAs[s]
                    /\ txns'[t].customer = call[s].customer
           /\ \A c \in DOMAIN customers :
                 \/ c \in DOMAIN customers' /\ customers'[c].merchant = customers[c].merchant
                 \/ DeleteCustomer(s, c)
           /\ \A c \in DOMAIN customers' :
                 \/ c \in DOMAIN customers
                 \/ /\ AddCustomer(s) /\ c = nextCustomer
                    /\ customers'[c].merchant = LoggedInAs[s]
<1>1. CASE AddCustomer(s)
  <2>1. /\ DOMAIN customers' = DOMAIN customers \cup {nextCustomer}
        /\ customers'[nextCustomer].merchant = LoggedInAs[s]
        /\ \A c \in DOMAIN customers : c # nextCustomer => customers'[c] = customers[c]
        /\ txns' = txns
    BY <1>1 DEF AddCustomer, Insert
  <2>2. nextCustomer \notin DOMAIN customers
    BY DEF IdsInv, IdsGivenOut, TypeOK
  <2> QED BY <1>1, <2>1, <2>2
<1>2. ASSUME NEW c \in CustomerIds, DeleteCustomer(s, c)
      PROVE  /\ txns' = txns /\ DOMAIN customers' = DOMAIN customers \ {c}
             /\ \A d \in DOMAIN customers : d # c => customers'[d] = customers[d]
  BY <1>2 DEF DeleteCustomer, Restrict
<1>3. ASSUME \/ \E c \in CustomerIds, type \in TxnTypes, a \in Amounts :
                   AddTransaction(s, c, type, a)
             \/ \E t \in TxnIds, a \in Amounts : EditTransaction(s, t, a)
             \/ \E t \in TxnIds : DeleteTransaction(s, t)
             \/ \E c \in CustomerIds : RecalculateScore(s, c)
      PROVE  UNCHANGED <<customers, txns>>
  BY <1>3 DEF AddTransaction, EditTransaction, DeleteTransaction, RecalculateScore, database
<1>4. CASE InsertTxn(s)
  <2>1. /\ DOMAIN txns' = DOMAIN txns \cup {call[s].txn}
        /\ txns'[call[s].txn].merchant = LoggedInAs[s]
        /\ txns'[call[s].txn].customer = call[s].customer
        /\ \A t \in DOMAIN txns : t # call[s].txn => txns'[t] = txns[t]
        /\ customers' = customers
    BY <1>4 DEF InsertTxn, Insert
  <2>2. call[s].txn \notin DOMAIN txns
    BY <1>4 DEF InsertTxn, IdsInv, NewIdIsFresh, Adding
  <2> QED BY <1>4, <2>1, <2>2
<1>5. CASE UpdateTxn(s)
  BY <1>5 DEF UpdateTxn, TypeOK, Txn
<1>6. CASE RemoveTxn(s) \/ PurgeTxns(s)
  BY <1>6 DEF RemoveTxn, PurgeTxns, Restrict
<1>7. CASE IncCustomer(s) \/ ScoreSet(s)
  BY <1>7 DEF IncCustomer, ScoreSet, Posted, TypeOK, Customer
<1>8. CASE ScoreNoCustomer(s) \/ ScoreReadBalance(s) \/ ScoreReadTxns(s)
  BY <1>8 DEF ScoreNoCustomer, ScoreReadBalance, ScoreReadTxns, database
<1> QED BY <1>1, <1>2, <1>3, <1>4, <1>5, <1>6, <1>7, <1>8 DEF Begin, Advance

\* A call that deletes a customer is about no transaction.
DropHasNoTxn == \A s \in Sessions : call[s].kind = "drop" => call[s].txn = 0

\* It is not in any interleaving.
LEMMA DropInvariant == Spec => []DropHasNoTxn
<1>1. Init => DropHasNoTxn
  BY DEF Init, Idle, DropHasNoTxn
<1>2. ASSUME TypeOK, DropHasNoTxn, [Next]_vars
      PROVE  DropHasNoTxn'
  <2>1. ASSUME NEW s \in Sessions, Begin(s)
        PROVE  DropHasNoTxn'
    <3>1. \A r \in Sessions \ {s} : call'[r] = call[r]
      BY <1>2, <2>1, BeginCalls
    <3>2. call'[s].kind = "drop" => call'[s].txn = 0
      <4>1. call \in [Sessions -> Call]
        BY <1>2 DEF TypeOK
      <4>2. \A c : [Idle EXCEPT !.pc = "score_customer", !.kind = "recalc",
                                !.customer = c].txn = 0
        BY Zenon DEF Idle
      <4>3. \A c : [Idle EXCEPT !.pc = "purge", !.kind = "drop", !.customer = c].txn = 0
        BY Zenon DEF Idle
      <4>4. AddCustomer(s) => call' = call
        BY DEF AddCustomer
      <4>5. ASSUME NEW c \in CustomerIds, RecalculateScore(s, c)
            PROVE  call'[s].txn = 0
        <5>1. call'[s] = [Idle EXCEPT !.pc = "score_customer", !.kind = "recalc",
                                      !.customer = c]
          BY <4>1, <4>5, Zenon DEF RecalculateScore
        <5> QED BY <4>2, <5>1
      <4>6. ASSUME NEW c \in CustomerIds, DeleteCustomer(s, c)
            PROVE  call'[s].txn = 0
        <5>1. call'[s] = [Idle EXCEPT !.pc = "purge", !.kind = "drop", !.customer = c]
          BY <4>1, <4>6, Zenon DEF DeleteCustomer
        <5> QED BY <4>3, <5>1
      <4>7. ASSUME \/ \E c \in CustomerIds, type \in TxnTypes, a \in Amounts :
                         AddTransaction(s, c, type, a)
                   \/ \E t \in TxnIds, a \in Amounts : EditTransaction(s, t, a)
                   \/ \E t \in TxnIds : DeleteTransaction(s, t)
            PROVE  call'[s].kind # "drop"
        BY <4>1, <4>7 DEF AddTransaction, EditTransaction, DeleteTransaction
      <4> QED BY <1>2, <2>1, <4>4, <4>5, <4>6, <4>7 DEF Begin, DropHasNoTxn
    <3> QED BY <1>2, <3>1, <3>2 DEF DropHasNoTxn
  <2>2. ASSUME NEW s \in Sessions, Advance(s)
        PROVE  DropHasNoTxn'
    BY <1>2, <2>2, AdvanceCalls DEF DropHasNoTxn, Idle
  <2>3. ASSUME NEW s \in Sessions, Abort(s)
        PROVE  DropHasNoTxn'
    BY <1>2, <2>3 DEF Abort, Return, DropHasNoTxn, Idle, TypeOK
  <2>4. CASE UNCHANGED vars
    BY <1>2, <2>4 DEF vars, DropHasNoTxn
  <2> QED BY <1>2, <2>1, <2>2, <2>3, <2>4 DEF Next
<1> QED BY <1>1, <1>2, LedgerTypeOK, PTL DEF Spec

-----------------------------------------------------------------------------
(* What the log is to know *)

\* The page of session s has done what its line says.
Done(s) == \/ page[s].task \in {"balance", "log", "receipt"}
           \/ page[s].task = "call" /\ call[s].pc # "write"

\* Line l is in the log, or its page has done what it says.
Pledged(l) == l \in log \/ \E s \in Sessions : Done(s) /\ l = LineOf(s)

\* Line l is pledged or lost, or its merchant has cleared the log.
Known(l) == l.merchant \in wiped \/ l \in lost \/ Pledged(l)

\* A page with a receipt to send has written its entry.
ReceiptsLogged ==
    \A s \in Sessions :
        page[s].task = "receipt" => LoggedInAs[s] \in wiped \/ LineOf(s) \in log

\* A line has the fields it is made of.
LEMMA LineFields ==
    ASSUME NEW m, NEW a, NEW t, NEW c, NEW l, l = Line(m, a, t, c)
    PROVE  l.merchant = m /\ l.action = a /\ l.txn = t /\ l.customer = c
BY DEF Line

\* What becomes of the page of session s in its steps: once it has made its change it
\* keeps to the entry, until it is written, or lost.
LEMMA PageEffect ==
    ASSUME TypeOK, PageTypes, PagesFit, ReceiptsLogged, NEW s \in Sessions,
           Work(s) \/ Continue(s) \/ Cut(s) \/ PageStep(s)
    PROVE  /\ \A r \in Sessions \ {s} : page'[r] = page[r] /\ call'[r] = call[r]
           /\ wiped \subseteq wiped' /\ lost \subseteq lost'
           /\ \A e \in log : e \in log' \/ e.merchant \in wiped'
           /\ page[s].action # "none" /\ Done(s) =>
                 \/ /\ page'[s].action = page[s].action
                    /\ page'[s].txn = page[s].txn /\ page'[s].customer = page[s].customer
                    /\ Done(s)'
                 \/ LoggedInAs[s] \in wiped' \/ LineOf(s) \in log' \cup lost'
<1>1. page \in [Sessions -> Page] /\ page[s] \in Page /\ PageFits(s)
  BY DEF PageTypes, PagesFit
<1>2. \A r \in Sessions \ {s} : page'[r] = page[r] /\ call'[r] = call[r]
  <2>1. \A r \in Sessions \ {s} : page'[r] = page[r]
    BY <1>1 DEF Work, Continue, Cut, PageStep, Login, Logout, PortalLogin, PortalLogout,
       ReadNewBalance, WriteLog, SendReceipt, ListCustomer, MakeInvoice, ClearLog, EndPage,
       SetPage
  <2>2. \A r \in Sessions \ {s} : call'[r] = call[r]
    BY BeginCalls, AdvanceCalls, CutCalls, PageStepLeavesLedger DEF Work, Continue, vars
  <2> QED BY <2>1, <2>2
<1>3. /\ wiped \subseteq wiped' /\ lost \subseteq lost'
      /\ \A e \in log : e \in log' \/ e.merchant \in wiped'
  BY DEF Work, Continue, Cut, PageStep, Login, Logout, PortalLogin, PortalLogout,
     ReadNewBalance, WriteLog, SendReceipt, ListCustomer, MakeInvoice, ClearLog
<1> SUFFICES ASSUME page[s].action # "none", Done(s)
             PROVE  \/ /\ page'[s].action = page[s].action
                       /\ page'[s].txn = page[s].txn /\ page'[s].customer = page[s].customer
                       /\ Done(s)'
                    \/ LoggedInAs[s] \in wiped' \/ LineOf(s) \in log' \cup lost'
  BY <1>2, <1>3
<1>4. CASE Work(s)
  BY <1>1, <1>4 DEF Work, PageFits
<1>5. CASE Continue(s)
  <2>1. \A task : LET p == Doing(task, page[s].action, page[s].txn, page[s].customer)
                  IN  /\ p.action = page[s].action /\ p.task = task
                      /\ p.txn = page[s].txn /\ p.customer = page[s].customer
    BY DEF Doing
  <2>2. \/ page'[s] = page[s] /\ call'[s].kind # "none"
        \/ \E task \in {"balance", "log"} :
              page'[s] = Doing(task, page[s].action, page[s].txn, page[s].customer)
    BY <1>1, <1>5 DEF Continue, Returned, SetPage
  <2>3. call'[s].kind # "none" => call'[s].pc # "write"
    BY <1>5, AdvanceCalls DEF Continue, Idle
  <2> QED BY <2>1, <2>2, <2>3 DEF Done
<1>6. CASE Login(s) \/ Logout(s) \/ PortalLogout(s) \/ ClearLog(s)
           \/ \E c \in CustomerIds : PortalLogin(s, c)
  <2>1. page' = page /\ call' = call
    BY <1>6 DEF Login, Logout, PortalLogout, ClearLog, PortalLogin, vars
  <2> QED BY <2>1 DEF Done
<1>7. CASE ReadNewBalance(s)
  <2>1. CASE page[s].customer \in DOMAIN customers
    <3>1. page'[s] = Doing("log", page[s].action, page[s].txn, page[s].customer)
      BY <1>1, <1>7, <2>1 DEF ReadNewBalance, SetPage
    <3> QED BY <3>1 DEF Doing, Done
  <2> QED BY <1>7, <2>1 DEF ReadNewBalance
<1>8. CASE WriteLog(s)
  BY <1>8 DEF WriteLog
<1>9. CASE SendReceipt(s)
  <2>1. page[s].task = "receipt" /\ UNCHANGED <<log, wiped>>
    BY <1>9 DEF SendReceipt
  <2> QED BY <2>1 DEF ReceiptsLogged
<1>10. CASE MakeInvoice(s) \/ \E c \in CustomerIds : ListCustomer(s, c)
  BY <1>1, <1>10 DEF MakeInvoice, ListCustomer, PageFits
<1>11. CASE Cut(s)
  <2>1. CASE page[s].task = "receipt"
    BY <1>11, <2>1 DEF Cut, ReceiptsLogged
  <2>2. CASE page[s].task # "receipt"
    BY <1>11, <2>2 DEF Cut, Unlogged, Done
  <2> QED BY <2>1, <2>2
<1> QED BY <1>4, <1>5, <1>6, <1>7, <1>8, <1>9, <1>10, <1>11 DEF PageStep

\* What is known stays known.
LEMMA KnownKept ==
    ASSUME TypeOK, PageTypes, PagesFit, ReceiptsLogged, NEW s \in Sessions,
           Work(s) \/ Continue(s) \/ Cut(s) \/ PageStep(s),
           NEW l, Known(l), l.action # "none"
    PROVE  Known(l)'
<1>1. /\ \A r \in Sessions \ {s} : page'[r] = page[r] /\ call'[r] = call[r]
      /\ wiped \subseteq wiped' /\ lost \subseteq lost'
      /\ \A e \in log : e \in log' \/ e.merchant \in wiped'
      /\ page[s].action # "none" /\ Done(s) =>
            \/ /\ page'[s].action = page[s].action
               /\ page'[s].txn = page[s].txn /\ page'[s].customer = page[s].customer
               /\ Done(s)'
            \/ LoggedInAs[s] \in wiped' \/ LineOf(s) \in log' \cup lost'
  BY PageEffect
<1>2. CASE l.merchant \in wiped \/ l \in log \/ l \in lost
  BY <1>1, <1>2 DEF Known, Pledged
<1>3. ASSUME NEW r \in Sessions \ {s}, Done(r), l = LineOf(r)
      PROVE  Known(l)'
  BY <1>1, <1>3 DEF Known, Pledged, Done, LineOf
<1>4. CASE Done(s) /\ l = LineOf(s)
  <2>1. l.action = page[s].action /\ l.merchant = LoggedInAs[s]
    BY <1>4 DEF LineOf, Line
  <2> QED BY <1>1, <1>4, <2>1 DEF Known, Pledged, LineOf
<1> QED BY <1>2, <1>3, <1>4 DEF Known, Pledged

\* The receipts' entries stay in the log, until it is cleared.
LEMMA ReceiptsKept ==
    ASSUME TypeOK, PageTypes, PagesFit, ReceiptsLogged, NEW s \in Sessions,
           Work(s) \/ Continue(s) \/ Cut(s) \/ PageStep(s)
    PROVE  ReceiptsLogged'
<1>1. /\ \A r \in Sessions \ {s} : page'[r] = page[r]
      /\ wiped \subseteq wiped'
      /\ \A e \in log : e \in log' \/ e.merchant \in wiped'
  BY PageEffect
<1>2. \A r \in Sessions : LineOf(r).merchant = LoggedInAs[r]
  BY DEF LineOf, Line
<1>3. ASSUME NEW r \in Sessions, page'[r] = page[r], page[r].task = "receipt"
      PROVE  LoggedInAs[r] \in wiped' \/ LineOf(r)' \in log'
  <2>1. LineOf(r)' = LineOf(r)
    BY <1>3 DEF LineOf
  <2> QED BY <1>1, <1>2, <1>3, <2>1 DEF ReceiptsLogged
<1>4. page'[s].task # "receipt" \/ page'[s] = page[s] \/ WriteLog(s)
  <2>1. page \in [Sessions -> Page]
    BY DEF PageTypes
  <2>2. \A a, t, c : /\ \A task : Doing(task, a, t, c).task = task
                     /\ NoPage.task = "none"
    BY DEF Doing, NoPage
  <2>3. /\ NoPage.task # "receipt"
        /\ Returned(page[s]).task # "receipt"
    BY <2>2 DEF Returned
  <2> QED
    BY <2>1, <2>2, <2>3
       DEF Work, Continue, Cut, PageStep, Login, Logout, PortalLogin, PortalLogout,
           ReadNewBalance, SendReceipt, ListCustomer, MakeInvoice, ClearLog, EndPage,
           SetPage
<1>5. CASE WriteLog(s)
  <2>1. LineOf(s) \in log' /\ page[s] \in Page /\ page \in [Sessions -> Page]
    BY <1>5 DEF WriteLog, PageTypes
  <2>2. page'[s].task = "receipt" => LineOf(s)' = LineOf(s)
    BY <1>5, <2>1 DEF WriteLog, EndPage, SetPage, NoPage, Doing, LineOf, Page
  <2>3. page'[s].task = "receipt" => LoggedInAs[s] \in wiped' \/ LineOf(s)' \in log'
    BY <2>1, <2>2
  <2> QED BY <1>1, <1>3, <2>3 DEF ReceiptsLogged
<1> QED BY <1>1, <1>3, <1>4, <1>5 DEF ReceiptsLogged

\* The line a call that begins, or goes on, leaves its page with
LEMMA LedgerLine ==
    ASSUME TypeOK, TypeOK', PageTypes, PagesFit, NEW s \in Sessions, Work(s) \/ Continue(s)
    PROVE  \/ /\ AddCustomer(s)
              /\ LineOf(s)' = Line(LoggedInAs[s], "ADD_CUSTOMER", 0, nextCustomer)
              /\ page'[s].task = "log"
           \/ /\ Begin(s) /\ call'[s].kind # "none" /\ page'[s].task = "call"
              /\ LineOf(s)' = Line(LoggedInAs[s], ActionOf(call'[s].kind), call'[s].txn,
                                   call'[s].customer)
           \/ /\ Advance(s) /\ Busy(s) /\ page[s].task = "call"
              /\ LineOf(s) = Line(LoggedInAs[s], ActionOf(call[s].kind), call[s].txn,
                                  call[s].customer)
              /\ page[s].action # "none" => LineOf(s)' = LineOf(s) /\ Done(s)'
<1>1. page \in [Sessions -> Page] /\ PageFits(s) /\ call[s] \in Call
  BY DEF PageTypes, PagesFit, TypeOK
<1>2. \A task, a, t, c : LET p == Doing(task, a, t, c)
                         IN  /\ p.task = task /\ p.action = a
                             /\ p.txn = t /\ p.customer = c
  BY DEF Doing
<1>3. CASE Work(s)
  <2>1. Begin(s) /\ call[s].pc = "idle"
    BY <1>3, BeginCalls DEF Work
  <2>2. CASE AddCustomer(s) /\ call' = call
    <3>1. call'[s].kind = "none"
      BY <1>1, <2>1, <2>2 DEF Call
    <3>2. page'[s] = Doing("log", "ADD_CUSTOMER", 0, nextCustomer)
      BY <1>1, <1>3, <3>1 DEF Work, SetPage
    <3> QED BY <1>2, <2>2, <3>2 DEF LineOf
  <2>3. CASE call'[s].kind # "none"
    <3>1. page'[s] = Doing("call", ActionOf(call'[s].kind), call'[s].txn, call'[s].customer)
      BY <1>1, <1>3, <2>3 DEF Work, SetPage
    <3>2. /\ page'[s].task = "call" /\ page'[s].action = ActionOf(call'[s].kind)
          /\ page'[s].txn = call'[s].txn /\ page'[s].customer = call'[s].customer
      BY <3>1 DEF Doing
    <3> QED BY <2>1, <2>3, <3>2 DEF LineOf
  <2> QED BY <2>1, <2>2, <2>3, BeginCalls
<1>4. CASE Continue(s)
  <2>1. Advance(s) /\ Busy(s)
    BY <1>4, AdvanceCalls DEF Continue
  <2>2. /\ page[s].task = "call"
        /\ LineOf(s) = Line(LoggedInAs[s], ActionOf(call[s].kind), call[s].txn,
                            call[s].customer)
    BY <1>1, <2>1 DEF PageFits, LineOf
  <2>3. ASSUME page[s].action # "none"
        PROVE  LineOf(s)' = LineOf(s) /\ Done(s)'
    <3>1. \/ page'[s] = page[s] /\ call'[s].kind # "none"
          \/ \E task \in {"balance", "log"} :
                page'[s] = Doing(task, page[s].action, page[s].txn, page[s].customer)
      BY <1>1, <1>4, <2>3 DEF Continue, Returned, SetPage
    <3>2. /\ page'[s].action = page[s].action
          /\ page'[s].txn = page[s].txn /\ page'[s].customer = page[s].customer
      BY <1>2, <3>1
    <3>3. call'[s].kind # "none" => call'[s].pc # "write"
      BY <2>1, AdvanceCalls DEF Idle
    <3>4. Done(s)'
      BY <1>2, <2>2, <3>1, <3>3 DEF Done
    <3> QED BY <3>2, <3>4 DEF LineOf
  <2> QED BY <2>1, <2>2, <2>3
<1> QED BY <1>3, <1>4

-----------------------------------------------------------------------------
(* Whatever is stored is known *)

\* The additions of the transactions and customers that are stored are known.
StoredIsKnown ==
    /\ \A t \in DOMAIN txns :
          Known(Line(txns[t].merchant, "ADD_TXN", t, txns[t].customer))
    /\ \A c \in DOMAIN customers :
          Known(Line(customers[c].merchant, "ADD_CUSTOMER", 0, c))

\* A step of the ledger keeps what is stored known.
LEMMA LedgerStepKnown ==
    ASSUME TypeOK, TypeOK', IdsInv, PageTypes, PagesFit, ReceiptsLogged, StoredIsKnown,
           NEW s \in Sessions, Work(s) \/ Continue(s)
    PROVE  StoredIsKnown'
<1>0. Begin(s) \/ Advance(s)
  BY DEF Work, Continue
<1>1. ASSUME NEW t \in DOMAIN txns', NEW m, NEW c,
             m = txns'[t].merchant, c = txns'[t].customer
      PROVE  Known(Line(m, "ADD_TXN", t, c))'
  <2> DEFINE l == Line(m, "ADD_TXN", t, c)
  <2>1. CASE t \notin DOMAIN txns
    <3>1. /\ InsertTxn(s) /\ t = call[s].txn /\ m = LoggedInAs[s]
          /\ c = call[s].customer
      BY <1>0, <1>1, <2>1, LedgerEffect
    <3>2. call[s].kind = "add" /\ call[s].pc = "write"
      BY <3>1 DEF InsertTxn
    <3>3. LineOf(s)' = LineOf(s) /\ LineOf(s) = l /\ Done(s)'
      <4>1. /\ LineOf(s) = Line(LoggedInAs[s], ActionOf(call[s].kind), call[s].txn,
                                call[s].customer)
            /\ page[s].action # "none" => LineOf(s)' = LineOf(s) /\ Done(s)'
        BY <3>2, LedgerLine, BeginCalls DEF AddCustomer
      <4>2. ActionOf(call[s].kind) = "ADD_TXN"
        BY <3>2 DEF ActionOf
      <4>3. page[s].action = ActionOf(call[s].kind)
        BY <3>2 DEF PagesFit, PageFits, Busy
      <4> QED BY <3>1, <4>1, <4>2, <4>3
    <3>4. l = LineOf(s)'
      BY <3>3
    <3> QED BY <3>3, <3>4 DEF Known, Pledged
  <2>2. CASE t \in DOMAIN txns
    <3>1. m = txns[t].merchant /\ c = txns[t].customer
      <4>1. CASE RemoveTxn(s) \/ PurgeTxns(s)
        BY <1>1, <2>2, <4>1 DEF RemoveTxn, PurgeTxns, Restrict
      <4> QED BY <1>0, <1>1, <2>2, <4>1, LedgerEffect
    <3>2. Known(l) /\ l.action = "ADD_TXN"
      BY <2>2, <3>1, LineFields DEF StoredIsKnown
    <3> HIDE DEF l
    <3>3. Known(l)'
      BY <3>2, KnownKept
    <3> QED BY <3>3 DEF l
  <2> QED BY <2>1, <2>2
<1>2. ASSUME NEW c \in DOMAIN customers', NEW m, m = customers'[c].merchant
      PROVE  Known(Line(m, "ADD_CUSTOMER", 0, c))'
  <2> DEFINE l == Line(m, "ADD_CUSTOMER", 0, c)
  <2>1. CASE c \notin DOMAIN customers
    <3>1. AddCustomer(s) /\ c = nextCustomer /\ m = LoggedInAs[s]
      BY <1>0, <1>2, <2>1, LedgerEffect
    <3>2. /\ LineOf(s)' = Line(LoggedInAs[s], "ADD_CUSTOMER", 0, nextCustomer)
          /\ page'[s].task = "log"
      <4>1. call[s].pc = "idle" /\ call' = call
        BY <3>1 DEF AddCustomer
      <4>2. call'[s].kind = "none"
        BY <4>1 DEF TypeOK, Call
      <4> QED BY <4>1, <4>2, LedgerLine DEF Busy
    <3>3. l = LineOf(s)'
      BY <3>1, <3>2
    <3> QED BY <3>2, <3>3 DEF Known, Pledged, Done
  <2>2. CASE c \in DOMAIN customers
    <3>1. m = customers[c].merchant
      <4>1. CASE DeleteCustomer(s, c)
        BY <1>2, <4>1 DEF DeleteCustomer, Restrict
      <4> QED BY <1>0, <1>2, <2>2, <4>1, LedgerEffect
    <3>2. Known(l) /\ l.action = "ADD_CUSTOMER"
      BY <2>2, <3>1, LineFields DEF StoredIsKnown
    <3> HIDE DEF l
    <3>3. Known(l)'
      BY <3>2, KnownKept
    <3> QED BY <3>3 DEF l
  <2> QED BY <2>1, <2>2
<1> QED BY <1>1, <1>2 DEF StoredIsKnown

\* A step of a page, or one cut short, keeps it as well: they change nothing stored.
LEMMA PageStepKnown ==
    ASSUME TypeOK, PageTypes, PagesFit, ReceiptsLogged, StoredIsKnown,
           NEW s \in Sessions, PageStep(s) \/ Cut(s)
    PROVE  StoredIsKnown'
<1>1. UNCHANGED database
  BY PageStepLeavesLedger, CutCalls DEF vars, database
<1>2. ASSUME NEW l, Known(l), l.action \in {"ADD_TXN", "ADD_CUSTOMER"}
      PROVE  Known(l)'
  BY <1>2, KnownKept
<1>3. ASSUME NEW m, NEW a \in {"ADD_TXN", "ADD_CUSTOMER"}, NEW t, NEW c,
             Known(Line(m, a, t, c))
      PROVE  Known(Line(m, a, t, c))'
  <2>1. PICK l : l = Line(m, a, t, c)
    OBVIOUS
  <2>2. Known(l) /\ l.action \in {"ADD_TXN", "ADD_CUSTOMER"}
    BY <1>3, <2>1, LineFields
  <2> QED BY <1>2, <2>1, <2>2
<1> QED BY <1>1, <1>3 DEF StoredIsKnown, database

\* No page has a receipt to send at the start, and nothing is stored.
LEMMA InitKnown == DeskInit => ReceiptsLogged /\ StoredIsKnown
<1>1. NoPage.task = "none"
  BY DEF NoPage, Doing
<1> QED BY <1>1 DEF DeskInit, Init, ReceiptsLogged, StoredIsKnown

\* The receipts' entries are in the log and what is stored is known, throughout.
LEMMA KnownInvariant == DeskSpec => [](ReceiptsLogged /\ StoredIsKnown)
<1>1. ASSUME TypeOK, TypeOK', IdsInv, PageTypes, PagesFit,
             ReceiptsLogged /\ StoredIsKnown, [DeskNext]_deskVars
      PROVE  (ReceiptsLogged /\ StoredIsKnown)'
  <2>1. CASE UNCHANGED deskVars
    BY <1>1, <2>1
       DEF deskVars, vars, pageVars, ReceiptsLogged, StoredIsKnown, Known, Pledged, Done,
           LineOf
  <2>2. ASSUME NEW s \in Sessions, Work(s) \/ Continue(s)
        PROVE  (ReceiptsLogged /\ StoredIsKnown)'
    BY <1>1, <2>2, ReceiptsKept, LedgerStepKnown
  <2>3. ASSUME NEW s \in Sessions, PageStep(s) \/ Cut(s)
        PROVE  (ReceiptsLogged /\ StoredIsKnown)'
    BY <1>1, <2>3, ReceiptsKept, PageStepKnown
  <2> QED BY <1>1, <2>1, <2>2, <2>3 DEF DeskNext
<1> QED
  BY <1>1, InitKnown, DeskInvariant, DeskUsesLedger, IdsInvariant, PTL DEF DeskSpec

\* A line that is known is accounted for, unless its merchant has cleared the log.
LEMMA KnownIsAccounted ==
    ASSUME NEW l, Known(l), l.merchant \notin wiped
    PROVE  Accounted(l.action, l.txn, l.customer)
<1>1. CASE l \in log \/ l \in lost
  BY <1>1 DEF Accounted
<1>2. ASSUME NEW s \in Sessions, l = LineOf(s)
      PROVE  Accounted(l.action, l.txn, l.customer)
  <2>1. l.action = page[s].action /\ l.txn = page[s].txn /\ l.customer = page[s].customer
    BY <1>2 DEF LineOf, Line
  <2> QED BY <2>1 DEF Accounted
<1> QED BY <1>1, <1>2 DEF Known, Pledged

\* Whatever is stored, the log knows of it or is about to, until it is cleared.
THEOREM NothingStaysUnlogged == DeskSpec => []NothingUnlogged
<1>1. ASSUME StoredIsKnown
      PROVE  NothingUnlogged
  <2>1. ASSUME NEW t \in DOMAIN txns, txns[t].merchant \notin wiped
        PROVE  Accounted("ADD_TXN", t, txns[t].customer)
    <3>1. PICK l : l = Line(txns[t].merchant, "ADD_TXN", t, txns[t].customer)
      OBVIOUS
    <3>2. /\ l.merchant = txns[t].merchant /\ l.action = "ADD_TXN"
          /\ l.txn = t /\ l.customer = txns[t].customer
      BY <3>1, LineFields
    <3>3. Known(l)
      BY <1>1, <2>1, <3>1 DEF StoredIsKnown
    <3>4. Accounted(l.action, l.txn, l.customer)
      BY <2>1, <3>2, <3>3, KnownIsAccounted
    <3> QED BY <3>2, <3>4
  <2>2. ASSUME NEW c \in DOMAIN customers, customers[c].merchant \notin wiped
        PROVE  Accounted("ADD_CUSTOMER", 0, c)
    <3>1. PICK l : l = Line(customers[c].merchant, "ADD_CUSTOMER", 0, c)
      OBVIOUS
    <3>2. /\ l.merchant = customers[c].merchant /\ l.action = "ADD_CUSTOMER"
          /\ l.txn = 0 /\ l.customer = c
      BY <3>1, LineFields
    <3>3. Known(l)
      BY <1>1, <3>1 DEF StoredIsKnown
    <3>4. Accounted(l.action, l.txn, l.customer)
      BY <2>2, <3>2, <3>3, KnownIsAccounted
    <3> QED BY <3>2, <3>4
  <2> QED BY <2>1, <2>2 DEF NothingUnlogged
<1> QED BY <1>1, KnownInvariant, PTL

-----------------------------------------------------------------------------
(* Whatever was added is there, or known to have gone *)

\* The deletion of the transaction, or of the customer, that line l names is known.
KnownDeleted(l) == Known(Line(l.merchant, "DELETE_TXN", l.txn, l.customer))
KnownDropped(l) == Known(Line(l.merchant, "DELETE_CUSTOMER", 0, l.customer))

\* Transaction t, or customer c, is stored, and is what line l says was added.
IsTxnOf(t, l) == /\ t \in DOMAIN txns /\ t = l.txn
                 /\ txns[t].merchant = l.merchant /\ txns[t].customer = l.customer
IsCustomerOf(c, l) == /\ c \in DOMAIN customers /\ c = l.customer
                      /\ customers[c].merchant = l.merchant

\* What line l says was added is stored, or known to be deleted.
Fulfilled(l) ==
    /\ l.action = "ADD_TXN" => \/ \E t \in TxnIds : IsTxnOf(t, l)
                               \/ KnownDeleted(l) \/ KnownDropped(l)
    /\ l.action = "ADD_CUSTOMER" => \/ \E c \in CustomerIds : IsCustomerOf(c, l)
                                    \/ KnownDropped(l)

\* What is pledged is fulfilled.
PledgesFulfilled == \A l : Pledged(l) => Fulfilled(l)

\* Known deletions stay known.
LEMMA DeletionsKept ==
    ASSUME TypeOK, PageTypes, PagesFit, ReceiptsLogged, NEW s \in Sessions,
           Work(s) \/ Continue(s) \/ Cut(s) \/ PageStep(s), NEW l
    PROVE  /\ KnownDeleted(l) => KnownDeleted(l)'
           /\ KnownDropped(l) => KnownDropped(l)'
<1>2. ASSUME NEW k, Known(k), k.action \in {"DELETE_TXN", "DELETE_CUSTOMER"}
      PROVE  Known(k)'
  BY <1>2, KnownKept
<1>3. PICK d : d = Line(l.merchant, "DELETE_TXN", l.txn, l.customer)
  OBVIOUS
<1>4. PICK k : k = Line(l.merchant, "DELETE_CUSTOMER", 0, l.customer)
  OBVIOUS
<1>5. d.action = "DELETE_TXN" /\ k.action = "DELETE_CUSTOMER"
  BY <1>3, <1>4, LineFields
<1>6. (Known(d) => Known(d)') /\ (Known(k) => Known(k)')
  BY <1>2, <1>5
<1> QED BY <1>3, <1>4, <1>6 DEF KnownDeleted, KnownDropped

\* A step of the ledger keeps what is fulfilled so: whatever it deletes the page
\* of its session knows of.
LEMMA LedgerStepFulfils ==
    ASSUME TypeOK, TypeOK', IdsInv, Owned, DropHasNoTxn, DropHasNoTxn', PageTypes, PagesFit,
           ReceiptsLogged, NEW s \in Sessions, Work(s) \/ Continue(s),
           NEW l, Fulfilled(l)
    PROVE  Fulfilled(l)'
<1>0. Begin(s) \/ Advance(s)
  BY DEF Work, Continue
<1>1. /\ KnownDeleted(l) => KnownDeleted(l)'
      /\ KnownDropped(l) => KnownDropped(l)'
  BY DeletionsKept
<1>2. PICK o : OwnedBy(o)
  BY DEF Owned
<1>3. ASSUME NEW t \in TxnIds, IsTxnOf(t, l)
      PROVE  IsTxnOf(t, l)' \/ KnownDeleted(l)' \/ KnownDropped(l)'
  <2>1. /\ t \in DOMAIN txns /\ t = l.txn
        /\ txns[t].merchant = l.merchant /\ txns[t].customer = l.customer
        /\ l.merchant = o[l.customer]
    BY <1>2, <1>3 DEF IsTxnOf, OwnedBy
  <2>2. CASE t \in DOMAIN txns' /\ txns'[t].merchant = txns[t].merchant
             /\ txns'[t].customer = txns[t].customer
    BY <2>1, <2>2 DEF IsTxnOf
  <2>3. ASSUME Advance(s), call[s].customer = l.customer, call[s].customer # 0,
               call[s].kind \in {"delete", "drop"}
        PROVE  /\ LoggedInAs[s] = l.merchant
               /\ LineOf(s)' = Line(l.merchant, ActionOf(call[s].kind), call[s].txn,
                                    l.customer)
               /\ Done(s)'
    <3>1. LoggedInAs[s] = l.merchant
      BY <1>2, <2>1, <2>3 DEF OwnedBy
    <3>2. /\ LineOf(s) = Line(LoggedInAs[s], ActionOf(call[s].kind), call[s].txn,
                              call[s].customer)
          /\ page[s].action # "none" => LineOf(s)' = LineOf(s) /\ Done(s)'
      <4>1. Busy(s)
        BY <2>3, AdvanceCalls
      <4> QED BY <4>1, LedgerLine, BeginCalls DEF Busy, AddCustomer
    <3>3. page[s].action = ActionOf(call[s].kind) /\ ActionOf(call[s].kind) # "none"
      BY <2>3, AdvanceCalls DEF PagesFit, PageFits, ActionOf
    <3> QED BY <2>3, <3>1, <3>2, <3>3
  <2>4. CASE RemoveTxn(s) /\ t = call[s].txn
    <3>1. call[s].kind = "delete" /\ call[s].pc = "write" /\ Advance(s)
      BY <2>4 DEF RemoveTxn, Advance
    <3>2. call[s].customer = l.customer /\ call[s].customer # 0
      BY <2>1, <2>4, <3>1 DEF IdsInv, FixedFieldsKnown, Changing, TypeOK, Call, TxnCalls
    <3>3. LineOf(s)' = Line(l.merchant, "DELETE_TXN", l.txn, l.customer) /\ Done(s)'
      BY <2>1, <2>3, <2>4, <3>1, <3>2 DEF ActionOf
    <3> QED BY <3>3 DEF KnownDeleted, Known, Pledged
  <2>5. CASE PurgeTxns(s) /\ txns[t].customer = call[s].customer
    <3>1. call[s].kind = "drop" /\ Advance(s)
      BY <2>5 DEF PurgeTxns, Advance, TypeOK, Call
    <3>2. call[s].customer = l.customer /\ call[s].customer # 0 /\ call[s].txn = 0
      BY <2>1, <2>5, <3>1 DEF DropHasNoTxn, TypeOK, Txn, CustomerIds
    <3>3. LineOf(s)' = Line(l.merchant, "DELETE_CUSTOMER", 0, l.customer) /\ Done(s)'
      BY <2>3, <3>1, <3>2 DEF ActionOf
    <3> QED BY <3>3 DEF KnownDropped, Known, Pledged
  <2> QED BY <1>0, <2>1, <2>2, <2>4, <2>5, LedgerEffect
<1>4. ASSUME NEW c \in CustomerIds, IsCustomerOf(c, l)
      PROVE  IsCustomerOf(c, l)' \/ KnownDropped(l)'
  <2>1. /\ c \in DOMAIN customers /\ c = l.customer /\ customers[c].merchant = l.merchant
    BY <1>4 DEF IsCustomerOf
  <2>2. CASE c \in DOMAIN customers' /\ customers'[c].merchant = customers[c].merchant
    BY <2>1, <2>2 DEF IsCustomerOf
  <2>3. CASE DeleteCustomer(s, c)
    <3>1. /\ LoggedInAs[s] = l.merchant
          /\ call'[s] = [Idle EXCEPT !.pc = "purge", !.kind = "drop", !.customer = c]
      BY <2>1, <2>3 DEF DeleteCustomer, Finds, TypeOK
    <3>2. call'[s].kind = "drop" /\ call'[s].customer = c /\ call'[s].pc = "purge"
      BY <3>1, Zenon DEF Idle
    <3>3. call'[s].txn = 0
      BY <3>2 DEF DropHasNoTxn
    <3>4. call[s].pc = "idle" /\ call'[s] # call[s]
      BY <2>3, <3>2 DEF DeleteCustomer
    <3>5. /\ LineOf(s)' = Line(LoggedInAs[s], ActionOf(call'[s].kind), call'[s].txn,
                               call'[s].customer)
          /\ page'[s].task = "call"
      BY <3>4, LedgerLine DEF Busy, AddCustomer
    <3>6. LineOf(s)' = Line(l.merchant, "DELETE_CUSTOMER", 0, l.customer)
      BY <2>1, <3>1, <3>2, <3>3, <3>5 DEF ActionOf
    <3> QED BY <3>2, <3>5, <3>6 DEF KnownDropped, Known, Pledged, Done
  <2> QED BY <1>0, <2>1, <2>2, <2>3, LedgerEffect
<1>5. ASSUME l.action = "ADD_TXN"
      PROVE  (\E t \in TxnIds : IsTxnOf(t, l)') \/ KnownDeleted(l)' \/ KnownDropped(l)'
  BY <1>1, <1>3, <1>5 DEF Fulfilled
<1>6. ASSUME l.action = "ADD_CUSTOMER"
      PROVE  (\E c \in CustomerIds : IsCustomerOf(c, l)') \/ KnownDropped(l)'
  BY <1>1, <1>4, <1>6 DEF Fulfilled
<1> QED BY <1>5, <1>6 DEF Fulfilled

\* What a page has newly done in a step of the ledger is fulfilled.
LEMMA LedgerStepPledges ==
    ASSUME TypeOK, TypeOK', IdsInv, Owned, DropHasNoTxn, DropHasNoTxn', PageTypes, PagesFit,
           ReceiptsLogged, PledgesFulfilled, NEW s \in Sessions, Work(s) \/ Continue(s),
           NEW l, l = LineOf(s)', Done(s)'
    PROVE  Fulfilled(l)'
<1>1. \A k : ActionOf(k) # "ADD_CUSTOMER" /\ (ActionOf(k) = "ADD_TXN" => k = "add")
  BY DEF ActionOf
<1>2. ASSUME l.action \notin {"ADD_TXN", "ADD_CUSTOMER"}
      PROVE  Fulfilled(l)'
  BY <1>2 DEF Fulfilled
<1>3. CASE /\ AddCustomer(s)
           /\ LineOf(s)' = Line(LoggedInAs[s], "ADD_CUSTOMER", 0, nextCustomer)
  <2>1. /\ l.merchant = LoggedInAs[s] /\ l.action = "ADD_CUSTOMER"
        /\ l.customer = nextCustomer
    BY <1>3, LineFields
  <2>2. /\ nextCustomer \in DOMAIN customers'
        /\ customers'[nextCustomer].merchant = LoggedInAs[s]
    BY <1>3 DEF AddCustomer, Insert
  <2>3. nextCustomer \in CustomerIds
    BY <2>2 DEF TypeOK
  <2>4. PICK c \in CustomerIds : c = nextCustomer
    BY <2>3
  <2>5. IsCustomerOf(c, l)'
    BY <2>1, <2>2, <2>4 DEF IsCustomerOf
  <2> QED BY <2>1, <2>5 DEF Fulfilled
<1>4. CASE /\ Begin(s) /\ call'[s].kind # "none" /\ page'[s].task = "call"
           /\ LineOf(s)' = Line(LoggedInAs[s], ActionOf(call'[s].kind), call'[s].txn,
                                call'[s].customer)
  <2>1. call[s].pc = "idle" /\ call'[s] # call[s]
    BY <1>4, BeginCalls DEF TypeOK, Call
  <2>2. call'[s].kind # "add"
    <3>1. \A c, type, a : AddTransaction(s, c, type, a) => call'[s].pc = "write"
      BY DEF AddTransaction, TypeOK
    <3> QED BY <1>4, <2>1, <3>1, BeginAdds DEF Done
  <2>3. l.action = ActionOf(call'[s].kind)
    BY <1>4, LineFields
  <2> QED BY <1>1, <1>2, <2>2, <2>3
<1>5. CASE /\ Advance(s) /\ Busy(s) /\ page[s].task = "call"
           /\ LineOf(s) = Line(LoggedInAs[s], ActionOf(call[s].kind), call[s].txn,
                               call[s].customer)
           /\ page[s].action # "none" => LineOf(s)' = LineOf(s) /\ Done(s)'
  <2>1. page[s].action = ActionOf(call[s].kind)
    BY <1>5 DEF PagesFit, PageFits
  <2>2. CASE page[s].action = "none"
    <3>1. page'[s] = NoPage \/ page'[s] = page[s]
      BY <1>5, <2>2, BeginCalls DEF Work, Continue, Returned, SetPage, PageTypes, Busy
    <3>2. page'[s].action = "none"
      BY <2>2, <3>1 DEF NoPage, Doing
    <3>3. l.action = "none"
      BY <3>2 DEF LineOf, Line
    <3> QED BY <1>2, <3>3
  <2>3. CASE page[s].action # "none"
    <3>1. l = LineOf(s)
      BY <1>5, <2>3
    <3>2. CASE Done(s)
      <4>1. Fulfilled(l)
        BY <3>1, <3>2 DEF PledgesFulfilled, Pledged
      <4> QED BY <4>1, LedgerStepFulfils
    <3>3. CASE ~Done(s)
      <4>1. call[s].pc = "write"
        BY <1>5, <3>3 DEF Done
      <4>2. l = Line(LoggedInAs[s], ActionOf(call[s].kind), call[s].txn, call[s].customer)
        BY <1>5, <3>1
      <4>3. /\ l.merchant = LoggedInAs[s] /\ l.action = ActionOf(call[s].kind)
            /\ l.txn = call[s].txn /\ l.customer = call[s].customer
        BY <4>2, LineFields
      <4>4. CASE call[s].kind # "add"
        BY <1>1, <1>2, <4>3, <4>4
      <4>5. CASE call[s].kind = "add"
        <5>1. InsertTxn(s)
          BY <1>5, <4>1, <4>5
             DEF Advance, InsertTxn, UpdateTxn, RemoveTxn, IncCustomer, ScoreNoCustomer,
                 ScoreReadBalance, ScoreReadTxns, ScoreSet, PurgeTxns
        <5>2. /\ call[s].txn \in DOMAIN txns'
              /\ txns'[call[s].txn].merchant = LoggedInAs[s]
              /\ txns'[call[s].txn].customer = call[s].customer
          BY <5>1 DEF InsertTxn, Insert
        <5>3. call[s].txn \in TxnIds
          BY <5>2 DEF TypeOK
        <5>4. PICK t \in TxnIds : t = call[s].txn
          BY <5>3
        <5>5. IsTxnOf(t, l)'
          BY <4>3, <5>2, <5>4 DEF IsTxnOf
        <5>6. l.action = "ADD_TXN"
          BY <4>3, <4>5 DEF ActionOf
        <5> QED BY <5>5, <5>6 DEF Fulfilled
      <4> QED BY <4>4, <4>5
    <3> QED BY <3>2, <3>3
  <2> QED BY <2>2, <2>3
<1> QED BY <1>3, <1>4, <1>5, LedgerLine

\* A step of a page alone promises nothing that was not promised before.
LEMMA PageStepPledges ==
    ASSUME TypeOK, PageTypes, PagesFit, NEW s \in Sessions, PageStep(s) \/ Cut(s),
           NEW l, Pledged(l)'
    PROVE  Pledged(l)
<1>1. page \in [Sessions -> Page] /\ page[s] \in Page
  BY DEF PageTypes
<1>2. \A r \in Sessions \ {s} : page'[r] = page[r] /\ call'[r] = call[r]
  <2>1. \A r \in Sessions \ {s} : page'[r] = page[r]
    BY <1>1 DEF PageStep, Cut, Login, Logout, PortalLogin, PortalLogout, ReadNewBalance,
       WriteLog, SendReceipt, ListCustomer, MakeInvoice, ClearLog, EndPage, SetPage
  <2> QED BY <2>1, CutCalls, PageStepLeavesLedger DEF vars
<1>3. ASSUME NEW r \in Sessions, page'[r] = page[r], call'[r] = call[r]
      PROVE  LineOf(r)' = LineOf(r) /\ (Done(r)' <=> Done(r))
  BY <1>1, <1>3 DEF LineOf, Done
<1>4. \A task, a, t, c : LET p == Doing(task, a, t, c)
                         IN  /\ p.task = task /\ p.action = a
                             /\ p.txn = t /\ p.customer = c
  BY DEF Doing
<1>5. ASSUME Done(s)'
      PROVE  Done(s) /\ LineOf(s)' = LineOf(s)
  <2>1. page'[s] # NoPage /\ \A c : page'[s] # Doing("invoice", "none", 0, c)
    BY <1>4, <1>5 DEF Done, NoPage
  <2>2. CASE page'[s] = page[s] /\ call' = call
    BY <1>3, <1>5, <2>2
  <2>3. CASE ReadNewBalance(s)
    <3>1. page'[s] = Doing("log", page[s].action, page[s].txn, page[s].customer)
      BY <1>1, <2>1, <2>3 DEF ReadNewBalance, EndPage, SetPage
    <3>2. /\ page'[s].action = page[s].action /\ page'[s].txn = page[s].txn
          /\ page'[s].customer = page[s].customer
      BY <1>4, <3>1
    <3>3. page[s].task = "balance"
      BY <2>3 DEF ReadNewBalance
    <3> QED BY <3>2, <3>3 DEF LineOf, Done
  <2>4. CASE WriteLog(s)
    <3>1. page'[s] = [page[s] EXCEPT !.task = "receipt"] /\ page[s].task = "log"
      BY <1>1, <2>1, <2>4 DEF WriteLog, EndPage, SetPage
    <3>2. /\ page'[s].action = page[s].action /\ page'[s].txn = page[s].txn
          /\ page'[s].customer = page[s].customer
      BY <1>1, <3>1 DEF Page
    <3> QED BY <3>1, <3>2 DEF LineOf, Done
  <2>5. ~EndPage(s) /\ ~Cut(s)
    BY <1>1, <2>1 DEF Cut, EndPage, SetPage
  <2>6. \/ page'[s] = page[s] /\ call' = call
        \/ ReadNewBalance(s) \/ WriteLog(s)
    BY <1>1, <2>1, <2>5, PageStepLeavesLedger DEF PageStep, Login, Logout, PortalLogin,
       PortalLogout, SendReceipt, ListCustomer, MakeInvoice, ClearLog, SetPage, vars
  <2> QED BY <2>2, <2>3, <2>4, <2>6
<1>6. ASSUME l \in log'
      PROVE  Pledged(l)
  <2>1. CASE l \in log
    BY <2>1 DEF Pledged
  <2>2. CASE l \notin log
    <3>1. WriteLog(s) /\ l = LineOf(s)
      BY <1>6, <2>2 DEF PageStep, Cut, Login, Logout, PortalLogin, PortalLogout,
         ReadNewBalance, WriteLog, SendReceipt, ListCustomer, MakeInvoice, ClearLog
    <3> QED BY <3>1 DEF WriteLog, Done, Pledged
  <2> QED BY <2>1, <2>2
<1>7. ASSUME NEW r \in Sessions, Done(r)', l = LineOf(r)'
      PROVE  Pledged(l)
  <2>1. Done(r) /\ l = LineOf(r)
    BY <1>2, <1>3, <1>5, <1>7
  <2> QED BY <2>1 DEF Pledged
<1> QED BY <1>6, <1>7 DEF Pledged

\* Every line of the log, and every line of a page that has done what it says, is
\* fulfilled, throughout.
LEMMA PledgesInvariant == DeskSpec => []PledgesFulfilled
<1>1. DeskInit => PledgesFulfilled
  BY DEF DeskInit, NoPage, Doing, PledgesFulfilled, Pledged, Done
<1>2. ASSUME TypeOK, TypeOK', IdsInv, Owned, DropHasNoTxn, DropHasNoTxn', PageTypes,
             PagesFit, ReceiptsLogged, PledgesFulfilled, [DeskNext]_deskVars
      PROVE  PledgesFulfilled'
  <2>1. CASE UNCHANGED deskVars
    BY <1>2, <2>1
       DEF deskVars, vars, pageVars, PledgesFulfilled, Pledged, Done, LineOf, Fulfilled,
           KnownDeleted, KnownDropped, Known, IsTxnOf, IsCustomerOf
  <2>2. ASSUME NEW s \in Sessions, Work(s) \/ Continue(s), NEW l, Pledged(l)'
        PROVE  Fulfilled(l)'
    <3>1. CASE l \in log' \/ \E r \in Sessions \ {s} : Done(r)' /\ l = LineOf(r)'
      <4>1. /\ log' = log
            /\ \A r \in Sessions \ {s} : page'[r] = page[r] /\ call'[r] = call[r]
        BY <1>2, <2>2, PageEffect, BeginCalls, AdvanceCalls DEF Work, Continue
      <4>2. \A r \in Sessions \ {s} : LineOf(r)' = LineOf(r) /\ (Done(r)' <=> Done(r))
        BY <4>1 DEF LineOf, Done
      <4>3. Fulfilled(l)
        BY <1>2, <3>1, <4>1, <4>2 DEF PledgesFulfilled, Pledged
      <4> QED BY <1>2, <2>2, <4>3, LedgerStepFulfils
    <3>2. CASE Done(s)' /\ l = LineOf(s)'
      BY <1>2, <2>2, <3>2, LedgerStepPledges
    <3> QED BY <2>2, <3>1, <3>2 DEF Pledged
  <2>3. ASSUME NEW s \in Sessions, PageStep(s) \/ Cut(s), NEW l, Pledged(l)'
        PROVE  Fulfilled(l)'
    <3>1. Fulfilled(l)
      BY <1>2, <2>3, PageStepPledges DEF PledgesFulfilled
    <3>2. /\ KnownDeleted(l) => KnownDeleted(l)'
          /\ KnownDropped(l) => KnownDropped(l)'
      BY <1>2, <2>3, DeletionsKept
    <3>3. UNCHANGED database
      BY <1>2, <2>3, PageStepLeavesLedger, CutCalls DEF vars, database
    <3>4. /\ \A t \in TxnIds : IsTxnOf(t, l) => IsTxnOf(t, l)'
          /\ \A c \in CustomerIds : IsCustomerOf(c, l) => IsCustomerOf(c, l)'
      BY <3>3 DEF database, IsTxnOf, IsCustomerOf
    <3> QED BY <3>1, <3>2, <3>4 DEF Fulfilled
  <2> QED BY <1>2, <2>1, <2>2, <2>3 DEF DeskNext, PledgesFulfilled
<1> QED
  BY <1>1, <1>2, DeskInvariant, KnownInvariant, DeskUsesLedger, IdsInvariant,
     OwnedInvariant, DropInvariant, PTL DEF DeskSpec

\* What the log says was added is stored, or the log says, or is about to, that it
\* was deleted, until it is cleared: deletions do not go unrecorded.
THEOREM NothingEverVanishes == DeskSpec => []NothingVanishes
<1>1. ASSUME PledgesFulfilled
      PROVE  NothingVanishes
  <2> SUFFICES ASSUME NEW e \in log, e.merchant \notin wiped
               PROVE  /\ e.action = "ADD_TXN" =>
                            \/ e.txn \in DOMAIN txns
                            \/ Accounted("DELETE_TXN", e.txn, e.customer)
                            \/ Accounted("DELETE_CUSTOMER", 0, e.customer)
                      /\ e.action = "ADD_CUSTOMER" =>
                            \/ e.customer \in DOMAIN customers
                            \/ Accounted("DELETE_CUSTOMER", 0, e.customer)
    BY DEF NothingVanishes
  <2>1. PICK l : l = e
    OBVIOUS
  <2>2. Fulfilled(l)
    BY <1>1, <2>1 DEF PledgesFulfilled, Pledged
  <2>3. KnownDeleted(l) => Accounted("DELETE_TXN", l.txn, l.customer)
    <3>1. PICK d : d = Line(l.merchant, "DELETE_TXN", l.txn, l.customer)
      OBVIOUS
    <3>2. /\ d.merchant = l.merchant /\ d.action = "DELETE_TXN"
          /\ d.txn = l.txn /\ d.customer = l.customer
      BY <3>1, LineFields
    <3>3. Known(d) => Accounted(d.action, d.txn, d.customer)
      BY <2>1, <3>2, KnownIsAccounted
    <3> QED BY <3>1, <3>2, <3>3 DEF KnownDeleted
  <2>4. KnownDropped(l) => Accounted("DELETE_CUSTOMER", 0, l.customer)
    <3>1. PICK d : d = Line(l.merchant, "DELETE_CUSTOMER", 0, l.customer)
      OBVIOUS
    <3>2. /\ d.merchant = l.merchant /\ d.action = "DELETE_CUSTOMER"
          /\ d.txn = 0 /\ d.customer = l.customer
      BY <3>1, LineFields
    <3>3. Known(d) => Accounted(d.action, d.txn, d.customer)
      BY <2>1, <3>2, KnownIsAccounted
    <3> QED BY <3>1, <3>2, <3>3 DEF KnownDropped
  <2> QED BY <2>1, <2>2, <2>3, <2>4 DEF Fulfilled, IsTxnOf, IsCustomerOf
<1> QED BY <1>1, PledgesInvariant, PTL
=============================================================================
