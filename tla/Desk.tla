-------------------------------- MODULE Desk --------------------------------
(***************************************************************************)
(* The pages of app.py around the ledger: what a session does after a      *)
(* function of the ledger has returned (the second look at the balance,    *)
(* the activity log, the receipt), and the customers whom pages have read  *)
(* some time before they show them (the invoice, the customer's portal).   *)
(*                                                                         *)
(* The ledger is module Ledger, the program as it is: calls of several     *)
(* sessions interleave in any way, and a script run ends at any point,     *)
(* inside a call or after it (an exception, a lost connection, a rerun     *)
(* that Streamlit starts on the next click, a stopped server).             *)
(*                                                                         *)
(* Abstracted: the text of a log entry has names and amounts, and the id   *)
(* of an edited transaction; here an entry carries the ids of what it is   *)
(* about, which for the other actions is history.  Entries about no        *)
(* document of the ledger (logins, PINs, reminders) are left out;          *)
(* customers come from the form, not from an import, of which only counts  *)
(* are logged; the portal's login picks any customer (module Directory     *)
(* has whom it finds).                                                     *)
(*                                                                         *)
(* A definition whose comment begins with "Mutant" is a plausible slip in  *)
(* the definition after it, and is used by no specification.               *)
(***************************************************************************)
EXTENDS Ledger

VARIABLES
    user,       \* user[s] = who is logged in in session s
    page,       \* page[s] = what the script run of session s still has to do
    view,       \* view[s] = the customer as session s has read it
    log,        \* collection "activity_logs"
    \* History
    wiped,      \* the merchants who have ever cleared their log
    lost,       \* the entries of changes whose script run ended before its log_action
    due         \* due[s] = the balance the receipt of session s is to show

pageVars == <<user, page, view, log, wiped, lost, due>>
deskVars == <<vars, pageVars>>

Actions == {"ADD_CUSTOMER", "DELETE_CUSTOMER", "ADD_TXN", "EDIT_TXN", "DELETE_TXN"}

\* A script run: the next thing it does, and the log entry it is to write
Page == [task: {"none", "call", "balance", "log", "receipt", "invoice"},
         action: Actions \cup {"none"}, txn: TxnIds \cup {0},
         customer: CustomerIds \cup {0}]

Doing(task, action, t, c) ==
    [task |-> task, action |-> action, txn |-> t, customer |-> c]

NoPage == Doing("none", "none", 0, 0)

\* What pages show of a customer that they have read
View == [customer: CustomerIds \cup {0}, balance: Int]
NoView == [customer |-> 0, balance |-> 0]
Look(c) == [customer |-> c, balance |-> customers[c].balance]

LogEntry == [merchant: Merchants, action: Actions, txn: TxnIds \cup {0},
             customer: CustomerIds \cup {0}]

Line(m, a, t, c) == [merchant |-> m, action |-> a, txn |-> t, customer |-> c]

\* The log entry the page of session s is to write, or has just written
LineOf(s) == Line(LoggedInAs[s], page[s].action, page[s].txn, page[s].customer)

\* The page of session s has made its change and has not logged it.
Unlogged(s) ==
    /\ page[s].action # "none"
    /\ \/ page[s].task \in {"balance", "log"}
       \/ page[s].task = "call" /\ call[s].pc # "write"

SetPage(s, p) == page' = [page EXCEPT ![s] = p]
SetView(s, v) == view' = [view EXCEPT ![s] = v]

\* The script run is over.
EndPage(s) ==
    /\ SetPage(s, NoPage)
    /\ SetView(s, NoView)
    /\ due' = [due EXCEPT ![s] = 0]

\* Session s is in an addition for customer c, its last find_one still to come.
Expects(s, c) ==
    /\ page[s].action = "ADD_TXN" /\ page[s].customer = c
    /\ page[s].task \in {"call", "balance"}

-----------------------------------------------------------------------------
(* Who is there *)

\* The login form, and its way back
Login(s) ==
    /\ user[s] = "nobody"
    /\ user' = [user EXCEPT ![s] = "merchant"]
    /\ UNCHANGED <<vars, page, view, log, wiped, lost, due>>

Logout(s) ==
    /\ user[s] = "merchant" /\ page[s].task = "none"
    /\ user' = [user EXCEPT ![s] = "nobody"]
    /\ UNCHANGED <<vars, page, view, log, wiped, lost, due>>

\* The portal keeps the customer document that the login has found, and shows its
\* balance next to transactions it reads anew, until the customer logs out.
PortalLogin(s, c) ==
    /\ user[s] = "nobody"
    /\ c \in DOMAIN customers
    /\ user' = [user EXCEPT ![s] = "customer"]
    /\ SetView(s, Look(c))
    /\ UNCHANGED <<vars, page, log, wiped, lost, due>>

PortalLogout(s) ==
    /\ user[s] = "customer"
    /\ user' = [user EXCEPT ![s] = "nobody"]
    /\ SetView(s, NoView)
    /\ UNCHANGED <<vars, page, log, wiped, lost, due>>

-----------------------------------------------------------------------------
(* The merchant's pages *)

ActionOf(kind) ==
    CASE kind = "add" -> "ADD_TXN" [] kind = "edit" -> "EDIT_TXN"
      [] kind = "delete" -> "DELETE_TXN" [] kind = "drop" -> "DELETE_CUSTOMER"
      [] OTHER -> "none"

\* A form or a button calls the ledger; add_customer returns at once.
Work(s) ==
    /\ user[s] = "merchant" /\ page[s].task = "none"
    /\ Begin(s)
    /\ SetPage(s, IF call'[s].kind = "none"
                  THEN Doing("log", "ADD_CUSTOMER", 0, nextCustomer)
                  ELSE Doing("call", ActionOf(call'[s].kind), call'[s].txn,
                             call'[s].customer))
    /\ due' = [due EXCEPT ![s] =
                 IF call'[s].kind = "add"
                 THEN customers[call'[s].customer].balance + BalanceDelta(call'[s])
                 ELSE 0]
    /\ UNCHANGED <<user, view, log, wiped, lost>>

\* Mutants of Returned: a recalculation is logged as well; only additions are;
\* additions are not
ReturnedAllLogged(p) ==
    Doing(IF p.action = "ADD_TXN" THEN "balance" ELSE "log", p.action, p.txn, p.customer)
ReturnedAdditionsLogged(p) ==
    IF p.action = "ADD_TXN" THEN Doing("balance", p.action, p.txn, p.customer) ELSE NoPage
ReturnedReceiptOnly(p) ==
    IF p.action = "none" THEN NoPage
    ELSE Doing(IF p.action = "ADD_TXN" THEN "receipt" ELSE "log",
               p.action, p.txn, p.customer)

\* What is left to do when the call returns: add_transaction looks at the balance
\* again, and a recalculation is not logged.
Returned(p) ==
    CASE p.action = "ADD_TXN" -> Doing("balance", p.action, p.txn, p.customer)
      [] p.action = "none"    -> NoPage
      [] OTHER                -> Doing("log", p.action, p.txn, p.customer)

\* The next round trip of the call.  A posting changes what others' receipts are
\* to show.
Continue(s) ==
    /\ Advance(s)
    /\ SetPage(s, IF call'[s].kind = "none" THEN Returned(page[s]) ELSE page[s])
    /\ due' = [r \in Sessions |->
                 IF call[s].pc = "inc" /\ r # s /\ Expects(r, call[s].customer)
                 THEN due[r] + BalanceDelta(call[s]) ELSE due[r]]
    /\ UNCHANGED <<user, view, log, wiped, lost>>

\* The script run ends before its time, inside a call or after it: what is stored
\* stays, and nobody writes the log entry.
Cut(s) ==
    /\ page[s].task # "none"
    /\ \/ Abort(s)
       \/ ~Busy(s) /\ UNCHANGED vars
    /\ EndPage(s)
    /\ lost' = IF Unlogged(s) THEN lost \cup {LineOf(s)} ELSE lost
    /\ UNCHANGED <<user, log, wiped>>

\* add_transaction's last find_one, for the receipt.  When the customer has been
\* deleted since, updated.get fails and the page breaks, with nothing logged.
ReadNewBalance(s) ==
    /\ page[s].task = "balance"
    /\ IF page[s].customer \in DOMAIN customers
       THEN /\ SetView(s, Look(page[s].customer))
            /\ SetPage(s, Doing("log", page[s].action, page[s].txn, page[s].customer))
            /\ UNCHANGED <<lost, due>>
       ELSE /\ EndPage(s)
            /\ lost' = lost \cup {LineOf(s)}
    /\ UNCHANGED <<vars, user, log, wiped>>

\* log_action's insert_one.  The receipt is a box in the form of an addition.
WriteLog(s) ==
    /\ page[s].task = "log"
    /\ log' = log \cup {LineOf(s)}
    /\ \/ /\ page[s].action = "ADD_TXN"
          /\ SetPage(s, [page[s] EXCEPT !.task = "receipt"])
          /\ UNCHANGED <<view, due>>
       \/ EndPage(s)
    /\ UNCHANGED <<vars, user, wiped, lost>>

\* The receipt, with the balance read before, whether it reaches the customer or not
SendReceipt(s) ==
    /\ page[s].task = "receipt"
    /\ EndPage(s)
    /\ UNCHANGED <<vars, user, log, wiped, lost>>

\* The customers page lists customer c, balance included ...
ListCustomer(s, c) ==
    /\ user[s] = "merchant" /\ page[s].task = "none"
    /\ Finds(customers, c, s)
    /\ SetView(s, Look(c))
    /\ SetPage(s, Doing("invoice", "none", 0, c))
    /\ UNCHANGED <<vars, user, log, wiped, lost, due>>

\* ... and then reads the transactions for the invoice that shows both.
MakeInvoice(s) ==
    /\ page[s].task = "invoice"
    /\ EndPage(s)
    /\ UNCHANGED <<vars, user, log, wiped, lost>>

\* clear_logs
ClearLog(s) ==
    /\ user[s] = "merchant" /\ page[s].task = "none"
    /\ log' = {e \in log : e.merchant # LoggedInAs[s]}
    /\ wiped' = wiped \cup {LoggedInAs[s]}
    /\ UNCHANGED <<vars, user, page, view, lost, due>>

-----------------------------------------------------------------------------
DeskInit ==
    /\ Init
    /\ user = [s \in Sessions |-> "nobody"]
    /\ page = [s \in Sessions |-> NoPage]
    /\ view = [s \in Sessions |-> NoView]
    /\ log = {}
    /\ wiped = {}
    /\ lost = {}
    /\ due = [s \in Sessions |-> 0]

\* A step of a page that leaves the ledger alone
PageStep(s) ==
    \/ Login(s) \/ Logout(s)
    \/ \E c \in CustomerIds : PortalLogin(s, c)
    \/ PortalLogout(s)
    \/ ReadNewBalance(s)
    \/ WriteLog(s)
    \/ SendReceipt(s)
    \/ \E c \in CustomerIds : ListCustomer(s, c)
    \/ MakeInvoice(s)
    \/ ClearLog(s)

DeskNext == \E s \in Sessions : Work(s) \/ Continue(s) \/ Cut(s) \/ PageStep(s)
DeskSpec == DeskInit /\ [][DeskNext]_deskVars

-----------------------------------------------------------------------------
(* Properties *)

\* The pages' variables have their types, and a page has a call in progress just
\* when its session has.
DeskTypeOK ==
    /\ user \in [Sessions -> {"nobody", "merchant", "customer"}]
    /\ page \in [Sessions -> Page]
    /\ view \in [Sessions -> View]
    /\ log \subseteq LogEntry
    /\ wiped \subseteq Merchants
    /\ lost \subseteq LogEntry
    /\ due \in [Sessions -> Int]
    /\ \A s \in Sessions :
          /\ Busy(s) <=> page[s].task = "call"
          /\ Busy(s) => page[s].action = ActionOf(call[s].kind)
          /\ page[s].task # "none" => user[s] = "merchant"

\* A receipt shows the balance that add_transaction found for the customer, with
\* its own transaction and with just what other calls have posted to the customer
\* up to its last find_one: nothing is posted twice, and nothing posted is lost,
\* whichever calls ran at the same time and wherever they were cut short.
ReceiptAddsUp ==
    \A s \in Sessions :
        page[s].action = "ADD_TXN" /\ page[s].task \in {"log", "receipt"} =>
            view[s] = [customer |-> page[s].customer, balance |-> due[s]]

\* An action is in the log, or a page is at it and will log it, or the script run
\* that did it ended before it could.
Accounted(action, t, c) ==
    \/ \E e \in log \cup lost : e.action = action /\ e.txn = t /\ e.customer = c
    \/ \E s \in Sessions : /\ page[s].action = action
                           /\ page[s].txn = t /\ page[s].customer = c

\* What the log says was added is there, or the log says what became of it, until
\* the log is cleared; only a script run that ended between a deletion and its
\* log_action leaves a gap.
NothingVanishes ==
    \A e \in log :
        e.merchant \notin wiped =>
           /\ e.action = "ADD_TXN" =>
                 \/ e.txn \in DOMAIN txns
                 \/ Accounted("DELETE_TXN", e.txn, e.customer)
                 \/ Accounted("DELETE_CUSTOMER", 0, e.customer)
           /\ e.action = "ADD_CUSTOMER" =>
                 \/ e.customer \in DOMAIN customers
                 \/ Accounted("DELETE_CUSTOMER", 0, e.customer)

\* Whatever is stored the log knows of, until it is cleared; only a script run that
\* ended between an addition and its log_action leaves a gap, which is also what
\* happens when the customer is deleted before the last find_one of the addition.
NothingUnlogged ==
    /\ \A t \in DOMAIN txns :
          \/ txns[t].merchant \in wiped
          \/ Accounted("ADD_TXN", t, txns[t].customer)
    /\ \A c \in DOMAIN customers :
          \/ customers[c].merchant \in wiped
          \/ Accounted("ADD_CUSTOMER", 0, c)
=============================================================================
