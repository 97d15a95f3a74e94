-------------------------- MODULE LedgerRefinement --------------------------
(***************************************************************************)
(* As long as calls do not clash, Ledger implements LedgerBook: a call     *)
(* takes effect at its $inc, and delete_customer at its first delete.      *)
(***************************************************************************)
EXTENDS Ledger

\* Session s has written transaction t and not posted it yet
Wrote(s, t) == call[s].pc = "inc" /\ call[s].txn = t

\* A transaction being added is not in the book before it is posted; one being
\* edited or deleted is still in it as it was; the transactions of a deleted
\* customer are out of it at once.
InBook(t) ==
    IF \E s \in Sessions : Wrote(s, t)
    THEN \E s \in Sessions : Wrote(s, t) /\ call[s].kind # "add"
    ELSE t \in DOMAIN txns /\ txns[t].customer \in DOMAIN customers

BookEntry(t) ==
    IF \E s \in Sessions : Wrote(s, t)
    THEN LET s == CHOOSE s \in Sessions : Wrote(s, t)
         IN  [customer |-> call[s].customer, type |-> call[s].type,
              amount |-> call[s].old]
    ELSE [customer |-> txns[t].customer, type |-> txns[t].type,
          amount |-> txns[t].amount]

BookNow == [t \in {u \in TxnIds : InBook(u)} |-> BookEntry(t)]

TotalsNow == [c \in DOMAIN customers |->
                [balance |-> customers[c].balance,
                 total_credit |-> customers[c].total_credit,
                 total_paid |-> customers[c].total_paid]]

Book == INSTANCE LedgerBook WITH
    open <- DOMAIN customers, book <- BookNow, totals <- TotalsNow

\* The stored totals are always those of a book in which every change and its
\* posting are a single step.
ImplementsBook == Book!BookSpec
=============================================================================
