----------------------------- MODULE LedgerBook -----------------------------
(***************************************************************************)
(* What the ledger promises a merchant: a book of entries, and for every   *)
(* open account totals that are, at every moment, what the account's       *)
(* entries in the book add up to.  An entry is recorded, amended or struck *)
(* in one step, totals included; an account is closed together with its    *)
(* entries.                                                                *)
(***************************************************************************)
EXTENDS Integers, Functions

CONSTANTS
    MaxCustomers,   \* bound: accounts ever opened
    MaxTxns,        \* bound: entries ever made
    Amounts         \* amounts entries are given

VARIABLES
    open,           \* the accounts that are open
    book,           \* entry id -> [customer, type, amount]
    totals          \* account -> [balance, total_credit, total_paid]

bookVars == <<open, book, totals>>

Accounts == 1..MaxCustomers
EntryIds == 1..MaxTxns

\* The total of the entries of one type that account c has in book b
TotalOf(b, c, type) ==
    SumFunction([t \in EntryIds |->
        IF t \in DOMAIN b /\ b[t].customer = c /\ b[t].type = type
        THEN b[t].amount ELSE 0])

TotalsOf(b, c) ==
    [balance |-> TotalOf(b, c, "credit") - TotalOf(b, c, "payment"),
     total_credit |-> TotalOf(b, c, "credit"),
     total_paid |-> TotalOf(b, c, "payment")]

Totalled == totals' = [c \in open' |-> TotalsOf(book', c)]

BookInit ==
    /\ open = {}
    /\ book = [t \in {} |-> 0]
    /\ totals = [c \in {} |-> 0]

OpenAccount(c) ==
    /\ c \notin open
    /\ open' = open \cup {c}
    /\ UNCHANGED book
    /\ Totalled

CloseAccount(c) ==
    /\ c \in open
    /\ open' = open \ {c}
    /\ book' = Restrict(book, {t \in DOMAIN book : book[t].customer # c})
    /\ Totalled

RecordEntry(t, c, type, amount) ==
    /\ t \notin DOMAIN book
    /\ c \in open
    /\ book' = [u \in DOMAIN book \cup {t} |->
                  IF u = t THEN [customer |-> c, type |-> type, amount |-> amount]
                           ELSE book[u]]
    /\ UNCHANGED open
    /\ Totalled

AmendEntry(t, amount) ==
    /\ t \in DOMAIN book
    /\ book' = [book EXCEPT ![t].amount = amount]
    /\ UNCHANGED open
    /\ Totalled

StrikeEntry(t) ==
    /\ t \in DOMAIN book
    /\ book' = Restrict(book, DOMAIN book \ {t})
    /\ UNCHANGED open
    /\ Totalled

BookNext ==
    \/ \E c \in Accounts : OpenAccount(c) \/ CloseAccount(c)
    \/ \E t \in EntryIds, c \in Accounts, type \in {"credit", "payment"} :
          \E amount \in Amounts : RecordEntry(t, c, type, amount)
    \/ \E t \in EntryIds : \E amount \in Amounts : AmendEntry(t, amount)
    \/ \E t \in EntryIds : StrikeEntry(t)

BookSpec == BookInit /\ [][BookNext]_bookVars
=============================================================================
