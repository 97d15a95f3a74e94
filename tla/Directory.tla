----------------------------- MODULE Directory -----------------------------
(***************************************************************************)
(* The customer directory: adding a customer (customers.py), importing a   *)
(* file of them (bulk_import.py), the portal PIN, and what the portal's    *)
(* login finds.  One action is one MongoDB round trip of a merchant's      *)
(* session; the duplicate-phone test of add_customer and its insert are    *)
(* two, and no index keeps phones apart.                                   *)
(*                                                                         *)
(* Ids are given out in the order of insertion, which is the order in      *)
(* which find_one looks at the documents when no index helps (there is     *)
(* none that begins with the phone).                                       *)
(*                                                                         *)
(* Abstracted: a PIN stands for its hash; a row of a file is its phone, or *)
(* Blank when the phone or the name is missing; names and addresses are    *)
(* left out, and so are the customer's totals (module Ledger).             *)
(*                                                                         *)
(* A definition whose comment begins with "Mutant" is a plausible slip in  *)
(* the definition after it, and is used by no specification.               *)
(***************************************************************************)
EXTENDS Integers, Sequences, Functions

CONSTANTS
    Sessions,       \* browser sessions logged in as a merchant
    Merchants,
    LoggedInAs,     \* LoggedInAs[s] = the merchant of session s
    Phones, Pins,   \* what is typed into the forms, and stands in files
    Blank,          \* a row without a phone or a name; no phone
    NoPin,          \* the portal is not set up
    Files,          \* the files uploaded: sequences of rows
    MaxCustomers    \* bound: customers ever added

ASSUME DirectoryAssumption ==
    /\ LoggedInAs \in [Sessions -> Merchants]
    /\ Blank \notin Phones /\ NoPin \notin Pins
    /\ Files \subseteq Seq(Phones \cup {Blank})
    /\ MaxCustomers \in Nat

VARIABLES
    customers,      \* collection "customers": id -> document
    nextId,         \* the next customer ObjectId
    call,           \* call[s] = the function session s is running, its locals
    job,            \* job[s] = the import session s is running, NoJob for none
    \* History, for the properties only
    known,          \* known[m] = the phones merchant m has ever had a customer by
    report          \* report[s] = what the last import of s to end well returned

vars == <<customers, nextId, call, job, known, report>>

Ids == 1..MaxCustomers

\* A customer document.  since is history: nextId when add_customer tested the
\* phone, so that the documents there at the time are those below it.
Customer == [merchant: Merchants, phone: Phones, pin: Pins \cup {NoPin},
             since: Nat]

\* A function in progress: its next round trip and the values it holds.  An import
\* runs add_customer for one row after the other.
Call == [pc: {"idle", "rows", "insert", "pin"}, phone: Phones \cup {Blank},
         pin: Pins \cup {NoPin}, since: Nat, customer: Ids \cup {0}]

Running(pc, p, pin, since, c) ==
    [pc |-> pc, phone |-> p, pin |-> pin, since |-> since, customer |-> c]

Idle == Running("idle", Blank, NoPin, 0, 0)
InRows == Running("rows", Blank, NoPin, 0, 0)

\* An import: the rows of its file, how many of them the loop has been through,
\* and the two counts it returns
Job == [file: Seq(Phones \cup {Blank}), row: Nat, added: Nat, failed: Nat]

JobOf(file, row, added, failed) ==
    [file |-> file, row |-> row, added |-> added, failed |-> failed]

NoJob == JobOf(<<>>, 0, 0, 0)

\* The row session s is at
Row(s) == job[s].file[job[s].row + 1]
AtRow(s) == call[s].pc = "rows" /\ job[s].row < Len(job[s].file)

\* The import of s has been through one row more
Counted(s, added, failed) ==
    JobOf(job[s].file, job[s].row + 1, job[s].added + added, job[s].failed + failed)

Goto(s, k) == call' = [call EXCEPT ![s] = k]
SetJob(s, j) == job' = [job EXCEPT ![s] = j]

-----------------------------------------------------------------------------
(* Queries *)

\* find_one({"merchant_id": m, "phone": p}) finds a document
Knows(m, p) == \E c \in DOMAIN customers :
                  customers[c].merchant = m /\ customers[c].phone = p

\* find_one({"_id": c, "merchant_id": ...}) of session s finds a document
Finds(c, s) == c \in DOMAIN customers /\ customers[c].merchant = LoggedInAs[s]

\* Mutant of FoundByPhone: the newest document is found
FoundByPhoneLast(c, p) ==
    /\ c \in DOMAIN customers /\ customers[c].phone = p
    /\ \A d \in DOMAIN customers : customers[d].phone = p => d <= c

\* find_one({"phone": p}), of any merchant, finds customer c
FoundByPhone(c, p) ==
    /\ c \in DOMAIN customers /\ customers[c].phone = p
    /\ \A d \in DOMAIN customers : customers[d].phone = p => c <= d

\* customer_portal_login(p, pin) lets in customer c
PortalOpens(c, p, pin) == FoundByPhone(c, p) /\ customers[c].pin = pin /\ pin # NoPin

-----------------------------------------------------------------------------
(* Adding a customer *)

\* The form calls add_customer, whose find_one finds no such phone
AddCustomer(s, p, pin) ==
    /\ call[s].pc = "idle"
    /\ ~Knows(LoggedInAs[s], p)
    /\ Goto(s, Running("insert", p, pin, nextId, 0))
    /\ UNCHANGED <<customers, nextId, job, known, report>>

\* insert_one.  An import counts the row and goes on with the next.
Insert(s) ==
    /\ call[s].pc = "insert"
    /\ nextId <= MaxCustomers
    /\ customers' = [c \in DOMAIN customers \cup {nextId} |->
                       IF c = nextId
                       THEN [merchant |-> LoggedInAs[s], phone |-> call[s].phone,
                             pin |-> call[s].pin, since |-> call[s].since]
                       ELSE customers[c]]
    /\ nextId' = nextId + 1
    /\ known' = [known EXCEPT ![LoggedInAs[s]] = @ \cup {call[s].phone}]
    /\ IF job[s] = NoJob
       THEN Goto(s, Idle) /\ UNCHANGED job
       ELSE /\ Goto(s, InRows)
            /\ SetJob(s, Counted(s, 1, 0))
    /\ UNCHANGED report

-----------------------------------------------------------------------------
(* Importing a file *)

\* The button of the import tab.  A file without the two columns is refused
\* before anything is added; a file without rows has nothing to add.
Import(s, file) ==
    /\ call[s].pc = "idle"
    /\ file # <<>>
    /\ Goto(s, InRows)
    /\ SetJob(s, JobOf(file, 0, 0, 0))
    /\ UNCHANGED <<customers, nextId, known, report>>

\* Mutant of SkipRow: a row whose phone is known is not counted
SkipRowUncounted(s) ==
    /\ AtRow(s)
    /\ \/ Row(s) = Blank /\ SetJob(s, Counted(s, 0, 1))
       \/ Knows(LoggedInAs[s], Row(s)) /\ SetJob(s, Counted(s, 0, 0))
    /\ UNCHANGED <<customers, nextId, call, known, report>>

\* A row that is blank, or whose phone add_customer knows already
SkipRow(s) ==
    /\ AtRow(s)
    /\ Row(s) = Blank \/ Knows(LoggedInAs[s], Row(s))
    /\ SetJob(s, Counted(s, 0, 1))
    /\ UNCHANGED <<customers, nextId, call, known, report>>

\* Mutant of TakeRow: the row is inserted without add_customer's test
TakeRowUntested(s) ==
    /\ AtRow(s)
    /\ Row(s) # Blank
    /\ Goto(s, Running("insert", Row(s), NoPin, nextId, 0))
    /\ UNCHANGED <<customers, nextId, job, known, report>>

\* A row whose phone add_customer does not know; it sets no PIN
TakeRow(s) ==
    /\ AtRow(s)
    /\ Row(s) # Blank /\ ~Knows(LoggedInAs[s], Row(s))
    /\ Goto(s, Running("insert", Row(s), NoPin, nextId, 0))
    /\ UNCHANGED <<customers, nextId, job, known, report>>

\* The loop ends, and the page shows the two counts
ImportEnds(s) ==
    /\ call[s].pc = "rows" /\ job[s].row = Len(job[s].file)
    /\ report' = [report EXCEPT ![s] = job[s]]
    /\ Goto(s, Idle)
    /\ SetJob(s, NoJob)
    /\ UNCHANGED <<customers, nextId, known>>

\* Mutant of Abort: the except clause is inside the loop, which goes on
AbortRow(s) ==
    /\ call[s].pc # "idle"
    /\ \/ job[s] = NoJob /\ Goto(s, Idle) /\ UNCHANGED job
       \/ /\ job[s] # NoJob /\ job[s].row < Len(job[s].file)
          /\ Goto(s, InRows) /\ SetJob(s, Counted(s, 0, 1))
    /\ UNCHANGED <<customers, nextId, known, report>>

\* Mutant of Abort: the import's rows stay with the session
AbortKeepsJob(s) ==
    /\ call[s].pc # "idle"
    /\ Goto(s, Idle)
    /\ UNCHANGED <<customers, nextId, job, known, report>>

\* A round trip raises, or the server stops.  The import's except clause reports
\* an error reading the file; the rows it has added stay.
Abort(s) ==
    /\ call[s].pc # "idle"
    /\ Goto(s, Idle)
    /\ SetJob(s, NoJob)
    /\ UNCHANGED <<customers, nextId, known, report>>

-----------------------------------------------------------------------------
(* Changing and deleting *)

\* The PIN form of customer c, which this run of the page has listed
SubmitPin(s, c, pin) ==
    /\ call[s].pc = "idle"
    /\ Finds(c, s)
    /\ Goto(s, Running("pin", Blank, pin, 0, c))
    /\ UNCHANGED <<customers, nextId, job, known, report>>

\* update_customer_pin's update_one; a customer gone meanwhile is not matched,
\* and the page, which does not look at the result, reports success all the same
SetPin(s) ==
    /\ call[s].pc = "pin"
    /\ customers' = [c \in DOMAIN customers |->
                       IF c = call[s].customer /\ Finds(c, s)
                       THEN [customers[c] EXCEPT !.pin = call[s].pin]
                       ELSE customers[c]]
    /\ Goto(s, Idle)
    /\ UNCHANGED <<nextId, job, known, report>>

\* delete_customer's delete_one on the customer
DeleteCustomer(s, c) ==
    /\ call[s].pc = "idle"
    /\ Finds(c, s)
    /\ customers' = Restrict(customers, DOMAIN customers \ {c})
    /\ UNCHANGED <<nextId, call, job, known, report>>

-----------------------------------------------------------------------------
Init ==
    /\ customers = [c \in {} |-> NoJob]
    /\ nextId = 1
    /\ call = [s \in Sessions |-> Idle]
    /\ known = [m \in Merchants |-> {}]
    /\ job = [s \in Sessions |-> NoJob]
    /\ report = [s \in Sessions |-> NoJob]

Step(s) ==
    \/ \E p \in Phones, pin \in Pins \cup {NoPin} : AddCustomer(s, p, pin)
    \/ \E file \in Files : Import(s, file)
    \/ \E c \in Ids, pin \in Pins : SubmitPin(s, c, pin)
    \/ \E c \in Ids : DeleteCustomer(s, c)
    \/ Insert(s)
    \/ SkipRow(s)
    \/ TakeRow(s)
    \/ ImportEnds(s)
    \/ SetPin(s)
    \/ Abort(s)

Next == \E s \in Sessions : Step(s)
Spec == Init /\ [][Next]_vars

-----------------------------------------------------------------------------
(* Properties *)

\* Call k can belong to import j: a row is being inserted while rows are left
Fit(k, j) ==
    /\ k.pc \in {"idle", "pin"} => j = NoJob
    /\ k.pc = "insert" => k.phone \in Phones
    /\ k.pc = "insert" /\ j # NoJob => j.row < Len(j.file)
    /\ j.row <= Len(j.file)

\* Every variable has its type; an import is past no more rows than its file has;
\* the id of a document was given out, and its phone was tested before that.
TypeOK ==
    /\ DOMAIN customers \subseteq Ids
    /\ customers \in [DOMAIN customers -> Customer]
    /\ nextId \in 1..(MaxCustomers + 1)
    /\ \A c \in DOMAIN customers : c < nextId /\ customers[c].since <= c
    /\ call \in [Sessions -> Call]
    /\ job \in [Sessions -> Job]
    /\ \A s \in Sessions : Fit(call[s], job[s]) /\ call[s].since <= nextId
    /\ known \in [Merchants -> SUBSET Phones]
    /\ report \in [Sessions -> Job]

\* Customers c and d are one merchant's, by one phone
SamePhone(c, d) == /\ customers[c].merchant = customers[d].merchant
                   /\ customers[c].phone = customers[d].phone

\* A merchant has two customers by one phone only if the two additions
\* overlapped: the older was not there yet when the younger was tested
\* ("Customer with this phone already exists.").
DuplicatesOverlapped ==
    \A c, d \in DOMAIN customers :
        c < d /\ SamePhone(c, d) => customers[d].since <= c

\* When an import returns, every row with a phone and a name stands for a customer
\* the merchant has or has had since, whoever added it, imports of the file that
\* failed before included; and the two counts that the page shows leave out no row.
ImportCoversFile ==
    \A s \in Sessions :
        /\ \A i \in DOMAIN report[s].file :
              report[s].file[i] # Blank => report[s].file[i] \in known[LoggedInAs[s]]
        /\ report[s].added + report[s].failed = Len(report[s].file)

\* Whoever can log in at the portal can go on doing so, whatever any merchant adds
\* or imports or deletes, until the customer is deleted or its PIN changed.
PortalStaysOpen ==
    [][\A c \in DOMAIN customers, p \in Phones, pin \in Pins :
          PortalOpens(c, p, pin) =>
             \/ c \notin DOMAIN customers'
             \/ customers'[c].pin # pin
             \/ PortalOpens(c, p, pin)']_vars
=============================================================================
