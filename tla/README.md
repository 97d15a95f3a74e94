# Verification of the digital ledger

The program in `src/` is a Streamlit application backed by MongoDB: a shopkeeper
(a *merchant*) keeps customers and the credit given to them, records payments,
sees a credit score per customer, and sends reminders over Twilio. This directory
holds TLA+ models of it, the TLC configurations that check them and the proofs
that TLAPS checks.

The code has no transactions and no locks. Streamlit runs every browser session
in a thread of its own, every database access is one MongoDB round trip, and a
function of the program is a sequence of such round trips. That is where the
difficulty lies, and what the models are about.

## 1. Inventory

| Component (source) | State | Operations | Module |
|---|---|---|---|
| Transactions and balances (`transactions.py`, `customers.py`) | collections `customers` (with `balance`, `total_credit`, `total_paid`, `credit_score`) and `transactions` | add, edit, delete a transaction; delete a customer; recompute a score | `Ledger` |
| Credit score (`customers.py`, `compute_credit_score`) | `credit_score`, `risk_category` of a customer | six factors over the transactions and the balance, a clamp, a category | `CreditScore`, `CreditHistory` |
| Merchant accounts and password reset (`auth.py`, `otp.py`, `app.py` 91-186) | collection `users`, the OTP and its expiry among its fields; `st.session_state.otp_phone` | register, send, verify and use an OTP (log in: `Desk`) | `Accounts` |
| Customer directory and import (`customers.py`, `bulk_import.py`) | `customers`: phone, PIN, name | add with the duplicate-phone test, portal PIN and login, import of a file | `Directory` (the second delete: `Ledger`) |
| Reminders (`reminders.py`, `app.py` 34-39 and 585-618) | Twilio's messages, the scheduler, the results of a run | send, poll the status, the loop, the button, the scheduler | `Reminders` |
| Receipts (`receipts.py`) | none | one message after a transaction | `Desk` |
| Pages and sessions (`app.py`, `activity_log.py`) | `st.session_state`, collection `activity_logs` | login and logout, page routing, customer portal, the audit log | `Desk` |
| Analytics (`analytics.py`, `transactions.py` 113-134) | none | read-only sums and groupings | not modelled: no state, no order of steps |
| Floats (`transactions.py` and MongoDB's `$inc`) | the amounts and totals above | rounding of every sum | `Money` |
| PDF invoice (`invoice.py`) | none | lays out a document | `Desk` has what it shows; the layout is not modelled |
| Database (`database.py`) | the client, the indexes | connect, create indexes | the collections are the modules' variables |
| `.vendor/` | - | third-party packages | not modelled |

How the parts interact: a page handler in `app.py` calls the functions of the
other files directly, in the thread of the session. The functions share nothing
but the database, and between two round trips any other session may have changed
it. There are no callbacks and no messages inside the program; Twilio is called
over HTTP; one background thread (APScheduler) runs the monthly reminders.

What is hard here, and what has to hold:

- **Ledger.** The balance is not computed when it is shown: it is a stored total
  that every add, edit and delete moves by a difference. It must stay equal to
  the sum of the transactions through interleavings, and we must know exactly
  when it does not. The three stored totals must agree with each other. A
  customer's deletion takes two deletes, with additions possible in between. The
  stored score must be that of the stored account, and we must know when it is not. A
  session must never touch another merchant's documents, although nearly all writes select by `_id` alone.
- **Credit score.** Six ladders of thresholds must fill 0..100, and move the right
  way when a payment is made, an amount is corrected, or time passes.
- **Accounts.** An OTP must work once, expire, and be replaced by a newer one; a
  username must be unique although it is tested and inserted in two round trips.
- **Directory.** No two customers of a merchant with one phone; an import that
  fails half way; a form that looks customers up by name.
- **Reminders.** A loop that ends at the first exception; a message that Twilio
  has accepted and the program reports as failed; balances read long before the
  message goes out.
- **Floats.** What is taken off a balance must leave what was there before it was put on.
- **Pages.** Results that are ignored; snapshots kept in the session while the
  database moves on; an audit log written apart from what it records.

`PROJECT.json` lists these hazards at their lines, with the properties about each.

## 2. The modules

    Ledger ---- LedgerRefinement ---- MCLedger
       |          |        |
       |          |    LedgerBook (abstract)
       |          |
    LedgerProofs ---- LedgerBalanceProofs ---- SumTheorems

    Ledger ---- Desk ---- MCDesk
                  |
              DeskProofs ---- LedgerBalanceProofs

    CreditScore ---- CreditHistory                 Money ---- MCMoney
                          |
                  CreditScoreProofs ---- SumTheorems

    Accounts ---- MCAccounts            Reminders ---- MCReminders
       |   |                                |
       |  AccountBook (abstract)           RemindersProofs
       |
    AccountsProofs                      Directory ---- MCDirectory
                                            |
                                        DirectoryProofs

An indented module below another is extended by it or instantiated in it; `MC` modules
only give constants values.

### Ledger

One action is one MongoDB round trip together with the local computation before
it. A collection is a function from document ids to documents.

| Code | Model |
|---|---|
| `add_transaction` up to its `find_one` | `AddTransaction`: guards `amount > 0`, customer found for this merchant |
| its `insert_one` | `InsertTxn` |
| `edit_transaction`, `delete_transaction` up to `find_one` | `EditTransaction`, `DeleteTransaction`: the call keeps the type and amount it read; a new amount is one the form lets through (`FormAmount`, the `min_value` of `app.py:533`) |
| their `update_one` / `delete_one` by `_id` | `UpdateTxn`, `RemoveTxn` (no effect when the document has gone) |
| the `$inc` of all three | `IncCustomer`, with `BalanceDelta`, `CreditDelta`, `PaidDelta` |
| `compute_credit_score` | `ScoreNoCustomer`, or `ScoreReadBalance`, `ScoreReadTxns`, `ScoreSet` |
| "Recalculate All Credit Scores" | `RecalculateScore`, one turn of its loop |
| `delete_customer` | `DeleteCustomer` (first delete), `PurgeTxns` (second) |
| `add_customer`'s insert | `AddCustomer` |
| an exception of the driver, a killed process | `Abort`: the rest of the call never happens |

`call[s]` is the function session `s` is running, with its local variables and its
next round trip; `seen[s]` is what its `compute_credit_score` has read. A score is
represented by the *picture* of the account it was computed from (balance and
signed amounts), so that "the score is current" can be said without arithmetic;
`CreditScore` has the arithmetic. A new document has a score that was not computed
(`NewScore`: 100 and 'Low Risk', where the computed category of 100 is 'Excellent').

Four specifications restrict who may do what. `Spec` is the program as it is.
`UncutSpec` leaves out `Abort`. `OrderlySpec` adds that no two calls in progress
are about the same transaction and that nobody works on a customer another call
is deleting. `SoloSpec` allows one call at a time on each customer. The code
enforces none of the last three: they say under which use a promise holds, and
`Spec` what is left of it otherwise.

### LedgerBook and LedgerRefinement

`LedgerBook` is the promise: a book of entries and, for each open account, totals
that are at every moment the sums of its entries; an entry is made, amended or
struck in one step, totals included. `LedgerRefinement` maps the ledger to it: a
change is in the book from its `$inc` on, a deleted customer's transactions are
out of it from the first delete on.

### CreditScore and CreditHistory

`CreditScore` is the arithmetic of `compute_credit_score` as operators on a
*profile* (counts, totals, overdue credits, days since the last payment, stored
balance). Ratios are compared by cross-multiplication; floating-point rounding is
abstracted. `CreditHistory` is one account over time: transactions are recorded,
edited and deleted, days pass, the merchant recalculates. Each function runs to
its end there.

### Accounts

`users` is the sequence of user documents in order of insertion: `find_one` by phone,
for which there is no index, takes the first (`FindsByPhone`), and so does the filter of
an `update_one`.

| Code | Model |
|---|---|
| `register_user`'s `find_one`, `insert_one` | `Register`, `InsertUser` (raises when the unique index objects) |
| `send_otp_to_phone`: `find_one`, `update_one`, `send_sms` | `SendOtp`, `StoreOtp`, `SendSms` |
| `verify_otp`'s `find_one` and comparisons | `VerifyOtp`, `Accepts` |
| `reset_password_with_otp`'s `update_one` | `SetPassword` |
| the button "Back" | `Back` |
| an exception, a stopped server | `Abort` |

`call[s]` is the function a session is running, `page[s]` the phone in
`st.session_state.otp_phone` while the second form is shown. OTPs are numbered as
they are stored: that two of 900000 are equal is abstracted, and so is guessing one.
`issued` and `spent` are history. `Spec`, `UncutSpec` and `OrderlySpec` are related as in
`Ledger`; the last has at most one call at a time about a phone.

`AccountBook` is the promise: accounts with unique names, whose password changes only in
exchange for the key last cut for the account, which that uses up. `Accounts` maps the
OTP in the document to the key.

### Reminders

A *runner* is a session or a scheduler's thread. `run[r]` is its run of the loop: the
balances it has read (`owed`), whom it still has to remind, and the results. `poll[r]`
is the message whose status it is asking for. `messages` is what Twilio has taken;
each is delivered, or fails, or stays as it is.

| Code | Model |
|---|---|
| `init_db` under `st.cache_resource` | `Visit` |
| the cron trigger | `FirstOfMonth` |
| "Send Reminders Now" | `PressSend` |
| the query of `run_monthly_reminders` | `Find` |
| the POST of `send_sms` / `send_whatsapp` | `Post`: `PostAnswered`, or `PostNoAnswer` |
| `_maybe_check_message_status` | `PollTurn`, with `PollStatus`, `AsksAgain` and `Settles` |
| the end of the loop, `log_action`, the table of results | `Return` |
| what no `except` catches | `Raise` |
| the server process ends and starts | `Restart` |

The two channels have the same control flow. The customers of a run are tried in any
order. Payments and credits change balances at any time (`BalanceChanges`).

### Directory

`customers` are documents in order of insertion, which is the order in which `find_one`
by phone looks at them (no index begins with the phone). `since`, in a document, is
history: how many documents there were when its phone was tested. `job[s]` is the import a
session is in: the row it is at and the two counts, which are separate: the loop goes by
`iterrows` and ends with the file, whatever has been counted.

| Code | Model |
|---|---|
| `add_customer`'s `find_one`, from the form | `AddCustomer`: the phone is not known to this merchant |
| its `insert_one` | `Insert`, which goes on with an import's next row |
| `import_customers_from_excel` | `Import`, then for each row `SkipRow` (blank, or known) or `TakeRow` and `Insert`, then `ImportEnds` after the last |
| its `except`, any exception, a stopped server | `Abort`: the rows added stay |
| the PIN form, `update_customer_pin` | `SubmitPin`, `SetPin` (no effect when the customer has gone) |
| `delete_customer`'s first delete | `DeleteCustomer` |
| `customer_portal_login` | `PortalOpens`, with `FoundByPhone`: it changes nothing |

### Desk

What the pages do around the ledger. `Desk` extends `Ledger`: a step is a step of the
ledger with what the page keeps (`Work`, `Continue`), a cut (`Cut`), or a step of the page
that leaves the ledger alone (`PageStep`). The ledger is the program as it is: calls clash
and are cut. `page[s]` is what the script run of a session has still to do: a run is
sequential, so an addition is a call, a second look at the balance, a log entry and perhaps
a receipt, each at its own time. `view[s]` is the customer a session has read.

| Code | Model |
|---|---|
| login form, logout | `Login`, `Logout` |
| portal login, `st.session_state.cust_data`, portal logout | `PortalLogin`, `PortalLogout`: the document is read once and kept |
| the forms and buttons that call the ledger | `Work`, `Continue` |
| `add_transaction`'s last `find_one` | `ReadNewBalance`; the page breaks when the customer has gone |
| `log_action` after a call | `WriteLog` |
| `send_receipt` | `SendReceipt` |
| the customers page: listing, then the invoice of a customer | `ListCustomer`, `MakeInvoice` |
| `clear_logs` | `ClearLog` |
| an exception, a rerun, a stopped server, inside a call or after it | `Cut` |

History: `due[s]` is the balance that the receipt of `s` is to show (what its addition found,
with the addition, and with what others have posted since); `lost` are the entries of changes
whose script run ended before its `log_action`. The code logs names and amounts, and the id of
an edited transaction; the other ids in an entry of `log` are history too, to say what the
entry is about.

### Money

The arithmetic as it is: a double is a pair of limbs of a whole number of units of 2^-56
rupees, and every sum is rounded to 53 binary digits, ties to even, as Python and MongoDB's
`$inc` do. One account, one session, functions run to their end. TLC's integers have
32 bits, which is why there are two limbs. The values of the trace below are those
that Python gives.

### Mutants

A definition whose comment begins with "Mutant of" is a plausible slip in the
definition after it. No specification uses it. Each checked property has one, and
TLC finds the property violated once the mutant takes the definition's place:
the property can tell the code from that bug.

## 3. The runs

| Run | Specification | Properties | Shows |
|---|---|---|---|
| `ledger_racing` | `Spec` | `TypeOK`, `BalanceIsCreditLessPaid`, `DriftHasACause`, `OrphansHaveACause`, `ScoresGoStaleByACause`, `OwnDocumentsOnly` | with free interleaving and cuts, the totals agree with each other; a balance leaves its transactions, a transaction outlives its customer and a score falls behind its account only through the races and cuts named; two merchants never change each other's documents |
| `ledger_orderly` | `OrderlySpec` | `BooksBalance`, `ImplementsBook` | without clashes the balance is exact up to what is still to be posted, and the ledger implements the book |
| `ledger_solo` | `FairSoloSpec` | `AccountsCatchUp` | one call at a time per account: an account whose balance or score is behind catches up |
| `ledger_uncut` | `UncutSpec` | `QuietBooksBalance` *violated* | two edits of one transaction leave the balance wrong for good |
| `credit_history` | `Spec` | `TypeOK`, `FactorsFillTheScale`, `SettledIsNoRisk`, `StoredScoreIsOptimistic`, `PaymentNeverLowersScore`, `WorseAmountNeverRaisesScore` | the score stays on its scale and moves the right way |
| `accounts_racing` | `Spec` | `TypeOK`, `UsernamesUnique`, `HeldOtpIsNewest`, `PasswordChangeIsProved` | with free interleaving and cuts, names stay unique, the OTP held is the newest and unused, and passwords change only for an OTP of the account, shown in time |
| `accounts_orderly` | `OrderlySpec` | `NewestOtpIsValid`, `ImplementsAccountBook` | one call at a time about a phone: the newest OTP works, and the accounts implement the book |
| `reminders_runs` | `Spec` | `TypeOK`, `OneMessagePerRun`, `ReturnedRunCoversAll`, `LogBoundsMessages` | a run sends nobody two messages, tries exactly those who owed at its start, and logs counts that bound what Twilio took |
| `reminders_fair` | `FairSpec` | `OneScheduledMessageAMonth`, `EveryRunEnds` | one scheduled message a month, through restarts and visits; a run ends even if nothing is ever delivered |
| `directory_racing` | `Spec` | `TypeOK`, `DuplicatesOverlapped`, `ImportCoversFile`, `PortalStaysOpen` | a phone is there twice only through overlapping additions, an import that returns has left every usable row with a customer and counted every row once, and the portal, once open to a customer, cannot be closed by what others add or delete |
| `desk` | `DeskSpec` | `DeskTypeOK`, `ReceiptAddsUp`, `NothingVanishes`, `NothingUnlogged` | with pages interleaving freely and cut anywhere, a receipt shows its own addition and what others have posted, once each; ledger and log account for each other, but for the entries of script runs that ended too early |
| `money_residue` | `Spec` | `ReversedLeavesNothing` *violated* | 0.1 and 0.2 put on and taken off leave a balance above zero |

### The disagreements

A run shows each of the first two (`ledger_uncut`, `money_residue`). The others are plain
in an action, which is named, and have no run of their own.

- `edit_transaction` says it recalculates the balance (`transactions.py:51`). It
  posts the difference to an amount read earlier. Two sessions edit transaction 1
  of amount 1 to 2: both read 1, both write 2, both post +1. The balance is 3, the
  transactions say 2, and nothing repairs it: "Recalculate" recomputes the score,
  not the balance. A double edit, edit with delete, and double delete all do this.
- `delete_transaction` says it reverses its effect on the balance (`transactions.py:87`).
  0.1 + 0.2 - 0.1 - 0.2 is 2.8e-17 in doubles: with no transaction left the customer is
  shown with ₹0.00, and is on the defaulters' list and in every run of reminders, since
  both ask for `balance > 0` (`customers.py:77`, `reminders.py:154`).
- The docstring calls factor 2 "unpaid credits > 30 days" (`customers.py:89`); the
  code counts every credit older than 30 days, paid or not (`customers.py:137`; `Overdue`).
- The SMS says its OTP is "Valid for 10 minutes" (`otp.py:29`). A reset verifies one OTP
  and then removes the account's OTP, whichever it is (`otp.py:58`); one stored in
  between is gone before its SMS arrives (`SetPassword`). `NewestOtpIsValid` holds of
  `OrderlySpec` only.
- `run_monthly_reminders` sends "to all customers with outstanding balances"
  (`reminders.py:142`). An HTTP error with a body that is not JSON raises inside
  the handler of `_twilio_request` (`reminders.py:37`) and ends the loop (`Raise`).
- The customers reminded are those who owed when the balances were read; one who has paid
  since is reminded all the same (`Find`, `Takes`).
- The README's table of categories (`README.md:76`) has four, with bounds 75, 50
  and 25. The code has five, with bounds 80, 65, 50 and 30 (`customers.py:184`; `Category`).
- The page says "OTP sent to ..." (`app.py:167`) also when the SMS failed
  (`otp.py:33-37`). The "dev mode" message, the only other way to learn the OTP, is
  dropped by the rerun in the next line (`app.py:163`; `SendSms`).
- The form asks for a "Phone Number (for OTP recovery)" (`app.py:123`), and accepts one that
  another account has. Every lookup by phone then finds the older account (`FindsByPhone`).
- "Auto-reminders fire on the 1st of every month" (`app.py:589`): the scheduler starts with
  the first page after a server start, so a restart without a visit misses the month
  (`FirstOfMonth` with no scheduler).
- "n/m reminders sent" (`app.py:617`) counts a message as not sent when a status poll
  fails (`reminders.py:69`) or the answer to the POST is lost, though Twilio has it
  (`PollTurn`, `PostNoAnswer`).
- "Customers: log in with your phone number and PIN set by your merchant" (`app.py:139`):
  the login finds the oldest document with the phone, of any merchant
  (`customers.py:39`), so a customer of two merchants gets into the portal of one of them
  at most (`FoundByPhone`).
- A new customer is stored with the score 100 and the category 'Low Risk' (`customers.py:28`);
  a recalculation of the same empty account stores 100 and 'Excellent' (`customers.py:108`).
  The two are `NewScore` and `EmptyPicture`; `ScoreIsCurrentFor` takes either.
- "PIN updated!" (`app.py:435`) and the log say so too when the customer was deleted
  meanwhile and nothing was updated (`SetPin`).

### Bounds

- `MaxCustomers`, `MaxTxns`: documents ever created. One transaction and one
  customer are all two racing calls need to clash, so `ledger_racing` has one of
  each; the orderly and solo runs have two transactions, so that a call on one can
  fall inside a call on the other. `ledger_solo` has two
  customers: the restriction is per account, and two accounts do run side by side.
- Two sessions: every property is about a pair of calls at a time. `ledger_racing` has a third
  one, of another merchant, for `OwnDocumentsOnly`. The proofs of
  section 4 cover any number of sessions, documents and amounts.
- `Amounts`: {1, 2} makes an edit a change; `ledger_racing` adds 0, which only the
  guard of `add_transaction` keeps out. In `CreditHistory`, 300 and 2000 put
  ratios and balances on different rungs of their ladders.
- `MaxDrift` (`SmallBalances`, a state constraint of `ledger_racing` only): racing
  calls can move the totals without end; exploration stops at 2 either way, which
  is past the first drift.
- `Waits` = {31}, `MaxDay` = 62, `MaxTxns` = 4 in `CreditHistory`: credits become
  overdue after one wait, and recency falls two rungs. Four transactions are what it takes
  for three payments and a credit on the same day (the most the factors add up to
  below five transactions). Theorem `ClampIsRedundant` has every profile.
- `Accounts`: two sessions for a race, two names and two phones to tell right from wrong
  ones, two or three OTPs for an old, a new and a newer one; `Validity` 1 and a clock
  of 2 let an OTP be valid, at its last moment, and expired. The violation runs need less.
- `Reminders`: two customers of two merchants, so that the session's runs and the
  scheduler's differ, and two runs, which may overlap. `reminders_fair` has two
  schedulers, one before and one after a restart, and two months; one customer is enough
  there, each customer being a turn of the loop like the others.

- `directory_racing`: two sessions of one merchant to race on a phone and one of another
  merchant to have it as well, two phones, one file with a row of each and a row that
  cannot be used, two customers ever: three make no pair that two do not make, and an
  import that aborts can be repeated, its rows being there. Two customers also bound the
  file to where its rows are partly known already.
- `desk`: two sessions of one merchant, one customer, two transactions of amount 1, so that
  an addition can be logged or shown while another is posted or the customer goes. `ShortLog`, a
  constraint of this run only, stops at one script run cut with its entry to write (a second
  one is the first again), at four entries in all (a customer added, two transactions added
  and one action more), and where the merchant has cleared the log, which excuses everything.
  That an edit changes an amount is in `ledger_racing`; the theorems of `DeskProofs` have
  any amounts and no such bound.
- `money_residue`: two transactions, 0.1 and 0.2.

Sessions of one merchant can change places, which the symmetry of the safety runs
uses; `ledger_solo` and `reminders_fair` check liveness and have no symmetry. Deadlock is not checked: a merchant may stop at any time,
and the bounds end every instance.

### Fairness

`FairSoloSpec` assumes weak fairness of `Advance(s)` for each session: a thread in
the middle of a function goes on to its next round trip. That is what the
operating system's scheduler and a MongoDB driver that answers give; there is
no lock to wait for, so a round trip once enabled stays so. Nothing is assumed of
`Begin`: merchants need not do anything. `Abort` is not part of it: a call that is cut short
is exactly how an account stays behind for good.

`FairSpec` of `Reminders` assumes weak fairness of `Goes(r)`: a thread in a run goes on.
Every request has a timeout of 30 seconds (`reminders.py:34`) and every pause an end.
Nothing is assumed of Twilio's deliveries.

## 4. The proofs

TLAPS checks the following for any number of sessions, merchants, customers and
transactions and any set of integer amounts (`LedgerAssumption`: finitely many
sessions, each logged in as some merchant; bounds that are natural numbers).

| Theorem | Statement |
|---|---|
| `LedgerTypeOK` | `Spec => []TypeOK` |
| `BalanceAlwaysCreditLessPaid` | `Spec => []BalanceIsCreditLessPaid` |
| `DriftAlwaysHasACause` | `Spec => DriftHasACause` |
| `OrphansAlwaysHaveACause` | `Spec => OrphansHaveACause` |
| `ScoresAlwaysGoStaleByACause` | `Spec => ScoresGoStaleByACause` |
| `OrderlyBooksBalance` | `OrderlySpec => []BooksBalance` |
| `OrderlyQuietBooksBalance` | `OrderlySpec => []QuietBooksBalance` |
| `LedgerImplementsBook` | `OrderlySpec => ImplementsBook` |
| `SessionsKeepToTheirOwn` | `Spec => OwnDocumentsOnly` |
| `SoloIsOrderly` | `SoloSpec => OrderlySpec` |
| `CallsNearTheirEnd` | `Spec => [][NearsItsEnd]_vars` |
| `AccountsTypeOK` | `Spec => []TypeOK` |
| `UsernamesStayUnique` | `Spec => []UsernamesUnique` |
| `HeldOtpAlwaysNewest` | `Spec => []HeldOtpIsNewest` |
| `PasswordChangesProved` | `Spec => PasswordChangeIsProved` |
| `NewestOtpStaysValid` | `OrderlySpec => []NewestOtpIsValid` |
| `AccountsImplementBook` | `OrderlySpec => ImplementsAccountBook` |
| `RemindersTypeOK` | `Spec => []TypeOK` |
| `RunSendsOnce` | `Spec => []OneMessagePerRun` |
| `ReturnedRunsCoverAll` | `Spec => []ReturnedRunCoversAll` |
| `ScheduledOnceAMonth` | `Spec => []OneScheduledMessageAMonth` |
| `LogIsBorneOut` | `Spec => []LogBoundsMessages` |
| `RunsNearTheirEnd` | `Spec => [][RunsNear]_vars` |
| `DirectoryTypeOK` | `Spec => []TypeOK` |
| `DuplicatesAlwaysOverlapped` | `Spec => []DuplicatesOverlapped` |
| `PortalAlwaysStaysOpen` | `Spec => PortalStaysOpen` |
| `ImportsCoverFiles` | `Spec => []ImportCoversFile` |
| `DeskTypes` | `DeskSpec => []DeskTypeOK` |
| `ReceiptsAlwaysAddUp` | `DeskSpec => []ReceiptAddsUp` |
| `NothingStaysUnlogged` | `DeskSpec => []NothingUnlogged` |
| `NothingEverVanishes` | `DeskSpec => []NothingVanishes` |
| `ClampIsRedundant` | the factors of every profile are in 0..100 together |
| `SettledScore` | a settled account scores at least 50 |
| `PaymentRaisesScore` | a payment never lowers the score |
| `HistoryTypes` | `Spec => []TypeOK` (of `CreditHistory`, as the next five) |
| `FactorsAlwaysFillTheScale` | `Spec => []FactorsFillTheScale` |
| `SettledIsNeverRisk` | `Spec => []SettledIsNoRisk` |
| `StoredScoreStaysOptimistic` | `Spec => []StoredScoreIsOptimistic` |
| `PaymentsNeverLowerTheScore` | `Spec => PaymentNeverLowersScore` |
| `WorseAmountsNeverRaiseTheScore` | `Spec => WorseAmountNeverRaisesScore` |

`SumTheorems` (`SumUpdate` and others) has the facts about sums over finite functions that
these need.

**Type correctness** is inductive as it stands. It is not shallow for `call`: `Call`
says which locals go with which step, and the later proofs lean on it.
`BalanceIsCreditLessPaid` is inductive given `TypeOK`, since one `$inc` posts
all three totals.

**The books.** `Drift(c)` is the stored balance of `c`, plus what calls in progress
have written and not posted, less what the transactions add up to. The argument:

1. `IdsInv` is an invariant of `Spec`: ids held by calls were given out; nobody
   purges a customer that exists; the id of an addition in progress is
   in no other call and, until inserted, not in the collection; and type, customer
   and merchant of a transaction never differ from what a call about it holds. This
   is what makes the difference to a stale *amount* the only thing that can be wrong.
2. `StepKeepsDrift`: given `TypeOK` and `IdsInv`, a step that is neither a stale
   write nor a cut before posting leaves every customer's drift as it was. A write
   moves `Owed` and `Unposted` by the same amount; an `$inc` moves the balance and
   `Unposted` by opposite ones; other steps move none. `DriftHasACause` follows.
3. `OrderlyInv` is an invariant of `OrderlySpec`: no two calls on one transaction,
   so the amount a call has read is still there when it writes (`ReadIsCurrent`), an
   addition still finds its customer, and there are no orphans. So a stale write is
   impossible, and the drift, zero at the start, stays zero: `OrderlyBooksBalance`.

`BooksBalance` alone is not inductive: a state with a zero drift and a call about to
write on a stale read is one step away from a violation. `OrderlyInv` excludes it.
With no call in progress nothing is unposted, so `QuietBooksBalance`, which
`ledger_uncut` refutes of calls that clash, holds of orderly ones.

**The ledger implements its book.** The refinement mapping reads the entry of a
transaction from the call that has written it and not posted it yet, if there is one, and from
the collection otherwise. Under `OneCallPerTxn` there is at most one such call
(`BookShape`), and `WrittenIsThere` says what it finds: its customer still exists, and the
document is as it wrote it, or gone when it deletes. From that:

1. writing a document leaves its entry as it was (`WriteKeepsEntry`): the call's
   old amount takes the place of the document's, because `ReadIsCurrent` says they are
   equal. All steps but two leave all entries as they were (`QuietEntries`);
2. the `$inc` adds, amends or strikes the entry of its transaction and no other
   (`IncEntries`); the first delete of `delete_customer` takes out the
   customer's entries and no other (`DropEntries`);
3. `BookTotals`, the stored totals are the sums of the entries, is an
   invariant (`StepTotals`): the deltas of the `$inc` are those of its entry. With
   `BalanceIsCreditLessPaid` that is what `LedgerBook` demands of the totals.

**Whose documents.** The writes after a `find_one` go by `_id` alone, so that a session keeps to
its own merchant's documents rests on documents never changing hands. `OwnedBy(o)`: there is
an owner `o[c]` for every customer id, deleted customers included, whose are its document, its
transactions and the calls about it. Ids are never used twice, so `o` need only be extended
when a customer is added; `SessionsKeepToTheirOwn` follows with `IdsInv`.

**Orphans.** `OrphansHaveACause` is about a step of any interleaving: a transaction that was not
stray and now is. A document comes into `txns` only by an insert and a customer goes only
by `delete_customer`'s first delete, whose session then holds the purge of the customer's
transactions: what that leaves without a customer is not stray yet, somebody is at it
(`StepStrays`). So either an insert came after the delete, or the session at it was cut. A purge
that runs takes all transactions of the customer there are by then.

**Scores.** `ScoreCared(c)` is: the stored score is that of the account, or a call in progress will
make it so, having read nothing yet or nothing that has changed since. A step leaves another
session's reading fresh unless it writes or posts for the same customer (`StepSparesAccount`);
then the writer itself is on its way to a score (`WillScore`), which is why an account that is
written to is still cared for. What ends the care is a stale reading that is stored,
or a cut (`StepLeavesBehind`); what makes a reading stale is a write or a posting of
another session (`StepMakesStale`). `ScoresGoStaleByACause` is the two together.
`SoloSpec` is a case of `OrderlySpec`: `CustomersAgree`, an invariant of every interleaving, says that
calls about one transaction are about one customer, so two of them would be two calls on
one account.

**Progress.** The provers have no fairness, but what the two liveness properties rest on besides it is
proved. For `AccountsCatchUp`: whatever interleaves, an account whose score is behind
either has a call in progress that will see to it, or was left behind by one of the two
causes above; and a call only gets nearer to its end
(`CallsNearTheirEnd`, five round trips at most). For `EveryRunEnds`: `TurnsLeft` counts four
turns for each customer still before a run, and every step of a run takes one
(`RunsNearTheirEnd`): a `POST`, at most three status requests, the result.

**Accounts.** `HeldOtpIsNewest` and `UsernamesUnique` need `IssuedToAccounts` (every
OTP was issued to an account there is, and so was the one a call is sending), since
accounts and OTPs are only ever appended. `PasswordChangeIsProved` needs that the account a phone finds
never changes: accounts are not deleted and keep their phone, so the first with a
phone stays the first. `SettersProved` records what a call that sets a password has
verified, about that account. For `NewestOtpIsValid` under `OrderlySpec` the point is
`SettersHold`: while a call sets a password, no other call about the phone can store an
OTP, so the account still holds the verified one, and what `SetPassword` removes is what it spends.
The same fact carries `AccountsImplementBook`: `SetPassword` is the book's use of a key
only when the account still holds the key it was exchanged for.

**Reminders.** `RunSendsOnce` assumes finitely many customers and schedulers, and no
more of the sessions than that each is logged in (`RemindersAssumption`). `OneMessagePerRun` alone is
not inductive: it says nothing of what a run in progress will do. `RestInv` does: the run
has sent nothing yet to those still before it (while it polls, all but the one it polls
for), so the next message is the first. That survives the other runs because of `IdsInv`:
runs in progress have different ids, and every message carries the id of a run there was,
so a run just started has sent nothing.

`ReturnedRunsCoverAll` rests on `Covers`: at every moment of the loop, those with a result are those who
owed when the balances were read, less those the run has still to do. For
`ScheduledOnceAMonth`, `MonthInv` says that there is one scheduler at most, that a run of a
scheduler is in progress only for that one, and that the messages of a month are all of
one run: the clock strikes once in a month, and then one scheduler at most hears it. Within a run it is `OneMessagePerRun`. For `LogIsBorneOut`,
`TallyInv` counts as the run goes: whoever counts as sent has a message, whoever has a message
has a result or is being asked about. When the run returns these are the two numbers of its
log entry, and its id is never used again.

**Directory.** `DuplicatesOverlapped` needs `TestedSince`: while a session is between the
test of a phone and its insert, every document of its merchant with that phone has come
since the test, which is what the `since` of the new document will say. No bound on what
races is needed. `PortalStaysOpen` is a
statement about steps: an insert has the largest id, so it never comes before the
document that is found. `ImportInv` for `ImportCoversFile` is the invariant of the loop: the
rows passed that could be used are phones the merchant has had a customer by (`known` only
grows), and the row whose insert is under way is the one the loop is at (`InsertsRow`). Nothing in
the code keeps the counts in step with the loop; that each row passed is in just one of them
is an invariant of its own (`CountsRows`), which a row taken and then not added, or an insert
that is not counted, would break.

**Desk.** A step of the pages is a step of the ledger or leaves it alone (lemma
`DeskUsesLedger`), so what is proved of `Spec` holds there. `PagesFit` ties pages to calls: a
page waits for exactly the call its session has in progress, of the same kind, about the
same documents.

For `ReceiptAddsUp`, `DuesFit` says at every moment of an addition, from its first `find_one` to
its last: if the customer is still there, the stored balance is `due[s]` less what the
call has still to post itself (`Unsettled`). It is broken by whatever moves a balance without
`due`: `BalanceEffect` says that only an `$inc` moves one, by its own delta, and `OthersDue`
that every other addition for the customer expects it then. The last `find_one` comes
when nothing is unsettled, and nothing changes the view afterwards.

For the activity log, `Known(l)` is: the line is in the log, or a page in progress has done what
it says and will log it, or it is in `lost`, or its merchant has cleared the log. Known lines
stay known (`KnownKept`), for a page that ends with its entry unwritten puts it in
`lost`. `StoredIsKnown`, the addition of whatever is stored is known, gives
`NothingStaysUnlogged`. `NothingEverVanishes` is the other direction. Every line that is
logged, or whose page has done what it says, is *fulfilled*: what was added is there, or its
deletion is known (`PledgesFulfilled`). A page that has not yet reached its write
pledges nothing, which is why `Done` looks at the step of the call.

**Credit score.** A score is a sum of ladders; that each moves the right way is
arithmetic on the profile (`ClampIsRedundant`, `SettledScore`, `PaymentRaisesScore`). The
theorems about `CreditHistory` lift it to an account's life. `HistoryInv` has what that takes: the
stored balance is the sum of the signed transactions (through recording, editing and
deleting anywhere in the list: `SumChange` and `SumReindex`), and the stored
score is the one that the transactions and the balance had on some day since the last change.
`StoredScoreStaysOptimistic` follows, since on a later day the same account has at least as
many overdue credits and as many days since its last payment. A settled account stores
no risk category because the stored balance, not a recalculated one, enters the score.

**Sums.** `Owed` and `Unposted` are folds over finite sets. That a fold unfolds is
proved by taking a smallest counterexample in the well-founded order of
subsets, because the library's induction theorems take an operator as parameter, which
the installed provers cannot instantiate.

**Only model-checked**: the liveness properties `AccountsCatchUp` and `EveryRunEnds`, which need
fairness and `ENABLED`, out of the prover's reach; the two violations, which are single behaviours;
and what the doubles of `Money` do. Every other property of a run has a theorem.

## 5. Plan

The modules planned are there, and every safety property, action property and refinement
that a run checks is proved. Nothing of the plan is left. Two things could be added: the log entries
about logins, PINs and reminders, whose pages follow the pattern of `Desk`, and OTPs
that may be equal by chance, of which `Accounts` abstracts.

## 6. Not modelled

- `.vendor/` is some 99% of the lines below `src/`: packages of others (pymongo, twilio, dns,
  ...). The modules have what the application sees of MongoDB and Twilio. The program
  proper is some 1700 lines of Python.
- Analytics, the dashboard and the defaulters page: each is a query and a layout, with no
  state and no order of steps.
- Names: that the transaction form keys customers by name (`app.py:473`) is there
  only as the form's free choice of a customer. Notes, dates of transactions in `Ledger`,
  message wording, PDF layout, charts, themes.
- MongoDB's own replication, and the recovery of a server that loses acknowledged writes.
- Password and PIN hashing as arithmetic; guessing an OTP or a PIN.
