----------------------------- MODULE Reminders -----------------------------
(***************************************************************************)
(* Payment reminders (reminders.py): the loop of run_monthly_reminders,    *)
(* started by a button of the page or by the scheduler on the first of a   *)
(* month, and Twilio, which takes the messages, may lose its answer, and   *)
(* delivers in its own time.  A run reads the balances once; from then on  *)
(* one action is one HTTP request together with the local computation      *)
(* before it, and runs, payments and deliveries interleave.                *)
(*                                                                         *)
(* Abstracted: the channel (SMS and WhatsApp have the same control), the   *)
(* wording, and why a message fails.  A balance of no more than zero is 0. *)
(* A message Twilio knows, but neither as "delivered" nor as "failed", is  *)
(* "pending".                                                              *)
(*                                                                         *)
(* A definition whose comment begins with "Mutant" is a plausible slip in  *)
(* the definition after it, and is used by no specification.               *)
(***************************************************************************)
EXTENDS Integers, Sequences, FiniteSets

CONSTANTS
    Customers,
    Merchants,
    OwnerOf,    \* OwnerOf[c] = the merchant customer c belongs to
    Sessions,   \* browser sessions of merchants
    LoggedInAs, \* LoggedInAs[s] = the merchant of session s
    Schedulers, \* background schedulers that could be started
    Nobody,     \* no customer
    MaxBalance, \* bound: what a customer may owe
    MaxRuns,    \* bound: runs of the loop
    MaxMonth    \* bound: time

Runners == Sessions \cup Schedulers

ASSUME RemindersAssumption ==
    /\ OwnerOf \in [Customers -> Merchants]
    /\ LoggedInAs \in [Sessions -> Merchants]
    /\ Sessions \cap Schedulers = {}
    /\ Nobody \notin Customers
    /\ IsFiniteSet(Customers) /\ IsFiniteSet(Schedulers)
    /\ MaxBalance \in Nat /\ MaxRuns \in Nat /\ MaxMonth \in Nat

VARIABLES
    balance,    \* balance[c] = what customer c owes
    month,      \* the months that have begun
    schedulers, \* the schedulers at work in the server process
    runs,       \* how many runs were started
    run,        \* run[r] = the last run of runner r
    poll,       \* poll[r] = the message whose status r is asking for
    messages,   \* the messages Twilio has taken
    log         \* the SEND_REMINDERS entries of the activity log

vars == <<balance, month, schedulers, runs, run, poll, messages, log>>

Busy(r) == run[r].step \in {"find", "loop", "poll"}

\* A run: its next request or how it ended; the balances it has read; who is still
\* to be reminded; the result of each customer so far
Run == [step: {"none", "find", "loop", "poll", "returned", "raised", "cut"},
        id: Nat, owed: [Customers -> Nat], todo: SUBSET Customers,
        result: [Customers -> {"none", "sent", "failed"}]]

NoRun == [step |-> "none", id |-> 0, owed |-> [c \in Customers |-> 0], todo |-> {},
          result |-> [c \in Customers |-> "none"]]

\* _maybe_check_message_status: the message, its customer, the answers so far
NoPoll == [to |-> Nobody, sid |-> 0, answers |-> 0]
Poll == [to: Customers, sid: Nat \ {0}, answers: 0..2] \cup {NoPoll}

\* A message, and for the properties: its run, who ran it and in which month
Message == [to: Customers, amount: Nat, status: {"pending", "delivered", "failed"},
            run: Nat, by: Runners, month: Nat]

\* Mutant of Owing: those who owe nothing as well
OwingOrZero(r) == {c \in Customers : r \in Sessions => OwnerOf[c] = LoggedInAs[r]}

\* The query of run_monthly_reminders, and of get_defaulters
Owing(r) == {c \in Customers : /\ balance[c] > 0
                               /\ r \in Sessions => OwnerOf[c] = LoggedInAs[r]}

To(k, step) == [k EXCEPT !.step = step]
Started(id) == To([NoRun EXCEPT !.id = id], "find")

\* Mutant of Tried: the loop ends with the first failure
TriedWhileSent(k, c, status) ==
    [step |-> "loop", id |-> k.id, owed |-> k.owed,
     todo |-> IF status = "failed" THEN {} ELSE k.todo \ {c},
     result |-> [k.result EXCEPT ![c] = status]]

\* The loop after the result of customer c
Tried(k, c, status) ==
    [step |-> "loop", id |-> k.id, owed |-> k.owed, todo |-> k.todo \ {c},
     result |-> [k.result EXCEPT ![c] = status]]

Results(k, status) == {c \in Customers : k.result[c] = status}

-----------------------------------------------------------------------------
(* The schedulers *)

\* Mutant of Visit: init_db is not cached
VisitUncached ==
    /\ \E j \in Schedulers \ schedulers : schedulers' = schedulers \cup {j}
    /\ UNCHANGED <<balance, month, runs, run, poll, messages, log>>

\* The first visit of a page since the server started: init_db starts a scheduler
Visit ==
    /\ schedulers = {}
    /\ \E j \in Schedulers : schedulers' = {j}
    /\ UNCHANGED <<balance, month, runs, run, poll, messages, log>>

\* It is nine o'clock on the first of a month.  A scheduler whose job is still
\* running leaves it at that.
FirstOfMonth ==
    /\ month < MaxMonth
    /\ LET due == {j \in schedulers : ~Busy(j)}
       IN  /\ runs + Cardinality(due) <= MaxRuns
           /\ runs' = runs + Cardinality(due)
           /\ \E id \in [due -> (runs + 1)..runs'] :
                 /\ \A i, j \in due : i # j => id[i] # id[j]
                 /\ run' = [r \in Runners |->
                               IF r \in due THEN Started(id[r]) ELSE run[r]]
    /\ month' = month + 1
    /\ UNCHANGED <<balance, schedulers, poll, messages, log>>

\* The server stops and starts again: schedulers, and runs with their locals, are
\* gone.
Restart ==
    /\ schedulers' = {}
    /\ run' = [r \in Runners |-> IF Busy(r) THEN To(NoRun, "cut") ELSE run[r]]
    /\ poll' = [r \in Runners |-> NoPoll]
    /\ UNCHANGED <<balance, month, runs, messages, log>>

-----------------------------------------------------------------------------
(* A run *)

\* "Send Reminders Now": the page shows the button when somebody owes something.
\* There is a page only once the server was visited.
PressSend(s) ==
    /\ schedulers # {}
    /\ ~Busy(s) /\ Owing(s) # {}
    /\ runs < MaxRuns
    /\ runs' = runs + 1
    /\ run' = [run EXCEPT ![s] = Started(runs + 1)]
    /\ UNCHANGED <<balance, month, schedulers, poll, messages, log>>

\* No results yet; list(cust_col.find(query))
Find(r) ==
    /\ run[r].step = "find"
    /\ run' = [run EXCEPT ![r] =
                  [step |-> "loop", id |-> @.id, owed |-> balance,
                   todo |-> Owing(r), result |-> NoRun.result]]
    /\ UNCHANGED <<balance, month, schedulers, runs, poll, messages, log>>

\* Twilio takes the message of run r to customer c.
Takes(r, c) ==
    messages' = Append(messages,
        [to |-> c, amount |-> run[r].owed[c], status |-> "pending",
         run |-> run[r].id, by |-> r, month |-> month])

\* Mutants of PostNoAnswer: the customer is tried again; silence is success
PostNoAnswerRetry(r, c) ==
    /\ Takes(r, c) \/ UNCHANGED messages
    /\ UNCHANGED <<run, poll>>

PostNoAnswerIsSent(r, c) ==
    /\ Takes(r, c) \/ UNCHANGED messages
    /\ run' = [run EXCEPT ![r] = Tried(@, c, "sent")]
    /\ UNCHANGED poll

\* The request is refused, never leaves, or its answer is lost or unreadable: Twilio
\* may have taken the message, and the result is a failure.
PostNoAnswer(r, c) ==
    /\ Takes(r, c) \/ UNCHANGED messages
    /\ run' = [run EXCEPT ![r] = Tried(@, c, "failed")]
    /\ UNCHANGED poll

\* The answer holds the message's sid: its status is asked for next.
PostAnswered(r, c) ==
    /\ Takes(r, c)
    /\ run' = [run EXCEPT ![r] = To(@, "poll")]
    /\ poll' = [poll EXCEPT ![r] = [to |-> c, sid |-> Len(messages'), answers |-> 0]]

\* send_sms or send_whatsapp up to the answer to its POST
Post(r) ==
    /\ run[r].step = "loop"
    /\ \E c \in run[r].todo : PostNoAnswer(r, c) \/ PostAnswered(r, c)
    /\ UNCHANGED <<balance, month, schedulers, runs, log>>

\* The send has its result: the loop goes on.
Settles(r, status) ==
    /\ run' = [run EXCEPT ![r] = Tried(@, poll[r].to, status)]
    /\ poll' = [poll EXCEPT ![r] = NoPoll]

\* Mutant of AsksAgain: until the message is delivered or has failed
AsksForEver(r) ==
    /\ poll' = [poll EXCEPT ![r].answers = (@ + 1) % 3]
    /\ UNCHANGED run

\* Another status than "delivered" and "failed" is asked for up to three times.
AsksAgain(r) ==
    /\ poll[r].answers < 2
    /\ poll' = [poll EXCEPT ![r].answers = @ + 1]
    /\ UNCHANGED run

\* The GET is answered with the status of the message.
PollStatus(r) ==
    LET status == messages[poll[r].sid].status
    IN  \/ status = "delivered" /\ Settles(r, "sent")
        \/ status = "failed" /\ Settles(r, "failed")
        \/ /\ status = "pending"
           /\ AsksAgain(r) \/ (poll[r].answers = 2 /\ Settles(r, "sent"))

\* One turn of _maybe_check_message_status.  When the request itself fails, so does
\* the send, whatever became of the message.
PollTurn(r) ==
    /\ run[r].step = "poll"
    /\ PollStatus(r) \/ Settles(r, "failed")
    /\ UNCHANGED <<balance, month, schedulers, runs, messages, log>>

\* The loop is over.  A session logs the counts and shows the results, and the page
\* breaks when there are none; the scheduler drops them.
Return(r) ==
    /\ run[r].step = "loop" /\ run[r].todo = {}
    /\ LET k == run[r]
           sent == Results(k, "sent")
           all == sent \cup Results(k, "failed")
           broken == r \in Sessions /\ all = {}
       IN  /\ run' = [run EXCEPT ![r] = To(@, IF broken THEN "raised" ELSE "returned")]
           /\ log' = IF r \in Schedulers THEN log
                     ELSE log \cup {[run |-> k.id, sent |-> Cardinality(sent),
                                     of |-> Cardinality(all)]}
    /\ UNCHANGED <<balance, month, schedulers, runs, poll, messages>>

\* A request of the run raises: the database's find or insert; Twilio credentials
\* that are missing; an HTTP error whose body is not JSON, to a POST that Twilio may
\* have taken, or to a GET.  Nothing catches it, and the run ends there.
Raise(r) ==
    /\ Busy(r)
    /\ \/ UNCHANGED messages
       \/ run[r].step = "loop" /\ \E c \in run[r].todo : Takes(r, c)
    /\ run' = [run EXCEPT ![r] = To(@, "raised")]
    /\ poll' = [poll EXCEPT ![r] = NoPoll]
    /\ UNCHANGED <<balance, month, schedulers, runs, log>>

-----------------------------------------------------------------------------
(* The environment *)

\* Credits and payments are recorded, on a page.
BalanceChanges ==
    /\ schedulers # {}
    /\ \E c \in Customers, b \in 0..MaxBalance : balance' = [balance EXCEPT ![c] = b]
    /\ UNCHANGED <<month, schedulers, runs, run, poll, messages, log>>

\* Twilio delivers a message, or gives up on it.
Deliver ==
    /\ \E i \in DOMAIN messages, status \in {"delivered", "failed"} :
          /\ messages[i].status = "pending"
          /\ messages' = [messages EXCEPT ![i].status = status]
    /\ UNCHANGED <<balance, month, schedulers, runs, run, poll, log>>

-----------------------------------------------------------------------------
(* Specifications *)

Init ==
    /\ balance = [c \in Customers |-> 0]
    /\ month = 0
    /\ schedulers = {}
    /\ runs = 0
    /\ run = [r \in Runners |-> NoRun]
    /\ poll = [r \in Runners |-> NoPoll]
    /\ messages = <<>>
    /\ log = {}

\* Runner r goes on with its run.
Goes(r) == Find(r) \/ Post(r) \/ PollTurn(r) \/ Return(r) \/ Raise(r)

Next ==
    \/ Visit \/ FirstOfMonth \/ Restart
    \/ \E s \in Sessions : PressSend(s)
    \/ \E r \in Runners : Goes(r)
    \/ BalanceChanges \/ Deliver

Spec == Init /\ [][Next]_vars

\* A thread in the middle of a run goes on: a request has a timeout, a pause an end.
FairSpec == Spec /\ \A r \in Runners : WF_vars(Goes(r))

-----------------------------------------------------------------------------
(* Properties *)

MessagesOf(id) == {i \in DOMAIN messages : messages[i].run = id}

\* Every variable has its type; who polls is between a POST and its result; a run
\* still has to remind only customers that owed something when it began.
TypeOK ==
    /\ balance \in [Customers -> 0..MaxBalance]
    /\ month \in 0..MaxMonth
    /\ schedulers \in SUBSET Schedulers
    /\ runs \in 0..MaxRuns
    /\ run \in [Runners -> Run]
    /\ poll \in [Runners -> Poll]
    /\ messages \in Seq(Message)
    /\ log \in SUBSET [run: Nat, sent: Nat, of: Nat]
    /\ \A r \in Runners : run[r].step = "poll" <=> poll[r] # NoPoll
    /\ \A r \in Runners : \A c \in run[r].todo :
          run[r].owed[c] > 0 /\ run[r].result[c] = "none"

\* Two messages of one run go to two customers: however answers get lost, and
\* whatever fails, a run sends nobody a second message.
OneMessagePerRun ==
    \A i, j \in DOMAIN messages :
        i # j /\ messages[i].run = messages[j].run => messages[i].to # messages[j].to

\* On the first of a month the schedulers together send a customer one message at
\* most, whatever restarts and visits there have been.
OneScheduledMessageAMonth ==
    \A i, j \in DOMAIN messages :
        /\ i # j /\ messages[i].month = messages[j].month
        /\ {messages[i].by, messages[j].by} \subseteq Schedulers
        => messages[i].to # messages[j].to

\* A run that returned has a result for everybody who owed its merchant something
\* when it read the balances, and for nobody else.
ReturnedRunCoversAll ==
    \A r \in Runners : run[r].step = "returned" =>
        {c \in Customers : run[r].result[c] # "none"} =
        {c \in Customers : /\ run[r].owed[c] > 0
                           /\ r \in Sessions => OwnerOf[c] = LoggedInAs[r]}

\* What the activity log says was sent, Twilio has taken; and Twilio has taken no
\* more messages of a logged run than the log counts customers.
LogBoundsMessages ==
    \A e \in log : LET taken == Cardinality(MessagesOf(e.run))
                   IN  e.sent <= taken /\ taken <= e.of

\* A run does not go on for ever, even when a message is never delivered.
EveryRunEnds == \A r \in Runners : Busy(r) ~> ~Busy(r)
=============================================================================
