-------------------------- MODULE RemindersProofs --------------------------
(***************************************************************************)
(* Theorems about Reminders, for any customers, merchants, sessions and    *)
(* schedulers: with every interleaving, every lost answer and every        *)
(* restart.                                                                *)
(***************************************************************************)
EXTENDS Reminders, FiniteSetTheorems, TLAPS

-----------------------------------------------------------------------------
(* Types *)

StepNames == {"none", "find", "loop", "poll", "returned", "raised", "cut"}

\* What TypeOK says of one run, and of one runner's polling
TodoOwes(k) == \A c \in k.todo : k.owed[c] > 0 /\ k.result[c] = "none"
Polls(k, p) == k.step = "poll" <=> p # NoPoll

\* A run that goes on to a step keeps its other fields and its type.
LEMMA ToType ==
    ASSUME NEW k \in Run, NEW step \in StepNames
    PROVE  /\ To(k, step) \in Run
           /\ To(k, step).step = step /\ To(k, step).id = k.id
           /\ To(k, step).todo = k.todo
           /\ TodoOwes(k) => TodoOwes(To(k, step))
BY DEF To, Run, StepNames, TodoOwes

\* No run, put at any step, has the type of a run with nobody before it.
LEMMA NoRunType ==
    /\ NoRun \in Run /\ NoRun.todo = {}
    /\ \A step \in StepNames : /\ To(NoRun, step) \in Run
                               /\ To(NoRun, step).step = step
                               /\ TodoOwes(To(NoRun, step))
BY DEF NoRun, Run, To, StepNames, TodoOwes

\* A run just started has its id and is about to read the balances.
LEMMA StartedType ==
    ASSUME NEW id \in Nat
    PROVE  /\ Started(id) \in Run /\ Started(id).id = id
           /\ Started(id).step = "find" /\ TodoOwes(Started(id))
<1> DEFINE k == [NoRun EXCEPT !.id = id]
<1>1. k \in Run /\ k.id = id /\ k.todo = {}
  BY DEF NoRun, Run
<1>2. TodoOwes(k)
  BY <1>1 DEF TodoOwes
<1> HIDE DEF k
<1>3. "find" \in StepNames
  BY DEF StepNames
<1>4. Started(id) = To(k, "find")
  BY DEF Started, k
<1> QED BY <1>1, <1>2, <1>3, <1>4, ToType

\* A run that has tried a customer has one less before it, and its result.
LEMMA TriedType ==
    ASSUME NEW k \in Run, NEW c \in Customers, NEW status \in {"sent", "failed"},
           TodoOwes(k)
    PROVE  /\ Tried(k, c, status) \in Run
           /\ Tried(k, c, status).step = "loop" /\ Tried(k, c, status).id = k.id
           /\ Tried(k, c, status).todo = k.todo \ {c}
           /\ TodoOwes(Tried(k, c, status))
<1> DEFINE t == Tried(k, c, status)
<1>1. /\ t.step = "loop" /\ t.id = k.id /\ t.owed = k.owed /\ t.todo = k.todo \ {c}
      /\ t.result = [k.result EXCEPT ![c] = status]
  BY DEF Tried
<1>2. t.result \in [Customers -> {"none", "sent", "failed"}]
  BY <1>1 DEF Run
<1>3. t \in Run
  BY <1>1, <1>2 DEF Tried, Run
<1>4. ASSUME NEW d \in t.todo
      PROVE  t.owed[d] > 0 /\ t.result[d] = "none"
  <2>1. d \in k.todo /\ d # c /\ d \in Customers
    BY <1>1 DEF Run
  <2> QED BY <1>1, <2>1 DEF TodoOwes, Run
<1> HIDE DEF t
<1>5. TodoOwes(t)
  BY <1>4 DEF TodoOwes
<1> QED BY <1>1, <1>3, <1>5 DEF t

\* Not polling is a value of a runner's polling.
LEMMA NoPollType == NoPoll \in Poll
BY DEF NoPoll, Poll

\* What a step of runner r that sets its run to k and its polling to p keeps of
\* the types
LEMMA RunnerSetType ==
    ASSUME TypeOK, NEW r \in Runners, NEW k \in Run, NEW p \in Poll,
           run' = [run EXCEPT ![r] = k], poll' = [poll EXCEPT ![r] = p],
           Polls(k, p), TodoOwes(k)
    PROVE  /\ run' \in [Runners -> Run] /\ poll' \in [Runners -> Poll]
           /\ \A q \in Runners : Polls(run'[q], poll'[q]) /\ TodoOwes(run'[q])
BY DEF TypeOK, Polls, TodoOwes

\* A step that keeps the types, variable by variable
LEMMA TypeOKParts ==
    ASSUME balance' \in [Customers -> 0..MaxBalance], month' \in 0..MaxMonth,
           schedulers' \in SUBSET Schedulers, runs' \in 0..MaxRuns,
           run' \in [Runners -> Run], poll' \in [Runners -> Poll],
           messages' \in Seq(Message), log' \in SUBSET [run: Nat, sent: Nat, of: Nat],
           \A q \in Runners : Polls(run'[q], poll'[q]) /\ TodoOwes(run'[q])
    PROVE  TypeOK'
BY DEF TypeOK, Polls, TodoOwes

\* A message Twilio takes is the last one, for the customer and of the run.
LEMMA TakesType ==
    ASSUME TypeOK, NEW r \in Runners, NEW c \in Customers, Takes(r, c)
    PROVE  /\ messages' \in Seq(Message) /\ Len(messages') = Len(messages) + 1
           /\ \A i \in DOMAIN messages : messages'[i] = messages[i]
           /\ DOMAIN messages' = DOMAIN messages \cup {Len(messages')}
           /\ messages'[Len(messages')].run = run[r].id
           /\ messages'[Len(messages')].to = c
           /\ messages'[Len(messages')].by = r
           /\ messages'[Len(messages')].month = month
<1> DEFINE m == [to |-> c, amount |-> run[r].owed[c], status |-> "pending",
                 run |-> run[r].id, by |-> r, month |-> month]
<1>1. run[r] \in Run /\ month \in Nat
  BY RemindersAssumption DEF TypeOK
<1>2. m \in Message /\ m.run = run[r].id /\ m.to = c /\ m.by = r /\ m.month = month
  BY <1>1 DEF Message, Run
<1>3. messages' = Append(messages, m) /\ messages \in Seq(Message)
  BY DEF Takes, TypeOK
<1> HIDE DEF m
<1> QED BY <1>2, <1>3

\* The type invariant holds at the start.
LEMMA InitTypeOK == Init => TypeOK
<1> SUFFICES ASSUME Init PROVE TypeOK
  OBVIOUS
<1>1. \A q \in Runners : run[q] = NoRun /\ poll[q] = NoPoll
  BY DEF Init
<1>2. NoRun \in Run /\ NoRun.step # "poll" /\ NoRun.todo = {} /\ NoPoll \in Poll
  BY NoRunType, NoPollType DEF NoRun
<1>3. \A r \in Runners : run[r].step = "poll" <=> poll[r] # NoPoll
  BY <1>1, <1>2
<1>4. \A r \in Runners : \A c \in run[r].todo :
         run[r].owed[c] > 0 /\ run[r].result[c] = "none"
  BY <1>1, <1>2
<1> QED BY <1>2, <1>3, <1>4, RemindersAssumption DEF Init, TypeOK

\* A step of a run in progress keeps the type invariant.
LEMMA GoesTypeOK ==
    ASSUME TypeOK, NEW r \in Runners, Goes(r) \/ (r \in Sessions /\ PressSend(r))
    PROVE  TypeOK'
<1> USE RemindersAssumption
<1>k. /\ run[r] \in Run /\ poll[r] \in Poll
      /\ Polls(run[r], poll[r]) /\ TodoOwes(run[r])
      /\ poll = [poll EXCEPT ![r] = poll[r]] /\ run = [run EXCEPT ![r] = run[r]]
      /\ run[r].todo \subseteq Customers
  BY DEF TypeOK, Polls, TodoOwes, Run
<1>n. NoPoll \in Poll
  BY NoPollType
<1>1. CASE r \in Sessions /\ PressSend(r)
  <2>1. runs + 1 \in Nat /\ runs' \in 0..MaxRuns
    BY <1>1 DEF PressSend, TypeOK
  <2>2. run[r].step # "poll"
    BY <1>1 DEF PressSend, Busy
  <2>3. Polls(Started(runs + 1), poll[r])
    BY <2>1, <2>2, <1>k, StartedType DEF Polls
  <2>4. run' = [run EXCEPT ![r] = Started(runs + 1)] /\ poll' = [poll EXCEPT ![r] = poll[r]]
    BY <1>1, <1>k DEF PressSend
  <2>5. Started(runs + 1) \in Run /\ TodoOwes(Started(runs + 1))
    BY <2>1, StartedType
  <2>6. /\ run' \in [Runners -> Run] /\ poll' \in [Runners -> Poll]
        /\ \A q \in Runners : Polls(run'[q], poll'[q]) /\ TodoOwes(run'[q])
    BY <1>k, <2>3, <2>4, <2>5, RunnerSetType
  <2> QED BY <1>1, <2>1, <2>6, TypeOKParts DEF PressSend, TypeOK
<1>2. CASE Find(r)
  <2> DEFINE k == [step |-> "loop", id |-> run[r].id, owed |-> balance,
                   todo |-> Owing(r), result |-> NoRun.result]
  <2>1. \A c \in Customers : balance[c] \in Nat
    BY DEF TypeOK
  <2>2. k \in Run /\ k.step = "loop" /\ k.todo \subseteq Customers
    BY <1>k, <2>1, NoRunType DEF Run, Owing, TypeOK
  <2>3. TodoOwes(k)
    BY DEF TodoOwes, Owing, NoRun
  <2>4. Polls(k, poll[r])
    BY <1>2, <1>k DEF Polls, Find
  <2>5. run' = [run EXCEPT ![r] = k] /\ poll' = [poll EXCEPT ![r] = poll[r]]
    BY <1>2, <1>k DEF Find
  <2> HIDE DEF k
  <2> QED BY <1>2, <1>k, <2>2, <2>3, <2>4, <2>5, RunnerSetType, TypeOKParts DEF Find, TypeOK
<1>3. ASSUME NEW c \in run[r].todo, run[r].step = "loop",
             PostNoAnswer(r, c) \/ PostAnswered(r, c),
             UNCHANGED <<balance, month, schedulers, runs, log>>
      PROVE  TypeOK'
  <2>c. c \in Customers
    BY <1>k
  <2>1. CASE PostNoAnswer(r, c)
    <3>1. messages' \in Seq(Message)
      BY <2>1, <2>c, TakesType DEF PostNoAnswer, TypeOK
    <3>2. /\ run' = [run EXCEPT ![r] = Tried(run[r], c, "failed")]
          /\ poll' = [poll EXCEPT ![r] = poll[r]]
      BY <2>1, <1>k DEF PostNoAnswer
    <3>3. Polls(Tried(run[r], c, "failed"), poll[r])
      BY <1>3, <1>k, <2>c, TriedType DEF Polls
    <3> QED
      BY <1>3, <1>k, <2>c, <3>1, <3>2, <3>3, TriedType, RunnerSetType, TypeOKParts
         DEF TypeOK
  <2>2. CASE PostAnswered(r, c)
    <3> DEFINE p == [to |-> c, sid |-> Len(messages'), answers |-> 0]
    <3>1. messages' \in Seq(Message) /\ Len(messages') \in Nat \ {0}
      BY <2>2, <2>c, TakesType DEF PostAnswered, TypeOK
    <3>2. p \in Poll /\ p # NoPoll
      BY <2>c, <3>1 DEF Poll, NoPoll
    <3>3. "poll" \in StepNames
      BY DEF StepNames
    <3>4. run' = [run EXCEPT ![r] = To(run[r], "poll")] /\ poll' = [poll EXCEPT ![r] = p]
      BY <2>2 DEF PostAnswered
    <3> HIDE DEF p
    <3>5. Polls(To(run[r], "poll"), p)
      BY <1>k, <3>2, <3>3, ToType DEF Polls
    <3> QED
      BY <1>3, <1>k, <3>1, <3>2, <3>3, <3>4, <3>5, ToType, RunnerSetType, TypeOKParts
         DEF TypeOK
  <2> QED BY <1>3, <2>1, <2>2
<1>4. CASE PollTurn(r)
  <2>1. poll[r] # NoPoll
    BY <1>4, <1>k DEF PollTurn, Polls
  <2>2. ASSUME NEW status \in {"sent", "failed"}, Settles(r, status)
        PROVE  TypeOK'
    <3>1. poll[r].to \in Customers
      BY <1>k, <2>1 DEF Poll
    <3> DEFINE t == Tried(run[r], poll[r].to, status)
    <3>2. t \in Run /\ t.step = "loop" /\ TodoOwes(t)
      BY <1>k, <3>1, TriedType
    <3>3. run' = [run EXCEPT ![r] = t] /\ poll' = [poll EXCEPT ![r] = NoPoll]
      BY <2>2 DEF Settles
    <3> HIDE DEF t
    <3>4. /\ run' \in [Runners -> Run] /\ poll' \in [Runners -> Poll]
          /\ \A q \in Runners : Polls(run'[q], poll'[q]) /\ TodoOwes(run'[q])
      BY <1>n, <3>2, <3>3, RunnerSetType DEF Polls
    <3> QED BY <1>4, <3>4, TypeOKParts DEF PollTurn, TypeOK
  <2>3. CASE AsksAgain(r)
    <3> DEFINE p == [poll[r] EXCEPT !.answers = @ + 1]
    <3>1. p \in Poll /\ p # NoPoll
      BY <1>k, <2>1, <2>3 DEF AsksAgain, Poll, NoPoll
    <3>2. run' = [run EXCEPT ![r] = run[r]] /\ poll' = [poll EXCEPT ![r] = p]
      BY <1>k, <2>3 DEF AsksAgain
    <3>3. Polls(run[r], p)
      BY <1>4, <3>1 DEF Polls, PollTurn
    <3> HIDE DEF p
    <3>4. /\ run' \in [Runners -> Run] /\ poll' \in [Runners -> Poll]
          /\ \A q \in Runners : Polls(run'[q], poll'[q]) /\ TodoOwes(run'[q])
      BY <1>k, <3>1, <3>2, <3>3, RunnerSetType
    <3> QED BY <1>4, <3>4, TypeOKParts DEF PollTurn, TypeOK
  <2> QED BY <1>4, <2>2, <2>3 DEF PollTurn, PollStatus
<1>5. CASE Return(r)
  <2>1. PICK step \in {"raised", "returned"} : run' = [run EXCEPT ![r] = To(run[r], step)]
    BY <1>5 DEF Return
  <2>2. step \in StepNames /\ step # "poll"
    BY <2>1 DEF StepNames
  <2>3. Polls(To(run[r], step), poll[r])
    BY <1>5, <1>k, <2>2, ToType DEF Return, Polls
  <2>4. poll' = [poll EXCEPT ![r] = poll[r]]
    BY <1>5, <1>k DEF Return
  <2>5. /\ run' \in [Runners -> Run] /\ poll' \in [Runners -> Poll]
        /\ \A q \in Runners : Polls(run'[q], poll'[q]) /\ TodoOwes(run'[q])
    BY <1>k, <2>1, <2>2, <2>3, <2>4, ToType, RunnerSetType
  <2>6. \A S \in SUBSET Customers : Cardinality(S) \in Nat
    BY FS_Subset, FS_CardinalityType
  <2>7. log' \in SUBSET [run: Nat, sent: Nat, of: Nat]
    <3> DEFINE sent == Results(run[r], "sent")
               all == sent \cup Results(run[r], "failed")
               e == [run |-> run[r].id, sent |-> Cardinality(sent), of |-> Cardinality(all)]
    <3>1. sent \in SUBSET Customers /\ all \in SUBSET Customers
      BY DEF Results
    <3>2. Cardinality(sent) \in Nat /\ Cardinality(all) \in Nat /\ run[r].id \in Nat
      BY <1>k, <2>6, <3>1 DEF Run
    <3>3. log' = log \/ log' = log \cup {e}
      BY <1>5 DEF Return
    <3>4. e \in [run: Nat, sent: Nat, of: Nat]
      BY <3>2
    <3> HIDE DEF e
    <3> QED BY <3>3, <3>4 DEF TypeOK
  <2> QED BY <1>5, <2>5, <2>7, TypeOKParts DEF Return, TypeOK
<1>6. CASE Raise(r)
  <2>1. "raised" \in StepNames
    BY DEF StepNames
  <2>2. messages' \in Seq(Message)
    BY <1>6, <1>k, TakesType DEF Raise, TypeOK
  <2>3. run' = [run EXCEPT ![r] = To(run[r], "raised")] /\ poll' = [poll EXCEPT ![r] = NoPoll]
    BY <1>6 DEF Raise
  <2>4. Polls(To(run[r], "raised"), NoPoll)
    BY <1>k, <2>1, ToType DEF Polls
  <2>5. /\ run' \in [Runners -> Run] /\ poll' \in [Runners -> Poll]
        /\ \A q \in Runners : Polls(run'[q], poll'[q]) /\ TodoOwes(run'[q])
    BY <1>k, <1>n, <2>1, <2>3, <2>4, ToType, RunnerSetType
  <2> QED BY <1>6, <2>2, <2>5, TypeOKParts DEF Raise, TypeOK
<1> QED BY <1>1, <1>2, <1>3, <1>4, <1>5, <1>6 DEF Goes, Post

\* The first of a month starts runs with new ids of their own.
LEMMA FirstOfMonthStarts ==
    ASSUME TypeOK, FirstOfMonth
    PROVE  /\ month' \in 0..MaxMonth /\ runs' \in 0..MaxRuns /\ runs' >= runs
           /\ \E due \in SUBSET Schedulers : \E id \in [due -> (runs + 1)..runs'] :
                 /\ \A j \in due : ~Busy(j)
                 /\ \A i, j \in due : i # j => id[i] # id[j]
                 /\ run' = [r \in Runners |->
                               IF r \in due THEN Started(id[r]) ELSE run[r]]
<1> DEFINE due == {j \in schedulers : ~Busy(j)}
<1>1. due \in SUBSET Schedulers
  BY DEF TypeOK
<1>2. Cardinality(due) \in Nat
  BY <1>1, RemindersAssumption, FS_Subset, FS_CardinalityType
<1>3. /\ runs + Cardinality(due) <= MaxRuns
      /\ runs' = runs + Cardinality(due)
      /\ \E id \in [due -> (runs + 1)..runs'] :
            /\ \A i, j \in due : i # j => id[i] # id[j]
            /\ run' = [r \in Runners |-> IF r \in due THEN Started(id[r]) ELSE run[r]]
      /\ month < MaxMonth /\ month' = month + 1
  BY DEF FirstOfMonth
<1>4. \A j \in due : ~Busy(j)
  OBVIOUS
<1> HIDE DEF due
<1>5. month' \in 0..MaxMonth /\ runs' \in 0..MaxRuns /\ runs' >= runs
  BY <1>2, <1>3, RemindersAssumption DEF TypeOK
<1> QED BY <1>1, <1>3, <1>4, <1>5

\* Delivery changes nothing of a message but its status.
LEMMA DeliverKeeps ==
    ASSUME TypeOK, Deliver
    PROVE  /\ messages' \in Seq(Message) /\ DOMAIN messages' = DOMAIN messages
           /\ \A i \in DOMAIN messages : /\ messages'[i].run = messages[i].run
                                         /\ messages'[i].to = messages[i].to
                                         /\ messages'[i].by = messages[i].by
                                         /\ messages'[i].month = messages[i].month
<1>1. PICK i \in DOMAIN messages, status \in {"delivered", "failed"} :
         messages' = [messages EXCEPT ![i].status = status]
  BY DEF Deliver
<1> DEFINE m == [messages[i] EXCEPT !.status = status]
<1>2. messages \in Seq(Message) /\ messages[i] \in Message
  BY DEF TypeOK
<1>3. /\ m \in Message /\ m.run = messages[i].run /\ m.to = messages[i].to
      /\ m.by = messages[i].by /\ m.month = messages[i].month
  BY <1>1, <1>2 DEF Message
<1>4. messages' = [messages EXCEPT ![i] = m]
  BY <1>1
<1> HIDE DEF m
<1> QED BY <1>2, <1>3, <1>4

\* Every step keeps the type invariant.
LEMMA NextTypeOK ==
    ASSUME TypeOK, [Next]_vars
    PROVE  TypeOK'
<1> USE RemindersAssumption
<1>r. \A q \in Runners : Polls(run[q], poll[q]) /\ TodoOwes(run[q])
  BY DEF TypeOK, Polls, TodoOwes
<1>1. CASE Visit
  BY <1>1 DEF Visit, TypeOK
<1>2. CASE FirstOfMonth
  <2>1. PICK due \in SUBSET Schedulers : \E id \in [due -> (runs + 1)..runs'] :
           /\ \A j \in due : ~Busy(j)
           /\ run' = [r \in Runners |-> IF r \in due THEN Started(id[r]) ELSE run[r]]
    BY <1>2, FirstOfMonthStarts
  <2>2. PICK id \in [due -> (runs + 1)..runs'] :
           /\ \A j \in due : ~Busy(j)
           /\ run' = [r \in Runners |-> IF r \in due THEN Started(id[r]) ELSE run[r]]
    BY <2>1
  <2>3. runs \in Nat /\ runs' \in 0..MaxRuns /\ month' \in 0..MaxMonth
    BY <1>2, FirstOfMonthStarts DEF TypeOK
  <2>4. \A j \in due : id[j] \in Nat
    BY <2>3
  <2>5. \A q \in Runners : run'[q] \in Run /\ Polls(run'[q], poll[q]) /\ TodoOwes(run'[q])
    <3> TAKE q \in Runners
    <3>1. CASE q \in due
      <4>1. run'[q] = Started(id[q]) /\ run[q].step # "poll"
        BY <2>2, <3>1 DEF Busy
      <4> QED BY <1>r, <2>4, <3>1, <4>1, StartedType DEF Polls
    <3>2. CASE q \notin due
      BY <1>r, <2>2, <3>2 DEF TypeOK
    <3> QED BY <3>1, <3>2
  <2>6. run' \in [Runners -> Run]
    BY <2>2, <2>5
  <2> QED BY <1>2, <2>3, <2>5, <2>6, TypeOKParts DEF FirstOfMonth, TypeOK
<1>3. CASE Restart
  <2>1. "cut" \in StepNames
    BY DEF StepNames
  <2>2. \A q \in Runners :
           run'[q] \in Run /\ Polls(run'[q], poll'[q]) /\ TodoOwes(run'[q])
    <3> TAKE q \in Runners
    <3>1. poll'[q] = NoPoll
      BY <1>3 DEF Restart
    <3>2. CASE Busy(q)
      <4>1. run'[q] = To(NoRun, "cut")
        BY <1>3, <3>2 DEF Restart
      <4> QED BY <2>1, <3>1, <4>1, NoRunType DEF Polls
    <3>3. CASE ~Busy(q)
      <4>1. run'[q] = run[q] /\ run[q].step # "poll"
        BY <1>3, <3>3 DEF Restart, Busy
      <4> QED BY <1>r, <3>1, <4>1 DEF Polls, TypeOK
    <3> QED BY <3>2, <3>3
  <2>3. run' \in [Runners -> Run] /\ poll' \in [Runners -> Poll]
    BY <1>3, <2>2, NoPollType DEF Restart
  <2> QED BY <1>3, <2>2, <2>3, TypeOKParts DEF Restart, TypeOK
<1>4. CASE BalanceChanges
  BY <1>4 DEF BalanceChanges, TypeOK
<1>5. CASE Deliver
  BY <1>5, DeliverKeeps DEF Deliver, TypeOK
<1>6. CASE UNCHANGED vars
  BY <1>6 DEF vars, TypeOK
<1>7. \A s \in Sessions : s \in Runners
  BY DEF Runners
<1> QED BY <1>1, <1>2, <1>3, <1>4, <1>5, <1>6, <1>7, GoesTypeOK DEF Next

\* Every variable keeps its type, and a run has only customers before it that owed
\* something when it began, whatever is lost, raised or restarted.
THEOREM RemindersTypeOK == Spec => []TypeOK
<1> QED BY InitTypeOK, NextTypeOK, PTL DEF Spec

-----------------------------------------------------------------------------
(* One message for a customer in a run *)

\* Runs in progress have ids of their own, and a message has that of a run there was.
IdsInv ==
    /\ \A i \in DOMAIN messages : messages[i].run \in 1..runs
    /\ \A r \in Runners : Busy(r) => run[r].id \in 1..runs
    /\ \A q, r \in Runners : Busy(q) /\ Busy(r) /\ q # r => run[q].id # run[r].id

\* The customers run k has still to send something to, while it polls as p says
Rest(k, p) == IF k.step = "poll" THEN k.todo \ {p.to} ELSE k.todo

\* A run has sent nothing yet to those it still has to, and nothing at all before it
\* has read the balances.
RestInv ==
    \A r \in Runners : \A i \in DOMAIN messages :
        Busy(r) /\ messages[i].run = run[r].id =>
            /\ run[r].step # "find"
            /\ messages[i].to \notin Rest(run[r], poll[r])

OnceInv == IdsInv /\ RestInv /\ OneMessagePerRun

\* The invariant about messages holds at the start.
LEMMA InitOnce == Init => OnceInv
<1> SUFFICES ASSUME Init PROVE OnceInv
  OBVIOUS
<1>1. \A r \in Runners : ~Busy(r)
  BY DEF Init, NoRun, Busy
<1>2. DOMAIN messages = {}
  BY DEF Init
<1> QED BY <1>1, <1>2 DEF OnceInv, IdsInv, RestInv, OneMessagePerRun

\* Run k has something to do.
InProgress(k) == k.step \in {"find", "loop", "poll"}

\* A step of runner r that sends nothing
LEMMA QuietStepOnce ==
    ASSUME TypeOK, OnceInv, NEW r \in Runners, Busy(r),
           UNCHANGED <<runs, messages>>,
           NEW k, NEW p, run' = [run EXCEPT ![r] = k], poll' = [poll EXCEPT ![r] = p],
           k.id = run[r].id, k.step # "find",
           InProgress(k) => \A i \in DOMAIN messages :
              messages[i].run = k.id => messages[i].to \notin Rest(k, p)
    PROVE  OnceInv'
<1>1. /\ run'[r] = k /\ poll'[r] = p
      /\ \A q \in Runners : q # r => run'[q] = run[q] /\ poll'[q] = poll[q]
  BY DEF TypeOK
<1>2. \A q \in Runners : InProgress(run'[q]) => InProgress(run[q]) /\ run'[q].id = run[q].id
  BY <1>1 DEF Busy, InProgress
<1>3. IdsInv'
  BY <1>2 DEF OnceInv, IdsInv, Busy, InProgress
<1>4. RestInv'
  <2> SUFFICES ASSUME NEW q \in Runners, NEW i \in DOMAIN messages,
                      InProgress(run'[q]), messages[i].run = run'[q].id
               PROVE  /\ run'[q].step # "find"
                      /\ messages[i].to \notin Rest(run'[q], poll'[q])
    BY DEF RestInv, Busy, InProgress
  <2>1. CASE q = r
    BY <1>1, <2>1
  <2>2. CASE q # r
    BY <1>1, <2>2 DEF OnceInv, RestInv, Busy, InProgress
  <2> QED BY <2>1, <2>2
<1> QED BY <1>3, <1>4 DEF OnceInv, OneMessagePerRun

\* A step of runner r that sends a message to customer c
LEMMA SendingStepOnce ==
    ASSUME TypeOK, OnceInv, NEW r \in Runners, run[r].step = "loop",
           NEW c \in run[r].todo, Takes(r, c), UNCHANGED runs,
           NEW k, NEW p, run' = [run EXCEPT ![r] = k], poll' = [poll EXCEPT ![r] = p],
           k.id = run[r].id, k.step # "find",
           InProgress(k) => Rest(k, p) \subseteq run[r].todo \ {c}
    PROVE  OnceInv'
<1> DEFINE n == Len(messages')
<1>1. /\ run'[r] = k /\ poll'[r] = p
      /\ \A q \in Runners : q # r => run'[q] = run[q] /\ poll'[q] = poll[q]
  BY DEF TypeOK
<1>2. \A q \in Runners : InProgress(run'[q]) => InProgress(run[q]) /\ run'[q].id = run[q].id
  BY <1>1 DEF InProgress
<1>3. c \in Customers
  BY DEF TypeOK, Run
<1>4. /\ DOMAIN messages' = DOMAIN messages \cup {n}
      /\ \A i \in DOMAIN messages : messages'[i] = messages[i]
      /\ messages'[n].run = run[r].id /\ messages'[n].to = c
  BY <1>3, TakesType
<1> HIDE DEF n
<1>5. /\ run[r].id \in 1..runs
      /\ \A q \in Runners : InProgress(run[q]) /\ q # r => run[q].id # run[r].id
  BY DEF OnceInv, IdsInv, Busy, InProgress
<1>6. \A i \in DOMAIN messages :
         messages[i].run = run[r].id => messages[i].to \notin run[r].todo
  BY DEF OnceInv, RestInv, Rest, Busy
<1>7. IdsInv'
  <2>1. \A i \in DOMAIN messages' : messages'[i].run \in 1..runs
    BY <1>4, <1>5 DEF OnceInv, IdsInv
  <2> QED BY <1>2, <2>1 DEF OnceInv, IdsInv, Busy, InProgress
<1>8. RestInv'
  <2> SUFFICES ASSUME NEW q \in Runners, NEW i \in DOMAIN messages',
                      InProgress(run'[q]), messages'[i].run = run'[q].id
               PROVE  /\ run'[q].step # "find"
                      /\ messages'[i].to \notin Rest(run'[q], poll'[q])
    BY DEF RestInv, Busy, InProgress
  <2>1. CASE q = r
    <3>1. messages'[i].to \notin run[r].todo \ {c}
      BY <1>1, <1>4, <1>6, <2>1
    <3> QED BY <1>1, <2>1, <3>1
  <2>2. CASE q # r
    <3>1. i \in DOMAIN messages /\ messages'[i] = messages[i]
      BY <1>1, <1>2, <1>4, <1>5, <2>2
    <3> QED BY <1>1, <2>2, <3>1 DEF OnceInv, RestInv, Busy, InProgress
  <2> QED BY <2>1, <2>2
<1>9. OneMessagePerRun'
  BY <1>4, <1>6 DEF OnceInv, OneMessagePerRun
<1> QED BY <1>7, <1>8, <1>9 DEF OnceInv

\* A step of a run in progress keeps the invariant about messages.
LEMMA GoesOnce ==
    ASSUME TypeOK, OnceInv, NEW r \in Runners, Goes(r)
    PROVE  OnceInv'
<1>k. /\ run[r] \in Run /\ poll[r] \in Poll
      /\ Polls(run[r], poll[r]) /\ TodoOwes(run[r])
      /\ poll = [poll EXCEPT ![r] = poll[r]]
      /\ run[r].todo \subseteq Customers
  BY DEF TypeOK, Polls, TodoOwes, Run
<1>i. \A i \in DOMAIN messages :
         Busy(r) /\ messages[i].run = run[r].id =>
            run[r].step # "find" /\ messages[i].to \notin Rest(run[r], poll[r])
  BY DEF OnceInv, RestInv
<1>1. CASE Find(r)
  <2> DEFINE k == [step |-> "loop", id |-> run[r].id, owed |-> balance,
                   todo |-> Owing(r), result |-> NoRun.result]
  <2>1. run' = [run EXCEPT ![r] = k] /\ poll' = [poll EXCEPT ![r] = poll[r]]
    BY <1>1, <1>k DEF Find
  <2>2. k.id = run[r].id /\ k.step # "find"
    OBVIOUS
  <2> HIDE DEF k
  <2>3. Busy(r) /\ \A i \in DOMAIN messages : messages[i].run # k.id
    BY <1>1, <1>i, <2>2 DEF Find, Busy
  <2>4. UNCHANGED <<runs, messages>>
    BY <1>1 DEF Find
  <2> QED BY <2>1, <2>2, <2>3, <2>4, QuietStepOnce
<1>2. ASSUME NEW c \in run[r].todo, run[r].step = "loop", UNCHANGED runs,
             PostNoAnswer(r, c) \/ PostAnswered(r, c)
      PROVE  OnceInv'
  <2>c. c \in Customers /\ Busy(r)
    BY <1>k, <1>2 DEF Busy
  <2>1. CASE PostNoAnswer(r, c)
    <3> DEFINE t == Tried(run[r], c, "failed")
    <3>1. t.step = "loop" /\ t.id = run[r].id /\ t.todo = run[r].todo \ {c}
      BY <1>k, <2>c, TriedType
    <3>2. run' = [run EXCEPT ![r] = t] /\ poll' = [poll EXCEPT ![r] = poll[r]]
      BY <1>k, <2>1 DEF PostNoAnswer
    <3> HIDE DEF t
    <3>3. Rest(t, poll[r]) = run[r].todo \ {c} /\ Rest(run[r], poll[r]) = run[r].todo
      BY <1>2, <3>1 DEF Rest
    <3>4. CASE Takes(r, c)
      BY <1>2, <3>1, <3>2, <3>3, <3>4, SendingStepOnce
    <3>5. CASE UNCHANGED messages
      BY <1>2, <1>i, <2>c, <3>1, <3>2, <3>3, <3>5, QuietStepOnce
    <3> QED BY <2>1, <3>4, <3>5 DEF PostNoAnswer
  <2>2. CASE PostAnswered(r, c)
    <3> DEFINE k == To(run[r], "poll")
               p == [to |-> c, sid |-> Len(messages'), answers |-> 0]
    <3>1. "poll" \in StepNames
      BY DEF StepNames
    <3>2. k.step = "poll" /\ k.id = run[r].id /\ k.todo = run[r].todo
      BY <1>k, <3>1, ToType
    <3>3. p.to = c
      OBVIOUS
    <3>4. run' = [run EXCEPT ![r] = k] /\ poll' = [poll EXCEPT ![r] = p] /\ Takes(r, c)
      BY <2>2 DEF PostAnswered
    <3> HIDE DEF k, p
    <3>5. Rest(k, p) = run[r].todo \ {c}
      BY <3>2, <3>3 DEF Rest
    <3> QED BY <1>2, <3>2, <3>4, <3>5, SendingStepOnce
  <2> QED BY <1>2, <2>1, <2>2
<1>3. CASE PollTurn(r)
  <2>1. Busy(r) /\ run[r].step = "poll" /\ poll[r] # NoPoll /\ UNCHANGED <<runs, messages>>
    BY <1>3, <1>k DEF PollTurn, Busy, Polls
  <2>2. ASSUME NEW status \in {"sent", "failed"}, Settles(r, status)
        PROVE  OnceInv'
    <3>1. poll[r].to \in Customers
      BY <1>k, <2>1 DEF Poll
    <3> DEFINE t == Tried(run[r], poll[r].to, status)
    <3>2. t.step = "loop" /\ t.id = run[r].id /\ t.todo = run[r].todo \ {poll[r].to}
      BY <1>k, <3>1, TriedType
    <3>3. run' = [run EXCEPT ![r] = t] /\ poll' = [poll EXCEPT ![r] = NoPoll]
      BY <2>2 DEF Settles
    <3> HIDE DEF t
    <3>4. Rest(t, NoPoll) = Rest(run[r], poll[r])
      BY <2>1, <3>2 DEF Rest
    <3> QED BY <1>i, <2>1, <3>2, <3>3, <3>4, QuietStepOnce
  <2>3. CASE AsksAgain(r)
    <3> DEFINE p == [poll[r] EXCEPT !.answers = @ + 1]
    <3>1. p.to = poll[r].to
      BY <1>k, <2>1 DEF Poll
    <3>2. run' = [run EXCEPT ![r] = run[r]] /\ poll' = [poll EXCEPT ![r] = p]
      BY <2>3 DEF AsksAgain, TypeOK
    <3> HIDE DEF p
    <3>3. Rest(run[r], p) = Rest(run[r], poll[r])
      BY <3>1 DEF Rest
    <3> QED BY <1>i, <2>1, <3>2, <3>3, QuietStepOnce
  <2> QED BY <1>3, <2>2, <2>3 DEF PollTurn, PollStatus
<1>4. CASE Return(r)
  <2>1. PICK step \in {"raised", "returned"} : run' = [run EXCEPT ![r] = To(run[r], step)]
    BY <1>4 DEF Return
  <2>2. step \in StepNames /\ step \notin {"find", "loop", "poll"}
    BY <2>1 DEF StepNames
  <2> DEFINE k == To(run[r], step)
  <2>3. k.step = step /\ k.id = run[r].id /\ run' = [run EXCEPT ![r] = k]
    BY <1>k, <2>1, <2>2, ToType
  <2> HIDE DEF k
  <2>4. Busy(r) /\ poll' = [poll EXCEPT ![r] = poll[r]] /\ UNCHANGED <<runs, messages>>
    BY <1>4, <1>k DEF Return, Busy
  <2> QED BY <2>2, <2>3, <2>4, QuietStepOnce DEF InProgress
<1>5. CASE Raise(r)
  <2> DEFINE k == To(run[r], "raised")
  <2>1. "raised" \in StepNames
    BY DEF StepNames
  <2>2. k.step = "raised" /\ k.id = run[r].id
    BY <1>k, <2>1, ToType
  <2>3. run' = [run EXCEPT ![r] = k] /\ poll' = [poll EXCEPT ![r] = NoPoll]
    BY <1>5 DEF Raise
  <2> HIDE DEF k
  <2>4. Busy(r) /\ UNCHANGED runs
    BY <1>5 DEF Raise
  <2>5. CASE UNCHANGED messages
    BY <2>2, <2>3, <2>4, <2>5, QuietStepOnce DEF InProgress
  <2>6. ASSUME NEW c \in run[r].todo, run[r].step = "loop", Takes(r, c)
        PROVE  OnceInv'
    BY <2>2, <2>3, <2>4, <2>6, SendingStepOnce DEF InProgress
  <2> QED BY <1>5, <2>5, <2>6 DEF Raise
<1> QED BY <1>1, <1>2, <1>3, <1>4, <1>5 DEF Goes, Post

\* A step that starts runs with new ids, and may end others, sends nothing.
LEMMA StartingStepOnce ==
    ASSUME TypeOK, OnceInv, UNCHANGED messages,
           runs' \in Nat, runs' >= runs,
           NEW due \in SUBSET Runners, NEW id \in [due -> (runs + 1)..runs'],
           \A q, r \in due : q # r => id[q] # id[r],
           \A r \in due : run'[r] = Started(id[r]),
           \A r \in Runners \ due :
              InProgress(run'[r]) => run'[r] = run[r] /\ poll'[r] = poll[r]
    PROVE  OnceInv'
<1>1. runs \in Nat
  BY RemindersAssumption DEF TypeOK
<1>2. \A r \in due : /\ id[r] \in Nat /\ id[r] > runs /\ id[r] <= runs'
                     /\ run'[r].id = id[r] /\ run'[r].step = "find"
  BY <1>1, StartedType
<1>3. \A r \in Runners \ due : InProgress(run'[r]) =>
         /\ InProgress(run[r])
         /\ run'[r] = run[r] /\ poll'[r] = poll[r] /\ run[r].id \in 1..runs
  BY DEF OnceInv, IdsInv, Busy, InProgress
<1>4. \A i \in DOMAIN messages : messages[i].run \in 1..runs
  BY DEF OnceInv, IdsInv
<1>5. \A i \in DOMAIN messages' : messages'[i].run \in 1..runs'
  BY <1>1, <1>4
<1>6. \A r \in Runners : InProgress(run'[r]) => run'[r].id \in 1..runs'
  BY <1>1, <1>2, <1>3
<1>7. ASSUME NEW q \in Runners, NEW r \in Runners, q # r,
             InProgress(run'[q]), InProgress(run'[r])
      PROVE  run'[q].id # run'[r].id
  <2>1. CASE q \in due /\ r \in due
    BY <1>2, <1>7, <2>1
  <2>2. CASE q \in due /\ r \notin due
    BY <1>1, <1>2, <1>3, <1>7, <2>2
  <2>3. CASE q \notin due /\ r \in due
    BY <1>1, <1>2, <1>3, <1>7, <2>3
  <2>4. CASE q \notin due /\ r \notin due
    BY <1>3, <1>7, <2>4 DEF OnceInv, IdsInv, Busy, InProgress
  <2> QED BY <2>1, <2>2, <2>3, <2>4
<1>8. RestInv'
  <2> SUFFICES ASSUME NEW q \in Runners, NEW i \in DOMAIN messages,
                      InProgress(run'[q]), messages[i].run = run'[q].id
               PROVE  /\ run'[q].step # "find"
                      /\ messages[i].to \notin Rest(run'[q], poll'[q])
    BY DEF RestInv, Busy, InProgress
  <2>1. q \notin due
    BY <1>1, <1>2, <1>4
  <2> QED BY <1>3, <2>1 DEF OnceInv, RestInv, Busy, InProgress
<1>9. IdsInv'
  BY <1>5, <1>6, <1>7 DEF IdsInv, Busy, InProgress
<1> QED BY <1>8, <1>9 DEF OnceInv, OneMessagePerRun

\* Every step keeps the invariant about messages.
LEMMA NextOnce ==
    ASSUME TypeOK, OnceInv, [Next]_vars
    PROVE  OnceInv'
<1>1. CASE Visit \/ BalanceChanges \/ UNCHANGED vars
  <2>1. UNCHANGED <<runs, run, poll, messages>>
    BY <1>1 DEF Visit, BalanceChanges, vars
  <2>2. IdsInv'
    BY <2>1 DEF OnceInv, IdsInv, Busy
  <2>3. RestInv'
    BY <2>1 DEF OnceInv, RestInv, Rest, Busy
  <2>4. OneMessagePerRun'
    BY <2>1 DEF OnceInv, OneMessagePerRun
  <2> QED BY <2>2, <2>3, <2>4 DEF OnceInv
<1>2. CASE FirstOfMonth
  <2>1. PICK due \in SUBSET Schedulers : \E id \in [due -> (runs + 1)..runs'] :
           /\ \A i, j \in due : i # j => id[i] # id[j]
           /\ run' = [r \in Runners |-> IF r \in due THEN Started(id[r]) ELSE run[r]]
    BY <1>2, FirstOfMonthStarts
  <2>2. PICK id \in [due -> (runs + 1)..runs'] :
           /\ \A i, j \in due : i # j => id[i] # id[j]
           /\ run' = [r \in Runners |-> IF r \in due THEN Started(id[r]) ELSE run[r]]
    BY <2>1
  <2>3. due \in SUBSET Runners /\ runs' \in Nat /\ runs' >= runs
    BY <1>2, FirstOfMonthStarts, RemindersAssumption DEF Runners
  <2>4. /\ \A r \in due : run'[r] = Started(id[r])
        /\ \A r \in Runners \ due : run'[r] = run[r] /\ poll'[r] = poll[r]
        /\ UNCHANGED messages
    BY <1>2, <2>2, <2>3 DEF FirstOfMonth
  <2> QED BY <2>2, <2>3, <2>4, StartingStepOnce
<1>3. ASSUME NEW s \in Sessions, PressSend(s)
      PROVE  OnceInv'
  <2> DEFINE due == {s}
             id == [r \in due |-> runs + 1]
  <2>1. runs \in Nat /\ runs' = runs + 1
    BY <1>3, RemindersAssumption DEF PressSend, TypeOK
  <2>2. /\ due \in SUBSET Runners /\ id \in [due -> (runs + 1)..runs']
        /\ \A q, r \in due : q # r => id[q] # id[r]
    BY <2>1 DEF Runners
  <2>3. /\ \A r \in due : run'[r] = Started(id[r])
        /\ \A r \in Runners \ due : run'[r] = run[r] /\ poll'[r] = poll[r]
        /\ UNCHANGED messages
    BY <1>3 DEF PressSend, TypeOK, Runners
  <2> HIDE DEF due, id
  <2> QED BY <2>1, <2>2, <2>3, StartingStepOnce
<1>4. CASE Restart
  <2>1. \A r \in Runners : ~InProgress(run'[r])
    <3> TAKE r \in Runners
    <3>1. CASE Busy(r)
      BY <1>4, <3>1, NoRunType DEF Restart, InProgress, StepNames
    <3>2. CASE ~Busy(r)
      BY <1>4, <3>2 DEF Restart, Busy, InProgress
    <3> QED BY <3>1, <3>2
  <2>2. UNCHANGED <<runs, messages>>
    BY <1>4 DEF Restart
  <2> QED BY <2>1, <2>2 DEF OnceInv, IdsInv, RestInv, OneMessagePerRun, Busy, InProgress
<1>5. CASE Deliver
  <2>1. UNCHANGED <<runs, run, poll>>
    BY <1>5 DEF Deliver
  <2>2. /\ DOMAIN messages' = DOMAIN messages
        /\ \A i \in DOMAIN messages : /\ messages'[i].run = messages[i].run
                                      /\ messages'[i].to = messages[i].to
    BY <1>5, DeliverKeeps
  <2> QED
    BY <2>1, <2>2 DEF OnceInv, IdsInv, RestInv, OneMessagePerRun, Busy, Rest
<1>6. ASSUME NEW r \in Runners, Goes(r)
      PROVE  OnceInv'
  BY <1>6, GoesOnce
<1> QED BY <1>1, <1>2, <1>3, <1>4, <1>5, <1>6 DEF Next

\* A run never sends a customer a second message, however many answers are lost,
\* requests fail, and servers restart.
THEOREM RunSendsOnce == Spec => []OneMessagePerRun
<1>1. OnceInv => OneMessagePerRun
  BY DEF OnceInv
<1> QED BY <1>1, InitTypeOK, NextTypeOK, InitOnce, NextOnce, PTL DEF Spec
-----------------------------------------------------------------------------
(* What a step of a run does *)

\* A run that goes on to a step keeps the balances it has read and its results.
LEMMA ToKeeps ==
    ASSUME NEW k \in Run, NEW step \in StepNames
    PROVE  To(k, step).owed = k.owed /\ To(k, step).result = k.result
BY DEF To, Run, StepNames

\* A run that has tried a customer has that one's result, and the others as before.
LEMMA TriedResults ==
    ASSUME NEW k \in Run, NEW c \in Customers, NEW status \in {"sent", "failed"}
    PROVE  /\ Tried(k, c, status).owed = k.owed
           /\ \A d \in Customers :
                 Tried(k, c, status).result[d] = IF d = c THEN status ELSE k.result[d]
BY DEF Tried, Run

\* What a step of runner r leaves alone, and what at most it adds
LEMMA GoesEffect ==
    ASSUME TypeOK, NEW r \in Runners, Goes(r)
    PROVE  /\ Busy(r) /\ UNCHANGED <<schedulers, month, runs>>
           /\ \A q \in Runners : q # r => run'[q] = run[q] /\ poll'[q] = poll[q]
           /\ InProgress(run'[r]) => run'[r].id = run[r].id
           /\ messages' = messages \/ \E c \in run[r].todo : Takes(r, c)
           /\ log' = log \/ Return(r)
<1>k. /\ run[r] \in Run /\ poll[r] \in Poll /\ Polls(run[r], poll[r])
      /\ run[r].todo \subseteq Customers
      /\ run \in [Runners -> Run] /\ poll \in [Runners -> Poll]
  BY DEF TypeOK, Polls, Run
<1>n. \A step \in {"poll", "returned", "raised"} : To(run[r], step).id = run[r].id
  BY <1>k, ToType DEF StepNames
<1>1. CASE Find(r)
  BY <1>1, <1>k DEF Find, Busy
<1>2. CASE Post(r)
  <2>1. PICK c \in run[r].todo : PostNoAnswer(r, c) \/ PostAnswered(r, c)
    BY <1>2 DEF Post
  <2>2. Tried(run[r], c, "failed").id = run[r].id
    BY DEF Tried
  <2> QED BY <1>2, <1>k, <1>n, <2>1, <2>2 DEF Post, PostNoAnswer, PostAnswered, Busy
<1>3. CASE PollTurn(r)
  <2>1. \A status \in {"sent", "failed"} : Tried(run[r], poll[r].to, status).id = run[r].id
    BY DEF Tried
  <2>2. AsksAgain(r) \/ Settles(r, "sent") \/ Settles(r, "failed")
    BY <1>3 DEF PollTurn, PollStatus
  <2> QED BY <1>3, <1>k, <2>1, <2>2 DEF PollTurn, Settles, AsksAgain, Busy
<1>4. CASE Return(r)
  <2>1. PICK step \in {"raised", "returned"} : run' = [run EXCEPT ![r] = To(run[r], step)]
    BY <1>4 DEF Return
  <2>2. run'[r].id = run[r].id
    BY <1>k, <1>n, <2>1
  <2> QED BY <1>4, <1>k, <2>1, <2>2 DEF Return, Busy
<1>5. CASE Raise(r)
  <2>1. run'[r].id = run[r].id
    BY <1>5, <1>k, <1>n DEF Raise
  <2> QED BY <1>5, <1>k, <2>1 DEF Raise
<1> QED BY <1>1, <1>2, <1>3, <1>4, <1>5 DEF Goes

\* What any other step does to the runs: some start, some are cut, and the rest stay.
LEMMA OthersEffect ==
    ASSUME TypeOK, [Next]_vars, ~\E r \in Runners : Goes(r)
    PROVE  /\ runs \in Nat /\ runs' \in Nat /\ runs' >= runs /\ log' = log
           /\ \A r \in Runners :
                 \/ run'[r] = run[r] /\ poll'[r] = poll[r]
                 \/ ~Busy(r) /\ run'[r].step = "find" /\ run'[r].id \in (runs + 1)..runs'
                 \/ run'[r].step = "cut"
           /\ DOMAIN messages' = DOMAIN messages
           /\ \A i \in DOMAIN messages : /\ messages'[i].run = messages[i].run
                                         /\ messages'[i].to = messages[i].to
                                         /\ messages'[i].by = messages[i].by
                                         /\ messages'[i].month = messages[i].month
<1>0. runs \in Nat
  BY RemindersAssumption DEF TypeOK
<1>1. CASE Visit \/ BalanceChanges \/ UNCHANGED vars
  BY <1>0, <1>1 DEF Visit, BalanceChanges, vars
<1>2. CASE FirstOfMonth
  <2>1. PICK due \in SUBSET Schedulers : \E id \in [due -> (runs + 1)..runs'] :
           /\ \A j \in due : ~Busy(j)
           /\ run' = [r \in Runners |-> IF r \in due THEN Started(id[r]) ELSE run[r]]
    BY <1>2, FirstOfMonthStarts
  <2>2. PICK id \in [due -> (runs + 1)..runs'] :
           /\ \A j \in due : ~Busy(j)
           /\ run' = [r \in Runners |-> IF r \in due THEN Started(id[r]) ELSE run[r]]
    BY <2>1
  <2>3. runs' \in Nat /\ runs' >= runs
    BY <1>2, FirstOfMonthStarts, RemindersAssumption
  <2>4. \A r \in due : /\ id[r] \in (runs + 1)..runs'
                       /\ Started(id[r]).step = "find" /\ Started(id[r]).id = id[r]
    BY <1>0, <2>2, <2>3, StartedType
  <2> QED BY <1>0, <1>2, <2>2, <2>3, <2>4 DEF FirstOfMonth
<1>3. ASSUME NEW s \in Sessions, PressSend(s)
      PROVE  /\ runs' \in Nat /\ runs' >= runs /\ log' = log
             /\ \A r \in Runners :
                   \/ run'[r] = run[r] /\ poll'[r] = poll[r]
                   \/ ~Busy(r) /\ run'[r].step = "find" /\ run'[r].id \in (runs + 1)..runs'
             /\ messages' = messages
  <2>1. Started(runs + 1).step = "find" /\ Started(runs + 1).id = runs + 1
    BY <1>0, StartedType
  <2>2. run' = [run EXCEPT ![s] = Started(runs + 1)] /\ run \in [Runners -> Run]
    BY <1>3 DEF PressSend, TypeOK
  <2> QED BY <1>0, <1>3, <2>1, <2>2 DEF PressSend, Runners
<1>4. CASE Restart
  <2>1. To(NoRun, "cut").step = "cut"
    BY NoRunType DEF StepNames
  <2>2. \A r \in Runners : ~Busy(r) => poll[r] = NoPoll
    BY DEF TypeOK, Busy
  <2> QED BY <1>0, <1>4, <2>1, <2>2 DEF Restart
<1>5. CASE Deliver
  <2>1. UNCHANGED <<runs, run, poll, log>>
    BY <1>5 DEF Deliver
  <2> QED BY <1>0, <1>5, <2>1, DeliverKeeps
<1> QED BY <1>0, <1>1, <1>2, <1>3, <1>4, <1>5 DEF Next

-----------------------------------------------------------------------------
(* Everybody is tried *)

\* Those who owed the merchant of runner r something when run k read the balances
OwingIn(r, k) == {c \in Customers : /\ k.owed[c] > 0
                                    /\ r \in Sessions => OwnerOf[c] = LoggedInAs[r]}

HasResult(k) == {c \in Customers : k.result[c] # "none"}

\* Run k of runner r, polling as p says, has a result for just those who owed
\* something and are not before it any more.
Covers(r, k, p) ==
    k.step \in {"loop", "poll", "returned"} =>
        /\ k.todo \subseteq OwingIn(r, k)
        /\ HasResult(k) = OwingIn(r, k) \ k.todo
        /\ k.step = "returned" => k.todo = {}
        /\ k.step = "poll" => p.to \in k.todo

CoverInv == \A r \in Runners : Covers(r, run[r], poll[r])

\* A customer who is tried goes from those before the run to those with a result.
LEMMA TriedCovers ==
    ASSUME NEW r \in Runners, NEW k \in Run, NEW p, NEW q, NEW c \in k.todo,
           NEW status \in {"sent", "failed"}, TodoOwes(k), Covers(r, k, p),
           k.step \in {"loop", "poll"}
    PROVE  Covers(r, Tried(k, c, status), q)
<1> DEFINE t == Tried(k, c, status)
<1>1. c \in Customers /\ k.todo \subseteq Customers
  BY DEF Run
<1>2. /\ t.step = "loop" /\ t.todo = k.todo \ {c} /\ t.owed = k.owed
      /\ \A d \in Customers : t.result[d] = IF d = c THEN status ELSE k.result[d]
  <2>1. t.step = "loop" /\ t.todo = k.todo \ {c} /\ t.owed = k.owed
    BY DEF Tried
  <2> HIDE DEF t
  <2>2. \A d \in Customers : t.result[d] = IF d = c THEN status ELSE k.result[d]
    BY <1>1, TriedResults DEF t
  <2> QED BY <2>1, <2>2
<1> HIDE DEF t
<1>3. OwingIn(r, t) = OwingIn(r, k)
  BY <1>2 DEF OwingIn
<1>4. HasResult(t) = HasResult(k) \cup {c}
  BY <1>1, <1>2 DEF HasResult
<1>5. /\ k.todo \subseteq OwingIn(r, k)
      /\ HasResult(k) = OwingIn(r, k) \ k.todo
  BY DEF Covers
<1>6. Covers(r, t, q)
  BY <1>2, <1>3, <1>4, <1>5 DEF Covers
<1> QED BY <1>6 DEF t

\* A step of a run keeps what its results cover.
LEMMA GoesCovers ==
    ASSUME TypeOK, NEW r \in Runners, Goes(r), Covers(r, run[r], poll[r])
    PROVE  Covers(r, run'[r], poll'[r])
<1>k. /\ run[r] \in Run /\ poll[r] \in Poll
      /\ Polls(run[r], poll[r]) /\ TodoOwes(run[r])
      /\ run[r].todo \subseteq Customers
      /\ run \in [Runners -> Run] /\ poll \in [Runners -> Poll]
  BY DEF TypeOK, Polls, TodoOwes, Run
<1>t. ASSUME NEW step \in StepNames, NEW q,
             run[r].step = "loop",
             step = "returned" => run[r].todo = {},
             step = "poll" => q.to \in run[r].todo
      PROVE  Covers(r, To(run[r], step), q)
  <2> DEFINE k == To(run[r], step)
  <2>1. /\ k.step = step /\ k.todo = run[r].todo
        /\ k.owed = run[r].owed /\ k.result = run[r].result
    BY <1>k, ToType, ToKeeps
  <2> HIDE DEF k
  <2>2. OwingIn(r, k) = OwingIn(r, run[r]) /\ HasResult(k) = HasResult(run[r])
    BY <2>1 DEF OwingIn, HasResult
  <2>3. Covers(r, k, q)
    BY <1>t, <2>1, <2>2 DEF Covers
  <2> QED BY <2>3 DEF k
<1>1. CASE Find(r)
  <2>1. /\ run'[r].step = "loop" /\ run'[r].todo = Owing(r)
        /\ run'[r].owed = balance /\ run'[r].result = NoRun.result
    BY <1>1, <1>k DEF Find
  <2>2. OwingIn(r, run'[r]) = Owing(r)
    BY <2>1 DEF OwingIn, Owing
  <2>3. HasResult(run'[r]) = {}
    BY <2>1 DEF HasResult, NoRun
  <2> QED BY <2>1, <2>2, <2>3 DEF Covers
<1>2. CASE Post(r)
  <2>1. PICK c \in run[r].todo : PostNoAnswer(r, c) \/ PostAnswered(r, c)
    BY <1>2 DEF Post
  <2>2. run[r].step = "loop"
    BY <1>2 DEF Post
  <2>3. CASE PostNoAnswer(r, c)
    <3>1. run'[r] = Tried(run[r], c, "failed")
      BY <1>k, <2>3 DEF PostNoAnswer
    <3> QED BY <1>k, <2>2, <3>1, TriedCovers
  <2>4. CASE PostAnswered(r, c)
    <3>1. run'[r] = To(run[r], "poll") /\ poll'[r].to = c
      BY <1>k, <2>4 DEF PostAnswered
    <3>2. "poll" \in StepNames
      BY DEF StepNames
    <3> QED BY <1>t, <2>2, <3>1, <3>2
  <2> QED BY <2>1, <2>3, <2>4
<1>3. CASE PollTurn(r)
  <2>1. run[r].step = "poll" /\ poll[r].to \in run[r].todo
    BY <1>3 DEF PollTurn, Covers
  <2>2. ASSUME NEW status \in {"sent", "failed"}, Settles(r, status)
        PROVE  Covers(r, run'[r], poll'[r])
    <3>1. run'[r] = Tried(run[r], poll[r].to, status)
      BY <1>k, <2>2 DEF Settles
    <3> QED BY <1>k, <2>1, <3>1, TriedCovers
  <2>3. CASE AsksAgain(r)
    <3>1. poll[r] # NoPoll
      BY <1>k, <2>1 DEF Polls
    <3>2. run'[r] = run[r] /\ poll'[r].to = poll[r].to
      BY <1>k, <2>3, <3>1 DEF AsksAgain, Poll
    <3> QED BY <3>2 DEF Covers
  <2> QED BY <1>3, <2>2, <2>3 DEF PollTurn, PollStatus
<1>4. CASE Return(r)
  <2>1. PICK step \in {"raised", "returned"} : run' = [run EXCEPT ![r] = To(run[r], step)]
    BY <1>4 DEF Return
  <2>2. run'[r] = To(run[r], step) /\ step \in StepNames
    BY <1>k, <2>1 DEF StepNames
  <2> QED BY <1>4, <1>t, <2>2 DEF Return
<1>5. CASE Raise(r)
  <2>1. run'[r] = To(run[r], "raised") /\ "raised" \in StepNames
    BY <1>5, <1>k DEF Raise, StepNames
  <2>2. run'[r].step = "raised"
    BY <1>k, <2>1, ToType
  <2> QED BY <2>2 DEF Covers
<1> QED BY <1>1, <1>2, <1>3, <1>4, <1>5 DEF Goes

\* Everybody who owed something when the run read the balances has a result or is
\* still before it.
LEMMA CoverInvariant == Spec => [](TypeOK /\ CoverInv)
<1>1. Init => CoverInv
  BY DEF Init, CoverInv, Covers, NoRun
<1>2. ASSUME TypeOK, CoverInv, [Next]_vars
      PROVE  CoverInv'
  <2>1. ASSUME NEW r \in Runners, Goes(r)
        PROVE  CoverInv'
    BY <1>2, <2>1, GoesEffect, GoesCovers DEF CoverInv
  <2>2. CASE ~\E r \in Runners : Goes(r)
    BY <1>2, <2>2, OthersEffect DEF CoverInv, Covers
  <2> QED BY <2>1, <2>2
<1> QED BY <1>1, <1>2, RemindersTypeOK, PTL DEF Spec

\* A run that returned has tried everybody it should have, whatever failed on the way.
THEOREM ReturnedRunsCoverAll == Spec => []ReturnedRunCoversAll
<1>1. CoverInv => ReturnedRunCoversAll
  BY DEF CoverInv, Covers, ReturnedRunCoversAll, OwingIn, HasResult
<1> QED BY <1>1, CoverInvariant, PTL

-----------------------------------------------------------------------------
(* Every run comes to an end *)

\* How many steps run k, polling as p says, may still take
TurnsLeft(k, p) ==
    CASE k.step = "find" -> 4 * Cardinality(Customers) + 2
      [] k.step = "loop" -> 4 * Cardinality(k.todo) + 1
      [] k.step = "poll" -> 4 * Cardinality(k.todo) - p.answers
      [] k.step \in {"none", "returned", "raised", "cut"} -> 0

\* A run in progress only ever gets nearer to its end.
RunsNear ==
    \A r \in Runners : Busy(r) =>
        \/ run'[r] = run[r] /\ poll'[r] = poll[r]
        \/ TurnsLeft(run'[r], poll'[r]) < TurnsLeft(run[r], poll[r])

\* What the number of turns is at each step
LEMMA TurnsLeftIs ==
    ASSUME NEW k, NEW p
    PROVE  /\ k.step = "find" => TurnsLeft(k, p) = 4 * Cardinality(Customers) + 2
           /\ k.step = "loop" => TurnsLeft(k, p) = 4 * Cardinality(k.todo) + 1
           /\ k.step = "poll" => TurnsLeft(k, p) = 4 * Cardinality(k.todo) - p.answers
           /\ k.step \in {"none", "returned", "raised", "cut"} => TurnsLeft(k, p) = 0
BY DEF TurnsLeft

\* Those before a run are finitely many, and one less when one of them was tried.
LEMMA TodoCount ==
    ASSUME NEW k \in Run
    PROVE  /\ Cardinality(k.todo) \in Nat
           /\ Cardinality(k.todo) <= Cardinality(Customers)
           /\ Cardinality(Customers) \in Nat
           /\ \A c \in k.todo : /\ Cardinality(k.todo \ {c}) = Cardinality(k.todo) - 1
                                /\ Cardinality(k.todo \ {c}) \in Nat
<1>1. IsFiniteSet(Customers) /\ k.todo \subseteq Customers
  BY RemindersAssumption DEF Run
<1>2. /\ IsFiniteSet(k.todo) /\ Cardinality(k.todo) <= Cardinality(Customers)
  BY <1>1, FS_Subset
<1>3. Cardinality(k.todo) \in Nat /\ Cardinality(Customers) \in Nat
  BY <1>1, <1>2, FS_CardinalityType
<1>4. ASSUME NEW c \in k.todo
      PROVE  /\ Cardinality(k.todo \ {c}) = Cardinality(k.todo) - 1
             /\ Cardinality(k.todo \ {c}) \in Nat
  BY <1>2, FS_RemoveElement, FS_CardinalityType
<1> QED BY <1>2, <1>3, <1>4

\* Before its end a run has a turn left.
LEMMA BusyHasTurns ==
    ASSUME TypeOK, NEW r \in Runners, Busy(r), Covers(r, run[r], poll[r])
    PROVE  TurnsLeft(run[r], poll[r]) \in Nat \ {0}
<1>1. run[r] \in Run /\ poll[r] \in Poll /\ Polls(run[r], poll[r])
  BY DEF TypeOK, Polls
<1>2. /\ Cardinality(run[r].todo) \in Nat /\ Cardinality(Customers) \in Nat
  BY <1>1, TodoCount
<1>3. CASE run[r].step = "find" \/ run[r].step = "loop"
  BY <1>2, <1>3, TurnsLeftIs
<1>4. CASE run[r].step = "poll"
  <2>1. poll[r].answers \in 0..2
    BY <1>1, <1>4 DEF Polls, Poll
  <2>2. Cardinality(run[r].todo) >= 1
    <3>1. poll[r].to \in run[r].todo
      BY <1>4 DEF Covers
    <3>2. /\ Cardinality(run[r].todo \ {poll[r].to}) = Cardinality(run[r].todo) - 1
          /\ Cardinality(run[r].todo \ {poll[r].to}) \in Nat
      BY <1>1, <3>1, TodoCount
    <3> QED BY <1>2, <3>2
  <2>3. TurnsLeft(run[r], poll[r]) = 4 * Cardinality(run[r].todo) - poll[r].answers
    BY <1>4, TurnsLeftIs
  <2> QED BY <1>2, <2>1, <2>2, <2>3
<1> QED BY <1>3, <1>4 DEF Busy

\* A step of a run takes a turn.
LEMMA GoesTakesTurn ==
    ASSUME TypeOK, NEW r \in Runners, Goes(r), Covers(r, run[r], poll[r])
    PROVE  TurnsLeft(run'[r], poll'[r]) < TurnsLeft(run[r], poll[r])
<1>k. /\ run[r] \in Run /\ poll[r] \in Poll /\ Polls(run[r], poll[r])
      /\ run \in [Runners -> Run] /\ poll \in [Runners -> Poll]
  BY DEF TypeOK, Polls
<1>n. /\ Cardinality(run[r].todo) \in Nat /\ Cardinality(Customers) \in Nat
      /\ \A c \in run[r].todo :
            Cardinality(run[r].todo \ {c}) = Cardinality(run[r].todo) - 1
  BY <1>k, TodoCount
<1>b. Busy(r) /\ TurnsLeft(run[r], poll[r]) \in Nat \ {0}
  BY GoesEffect, BusyHasTurns
<1>t. ASSUME NEW c \in run[r].todo, NEW status
      PROVE  TurnsLeft(Tried(run[r], c, status), poll'[r])
               = 4 * Cardinality(run[r].todo) - 3
  <2>1. /\ Tried(run[r], c, status).step = "loop"
        /\ Tried(run[r], c, status).todo = run[r].todo \ {c}
    BY DEF Tried
  <2>2. TurnsLeft(Tried(run[r], c, status), poll'[r])
          = 4 * Cardinality(run[r].todo \ {c}) + 1
    BY <2>1, TurnsLeftIs
  <2>3. Cardinality(run[r].todo \ {c}) = Cardinality(run[r].todo) - 1
    BY <1>n, <1>t
  <2>4. PICK n \in Nat : n = Cardinality(run[r].todo)
    BY <1>n
  <2>5. Cardinality(run[r].todo \ {c}) = n - 1
    BY <2>3, <2>4
  <2> QED BY <2>2, <2>4, <2>5
<1>1. CASE Find(r)
  <2>1. run[r].step = "find" /\ run'[r].step = "loop" /\ run'[r].todo \subseteq Customers
    BY <1>1, <1>k DEF Find, Owing
  <2>2. /\ Cardinality(run'[r].todo) \in Nat
        /\ Cardinality(run'[r].todo) <= Cardinality(Customers)
    BY <2>1, FS_Subset, FS_CardinalityType, RemindersAssumption
  <2>3. /\ TurnsLeft(run[r], poll[r]) = 4 * Cardinality(Customers) + 2
        /\ TurnsLeft(run'[r], poll'[r]) = 4 * Cardinality(run'[r].todo) + 1
    BY <2>1, TurnsLeftIs
  <2> QED BY <1>n, <2>2, <2>3
<1>2. CASE Post(r)
  <2>1. PICK c \in run[r].todo : PostNoAnswer(r, c) \/ PostAnswered(r, c)
    BY <1>2 DEF Post
  <2>2. TurnsLeft(run[r], poll[r]) = 4 * Cardinality(run[r].todo) + 1
    BY <1>2, TurnsLeftIs DEF Post
  <2>3. CASE PostNoAnswer(r, c)
    <3>1. run'[r] = Tried(run[r], c, "failed")
      BY <1>k, <2>3 DEF PostNoAnswer
    <3>2. TurnsLeft(run'[r], poll'[r]) = 4 * Cardinality(run[r].todo) - 3
      BY <1>t, <3>1
    <3> QED BY <1>n, <2>2, <3>2
  <2>4. CASE PostAnswered(r, c)
    <3>1. run'[r] = To(run[r], "poll") /\ poll'[r].answers = 0
      BY <1>k, <2>4 DEF PostAnswered
    <3>2. run'[r].step = "poll" /\ run'[r].todo = run[r].todo
      BY <1>k, <3>1, ToType DEF StepNames
    <3>3. TurnsLeft(run'[r], poll'[r]) = 4 * Cardinality(run[r].todo) - poll'[r].answers
      BY <3>2, TurnsLeftIs
    <3> QED BY <1>n, <2>2, <3>1, <3>3
  <2> QED BY <2>1, <2>3, <2>4
<1>3. CASE PollTurn(r)
  <2>1. run[r].step = "poll" /\ poll[r].to \in run[r].todo /\ poll[r] # NoPoll
    BY <1>3, <1>k DEF PollTurn, Covers, Polls
  <2>2. poll[r].answers \in 0..2
    BY <1>k, <2>1 DEF Poll
  <2>3. TurnsLeft(run[r], poll[r]) = 4 * Cardinality(run[r].todo) - poll[r].answers
    BY <2>1, TurnsLeftIs
  <2>4. ASSUME NEW status, Settles(r, status)
        PROVE  TurnsLeft(run'[r], poll'[r]) < TurnsLeft(run[r], poll[r])
    <3>1. run'[r] = Tried(run[r], poll[r].to, status)
      BY <1>k, <2>4 DEF Settles
    <3>2. TurnsLeft(run'[r], poll'[r]) = 4 * Cardinality(run[r].todo) - 3
      BY <1>t, <2>1, <3>1
    <3> QED BY <1>n, <2>2, <2>3, <3>2
  <2>5. CASE AsksAgain(r)
    <3>1. run'[r] = run[r] /\ poll'[r].answers = poll[r].answers + 1
      BY <1>k, <2>1, <2>5 DEF AsksAgain, Poll
    <3>2. TurnsLeft(run'[r], poll'[r]) = 4 * Cardinality(run[r].todo) - poll'[r].answers
      BY <2>1, <3>1, TurnsLeftIs
    <3> QED BY <1>n, <2>2, <2>3, <3>1, <3>2
  <2> QED BY <1>3, <2>4, <2>5 DEF PollTurn, PollStatus
<1>4. CASE Return(r) \/ Raise(r)
  <2>1. PICK step \in {"raised", "returned"} : run' = [run EXCEPT ![r] = To(run[r], step)]
    BY <1>4 DEF Return, Raise
  <2>2. run'[r].step = step
    BY <1>k, <2>1, ToType DEF StepNames
  <2>3. TurnsLeft(run'[r], poll'[r]) = 0
    BY <2>2, TurnsLeftIs
  <2> QED BY <1>b, <2>3
<1> QED BY <1>1, <1>2, <1>3, <1>4 DEF Goes

\* No run goes round in circles, whatever Twilio answers or keeps to itself: each step
\* takes one of finitely many turns, so a thread that goes on comes to the end of its
\* run. What else happens leaves a run as it is, or ends it.
THEOREM RunsNearTheirEnd == Spec => [][RunsNear]_vars
<1>1. ASSUME TypeOK, CoverInv, [Next]_vars, NEW r \in Runners, Busy(r)
      PROVE  \/ run'[r] = run[r] /\ poll'[r] = poll[r]
             \/ TurnsLeft(run'[r], poll'[r]) < TurnsLeft(run[r], poll[r])
  <2>1. Covers(r, run[r], poll[r])
    BY <1>1 DEF CoverInv
  <2>2. CASE Goes(r)
    BY <1>1, <2>1, <2>2, GoesTakesTurn
  <2>3. ASSUME NEW q \in Runners, Goes(q), q # r
        PROVE  run'[r] = run[r] /\ poll'[r] = poll[r]
    BY <1>1, <2>3, GoesEffect
  <2>4. CASE ~\E q \in Runners : Goes(q)
    <3>1. \/ run'[r] = run[r] /\ poll'[r] = poll[r]
          \/ run'[r].step = "cut"
      BY <1>1, <2>4, OthersEffect
    <3>2. TurnsLeft(run[r], poll[r]) > 0
      BY <1>1, <2>1, BusyHasTurns
    <3>3. run'[r].step = "cut" => TurnsLeft(run'[r], poll'[r]) = 0
      BY TurnsLeftIs
    <3> QED BY <3>1, <3>2, <3>3
  <2> QED BY <2>2, <2>3, <2>4
<1>2. TypeOK /\ CoverInv /\ [Next]_vars => [RunsNear]_vars
  BY <1>1 DEF RunsNear
<1> QED BY <1>2, CoverInvariant, PTL DEF Spec

-----------------------------------------------------------------------------
(* The scheduler, once a month *)

ByScheduler(i) == messages[i].by \in Schedulers

\* There is one scheduler at most; its runs are the only ones a scheduler has in
\* progress; and of one month there are only the messages of one of its runs, the
\* one in progress if there is one.
MonthInv ==
    /\ \A i, j \in schedulers : i = j
    /\ \A j \in Schedulers : Busy(j) => j \in schedulers
    /\ \A i \in DOMAIN messages : messages[i].month <= month
    /\ \A i, j \in DOMAIN messages :
          ByScheduler(i) /\ ByScheduler(j) /\ messages[i].month = messages[j].month
             => messages[i].run = messages[j].run
    /\ \A i \in DOMAIN messages : \A j \in Schedulers :
          ByScheduler(i) /\ messages[i].month = month /\ Busy(j)
             => messages[i].run = run[j].id

\* A step of a run keeps the invariant about months.
LEMMA GoesMonth ==
    ASSUME TypeOK, MonthInv, NEW r \in Runners, Goes(r)
    PROVE  MonthInv'
<1>0. /\ Busy(r) /\ UNCHANGED <<schedulers, month>>
      /\ \A q \in Runners : q # r => run'[q] = run[q]
      /\ InProgress(run'[r]) => run'[r].id = run[r].id
      /\ messages' = messages \/ \E c \in run[r].todo : Takes(r, c)
  BY GoesEffect
<1>1. \A j \in Schedulers : /\ Busy(j)' => Busy(j) /\ j \in schedulers /\ run'[j].id = run[j].id
                            /\ Busy(j) /\ r \in Schedulers => j = r
  BY <1>0 DEF MonthInv, Busy, InProgress, Runners
<1>2. CASE messages' = messages
  BY <1>0, <1>1, <1>2 DEF MonthInv, ByScheduler
<1>3. ASSUME NEW c \in run[r].todo, Takes(r, c)
      PROVE  MonthInv'
  <2> DEFINE n == Len(messages')
  <2>1. c \in Customers
    BY DEF TypeOK, Run
  <2>2. /\ DOMAIN messages' = DOMAIN messages \cup {n}
        /\ \A i \in DOMAIN messages : messages'[i] = messages[i]
        /\ messages'[n].run = run[r].id /\ messages'[n].by = r
        /\ messages'[n].month = month
    BY <1>3, <2>1, TakesType
  <2> HIDE DEF n
  <2>m. month \in Int
    BY DEF TypeOK
  <2>3. \A i \in DOMAIN messages' : messages'[i].month <= month'
    BY <1>0, <2>2, <2>m DEF MonthInv
  <2>4. r \in Schedulers => \A i \in DOMAIN messages' :
           ByScheduler(i)' /\ messages'[i].month = month => messages'[i].run = run[r].id
    BY <1>0, <2>2 DEF MonthInv, ByScheduler
  <2>5. \A i \in DOMAIN messages' : ByScheduler(i)' =>
           (i \in DOMAIN messages /\ ByScheduler(i) /\ messages'[i] = messages[i])
              \/ (i = n /\ r \in Schedulers)
    BY <2>2 DEF ByScheduler
  <2>6. \A i, j \in DOMAIN messages' :
           ByScheduler(i)' /\ ByScheduler(j)' /\ messages'[i].month = messages'[j].month
              => messages'[i].run = messages'[j].run
    BY <2>2, <2>4, <2>5 DEF MonthInv
  <2>7. \A i \in DOMAIN messages' : \A j \in Schedulers :
           ByScheduler(i)' /\ messages'[i].month = month' /\ Busy(j)'
              => messages'[i].run = run'[j].id
    BY <1>0, <1>1, <2>2, <2>4, <2>5 DEF MonthInv
  <2> QED BY <1>0, <1>1, <2>3, <2>6, <2>7 DEF MonthInv
<1> QED BY <1>0, <1>2, <1>3

\* Any other step keeps it as well: a scheduler starts runs only when a month begins.
LEMMA OthersMonth ==
    ASSUME TypeOK, MonthInv, [Next]_vars, ~\E r \in Runners : Goes(r)
    PROVE  MonthInv'
<1>0. /\ DOMAIN messages' = DOMAIN messages
      /\ \A i \in DOMAIN messages : /\ messages'[i].run = messages[i].run
                                    /\ messages'[i].by = messages[i].by
                                    /\ messages'[i].month = messages[i].month
  BY OthersEffect
<1>1. CASE Visit \/ BalanceChanges \/ UNCHANGED vars
  <2>1. /\ UNCHANGED <<month, run, messages>>
        /\ schedulers' = schedulers \/ (schedulers = {} /\ \E j : schedulers' = {j})
    BY <1>1 DEF Visit, BalanceChanges, vars
  <2> QED BY <2>1 DEF MonthInv, ByScheduler, Busy
<1>2. CASE FirstOfMonth
  <2>1. month' = month + 1 /\ UNCHANGED schedulers
    BY <1>2 DEF FirstOfMonth
  <2>2. \A i \in DOMAIN messages' : messages'[i].month <= month' /\ messages'[i].month # month'
    <3>1. month \in Int
      BY DEF TypeOK
    <3>2. \A i \in DOMAIN messages : messages[i].month \in Int
      <4>1. \A i \in DOMAIN messages : messages[i] \in Message
        BY DEF TypeOK
      <4> QED BY <4>1 DEF Message
    <3> QED BY <1>0, <2>1, <3>1, <3>2 DEF MonthInv
  <2>3. \A j \in Schedulers : Busy(j)' => j \in schedulers
    <3> DEFINE due == {j \in schedulers : ~Busy(j)}
    <3>1. PICK id \in [due -> (runs + 1)..runs'] :
             run' = [r \in Runners |-> IF r \in due THEN Started(id[r]) ELSE run[r]]
      BY <1>2 DEF FirstOfMonth
    <3>2. \A j \in Schedulers : j \notin schedulers => run'[j] = run[j]
      BY <3>1 DEF Runners
    <3>3. \A j \in Schedulers : Busy(j) => j \in schedulers
      BY DEF MonthInv
    <3> HIDE DEF due
    <3> QED BY <3>2, <3>3 DEF Busy
  <2>4. \A i, j \in DOMAIN messages' :
           ByScheduler(i)' /\ ByScheduler(j)' /\ messages'[i].month = messages'[j].month
              => messages'[i].run = messages'[j].run
    BY <1>0 DEF MonthInv, ByScheduler
  <2>5. \A i, j \in schedulers' : i = j
    BY <2>1 DEF MonthInv
  <2> QED BY <2>2, <2>3, <2>1, <2>4, <2>5 DEF MonthInv
<1>3. ASSUME NEW s \in Sessions, PressSend(s)
      PROVE  MonthInv'
  <2>1. UNCHANGED <<schedulers, month, messages>>
    BY <1>3 DEF PressSend
  <2>2. \A j \in Schedulers : run'[j] = run[j]
    BY <1>3, RemindersAssumption DEF PressSend, TypeOK, Runners
  <2> QED BY <2>1, <2>2 DEF MonthInv, ByScheduler, Busy
<1>4. CASE Restart
  <2>1. \A j \in Schedulers : ~Busy(j)'
    <3>1. To(NoRun, "cut").step = "cut"
      BY NoRunType DEF StepNames
    <3> QED BY <1>4, <3>1 DEF Restart, Busy, Runners
  <2>2. schedulers' = {} /\ UNCHANGED <<month, messages>>
    BY <1>4 DEF Restart
  <2> QED BY <2>1, <2>2 DEF MonthInv, ByScheduler
<1>5. CASE Deliver
  <2>1. UNCHANGED <<schedulers, month, run>>
    BY <1>5 DEF Deliver
  <2> QED BY <1>0, <2>1 DEF MonthInv, ByScheduler, Busy
<1> QED BY <1>1, <1>2, <1>3, <1>4, <1>5 DEF Next

\* The schedulers send a customer no more than one message a month, whatever
\* restarts and visits there have been.
THEOREM ScheduledOnceAMonth == Spec => []OneScheduledMessageAMonth
<1>1. Init => MonthInv
  <2>1. \A r \in Runners : Init => ~Busy(r)
    BY DEF Init, NoRun, Busy
  <2> QED BY <2>1 DEF Init, MonthInv, Runners
<1>2. TypeOK /\ MonthInv /\ [Next]_vars => MonthInv'
  BY GoesMonth, OthersMonth
<1>3. MonthInv /\ OneMessagePerRun => OneScheduledMessageAMonth
  BY DEF MonthInv, OneMessagePerRun, OneScheduledMessageAMonth, ByScheduler
<1> QED BY <1>1, <1>2, <1>3, RemindersTypeOK, RunSendsOnce, PTL DEF Spec

-----------------------------------------------------------------------------
(* The activity log *)

\* Those to whom messages m hold one of the run id
SentTo(m, id) == {m[i].to : i \in {j \in DOMAIN m : m[j].run = id}}

\* While run k has something to do, who counts as sent has a message, and who has a
\* message has a result or is asked about.
Tallies(k, p, m) ==
    k.step \in {"loop", "poll"} =>
        /\ Results(k, "sent") \subseteq SentTo(m, k.id)
        /\ \A c \in SentTo(m, k.id) : c \in HasResult(k) \/ (k.step = "poll" /\ c = p.to)
        /\ k.step = "poll" => p.to \in SentTo(m, k.id)

\* Entry e of the log is of a run that is over, and bounds its messages.
Closed(e) ==
    /\ e.run \in 1..runs
    /\ \A r \in Runners : Busy(r) => run[r].id # e.run
    /\ e.sent <= Cardinality(SentTo(messages, e.run))
    /\ Cardinality(SentTo(messages, e.run)) <= e.of

TallyInv ==
    /\ \A r \in Runners : Tallies(run[r], poll[r], messages)
    /\ \A e \in log : Closed(e)

\* A run has as many messages as customers it has sent one to.
LEMMA MessagesCountCustomers ==
    ASSUME TypeOK, OneMessagePerRun, NEW id
    PROVE  Cardinality(MessagesOf(id)) = Cardinality(SentTo(messages, id))
<1> DEFINE M == MessagesOf(id)
           S == SentTo(messages, id)
           f == [i \in M |-> messages[i].to]
<1>1. IsFiniteSet(M)
  <2>1. DOMAIN messages = 1..Len(messages) /\ Len(messages) \in Nat
    BY DEF TypeOK
  <2>2. IsFiniteSet(1..Len(messages))
    BY <2>1, FS_Interval
  <2> QED BY <2>1, <2>2, FS_Subset DEF MessagesOf
<1>2. f \in Surjection(M, S)
  BY DEF MessagesOf, SentTo, Surjection
<1>3. f \in Injection(M, S)
  <2>1. \A i, j \in M : messages[i].to = messages[j].to => i = j
    BY DEF MessagesOf, OneMessagePerRun
  <2>2. \A i, j \in M : f[i] = f[j] => i = j
    BY <2>1
  <2>3. f \in [M -> S]
    BY <1>2 DEF Surjection
  <2> HIDE DEF f, M, S
  <2>4. DOMAIN f = M
    BY <2>3
  <2> QED BY <2>2, <2>3, <2>4 DEF Injection, IsInjective
<1> QED BY <1>1, <1>2, <1>3, FS_Surjection

\* The message that is taken is sent to its customer, and of its run.
LEMMA TakesSentTo ==
    ASSUME TypeOK, NEW r \in Runners, NEW c \in run[r].todo, Takes(r, c)
    PROVE  /\ SentTo(messages', run[r].id) = SentTo(messages, run[r].id) \cup {c}
           /\ \A id : id # run[r].id => SentTo(messages', id) = SentTo(messages, id)
<1> DEFINE n == Len(messages')
<1>1. c \in Customers
  BY DEF TypeOK, Run
<1>2. /\ DOMAIN messages' = DOMAIN messages \cup {n}
      /\ \A i \in DOMAIN messages : messages'[i] = messages[i]
      /\ messages'[n].run = run[r].id /\ messages'[n].to = c
  BY <1>1, TakesType
<1> HIDE DEF n
<1>3. \A id : {i \in DOMAIN messages' : messages'[i].run = id} =
              {i \in DOMAIN messages : messages[i].run = id}
                 \cup {i \in {n} : id = run[r].id}
  BY <1>2
<1> QED BY <1>2, <1>3 DEF SentTo

\* When only deliveries change the messages, nobody else is sent one.
LEMMA SameSentTo ==
    ASSUME NEW m, NEW n, DOMAIN m = DOMAIN n,
           \A i \in DOMAIN n : m[i].run = n[i].run /\ m[i].to = n[i].to
    PROVE  \A id : SentTo(m, id) = SentTo(n, id)
BY DEF SentTo

\* The messages of another run than the one that goes on stay the same.
LEMMA GoesSentTo ==
    ASSUME TypeOK, NEW r \in Runners, Goes(r), NEW id, id # run[r].id
    PROVE  SentTo(messages', id) = SentTo(messages, id)
BY GoesEffect, TakesSentTo

\* A customer who is tried gets a result, and the tally of the others stays.
LEMMA TriedTallies ==
    ASSUME NEW k \in Run, NEW p, NEW q, NEW m, NEW n, NEW c \in Customers,
           NEW status \in {"sent", "failed"}, Tallies(k, p, m),
           k.step \in {"loop", "poll"},
           k.step = "poll" => c = p.to,
           SentTo(n, k.id) \subseteq SentTo(m, k.id) \cup {c},
           SentTo(m, k.id) \subseteq SentTo(n, k.id),
           status = "sent" => c \in SentTo(m, k.id)
    PROVE  Tallies(Tried(k, c, status), q, n)
<1> DEFINE t == Tried(k, c, status)
<1>1. t.step = "loop" /\ t.id = k.id
  BY DEF Tried
<1>2. \A d \in Customers : t.result[d] = IF d = c THEN status ELSE k.result[d]
  BY TriedResults
<1> HIDE DEF t
<1>3. Results(t, "sent") \subseteq Results(k, "sent") \cup {d \in {c} : status = "sent"}
  BY <1>2 DEF Results
<1>4. HasResult(t) = HasResult(k) \cup {c}
  BY <1>2 DEF HasResult
<1>5. Tallies(t, q, n)
  BY <1>1, <1>3, <1>4 DEF Tallies
<1> QED BY <1>5 DEF t

\* A step of a run keeps its tally.
LEMMA GoesTallies ==
    ASSUME TypeOK, OnceInv, CoverInv, NEW r \in Runners, Goes(r),
           Tallies(run[r], poll[r], messages)
    PROVE  Tallies(run'[r], poll'[r], messages')
<1>k. /\ run[r] \in Run /\ poll[r] \in Poll
      /\ Polls(run[r], poll[r])
      /\ run[r].todo \subseteq Customers
      /\ run \in [Runners -> Run] /\ poll \in [Runners -> Poll]
  BY DEF TypeOK, Polls, Run
<1>c. Covers(r, run[r], poll[r])
  BY DEF CoverInv
<1>1. CASE Find(r)
  <2>1. /\ run'[r].id = run[r].id /\ run'[r].step = "loop"
        /\ run'[r].result = NoRun.result /\ messages' = messages
    BY <1>1, <1>k DEF Find
  <2>2. SentTo(messages, run[r].id) = {}
    BY <1>1 DEF Find, OnceInv, RestInv, Busy, SentTo
  <2>3. Results(run'[r], "sent") = {}
    BY <2>1 DEF Results, NoRun
  <2> QED BY <2>1, <2>2, <2>3 DEF Tallies
<1>2. CASE Post(r)
  <2>1. PICK c \in run[r].todo : PostNoAnswer(r, c) \/ PostAnswered(r, c)
    BY <1>2 DEF Post
  <2>2. run[r].step = "loop" /\ c \in Customers
    BY <1>2, <1>k DEF Post
  <2>3. CASE PostNoAnswer(r, c)
    <3>1. run'[r] = Tried(run[r], c, "failed")
      BY <1>k, <2>3 DEF PostNoAnswer
    <3>2. SentTo(messages', run[r].id) \in
             {SentTo(messages, run[r].id), SentTo(messages, run[r].id) \cup {c}}
      BY <2>3, TakesSentTo DEF PostNoAnswer
    <3> QED BY <1>k, <2>2, <3>1, <3>2, TriedTallies
  <2>4. CASE PostAnswered(r, c)
    <3>1. run'[r] = To(run[r], "poll") /\ poll'[r].to = c
      BY <1>k, <2>4 DEF PostAnswered
    <3>2. SentTo(messages', run[r].id) = SentTo(messages, run[r].id) \cup {c}
      BY <2>4, TakesSentTo DEF PostAnswered
    <3>3. /\ run'[r].step = "poll" /\ run'[r].id = run[r].id
          /\ run'[r].result = run[r].result
      BY <1>k, <3>1, ToType, ToKeeps DEF StepNames
    <3>4. /\ Results(run'[r], "sent") = Results(run[r], "sent")
          /\ HasResult(run'[r]) = HasResult(run[r])
      BY <3>3 DEF Results, HasResult
    <3> QED BY <2>2, <3>1, <3>2, <3>3, <3>4 DEF Tallies
  <2> QED BY <2>1, <2>3, <2>4
<1>3. CASE PollTurn(r)
  <2>1. /\ run[r].step = "poll" /\ poll[r].to \in run[r].todo
        /\ messages' = messages /\ poll[r].to \in SentTo(messages, run[r].id)
    BY <1>3, <1>c DEF PollTurn, Covers, Tallies
  <2>2. ASSUME NEW status \in {"sent", "failed"}, Settles(r, status)
        PROVE  Tallies(run'[r], poll'[r], messages')
    <3>1. run'[r] = Tried(run[r], poll[r].to, status)
      BY <1>k, <2>2 DEF Settles
    <3>2. poll[r].to \in Customers
      BY <1>k, <2>1
    <3> DEFINE c == poll[r].to
               S == SentTo(messages, run[r].id)
    <3>3. S \subseteq S \cup {c} /\ c \in S
      BY <2>1
    <3>4. Tallies(Tried(run[r], c, status), poll'[r], messages)
      BY <1>k, <2>1, <3>2, <3>3, TriedTallies
    <3> QED BY <2>1, <3>1, <3>4
  <2>3. CASE AsksAgain(r)
    <3>1. poll[r] # NoPoll
      BY <1>k, <2>1 DEF Polls
    <3>2. run'[r] = run[r] /\ poll'[r].to = poll[r].to
      BY <1>k, <2>3, <3>1 DEF AsksAgain, Poll
    <3> QED BY <2>1, <3>2 DEF Tallies
  <2> QED BY <1>3, <2>2, <2>3 DEF PollTurn, PollStatus
<1>4. CASE Return(r)
  <2>1. PICK step \in {"raised", "returned"} : run' = [run EXCEPT ![r] = To(run[r], step)]
    BY <1>4 DEF Return
  <2>2. run'[r].step = step
    BY <1>k, <2>1, ToType DEF StepNames
  <2> QED BY <2>1, <2>2 DEF Tallies
<1>5. CASE Raise(r)
  <2>1. run'[r].step = "raised"
    BY <1>5, <1>k, ToType DEF Raise, StepNames
  <2> QED BY <2>1 DEF Tallies
<1> QED BY <1>1, <1>2, <1>3, <1>4, <1>5 DEF Goes

\* The entry of a run that returns bounds the messages of the run.
LEMMA ReturnCloses ==
    ASSUME TypeOK, CoverInv, NEW r \in Runners, Return(r),
           Tallies(run[r], poll[r], messages),
           NEW e \in log', e \notin log
    PROVE  /\ e.run = run[r].id
           /\ e.sent <= Cardinality(SentTo(messages, e.run))
           /\ Cardinality(SentTo(messages, e.run)) <= e.of
<1> DEFINE k == run[r]
           sent == Results(k, "sent")
           all == sent \cup Results(k, "failed")
           S == SentTo(messages, k.id)
<1>1. k \in Run /\ k.step = "loop"
  BY DEF TypeOK, Return
<1>2. e = [run |-> k.id, sent |-> Cardinality(sent), of |-> Cardinality(all)]
  BY DEF Return
<1>3. all = HasResult(k)
  BY <1>1 DEF Results, HasResult, Run
<1>4. sent \subseteq S /\ S \subseteq all
  BY <1>1, <1>3 DEF Tallies
<1>5. IsFiniteSet(all)
  BY RemindersAssumption, FS_Subset DEF Results
<1>6. IsFiniteSet(S)
  BY <1>4, <1>5, FS_Subset
<1>7. Cardinality(sent) <= Cardinality(S) /\ Cardinality(S) <= Cardinality(all)
  BY <1>4, <1>5, <1>6, FS_Subset
<1> QED BY <1>2, <1>7

\* A step of a run keeps the invariant about the log.
LEMMA GoesTally ==
    ASSUME TypeOK, OnceInv, CoverInv, TallyInv, NEW r \in Runners, Goes(r)
    PROVE  TallyInv'
<1>0. /\ Busy(r) /\ UNCHANGED runs
      /\ \A q \in Runners : q # r => run'[q] = run[q] /\ poll'[q] = poll[q]
      /\ InProgress(run'[r]) => run'[r].id = run[r].id
      /\ log' = log \/ Return(r)
  BY GoesEffect
<1>1. \A q \in Runners : Busy(q) /\ q # r => run[q].id # run[r].id
  BY <1>0 DEF OnceInv, IdsInv
<1>2. \A q \in Runners : Tallies(run'[q], poll'[q], messages')
  <2>1. Tallies(run'[r], poll'[r], messages')
    BY GoesTallies DEF TallyInv
  <2>2. ASSUME NEW q \in Runners, q # r
        PROVE  Tallies(run[q], poll[q], messages')
    <3>1. CASE Busy(q)
      BY <1>1, <2>2, <3>1, GoesSentTo DEF TallyInv, Tallies
    <3>2. CASE ~Busy(q)
      BY <3>2 DEF Tallies, Busy
    <3> QED BY <3>1, <3>2
  <2> QED BY <1>0, <2>1, <2>2
<1>3. ASSUME NEW e \in log
      PROVE  Closed(e)'
  <2>1. Closed(e) /\ e.run # run[r].id
    BY <1>0 DEF TallyInv, Closed
  <2>2. SentTo(messages', e.run) = SentTo(messages, e.run)
    BY <2>1, GoesSentTo
  <2>3. \A q \in Runners : Busy(q)' => run'[q].id # e.run
    BY <1>0, <2>1 DEF Closed, Busy, InProgress
  <2> QED BY <1>0, <2>1, <2>2, <2>3 DEF Closed
<1>4. ASSUME NEW e \in log', e \notin log
      PROVE  Closed(e)'
  <2>1. Return(r)
    BY <1>0, <1>4
  <2>2. /\ e.run = run[r].id
        /\ e.sent <= Cardinality(SentTo(messages, e.run))
        /\ Cardinality(SentTo(messages, e.run)) <= e.of
    BY <1>4, <2>1, ReturnCloses DEF TallyInv
  <2>3. messages' = messages /\ run[r].id \in 1..runs
    BY <1>0, <2>1 DEF Return, OnceInv, IdsInv
  <2>4. ~Busy(r)'
    <3>1. PICK step \in {"raised", "returned"} : run' = [run EXCEPT ![r] = To(run[r], step)]
      BY <2>1 DEF Return
    <3>2. run'[r].step = step
      BY <3>1, ToType DEF StepNames, TypeOK
    <3> QED BY <3>1, <3>2 DEF Busy
  <2>5. \A q \in Runners : Busy(q)' => run'[q].id # e.run
    BY <1>0, <1>1, <2>2, <2>4 DEF Busy
  <2> QED BY <1>0, <2>2, <2>3, <2>5 DEF Closed
<1> QED BY <1>2, <1>3, <1>4 DEF TallyInv

\* Any other step keeps it as well: the log stays, and no run takes an old id.
LEMMA OthersTally ==
    ASSUME TypeOK, TallyInv, [Next]_vars, ~\E r \in Runners : Goes(r)
    PROVE  TallyInv'
<1>0. /\ runs \in Nat /\ runs' \in Nat /\ runs' >= runs /\ log' = log
      /\ \A r \in Runners :
            \/ run'[r] = run[r] /\ poll'[r] = poll[r]
            \/ run'[r].step = "find" /\ run'[r].id \in (runs + 1)..runs'
            \/ run'[r].step = "cut"
      /\ \A id : SentTo(messages', id) = SentTo(messages, id)
  BY OthersEffect, SameSentTo
<1>1. \A r \in Runners : Tallies(run'[r], poll'[r], messages')
  BY <1>0 DEF TallyInv, Tallies
<1>2. ASSUME NEW e \in log
      PROVE  Closed(e)'
  <2>1. Closed(e) /\ e.run \in 1..runs
    BY DEF TallyInv, Closed
  <2>2. \A q \in Runners : Busy(q)' => run'[q].id # e.run
    <3> TAKE q \in Runners
    <3>1. CASE run'[q] = run[q]
      BY <2>1, <3>1 DEF Closed, Busy
    <3>2. CASE run'[q].step = "find" /\ run'[q].id \in (runs + 1)..runs'
      BY <1>0, <2>1, <3>2
    <3> QED BY <1>0, <3>1, <3>2 DEF Busy
  <2>3. e.run \in 1..runs'
    BY <1>0, <2>1
  <2> QED BY <1>0, <2>1, <2>2, <2>3 DEF Closed
<1> QED BY <1>0, <1>1, <1>2 DEF TallyInv

\* What the log says of a run, Twilio's messages bear out, whatever answers were
\* lost.
THEOREM LogIsBorneOut == Spec => []LogBoundsMessages
<1>1. Init => TallyInv
  <2>1. Init => \A r \in Runners : run[r].step = "none"
    BY DEF Init, NoRun
  <2> QED BY <2>1 DEF Init, TallyInv, Tallies
<1>2. TypeOK /\ OnceInv /\ CoverInv /\ TallyInv /\ [Next]_vars => TallyInv'
  BY GoesTally, OthersTally
<1>3. TypeOK /\ OnceInv /\ TallyInv => LogBoundsMessages
  BY MessagesCountCustomers DEF OnceInv, TallyInv, Closed, LogBoundsMessages
<1> QED BY <1>1, <1>2, <1>3, CoverInvariant, InitOnce, NextOnce, PTL DEF Spec
=============================================================================
