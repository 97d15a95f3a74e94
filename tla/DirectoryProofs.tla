-------------------------- MODULE DirectoryProofs --------------------------
(***************************************************************************)
(* Theorems about Directory, for any sessions, merchants, phones, files    *)
(* and number of customers: with every interleaving and every cut.         *)
(***************************************************************************)
EXTENDS Directory, TLAPS

-----------------------------------------------------------------------------
(* Types *)

\* What the functions in progress may hold
LEMMA RunningType ==
    ASSUME NEW pc \in {"idle", "rows", "insert", "pin"},
           NEW p \in Phones \cup {Blank}, NEW pin \in Pins \cup {NoPin},
           NEW n \in Nat, NEW c \in Ids \cup {0}
    PROVE  Running(pc, p, pin, n, c) \in Call
BY DEF Running, Call

\* An empty job, one that has just begun, and one that is a row further are jobs.
LEMMA JobType ==
    /\ NoJob \in Job /\ NoJob.row = 0 /\ NoJob.file = <<>> /\ Len(NoJob.file) = 0
    /\ NoJob.added + NoJob.failed = NoJob.row
    /\ \A file \in Seq(Phones \cup {Blank}) :
          LET j == JobOf(file, 0, 0, 0)
          IN  j \in Job /\ j.file = file /\ j.row = 0 /\ j.added + j.failed = j.row
BY DEF Job, JobOf, NoJob

\* A row further, the file is the same.
LEMMA CountedType ==
    ASSUME NEW s \in Sessions, job[s] \in Job, NEW a \in Nat, NEW f \in Nat
    PROVE  /\ Counted(s, a, f) \in Job
           /\ Counted(s, a, f).file = job[s].file
           /\ Counted(s, a, f).row = job[s].row + 1
           /\ Counted(s, a, f).added = job[s].added + a
           /\ Counted(s, a, f).failed = job[s].failed + f
           /\ job[s].file \in Seq(Phones \cup {Blank})
           /\ Len(job[s].file) \in Nat /\ job[s].row \in Nat
           /\ job[s].added \in Nat /\ job[s].failed \in Nat
BY DEF Job, JobOf, Counted

\* The row an import is at is one of the rows of a file.
LEMMA RowType ==
    ASSUME TypeOK, NEW s \in Sessions, AtRow(s)
    PROVE  /\ Row(s) \in Phones \cup {Blank}
           /\ job[s].row + 1 \in DOMAIN job[s].file
BY DEF TypeOK, AtRow, Row, Job

\* What TypeOK says of call and job, kept by setting both for one session
LEMMA LocalsType ==
    ASSUME TypeOK, NEW s \in Sessions, NEW k \in Call, NEW j \in Job,
           call' = [call EXCEPT ![s] = k], job' = [job EXCEPT ![s] = j],
           nextId' \in Nat, nextId <= nextId',
           Fit(k, j), k.since <= nextId'
    PROVE  /\ call' \in [Sessions -> Call]
           /\ job' \in [Sessions -> Job]
           /\ \A r \in Sessions : Fit(call'[r], job'[r]) /\ call'[r].since <= nextId'
<1>1. call' \in [Sessions -> Call] /\ job' \in [Sessions -> Job]
  BY DEF TypeOK
<1>2. ASSUME NEW r \in Sessions
      PROVE  Fit(call'[r], job'[r]) /\ call'[r].since <= nextId'
  <2>1. CASE r = s
    BY <2>1 DEF TypeOK
  <2>2. CASE r # s
    <3>1. call'[r] = call[r] /\ job'[r] = job[r]
      BY <2>2 DEF TypeOK
    <3>2. call[r].since \in Nat /\ nextId \in Nat
      BY DEF TypeOK, Call
    <3> QED BY <3>1, <3>2 DEF TypeOK
  <2> QED BY <2>1, <2>2
<1> QED BY <1>1, <1>2

\* The type invariant holds at the start.
LEMMA InitTypeOK == Init => TypeOK
<1> SUFFICES ASSUME Init PROVE TypeOK
  OBVIOUS
<1>1. Idle \in Call /\ Idle.since = 0 /\ Idle.pc = "idle"
  BY RunningType DEF Idle, Running
<1>2. Fit(Idle, NoJob)
  BY <1>1, JobType DEF Fit
<1> QED BY <1>1, <1>2, JobType, DirectoryAssumption DEF Init, TypeOK

\* A step that leaves the directory alone keeps its types.
LEMMA SameDirectoryType ==
    ASSUME TypeOK, NEW s \in Sessions, NEW k \in Call, NEW j \in Job,
           call' = [call EXCEPT ![s] = k], job' = [job EXCEPT ![s] = j],
           Fit(k, j), k.since <= nextId,
           UNCHANGED <<customers, nextId, known, report>>
    PROVE  TypeOK'
<1>1. nextId' \in Nat /\ nextId <= nextId' /\ k.since <= nextId'
  BY DEF TypeOK
<1>2. /\ call' \in [Sessions -> Call]
      /\ job' \in [Sessions -> Job]
      /\ \A r \in Sessions : Fit(call'[r], job'[r]) /\ call'[r].since <= nextId'
  BY <1>1, LocalsType
<1> QED BY <1>2 DEF TypeOK

\* insert_one keeps the type invariant.
LEMMA InsertTypeOK ==
    ASSUME TypeOK, NEW s \in Sessions, Insert(s)
    PROVE  TypeOK'
<1> USE DirectoryAssumption
<1>1. /\ call[s] \in Call /\ call[s].phone \in Phones /\ call[s].since <= nextId
      /\ nextId \in Ids /\ LoggedInAs[s] \in Merchants
  BY DEF Insert, TypeOK, Ids, Fit
<1>2. /\ DOMAIN customers' = DOMAIN customers \cup {nextId}
      /\ customers'[nextId] = [merchant |-> LoggedInAs[s], phone |-> call[s].phone,
                               pin |-> call[s].pin, since |-> call[s].since]
      /\ \A c \in DOMAIN customers : c # nextId => customers'[c] = customers[c]
  BY DEF Insert
<1>3. nextId' = nextId + 1 /\ nextId' \in 1..(MaxCustomers + 1) /\ nextId \in Nat
  BY <1>1 DEF Insert, Ids
<1>4. /\ DOMAIN customers' \subseteq Ids
      /\ customers' \in [DOMAIN customers' -> Customer]
  <2>1. customers'[nextId] \in Customer
    BY <1>1, <1>2 DEF Customer, Call
  <2>2. \A c \in DOMAIN customers' : customers'[c] \in Customer
    BY <1>2, <2>1 DEF TypeOK
  <2>3. customers' = [c \in DOMAIN customers' |-> customers'[c]]
    BY DEF Insert
  <2> QED BY <1>1, <1>2, <2>2, <2>3 DEF TypeOK
<1>5. \A c \in DOMAIN customers' : c < nextId' /\ customers'[c].since <= c
  BY <1>1, <1>2, <1>3 DEF TypeOK, Ids
<1>6. known' \in [Merchants -> SUBSET Phones]
  <2>1. known[LoggedInAs[s]] \cup {call[s].phone} \in SUBSET Phones
    BY <1>1 DEF TypeOK
  <2>2. known' = [known EXCEPT ![LoggedInAs[s]] =
                    known[LoggedInAs[s]] \cup {call[s].phone}]
    BY DEF Insert
  <2> QED BY <2>1, <2>2 DEF TypeOK
<1>7. /\ call' \in [Sessions -> Call]
      /\ job' \in [Sessions -> Job]
      /\ \A r \in Sessions : Fit(call'[r], job'[r]) /\ call'[r].since <= nextId'
  <2>0. nextId' \in Nat /\ nextId <= nextId' /\ 0 <= nextId'
    BY <1>3
  <2>1. CASE job[s] = NoJob
    <3>1. Idle \in Call /\ Idle.pc = "idle" /\ Idle.since = 0
      BY RunningType DEF Idle, Running
    <3>2. call' = [call EXCEPT ![s] = Idle] /\ job' = [job EXCEPT ![s] = NoJob]
      BY <2>1 DEF Insert, Goto, TypeOK
    <3>3. Fit(Idle, NoJob)
      BY <3>1, JobType DEF Fit
    <3>4. NoJob \in Job
      BY JobType
    <3> HIDE DEF Idle, NoJob
    <3> QED BY <2>0, <3>1, <3>2, <3>3, <3>4, LocalsType
  <2>2. CASE job[s] # NoJob
    <3> DEFINE j == Counted(s, 1, 0)
    <3>1. InRows \in Call /\ InRows.pc = "rows" /\ InRows.since = 0
      BY RunningType DEF InRows, Running
    <3>2. call' = [call EXCEPT ![s] = InRows] /\ job' = [job EXCEPT ![s] = j]
      BY <2>2 DEF Insert, Goto, SetJob
    <3>3. job[s] \in Job
      BY DEF TypeOK
    <3>4. job[s].row < Len(job[s].file)
      BY <2>2 DEF TypeOK, Insert, Fit
    <3>5. /\ j \in Job /\ j.row = job[s].row + 1 /\ j.file = job[s].file
          /\ job[s].row \in Nat /\ Len(job[s].file) \in Nat
      BY <3>3, CountedType
    <3>6. Fit(InRows, j)
      <4> HIDE DEF j
      <4> QED BY <3>1, <3>4, <3>5 DEF Fit
    <3> HIDE DEF j
    <3> QED BY <2>0, <3>1, <3>2, <3>5, <3>6, LocalsType
  <2> QED BY <2>1, <2>2
<1>8. report' \in [Sessions -> Job]
  BY DEF Insert, TypeOK
<1> QED BY <1>3, <1>4, <1>5, <1>6, <1>7, <1>8 DEF TypeOK

\* Every step keeps the type invariant.
LEMMA StepTypeOK ==
    ASSUME TypeOK, NEW s \in Sessions, Step(s)
    PROVE  TypeOK'
<1> USE DirectoryAssumption
<1>0. /\ call[s] \in Call /\ job[s] \in Job /\ Fit(call[s], job[s])
      /\ nextId \in Nat /\ 0 <= nextId /\ 0 \in Ids \cup {0} /\ 0 \in Nat
      /\ job = [job EXCEPT ![s] = job[s]] /\ call = [call EXCEPT ![s] = call[s]]
  BY DEF TypeOK
<1>i. /\ Idle \in Call /\ Idle.since = 0 /\ Idle.pc = "idle" /\ Fit(Idle, NoJob)
      /\ NoJob \in Job
  BY <1>0, RunningType, JobType DEF Idle, Running, Fit
<1>r. InRows \in Call /\ InRows.since = 0 /\ InRows.pc = "rows"
  BY <1>0, RunningType DEF InRows, Running
<1>1. ASSUME NEW p \in Phones, NEW pin \in Pins \cup {NoPin}, AddCustomer(s, p, pin)
      PROVE  TypeOK'
  <2> DEFINE k == Running("insert", p, pin, nextId, 0)
  <2>1. k \in Call /\ k.since = nextId /\ k.pc = "insert" /\ k.phone = p
    BY <1>0, RunningType DEF Running
  <2>2. job[s] = NoJob
    BY <1>0, <1>1 DEF AddCustomer, Fit
  <2>3. Fit(k, job[s])
    BY <2>1, <2>2, JobType DEF Fit
  <2>4. k.since <= nextId /\ job' = [job EXCEPT ![s] = job[s]]
        /\ call' = [call EXCEPT ![s] = k]
        /\ UNCHANGED <<customers, nextId, known, report>>
    BY <1>0, <1>1, <2>1 DEF AddCustomer, Goto
  <2> HIDE DEF k
  <2> QED BY <1>0, <2>1, <2>3, <2>4, SameDirectoryType
<1>2. ASSUME NEW file \in Files, Import(s, file)
      PROVE  TypeOK'
  <2> DEFINE j == JobOf(file, 0, 0, 0)
  <2>1. file \in Seq(Phones \cup {Blank}) /\ Len(file) \in Nat
    OBVIOUS
  <2>2. j \in Job /\ j.row = 0 /\ j.file = file
    BY <2>1, JobType
  <2>3. Fit(InRows, j)
    BY <1>r, <2>1, <2>2 DEF Fit
  <2>4. /\ call' = [call EXCEPT ![s] = InRows] /\ job' = [job EXCEPT ![s] = j]
        /\ UNCHANGED <<customers, nextId, known, report>>
    BY <1>2 DEF Import, Goto, SetJob
  <2> HIDE DEF j
  <2> QED BY <1>0, <1>r, <2>2, <2>3, <2>4, SameDirectoryType
<1>3. ASSUME NEW c \in Ids, NEW pin \in Pins, SubmitPin(s, c, pin)
      PROVE  TypeOK'
  <2> DEFINE k == Running("pin", Blank, pin, 0, c)
  <2>1. k \in Call /\ k.since = 0 /\ k.pc = "pin"
    BY <1>0, RunningType DEF Running
  <2>2. Fit(k, job[s])
    BY <1>0, <1>3, <2>1 DEF SubmitPin, Fit
  <2>3. /\ call' = [call EXCEPT ![s] = k] /\ job' = [job EXCEPT ![s] = job[s]]
        /\ UNCHANGED <<customers, nextId, known, report>>
    BY <1>0, <1>3 DEF SubmitPin, Goto
  <2> HIDE DEF k
  <2> QED BY <1>0, <2>1, <2>2, <2>3, SameDirectoryType
<1>4. ASSUME NEW c \in Ids, DeleteCustomer(s, c)
      PROVE  TypeOK'
  <2>1. /\ DOMAIN customers' = DOMAIN customers \ {c}
        /\ customers' = [d \in DOMAIN customers' |-> customers[d]]
    BY <1>4 DEF DeleteCustomer, Restrict
  <2> QED BY <1>4, <2>1 DEF DeleteCustomer, TypeOK
<1>5. CASE Insert(s)
  BY <1>5, InsertTypeOK
<1>6. CASE SkipRow(s)
  <2> DEFINE j == Counted(s, 0, 1)
  <2>1. 0 \in Nat /\ 1 \in Nat /\ job[s] \in Job
    BY <1>0
  <2>2. /\ j \in Job /\ j.row = job[s].row + 1 /\ j.file = job[s].file
        /\ job[s].row \in Nat /\ Len(job[s].file) \in Nat
    BY <2>1, CountedType
  <2>3. Fit(call[s], j)
    <3>1. call[s].pc = "rows" /\ job[s].row < Len(job[s].file)
      BY <1>6 DEF SkipRow, AtRow
    <3> HIDE DEF j
    <3> QED BY <2>2, <3>1 DEF Fit
  <2>4. /\ call' = [call EXCEPT ![s] = call[s]] /\ job' = [job EXCEPT ![s] = j]
        /\ UNCHANGED <<customers, nextId, known, report>>
    BY <1>0, <1>6 DEF SkipRow, SetJob
  <2>5. call[s].since <= nextId
    BY DEF TypeOK
  <2> HIDE DEF j
  <2> QED BY <1>0, <2>2, <2>3, <2>4, <2>5, SameDirectoryType
<1>7. CASE TakeRow(s)
  <2> DEFINE k == Running("insert", Row(s), NoPin, nextId, 0)
  <2>1. Row(s) \in Phones
    BY <1>7, RowType DEF TakeRow
  <2>2. k \in Call /\ k.since = nextId /\ k.pc = "insert" /\ k.phone \in Phones
    BY <1>0, <2>1, RunningType DEF Running
  <2>3. Fit(k, job[s])
    BY <1>0, <1>7, <2>2 DEF TakeRow, AtRow, Fit
  <2>4. /\ call' = [call EXCEPT ![s] = k] /\ job' = [job EXCEPT ![s] = job[s]]
        /\ UNCHANGED <<customers, nextId, known, report>> /\ k.since <= nextId
    BY <1>0, <1>7, <2>2 DEF TakeRow, Goto
  <2> HIDE DEF k
  <2> QED BY <1>0, <2>2, <2>3, <2>4, SameDirectoryType
<1>8. CASE ImportEnds(s)
  <2>1. /\ call' = [call EXCEPT ![s] = Idle] /\ job' = [job EXCEPT ![s] = NoJob]
        /\ UNCHANGED <<customers, nextId, known>>
        /\ report' = [report EXCEPT ![s] = job[s]]
    BY <1>8 DEF ImportEnds, Goto, SetJob
  <2>2. nextId' \in Nat /\ nextId <= nextId' /\ Idle.since <= nextId'
    BY <1>0, <1>i, <2>1
  <2>3. /\ call' \in [Sessions -> Call] /\ job' \in [Sessions -> Job]
        /\ \A r \in Sessions : Fit(call'[r], job'[r]) /\ call'[r].since <= nextId'
    BY <1>i, <2>1, <2>2, LocalsType
  <2>4. report' \in [Sessions -> Job]
    BY <1>0, <2>1 DEF TypeOK
  <2> QED BY <2>1, <2>3, <2>4 DEF TypeOK
<1>9. CASE SetPin(s)
  <2>1. /\ call' = [call EXCEPT ![s] = Idle] /\ job' = [job EXCEPT ![s] = NoJob]
        /\ UNCHANGED <<nextId, known, report>>
    BY <1>0, <1>9 DEF SetPin, Goto, Fit
  <2>2. nextId' \in Nat /\ nextId <= nextId' /\ Idle.since <= nextId'
    BY <1>0, <1>i, <2>1
  <2>3. /\ call' \in [Sessions -> Call] /\ job' \in [Sessions -> Job]
        /\ \A r \in Sessions : Fit(call'[r], job'[r]) /\ call'[r].since <= nextId'
    BY <1>i, <2>1, <2>2, LocalsType
  <2>4. /\ DOMAIN customers' = DOMAIN customers
        /\ \A c \in DOMAIN customers : /\ customers'[c] \in Customer
                                       /\ customers'[c].since = customers[c].since
    <3>1. DOMAIN customers' = DOMAIN customers
      BY <1>9 DEF SetPin
    <3>2. ASSUME NEW c \in DOMAIN customers
          PROVE  customers'[c] \in Customer /\ customers'[c].since = customers[c].since
      <4>1. customers[c] \in Customer /\ call[s].pin \in Pins \cup {NoPin}
        BY <1>0 DEF TypeOK, Call
      <4>2. \/ customers'[c] = customers[c]
            \/ customers'[c] = [customers[c] EXCEPT !.pin = call[s].pin]
        BY <1>9 DEF SetPin
      <4> QED BY <4>1, <4>2 DEF Customer
    <3> QED BY <3>1, <3>2
  <2>5. customers' \in [DOMAIN customers' -> Customer]
    BY <1>9, <2>4 DEF SetPin
  <2> QED BY <2>1, <2>3, <2>4, <2>5 DEF TypeOK
<1>10. CASE Abort(s)
  <2>1. /\ call' = [call EXCEPT ![s] = Idle] /\ job' = [job EXCEPT ![s] = NoJob]
        /\ UNCHANGED <<customers, nextId, known, report>> /\ Idle.since <= nextId
    BY <1>0, <1>i, <1>10 DEF Abort, Goto, SetJob
  <2> QED BY <1>i, <2>1, SameDirectoryType
<1> QED BY <1>1, <1>2, <1>3, <1>4, <1>5, <1>6, <1>7, <1>8, <1>9, <1>10 DEF Step

\* The directory keeps its types, with every interleaving and every cut.
THEOREM DirectoryTypeOK == Spec => []TypeOK
<1>1. TypeOK /\ [Next]_vars => TypeOK'
  BY StepTypeOK DEF Next, vars, TypeOK
<1> QED BY <1>1, InitTypeOK, PTL DEF Spec

-----------------------------------------------------------------------------
(* Duplicates *)

\* The customers there with the phone that session s is about to insert have come
\* after its test.
TestedSince(s) ==
    call[s].pc = "insert" =>
        \A c \in DOMAIN customers :
            customers[c].merchant = LoggedInAs[s] /\ customers[c].phone = call[s].phone
               => call[s].since <= c

AddInv == \A s \in Sessions : TestedSince(s)

\* A step of session s leaves the locals of the others as they are.
LEMMA OthersCalls ==
    ASSUME TypeOK, NEW s \in Sessions, Step(s), NEW r \in Sessions, r # s
    PROVE  call'[r] = call[r] /\ job'[r] = job[r]
<1>1. call \in [Sessions -> Call] /\ job \in [Sessions -> Job]
  BY DEF TypeOK
<1> QED BY <1>1 DEF Step, AddCustomer, Import, SubmitPin, DeleteCustomer, Insert,
                    SkipRow, TakeRow, ImportEnds, SetPin, Abort, Goto, SetJob

\* What a step does to the documents: at most one new one, with the next id, and
\* what an old one keeps but its PIN
LEMMA StepDocuments ==
    ASSUME TypeOK, NEW s \in Sessions, Step(s)
    PROVE  /\ \A c \in DOMAIN customers' :
                 \/ c = nextId /\ Insert(s)
                 \/ /\ c \in DOMAIN customers
                    /\ customers'[c].merchant = customers[c].merchant
                    /\ customers'[c].phone = customers[c].phone
                    /\ customers'[c].since = customers[c].since
           /\ Insert(s) => /\ customers'[nextId] =
                                 [merchant |-> LoggedInAs[s], phone |-> call[s].phone,
                                  pin |-> call[s].pin, since |-> call[s].since]
                           /\ nextId' = nextId + 1
           /\ ~Insert(s) => nextId' = nextId
<1>1. CASE SetPin(s)
  <2>1. ASSUME NEW c \in DOMAIN customers
        PROVE  /\ customers'[c].merchant = customers[c].merchant
               /\ customers'[c].phone = customers[c].phone
               /\ customers'[c].since = customers[c].since
    <3>1. customers[c] \in Customer
      BY DEF TypeOK
    <3>2. \/ customers'[c] = customers[c]
          \/ customers'[c] = [customers[c] EXCEPT !.pin = call[s].pin]
      BY <1>1 DEF SetPin
    <3> QED BY <3>1, <3>2 DEF Customer
  <2>2. DOMAIN customers' = DOMAIN customers /\ nextId' = nextId /\ ~Insert(s)
    BY <1>1 DEF SetPin, Insert
  <2> QED BY <2>1, <2>2
<1>2. CASE Insert(s)
  BY <1>2 DEF Insert
<1>3. CASE \E c \in Ids : DeleteCustomer(s, c)
  BY <1>3 DEF DeleteCustomer, Insert, Restrict
<1>4. CASE UNCHANGED <<customers, nextId>> /\ ~Insert(s)
  BY <1>4
<1>5. ~Insert(s) /\ ~SetPin(s) /\ ~(\E c \in Ids : DeleteCustomer(s, c))
         => UNCHANGED <<customers, nextId>>
  BY DEF Step, AddCustomer, Import, SubmitPin, SkipRow, TakeRow, ImportEnds, Abort
<1> QED BY <1>1, <1>2, <1>3, <1>4, <1>5

\* After a step of its own, a session that is about to insert has just tested the
\* phone, or goes on as it was (a deletion does not touch the calls).
LEMMA StepTested ==
    ASSUME TypeOK, NEW s \in Sessions, Step(s), call'[s].pc = "insert"
    PROVE  \/ /\ UNCHANGED customers
              /\ call'[s].since = nextId
              /\ ~Knows(LoggedInAs[s], call'[s].phone)
           \/ call'[s] = call[s] /\ \E c \in Ids : DeleteCustomer(s, c)
<1>1. call \in [Sessions -> Call]
  BY DEF TypeOK
<1>2. ASSUME NEW p \in Phones, NEW pin \in Pins \cup {NoPin}, AddCustomer(s, p, pin)
      PROVE  /\ UNCHANGED customers /\ call'[s].since = nextId
             /\ ~Knows(LoggedInAs[s], call'[s].phone)
  BY <1>1, <1>2 DEF AddCustomer, Goto, Running
<1>3. CASE TakeRow(s)
  BY <1>1, <1>3 DEF TakeRow, Goto, Running
<1>4. CASE \E c \in Ids : DeleteCustomer(s, c)
  BY <1>1, <1>4 DEF DeleteCustomer
<1>5. ~SkipRow(s)
  BY DEF SkipRow, AtRow
<1>6. /\ ~(\E file \in Files : Import(s, file)) /\ ~Insert(s) /\ ~ImportEnds(s)
      /\ ~(\E c \in Ids, pin \in Pins : SubmitPin(s, c, pin))
      /\ ~SetPin(s) /\ ~Abort(s)
  BY <1>1 DEF Import, Insert, ImportEnds, SubmitPin, SetPin, Abort, Goto, Idle,
              InRows, Running
<1> QED BY <1>2, <1>3, <1>4, <1>5, <1>6 DEF Step

\* Every step keeps that the tests of the calls in progress are up to date.
LEMMA StepAddInv ==
    ASSUME TypeOK, AddInv, NEW s \in Sessions, Step(s)
    PROVE  AddInv'
<1> SUFFICES ASSUME NEW r \in Sessions, call'[r].pc = "insert",
                    NEW c \in DOMAIN customers',
                    customers'[c].merchant = LoggedInAs[r],
                    customers'[c].phone = call'[r].phone
             PROVE  call'[r].since <= c
  BY DEF AddInv, TestedSince
<1>0. nextId \in Nat /\ call[r].since \in Nat /\ call[r].since <= nextId
      /\ DOMAIN customers \subseteq Int
  BY DEF TypeOK, Call, Ids
<1>1. CASE r # s
  <2>1. call'[r] = call[r]
    BY <1>1, OthersCalls
  <2>2. CASE c = nextId
    BY <1>0, <2>1, <2>2
  <2>3. CASE c # nextId
    <3>1. /\ c \in DOMAIN customers
          /\ customers[c].merchant = LoggedInAs[r]
          /\ customers[c].phone = call[r].phone
      BY <2>1, <2>3, StepDocuments
    <3>2. TestedSince(r) /\ call[r].pc = "insert"
      BY <2>1 DEF AddInv
    <3> QED BY <2>1, <3>1, <3>2 DEF TestedSince
  <2> QED BY <2>2, <2>3
<1>2. CASE r = s
  <2>1. CASE UNCHANGED customers /\ ~Knows(LoggedInAs[s], call'[s].phone)
    BY <1>2, <2>1 DEF Knows
  <2>2. CASE call'[s] = call[s] /\ \E d \in Ids : DeleteCustomer(s, d)
    <3>1. ~Insert(s)
      BY <2>2 DEF DeleteCustomer, Insert
    <3>2. /\ c \in DOMAIN customers
          /\ customers[c].merchant = LoggedInAs[s]
          /\ customers[c].phone = call[s].phone
      BY <1>2, <2>2, <3>1, StepDocuments
    <3>3. TestedSince(s) /\ call[s].pc = "insert"
      BY <1>2, <2>2 DEF AddInv
    <3> QED BY <1>2, <2>2, <3>2, <3>3 DEF TestedSince
  <2> QED BY <1>2, <2>1, <2>2, StepTested
<1> QED BY <1>1, <1>2

\* Every step keeps that duplicates come from overlapping additions.
LEMMA StepDuplicates ==
    ASSUME TypeOK, AddInv, DuplicatesOverlapped, NEW s \in Sessions, Step(s)
    PROVE  DuplicatesOverlapped'
<1> SUFFICES ASSUME NEW c \in DOMAIN customers', NEW d \in DOMAIN customers',
                    c < d, SamePhone(c, d)'
             PROVE  customers'[d].since <= c
  BY DEF DuplicatesOverlapped
<1>0. nextId \in Nat /\ \A b \in DOMAIN customers : b < nextId /\ b \in Int
  BY DEF TypeOK, Ids
<1>1. CASE d = nextId /\ Insert(s)
  <2>1. c # nextId /\ c \in DOMAIN customers
    BY <1>0, <1>1, StepDocuments
  <2>2. /\ customers[c].merchant = LoggedInAs[s] /\ customers[c].phone = call[s].phone
        /\ customers'[d].since = call[s].since
    BY <1>1, <2>1, StepDocuments DEF SamePhone
  <2>3. call[s].pc = "insert"
    BY <1>1 DEF Insert
  <2> QED BY <2>1, <2>2, <2>3 DEF AddInv, TestedSince
<1>2. CASE ~(d = nextId /\ Insert(s))
  <2>1. d \in DOMAIN customers /\ d < nextId
    BY <1>0, <1>2, StepDocuments
  <2>2. c # nextId
    BY <1>0, <2>1
  <2>3. c \in DOMAIN customers /\ SamePhone(c, d)
    BY <1>2, <2>2, StepDocuments DEF SamePhone
  <2> QED BY <1>2, <2>1, <2>3, StepDocuments DEF DuplicatesOverlapped
<1> QED BY <1>1, <1>2

\* Two customers of a merchant have one phone only when their additions overlapped.
THEOREM DuplicatesAlwaysOverlapped == Spec => []DuplicatesOverlapped
<1>1. Init => AddInv /\ DuplicatesOverlapped
  BY DEF Init, AddInv, TestedSince, DuplicatesOverlapped, Idle, Running
<1>2. TypeOK /\ AddInv /\ DuplicatesOverlapped /\ [Next]_vars
         => (AddInv /\ DuplicatesOverlapped)'
  <2>1. CASE UNCHANGED vars
    BY <2>1 DEF vars, AddInv, TestedSince, DuplicatesOverlapped, SamePhone
  <2> QED BY <2>1, StepAddInv, StepDuplicates DEF Next
<1> QED BY <1>1, <1>2, DirectoryTypeOK, PTL DEF Spec

\* Whoever can log in at the portal goes on doing so until deleted or given
\* another PIN.
THEOREM PortalAlwaysStaysOpen == Spec => PortalStaysOpen
<1> DEFINE Stays ==
      \A c \in DOMAIN customers, p \in Phones, pin \in Pins :
          PortalOpens(c, p, pin) =>
             \/ c \notin DOMAIN customers'
             \/ customers'[c].pin # pin
             \/ PortalOpens(c, p, pin)'
<1>1. TypeOK /\ [Next]_vars => [Stays]_vars
  <2> SUFFICES ASSUME TypeOK, NEW s \in Sessions, Step(s),
                      NEW c \in DOMAIN customers, NEW p \in Phones, NEW pin \in Pins,
                      PortalOpens(c, p, pin),
                      c \in DOMAIN customers', customers'[c].pin = pin
               PROVE  PortalOpens(c, p, pin)'
    BY DEF Next
  <2>0. c \in Int /\ nextId \in Int /\ c < nextId
    BY DEF TypeOK, Ids
  <2>1. customers'[c].phone = p
    <3>1. customers[c].phone = p
      BY DEF PortalOpens, FoundByPhone
    <3>2. c # nextId
      BY <2>0
    <3>3. customers'[c].phone = customers[c].phone
      BY <3>2, StepDocuments
    <3> QED BY <3>1, <3>3
  <2>2. ASSUME NEW d \in DOMAIN customers', customers'[d].phone = p
        PROVE  c <= d
    <3>1. CASE d = nextId
      BY <2>0, <3>1
    <3>2. CASE d # nextId
      BY <2>2, <3>2, StepDocuments DEF PortalOpens, FoundByPhone
    <3> QED BY <3>1, <3>2
  <2> QED BY <2>1, <2>2 DEF PortalOpens, FoundByPhone
<1> QED BY <1>1, DirectoryTypeOK, PTL DEF Spec, PortalStaysOpen

-----------------------------------------------------------------------------
(* Imports *)

\* Every usable row that import j of session s has been through stands for a
\* customer known to the merchant.
RowsKnown(s, j) ==
    \A i \in DOMAIN j.file :
        i <= j.row /\ j.file[i] # Blank => j.file[i] \in known[LoggedInAs[s]]

\* The phone that session s inserts for its import is that of the row it is at.
InsertsRow(s) == call[s].pc = "insert" /\ job[s] # NoJob => call[s].phone = Row(s)

\* Import j has counted each row it has been through, in one count or the other.
CountsRows(j) == j.added + j.failed = j.row

ImportInv ==
    /\ \A c \in DOMAIN customers : customers[c].phone \in known[customers[c].merchant]
    /\ \A s \in Sessions : /\ RowsKnown(s, job[s])
                           /\ InsertsRow(s)
                           /\ RowsKnown(s, report[s])
                           /\ CountsRows(job[s]) /\ CountsRows(report[s])
                           /\ report[s].row = Len(report[s].file)

\* No step takes a phone from those a merchant has known.
LEMMA KnownGrows ==
    ASSUME TypeOK, NEW s \in Sessions, Step(s), NEW m \in Merchants
    PROVE  known[m] \subseteq known'[m]
<1>1. CASE Insert(s)
  BY <1>1, DirectoryAssumption DEF TypeOK, Insert
<1>2. CASE known' = known
  BY <1>2
<1> QED BY <1>1, <1>2 DEF Step, AddCustomer, Import, SubmitPin, DeleteCustomer,
                         SkipRow, TakeRow, ImportEnds, SetPin, Abort

\* Rows once known stay known.
LEMMA RowsStayKnown ==
    ASSUME TypeOK, NEW s \in Sessions, Step(s), NEW r \in Sessions, NEW j \in Job,
           RowsKnown(r, j)
    PROVE  RowsKnown(r, j)'
<1>1. LoggedInAs[r] \in Merchants
  BY DirectoryAssumption
<1>2. known[LoggedInAs[r]] \subseteq known'[LoggedInAs[r]]
  BY <1>1, KnownGrows
<1> QED BY <1>2 DEF RowsKnown

\* An import that has done one row more, known to the merchant if it can be used,
\* has done only rows that are known.
LEMMA NextRowKnown ==
    ASSUME NEW s \in Sessions, NEW j \in Job, NEW k \in Job, RowsKnown(s, j)',
           k.file = j.file, k.row = j.row + 1, j.row + 1 \in DOMAIN j.file,
           j.file[j.row + 1] # Blank => j.file[j.row + 1] \in known'[LoggedInAs[s]]
    PROVE  RowsKnown(s, k)'
<1>1. j.row \in Nat /\ DOMAIN j.file \subseteq Int
  BY DEF Job
<1> QED BY <1>1 DEF RowsKnown

\* An import that has done no rows
LEMMA NoRowsKnown ==
    ASSUME NEW s \in Sessions, NEW j \in Job, j.row = 0
    PROVE  RowsKnown(s, j)'
<1>1. j.file \in Seq(Phones \cup {Blank})
  BY DEF Job
<1>2. \A i \in DOMAIN j.file : i \in Int /\ i > 0
  BY <1>1
<1> QED BY <1>2 DEF RowsKnown

\* Every step keeps what is said of the import in progress of its session.
LEMMA StepJob ==
    ASSUME TypeOK, ImportInv, NEW s \in Sessions, Step(s)
    PROVE  RowsKnown(s, job[s])' /\ InsertsRow(s)'
<1> USE DirectoryAssumption
<1>0. /\ call \in [Sessions -> Call] /\ job \in [Sessions -> Job]
      /\ job[s] \in Job /\ NoJob \in Job /\ NoJob.row = 0
      /\ Fit(call[s], job[s]) /\ InsertsRow(s)
  BY JobType DEF TypeOK, ImportInv
<1>j. RowsKnown(s, job[s]) /\ RowsKnown(s, NoJob)
  BY <1>0 DEF ImportInv, RowsKnown, NoJob, JobOf
<1>k. \A j \in Job : RowsKnown(s, j) => RowsKnown(s, j)'
  BY RowsStayKnown
<1>m. LoggedInAs[s] \in Merchants
  OBVIOUS
<1>f. /\ job[s].file \in Seq(Phones \cup {Blank}) /\ Len(job[s].file) \in Nat
      /\ job[s].row \in Nat
  BY <1>0 DEF Job
<1>g. AtRow(s) => job[s].row + 1 \in DOMAIN job[s].file
  BY RowType
<1>1. CASE job'[s] = NoJob
  <2>1. InsertsRow(s)'
    BY <1>1 DEF InsertsRow
  <2> QED BY <1>0, <1>1, <1>j, <1>k, <2>1
<1>2. CASE job'[s] = job[s] /\ call'[s] = call[s]
  <2>1. InsertsRow(s)'
    BY <1>0, <1>2 DEF InsertsRow, Row
  <2> QED BY <1>0, <1>2, <1>j, <1>k, <2>1
<1>3. CASE Insert(s) /\ job[s] # NoJob
  <2> DEFINE k == Counted(s, 1, 0)
  <2>1. k \in Job /\ k.row = job[s].row + 1 /\ k.file = job[s].file
    BY <1>0, CountedType
  <2>2. job'[s] = k /\ call'[s].pc # "insert"
    BY <1>0, <1>3 DEF Insert, SetJob, Goto, InRows, Running
  <2>3. call[s].pc = "insert" /\ call[s].phone = Row(s)
    BY <1>0, <1>3 DEF Insert, InsertsRow
  <2>4. job[s].row + 1 \in DOMAIN job[s].file
    <3>1. job[s].row \in Nat /\ job[s].row < Len(job[s].file)
      BY <1>0, <1>3, <1>f, <2>3 DEF Fit
    <3> QED BY <1>f, <3>1
  <2>5. job[s].file[job[s].row + 1] \in known'[LoggedInAs[s]]
    BY <1>3, <1>m, <2>3 DEF Insert, TypeOK, Row
  <2> HIDE DEF k
  <2>7. ASSUME NEW j \in Job, NEW l \in Job, j = job[s], l = job'[s]
        PROVE  RowsKnown(s, l)'
    <3>1. l.file = j.file /\ l.row = j.row + 1 /\ RowsKnown(s, j)'
      BY <1>j, <1>k, <2>1, <2>2, <2>7
    <3>2. /\ j.row + 1 \in DOMAIN j.file
          /\ j.file[j.row + 1] # Blank
                => j.file[j.row + 1] \in known'[LoggedInAs[s]]
      BY <2>4, <2>5, <2>7
    <3> QED BY <3>1, <3>2, NextRowKnown
  <2>8. RowsKnown(s, job[s])'
    <3>1. job'[s] \in Job
      BY <2>1, <2>2
    <3>2. \A l \in Job : l = job'[s] => RowsKnown(s, l)'
      BY <1>0, <2>7
    <3> QED BY <3>1, <3>2 DEF RowsKnown
  <2> QED BY <2>2, <2>8 DEF InsertsRow
<1>4. CASE SkipRow(s)
  <2> DEFINE k == Counted(s, 0, 1)
  <2>1. k \in Job /\ k.row = job[s].row + 1 /\ k.file = job[s].file
    BY <1>0, CountedType
  <2>2. job'[s] = k /\ call'[s].pc # "insert"
    BY <1>0, <1>4 DEF SkipRow, AtRow, SetJob
  <2>4. job[s].row + 1 \in DOMAIN job[s].file
    BY <1>4, <1>g DEF SkipRow
  <2>5. Row(s) # Blank => Row(s) \in known'[LoggedInAs[s]]
    BY <1>4 DEF SkipRow, Knows, ImportInv
  <2>6. job[s].file[job[s].row + 1] # Blank
           => job[s].file[job[s].row + 1] \in known'[LoggedInAs[s]]
    BY <2>5 DEF Row
  <2> HIDE DEF k
  <2>7. ASSUME NEW j \in Job, NEW l \in Job, j = job[s], l = job'[s]
        PROVE  RowsKnown(s, l)'
    <3>1. l.file = j.file /\ l.row = j.row + 1 /\ RowsKnown(s, j)'
      BY <1>j, <1>k, <2>1, <2>2, <2>7
    <3>2. /\ j.row + 1 \in DOMAIN j.file
          /\ j.file[j.row + 1] # Blank
                => j.file[j.row + 1] \in known'[LoggedInAs[s]]
      BY <2>4, <2>6, <2>7
    <3> QED BY <3>1, <3>2, NextRowKnown
  <2>8. RowsKnown(s, job[s])'
    <3>1. job'[s] \in Job
      BY <2>1, <2>2
    <3>2. \A l \in Job : l = job'[s] => RowsKnown(s, l)'
      BY <1>0, <2>7
    <3> QED BY <3>1, <3>2 DEF RowsKnown
  <2> QED BY <2>2, <2>8 DEF InsertsRow
<1>5. CASE TakeRow(s)
  <2>1. job'[s] = job[s] /\ call'[s].phone = Row(s)
    BY <1>0, <1>5 DEF TakeRow, Goto, Running
  <2>2. InsertsRow(s)'
    BY <2>1 DEF InsertsRow, Row
  <2> QED BY <1>0, <1>j, <1>k, <2>1, <2>2 DEF RowsKnown
<1>6. ASSUME NEW file \in Files, Import(s, file)
      PROVE  RowsKnown(s, job[s])' /\ InsertsRow(s)'
  <2> DEFINE k == JobOf(file, 0, 0, 0)
  <2>1. k \in Job /\ k.row = 0
    BY JobType
  <2>2. job'[s] = k /\ call'[s].pc # "insert"
    BY <1>0, <1>6 DEF Import, SetJob, Goto, InRows, Running
  <2> HIDE DEF k
  <2>3. RowsKnown(s, job[s])'
    BY <2>1, <2>2, NoRowsKnown DEF RowsKnown
  <2> QED BY <2>2, <2>3 DEF InsertsRow
<1>7. \/ job'[s] = NoJob
      \/ job'[s] = job[s] /\ call'[s] = call[s]
      \/ Insert(s) /\ job[s] # NoJob
      \/ SkipRow(s) \/ TakeRow(s)
      \/ \E file \in Files : Import(s, file)
  <2>1. \A p, pin : AddCustomer(s, p, pin) => job'[s] = NoJob
    BY <1>0 DEF AddCustomer, Fit
  <2>2. \A c, pin : SubmitPin(s, c, pin) => job'[s] = NoJob
    BY <1>0 DEF SubmitPin, Fit
  <2>3. SetPin(s) => job'[s] = NoJob
    BY <1>0 DEF SetPin, Fit
  <2>4. \A c : DeleteCustomer(s, c) => job'[s] = job[s] /\ call'[s] = call[s]
    BY DEF DeleteCustomer
  <2>5. Insert(s) /\ job[s] = NoJob => job'[s] = NoJob
    BY DEF Insert
  <2>6. ImportEnds(s) \/ Abort(s) => job'[s] = NoJob
    BY <1>0 DEF ImportEnds, Abort, SetJob
  <2> QED BY <2>1, <2>2, <2>3, <2>4, <2>5, <2>6 DEF Step
<1> QED BY <1>1, <1>2, <1>3, <1>4, <1>5, <1>6, <1>7

\* Every step counts a row as it passes it.
LEMMA StepCounts ==
    ASSUME TypeOK, ImportInv, NEW s \in Sessions, Step(s)
    PROVE  CountsRows(job'[s])
<1>0. /\ job \in [Sessions -> Job] /\ job[s] \in Job /\ CountsRows(job[s])
      /\ CountsRows(NoJob)
  BY JobType DEF TypeOK, ImportInv, CountsRows
<1>1. CountsRows(Counted(s, 1, 0)) /\ CountsRows(Counted(s, 0, 1))
  BY <1>0 DEF CountsRows, Counted, JobOf, Job
<1>2. \A file \in Files : CountsRows(JobOf(file, 0, 0, 0))
  BY DirectoryAssumption, JobType DEF CountsRows
<1>3. \/ job'[s] \in {NoJob, job[s], Counted(s, 1, 0), Counted(s, 0, 1)}
      \/ \E file \in Files : job'[s] = JobOf(file, 0, 0, 0)
  BY <1>0 DEF Step, AddCustomer, Import, SubmitPin, DeleteCustomer, Insert, SkipRow,
              TakeRow, ImportEnds, SetPin, Abort, SetJob
<1> QED BY <1>0, <1>1, <1>2, <1>3

\* Every step keeps that finished imports, and the customers there, are known.
LEMMA StepReports ==
    ASSUME TypeOK, ImportInv, NEW s \in Sessions, Step(s)
    PROVE  /\ \A c \in DOMAIN customers' :
                 customers'[c].phone \in known'[customers'[c].merchant]
           /\ \A r \in Sessions : /\ RowsKnown(r, report[r])'
                                  /\ CountsRows(report'[r])
                                  /\ report'[r].row = Len(report'[r].file)
<1> USE DirectoryAssumption
<1>1. ASSUME NEW c \in DOMAIN customers'
      PROVE  customers'[c].phone \in known'[customers'[c].merchant]
  <2>1. CASE c = nextId /\ Insert(s)
    <3>1. known'[LoggedInAs[s]] = known[LoggedInAs[s]] \cup {call[s].phone}
      BY <2>1 DEF Insert, TypeOK
    <3> QED BY <2>1, <3>1, StepDocuments
  <2>2. CASE ~(c = nextId /\ Insert(s))
    <3>1. /\ c \in DOMAIN customers
          /\ customers'[c].merchant = customers[c].merchant
          /\ customers'[c].phone = customers[c].phone
      BY <2>2, StepDocuments
    <3>2. customers[c].merchant \in Merchants
      BY <3>1 DEF TypeOK, Customer
    <3> QED BY <3>1, <3>2, KnownGrows DEF ImportInv
  <2> QED BY <2>1, <2>2
<1>2. ASSUME NEW r \in Sessions
      PROVE  /\ RowsKnown(r, report[r])' /\ CountsRows(report'[r])
             /\ report'[r].row = Len(report'[r].file)
  <2>0. report[r] \in Job /\ job[r] \in Job
    BY DEF TypeOK
  <2>1. CASE report'[r] = report[r]
    <3>1. /\ RowsKnown(r, report[r]) /\ CountsRows(report[r])
          /\ report[r].row = Len(report[r].file)
      BY DEF ImportInv
    <3>2. \A j \in Job : RowsKnown(r, j) => RowsKnown(r, j)'
      BY RowsStayKnown
    <3> QED BY <2>0, <2>1, <3>1, <3>2 DEF RowsKnown
  <2>2. CASE ImportEnds(s) /\ r = s
    <3>1. report'[r] = job[r] /\ job[r].row = Len(job[r].file)
      BY <2>2 DEF ImportEnds, TypeOK
    <3>2. RowsKnown(r, job[r]) /\ CountsRows(job[r])
      BY DEF ImportInv
    <3>3. \A j \in Job : RowsKnown(r, j) => RowsKnown(r, j)'
      BY RowsStayKnown
    <3> QED BY <2>0, <3>1, <3>2, <3>3 DEF RowsKnown
  <2>3. ImportEnds(s) \/ report' = report
    BY DEF Step, AddCustomer, Import, SubmitPin, DeleteCustomer, Insert, SkipRow,
           TakeRow, SetPin, Abort
  <2>4. ImportEnds(s) /\ r # s => report'[r] = report[r]
    BY DEF ImportEnds, TypeOK
  <2> QED BY <2>1, <2>2, <2>3, <2>4
<1> QED BY <1>1, <1>2

\* Every step keeps the invariant of the imports.
LEMMA StepImportInv ==
    ASSUME TypeOK, ImportInv, NEW s \in Sessions, Step(s)
    PROVE  ImportInv'
<1>1. ASSUME NEW r \in Sessions
      PROVE  RowsKnown(r, job[r])' /\ InsertsRow(r)' /\ CountsRows(job'[r])
  <2>1. CASE r = s
    BY <2>1, StepJob, StepCounts
  <2>2. CASE r # s
    <3>1. call'[r] = call[r] /\ job'[r] = job[r]
      BY <2>2, OthersCalls
    <3>2. /\ RowsKnown(r, job[r]) /\ InsertsRow(r) /\ CountsRows(job[r])
          /\ job[r] \in Job
      BY DEF ImportInv, TypeOK
    <3>3. \A j \in Job : RowsKnown(r, j) => RowsKnown(r, j)'
      BY RowsStayKnown
    <3> QED BY <3>1, <3>2, <3>3 DEF RowsKnown, InsertsRow, Row
  <2> QED BY <2>1, <2>2
<1>2. \A r \in Sessions : CountsRows(job[r])'
  BY <1>1 DEF CountsRows
<1>3. \A r \in Sessions : CountsRows(report[r])' /\ (report[r].row = Len(report[r].file))'
  BY StepReports DEF CountsRows
<1> QED BY <1>1, <1>2, <1>3, StepReports DEF ImportInv

\* An import that returns has every usable row of its file known to the merchant,
\* and every row in one of its counts.
THEOREM ImportsCoverFiles == Spec => []ImportCoversFile
<1>1. Init => ImportInv
  <2> SUFFICES ASSUME Init PROVE ImportInv
    OBVIOUS
  <2>1. \A s \in Sessions : /\ job[s] = NoJob /\ report[s] = NoJob
                            /\ InsertsRow(s)
    BY DEF Init, InsertsRow
  <2>2. \A s \in Sessions : RowsKnown(s, NoJob)
    BY DEF RowsKnown, NoJob, JobOf
  <2>3. DOMAIN customers = {} /\ CountsRows(NoJob)
    BY JobType DEF Init, CountsRows
  <2> QED BY <2>1, <2>2, <2>3, JobType DEF ImportInv
<1>2. TypeOK /\ ImportInv /\ [Next]_vars => ImportInv'
  <2>1. CASE UNCHANGED vars
    BY <2>1 DEF vars, ImportInv, RowsKnown, InsertsRow, Row, CountsRows
  <2> QED BY <2>1, StepImportInv DEF Next
<1>3. TypeOK /\ ImportInv => ImportCoversFile
  <2> SUFFICES ASSUME TypeOK, ImportInv, NEW s \in Sessions
               PROVE  /\ \A i \in DOMAIN report[s].file :
                            report[s].file[i] # Blank
                               => report[s].file[i] \in known[LoggedInAs[s]]
                      /\ report[s].added + report[s].failed = Len(report[s].file)
    BY DEF ImportCoversFile
  <2>1. report[s].file \in Seq(Phones \cup {Blank})
    BY DEF TypeOK, Job
  <2>2. \A i \in DOMAIN report[s].file : i <= Len(report[s].file)
    BY <2>1
  <2>3. /\ report[s].row = Len(report[s].file) /\ CountsRows(report[s])
        /\ RowsKnown(s, report[s])
    BY DEF ImportInv
  <2> QED BY <2>2, <2>3 DEF RowsKnown, CountsRows
<1> QED BY <1>1, <1>2, <1>3, DirectoryTypeOK, PTL DEF Spec
=============================================================================
