--------------------------- MODULE AccountsProofs ---------------------------
(***************************************************************************)
(* Theorems about Accounts, for any sessions, names, phones and bounds:    *)
(* with every interleaving and every cut.                                  *)
(***************************************************************************)
EXTENDS Accounts, TLAPS

-----------------------------------------------------------------------------
(* Types *)

\* No call in progress is a value of a session's call.
LEMMA IdleType == Idle \in Call
BY DEF Idle, Running, Call, CallRecord, NoOtp

\* Setting the call of one session keeps the type of all of them.
LEMMA CallSetType ==
    ASSUME TypeOK, NEW s \in Sessions, NEW k \in Call, call' = [call EXCEPT ![s] = k]
    PROVE  call' \in [Sessions -> Call]
BY DEF TypeOK

\* Setting the page of one session keeps the type of all of them.
LEMMA PageSetType ==
    ASSUME TypeOK, NEW s \in Sessions, NEW p \in Phones \cup {NoPhone},
           page' = [page EXCEPT ![s] = p]
    PROVE  page' \in [Sessions -> Phones \cup {NoPhone}]
BY DEF TypeOK

\* An account there is has the type of one, and a number.
LEMMA UserType ==
    ASSUME TypeOK, NEW u \in DOMAIN users
    PROVE  users[u] \in User /\ u \in Nat
BY DEF TypeOK

\* What an update_one of one user document keeps of the types
LEMMA UserSetType ==
    ASSUME TypeOK, NEW u \in DOMAIN users, NEW doc \in User,
           doc.reset_otp = NoOtp => doc.otp_expiry = 0,
           users' = [users EXCEPT ![u] = doc]
    PROVE  /\ users' \in Seq(User)
           /\ \A v \in DOMAIN users' :
                 users'[v].reset_otp = NoOtp => users'[v].otp_expiry = 0
BY DEF TypeOK

\* The type invariant holds at the start.
LEMMA InitTypeOK == Init => TypeOK
BY IdleType, AccountsAssumption DEF Init, TypeOK

\* Every step keeps the type invariant, one case per statement of the calls.
LEMMA StepTypeOK ==
    ASSUME TypeOK, NEW s \in Sessions, Step(s) \/ Abort(s)
    PROVE  TypeOK'
<1> USE AccountsAssumption
<1>k. call[s] \in Call
  BY DEF TypeOK
<1>1. ASSUME NEW name \in Usernames, NEW p \in Phones, NEW pw \in Passwords,
             Register(s, name, p, pw)
      PROVE  TypeOK'
  <2>1. Running("insert", name, p, pw, NoOtp, 0) \in Call
    BY DEF Running, Call, CallRecord, NoOtp
  <2> QED BY <1>1, <2>1, CallSetType DEF Register, TypeOK
<1>2. CASE InsertUser(s)
  <2>1. call' \in [Sessions -> Call]
    BY <1>2, IdleType, CallSetType DEF InsertUser
  <2>2. NewUser(call[s]) \in User
    BY <1>k, <1>2 DEF InsertUser, NewUser, Call, CallRecord, User, NoOtp
  <2>3. CASE UNCHANGED users
    BY <1>2, <2>1, <2>3 DEF InsertUser, TypeOK
  <2>4. CASE users' = Append(users, NewUser(call[s]))
    <3>1. users' \in Seq(User)
      BY <2>2, <2>4 DEF TypeOK
    <3>2. \A u \in DOMAIN users' :
             users'[u].reset_otp = NoOtp => users'[u].otp_expiry = 0
      BY <2>2, <2>4 DEF TypeOK, NewUser
    <3> QED BY <1>2, <2>1, <3>1, <3>2 DEF InsertUser, TypeOK
  <2> QED BY <1>2, <2>3, <2>4 DEF InsertUser
<1>3. ASSUME NEW p \in Phones, SendOtp(s, p)
      PROVE  TypeOK'
  <2>1. Running("store", NoName, p, NoPassword, NoOtp, 0) \in Call
    BY DEF Running, Call, CallRecord, NoOtp
  <2> QED BY <1>3, <2>1, CallSetType DEF SendOtp, TypeOK
<1>4. CASE StoreOtp(s)
  <2>1. PICK u \in DOMAIN users :
               /\ users' = [users EXCEPT ![u] =
                              WithOtp(@, Len(issued) + 1, clock + Validity)]
               /\ issued' = Append(issued, [user |-> u, expiry |-> clock + Validity])
               /\ call' = [call EXCEPT ![s] =
                             Running("sms", NoName, @.phone, NoPassword, Len(issued) + 1, 0)]
    BY <1>4 DEF StoreOtp
  <2>2. /\ Len(issued) + 1 \in Nat \ {NoOtp}
        /\ clock + Validity \in Nat
        /\ u \in Nat
    BY DEF TypeOK, NoOtp
  <2>3. WithOtp(users[u], Len(issued) + 1, clock + Validity) \in User
    BY <2>2, UserType DEF WithOtp, User
  <2>4. Running("sms", NoName, call[s].phone, NoPassword, Len(issued) + 1, 0) \in Call
    BY <1>k, <1>4, <2>2 DEF StoreOtp, Running, Call, CallRecord
  <2>5. call' \in [Sessions -> Call]
    BY <2>1, <2>4, CallSetType DEF TypeOK
  <2>6. issued' \in Seq([user: Nat, expiry: Nat])
    <3>1. [user |-> u, expiry |-> clock + Validity] \in [user: Nat, expiry: Nat]
      BY <2>2
    <3>2. issued \in Seq([user: Nat, expiry: Nat])
      BY DEF TypeOK
    <3>3. issued' = Append(issued, [user |-> u, expiry |-> clock + Validity])
      BY <2>1
    <3> QED BY <3>1, <3>2, <3>3
  <2>7. /\ users' \in Seq(User)
        /\ \A v \in DOMAIN users' :
              users'[v].reset_otp = NoOtp => users'[v].otp_expiry = 0
    BY <2>1, <2>2, <2>3, UserSetType DEF WithOtp
  <2> QED BY <1>4, <2>5, <2>6, <2>7 DEF StoreOtp, TypeOK
<1>5. CASE SendSms(s)
  <2>1. call[s].phone \in Phones /\ call[s].otp \in Nat \ {NoOtp}
    BY <1>k, <1>5 DEF SendSms, Call, CallRecord
  <2>2. inbox' \in [Phones -> SUBSET (Nat \ {NoOtp})]
    <3>1. inbox \in [Phones -> SUBSET (Nat \ {NoOtp})]
      BY DEF TypeOK
    <3>2. inbox[call[s].phone] \cup {call[s].otp} \in SUBSET (Nat \ {NoOtp})
      BY <2>1, <3>1
    <3> QED BY <1>5, <3>1, <3>2 DEF SendSms
  <2> QED
    BY <1>5, <2>1, <2>2, IdleType, CallSetType, PageSetType DEF SendSms, TypeOK
<1>6. ASSUME NEW p \in Phones, NEW o \in inbox[p], NEW pw \in Passwords,
             VerifyOtp(s, o, pw)
      PROVE  TypeOK'
  <2>1. o \in Nat \ {NoOtp} /\ clock \in Nat /\ page[s] \in Phones
    <3>1. inbox[p] \in SUBSET (Nat \ {NoOtp})
      BY DEF TypeOK
    <3>2. o \in Nat \ {NoOtp}
      BY <3>1
    <3>3. clock \in Nat
      BY DEF TypeOK
    <3>4. page[s] \in Phones
      BY <1>6 DEF TypeOK, VerifyOtp
    <3> QED BY <3>2, <3>3, <3>4
  <2>2. Running("set", NoName, page[s], pw, o, clock) \in Call
    BY <2>1 DEF Running, Call, CallRecord
  <2> QED BY <1>6, <2>2, CallSetType DEF VerifyOtp, TypeOK
<1>7. CASE SetPassword(s)
  <2>1. PICK u \in DOMAIN users :
               users' = [users EXCEPT ![u] = WithPassword(@, call[s].password)]
    BY <1>7 DEF SetPassword
  <2>2. WithPassword(users[u], call[s].password) \in User
    <3>1. users[u] \in User /\ call[s].password \in Passwords
      BY <1>k, <1>7, UserType DEF SetPassword, Call
    <3> QED BY <3>1 DEF WithPassword, User, NoOtp
  <2>3. /\ users' \in Seq(User)
        /\ \A v \in DOMAIN users' :
              users'[v].reset_otp = NoOtp => users'[v].otp_expiry = 0
    BY <2>1, <2>2, UserSetType DEF WithPassword
  <2>4. spent' \in SUBSET Nat
    BY <1>k, <1>7 DEF SetPassword, TypeOK, Call, CallRecord
  <2>5. call' \in [Sessions -> Call] /\ page' \in [Sessions -> Phones \cup {NoPhone}]
    BY <1>7, IdleType, CallSetType, PageSetType DEF SetPassword
  <2> QED BY <1>7, <2>3, <2>4, <2>5 DEF SetPassword, TypeOK
<1>8. CASE Back(s)
  BY <1>8, PageSetType DEF Back, TypeOK
<1>9. CASE Abort(s)
  BY <1>9, IdleType, CallSetType, PageSetType DEF Abort, TypeOK
<1> QED BY <1>1, <1>2, <1>3, <1>4, <1>5, <1>6, <1>7, <1>8, <1>9 DEF Step

\* The documents, the threads and the pages keep their types.
THEOREM AccountsTypeOK == Spec => []TypeOK
<1>1. ASSUME TypeOK, [Next]_vars
      PROVE  TypeOK'
  <2>1. CASE Tick
    BY <1>1, <2>1, AccountsAssumption DEF Tick, TypeOK
  <2>2. CASE UNCHANGED vars
    BY <1>1, <2>2 DEF TypeOK, vars
  <2> QED BY <1>1, <2>1, <2>2, StepTypeOK DEF Next
<1> QED BY <1>1, InitTypeOK, PTL DEF Spec
-----------------------------------------------------------------------------
(* The inductive invariant *)

\* An OTP was stored for an account that exists, and only a stored one can have
\* been used.
IssuedToAccounts ==
    /\ \A o \in DOMAIN issued : issued[o].user \in DOMAIN users
    /\ spent \subseteq DOMAIN issued

\* A call about to set a password was shown, in time, an OTP of the account that
\* its phone finds.
Proved(k) ==
    /\ k.otp \in DOMAIN issued
    /\ FindsByPhone(issued[k.otp].user, k.phone)
    /\ k.at <= issued[k.otp].expiry

SettersProved == \A s \in Sessions : call[s].pc = "set" => Proved(call[s])

AccountsInv ==
    UsernamesUnique /\ HeldOtpIsNewest /\ IssuedToAccounts /\ SettersProved

\* A phone finds one account, and goes on finding it when accounts are added.
LEMMA FindsOne ==
    ASSUME TypeOK, NEW u, NEW v, NEW p, FindsByPhone(u, p), FindsByPhone(v, p)
    PROVE  u = v
BY DEF TypeOK, FindsByPhone

\* The account a phone finds stays the one, while accounts keep their phones and new ones come last.
LEMMA FindsStill ==
    ASSUME TypeOK, NEW u, NEW p, FindsByPhone(u, p),
           DOMAIN users \subseteq DOMAIN users',
           \A v \in DOMAIN users : users'[v].phone = users[v].phone,
           \A v \in DOMAIN users' \ DOMAIN users : u <= v
    PROVE  FindsByPhone(u, p)'
BY DEF FindsByPhone

\* Setting the call of one session leaves the others.
LEMMA CallStep ==
    ASSUME TypeOK, NEW s \in Sessions, NEW k, call' = [call EXCEPT ![s] = k]
    PROVE  call'[s] = k /\ \A r \in Sessions \ {s} : call'[r] = call[r]
BY DEF TypeOK

\* What a step does to the other calls, and to its own when it ends it or starts
\* one that sets no password
LEMMA NotSetting ==
    ASSUME TypeOK, NEW s \in Sessions, NEW k, k.pc # "set",
           call' = [call EXCEPT ![s] = k]
    PROVE  \A r \in Sessions : call'[r] = call[r] \/ call'[r].pc # "set"
BY CallStep

\* A session without a call is at no statement of one.
LEMMA IdlePc == Idle.pc = "idle"
BY DEF Idle, Running

\* The fields of a call in progress
LEMMA RunningFields ==
    \A pc, name, p, pw, o, at :
        LET k == Running(pc, name, p, pw, o, at)
        IN  k.pc = pc /\ k.phone = p /\ k.otp = o /\ k.at = at
BY DEF Running

\* The invariant about accounts and OTPs holds at the start.
LEMMA InitAccounts == Init => AccountsInv
<1> SUFFICES ASSUME Init PROVE AccountsInv
  OBVIOUS
<1>1. users = <<>> /\ issued = <<>> /\ spent = {}
  BY DEF Init
<1>2. UsernamesUnique /\ HeldOtpIsNewest /\ IssuedToAccounts
  BY <1>1 DEF UsernamesUnique, HeldOtpIsNewest, IssuedToAccounts
<1>3. SettersProved
  BY IdlePc DEF Init, SettersProved
<1> QED BY <1>2, <1>3 DEF AccountsInv

\* A step that leaves the accounts and the OTPs alone, and starts no "set"
LEMMA OtherKeepsAccounts ==
    ASSUME TypeOK, AccountsInv, UNCHANGED <<users, issued, spent>>,
           \A s \in Sessions : call'[s] = call[s] \/ call'[s].pc # "set"
    PROVE  AccountsInv'
<1>1. UsernamesUnique' /\ HeldOtpIsNewest' /\ IssuedToAccounts'
  BY DEF AccountsInv, UsernamesUnique, HeldOtpIsNewest, IssuedToAccounts
<1>2. SettersProved'
  BY DEF AccountsInv, SettersProved, Proved, FindsByPhone
<1> QED BY <1>1, <1>2 DEF AccountsInv

\* A registration keeps the invariant about accounts and OTPs.
LEMMA InsertKeepsAccounts ==
    ASSUME TypeOK, AccountsInv, NEW s \in Sessions, InsertUser(s)
    PROVE  AccountsInv'
<1>1. \A r \in Sessions : call'[r] = call[r] \/ call'[r].pc # "set"
  BY IdlePc, NotSetting DEF InsertUser
<1>2. CASE UNCHANGED users
  BY <1>1, <1>2, OtherKeepsAccounts DEF InsertUser
<1>3. CASE ~TakenName(call[s].username) /\ users' = Append(users, NewUser(call[s]))
  <2> DEFINE n == Len(users) + 1
  <2>1. /\ DOMAIN users' = DOMAIN users \cup {n}
        /\ \A u \in DOMAIN users : users'[u] = users[u] /\ u < n
        /\ users'[n] = NewUser(call[s])
        /\ n \notin DOMAIN users
    BY <1>3 DEF TypeOK
  <2>0. n \in Nat /\ DOMAIN users \subseteq Nat
    BY DEF TypeOK
  <2> HIDE DEF n
  <2>2. UsernamesUnique'
    BY <1>3, <2>1 DEF AccountsInv, UsernamesUnique, TakenName, NewUser
  <2>3. HeldOtpIsNewest'
    <3>1. UNCHANGED <<issued, spent>>
      BY DEF InsertUser
    <3>2. users'[n].reset_otp = NoOtp
      BY <2>1 DEF NewUser
    <3> QED BY <2>1, <3>1, <3>2 DEF AccountsInv, HeldOtpIsNewest
  <2>4. IssuedToAccounts'
    BY <2>1 DEF InsertUser, AccountsInv, IssuedToAccounts
  <2>5. SettersProved'
    <3>1. issued' = issued
      BY DEF InsertUser
    <3>2. \A u, p : FindsByPhone(u, p) => FindsByPhone(u, p)'
      BY <2>0, <2>1 DEF FindsByPhone
    <3> QED BY <1>1, <3>1, <3>2 DEF AccountsInv, SettersProved, Proved
  <2> QED BY <2>2, <2>3, <2>4, <2>5 DEF AccountsInv
<1> QED BY <1>2, <1>3 DEF InsertUser

\* What an update_one by phone keeps: the names, and what the phones find.
LEMMA UpdateKeepsNames ==
    ASSUME TypeOK, UsernamesUnique, NEW u \in DOMAIN users, NEW doc,
           doc.username = users[u].username, doc.phone = users[u].phone,
           users' = [users EXCEPT ![u] = doc]
    PROVE  /\ UsernamesUnique'
           /\ DOMAIN users' = DOMAIN users
           /\ \A v, p : FindsByPhone(v, p) => FindsByPhone(v, p)'
<1>1. /\ DOMAIN users' = DOMAIN users
      /\ \A v \in DOMAIN users : /\ users'[v].username = users[v].username
                                 /\ users'[v].phone = users[v].phone
  BY DEF TypeOK
<1> QED BY <1>1 DEF UsernamesUnique, FindsByPhone

\* Storing an OTP keeps it: the OTP held is then the newest issued.
LEMMA StoreKeepsAccounts ==
    ASSUME TypeOK, AccountsInv, NEW s \in Sessions, StoreOtp(s)
    PROVE  AccountsInv'
<1> DEFINE n == Len(issued) + 1
           e == clock + Validity
<1>1. PICK u \in DOMAIN users :
             /\ users' = [users EXCEPT ![u] = WithOtp(@, n, e)]
             /\ issued' = Append(issued, [user |-> u, expiry |-> e])
  BY DEF StoreOtp
<1>2. /\ DOMAIN issued' = DOMAIN issued \cup {n}
      /\ \A o \in DOMAIN issued : issued'[o] = issued[o] /\ o < n
      /\ issued'[n] = [user |-> u, expiry |-> e]
      /\ n \notin DOMAIN issued
      /\ n # NoOtp /\ n \in Nat
  BY <1>1 DEF TypeOK, NoOtp
<1>3. /\ DOMAIN users' = DOMAIN users
      /\ \A v \in DOMAIN users : v # u => users'[v] = users[v]
      /\ users'[u].reset_otp = n /\ users'[u].otp_expiry = e
  BY <1>1 DEF TypeOK, WithOtp
<1>4. spent' = spent /\ \A r \in Sessions : call'[r] = call[r] \/ call'[r].pc # "set"
  BY RunningFields, NotSetting DEF StoreOtp
<1>5. UsernamesUnique' /\ \A v, p : FindsByPhone(v, p) => FindsByPhone(v, p)'
  BY <1>1, UpdateKeepsNames DEF AccountsInv, WithOtp
<1> HIDE DEF n, e
<1>6. IssuedToAccounts'
  BY <1>2, <1>3, <1>4 DEF AccountsInv, IssuedToAccounts
<1>7. SettersProved'
  BY <1>2, <1>4, <1>5 DEF AccountsInv, SettersProved, Proved
<1>8. HeldOtpIsNewest'
  <2>1. n \notin spent
    BY <1>2 DEF AccountsInv, IssuedToAccounts
  <2>2. ASSUME NEW v \in DOMAIN users, v # u, users[v].reset_otp # NoOtp
        PROVE  LET o == users[v].reset_otp
               IN  /\ o \in DOMAIN issued'
                   /\ issued'[o] = [user |-> v, expiry |-> users[v].otp_expiry]
                   /\ \A q \in DOMAIN issued' : issued'[q].user = v => q <= o
                   /\ o \notin spent
    <3>1. /\ users[v].reset_otp \in DOMAIN issued
          /\ issued[users[v].reset_otp] = [user |-> v, expiry |-> users[v].otp_expiry]
          /\ \A q \in DOMAIN issued : issued[q].user = v => q <= users[v].reset_otp
          /\ users[v].reset_otp \notin spent
      BY <2>2 DEF AccountsInv, HeldOtpIsNewest
    <3> QED BY <1>2, <2>2, <3>1
  <2>3. \A q \in DOMAIN issued' : issued'[q].user = u => q <= n
    BY <1>2 DEF TypeOK
  <2> QED BY <1>2, <1>3, <1>4, <2>1, <2>2, <2>3 DEF HeldOtpIsNewest
<1> QED BY <1>5, <1>6, <1>7, <1>8 DEF AccountsInv

\* Verifying an OTP keeps it: a call that goes on was shown an OTP in time.
LEMMA VerifyKeepsAccounts ==
    ASSUME TypeOK, AccountsInv, NEW s \in Sessions, NEW p \in Phones,
           NEW o \in inbox[p], NEW pw \in Passwords, VerifyOtp(s, o, pw)
    PROVE  AccountsInv'
<1>1. UNCHANGED <<users, issued, spent>>
  BY DEF VerifyOtp
<1>2. UsernamesUnique' /\ HeldOtpIsNewest' /\ IssuedToAccounts'
  BY <1>1 DEF AccountsInv, UsernamesUnique, HeldOtpIsNewest, IssuedToAccounts
<1>3. o # NoOtp
  <2>1. inbox[p] \in SUBSET (Nat \ {NoOtp})
    BY DEF TypeOK
  <2> QED BY <2>1
<1>4. PICK u \in DOMAIN users : FindsByPhone(u, page[s]) /\ Accepts(u, o)
  BY DEF VerifyOtp
<1>5. /\ o \in DOMAIN issued
      /\ issued[o].user = u
      /\ clock <= issued[o].expiry
  <2>1. users[u].reset_otp = o /\ clock <= users[u].otp_expiry
    BY <1>4 DEF Accepts
  <2>2. o \in DOMAIN issued /\ issued[o] = [user |-> u, expiry |-> users[u].otp_expiry]
    BY <1>3, <2>1 DEF AccountsInv, HeldOtpIsNewest
  <2> QED BY <2>1, <2>2
<1>6. /\ \A r \in Sessions \ {s} : call'[r] = call[r]
      /\ call'[s] = Running("set", NoName, page[s], pw, o, clock)
  BY CallStep DEF VerifyOtp
<1>7. SettersProved'
  <2>1. \A v, q : FindsByPhone(v, q)' <=> FindsByPhone(v, q)
    BY <1>1 DEF FindsByPhone
  <2>2. /\ call'[s].otp = o /\ call'[s].phone = page[s] /\ call'[s].at = clock
    BY <1>6, RunningFields
  <2>3. \A r \in Sessions \ {s} : call'[r].pc = "set" => Proved(call'[r])
    BY <1>6 DEF AccountsInv, SettersProved
  <2>4. Proved(call'[s])
    BY <1>4, <1>5, <2>2 DEF Proved
  <2> QED BY <1>1, <2>1, <2>3, <2>4 DEF SettersProved, Proved
<1> QED BY <1>2, <1>7 DEF AccountsInv

\* Setting a password keeps it: the OTP that goes is spent.
LEMMA SetKeepsAccounts ==
    ASSUME TypeOK, AccountsInv, NEW s \in Sessions, SetPassword(s)
    PROVE  AccountsInv'
<1>1. PICK u \in DOMAIN users :
             /\ FindsByPhone(u, call[s].phone)
             /\ users' = [users EXCEPT ![u] = WithPassword(@, call[s].password)]
  BY DEF SetPassword
<1>2. /\ DOMAIN users' = DOMAIN users
      /\ \A v \in DOMAIN users : v # u => users'[v] = users[v]
      /\ users'[u].reset_otp = NoOtp
  BY <1>1 DEF TypeOK, WithPassword
<1>3. UsernamesUnique' /\ \A v, p : FindsByPhone(v, p) => FindsByPhone(v, p)'
  BY <1>1, UpdateKeepsNames DEF AccountsInv, WithPassword
<1>4. /\ issued' = issued /\ spent' = spent \cup {call[s].otp}
      /\ \A r \in Sessions : call'[r] = call[r] \/ call'[r].pc # "set"
  BY IdlePc, NotSetting DEF SetPassword
<1>5. call[s].otp \in DOMAIN issued /\ issued[call[s].otp].user = u
  <2>1. /\ call[s].otp \in DOMAIN issued
        /\ FindsByPhone(issued[call[s].otp].user, call[s].phone)
    BY DEF SetPassword, AccountsInv, SettersProved, Proved
  <2> QED BY <1>1, <2>1, FindsOne
<1>6. IssuedToAccounts'
  BY <1>2, <1>4, <1>5 DEF AccountsInv, IssuedToAccounts
<1>7. SettersProved'
  BY <1>3, <1>4 DEF AccountsInv, SettersProved, Proved
<1>8. HeldOtpIsNewest'
  <2>1. ASSUME NEW v \in DOMAIN users, v # u, users[v].reset_otp # NoOtp
        PROVE  users[v].reset_otp # call[s].otp
    <3>1. issued[users[v].reset_otp] = [user |-> v, expiry |-> users[v].otp_expiry]
      BY <2>1 DEF AccountsInv, HeldOtpIsNewest
    <3> QED BY <1>5, <2>1, <3>1
  <2> QED BY <1>2, <1>4, <2>1 DEF AccountsInv, HeldOtpIsNewest
<1> QED BY <1>3, <1>6, <1>7, <1>8 DEF AccountsInv

\* Accounts and OTPs stay consistent in every interleaving.
LEMMA AccountsInvariant == Spec => [](TypeOK /\ AccountsInv)
<1>1. ASSUME TypeOK, AccountsInv, [Next]_vars
      PROVE  AccountsInv'
  <2> USE <1>1
  <2>1. ASSUME NEW s \in Sessions,
               \/ SendSms(s) \/ Back(s) \/ Abort(s)
               \/ \E p \in Phones : SendOtp(s, p)
               \/ \E name \in Usernames, p \in Phones, pw \in Passwords :
                     Register(s, name, p, pw)
        PROVE  AccountsInv'
    <3>1. /\ UNCHANGED <<users, issued, spent>>
          /\ \A r \in Sessions : call'[r] = call[r] \/ call'[r].pc # "set"
      BY <2>1, IdlePc, RunningFields, NotSetting
         DEF SendSms, Back, Abort, SendOtp, Register
    <3> QED BY <3>1, OtherKeepsAccounts
  <2>2. CASE Tick \/ UNCHANGED vars
    BY <2>2, OtherKeepsAccounts DEF Tick, vars
  <2> QED
    BY <2>1, <2>2, InsertKeepsAccounts, StoreKeepsAccounts, VerifyKeepsAccounts,
       SetKeepsAccounts DEF Next, Step
<1> QED BY <1>1, InitAccounts, AccountsTypeOK, PTL DEF Spec

-----------------------------------------------------------------------------
(* Theorems *)

\* No two accounts ever have one username: the unique index makes up for the
\* gap between register_user's test and its insert.
THEOREM UsernamesStayUnique == Spec => []UsernamesUnique
BY AccountsInvariant, PTL DEF AccountsInv

\* The OTP an account holds is the newest stored for it and was never used.
THEOREM HeldOtpAlwaysNewest == Spec => []HeldOtpIsNewest
BY AccountsInvariant, PTL DEF AccountsInv

\* Only an OTP that was stored for the account, and shown before it expired,
\* changes its password.
THEOREM PasswordChangesProved == Spec => PasswordChangeIsProved
<1>1. ASSUME TypeOK, AccountsInv, [Next]_vars, NEW u \in DOMAIN users,
             users'[u].password # users[u].password
      PROVE  \E s \in Sessions :
                /\ call[s].pc = "set" /\ call'[s].pc = "idle"
                /\ call[s].otp \in DOMAIN issued
                /\ issued[call[s].otp].user = u
                /\ call[s].at <= issued[call[s].otp].expiry
  <2>1. ASSUME NEW s \in Sessions, StoreOtp(s)
        PROVE  users'[u].password = users[u].password
    <3>1. PICK v \in DOMAIN users : \E o, e : users' = [users EXCEPT ![v] = WithOtp(@, o, e)]
      BY <2>1 DEF StoreOtp
    <3>2. PICK o, e : users' = [users EXCEPT ![v] = WithOtp(@, o, e)]
      BY <3>1
    <3>3. users'[u] = users[u] \/ users'[u] = WithOtp(users[u], o, e)
      BY <1>1, <3>2 DEF TypeOK
    <3>4. WithOtp(users[u], o, e).password = users[u].password
      BY DEF WithOtp
    <3> QED BY <3>3, <3>4
  <2>2. ASSUME NEW s \in Sessions, InsertUser(s)
        PROVE  users'[u].password = users[u].password
    <3>1. users' = users \/ users' = Append(users, NewUser(call[s]))
      BY <2>2 DEF InsertUser
    <3>2. users \in Seq(User) /\ u \in 1..Len(users)
      BY <1>1 DEF TypeOK
    <3> QED BY <3>1, <3>2
  <2>3. PICK s \in Sessions : SetPassword(s)
    BY <1>1, <2>1, <2>2
       DEF Next, Step, Tick, Abort, Register, SendOtp, SendSms, VerifyOtp, Back, vars
  <2>4. PICK v \in DOMAIN users :
               /\ FindsByPhone(v, call[s].phone)
               /\ users' = [users EXCEPT ![v] = WithPassword(@, call[s].password)]
    BY <2>3 DEF SetPassword
  <2>5. u = v
    BY <1>1, <2>4 DEF TypeOK
  <2>6. /\ call[s].otp \in DOMAIN issued
        /\ FindsByPhone(issued[call[s].otp].user, call[s].phone)
        /\ call[s].at <= issued[call[s].otp].expiry
    BY <1>1, <2>3 DEF AccountsInv, SettersProved, Proved, SetPassword
  <2>7. call[s].pc = "set" /\ call'[s].pc = "idle"
    BY <1>1, <2>3, IdlePc, CallStep DEF SetPassword
  <2> QED BY <1>1, <2>4, <2>5, <2>6, <2>7, FindsOne
<1>2. TypeOK /\ AccountsInv /\ [Next]_vars =>
        [\A u \in DOMAIN users :
            users'[u].password # users[u].password =>
              \E s \in Sessions :
                  /\ call[s].pc = "set" /\ call'[s].pc = "idle"
                  /\ call[s].otp \in DOMAIN issued
                  /\ issued[call[s].otp].user = u
                  /\ call[s].at <= issued[call[s].otp].expiry]_vars
  BY <1>1
<1> QED BY <1>2, AccountsInvariant, PTL DEF Spec, PasswordChangeIsProved
-----------------------------------------------------------------------------
(* One person at a time on each phone: the accounts keep their promise *)

\* The OTP that a call was shown is still held when it sets the password.
Holds(k) ==
    \A u \in DOMAIN users : FindsByPhone(u, k.phone) => users[u].reset_otp = k.otp

SettersHold == \A s \in Sessions : call[s].pc = "set" => Holds(call[s])

OrderlyInv == OneCallPerPhone /\ SettersHold

\* Orderly behaviours are behaviours of the whole specification.
LEMMA OrderlyIsSpec == OrderlySpec => Spec
<1>1. OrderlyNext => Next
  BY DEF OrderlyNext, UncutNext, Next
<1> QED BY <1>1, PTL DEF OrderlySpec, Spec

\* The orderly invariant holds at the start.
LEMMA InitOrderly == Init => OrderlyInv
BY IdlePc DEF Init, OrderlyInv, OneCallPerPhone, Clash, SettersHold

\* It is enough to look at the calls that go on as they are.
LEMMA HoldersGoOn ==
    ASSUME SettersHold,
           \A s \in Sessions : call'[s] = call[s] \/ call'[s].pc # "set",
           \A s \in Sessions : \A k :
              k = call[s] /\ k = call'[s] /\ k.pc = "set" /\ Holds(k) => Holds(k)'
    PROVE  SettersHold'
<1> SUFFICES ASSUME NEW s \in Sessions, call'[s].pc = "set"
             PROVE  Holds(call[s])'
  BY DEF SettersHold
<1>1. PICK k : k = call[s]
  OBVIOUS
<1>2. k = call'[s] /\ Holds(k)
  BY <1>1 DEF SettersHold
<1> QED BY <1>1, <1>2

\* A step that changes no account and goes to no set_password keeps what the setters hold.
LEMMA HoldersKept ==
    ASSUME SettersHold, UNCHANGED users,
           \A s \in Sessions : call'[s] = call[s] \/ call'[s].pc # "set"
    PROVE  SettersHold'
<1>1. \A k : Holds(k) => Holds(k)'
  BY DEF Holds, FindsByPhone
<1> QED BY <1>1, HoldersGoOn

\* Every orderly step keeps the orderly invariant.
LEMMA OrderlyStep ==
    ASSUME TypeOK, AccountsInv, OrderlyInv, [OrderlyNext]_vars
    PROVE  OrderlyInv'
<1> USE DEF OrderlyInv
<1>1. OneCallPerPhone'
  BY DEF OrderlyNext, OneCallPerPhone, Clash, vars
<1>2. SettersHold'
  <2>1. ASSUME NEW s \in Sessions, InsertUser(s)
        PROVE  SettersHold'
    <3>1. \A r \in Sessions : call'[r] = call[r] \/ call'[r].pc # "set"
      BY <2>1, IdlePc, NotSetting DEF InsertUser
    <3>2. CASE UNCHANGED users
      BY <3>1, <3>2, HoldersKept
    <3>3. CASE users' = Append(users, NewUser(call[s]))
      <4>1. \A v, p : FindsByPhone(v, p) => FindsByPhone(v, p)'
        BY <3>3 DEF FindsByPhone, TypeOK
      <4>2. TypeOK'
        BY <2>1, StepTypeOK DEF Step
      <4>3. ASSUME NEW r \in Sessions, NEW k, k = call[r], k.pc = "set", Holds(k)
            PROVE  Holds(k)'
        <5>1. PICK v \in DOMAIN users : FindsByPhone(v, k.phone)
          BY <4>3 DEF AccountsInv, SettersProved, Proved, FindsByPhone
        <5>2. FindsByPhone(v, k.phone)' /\ users'[v] = users[v]
          BY <3>3, <4>1, <5>1 DEF TypeOK
        <5>3. \A u \in DOMAIN users' : FindsByPhone(u, k.phone)' => u = v
          BY <4>2, <5>2 DEF FindsByPhone, TypeOK
        <5> QED BY <4>3, <5>1, <5>2, <5>3 DEF Holds
      <4> QED BY <3>1, <4>3, HoldersGoOn
    <3> QED BY <2>1, <3>2, <3>3 DEF InsertUser
  <2>2. ASSUME NEW s \in Sessions, NEW u \in DOMAIN users, NEW doc,
               FindsByPhone(u, call[s].phone),
               call[s].pc \in {"store", "set"},
               doc.phone = users[u].phone,
               users' = [users EXCEPT ![u] = doc],
               \A r \in Sessions : call'[r] = call[r] \/ call'[r].pc # "set",
               call'[s].pc # "set"
        PROVE  SettersHold'
    <3>1. /\ DOMAIN users' = DOMAIN users
          /\ \A w \in DOMAIN users : users'[w].phone = users[w].phone
          /\ \A w \in DOMAIN users : w # u => users'[w] = users[w]
      BY <2>2 DEF TypeOK
    <3>2. \A v, p : FindsByPhone(v, p)' => FindsByPhone(v, p)
      BY <3>1 DEF FindsByPhone
    <3>3. ASSUME NEW r \in Sessions, NEW k, k = call[r], k = call'[r],
                 k.pc = "set", Holds(k)
          PROVE  Holds(k)'
      <4>1. k.phone # call[s].phone
        BY <2>2, <3>3 DEF OneCallPerPhone, Clash
      <4>2. ~FindsByPhone(u, k.phone)
        BY <2>2, <4>1 DEF FindsByPhone
      <4> QED BY <3>1, <3>2, <3>3, <4>2 DEF Holds
    <3> QED BY <2>2, <3>3, HoldersGoOn
  <2>3. ASSUME NEW s \in Sessions, StoreOtp(s)
        PROVE  SettersHold'
    <3>0. PICK u \in DOMAIN users : \E o, e :
                 /\ FindsByPhone(u, call[s].phone)
                 /\ users' = [users EXCEPT ![u] = WithOtp(@, o, e)]
                 /\ call' = [call EXCEPT ![s] =
                               Running("sms", NoName, @.phone, NoPassword, o, 0)]
      BY <2>3 DEF StoreOtp
    <3>1. PICK o, e :
                 /\ FindsByPhone(u, call[s].phone)
                 /\ users' = [users EXCEPT ![u] = WithOtp(@, o, e)]
                 /\ call' = [call EXCEPT ![s] =
                               Running("sms", NoName, @.phone, NoPassword, o, 0)]
      BY <3>0
    <3>2. call[s].pc = "store" /\ WithOtp(users[u], o, e).phone = users[u].phone
      BY <2>3 DEF StoreOtp, WithOtp
    <3>3. /\ call'[s].pc # "set"
          /\ \A r \in Sessions : call'[r] = call[r] \/ call'[r].pc # "set"
      <4>1. PICK k : /\ k = Running("sms", NoName, call[s].phone, NoPassword, o, 0)
                     /\ call' = [call EXCEPT ![s] = k]
        BY <3>1
      <4>2. k.pc # "set"
        BY <4>1, RunningFields
      <4> QED BY <4>1, <4>2, CallStep
    <3> QED BY <2>2, <3>1, <3>2, <3>3
  <2>4. ASSUME NEW s \in Sessions, SetPassword(s)
        PROVE  SettersHold'
    <3>1. PICK u \in DOMAIN users :
                 /\ FindsByPhone(u, call[s].phone)
                 /\ users' = [users EXCEPT ![u] = WithPassword(@, call[s].password)]
      BY <2>4 DEF SetPassword
    <3>2. /\ call[s].pc = "set"
          /\ WithPassword(users[u], call[s].password).phone = users[u].phone
      BY <2>4 DEF SetPassword, WithPassword
    <3>3. /\ call'[s].pc # "set"
          /\ \A r \in Sessions : call'[r] = call[r] \/ call'[r].pc # "set"
      <4>1. call' = [call EXCEPT ![s] = Idle]
        BY <2>4 DEF SetPassword
      <4>2. PICK k : k = Idle
        OBVIOUS
      <4>3. call' = [call EXCEPT ![s] = k] /\ k.pc # "set"
        BY <4>1, <4>2, IdlePc
      <4> QED BY <4>3, CallStep
    <3> QED BY <2>2, <3>1, <3>2, <3>3
  <2>5. ASSUME NEW s \in Sessions, NEW o, NEW pw, VerifyOtp(s, o, pw)
        PROVE  SettersHold'
    <3>1. PICK u \in DOMAIN users : FindsByPhone(u, page[s]) /\ Accepts(u, o)
      BY <2>5 DEF VerifyOtp
    <3>2. PICK k : /\ k = Running("set", NoName, page[s], pw, o, clock)
                   /\ call' = [call EXCEPT ![s] = k]
      BY <2>5 DEF VerifyOtp
    <3>3. k.otp = o /\ k.phone = page[s]
      BY <3>2, RunningFields
    <3>4. Holds(k)
      BY <3>1, <3>3, FindsOne DEF Holds, Accepts
    <3>5. \A m : Holds(m) => Holds(m)'
      BY <2>5 DEF VerifyOtp, Holds, FindsByPhone
    <3>6. call'[s] = k /\ \A r \in Sessions \ {s} : call'[r] = call[r]
      BY <3>2, CallStep
    <3> SUFFICES ASSUME NEW r \in Sessions, call'[r].pc = "set"
                 PROVE  Holds(call[r])'
      BY DEF SettersHold
    <3>7. PICK m : m = call'[r]
      OBVIOUS
    <3>8. Holds(m)
      BY <3>4, <3>6, <3>7 DEF SettersHold
    <3> QED BY <3>5, <3>7, <3>8
  <2>6. ASSUME NEW s \in Sessions,
               \/ SendSms(s) \/ Back(s)
               \/ \E p \in Phones : SendOtp(s, p)
               \/ \E name \in Usernames, p \in Phones, pw \in Passwords :
                     Register(s, name, p, pw)
        PROVE  SettersHold'
    <3>1. /\ UNCHANGED users
          /\ \A r \in Sessions : call'[r] = call[r] \/ call'[r].pc # "set"
      BY <2>6, IdlePc, RunningFields, NotSetting DEF SendSms, Back, SendOtp, Register
    <3> QED BY <3>1, HoldersKept
  <2>7. CASE Tick \/ UNCHANGED vars
    BY <2>7, HoldersKept DEF Tick, vars
  <2> QED
    BY <2>1, <2>3, <2>4, <2>5, <2>6, <2>7 DEF OrderlyNext, UncutNext, Step
<1> QED BY <1>1, <1>2

\* Without overlapping calls on a phone, a verified OTP is still the one held.
LEMMA OrderlyInvariant == OrderlySpec => [](TypeOK /\ AccountsInv /\ OrderlyInv)
<1>1. OrderlySpec => [](TypeOK /\ AccountsInv)
  BY OrderlyIsSpec, AccountsInvariant, PTL
<1> QED BY <1>1, InitOrderly, OrderlyStep, PTL DEF OrderlySpec
-----------------------------------------------------------------------------
(* The newest OTP works *)

\* Whatever a phone has received, or is being sent, was stored.
ReceivedWereIssued ==
    /\ \A p \in Phones : inbox[p] \subseteq DOMAIN issued
    /\ \A s \in Sessions : call[s].pc = "sms" => call[s].otp \in DOMAIN issued

\* The newest OTP of an account is the one it holds, until it is used.
NewestIsHeld ==
    \A o \in DOMAIN issued :
        Newest(o) /\ o \notin spent => users[issued[o].user].reset_otp = o

\* What is received or being sent was stored, in every interleaving.
LEMMA ReceivedInvariant == Spec => []ReceivedWereIssued
<1>1. Init => ReceivedWereIssued
  BY IdlePc DEF Init, ReceivedWereIssued
<1>2. ASSUME TypeOK, ReceivedWereIssued, [Next]_vars
      PROVE  ReceivedWereIssued'
  <2> USE <1>2 DEF ReceivedWereIssued
  <2>1. ASSUME NEW s \in Sessions, StoreOtp(s)
        PROVE  ReceivedWereIssued'
    <3>1. PICK r : issued' = Append(issued, r)
      BY <2>1 DEF StoreOtp
    <3>2. PICK k : /\ k = Running("sms", NoName, call[s].phone, NoPassword,
                                  Len(issued) + 1, 0)
                   /\ call' = [call EXCEPT ![s] = k]
      BY <2>1 DEF StoreOtp
    <3>3. k.otp = Len(issued) + 1
      BY <3>2, RunningFields
    <3>4. k.otp \in DOMAIN issued' /\ DOMAIN issued \subseteq DOMAIN issued'
      BY <3>1, <3>3 DEF TypeOK
    <3>5. inbox' = inbox
      BY <2>1 DEF StoreOtp
    <3>6. call'[s] = k /\ \A q \in Sessions \ {s} : call'[q] = call[q]
      BY <3>2, CallStep
    <3> QED BY <3>4, <3>5, <3>6
  <2>2. ASSUME NEW s \in Sessions, SendSms(s)
        PROVE  ReceivedWereIssued'
    <3>1. \A r \in Sessions : call'[r].pc = "sms" => call'[r] = call[r]
      BY <2>2, IdlePc, CallStep DEF SendSms
    <3>2. inbox' = inbox \/ inbox' = [inbox EXCEPT ![call[s].phone] = @ \cup {call[s].otp}]
      BY <2>2 DEF SendSms
    <3>3. call[s].otp \in DOMAIN issued /\ issued' = issued
      BY <2>2 DEF SendSms
    <3>4. inbox \in [Phones -> SUBSET (Nat \ {NoOtp})]
      BY DEF TypeOK
    <3>5. \A p \in Phones : inbox'[p] \subseteq DOMAIN issued
      BY <3>2, <3>3, <3>4
    <3> QED BY <3>1, <3>3, <3>5
  <2>3. ASSUME UNCHANGED <<inbox, issued>>,
               \A s \in Sessions : call'[s] = call[s] \/ call'[s].pc # "sms"
        PROVE  ReceivedWereIssued'
    BY <2>3
  <2>4. ASSUME NEW s \in Sessions,
               \/ InsertUser(s) \/ SetPassword(s) \/ Back(s) \/ Abort(s)
               \/ \E p \in Phones : SendOtp(s, p)
               \/ \E name \in Usernames, p \in Phones, pw \in Passwords :
                     Register(s, name, p, pw)
               \/ \E o, pw : VerifyOtp(s, o, pw)
        PROVE  ReceivedWereIssued'
    <3>1. \/ call' = call
          \/ \E k : k.pc # "sms" /\ call' = [call EXCEPT ![s] = k]
      BY <2>4, IdlePc, RunningFields
         DEF InsertUser, SetPassword, Back, Abort, SendOtp, Register, VerifyOtp
    <3>2. UNCHANGED <<inbox, issued>>
      BY <2>4
         DEF InsertUser, SetPassword, Back, Abort, SendOtp, Register, VerifyOtp
    <3>3. \A r \in Sessions : call'[r] = call[r] \/ call'[r].pc # "sms"
      BY <3>1, CallStep
    <3> QED BY <2>3, <3>2, <3>3
  <2>5. CASE Tick \/ UNCHANGED vars
    BY <2>3, <2>5 DEF Tick, vars
  <2> QED BY <2>1, <2>2, <2>4, <2>5 DEF Next, Step
<1> QED BY <1>1, <1>2, AccountsTypeOK, PTL DEF Spec

\* While one person at a time uses a phone, the newest OTP of an account works until it is used or
\* out of date.
THEOREM NewestOtpStaysValid == OrderlySpec => []NewestOtpIsValid
<1>1. Init => NewestIsHeld
  BY DEF Init, NewestIsHeld
<1>2. ASSUME TypeOK, AccountsInv, OrderlyInv, NewestIsHeld, [OrderlyNext]_vars
      PROVE  NewestIsHeld'
  <2> USE <1>2
  <2>1. ASSUME NEW s \in Sessions, StoreOtp(s)
        PROVE  NewestIsHeld'
    <3> DEFINE n == Len(issued) + 1
    <3>0. PICK u \in DOMAIN users : \E e :
                 /\ users' = [users EXCEPT ![u] = WithOtp(@, n, e)]
                 /\ issued' = Append(issued, [user |-> u, expiry |-> e])
      BY <2>1 DEF StoreOtp
    <3>1. PICK e :
                 /\ users' = [users EXCEPT ![u] = WithOtp(@, n, e)]
                 /\ issued' = Append(issued, [user |-> u, expiry |-> e])
      BY <3>0
    <3>2. /\ DOMAIN issued' = DOMAIN issued \cup {n}
          /\ \A o \in DOMAIN issued : issued'[o] = issued[o] /\ o < n
          /\ issued'[n].user = u
          /\ n \in Nat
      BY <3>1 DEF TypeOK
    <3>3. /\ \A v \in DOMAIN users : v # u => users'[v] = users[v]
          /\ users'[u].reset_otp = n
      BY <3>1 DEF TypeOK, WithOtp
    <3>4. spent' = spent
      BY <2>1 DEF StoreOtp
    <3> HIDE DEF n
    <3>5. ASSUME NEW o \in DOMAIN issued', Newest(o)', o \notin spent'
          PROVE  users'[issued'[o].user].reset_otp = o
      <4>1. CASE o = n
        BY <3>2, <3>3, <4>1
      <4>2. CASE o # n
        <5>1. o \in DOMAIN issued /\ o < n /\ issued'[o] = issued[o]
          BY <3>2, <4>2
        <5>2. issued[o].user # u
          <6>1. issued'[n].user = issued'[o].user => n <= o
            BY <3>2, <3>5 DEF Newest
          <6> QED BY <3>2, <5>1, <6>1 DEF TypeOK
        <5>3. Newest(o)
          BY <3>2, <3>5, <5>1 DEF Newest
        <5>4. users[issued[o].user].reset_otp = o
          BY <3>4, <3>5, <5>1, <5>3 DEF NewestIsHeld
        <5>5. issued[o].user \in DOMAIN users
          BY <5>1 DEF AccountsInv, IssuedToAccounts
        <5> QED BY <3>3, <5>1, <5>2, <5>4, <5>5
      <4> QED BY <4>1, <4>2
    <3> QED BY <3>5 DEF NewestIsHeld
  <2>2. ASSUME NEW s \in Sessions, SetPassword(s)
        PROVE  NewestIsHeld'
    <3>1. PICK u \in DOMAIN users :
                 /\ FindsByPhone(u, call[s].phone)
                 /\ users' = [users EXCEPT ![u] = WithPassword(@, call[s].password)]
      BY <2>2 DEF SetPassword
    <3>2. \A v \in DOMAIN users : v # u => users'[v] = users[v]
      BY <3>1 DEF TypeOK
    <3>3. issued' = issued /\ spent' = spent \cup {call[s].otp}
      BY <2>2 DEF SetPassword
    <3>4. users[u].reset_otp = call[s].otp
      BY <2>2, <3>1 DEF SetPassword, OrderlyInv, SettersHold, Holds
    <3>5. ASSUME NEW o \in DOMAIN issued, Newest(o), o \notin spent'
          PROVE  users'[issued[o].user].reset_otp = o
      <4>1. users[issued[o].user].reset_otp = o /\ issued[o].user \in DOMAIN users
        BY <3>3, <3>5 DEF NewestIsHeld, AccountsInv, IssuedToAccounts
      <4>2. issued[o].user # u
        BY <3>3, <3>4, <3>5, <4>1
      <4> QED BY <3>2, <4>1, <4>2
    <3> QED BY <3>3, <3>5 DEF NewestIsHeld, Newest
  <2>3. ASSUME NEW s \in Sessions, InsertUser(s)
        PROVE  NewestIsHeld'
    <3>1. users' = users \/ users' = Append(users, NewUser(call[s]))
      BY <2>3 DEF InsertUser
    <3>2. \A u \in DOMAIN users : users'[u] = users[u]
      <4>1. users \in Seq(User)
        BY DEF TypeOK
      <4> QED BY <3>1, <4>1
    <3>3. issued' = issued /\ spent' = spent
      BY <2>3 DEF InsertUser
    <3> QED BY <3>2, <3>3 DEF NewestIsHeld, Newest, AccountsInv, IssuedToAccounts
  <2>4. CASE UNCHANGED <<users, issued, spent>>
    BY <2>4 DEF NewestIsHeld, Newest
  <2> QED
    BY <2>1, <2>2, <2>3, <2>4
       DEF OrderlyNext, UncutNext, Step, Tick, Register, SendOtp, SendSms, VerifyOtp,
           Back, vars
<1>3. TypeOK /\ AccountsInv /\ NewestIsHeld /\ ReceivedWereIssued => NewestOtpIsValid
  <2> SUFFICES ASSUME TypeOK, AccountsInv, NewestIsHeld, ReceivedWereIssued,
                      NEW p \in Phones, NEW o \in inbox[p],
                      Newest(o), o \notin spent, clock <= issued[o].expiry
               PROVE  Accepts(issued[o].user, o)
    BY DEF NewestOtpIsValid
  <2>1. o \in DOMAIN issued /\ o # NoOtp
    BY DEF ReceivedWereIssued, TypeOK, NoOtp
  <2>2. users[issued[o].user].reset_otp = o /\ issued[o].user \in DOMAIN users
    BY <2>1 DEF NewestIsHeld, AccountsInv, IssuedToAccounts
  <2>3. issued[o].expiry = users[issued[o].user].otp_expiry
    <3>1. PICK u \in DOMAIN users : u = issued[o].user /\ users[u].reset_otp = o
      BY <2>2
    <3>2. issued[o] = [user |-> u, expiry |-> users[u].otp_expiry]
      BY <2>1, <3>1 DEF AccountsInv, HeldOtpIsNewest
    <3> QED BY <3>1, <3>2
  <2> QED BY <2>2, <2>3 DEF Accepts
<1>4. OrderlySpec => []ReceivedWereIssued
  BY OrderlyIsSpec, ReceivedInvariant, PTL
<1> QED BY <1>1, <1>2, <1>3, <1>4, OrderlyInvariant, PTL DEF OrderlySpec
-----------------------------------------------------------------------------
(* The accounts implement their book *)

AccountRecord == [username: Usernames, phone: Phones, password: Passwords, key: Nat]

\* The accounts of the book are a sequence, one for one the user documents.
LEMMA AccountsAreSeq ==
    ASSUME users \in Seq(User)
    PROVE  /\ AccountsOf \in Seq(AccountRecord) /\ Len(AccountsOf) = Len(users)
           /\ DOMAIN AccountsOf = DOMAIN users
           /\ \A u \in DOMAIN users : AccountsOf[u] = AccountOf(users[u])
<1>1. \A u \in 1..Len(users) : AccountOf(users[u]) \in AccountRecord
  <2>1. \A u \in 1..Len(users) : users[u] \in User
    OBVIOUS
  <2> QED BY <2>1 DEF AccountOf, AccountRecord, User
<1>2. DOMAIN users = 1..Len(users) /\ Len(users) \in Nat
  OBVIOUS
<1>3. AccountsOf = [u \in 1..Len(users) |-> AccountOf(users[u])]
  BY <1>2 DEF AccountsOf
<1> QED BY <1>1, <1>2, <1>3

\* A new document is a new account of the book.
LEMMA InsertAppends ==
    ASSUME users \in Seq(User), NEW doc \in User, users' = Append(users, doc)
    PROVE  AccountsOf' = Append(AccountsOf, AccountOf(doc))
<1>1. users' \in Seq(User) /\ Len(users') = Len(users) + 1
  OBVIOUS
<1>2. /\ AccountsOf' \in Seq(AccountRecord) /\ Len(AccountsOf') = Len(users')
      /\ \A u \in DOMAIN users' : AccountsOf'[u] = AccountOf(users'[u])
  <2>1. AccountsOf' = [u \in DOMAIN users' |-> AccountOf(users'[u])]
    BY DEF AccountsOf, AccountOf
  <2>2. \A u \in 1..Len(users') : AccountOf(users'[u]) \in AccountRecord
    <3>1. \A u \in 1..Len(users') : users'[u] \in User
      BY <1>1
    <3> QED BY <3>1 DEF AccountOf, AccountRecord, User
  <2>3. DOMAIN users' = 1..Len(users') /\ Len(users') \in Nat
    BY <1>1
  <2> QED BY <2>1, <2>2, <2>3
<1>3. \A u \in 1..Len(users') :
         users'[u] = IF u = Len(users) + 1 THEN doc ELSE users[u]
  OBVIOUS
<1>4. /\ AccountsOf \in Seq(AccountRecord) /\ Len(AccountsOf) = Len(users)
      /\ \A u \in 1..Len(users) : AccountsOf[u] = AccountOf(users[u])
  BY AccountsAreSeq
<1> DEFINE A == AccountsOf
           B == AccountsOf'
           n == Len(users)
           a == AccountOf(doc)
<1>5. /\ A \in Seq(AccountRecord) /\ B \in Seq(AccountRecord)
      /\ Len(A) = n /\ Len(B) = n + 1 /\ B[n + 1] = a
      /\ \A u \in 1..n : B[u] = A[u]
  BY <1>1, <1>2, <1>3, <1>4
<1>6. a \in AccountRecord
  BY DEF AccountOf, AccountRecord, User
<1> HIDE DEF A, B, n, a
<1>7. B = Append(A, a)
  BY <1>5, <1>6
<1> QED BY <1>7 DEF A, B, a

\* A document that is set is an account of the book that is set.
LEMMA UpdateSets ==
    ASSUME users \in Seq(User), NEW u \in DOMAIN users, NEW doc,
           users' = [users EXCEPT ![u] = doc]
    PROVE  AccountsOf' = [AccountsOf EXCEPT ![u] = AccountOf(doc)]
<1>1. AccountsOf' = [v \in DOMAIN users' |-> AccountOf(users'[v])]
  BY DEF AccountsOf, AccountOf
<1>2. /\ DOMAIN users' = DOMAIN users
      /\ \A v \in DOMAIN users : users'[v] = IF v = u THEN doc ELSE users[v]
  OBVIOUS
<1> QED BY <1>1, <1>2 DEF AccountsOf

\* An orderly step is a step of the book, or none.
LEMMA OrderlyStepsBook ==
    ASSUME TypeOK, AccountsInv, OrderlyInv, [OrderlyNext]_vars
    PROVE  [Promise!BookNext]_Promise!bookVars
<1>u. users \in Seq(User) /\ issued \in Seq([user: Nat, expiry: Nat])
  BY DEF TypeOK
<1>a. /\ DOMAIN AccountsOf = DOMAIN users
      /\ \A v \in DOMAIN users : AccountsOf[v] = AccountOf(users[v])
  BY <1>u, AccountsAreSeq
<1>1. ASSUME UNCHANGED <<users, issued>>
      PROVE  UNCHANGED Promise!bookVars
  BY <1>1 DEF Promise!bookVars, AccountsOf
<1>2. ASSUME NEW s \in Sessions, InsertUser(s)
      PROVE  Promise!BookNext \/ UNCHANGED Promise!bookVars
  <2>1. CASE UNCHANGED users
    BY <1>1, <1>2, <2>1 DEF InsertUser
  <2>2. CASE ~UNCHANGED users
    <3> DEFINE k == call[s]
               doc == NewUser(k)
    <3>1. /\ k.username \in Usernames /\ k.phone \in Phones /\ k.password \in Passwords
      BY <1>2 DEF InsertUser, TypeOK, Call, CallRecord
    <3>2. /\ ~TakenName(k.username) /\ users' = Append(users, doc) /\ issued' = issued
      BY <1>2, <2>2 DEF InsertUser
    <3>3. /\ doc \in User /\ AccountOf(doc) =
             Promise!Account(k.username, k.phone, k.password, Promise!NoKey)
      BY <3>1 DEF NewUser, User, NoOtp, AccountOf, Promise!Account, Promise!NoKey
    <3> HIDE DEF doc
    <3>4. AccountsOf' = Append(AccountsOf, AccountOf(doc))
      BY <1>u, <3>2, <3>3, InsertAppends
    <3>5. \A v \in DOMAIN AccountsOf : AccountsOf[v].username # k.username
      BY <1>a, <3>2 DEF TakenName, AccountOf
    <3>6. Promise!OpenAccount(k.username, k.phone, k.password)
      BY <3>2, <3>3, <3>4, <3>5 DEF Promise!OpenAccount
    <3> QED BY <3>1, <3>6 DEF Promise!BookNext
  <2> QED BY <2>1, <2>2
<1>3. ASSUME NEW s \in Sessions, StoreOtp(s)
      PROVE  Promise!BookNext
  <2> DEFINE o == Len(issued) + 1
  <2>1. PICK u \in DOMAIN users : \E r, e :
               /\ users' = [users EXCEPT ![u] = WithOtp(@, o, e)]
               /\ issued' = Append(issued, r)
    BY <1>3 DEF StoreOtp
  <2>2. PICK r, e : /\ users' = [users EXCEPT ![u] = WithOtp(users[u], o, e)]
                    /\ issued' = Append(issued, r)
    BY <2>1
  <2>3. Len(issued') = o
    BY <1>u, <2>2
  <2>4. AccountOf(WithOtp(users[u], o, e)) =
           Promise!Account(AccountsOf[u].username, AccountsOf[u].phone,
                           AccountsOf[u].password, o)
    BY <1>a DEF AccountOf, WithOtp, Promise!Account
  <2>5. AccountsOf' = [AccountsOf EXCEPT ![u] = AccountOf(WithOtp(users[u], o, e))]
    BY <1>u, <2>2, UpdateSets
  <2>6. Promise!CutKey(u)
    BY <1>a, <2>3, <2>4, <2>5 DEF Promise!CutKey
  <2> QED BY <1>a, <2>6 DEF Promise!BookNext
<1>4. ASSUME NEW s \in Sessions, SetPassword(s)
      PROVE  Promise!BookNext
  <2> DEFINE k == call[s]
  <2>1. k.pc = "set" /\ k.password \in Passwords /\ k.otp # NoOtp
    BY <1>4 DEF SetPassword, TypeOK, Call, CallRecord
  <2>2. PICK u \in DOMAIN users :
               /\ FindsByPhone(u, k.phone)
               /\ users' = [users EXCEPT ![u] = WithPassword(users[u], k.password)]
    BY <1>4 DEF SetPassword
  <2>3. users[u].reset_otp = k.otp
    BY <2>1, <2>2 DEF OrderlyInv, SettersHold, Holds
  <2>4. AccountsOf[u].key # Promise!NoKey
    BY <1>a, <2>1, <2>3 DEF AccountOf, Promise!NoKey, NoOtp
  <2>5. AccountOf(WithPassword(users[u], k.password)) =
           Promise!Account(AccountsOf[u].username, AccountsOf[u].phone,
                           k.password, Promise!NoKey)
    BY <1>a DEF AccountOf, WithPassword, Promise!Account, Promise!NoKey, NoOtp
  <2>6. AccountsOf' = [AccountsOf EXCEPT ![u] = AccountOf(WithPassword(users[u], k.password))]
    BY <1>u, <2>2, UpdateSets
  <2>7. issued' = issued
    BY <1>4 DEF SetPassword
  <2>8. Promise!UseKey(u, k.password)
    BY <1>a, <2>4, <2>5, <2>6, <2>7 DEF Promise!UseKey
  <2> QED BY <1>a, <2>1, <2>8 DEF Promise!BookNext
<1> QED
  BY <1>1, <1>2, <1>3, <1>4
     DEF OrderlyNext, UncutNext, Step, Tick, Register, SendOtp, SendSms, VerifyOtp, Back, vars

\* Without overlapping calls on a phone, the accounts are what their book promises:
\* a new key replaces the old one, and is good for one change of the password.
THEOREM AccountsImplementBook == OrderlySpec => ImplementsAccountBook
<1>1. Init => Promise!BookInit
  BY DEF Init, AccountsOf, Promise!BookInit
<1> QED
  BY <1>1, OrderlyStepsBook, OrderlyInvariant, PTL
     DEF OrderlySpec, ImplementsAccountBook, Promise!BookSpec
=============================================================================
