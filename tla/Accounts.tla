------------------------------ MODULE Accounts ------------------------------
(***************************************************************************)
(* Merchant accounts: registration (auth.py), and the way back in with a   *)
(* one-time password sent by SMS (otp.py), as the page of app.py drives    *)
(* them.  One action is one MongoDB round trip, or one call of Twilio,     *)
(* together with the local computation before it; the round trips of       *)
(* different sessions interleave.                                          *)
(*                                                                         *)
(* The collection "users" is the sequence of its documents in the order of *)
(* insertion, which is the order find_one and update_one look at them when *)
(* no index helps: there is one on the username, none on the phone.        *)
(* Documents are never deleted.                                            *)
(*                                                                         *)
(* Abstracted: one-time passwords are numbered in the order they are       *)
(* stored, so that no two are equal (the code draws one of 900000); a      *)
(* password stands for its hash; the clock counts periods, Validity of     *)
(* which make ten minutes; an OTP that is typed has been sent to somebody; *)
(* how long a message takes is in how late its OTP is typed.               *)
(*                                                                         *)
(* A definition whose comment begins with "Mutant" is a plausible slip in  *)
(* the definition after it, and is used by no specification.               *)
(***************************************************************************)
EXTENDS Integers, Sequences

CONSTANTS
    Sessions,   \* browser sessions on the page of somebody not logged in
    Usernames, Phones, Passwords,   \* what is typed into the forms
    NoPhone,    \* no phone: the session's page has not sent an OTP
    NoName, NoPassword, \* of a call that sets none
    Validity,   \* how long an OTP is valid
    MaxUsers,   \* bound: accounts
    MaxOtps,    \* bound: OTPs ever stored
    MaxClock    \* bound: time

ASSUME AccountsAssumption ==
    /\ NoPhone \notin Phones
    /\ Validity \in Nat
    /\ MaxUsers \in Nat /\ MaxOtps \in Nat /\ MaxClock \in Nat

VARIABLES
    users,      \* collection "users", in order of insertion
    clock,      \* datetime.utcnow()
    call,       \* call[s] = the function session s is running, its locals
    page,       \* page[s] = st.session_state.otp_phone while otp_sent
    inbox,      \* inbox[p] = the OTPs that Twilio has taken for phone p
    \* History, for the properties only
    issued,     \* the OTPs stored so far: account and expiry
    spent       \* the OTPs that have set a password

vars == <<users, clock, call, page, inbox, issued, spent>>

NoOtp == 0

User == [username: Usernames, phone: Phones, password: Passwords,
         reset_otp: Nat, otp_expiry: Nat]

CallRecord ==
    [pc: {"idle", "insert", "store", "sms", "set"},
     username: Usernames \cup {NoName}, phone: Phones \cup {NoPhone},
     password: Passwords \cup {NoPassword}, otp: Nat, at: Nat]

\* A function in progress: the next round trip and the values it holds, the time
\* at which it compared an OTP's expiry among them
Running(pc, name, p, pw, o, at) ==
    [pc |-> pc, username |-> name, phone |-> p, password |-> pw, otp |-> o, at |-> at]

Idle == Running("idle", NoName, NoPhone, NoPassword, NoOtp, 0)

Call == {k \in CallRecord :
            /\ k.pc = "insert" => k.username \in Usernames /\ k.password \in Passwords
            /\ k.pc \notin {"idle"} => k.phone \in Phones
            /\ k.pc = "set" => k.password \in Passwords
            /\ k.pc \in {"sms", "set"} => k.otp # NoOtp}

Busy(s) == call[s].pc # "idle"

\* find_one({"phone": p}), and the filter of an update_one by phone
FindsByPhone(u, p) ==
    /\ u \in DOMAIN users
    /\ users[u].phone = p
    /\ \A v \in DOMAIN users : users[v].phone = p => u <= v

TakenName(name) == \E u \in DOMAIN users : users[u].username = name

\* Account u accepts OTP o now: verify_otp's two comparisons
Accepts(u, o) ==
    /\ users[u].reset_otp = o
    /\ clock <= users[u].otp_expiry

-----------------------------------------------------------------------------
(* Registration *)

NewUser(k) == [username |-> k.username, phone |-> k.phone, password |-> k.password,
               reset_otp |-> NoOtp, otp_expiry |-> 0]

\* register_user's find_one: the name is free
Register(s, name, p, pw) ==
    /\ call[s].pc = "idle"
    /\ ~TakenName(name)
    /\ call' = [call EXCEPT ![s] = Running("insert", name, p, pw, NoOtp, 0)]
    /\ UNCHANGED <<users, clock, page, inbox, issued, spent>>

\* Mutant of InsertUser: no unique index on the username
InsertUserUnindexed(s) ==
    /\ call[s].pc = "insert"
    /\ Len(users) < MaxUsers
    /\ users' = Append(users, NewUser(call[s]))
    /\ call' = [call EXCEPT ![s] = Idle]
    /\ UNCHANGED <<clock, page, inbox, issued, spent>>

\* register_user's insert_one.  When the name has been taken since, the unique
\* index makes it raise.
InsertUser(s) ==
    /\ call[s].pc = "insert"
    /\ \/ /\ TakenName(call[s].username)
          /\ UNCHANGED users
       \/ /\ ~TakenName(call[s].username)
          /\ Len(users) < MaxUsers
          /\ users' = Append(users, NewUser(call[s]))
    /\ call' = [call EXCEPT ![s] = Idle]
    /\ UNCHANGED <<clock, page, inbox, issued, spent>>

-----------------------------------------------------------------------------
(* Sending an OTP *)

\* send_otp_to_phone's find_one.  The form is there only while no OTP was sent.
SendOtp(s, p) ==
    /\ call[s].pc = "idle" /\ page[s] = NoPhone
    /\ \E u \in DOMAIN users : users[u].phone = p
    /\ call' = [call EXCEPT ![s] = Running("store", NoName, p, NoPassword, NoOtp, 0)]
    /\ UNCHANGED <<users, clock, page, inbox, issued, spent>>

\* The user document with a new OTP
WithOtp(user, o, expiry) ==
    [username |-> user.username, phone |-> user.phone, password |-> user.password,
     reset_otp |-> o, otp_expiry |-> expiry]

\* Mutant of StoreOtp: the expiry of an OTP that was never used is kept
StoreOtpOldExpiry(s) ==
    /\ call[s].pc = "store"
    /\ Len(issued) < MaxOtps
    /\ \E u \in DOMAIN users :
          LET o == Len(issued) + 1
              expiry == IF users[u].otp_expiry = 0 THEN clock + Validity
                        ELSE users[u].otp_expiry
          IN  /\ FindsByPhone(u, call[s].phone)
              /\ users' = [users EXCEPT ![u] = WithOtp(@, o, expiry)]
              /\ issued' = Append(issued, [user |-> u, expiry |-> clock + Validity])
              /\ call' = [call EXCEPT ![s] =
                             Running("sms", NoName, @.phone, NoPassword, o, 0)]
    /\ UNCHANGED <<clock, page, inbox, spent>>

\* Its update_one, with a new OTP: $set reset_otp and otp_expiry, by phone
StoreOtp(s) ==
    /\ call[s].pc = "store"
    /\ Len(issued) < MaxOtps
    /\ \E u \in DOMAIN users :
          LET o == Len(issued) + 1
              expiry == clock + Validity
          IN  /\ FindsByPhone(u, call[s].phone)
              /\ users' = [users EXCEPT ![u] = WithOtp(@, o, expiry)]
              /\ issued' = Append(issued, [user |-> u, expiry |-> expiry])
              /\ call' = [call EXCEPT ![s] =
                             Running("sms", NoName, @.phone, NoPassword, o, 0)]
    /\ UNCHANGED <<clock, page, inbox, spent>>

\* Its send_sms.  The OTP is on its way to the phone, or it is not: send_otp_to_phone
\* reports success all the same, and the page, which reruns at once, says that
\* the OTP was sent and drops the message that holds it.
SendSms(s) ==
    /\ call[s].pc = "sms"
    /\ \/ inbox' = [inbox EXCEPT ![call[s].phone] = @ \cup {call[s].otp}]
       \/ UNCHANGED inbox
    /\ page' = [page EXCEPT ![s] = call[s].phone]
    /\ call' = [call EXCEPT ![s] = Idle]
    /\ UNCHANGED <<users, clock, issued, spent>>

-----------------------------------------------------------------------------
(* Setting a new password *)

\* Mutants of VerifyOtp: the expiry is not compared; an account that has no OTP
\* takes any
VerifyOtpUntimed(s, o, pw) ==
    /\ call[s].pc = "idle" /\ page[s] # NoPhone
    /\ \E u \in DOMAIN users : FindsByPhone(u, page[s]) /\ users[u].reset_otp = o
    /\ call' = [call EXCEPT ![s] = Running("set", NoName, page[s], pw, o, clock)]
    /\ UNCHANGED <<users, clock, page, inbox, issued, spent>>

VerifyOtpIfAny(s, o, pw) ==
    /\ call[s].pc = "idle" /\ page[s] # NoPhone
    /\ \E u \in DOMAIN users : /\ FindsByPhone(u, page[s])
                               /\ Accepts(u, o) \/ users[u].reset_otp = NoOtp
    /\ call' = [call EXCEPT ![s] = Running("set", NoName, page[s], pw, o, clock)]
    /\ UNCHANGED <<users, clock, page, inbox, issued, spent>>

\* reset_password_with_otp up to the find_one of verify_otp: the OTP is accepted
VerifyOtp(s, o, pw) ==
    /\ call[s].pc = "idle" /\ page[s] # NoPhone
    /\ \E u \in DOMAIN users : FindsByPhone(u, page[s]) /\ Accepts(u, o)
    /\ call' = [call EXCEPT ![s] = Running("set", NoName, page[s], pw, o, clock)]
    /\ UNCHANGED <<users, clock, page, inbox, issued, spent>>

\* Mutants of WithPassword: the OTP stays; its expiry stays
WithPasswordAndOtp(user, pw) == [user EXCEPT !.password = pw]
WithPasswordAndExpiry(user, pw) ==
    [user EXCEPT !.password = pw, !.reset_otp = NoOtp]

\* The user document with a new password and no OTP
WithPassword(user, pw) ==
    [username |-> user.username, phone |-> user.phone, password |-> pw,
     reset_otp |-> NoOtp, otp_expiry |-> 0]

\* Its update_one: $set password, $unset reset_otp and otp_expiry, by phone.
\* The page goes back to the first form.
SetPassword(s) ==
    /\ call[s].pc = "set"
    /\ \E u \in DOMAIN users :
          /\ FindsByPhone(u, call[s].phone)
          /\ users' = [users EXCEPT ![u] = WithPassword(@, call[s].password)]
    /\ spent' = spent \cup {call[s].otp}
    /\ page' = [page EXCEPT ![s] = NoPhone]
    /\ call' = [call EXCEPT ![s] = Idle]
    /\ UNCHANGED <<clock, inbox, issued>>

\* The button "Back"
Back(s) ==
    /\ call[s].pc = "idle" /\ page[s] # NoPhone
    /\ page' = [page EXCEPT ![s] = NoPhone]
    /\ UNCHANGED <<users, clock, call, inbox, issued, spent>>

-----------------------------------------------------------------------------
(* The environment *)

\* A round trip raises, or the server stops and with it what it knows of the
\* session: the rest of the call never happens.
Abort(s) ==
    /\ Busy(s)
    /\ call' = [call EXCEPT ![s] = Idle]
    /\ \/ UNCHANGED page
       \/ page' = [page EXCEPT ![s] = NoPhone]
    /\ UNCHANGED <<users, clock, inbox, issued, spent>>

Tick ==
    /\ clock < MaxClock
    /\ clock' = clock + 1
    /\ UNCHANGED <<users, call, page, inbox, issued, spent>>

-----------------------------------------------------------------------------
(* Specifications *)

Init ==
    /\ users = <<>>
    /\ clock = 0
    /\ call = [s \in Sessions |-> Idle]
    /\ page = [s \in Sessions |-> NoPhone]
    /\ inbox = [p \in Phones |-> {}]
    /\ issued = <<>>
    /\ spent = {}

Step(s) ==
    \/ \E name \in Usernames, p \in Phones, pw \in Passwords :
          Register(s, name, p, pw)
    \/ InsertUser(s)
    \/ \E p \in Phones : SendOtp(s, p)
    \/ StoreOtp(s)
    \/ SendSms(s)
    \/ \E p \in Phones : \E o \in inbox[p], pw \in Passwords : VerifyOtp(s, o, pw)
    \/ SetPassword(s)
    \/ Back(s)

\* The program as it is: any interleaving, any call cut short.
Next == Tick \/ \E s \in Sessions : Step(s) \/ Abort(s)
Spec == Init /\ [][Next]_vars

\* No call is cut short.
UncutNext == Tick \/ \E s \in Sessions : Step(s)

\* Sessions r and s are both in a call about the account of one phone
Clash(r, s) ==
    /\ {call[r].pc, call[s].pc} \subseteq {"store", "sms", "set"}
    /\ call[r].phone = call[s].phone

OneCallPerPhone == \A r, s \in Sessions : r # s => ~Clash(r, s)

\* One person at a time sends and uses the OTPs of a phone.
OrderlyNext == UncutNext /\ OneCallPerPhone'
OrderlySpec == Init /\ [][OrderlyNext]_vars

-----------------------------------------------------------------------------
(* Properties *)

\* Every variable has its type; a user document has both fields of an OTP or
\* neither.
TypeOK ==
    /\ users \in Seq(User)
    /\ \A u \in DOMAIN users :
          users[u].reset_otp = NoOtp => users[u].otp_expiry = 0
    /\ clock \in 0..MaxClock
    /\ call \in [Sessions -> Call]
    /\ page \in [Sessions -> Phones \cup {NoPhone}]
    /\ inbox \in [Phones -> SUBSET (Nat \ {NoOtp})]
    /\ issued \in Seq([user: Nat, expiry: Nat])
    /\ spent \in SUBSET Nat

\* No two accounts have one username, although two registrations can both have
\* found it free.
UsernamesUnique ==
    \A u, v \in DOMAIN users : users[u].username = users[v].username => u = v

\* The OTP an account holds is the last one stored for it, has the expiry it was
\* stored with, and has never set a password, whatever interleaves or is cut
\* short.
HeldOtpIsNewest ==
    \A u \in DOMAIN users :
        LET o == users[u].reset_otp
        IN  o # NoOtp =>
              /\ o \in DOMAIN issued
              /\ issued[o] = [user |-> u, expiry |-> users[u].otp_expiry]
              /\ \A q \in DOMAIN issued : issued[q].user = u => q <= o
              /\ o \notin spent

\* A password changes only through a call that was shown, in time, an OTP stored
\* for that account.
PasswordChangeIsProved ==
    [][\A u \in DOMAIN users :
          users'[u].password # users[u].password =>
              \E s \in Sessions :
                  /\ call[s].pc = "set" /\ call'[s].pc = "idle"
                  /\ call[s].otp \in DOMAIN issued
                  /\ issued[call[s].otp].user = u
                  /\ call[s].at <= issued[call[s].otp].expiry]_vars

\* OTP o is the last one stored for its account.
Newest(o) ==
    \A q \in DOMAIN issued : issued[q].user = issued[o].user => q <= o

\* "Your Digital Ledger password reset OTP is ... Valid for 10 minutes": the
\* newest OTP of an account, once sent, is accepted until it is used or out
\* of date.
NewestOtpIsValid ==
    \A p \in Phones : \A o \in inbox[p] :
        Newest(o) /\ o \notin spent /\ clock <= issued[o].expiry
            => Accepts(issued[o].user, o)

-----------------------------------------------------------------------------
(* What an account promises: module AccountBook, with the OTP an account    *)
(* holds as its key.                                                        *)

AccountOf(user) ==
    [username |-> user.username, phone |-> user.phone, password |-> user.password,
     key |-> user.reset_otp]

AccountsOf == [u \in DOMAIN users |-> AccountOf(users[u])]

Promise == INSTANCE AccountBook WITH accounts <- AccountsOf, keys <- Len(issued)

\* As long as one person at a time uses the OTPs of a phone, a key changes the
\* password of its account once, and in one step.
ImplementsAccountBook == Promise!BookSpec
=============================================================================
