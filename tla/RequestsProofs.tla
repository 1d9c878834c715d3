---------------------------- MODULE RequestsProofs ----------------------------
(***************************************************************************)
(* Proofs about the requests of users: Accounts, LessonTests and CostMeter. *)
(*                                                                         *)
(* A request works with what it read before its transactions.  What carries *)
(* the proofs is that an account never changes its password and never      *)
(* loses its role, so that what a request remembers of one stays true; that *)
(* a test is told by when it was made; and that a refresh of the costs that *)
(* was not overtaken has seen what is shown.                               *)
(***************************************************************************)
EXTENDS Accounts, LessonTests, CostMeter, FiniteSetTheorems, TLAPS

\* What a request remembers of an account it has verified.
Remembered ==
    \A c \in Callers : call[c].at = "enter" =>
        /\ users[call[c].name] # None
        /\ users[call[c].name].password = call[c].password
        /\ call[c].role = "admin" => users[call[c].name].role = "admin"

\* Requests that use a name or a password have one.
Given ==
    \A c \in Callers :
        /\ call[c].at \in {"insert", "verify", "enter", "count"} => call[c].name \in Names
        /\ call[c].at \in {"insert", "verify", "enter"} => call[c].password \in Passwords
        /\ call[c].at = "count" => call[c].id # 0

AccountsInv == AccountsTypeOK /\ Given /\ Remembered /\ AccountsHold

\* No step takes an account away, changes its password or lowers its role.
AccountsStay ==
    \A n \in Names : users[n] # None =>
        /\ users'[n] # None
        /\ users'[n].password = users[n].password
        /\ users[n].role = "admin" => users'[n].role = "admin"

LEMMA AccountsInitOK == AccountsInit => AccountsInv
BY NameAssumption, LimitAssumption, AllowanceAssumption
   DEF AccountsInit, AccountsInv, AccountsTypeOK, Given, Remembered, AccountsHold, SignUpHolds,
       SessionsWithinAccount, NoCall, Role, Account

LEMMA Stay == ASSUME AccountsTypeOK, Given, AccountsNext PROVE AccountsStay
<1> USE NameAssumption DEF AccountsTypeOK, AccountsStay, Account
<1>1. ASSUME NEW c \in Callers, Insert(c) PROVE AccountsStay
  <2>1. call[c].name \in Names
    BY <1>1 DEF Insert, Given
  <2> QED BY <1>1, <2>1 DEF Insert
<1>2. CASE Restart
  <2> DEFINE old == users[Admin]
             new == [old EXCEPT !.role = "admin"]
  <2>1. ASSUME old # None
        PROVE new \in Account /\ new.password = old.password /\ new.role = "admin"
    <3>1. old \in [password : Passwords, role : Role]
      BY <2>1
    <3> QED BY <3>1 DEF Role
  <2>2. \A n \in Names : n # Admin => users'[n] = users[n]
    BY <1>2 DEF Restart
  <2>3. old # None => users'[Admin] = new
    BY <1>2 DEF Restart
  <2>4. old # None => users'[Admin] # None
    BY <2>1, <2>3
  <2> QED BY <2>1, <2>2, <2>3, <2>4
<1>3. CASE UNCHANGED users
  BY <1>3
<1>4. ASSUME NEW c \in Callers,
             \/ Register(c) \/ Login(c) \/ Verify(c) \/ Enter(c) \/ Logout(c)
             \/ Ask(c) \/ Count(c) \/ Decline(c) \/ Answer(c) \/ Reply(c)
      PROVE UNCHANGED users
  BY <1>4 DEF Register, Login, Verify, Enter, Logout, Ask, Count, Decline, Answer, Reply
<1>5. Tick => UNCHANGED users
  BY DEF Tick
<1> QED BY <1>1, <1>2, <1>3, <1>4, <1>5 DEF AccountsNext

\* The requests of the next state, as the actions change one of them.
CallType == [at : {"idle", "insert", "verify", "enter", "count", "answer", "reply"}, id : 0..MaxRequests,
             new : BOOLEAN, name : Names \cup {None}, password : Passwords \cup {None},
             role : Role, time : 0..MaxTime]

GivenIn(r) ==
    /\ r.at \in {"insert", "verify", "enter", "count"} => r.name \in Names
    /\ r.at \in {"insert", "verify", "enter"} => r.password \in Passwords
    /\ r.at = "count" => r.id # 0

LEMMA CallChanged ==
    ASSUME AccountsTypeOK, Given, NEW c \in Callers, NEW r \in CallType, GivenIn(r),
           call' = [call EXCEPT ![c] = r]
    PROVE  /\ call' \in [Callers -> CallType]
           /\ Given'
BY DEF AccountsTypeOK, Given, GivenIn, CallType

LEMMA TypesKept ==
    ASSUME AccountsTypeOK, Given, AccountsNext PROVE AccountsTypeOK' /\ Given'
<1> USE NameAssumption, LimitAssumption, AllowanceAssumption
<1>0. NoCall \in CallType /\ GivenIn(NoCall) /\ call \in [Callers -> CallType]
  BY DEF NoCall, CallType, Role, GivenIn, AccountsTypeOK
<1>1. ASSUME NEW c \in Callers, Register(c) PROVE AccountsTypeOK' /\ Given'
  <2>1. PICK n \in Names, p \in Passwords : call' = [call EXCEPT ![c] =
            SignOn("insert", TRUE, n, p)]
    BY <1>1 DEF Register
  <2> DEFINE r == SignOn("insert", TRUE, n, p)
  <2>2. requests' \in 0..MaxRequests
    BY <1>1 DEF Register, Request, AccountsTypeOK
  <2>3. r \in CallType /\ GivenIn(r)
    BY <2>2 DEF SignOn, CallType, Role, GivenIn
  <2>4. call' = [call EXCEPT ![c] = r]
    BY <2>1
  <2>5. call' \in [Callers -> CallType] /\ Given'
    BY <2>3, <2>4, CallChanged
  <2> QED BY <1>1, <2>2, <2>5 DEF Register, AccountsTypeOK, CallType
<1>2. ASSUME NEW c \in Callers, Insert(c) PROVE AccountsTypeOK' /\ Given'
  <2>1. call[c] \in CallType /\ GivenIn(call[c]) /\ call[c].at = "insert"
    BY <1>0, <1>2 DEF Insert, Given, GivenIn
  <2> DEFINE r == [call[c] EXCEPT !.at = "verify"]
  <2>2. r \in CallType /\ GivenIn(r)
    BY <2>1 DEF CallType, GivenIn
  <2>3. call' = [call EXCEPT ![c] = r] \/ call' = [call EXCEPT ![c] = NoCall]
    BY <1>2 DEF Insert
  <2>4. call' \in [Callers -> CallType] /\ Given'
    BY <1>0, <2>2, <2>3, CallChanged
  <2>5. [password |-> call[c].password, role |-> "client"] \in Account
    BY <2>1 DEF GivenIn, Account, Role
  <2>6. users' \in [Names -> Account \cup {None}]
    BY <1>2, <2>5 DEF Insert, AccountsTypeOK
  <2> QED BY <1>2, <2>4, <2>6 DEF Insert, AccountsTypeOK, CallType
<1>3. ASSUME NEW c \in Callers, Login(c) PROVE AccountsTypeOK' /\ Given'
  <2>1. PICK n \in Names, p \in Passwords : call' = [call EXCEPT ![c] =
            SignOn("verify", FALSE, n, p)]
    BY <1>3 DEF Login
  <2> DEFINE r == SignOn("verify", FALSE, n, p)
  <2>2. requests' \in 0..MaxRequests
    BY <1>3 DEF Login, Request, AccountsTypeOK
  <2>3. r \in CallType /\ GivenIn(r)
    BY <2>2 DEF SignOn, CallType, Role, GivenIn
  <2>4. call' = [call EXCEPT ![c] = r]
    BY <2>1
  <2>5. call' \in [Callers -> CallType] /\ Given'
    BY <2>3, <2>4, CallChanged
  <2> QED BY <1>3, <2>2, <2>5 DEF Login, AccountsTypeOK, CallType
<1>4. ASSUME NEW c \in Callers, Verify(c) PROVE AccountsTypeOK' /\ Given'
  <2>1. call[c] \in CallType /\ GivenIn(call[c]) /\ call[c].at = "verify"
    BY <1>0, <1>4 DEF Verify, Given, GivenIn
  <2> DEFINE row == users[call[c].name]
             r == [call[c] EXCEPT !.at = "enter", !.role = row.role]
  <2>2. row # None => row.role \in Role
    BY <2>1 DEF GivenIn, AccountsTypeOK, Account
  <2>3. row # None => r \in CallType /\ GivenIn(r)
    BY <2>1, <2>2 DEF CallType, GivenIn
  <2>4. \/ row # None /\ call' = [call EXCEPT ![c] = r]
        \/ call' = [call EXCEPT ![c] = NoCall]
    BY <1>4 DEF Verify
  <2>5. call' \in [Callers -> CallType] /\ Given'
    BY <1>0, <2>3, <2>4, CallChanged
  <2> QED BY <1>4, <2>5 DEF Verify, AccountsTypeOK, CallType
<1>5. ASSUME NEW c \in Callers, Enter(c) PROVE AccountsTypeOK' /\ Given'
  <2>1. call[c] \in CallType /\ GivenIn(call[c]) /\ call[c].at = "enter"
    BY <1>0, <1>5 DEF Enter, Given, GivenIn
  <2>2. call' \in [Callers -> CallType] /\ Given'
    BY <1>0, <1>5, CallChanged DEF Enter
  <2> DEFINE s == [token |-> call[c].id, name |-> call[c].name, role |-> call[c].role,
                   expires |-> clock + Lifetime, with |-> call[c].password]
  <2>3. s \in [token : Nat, name : Names, role : Role, expires : Nat, with : Passwords]
    BY <2>1 DEF CallType, GivenIn, AccountsTypeOK
  <2>4. sessions' \subseteq [token : Nat, name : Names, role : Role, expires : Nat, with : Passwords]
    BY <1>5, <2>3 DEF Enter, AccountsTypeOK
  <2>5. cookie' \in [Callers -> Nat]
    BY <1>5, <2>1 DEF Enter, AccountsTypeOK, CallType
  <2>6. signed' \in [Names -> SUBSET Passwords]
    BY <1>5, <2>1 DEF Enter, AccountsTypeOK, GivenIn
  <2> QED BY <1>5, <2>2, <2>4, <2>5, <2>6 DEF Enter, AccountsTypeOK, CallType
<1>6. ASSUME NEW c \in Callers, Logout(c) PROVE AccountsTypeOK' /\ Given'
  BY <1>6 DEF Logout, AccountsTypeOK, Given
<1>7. ASSUME NEW c \in Callers, Ask(c) PROVE AccountsTypeOK' /\ Given'
  <2>1. PICK s \in sessions : call' = [call EXCEPT ![c] =
            [at |-> IF s.role = "admin" THEN "answer" ELSE "count", id |-> requests', new |-> FALSE,
             name |-> s.name, password |-> None, role |-> s.role, time |-> clock]]
    BY <1>7 DEF Ask, Live
  <2> DEFINE r == [at |-> IF s.role = "admin" THEN "answer" ELSE "count", id |-> requests', new |-> FALSE,
                   name |-> s.name, password |-> None, role |-> s.role, time |-> clock]
  <2>2. requests' \in 1..MaxRequests
    BY <1>7 DEF Ask, Request, AccountsTypeOK
  <2>3. s.name \in Names /\ s.role \in Role /\ clock \in 0..MaxTime
    BY DEF AccountsTypeOK
  <2>4. r \in CallType /\ GivenIn(r)
    BY <2>2, <2>3 DEF CallType, GivenIn
  <2>5. call' = [call EXCEPT ![c] = r]
    BY <2>1
  <2>6. call' \in [Callers -> CallType] /\ Given'
    BY <2>4, <2>5, CallChanged
  <2> QED BY <1>7, <2>2, <2>6 DEF Ask, AccountsTypeOK, CallType
<1>8. ASSUME NEW c \in Callers, Count(c) PROVE AccountsTypeOK' /\ Given'
  <2>1. call[c] \in CallType /\ GivenIn(call[c]) /\ call[c].at = "count"
    BY <1>0, <1>8 DEF Count, Given, GivenIn
  <2> DEFINE r == [call[c] EXCEPT !.at = "answer"]
  <2>2. r \in CallType /\ GivenIn(r)
    BY <2>1 DEF CallType, GivenIn
  <2>3. call' = [call EXCEPT ![c] = r] \/ call' = [call EXCEPT ![c] = NoCall]
    BY <1>8 DEF Count
  <2>4. call' \in [Callers -> CallType] /\ Given'
    BY <1>0, <2>2, <2>3, CallChanged
  <2> DEFINE q == [id |-> call[c].id, name |-> call[c].name, at |-> call[c].time]
  <2>5. q \in [id : 1..MaxRequests, name : Names, at : 0..MaxTime]
    BY <2>1 DEF CallType, GivenIn
  <2>6. usage' = usage \/ usage' = usage \cup {q}
    BY <1>8 DEF Count
  <2>7. usage' \subseteq [id : 1..MaxRequests, name : Names, at : 0..MaxTime]
    BY <2>5, <2>6 DEF AccountsTypeOK
  <2> QED BY <1>8, <2>4, <2>7 DEF Count, AccountsTypeOK, CallType
<1>9. ASSUME NEW c \in Callers, Decline(c) \/ Reply(c) PROVE AccountsTypeOK' /\ Given'
  <2>1. call' = [call EXCEPT ![c] = NoCall]
    BY <1>9 DEF Decline, Reply
  <2>2. call' \in [Callers -> CallType] /\ Given'
    BY <1>0, <2>1, CallChanged
  <2>3. DOMAIN sent' = Callers
    BY <1>9 DEF Decline, Reply, AccountsTypeOK
  <2> QED BY <1>9, <2>2, <2>3 DEF Decline, Reply, AccountsTypeOK, CallType
<1>10. ASSUME NEW c \in Callers, Answer(c) PROVE AccountsTypeOK' /\ Given'
  <2>1. call[c] \in CallType
    BY <1>0
  <2> DEFINE r == [call[c] EXCEPT !.at = "reply"]
  <2>2. r \in CallType /\ GivenIn(r)
    BY <2>1 DEF CallType, GivenIn
  <2>3. call' = [call EXCEPT ![c] = r]
    BY <1>10 DEF Answer
  <2>4. call' \in [Callers -> CallType] /\ Given'
    BY <2>2, <2>3, CallChanged
  <2>5. DOMAIN sent' = Callers
    BY <1>10 DEF Answer, AccountsTypeOK
  <2> QED BY <1>10, <2>4, <2>5 DEF Answer, AccountsTypeOK, CallType
<1>11. CASE Restart
  <2>1. call' = [c \in Callers |-> NoCall]
    BY <1>11 DEF Restart
  <2>2. call' \in [Callers -> CallType] /\ Given'
    BY <1>0, <2>1 DEF Given, GivenIn
  <2> DEFINE old == users[Admin]
             new == [old EXCEPT !.role = "admin"]
  <2>3. old # None => new \in Account
    <3>1. old # None => old \in [password : Passwords, role : Role]
      BY DEF AccountsTypeOK, Account
    <3> QED BY <3>1 DEF Role, Account
  <2>4. [password |-> AdminPassword, role |-> "admin"] \in Account
    BY DEF Account, Role
  <2>5. users' = [users EXCEPT ![Admin] = IF old = None THEN [password |-> AdminPassword, role |-> "admin"]
                                         ELSE new]
    BY <1>11 DEF Restart
  <2>6. users' \in [Names -> Account \cup {None}]
    BY <2>3, <2>4, <2>5 DEF AccountsTypeOK
  <2> QED BY <1>11, <2>2, <2>6 DEF Restart, AccountsTypeOK, CallType
<1>12. CASE Tick
  BY <1>12 DEF Tick, AccountsTypeOK, Given
<1> QED BY <1>1, <1>2, <1>3, <1>4, <1>5, <1>6, <1>7, <1>8, <1>9, <1>10, <1>11, <1>12 DEF AccountsNext

\* What is known of accounts stays true.
LEMMA HoldKept ==
    ASSUME AccountsInv, AccountsNext PROVE Remembered' /\ AccountsHold'
<1>1. AccountsStay
  BY Stay DEF AccountsInv
<1>2. /\ \A n \in Names : \A p \in signed[n] : users'[n] # None /\ users'[n].password = p
      /\ \A s \in sessions : /\ users'[s.name] # None
                             /\ s.with = users'[s.name].password
                             /\ s.role = "admin" => users'[s.name].role = "admin"
      /\ \A c \in Callers : call[c].at = "enter" =>
            /\ users'[call[c].name] # None
            /\ users'[call[c].name].password = call[c].password
            /\ call[c].role = "admin" => users'[call[c].name].role = "admin"
  <2>1. \A s \in sessions : s.name \in Names
    BY DEF AccountsInv, AccountsTypeOK
  <2>2. \A c \in Callers : call[c].at = "enter" => call[c].name \in Names
    BY DEF AccountsInv, Given
  <2> QED BY <1>1, <2>1, <2>2
          DEF AccountsInv, AccountsHold, SignUpHolds, SessionsWithinAccount, Remembered, AccountsStay
<1>3. ASSUME NEW c \in Callers, Enter(c) PROVE AccountsHold'
  <2>1. call[c].name \in Names
    BY <1>3 DEF Enter, AccountsInv, Given
  <2>2. call[c].at = "enter" /\ users' = users
    BY <1>3 DEF Enter
  <2>3. SignUpHolds'
    <3> SUFFICES ASSUME NEW n \in Names, NEW p \in signed'[n]
                 PROVE  users'[n] # None /\ users'[n].password = p
      BY DEF SignUpHolds
    <3>1. p \in signed[n] \/ (n = call[c].name /\ p = call[c].password)
      BY <1>3, <2>1 DEF Enter, AccountsInv, AccountsTypeOK
    <3> QED BY <1>2, <2>2, <3>1
  <2>4. SessionsWithinAccount'
    <3> DEFINE new == [token |-> call[c].id, name |-> call[c].name, role |-> call[c].role,
                       expires |-> clock + Lifetime, with |-> call[c].password]
    <3>1. sessions' = sessions \cup {new}
      BY <1>3 DEF Enter
    <3>2. new.name = call[c].name /\ new.role = call[c].role /\ new.with = call[c].password
      OBVIOUS
    <3> HIDE DEF new
    <3> QED BY <1>2, <2>2, <3>1, <3>2 DEF SessionsWithinAccount
  <2> QED BY <2>3, <2>4 DEF AccountsHold
<1>4. ASSUME sessions' \subseteq sessions, signed' = signed PROVE AccountsHold'
  BY <1>2, <1>4 DEF AccountsHold, SignUpHolds, SessionsWithinAccount
<1>5. ASSUME \A c \in Callers : call'[c].at = "enter" => call'[c] = call[c] PROVE Remembered'
  BY <1>2, <1>5 DEF Remembered
<1>6. ASSUME NEW c \in Callers, NEW r, r.at # "enter", call' = [call EXCEPT ![c] = r] PROVE Remembered'
  <2>1. \A d \in Callers : call'[d].at = "enter" => call'[d] = call[d]
    BY <1>6 DEF AccountsInv, AccountsTypeOK
  <2> QED BY <1>5, <2>1
<1>0. NoCall.at # "enter"
  BY DEF NoCall
<1>7. ASSUME NEW c \in Callers, Register(c) \/ Login(c) PROVE Remembered' /\ AccountsHold'
  <2>1. PICK r : r.at # "enter" /\ call' = [call EXCEPT ![c] = r]
    BY <1>7 DEF Register, Login, SignOn
  <2> QED BY <1>4, <1>6, <1>7, <2>1 DEF Register, Login
<1>8. ASSUME NEW c \in Callers, Insert(c) PROVE Remembered' /\ AccountsHold'
  <2> DEFINE r == [call[c] EXCEPT !.at = "verify"]
  <2>1. r.at # "enter"
    BY DEF AccountsInv, AccountsTypeOK
  <2>2. call' = [call EXCEPT ![c] = r] \/ call' = [call EXCEPT ![c] = NoCall]
    BY <1>8 DEF Insert
  <2> QED BY <1>0, <1>4, <1>6, <1>8, <2>1, <2>2 DEF Insert
<1>9. ASSUME NEW c \in Callers, Verify(c) PROVE Remembered' /\ AccountsHold'
  <2> DEFINE row == users[call[c].name]
             r == [call[c] EXCEPT !.at = "enter", !.role = row.role]
  <2>1. CASE call' = [call EXCEPT ![c] = NoCall]
    BY <1>0, <1>4, <1>6, <1>9, <2>1 DEF Verify
  <2>2. CASE row # None /\ row.password = call[c].password /\ call' = [call EXCEPT ![c] = r]
    <3>1. r.name = call[c].name /\ r.password = call[c].password /\ r.role = row.role
      BY DEF AccountsInv, AccountsTypeOK
    <3>2. users' = users
      BY <1>9 DEF Verify
    <3>3. \A d \in Callers : call'[d] = IF d = c THEN r ELSE call[d]
      BY <2>2 DEF AccountsInv, AccountsTypeOK
    <3> HIDE DEF r
    <3>4. Remembered'
      BY <1>2, <2>2, <3>1, <3>2, <3>3 DEF Remembered
    <3> QED BY <1>4, <1>9, <3>4 DEF Verify
  <2> QED BY <1>9, <2>1, <2>2 DEF Verify
<1>10. ASSUME NEW c \in Callers, Logout(c) PROVE Remembered' /\ AccountsHold'
  BY <1>4, <1>5, <1>10 DEF Logout
<1>11. ASSUME NEW c \in Callers, Ask(c) PROVE Remembered' /\ AccountsHold'
  <2>1. PICK r : r.at # "enter" /\ call' = [call EXCEPT ![c] = r]
    BY <1>11 DEF Ask
  <2> QED BY <1>4, <1>6, <1>11, <2>1 DEF Ask
<1>12. ASSUME NEW c \in Callers, Count(c) PROVE Remembered' /\ AccountsHold'
  <2> DEFINE r == [call[c] EXCEPT !.at = "answer"]
  <2>1. r.at # "enter"
    BY DEF AccountsInv, AccountsTypeOK
  <2>2. call' = [call EXCEPT ![c] = r] \/ call' = [call EXCEPT ![c] = NoCall]
    BY <1>12 DEF Count
  <2> QED BY <1>0, <1>4, <1>6, <1>12, <2>1, <2>2 DEF Count
<1>13. ASSUME NEW c \in Callers, Decline(c) \/ Reply(c) PROVE Remembered' /\ AccountsHold'
  BY <1>0, <1>4, <1>6, <1>13 DEF Decline, Reply
<1>14. ASSUME NEW c \in Callers, Answer(c) PROVE Remembered' /\ AccountsHold'
  <2> DEFINE r == [call[c] EXCEPT !.at = "reply"]
  <2>1. r.at # "enter"
    BY DEF AccountsInv, AccountsTypeOK
  <2>2. call' = [call EXCEPT ![c] = r]
    BY <1>14 DEF Answer
  <2> QED BY <1>4, <1>6, <1>14, <2>1, <2>2 DEF Answer
<1>15. CASE Restart
  <2>1. \A c \in Callers : call'[c].at # "enter"
    BY <1>0, <1>15 DEF Restart
  <2> QED BY <1>4, <1>5, <1>15, <2>1 DEF Restart
<1>16. CASE Tick
  BY <1>4, <1>5, <1>16 DEF Tick
<1>17. ASSUME NEW c \in Callers, Enter(c) PROVE Remembered'
  BY <1>0, <1>6, <1>17 DEF Enter
<1> QED BY <1>3, <1>7, <1>8, <1>9, <1>10, <1>11, <1>12, <1>13, <1>14, <1>15, <1>16, <1>17 DEF AccountsNext

LEMMA AccountsStepOK == AccountsInv /\ [AccountsNext]_accountVars => AccountsInv'
<1>1. CASE AccountsNext
  BY <1>1, TypesKept, HoldKept DEF AccountsInv
<1>2. CASE UNCHANGED accountVars
  BY <1>2 DEF accountVars, AccountsInv, AccountsTypeOK, Given, Remembered, AccountsHold, SignUpHolds,
              SessionsWithinAccount
<1> QED BY <1>1, <1>2

\* The state of Accounts has its types, for any number of browsers, names and requests.
THEOREM AccountsTypeCorrect == AccountsSpec => []AccountsTypeOK
<1>1. AccountsInv => AccountsTypeOK
  BY DEF AccountsInv
<1> QED BY <1>1, AccountsInitOK, AccountsStepOK, PTL DEF AccountsSpec

\* A sign-up that succeeded holds, and a session is within its account, whoever else signs up,
\* in or out, and whenever the server restarts.
THEOREM AccountsAreKept == AccountsSpec => []AccountsHold
<1>1. AccountsInv => AccountsHold
  BY DEF AccountsInv
<1> QED BY <1>1, AccountsInitOK, AccountsStepOK, PTL DEF AccountsSpec

-----------------------------------------------------------------------------
(* The allowance: when a question is counted, the questions of every period *)
(* it falls in are among those the transaction has counted.                 *)

Window(name, t) == {q \in usage : q.name = name /\ t - Day < q.at /\ q.at <= t}

UsageInv == IsFiniteSet(usage) /\ DailyAllowance

LEMMA CountKeeps ==
    ASSUME AccountsInv, UsageInv, NEW c \in Callers, Count(c) PROVE UsageInv'
<1> DEFINE r == call[c]
           row == [id |-> r.id, name |-> r.name, at |-> r.time]
<1>0. r.name \in Names /\ r.time \in 0..MaxTime /\ (\A q \in usage : q.at \in 0..MaxTime)
  BY DEF Count, AccountsInv, Given, AccountsTypeOK
<1>1. CASE usage' = usage
  BY <1>1 DEF UsageInv, DailyAllowance
<1>2. CASE usage' = usage \cup {row} /\ ~(Cardinality(Used(r.name, r.time)) >= Allowance)
  <2>1. IsFiniteSet(usage')
    BY <1>2, FS_AddElement DEF UsageInv
  <2>2. ASSUME NEW n \in Names, NEW t \in 0..MaxTime
        PROVE  Cardinality({q \in usage' : q.name = n /\ t - Day < q.at /\ q.at <= t}) <= Allowance
    <3> DEFINE new == {q \in usage' : q.name = n /\ t - Day < q.at /\ q.at <= t}
    <3>0. row.name = r.name /\ row.at = r.time
      OBVIOUS
    <3> HIDE DEF row
    <3>1. Cardinality(Window(n, t)) <= Allowance
      BY DEF UsageInv, DailyAllowance, Window
    <3>2. CASE row \in new
      <4>1. n = r.name /\ t - Day < r.time /\ r.time <= t
        BY <3>0, <3>2
      <4>2. Window(n, t) \subseteq Used(r.name, r.time)
        <5>1. \A q \in Window(n, t) : q \in usage /\ q.name = n /\ q.at > r.time - Day
          BY <1>0, <4>1, AllowanceAssumption, LimitAssumption DEF Window
        <5> QED BY <4>1, <5>1 DEF Used
      <4>3. IsFiniteSet(Used(r.name, r.time)) /\ Cardinality(Used(r.name, r.time)) \in Nat
        BY FS_Subset, FS_CardinalityType DEF UsageInv, Used
      <4>4. /\ IsFiniteSet(Window(n, t))
            /\ Cardinality(Window(n, t)) <= Cardinality(Used(r.name, r.time))
            /\ Cardinality(Window(n, t)) \in Nat
        BY <4>2, <4>3, FS_Subset, FS_CardinalityType
      <4>5. new = Window(n, t) \cup {row}
        BY <1>2, <3>2 DEF Window
      <4>6. Cardinality(new) = Cardinality(Window(n, t)) \/ Cardinality(new) = Cardinality(Window(n, t)) + 1
        BY <4>4, <4>5, FS_AddElement
      <4> QED BY <1>2, <4>3, <4>4, <4>6, AllowanceAssumption
    <3>3. CASE row \notin new
      <4>1. new = Window(n, t)
        BY <1>2, <3>3 DEF Window
      <4> QED BY <3>1, <4>1
    <3> QED BY <3>2, <3>3
  <2> QED BY <2>1, <2>2 DEF UsageInv, DailyAllowance
<1>3. usage' = usage \/ (usage' = usage \cup {row} /\ ~(Cardinality(Used(r.name, r.time)) >= Allowance))
  BY DEF Count
<1> QED BY <1>1, <1>2, <1>3

LEMMA UsageStepOK == AccountsInv /\ UsageInv /\ [AccountsNext]_accountVars => UsageInv'
<1>1. ASSUME UsageInv, UNCHANGED usage PROVE UsageInv'
  BY <1>1 DEF UsageInv, DailyAllowance
<1>2. ASSUME NEW c \in Callers,
             \/ Register(c) \/ Insert(c) \/ Login(c) \/ Verify(c) \/ Enter(c) \/ Logout(c)
             \/ Ask(c) \/ Decline(c) \/ Answer(c) \/ Reply(c)
      PROVE UNCHANGED usage
  BY <1>2 DEF Register, Insert, Login, Verify, Enter, Logout, Ask, Decline, Answer, Reply
<1>3. Restart \/ Tick \/ UNCHANGED accountVars => UNCHANGED usage
  BY DEF Restart, Tick, accountVars
<1> QED BY <1>1, <1>2, <1>3, CountKeeps DEF AccountsNext

\* For any allowance, any length of the day and any number of requests at once, nobody asks more
\* than the allowance within a day.
THEOREM AllowanceKept == AccountsSpec => []DailyAllowance
<1>1. AccountsInit => UsageInv
  <2>1. ASSUME usage = {} PROVE UsageInv
    <3>1. \A n \in Names, t \in 0..MaxTime :
             {q \in usage : q.name = n /\ t - Day < q.at /\ q.at <= t} = {}
      BY <2>1
    <3> QED BY <2>1, <3>1, FS_EmptySet, AllowanceAssumption DEF UsageInv, DailyAllowance
  <2> QED BY <2>1 DEF AccountsInit
<1>2. UsageInv => DailyAllowance
  BY DEF UsageInv
<1> QED BY <1>1, <1>2, AccountsInitOK, AccountsStepOK, UsageStepOK, PTL DEF AccountsSpec

-----------------------------------------------------------------------------
(* The costs shown: a refresh that was not overtaken has seen what is shown *)
(* now, and what it found since was asked later.                           *)

AtLeast(new, old) == \A part \in Parts : new[part] # Unknown /\ old[part] # Unknown => new[part] >= old[part]

UpTo(numbers, n) == \A part \in Parts : numbers[part] # Unknown => numbers[part] <= n

CostInv ==
    /\ shown \in Numbers /\ UpTo(shown, answers)
    /\ found \in [Polls -> Numbers]
    /\ answers \in Nat
    /\ poll \in [Polls -> [at : {"idle", "token", "publish"} \cup Parts, now : 0..MaxMoment,
                           seen : Numbers, failed : BOOLEAN]]
    /\ time \in 0..MaxMoment
    /\ \A p \in Polls : UpTo(found[p], answers) /\ UpTo(poll[p].seen, answers)
    /\ \A p \in Polls \ overtaken : poll[p].at # "idle" =>
          /\ poll[p].seen = shown
          /\ AtLeast(found[p], shown)

LEMMA NothingIsNumbers == Nothing \in Numbers /\ \A n \in Nat : UpTo(Nothing, n)
BY DEF Nothing, Numbers, UpTo, Parts

LEMMA ShownIsNumbers ==
    ASSUME CostInv, NEW p \in Polls PROVE ShownBy(p) \in Numbers
BY DEF CostInv, ShownBy, Numbers, Parts

LEMMA CostInitOK == CostInit => CostInv
BY NothingIsNumbers, MeterAssumption DEF CostInit, CostInv, NoPoll, AtLeast, Nothing

LEMMA CostStepOK == CostInv /\ [CostNext]_costVars => CostInv'
<1> SUFFICES ASSUME CostInv, [CostNext]_costVars PROVE CostInv'
  OBVIOUS
<1> USE MeterAssumption, UnknownAssumption
<1>1. ASSUME NEW p \in Polls, Refresh(p) PROVE CostInv'
  <2> DEFINE r == [at |-> "token", now |-> time, seen |-> shown, failed |-> FALSE]
  <2>1. r \in [at : {"idle", "token", "publish"} \cup Parts, now : 0..MaxMoment, seen : Numbers, failed : BOOLEAN]
    BY DEF CostInv
  <2>2. r.seen = shown
    OBVIOUS
  <2> HIDE DEF r
  <2>3. poll' = [poll EXCEPT ![p] = r] /\ found' = [found EXCEPT ![p] = Nothing] /\ shown' = shown
    BY <1>1 DEF Refresh, r, cache
  <2>4. found' \in [Polls -> Numbers] /\ AtLeast(found'[p], shown)
    BY <2>3, NothingIsNumbers DEF CostInv, AtLeast, Nothing
  <2>5. ASSUME NEW q \in Polls \ overtaken', poll'[q].at # "idle"
        PROVE  poll'[q].seen = shown' /\ AtLeast(found'[q], shown')
    BY <1>1, <2>2, <2>3, <2>4, <2>5 DEF Refresh, CostInv
  <2>6. answers' = answers
    BY <1>1 DEF Refresh
  <2>7. ASSUME NEW q \in Polls
        PROVE  UpTo(found'[q], answers') /\ UpTo(poll'[q].seen, answers')
    BY <2>2, <2>3, <2>6, NothingIsNumbers DEF CostInv
  <2> QED BY <1>1, <2>1, <2>3, <2>4, <2>5, <2>7 DEF Refresh, CostInv, cache
<1>2. ASSUME NEW p \in Polls, Token(p) PROVE CostInv'
  <2>1. UNCHANGED <<shown, found, answers, time, overtaken>>
    BY <1>2 DEF Token, cache
  <2>2. /\ poll' \in [Polls -> [at : {"idle", "token", "publish"} \cup Parts, now : 0..MaxMoment,
                               seen : Numbers, failed : BOOLEAN]]
        /\ \A q \in Polls : poll'[q].seen = poll[q].seen /\ (poll'[q].at # "idle" => poll[q].at # "idle")
    BY <1>2 DEF Token, CostInv, Parts
  <2> QED BY <2>1, <2>2 DEF CostInv, AtLeast, UpTo
<1>3. ASSUME NEW p \in Polls, NEW part \in Parts, Fetch(p, part) PROVE CostInv'
  <2>1. UNCHANGED <<shown, time, overtaken>> /\ answers' = answers + 1
    BY <1>3 DEF Fetch, cache
  <2>2. /\ poll' \in [Polls -> [at : {"idle", "token", "publish"} \cup Parts, now : 0..MaxMoment,
                               seen : Numbers, failed : BOOLEAN]]
        /\ \A q \in Polls : poll'[q].seen = poll[q].seen /\ (poll'[q].at # "idle" => poll[q].at # "idle")
    BY <1>3 DEF Fetch, CostInv, Parts
  <2> DEFINE new == [found[p] EXCEPT ![part] = answers']
  <2>3. new \in Numbers /\ \A q \in Parts : new[q] = IF q = part THEN answers' ELSE found[p][q]
    BY <2>1 DEF CostInv, Numbers
  <2>4. found' = [found EXCEPT ![p] = new] \/ found' = found
    BY <1>3 DEF Fetch
  <2>5. AtLeast(found[p], shown) => AtLeast(new, shown)
    BY <2>1, <2>3 DEF CostInv, AtLeast, UpTo, Numbers
  <2>6. UpTo(shown', answers')
    BY <2>1 DEF CostInv, UpTo, Numbers
  <2> HIDE DEF new
  <2>7. found' \in [Polls -> Numbers] /\ \A q \in Polls : AtLeast(found[q], shown) => AtLeast(found'[q], shown)
    BY <2>3, <2>4, <2>5 DEF CostInv
  <2>8. ASSUME NEW q \in Polls PROVE UpTo(found[q], answers') /\ UpTo(poll[q].seen, answers')
    BY <2>1 DEF CostInv, UpTo, Numbers
  <2>9. ASSUME UpTo(found[p], answers') PROVE UpTo(new, answers')
    BY <2>1, <2>3, <2>9 DEF CostInv, UpTo
  <2>10. ASSUME NEW q \in Polls PROVE UpTo(found'[q], answers') /\ UpTo(poll'[q].seen, answers')
    <3>1. UpTo(found'[q], answers')
      BY <2>4, <2>8, <2>9 DEF CostInv
    <3>2. poll'[q].seen = poll[q].seen
      BY <2>2
    <3> QED BY <2>8, <3>1, <3>2
  <2> QED BY <2>1, <2>2, <2>6, <2>7, <2>10 DEF CostInv
<1>4. ASSUME NEW p \in Polls, Raise(p) PROVE CostInv'
  <2>1. UNCHANGED <<shown, found, answers, time, overtaken>>
    BY <1>4 DEF Raise, cache
  <2>2. /\ poll' \in [Polls -> [at : {"idle", "token", "publish"} \cup Parts, now : 0..MaxMoment,
                               seen : Numbers, failed : BOOLEAN]]
        /\ \A q \in Polls : poll'[q].seen = poll[q].seen /\ (poll'[q].at # "idle" => poll[q].at # "idle")
    BY <1>4 DEF Raise, CostInv
  <2> QED BY <2>1, <2>2 DEF CostInv, AtLeast, UpTo
<1>5. ASSUME NEW p \in Polls, Publish(p) PROVE CostInv'
  <2>1. shown' = ShownBy(p) /\ UNCHANGED <<found, answers, time>> /\ overtaken' = overtaken \cup Refreshing
    BY <1>5 DEF Publish
  <2>2. /\ poll' \in [Polls -> [at : {"idle", "token", "publish"} \cup Parts, now : 0..MaxMoment,
                               seen : Numbers, failed : BOOLEAN]]
        /\ \A q \in Polls : poll'[q].at # "idle" => poll[q].at # "idle"
    BY <1>5 DEF Publish, CostInv
  <2>3. \A q \in Polls \ overtaken' : poll'[q].at = "idle"
    BY <2>1, <2>2 DEF Refreshing
  <2>4. shown' \in Numbers
    BY <2>1, ShownIsNumbers
  <2>5. UpTo(shown', answers')
    BY <2>1 DEF CostInv, UpTo, ShownBy, Numbers
  <2>6. \A q \in Polls : poll'[q].seen = poll[q].seen
    BY <1>5 DEF Publish, CostInv
  <2>7. ASSUME NEW q \in Polls PROVE UpTo(found'[q], answers') /\ UpTo(poll'[q].seen, answers')
    BY <2>1, <2>6 DEF CostInv
  <2> QED BY <2>1, <2>2, <2>3, <2>4, <2>5, <2>7 DEF CostInv
<1>6. CASE Pass
  BY <1>6 DEF Pass, CostInv, cache, AtLeast, UpTo
<1>7. CASE ServerRestarts
  <2>1. NoPoll \in [at : {"idle", "token", "publish"} \cup Parts, now : 0..MaxMoment, seen : Numbers,
                    failed : BOOLEAN] /\ NoPoll.at = "idle"
    BY NothingIsNumbers DEF NoPoll
  <2>2. NoPoll.seen = Nothing
    BY DEF NoPoll
  <2> HIDE DEF NoPoll
  <2>3. /\ shown' = Nothing /\ UNCHANGED <<time, found, answers>>
        /\ \A p \in Polls : poll'[p] = NoPoll
        /\ poll' = [p \in Polls |-> NoPoll]
    BY <1>7 DEF ServerRestarts
  <2>4. \A p \in Polls : UpTo(found'[p], answers') /\ UpTo(poll'[p].seen, answers')
    BY <2>2, <2>3, NothingIsNumbers DEF CostInv
  <2>5. \A p \in Polls : poll'[p].at = "idle"
    BY <2>1, <2>3
  <2>6. shown' \in Numbers /\ UpTo(shown', answers')
    BY <2>3, NothingIsNumbers DEF CostInv
  <2> QED BY <2>1, <2>3, <2>4, <2>5, <2>6 DEF CostInv
<1>8. CASE UNCHANGED costVars
  BY <1>8 DEF costVars, cache, CostInv, AtLeast, UpTo
<1> QED BY <1>1, <1>2, <1>3, <1>4, <1>5, <1>6, <1>7, <1>8 DEF CostNext, Overview, RefreshForced

\* A refresh that was not overtaken keeps showing the last good numbers.
THEOREM GoodNumbersStay == CostSpec => LastGoodNumbers
<1> DEFINE Kept(p, part) == Publish(p) /\ shown[part] # Unknown =>
                               shown'[part] # Unknown /\ shown'[part] >= shown[part]
<1>1. ASSUME CostInv, NEW p \in Polls \ overtaken, NEW part \in Parts PROVE Kept(p, part)
  <2> SUFFICES ASSUME Publish(p), shown[part] # Unknown
               PROVE  shown'[part] # Unknown /\ shown'[part] >= shown[part]
    OBVIOUS
  <2>1. poll[p].seen = shown /\ AtLeast(found[p], shown)
    BY <1>1 DEF Publish, CostInv
  <2>2. shown'[part] = IF found[p][part] = Unknown THEN shown[part] ELSE found[p][part]
    BY <2>1 DEF Publish, ShownBy
  <2>3. shown[part] \in Nat
    BY <1>1 DEF CostInv, Numbers
  <2> QED BY <2>1, <2>2, <2>3 DEF AtLeast
<1>2. CostInv => [\A p \in Polls \ overtaken, part \in Parts : Kept(p, part)]_costVars
  BY <1>1
<1> QED BY <1>2, CostInitOK, CostStepOK, PTL DEF CostSpec, LastGoodNumbers

\* What the counters and the last check can be, beside the numbers.
CostRest ==
    /\ checked \in 0..MaxMoment \cup {Unknown}
    /\ failed \in BOOLEAN
    /\ answers \in 0..MaxAnswers
    /\ starts \in 0..MaxStarts
    /\ overtaken \subseteq Polls

LEMMA CostRestKept == CostInv /\ CostRest /\ [CostNext]_costVars => CostRest'
<1> SUFFICES ASSUME CostInv, CostRest, [CostNext]_costVars PROVE CostRest'
  OBVIOUS
<1> USE MeterAssumption DEF CostRest
<1>1. ASSUME NEW p \in Polls, Refresh(p) PROVE CostRest'
  BY <1>1 DEF Refresh, cache
<1>2. ASSUME NEW p \in Polls, Token(p) \/ Raise(p) PROVE CostRest'
  BY <1>2 DEF Token, Raise, cache
<1>3. ASSUME NEW p \in Polls, NEW part \in Parts, Fetch(p, part) PROVE CostRest'
  BY <1>3 DEF Fetch, cache
<1>4. ASSUME NEW p \in Polls, Publish(p) PROVE CostRest'
  <2>1. poll[p].now \in 0..MaxMoment /\ poll[p].failed \in BOOLEAN
    BY DEF CostInv
  <2> QED BY <1>4, <2>1 DEF Publish, Refreshing
<1>5. CASE Pass
  BY <1>5 DEF Pass, cache
<1>6. CASE ServerRestarts
  <2>1. checked' \in 0..MaxMoment \cup {Unknown}
    BY <1>6, Zenon DEF ServerRestarts
  <2>2. starts' \in 0..MaxStarts
    BY <1>6 DEF ServerRestarts
  <2> QED BY <1>6, <2>1, <2>2, Zenon DEF ServerRestarts
<1>7. CASE UNCHANGED costVars
  BY <1>7 DEF costVars, cache
<1> QED BY <1>1, <1>2, <1>3, <1>4, <1>5, <1>6, <1>7 DEF CostNext, Overview, RefreshForced

\* The cache of the costs keeps its types, for any number of refreshes and answers.
THEOREM CostTypeCorrect == CostSpec => []CostTypeOK
<1>1. CostInit => CostRest
  <2>1. 0 \in 0..MaxAnswers /\ 0 \in 0..MaxStarts
    BY MeterAssumption
  <2> QED BY <2>1, Zenon DEF CostInit, CostRest
<1>2. CostInv /\ CostRest => CostTypeOK
  BY DEF CostInv, CostRest, CostTypeOK
<1> QED BY <1>1, <1>2, CostInitOK, CostStepOK, CostRestKept, PTL DEF CostSpec

-----------------------------------------------------------------------------
(* Picking members of a sequence.                                          *)

\* Later positions rank higher.
LEMMA RankGrows ==
    ASSUME NEW n \in Nat, NEW K \in SUBSET (1..n), NEW i \in K, NEW j \in K, i < j
    PROVE  /\ Rank(K, i) \in Nat /\ Rank(K, j) \in Nat
           /\ Rank(K, i) < Rank(K, j)
<1> DEFINE upTo(x) == {y \in K : y <= x}
<1>1. IsFiniteSet(1..n)
  BY FS_Interval
<1>2. upTo(i) \in SUBSET (1..n) /\ upTo(j) \in SUBSET (1..n)
  OBVIOUS
<1>3. IsFiniteSet(upTo(i)) /\ IsFiniteSet(upTo(j))
  BY <1>1, <1>2, FS_Subset
<1>4. upTo(i) \in SUBSET upTo(j) /\ j \in upTo(j) /\ j \notin upTo(i)
  <2>1. i \in Int /\ j \in Int /\ \A y \in K : y \in Int
    OBVIOUS
  <2>2. ASSUME NEW y \in K, y <= i PROVE y <= j
    <3>1. y \in Int
      BY <2>1
    <3> QED BY <2>1, <2>2, <3>1
  <2>3. j \in upTo(j)
    BY <2>1
  <2>4. j \notin upTo(i)
    BY <2>1
  <2> QED BY <2>2, <2>3, <2>4
<1>5. Cardinality(upTo(i)) <= Cardinality(upTo(j)) /\ Cardinality(upTo(i)) # Cardinality(upTo(j))
  <2> HIDE DEF upTo
  <2> QED BY <1>3, <1>4, FS_Subset
<1>6. Cardinality(upTo(i)) \in Nat /\ Cardinality(upTo(j)) \in Nat
  BY <1>3, FS_CardinalityType
<1> QED BY <1>5, <1>6 DEF Rank

\* Ranks number the positions from 1 on, and Nth finds the position of a rank.
LEMMA RanksNumber ==
    ASSUME NEW n \in Nat, NEW K \in SUBSET (1..n)
    PROVE  /\ IsFiniteSet(K) /\ Cardinality(K) \in Nat
           /\ \A i \in K : Rank(K, i) \in 1..Cardinality(K)
           /\ \A i, j \in K : Rank(K, i) = Rank(K, j) => i = j
           /\ \A k \in 1..Cardinality(K) : Nth(K, k) \in K /\ Rank(K, Nth(K, k)) = k
<1>1. IsFiniteSet(K)
  <2>1. IsFiniteSet(1..n)
    BY FS_Interval
  <2> QED BY <2>1, FS_Subset
<1>2. Cardinality(K) \in Nat
  BY <1>1, FS_CardinalityType
<1>3. ASSUME NEW i \in K PROVE Rank(K, i) \in 1..Cardinality(K)
  <2> DEFINE upTo == {y \in K : y <= i}
  <2>1. upTo \in SUBSET K /\ {i} \in SUBSET upTo
    OBVIOUS
  <2>2. IsFiniteSet(upTo) /\ Cardinality(upTo) <= Cardinality(K)
    BY <1>1, <2>1, FS_Subset
  <2>3. Cardinality({i}) <= Cardinality(upTo)
    <3> HIDE DEF upTo
    <3> QED BY <2>1, <2>2, FS_Subset
  <2>4. Cardinality({i}) = 1 /\ Cardinality(upTo) \in Nat
    BY <2>2, FS_Singleton, FS_CardinalityType
  <2> QED BY <1>2, <2>2, <2>3, <2>4 DEF Rank
<1>4. ASSUME NEW i \in K, NEW j \in K, Rank(K, i) = Rank(K, j) PROVE i = j
  <2>1. i \in Int /\ j \in Int
    OBVIOUS
  <2>2. CASE i < j
    <3>1. Rank(K, i) \in Nat /\ Rank(K, i) < Rank(K, j)
      BY <2>2, RankGrows
    <3> QED BY <1>4, <3>1
  <2>3. CASE j < i
    <3>1. Rank(K, j) \in Nat /\ Rank(K, j) < Rank(K, i)
      BY <2>3, RankGrows
    <3> QED BY <1>4, <3>1
  <2> QED BY <2>1, <2>2, <2>3
<1> DEFINE f == [i \in K |-> Rank(K, i)]
<1>5. f \in Injection(K, 1..Cardinality(K))
  BY <1>3, <1>4 DEF Injection, IsInjective
<1>6. IsFiniteSet(1..Cardinality(K)) /\ Cardinality(1..Cardinality(K)) = Cardinality(K)
  BY <1>2, FS_Interval
<1>7. f \in Surjection(K, 1..Cardinality(K))
  BY <1>5, <1>6, FS_Injection
<1>8. ASSUME NEW k \in 1..Cardinality(K) PROVE Nth(K, k) \in K /\ Rank(K, Nth(K, k)) = k
  <2>1. \E i \in K : Rank(K, i) = k
    BY <1>7 DEF Surjection
  <2> QED BY <2>1 DEF Nth
<1> QED BY <1>1, <1>2, <1>3, <1>4, <1>8

\* A picked sequence consists of members at the positions.
LEMMA PickedMembers ==
    ASSUME NEW S, NEW s \in Seq(S), NEW K \in SUBSET DOMAIN s
    PROVE  /\ Picked(s, K) \in Seq(S)
           /\ Len(Picked(s, K)) = Cardinality(K) /\ Cardinality(K) \in Nat
           /\ \A k \in DOMAIN Picked(s, K) : Nth(K, k) \in K /\ Picked(s, K)[k] = s[Nth(K, k)]
<1>1. DOMAIN s = 1..Len(s) /\ Len(s) \in Nat
  OBVIOUS
<1>2. Cardinality(K) \in Nat /\ \A k \in 1..Cardinality(K) : Nth(K, k) \in K
  BY <1>1, RanksNumber
<1>3. \A k \in 1..Cardinality(K) : s[Nth(K, k)] \in S
  BY <1>2
<1>4. Picked(s, K) \in Seq(S)
  BY <1>2, <1>3 DEF Picked
<1>5. Len(Picked(s, K)) = Cardinality(K)
  BY <1>2 DEF Picked
<1> QED BY <1>2, <1>4, <1>5 DEF Picked

\* Where nothing is left out before a position, it keeps its number, and no other gets it.
LEMMA PrefixStays ==
    ASSUME NEW n \in Nat, NEW K \in SUBSET (1..n), NEW m \in Nat \ {0}, 1..m \subseteq K
    PROVE  \A k \in 1..Cardinality(K) : Nth(K, k) = m <=> k = m
<1>1. {j \in K : j <= m} = 1..m
  <2>1. \A j \in K : j \in Int /\ 1 <= j
    OBVIOUS
  <2>2. \A j \in 1..m : j \in K /\ j <= m
    OBVIOUS
  <2>3. ASSUME NEW j \in K, j <= m PROVE j \in 1..m
    <3>1. j \in Int /\ 1 <= j
      BY <2>1
    <3> QED BY <2>3, <3>1
  <2> QED BY <2>2, <2>3
<1>2. Rank(K, m) = m
  <2>1. Cardinality(1..m) = m
    BY FS_Interval
  <2> QED BY <1>1, <2>1 DEF Rank
<1>3. m \in K
  OBVIOUS
<1>4. ASSUME NEW k \in 1..Cardinality(K) PROVE Nth(K, k) = m <=> k = m
  <2>1. Nth(K, k) \in K /\ Rank(K, Nth(K, k)) = k
    BY RanksNumber
  <2>2. Nth(K, k) = m => k = m
    BY <1>2, <2>1
  <2>3. k = m => Nth(K, k) = m
    <3>1. \A i, j \in K : Rank(K, i) = Rank(K, j) => i = j
      BY RanksNumber
    <3> QED BY <1>2, <1>3, <2>1, <3>1
  <2> QED BY <2>2, <2>3
<1> QED BY <1>4

\* A set of positions has a first one.
LEMMA FirstIsOne ==
    ASSUME NEW n \in Nat, NEW K \in SUBSET (1..n), K # {}
    PROVE  Min(K) \in K
<1> DEFINE first == Nth(K, 1)
<1>1. IsFiniteSet(K) /\ Cardinality(K) \in Nat
  BY RanksNumber
<1>2. Cardinality(K) # 0
  BY <1>1, FS_EmptySet
<1>3. first \in K /\ Rank(K, first) = 1
  <2>1. 1 \in 1..Cardinality(K)
    BY <1>1, <1>2
  <2> QED BY <2>1, RanksNumber
<1>4. ASSUME NEW y \in K PROVE first <= y
  <2>1. first \in Int /\ y \in Int
    <3>1. \A x \in K : x \in Int
      OBVIOUS
    <3> QED BY <1>3, <3>1
  <2>2. Rank(K, y) \in 1..Cardinality(K)
    BY RanksNumber
  <2>3. CASE y < first
    <3>1. Rank(K, y) < Rank(K, first)
      BY <1>3, <2>3, RankGrows
    <3> QED BY <1>1, <1>3, <2>2, <3>1
  <2> QED BY <2>1, <2>3
<1>5. \E x \in K : \A y \in K : x <= y
  BY <1>3, <1>4
<1> QED BY <1>5 DEF Min

-----------------------------------------------------------------------------
(* The conversation sent to the provider.                                  *)

Spoken == [role : {"user", "assistant", "other"}, blank : BOOLEAN]

\* From the student's first turn on, if there is one.
LEMMA FromUserOpens ==
    ASSUME NEW s \in Seq(Spoken)
    PROVE  /\ FromUser(s) \in Seq(Spoken)
           /\ FromUser(s) # <<>> => FromUser(s)[1].role = "user"
<1> DEFINE asked == {i \in DOMAIN s : s[i].role = "user"}
<1>1. CASE asked = {}
  <2>1. FromUser(s) = <<>>
    BY <1>1 DEF FromUser
  <2> QED BY <2>1
<1>2. CASE asked # {}
  <2> DEFINE first == Min(asked)
  <2>1. FromUser(s) = SubSeq(s, first, Len(s))
    BY <1>2 DEF FromUser
  <2>2. Len(s) \in Nat /\ asked \in SUBSET (1..Len(s))
    OBVIOUS
  <2>3. first \in asked
    <3> HIDE DEF asked
    <3> QED BY <1>2, <2>2, FirstIsOne
  <2>4. first \in 1..Len(s) /\ s[first].role = "user"
    BY <2>3
  <2> HIDE DEF first
  <2>5. SubSeq(s, first, Len(s)) \in Seq(Spoken) /\ SubSeq(s, first, Len(s))[1] = s[first]
    BY <2>2, <2>4
  <2> QED BY <2>1, <2>4, <2>5
<1> QED BY <1>1, <1>2

\* Whatever the page sent along, what goes out opens on the student and ends on the question.
LEMMA MessagesOpen ==
    ASSUME NEW h \in Histories
    PROVE  Messages(h)[1].role = "user" /\ Messages(h)[Len(Messages(h))] = Question
<1>1. h \in Seq(Spoken) /\ MaxHistory \in Nat
  BY HistoryAssumption DEF Spoken
<1>2. Latest(h) \in Seq(Spoken)
  <2>1. CASE Len(h) <= MaxHistory
    BY <1>1, <2>1 DEF Latest
  <2>2. CASE ~(Len(h) <= MaxHistory)
    <3>1. Len(h) \in Nat /\ Len(h) - MaxHistory + 1 \in 1..Len(h) + 1
      BY <1>1, <2>2
    <3> QED BY <1>1, <2>2, <3>1 DEF Latest
  <2> QED BY <2>1, <2>2
<1> DEFINE s == Latest(h)
           said == {i \in DOMAIN s : s[i].role \in {"user", "assistant"} /\ ~s[i].blank}
<1>3. said \in SUBSET DOMAIN s
  OBVIOUS
<1>4. Turns(s) \in Seq(Spoken)
  <2>1. Turns(s) = Picked(s, said)
    BY DEF Turns
  <2> HIDE DEF said
  <2> QED BY <1>2, <1>3, <2>1, PickedMembers
<1>5. PICK kept : kept = FromUser(Turns(s))
  OBVIOUS
<1>6. kept \in Seq(Spoken) /\ (kept # <<>> => kept[1].role = "user")
  BY <1>4, <1>5, FromUserOpens
<1>7. Messages(h) = kept \o <<Question>>
  BY <1>5 DEF Messages
<1>8. Question \in Spoken /\ Question.role = "user"
  BY DEF Question, Spoken
<1>9. PICK q : q = Question
  OBVIOUS
<1>10. Len(kept \o <<q>>) = Len(kept) + 1 /\ (kept \o <<q>>)[Len(kept) + 1] = q
  BY <1>6
<1>11. (kept \o <<q>>)[1] = IF kept = <<>> THEN q ELSE kept[1]
  BY <1>6
<1> QED BY <1>6, <1>7, <1>8, <1>9, <1>10, <1>11

\* Both providers require the conversation to open on a user turn: it does, for any
\* history, any number of turns kept and any interleaving of requests.
THEOREM ConversationsOpen == AccountsSpec => []OpensOnUserTurn
<1>1. AccountsInit => OpensOnUserTurn
  BY DEF AccountsInit, OpensOnUserTurn, NoCall
<1>2. ASSUME AccountsInv, OpensOnUserTurn, [AccountsNext]_accountVars PROVE OpensOnUserTurn'
  <2>1. DOMAIN sent = Callers /\ call \in [Callers -> CallType]
    BY <1>2 DEF AccountsInv, AccountsTypeOK, CallType
  <2>2. ASSUME \A c \in Callers : call'[c].at = "reply" => call[c].at = "reply" /\ sent'[c] = sent[c]
        PROVE  OpensOnUserTurn'
    BY <1>2, <2>2 DEF OpensOnUserTurn
  <2>3. ASSUME NEW c \in Callers, NEW r, r.at # "reply", call' = [call EXCEPT ![c] = r],
               \A d \in Callers \ {c} : sent'[d] = sent[d]
        PROVE  OpensOnUserTurn'
    <3>1. \A d \in Callers : call'[d].at = "reply" => call[d].at = "reply" /\ sent'[d] = sent[d]
      BY <2>1, <2>3
    <3> QED BY <2>2, <3>1
  <2>4. NoCall.at # "reply"
    BY DEF NoCall
  <2>5. ASSUME NEW c \in Callers, Register(c) \/ Login(c) \/ Verify(c) \/ Ask(c) \/ Enter(c) \/ Insert(c)
                                  \/ Count(c) \/ Decline(c) \/ Reply(c)
        PROVE  OpensOnUserTurn'
    <3>1. PICK r : r.at # "reply" /\ call' = [call EXCEPT ![c] = r]
      <4>1. CASE Register(c) \/ Login(c)
        BY <4>1 DEF Register, Login, SignOn
      <4>2. CASE Ask(c)
        BY <4>2 DEF Ask
      <4>3. CASE Verify(c) \/ Insert(c) \/ Count(c)
        <5>1. call[c] \in CallType
          BY <2>1
        <5>2. /\ [call[c] EXCEPT !.at = "verify"].at = "verify"
              /\ [call[c] EXCEPT !.at = "answer"].at = "answer"
              /\ \A role : [call[c] EXCEPT !.at = "enter", !.role = role].at = "enter"
          BY <5>1 DEF CallType
        <5> QED BY <2>4, <4>3, <5>2 DEF Verify, Insert, Count
      <4>4. CASE Enter(c) \/ Decline(c) \/ Reply(c)
        BY <2>4, <4>4 DEF Enter, Decline, Reply
      <4> QED BY <2>5, <4>1, <4>2, <4>3, <4>4
    <3>2. \A d \in Callers \ {c} : sent'[d] = sent[d]
      BY <2>1, <2>5 DEF Register, Login, Verify, Ask, Enter, Insert, Count, Decline, Reply
    <3> QED BY <2>3, <3>1, <3>2
  <2>6. ASSUME NEW c \in Callers, Logout(c) PROVE OpensOnUserTurn'
    BY <2>2, <2>6 DEF Logout
  <2>7. ASSUME NEW c \in Callers, Answer(c) PROVE OpensOnUserTurn'
    <3>1. PICK h \in Histories : sent' = [sent EXCEPT ![c] = Messages(h)]
      BY <2>7 DEF Answer
    <3>2. \A d \in Callers \ {c} : call'[d] = call[d]
      BY <2>1, <2>7 DEF Answer
    <3>3. sent'[c] = Messages(h) /\ \A d \in Callers \ {c} : sent'[d] = sent[d]
      BY <2>1, <3>1
    <3> QED BY <1>2, <3>2, <3>3, MessagesOpen DEF OpensOnUserTurn
  <2>8. CASE Restart
    BY <2>2, <2>4, <2>8 DEF Restart
  <2>9. CASE Tick \/ UNCHANGED accountVars
    BY <2>2, <2>9 DEF Tick, accountVars
  <2> QED BY <1>2, <2>5, <2>6, <2>7, <2>8, <2>9 DEF AccountsNext
<1> QED BY <1>1, <1>2, AccountsInitOK, AccountsStepOK, PTL DEF AccountsSpec

-----------------------------------------------------------------------------
(* Tests: what a reply may become is graded fairly, and the marks are whole *)
(* numbers, so that a row of scores can keep the best of them.             *)

\* The marked choice, and no other unless two read the same, counts as right.
FairQuestion(q) ==
    ~q.meant.moved => /\ \A given : given = q.answer => Right(q, given)
                      /\ \A given : Right(q, given) /\ ~q.meant.twice => given = q.answer

FairTest(questions) ==
    /\ \E n \in Nat \ {0} : DOMAIN questions = 1..n
    /\ \A i \in DOMAIN questions : FairQuestion(questions[i])

Entries == [worded : BOOLEAN, choices : Seq(Wordings \cup {Absent}), answer : Int]

\* A shuffle loses no choice and doubles none.
LEMMA OrdersAreBijections ==
    ASSUME NEW n \in Nat, NEW o \in Orders(n), NEW j \in 1..n
    PROVE  \E k \in 1..n : o[k] = j /\ \A m \in 1..n : o[m] = j => m = k
<1>1. o \in Injection(1..n, 1..n)
  BY DEF Orders, Injection, IsInjective
<1>2. IsFiniteSet(1..n)
  BY FS_Interval
<1>3. o \in Surjection(1..n, 1..n)
  BY <1>1, <1>2, FS_Injection
<1> QED BY <1>3 DEF Surjection, Orders

\* _parse_test() keeps the mark on the choice, whatever the shuffle.
LEMMA QuestionsAreFair ==
    ASSUME NEW entry \in Entries, Sound(entry), NEW q \in Questions(entry)
    PROVE  FairQuestion(q)
<1> DEFINE kept == {i \in DOMAIN entry.choices : entry.choices[i] # Absent}
<1>a. PICK marked \in Int : marked = entry.answer + 1
  BY DEF Entries
<1>b. PICK size \in Nat : size = Len(entry.choices)
  BY DEF Entries
<1>1. entry.choices \in Seq(Wordings \cup {Absent}) /\ kept \in SUBSET (1..size)
  BY <1>b DEF Entries
<1>c. PICK n \in Nat : n = Cardinality(kept)
  <2> HIDE DEF kept
  <2> QED BY <1>1, RanksNumber
<1>2. Texts(entry) = Picked(entry.choices, kept)
  BY DEF Texts
<1>3. /\ Len(Texts(entry)) = n
      /\ \A k \in 1..n : Texts(entry)[k] = entry.choices[Nth(kept, k)]
  <2> HIDE DEF kept
  <2>1. kept \in SUBSET DOMAIN entry.choices
    BY <1>1, <1>b
  <2>2. Len(Picked(entry.choices, kept)) = n
    BY <1>1, <1>c, <2>1, PickedMembers
  <2> QED BY <1>2, <1>c, <2>2 DEF Picked
<1>4. marked \in 1..n /\ entry.answer \in Int
  BY <1>3, <1>a DEF Sound, Entries
<1>5. PICK o \in Orders(n) :
        q = [choices |-> [k \in DOMAIN o |-> Texts(entry)[o[k]]],
             answer |-> (CHOOSE k \in DOMAIN o : o[k] = marked) - 1, meant |-> Meant(entry)]
  BY <1>3, <1>a DEF Questions
<1>6. DOMAIN o = 1..n /\ o \in [1..n -> 1..n]
  BY DEF Orders
<1>7. PICK at \in 1..n : o[at] = marked /\ \A m \in 1..n : o[m] = marked => m = at
  BY <1>4, OrdersAreBijections
<1>8. (CHOOSE k \in DOMAIN o : o[k] = marked) = at
  BY <1>6, <1>7
<1>9. /\ q.answer = at - 1 /\ q.meant = Meant(entry)
      /\ q.choices = [k \in 1..n |-> Texts(entry)[o[k]]]
  BY <1>5, <1>6, <1>8
<1>10. Len(q.choices) = n
  BY <1>3, <1>9
<1>11. /\ q.meant.text = entry.choices[marked]
       /\ q.meant.moved = \E i \in 1..marked : entry.choices[i] = Absent
       /\ q.meant.twice = \E i \in DOMAIN entry.choices \ {marked} : entry.choices[i] = entry.choices[marked]
  BY <1>9, <1>a DEF Meant
<1> SUFFICES ASSUME ~q.meant.moved
             PROVE  /\ \A given : given = q.answer => Right(q, given)
                    /\ \A given : Right(q, given) /\ ~q.meant.twice => given = q.answer
  BY DEF FairQuestion
<1>12. 1..marked \subseteq kept
  <2>1. n <= size
    <3> HIDE DEF kept
    <3>1. IsFiniteSet(1..size) /\ Cardinality(1..size) = size
      BY FS_Interval
    <3> QED BY <1>1, <1>c, <3>1, FS_Subset
  <2>2. \A i \in 1..marked : i \in 1..size
    BY <1>1, <1>3, <1>4, <2>1
  <2>3. \A i \in 1..marked : entry.choices[i] # Absent
    BY <1>11
  <2> QED BY <1>1, <1>b, <2>2, <2>3
<1>13. ASSUME NEW k \in 1..n PROVE Nth(kept, k) = marked <=> k = marked
  <2> HIDE DEF kept
  <2>1. marked \in Nat \ {0}
    BY <1>3, <1>4
  <2>2. k \in 1..Cardinality(kept)
    BY <1>c
  <2> QED BY <1>1, <1>b, <1>12, <2>1, <2>2, PrefixStays
<1>14. \A g \in 0..(n - 1) : q.choices[g + 1] = entry.choices[Nth(kept, o[g + 1])]
  <2>1. \A g \in 0..(n - 1) : g + 1 \in 1..n
    BY <1>3
  <2> QED BY <1>3, <1>6, <1>9, <2>1
<1>15. ASSUME NEW given, given = q.answer PROVE Right(q, given)
  <2>1. given \in 0..(n - 1) /\ given + 1 = at
    BY <1>3, <1>9, <1>15
  <2>2. q.choices[given + 1] = entry.choices[marked]
    BY <1>4, <1>7, <1>13, <1>14, <2>1
  <2> QED BY <1>10, <1>11, <2>1, <2>2 DEF Right
<1>16. ASSUME NEW given, Right(q, given), ~q.meant.twice PROVE given = q.answer
  <2>1. given \in 0..(n - 1) /\ q.choices[given + 1] = entry.choices[marked]
    BY <1>10, <1>11, <1>16 DEF Right
  <2>2. given + 1 \in 1..n /\ o[given + 1] \in 1..n
    BY <1>3, <1>6, <2>1
  <2>3. Nth(kept, o[given + 1]) \in DOMAIN entry.choices
    <3> HIDE DEF kept
    <3>1. Nth(kept, o[given + 1]) \in kept
      BY <1>1, <1>c, <2>2, RanksNumber
    <3>2. DOMAIN entry.choices = 1..size
      BY <1>1, <1>b
    <3> QED BY <1>1, <3>1, <3>2
  <2>4. Nth(kept, o[given + 1]) = marked
    BY <1>11, <1>14, <1>16, <2>1, <2>3
  <2>5. given + 1 = at
    BY <1>7, <1>13, <2>2, <2>4
  <2> QED BY <1>9, <2>1, <2>5
<1> QED BY <1>15, <1>16

\* What a reply becomes is fair.
LEMMA TestsAreFair ==
    ASSUME NEW reply \in Replies, NEW questions \in Tests(reply)
    PROVE  FairTest(questions)
<1> DEFINE whole == {i \in DOMAIN reply : i <= MaxQuestions /\ Sound(reply[i])}
           sound == Picked(reply, whole)
<1>1. reply \in Seq(Entries)
  BY ReplyAssumption DEF Entries
<1>2. whole \in SUBSET DOMAIN reply
  OBVIOUS
<1>3. /\ sound \in Seq(Entries) /\ Len(sound) \in Nat
      /\ \A k \in DOMAIN sound : Nth(whole, k) \in whole /\ sound[k] = reply[Nth(whole, k)]
  <2> HIDE DEF whole
  <2> QED BY <1>1, <1>2, PickedMembers
<1>4. DOMAIN questions = DOMAIN sound /\ \A i \in DOMAIN sound : questions[i] \in Questions(sound[i])
  BY DEF Tests
<1>5. \A i \in DOMAIN sound : sound[i] \in Entries /\ Sound(sound[i])
  BY <1>3
<1>6. \A i \in DOMAIN sound : FairQuestion(questions[i])
  <2> HIDE DEF sound
  <2> QED BY <1>4, <1>5, QuestionsAreFair
<1>7. DOMAIN sound = 1..Len(sound)
  BY <1>3
<1>8. sound # <<>>
  BY DEF Tests
<1>9. Len(sound) # 0
  <2> HIDE DEF sound
  <2> QED BY <1>3, <1>8
<1> QED BY <1>3, <1>4, <1>6, <1>7, <1>9 DEF FairTest

-----------------------------------------------------------------------------
(* Grading, and the rows of scores.                                        *)

\* No two tests are made at once, so when a test was made tells which one it is.
Dated ==
    /\ builds \in Nat
    /\ DOMAIN test = Lessons /\ DOMAIN screen = Tabs
    /\ \A l \in Lessons : test[l] # Absent =>
          test[l].made \in 1..builds /\ FairTest(test[l].questions)
    /\ \A t \in Tabs : screen[t] # Absent =>
          LET l == screen[t].lesson
          IN /\ l \in Lessons
             /\ screen[t].test.made \in 1..builds
             /\ test[l] # Absent /\ test[l].made = screen[t].test.made => test[l] = screen[t].test

\* What waits to be recorded is a result.
Results ==
    /\ DOMAIN tab = Tabs
    /\ \A t \in Tabs : tab[t].at = "record" =>
          tab[t].lesson \in Lessons /\ tab[t].score \in Nat /\ tab[t].total \in Nat \ {0}

\* The row of a lesson holds the largest of its results, the last one and their number.
RowHolds(row, results) ==
    /\ row \in ScoreRow
    /\ row.best \in ToSet(results) /\ \A mark \in ToSet(results) : row.best >= mark
    /\ row.last = results[Len(results)]
    /\ row.attempts = Len(results)

Rows ==
    /\ DOMAIN scores = Lessons /\ DOMAIN marks = Lessons
    /\ \A l \in Lessons :
          /\ marks[l] \in Seq(Nat)
          /\ IF marks[l] = <<>> THEN scores[l] = Absent ELSE RowHolds(scores[l], marks[l])

TestsInv == Dated /\ Results /\ FairGrade /\ Rows

LEMMA TestsInitOK == TestsInit => TestsInv
BY DEF TestsInit, TestsInv, Dated, Results, FairGrade, Rows, NoRequest

\* A new test is dated now: no tab shows it yet.
LEMMA BuildKeeps ==
    ASSUME TestsInv, NEW l \in Lessons, Build(l) PROVE TestsInv'
<1>0. PICK reply \in Replies : \E questions \in Tests(reply) :
         test' = [test EXCEPT ![l] = [made |-> builds', questions |-> questions]]
  BY DEF Build
<1>1. PICK questions \in Tests(reply) :
         test' = [test EXCEPT ![l] = [made |-> builds', questions |-> questions]]
  BY <1>0
<1>2. FairTest(questions)
  BY <1>1, TestsAreFair
<1>3. builds' = builds + 1 /\ builds \in Nat /\ UNCHANGED <<screen, tab, scores, submits, marks>>
  BY DEF Build, TestsInv, Dated
<1>4. /\ test'[l].made = builds' /\ test'[l].questions = questions
      /\ \A k \in Lessons \ {l} : test'[k] = test[k]
      /\ DOMAIN test' = Lessons
  BY <1>1 DEF TestsInv, Dated
<1>5. ASSUME NEW k \in Lessons, test'[k] # Absent
      PROVE  test'[k].made \in 1..builds' /\ FairTest(test'[k].questions)
  <2>1. CASE k = l
    BY <1>2, <1>3, <1>4, <2>1
  <2>2. CASE k # l
    BY <1>3, <1>4, <1>5, <2>2 DEF TestsInv, Dated
  <2> QED BY <2>1, <2>2
<1>6. ASSUME NEW t \in Tabs, screen'[t] # Absent
      PROVE  LET k == screen'[t].lesson
             IN /\ k \in Lessons
                /\ screen'[t].test.made \in 1..builds'
                /\ test'[k] # Absent /\ test'[k].made = screen'[t].test.made => test'[k] = screen'[t].test
  <2>1. screen'[t].lesson \in Lessons /\ screen'[t].test.made \in 1..builds
    BY <1>3, <1>6 DEF TestsInv, Dated
  <2>2. screen'[t].lesson = l => test'[l].made # screen'[t].test.made
    BY <1>3, <1>4, <2>1
  <2> QED BY <1>3, <1>4, <1>6, <2>1, <2>2 DEF TestsInv, Dated
<1>7. Dated'
  BY <1>3, <1>4, <1>5, <1>6 DEF TestsInv, Dated
<1> QED BY <1>3, <1>7 DEF TestsInv, Results, FairGrade, Rows

\* An answer is graded fairly against the test of the moment, if that is the one shown.
LEMMA SubmitKeeps ==
    ASSUME TestsInv, NEW t \in Tabs, Submit(t) PROVE TestsInv'
<1> USE DEF TestsInv
<1> DEFINE l == screen[t].lesson
           correct(given) == Marks(test[l].questions, given)
           sheet(given) == [questions |-> screen[t].test.questions, given |-> given, correct |-> correct(given),
                            rebuilt |-> screen[t].test.made # test[l].made]
           r(given) == [at |-> "record", lesson |-> l, score |-> Score(correct(given)),
                        total |-> Len(correct(given)), seen |-> scores[l], paper |-> sheet(given)]
<1>1. PICK given \in Answers(screen[t].test.questions) : tab' = [tab EXCEPT ![t] = r(given)]
  BY DEF Submit
<1>2. test[l] # Absent /\ screen[t] # Absent /\ UNCHANGED <<test, screen, scores, builds, marks>>
  BY DEF Submit
<1>3. l \in Lessons /\ FairTest(test[l].questions)
  BY <1>2 DEF Dated
<1>4. PICK n \in Nat \ {0} : DOMAIN test[l].questions = 1..n
  BY <1>3 DEF FairTest
<1>5. PICK marked : marked = correct(given)
  OBVIOUS
<1>6. /\ marked = [i \in 1..n |-> i \in DOMAIN given /\ given[i] = test[l].questions[i].answer]
  BY <1>4, <1>5 DEF Marks
<1>7. Len(marked) = n
  BY <1>4, <1>6
<1>8. Score(marked) \in Nat
  <2>1. {i \in DOMAIN marked : marked[i]} \in SUBSET (1..n)
    BY <1>6
  <2>2. IsFiniteSet(1..n)
    BY <1>4, FS_Interval
  <2>3. IsFiniteSet({i \in DOMAIN marked : marked[i]})
    BY <2>1, <2>2, FS_Subset
  <2> QED BY <2>3, FS_CardinalityType DEF Score
<1>9. /\ tab'[t] = r(given) /\ DOMAIN tab' = Tabs
      /\ \A u \in Tabs \ {t} : tab'[u] = tab[u]
  BY <1>1 DEF Results
<1>10. /\ tab'[t].lesson = l /\ tab'[t].score = Score(marked) /\ tab'[t].total = Len(marked)
       /\ tab'[t].paper.questions = screen[t].test.questions
       /\ tab'[t].paper.given = given /\ tab'[t].paper.correct = marked
       /\ tab'[t].paper.rebuilt = (screen[t].test.made # test[l].made)
  BY <1>5, <1>9
<1> HIDE DEF r, sheet, correct
<1>11. Results'
  <2> SUFFICES ASSUME NEW u \in Tabs, tab'[u].at = "record"
               PROVE  tab'[u].lesson \in Lessons /\ tab'[u].score \in Nat /\ tab'[u].total \in Nat \ {0}
    BY <1>9 DEF Results
  <2> QED BY <1>3, <1>4, <1>7, <1>8, <1>9, <1>10 DEF Results
<1>12. ASSUME ~tab'[t].paper.rebuilt, NEW i \in DOMAIN tab'[t].paper.questions,
              ~tab'[t].paper.questions[i].meant.moved
       PROVE  /\ tab'[t].paper.correct[i] => Right(tab'[t].paper.questions[i], tab'[t].paper.given[i])
              /\ /\ Right(tab'[t].paper.questions[i], tab'[t].paper.given[i])
                 /\ ~tab'[t].paper.questions[i].meant.twice
                 => tab'[t].paper.correct[i]
  <2>1. screen[t].test = test[l]
    BY <1>2, <1>10, <1>12 DEF Dated
  <2>2. PICK q : q = test[l].questions[i] /\ q = tab'[t].paper.questions[i]
    BY <1>10, <2>1
  <2>3. i \in 1..n /\ FairQuestion(q)
    BY <1>3, <1>4, <1>10, <1>12, <2>1, <2>2 DEF FairTest
  <2>4. DOMAIN given = 1..n
    BY <1>1, <1>4, <2>1 DEF Answers
  <2>5. marked[i] = (given[i] = q.answer)
    BY <1>6, <2>2, <2>3, <2>4
  <2> QED BY <1>10, <1>12, <2>2, <2>3, <2>5 DEF FairQuestion
<1>13. FairGrade'
  BY <1>9, <1>12 DEF FairGrade
<1> QED BY <1>2, <1>11, <1>13 DEF Dated, Rows

\* The row takes the result of a request into account once.
LEMMA RecordKeeps ==
    ASSUME TestsInv, NEW t \in Tabs, Record(t) PROVE TestsInv'
<1> USE DEF TestsInv
<1>1. PICK l \in Lessons, score \in Nat, total \in Nat \ {0} :
         l = tab[t].lesson /\ score = tab[t].score /\ total = tab[t].total
  BY DEF Record, Results
<1>2. /\ scores' = [scores EXCEPT ![l] = Row(scores[l], tab[t])]
      /\ marks' = [marks EXCEPT ![l] = Append(marks[l], score)]
      /\ tab' = [tab EXCEPT ![t] = NoRequest]
      /\ UNCHANGED <<test, screen, builds>>
  BY <1>1 DEF Record, Recorded
<1>3. Results' /\ FairGrade'
  BY <1>2 DEF Results, FairGrade, NoRequest
<1>4. PICK old : old = marks[l]
  OBVIOUS
<1>5. PICK new : new = Append(old, score)
  OBVIOUS
<1>6. /\ old \in Seq(Nat) /\ new \in Seq(Nat) /\ new # <<>>
      /\ Len(new) = Len(old) + 1 /\ new[Len(new)] = score
      /\ ToSet(new) = ToSet(old) \cup {score}
  <2>1. old \in Seq(Nat) /\ new \in Seq(Nat) /\ Len(new) = Len(old) + 1 /\ Len(old) \in Nat
    BY <1>4, <1>5 DEF Rows
  <2>2. new[Len(old) + 1] = score /\ \A i \in 1..Len(old) : new[i] = old[i]
    BY <1>5, <2>1
  <2>3. DOMAIN new = 1..(Len(old) + 1) /\ DOMAIN old = 1..Len(old)
    BY <2>1
  <2>4. ToSet(new) = ToSet(old) \cup {score}
    BY <2>1, <2>2, <2>3 DEF ToSet
  <2> QED BY <2>1, <2>2, <2>3, <2>4
<1>7. RowHolds(Row(scores[l], tab[t]), new)
  <2>1. CASE old = <<>>
    <3>1. Row(scores[l], tab[t]) = [best |-> score, last |-> score, total |-> total, attempts |-> 1]
      BY <1>1, <1>4, <2>1 DEF Rows, Row
    <3>2. ToSet(old) = {} /\ Len(old) = 0
      BY <2>1 DEF ToSet
    <3> QED BY <1>6, <3>1, <3>2 DEF RowHolds, ScoreRow
  <2>2. CASE old # <<>>
    <3>1. PICK row \in ScoreRow : row = scores[l] /\ RowHolds(row, old)
      BY <1>4, <2>2 DEF Rows, RowHolds
    <3>2. row # Absent
      BY AbsentAssumption
    <3>3. PICK best \in Nat : best = IF row.best > score THEN row.best ELSE score
      BY <3>1 DEF ScoreRow
    <3>4. Row(scores[l], tab[t]) = [best |-> best, last |-> score, total |-> total, attempts |-> row.attempts + 1]
      BY <1>1, <3>1, <3>2, <3>3 DEF Row
    <3>5. best \in ToSet(new)
      BY <1>6, <3>1, <3>3 DEF RowHolds
    <3>6. ASSUME NEW mark \in ToSet(new) PROVE best >= mark
      <4>1. row.best \in Nat
        BY <3>1 DEF ScoreRow
      <4>2. CASE mark = score
        BY <3>3, <4>1, <4>2
      <4>3. CASE mark \in ToSet(old)
        <5>1. row.best >= mark
          BY <3>1, <4>3 DEF RowHolds
        <5>2. mark \in Nat
          BY <1>6, <4>3 DEF ToSet
        <5> QED BY <3>3, <4>1, <5>1, <5>2
      <4> QED BY <1>6, <4>2, <4>3
    <3>7. row.attempts = Len(old) /\ row.attempts \in Nat \ {0}
      BY <3>1 DEF RowHolds, ScoreRow
    <3> QED BY <1>6, <3>4, <3>5, <3>6, <3>7 DEF RowHolds, ScoreRow
  <2> QED BY <2>1, <2>2
<1>8. Rows'
  <2>1. /\ scores'[l] = Row(scores[l], tab[t]) /\ marks'[l] = new
        /\ \A k \in Lessons \ {l} : scores'[k] = scores[k] /\ marks'[k] = marks[k]
        /\ DOMAIN scores' = Lessons /\ DOMAIN marks' = Lessons
    BY <1>2, <1>4, <1>5 DEF Rows
  <2> QED BY <1>6, <1>7, <2>1 DEF Rows
<1> QED BY <1>2, <1>3, <1>8 DEF Dated

LEMMA TestsStepOK == TestsInv /\ [TestsNext]_testVars => TestsInv'
<1> SUFFICES ASSUME TestsInv, [TestsNext]_testVars PROVE TestsInv'
  OBVIOUS
<1>1. ASSUME NEW l \in Lessons, Drop(l) PROVE TestsInv'
  <2>1. /\ test'[l] = Absent /\ \A k \in Lessons \ {l} : test'[k] = test[k]
        /\ DOMAIN test' = Lessons
        /\ UNCHANGED <<screen, tab, scores, builds, marks>>
    BY <1>1 DEF Drop, TestsInv, Dated
  <2>2. Dated'
    BY <2>1 DEF TestsInv, Dated
  <2> QED BY <2>1, <2>2 DEF TestsInv, Results, FairGrade, Rows
<1>2. ASSUME NEW t \in Tabs, NEW l \in Lessons, Show(t, l) PROVE TestsInv'
  <2> DEFINE new == [lesson |-> l, test |-> test[l]]
  <2>1. new.lesson = l /\ new.test = test[l]
    OBVIOUS
  <2> HIDE DEF new
  <2>2. /\ screen'[t] = new /\ \A u \in Tabs \ {t} : screen'[u] = screen[u]
        /\ DOMAIN screen' = Tabs /\ test[l] # Absent
        /\ UNCHANGED <<test, tab, scores, builds, marks>>
    BY <1>2 DEF Show, TestsInv, Dated, new
  <2>3. Dated'
    BY <2>1, <2>2 DEF TestsInv, Dated
  <2> QED BY <2>2, <2>3 DEF TestsInv, Results, FairGrade, Rows
<1>3. CASE UNCHANGED testVars
  BY <1>3 DEF testVars, TestsInv, Dated, Results, FairGrade, Rows
<1> QED BY <1>1, <1>2, <1>3, BuildKeeps, SubmitKeeps, RecordKeeps DEF TestsNext

LEMMA TestsHold == TestsSpec => []TestsInv
BY TestsInitOK, TestsStepOK, PTL DEF TestsSpec

\* Whatever the model replies and however it is shuffled, a student who picks the marked choice
\* of the test they see is right, and nobody else is.
THEOREM GradesAreFair == TestsSpec => []FairGrade
<1>1. TestsInv => FairGrade
  BY DEF TestsInv
<1> QED BY <1>1, TestsHold, PTL

\* Any number of tabs and results: the row holds the best, the last and the number of them.
THEOREM BestScoreKept == TestsSpec => []BestIsKept
<1>1. TestsInv => BestIsKept
  <2> SUFFICES ASSUME TestsInv, NEW l \in Lessons, marks[l] # <<>>
               PROVE  /\ scores[l].best = Max(ToSet(marks[l]))
                      /\ scores[l].last = marks[l][Len(marks[l])]
                      /\ scores[l].attempts = Len(marks[l])
    BY DEF TestsInv, Rows, BestIsKept
  <2>1. RowHolds(scores[l], marks[l]) /\ marks[l] \in Seq(Nat)
    BY DEF TestsInv, Rows
  <2>2. PICK best \in Nat : best = scores[l].best
    BY <2>1 DEF RowHolds, ScoreRow
  <2>3. best \in ToSet(marks[l]) /\ \A mark \in ToSet(marks[l]) : mark \in Nat /\ best >= mark
    BY <2>1, <2>2 DEF RowHolds, ToSet
  <2>4. ASSUME NEW x \in ToSet(marks[l]), \A y \in ToSet(marks[l]) : x >= y PROVE x = best
    <3>1. x \in Nat /\ best >= x /\ x >= best
      BY <2>3, <2>4
    <3> QED BY <2>2, <3>1
  <2>5. Max(ToSet(marks[l])) = best
    BY <2>3, <2>4 DEF Max
  <2> QED BY <2>1, <2>2, <2>5 DEF RowHolds
<1> QED BY <1>1, TestsHold, PTL

\* What TestsInv leaves out of the types.
TestsRest ==
    /\ \A t \in Tabs : tab[t].at \in {"idle", "record"}
    /\ builds \in 0..MaxBuilds
    /\ submits \in 0..MaxSubmits

LEMMA TestsRestKept == TestsInv /\ TestsRest /\ [TestsNext]_testVars => TestsRest'
<1> SUFFICES ASSUME TestsInv, TestsRest, [TestsNext]_testVars PROVE TestsRest'
  OBVIOUS
<1>0. DOMAIN tab = Tabs
  BY DEF TestsInv, Results
<1> USE BuildAssumption DEF TestsRest
<1>1. ASSUME NEW l \in Lessons, Build(l) \/ Drop(l) PROVE TestsRest'
  BY <1>1 DEF Build, Drop
<1>2. ASSUME NEW t \in Tabs, NEW l \in Lessons, Show(t, l) PROVE TestsRest'
  BY <1>2 DEF Show
<1>3. ASSUME NEW t \in Tabs, Submit(t) PROVE TestsRest'
  <2>1. PICK r : r.at = "record" /\ tab' = [tab EXCEPT ![t] = r]
    BY <1>3 DEF Submit
  <2> QED BY <1>0, <1>3, <2>1 DEF Submit
<1>4. ASSUME NEW t \in Tabs, Record(t) PROVE TestsRest'
  BY <1>0, <1>4 DEF Record, Recorded, NoRequest
<1>5. CASE UNCHANGED testVars
  BY <1>5 DEF testVars
<1> QED BY <1>1, <1>2, <1>3, <1>4, <1>5 DEF TestsNext

\* The tests, the tabs and the rows of scores keep their types.
THEOREM TestsTypeCorrect == TestsSpec => []TestsTypeOK
<1>1. TestsInit => TestsRest
  BY BuildAssumption DEF TestsInit, TestsRest, NoRequest
<1>2. TestsInv /\ TestsRest => TestsTypeOK
  <2> SUFFICES ASSUME TestsInv, TestsRest PROVE TestsTypeOK
    OBVIOUS
  <2>1. ASSUME NEW l \in Lessons, test[l] # Absent
        PROVE  test[l].made \in 1..MaxBuilds /\ test[l].questions # <<>>
    <3>1. test[l].made \in 1..builds /\ FairTest(test[l].questions)
      BY <2>1 DEF TestsInv, Dated
    <3>2. PICK n \in Nat \ {0} : DOMAIN test[l].questions = 1..n
      BY <3>1 DEF FairTest
    <3>3. 1 \in DOMAIN test[l].questions
      BY <3>2
    <3> QED BY <3>1, <3>3, BuildAssumption DEF TestsRest
  <2>2. ASSUME NEW l \in Lessons, scores[l] # Absent PROVE scores[l] \in ScoreRow
    BY <2>2 DEF TestsInv, Rows, RowHolds
  <2> QED BY <2>1, <2>2 DEF TestsRest, TestsTypeOK
<1> QED BY <1>1, <1>2, TestsInitOK, TestsStepOK, TestsRestKept, PTL DEF TestsSpec

=============================================================================
