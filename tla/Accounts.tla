------------------------------ MODULE Accounts ------------------------------
(***************************************************************************)
(* Accounts, sessions and the daily allowance of tutor questions           *)
(* (app/auth.py and its endpoints in app/main.py, app/tutor.py).           *)
(*                                                                         *)
(* A request runs in a thread of its own: what it reads before a           *)
(* transaction (a row, the clock) may be old when the transaction runs.    *)
(* A restart of the server ends every request and seeds the administrator. *)
(* A password stands for its hash.                                         *)
(***************************************************************************)
EXTENDS Integers, FiniteSets, SequencesExt, Selections

CONSTANTS
    Callers,       \* browsers, one request each at a time
    Names, Passwords,
    Admin, AdminPassword,   \* ADMIN_USERNAME and ADMIN_PASSWORD
    None,
    Day, Lifetime,          \* of the allowance, of a session (SESSION_TTL)
    Allowance,              \* CLIENT_TUTOR_PER_DAY
    Histories, MaxHistory,  \* conversations a page may send along; turns kept of one
    MaxTime, MaxRequests, MaxRestarts   \* bounds

Role == {"client", "admin"}
Account == [password : Passwords, role : Role]

ASSUME NameAssumption ==
    Admin \in Names /\ AdminPassword \in Passwords /\ None \notin Names \cup Passwords \cup Account
ASSUME AllowanceAssumption == Allowance \in Nat /\ Day \in Nat \ {0} /\ Lifetime \in Nat
ASSUME HistoryAssumption ==
    MaxHistory \in Nat /\ Histories \subseteq Seq([role : {"user", "assistant", "other"}, blank : BOOLEAN])
ASSUME LimitAssumption == MaxTime \in Nat /\ MaxRequests \in Nat /\ MaxRestarts \in Nat

VARIABLES
    clock,
    users,       \* username -> password and role
    sessions,    \* rows; with is the password the session was opened with (an observer)
    usage,       \* one row per question of a client
    cookie,      \* the token each browser holds, 0 for none
    call,        \* the request of each browser
    sent,        \* the conversation the provider has of each, while it answers
    requests, restarts,
    signed       \* observer: the passwords of the sign-ups that were told they succeeded

accountVars == <<clock, users, sessions, usage, cookie, call, sent, requests, restarts, signed>>

NoCall == [at |-> "idle", id |-> 0, new |-> FALSE, name |-> None, password |-> None,
           role |-> "client", time |-> 0]

AccountsInit ==
    /\ clock = 0
    /\ users = [n \in Names |-> None]
    /\ sessions = {}
    /\ usage = {}
    /\ cookie = [c \in Callers |-> 0]
    /\ call = [c \in Callers |-> NoCall]
    /\ sent = [c \in Callers |-> <<>>]
    /\ requests = 0
    /\ restarts = 0
    /\ signed = [n \in Names |-> {}]

Request == requests < MaxRequests /\ requests' = requests + 1

\* session(): the row of the cookie's token, until it expires.
Live(c) == {s \in sessions : s.token = cookie[c] /\ s.expires >= clock}

-----------------------------------------------------------------------------
(* Signing up, in and out.                                                 *)

SignOn(step, new, name, password) ==
    [at |-> step, id |-> requests', new |-> new, name |-> name, password |-> password,
     role |-> "client", time |-> 0]

\* The name is looked up; it is inserted once the password is hashed.
Register(c) ==
    /\ call[c].at = "idle"
    /\ Request
    /\ \E n \in Names, p \in Passwords :
          /\ users[n] = None
          /\ call' = [call EXCEPT ![c] = SignOn("insert", TRUE, n, p)]
    /\ UNCHANGED <<clock, users, sessions, usage, cookie, sent, restarts, signed>>

\* Mutated form: INSERT OR REPLACE.
InsertOrReplace(c) ==
    /\ call[c].at = "insert"
    /\ users' = [users EXCEPT ![call[c].name] = [password |-> call[c].password, role |-> "client"]]
    /\ call' = [call EXCEPT ![c].at = "verify"]
    /\ UNCHANGED <<clock, sessions, usage, cookie, sent, requests, restarts, signed>>

\* The name is the primary key: a second INSERT of it raises, and the request fails (500).
Insert(c) ==
    /\ call[c].at = "insert"
    /\ IF users[call[c].name] = None
       THEN /\ users' = [users EXCEPT ![call[c].name] = [password |-> call[c].password, role |-> "client"]]
            /\ call' = [call EXCEPT ![c].at = "verify"]
       ELSE call' = [call EXCEPT ![c] = NoCall] /\ UNCHANGED users
    /\ UNCHANGED <<clock, sessions, usage, cookie, sent, requests, restarts, signed>>

Login(c) ==
    /\ call[c].at = "idle"
    /\ Request
    /\ \E n \in Names, p \in Passwords :
          call' = [call EXCEPT ![c] = 
             SignOn("verify", FALSE, n, p)]
    /\ UNCHANGED <<clock, users, sessions, usage, cookie, sent, restarts, signed>>

\* login() of either: the row is read, its password compared, its role remembered.
Verify(c) ==
    /\ call[c].at = "verify"
    /\ LET row == users[call[c].name]
       IN call' = [call EXCEPT ![c] = IF row # None /\ row.password = @.password
                                      THEN [@ EXCEPT !.at = "enter", !.role = row.role] ELSE NoCall]
    /\ UNCHANGED <<clock, users, sessions, usage, cookie, sent, requests, restarts, signed>>

\* The session's row; the response gives the browser its token.
Enter(c) ==
    /\ call[c].at = "enter"
    /\ sessions' = sessions \cup
          {[token |-> call[c].id, name |-> call[c].name, role |-> call[c].role,
            expires |-> clock + Lifetime, with |-> call[c].password]}
    /\ cookie' = [cookie EXCEPT ![c] = call[c].id]
    /\ signed' = IF call[c].new THEN [signed EXCEPT ![call[c].name] = @ \cup {call[c].password}] ELSE signed
    /\ call' = [call EXCEPT ![c] = NoCall]
    /\ UNCHANGED <<clock, users, usage, sent, requests, restarts>>

Logout(c) ==
    /\ call[c].at = "idle"
    /\ cookie[c] # 0
    /\ sessions' = sessions \ Live(c)
    /\ cookie' = [cookie EXCEPT ![c] = 0]
    /\ UNCHANGED <<clock, users, usage, call, sent, requests, restarts, signed>>

\* The server starts: seed_admin() adds the configured account, or raises the role of the one
\* that has its name.
Restart ==
    /\ restarts < MaxRestarts
    /\ restarts' = restarts + 1
    /\ call' = [c \in Callers |-> NoCall]
    /\ sent' = [c \in Callers |-> <<>>]
    /\ users' = [users EXCEPT ![Admin] = IF @ = None THEN [password |-> AdminPassword, role |-> "admin"]
                                         ELSE [@ EXCEPT !.role = "admin"]]
    /\ UNCHANGED <<clock, sessions, usage, cookie, requests, signed>>

Tick ==
    /\ clock < MaxTime
    /\ clock' = clock + 1
    /\ UNCHANGED <<users, sessions, usage, cookie, call, sent, requests, restarts, signed>>

-----------------------------------------------------------------------------
(* A question to the tutor: POST /api/tutor/{id}.                           *)

\* Whose questions are counted; the clock is read before the transaction.
Ask(c) ==
    /\ call[c].at = "idle"
    /\ Request
    /\ \E s \in Live(c) :
          call' = [call EXCEPT ![c] =
                     [at |-> IF s.role = "admin" THEN "answer" ELSE "count", id |-> requests', new |-> FALSE,
                      name |-> s.name, password |-> None, role |-> s.role, time |-> clock]]
    /\ UNCHANGED <<clock, users, sessions, usage, cookie, sent, restarts, signed>>

\* Mutated form: the questions of the calendar day.
UsedToday(name, now) == {q \in usage : q.name = name /\ q.at \div Day = now \div Day}

Used(name, now) == {q \in usage : q.name = name /\ q.at > now - Day}

\* BEGIN IMMEDIATE: the count and the row are one transaction; at the limit the answer is 429.
Count(c) ==
    /\ call[c].at = "count"
    /\ LET r == call[c]
       IN IF Cardinality(Used(r.name, r.time)) >= Allowance
          THEN call' = [call EXCEPT ![c] = NoCall] /\ UNCHANGED usage
          ELSE /\ usage' = usage \cup {[id |-> r.id, name |-> r.name, at |-> r.time]}
               /\ call' = [call EXCEPT ![c].at = "answer"]
    /\ UNCHANGED <<clock, users, sessions, cookie, sent, requests, restarts, signed>>

Latest(s) == IF Len(s) <= MaxHistory THEN s ELSE SubSeq(s, Len(s) - MaxHistory + 1, Len(s))
Turns(s) == Picked(s, {i \in DOMAIN s : s[i].role \in {"user", "assistant"} /\ ~s[i].blank})
FromUser(s) ==
    LET asked == {i \in DOMAIN s : s[i].role = "user"}
    IN IF asked = {} THEN <<>> ELSE SubSeq(s, Min(asked), Len(s))
Question == [role |-> "user", blank |-> FALSE]

\* Mutated form: the conversation is shortened last.
MessagesCutLast(h) == Latest(FromUser(Turns(h))) \o <<Question>>

\* _messages(): the latest turns, those that are any, from the first of the student on.
Messages(h) == FromUser(Turns(Latest(h))) \o <<Question>>

\* tutor.answer(): no such page or nothing to ask.
Decline(c) ==
    /\ call[c].at = "answer"
    /\ call' = [call EXCEPT ![c] = NoCall]
    /\ UNCHANGED <<clock, users, sessions, usage, cookie, sent, requests, restarts, signed>>

\* Or the provider is asked.
Answer(c) ==
    /\ call[c].at = "answer"
    /\ call' = [call EXCEPT ![c].at = "reply"]
    /\ \E h \in Histories : sent' = [sent EXCEPT ![c] = Messages(h)]
    /\ UNCHANGED <<clock, users, sessions, usage, cookie, requests, restarts, signed>>

\* It answers or fails; the student is told either.
Reply(c) ==
    /\ call[c].at = "reply"
    /\ call' = [call EXCEPT ![c] = NoCall]
    /\ sent' = [sent EXCEPT ![c] = <<>>]
    /\ UNCHANGED <<clock, users, sessions, usage, cookie, requests, restarts, signed>>

AccountsNext ==
    \/ \E c \in Callers : \/ Register(c) \/ Insert(c) \/ Login(c) \/ Verify(c) \/ Enter(c) \/ Logout(c)
                          \/ Ask(c) \/ Count(c) \/ Decline(c) \/ Answer(c) \/ Reply(c)
    \/ Restart
    \/ Tick

AccountsSpec == AccountsInit /\ [][AccountsNext]_accountVars

-----------------------------------------------------------------------------
AccountsTypeOK ==
    /\ clock \in 0..MaxTime
    /\ users \in [Names -> Account \cup {None}]
    /\ sessions \subseteq [token : Nat, name : Names, role : Role, expires : Nat, with : Passwords]
    /\ usage \subseteq [id : 1..MaxRequests, name : Names, at : 0..MaxTime]
    /\ cookie \in [Callers -> Nat]
    /\ call \in [Callers -> [at : {"idle", "insert", "verify", "enter", "count", "answer", "reply"}, id : 0..MaxRequests,
                             new : BOOLEAN, name : Names \cup {None}, password : Passwords \cup {None},
                             role : Role, time : 0..MaxTime]]
    /\ DOMAIN sent = Callers
    /\ requests \in 0..MaxRequests
    /\ restarts \in 0..MaxRestarts
    /\ signed \in [Names -> SUBSET Passwords]

\* A sign-up that succeeded is not undone by another of the same name (auth.register looks the
\* name up in one transaction and inserts it in another).
SignUpHolds ==
    \A n \in Names : \A p \in signed[n] : users[n] # None /\ users[n].password = p

\* Every session was opened with the password its account has, and gives no more than its role.
SessionsWithinAccount ==
    \A s \in sessions : /\ users[s.name] # None
                        /\ s.with = users[s.name].password
                        /\ s.role = "admin" => users[s.name].role = "admin"

\* Whoever has signed up, and whoever has signed in, has the account they think they have.
AccountsHold == SignUpHolds /\ SessionsWithinAccount

\* No student asks more than CLIENT_TUTOR_PER_DAY questions in any period of a day, whatever
\* waits between the clock and the transaction (main.ask_tutor).
DailyAllowance ==
    \A n \in Names, t \in 0..MaxTime :
        Cardinality({q \in usage : q.name = n /\ t - Day < q.at /\ q.at <= t}) <= Allowance

\* "Both providers require the conversation to open on a user turn" (tutor._messages); it ends
\* with the question.
OpensOnUserTurn ==
    \A c \in Callers :
        call[c].at = "reply" => sent[c][1].role = "user" /\ sent[c][Len(sent[c])] = Question
=============================================================================
