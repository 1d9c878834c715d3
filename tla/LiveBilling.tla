---------------------------- MODULE LiveBilling ----------------------------
(***************************************************************************)
(* Prepaid Live-voice minutes: the balance in users.live_seconds, the live  *)
(* websocket of app/main.py that spends it one block ahead, the admin's     *)
(* corrections, and the PayLink invoices of app/billing.py that refill it.  *)
(*                                                                         *)
(* A step is one SQLite transaction, one call to PayLink, or one second of  *)
(* talk.  Sessions live on the event loop, the other endpoints and the      *)
(* background poller on threads: their transactions interleave freely.      *)
(***************************************************************************)
EXTENDS Integers, FiniteSets

CONSTANTS
    Students,
    Sessions,      \* websocket connections of students, each used once
    Invoices,      \* invoice ids PayLink hands out
    Pollers,       \* runs of poll_pending: the background task and GET /api/billing
    Background,    \* the one of lifespan(), which looks at everyone's invoices
    Everyone,      \* its scope
    None,          \* no student, no invoice
    Block,         \* live.BILLING_BLOCK
    FreeSeconds,   \* store.LIVE_FREE_SECONDS
    PackageSeconds,\* the seconds of the package sold
    Corrections,   \* the seconds an admin may add or remove
    MaxTalk,       \* bound on a session's length; live.MAX_SECONDS cuts it
    MaxFaults,     \* bound on crashes, failed calls and failed transactions
    MaxCorrections \* bound on corrections

ASSUME AmountsAreNaturals ==
    /\ Block \in Nat \ {0}
    /\ FreeSeconds \in Nat /\ PackageSeconds \in Nat
    /\ MaxTalk \in Nat /\ MaxFaults \in Nat /\ MaxCorrections \in Nat
    /\ Corrections \subseteq Int
ASSUME SetsAreFinite == IsFiniteSet(Sessions) /\ IsFiniteSet(Invoices)
ASSUME NamesDiffer ==
    /\ Background \in Pollers
    /\ Everyone \notin Students
    /\ None \notin Invoices \cup Students

VARIABLES
    balance,    \* users.live_seconds
    session,    \* where the handler of the websocket is
    talker,     \* its user
    reserved,   \* its local `reserved'
    elapsed,    \* seconds since its `started'
    recorded,   \* seconds of its live_sessions row, 0 before
    remote,     \* the invoice at PayLink
    checkout,   \* create_checkout() for it
    buyer,      \* paylink_invoices.username
    invoice,    \* paylink_invoices.status
    old,        \* paylink_invoices.created is more than max_age ago
    todo,       \* rows a run of poll_pending() selected and has not asked about
    asking,     \* the invoice it asked about
    answer,     \* what PayLink said
    corrected,  \* observer: what corrections changed the balance by
    credits,    \* observer: how often an invoice's minutes were added
    corrections,
    faults

sessionVars == <<session, talker, reserved, elapsed, recorded>>
invoiceVars == <<remote, checkout, buyer, invoice, old>>
pollVars    == <<todo, asking, answer>>
bookVars    == <<corrected, credits, corrections, faults>>
vars == <<balance, sessionVars, invoiceVars, pollVars, bookVars>>

Smaller(a, b) == IF a < b THEN a ELSE b
Larger(a, b)  == IF a > b THEN a ELSE b

Open      == {"reserved", "talking"}
Closed    == {"refunded", "done", "lost"}
Final     == {"paid", "canceled"}

----------------------------------------------------------------------------
(* The balance *)

\* What reserve(u, BILLING_BLOCK) takes off.
Granted(u) == Smaller(Block, Larger(0, balance[u]))

\* Mutated form: a fresh block is asked for whatever is still reserved.
MeterDueAlways(s) == session[s] = "talking"

\* meter() sleeps until what is reserved has been talked away.
MeterDue(s) == session[s] = "talking" /\ elapsed[s] >= reserved[s]

\* used = min(reserved, elapsed)
Used(s) == Smaller(reserved[s], elapsed[s])

\* What a session has cost its student so far.
Charge(s) ==
    CASE session[s] \in Open \cup {"lost"}        -> reserved[s]
      [] session[s] \in {"refunded", "done"}      -> Used(s)
      [] session[s] \in {"idle", "refused"}       -> 0

----------------------------------------------------------------------------
(* The live websocket *)

\* Mutated form: the reservation is read but not taken off.
ConnectFree(s, u) ==
    /\ session[s] = "idle"
    /\ session' = [session EXCEPT ![s] = IF Granted(u) > 0 THEN "reserved" ELSE "refused"]
    /\ talker' = [talker EXCEPT ![s] = u]
    /\ reserved' = [reserved EXCEPT ![s] = Granted(u)]
    /\ UNCHANGED <<balance, elapsed, recorded, invoiceVars, pollVars, bookVars>>

\* The first block is reserved, or the student is sent away with no_credit.
Connect(s, u) ==
    /\ session[s] = "idle"
    /\ session' = [session EXCEPT ![s] = IF Granted(u) > 0 THEN "reserved" ELSE "refused"]
    /\ talker' = [talker EXCEPT ![s] = u]
    /\ reserved' = [reserved EXCEPT ![s] = Granted(u)]
    /\ balance' = [balance EXCEPT ![u] = @ - Granted(u)]
    /\ UNCHANGED <<elapsed, recorded, invoiceVars, pollVars, bookVars>>

\* The credit message is sent, the proxy and the meter start.
StartTalk(s) ==
    /\ session[s] = "reserved"
    /\ session' = [session EXCEPT ![s] = "talking"]
    /\ UNCHANGED <<balance, talker, reserved, elapsed, recorded, invoiceVars, pollVars, bookVars>>

\* The client is gone before `try:' is reached: send_json raises, nothing is refunded.
LeaveEarly(s) ==
    /\ session[s] = "reserved"
    /\ session' = [session EXCEPT ![s] = "lost"]
    /\ UNCHANGED <<balance, talker, reserved, elapsed, recorded, invoiceVars, pollVars, bookVars>>

\* One more second of talk; the meter may wake up late, so elapsed may pass reserved.
Second(s) ==
    /\ session[s] = "talking"
    /\ elapsed[s] < MaxTalk
    /\ elapsed' = [elapsed EXCEPT ![s] = @ + 1]
    /\ UNCHANGED <<balance, session, talker, reserved, recorded, invoiceVars, pollVars, bookVars>>

\* meter(): the next block.
MeterBlock(s) ==
    LET u == talker[s] IN
    /\ MeterDue(s)
    /\ Granted(u) > 0
    /\ reserved' = [reserved EXCEPT ![s] = @ + Granted(u)]
    /\ balance' = [balance EXCEPT ![u] = @ - Granted(u)]
    /\ UNCHANGED <<session, talker, elapsed, recorded, invoiceVars, pollVars, bookVars>>

\* The talk is over: the meter found no credit, the student left, the provider
\* failed or MAX_SECONDS passed.  The finally block cancels the meter and gives
\* the unused part back ...
Refund(s) ==
    LET u == talker[s] IN
    /\ session[s] = "talking"
    /\ session' = [session EXCEPT ![s] = "refunded"]
    /\ balance' = [balance EXCEPT ![u] = Larger(0, @ + (reserved[s] - Used(s)))]
    /\ UNCHANGED <<talker, reserved, elapsed, recorded, invoiceVars, pollVars, bookVars>>

\* ... and, in a transaction of its own, writes the live_sessions row.
Record(s) ==
    /\ session[s] = "refunded"
    /\ session' = [session EXCEPT ![s] = "done"]
    /\ recorded' = [recorded EXCEPT ![s] = Used(s)]
    /\ UNCHANGED <<balance, talker, reserved, elapsed, invoiceVars, pollVars, bookVars>>

\* The refund's transaction fails (the database stayed locked for a minute).
RefundFails(s) ==
    /\ session[s] = "talking"
    /\ faults < MaxFaults
    /\ faults' = faults + 1
    /\ session' = [session EXCEPT ![s] = "lost"]
    /\ UNCHANGED <<balance, talker, reserved, elapsed, recorded, invoiceVars, pollVars,
                   corrected, credits, corrections>>

\* POST /api/admin/live-credit: grant() with a positive or a negative amount.
Correct(u, seconds) ==
    /\ corrections < MaxCorrections
    /\ corrections' = corrections + 1
    /\ balance' = [balance EXCEPT ![u] = Larger(0, @ + seconds)]
    /\ corrected' = [corrected EXCEPT ![u] = @ + (Larger(0, balance[u] + seconds) - balance[u])]
    /\ UNCHANGED <<sessionVars, invoiceVars, pollVars, credits, faults>>

----------------------------------------------------------------------------
(* Invoices *)

\* create_checkout(): cu0900 makes the invoice ...
CheckoutCall(u, i) ==
    /\ remote[i] = "none"
    /\ remote' = [remote EXCEPT ![i] = "open"]
    /\ checkout' = [checkout EXCEPT ![i] = "called"]
    /\ buyer' = [buyer EXCEPT ![i] = u]
    /\ UNCHANGED <<balance, sessionVars, invoice, old, pollVars, bookVars>>

\* ... and the row is written before the student gets the link.
CheckoutStore(i) ==
    /\ checkout[i] = "called"
    /\ checkout' = [checkout EXCEPT ![i] = "linked"]
    /\ invoice' = [invoice EXCEPT ![i] = "pending"]
    /\ UNCHANGED <<balance, sessionVars, remote, buyer, old, pollVars, bookVars>>

\* The call times out or the INSERT fails: PayLink has an invoice nobody gets a link to.
CheckoutFails(i) ==
    /\ checkout[i] = "called"
    /\ faults < MaxFaults
    /\ faults' = faults + 1
    /\ checkout' = [checkout EXCEPT ![i] = "lost"]
    /\ UNCHANGED <<balance, sessionVars, remote, buyer, invoice, old, pollVars,
                   corrected, credits, corrections>>

\* The student pays on PayLink's page, however old the invoice is ...
Pay(i) ==
    /\ checkout[i] = "linked" /\ remote[i] = "open"
    /\ remote' = [remote EXCEPT ![i] = "paid"]
    /\ UNCHANGED <<balance, sessionVars, checkout, buyer, invoice, old, pollVars, bookVars>>

\* ... or PayLink cancels or expires it.
RemoteCancel(i) ==
    /\ remote[i] = "open"
    /\ remote' = [remote EXCEPT ![i] = "canceled"]
    /\ UNCHANGED <<balance, sessionVars, checkout, buyer, invoice, old, pollVars, bookVars>>

\* 24 hours have passed since the row was written.
GetOld(i) ==
    /\ invoice[i] # "none" /\ ~old[i]
    /\ old' = [old EXCEPT ![i] = TRUE]
    /\ UNCHANGED <<balance, sessionVars, remote, checkout, buyer, invoice, pollVars, bookVars>>

----------------------------------------------------------------------------
(* poll_pending and reconcile *)

Scopes(p) == IF p = Background THEN {Everyone} ELSE Students

\* Mutated form: only invoices past max_age are looked at.
DueBackwards(scope, i) == invoice[i] = "pending" /\ old[i] /\ scope \in {Everyone, buyer[i]}

Due(scope, i) == invoice[i] = "pending" /\ ~old[i] /\ scope \in {Everyone, buyer[i]}

\* The SELECT.
PollSelect(p, scope) ==
    /\ todo[p] = {} /\ asking[p] = None
    /\ scope \in Scopes(p)
    /\ todo' = [todo EXCEPT ![p] = {i \in Invoices : Due(scope, i)}]
    /\ UNCHANGED <<balance, sessionVars, invoiceVars, asking, answer, bookVars>>

\* cu0904 for the next row.
Ask(p, i) ==
    /\ asking[p] = None
    /\ i \in todo[p]
    /\ todo' = [todo EXCEPT ![p] = @ \ {i}]
    /\ asking' = [asking EXCEPT ![p] = i]
    /\ answer' = [answer EXCEPT ![p] = remote[i]]
    /\ UNCHANGED <<balance, sessionVars, invoiceVars, bookVars>>

\* The call fails; the row waits for the next run.
AskFails(p, i) ==
    /\ asking[p] = None
    /\ i \in todo[p]
    /\ faults < MaxFaults
    /\ faults' = faults + 1
    /\ todo' = [todo EXCEPT ![p] = @ \ {i}]
    /\ UNCHANGED <<balance, sessionVars, invoiceVars, asking, answer, corrected, credits, corrections>>

\* _credit()'s gate: the row is still pending.
Creditable(i) == invoice[i] = "pending"

\* The answer is applied, whatever happened since the question: _credit() ...
ApplyPaid(p) ==
    LET i == asking[p] IN
    /\ i # None /\ answer[p] = "paid"
    /\ asking' = [asking EXCEPT ![p] = None]
    /\ answer' = [answer EXCEPT ![p] = "none"]
    /\ IF Creditable(i)
       THEN /\ invoice' = [invoice EXCEPT ![i] = "paid"]
            /\ balance' = [balance EXCEPT ![buyer[i]] = @ + PackageSeconds]
            /\ credits' = [credits EXCEPT ![i] = @ + 1]
       ELSE UNCHANGED <<invoice, balance, credits>>
    /\ UNCHANGED <<sessionVars, remote, checkout, buyer, old, todo, corrected, corrections, faults>>

\* Its transaction fails: the exception ends the whole run.
ApplyFails(p) ==
    /\ asking[p] # None
    /\ faults < MaxFaults
    /\ faults' = faults + 1
    /\ todo' = [todo EXCEPT ![p] = {}]
    /\ asking' = [asking EXCEPT ![p] = None]
    /\ answer' = [answer EXCEPT ![p] = "none"]
    /\ UNCHANGED <<balance, sessionVars, invoiceVars, corrected, credits, corrections>>

\* ... or the guarded UPDATE for a canceled or expired invoice, or nothing.
ApplyOther(p) ==
    LET i == asking[p] IN
    /\ i # None /\ answer[p] # "paid"
    /\ asking' = [asking EXCEPT ![p] = None]
    /\ answer' = [answer EXCEPT ![p] = "none"]
    /\ invoice' = [invoice EXCEPT ![i] =
                     IF answer[p] = "canceled" /\ @ = "pending" THEN "canceled" ELSE @]
    /\ UNCHANGED <<balance, sessionVars, remote, checkout, buyer, old, todo, bookVars>>

----------------------------------------------------------------------------
\* The API process dies: sessions, checkouts and pollers are forgotten as they are.
Crash ==
    /\ faults < MaxFaults
    /\ faults' = faults + 1
    /\ session' = [s \in Sessions |->
                     IF session[s] \in Open THEN "lost"
                     ELSE IF session[s] = "refunded" THEN "done" ELSE session[s]]
    /\ checkout' = [i \in Invoices |-> IF checkout[i] = "called" THEN "lost" ELSE checkout[i]]
    /\ todo' = [p \in Pollers |-> {}]
    /\ asking' = [p \in Pollers |-> None]
    /\ answer' = [p \in Pollers |-> "none"]
    /\ UNCHANGED <<balance, talker, reserved, elapsed, recorded, remote, buyer, invoice, old,
                   corrected, credits, corrections>>

Init ==
    /\ balance = [u \in Students |-> FreeSeconds]
    /\ session = [s \in Sessions |-> "idle"]
    /\ talker = [s \in Sessions |-> None]
    /\ reserved = [s \in Sessions |-> 0]
    /\ elapsed = [s \in Sessions |-> 0]
    /\ recorded = [s \in Sessions |-> 0]
    /\ remote = [i \in Invoices |-> "none"]
    /\ checkout = [i \in Invoices |-> "none"]
    /\ buyer = [i \in Invoices |-> None]
    /\ invoice = [i \in Invoices |-> "none"]
    /\ old = [i \in Invoices |-> FALSE]
    /\ todo = [p \in Pollers |-> {}]
    /\ asking = [p \in Pollers |-> None]
    /\ answer = [p \in Pollers |-> "none"]
    /\ corrected = [u \in Students |-> 0]
    /\ credits = [i \in Invoices |-> 0]
    /\ corrections = 0
    /\ faults = 0

SessionStep ==
    \E s \in Sessions :
        \/ \E u \in Students : Connect(s, u)
        \/ StartTalk(s) \/ LeaveEarly(s) \/ Second(s) \/ MeterBlock(s)
        \/ Refund(s) \/ Record(s) \/ RefundFails(s)

InvoiceStep ==
    \E i \in Invoices :
        \/ \E u \in Students : CheckoutCall(u, i)
        \/ CheckoutStore(i) \/ CheckoutFails(i) \/ Pay(i) \/ RemoteCancel(i) \/ GetOld(i)

PollStep(p) ==
    \/ \E scope \in Scopes(p) : PollSelect(p, scope)
    \/ \E i \in Invoices : Ask(p, i) \/ AskFails(p, i)
    \/ ApplyPaid(p) \/ ApplyFails(p) \/ ApplyOther(p)

CorrectStep == \E u \in Students, seconds \in Corrections : Correct(u, seconds)

Next ==
    \/ SessionStep \/ InvoiceStep \/ CorrectStep \/ Crash
    \/ \E p \in Pollers : PollStep(p)

Spec == Init /\ [][Next]_vars

\* The background task polls every 20 s for ever, whatever its last run raised;
\* calls to PayLink fail MaxFaults times at most.
FairSpec == Spec /\ WF_vars(PollStep(Background))

----------------------------------------------------------------------------
(* What the ledger promises *)

SessionsTyped ==
    /\ session \in [Sessions -> Open \cup Closed \cup {"idle", "refused"}]
    /\ talker \in [Sessions -> Students \cup {None}]
    /\ reserved \in [Sessions -> Nat]
    /\ elapsed \in [Sessions -> Nat]
    /\ recorded \in [Sessions -> Nat]

InvoicesTyped ==
    /\ remote \in [Invoices -> {"none", "open"} \cup Final]
    /\ checkout \in [Invoices -> {"none", "called", "linked", "lost"}]
    /\ buyer \in [Invoices -> Students \cup {None}]
    /\ invoice \in [Invoices -> {"none", "pending"} \cup Final]
    /\ old \in [Invoices -> BOOLEAN]

PollersTyped ==
    /\ todo \in [Pollers -> SUBSET Invoices]
    /\ asking \in [Pollers -> Invoices \cup {None}]
    /\ answer \in [Pollers -> {"none", "open"} \cup Final]

BooksTyped ==
    /\ balance \in [Students -> Int]
    /\ corrected \in [Students -> Int]
    /\ credits \in [Invoices -> Nat]
    /\ corrections \in Nat
    /\ faults \in Nat

\* Every variable keeps its type; an invoice row only ever holds a status the code knows.
TypeOK == SessionsTyped /\ InvoicesTyped /\ PollersTyped /\ BooksTyped

\* No balance is overdrawn, by sessions in several tabs, blocks and corrections together.
NeverOverdrawn == \A u \in Students : balance[u] >= 0

\* A sum of natural numbers: the pieces of all members of S, each told apart.
Total(S, amount) == Cardinality(UNION {{x} \X (1..amount[x]) : x \in S})

Spent(u)  == Total(Sessions, [s \in Sessions |-> IF talker[s] = u THEN Charge(s) ELSE 0])
Bought(u) == Total(Invoices, [i \in Invoices |-> IF buyer[i] = u THEN PackageSeconds * credits[i] ELSE 0])

\* Every second is somewhere: what a student has left plus what their sessions cost
\* is the free time, the paid packages and the corrections.  Two tabs cannot spend
\* the same seconds (billing.py reserve), and no refund invents any.
Conservation ==
    \A u \in Students : balance[u] + Spent(u) = FreeSeconds + corrected[u] + Bought(u)

\* billing.py:131: the minutes of an invoice are added exactly once, with any number
\* of pollers holding the answer "paid", and a row says paid exactly then.
CreditedOnce ==
    \A i \in Invoices : credits[i] = IF invoice[i] = "paid" THEN 1 ELSE 0

\* Minutes are sold for money: only an invoice PayLink reported as paid is credited.
OnlyPaidCredited == \A i \in Invoices : credits[i] > 0 => remote[i] = "paid"

\* A session is charged one block ahead at most: whatever stops it, a crash or a failed
\* refund included, it costs at most a block more than the talk.
LossBounded == \A s \in Sessions : Charge(s) <= elapsed[s] + Block

\* An invoice paid while it is looked at is credited, unless it gets too old first,
\* although calls and transactions fail and the process restarts.
PaidIsCredited ==
    \A i \in Invoices :
        remote[i] = "paid" /\ ~old[i] ~> invoice[i] = "paid" \/ old[i]
=============================================================================
