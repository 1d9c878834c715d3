------------------------- MODULE LiveBillingProofs -------------------------
(***************************************************************************)
(* Theorems about LiveBilling, for any number of students, sessions,        *)
(* invoices and pollers, any block, package and correction, and any number  *)
(* of crashes and failed calls.                                             *)
(***************************************************************************)
EXTENDS LiveBilling, FiniteSetTheorems, TLAPS

\* A session past its first reservation has a student.
TalkerKnown == \A s \in Sessions : session[s] # "idle" => talker[s] \in Students

\* A row in paylink_invoices was made by a finished checkout of a student.
BuyerKnown ==
    \A i \in Invoices :
        /\ remote[i] # "none" => buyer[i] \in Students
        /\ checkout[i] # "none" => remote[i] # "none"
        /\ invoice[i] # "none" => checkout[i] = "linked"

\* "paid" is final at PayLink, so an answer "paid" never goes stale.
AnswerTrue ==
    \A p \in Pollers : answer[p] = "paid" => asking[p] # None /\ remote[asking[p]] = "paid"

\* What is reserved runs at most one block ahead of the talk.
OneBlockAhead ==
    \A s \in Sessions : session[s] # "idle" => reserved[s] <= elapsed[s] + Block

IInv == TypeOK /\ NeverOverdrawn /\ TalkerKnown /\ BuyerKnown /\ AnswerTrue
             /\ CreditedOnce /\ OnlyPaidCredited /\ OneBlockAhead

\* What reserve() takes is a natural number, no more than a block nor than the balance.
LEMMA GrantedBounds ==
    ASSUME NEW u \in Students, balance[u] \in Int, balance[u] >= 0
    PROVE  /\ Granted(u) \in Nat
           /\ Granted(u) <= Block
           /\ Granted(u) <= balance[u]
BY AmountsAreNaturals DEF Granted, Smaller, Larger

\* What a session used is no more than it reserved.
LEMMA UsedBounds ==
    ASSUME NEW s \in Sessions, reserved[s] \in Nat, elapsed[s] \in Nat
    PROVE  Used(s) \in Nat /\ Used(s) <= reserved[s] /\ Used(s) <= elapsed[s]
BY DEF Used, Smaller

\* The invariant holds initially.
LEMMA InvInit == Init => IInv
<1> SUFFICES ASSUME Init PROVE IInv
    OBVIOUS
<1> USE AmountsAreNaturals, NamesDiffer DEF Init, Open, Closed, Final
<1>1. SessionsTyped
    BY DEF SessionsTyped
<1>2. InvoicesTyped
    BY DEF InvoicesTyped
<1>3. PollersTyped
    BY DEF PollersTyped
<1>4. BooksTyped
    BY DEF BooksTyped
<1>5. NeverOverdrawn /\ TalkerKnown /\ BuyerKnown
    BY DEF NeverOverdrawn, TalkerKnown, BuyerKnown
<1>6. AnswerTrue /\ CreditedOnce /\ OnlyPaidCredited /\ OneBlockAhead
    BY DEF AnswerTrue, CreditedOnce, OnlyPaidCredited, OneBlockAhead
<1> QED BY <1>1, <1>2, <1>3, <1>4, <1>5, <1>6 DEF IInv, TypeOK

\* Connecting reserves at most what is there.
LEMMA InvConnect ==
    ASSUME IInv, NEW s \in Sessions, NEW u \in Students, Connect(s, u)
    PROVE  IInv'
<1> USE DEF IInv, TypeOK
<1>1. Granted(u) \in Nat /\ Granted(u) <= Block /\ Granted(u) <= balance[u]
    BY GrantedBounds DEF BooksTyped, NeverOverdrawn
<1>2. SessionsTyped'
    BY <1>1 DEF Connect, SessionsTyped, Open, Closed
<1>3. BooksTyped'
    BY <1>1 DEF Connect, BooksTyped, bookVars
<1>4. NeverOverdrawn'
    BY <1>1 DEF Connect, NeverOverdrawn, BooksTyped
<1>5. TalkerKnown'
    BY DEF Connect, TalkerKnown, SessionsTyped
<1>6. OneBlockAhead'
    BY <1>1, AmountsAreNaturals DEF Connect, OneBlockAhead, SessionsTyped
<1>7. UNCHANGED <<invoiceVars, pollVars, bookVars>>
    BY DEF Connect
<1>8. InvoicesTyped' /\ PollersTyped' /\ BuyerKnown' /\ AnswerTrue' /\ CreditedOnce' /\ OnlyPaidCredited'
    BY <1>7 DEF InvoicesTyped, PollersTyped, BuyerKnown, AnswerTrue, CreditedOnce, OnlyPaidCredited,
                invoiceVars, pollVars, bookVars
<1> QED BY <1>2, <1>3, <1>4, <1>5, <1>6, <1>8

\* The meter reserves a further block only when the last one has been talked away.
LEMMA InvMeter ==
    ASSUME IInv, NEW s \in Sessions, MeterBlock(s)
    PROVE  IInv'
<1> USE DEF IInv, TypeOK
<1> DEFINE u == talker[s]
<1>0. u \in Students /\ elapsed[s] >= reserved[s]
    BY DEF MeterBlock, MeterDue, TalkerKnown
<1>1. Granted(u) \in Nat /\ Granted(u) <= Block /\ Granted(u) <= balance[u]
    BY <1>0, GrantedBounds DEF BooksTyped, NeverOverdrawn
<1>2. SessionsTyped'
    BY <1>1 DEF MeterBlock, SessionsTyped
<1>3. balance' \in [Students -> Int] /\ UNCHANGED bookVars
    BY <1>0, <1>1 DEF MeterBlock, BooksTyped
<1>3a. BooksTyped'
    BY <1>3 DEF BooksTyped, bookVars
<1>4. NeverOverdrawn'
    BY <1>0, <1>1 DEF MeterBlock, NeverOverdrawn, BooksTyped
<1>5. TalkerKnown'
    BY DEF MeterBlock, TalkerKnown
<1>6. OneBlockAhead'
    BY <1>0, <1>1, AmountsAreNaturals DEF MeterBlock, OneBlockAhead, SessionsTyped
<1>7. UNCHANGED <<invoiceVars, pollVars, bookVars>>
    BY DEF MeterBlock
<1>8. InvoicesTyped' /\ PollersTyped' /\ BuyerKnown' /\ AnswerTrue' /\ CreditedOnce' /\ OnlyPaidCredited'
    BY <1>7 DEF InvoicesTyped, PollersTyped, BuyerKnown, AnswerTrue, CreditedOnce, OnlyPaidCredited,
                invoiceVars, pollVars, bookVars
<1> QED BY <1>2, <1>3a, <1>4, <1>5, <1>6, <1>8

\* The refund gives back what was reserved and not used.
LEMMA InvRefund ==
    ASSUME IInv, NEW s \in Sessions, Refund(s)
    PROVE  IInv'
<1> USE DEF IInv, TypeOK
<1> DEFINE u == talker[s]
<1>0. Used(s) \in Nat /\ Used(s) <= reserved[s] /\ reserved[s] \in Nat
    BY UsedBounds DEF SessionsTyped
<1>1. SessionsTyped'
    BY DEF Refund, SessionsTyped, Closed
<1>0a. u \in Students /\ balance[u] \in Int
    BY DEF Refund, TalkerKnown, BooksTyped
<1>0b. Larger(0, balance[u] + (reserved[s] - Used(s))) \in Nat
    BY <1>0, <1>0a DEF Larger
<1>1a. balance' \in [Students -> Int] /\ UNCHANGED bookVars
    BY <1>0a, <1>0b DEF Refund, BooksTyped
<1>2. BooksTyped'
    BY <1>1a DEF BooksTyped, bookVars
<1>3. NeverOverdrawn'
    BY <1>0a, <1>0b DEF Refund, NeverOverdrawn, BooksTyped
<1>4. TalkerKnown' /\ OneBlockAhead'
    BY DEF Refund, TalkerKnown, OneBlockAhead, SessionsTyped
<1>5. UNCHANGED <<invoiceVars, pollVars, bookVars>>
    BY DEF Refund
<1>6. InvoicesTyped' /\ PollersTyped' /\ BuyerKnown' /\ AnswerTrue' /\ CreditedOnce' /\ OnlyPaidCredited'
    BY <1>5 DEF InvoicesTyped, PollersTyped, BuyerKnown, AnswerTrue, CreditedOnce, OnlyPaidCredited,
                invoiceVars, pollVars, bookVars
<1> QED BY <1>1, <1>2, <1>3, <1>4, <1>6

\* The remaining steps of a session leave the balances alone.
LEMMA InvSession ==
    ASSUME IInv, NEW s \in Sessions,
           StartTalk(s) \/ LeaveEarly(s) \/ Second(s) \/ Record(s) \/ RefundFails(s)
    PROVE  IInv'
<1> USE DEF IInv, TypeOK, StartTalk, LeaveEarly, Second, Record, RefundFails
<1>0. Used(s) \in Nat
    BY UsedBounds DEF SessionsTyped
<1>1. SessionsTyped'
    BY <1>0 DEF SessionsTyped, Open, Closed
<1>2. TalkerKnown' /\ OneBlockAhead'
    BY AmountsAreNaturals DEF TalkerKnown, OneBlockAhead, SessionsTyped
<1>3. BooksTyped' /\ NeverOverdrawn'
    BY DEF BooksTyped, NeverOverdrawn, bookVars
<1>4. UNCHANGED <<invoiceVars, pollVars, credits>>
    BY DEF bookVars
<1>5. InvoicesTyped' /\ PollersTyped' /\ BuyerKnown' /\ AnswerTrue' /\ CreditedOnce' /\ OnlyPaidCredited'
    BY <1>4 DEF InvoicesTyped, PollersTyped, BuyerKnown, AnswerTrue, CreditedOnce, OnlyPaidCredited,
                invoiceVars, pollVars
<1> QED BY <1>1, <1>2, <1>3, <1>5

\* A correction never takes more than there is.
LEMMA InvCorrect ==
    ASSUME IInv, NEW u \in Students, NEW seconds \in Corrections, Correct(u, seconds)
    PROVE  IInv'
<1> USE DEF IInv, TypeOK
<1>1. seconds \in Int /\ balance[u] \in Int /\ Larger(0, balance[u] + seconds) \in Nat
    BY AmountsAreNaturals DEF BooksTyped, Larger
<1>2. balance' \in [Students -> Int] /\ corrected' \in [Students -> Int]
    BY <1>1 DEF Correct, BooksTyped
<1>3. BooksTyped'
    BY <1>2 DEF Correct, BooksTyped
<1>4. NeverOverdrawn'
    BY <1>1 DEF Correct, NeverOverdrawn, BooksTyped
<1>5. UNCHANGED <<sessionVars, invoiceVars, pollVars, credits>>
    BY DEF Correct
<1>6. SessionsTyped' /\ TalkerKnown' /\ OneBlockAhead'
    BY <1>5 DEF SessionsTyped, TalkerKnown, OneBlockAhead, sessionVars
<1>7. InvoicesTyped' /\ PollersTyped' /\ BuyerKnown' /\ AnswerTrue' /\ CreditedOnce' /\ OnlyPaidCredited'
    BY <1>5 DEF InvoicesTyped, PollersTyped, BuyerKnown, AnswerTrue, CreditedOnce, OnlyPaidCredited,
                invoiceVars, pollVars
<1> QED BY <1>3, <1>4, <1>6, <1>7

\* Steps of checkouts and of PayLink: they add no minutes, and "paid" stays "paid".
LEMMA InvInvoice ==
    ASSUME IInv, NEW i \in Invoices,
           \/ \E u \in Students : CheckoutCall(u, i)
           \/ CheckoutStore(i) \/ CheckoutFails(i) \/ Pay(i) \/ RemoteCancel(i) \/ GetOld(i)
    PROVE  IInv'
<1> USE DEF IInv, TypeOK, CheckoutCall, CheckoutStore, CheckoutFails, Pay, RemoteCancel, GetOld
<1>1. InvoicesTyped'
  <2>1. remote' \in [Invoices -> {"none", "open"} \cup Final]
      BY DEF InvoicesTyped, Final
  <2>2. checkout' \in [Invoices -> {"none", "called", "linked", "lost"}]
      BY DEF InvoicesTyped
  <2>3. buyer' \in [Invoices -> Students \cup {None}]
      BY DEF InvoicesTyped
  <2>4. invoice' \in [Invoices -> {"none", "pending"} \cup Final]
      BY DEF InvoicesTyped
  <2>5. old' \in [Invoices -> BOOLEAN]
      BY DEF InvoicesTyped
  <2> QED BY <2>1, <2>2, <2>3, <2>4, <2>5 DEF InvoicesTyped
<1>2. UNCHANGED <<balance, sessionVars, pollVars, credits, corrected, corrections>>
    BY DEF bookVars
<1>3. faults' \in Nat
    BY AmountsAreNaturals DEF BooksTyped, bookVars
<1>4. SessionsTyped' /\ PollersTyped' /\ TalkerKnown' /\ OneBlockAhead'
    BY <1>2 DEF SessionsTyped, PollersTyped, TalkerKnown, OneBlockAhead, sessionVars, pollVars
<1>5. BooksTyped' /\ NeverOverdrawn'
    BY <1>2, <1>3 DEF BooksTyped, NeverOverdrawn
<1>6. BuyerKnown'
    BY DEF BuyerKnown, InvoicesTyped
<1>7. \A j \in Invoices : remote[j] = "paid" => remote'[j] = "paid"
    BY DEF InvoicesTyped
<1>8. AnswerTrue'
    BY <1>2, <1>7, NamesDiffer DEF AnswerTrue, PollersTyped, pollVars
<1>9. OnlyPaidCredited'
    BY <1>2, <1>7 DEF OnlyPaidCredited
<1>10. \A j \in Invoices : (invoice'[j] = "paid") <=> (invoice[j] = "paid")
    BY DEF InvoicesTyped, BuyerKnown
<1>11. CreditedOnce'
    BY <1>2, <1>10 DEF CreditedOnce
<1> QED BY <1>1, <1>4, <1>5, <1>6, <1>8, <1>9, <1>11

\* A run of poll_pending that selects, asks or gives up changes no row and no balance;
\* what it holds as an answer is what PayLink said of an invoice that was asked about.
LEMMA InvAsk ==
    ASSUME IInv, NEW p \in Pollers,
           \/ \E scope \in Scopes(p) : PollSelect(p, scope)
           \/ \E i \in Invoices : Ask(p, i) \/ AskFails(p, i)
           \/ ApplyFails(p)
    PROVE  IInv'
<1> USE DEF IInv, TypeOK, PollSelect, Ask, AskFails, ApplyFails
<1>1. UNCHANGED <<balance, sessionVars, invoiceVars, credits, corrected, corrections>>
    BY DEF bookVars
<1>2. faults' \in Nat
    BY AmountsAreNaturals DEF BooksTyped, bookVars
<1>3. PollersTyped'
  <2>1. todo' \in [Pollers -> SUBSET Invoices]
      BY DEF PollersTyped
  <2>2. asking' \in [Pollers -> Invoices \cup {None}]
      BY DEF PollersTyped
  <2>3. answer' \in [Pollers -> {"none", "open"} \cup Final]
      BY DEF PollersTyped, InvoicesTyped
  <2> QED BY <2>1, <2>2, <2>3 DEF PollersTyped
<1>4. AnswerTrue'
    BY <1>1, NamesDiffer DEF AnswerTrue, PollersTyped, invoiceVars
<1>5. BooksTyped' /\ NeverOverdrawn' /\ CreditedOnce' /\ OnlyPaidCredited'
    BY <1>1, <1>2 DEF BooksTyped, NeverOverdrawn, CreditedOnce, OnlyPaidCredited, invoiceVars
<1>6. SessionsTyped' /\ InvoicesTyped' /\ TalkerKnown' /\ OneBlockAhead' /\ BuyerKnown'
    BY <1>1 DEF SessionsTyped, InvoicesTyped, TalkerKnown, OneBlockAhead, BuyerKnown,
                sessionVars, invoiceVars
<1> QED BY <1>3, <1>4, <1>5, <1>6

\* _credit(): the gate lets the minutes of a row through once.
LEMMA InvApplyPaid ==
    ASSUME IInv, NEW p \in Pollers, ApplyPaid(p)
    PROVE  IInv'
<1> USE DEF IInv, TypeOK
<1> DEFINE i == asking[p]
<1>1. i \in Invoices /\ remote[i] = "paid" /\ buyer[i] \in Students
    BY DEF ApplyPaid, AnswerTrue, PollersTyped, BuyerKnown
<1>2. balance[buyer[i]] + PackageSeconds \in Nat
    BY <1>1, AmountsAreNaturals DEF NeverOverdrawn, BooksTyped
<1>3. UNCHANGED <<sessionVars, remote, checkout, buyer, old, todo, corrected, corrections, faults>>
    BY DEF ApplyPaid
<1>4. PollersTyped' /\ AnswerTrue'
    BY <1>3 DEF ApplyPaid, PollersTyped, AnswerTrue
<1>5. SessionsTyped' /\ TalkerKnown' /\ OneBlockAhead'
    BY <1>3 DEF SessionsTyped, TalkerKnown, OneBlockAhead, sessionVars
<1>6. CASE ~Creditable(i)
  <2>1. UNCHANGED <<invoice, balance, credits>>
      BY <1>6 DEF ApplyPaid
  <2> QED
      BY <2>1, <1>3, <1>4, <1>5 DEF InvoicesTyped, BooksTyped, NeverOverdrawn, BuyerKnown, CreditedOnce,
                                    OnlyPaidCredited
<1>7. CASE Creditable(i)
  <2>1. /\ invoice' = [invoice EXCEPT ![i] = "paid"]
        /\ balance' = [balance EXCEPT ![buyer[i]] = @ + PackageSeconds]
        /\ credits' = [credits EXCEPT ![i] = @ + 1]
      BY <1>7 DEF ApplyPaid
  <2>2. credits[i] = 0
      BY <1>1, <1>7 DEF CreditedOnce, Creditable
  <2>3. InvoicesTyped' /\ BuyerKnown'
      BY <1>1, <1>3, <1>7, <2>1 DEF InvoicesTyped, BuyerKnown, Creditable, Final
  <2>4. balance' \in [Students -> Int] /\ credits' \in [Invoices -> Nat]
      BY <1>1, <1>2, <2>1, <2>2 DEF BooksTyped
  <2>5. BooksTyped'
      BY <2>4, <1>3 DEF BooksTyped
  <2>6. NeverOverdrawn'
      BY <1>1, <1>2, <2>1 DEF NeverOverdrawn, BooksTyped
  <2>7. CreditedOnce'
      BY <1>1, <2>1, <2>2 DEF CreditedOnce, BooksTyped, InvoicesTyped
  <2>8. OnlyPaidCredited'
      BY <1>1, <1>3, <2>1 DEF OnlyPaidCredited, BooksTyped
  <2> QED BY <1>4, <1>5, <2>3, <2>5, <2>6, <2>7, <2>8
<1> QED BY <1>6, <1>7

\* Any other answer cancels a pending row at most.
LEMMA InvApplyOther ==
    ASSUME IInv, NEW p \in Pollers, ApplyOther(p)
    PROVE  IInv'
<1> USE DEF IInv, TypeOK
<1> DEFINE i == asking[p]
<1>1. i \in Invoices
    BY DEF ApplyOther, PollersTyped
<1>2. UNCHANGED <<balance, sessionVars, remote, checkout, buyer, old, todo, bookVars>>
    BY DEF ApplyOther
<1>3. PollersTyped' /\ AnswerTrue'
    BY <1>2 DEF ApplyOther, PollersTyped, AnswerTrue
<1>4. SessionsTyped' /\ TalkerKnown' /\ OneBlockAhead' /\ BooksTyped' /\ NeverOverdrawn' /\ OnlyPaidCredited'
    BY <1>2 DEF SessionsTyped, TalkerKnown, OneBlockAhead, BooksTyped, NeverOverdrawn, OnlyPaidCredited,
                sessionVars, bookVars
<1>5. invoice'[i] = invoice[i] \/ (invoice[i] = "pending" /\ invoice'[i] = "canceled")
  <2>1. CASE answer[p] = "canceled" /\ invoice[i] = "pending"
      BY <1>1, <2>1 DEF ApplyOther, InvoicesTyped
  <2>2. CASE ~(answer[p] = "canceled" /\ invoice[i] = "pending")
      BY <1>1, <2>2 DEF ApplyOther, InvoicesTyped
  <2> QED BY <2>1, <2>2
<1>6. InvoicesTyped' /\ BuyerKnown'
    BY <1>1, <1>2 DEF ApplyOther, InvoicesTyped, BuyerKnown, Final
<1>7. \A j \in Invoices : (invoice'[j] = "paid") <=> (invoice[j] = "paid")
    BY <1>1, <1>5 DEF ApplyOther, InvoicesTyped
<1>8. CreditedOnce'
    BY <1>2, <1>7 DEF CreditedOnce, bookVars
<1> QED BY <1>3, <1>4, <1>6, <1>8

\* A crash forgets what handlers and pollers held and touches no row.
LEMMA InvCrash ==
    ASSUME IInv, Crash
    PROVE  IInv'
<1> USE DEF IInv, TypeOK
<1>1. UNCHANGED <<balance, talker, reserved, elapsed, recorded, remote, buyer, invoice, old,
                  corrected, credits, corrections>>
    BY DEF Crash
<1>2. SessionsTyped' /\ TalkerKnown' /\ OneBlockAhead'
    BY <1>1 DEF Crash, SessionsTyped, TalkerKnown, OneBlockAhead, Open, Closed
<1>3. InvoicesTyped' /\ BuyerKnown'
    BY <1>1 DEF Crash, InvoicesTyped, BuyerKnown
<1>4. PollersTyped' /\ AnswerTrue'
    BY DEF Crash, PollersTyped, AnswerTrue
<1>5. BooksTyped' /\ NeverOverdrawn' /\ CreditedOnce' /\ OnlyPaidCredited'
    BY <1>1, AmountsAreNaturals DEF Crash, BooksTyped, NeverOverdrawn, CreditedOnce, OnlyPaidCredited
<1> QED BY <1>2, <1>3, <1>4, <1>5

\* Every step keeps the invariant.
LEMMA InvNext == IInv /\ [Next]_vars => IInv'
<1> SUFFICES ASSUME IInv, [Next]_vars PROVE IInv'
    OBVIOUS
<1>1. CASE SessionStep
    BY <1>1, InvConnect, InvMeter, InvRefund, InvSession DEF SessionStep
<1>2. CASE InvoiceStep
    BY <1>2, InvInvoice DEF InvoiceStep
<1>3. CASE CorrectStep
    BY <1>3, InvCorrect DEF CorrectStep
<1>4. CASE Crash
    BY <1>4, InvCrash
<1>5. ASSUME NEW p \in Pollers, PollStep(p) PROVE IInv'
    BY <1>5, InvAsk, InvApplyPaid, InvApplyOther DEF PollStep
<1>6. CASE UNCHANGED vars
    BY <1>6 DEF vars, sessionVars, invoiceVars, pollVars, bookVars, IInv, TypeOK, SessionsTyped,
                InvoicesTyped, PollersTyped, BooksTyped, NeverOverdrawn, TalkerKnown, BuyerKnown,
                AnswerTrue, CreditedOnce, OnlyPaidCredited, OneBlockAhead
<1> QED BY <1>1, <1>2, <1>3, <1>4, <1>5, <1>6 DEF Next

\* The invariant holds throughout.
LEMMA Invariance == Spec => []IInv
BY InvInit, InvNext, PTL DEF Spec

\* Every variable keeps its type: app/billing.py writes no status it does not know.
THEOREM TypeCorrect == Spec => []TypeOK
<1>1. IInv => TypeOK
    BY DEF IInv
<1> QED BY <1>1, Invariance, PTL

\* However many tabs, blocks, refunds and corrections meet, no balance goes below zero.
THEOREM BalanceNeverOverdrawn == Spec => []NeverOverdrawn
<1>1. IInv => NeverOverdrawn
    BY DEF IInv
<1> QED BY <1>1, Invariance, PTL

\* The minutes of an invoice are added exactly once, with any number of pollers.
THEOREM InvoicesCreditedOnce == Spec => []CreditedOnce
<1>1. IInv => CreditedOnce
    BY DEF IInv
<1> QED BY <1>1, Invariance, PTL

\* Minutes are added for invoices PayLink has seen paid, and no others.
THEOREM CreditedWhenPaid == Spec => []OnlyPaidCredited
<1>1. IInv => OnlyPaidCredited
    BY DEF IInv
<1> QED BY <1>1, Invariance, PTL

\* A session costs at most one block more than its talk, whatever stops it.
THEOREM LossIsBounded == Spec => []LossBounded
<1>1. IInv => LossBounded
  <2> SUFFICES ASSUME IInv, NEW s \in Sessions PROVE Charge(s) <= elapsed[s] + Block
      BY DEF LossBounded
  <2> USE AmountsAreNaturals DEF IInv, TypeOK
  <2>1. reserved[s] \in Nat /\ elapsed[s] \in Nat
      BY DEF SessionsTyped
  <2>2. CASE session[s] \in Open \cup {"lost"}
      BY <2>1, <2>2 DEF Charge, OneBlockAhead, Open
  <2>3. CASE session[s] \in {"refunded", "done"}
    <3>1. Charge(s) = Used(s)
        BY <2>3 DEF Charge, Open
    <3> QED BY <3>1, <2>1, UsedBounds
  <2>4. CASE session[s] \in {"idle", "refused"}
    <3>1. Charge(s) = 0
        BY <2>4 DEF Charge, Open
    <3> QED BY <3>1, <2>1
  <2> QED BY <2>2, <2>3, <2>4 DEF SessionsTyped, Open, Closed
<1> QED BY <1>1, Invariance, PTL

----------------------------------------------------------------------------
(* Conservation: sums over the sessions and the invoices of a student *)

\* The pieces of one member are as many as its amount.
LEMMA PieceCount ==
    ASSUME NEW x, NEW n \in Nat
    PROVE  IsFiniteSet({x} \X (1..n)) /\ Cardinality({x} \X (1..n)) = n
<1>1. IsFiniteSet({x}) /\ Cardinality({x}) = 1
    BY FS_Singleton
<1>2. IsFiniteSet(1..n) /\ Cardinality(1..n) = n
    BY FS_Interval
<1>3. /\ IsFiniteSet({x} \X (1..n))
      /\ Cardinality({x} \X (1..n)) = Cardinality({x}) * Cardinality(1..n)
    BY <1>1, <1>2, FS_Product
<1> QED BY <1>1, <1>2, <1>3

\* The pieces of finitely many members are finitely many.
LEMMA PiecesFinite ==
    ASSUME NEW S, IsFiniteSet(S), NEW amount \in [S -> Nat]
    PROVE  IsFiniteSet(UNION {{x} \X (1..amount[x]) : x \in S})
<1> DEFINE T == {{x} \X (1..amount[x]) : x \in S}
           f == [x \in S |-> {x} \X (1..amount[x])]
<1>1. f \in Surjection(S, T)
    BY DEF Surjection
<1>2. IsFiniteSet(T)
    BY <1>1, FS_Surjection
<1>3. ASSUME NEW x \in S PROVE IsFiniteSet({x} \X (1..amount[x]))
  <2>1. amount[x] \in Nat
      BY <1>3
  <2> QED BY <2>1, PieceCount
<1>4. \A P \in T : IsFiniteSet(P)
    BY <1>3
<1> QED BY <1>2, <1>4, FS_UNION

\* One member's amount is told apart from the amounts of the others.
LEMMA TotalApart ==
    ASSUME NEW S, IsFiniteSet(S), NEW amount \in [S -> Nat], NEW x \in S
    PROVE  /\ Total(S, amount) = amount[x] + Cardinality(UNION {{y} \X (1..amount[y]) : y \in S \ {x}})
           /\ Total(S, amount) \in Nat
           /\ Cardinality(UNION {{y} \X (1..amount[y]) : y \in S \ {x}}) \in Nat
<1> DEFINE One == {x} \X (1..amount[x])
           Others == UNION {{y} \X (1..amount[y]) : y \in S \ {x}}
           All == UNION {{y} \X (1..amount[y]) : y \in S}
<1>1. IsFiniteSet(All)
    BY PiecesFinite
<1>2. All = One \cup Others
    OBVIOUS
<1>3. One \cap Others = {}
    OBVIOUS
<1>4. IsFiniteSet(One) /\ Cardinality(One) = amount[x]
    BY PieceCount
<1>5. Others \in SUBSET All
    OBVIOUS
<1>6. IsFiniteSet(Others)
    BY <1>1, <1>5, FS_Subset
<1>7. Cardinality(All) \in Nat /\ Cardinality(Others) \in Nat
    BY <1>1, <1>6, FS_CardinalityType
<1>8. Cardinality(One \cup Others) = Cardinality(One) + Cardinality(Others) - Cardinality(One \cap Others)
    BY <1>4, <1>6, FS_Union
<1>9. Cardinality(All) = amount[x] + Cardinality(Others)
  <2> HIDE DEF One, Others, All
  <2>1. Cardinality(One \cap Others) = 0
      BY <1>3, FS_EmptySet
  <2> QED BY <1>2, <1>4, <1>7, <1>8, <2>1
<1> QED BY <1>7, <1>9 DEF Total

\* When one member's amount changes, the sum changes by as much.
LEMMA TotalMoves ==
    ASSUME NEW S, IsFiniteSet(S), NEW a \in [S -> Nat], NEW b \in [S -> Nat], NEW x \in S,
           \A y \in S \ {x} : b[y] = a[y]
    PROVE  Total(S, b) = Total(S, a) - a[x] + b[x] /\ Total(S, a) \in Nat
<1> DEFINE Others(c) == UNION {{y} \X (1..c[y]) : y \in S \ {x}}
<1>1. {{y} \X (1..a[y]) : y \in S \ {x}} = {{y} \X (1..b[y]) : y \in S \ {x}}
    OBVIOUS
<1>2. Cardinality(Others(a)) = Cardinality(Others(b))
    BY <1>1
<1>3. Total(S, a) = a[x] + Cardinality(Others(a)) /\ Total(S, a) \in Nat /\ Cardinality(Others(a)) \in Nat
    BY TotalApart
<1>4. Total(S, b) = b[x] + Cardinality(Others(b))
    BY TotalApart
<1>5. a[x] \in Nat /\ b[x] \in Nat
    OBVIOUS
<1> HIDE DEF Others
<1> QED BY <1>2, <1>3, <1>4, <1>5

\* Nobody has anything: the sum is zero.
LEMMA TotalZero ==
    ASSUME NEW S, NEW amount, \A x \in S : amount[x] = 0
    PROVE  Total(S, amount) = 0
<1>1. 1..0 = {}
    OBVIOUS
<1>2. \A x \in S : {x} \X (1..amount[x]) = {}
    BY <1>1
<1>3. UNION {{x} \X (1..amount[x]) : x \in S} = {}
    BY <1>2
<1> QED BY <1>3, FS_EmptySet DEF Total

\* What a session costs, by where its handler is.
LEMMA ChargeOf ==
    SessionsTyped =>
        \A s \in Sessions :
            /\ Charge(s) \in Nat /\ Used(s) \in Nat /\ Used(s) <= reserved[s]
            /\ session[s] \in {"reserved", "talking", "lost"} => Charge(s) = reserved[s]
            /\ session[s] \in {"refunded", "done"} => Charge(s) = Used(s)
            /\ session[s] \in {"idle", "refused"} => Charge(s) = 0
<1> SUFFICES ASSUME SessionsTyped, NEW s \in Sessions
             PROVE  /\ Charge(s) \in Nat /\ Used(s) \in Nat /\ Used(s) <= reserved[s]
                    /\ session[s] \in {"reserved", "talking", "lost"} => Charge(s) = reserved[s]
                    /\ session[s] \in {"refunded", "done"} => Charge(s) = Used(s)
                    /\ session[s] \in {"idle", "refused"} => Charge(s) = 0
    OBVIOUS
<1>1. reserved[s] \in Nat /\ elapsed[s] \in Nat
    BY DEF SessionsTyped
<1>2. Used(s) \in Nat /\ Used(s) <= reserved[s]
    BY <1>1, UsedBounds
<1>3. session[s] \in {"reserved", "talking", "lost"} => Charge(s) = reserved[s]
    BY DEF Charge, Open
<1>4. session[s] \in {"refunded", "done"} => Charge(s) = Used(s)
    BY DEF Charge, Open
<1>5. session[s] \in {"idle", "refused"} => Charge(s) = 0
    BY DEF Charge, Open
<1>6. session[s] \in {"reserved", "talking", "lost", "refunded", "done", "idle", "refused"}
    BY DEF SessionsTyped, Open, Closed
<1> QED BY <1>1, <1>2, <1>3, <1>4, <1>5, <1>6

\* The same of the next state.
LEMMA ChargeNext ==
    SessionsTyped' =>
        (\A s \in Sessions :
            /\ Charge(s) \in Nat /\ Used(s) \in Nat /\ Used(s) <= reserved[s]
            /\ session[s] \in {"reserved", "talking", "lost"} => Charge(s) = reserved[s]
            /\ session[s] \in {"refunded", "done"} => Charge(s) = Used(s)
            /\ session[s] \in {"idle", "refused"} => Charge(s) = 0)'
BY ChargeOf, PTL

\* What a student's sessions cost moves with the one session that moves.
LEMMA SpentMoves ==
    ASSUME SessionsTyped, SessionsTyped', NEW s \in Sessions, NEW u \in Students,
           \A r \in Sessions \ {s} : talker'[r] = talker[r] /\ Charge(r)' = Charge(r)
    PROVE  /\ Spent(u)' = Spent(u) - (IF talker[s] = u THEN Charge(s) ELSE 0)
                                   + (IF talker'[s] = u THEN Charge(s)' ELSE 0)
           /\ Spent(u) \in Nat
<1> DEFINE a == [r \in Sessions |-> IF talker[r] = u THEN Charge(r) ELSE 0]
           b == [r \in Sessions |-> IF talker'[r] = u THEN Charge(r)' ELSE 0]
<1>1. a \in [Sessions -> Nat]
    BY ChargeOf
<1>2. b \in [Sessions -> Nat]
    BY ChargeNext
<1>3. \A r \in Sessions \ {s} : b[r] = a[r]
    OBVIOUS
<1>4. Total(Sessions, b) = Total(Sessions, a) - a[s] + b[s] /\ Total(Sessions, a) \in Nat
    BY <1>1, <1>2, <1>3, SetsAreFinite, TotalMoves
<1>5. Spent(u) = Total(Sessions, a)
    BY DEF Spent
<1>6. Spent(u)' = Total(Sessions, b)
    BY DEF Spent, Total
<1> QED BY <1>4, <1>5, <1>6

\* Nothing a session costs moves.
LEMMA SpentStays ==
    ASSUME NEW u, \A s \in Sessions : talker'[s] = talker[s] /\ Charge(s)' = Charge(s)
    PROVE  Spent(u)' = Spent(u)
<1> DEFINE a == [r \in Sessions |-> IF talker[r] = u THEN Charge(r) ELSE 0]
           b == [r \in Sessions |-> IF talker'[r] = u THEN Charge(r)' ELSE 0]
<1>1. a = b
    OBVIOUS
<1>2. Spent(u) = Total(Sessions, a)
    BY DEF Spent
<1>3. Spent(u)' = Total(Sessions, b)
    BY DEF Spent, Total
<1> QED BY <1>1, <1>2, <1>3

\* No invoice is credited, and the ones that were keep their buyers.
LEMMA BoughtStays ==
    ASSUME NEW u, credits' = credits, \A i \in Invoices : credits[i] # 0 => buyer'[i] = buyer[i],
           credits \in [Invoices -> Nat]
    PROVE  Bought(u)' = Bought(u)
<1> DEFINE a == [i \in Invoices |-> IF buyer[i] = u THEN PackageSeconds * credits[i] ELSE 0]
           b == [i \in Invoices |-> IF buyer'[i] = u THEN PackageSeconds * credits'[i] ELSE 0]
<1>1. PackageSeconds * 0 = 0
    BY AmountsAreNaturals
<1>2. \A i \in Invoices : a[i] = b[i]
    BY <1>1
<1>3. a = b
    BY <1>2
<1>4. Bought(u) = Total(Invoices, a)
    BY DEF Bought
<1>5. Bought(u)' = Total(Invoices, b)
    BY DEF Bought, Total
<1> QED BY <1>3, <1>4, <1>5

\* The one invoice credited adds a package to what its buyer bought.
LEMMA BoughtMoves ==
    ASSUME NEW u \in Students, NEW i \in Invoices, credits \in [Invoices -> Nat], credits[i] = 0,
           credits' = [credits EXCEPT ![i] = 1], buyer' = buyer
    PROVE  /\ Bought(u)' = Bought(u) + (IF buyer[i] = u THEN PackageSeconds ELSE 0)
           /\ Bought(u) \in Nat
<1> DEFINE a == [j \in Invoices |-> IF buyer[j] = u THEN PackageSeconds * credits[j] ELSE 0]
           b == [j \in Invoices |-> IF buyer'[j] = u THEN PackageSeconds * credits'[j] ELSE 0]
<1>1. credits' \in [Invoices -> Nat]
    OBVIOUS
<1>2. \A n \in Nat : PackageSeconds * n \in Nat
    BY AmountsAreNaturals
<1>3. a \in [Invoices -> Nat]
    BY <1>2
<1>4. b \in [Invoices -> Nat]
    BY <1>1, <1>2
<1>5. \A j \in Invoices \ {i} : b[j] = a[j]
    OBVIOUS
<1>6. Total(Invoices, b) = Total(Invoices, a) - a[i] + b[i] /\ Total(Invoices, a) \in Nat
    BY <1>3, <1>4, <1>5, SetsAreFinite, TotalMoves
<1>7. a[i] = 0 /\ b[i] = (IF buyer[i] = u THEN PackageSeconds ELSE 0)
    BY AmountsAreNaturals
<1>8. Bought(u) = Total(Invoices, a)
    BY DEF Bought
<1>9. Bought(u)' = Total(Invoices, b)
    BY DEF Bought, Total
<1>10. (IF buyer[i] = u THEN PackageSeconds ELSE 0) \in Nat
    BY AmountsAreNaturals
<1> HIDE DEF a, b
<1> QED BY <1>6, <1>7, <1>8, <1>9, <1>10

\* A session's step: its student pays what the session's charge rises by, and only a
\* session that has cost nothing yet gets a student.
LEMMA ConservedBySession ==
    ASSUME IInv, IInv', Conservation, NEW s \in Sessions, NEW u \in Students,
           talker' = [talker EXCEPT ![s] = u],
           talker[s] = u \/ Charge(s) = 0,
           \A r \in Sessions \ {s} : Charge(r)' = Charge(r),
           balance' = [balance EXCEPT ![u] = @ - (Charge(s)' - Charge(s))],
           UNCHANGED <<buyer, corrected, credits>>
    PROVE  Conservation'
<1> SUFFICES ASSUME NEW v \in Students
             PROVE  balance'[v] + Spent(v)' = FreeSeconds + corrected'[v] + Bought(v)'
    BY DEF Conservation
<1> USE DEF IInv, TypeOK
<1>1. talker'[s] = u /\ \A r \in Sessions \ {s} : talker'[r] = talker[r]
    BY DEF SessionsTyped
<1>2. /\ Spent(v)' = Spent(v) - (IF talker[s] = v THEN Charge(s) ELSE 0)
                              + (IF talker'[s] = v THEN Charge(s)' ELSE 0)
      /\ Spent(v) \in Nat
    BY <1>1, SpentMoves
<1>3. Bought(v)' = Bought(v)
    BY BoughtStays DEF BooksTyped
<1>4. Charge(s) \in Nat /\ Charge(s)' \in Nat /\ balance[v] \in Int
    BY ChargeOf, ChargeNext DEF BooksTyped
<1>5. balance[v] + Spent(v) = FreeSeconds + corrected[v] + Bought(v)
    BY DEF Conservation
<1>6. balance'[v] + Spent(v)' = balance[v] + Spent(v)
  <2>1. CASE v = u
    <3>1. balance'[v] = balance[v] - (Charge(s)' - Charge(s))
        BY <2>1 DEF BooksTyped
    <3>2. Spent(v)' = Spent(v) - Charge(s) + Charge(s)'
        BY <1>1, <1>2, <1>4, <2>1
    <3> QED BY <1>2, <1>4, <3>1, <3>2
  <2>2. CASE v # u
    <3>1. balance'[v] = balance[v]
        BY <2>2 DEF BooksTyped
    <3>2. Spent(v)' = Spent(v)
        BY <1>1, <1>2, <1>4, <2>2
    <3> QED BY <3>1, <3>2
  <2> QED BY <2>1, <2>2
<1> QED BY <1>3, <1>5, <1>6

\* A step that moves no balance, no charge and no credit.
LEMMA ConservedByRest ==
    ASSUME IInv, Conservation, UNCHANGED <<balance, corrected, credits>>,
           \A s \in Sessions : talker'[s] = talker[s] /\ Charge(s)' = Charge(s),
           \A i \in Invoices : credits[i] # 0 => buyer'[i] = buyer[i]
    PROVE  Conservation'
<1> SUFFICES ASSUME NEW u \in Students
             PROVE  balance'[u] + Spent(u)' = FreeSeconds + corrected'[u] + Bought(u)'
    BY DEF Conservation
<1>1. Spent(u)' = Spent(u)
    BY SpentStays
<1>2. Bought(u)' = Bought(u)
    BY BoughtStays DEF IInv, TypeOK, BooksTyped
<1> QED BY <1>1, <1>2 DEF Conservation

\* Connecting, the meter and the refund: what is taken off is reserved, what is given
\* back was reserved and not used.
LEMMA ConservedByReserving ==
    ASSUME IInv, IInv', Conservation, NEW s \in Sessions,
           (\E u \in Students : Connect(s, u)) \/ MeterBlock(s) \/ Refund(s)
    PROVE  Conservation'
<1> USE DEF IInv, TypeOK
<1>1. reserved[s] \in Nat /\ elapsed[s] \in Nat /\ Charge(s) \in Nat
      /\ Used(s) \in Nat /\ Used(s) <= reserved[s]
    BY ChargeOf DEF SessionsTyped
<1>2. ASSUME \A r \in Sessions \ {s} : session'[r] = session[r] /\ reserved'[r] = reserved[r]
                                       /\ elapsed'[r] = elapsed[r]
      PROVE  \A r \in Sessions \ {s} : Charge(r)' = Charge(r)
    BY <1>2 DEF Charge, Used
<1>3. ASSUME NEW u \in Students, Connect(s, u) PROVE Conservation'
  <2>1. Granted(u) \in Nat
      BY GrantedBounds DEF BooksTyped, NeverOverdrawn
  <2>2. Charge(s) = 0
      BY <1>3, ChargeOf DEF Connect
  <2>3. Charge(s)' = Granted(u)
    <3>1. reserved'[s] = Granted(u)
        BY <1>3 DEF Connect, SessionsTyped
    <3>2. CASE Granted(u) > 0
      <4>1. session'[s] = "reserved"
          BY <1>3, <3>2 DEF Connect, SessionsTyped
      <4> QED BY <3>1, <4>1, ChargeNext
    <3>3. CASE ~(Granted(u) > 0)
      <4>1. session'[s] = "refused"
          BY <1>3, <3>3 DEF Connect, SessionsTyped
      <4> QED BY <2>1, <3>3, <4>1, ChargeNext
    <3> QED BY <3>2, <3>3
  <2>4. \A r \in Sessions \ {s} : Charge(r)' = Charge(r)
      BY <1>2, <1>3 DEF Connect, SessionsTyped
  <2>5. balance' = [balance EXCEPT ![u] = @ - (Charge(s)' - Charge(s))]
    <3>1. Charge(s)' - Charge(s) = Granted(u)
        BY <2>1, <2>2, <2>3
    <3> QED BY <1>3, <3>1 DEF Connect
  <2>6. talker' = [talker EXCEPT ![s] = u] /\ UNCHANGED <<buyer, corrected, credits>>
      BY <1>3 DEF Connect, invoiceVars, bookVars
  <2> QED BY <2>2, <2>4, <2>5, <2>6, ConservedBySession
<1>4. CASE MeterBlock(s)
  <2>1. PICK u \in Students : u = talker[s]
      BY <1>4 DEF MeterBlock, MeterDue, TalkerKnown
  <2>2. Granted(u) \in Nat
      BY GrantedBounds DEF BooksTyped, NeverOverdrawn
  <2>3. Charge(s) = reserved[s]
      BY <1>4, ChargeOf DEF MeterBlock, MeterDue
  <2>4. Charge(s)' = reserved[s] + Granted(u)
    <3>1. reserved'[s] = reserved[s] + Granted(u) /\ session'[s] = "talking"
        BY <1>4, <2>1 DEF MeterBlock, MeterDue, SessionsTyped
    <3> QED BY <3>1, ChargeNext
  <2>5. \A r \in Sessions \ {s} : Charge(r)' = Charge(r)
      BY <1>2, <1>4 DEF MeterBlock, SessionsTyped
  <2>6. Charge(s)' - Charge(s) = Granted(u)
      BY <1>1, <2>2, <2>3, <2>4
  <2>7. balance' = [balance EXCEPT ![u] = @ - (Charge(s)' - Charge(s))]
      BY <1>4, <2>1, <2>6 DEF MeterBlock
  <2>8. talker' = [talker EXCEPT ![s] = u] /\ UNCHANGED <<buyer, corrected, credits>>
      BY <1>4, <2>1 DEF MeterBlock, invoiceVars, bookVars, SessionsTyped
  <2> QED BY <2>1, <2>5, <2>7, <2>8, ConservedBySession
<1>5. CASE Refund(s)
  <2>1. PICK u \in Students : u = talker[s]
      BY <1>5 DEF Refund, TalkerKnown
  <2>2. balance[u] \in Int /\ balance[u] >= 0
      BY DEF BooksTyped, NeverOverdrawn
  <2>3. Charge(s) = reserved[s]
      BY <1>5, ChargeOf DEF Refund
  <2>4. Charge(s)' = Used(s)
    <3>1. session'[s] = "refunded" /\ Used(s)' = Used(s)
        BY <1>5 DEF Refund, SessionsTyped, Used
    <3> QED BY <3>1, ChargeNext
  <2>5. \A r \in Sessions \ {s} : Charge(r)' = Charge(r)
      BY <1>2, <1>5 DEF Refund, SessionsTyped
  <2>6. Larger(0, balance[u] + (reserved[s] - Used(s))) = balance[u] - (Charge(s)' - Charge(s))
      BY <1>1, <2>2, <2>3, <2>4 DEF Larger
  <2>7. balance' = [balance EXCEPT ![u] = @ - (Charge(s)' - Charge(s))]
      BY <1>5, <2>1, <2>6 DEF Refund
  <2>8. talker' = [talker EXCEPT ![s] = u] /\ UNCHANGED <<buyer, corrected, credits>>
      BY <1>5, <2>1 DEF Refund, invoiceVars, bookVars, SessionsTyped
  <2> QED BY <2>1, <2>5, <2>7, <2>8, ConservedBySession
<1> QED BY <1>3, <1>4, <1>5

\* Starting, talking, leaving early, writing the row and a refund that fails change what
\* a session is, not what it has cost.
LEMMA ConservedByTalk ==
    ASSUME IInv, IInv', Conservation, NEW s \in Sessions,
           StartTalk(s) \/ LeaveEarly(s) \/ Second(s) \/ Record(s) \/ RefundFails(s)
    PROVE  Conservation'
<1> USE DEF IInv, TypeOK, StartTalk, LeaveEarly, Second, Record, RefundFails
<1>1. /\ UNCHANGED <<balance, talker, reserved, buyer, corrected, credits>>
      /\ \A r \in Sessions \ {s} : session'[r] = session[r] /\ elapsed'[r] = elapsed[r]
    BY DEF SessionsTyped, invoiceVars, bookVars
<1>2. \A r \in Sessions \ {s} : Charge(r)' = Charge(r)
    BY <1>1 DEF Charge, Used
<1>3. \/ /\ session[s] \in {"reserved", "talking"}
         /\ session'[s] \in {"talking", "lost"}
      \/ session[s] = "refunded" /\ session'[s] = "done" /\ UNCHANGED elapsed
    BY DEF SessionsTyped
<1>4. Charge(s)' = Charge(s)
  <2>1. CASE session[s] \in {"reserved", "talking"} /\ session'[s] \in {"talking", "lost"}
    <3>1. Charge(s) = reserved[s]
        BY <2>1, ChargeOf
    <3>2. Charge(s)' = reserved'[s]
        BY <2>1, ChargeNext
    <3> QED BY <1>1, <3>1, <3>2
  <2>2. CASE session[s] = "refunded" /\ session'[s] = "done" /\ UNCHANGED elapsed
    <3>1. Used(s)' = Used(s)
        BY <1>1, <2>2 DEF Used
    <3> QED BY <2>2, <3>1, ChargeOf, ChargeNext
  <2> QED BY <1>3, <2>1, <2>2
<1>5. \A r \in Sessions : talker'[r] = talker[r] /\ Charge(r)' = Charge(r)
    BY <1>1, <1>2, <1>4
<1> QED BY <1>1, <1>5, ConservedByRest

\* Both sums are numbers.
LEMMA SpentTyped ==
    ASSUME SessionsTyped, NEW u
    PROVE  Spent(u) \in Int
<1>1. [s \in Sessions |-> IF talker[s] = u THEN Charge(s) ELSE 0] \in [Sessions -> Nat]
    BY ChargeOf
<1>2. \A s \in Sessions : Spent(u) \in Nat
    BY <1>1, SetsAreFinite, TotalApart DEF Spent
<1>3. Sessions = {} => Spent(u) = 0
    BY TotalZero DEF Spent
<1> QED BY <1>2, <1>3

LEMMA BoughtTyped ==
    ASSUME BooksTyped, NEW u
    PROVE  Bought(u) \in Int
<1>1. \A n \in Nat : PackageSeconds * n \in Nat
    BY AmountsAreNaturals
<1>2. [i \in Invoices |-> IF buyer[i] = u THEN PackageSeconds * credits[i] ELSE 0] \in [Invoices -> Nat]
    BY <1>1 DEF BooksTyped
<1>3. \A i \in Invoices : Bought(u) \in Nat
    BY <1>2, SetsAreFinite, TotalApart DEF Bought
<1>4. Invoices = {} => Bought(u) = 0
    BY TotalZero DEF Bought
<1> QED BY <1>3, <1>4

\* What is added to one side of the books is added to the other.
LEMMA BothSides ==
    ASSUME NEW left \in Int, NEW spent \in Int, NEW free \in Int, NEW given \in Int,
           NEW bought \in Int, NEW d \in Int, left + spent = free + given + bought
    PROVE  /\ (left + d) + spent = free + (given + d) + bought
           /\ (left + d) + spent = free + given + (bought + d)
OBVIOUS

\* A correction changes the balance by what the book says.
LEMMA ConservedByCorrection ==
    ASSUME IInv, Conservation, NEW u \in Students, NEW seconds \in Corrections, Correct(u, seconds)
    PROVE  Conservation'
<1> SUFFICES ASSUME NEW v \in Students
             PROVE  balance'[v] + Spent(v)' = FreeSeconds + corrected'[v] + Bought(v)'
    BY DEF Conservation
<1> USE DEF IInv, TypeOK
<1>1. UNCHANGED <<sessionVars, invoiceVars, credits>>
    BY DEF Correct
<1>2. Spent(v)' = Spent(v)
  <2>1. \A s \in Sessions : talker'[s] = talker[s] /\ Charge(s)' = Charge(s)
      BY <1>1 DEF sessionVars, Charge, Used
  <2> QED BY <2>1, SpentStays
<1>3. Bought(v)' = Bought(v)
    BY <1>1, BoughtStays DEF BooksTyped, invoiceVars
<1>4. Spent(v) \in Int
    BY SpentTyped
<1>5. balance[v] + Spent(v) = FreeSeconds + corrected[v] + Bought(v)
    BY DEF Conservation
<1>6. balance[v] \in Int /\ corrected[v] \in Int /\ FreeSeconds \in Int
    BY AmountsAreNaturals DEF BooksTyped
<1>7. Bought(v) \in Int
    BY BoughtTyped
<1>8. CASE v = u
  <2> DEFINE after == Larger(0, balance[u] + seconds)
  <2>1. after \in Int
      BY <1>6, <1>8, AmountsAreNaturals DEF Larger
  <2>2. balance'[v] = after /\ corrected'[v] = corrected[v] + (after - balance[v])
      BY <1>8 DEF Correct, BooksTyped
  <2> HIDE DEF after
  <2>3. PICK d \in Int : d = after - balance[v]
      BY <1>6, <2>1
  <2>4. balance'[v] = balance[v] + d /\ corrected'[v] = corrected[v] + d
      BY <1>6, <2>1, <2>2, <2>3
  <2>5. (balance[v] + d) + Spent(v) = FreeSeconds + (corrected[v] + d) + Bought(v)
    <3>1. PICK left \in Int, spent \in Int, given \in Int, bought \in Int, free \in Int :
              /\ left = balance[v] /\ spent = Spent(v) /\ given = corrected[v]
              /\ bought = Bought(v) /\ free = FreeSeconds
        BY <1>4, <1>6, <1>7
    <3>2. left + spent = free + given + bought
        BY <1>5, <3>1
    <3>3. (left + d) + spent = free + (given + d) + bought
        BY <3>1, <3>2, <2>3, BothSides
    <3> QED BY <3>1, <3>3
  <2> QED BY <1>2, <1>3, <2>4, <2>5
<1>9. CASE v # u
  <2>1. balance'[v] = balance[v] /\ corrected'[v] = corrected[v]
      BY <1>9 DEF Correct, BooksTyped
  <2> QED BY <1>2, <1>3, <1>5, <2>1
<1> QED BY <1>8, <1>9

\* Checkouts, PayLink's pages and the clock sell nothing yet: an invoice gets its buyer
\* before it can be credited, and keeps that buyer.
LEMMA ConservedByInvoice ==
    ASSUME IInv, Conservation, NEW i \in Invoices,
           \/ \E u \in Students : CheckoutCall(u, i)
           \/ CheckoutStore(i) \/ CheckoutFails(i) \/ Pay(i) \/ RemoteCancel(i) \/ GetOld(i)
    PROVE  Conservation'
<1> USE DEF IInv, TypeOK, CheckoutCall, CheckoutStore, CheckoutFails, Pay, RemoteCancel, GetOld
<1>1. UNCHANGED <<balance, sessionVars, corrected, credits>>
    BY DEF bookVars
<1>2. \A s \in Sessions : talker'[s] = talker[s] /\ Charge(s)' = Charge(s)
    BY <1>1 DEF sessionVars, Charge, Used
<1>3. \A j \in Invoices : credits[j] # 0 => buyer'[j] = buyer[j]
  <2> SUFFICES ASSUME NEW j \in Invoices, credits[j] # 0 PROVE buyer'[j] = buyer[j]
      OBVIOUS
  <2>1. remote[j] # "none"
      BY DEF CreditedOnce, BuyerKnown
  <2>2. CASE UNCHANGED buyer
      BY <2>2
  <2>3. CASE remote[i] = "none" /\ \E u \in Students : buyer' = [buyer EXCEPT ![i] = u]
      BY <2>1, <2>3 DEF InvoicesTyped
  <2> QED BY <2>2, <2>3
<1> QED BY <1>1, <1>2, <1>3, ConservedByRest

\* _credit() adds the package to the balance and to what was bought.
LEMMA ConservedByCredit ==
    ASSUME IInv, Conservation, NEW p \in Pollers, ApplyPaid(p)
    PROVE  Conservation'
<1> USE DEF IInv, TypeOK
<1>1. PICK i \in Invoices : i = asking[p] /\ buyer[i] \in Students
    BY DEF ApplyPaid, AnswerTrue, PollersTyped, BuyerKnown
<1>2. UNCHANGED <<sessionVars, buyer, corrected>>
    BY DEF ApplyPaid
<1>3. \A s \in Sessions : talker'[s] = talker[s] /\ Charge(s)' = Charge(s)
    BY <1>2 DEF sessionVars, Charge, Used
<1>4. CASE ~Creditable(i)
  <2>1. UNCHANGED <<balance, credits>>
      BY <1>1, <1>4 DEF ApplyPaid
  <2> QED BY <1>2, <1>3, <2>1, ConservedByRest
<1>5. CASE Creditable(i)
  <2>1. /\ balance' = [balance EXCEPT ![buyer[i]] = @ + PackageSeconds]
        /\ credits' = [credits EXCEPT ![i] = @ + 1]
      BY <1>1, <1>5 DEF ApplyPaid
  <2>2. credits[i] = 0
      BY <1>5 DEF CreditedOnce, Creditable
  <2>3. credits' = [credits EXCEPT ![i] = 1] /\ credits \in [Invoices -> Nat]
      BY <2>1, <2>2 DEF BooksTyped
  <2> SUFFICES ASSUME NEW v \in Students
               PROVE  balance'[v] + Spent(v)' = FreeSeconds + corrected'[v] + Bought(v)'
      BY DEF Conservation
  <2>4. Spent(v)' = Spent(v)
      BY <1>3, SpentStays
  <2>5. /\ Bought(v)' = Bought(v) + (IF buyer[i] = v THEN PackageSeconds ELSE 0)
        /\ Bought(v) \in Nat
      BY <1>2, <2>2, <2>3, BoughtMoves
  <2>6. balance[v] + Spent(v) = FreeSeconds + corrected[v] + Bought(v)
      BY DEF Conservation
  <2>7. balance[v] \in Int /\ corrected[v] \in Int /\ FreeSeconds \in Int /\ PackageSeconds \in Int
      BY AmountsAreNaturals DEF BooksTyped
  <2>8. Spent(v) \in Int
      BY SpentTyped
  <2>9. balance'[v] = balance[v] + (IF buyer[i] = v THEN PackageSeconds ELSE 0)
      BY <1>1, <2>1, <2>7 DEF BooksTyped
  <2>10. PICK d \in Int : d = IF buyer[i] = v THEN PackageSeconds ELSE 0
      BY <2>7
  <2>11. (balance[v] + d) + Spent(v) = FreeSeconds + corrected[v] + (Bought(v) + d)
      BY <2>5, <2>6, <2>7, <2>8, BothSides
  <2>12. balance'[v] = balance[v] + d /\ Bought(v)' = Bought(v) + d
      BY <2>5, <2>9, <2>10
  <2> QED BY <1>2, <2>4, <2>11, <2>12
<1> QED BY <1>4, <1>5

\* A crash changes no charge: what was held back is lost, what was refunded stays so.
LEMMA ConservedByCrash ==
    ASSUME IInv, IInv', Conservation, Crash
    PROVE  Conservation'
<1> USE DEF IInv, TypeOK
<1>1. UNCHANGED <<balance, talker, reserved, elapsed, buyer, corrected, credits>>
    BY DEF Crash
<1>2. ASSUME NEW s \in Sessions PROVE Charge(s)' = Charge(s)
  <2>1. Used(s)' = Used(s)
      BY <1>1 DEF Used
  <2>2. CASE session[s] \in {"reserved", "talking"}
    <3>1. session'[s] = "lost"
        BY <2>2 DEF Crash, Open
    <3> QED BY <1>1, <2>2, <3>1, ChargeOf, ChargeNext
  <2>3. CASE session[s] \in {"refunded", "done"}
    <3>1. session'[s] = "done"
        BY <2>3 DEF Crash, Open
    <3> QED BY <2>1, <2>3, <3>1, ChargeOf, ChargeNext
  <2>4. CASE session[s] \in {"idle", "refused", "lost"}
    <3>1. session'[s] = session[s]
        BY <2>4 DEF Crash, Open
    <3> QED BY <1>1, <2>4, <3>1, ChargeOf, ChargeNext
  <2> QED BY <2>2, <2>3, <2>4 DEF SessionsTyped, Open, Closed
<1>3. \A s \in Sessions : talker'[s] = talker[s] /\ Charge(s)' = Charge(s)
    BY <1>1, <1>2
<1> QED BY <1>1, <1>3, ConservedByRest

\* Initially everyone has the free time, and nothing was spent or bought.
LEMMA ConservedInit == Init => Conservation
<1> SUFFICES ASSUME Init, NEW u \in Students
             PROVE  balance[u] + Spent(u) = FreeSeconds + corrected[u] + Bought(u)
    BY DEF Conservation
<1> USE AmountsAreNaturals DEF Init
<1>1. \A s \in Sessions : Charge(s) = 0
    BY DEF Charge, Open
<1>2. Spent(u) = 0
    BY <1>1, TotalZero DEF Spent
<1>3. Bought(u) = 0
    BY TotalZero DEF Bought
<1> QED BY <1>2, <1>3

\* Every step keeps the sums.
LEMMA ConservedNext == IInv /\ Conservation /\ [Next]_vars => Conservation'
<1> SUFFICES ASSUME IInv, Conservation, [Next]_vars PROVE Conservation'
    OBVIOUS
<1>0. IInv'
    BY InvNext
<1>1. CASE SessionStep
    BY <1>0, <1>1, ConservedByReserving, ConservedByTalk DEF SessionStep
<1>2. CASE InvoiceStep
    BY <1>2, ConservedByInvoice DEF InvoiceStep
<1>3. CASE CorrectStep
    BY <1>3, ConservedByCorrection DEF CorrectStep
<1>4. CASE Crash
    BY <1>0, <1>4, ConservedByCrash
<1>5. ASSUME NEW p \in Pollers, PollStep(p) PROVE Conservation'
  <2>1. CASE ApplyPaid(p)
      BY <2>1, ConservedByCredit
  <2>2. CASE ~ApplyPaid(p)
    <3>1. UNCHANGED <<balance, sessionVars, buyer, corrected, credits>>
        BY <1>5, <2>2 DEF PollStep, PollSelect, Ask, AskFails, ApplyFails, ApplyOther, invoiceVars, bookVars
    <3>2. \A s \in Sessions : talker'[s] = talker[s] /\ Charge(s)' = Charge(s)
        BY <3>1 DEF sessionVars, Charge, Used
    <3> QED BY <3>1, <3>2, ConservedByRest
  <2> QED BY <2>1, <2>2
<1>6. CASE UNCHANGED vars
  <2>1. UNCHANGED <<balance, sessionVars, buyer, corrected, credits>>
      BY <1>6 DEF vars, invoiceVars, bookVars
  <2>2. \A s \in Sessions : talker'[s] = talker[s] /\ Charge(s)' = Charge(s)
      BY <2>1 DEF sessionVars, Charge, Used
  <2> QED BY <2>1, <2>2, ConservedByRest
<1> QED BY <1>1, <1>2, <1>3, <1>4, <1>5, <1>6 DEF Next

\* Every second is somewhere: whatever tabs, refunds, corrections, credits and crashes do,
\* a student's balance and the cost of their sessions are what they were given and bought.
THEOREM SecondsConserved == Spec => []Conservation
BY InvNext, ConservedInit, ConservedNext, Invariance, PTL DEF Spec
=============================================================================
